---- MODULE VectorIndex ----
(***************************************************************************)
(* The persisted vector lifecycle of searchable records.  A write changes  *)
(* the record and prepares its index entry in one transaction; the text is *)
(* embedded afterwards, outside of any transaction, and the answer of the  *)
(* provider is adopted only if the entry still has the content hash the    *)
(* work was made for.  Texts stand for their hashes.                       *)
(***************************************************************************)
EXTENDS Naturals, FiniteSets

CONSTANTS Records,        \* searchable records (collection, id)
          Texts,          \* normalized texts that are not empty
          NoText,         \* no vector, no hash
          Blank,          \* a text that is empty once normalized
          Hidden,         \* the record has no search document any more
          Writers,        \* handlers that save records
          BackfillLimit,  \* works processed at startup
          MaxCrashes      \* bound on restarts

ASSUME VectorAssumption ==
    /\ NoText \notin Texts /\ Blank \notin Texts /\ Hidden \notin Texts
    /\ Blank # Hidden /\ NoText # Blank /\ NoText # Hidden
    /\ BackfillLimit \in Nat
    /\ MaxCrashes \in Nat

VARIABLES text,     \* what the record says (NoText: it was never saved)
          index,    \* vector_states and records_vec of the record
          job,      \* the work a writer is processing
          boot,     \* the works processed before the server starts
          phase,    \* down, boot or up
          enabled,  \* EMBEDDING_ENABLED of this process
          skipped,  \* history: the records whose last work was not taken up
          crashes

vars == <<text, index, job, boot, phase, enabled, skipped, crashes>>

State == {"none", "pending", "ready", "stale", "failed"}
Entry == [state : State, hash : Texts \cup {NoText}, vector : Texts \cup {NoText}]
Work == [record : Records, text : Texts]
NoWork == [record |-> NoText, text |-> NoText]

TypeOK ==
    /\ text \in [Records -> Texts \cup {NoText, Blank, Hidden}]
    /\ index \in [Records -> Entry]
    /\ job \in [Writers -> Work \cup {NoWork}]
    /\ boot \in SUBSET Work
    /\ phase \in {"down", "boot", "up"}
    /\ enabled \in BOOLEAN
    /\ skipped \in SUBSET Records
    /\ crashes \in 0..MaxCrashes

Nothing == [state |-> "none", hash |-> NoText, vector |-> NoText]

\* A database of an earlier version has no vector_states, and may have vectors.
Init ==
    /\ text \in [Records -> Texts \cup {NoText, Blank, Hidden}]
    /\ index \in [Records -> {[Nothing EXCEPT !.vector = t] : t \in Texts \cup {NoText}}]
    /\ \A r \in Records : index[r].vector \in {NoText, text[r]}
    /\ job = [w \in Writers |-> NoWork]
    /\ boot = {}
    /\ phase = "down"
    /\ enabled \in BOOLEAN
    /\ skipped = {}
    /\ crashes = 0

---------------------------------------------------------------------------
(* prepare, mark_stale, adopt_ready and the end of process, on one entry.  *)

Current(e, t) == e.state = "ready" /\ e.hash = t /\ e.vector # NoText

Prepared(e, t) ==
    IF t = Blank THEN Nothing
    ELSE IF Current(e, t) THEN e
    ELSE [state  |-> IF e.state # "none" \/ e.vector # NoText THEN "stale" ELSE "pending",
          hash   |-> t,
          vector |-> NoText]

NeedsWork(e, t) == t \in Texts /\ ~Current(e, t)

MarkedStale(e) == [e EXCEPT !.state = IF @ = "none" THEN "none" ELSE "stale",
                            !.vector = NoText]

AdoptedReady(e, t) == IF t = Blank THEN e ELSE [e EXCEPT !.state = "ready", !.hash = t]

Matches(e, t) == e.state # "none" /\ e.hash = t

\* Variant: the content hash is not compared.
EmbeddedAnyHash(e, t) ==
    IF e.state # "none" THEN [e EXCEPT !.state = "ready", !.vector = t] ELSE e

Embedded(e, t) ==
    IF Matches(e, t) THEN [e EXCEPT !.state = "ready", !.vector = t] ELSE e

FailedToEmbed(e, t) == IF Matches(e, t) THEN [e EXCEPT !.state = "failed"] ELSE e

---------------------------------------------------------------------------
\* _upsert: record, search document and index entry in one transaction; the work is
\* processed by the same handler if embeddings are enabled.
Write(w, r, t) ==
    /\ phase = "up"
    /\ job[w] = NoWork
    /\ text' = [text EXCEPT ![r] = t]
    /\ index' = [index EXCEPT ![r] = IF t = Hidden THEN MarkedStale(@) ELSE Prepared(@, t)]
    /\ IF NeedsWork(index[r], t) /\ enabled
       THEN /\ job' = [job EXCEPT ![w] = [record |-> r, text |-> t]]
            /\ skipped' = skipped \ {r}
       ELSE /\ skipped' = IF NeedsWork(index[r], t) THEN skipped \cup {r} ELSE skipped
            /\ UNCHANGED job
    /\ UNCHANGED <<boot, phase, enabled, crashes>>

\* Variant: a failure of the provider is not recorded.
OutcomeUnlessFailed(k) ==
    \/ index' = [index EXCEPT ![k.record] = Embedded(@, k.text)]
    \/ UNCHANGED index

\* The provider answered, or did not: the second transaction of process.
Outcome(k) ==
    \/ index' = [index EXCEPT ![k.record] = Embedded(@, k.text)]
    \/ index' = [index EXCEPT ![k.record] = FailedToEmbed(@, k.text)]

Process(w) ==
    /\ job[w] # NoWork
    /\ Outcome(job[w])
    /\ job' = [job EXCEPT ![w] = NoWork]
    /\ UNCHANGED <<text, boot, phase, enabled, skipped, crashes>>

\* _backfill_vec, its transaction: every record without a state is adopted or prepared.
\* Only the first BackfillLimit works are kept.
Backfilled(r) ==
    IF index[r].state # "none" \/ text[r] \notin Texts \cup {Blank} THEN index[r]
    ELSE IF index[r].vector # NoText THEN AdoptedReady(index[r], text[r])
    ELSE Prepared(index[r], text[r])

Missing == {r \in Records : /\ index[r].state = "none" /\ index[r].vector = NoText
                            /\ text[r] \in Texts}

StartUp ==
    /\ phase = "down"
    /\ phase' = "boot"
    /\ index' = [r \in Records |-> Backfilled(r)]
    /\ \E S \in SUBSET Missing :
          /\ IF enabled
             THEN Cardinality(S) = IF Cardinality(Missing) < BackfillLimit
                                   THEN Cardinality(Missing) ELSE BackfillLimit
             ELSE S = {}
          /\ boot' = {[record |-> r, text |-> text[r]] : r \in S}
          /\ skipped' = (skipped \ S) \cup (Missing \ S)
    /\ UNCHANGED <<text, job, enabled, crashes>>

ProcessBoot ==
    /\ phase = "boot"
    /\ \E k \in boot : Outcome(k) /\ boot' = boot \ {k}
    /\ UNCHANGED <<text, job, phase, enabled, skipped, crashes>>

Serve ==
    /\ phase = "boot" /\ boot = {}
    /\ phase' = "up"
    /\ UNCHANGED <<text, index, job, boot, enabled, skipped, crashes>>

\* The process stops between two transactions; the next one has its own settings.
Crash ==
    /\ crashes < MaxCrashes /\ phase # "down"
    /\ crashes' = crashes + 1
    /\ phase' = "down"
    /\ enabled' \in BOOLEAN
    /\ skipped' = skipped \cup {k.record : k \in (boot \cup {job[w] : w \in Writers}) \ {NoWork}}
    /\ job' = [w \in Writers |-> NoWork]
    /\ boot' = {}
    /\ UNCHANGED <<text, index>>

Next == \/ \E w \in Writers, r \in Records, t \in Texts \cup {Blank, Hidden} : Write(w, r, t)
        \/ \E w \in Writers : Process(w)
        \/ StartUp \/ ProcessBoot \/ Serve \/ Crash

Spec == Init /\ [][Next]_vars

\* embed_text has a timeout: a work that was taken up is finished.
FairSpec == Spec /\ \A w \in Writers : WF_vars(Process(w))

---------------------------------------------------------------------------
(* Properties.                                                             *)

\* A vector that search may return (state READY) embeds what the record says now, and
\* never a text it said before, however late providers answer.
ReadyIsCurrent ==
    \A r \in Records : index[r].state = "ready" =>
        /\ index[r].vector = index[r].hash /\ index[r].vector \in Texts
        /\ text[r] # Hidden => index[r].vector = text[r]

\* Once the server is starting, every record with a text has an entry with its hash.
EveryTextIsTracked ==
    phase # "down" =>
        \A r \in Records : text[r] \in Texts => index[r].state # "none" /\ index[r].hash = text[r]

\* An entry that waits for its vector has a work under way with that very text; the
\* exceptions are the works given up with a process, by the limit or by the setting.
WaitingIsOwed ==
    \A r \in Records \ skipped :
        (text[r] \in Texts /\ index[r].state \in {"pending", "stale"}) =>
            [record |-> r, text |-> text[r]] \in boot \cup {job[w] : w \in Writers}

\* An entry that waits for the vector of a text gets an answer, good or bad, unless the
\* record is changed meanwhile or the work is given up.
WaitingEnds ==
    \A r \in Records, t \in Texts :
        (phase = "up" /\ text[r] = t /\ index[r].state \in {"pending", "stale"})
            ~> (text[r] # t \/ index[r].state \in {"ready", "failed"} \/ r \in skipped)
====
