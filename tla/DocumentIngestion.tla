---- MODULE DocumentIngestion ----
(***************************************************************************)
(* One uploaded document on its way into searchable memory.  The upload's  *)
(* job parses it and writes its summary and chunks, staging until all of   *)
(* them are there; PATCH /documents/{id} replaces the text under the next  *)
(* version and makes the items of other versions stale; POST               *)
(* /documents/{id}/import-to-memory imports the current version again.     *)
(* The job runs on a pool thread, the endpoints on threadpool threads, and *)
(* a step is one store operation.  Items are named by version and slot, as *)
(* their ids are; slot 0 is the summary.                                   *)
(***************************************************************************)
EXTENDS Naturals, FiniteSets

CONSTANTS Texts,       \* document texts
          ChunksOf,    \* how many chunks chunk_text cuts a text into
          MaxChunks,   \* bound on them
          Runner,      \* the pool thread that runs the job
          Editors,     \* clients of PATCH /documents/{id}
          Importers,   \* clients of POST /documents/{id}/import-to-memory
          NoDoc,       \* no document yet
          MaxVersion,  \* bound on edits
          MaxFaults    \* bound on exceptions and restarts

Actors == {Runner} \cup Editors \cup Importers
Versions == 1..MaxVersion
Slots == 0..MaxChunks
Keys == Versions \X Slots

Doc == [version : Versions, text : Texts, expected : 0..MaxChunks, completed : 0..MaxChunks]
Item == [status : {"none", "staging", "active", "stale"}, text : Texts]

ASSUME DocumentAssumption ==
    /\ MaxChunks \in Nat
    /\ Texts # {} /\ ChunksOf \in [Texts -> 0..MaxChunks]
    /\ Runner \notin Editors \cup Importers
    /\ Editors \cap Importers = {}
    /\ NoDoc \notin Doc
    /\ MaxVersion \in Nat \ {0}
    /\ MaxFaults \in Nat

VARIABLES doc,     \* the document record
          items,   \* user memory items of the document, by version and slot
          job,     \* status of the parse job, and the version it is for (0: no document yet)
          pc,      \* where an actor is
          own,     \* the document record an actor holds
          cut,     \* the text whose chunks an actor writes, and how many it has written
          todo,    \* the items an actor is about to save, as it read them
          raced,   \* history: handlers overlapped in a way nothing serializes
          broken,  \* history: a handler ended without its clean-up
          faults   \* exceptions and restarts so far

persistent == <<doc, items, job>>
locals == <<pc, own, cut, todo>>
history == <<raced, broken, faults>>
vars == <<doc, items, job, pc, own, cut, todo, raced, broken, faults>>

TypeOK ==
    /\ doc \in Doc \cup {NoDoc}
    /\ items \in [Keys -> Item]
    /\ job \in [status : {"queued", "running", "completed", "failed"},
                version : Versions \cup {0}]
    /\ pc \in [Actors -> {"idle", "load", "claim", "summary", "save_summary", "count",
                          "import", "progress", "chunk", "save_chunk", "counted", "list",
                          "activate", "save_active", "finalize", "save_final", "finish",
                          "fail", "invalidate", "save_failed", "edit", "edited"}]
    /\ own \in [Actors -> Doc \cup {NoDoc}]
    /\ cut \in [Actors -> [text : Texts, done : 0..MaxChunks]]
    /\ todo \in [Actors -> SUBSET (Keys \X Texts)]
    /\ raced \in BOOLEAN /\ broken \in BOOLEAN
    /\ faults \in 0..MaxFaults

\* A record with what is known of its import.
Counted(d, expected, completed) ==
    [version |-> d.version, text |-> d.text, expected |-> expected, completed |-> completed]

SomeText == CHOOSE t \in Texts : TRUE

\* create_job has saved the job; it waits for its turn in the pool.
Init ==
    /\ doc = NoDoc
    /\ items = [k \in Keys |-> [status |-> "none", text |-> SomeText]]
    /\ job = [status |-> "queued", version |-> 0]
    /\ pc = [a \in Actors |-> "idle"]
    /\ own = [a \in Actors |-> NoDoc]
    /\ cut = [a \in Actors |-> [text |-> SomeText, done |-> 0]]
    /\ todo = [a \in Actors |-> {}]
    /\ raced = FALSE /\ broken = FALSE /\ faults = 0

---------------------------------------------------------------------------
Goto(a, l) == pc' = [pc EXCEPT ![a] = l]
Hold(a, d) == own' = [own EXCEPT ![a] = d]

\* The handler goes on without the locals it had, or ends.
Drop(a, l) ==
    /\ Goto(a, l)
    /\ Hold(a, NoDoc)
    /\ cut' = [cut EXCEPT ![a] = [text |-> SomeText, done |-> 0]]
    /\ todo' = [todo EXCEPT ![a] = {}]

End(a) == Drop(a, "idle")

\* An exception leads the job to fail_job; the endpoints have no clean-up of their own.
Raise(a) == Drop(a, IF a = Runner THEN "fail" ELSE "idle")

\* _require_current_document: the record is read; StaleDocumentVersionError if it advanced.
Current(a) == doc.version = own[a].version
Require(a, l) ==
    IF Current(a) THEN Goto(a, l) /\ Hold(a, doc) /\ UNCHANGED <<cut, todo>> ELSE Raise(a)

\* Variant: the version is not compared when the progress is saved.
SaveAnyVersion(a, l) ==
    doc' = own[a] /\ Goto(a, l) /\ UNCHANGED <<own, cut, todo>>

\* save_document_if_version: the whole record, if the persisted version is unchanged.
SaveIfCurrent(a, l) ==
    IF Current(a)
    THEN doc' = own[a] /\ Goto(a, l) /\ UNCHANGED <<own, cut, todo>>
    ELSE UNCHANGED doc /\ Raise(a)

SaveItem(k, status, t) == items' = [items EXCEPT ![k] = [status |-> status, text |-> t]]

\* Handlers that change items of one version while another may change its text.
Contending(a) ==
    \/ a \in Editors /\ pc[a] # "idle"
    \/ a \in Importers /\ pc[a] # "idle"
    \/ a = Runner /\ pc[a] \in {"fail", "invalidate"}
Contend(a) == raced' = (raced \/ \E b \in Actors \ {a} : Contending(b))

---------------------------------------------------------------------------
(* run_job.                                                                *)

\* The first run of the pool, or another run of the same job (parse_document_job).
\* Bound: a job that made a document without recording it is not run again.
StartJob ==
    /\ pc[Runner] = "idle"
    /\ ~ (job.version = 0 /\ doc # NoDoc)
    /\ ~ (/\ job.status = "completed" /\ job.version = doc.version
          /\ doc.completed = doc.expected)
    /\ job' = [job EXCEPT !.status = "running"]
    /\ Goto(Runner, "load")
    /\ UNCHANGED <<doc, items, own, cut, todo, history>>

\* submit finds the queue full or the service shutting down, or the queued run is
\* cancelled by the shutdown: fail_job before the job ever ran.
Reject ==
    /\ pc[Runner] = "idle" /\ job.status = "queued"
    /\ job' = [job EXCEPT !.status = "failed"]
    /\ UNCHANGED <<doc, items, locals, history>>

\* _load_or_parse_document.
Load ==
    /\ pc[Runner] = "load" /\ job.version # 0
    /\ IF doc.version = job.version
       THEN Goto(Runner, "summary") /\ Hold(Runner, doc) /\ UNCHANGED <<cut, todo>>
       ELSE Raise(Runner)
    /\ UNCHANGED <<persistent, history>>

Parse ==
    /\ pc[Runner] = "load" /\ job.version = 0
    /\ \/ \E t \in Texts :
             /\ doc' = [version |-> 1, text |-> t, expected |-> 0, completed |-> 0]
             /\ Hold(Runner, doc')
          /\ Goto(Runner, "claim")
          /\ UNCHANGED <<cut, todo>>
       \/ UNCHANGED doc /\ Raise(Runner)
    /\ UNCHANGED <<items, job, history>>

ClaimDocument ==
    /\ pc[Runner] = "claim"
    /\ job' = [job EXCEPT !.version = own[Runner].version]
    /\ Goto(Runner, "summary")
    /\ UNCHANGED <<doc, items, own, cut, todo, history>>

CheckSummary ==
    /\ pc[Runner] = "summary"
    /\ Require(Runner, "save_summary")
    /\ UNCHANGED <<persistent, history>>

SaveSummary ==
    /\ pc[Runner] = "save_summary"
    /\ SaveItem(<<own[Runner].version, 0>>, "staging", own[Runner].text)
    /\ Goto(Runner, "import")
    /\ UNCHANGED <<doc, job, own, cut, todo, history>>

---------------------------------------------------------------------------
(* import_document_chunks and _activate_version_items, for the job and for *)
(* the import endpoint.                                                    *)

StartImport(a) ==
    /\ pc[a] = "import"
    /\ IF Current(a)
       THEN /\ Hold(a, Counted(doc, ChunksOf[doc.text], 0))
            /\ cut' = [cut EXCEPT ![a] = [text |-> doc.text, done |-> 0]]
            /\ Goto(a, "progress")
            /\ UNCHANGED todo
       ELSE Raise(a)
    /\ UNCHANGED <<persistent, history>>

SaveProgress(a) ==
    /\ pc[a] = "progress"
    /\ SaveIfCurrent(a, IF cut[a].done < ChunksOf[cut[a].text] THEN "chunk" ELSE "list")
    /\ UNCHANGED <<items, job, history>>

CheckChunk(a) ==
    /\ pc[a] = "chunk"
    /\ Require(a, "save_chunk")
    /\ UNCHANGED <<persistent, history>>

SaveChunk(a) ==
    /\ pc[a] = "save_chunk"
    /\ SaveItem(<<own[a].version, cut[a].done + 1>>, "staging", cut[a].text)
    /\ cut' = [cut EXCEPT ![a] = [text |-> @.text, done |-> @.done + 1]]
    /\ Goto(a, "counted")
    /\ UNCHANGED <<doc, job, own, todo, history>>

CountChunk(a) ==
    /\ pc[a] = "counted"
    /\ IF Current(a)
       THEN /\ Hold(a, Counted(doc, ChunksOf[cut[a].text], cut[a].done))
            /\ Goto(a, "progress")
            /\ UNCHANGED <<cut, todo>>
       ELSE Raise(a)
    /\ UNCHANGED <<persistent, history>>

\* The items of some versions with some status, as they are read.
Items(vs, statuses) ==
    {<<k, items[k].text>> : k \in {j \in Keys : j[1] \in vs /\ items[j].status \in statuses}}

ListVersionItems(a) ==
    /\ pc[a] = "list"
    /\ todo' = [todo EXCEPT ![a] = Items({own[a].version}, {"staging", "active", "stale"})]
    /\ Goto(a, "activate")
    /\ UNCHANGED <<persistent, own, cut, history>>

\* The loop: check the version, save an item as it was listed (in any order).
CheckActive(a) ==
    /\ pc[a] = "activate" /\ todo[a] # {}
    /\ Require(a, "save_active")
    /\ UNCHANGED <<persistent, history>>

SaveActive(a) ==
    /\ pc[a] = "save_active"
    /\ \E x \in todo[a] :
          /\ SaveItem(x[1], "active", x[2])
          /\ todo' = [todo EXCEPT ![a] = @ \ {x}]
    /\ Goto(a, "activate")
    /\ UNCHANGED <<doc, job, own, cut, history>>

Activated(a) ==
    /\ pc[a] = "activate" /\ todo[a] = {}
    /\ IF a = Runner THEN Goto(a, "finalize") /\ UNCHANGED <<own, cut, todo>> ELSE End(a)
    /\ UNCHANGED <<persistent, history>>

---------------------------------------------------------------------------
(* The end of run_job, and fail_job.                                       *)

ReadFinal ==
    /\ pc[Runner] = "finalize"
    /\ IF Current(Runner)
       THEN /\ LET n == ChunksOf[cut[Runner].text] IN Hold(Runner, Counted(doc, n, n))
            /\ Goto(Runner, "save_final")
            /\ UNCHANGED <<cut, todo>>
       ELSE Raise(Runner)
    /\ UNCHANGED <<persistent, history>>

SaveFinal ==
    /\ pc[Runner] = "save_final"
    /\ SaveIfCurrent(Runner, "finish")
    /\ UNCHANGED <<items, job, history>>

\* save_document_parse_job_if_document_version.
Finish ==
    /\ pc[Runner] = "finish"
    /\ IF Current(Runner)
       THEN /\ job' = [status |-> "completed", version |-> own[Runner].version]
            /\ End(Runner)
       ELSE UNCHANGED job /\ Raise(Runner)
    /\ UNCHANGED <<doc, items, history>>

\* Variant: the items of the failed version are left alone.
FailWithoutInvalidating ==
    /\ pc[Runner] = "fail"
    /\ Goto(Runner, "save_failed")
    /\ Contend(Runner)
    /\ UNCHANGED <<persistent, own, cut, todo, broken, faults>>

Fail ==
    /\ pc[Runner] = "fail"
    /\ todo' = [todo EXCEPT ![Runner] = Items({job.version}, {"staging", "active"})]
    /\ Goto(Runner, "invalidate")
    /\ Contend(Runner)
    /\ UNCHANGED <<persistent, own, cut, broken, faults>>

\* _invalidate_version_items and invalidate_prior_version_chunks: items go stale one by
\* one, saved as they were listed.
Invalidate(a) ==
    /\ pc[a] = "invalidate" /\ todo[a] # {}
    /\ \E x \in todo[a] :
          /\ SaveItem(x[1], "stale", x[2])
          /\ todo' = [todo EXCEPT ![a] = @ \ {x}]
    /\ UNCHANGED <<doc, job, pc, own, cut, history>>

Invalidated(a) ==
    /\ pc[a] = "invalidate" /\ todo[a] = {}
    /\ IF a = Runner THEN Goto(a, "save_failed") /\ UNCHANGED <<own, cut, todo>> ELSE End(a)
    /\ UNCHANGED <<persistent, history>>

SaveFailed ==
    /\ pc[Runner] = "save_failed"
    /\ job' = [job EXCEPT !.status = "failed"]
    /\ End(Runner)
    /\ UNCHANGED <<doc, items, history>>

---------------------------------------------------------------------------
(* The document endpoints.                                                 *)

ReadForImport(a) ==
    /\ pc[a] = "idle" /\ doc # NoDoc
    /\ Hold(a, doc)
    /\ Goto(a, "count")
    /\ Contend(a)
    /\ UNCHANGED <<persistent, cut, todo, broken, faults>>

\* current_version_chunks: nothing to do if all the expected chunks are active.
CountImported(a) ==
    /\ pc[a] = "count"
    /\ LET active == {s \in Slots \ {0} : items[<<own[a].version, s>>].status = "active"} IN
       IF own[a].expected > 0 /\ Cardinality(active) = own[a].expected
       THEN End(a)
       ELSE Goto(a, "import") /\ UNCHANGED <<own, cut, todo>>
    /\ UNCHANGED <<persistent, history>>

ReadForEdit(a) ==
    /\ pc[a] = "idle" /\ doc # NoDoc
    /\ doc.version < MaxVersion
    /\ Hold(a, doc)
    /\ Goto(a, "edit")
    /\ Contend(a)
    /\ UNCHANGED <<persistent, cut, todo, broken, faults>>

\* Variant: the edit keeps the version.
EditInPlace(a, t) ==
    /\ pc[a] = "edit"
    /\ doc' = [version |-> own[a].version, text |-> t, expected |-> 0, completed |-> 0]
    /\ Hold(a, doc')
    /\ Goto(a, "edited")
    /\ UNCHANGED <<items, job, cut, todo, history>>

\* update_document saves the next version of what it read, whatever was saved since.
Edit(a, t) ==
    /\ pc[a] = "edit"
    /\ doc' = [version |-> own[a].version + 1, text |-> t, expected |-> 0, completed |-> 0]
    /\ Hold(a, doc')
    /\ Goto(a, "edited")
    /\ UNCHANGED <<items, job, cut, todo, history>>

ListOtherVersions(a) ==
    /\ pc[a] = "edited"
    /\ todo' = [todo EXCEPT ![a] = Items(Versions \ {own[a].version}, {"staging", "active"})]
    /\ Goto(a, "invalidate")
    /\ UNCHANGED <<persistent, own, cut, history>>

---------------------------------------------------------------------------
\* A store or provider exception: run_job's goes to fail_job, the others end the handler.
Exception(a) ==
    /\ faults < MaxFaults /\ faults' = faults + 1
    /\ pc[a] # "idle"
    /\ IF a = Runner /\ pc[a] \notin {"fail", "invalidate", "save_failed"}
       THEN Raise(a) /\ UNCHANGED broken
       ELSE End(a) /\ broken' = TRUE
    /\ UNCHANGED <<persistent, raced>>

\* The process stops; jobs are not taken up again by the next one.
Restart ==
    /\ faults < MaxFaults /\ faults' = faults + 1
    /\ pc # [a \in Actors |-> "idle"] \/ job.status = "queued"
    /\ pc' = [a \in Actors |-> "idle"]
    /\ own' = [a \in Actors |-> NoDoc]
    /\ cut' = [a \in Actors |-> [text |-> SomeText, done |-> 0]]
    /\ todo' = [a \in Actors |-> {}]
    /\ broken' = TRUE
    /\ UNCHANGED <<persistent, raced>>

Importing(a) == \/ StartImport(a) \/ SaveProgress(a) \/ CheckChunk(a) \/ SaveChunk(a)
                \/ CountChunk(a) \/ ListVersionItems(a) \/ CheckActive(a) \/ SaveActive(a)
                \/ Activated(a)

Running == \/ Load \/ Parse \/ ClaimDocument \/ CheckSummary \/ SaveSummary
           \/ Importing(Runner) \/ ReadFinal \/ SaveFinal \/ Finish
           \/ Fail \/ Invalidate(Runner) \/ Invalidated(Runner) \/ SaveFailed

Editing(a) == \/ ReadForEdit(a) \/ \E t \in Texts : Edit(a, t)
              \/ ListOtherVersions(a) \/ Invalidate(a) \/ Invalidated(a)

Next == \/ StartJob \/ Reject \/ Running
        \/ \E a \in Importers : ReadForImport(a) \/ CountImported(a) \/ Importing(a)
        \/ \E a \in Editors : Editing(a)
        \/ \E a \in Actors : Exception(a)
        \/ Restart

Spec == Init /\ [][Next]_vars

---------------------------------------------------------------------------
(* Properties.                                                             *)

Quiet == \A a \in Actors : pc[a] = "idle"
Status(v, s) == items[<<v, s>>].status

\* What counts as completed is there (ingestion.py import_document_chunks, run_job), through
\* every overwrite of a record by an older copy of it: the chunks that the record counts
\* exist under its version, and a job is COMPLETED for the current version only over the
\* whole import, the summary and every chunk of the text being active.
CompletedIsThere ==
    /\ doc # NoDoc => /\ doc.completed <= doc.expected
                      /\ \A s \in 1..doc.completed : Status(doc.version, s) # "none"
    /\ (/\ job.status = "completed" /\ doc.version = job.version
        /\ ~broken /\ \A a \in Importers : pc[a] = "idle")
           => \A s \in 0..ChunksOf[doc.text] :
                 items[<<doc.version, s>>] = [status |-> "active", text |-> doc.text]

\* Whole or not at all: when the handlers have ended, the chunks of the current version
\* are all searchable or none is, after failures and retries as well.
SerialWholeOrNothing ==
    (Quiet /\ ~raced /\ ~broken /\ doc # NoDoc) =>
        LET active == {s \in Slots \ {0} : Status(doc.version, s) = "active"}
        IN  active = {} \/ active = 1..ChunksOf[doc.text]

\* When the handlers have ended, what is searchable is the current text.
ServedIsCurrent ==
    \A k \in Keys : items[k].status = "active" =>
        k[1] = doc.version /\ items[k].text = doc.text

SerialServedIsCurrent == (Quiet /\ ~raced /\ ~broken) => ServedIsCurrent

\* What the stabilization design demands of an edit.
EditMakesOldChunksStale == (Quiet /\ ~broken) =>
    \A k \in Keys : items[k].status = "active" => k[1] = doc.version
====
