---- MODULE IngestionProofs ----
(***************************************************************************)
(* Documents, the cutting of their texts and the pool that parses them,    *)
(* for any number of versions, chunks, clients, uploads, threads,          *)
(* exceptions and restarts, and texts and chunk sizes of any length.       *)
(*                                                                         *)
(* The document: what its record says is there, and whoever takes turns    *)
(* leaves all chunks of the current version searchable or none.            *)
(* The pool: its permits are accounted for, and what was handed in is      *)
(* settled when it has stopped.                                            *)
(* The cutting: what is returned are windows over the text that leave      *)
(* nothing but newlines out.                                               *)
(***************************************************************************)
EXTENDS DocumentIngestion, Chunker, IngestionPool, FiniteSetTheorems, SequenceTheorems, TLAPS

---------------------------------------------------------------------------
(* The document: what holds between its record, its items, its job and     *)
(* those who work on it.                                                   *)

\* Places of the handlers, by what they are about.
Chunking == {"progress", "chunk", "save_chunk", "counted", "list"}
Activating == {"activate", "save_active"}
InImport == {"import"} \cup Chunking \cup Activating
Claimed == {"summary", "save_summary", "finalize", "save_final", "finish"} \cup InImport
Working == Claimed \cup {"load", "claim", "fail"}
Bare == {"idle", "load", "fail", "save_failed"}
Clients == Editors \cup Importers

\* Who is where, and who holds a record.
PlacesFit ==
    /\ \A a \in Editors : pc[a] \in {"idle", "edit", "edited", "invalidate"}
    /\ \A a \in Importers : pc[a] \in {"idle", "count"} \cup InImport
    /\ pc[Runner] \in {"idle", "load", "claim", "fail", "invalidate", "save_failed"} \cup Claimed
    /\ \A a \in Actors :
          own[a] = NoDoc <=> (pc[a] \in Bare \/ (a = Runner /\ pc[a] = "invalidate"))
    /\ \A a \in Actors : pc[a] = "edit" => own[a].version < MaxVersion

\* No more chunks are written than the text has, and all of them before they are listed.
CutFits ==
    \A a \in Actors :
        /\ cut[a].done <= ChunksOf[cut[a].text]
        /\ pc[a] \in {"chunk", "save_chunk"} => cut[a].done < ChunksOf[cut[a].text]
        /\ pc[a] \in {"list", "finalize"} \cup Activating => cut[a].done = ChunksOf[cut[a].text]

\* What is listed is of the version that the handler is about.
ListsFit ==
    /\ \A a \in Actors :
          /\ pc[a] \notin Activating \cup {"invalidate"} => todo[a] = {}
          /\ pc[a] \in Activating => \A x \in todo[a] : x[1][1] = own[a].version
    /\ pc[Runner] = "invalidate" => \A x \in todo[Runner] : x[1][1] = job.version

\* The job is for the version that its runs work on.
RunFits ==
    /\ job.version \in {0, 1}
    /\ pc[Runner] # "idle" => job.status = "running"
    /\ pc[Runner] \in Claimed => own[Runner].version = job.version
    /\ pc[Runner] = "claim" => own[Runner].version = 1
    /\ pc[Runner] = "load" /\ job.version = 0 => doc = NoDoc

\* Before there is a document.
BlankFits ==
    doc = NoDoc => /\ job.version = 0 /\ job.status # "completed"
                   /\ \A k \in Keys : items[k].status = "none"
                   /\ \A a \in Actors : own[a] = NoDoc /\ todo[a] = {}

\* The chunks that a record counts exist, whoever holds the record.
Backed(r, its) == /\ r.completed <= r.expected
                  /\ \A s \in 1..r.completed : its[<<r.version, s>>].status # "none"

RecordsAreBacked ==
    /\ doc # NoDoc => Backed(doc, items)
    /\ \A a \in Actors : own[a] # NoDoc => Backed(own[a], items)
    /\ \A a \in Actors : pc[a] \in Chunking \cup Activating \cup {"finalize"} =>
          \A s \in 1..cut[a].done : items[<<own[a].version, s>>].status # "none"
    /\ pc[Runner] \in InImport \cup {"finalize"} =>
          items[<<own[Runner].version, 0>>].status # "none"

\* While nobody has edited the document, nobody holds another version of it.
Unedited == doc # NoDoc /\ doc.version = 1

UneditedFits ==
    Unedited => \A a \in Actors : own[a] # NoDoc => /\ own[a].version = 1
                                                    /\ a \in Editors => pc[a] = "edit"

\* The handlers took turns, and each came to its end.
Serial == ~raced /\ ~broken

\* What is of the current version is of the current text.  Edits that overlap make one
\* version of two texts, so this is for the first version or for handlers that took turns.
Agreed ==
    doc # NoDoc /\ (doc.version = 1 \/ Serial) =>
        /\ \A a \in Actors : own[a] # NoDoc /\ own[a].version = doc.version =>
              /\ own[a].text = doc.text
              /\ pc[a] \in Chunking \cup Activating \cup {"finalize"} => cut[a].text = doc.text
        /\ \A k \in Keys : k[1] = doc.version /\ items[k].status # "none" =>
              items[k].text = doc.text /\ k[2] <= ChunksOf[doc.text]
        /\ \A a \in Actors : \A x \in todo[a] :
              x[1][1] = doc.version => x[2] = doc.text /\ x[1][2] <= ChunksOf[doc.text]

\* The items of the first version that an actor has staged, or found, and will activate.
Keyed(a) == {x[1] : x \in todo[a]}

Owes(a, s) ==
    \/ pc[a] \in Chunking /\ s <= cut[a].done /\ (s = 0 => a = Runner)
    \/ pc[a] \in Activating /\ <<1, s>> \in Keyed(a)

\* What the job has activated stays so, or an import that staged it again will activate it.
Through == Activating \cup {"finalize", "save_final", "finish"}

WholeOrOwed ==
    Unedited /\ ~broken /\ (job.status = "completed" \/ pc[Runner] \in Through) =>
        \A s \in 0..ChunksOf[doc.text] :
            /\ items[<<1, s>>].status # "none"
            /\ items[<<1, s>>].status = "active" \/ \E a \in {Runner} \cup Importers : Owes(a, s)

\* Handlers that take turns: one client at a time, on the current version.
TurnsFit ==
    Serial =>
        /\ \A a, b \in Clients : pc[a] # "idle" /\ pc[b] # "idle" => a = b
        /\ pc[Runner] = "invalidate" => \A a \in Clients : pc[a] = "idle"
        /\ \A a \in Actors : own[a] # NoDoc => own[a].version <= doc.version
        /\ \A a \in Clients : own[a] # NoDoc => own[a].version = doc.version
        /\ \A k \in Keys : items[k].status # "none" => doc # NoDoc /\ k[1] <= doc.version
        /\ \A a \in Actors : \A x \in todo[a] : items[x[1]].status # "none"

\* A living item of another version is about to go stale: an edit has it still to list or
\* has listed it, or the job that works on that version will find it outdated.
Alive(k) == items[k].status \in {"staging", "active"}

OldAreGoing ==
    Serial => \A k \in Keys : Alive(k) /\ k[1] # doc.version =>
        \/ \E e \in Editors : pc[e] = "edited" \/ (pc[e] = "invalidate" /\ k \in Keyed(e))
        \/ k[1] = job.version /\ pc[Runner] \in Working \cup {"invalidate"}

\* A job that fails has listed all that lives of its version, an edit nothing of its own.
FailingIsWhole ==
    Serial /\ pc[Runner] = "invalidate" =>
        \A k \in Keys : Alive(k) /\ k[1] = job.version => k \in Keyed(Runner)

EditorsSpare ==
    Serial => \A e \in Editors :
        pc[e] = "invalidate" => \A k \in Keyed(e) : k[1] # doc.version

\* The chunks of the current version are all active or none is, unless the job or an import
\* is at them; an import about to end has activated, or listed, every one.
RunnerMinds == job.version = doc.version /\ pc[Runner] \in Working \cup {"invalidate"}

WholeFits ==
    Serial /\ doc # NoDoc =>
        /\ \/ RunnerMinds
           \/ \E a \in Importers : pc[a] \in InImport
           \/ \A s \in Slots \ {0} : items[<<doc.version, s>>].status # "active"
           \/ \A s \in 1..ChunksOf[doc.text] : items[<<doc.version, s>>].status = "active"
        /\ \A a \in Importers : pc[a] \in Activating =>
              \/ RunnerMinds
              \/ \A s \in 1..ChunksOf[doc.text] :
                    \/ items[<<doc.version, s>>].status = "active"
                    \/ <<doc.version, s>> \in Keyed(a)

DocFits ==
    /\ TypeOK /\ PlacesFit /\ CutFits /\ ListsFit /\ RunFits /\ BlankFits /\ RecordsAreBacked
    /\ UneditedFits /\ Agreed /\ WholeOrOwed /\ TurnsFit /\ OldAreGoing /\ FailingIsWhole
    /\ EditorsSpare /\ WholeFits

LEMMA SomeTextType == SomeText \in Texts
  BY DocumentAssumption DEF SomeText

LEMMA ItemsListed ==
    ASSUME TypeOK, NEW vs, NEW statuses, NEW k
    PROVE  k \in {x[1] : x \in Items(vs, statuses)} <=>
              k \in Keys /\ k[1] \in vs /\ items[k].status \in statuses
<1> DEFINE Found == {j \in Keys : j[1] \in vs /\ items[j].status \in statuses}
           Keyed0 == {x[1] : x \in Items(vs, statuses)}
<1>1. Items(vs, statuses) = {<<j, items[j].text>> : j \in Found}
  BY DEF Items
<1>2. ASSUME k \in Keyed0 PROVE k \in Found
  <2>1. PICK x \in Items(vs, statuses) : k = x[1]
    BY <1>2
  <2>2. PICK j \in Found : x = <<j, items[j].text>>
    BY <1>1, <2>1
  <2> QED
    BY <2>1, <2>2
<1>3. ASSUME k \in Found PROVE k \in Keyed0
  <2>1. <<k, items[k].text>> \in Items(vs, statuses)
    BY <1>1, <1>3
  <2>2. <<k, items[k].text>>[1] = k
    OBVIOUS
  <2> QED
    BY <2>1, <2>2
<1> QED
  BY <1>2, <1>3

LEMMA RaiseKeeps ==
    ASSUME DocFits, NEW a \in {Runner} \cup Importers,
           a = Runner => pc[a] \in Claimed \cup {"load", "claim"},
           a # Runner => pc[a] \in InImport /\ ~Current(a),
           Raise(a), UNCHANGED <<doc, items, job, raced, broken>>, faults' \in 0..MaxFaults
    PROVE  DocFits'
<1>1. /\ pc' = [pc EXCEPT ![a] = IF a = Runner THEN "fail" ELSE "idle"]
      /\ own' = [own EXCEPT ![a] = NoDoc]
      /\ cut' = [cut EXCEPT ![a] = [text |-> SomeText, done |-> 0]]
      /\ todo' = [todo EXCEPT ![a] = {}]
      /\ UNCHANGED <<doc, items, job, raced, broken>>
  BY DEF Raise, Drop, Goto, Hold
<1>2. a # Runner => ~Serial /\ ~(Unedited /\ own[a].version = 1)
  BY DocumentAssumption DEF DocFits, TurnsFit, PlacesFit, Clients, Current, Unedited, BlankFits,
     Actors, Bare, InImport, Chunking, Activating
<1>3. TypeOK'
  BY <1>1, <1>2, DocumentAssumption, SomeTextType DEF DocFits, Current, history, TypeOK, Actors,
     Chunking, Activating, InImport, Claimed, Bare, PlacesFit, Keys, Slots, Versions, Doc, Item,
     RunFits, BlankFits
<1>4. PlacesFit'
  BY <1>1, <1>2, DocumentAssumption, SomeTextType DEF DocFits, Current, history, PlacesFit,
     TypeOK, Actors, Chunking, Activating, InImport, Claimed, Bare, Keys, Slots, Versions, Doc,
     Item, RunFits, BlankFits
<1>5. CutFits'
  BY <1>1, <1>2, DocumentAssumption, SomeTextType DEF DocFits, Current, history, CutFits, TypeOK,
     Actors, Chunking, Activating, InImport, Claimed, Bare, PlacesFit, RunFits, BlankFits
<1>6. RunFits'
  BY <1>1, <1>2 DEF DocFits, Current, history, RunFits, TypeOK, Actors, Chunking, Activating,
     InImport, Claimed, Bare, PlacesFit
<1>7. BlankFits'
  BY <1>1, <1>2 DEF DocFits, Current, history, BlankFits, TypeOK, Actors
<1>8. RecordsAreBacked'
  BY <1>1, <1>2 DEF DocFits, Current, history, RecordsAreBacked, TypeOK, Actors, Backed, Chunking,
     Activating, InImport, Claimed, Bare, PlacesFit
<1>9. UneditedFits'
  BY <1>1, <1>2 DEF DocFits, Current, history, UneditedFits, TypeOK, Actors, Unedited
<1>10. Agreed'
  BY <1>1, <1>2 DEF DocFits, Current, history, Agreed, TypeOK, Actors, Unedited, Serial, Clients
<1>11. WholeOrOwed'
  BY <1>1, <1>2, DocumentAssumption, SomeTextType DEF DocFits, Current, Counted, history, Items,
     Chunking, Activating, InImport, Claimed, Bare, TypeOK, PlacesFit, CutFits, RunFits,
     BlankFits, RecordsAreBacked, UneditedFits, Agreed, WholeOrOwed, Owes, Keyed, Unedited, Keys,
     Slots, Versions, Doc, Item, Actors, Through
<1>12. TurnsFit'
  BY <1>1, <1>2 DEF DocFits, Current, history, TurnsFit, TypeOK, Actors, Serial, Clients,
     Chunking, Activating, InImport, Claimed, Bare, PlacesFit
<1>13. OldAreGoing'
  BY <1>1, <1>2 DEF DocFits, Current, history, OldAreGoing, TypeOK, Actors, Serial, Keyed, Alive,
     Working, Clients, Chunking, Activating, InImport, Claimed, Bare, PlacesFit
<1>14. FailingIsWhole'
  BY <1>1, <1>2 DEF DocFits, Current, history, FailingIsWhole, TypeOK, Actors, Serial, Keyed,
     Alive, Clients
<1>15. EditorsSpare'
  BY <1>1, <1>2 DEF DocFits, Current, history, EditorsSpare, TypeOK, Actors, Serial, Keyed,
     Clients
<1>16. WholeFits'
  <2>1. SUFFICES ASSUME Serial', doc' # NoDoc
                 PROVE  WholeFits'
    BY DEF WholeFits
  <2>2. a = Runner /\ Serial /\ doc # NoDoc
    BY <1>1, <1>2, <2>1 DEF Serial
  <2>3. RunnerMinds' <=> RunnerMinds
    BY <1>1, <2>2 DEF RunnerMinds, Working, DocFits, TypeOK, Actors, Claimed, InImport
  <2>4. \A i \in Importers : pc'[i] = pc[i] /\ todo'[i] = todo[i] /\ Keyed(i)' = Keyed(i)
    BY <1>1, <2>2, DocumentAssumption DEF DocFits, TypeOK, Actors, Keyed
  <2> QED
    BY <1>1, <2>2, <2>3, <2>4 DEF DocFits, WholeFits
<1>17. ListsFit'
  BY <1>1, <1>2 DEF DocFits, Current, history, ListsFit, TypeOK, Actors, Clients
<1> QED
  BY <1>17, <1>3, <1>4, <1>5, <1>6, <1>7, <1>8, <1>9, <1>10, <1>11, <1>12, <1>13, <1>14, <1>15,
     <1>16 DEF DocFits

LEMMA StartJobKeeps ==
    ASSUME DocFits, StartJob
    PROVE  DocFits'
<1>1. TypeOK'
  BY SomeTextType DEF DocFits, StartJob, Goto, persistent, locals, history, TypeOK, Actors
<1>2. PlacesFit'
  BY DocumentAssumption, SomeTextType DEF DocFits, StartJob, Goto, persistent, locals, history,
     PlacesFit, TypeOK, Actors, Chunking, Activating, InImport, Claimed, Bare, Keys, Slots,
     Versions, Doc, Item, RunFits, BlankFits
<1>3. CutFits'
  BY DEF DocFits, StartJob, Goto, persistent, locals, history, CutFits, TypeOK, Actors, Chunking,
     Activating, InImport, Claimed, Bare, PlacesFit
<1>4. ListsFit'
  BY DEF DocFits, StartJob, Goto, persistent, locals, history, ListsFit, TypeOK, Actors, Clients,
     Chunking, Activating, InImport, Claimed, Bare, PlacesFit
<1>5. RunFits'
  BY DEF DocFits, StartJob, Goto, persistent, locals, history, RunFits, TypeOK, Actors, Chunking,
     Activating, InImport, Claimed, Bare, PlacesFit
<1>6. BlankFits'
  BY DEF DocFits, StartJob, Goto, persistent, locals, history, BlankFits, TypeOK, Actors
<1>7. RecordsAreBacked'
  BY DEF DocFits, StartJob, Goto, persistent, locals, history, RecordsAreBacked, TypeOK, Actors,
     Backed, Chunking, Activating, InImport, Claimed, Bare, PlacesFit
<1>8. UneditedFits'
  BY DEF DocFits, StartJob, Goto, persistent, locals, history, UneditedFits, TypeOK, Actors,
     Unedited
<1>9. Agreed'
  BY DEF DocFits, StartJob, Goto, persistent, locals, history, Agreed, TypeOK, Actors, Unedited,
     Serial, Clients, Chunking, Activating, InImport, Claimed, Bare, PlacesFit
<1>10. WholeOrOwed'
  BY DEF DocFits, StartJob, Goto, persistent, locals, history, WholeOrOwed, TypeOK, Actors, Owes,
     Keyed, Unedited, Through, Chunking, Activating, InImport, Claimed, Bare, PlacesFit
<1>11. TurnsFit'
  BY DocumentAssumption, SomeTextType DEF DocFits, StartJob, Goto, persistent, locals, history,
     TurnsFit, TypeOK, Actors, Serial, Clients, Chunking, Activating, InImport, Claimed, Bare,
     PlacesFit, Keys, Slots, Versions, Doc, Item, RunFits, BlankFits
<1>12. OldAreGoing'
  BY DEF DocFits, StartJob, Goto, persistent, locals, history, OldAreGoing, TypeOK, Actors,
     Serial, Keyed, Alive, Working, Clients
<1>13. FailingIsWhole'
  BY DEF DocFits, StartJob, Goto, persistent, locals, history, FailingIsWhole, TypeOK, Actors,
     Serial, Keyed, Alive, Clients
<1>14. EditorsSpare'
  BY DEF DocFits, StartJob, Goto, persistent, locals, history, EditorsSpare, TypeOK, Actors,
     Serial, Keyed, Clients
<1>15. WholeFits'
  BY DEF DocFits, StartJob, Goto, persistent, locals, history, WholeFits, TypeOK, Actors,
     RunnerMinds, Owes, Unedited, Serial, Keyed, Alive, Working, Clients, Through, Chunking,
     Activating, InImport, Claimed, Bare, PlacesFit
<1> QED
  BY <1>1, <1>2, <1>3, <1>4, <1>5, <1>6, <1>7, <1>8, <1>9, <1>10, <1>11, <1>12, <1>13, <1>14,
     <1>15 DEF DocFits

LEMMA RejectKeeps ==
    ASSUME DocFits, Reject
    PROVE  DocFits'
<1>1. TypeOK'
  BY SomeTextType DEF DocFits, Reject, Goto, persistent, locals, history, TypeOK, Actors
<1>2. PlacesFit'
  BY DEF DocFits, Reject, Goto, persistent, locals, history, PlacesFit, TypeOK, Actors
<1>3. CutFits'
  BY DEF DocFits, Reject, Goto, persistent, locals, history, CutFits, TypeOK, Actors
<1>4. ListsFit'
  BY DEF DocFits, Reject, Goto, persistent, locals, history, ListsFit, TypeOK, Actors, Clients
<1>5. RunFits'
  BY DEF DocFits, Reject, Goto, persistent, locals, history, RunFits, TypeOK, Actors
<1>6. BlankFits'
  BY DEF DocFits, Reject, Goto, persistent, locals, history, BlankFits, TypeOK, Actors
<1>7. RecordsAreBacked'
  BY DEF DocFits, Reject, Goto, persistent, locals, history, RecordsAreBacked, TypeOK, Actors,
     Backed
<1>8. UneditedFits'
  BY DEF DocFits, Reject, Goto, persistent, locals, history, UneditedFits, TypeOK, Actors,
     Unedited
<1>9. Agreed'
  BY DEF DocFits, Reject, Goto, persistent, locals, history, Agreed, TypeOK, Actors, Unedited,
     Serial, Clients
<1>10. WholeOrOwed'
  BY DEF DocFits, Reject, Goto, persistent, locals, history, WholeOrOwed, TypeOK, Actors, Owes,
     Keyed, Unedited, Through
<1>11. TurnsFit'
  BY DEF DocFits, Reject, Goto, persistent, locals, history, TurnsFit, TypeOK, Actors, Serial,
     Clients
<1>12. OldAreGoing'
  BY DEF DocFits, Reject, Goto, persistent, locals, history, OldAreGoing, TypeOK, Actors, Serial,
     Keyed, Alive, Working, Clients
<1>13. FailingIsWhole'
  BY DEF DocFits, Reject, Goto, persistent, locals, history, FailingIsWhole, TypeOK, Actors,
     Serial, Keyed, Alive, Clients
<1>14. EditorsSpare'
  BY DEF DocFits, Reject, Goto, persistent, locals, history, EditorsSpare, TypeOK, Actors, Serial,
     Keyed, Clients
<1>15. WholeFits'
  BY DEF DocFits, Reject, Goto, persistent, locals, history, WholeFits, TypeOK, Actors,
     RunnerMinds, Owes, Unedited, Serial, Keyed, Alive, Working, Clients, Through
<1> QED
  BY <1>1, <1>2, <1>3, <1>4, <1>5, <1>6, <1>7, <1>8, <1>9, <1>10, <1>11, <1>12, <1>13, <1>14,
     <1>15 DEF DocFits

LEMMA LoadKeeps ==
    ASSUME DocFits, Load
    PROVE  DocFits'
<1>1. CASE Raise(Runner) /\ ~(doc.version = job.version)
  BY <1>1, RaiseKeeps DEF Load, DocFits, TypeOK, PlacesFit, Actors, Claimed, InImport, Chunking,
     persistent, history
<1>2. CASE doc.version = job.version
  <2>1. /\ pc[Runner] = "load" /\ job.version # 0
        /\ doc # NoDoc /\ doc.version = job.version
        /\ pc' = [pc EXCEPT ![Runner] = "summary"]
        /\ own' = [own EXCEPT ![Runner] = doc]
        /\ UNCHANGED <<doc, items, job, cut, todo, history>>
    BY <1>2, DocumentAssumption DEF Load, Raise, Drop, Hold, Goto, persistent, history, DocFits,
       PlacesFit, TypeOK, BlankFits, Actors, Bare, Chunking, Activating, InImport, Claimed
  <2>2. TypeOK'
    BY <2>1, SomeTextType DEF DocFits, history, TypeOK, Actors
  <2>3. PlacesFit'
    BY <2>1 DEF DocFits, history, PlacesFit, TypeOK, Actors, Chunking, Activating, InImport,
       Claimed, Bare
  <2>4. CutFits'
    BY <2>1 DEF DocFits, history, CutFits, TypeOK, Actors, Chunking, Activating, InImport,
       Claimed, Bare, PlacesFit
  <2>5. ListsFit'
    BY <2>1 DEF DocFits, history, ListsFit, TypeOK, Actors, Clients, Chunking, Activating,
       InImport, Claimed, Bare, PlacesFit
  <2>6. RunFits'
    BY <2>1 DEF DocFits, history, RunFits, TypeOK, Actors
  <2>7. BlankFits'
    BY <2>1 DEF DocFits, history, BlankFits, TypeOK, Actors
  <2>8. RecordsAreBacked'
    BY <2>1 DEF DocFits, history, RecordsAreBacked, TypeOK, Actors, Backed, Chunking, Activating,
       InImport, Claimed, Bare, PlacesFit
  <2>9. UneditedFits'
    BY <2>1 DEF DocFits, history, UneditedFits, TypeOK, Actors, Unedited, Chunking, Activating,
       InImport, Claimed, Bare, PlacesFit
  <2>10. Agreed'
    BY <2>1 DEF DocFits, history, Agreed, TypeOK, Actors, Unedited, Serial, Clients, Chunking,
       Activating, InImport, Claimed, Bare, PlacesFit
  <2>11. WholeOrOwed'
    BY <2>1 DEF DocFits, history, WholeOrOwed, TypeOK, Actors, Owes, Keyed, Unedited, Through,
       Chunking, Activating, InImport, Claimed, Bare, PlacesFit
  <2>12. TurnsFit'
    BY <2>1, DocumentAssumption, SomeTextType DEF DocFits, history, TurnsFit, TypeOK, Actors,
       Serial, Clients, Chunking, Activating, InImport, Claimed, Bare, PlacesFit, Keys, Slots,
       Versions, Doc, Item, RunFits, BlankFits
  <2>13. OldAreGoing'
    BY <2>1 DEF DocFits, history, OldAreGoing, TypeOK, Actors, Serial, Keyed, Alive, Working,
       Clients
  <2>14. FailingIsWhole'
    BY <2>1 DEF DocFits, history, FailingIsWhole, TypeOK, Actors, Serial, Keyed, Alive, Clients
  <2>15. EditorsSpare'
    BY <2>1 DEF DocFits, history, EditorsSpare, TypeOK, Actors, Serial, Keyed, Clients
  <2>16. WholeFits'
    BY <2>1 DEF DocFits, history, WholeFits, TypeOK, Actors, RunnerMinds, Owes, Unedited, Serial,
       Keyed, Alive, Working, Clients, Through, Chunking, Activating, InImport, Claimed, Bare,
       PlacesFit
  <2> QED
    BY <2>2, <2>3, <2>4, <2>5, <2>6, <2>7, <2>8, <2>9, <2>10, <2>11, <2>12, <2>13, <2>14, <2>15,
       <2>16 DEF DocFits
<1> QED
  BY <1>1, <1>2 DEF Load, Require, SaveIfCurrent

LEMMA ParseKeeps ==
    ASSUME DocFits, Parse
    PROVE  DocFits'
<1>1. CASE doc' # doc \/ pc'[Runner] = "claim"
  <2>1. /\ pc[Runner] = "load" /\ job.version = 0 /\ doc = NoDoc
        /\ doc' \in Doc /\ doc'.version = 1 /\ doc'.expected = 0 /\ doc'.completed = 0
        /\ own' = [own EXCEPT ![Runner] = doc']
        /\ pc' = [pc EXCEPT ![Runner] = "claim"]
        /\ UNCHANGED <<items, job, cut, todo, history>>
    BY <1>1, DocumentAssumption DEF Parse, Raise, Drop, Hold, Goto, persistent, history, DocFits,
       PlacesFit, RunFits, CutFits, TypeOK, BlankFits, Actors, Doc, Versions, Slots, Clients,
       Chunking, Activating, InImport, Claimed, Bare
  <2>2. TypeOK'
    BY <2>1, SomeTextType DEF DocFits, history, TypeOK, Actors
  <2>3. PlacesFit'
    BY <2>1, DocumentAssumption, SomeTextType DEF DocFits, history, PlacesFit, TypeOK, Actors,
       Chunking, Activating, InImport, Claimed, Bare, Keys, Slots, Versions, Doc, Item, RunFits,
       BlankFits
  <2>4. CutFits'
    BY <2>1 DEF DocFits, history, CutFits, TypeOK, Actors, Chunking, Activating, InImport,
       Claimed, Bare, PlacesFit
  <2>5. ListsFit'
    BY <2>1 DEF DocFits, history, ListsFit, TypeOK, Actors, Clients, Chunking, Activating,
       InImport, Claimed, Bare, PlacesFit
  <2>6. RunFits'
    BY <2>1 DEF DocFits, history, RunFits, TypeOK, Actors, Chunking, Activating, InImport,
       Claimed, Bare, PlacesFit
  <2>7. BlankFits'
    BY <2>1 DEF DocFits, history, BlankFits, TypeOK, Actors
  <2>8. RecordsAreBacked'
    BY <2>1 DEF DocFits, history, RecordsAreBacked, TypeOK, Actors, Backed, Chunking, Activating,
       InImport, Claimed, Bare, PlacesFit
  <2>9. UneditedFits'
    BY <2>1, DocumentAssumption, SomeTextType DEF DocFits, history, UneditedFits, TypeOK, Actors,
       Unedited, Chunking, Activating, InImport, Claimed, Bare, PlacesFit, Doc, Versions, RunFits,
       BlankFits
  <2>10. Agreed'
    BY <2>1, DocumentAssumption, SomeTextType DEF DocFits, history, Agreed, TypeOK, Actors,
       Unedited, Serial, Clients, Chunking, Activating, InImport, Claimed, Bare, PlacesFit, Keys,
       Slots, Versions, Doc, Item, RunFits, BlankFits
  <2>11. WholeOrOwed'
    BY <2>1, DocumentAssumption, SomeTextType DEF DocFits, history, WholeOrOwed, TypeOK, Actors,
       Owes, Keyed, Unedited, Through, Chunking, Activating, InImport, Claimed, Bare, PlacesFit,
       Keys, Slots, Versions, Doc, Item, RunFits, BlankFits
  <2>12. TurnsFit'
    BY <2>1, DocumentAssumption, SomeTextType DEF DocFits, history, TurnsFit, TypeOK, Actors,
       Serial, Clients, Chunking, Activating, InImport, Claimed, Bare, PlacesFit, Keys, Slots,
       Versions, Doc, Item, RunFits, BlankFits
  <2>13. OldAreGoing'
    BY <2>1, DocumentAssumption, SomeTextType DEF DocFits, history, OldAreGoing, TypeOK, Actors,
       Serial, Keyed, Alive, Working, Clients, Chunking, Activating, InImport, Claimed, Bare,
       PlacesFit, Keys, Slots, Versions, Doc, Item, RunFits, BlankFits
  <2>14. FailingIsWhole'
    BY <2>1 DEF DocFits, history, FailingIsWhole, TypeOK, Actors, Serial, Keyed, Alive, Clients
  <2>15. EditorsSpare'
    BY <2>1, DocumentAssumption, SomeTextType DEF DocFits, history, EditorsSpare, TypeOK, Actors,
       Serial, Keyed, Clients, Chunking, Activating, InImport, Claimed, Bare, PlacesFit, Keys,
       Slots, Versions, Doc, Item, RunFits, BlankFits
  <2>16. WholeFits'
    BY <2>1, DocumentAssumption, SomeTextType DEF DocFits, history, WholeFits, TypeOK, Actors,
       RunnerMinds, Owes, Unedited, Serial, Keyed, Alive, Working, Clients, Through, Chunking,
       Activating, InImport, Claimed, Bare, PlacesFit, Keys, Slots, Versions, Doc, Item, RunFits,
       BlankFits
  <2> QED
    BY <2>2, <2>3, <2>4, <2>5, <2>6, <2>7, <2>8, <2>9, <2>10, <2>11, <2>12, <2>13, <2>14, <2>15,
       <2>16 DEF DocFits
<1>2. CASE Raise(Runner) /\ UNCHANGED doc
  BY <1>2, RaiseKeeps DEF Parse, DocFits, TypeOK, history
<1> QED
  BY <1>1, <1>2 DEF Parse, Hold, Goto, DocFits, TypeOK, Actors

LEMMA ClaimDocumentKeeps ==
    ASSUME DocFits, ClaimDocument
    PROVE  DocFits'
<1>1. TypeOK'
  BY DocumentAssumption, SomeTextType DEF DocFits, ClaimDocument, Goto, persistent, locals,
     history, TypeOK, Actors, Chunking, Activating, InImport, Claimed, Bare, PlacesFit, Keys,
     Slots, Versions, Doc, Item, RunFits, BlankFits
<1>2. PlacesFit'
  BY DEF DocFits, ClaimDocument, Goto, persistent, locals, history, PlacesFit, TypeOK, Actors,
     Chunking, Activating, InImport, Claimed, Bare
<1>3. CutFits'
  BY DEF DocFits, ClaimDocument, Goto, persistent, locals, history, CutFits, TypeOK, Actors,
     Chunking, Activating, InImport, Claimed, Bare, PlacesFit
<1>4. ListsFit'
  BY DEF DocFits, ClaimDocument, Goto, persistent, locals, history, ListsFit, TypeOK, Actors,
     Clients, Chunking, Activating, InImport, Claimed, Bare, PlacesFit
<1>5. RunFits'
  BY DEF DocFits, ClaimDocument, Goto, persistent, locals, history, RunFits, TypeOK, Actors
<1>6. BlankFits'
  BY DEF DocFits, ClaimDocument, Goto, persistent, locals, history, BlankFits, TypeOK, Actors,
     Chunking, Activating, InImport, Claimed, Bare, PlacesFit
<1>7. RecordsAreBacked'
  BY DEF DocFits, ClaimDocument, Goto, persistent, locals, history, RecordsAreBacked, TypeOK,
     Actors, Backed, Chunking, Activating, InImport, Claimed, Bare, PlacesFit
<1>8. UneditedFits'
  BY DEF DocFits, ClaimDocument, Goto, persistent, locals, history, UneditedFits, TypeOK, Actors,
     Unedited
<1>9. Agreed'
  BY DEF DocFits, ClaimDocument, Goto, persistent, locals, history, Agreed, TypeOK, Actors,
     Unedited, Serial, Clients, Chunking, Activating, InImport, Claimed, Bare, PlacesFit
<1>10. WholeOrOwed'
  BY DEF DocFits, ClaimDocument, Goto, persistent, locals, history, WholeOrOwed, TypeOK, Actors,
     Owes, Keyed, Unedited, Through, Chunking, Activating, InImport, Claimed, Bare, PlacesFit
<1>11. TurnsFit'
  BY DEF DocFits, ClaimDocument, Goto, persistent, locals, history, TurnsFit, TypeOK, Actors,
     Serial, Clients
<1>12. OldAreGoing'
  BY DocumentAssumption, SomeTextType DEF DocFits, ClaimDocument, Goto, persistent, locals,
     history, OldAreGoing, TypeOK, Actors, Serial, Keyed, Alive, Working, Clients, Chunking,
     Activating, InImport, Claimed, Bare, PlacesFit, Keys, Slots, Versions, Doc, Item, RunFits,
     BlankFits
<1>13. FailingIsWhole'
  BY DEF DocFits, ClaimDocument, Goto, persistent, locals, history, FailingIsWhole, TypeOK,
     Actors, Serial, Keyed, Alive, Clients
<1>14. EditorsSpare'
  BY DEF DocFits, ClaimDocument, Goto, persistent, locals, history, EditorsSpare, TypeOK, Actors,
     Serial, Keyed, Clients
<1>15. WholeFits'
  BY DocumentAssumption, SomeTextType DEF DocFits, ClaimDocument, Goto, persistent, locals,
     history, WholeFits, TypeOK, Actors, RunnerMinds, Owes, Unedited, Serial, Keyed, Alive,
     Working, Clients, Through, Chunking, Activating, InImport, Claimed, Bare, PlacesFit, Keys,
     Slots, Versions, Doc, Item, RunFits, BlankFits
<1> QED
  BY <1>1, <1>2, <1>3, <1>4, <1>5, <1>6, <1>7, <1>8, <1>9, <1>10, <1>11, <1>12, <1>13, <1>14,
     <1>15 DEF DocFits

LEMMA CheckSummaryKeeps ==
    ASSUME DocFits, CheckSummary
    PROVE  DocFits'
<1>1. CASE Raise(Runner) /\ ~(Current(Runner))
  BY <1>1, RaiseKeeps DEF CheckSummary, DocFits, TypeOK, PlacesFit, Actors, Claimed, InImport,
     Chunking, persistent, history
<1>2. CASE Current(Runner)
  <2>1. /\ pc[Runner] = "summary"
        /\ doc # NoDoc /\ doc.version = own[Runner].version
        /\ pc' = [pc EXCEPT ![Runner] = "save_summary"]
        /\ own' = [own EXCEPT ![Runner] = doc]
        /\ UNCHANGED <<doc, items, job, cut, todo, history>>
    BY <1>2, DocumentAssumption DEF CheckSummary, Require, Raise, Drop, Current, Hold, Goto,
       persistent, history, DocFits, PlacesFit, TypeOK, BlankFits, Actors, Bare, Chunking,
       Activating, InImport, Claimed
  <2>2. TypeOK'
    BY <2>1, SomeTextType DEF DocFits, history, TypeOK, Actors
  <2>3. PlacesFit'
    BY <2>1 DEF DocFits, history, PlacesFit, TypeOK, Actors, Chunking, Activating, InImport,
       Claimed, Bare
  <2>4. CutFits'
    BY <2>1 DEF DocFits, history, CutFits, TypeOK, Actors, Chunking, Activating, InImport,
       Claimed, Bare, PlacesFit
  <2>5. ListsFit'
    BY <2>1 DEF DocFits, history, ListsFit, TypeOK, Actors, Clients, Chunking, Activating,
       InImport, Claimed, Bare, PlacesFit
  <2>6. RunFits'
    BY <2>1 DEF DocFits, history, RunFits, TypeOK, Actors, Chunking, Activating, InImport,
       Claimed, Bare, PlacesFit
  <2>7. BlankFits'
    BY <2>1 DEF DocFits, history, BlankFits, TypeOK, Actors
  <2>8. RecordsAreBacked'
    BY <2>1 DEF DocFits, history, RecordsAreBacked, TypeOK, Actors, Backed, Chunking, Activating,
       InImport, Claimed, Bare, PlacesFit
  <2>9. UneditedFits'
    BY <2>1 DEF DocFits, history, UneditedFits, TypeOK, Actors, Unedited, Chunking, Activating,
       InImport, Claimed, Bare, PlacesFit
  <2>10. Agreed'
    BY <2>1 DEF DocFits, history, Agreed, TypeOK, Actors, Unedited, Serial, Clients, Chunking,
       Activating, InImport, Claimed, Bare, PlacesFit
  <2>11. WholeOrOwed'
    BY <2>1 DEF DocFits, history, WholeOrOwed, TypeOK, Actors, Owes, Keyed, Unedited, Through,
       Chunking, Activating, InImport, Claimed, Bare, PlacesFit
  <2>12. TurnsFit'
    BY <2>1 DEF DocFits, history, TurnsFit, TypeOK, Actors, Serial, Clients, Chunking, Activating,
       InImport, Claimed, Bare, PlacesFit
  <2>13. OldAreGoing'
    BY <2>1 DEF DocFits, history, OldAreGoing, TypeOK, Actors, Serial, Keyed, Alive, Working,
       Clients, Chunking, Activating, InImport, Claimed, Bare, PlacesFit
  <2>14. FailingIsWhole'
    BY <2>1 DEF DocFits, history, FailingIsWhole, TypeOK, Actors, Serial, Keyed, Alive, Clients
  <2>15. EditorsSpare'
    BY <2>1 DEF DocFits, history, EditorsSpare, TypeOK, Actors, Serial, Keyed, Clients
  <2>16. WholeFits'
    BY <2>1 DEF DocFits, history, WholeFits, TypeOK, Actors, RunnerMinds, Owes, Unedited, Serial,
       Keyed, Alive, Working, Clients, Through, Chunking, Activating, InImport, Claimed, Bare,
       PlacesFit
  <2> QED
    BY <2>2, <2>3, <2>4, <2>5, <2>6, <2>7, <2>8, <2>9, <2>10, <2>11, <2>12, <2>13, <2>14, <2>15,
       <2>16 DEF DocFits
<1> QED
  BY <1>1, <1>2 DEF CheckSummary, Require, SaveIfCurrent

LEMMA SaveSummaryKeeps ==
    ASSUME DocFits, SaveSummary
    PROVE  DocFits'
<1>1. TypeOK'
  BY DocumentAssumption, SomeTextType DEF DocFits, SaveSummary, SaveItem, Goto, persistent,
     locals, history, TypeOK, Actors, Chunking, Activating, InImport, Claimed, Bare, PlacesFit,
     Keys, Slots, Versions, Doc, Item, RunFits, BlankFits
<1>2. PlacesFit'
  BY DEF DocFits, SaveSummary, SaveItem, Goto, persistent, locals, history, PlacesFit, TypeOK,
     Actors, Chunking, Activating, InImport, Claimed, Bare
<1>3. CutFits'
  BY DEF DocFits, SaveSummary, SaveItem, Goto, persistent, locals, history, CutFits, TypeOK,
     Actors, Chunking, Activating, InImport, Claimed, Bare, PlacesFit
<1>4. ListsFit'
  BY DEF DocFits, SaveSummary, SaveItem, Goto, persistent, locals, history, ListsFit, TypeOK,
     Actors, Clients, Chunking, Activating, InImport, Claimed, Bare, PlacesFit
<1>5. RunFits'
  BY DEF DocFits, SaveSummary, SaveItem, Goto, persistent, locals, history, RunFits, TypeOK,
     Actors, Chunking, Activating, InImport, Claimed, Bare, PlacesFit
<1>6. BlankFits'
  BY DEF DocFits, SaveSummary, SaveItem, Goto, persistent, locals, history, BlankFits, TypeOK,
     Actors, Chunking, Activating, InImport, Claimed, Bare, PlacesFit
<1>7. RecordsAreBacked'
  BY DocumentAssumption, SomeTextType DEF DocFits, SaveSummary, SaveItem, Goto, persistent,
     locals, history, RecordsAreBacked, TypeOK, Actors, Backed, Chunking, Activating, InImport,
     Claimed, Bare, PlacesFit, Keys, Slots, Versions, Doc, Item, RunFits, BlankFits
<1>8. UneditedFits'
  BY DEF DocFits, SaveSummary, SaveItem, Goto, persistent, locals, history, UneditedFits, TypeOK,
     Actors, Unedited
<1>9. Agreed'
  BY DocumentAssumption, SomeTextType DEF DocFits, SaveSummary, SaveItem, Goto, persistent,
     locals, history, Agreed, TypeOK, Actors, Unedited, Serial, Clients, Chunking, Activating,
     InImport, Claimed, Bare, PlacesFit, Keys, Slots, Versions, Doc, Item, RunFits, BlankFits
<1>10. WholeOrOwed'
  BY DocumentAssumption, SomeTextType DEF DocFits, SaveSummary, SaveItem, Goto, persistent,
     locals, history, WholeOrOwed, TypeOK, Actors, Owes, Keyed, Unedited, Through, Chunking,
     Activating, InImport, Claimed, Bare, PlacesFit, Keys, Slots, Versions, Doc, Item, RunFits,
     BlankFits
<1>11. TurnsFit'
  BY DocumentAssumption, SomeTextType DEF DocFits, SaveSummary, SaveItem, Goto, persistent,
     locals, history, TurnsFit, TypeOK, Actors, Serial, Clients, Chunking, Activating, InImport,
     Claimed, Bare, PlacesFit, Keys, Slots, Versions, Doc, Item, RunFits, BlankFits
<1>12. OldAreGoing'
  BY DocumentAssumption, SomeTextType DEF DocFits, SaveSummary, SaveItem, Goto, persistent,
     locals, history, OldAreGoing, TypeOK, Actors, Serial, Keyed, Alive, Working, Clients,
     Chunking, Activating, InImport, Claimed, Bare, PlacesFit, Keys, Slots, Versions, Doc, Item,
     RunFits, BlankFits
<1>13. FailingIsWhole'
  BY DEF DocFits, SaveSummary, SaveItem, Goto, persistent, locals, history, FailingIsWhole,
     TypeOK, Actors, Serial, Keyed, Alive, Clients
<1>14. EditorsSpare'
  BY DEF DocFits, SaveSummary, SaveItem, Goto, persistent, locals, history, EditorsSpare, TypeOK,
     Actors, Serial, Keyed, Clients
<1>15. WholeFits'
  BY DocumentAssumption, SomeTextType DEF DocFits, SaveSummary, SaveItem, Goto, persistent,
     locals, history, WholeFits, TypeOK, Actors, RunnerMinds, Owes, Unedited, Serial, Keyed,
     Alive, Working, Clients, Through, Chunking, Activating, InImport, Claimed, Bare, PlacesFit,
     Keys, Slots, Versions, Doc, Item, RunFits, BlankFits
<1> QED
  BY <1>1, <1>2, <1>3, <1>4, <1>5, <1>6, <1>7, <1>8, <1>9, <1>10, <1>11, <1>12, <1>13, <1>14,
     <1>15 DEF DocFits

LEMMA StartImportKeeps ==
    ASSUME DocFits, NEW a \in {Runner} \cup Importers, StartImport(a)
    PROVE  DocFits'
<1>1. CASE Raise(a) /\ ~(Current(a))
  BY <1>1, RaiseKeeps DEF StartImport, DocFits, TypeOK, PlacesFit, Actors, Claimed, InImport,
     Chunking, persistent, history
<1>2. CASE Current(a)
  <2>1. /\ pc[a] = "import"
        /\ doc # NoDoc /\ doc.version = own[a].version
        /\ pc' = [pc EXCEPT ![a] = "progress"]
        /\ own' = [own EXCEPT ![a] = Counted(doc, ChunksOf[doc.text], 0)]
        /\ cut' = [cut EXCEPT ![a] = [text |-> doc.text, done |-> 0]]
        /\ UNCHANGED <<doc, items, job, todo, history>>
    BY <1>2, DocumentAssumption DEF StartImport, Raise, Drop, Current, Hold, Counted, Goto,
       persistent, history, DocFits, PlacesFit, TypeOK, BlankFits, Actors, Bare, Chunking,
       Activating, InImport, Claimed
  <2>2. TypeOK'
    BY <2>1, DocumentAssumption, SomeTextType DEF DocFits, Counted, history, Items, Chunking,
       Activating, InImport, Claimed, Bare, TypeOK, PlacesFit, CutFits, RunFits, Keys, Slots,
       Versions, Doc, Item, Actors
  <2>3. PlacesFit'
    BY <2>1, DocumentAssumption, SomeTextType DEF DocFits, Counted, history, Items, Chunking,
       Activating, InImport, Claimed, Bare, TypeOK, PlacesFit, BlankFits, Keys, Slots, Versions,
       Doc, Item, Actors
  <2>4. CutFits'
    <3>1. doc.text \in Texts /\ ChunksOf[doc.text] \in Nat
      BY <2>1, DocumentAssumption DEF DocFits, TypeOK, Doc
    <3>2. \A b \in Actors : IF b = a THEN cut'[b].done = 0 /\ cut'[b].text = doc.text /\ pc'[b] = "progress"
                                     ELSE cut'[b] = cut[b] /\ pc'[b] = pc[b]
      BY <2>1 DEF DocFits, TypeOK, Actors
    <3>3. CutFits
      BY DEF DocFits
    <3> QED
      BY <3>1, <3>2, <3>3 DEF CutFits, Activating
  <2>5. ListsFit'
    BY <2>1 DEF DocFits, history, ListsFit, TypeOK, Actors, Clients, Chunking, Activating,
       InImport, Claimed, Bare, PlacesFit
  <2>6. RunFits'
    BY <2>1, DocumentAssumption, SomeTextType DEF DocFits, Counted, history, Items, Chunking,
       Activating, InImport, Claimed, Bare, TypeOK, PlacesFit, RunFits, BlankFits, Doc, Versions,
       Actors
  <2>7. BlankFits'
    BY <2>1 DEF DocFits, history, BlankFits, TypeOK, Actors
  <2>8. RecordsAreBacked'
    <3>1. \A b \in Actors : IF b = a THEN /\ cut'[b].done = 0 /\ pc'[b] = "progress" /\ own'[b].version = doc.version
                                              /\ own'[b].completed = 0 /\ own'[b].expected = ChunksOf[doc.text]
                                     ELSE cut'[b] = cut[b] /\ pc'[b] = pc[b] /\ own'[b] = own[b]
      BY <2>1 DEF DocFits, TypeOK, Actors, Counted
    <3>2. doc.text \in Texts /\ ChunksOf[doc.text] \in Nat
      BY <2>1, DocumentAssumption DEF DocFits, TypeOK, Doc
    <3>3. RecordsAreBacked /\ doc' = doc /\ items' = items
      BY <2>1 DEF DocFits
    <3>4. pc[a] = "import" /\ own[a].version = doc.version /\ Runner \in Actors
      BY <2>1 DEF Actors
    <3>5. \A b \in Actors : own'[b] # NoDoc => Backed(own'[b], items')
      BY <3>1, <3>2, <3>3 DEF RecordsAreBacked, Backed
    <3>6. \A b \in Actors : pc'[b] \in Chunking \cup Activating \cup {"finalize"} =>
             \A s \in 1..cut'[b].done : items'[<<own'[b].version, s>>].status # "none"
      BY <3>1, <3>3 DEF RecordsAreBacked
    <3>7. pc'[Runner] \in InImport \cup {"finalize"} => items'[<<own'[Runner].version, 0>>].status # "none"
      BY <3>1, <3>3, <3>4 DEF RecordsAreBacked, InImport
    <3> QED
      BY <3>3, <3>5, <3>6, <3>7 DEF RecordsAreBacked
  <2>9. UneditedFits'
    BY <2>1, DocumentAssumption, SomeTextType DEF DocFits, Counted, history, Items, Chunking,
       Activating, InImport, Claimed, Bare, TypeOK, PlacesFit, RunFits, BlankFits, UneditedFits,
       Unedited, Doc, Versions, Actors
  <2>10. Agreed'
    BY <2>1, DocumentAssumption, SomeTextType DEF DocFits, Counted, history, Items, Chunking,
       Activating, InImport, Claimed, Bare, TypeOK, PlacesFit, CutFits, RunFits, BlankFits,
       UneditedFits, TurnsFit, Agreed, Unedited, Serial, Keys, Slots, Versions, Doc, Item, Actors,
       Clients
  <2>11. WholeOrOwed'
    BY <2>1 DEF DocFits, history, WholeOrOwed, TypeOK, Actors, Owes, Keyed, Unedited, Through,
       Chunking, Activating, InImport, Claimed, Bare, PlacesFit
  <2>12. TurnsFit'
    BY <2>1, DocumentAssumption, SomeTextType DEF DocFits, Counted, history, Items, Chunking,
       Activating, InImport, Claimed, Bare, TypeOK, PlacesFit, RunFits, BlankFits, TurnsFit,
       Serial, Clients, Keys, Slots, Versions, Doc, Item, Actors
  <2>13. OldAreGoing'
    BY <2>1 DEF DocFits, history, OldAreGoing, TypeOK, Actors, Serial, Keyed, Alive, Working,
       Clients, Chunking, Activating, InImport, Claimed, Bare, PlacesFit
  <2>14. FailingIsWhole'
    BY <2>1 DEF DocFits, history, FailingIsWhole, TypeOK, Actors, Serial, Keyed, Alive, Clients
  <2>15. EditorsSpare'
    BY <2>1 DEF DocFits, history, EditorsSpare, TypeOK, Actors, Serial, Keyed, Clients
  <2>16. WholeFits'
    BY <2>1 DEF DocFits, history, WholeFits, TypeOK, Actors, RunnerMinds, Owes, Unedited, Serial,
       Keyed, Alive, Working, Clients, Through, Chunking, Activating, InImport, Claimed, Bare,
       PlacesFit
  <2> QED
    BY <2>2, <2>3, <2>4, <2>5, <2>6, <2>7, <2>8, <2>9, <2>10, <2>11, <2>12, <2>13, <2>14, <2>15,
       <2>16 DEF DocFits
<1> QED
  BY <1>1, <1>2 DEF StartImport, Require, SaveIfCurrent

LEMMA SaveProgressKeeps ==
    ASSUME DocFits, NEW a \in {Runner} \cup Importers, SaveProgress(a)
    PROVE  DocFits'
<1>1. CASE Raise(a) /\ ~(Current(a)) /\ UNCHANGED doc
  BY <1>1, RaiseKeeps DEF SaveProgress, DocFits, TypeOK, PlacesFit, Actors, Claimed, InImport,
     Chunking, persistent, history
<1>2. CASE Current(a)
  <2>1. /\ pc[a] = "progress"
        /\ doc # NoDoc /\ doc.version = own[a].version
        /\ pc' = [pc EXCEPT ![a] = IF cut[a].done < ChunksOf[cut[a].text] THEN "chunk" ELSE "list"]
        /\ doc' = own[a]
        /\ UNCHANGED <<items, job, own, cut, todo, history>>
    BY <1>2, DocumentAssumption DEF SaveProgress, SaveIfCurrent, Raise, Drop, Current, Hold, Goto,
       persistent, history, DocFits, PlacesFit, TypeOK, BlankFits, Actors, Bare, Chunking,
       Activating, InImport, Claimed
  <2>2. TypeOK'
    BY <2>1, SomeTextType DEF DocFits, history, TypeOK, Actors
  <2>3. PlacesFit'
    BY <2>1 DEF DocFits, history, PlacesFit, TypeOK, Actors, Chunking, Activating, InImport,
       Claimed, Bare
  <2>4. CutFits'
    <3>1. cut[a].done \in Nat /\ ChunksOf[cut[a].text] \in Nat
      BY DocumentAssumption DEF DocFits, TypeOK, Actors
    <3>2. cut[a].done <= ChunksOf[cut[a].text]
      BY DEF DocFits, CutFits, Actors
    <3> QED
      BY <2>1, <3>1, <3>2 DEF DocFits, TypeOK, CutFits, Actors, Activating
  <2>5. ListsFit'
    BY <2>1 DEF DocFits, history, ListsFit, TypeOK, Actors, Clients, Chunking, Activating,
       InImport, Claimed, Bare, PlacesFit
  <2>6. RunFits'
    BY <2>1 DEF DocFits, history, RunFits, TypeOK, Actors, Chunking, Activating, InImport,
       Claimed, Bare, PlacesFit
  <2>7. BlankFits'
    BY <2>1 DEF DocFits, history, BlankFits, TypeOK, Actors, Chunking, Activating, InImport,
       Claimed, Bare, PlacesFit
  <2>8. RecordsAreBacked'
    BY <2>1 DEF DocFits, history, RecordsAreBacked, TypeOK, Actors, Backed, Chunking, Activating,
       InImport, Claimed, Bare, PlacesFit
  <2>9. UneditedFits'
    BY <2>1 DEF DocFits, history, UneditedFits, TypeOK, Actors, Unedited
  <2>10. Agreed'
    BY <2>1 DEF DocFits, history, Agreed, TypeOK, Actors, Unedited, Serial, Clients, Chunking,
       Activating, InImport, Claimed, Bare, PlacesFit
  <2>11. WholeOrOwed'
    <3>1. \A b \in {Runner} \cup Importers : \A s : Owes(b, s) => Owes(b, s)'
      BY <2>1 DEF DocFits, TypeOK, Owes, Keyed, Chunking, Activating, Actors
    <3>2. pc'[Runner] \in Through => pc[Runner] \in Through
      BY <2>1 DEF DocFits, TypeOK, Through, Activating, Actors
    <3>3. own[a] # NoDoc /\ own[a] \in Doc /\ a \in Actors
      BY <2>1 DEF DocFits, TypeOK, PlacesFit, Bare, Actors
    <3>4. Unedited' => Unedited /\ own[a].text = doc.text
      BY <2>1, <3>3 DEF DocFits, Unedited, UneditedFits, Agreed
    <3> QED
      BY <2>1, <3>1, <3>2, <3>4 DEF DocFits, WholeOrOwed, history
  <2>12. TurnsFit'
    BY <2>1 DEF DocFits, history, TurnsFit, TypeOK, Actors, Serial, Clients, Chunking, Activating,
       InImport, Claimed, Bare, PlacesFit
  <2>13. OldAreGoing'
    BY <2>1 DEF DocFits, history, OldAreGoing, TypeOK, Actors, Serial, Keyed, Alive, Working,
       Clients, Chunking, Activating, InImport, Claimed, Bare, PlacesFit
  <2>14. FailingIsWhole'
    BY <2>1 DEF DocFits, history, FailingIsWhole, TypeOK, Actors, Serial, Keyed, Alive, Clients
  <2>15. EditorsSpare'
    BY <2>1 DEF DocFits, history, EditorsSpare, TypeOK, Actors, Serial, Keyed, Clients
  <2>16. WholeFits'
    BY <2>1, DocumentAssumption, SomeTextType DEF DocFits, Counted, history, Items, Chunking,
       Activating, InImport, Claimed, Bare, TypeOK, PlacesFit, CutFits, RunFits, BlankFits,
       RecordsAreBacked, Agreed, TurnsFit, FailingIsWhole, EditorsSpare, WholeOrOwed, WholeFits,
       RunnerMinds, Owes, Unedited, Serial, Keyed, Alive, Working, Clients, Keys, Slots, Versions,
       Doc, Item, Actors, Through
  <2> QED
    BY <2>2, <2>3, <2>4, <2>5, <2>6, <2>7, <2>8, <2>9, <2>10, <2>11, <2>12, <2>13, <2>14, <2>15,
       <2>16 DEF DocFits
<1> QED
  BY <1>1, <1>2 DEF SaveProgress, Require, SaveIfCurrent

LEMMA CheckChunkKeeps ==
    ASSUME DocFits, NEW a \in {Runner} \cup Importers, CheckChunk(a)
    PROVE  DocFits'
<1>1. CASE Raise(a) /\ ~(Current(a))
  BY <1>1, RaiseKeeps DEF CheckChunk, DocFits, TypeOK, PlacesFit, Actors, Claimed, InImport,
     Chunking, persistent, history
<1>2. CASE Current(a)
  <2>1. /\ pc[a] = "chunk"
        /\ doc # NoDoc /\ doc.version = own[a].version
        /\ pc' = [pc EXCEPT ![a] = "save_chunk"]
        /\ own' = [own EXCEPT ![a] = doc]
        /\ UNCHANGED <<doc, items, job, cut, todo, history>>
    BY <1>2, DocumentAssumption DEF CheckChunk, Require, Raise, Drop, Current, Hold, Goto,
       persistent, history, DocFits, PlacesFit, TypeOK, BlankFits, Actors, Bare, Chunking,
       Activating, InImport, Claimed
  <2>2. TypeOK'
    BY <2>1, SomeTextType DEF DocFits, history, TypeOK, Actors
  <2>3. PlacesFit'
    BY <2>1 DEF DocFits, history, PlacesFit, TypeOK, Actors, Chunking, Activating, InImport,
       Claimed, Bare
  <2>4. CutFits'
    BY <2>1 DEF DocFits, history, CutFits, TypeOK, Actors, Chunking, Activating, InImport,
       Claimed, Bare, PlacesFit
  <2>5. ListsFit'
    BY <2>1 DEF DocFits, history, ListsFit, TypeOK, Actors, Clients, Chunking, Activating,
       InImport, Claimed, Bare, PlacesFit
  <2>6. RunFits'
    BY <2>1 DEF DocFits, history, RunFits, TypeOK, Actors, Chunking, Activating, InImport,
       Claimed, Bare, PlacesFit
  <2>7. BlankFits'
    BY <2>1 DEF DocFits, history, BlankFits, TypeOK, Actors
  <2>8. RecordsAreBacked'
    BY <2>1 DEF DocFits, history, RecordsAreBacked, TypeOK, Actors, Backed, Chunking, Activating,
       InImport, Claimed, Bare, PlacesFit
  <2>9. UneditedFits'
    BY <2>1 DEF DocFits, history, UneditedFits, TypeOK, Actors, Unedited, Chunking, Activating,
       InImport, Claimed, Bare, PlacesFit
  <2>10. Agreed'
    BY <2>1 DEF DocFits, history, Agreed, TypeOK, Actors, Unedited, Serial, Clients, Chunking,
       Activating, InImport, Claimed, Bare, PlacesFit
  <2>11. WholeOrOwed'
    BY <2>1 DEF DocFits, history, WholeOrOwed, TypeOK, Actors, Owes, Keyed, Unedited, Through,
       Chunking, Activating, InImport, Claimed, Bare, PlacesFit
  <2>12. TurnsFit'
    BY <2>1 DEF DocFits, history, TurnsFit, TypeOK, Actors, Serial, Clients, Chunking, Activating,
       InImport, Claimed, Bare, PlacesFit
  <2>13. OldAreGoing'
    BY <2>1 DEF DocFits, history, OldAreGoing, TypeOK, Actors, Serial, Keyed, Alive, Working,
       Clients, Chunking, Activating, InImport, Claimed, Bare, PlacesFit
  <2>14. FailingIsWhole'
    BY <2>1 DEF DocFits, history, FailingIsWhole, TypeOK, Actors, Serial, Keyed, Alive, Clients
  <2>15. EditorsSpare'
    BY <2>1 DEF DocFits, history, EditorsSpare, TypeOK, Actors, Serial, Keyed, Clients
  <2>16. WholeFits'
    BY <2>1 DEF DocFits, history, WholeFits, TypeOK, Actors, RunnerMinds, Owes, Unedited, Serial,
       Keyed, Alive, Working, Clients, Through, Chunking, Activating, InImport, Claimed, Bare,
       PlacesFit
  <2> QED
    BY <2>2, <2>3, <2>4, <2>5, <2>6, <2>7, <2>8, <2>9, <2>10, <2>11, <2>12, <2>13, <2>14, <2>15,
       <2>16 DEF DocFits
<1> QED
  BY <1>1, <1>2 DEF CheckChunk, Require, SaveIfCurrent

LEMMA SaveChunkKeeps ==
    ASSUME DocFits, NEW a \in {Runner} \cup Importers, SaveChunk(a)
    PROVE  DocFits'
<1>1. CASE TRUE
  <2>1. /\ pc[a] = "save_chunk"
        /\ items' = [items EXCEPT ![<<own[a].version, cut[a].done + 1>>] = [status |-> "staging", text |-> cut[a].text]]
        /\ cut' = [cut EXCEPT ![a] = [text |-> cut[a].text, done |-> cut[a].done + 1]]
        /\ pc' = [pc EXCEPT ![a] = "counted"]
        /\ UNCHANGED <<doc, job, own, todo, history>>
        /\ own[a] # NoDoc /\ own[a].version \in Versions /\ cut[a].done + 1 \in Slots \ {0}
    <3>1. pc[a] = "save_chunk" /\ a \in Actors
      BY DEF SaveChunk, Actors
    <3>2. own[a] # NoDoc /\ own[a].version \in Versions
      BY <3>1 DEF DocFits, TypeOK, PlacesFit, Bare, Doc
    <3>3. cut[a].done < ChunksOf[cut[a].text] /\ cut[a].text \in Texts /\ cut[a].done \in Nat
      BY <3>1, DocumentAssumption DEF DocFits, TypeOK, CutFits
    <3>4. cut[a].done + 1 \in Slots \ {0}
      BY <3>3, DocumentAssumption DEF Slots
    <3> QED
      BY <3>1, <3>2, <3>4 DEF SaveChunk, SaveItem, Goto, history
  <2>2. TypeOK'
    BY <2>1, DocumentAssumption, SomeTextType DEF DocFits, history, TypeOK, Actors, Chunking,
       Activating, InImport, Claimed, Bare, PlacesFit, Keys, Slots, Versions, Doc, Item, RunFits,
       BlankFits
  <2>3. PlacesFit'
    BY <2>1 DEF DocFits, history, PlacesFit, TypeOK, Actors, Chunking, Activating, InImport,
       Claimed, Bare
  <2>4. CutFits'
    BY <2>1, DocumentAssumption, SomeTextType DEF DocFits, history, CutFits, TypeOK, Actors,
       Chunking, Activating, InImport, Claimed, Bare, PlacesFit, RunFits, BlankFits
  <2>5. ListsFit'
    BY <2>1 DEF DocFits, history, ListsFit, TypeOK, Actors, Clients, Chunking, Activating,
       InImport, Claimed, Bare, PlacesFit
  <2>6. RunFits'
    BY <2>1 DEF DocFits, history, RunFits, TypeOK, Actors, Chunking, Activating, InImport,
       Claimed, Bare, PlacesFit
  <2>7. BlankFits'
    BY <2>1 DEF DocFits, history, BlankFits, TypeOK, Actors
  <2>8. RecordsAreBacked'
    <3>1. \A k \in Keys : items[k].status # "none" => items'[k].status # "none"
      BY <2>1 DEF DocFits, TypeOK
    <3>2. \A b \in Actors : IF b = a THEN /\ own'[b] = own[b] /\ cut'[b].done = cut[b].done + 1 /\ pc'[b] = "counted"
                                     ELSE cut'[b] = cut[b] /\ pc'[b] = pc[b] /\ own'[b] = own[b]
      BY <2>1 DEF DocFits, TypeOK, Actors
    <3>3. RecordsAreBacked /\ doc' = doc /\ a \in Actors /\ Runner \in Actors
      BY <2>1 DEF DocFits, Actors
    <3>4. \A v \in Versions, s \in Slots : <<v, s>> \in Keys
      BY DEF Keys
    <3>5. \A b \in Actors : /\ own[b] # NoDoc => own[b].version \in Versions /\ own[b].completed \in 0..MaxChunks
                            /\ cut[b].done \in 0..MaxChunks
      BY DEF DocFits, TypeOK, Doc
    <3>6. doc # NoDoc => doc.version \in Versions /\ doc.completed \in 0..MaxChunks
      BY DEF DocFits, TypeOK, Doc
    <3>7. \A b \in Actors : pc[b] \in Chunking \cup Activating \cup {"finalize"} => own[b] # NoDoc
      BY DEF DocFits, PlacesFit, Chunking, Activating, Bare
    <3>8. MaxChunks \in Nat
      BY DocumentAssumption
    <3>9. doc' # NoDoc => Backed(doc', items')
      BY <3>1, <3>3, <3>4, <3>6, <3>8 DEF RecordsAreBacked, Backed, Slots
    <3>10. \A b \in Actors : own'[b] # NoDoc => Backed(own'[b], items')
      BY <3>1, <3>2, <3>3, <3>4, <3>5, <3>8 DEF RecordsAreBacked, Backed, Slots
    <3>11. items'[<<own[a].version, cut[a].done + 1>>].status # "none"
      BY <2>1 DEF DocFits, TypeOK, Keys
    <3>12. \A b \in Actors \ {a} : pc'[b] \in Chunking \cup Activating \cup {"finalize"} =>
             \A s \in 1..cut'[b].done : items'[<<own'[b].version, s>>].status # "none"
      BY <3>1, <3>2, <3>3, <3>4, <3>5, <3>7, <3>8 DEF RecordsAreBacked, Slots
    <3>13. \A s \in 1..cut'[a].done : items'[<<own'[a].version, s>>].status # "none"
      BY <2>1, <3>1, <3>2, <3>3, <3>4, <3>5, <3>7, <3>8, <3>11 DEF RecordsAreBacked, Slots,
         Chunking
    <3>14. pc'[Runner] \in InImport \cup {"finalize"} => items'[<<own'[Runner].version, 0>>].status # "none"
      BY <2>1, <3>1, <3>2, <3>3, <3>4, <3>5, <3>7, <3>8 DEF RecordsAreBacked, Slots, Chunking,
         InImport, DocFits, PlacesFit, Bare, Activating
    <3> QED
      BY <3>9, <3>10, <3>12, <3>13, <3>14 DEF RecordsAreBacked
  <2>9. UneditedFits'
    BY <2>1 DEF DocFits, history, UneditedFits, TypeOK, Actors, Unedited
  <2>10. Agreed'
    BY <2>1, DocumentAssumption, SomeTextType DEF DocFits, Counted, history, Items, Chunking,
       Activating, InImport, Claimed, Bare, TypeOK, PlacesFit, CutFits, RunFits, BlankFits,
       UneditedFits, TurnsFit, Agreed, Unedited, Serial, Keys, Slots, Versions, Doc, Item, Actors,
       Clients
  <2>11. WholeOrOwed'
    <3>1. SUFFICES ASSUME Unedited' /\ ~broken',
                          job'.status = "completed" \/ pc'[Runner] \in Through,
                          NEW s \in 0..ChunksOf[doc'.text]
                   PROVE  /\ items'[<<1, s>>].status # "none"
                          /\ items'[<<1, s>>].status = "active" \/ \E b \in {Runner} \cup Importers : Owes(b, s)'
      BY DEF WholeOrOwed, Through
    <3>2. a # Runner /\ Unedited /\ ~broken /\ a \in Actors
      BY <2>1, <3>1 DEF DocFits, TypeOK, RunFits, Unedited, Actors, Activating, Through, history
    <3>3. job.status = "completed" \/ pc[Runner] \in Through
      BY <2>1, <3>1, <3>2 DEF DocFits, TypeOK, Actors
    <3>4. /\ items[<<1, s>>].status # "none"
          /\ items[<<1, s>>].status = "active" \/ \E b \in {Runner} \cup Importers : Owes(b, s)
      BY <2>1, <3>1, <3>2, <3>3 DEF DocFits, WholeOrOwed, Through
    <3>5. own[a].version = 1
      BY <2>1, <3>2 DEF DocFits, UneditedFits, PlacesFit, Bare
    <3>6. \A b \in {Runner} \cup Importers : Owes(b, s) => Owes(b, s)'
      BY <2>1, <3>2, DocumentAssumption DEF Owes, Keyed, DocFits, TypeOK, Actors, Chunking,
         Activating
    <3>7. s \in Slots /\ <<1, s>> \in Keys
      BY <2>1, <3>1, <3>2, DocumentAssumption DEF DocFits, TypeOK, Doc, Slots, Keys, Versions,
         Unedited
    <3>8. CASE s # cut[a].done + 1
      BY <2>1, <3>4, <3>5, <3>6, <3>7, <3>8 DEF DocFits, TypeOK
    <3>9. CASE s = cut[a].done + 1
      <4>1. Owes(a, s)'
        BY <2>1, <3>2, <3>9 DEF Owes, DocFits, TypeOK, Slots, Chunking
      <4> QED
        BY <2>1, <3>5, <3>7, <3>9, <4>1 DEF DocFits, TypeOK
    <3> QED
      BY <3>8, <3>9
  <2>12. TurnsFit'
    BY <2>1, DocumentAssumption, SomeTextType DEF DocFits, history, TurnsFit, TypeOK, Actors,
       Serial, Clients, Chunking, Activating, InImport, Claimed, Bare, PlacesFit, Keys, Slots,
       Versions, Doc, Item, RunFits, BlankFits
  <2>13. OldAreGoing'
    <3>1. SUFFICES ASSUME Serial', NEW k \in Keys, Alive(k)', k[1] # doc'.version
                   PROVE  \/ \E e \in Editors : pc'[e] = "edited" \/ (pc'[e] = "invalidate" /\ k \in Keyed(e)')
                          \/ k[1] = job'.version /\ pc'[Runner] \in Working \cup {"invalidate"}
      BY DEF OldAreGoing
    <3>2. \A e \in Editors : pc'[e] = pc[e] /\ Keyed(e)' = Keyed(e)
      BY <2>1, DocumentAssumption DEF DocFits, TypeOK, Actors, Keyed
    <3>3. pc[Runner] \in Working \cup {"invalidate"} => pc'[Runner] \in Working \cup {"invalidate"}
      BY <2>1 DEF DocFits, TypeOK, Actors, Working, Claimed, InImport, Chunking
    <3>4. Serial /\ doc' = doc /\ job' = job
      BY <2>1, <3>1 DEF Serial, history
    <3>5. CASE k = <<own[a].version, cut[a].done + 1>>
      BY <2>1, <3>1, <3>3, <3>4, <3>5 DEF DocFits, TurnsFit, Clients, RunFits, Working, Claimed,
         InImport, Chunking, PlacesFit, Bare, Actors
    <3>6. CASE k # <<own[a].version, cut[a].done + 1>>
      BY <2>1, <3>1, <3>2, <3>3, <3>4, <3>6 DEF DocFits, TypeOK, OldAreGoing, Alive
    <3> QED
      BY <3>5, <3>6
  <2>14. FailingIsWhole'
    BY <2>1, DocumentAssumption, SomeTextType DEF DocFits, Counted, history, Items, Chunking,
       Activating, InImport, Claimed, Bare, TypeOK, PlacesFit, RunFits, TurnsFit, FailingIsWhole,
       Serial, Keyed, Alive, Clients, Keys, Slots, Versions, Doc, Item, Actors
  <2>15. EditorsSpare'
    BY <2>1 DEF DocFits, history, EditorsSpare, TypeOK, Actors, Serial, Keyed, Clients
  <2>16. WholeFits'
    <3>1. SUFFICES ASSUME Serial', doc' # NoDoc PROVE WholeFits'
      BY DEF WholeFits
    <3>2. Serial /\ doc' = doc /\ job' = job /\ doc # NoDoc
      BY <2>1, <3>1 DEF Serial, history
    <3>3. RunnerMinds => RunnerMinds'
      BY <2>1, <3>2 DEF DocFits, TypeOK, Actors, Working, Claimed, InImport, Chunking, RunnerMinds
    <3>4. \A i \in Importers \ {a} : pc'[i] = pc[i] /\ Keyed(i)' = Keyed(i)
      BY <2>1, DocumentAssumption DEF DocFits, TypeOK, Actors, Keyed
    <3>5. CASE a \in Importers
      BY <2>1, <3>2, <3>4, <3>5 DEF DocFits, TypeOK, Actors, TurnsFit, Clients, WholeFits,
         InImport, Chunking, Activating
    <3>6. CASE a = Runner /\ ~RunnerMinds
      <4>1. own[a].version # doc.version
        BY <2>1, <3>6 DEF DocFits, RunFits, Claimed, InImport, Chunking, RunnerMinds, Working
      <4>2. \A s \in Slots : items'[<<doc.version, s>>] = items[<<doc.version, s>>]
        BY <2>1, <3>2, <4>1 DEF DocFits, TypeOK, Keys, Doc
      <4>3. 1..ChunksOf[doc.text] \subseteq Slots
        BY <3>2, DocumentAssumption DEF DocFits, TypeOK, Slots, Doc
      <4>4. \A i \in Importers : pc'[i] = pc[i] /\ Keyed(i)' = Keyed(i)
        BY <3>4, <3>6, DocumentAssumption
      <4> QED
        BY <3>2, <3>6, <4>2, <4>3, <4>4 DEF DocFits, WholeFits
    <3> QED
      BY <3>3, <3>5, <3>6 DEF WholeFits
  <2> QED
    BY <2>2, <2>3, <2>4, <2>5, <2>6, <2>7, <2>8, <2>9, <2>10, <2>11, <2>12, <2>13, <2>14, <2>15,
       <2>16 DEF DocFits
<1> QED
  BY <1>1 DEF SaveChunk, Hold, Goto, DocFits, TypeOK, Actors

LEMMA CountChunkKeeps ==
    ASSUME DocFits, NEW a \in {Runner} \cup Importers, CountChunk(a)
    PROVE  DocFits'
<1>1. CASE Raise(a) /\ ~(Current(a))
  BY <1>1, RaiseKeeps DEF CountChunk, DocFits, TypeOK, PlacesFit, Actors, Claimed, InImport,
     Chunking, persistent, history
<1>2. CASE Current(a)
  <2>1. /\ pc[a] = "counted"
        /\ doc # NoDoc /\ doc.version = own[a].version
        /\ pc' = [pc EXCEPT ![a] = "progress"]
        /\ own' = [own EXCEPT ![a] = Counted(doc, ChunksOf[cut[a].text], cut[a].done)]
        /\ UNCHANGED <<doc, items, job, cut, todo, history>>
    BY <1>2, DocumentAssumption DEF CountChunk, Raise, Drop, Current, Hold, Counted, Goto,
       persistent, history, DocFits, PlacesFit, TypeOK, BlankFits, Actors, Bare, Chunking,
       Activating, InImport, Claimed
  <2>2. TypeOK'
    BY <2>1, DocumentAssumption, SomeTextType DEF DocFits, Counted, history, Items, Chunking,
       Activating, InImport, Claimed, Bare, TypeOK, PlacesFit, CutFits, RunFits, Keys, Slots,
       Versions, Doc, Item, Actors
  <2>3. PlacesFit'
    BY <2>1, DocumentAssumption, SomeTextType DEF DocFits, Counted, history, Items, Chunking,
       Activating, InImport, Claimed, Bare, TypeOK, PlacesFit, BlankFits, Keys, Slots, Versions,
       Doc, Item, Actors
  <2>4. CutFits'
    BY <2>1 DEF DocFits, history, CutFits, TypeOK, Actors, Chunking, Activating, InImport,
       Claimed, Bare, PlacesFit
  <2>5. ListsFit'
    BY <2>1 DEF DocFits, history, ListsFit, TypeOK, Actors, Clients, Chunking, Activating,
       InImport, Claimed, Bare, PlacesFit
  <2>6. RunFits'
    BY <2>1, DocumentAssumption, SomeTextType DEF DocFits, Counted, history, Items, Chunking,
       Activating, InImport, Claimed, Bare, TypeOK, PlacesFit, RunFits, BlankFits, Doc, Versions,
       Actors
  <2>7. BlankFits'
    BY <2>1 DEF DocFits, history, BlankFits, TypeOK, Actors
  <2>8. RecordsAreBacked'
    <3>1. /\ a \in Actors /\ cut[a].done \in Nat /\ cut[a].done <= ChunksOf[cut[a].text]
          /\ doc \in Doc
      BY <2>1 DEF DocFits, TypeOK, CutFits, Actors
    <3>2. \A s \in 1..cut[a].done : items[<<doc.version, s>>].status # "none"
      BY <2>1, <3>1 DEF DocFits, RecordsAreBacked, Chunking
    <3>3. Backed(Counted(doc, ChunksOf[cut[a].text], cut[a].done), items)
      BY <3>1, <3>2 DEF Backed, Counted
    <3>4. Counted(doc, ChunksOf[cut[a].text], cut[a].done).version = own[a].version
      BY <2>1 DEF Counted
    <3>5. \A b \in Actors : /\ own'[b] # own[b] => b = a /\ own'[b].version = own[b].version
                            /\ pc'[b] \in Chunking \cup Activating \cup {"finalize"} <=>
                                  pc[b] \in Chunking \cup Activating \cup {"finalize"}
                            /\ pc'[b] \in InImport \cup {"finalize"} <=>
                                  pc[b] \in InImport \cup {"finalize"}
      BY <2>1, <3>4 DEF DocFits, TypeOK, Chunking, InImport
    <3>6. \A b \in Actors : own'[b] # own[b] => own'[b] = Counted(doc, ChunksOf[cut[a].text], cut[a].done)
      BY <2>1 DEF DocFits, TypeOK
    <3> QED
      BY <2>1, <3>1, <3>3, <3>5, <3>6 DEF DocFits, RecordsAreBacked, Actors
  <2>9. UneditedFits'
    BY <2>1, DocumentAssumption, SomeTextType DEF DocFits, Counted, history, Items, Chunking,
       Activating, InImport, Claimed, Bare, TypeOK, PlacesFit, RunFits, BlankFits, UneditedFits,
       Unedited, Doc, Versions, Actors
  <2>10. Agreed'
    BY <2>1, DocumentAssumption, SomeTextType DEF DocFits, Counted, history, Items, Chunking,
       Activating, InImport, Claimed, Bare, TypeOK, PlacesFit, CutFits, RunFits, BlankFits,
       UneditedFits, TurnsFit, Agreed, Unedited, Serial, Keys, Slots, Versions, Doc, Item, Actors,
       Clients
  <2>11. WholeOrOwed'
    BY <2>1 DEF DocFits, history, WholeOrOwed, TypeOK, Actors, Owes, Keyed, Unedited, Through,
       Chunking, Activating, InImport, Claimed, Bare, PlacesFit
  <2>12. TurnsFit'
    BY <2>1, DocumentAssumption, SomeTextType DEF DocFits, Counted, history, Items, Chunking,
       Activating, InImport, Claimed, Bare, TypeOK, PlacesFit, RunFits, BlankFits, TurnsFit,
       Serial, Clients, Keys, Slots, Versions, Doc, Item, Actors
  <2>13. OldAreGoing'
    BY <2>1 DEF DocFits, history, OldAreGoing, TypeOK, Actors, Serial, Keyed, Alive, Working,
       Clients, Chunking, Activating, InImport, Claimed, Bare, PlacesFit
  <2>14. FailingIsWhole'
    BY <2>1 DEF DocFits, history, FailingIsWhole, TypeOK, Actors, Serial, Keyed, Alive, Clients
  <2>15. EditorsSpare'
    BY <2>1 DEF DocFits, history, EditorsSpare, TypeOK, Actors, Serial, Keyed, Clients
  <2>16. WholeFits'
    BY <2>1 DEF DocFits, history, WholeFits, TypeOK, Actors, RunnerMinds, Owes, Unedited, Serial,
       Keyed, Alive, Working, Clients, Through, Chunking, Activating, InImport, Claimed, Bare,
       PlacesFit
  <2> QED
    BY <2>2, <2>3, <2>4, <2>5, <2>6, <2>7, <2>8, <2>9, <2>10, <2>11, <2>12, <2>13, <2>14, <2>15,
       <2>16 DEF DocFits
<1> QED
  BY <1>1, <1>2 DEF CountChunk, Require, SaveIfCurrent

LEMMA ListVersionItemsKeeps ==
    ASSUME DocFits, NEW a \in {Runner} \cup Importers, ListVersionItems(a)
    PROVE  DocFits'
<1>1. CASE TRUE
  <2>1. /\ pc[a] = "list"
        /\ todo' = [todo EXCEPT ![a] = Items({own[a].version}, {"staging", "active", "stale"})]
        /\ pc' = [pc EXCEPT ![a] = "activate"]
        /\ UNCHANGED <<doc, items, job, own, cut, history>>
    BY <1>1, DocumentAssumption DEF ListVersionItems, Items, Goto, persistent, history, DocFits,
       PlacesFit, RunFits, CutFits, TypeOK, BlankFits, Actors, Doc, Versions, Slots, Clients,
       Chunking, Activating, InImport, Claimed, Bare
  <2>2. TypeOK'
    BY <2>1, DocumentAssumption, SomeTextType DEF DocFits, history, TypeOK, Actors, Chunking,
       Activating, InImport, Claimed, Bare, PlacesFit, Keys, Slots, Versions, Doc, Item, RunFits,
       BlankFits, Items
  <2>3. PlacesFit'
    BY <2>1 DEF DocFits, history, PlacesFit, TypeOK, Actors, Chunking, Activating, InImport,
       Claimed, Bare, Items
  <2>4. CutFits'
    BY <2>1 DEF DocFits, history, CutFits, TypeOK, Actors, Items
  <2>5. ListsFit'
    BY <2>1 DEF DocFits, history, ListsFit, TypeOK, Actors, Clients, Chunking, Activating,
       InImport, Claimed, Bare, PlacesFit, Items
  <2>6. RunFits'
    BY <2>1 DEF DocFits, history, RunFits, TypeOK, Actors, Chunking, Activating, InImport,
       Claimed, Bare, PlacesFit, Items
  <2>7. BlankFits'
    BY <2>1 DEF DocFits, history, BlankFits, TypeOK, Actors, Items
  <2>8. RecordsAreBacked'
    BY <2>1 DEF DocFits, history, RecordsAreBacked, TypeOK, Actors, Backed, Chunking, Activating,
       InImport, Claimed, Bare, PlacesFit, Items
  <2>9. UneditedFits'
    BY <2>1 DEF DocFits, history, UneditedFits, TypeOK, Actors, Unedited, Items
  <2>10. Agreed'
    BY <2>1 DEF DocFits, history, Agreed, TypeOK, Actors, Unedited, Serial, Clients, Chunking,
       Activating, InImport, Claimed, Bare, PlacesFit, Items
  <2>11. WholeOrOwed'
    <3>1. SUFFICES ASSUME Unedited' /\ ~broken',
                          job'.status = "completed" \/ pc'[Runner] \in Through,
                          NEW s \in 0..ChunksOf[doc'.text]
                   PROVE  /\ items'[<<1, s>>].status # "none"
                          /\ items'[<<1, s>>].status = "active" \/ \E b \in {Runner} \cup Importers : Owes(b, s)'
      BY DEF WholeOrOwed, Through
    <3>2. Unedited /\ ~broken /\ a \in Actors /\ items' = items /\ doc' = doc
      BY <2>1, <3>1 DEF Unedited, Actors, history
    <3>3. own[a].version = 1 /\ doc.text \in Texts
      BY <2>1, <3>2 DEF DocFits, TypeOK, Doc, Unedited, UneditedFits, PlacesFit, Bare
    <3>4. s \in Slots /\ s \in Nat /\ ChunksOf[doc.text] \in Nat
      BY <3>1, <3>2, <3>3, DocumentAssumption DEF Slots
    <3>5. <<1, s>> \in Keys
      BY <3>4, DocumentAssumption DEF Keys, Versions
    <3>6. items[<<1, s>>].status # "none" => Owes(a, s)'
      <4>1. items[<<1, s>>].status # "none" => items[<<1, s>>].status \in {"staging", "active", "stale"}
        BY <3>3, <3>4, <3>5 DEF DocFits, TypeOK, Item
      <4>2. Keyed(a)' = {x[1] : x \in Items({own[a].version}, {"staging", "active", "stale"})}
        BY <2>1, <3>2 DEF Keyed, DocFits, TypeOK
      <4> QED
        BY <2>1, <3>2, <3>3, <3>4, <3>5, <4>1, <4>2, ItemsListed DEF Owes, DocFits, TypeOK,
           Activating
    <3>7. CASE a = Runner
      BY <2>1, <3>1, <3>2, <3>3, <3>4, <3>5, <3>6, <3>7
         DEF DocFits, RecordsAreBacked, CutFits, Agreed, Unedited, Chunking, InImport, PlacesFit, Bare
    <3>8. CASE a # Runner
      <4>1. job.status = "completed" \/ pc[Runner] \in Through
        BY <2>1, <3>1, <3>8 DEF DocFits, TypeOK, Actors
      <4>2. /\ items[<<1, s>>].status # "none"
            /\ items[<<1, s>>].status = "active" \/ \E b \in {Runner} \cup Importers : Owes(b, s)
        BY <3>1, <3>2, <4>1 DEF DocFits, WholeOrOwed, Through
      <4>3. \A b \in {Runner} \cup Importers : b # a => (Owes(b, s) => Owes(b, s)')
        BY <2>1 DEF DocFits, TypeOK, Actors, Owes, Keyed
      <4> QED
        BY <3>2, <3>6, <4>2, <4>3
    <3> QED
      BY <3>7, <3>8
  <2>12. TurnsFit'
    BY <2>1 DEF DocFits, history, TurnsFit, TypeOK, Actors, Serial, Clients, Items
  <2>13. OldAreGoing'
    BY <2>1 DEF DocFits, history, OldAreGoing, TypeOK, Actors, Serial, Keyed, Alive, Working,
       Clients, Chunking, Activating, InImport, Claimed, Bare, PlacesFit, Items
  <2>14. FailingIsWhole'
    BY <2>1 DEF DocFits, history, FailingIsWhole, TypeOK, Actors, Serial, Keyed, Alive, Clients,
       Items
  <2>15. EditorsSpare'
    BY <2>1 DEF DocFits, history, EditorsSpare, TypeOK, Actors, Serial, Keyed, Clients, Items
  <2>16. WholeFits'
    <3>1. SUFFICES ASSUME Serial', doc' # NoDoc PROVE WholeFits'
      BY DEF WholeFits
    <3>2. Serial /\ doc' = doc /\ job' = job /\ doc # NoDoc /\ items' = items /\ a \in Actors
      BY <2>1, <3>1 DEF Serial, history, Actors
    <3>3. RunnerMinds => RunnerMinds'
      BY <2>1, <3>2 DEF DocFits, TypeOK, Actors, Working, Claimed, InImport, Chunking, Activating,
         RunnerMinds
    <3>4. \A i \in Importers \ {a} : pc'[i] = pc[i] /\ Keyed(i)' = Keyed(i)
      BY <2>1, DocumentAssumption DEF DocFits, TypeOK, Actors, Keyed
    <3>5. CASE a \in Importers
      <4>1. \A i \in Importers \ {a} : pc[i] = "idle"
        BY <2>1, <3>2, <3>5 DEF DocFits, TurnsFit, Clients
      <4>2. own[a].version = doc.version /\ cut[a].text = doc.text /\ cut[a].done = ChunksOf[doc.text]
        BY <2>1, <3>2, <3>5 DEF DocFits, TurnsFit, Clients, PlacesFit, Bare, Agreed, CutFits,
           Chunking
      <4>3. \A s \in 1..ChunksOf[doc.text] : <<doc.version, s>> \in Keys /\ items[<<doc.version, s>>].status # "none"
        BY <2>1, <3>2, <4>2, DocumentAssumption DEF DocFits, RecordsAreBacked, Chunking, TypeOK,
           Doc, Keys, Slots
      <4>4. Keyed(a)' = {x[1] : x \in Items({own[a].version}, {"staging", "active", "stale"})}
        BY <2>1, <3>2 DEF Keyed, DocFits, TypeOK
      <4>5. \A s \in 1..ChunksOf[doc.text] : <<doc.version, s>> \in Keyed(a)'
        <5>1. SUFFICES ASSUME NEW s \in 1..ChunksOf[doc.text] PROVE <<doc.version, s>> \in Keyed(a)'
          OBVIOUS
        <5>2. items[<<doc.version, s>>].status \in {"staging", "active", "stale"}
          BY <4>3, <5>1 DEF DocFits, TypeOK, Item
        <5> QED
          BY <4>2, <4>3, <4>4, <5>1, <5>2, ItemsListed DEF DocFits
      <4>6. pc'[a] \in InImport
        BY <2>1, <3>2 DEF DocFits, TypeOK, InImport, Activating
      <4> QED
        BY <3>2, <3>4, <3>5, <4>1, <4>5, <4>6 DEF WholeFits, Activating
    <3>6. CASE a = Runner
      <4>1. \A i \in Importers : pc'[i] = pc[i] /\ Keyed(i)' = Keyed(i)
        BY <3>4, <3>6, DocumentAssumption
      <4> QED
        BY <3>2, <3>3, <4>1 DEF DocFits, WholeFits
    <3> QED
      BY <3>5, <3>6
  <2> QED
    BY <2>2, <2>3, <2>4, <2>5, <2>6, <2>7, <2>8, <2>9, <2>10, <2>11, <2>12, <2>13, <2>14, <2>15,
       <2>16 DEF DocFits
<1> QED
  BY <1>1 DEF ListVersionItems, Hold, Goto, DocFits, TypeOK, Actors

LEMMA CheckActiveKeeps ==
    ASSUME DocFits, NEW a \in {Runner} \cup Importers, CheckActive(a)
    PROVE  DocFits'
<1>1. CASE Raise(a) /\ ~(Current(a))
  BY <1>1, RaiseKeeps DEF CheckActive, DocFits, TypeOK, PlacesFit, Actors, Claimed, InImport,
     Chunking, persistent, history
<1>2. CASE Current(a)
  <2>1. /\ pc[a] = "activate" /\ todo[a] # {}
        /\ doc # NoDoc /\ doc.version = own[a].version
        /\ pc' = [pc EXCEPT ![a] = "save_active"]
        /\ own' = [own EXCEPT ![a] = doc]
        /\ UNCHANGED <<doc, items, job, cut, todo, history>>
    BY <1>2, DocumentAssumption DEF CheckActive, Require, Raise, Drop, Current, Hold, Goto,
       persistent, history, DocFits, PlacesFit, TypeOK, BlankFits, Actors, Bare, Chunking,
       Activating, InImport, Claimed
  <2>2. TypeOK'
    BY <2>1, SomeTextType DEF DocFits, history, TypeOK, Actors
  <2>3. PlacesFit'
    BY <2>1 DEF DocFits, history, PlacesFit, TypeOK, Actors, Chunking, Activating, InImport,
       Claimed, Bare
  <2>4. CutFits'
    BY <2>1 DEF DocFits, history, CutFits, TypeOK, Actors, Chunking, Activating, InImport,
       Claimed, Bare, PlacesFit
  <2>5. ListsFit'
    BY <2>1 DEF DocFits, history, ListsFit, TypeOK, Actors, Clients, Chunking, Activating,
       InImport, Claimed, Bare, PlacesFit
  <2>6. RunFits'
    BY <2>1 DEF DocFits, history, RunFits, TypeOK, Actors, Chunking, Activating, InImport,
       Claimed, Bare, PlacesFit
  <2>7. BlankFits'
    BY <2>1 DEF DocFits, history, BlankFits, TypeOK, Actors
  <2>8. RecordsAreBacked'
    BY <2>1 DEF DocFits, history, RecordsAreBacked, TypeOK, Actors, Backed, Chunking, Activating,
       InImport, Claimed, Bare, PlacesFit
  <2>9. UneditedFits'
    BY <2>1 DEF DocFits, history, UneditedFits, TypeOK, Actors, Unedited, Chunking, Activating,
       InImport, Claimed, Bare, PlacesFit
  <2>10. Agreed'
    BY <2>1 DEF DocFits, history, Agreed, TypeOK, Actors, Unedited, Serial, Clients, Chunking,
       Activating, InImport, Claimed, Bare, PlacesFit
  <2>11. WholeOrOwed'
    BY <2>1 DEF DocFits, history, WholeOrOwed, TypeOK, Actors, Owes, Keyed, Unedited, Through,
       Chunking, Activating, InImport, Claimed, Bare, PlacesFit
  <2>12. TurnsFit'
    BY <2>1 DEF DocFits, history, TurnsFit, TypeOK, Actors, Serial, Clients, Chunking, Activating,
       InImport, Claimed, Bare, PlacesFit
  <2>13. OldAreGoing'
    BY <2>1 DEF DocFits, history, OldAreGoing, TypeOK, Actors, Serial, Keyed, Alive, Working,
       Clients, Chunking, Activating, InImport, Claimed, Bare, PlacesFit
  <2>14. FailingIsWhole'
    BY <2>1 DEF DocFits, history, FailingIsWhole, TypeOK, Actors, Serial, Keyed, Alive, Clients
  <2>15. EditorsSpare'
    BY <2>1 DEF DocFits, history, EditorsSpare, TypeOK, Actors, Serial, Keyed, Clients
  <2>16. WholeFits'
    BY <2>1 DEF DocFits, history, WholeFits, TypeOK, Actors, RunnerMinds, Owes, Unedited, Serial,
       Keyed, Alive, Working, Clients, Through, Chunking, Activating, InImport, Claimed, Bare,
       PlacesFit
  <2> QED
    BY <2>2, <2>3, <2>4, <2>5, <2>6, <2>7, <2>8, <2>9, <2>10, <2>11, <2>12, <2>13, <2>14, <2>15,
       <2>16 DEF DocFits
<1> QED
  BY <1>1, <1>2 DEF CheckActive, Require, SaveIfCurrent

LEMMA SaveActiveKeeps ==
    ASSUME DocFits, NEW a \in {Runner} \cup Importers, SaveActive(a)
    PROVE  DocFits'
<1>1. PICK x \in todo[a] : SaveItem(x[1], "active", x[2]) /\ todo' = [todo EXCEPT ![a] = @ \ {x}]
  BY DEF SaveActive
<1>2. /\ x \in todo[a] /\ x[1] \in Keys /\ x[2] \in Texts
      /\ pc[a] = "save_active"
      /\ items' = [items EXCEPT ![x[1]] = [status |-> "active", text |-> x[2]]]
      /\ todo' = [todo EXCEPT ![a] = todo[a] \ {x}]
      /\ pc' = [pc EXCEPT ![a] = "activate"]
      /\ UNCHANGED <<doc, job, own, cut, history>>
  <2>1. a \in Actors /\ todo[a] \in SUBSET (Keys \X Texts)
    BY DEF DocFits, TypeOK, Actors
  <2>2. x[1] \in Keys /\ x[2] \in Texts
    BY <1>1, <2>1
  <2> QED
    BY <1>1, <2>2 DEF SaveActive, SaveItem, Goto, history
<1>3. TypeOK'
  BY <1>2, DocumentAssumption, SomeTextType DEF DocFits, history, TypeOK, Actors, Chunking,
     Activating, InImport, Claimed, Bare, PlacesFit, Keys, Slots, Versions, Doc, Item, RunFits,
     BlankFits
<1>4. PlacesFit'
  BY <1>2 DEF DocFits, history, PlacesFit, TypeOK, Actors, Chunking, Activating, InImport,
     Claimed, Bare
<1>5. CutFits'
  BY <1>2 DEF DocFits, history, CutFits, TypeOK, Actors, Chunking, Activating, InImport, Claimed,
     Bare, PlacesFit
<1>6. ListsFit'
  BY <1>2 DEF DocFits, history, ListsFit, TypeOK, Actors, Clients, Chunking, Activating, InImport,
     Claimed, Bare, PlacesFit
<1>7. RunFits'
  BY <1>2 DEF DocFits, history, RunFits, TypeOK, Actors, Chunking, Activating, InImport, Claimed,
     Bare, PlacesFit
<1>8. BlankFits'
  BY <1>2 DEF DocFits, history, BlankFits, TypeOK, Actors
<1>9. RecordsAreBacked'
  BY <1>2 DEF DocFits, history, RecordsAreBacked, TypeOK, Actors, Backed, Chunking, Activating,
     InImport, Claimed, Bare, PlacesFit
<1>10. UneditedFits'
  BY <1>2 DEF DocFits, history, UneditedFits, TypeOK, Actors, Unedited
<1>11. Agreed'
  BY <1>2 DEF DocFits, history, Agreed, TypeOK, Actors, Unedited, Serial, Clients, Chunking,
     Activating, InImport, Claimed, Bare, PlacesFit
<1>12. WholeOrOwed'
  <2>1. SUFFICES ASSUME Unedited' /\ ~broken',
                        job'.status = "completed" \/ pc'[Runner] \in Through,
                        NEW s \in 0..ChunksOf[doc'.text]
                 PROVE  /\ items'[<<1, s>>].status # "none"
                        /\ items'[<<1, s>>].status = "active" \/ \E b \in {Runner} \cup Importers : Owes(b, s)'
    BY DEF WholeOrOwed, Through
  <2>2. Unedited /\ ~broken
    BY <1>2, <2>1 DEF Unedited, history
  <2>3. job.status = "completed" \/ pc[Runner] \in Through
    BY <1>2, <2>1 DEF DocFits, TypeOK, Actors, Activating, Through
  <2>4. /\ items[<<1, s>>].status # "none"
        /\ items[<<1, s>>].status = "active" \/ \E b \in {Runner} \cup Importers : Owes(b, s)
    BY <1>2, <2>1, <2>2, <2>3 DEF DocFits, WholeOrOwed, Through
  <2>5. \A b \in {Runner} \cup Importers : b # a /\ Owes(b, s) => Owes(b, s)'
    BY <1>2 DEF Owes, Keyed, DocFits, TypeOK, Actors
  <2>6. <<1, s>> # x[1] /\ Owes(a, s) => Owes(a, s)'
    BY <1>2 DEF Owes, Keyed, DocFits, TypeOK, Actors, Activating, Chunking
  <2>7. CASE <<1, s>> = x[1]
    BY <1>2, <2>7 DEF DocFits, TypeOK
  <2>8. CASE <<1, s>> # x[1]
    BY <1>2, <2>4, <2>5, <2>6, <2>8 DEF DocFits, TypeOK
  <2> QED
    BY <2>7, <2>8
<1>13. TurnsFit'
  BY <1>2 DEF DocFits, history, TurnsFit, TypeOK, Actors, Serial, Clients
<1>14. OldAreGoing'
  <2>1. SUFFICES ASSUME Serial', NEW k \in Keys, Alive(k)', k[1] # doc'.version
                 PROVE  \/ \E e \in Editors : pc'[e] = "edited" \/ (pc'[e] = "invalidate" /\ k \in Keyed(e)')
                        \/ k[1] = job'.version /\ pc'[Runner] \in Working \cup {"invalidate"}
    BY DEF OldAreGoing
  <2>2. \A e \in Editors : pc'[e] = pc[e] /\ Keyed(e)' = Keyed(e)
    BY <1>2, DocumentAssumption DEF DocFits, TypeOK, Actors, Keyed
  <2>3. pc[Runner] \in Working \cup {"invalidate"} => pc'[Runner] \in Working \cup {"invalidate"}
    BY <1>2 DEF DocFits, TypeOK, Actors, Working, Claimed, InImport, Activating
  <2>4. Serial /\ doc' = doc /\ job' = job
    BY <1>2, <2>1 DEF Serial, history
  <2>5. CASE k = x[1]
    <3>1. k[1] = own[a].version /\ own[a] # NoDoc
      BY <1>2, <2>5 DEF DocFits, ListsFit, PlacesFit, Bare, Activating, Actors
    <3>2. a = Runner
      BY <2>1, <2>4, <3>1 DEF DocFits, TurnsFit, Clients
    <3> QED
      BY <1>2, <2>3, <2>4, <3>1, <3>2 DEF DocFits, RunFits, Working, Claimed, InImport, Activating
  <2>6. CASE k # x[1]
    BY <1>2, <2>1, <2>2, <2>3, <2>4, <2>6 DEF DocFits, TypeOK, OldAreGoing, Alive
  <2> QED
    BY <2>5, <2>6
<1>15. FailingIsWhole'
  BY <1>2, DocumentAssumption, SomeTextType DEF DocFits, Counted, history, Items, Chunking,
     Activating, InImport, Claimed, Bare, TypeOK, PlacesFit, RunFits, TurnsFit, FailingIsWhole,
     Serial, Keyed, Alive, Clients, Keys, Slots, Versions, Doc, Item, Actors
<1>16. EditorsSpare'
  BY <1>2 DEF DocFits, history, EditorsSpare, TypeOK, Actors, Serial, Keyed, Clients
<1>17. WholeFits'
  <2>1. SUFFICES ASSUME Serial', doc' # NoDoc PROVE WholeFits'
    BY DEF WholeFits
  <2>2. Serial /\ doc' = doc /\ job' = job /\ doc # NoDoc /\ a \in Actors
    BY <1>2, <2>1 DEF Serial, history, Actors
  <2>3. RunnerMinds => RunnerMinds'
    BY <1>2, <2>2 DEF DocFits, TypeOK, Actors, Working, Claimed, InImport, Activating, RunnerMinds
  <2>4. \A i \in Importers \ {a} : pc'[i] = pc[i] /\ Keyed(i)' = Keyed(i)
    BY <1>2, DocumentAssumption DEF DocFits, TypeOK, Actors, Keyed
  <2>5. CASE a \in Importers
    <3>1. \A i \in Importers \ {a} : pc[i] = "idle"
      BY <1>2, <2>2, <2>5 DEF DocFits, TurnsFit, Clients
    <3>2. pc'[a] \in InImport
      BY <1>2, <2>2 DEF DocFits, TypeOK, InImport, Activating
    <3>3. RunnerMinds \/ \A s \in 1..ChunksOf[doc.text] :
              items[<<doc.version, s>>].status = "active" \/ <<doc.version, s>> \in Keyed(a)
      BY <1>2, <2>2, <2>5 DEF DocFits, WholeFits, Activating
    <3>4. ASSUME NEW k PROVE k \in Keyed(a) => k \in Keyed(a)' \/ k = x[1]
      BY <1>2, <2>2 DEF DocFits, TypeOK, Keyed
    <3>5. ASSUME NEW k PROVE items[k].status = "active" => items'[k].status = "active"
      BY <1>2 DEF DocFits, TypeOK
    <3>6. items'[x[1]].status = "active"
      BY <1>2 DEF DocFits, TypeOK
    <3>7. RunnerMinds \/ \A s \in 1..ChunksOf[doc.text] :
              items'[<<doc.version, s>>].status = "active" \/ <<doc.version, s>> \in Keyed(a)'
      BY <3>3, <3>4, <3>5, <3>6
    <3> QED
      BY <2>2, <2>3, <2>4, <2>5, <3>1, <3>2, <3>7 DEF WholeFits, Activating
  <2>6. CASE a = Runner /\ ~RunnerMinds
    <3>1. own[a].version # doc.version
      BY <1>2, <2>6 DEF DocFits, RunFits, Claimed, InImport, Activating, RunnerMinds, Working
    <3>2. \A s \in Slots : items'[<<doc.version, s>>] = items[<<doc.version, s>>]
      BY <1>2, <2>2, <3>1 DEF DocFits, TypeOK, Keys, Doc, ListsFit, Activating
    <3>3. 1..ChunksOf[doc.text] \subseteq Slots
      BY <2>2, DocumentAssumption DEF DocFits, TypeOK, Slots, Doc
    <3>4. \A i \in Importers : pc'[i] = pc[i] /\ Keyed(i)' = Keyed(i)
      BY <2>4, <2>6, DocumentAssumption
    <3> QED
      BY <2>2, <2>6, <3>2, <3>3, <3>4 DEF DocFits, WholeFits
  <2> QED
    BY <2>3, <2>5, <2>6 DEF WholeFits
<1> QED
  BY <1>3, <1>4, <1>5, <1>6, <1>7, <1>8, <1>9, <1>10, <1>11, <1>12, <1>13, <1>14, <1>15, <1>16,
     <1>17 DEF DocFits

LEMMA ActivatedKeeps ==
    ASSUME DocFits, NEW a \in {Runner} \cup Importers, Activated(a)
    PROVE  DocFits'
<1>1. CASE a = Runner
  <2>1. /\ a = Runner
        /\ pc[a] = "activate" /\ todo[a] = {}
        /\ pc' = [pc EXCEPT ![a] = "finalize"]
        /\ UNCHANGED <<doc, items, job, own, cut, todo, history>>
    BY <1>1, DocumentAssumption DEF Activated, End, Drop, Hold, Goto, persistent, history,
       DocFits, PlacesFit, RunFits, CutFits, TypeOK, BlankFits, Actors, Doc, Versions, Slots,
       Clients, Chunking, Activating, InImport, Claimed, Bare
  <2>2. TypeOK'
    BY <2>1, SomeTextType DEF DocFits, history, TypeOK, Actors
  <2>3. PlacesFit'
    BY <2>1, DocumentAssumption, SomeTextType DEF DocFits, history, PlacesFit, TypeOK, Actors,
       Chunking, Activating, InImport, Claimed, Bare, Keys, Slots, Versions, Doc, Item, RunFits,
       BlankFits
  <2>4. CutFits'
    BY <2>1 DEF DocFits, history, CutFits, TypeOK, Actors, Chunking, Activating, InImport,
       Claimed, Bare, PlacesFit
  <2>5. ListsFit'
    BY <2>1 DEF DocFits, history, ListsFit, TypeOK, Actors, Clients
  <2>6. RunFits'
    BY <2>1 DEF DocFits, history, RunFits, TypeOK, Actors, Chunking, Activating, InImport,
       Claimed, Bare, PlacesFit
  <2>7. BlankFits'
    BY <2>1 DEF DocFits, history, BlankFits, TypeOK, Actors
  <2>8. RecordsAreBacked'
    BY <2>1 DEF DocFits, history, RecordsAreBacked, TypeOK, Actors, Backed, Chunking, Activating,
       InImport, Claimed, Bare, PlacesFit
  <2>9. UneditedFits'
    BY <2>1 DEF DocFits, history, UneditedFits, TypeOK, Actors, Unedited
  <2>10. Agreed'
    BY <2>1 DEF DocFits, history, Agreed, TypeOK, Actors, Unedited, Serial, Clients, Chunking,
       Activating, InImport, Claimed, Bare, PlacesFit
  <2>11. WholeOrOwed'
    <3>1. Keyed(a) = {}
      BY <2>1 DEF Keyed
    <3>2. \A b \in {Runner} \cup Importers : \A s : Owes(b, s) => Owes(b, s)'
      BY <2>1, <3>1 DEF DocFits, TypeOK, Actors, Owes, Keyed, Activating, Chunking
    <3>3. pc'[Runner] \in Through =>
             pc[Runner] \in Through
      BY <2>1 DEF DocFits, TypeOK, Actors, Activating, Through
    <3> QED
      BY <2>1, <3>2, <3>3 DEF DocFits, WholeOrOwed, Through, Unedited, history
  <2>12. TurnsFit'
    BY <2>1 DEF DocFits, history, TurnsFit, TypeOK, Actors, Serial, Clients
  <2>13. OldAreGoing'
    BY <2>1 DEF DocFits, history, OldAreGoing, TypeOK, Actors, Serial, Keyed, Alive, Working,
       Clients, Chunking, Activating, InImport, Claimed, Bare, PlacesFit
  <2>14. FailingIsWhole'
    BY <2>1 DEF DocFits, history, FailingIsWhole, TypeOK, Actors, Serial, Keyed, Alive, Clients
  <2>15. EditorsSpare'
    BY <2>1 DEF DocFits, history, EditorsSpare, TypeOK, Actors, Serial, Keyed, Clients
  <2>16. WholeFits'
    BY <2>1, DocumentAssumption, SomeTextType DEF DocFits, history, WholeFits, TypeOK, Actors,
       RunnerMinds, Owes, Unedited, Serial, Keyed, Alive, Working, Clients, Through, Chunking,
       Activating, InImport, Claimed, Bare, PlacesFit, Keys, Slots, Versions, Doc, Item, RunFits,
       BlankFits
  <2> QED
    BY <2>2, <2>3, <2>4, <2>5, <2>6, <2>7, <2>8, <2>9, <2>10, <2>11, <2>12, <2>13, <2>14, <2>15,
       <2>16 DEF DocFits
<1>2. CASE a # Runner
  <2>1. /\ a # Runner
        /\ pc[a] = "activate" /\ todo[a] = {}
        /\ pc' = [pc EXCEPT ![a] = "idle"]
        /\ own' = [own EXCEPT ![a] = NoDoc]
        /\ cut' = [cut EXCEPT ![a] = [text |-> SomeText, done |-> 0]]
        /\ todo' = [todo EXCEPT ![a] = {}]
        /\ UNCHANGED <<doc, items, job, history>>
    BY <1>2, DocumentAssumption DEF Activated, End, Drop, Hold, Goto, persistent, history,
       DocFits, PlacesFit, RunFits, CutFits, TypeOK, BlankFits, Actors, Doc, Versions, Slots,
       Clients, Chunking, Activating, InImport, Claimed, Bare
  <2>2. TypeOK'
    BY <2>1, DocumentAssumption, SomeTextType DEF DocFits, history, TypeOK, Actors, Chunking,
       Activating, InImport, Claimed, Bare, PlacesFit, Keys, Slots, Versions, Doc, Item, RunFits,
       BlankFits
  <2>3. PlacesFit'
    BY <2>1 DEF DocFits, history, PlacesFit, TypeOK, Actors, Chunking, Activating, InImport,
       Claimed, Bare
  <2>4. CutFits'
    BY <2>1, DocumentAssumption, SomeTextType DEF DocFits, history, CutFits, TypeOK, Actors,
       Chunking, Activating, InImport, Claimed, Bare, PlacesFit, RunFits, BlankFits
  <2>5. ListsFit'
    BY <2>1 DEF DocFits, history, ListsFit, TypeOK, Actors, Clients
  <2>6. RunFits'
    BY <2>1 DEF DocFits, history, RunFits, TypeOK, Actors
  <2>7. BlankFits'
    BY <2>1 DEF DocFits, history, BlankFits, TypeOK, Actors
  <2>8. RecordsAreBacked'
    BY <2>1 DEF DocFits, history, RecordsAreBacked, TypeOK, Actors, Backed
  <2>9. UneditedFits'
    BY <2>1 DEF DocFits, history, UneditedFits, TypeOK, Actors, Unedited
  <2>10. Agreed'
    BY <2>1 DEF DocFits, history, Agreed, TypeOK, Actors, Unedited, Serial, Clients
  <2>11. WholeOrOwed'
    <3>1. Keyed(a) = {}
      BY <2>1 DEF Keyed
    <3>2. \A b \in {Runner} \cup Importers : \A s : Owes(b, s) => Owes(b, s)'
      BY <2>1, <3>1 DEF DocFits, TypeOK, Actors, Owes, Keyed, Activating, Chunking
    <3>3. pc'[Runner] \in Through =>
             pc[Runner] \in Through
      BY <2>1 DEF DocFits, TypeOK, Actors, Activating, Through
    <3> QED
      BY <2>1, <3>2, <3>3 DEF DocFits, WholeOrOwed, Through, Unedited, history
  <2>12. TurnsFit'
    BY <2>1 DEF DocFits, history, TurnsFit, TypeOK, Actors, Serial, Clients
  <2>13. OldAreGoing'
    BY <2>1 DEF DocFits, history, OldAreGoing, TypeOK, Actors, Serial, Keyed, Alive, Working,
       Clients
  <2>14. FailingIsWhole'
    BY <2>1 DEF DocFits, history, FailingIsWhole, TypeOK, Actors, Serial, Keyed, Alive, Clients
  <2>15. EditorsSpare'
    BY <2>1 DEF DocFits, history, EditorsSpare, TypeOK, Actors, Serial, Keyed, Clients
  <2>16. WholeFits'
    <3>1. SUFFICES ASSUME Serial', doc' # NoDoc PROVE WholeFits'
      BY DEF WholeFits
    <3>2. Serial /\ doc' = doc /\ job' = job /\ doc # NoDoc /\ items' = items /\ a \in Importers
      BY <2>1, <3>1 DEF Serial, history
    <3>3. RunnerMinds => RunnerMinds'
      BY <2>1, <3>2 DEF DocFits, TypeOK, Actors, RunnerMinds
    <3>4. \A i \in Importers : pc'[i] = "idle"
      BY <2>1, <3>2 DEF DocFits, TypeOK, Actors, TurnsFit, Clients, Activating
    <3>5. RunnerMinds \/ \A s \in 1..ChunksOf[doc.text] : items[<<doc.version, s>>].status = "active"
      BY <2>1, <3>2 DEF DocFits, WholeFits, Activating, Keyed
    <3> QED
      BY <3>2, <3>3, <3>4, <3>5 DEF WholeFits, Activating
  <2> QED
    BY <2>2, <2>3, <2>4, <2>5, <2>6, <2>7, <2>8, <2>9, <2>10, <2>11, <2>12, <2>13, <2>14, <2>15,
       <2>16 DEF DocFits
<1> QED
  BY <1>1, <1>2 DEF Activated, Hold, Goto, DocFits, TypeOK, Actors

LEMMA ReadFinalKeeps ==
    ASSUME DocFits, ReadFinal
    PROVE  DocFits'
<1>1. CASE Raise(Runner) /\ ~(Current(Runner))
  BY <1>1, RaiseKeeps DEF ReadFinal, DocFits, TypeOK, PlacesFit, Actors, Claimed, InImport,
     Chunking, persistent, history
<1>2. CASE Current(Runner)
  <2>1. /\ pc[Runner] = "finalize"
        /\ doc # NoDoc /\ doc.version = own[Runner].version
        /\ pc' = [pc EXCEPT ![Runner] = "save_final"]
        /\ own' = [own EXCEPT ![Runner] = Counted(doc, ChunksOf[cut[Runner].text], ChunksOf[cut[Runner].text])]
        /\ UNCHANGED <<doc, items, job, cut, todo, history>>
    BY <1>2, DocumentAssumption DEF ReadFinal, Raise, Drop, Current, Hold, Counted, Goto,
       persistent, history, DocFits, PlacesFit, TypeOK, BlankFits, Actors, Bare, Chunking,
       Activating, InImport, Claimed
  <2>2. TypeOK'
    BY <2>1, DocumentAssumption, SomeTextType DEF DocFits, Counted, history, Items, Chunking,
       Activating, InImport, Claimed, Bare, TypeOK, PlacesFit, CutFits, RunFits, Keys, Slots,
       Versions, Doc, Item, Actors
  <2>3. PlacesFit'
    BY <2>1, DocumentAssumption, SomeTextType DEF DocFits, Counted, history, Items, Chunking,
       Activating, InImport, Claimed, Bare, TypeOK, PlacesFit, BlankFits, Keys, Slots, Versions,
       Doc, Item, Actors
  <2>4. CutFits'
    BY <2>1 DEF DocFits, history, CutFits, TypeOK, Actors
  <2>5. ListsFit'
    BY <2>1 DEF DocFits, history, ListsFit, TypeOK, Actors, Clients, Chunking, Activating,
       InImport, Claimed, Bare, PlacesFit
  <2>6. RunFits'
    BY <2>1, DocumentAssumption, SomeTextType DEF DocFits, Counted, history, Items, Chunking,
       Activating, InImport, Claimed, Bare, TypeOK, PlacesFit, RunFits, BlankFits, Doc, Versions,
       Actors
  <2>7. BlankFits'
    BY <2>1 DEF DocFits, history, BlankFits, TypeOK, Actors
  <2>8. RecordsAreBacked'
    BY <2>1, DocumentAssumption, SomeTextType DEF DocFits, Counted, history, Items, Chunking,
       Activating, InImport, Claimed, Bare, TypeOK, PlacesFit, CutFits, RecordsAreBacked,
       BlankFits, Backed, Keys, Slots, Versions, Doc, Item, Actors
  <2>9. UneditedFits'
    BY <2>1, DocumentAssumption, SomeTextType DEF DocFits, Counted, history, Items, Chunking,
       Activating, InImport, Claimed, Bare, TypeOK, PlacesFit, RunFits, BlankFits, UneditedFits,
       Unedited, Doc, Versions, Actors
  <2>10. Agreed'
    BY <2>1, DocumentAssumption, SomeTextType DEF DocFits, Counted, history, Items, Chunking,
       Activating, InImport, Claimed, Bare, TypeOK, PlacesFit, CutFits, RunFits, BlankFits,
       UneditedFits, TurnsFit, Agreed, Unedited, Serial, Keys, Slots, Versions, Doc, Item, Actors,
       Clients
  <2>11. WholeOrOwed'
    BY <2>1 DEF DocFits, history, WholeOrOwed, TypeOK, Actors, Owes, Keyed, Unedited, Through,
       Chunking, Activating, InImport, Claimed, Bare, PlacesFit
  <2>12. TurnsFit'
    BY <2>1, DocumentAssumption, SomeTextType DEF DocFits, Counted, history, Items, Chunking,
       Activating, InImport, Claimed, Bare, TypeOK, PlacesFit, RunFits, BlankFits, TurnsFit,
       Serial, Clients, Keys, Slots, Versions, Doc, Item, Actors
  <2>13. OldAreGoing'
    BY <2>1 DEF DocFits, history, OldAreGoing, TypeOK, Actors, Serial, Keyed, Alive, Working,
       Clients, Chunking, Activating, InImport, Claimed, Bare, PlacesFit
  <2>14. FailingIsWhole'
    BY <2>1 DEF DocFits, history, FailingIsWhole, TypeOK, Actors, Serial, Keyed, Alive, Clients
  <2>15. EditorsSpare'
    BY <2>1 DEF DocFits, history, EditorsSpare, TypeOK, Actors, Serial, Keyed, Clients
  <2>16. WholeFits'
    BY <2>1 DEF DocFits, history, WholeFits, TypeOK, Actors, RunnerMinds, Owes, Unedited, Serial,
       Keyed, Alive, Working, Clients, Through, Chunking, Activating, InImport, Claimed, Bare,
       PlacesFit
  <2> QED
    BY <2>2, <2>3, <2>4, <2>5, <2>6, <2>7, <2>8, <2>9, <2>10, <2>11, <2>12, <2>13, <2>14, <2>15,
       <2>16 DEF DocFits
<1> QED
  BY <1>1, <1>2 DEF ReadFinal, Require, SaveIfCurrent

LEMMA SaveFinalKeeps ==
    ASSUME DocFits, SaveFinal
    PROVE  DocFits'
<1>1. CASE Raise(Runner) /\ ~(Current(Runner)) /\ UNCHANGED doc
  BY <1>1, RaiseKeeps DEF SaveFinal, DocFits, TypeOK, PlacesFit, Actors, Claimed, InImport,
     Chunking, persistent, history
<1>2. CASE Current(Runner)
  <2>1. /\ pc[Runner] = "save_final"
        /\ doc # NoDoc /\ doc.version = own[Runner].version
        /\ pc' = [pc EXCEPT ![Runner] = "finish"]
        /\ doc' = own[Runner]
        /\ UNCHANGED <<items, job, own, cut, todo, history>>
    BY <1>2, DocumentAssumption DEF SaveFinal, SaveIfCurrent, Raise, Drop, Current, Hold, Goto,
       persistent, history, DocFits, PlacesFit, TypeOK, BlankFits, Actors, Bare, Chunking,
       Activating, InImport, Claimed
  <2>2. TypeOK'
    BY <2>1, SomeTextType DEF DocFits, history, TypeOK, Actors
  <2>3. PlacesFit'
    BY <2>1 DEF DocFits, history, PlacesFit, TypeOK, Actors, Chunking, Activating, InImport,
       Claimed, Bare
  <2>4. CutFits'
    BY <2>1 DEF DocFits, history, CutFits, TypeOK, Actors, Chunking, Activating, InImport,
       Claimed, Bare, PlacesFit
  <2>5. ListsFit'
    BY <2>1 DEF DocFits, history, ListsFit, TypeOK, Actors, Clients, Chunking, Activating,
       InImport, Claimed, Bare, PlacesFit
  <2>6. RunFits'
    BY <2>1 DEF DocFits, history, RunFits, TypeOK, Actors, Chunking, Activating, InImport,
       Claimed, Bare, PlacesFit
  <2>7. BlankFits'
    BY <2>1 DEF DocFits, history, BlankFits, TypeOK, Actors, Chunking, Activating, InImport,
       Claimed, Bare, PlacesFit
  <2>8. RecordsAreBacked'
    BY <2>1 DEF DocFits, history, RecordsAreBacked, TypeOK, Actors, Backed, Chunking, Activating,
       InImport, Claimed, Bare, PlacesFit
  <2>9. UneditedFits'
    BY <2>1 DEF DocFits, history, UneditedFits, TypeOK, Actors, Unedited
  <2>10. Agreed'
    BY <2>1 DEF DocFits, history, Agreed, TypeOK, Actors, Unedited, Serial, Clients, Chunking,
       Activating, InImport, Claimed, Bare, PlacesFit
  <2>11. WholeOrOwed'
    BY <2>1, DocumentAssumption, SomeTextType DEF DocFits, Counted, history, Items, Chunking,
       Activating, InImport, Claimed, Bare, TypeOK, PlacesFit, CutFits, RunFits, BlankFits,
       RecordsAreBacked, UneditedFits, Agreed, WholeOrOwed, Owes, Keyed, Unedited, Keys, Slots,
       Versions, Doc, Item, Actors, Through
  <2>12. TurnsFit'
    BY <2>1 DEF DocFits, history, TurnsFit, TypeOK, Actors, Serial, Clients, Chunking, Activating,
       InImport, Claimed, Bare, PlacesFit
  <2>13. OldAreGoing'
    BY <2>1 DEF DocFits, history, OldAreGoing, TypeOK, Actors, Serial, Keyed, Alive, Working,
       Clients, Chunking, Activating, InImport, Claimed, Bare, PlacesFit
  <2>14. FailingIsWhole'
    BY <2>1 DEF DocFits, history, FailingIsWhole, TypeOK, Actors, Serial, Keyed, Alive, Clients
  <2>15. EditorsSpare'
    BY <2>1 DEF DocFits, history, EditorsSpare, TypeOK, Actors, Serial, Keyed, Clients
  <2>16. WholeFits'
    BY <2>1, DocumentAssumption, SomeTextType DEF DocFits, history, WholeFits, TypeOK, Actors,
       RunnerMinds, Owes, Unedited, Serial, Keyed, Alive, Working, Clients, Through, Chunking,
       Activating, InImport, Claimed, Bare, PlacesFit, Keys, Slots, Versions, Doc, Item, RunFits,
       BlankFits
  <2> QED
    BY <2>2, <2>3, <2>4, <2>5, <2>6, <2>7, <2>8, <2>9, <2>10, <2>11, <2>12, <2>13, <2>14, <2>15,
       <2>16 DEF DocFits
<1> QED
  BY <1>1, <1>2 DEF SaveFinal, Require, SaveIfCurrent

LEMMA FinishKeeps ==
    ASSUME DocFits, Finish
    PROVE  DocFits'
<1>1. CASE Raise(Runner) /\ ~(Current(Runner))
  BY <1>1, RaiseKeeps DEF Finish, DocFits, TypeOK, PlacesFit, Actors, Claimed, InImport, Chunking,
     persistent, history
<1>2. CASE Current(Runner)
  <2>1. /\ pc[Runner] = "finish"
        /\ doc # NoDoc /\ doc.version = own[Runner].version
        /\ pc' = [pc EXCEPT ![Runner] = "idle"]
        /\ own' = [own EXCEPT ![Runner] = NoDoc]
        /\ cut' = [cut EXCEPT ![Runner] = [text |-> SomeText, done |-> 0]]
        /\ todo' = [todo EXCEPT ![Runner] = {}]
        /\ job' = [status |-> "completed", version |-> own[Runner].version]
        /\ UNCHANGED <<doc, items, history>>
    BY <1>2, DocumentAssumption DEF Finish, Raise, Drop, Current, End, Hold, Goto, persistent,
       history, DocFits, PlacesFit, TypeOK, BlankFits, Actors, Bare, Chunking, Activating,
       InImport, Claimed
  <2>2. TypeOK'
    BY <2>1, DocumentAssumption, SomeTextType DEF DocFits, history, TypeOK, Actors, Chunking,
       Activating, InImport, Claimed, Bare, PlacesFit, Keys, Slots, Versions, Doc, Item, RunFits,
       BlankFits
  <2>3. PlacesFit'
    BY <2>1 DEF DocFits, history, PlacesFit, TypeOK, Actors, Chunking, Activating, InImport,
       Claimed, Bare
  <2>4. CutFits'
    BY <2>1, DocumentAssumption, SomeTextType DEF DocFits, history, CutFits, TypeOK, Actors,
       Chunking, Activating, InImport, Claimed, Bare, PlacesFit, RunFits, BlankFits
  <2>5. ListsFit'
    BY <2>1 DEF DocFits, history, ListsFit, TypeOK, Actors, Clients
  <2>6. RunFits'
    BY <2>1 DEF DocFits, history, RunFits, TypeOK, Actors, Chunking, Activating, InImport,
       Claimed, Bare, PlacesFit
  <2>7. BlankFits'
    BY <2>1 DEF DocFits, history, BlankFits, TypeOK, Actors
  <2>8. RecordsAreBacked'
    BY <2>1 DEF DocFits, history, RecordsAreBacked, TypeOK, Actors, Backed, Chunking, Activating,
       InImport, Claimed, Bare, PlacesFit
  <2>9. UneditedFits'
    BY <2>1 DEF DocFits, history, UneditedFits, TypeOK, Actors, Unedited
  <2>10. Agreed'
    BY <2>1 DEF DocFits, history, Agreed, TypeOK, Actors, Unedited, Serial, Clients
  <2>11. WholeOrOwed'
    BY <2>1 DEF DocFits, history, WholeOrOwed, TypeOK, Actors, Owes, Keyed, Unedited, Through,
       Chunking, Activating, InImport, Claimed, Bare, PlacesFit
  <2>12. TurnsFit'
    BY <2>1 DEF DocFits, history, TurnsFit, TypeOK, Actors, Serial, Clients
  <2>13. OldAreGoing'
    BY <2>1, DocumentAssumption, SomeTextType DEF DocFits, history, OldAreGoing, TypeOK, Actors,
       Serial, Keyed, Alive, Working, Clients, Chunking, Activating, InImport, Claimed, Bare,
       PlacesFit, Keys, Slots, Versions, Doc, Item, RunFits, BlankFits
  <2>14. FailingIsWhole'
    BY <2>1 DEF DocFits, history, FailingIsWhole, TypeOK, Actors, Serial, Keyed, Alive, Clients
  <2>15. EditorsSpare'
    BY <2>1 DEF DocFits, history, EditorsSpare, TypeOK, Actors, Serial, Keyed, Clients
  <2>16. WholeFits'
    <3>1. SUFFICES ASSUME Serial' PROVE WholeFits'
      BY DEF WholeFits
    <3>2. /\ doc' = doc /\ items' = items /\ doc # NoDoc /\ Serial
          /\ \A i \in Importers : pc'[i] = pc[i] /\ todo'[i] = todo[i]
      BY <2>1, <3>1, DocumentAssumption DEF DocFits, TypeOK, Actors, Serial, history
    <3>3. job.version = doc.version /\ own[Runner].version = job.version /\ doc.version = 1
      BY <2>1 DEF DocFits, RunFits, Claimed, TypeOK, Doc, Versions, Actors
    <3>4. ~broken /\ Unedited
      BY <3>2, <3>3 DEF Serial, Unedited
    <3>5. \A s \in 0..ChunksOf[doc.text] :
             items[<<1, s>>].status = "active" \/ \E i \in Importers : Owes(i, s)
      BY <2>1, <3>4 DEF DocFits, WholeOrOwed, Through, Owes, Chunking, Activating
    <3>6. \A i, j \in Importers : pc[i] # "idle" /\ pc[j] # "idle" => i = j
      BY <3>2 DEF DocFits, TurnsFit, Clients
    <3>7. \A i \in Importers, s \in 1..ChunksOf[doc.text] : Owes(i, s) =>
             /\ pc[i] \in InImport
             /\ pc[i] \in Activating => <<doc.version, s>> \in Keyed(i)
      BY <3>3 DEF Owes, InImport, Chunking, Activating
    <3>8. \/ \E i \in Importers : pc[i] \in InImport
          \/ \A s \in 1..ChunksOf[doc.text] : items[<<doc.version, s>>].status = "active"
      BY <3>3, <3>5, <3>7, DocumentAssumption DEF DocFits, TypeOK, Doc
    <3>9. ASSUME NEW i \in Importers, pc[i] \in Activating
          PROVE  \A s \in 1..ChunksOf[doc.text] :
                    items[<<doc.version, s>>].status = "active" \/ <<doc.version, s>> \in Keyed(i)
      <4>1. SUFFICES ASSUME NEW s \in 1..ChunksOf[doc.text], items[<<doc.version, s>>].status # "active"
                     PROVE  <<doc.version, s>> \in Keyed(i)
        OBVIOUS
      <4>2. PICK j \in Importers : Owes(j, s)
        BY <3>3, <3>5, <4>1
      <4>3. j = i
        BY <3>6, <3>7, <3>9, <4>2 DEF InImport, Chunking, Activating
      <4> QED
        BY <3>7, <3>9, <4>2, <4>3
    <3>10. \A i \in Importers : Keyed(i)' = Keyed(i)
      BY <3>2 DEF Keyed
    <3> QED
      BY <3>2, <3>8, <3>9, <3>10 DEF WholeFits
  <2> QED
    BY <2>2, <2>3, <2>4, <2>5, <2>6, <2>7, <2>8, <2>9, <2>10, <2>11, <2>12, <2>13, <2>14, <2>15,
       <2>16 DEF DocFits
<1> QED
  BY <1>1, <1>2 DEF Finish, Require, SaveIfCurrent

LEMMA FailKeeps ==
    ASSUME DocFits, Fail
    PROVE  DocFits'
<1>1. CASE TRUE
  <2>1. /\ pc[Runner] = "fail"
        /\ todo' = [todo EXCEPT ![Runner] = Items({job.version}, {"staging", "active"})]
        /\ pc' = [pc EXCEPT ![Runner] = "invalidate"]
        /\ raced' \in BOOLEAN /\ (raced => raced')
        /\ ~raced' => \A c \in Clients : pc[c] = "idle"
        /\ UNCHANGED <<doc, items, job, own, cut, broken, faults>>
    BY <1>1, DocumentAssumption DEF Fail, Contend, Contending, Items, Goto, persistent, history,
       DocFits, PlacesFit, RunFits, CutFits, TypeOK, BlankFits, Actors, Doc, Versions, Slots,
       Clients, Chunking, Activating, InImport, Claimed, Bare
  <2>2. TypeOK'
    BY <2>1, DocumentAssumption, SomeTextType DEF DocFits, history, TypeOK, Actors, Chunking,
       Activating, InImport, Claimed, Bare, PlacesFit, Keys, Slots, Versions, Doc, Item, RunFits,
       BlankFits, Items
  <2>3. PlacesFit'
    BY <2>1 DEF DocFits, history, PlacesFit, TypeOK, Actors, Chunking, Activating, InImport,
       Claimed, Bare, Items
  <2>4. CutFits'
    BY <2>1 DEF DocFits, history, CutFits, TypeOK, Actors, Chunking, Activating, InImport,
       Claimed, Bare, PlacesFit, Items
  <2>5. ListsFit'
    BY <2>1 DEF DocFits, history, ListsFit, TypeOK, Actors, Clients, Chunking, Activating,
       InImport, Claimed, Bare, PlacesFit, Items
  <2>6. RunFits'
    BY <2>1 DEF DocFits, history, RunFits, TypeOK, Actors, Chunking, Activating, InImport,
       Claimed, Bare, PlacesFit, Items
  <2>7. BlankFits'
    BY <2>1 DEF DocFits, history, BlankFits, TypeOK, Actors, Items
  <2>8. RecordsAreBacked'
    BY <2>1 DEF DocFits, history, RecordsAreBacked, TypeOK, Actors, Backed, Chunking, Activating,
       InImport, Claimed, Bare, PlacesFit, Items
  <2>9. UneditedFits'
    BY <2>1 DEF DocFits, history, UneditedFits, TypeOK, Actors, Unedited, Items
  <2>10. Agreed'
    BY <2>1 DEF DocFits, history, Agreed, TypeOK, Actors, Unedited, Serial, Clients, Chunking,
       Activating, InImport, Claimed, Bare, PlacesFit, Items
  <2>11. WholeOrOwed'
    BY <2>1 DEF DocFits, history, WholeOrOwed, TypeOK, Actors, Owes, Keyed, Unedited, Through,
       Chunking, Activating, InImport, Claimed, Bare, PlacesFit, Items
  <2>12. TurnsFit'
    BY <2>1 DEF DocFits, history, TurnsFit, TypeOK, Actors, Serial, Clients, Items
  <2>13. OldAreGoing'
    BY <2>1 DEF DocFits, history, OldAreGoing, TypeOK, Actors, Serial, Keyed, Alive, Working,
       Clients, Items
  <2>14. FailingIsWhole'
    <3>1. Keyed(Runner)' = {x[1] : x \in Items({job.version}, {"staging", "active"})}
      BY <2>1 DEF Keyed, DocFits, TypeOK, Actors
    <3> QED
      BY <2>1, <3>1, ItemsListed DEF DocFits, FailingIsWhole, Alive
  <2>15. EditorsSpare'
    BY <2>1 DEF DocFits, history, EditorsSpare, TypeOK, Actors, Serial, Keyed, Clients, Items
  <2>16. WholeFits'
    BY <2>1 DEF DocFits, history, WholeFits, TypeOK, Actors, RunnerMinds, Owes, Unedited, Serial,
       Keyed, Alive, Working, Clients, Through, Items
  <2> QED
    BY <2>2, <2>3, <2>4, <2>5, <2>6, <2>7, <2>8, <2>9, <2>10, <2>11, <2>12, <2>13, <2>14, <2>15,
       <2>16 DEF DocFits
<1> QED
  BY <1>1 DEF Fail, Hold, Goto, DocFits, TypeOK, Actors

LEMMA InvalidateKeeps ==
    ASSUME DocFits, NEW a \in {Runner} \cup Editors, Invalidate(a)
    PROVE  DocFits'
<1>1. PICK x \in todo[a] : SaveItem(x[1], "stale", x[2]) /\ todo' = [todo EXCEPT ![a] = @ \ {x}]
  BY DEF Invalidate
<1>2. /\ x \in todo[a] /\ x[1] \in Keys /\ x[2] \in Texts
      /\ pc[a] = "invalidate"
      /\ items' = [items EXCEPT ![x[1]] = [status |-> "stale", text |-> x[2]]]
      /\ todo' = [todo EXCEPT ![a] = todo[a] \ {x}]
      /\ UNCHANGED <<doc, job, pc, own, cut, history>>
  <2>1. a \in Actors /\ todo[a] \in SUBSET (Keys \X Texts)
    BY DEF DocFits, TypeOK, Actors
  <2>2. x[1] \in Keys /\ x[2] \in Texts
    BY <1>1, <2>1
  <2> QED
    BY <1>1, <2>2 DEF Invalidate, SaveItem, Goto, history
<1>3. TypeOK'
  BY <1>2, DocumentAssumption, SomeTextType DEF DocFits, history, TypeOK, Actors, Chunking,
     Activating, InImport, Claimed, Bare, PlacesFit, Keys, Slots, Versions, Doc, Item, RunFits,
     BlankFits
<1>4. PlacesFit'
  BY <1>2 DEF DocFits, history, PlacesFit, TypeOK, Actors
<1>5. CutFits'
  BY <1>2 DEF DocFits, history, CutFits, TypeOK, Actors
<1>6. ListsFit'
  BY <1>2 DEF DocFits, history, ListsFit, TypeOK, Actors, Clients
<1>7. RunFits'
  BY <1>2 DEF DocFits, history, RunFits, TypeOK, Actors
<1>8. BlankFits'
  BY <1>2 DEF DocFits, history, BlankFits, TypeOK, Actors
<1>9. RecordsAreBacked'
  BY <1>2 DEF DocFits, history, RecordsAreBacked, TypeOK, Actors, Backed
<1>10. UneditedFits'
  BY <1>2 DEF DocFits, history, UneditedFits, TypeOK, Actors, Unedited
<1>11. Agreed'
  BY <1>2 DEF DocFits, history, Agreed, TypeOK, Actors, Unedited, Serial, Clients
<1>12. WholeOrOwed'
  BY <1>2, DocumentAssumption, SomeTextType DEF DocFits, Counted, history, Items, Chunking,
     Activating, InImport, Claimed, Bare, TypeOK, PlacesFit, CutFits, RunFits, BlankFits,
     RecordsAreBacked, UneditedFits, Agreed, WholeOrOwed, Owes, Keyed, Unedited, Keys, Slots,
     Versions, Doc, Item, Actors, Through
<1>13. TurnsFit'
  BY <1>2 DEF DocFits, history, TurnsFit, TypeOK, Actors, Serial, Clients
<1>14. OldAreGoing'
  BY <1>2 DEF DocFits, history, OldAreGoing, TypeOK, Actors, Serial, Keyed, Alive, Working,
     Clients
<1>15. FailingIsWhole'
  BY <1>2 DEF DocFits, history, FailingIsWhole, TypeOK, Actors, Serial, Keyed, Alive, Clients
<1>16. EditorsSpare'
  BY <1>2 DEF DocFits, history, EditorsSpare, TypeOK, Actors, Serial, Keyed, Clients
<1>17. WholeFits'
  <2>1. SUFFICES ASSUME Serial', doc' # NoDoc PROVE WholeFits'
    BY DEF WholeFits
  <2>2. Serial /\ doc' = doc /\ job' = job /\ pc' = pc /\ doc # NoDoc /\ a \in Actors
    BY <1>2, <2>1 DEF Serial, history, Actors
  <2>3. \A i \in Importers : Keyed(i)' = Keyed(i)
    BY <1>2, DocumentAssumption DEF DocFits, TypeOK, Actors, Keyed
  <2>4. RunnerMinds \/ x[1][1] # doc.version
    BY <1>2, <2>2 DEF DocFits, EditorsSpare, Keyed, ListsFit, RunnerMinds, Working
  <2>5. x[1][1] # doc.version => \A s \in Slots : items'[<<doc.version, s>>] = items[<<doc.version, s>>]
    BY <1>2, <2>2 DEF DocFits, TypeOK, Keys, Doc
  <2>6. 1..ChunksOf[doc.text] \subseteq Slots
    BY <2>2, DocumentAssumption DEF DocFits, TypeOK, Slots, Doc
  <2> QED
    BY <2>2, <2>3, <2>4, <2>5, <2>6 DEF DocFits, WholeFits, RunnerMinds
<1> QED
  BY <1>3, <1>4, <1>5, <1>6, <1>7, <1>8, <1>9, <1>10, <1>11, <1>12, <1>13, <1>14, <1>15, <1>16,
     <1>17 DEF DocFits

LEMMA InvalidatedKeeps ==
    ASSUME DocFits, NEW a \in {Runner} \cup Editors, Invalidated(a)
    PROVE  DocFits'
<1>1. CASE a = Runner
  <2>1. /\ a = Runner
        /\ pc[a] = "invalidate" /\ todo[a] = {}
        /\ pc' = [pc EXCEPT ![a] = "save_failed"]
        /\ UNCHANGED <<doc, items, job, own, cut, todo, history>>
    BY <1>1, DocumentAssumption DEF Invalidated, End, Drop, Hold, Goto, persistent, history,
       DocFits, PlacesFit, RunFits, CutFits, TypeOK, BlankFits, Actors, Doc, Versions, Slots,
       Clients, Chunking, Activating, InImport, Claimed, Bare
  <2>2. TypeOK'
    BY <2>1, SomeTextType DEF DocFits, history, TypeOK, Actors
  <2>3. PlacesFit'
    BY <2>1, DocumentAssumption, SomeTextType DEF DocFits, history, PlacesFit, TypeOK, Actors,
       Chunking, Activating, InImport, Claimed, Bare, Keys, Slots, Versions, Doc, Item, RunFits,
       BlankFits
  <2>4. CutFits'
    BY <2>1 DEF DocFits, history, CutFits, TypeOK, Actors, Chunking, Activating, InImport,
       Claimed, Bare, PlacesFit
  <2>5. ListsFit'
    BY <2>1 DEF DocFits, history, ListsFit, TypeOK, Actors, Clients
  <2>6. RunFits'
    BY <2>1 DEF DocFits, history, RunFits, TypeOK, Actors, Chunking, Activating, InImport,
       Claimed, Bare, PlacesFit
  <2>7. BlankFits'
    BY <2>1 DEF DocFits, history, BlankFits, TypeOK, Actors
  <2>8. RecordsAreBacked'
    BY <2>1 DEF DocFits, history, RecordsAreBacked, TypeOK, Actors, Backed, Chunking, Activating,
       InImport, Claimed, Bare, PlacesFit
  <2>9. UneditedFits'
    BY <2>1 DEF DocFits, history, UneditedFits, TypeOK, Actors, Unedited
  <2>10. Agreed'
    BY <2>1 DEF DocFits, history, Agreed, TypeOK, Actors, Unedited, Serial, Clients, Chunking,
       Activating, InImport, Claimed, Bare, PlacesFit
  <2>11. WholeOrOwed'
    BY <2>1 DEF DocFits, history, WholeOrOwed, TypeOK, Actors, Owes, Keyed, Unedited, Through,
       Chunking, Activating, InImport, Claimed, Bare, PlacesFit
  <2>12. TurnsFit'
    BY <2>1 DEF DocFits, history, TurnsFit, TypeOK, Actors, Serial, Clients
  <2>13. OldAreGoing'
    BY <2>1, DocumentAssumption, SomeTextType DEF DocFits, Counted, history, Items, Chunking,
       Activating, InImport, Claimed, Bare, TypeOK, PlacesFit, RunFits, BlankFits, TurnsFit,
       FailingIsWhole, EditorsSpare, OldAreGoing, Serial, Keyed, Alive, Working, Clients, Keys,
       Slots, Versions, Doc, Item, Actors
  <2>14. FailingIsWhole'
    BY <2>1 DEF DocFits, history, FailingIsWhole, TypeOK, Actors, Serial, Keyed, Alive, Clients
  <2>15. EditorsSpare'
    BY <2>1 DEF DocFits, history, EditorsSpare, TypeOK, Actors, Serial, Keyed, Clients
  <2>16. WholeFits'
    BY <2>1, DocumentAssumption, SomeTextType DEF DocFits, Counted, history, Items, Chunking,
       Activating, InImport, Claimed, Bare, TypeOK, PlacesFit, CutFits, RunFits, BlankFits,
       RecordsAreBacked, Agreed, TurnsFit, FailingIsWhole, EditorsSpare, WholeOrOwed, WholeFits,
       RunnerMinds, Owes, Unedited, Serial, Keyed, Alive, Working, Clients, Keys, Slots, Versions,
       Doc, Item, Actors, Through
  <2> QED
    BY <2>2, <2>3, <2>4, <2>5, <2>6, <2>7, <2>8, <2>9, <2>10, <2>11, <2>12, <2>13, <2>14, <2>15,
       <2>16 DEF DocFits
<1>2. CASE a # Runner
  <2>1. /\ a # Runner
        /\ pc[a] = "invalidate" /\ todo[a] = {}
        /\ pc' = [pc EXCEPT ![a] = "idle"]
        /\ own' = [own EXCEPT ![a] = NoDoc]
        /\ cut' = [cut EXCEPT ![a] = [text |-> SomeText, done |-> 0]]
        /\ todo' = [todo EXCEPT ![a] = {}]
        /\ UNCHANGED <<doc, items, job, history>>
    BY <1>2, DocumentAssumption DEF Invalidated, End, Drop, Hold, Goto, persistent, history,
       DocFits, PlacesFit, RunFits, CutFits, TypeOK, BlankFits, Actors, Doc, Versions, Slots,
       Clients, Chunking, Activating, InImport, Claimed, Bare
  <2>2. TypeOK'
    BY <2>1, DocumentAssumption, SomeTextType DEF DocFits, history, TypeOK, Actors, Chunking,
       Activating, InImport, Claimed, Bare, PlacesFit, Keys, Slots, Versions, Doc, Item, RunFits,
       BlankFits
  <2>3. PlacesFit'
    BY <2>1 DEF DocFits, history, PlacesFit, TypeOK, Actors, Chunking, Activating, InImport,
       Claimed, Bare
  <2>4. CutFits'
    BY <2>1, DocumentAssumption, SomeTextType DEF DocFits, history, CutFits, TypeOK, Actors,
       Chunking, Activating, InImport, Claimed, Bare, PlacesFit, RunFits, BlankFits
  <2>5. ListsFit'
    BY <2>1 DEF DocFits, history, ListsFit, TypeOK, Actors, Clients
  <2>6. RunFits'
    BY <2>1 DEF DocFits, history, RunFits, TypeOK, Actors
  <2>7. BlankFits'
    BY <2>1 DEF DocFits, history, BlankFits, TypeOK, Actors
  <2>8. RecordsAreBacked'
    BY <2>1 DEF DocFits, history, RecordsAreBacked, TypeOK, Actors, Backed
  <2>9. UneditedFits'
    BY <2>1 DEF DocFits, history, UneditedFits, TypeOK, Actors, Unedited
  <2>10. Agreed'
    BY <2>1 DEF DocFits, history, Agreed, TypeOK, Actors, Unedited, Serial, Clients
  <2>11. WholeOrOwed'
    BY <2>1, DocumentAssumption, SomeTextType DEF DocFits, history, WholeOrOwed, TypeOK, Actors,
       Owes, Keyed, Unedited, Through, Chunking, Activating, InImport, Claimed, Bare, PlacesFit,
       Keys, Slots, Versions, Doc, Item, RunFits, BlankFits
  <2>12. TurnsFit'
    BY <2>1 DEF DocFits, history, TurnsFit, TypeOK, Actors, Serial, Clients
  <2>13. OldAreGoing'
    BY <2>1 DEF DocFits, history, OldAreGoing, TypeOK, Actors, Serial, Keyed, Alive, Working,
       Clients
  <2>14. FailingIsWhole'
    BY <2>1 DEF DocFits, history, FailingIsWhole, TypeOK, Actors, Serial, Keyed, Alive, Clients
  <2>15. EditorsSpare'
    BY <2>1 DEF DocFits, history, EditorsSpare, TypeOK, Actors, Serial, Keyed, Clients
  <2>16. WholeFits'
    BY <2>1 DEF DocFits, history, WholeFits, TypeOK, Actors, RunnerMinds, Owes, Unedited, Serial,
       Keyed, Alive, Working, Clients, Through, Chunking, Activating, InImport, Claimed, Bare,
       PlacesFit
  <2> QED
    BY <2>2, <2>3, <2>4, <2>5, <2>6, <2>7, <2>8, <2>9, <2>10, <2>11, <2>12, <2>13, <2>14, <2>15,
       <2>16 DEF DocFits
<1> QED
  BY <1>1, <1>2 DEF Invalidated, Hold, Goto, DocFits, TypeOK, Actors

LEMMA SaveFailedKeeps ==
    ASSUME DocFits, SaveFailed
    PROVE  DocFits'
<1>1. TypeOK'
  BY DocumentAssumption, SomeTextType DEF DocFits, SaveFailed, End, Drop, Hold, Goto, persistent,
     locals, history, TypeOK, Actors, Chunking, Activating, InImport, Claimed, Bare, PlacesFit,
     Keys, Slots, Versions, Doc, Item, RunFits, BlankFits
<1>2. PlacesFit'
  BY DEF DocFits, SaveFailed, End, Drop, Hold, Goto, persistent, locals, history, PlacesFit,
     TypeOK, Actors, Chunking, Activating, InImport, Claimed, Bare
<1>3. CutFits'
  BY DocumentAssumption, SomeTextType DEF DocFits, SaveFailed, End, Drop, Hold, Goto, persistent,
     locals, history, CutFits, TypeOK, Actors, Chunking, Activating, InImport, Claimed, Bare,
     PlacesFit, RunFits, BlankFits
<1>4. ListsFit'
  BY DEF DocFits, SaveFailed, End, Drop, Hold, Goto, persistent, locals, history, ListsFit,
     TypeOK, Actors, Clients
<1>5. RunFits'
  BY DEF DocFits, SaveFailed, End, Drop, Hold, Goto, persistent, locals, history, RunFits, TypeOK,
     Actors, Chunking, Activating, InImport, Claimed, Bare, PlacesFit
<1>6. BlankFits'
  BY DEF DocFits, SaveFailed, End, Drop, Hold, Goto, persistent, locals, history, BlankFits,
     TypeOK, Actors
<1>7. RecordsAreBacked'
  BY DEF DocFits, SaveFailed, End, Drop, Hold, Goto, persistent, locals, history,
     RecordsAreBacked, TypeOK, Actors, Backed, Chunking, Activating, InImport, Claimed, Bare,
     PlacesFit
<1>8. UneditedFits'
  BY DEF DocFits, SaveFailed, End, Drop, Hold, Goto, persistent, locals, history, UneditedFits,
     TypeOK, Actors, Unedited
<1>9. Agreed'
  BY DEF DocFits, SaveFailed, End, Drop, Hold, Goto, persistent, locals, history, Agreed, TypeOK,
     Actors, Unedited, Serial, Clients
<1>10. WholeOrOwed'
  BY DEF DocFits, SaveFailed, End, Drop, Hold, Goto, persistent, locals, history, WholeOrOwed,
     TypeOK, Actors, Owes, Keyed, Unedited, Through, Chunking, Activating, InImport, Claimed,
     Bare, PlacesFit
<1>11. TurnsFit'
  BY DEF DocFits, SaveFailed, End, Drop, Hold, Goto, persistent, locals, history, TurnsFit,
     TypeOK, Actors, Serial, Clients
<1>12. OldAreGoing'
  BY DEF DocFits, SaveFailed, End, Drop, Hold, Goto, persistent, locals, history, OldAreGoing,
     TypeOK, Actors, Serial, Keyed, Alive, Working, Clients, Chunking, Activating, InImport,
     Claimed, Bare, PlacesFit
<1>13. FailingIsWhole'
  BY DEF DocFits, SaveFailed, End, Drop, Hold, Goto, persistent, locals, history, FailingIsWhole,
     TypeOK, Actors, Serial, Keyed, Alive, Clients
<1>14. EditorsSpare'
  BY DEF DocFits, SaveFailed, End, Drop, Hold, Goto, persistent, locals, history, EditorsSpare,
     TypeOK, Actors, Serial, Keyed, Clients
<1>15. WholeFits'
  BY DEF DocFits, SaveFailed, End, Drop, Hold, Goto, persistent, locals, history, WholeFits,
     TypeOK, Actors, RunnerMinds, Owes, Unedited, Serial, Keyed, Alive, Working, Clients, Through,
     Chunking, Activating, InImport, Claimed, Bare, PlacesFit
<1> QED
  BY <1>1, <1>2, <1>3, <1>4, <1>5, <1>6, <1>7, <1>8, <1>9, <1>10, <1>11, <1>12, <1>13, <1>14,
     <1>15 DEF DocFits

LEMMA ReadForImportKeeps ==
    ASSUME DocFits, NEW a \in Importers, ReadForImport(a)
    PROVE  DocFits'
<1>1. CASE TRUE
  <2>1. /\ pc[a] = "idle" /\ doc # NoDoc
        /\ own' = [own EXCEPT ![a] = doc]
        /\ pc' = [pc EXCEPT ![a] = "count"]
        /\ raced' \in BOOLEAN /\ (raced => raced')
        /\ ~raced' => /\ \A c \in Clients \ {a} : pc[c] = "idle"
                      /\ pc[Runner] \notin {"fail", "invalidate"}
        /\ UNCHANGED <<doc, items, job, cut, todo, broken, faults>>
    BY <1>1, DocumentAssumption DEF ReadForImport, Hold, Contend, Contending, Goto, persistent,
       history, DocFits, PlacesFit, RunFits, CutFits, TypeOK, BlankFits, Actors, Doc, Versions,
       Slots, Clients, Chunking, Activating, InImport, Claimed, Bare
  <2>2. TypeOK'
    BY <2>1, SomeTextType DEF DocFits, history, TypeOK, Actors
  <2>3. PlacesFit'
    BY <2>1, DocumentAssumption, SomeTextType DEF DocFits, history, PlacesFit, TypeOK, Actors,
       Chunking, Activating, InImport, Claimed, Bare, Keys, Slots, Versions, Doc, Item, RunFits,
       BlankFits
  <2>4. CutFits'
    BY <2>1 DEF DocFits, history, CutFits, TypeOK, Actors, Chunking, Activating, InImport,
       Claimed, Bare, PlacesFit
  <2>5. ListsFit'
    BY <2>1 DEF DocFits, history, ListsFit, TypeOK, Actors, Clients, Chunking, Activating,
       InImport, Claimed, Bare, PlacesFit
  <2>6. RunFits'
    BY <2>1, DocumentAssumption, SomeTextType DEF DocFits, history, RunFits, TypeOK, Actors,
       Chunking, Activating, InImport, Claimed, Bare, PlacesFit, Doc, Versions, BlankFits
  <2>7. BlankFits'
    BY <2>1 DEF DocFits, history, BlankFits, TypeOK, Actors
  <2>8. RecordsAreBacked'
    BY <2>1 DEF DocFits, history, RecordsAreBacked, TypeOK, Actors, Backed, Chunking, Activating,
       InImport, Claimed, Bare, PlacesFit
  <2>9. UneditedFits'
    BY <2>1, DocumentAssumption, SomeTextType DEF DocFits, history, UneditedFits, TypeOK, Actors,
       Unedited, Chunking, Activating, InImport, Claimed, Bare, PlacesFit, Doc, Versions, RunFits,
       BlankFits
  <2>10. Agreed'
    BY <2>1 DEF DocFits, history, Agreed, TypeOK, Actors, Unedited, Serial, Clients, Chunking,
       Activating, InImport, Claimed, Bare, PlacesFit
  <2>11. WholeOrOwed'
    BY <2>1 DEF DocFits, history, WholeOrOwed, TypeOK, Actors, Owes, Keyed, Unedited, Through,
       Chunking, Activating, InImport, Claimed, Bare, PlacesFit
  <2>12. TurnsFit'
    BY <2>1, DocumentAssumption, SomeTextType DEF DocFits, history, TurnsFit, TypeOK, Actors,
       Serial, Clients, Chunking, Activating, InImport, Claimed, Bare, PlacesFit, Keys, Slots,
       Versions, Doc, Item, RunFits, BlankFits
  <2>13. OldAreGoing'
    BY <2>1 DEF DocFits, history, OldAreGoing, TypeOK, Actors, Serial, Keyed, Alive, Working,
       Clients, Chunking, Activating, InImport, Claimed, Bare, PlacesFit
  <2>14. FailingIsWhole'
    BY <2>1 DEF DocFits, history, FailingIsWhole, TypeOK, Actors, Serial, Keyed, Alive, Clients
  <2>15. EditorsSpare'
    BY <2>1 DEF DocFits, history, EditorsSpare, TypeOK, Actors, Serial, Keyed, Clients
  <2>16. WholeFits'
    BY <2>1 DEF DocFits, history, WholeFits, TypeOK, Actors, RunnerMinds, Owes, Unedited, Serial,
       Keyed, Alive, Working, Clients, Through, Chunking, Activating, InImport, Claimed, Bare,
       PlacesFit
  <2> QED
    BY <2>2, <2>3, <2>4, <2>5, <2>6, <2>7, <2>8, <2>9, <2>10, <2>11, <2>12, <2>13, <2>14, <2>15,
       <2>16 DEF DocFits
<1> QED
  BY <1>1 DEF ReadForImport, Hold, Goto, DocFits, TypeOK, Actors

LEMMA CountImportedKeeps ==
    ASSUME DocFits, NEW a \in Importers, CountImported(a)
    PROVE  DocFits'
<1>1. CASE pc'[a] = "idle"
  <2>1. /\ pc[a] = "count"
        /\ pc' = [pc EXCEPT ![a] = "idle"]
        /\ own' = [own EXCEPT ![a] = NoDoc]
        /\ cut' = [cut EXCEPT ![a] = [text |-> SomeText, done |-> 0]]
        /\ todo' = [todo EXCEPT ![a] = {}]
        /\ UNCHANGED <<doc, items, job, history>>
    BY <1>1, DocumentAssumption DEF CountImported, End, Drop, Hold, Goto, persistent, history,
       DocFits, PlacesFit, RunFits, CutFits, TypeOK, BlankFits, Actors, Doc, Versions, Slots,
       Clients, Chunking, Activating, InImport, Claimed, Bare
  <2>2. TypeOK'
    BY <2>1, DocumentAssumption, SomeTextType DEF DocFits, history, TypeOK, Actors, Chunking,
       Activating, InImport, Claimed, Bare, PlacesFit, Keys, Slots, Versions, Doc, Item, RunFits,
       BlankFits
  <2>3. PlacesFit'
    BY <2>1 DEF DocFits, history, PlacesFit, TypeOK, Actors, Chunking, Activating, InImport,
       Claimed, Bare
  <2>4. CutFits'
    BY <2>1, DocumentAssumption, SomeTextType DEF DocFits, history, CutFits, TypeOK, Actors,
       Chunking, Activating, InImport, Claimed, Bare, PlacesFit, RunFits, BlankFits
  <2>5. ListsFit'
    BY <2>1 DEF DocFits, history, ListsFit, TypeOK, Actors, Clients
  <2>6. RunFits'
    BY <2>1 DEF DocFits, history, RunFits, TypeOK, Actors, Chunking, Activating, InImport,
       Claimed, Bare, PlacesFit
  <2>7. BlankFits'
    BY <2>1 DEF DocFits, history, BlankFits, TypeOK, Actors
  <2>8. RecordsAreBacked'
    BY <2>1 DEF DocFits, history, RecordsAreBacked, TypeOK, Actors, Backed, Chunking, Activating,
       InImport, Claimed, Bare, PlacesFit
  <2>9. UneditedFits'
    BY <2>1 DEF DocFits, history, UneditedFits, TypeOK, Actors, Unedited
  <2>10. Agreed'
    BY <2>1 DEF DocFits, history, Agreed, TypeOK, Actors, Unedited, Serial, Clients
  <2>11. WholeOrOwed'
    BY <2>1, DocumentAssumption, SomeTextType DEF DocFits, history, WholeOrOwed, TypeOK, Actors,
       Owes, Keyed, Unedited, Through, Chunking, Activating, InImport, Claimed, Bare, PlacesFit,
       Keys, Slots, Versions, Doc, Item, RunFits, BlankFits
  <2>12. TurnsFit'
    BY <2>1 DEF DocFits, history, TurnsFit, TypeOK, Actors, Serial, Clients
  <2>13. OldAreGoing'
    BY <2>1 DEF DocFits, history, OldAreGoing, TypeOK, Actors, Serial, Keyed, Alive, Working,
       Clients, Chunking, Activating, InImport, Claimed, Bare, PlacesFit
  <2>14. FailingIsWhole'
    BY <2>1 DEF DocFits, history, FailingIsWhole, TypeOK, Actors, Serial, Keyed, Alive, Clients
  <2>15. EditorsSpare'
    BY <2>1 DEF DocFits, history, EditorsSpare, TypeOK, Actors, Serial, Keyed, Clients
  <2>16. WholeFits'
    BY <2>1 DEF DocFits, history, WholeFits, TypeOK, Actors, RunnerMinds, Owes, Unedited, Serial,
       Keyed, Alive, Working, Clients, Through, Chunking, Activating, InImport, Claimed, Bare,
       PlacesFit
  <2> QED
    BY <2>2, <2>3, <2>4, <2>5, <2>6, <2>7, <2>8, <2>9, <2>10, <2>11, <2>12, <2>13, <2>14, <2>15,
       <2>16 DEF DocFits
<1>2. CASE pc'[a] # "idle"
  <2>1. /\ pc[a] = "count"
        /\ pc' = [pc EXCEPT ![a] = "import"]
        /\ UNCHANGED <<doc, items, job, own, cut, todo, history>>
    BY <1>2, DocumentAssumption DEF CountImported, End, Drop, Hold, Goto, persistent, history,
       DocFits, PlacesFit, RunFits, CutFits, TypeOK, BlankFits, Actors, Doc, Versions, Slots,
       Clients, Chunking, Activating, InImport, Claimed, Bare
  <2>2. TypeOK'
    BY <2>1, SomeTextType DEF DocFits, history, TypeOK, Actors
  <2>3. PlacesFit'
    BY <2>1 DEF DocFits, history, PlacesFit, TypeOK, Actors, Chunking, Activating, InImport,
       Claimed, Bare
  <2>4. CutFits'
    BY <2>1 DEF DocFits, history, CutFits, TypeOK, Actors, Chunking, Activating, InImport,
       Claimed, Bare, PlacesFit
  <2>5. ListsFit'
    BY <2>1 DEF DocFits, history, ListsFit, TypeOK, Actors, Clients, Chunking, Activating,
       InImport, Claimed, Bare, PlacesFit
  <2>6. RunFits'
    BY <2>1 DEF DocFits, history, RunFits, TypeOK, Actors, Chunking, Activating, InImport,
       Claimed, Bare, PlacesFit
  <2>7. BlankFits'
    BY <2>1 DEF DocFits, history, BlankFits, TypeOK, Actors
  <2>8. RecordsAreBacked'
    BY <2>1 DEF DocFits, history, RecordsAreBacked, TypeOK, Actors, Backed, Chunking, Activating,
       InImport, Claimed, Bare, PlacesFit
  <2>9. UneditedFits'
    BY <2>1 DEF DocFits, history, UneditedFits, TypeOK, Actors, Unedited
  <2>10. Agreed'
    BY <2>1 DEF DocFits, history, Agreed, TypeOK, Actors, Unedited, Serial, Clients, Chunking,
       Activating, InImport, Claimed, Bare, PlacesFit
  <2>11. WholeOrOwed'
    BY <2>1 DEF DocFits, history, WholeOrOwed, TypeOK, Actors, Owes, Keyed, Unedited, Through,
       Chunking, Activating, InImport, Claimed, Bare, PlacesFit
  <2>12. TurnsFit'
    BY <2>1 DEF DocFits, history, TurnsFit, TypeOK, Actors, Serial, Clients
  <2>13. OldAreGoing'
    BY <2>1 DEF DocFits, history, OldAreGoing, TypeOK, Actors, Serial, Keyed, Alive, Working,
       Clients, Chunking, Activating, InImport, Claimed, Bare, PlacesFit
  <2>14. FailingIsWhole'
    BY <2>1 DEF DocFits, history, FailingIsWhole, TypeOK, Actors, Serial, Keyed, Alive, Clients
  <2>15. EditorsSpare'
    BY <2>1 DEF DocFits, history, EditorsSpare, TypeOK, Actors, Serial, Keyed, Clients
  <2>16. WholeFits'
    BY <2>1 DEF DocFits, history, WholeFits, TypeOK, Actors, RunnerMinds, Owes, Unedited, Serial,
       Keyed, Alive, Working, Clients, Through, Chunking, Activating, InImport, Claimed, Bare,
       PlacesFit
  <2> QED
    BY <2>2, <2>3, <2>4, <2>5, <2>6, <2>7, <2>8, <2>9, <2>10, <2>11, <2>12, <2>13, <2>14, <2>15,
       <2>16 DEF DocFits
<1> QED
  BY <1>1, <1>2 DEF CountImported, Hold, Goto, DocFits, TypeOK, Actors

LEMMA ReadForEditKeeps ==
    ASSUME DocFits, NEW a \in Editors, ReadForEdit(a)
    PROVE  DocFits'
<1>1. CASE TRUE
  <2>1. /\ pc[a] = "idle" /\ doc # NoDoc /\ doc.version < MaxVersion
        /\ own' = [own EXCEPT ![a] = doc]
        /\ pc' = [pc EXCEPT ![a] = "edit"]
        /\ raced' \in BOOLEAN /\ (raced => raced')
        /\ ~raced' => /\ \A c \in Clients \ {a} : pc[c] = "idle"
                      /\ pc[Runner] \notin {"fail", "invalidate"}
        /\ UNCHANGED <<doc, items, job, cut, todo, broken, faults>>
    BY <1>1, DocumentAssumption DEF ReadForEdit, Hold, Contend, Contending, Goto, persistent,
       history, DocFits, PlacesFit, RunFits, CutFits, TypeOK, BlankFits, Actors, Doc, Versions,
       Slots, Clients, Chunking, Activating, InImport, Claimed, Bare
  <2>2. TypeOK'
    BY <2>1, SomeTextType DEF DocFits, history, TypeOK, Actors
  <2>3. PlacesFit'
    BY <2>1, DocumentAssumption, SomeTextType DEF DocFits, history, PlacesFit, TypeOK, Actors,
       Chunking, Activating, InImport, Claimed, Bare, Keys, Slots, Versions, Doc, Item, RunFits,
       BlankFits
  <2>4. CutFits'
    BY <2>1 DEF DocFits, history, CutFits, TypeOK, Actors, Chunking, Activating, InImport,
       Claimed, Bare, PlacesFit
  <2>5. ListsFit'
    BY <2>1 DEF DocFits, history, ListsFit, TypeOK, Actors, Clients, Chunking, Activating,
       InImport, Claimed, Bare, PlacesFit
  <2>6. RunFits'
    BY <2>1, DocumentAssumption, SomeTextType DEF DocFits, history, RunFits, TypeOK, Actors,
       Chunking, Activating, InImport, Claimed, Bare, PlacesFit, Doc, Versions, BlankFits
  <2>7. BlankFits'
    BY <2>1 DEF DocFits, history, BlankFits, TypeOK, Actors
  <2>8. RecordsAreBacked'
    BY <2>1 DEF DocFits, history, RecordsAreBacked, TypeOK, Actors, Backed, Chunking, Activating,
       InImport, Claimed, Bare, PlacesFit
  <2>9. UneditedFits'
    BY <2>1 DEF DocFits, history, UneditedFits, TypeOK, Actors, Unedited
  <2>10. Agreed'
    BY <2>1 DEF DocFits, history, Agreed, TypeOK, Actors, Unedited, Serial, Clients, Chunking,
       Activating, InImport, Claimed, Bare, PlacesFit
  <2>11. WholeOrOwed'
    BY <2>1 DEF DocFits, history, WholeOrOwed, TypeOK, Actors, Owes, Keyed, Unedited, Through,
       Chunking, Activating, InImport, Claimed, Bare, PlacesFit
  <2>12. TurnsFit'
    BY <2>1, DocumentAssumption, SomeTextType DEF DocFits, history, TurnsFit, TypeOK, Actors,
       Serial, Clients, Chunking, Activating, InImport, Claimed, Bare, PlacesFit, Keys, Slots,
       Versions, Doc, Item, RunFits, BlankFits
  <2>13. OldAreGoing'
    BY <2>1 DEF DocFits, history, OldAreGoing, TypeOK, Actors, Serial, Keyed, Alive, Working,
       Clients, Chunking, Activating, InImport, Claimed, Bare, PlacesFit
  <2>14. FailingIsWhole'
    BY <2>1 DEF DocFits, history, FailingIsWhole, TypeOK, Actors, Serial, Keyed, Alive, Clients
  <2>15. EditorsSpare'
    BY <2>1 DEF DocFits, history, EditorsSpare, TypeOK, Actors, Serial, Keyed, Clients
  <2>16. WholeFits'
    BY <2>1 DEF DocFits, history, WholeFits, TypeOK, Actors, RunnerMinds, Owes, Unedited, Serial,
       Keyed, Alive, Working, Clients, Through, Chunking, Activating, InImport, Claimed, Bare,
       PlacesFit
  <2> QED
    BY <2>2, <2>3, <2>4, <2>5, <2>6, <2>7, <2>8, <2>9, <2>10, <2>11, <2>12, <2>13, <2>14, <2>15,
       <2>16 DEF DocFits
<1> QED
  BY <1>1 DEF ReadForEdit, Hold, Goto, DocFits, TypeOK, Actors

LEMMA EditKeeps ==
    ASSUME DocFits, NEW a \in Editors, NEW t \in Texts, Edit(a, t)
    PROVE  DocFits'
<1>1. CASE TRUE
  <2>1. /\ pc[a] = "edit" /\ own[a] \in Doc /\ own[a].version < MaxVersion
        /\ doc' = [version |-> own[a].version + 1, text |-> t, expected |-> 0, completed |-> 0]
        /\ doc' \in Doc /\ own[a].version + 1 \in Versions \ {1}
        /\ own' = [own EXCEPT ![a] = doc']
        /\ pc' = [pc EXCEPT ![a] = "edited"]
        /\ UNCHANGED <<items, job, cut, todo, history>>
    BY <1>1, DocumentAssumption DEF Edit, Hold, Goto, persistent, history, DocFits, PlacesFit,
       RunFits, CutFits, TypeOK, BlankFits, Actors, Doc, Versions, Slots, Clients, Chunking,
       Activating, InImport, Claimed, Bare
  <2>2. TypeOK'
    BY <2>1, SomeTextType DEF DocFits, history, TypeOK, Actors
  <2>3. PlacesFit'
    BY <2>1, DocumentAssumption, SomeTextType DEF DocFits, history, PlacesFit, TypeOK, Actors,
       Chunking, Activating, InImport, Claimed, Bare, Keys, Slots, Versions, Doc, Item, RunFits,
       BlankFits
  <2>4. CutFits'
    BY <2>1 DEF DocFits, history, CutFits, TypeOK, Actors, Chunking, Activating, InImport,
       Claimed, Bare, PlacesFit
  <2>5. ListsFit'
    BY <2>1 DEF DocFits, history, ListsFit, TypeOK, Actors, Clients, Chunking, Activating,
       InImport, Claimed, Bare, PlacesFit
  <2>6. RunFits'
    BY <2>1, DocumentAssumption, SomeTextType DEF DocFits, history, RunFits, TypeOK, Actors,
       Chunking, Activating, InImport, Claimed, Bare, PlacesFit, Doc, Versions, BlankFits
  <2>7. BlankFits'
    BY <2>1, DocumentAssumption, SomeTextType DEF DocFits, history, BlankFits, TypeOK, Actors,
       Chunking, Activating, InImport, Claimed, Bare, PlacesFit, Doc, Versions, Keys, Slots,
       RunFits
  <2>8. RecordsAreBacked'
    BY <2>1 DEF DocFits, history, RecordsAreBacked, TypeOK, Actors, Backed, Chunking, Activating,
       InImport, Claimed, Bare, PlacesFit
  <2>9. UneditedFits'
    BY <2>1 DEF DocFits, history, UneditedFits, TypeOK, Actors, Unedited
  <2>10. Agreed'
    BY <2>1, DocumentAssumption, SomeTextType DEF DocFits, Counted, history, Items, Chunking,
       Activating, InImport, Claimed, Bare, TypeOK, PlacesFit, CutFits, RunFits, BlankFits,
       UneditedFits, TurnsFit, Agreed, Unedited, Serial, Keys, Slots, Versions, Doc, Item, Actors,
       Clients
  <2>11. WholeOrOwed'
    BY <2>1 DEF DocFits, history, WholeOrOwed, TypeOK, Actors, Owes, Keyed, Unedited, Through
  <2>12. TurnsFit'
    BY <2>1, DocumentAssumption, SomeTextType DEF DocFits, history, TurnsFit, TypeOK, Actors,
       Serial, Clients, Chunking, Activating, InImport, Claimed, Bare, PlacesFit, Keys, Slots,
       Versions, Doc, Item, RunFits, BlankFits
  <2>13. OldAreGoing'
    BY <2>1 DEF DocFits, history, OldAreGoing, TypeOK, Actors, Serial, Keyed, Alive, Working,
       Clients
  <2>14. FailingIsWhole'
    BY <2>1 DEF DocFits, history, FailingIsWhole, TypeOK, Actors, Serial, Keyed, Alive, Clients
  <2>15. EditorsSpare'
    BY <2>1, DocumentAssumption, SomeTextType DEF DocFits, Counted, history, Items, Chunking,
       Activating, InImport, Claimed, Bare, TypeOK, PlacesFit, BlankFits, TurnsFit, EditorsSpare,
       Serial, Keyed, Clients, Keys, Slots, Versions, Doc, Item, Actors
  <2>16. WholeFits'
    BY <2>1, DocumentAssumption, SomeTextType DEF DocFits, Counted, history, Items, Chunking,
       Activating, InImport, Claimed, Bare, TypeOK, PlacesFit, CutFits, RunFits, BlankFits,
       RecordsAreBacked, Agreed, TurnsFit, FailingIsWhole, EditorsSpare, WholeOrOwed, WholeFits,
       RunnerMinds, Owes, Unedited, Serial, Keyed, Alive, Working, Clients, Keys, Slots, Versions,
       Doc, Item, Actors, Through
  <2> QED
    BY <2>2, <2>3, <2>4, <2>5, <2>6, <2>7, <2>8, <2>9, <2>10, <2>11, <2>12, <2>13, <2>14, <2>15,
       <2>16 DEF DocFits
<1> QED
  BY <1>1 DEF Edit, Hold, Goto, DocFits, TypeOK, Actors

LEMMA ListOtherVersionsKeeps ==
    ASSUME DocFits, NEW a \in Editors, ListOtherVersions(a)
    PROVE  DocFits'
<1>1. CASE TRUE
  <2>1. /\ pc[a] = "edited"
        /\ todo' = [todo EXCEPT ![a] = Items(Versions \ {own[a].version}, {"staging", "active"})]
        /\ pc' = [pc EXCEPT ![a] = "invalidate"]
        /\ UNCHANGED <<doc, items, job, own, cut, history>>
    BY <1>1, DocumentAssumption DEF ListOtherVersions, Items, Goto, persistent, history, DocFits,
       PlacesFit, RunFits, CutFits, TypeOK, BlankFits, Actors, Doc, Versions, Slots, Clients,
       Chunking, Activating, InImport, Claimed, Bare
  <2>2. TypeOK'
    BY <2>1, DocumentAssumption, SomeTextType DEF DocFits, history, TypeOK, Actors, Chunking,
       Activating, InImport, Claimed, Bare, PlacesFit, Keys, Slots, Versions, Doc, Item, RunFits,
       BlankFits, Items
  <2>3. PlacesFit'
    BY <2>1 DEF DocFits, history, PlacesFit, TypeOK, Actors, Chunking, Activating, InImport,
       Claimed, Bare, Items
  <2>4. CutFits'
    BY <2>1 DEF DocFits, history, CutFits, TypeOK, Actors, Chunking, Activating, InImport,
       Claimed, Bare, PlacesFit, Items
  <2>5. ListsFit'
    BY <2>1 DEF DocFits, history, ListsFit, TypeOK, Actors, Clients, Chunking, Activating,
       InImport, Claimed, Bare, PlacesFit, Items
  <2>6. RunFits'
    BY <2>1 DEF DocFits, history, RunFits, TypeOK, Actors, Chunking, Activating, InImport,
       Claimed, Bare, PlacesFit, Items
  <2>7. BlankFits'
    BY <2>1 DEF DocFits, history, BlankFits, TypeOK, Actors, Items
  <2>8. RecordsAreBacked'
    BY <2>1 DEF DocFits, history, RecordsAreBacked, TypeOK, Actors, Backed, Chunking, Activating,
       InImport, Claimed, Bare, PlacesFit, Items
  <2>9. UneditedFits'
    BY <2>1 DEF DocFits, history, UneditedFits, TypeOK, Actors, Unedited, Items
  <2>10. Agreed'
    BY <2>1 DEF DocFits, history, Agreed, TypeOK, Actors, Unedited, Serial, Clients, Chunking,
       Activating, InImport, Claimed, Bare, PlacesFit, Items
  <2>11. WholeOrOwed'
    BY <2>1, DocumentAssumption, SomeTextType DEF DocFits, history, WholeOrOwed, TypeOK, Actors,
       Owes, Keyed, Unedited, Through, Chunking, Activating, InImport, Claimed, Bare, PlacesFit,
       Keys, Slots, Versions, Doc, Item, RunFits, BlankFits, Items
  <2>12. TurnsFit'
    BY <2>1 DEF DocFits, history, TurnsFit, TypeOK, Actors, Serial, Clients, Chunking, Activating,
       InImport, Claimed, Bare, PlacesFit, Items
  <2>13. OldAreGoing'
    <3>1. SUFFICES ASSUME Serial', NEW k \in Keys, Alive(k)', k[1] # doc'.version
                   PROVE  pc'[a] = "invalidate" /\ k \in Keyed(a)'
      BY DEF OldAreGoing
    <3>2. Keyed(a)' = {x[1] : x \in Items(Versions \ {own[a].version}, {"staging", "active"})}
      BY <2>1 DEF Keyed, DocFits, TypeOK, Actors
    <3>3. own[a].version = doc.version /\ pc'[a] = "invalidate" /\ Alive(k) /\ k[1] # doc.version
      BY <2>1, <3>1 DEF DocFits, TypeOK, Actors, TurnsFit, Clients, PlacesFit, Bare, Serial,
         Alive, history
    <3>4. k[1] \in Versions
      BY DEF Keys
    <3> QED
      BY <3>2, <3>3, <3>4, ItemsListed DEF DocFits, Alive
  <2>14. FailingIsWhole'
    BY <2>1 DEF DocFits, history, FailingIsWhole, TypeOK, Actors, Serial, Keyed, Alive, Clients,
       Chunking, Activating, InImport, Claimed, Bare, PlacesFit, Items
  <2>15. EditorsSpare'
    BY <2>1, DocumentAssumption, SomeTextType DEF DocFits, Counted, history, Items, Chunking,
       Activating, InImport, Claimed, Bare, TypeOK, PlacesFit, BlankFits, TurnsFit, EditorsSpare,
       Serial, Keyed, Clients, Keys, Slots, Versions, Doc, Item, Actors, Items
  <2>16. WholeFits'
    BY <2>1 DEF DocFits, history, WholeFits, TypeOK, Actors, RunnerMinds, Owes, Unedited, Serial,
       Keyed, Alive, Working, Clients, Through, Chunking, Activating, InImport, Claimed, Bare,
       PlacesFit, Items
  <2> QED
    BY <2>2, <2>3, <2>4, <2>5, <2>6, <2>7, <2>8, <2>9, <2>10, <2>11, <2>12, <2>13, <2>14, <2>15,
       <2>16 DEF DocFits
<1> QED
  BY <1>1 DEF ListOtherVersions, Hold, Goto, DocFits, TypeOK, Actors

LEMMA ExceptionKeeps ==
    ASSUME DocFits, NEW a \in Actors, Exception(a)
    PROVE  DocFits'
<1>1. CASE a = Runner /\ pc[a] \notin {"idle", "fail", "invalidate", "save_failed"}
  BY <1>1, RaiseKeeps, DocumentAssumption DEF Exception, persistent, DocFits, TypeOK, PlacesFit,
     Claimed, Working
<1>2. CASE End(a) /\ broken'
  <2>1. /\ pc' = [pc EXCEPT ![a] = "idle"]
        /\ own' = [own EXCEPT ![a] = NoDoc]
        /\ cut' = [cut EXCEPT ![a] = [text |-> SomeText, done |-> 0]]
        /\ todo' = [todo EXCEPT ![a] = {}]
        /\ broken' = TRUE /\ faults' \in 0..MaxFaults /\ pc[a] # "idle" /\ a \in Actors
        /\ UNCHANGED <<doc, items, job, raced>>
    BY <1>2, DocumentAssumption DEF Exception, Raise, End, Drop, Hold, Goto, persistent, history,
       DocFits, PlacesFit, RunFits, CutFits, TypeOK, BlankFits, Actors, Doc, Versions, Slots,
       Clients, Chunking, Activating, InImport, Claimed, Bare
  <2>2. TypeOK'
    BY <2>1, DocumentAssumption, SomeTextType DEF DocFits, history, TypeOK, Actors, Chunking,
       Activating, InImport, Claimed, Bare, PlacesFit, Keys, Slots, Versions, Doc, Item, RunFits,
       BlankFits
  <2>3. PlacesFit'
    BY <2>1 DEF DocFits, history, PlacesFit, TypeOK, Actors, Chunking, Activating, InImport,
       Claimed, Bare
  <2>4. CutFits'
    BY <2>1, DocumentAssumption, SomeTextType DEF DocFits, history, CutFits, TypeOK, Actors,
       Chunking, Activating, InImport, Claimed, Bare, PlacesFit, RunFits, BlankFits
  <2>5. ListsFit'
    BY <2>1 DEF DocFits, history, ListsFit, TypeOK, Actors, Clients
  <2>6. RunFits'
    BY <2>1 DEF DocFits, history, RunFits, TypeOK, Actors, Chunking, Activating, InImport,
       Claimed, Bare, PlacesFit
  <2>7. BlankFits'
    BY <2>1 DEF DocFits, history, BlankFits, TypeOK, Actors
  <2>8. RecordsAreBacked'
    BY <2>1 DEF DocFits, history, RecordsAreBacked, TypeOK, Actors, Backed, Chunking, Activating,
       InImport, Claimed, Bare, PlacesFit
  <2>9. UneditedFits'
    BY <2>1 DEF DocFits, history, UneditedFits, TypeOK, Actors, Unedited
  <2>10. Agreed'
    BY <2>1 DEF DocFits, history, Agreed, TypeOK, Actors, Unedited, Serial, Clients
  <2>11. WholeOrOwed'
    BY <2>1 DEF DocFits, history, WholeOrOwed, TypeOK, Actors, Owes, Keyed, Unedited, Through
  <2>12. TurnsFit'
    BY <2>1 DEF DocFits, history, TurnsFit, TypeOK, Actors, Serial, Clients
  <2>13. OldAreGoing'
    BY <2>1 DEF DocFits, history, OldAreGoing, TypeOK, Actors, Serial, Keyed, Alive, Working,
       Clients
  <2>14. FailingIsWhole'
    BY <2>1 DEF DocFits, history, FailingIsWhole, TypeOK, Actors, Serial, Keyed, Alive, Clients
  <2>15. EditorsSpare'
    BY <2>1 DEF DocFits, history, EditorsSpare, TypeOK, Actors, Serial, Keyed, Clients
  <2>16. WholeFits'
    BY <2>1 DEF DocFits, history, WholeFits, TypeOK, Actors, RunnerMinds, Owes, Unedited, Serial,
       Keyed, Alive, Working, Clients, Through
  <2> QED
    BY <2>2, <2>3, <2>4, <2>5, <2>6, <2>7, <2>8, <2>9, <2>10, <2>11, <2>12, <2>13, <2>14, <2>15,
       <2>16 DEF DocFits
<1> QED
  BY <1>1, <1>2 DEF Exception, Hold, Goto, DocFits, TypeOK, Actors

LEMMA RestartKeeps ==
    ASSUME DocFits, Restart
    PROVE  DocFits'
<1>1. TypeOK'
  BY DocumentAssumption, SomeTextType DEF DocFits, Restart, Goto, persistent, locals, history,
     TypeOK, Actors, Chunking, Activating, InImport, Claimed, Bare, PlacesFit, Keys, Slots,
     Versions, Doc, Item, RunFits, BlankFits
<1>2. PlacesFit'
  BY DEF DocFits, Restart, Goto, persistent, locals, history, PlacesFit, TypeOK, Actors, Chunking,
     Activating, InImport, Claimed, Bare
<1>3. CutFits'
  BY DocumentAssumption, SomeTextType DEF DocFits, Restart, Goto, persistent, locals, history,
     CutFits, TypeOK, Actors, Chunking, Activating, InImport, Claimed, Bare, PlacesFit, RunFits,
     BlankFits
<1>4. ListsFit'
  BY DEF DocFits, Restart, Goto, persistent, locals, history, ListsFit, TypeOK, Actors, Clients
<1>5. RunFits'
  BY DEF DocFits, Restart, Goto, persistent, locals, history, RunFits, TypeOK, Actors, Chunking,
     Activating, InImport, Claimed, Bare, PlacesFit
<1>6. BlankFits'
  BY DEF DocFits, Restart, Goto, persistent, locals, history, BlankFits, TypeOK, Actors
<1>7. RecordsAreBacked'
  BY DEF DocFits, Restart, Goto, persistent, locals, history, RecordsAreBacked, TypeOK, Actors,
     Backed, Chunking, Activating, InImport, Claimed, Bare, PlacesFit
<1>8. UneditedFits'
  BY DEF DocFits, Restart, Goto, persistent, locals, history, UneditedFits, TypeOK, Actors,
     Unedited
<1>9. Agreed'
  BY DEF DocFits, Restart, Goto, persistent, locals, history, Agreed, TypeOK, Actors, Unedited,
     Serial, Clients
<1>10. WholeOrOwed'
  BY DEF DocFits, Restart, Goto, persistent, locals, history, WholeOrOwed, TypeOK, Actors, Owes,
     Keyed, Unedited, Through
<1>11. TurnsFit'
  BY DEF DocFits, Restart, Goto, persistent, locals, history, TurnsFit, TypeOK, Actors, Serial,
     Clients
<1>12. OldAreGoing'
  BY DEF DocFits, Restart, Goto, persistent, locals, history, OldAreGoing, TypeOK, Actors, Serial,
     Keyed, Alive, Working, Clients
<1>13. FailingIsWhole'
  BY DEF DocFits, Restart, Goto, persistent, locals, history, FailingIsWhole, TypeOK, Actors,
     Serial, Keyed, Alive, Clients
<1>14. EditorsSpare'
  BY DEF DocFits, Restart, Goto, persistent, locals, history, EditorsSpare, TypeOK, Actors,
     Serial, Keyed, Clients
<1>15. WholeFits'
  BY DEF DocFits, Restart, Goto, persistent, locals, history, WholeFits, TypeOK, Actors,
     RunnerMinds, Owes, Unedited, Serial, Keyed, Alive, Working, Clients, Through
<1> QED
  BY <1>1, <1>2, <1>3, <1>4, <1>5, <1>6, <1>7, <1>8, <1>9, <1>10, <1>11, <1>12, <1>13, <1>14,
     <1>15 DEF DocFits

LEMMA DocumentInitFits == Init => DocFits
<1> SUFFICES ASSUME Init PROVE DocFits
  OBVIOUS
<1> USE SomeTextType, DocumentAssumption DEF Init
<1>1. TypeOK
  <2>1. doc \in Doc \cup {NoDoc} /\ items \in [Keys -> Item]
    BY DEF Item
  <2>2. job \in [status : {"queued", "running", "completed", "failed"}, version : Versions \cup {0}]
    OBVIOUS
  <2>3. own \in [Actors -> Doc \cup {NoDoc}] /\ cut \in [Actors -> [text : Texts, done : 0..MaxChunks]]
    OBVIOUS
  <2>4. todo \in [Actors -> SUBSET (Keys \X Texts)] /\ faults \in 0..MaxFaults
    OBVIOUS
  <2> QED
    BY <2>1, <2>2, <2>3, <2>4 DEF TypeOK
<1>2. PlacesFit /\ ListsFit /\ RunFits /\ BlankFits
  BY DEF PlacesFit, ListsFit, RunFits, BlankFits, Bare, Activating, Claimed, InImport, Chunking,
     Actors, Keys
<1>3. CutFits
  <2>1. ChunksOf[SomeText] \in Nat
    OBVIOUS
  <2> QED
    BY <2>1 DEF CutFits, Activating, Actors
<1>4. RecordsAreBacked /\ UneditedFits /\ Agreed /\ WholeOrOwed
  BY DEF RecordsAreBacked, UneditedFits, Unedited, Agreed, WholeOrOwed, Through, Activating,
     Chunking, InImport, Actors
<1>5. TurnsFit /\ OldAreGoing /\ FailingIsWhole /\ EditorsSpare /\ WholeFits
  BY DEF TurnsFit, OldAreGoing, Alive, FailingIsWhole, EditorsSpare, WholeFits, Clients, Actors,
     Keys
<1> QED
  BY <1>1, <1>2, <1>3, <1>4, <1>5 DEF DocFits

LEMMA DocumentStutterKeeps == DocFits /\ UNCHANGED vars => DocFits'
<1> SUFFICES ASSUME DocFits, UNCHANGED vars PROVE DocFits'
  OBVIOUS
<1> USE DEF vars
<1>1. (TypeOK /\ PlacesFit /\ CutFits /\ ListsFit /\ RunFits /\ BlankFits)'
  BY DEF DocFits, TypeOK, PlacesFit, CutFits, ListsFit, RunFits, BlankFits
<1>2. (RecordsAreBacked /\ UneditedFits /\ Agreed /\ WholeOrOwed)'
  BY DEF DocFits, RecordsAreBacked, Backed, UneditedFits, Unedited, Agreed, Serial, WholeOrOwed,
     Owes, Keyed
<1>3. (TurnsFit /\ OldAreGoing /\ FailingIsWhole /\ EditorsSpare /\ WholeFits)'
  BY DEF DocFits, TurnsFit, OldAreGoing, Alive, FailingIsWhole, EditorsSpare, WholeFits, Serial,
     Keyed, RunnerMinds
<1> QED
  BY <1>1, <1>2, <1>3 DEF DocFits

LEMMA DocumentStep == DocFits /\ [Next]_vars => DocFits'
<1> SUFFICES ASSUME DocFits, [Next]_vars PROVE DocFits'
  OBVIOUS
<1>1. ASSUME NEW a \in {Runner} \cup Importers, Importing(a) PROVE DocFits'
  BY <1>1, StartImportKeeps, SaveProgressKeeps, CheckChunkKeeps, SaveChunkKeeps, CountChunkKeeps,
     ListVersionItemsKeeps, CheckActiveKeeps, SaveActiveKeeps, ActivatedKeeps DEF Importing
<1>2. ASSUME Running PROVE DocFits'
  BY <1>1, <1>2, LoadKeeps, ParseKeeps, ClaimDocumentKeeps, CheckSummaryKeeps, SaveSummaryKeeps,
     ReadFinalKeeps, SaveFinalKeeps, FinishKeeps, FailKeeps, InvalidateKeeps, InvalidatedKeeps,
     SaveFailedKeeps DEF Running
<1>3. ASSUME NEW a \in Importers, ReadForImport(a) \/ CountImported(a) \/ Importing(a)
      PROVE  DocFits'
  BY <1>1, <1>3, ReadForImportKeeps, CountImportedKeeps
<1>4. ASSUME NEW a \in Editors, Editing(a) PROVE DocFits'
  BY <1>4, ReadForEditKeeps, EditKeeps, ListOtherVersionsKeeps, InvalidateKeeps, InvalidatedKeeps
     DEF Editing
<1> QED
  BY <1>2, <1>3, <1>4, StartJobKeeps, RejectKeeps, ExceptionKeeps, RestartKeeps,
           DocumentStutterKeeps DEF Next

LEMMA DocumentInvariance == Spec => []DocFits
  BY DocumentInitFits, DocumentStep, PTL DEF Spec

\* Every state of the import has its type, for any number of clients, texts, versions and
\* faults.
THEOREM DocumentTypeCorrect == Spec => []TypeOK
<1>1. DocFits => TypeOK
  BY DEF DocFits
<1> QED
  BY <1>1, DocumentInvariance, PTL

\* ingestion.py import_document_chunks and run_job: the chunks that the record counts exist
\* under its version, and a COMPLETED job of the current version has the summary and every
\* chunk of its text active.
THEOREM CompletedHolds == Spec => []CompletedIsThere
<1>1. DocFits => CompletedIsThere
  <2> SUFFICES ASSUME DocFits PROVE CompletedIsThere
    OBVIOUS
  <2>1. doc # NoDoc => /\ doc.completed <= doc.expected
                       /\ \A s \in 1..doc.completed : Status(doc.version, s) # "none"
    BY DEF DocFits, RecordsAreBacked, Backed, Status
  <2>2. ASSUME job.status = "completed", doc.version = job.version, ~broken,
               \A a \in Importers : pc[a] = "idle",
               NEW s \in 0..ChunksOf[doc.text]
        PROVE  items[<<doc.version, s>>] = [status |-> "active", text |-> doc.text]
    <3>1. pc[Runner] = "idle" /\ doc # NoDoc
      BY <2>2, DocumentAssumption DEF DocFits, RunFits, BlankFits, TypeOK
    <3>2. Unedited
      BY <2>2, <3>1, DocumentAssumption DEF DocFits, RunFits, TypeOK, Doc, Versions, Unedited
    <3>3. items[<<1, s>>].status = "active"
      BY <2>2, <3>1, <3>2 DEF DocFits, WholeOrOwed, Owes, Chunking, Activating
    <3>4. s \in Slots /\ 1 \in Versions
      BY <3>1, <2>2, DocumentAssumption DEF DocFits, TypeOK, Doc, Slots, Versions
    <3>5. <<1, s>> \in Keys
      BY <3>4 DEF Keys
    <3>6. items[<<1, s>>] \in Item /\ items[<<1, s>>].text = doc.text
      BY <3>2, <3>3, <3>5 DEF DocFits, TypeOK, Agreed, Unedited
    <3> QED
      BY <3>2, <3>3, <3>6 DEF Item, Unedited
  <2> QED
    BY <2>1, <2>2 DEF CompletedIsThere
<1> QED
  BY <1>1, DocumentInvariance, PTL

\* When handlers took turns and have ended, what is searchable is the current text of the
\* current version.
THEOREM ServedCurrent == Spec => []SerialServedIsCurrent
<1>1. DocFits => SerialServedIsCurrent
  <2> SUFFICES ASSUME DocFits, Quiet, Serial, NEW k \in Keys, items[k].status = "active"
               PROVE  k[1] = doc.version /\ items[k].text = doc.text
    BY DEF SerialServedIsCurrent, ServedIsCurrent, Serial
  <2>1. \A a \in Actors : pc[a] = "idle"
    BY DEF Quiet
  <2>2. k[1] = doc.version
    BY <2>1 DEF DocFits, OldAreGoing, Alive, Working, Claimed, InImport, Chunking, Activating,
       Actors
  <2>3. doc # NoDoc
    BY DEF DocFits, TurnsFit
  <2> QED
    BY <2>2, <2>3 DEF DocFits, Agreed
<1> QED
  BY <1>1, DocumentInvariance, PTL

\* When handlers took turns and have ended, the chunks of the current version are all
\* searchable or none is, after failures and retries as well.
THEOREM WholeOrNothing == Spec => []SerialWholeOrNothing
<1>1. DocFits => SerialWholeOrNothing
  <2> SUFFICES ASSUME DocFits, Quiet, Serial, doc # NoDoc
               PROVE  LET active == {s \in Slots \ {0} : Status(doc.version, s) = "active"}
                      IN  active = {} \/ active = 1..ChunksOf[doc.text]
    BY DEF SerialWholeOrNothing, Serial
  <2> DEFINE active == {s \in Slots \ {0} : Status(doc.version, s) = "active"}
  <2>1. \A a \in Actors : pc[a] = "idle"
    BY DEF Quiet
  <2>2. ~RunnerMinds /\ \A a \in Importers : pc[a] \notin InImport
    BY <2>1 DEF RunnerMinds, Working, Claimed, InImport, Chunking, Activating, Actors
  <2>3. \/ \A s \in Slots \ {0} : items[<<doc.version, s>>].status # "active"
        \/ \A s \in 1..ChunksOf[doc.text] : items[<<doc.version, s>>].status = "active"
    BY <2>2 DEF DocFits, WholeFits
  <2>4. doc.version \in Versions /\ doc.text \in Texts /\ ChunksOf[doc.text] \in 0..MaxChunks
    BY DocumentAssumption DEF DocFits, TypeOK, Doc
  <2>5. 1..ChunksOf[doc.text] \subseteq Slots \ {0}
    BY <2>4, DocumentAssumption DEF Slots
  <2>6. \A s \in active : s \in 1..ChunksOf[doc.text]
    <3>1. SUFFICES ASSUME NEW s \in Slots \ {0}, items[<<doc.version, s>>].status = "active"
                   PROVE  s <= ChunksOf[doc.text]
      BY <2>4, DocumentAssumption DEF Slots, Status
    <3>2. <<doc.version, s>> \in Keys
      BY <2>4, <3>1 DEF Keys
    <3> QED
      BY <3>1, <3>2 DEF DocFits, Agreed
  <2> QED
    BY <2>3, <2>5, <2>6 DEF Status
<1> QED
  BY <1>1, DocumentInvariance, PTL

---------------------------------------------------------------------------
(* The pool: its queue, its threads, its permits and its shutdown.         *)

\* The queue holds each pending upload once.
PoolPlaces == 1..Len(queue)

QueueFits ==
    /\ \A i, j \in PoolPlaces : queue[i] = queue[j] => i = j
    /\ \A i \in PoolPlaces : future[queue[i]] = "pending"
    /\ \A u \in Uploads : future[u] = "pending" => \E i \in PoolPlaces : queue[i] = u

\* A thread has an upload of its own, from when it takes it until its callbacks have run.
WorkFits ==
    /\ \A w \in Threads : work[w] # NoUpload => future[work[w]] \in {"running", "finished"}
    /\ \A v, w \in Threads : work[v] = work[w] /\ work[v] # NoUpload => v = w
    /\ \A u \in Uploads : future[u] = "running" => \E w \in Threads : work[w] = u

\* The callbacks of a future run in their order, and the last one forgets it.
CallbacksFit ==
    \A u \in Uploads :
        /\ callbacks[u] \in {{"release", "forget"}, {"forget"}, {}}
        /\ future[u] = "none" => callbacks[u] = {}
        /\ future[u] \in {"pending", "running"} => callbacks[u] = {"release", "forget"}
        /\ u \in submitted <=> "forget" \in callbacks[u]

\* What a future says of its job.
JobsFit ==
    \A u \in Uploads :
        /\ future[u] = "pending" => uploadJob[u] = "queued"
        /\ future[u] = "running" => uploadJob[u] \in {"queued", "running"}
        /\ future[u] = "finished" => Settled(u) \/ u \in slipped
        /\ future[u] = "cancelled" => uploadJob[u] \in {"queued", "failed"}

\* The shutdown that is under way; the others wait for it to end.
AtStop(s) == stop[s] \in {"list", "cancel", "join", "fail"}

StopFits ==
    /\ closed => closing
    /\ \A s \in Stoppers : /\ stop[s] # "idle" => closing
                           /\ AtStop(s) => ~closed
    /\ \A s, t \in Stoppers : AtStop(s) /\ AtStop(t) => s = t
    /\ closing /\ ~closed => \E s \in Stoppers : AtStop(s)

\* What was cancelled is settled or on the list of a shutdown that will fail it; the list is
\* complete while it cancels.
CancelledFit ==
    \A u \in Uploads :
        /\ future[u] = "cancelled" =>
              \/ Settled(u) \/ u \in slipped
              \/ \E s \in Stoppers : stop[s] \in {"cancel", "join", "fail"} /\ u \in listed[s]
        /\ \A s \in Stoppers :
              stop[s] = "cancel" /\ future[u] = "pending" => u \in listed[s]

\* A shutdown has drained the queue before it joins, and the threads before it fails jobs.
StoppedFits ==
    /\ \A s \in Stoppers : /\ stop[s] \in {"join", "fail"} => queue = <<>>
                           /\ stop[s] = "fail" => \A w \in Threads : work[w] = NoUpload
    /\ closed => queue = <<>> /\ \A w \in Threads : work[w] = NoUpload

PoolFits ==
    PoolTypeOK /\ QueueFits /\ WorkFits /\ CallbacksFit /\ JobsFit /\ StopFits /\ CancelledFit
    /\ StoppedFits /\ PermitsAccounted

---------------------------------------------------------------------------
(* Permits.                                                                *)

LEMMA CapacityType == Capacity \in Nat
  BY PoolAssumption, FS_CardinalityType DEF Capacity

Holders == {u \in Uploads : "release" \in callbacks[u]}

LEMMA HoldersCounted == Holders' \subseteq Uploads /\ IsFiniteSet(Holders') /\ IsFiniteSet(Holders)
                        /\ Cardinality(Holders) \in Nat /\ Cardinality(Holders') \in Nat
<1>1. Holders \in SUBSET Uploads /\ Holders' \in SUBSET Uploads
  BY DEF Holders
<1> QED
  BY <1>1, PoolAssumption, FS_Subset, FS_CardinalityType

\* Who is put into the pool takes a permit.
LEMMA PermitTaken ==
    ASSUME PoolTypeOK, PermitsAccounted, NEW u \in Uploads, callbacks[u] = {},
           free > 0, free' = free - 1,
           callbacks' = [callbacks EXCEPT ![u] = {"release", "forget"}]
    PROVE  free' \in 0..Capacity /\ PermitsAccounted'
<1>1. Holders' = Holders \cup {u} /\ u \notin Holders
  BY DEF PoolTypeOK, Holders
<1>2. Cardinality(Holders') = Cardinality(Holders) + 1
  BY <1>1, HoldersCounted, FS_AddElement
<1>3. free + Cardinality(Holders) = Capacity
  BY DEF PermitsAccounted, Holders
<1>4. free' + Cardinality(Holders') = Capacity
  BY <1>2, <1>3, HoldersCounted, CapacityType DEF PoolTypeOK
<1> QED
  BY <1>4, CapacityType DEF PoolTypeOK, PermitsAccounted, Holders

\* A callback gives a permit back once, and what is given back was out.
LEMMA PermitGivenBack ==
    ASSUME PoolTypeOK, PermitsAccounted, NEW u \in Uploads, CallBack(u)
    PROVE  free' \in 0..Capacity /\ PermitsAccounted'
<1>1. free + Cardinality(Holders) = Capacity
  BY DEF PermitsAccounted, Holders
<1>2. CASE "release" \in callbacks[u] /\ free' = free + 1
           /\ callbacks' = [callbacks EXCEPT ![u] = @ \ {"release"}]
  <2>1. Holders' = Holders \ {u} /\ u \in Holders
    BY <1>2 DEF PoolTypeOK, Holders
  <2>2. Cardinality(Holders') = Cardinality(Holders) - 1
    BY <2>1, HoldersCounted, FS_RemoveElement
  <2>3. free' + Cardinality(Holders') = Capacity
    BY <1>1, <1>2, <2>2, HoldersCounted, CapacityType DEF PoolTypeOK
  <2> QED
    BY <1>2, <2>3, HoldersCounted, CapacityType DEF PoolTypeOK, PermitsAccounted, Holders
<1>3. CASE callbacks[u] = {"forget"} /\ callbacks' = [callbacks EXCEPT ![u] = {}]
           /\ free' = free
  <2>1. Holders' = Holders
    BY <1>3 DEF PoolTypeOK, Holders
  <2> QED
    BY <1>1, <1>3, <2>1 DEF PoolTypeOK, PermitsAccounted, Holders
<1> QED
  BY <1>2, <1>3 DEF CallBack

---------------------------------------------------------------------------
(* One lemma for each step.                                                *)

\* The head of the queue is the only one that leaves it.
LEMMA Dequeued ==
    ASSUME PoolTypeOK, QueueFits, queue # <<>>, NEW state, state # "pending",
           queue' = Tail(queue), future' = [future EXCEPT ![Head(queue)] = state]
    PROVE  QueueFits' /\ Head(queue) \in Uploads /\ future[Head(queue)] = "pending"
<1>1. queue \in Seq(Uploads) /\ Len(queue) \in Nat /\ Len(queue) > 0
  BY DEF PoolTypeOK
<1>2. Head(queue) = queue[1] /\ 1 \in PoolPlaces /\ Head(queue) \in Uploads
  BY <1>1 DEF PoolPlaces
<1>3. Len(queue') = Len(queue) - 1 /\ \A i \in 1..Len(queue') : queue'[i] = queue[i + 1]
  BY <1>1
<1>4. \A i \in PoolPlaces' : i + 1 \in PoolPlaces /\ queue'[i] = queue[i + 1]
  BY <1>1, <1>3 DEF PoolPlaces
<1>5. \A i \in PoolPlaces : i # 1 => i - 1 \in PoolPlaces' /\ queue'[i - 1] = queue[i]
  BY <1>1, <1>3 DEF PoolPlaces
<1>6. \A i, j \in PoolPlaces' : queue'[i] = queue'[j] => i = j
  BY <1>1, <1>4 DEF QueueFits, PoolPlaces
<1>7. \A i \in PoolPlaces' : queue'[i] \in Uploads /\ queue'[i] # Head(queue)
  BY <1>1, <1>2, <1>4 DEF QueueFits, PoolPlaces
<1>8. \A u \in Uploads : future'[u] = IF u = queue[1] THEN state ELSE future[u]
  BY <1>2 DEF PoolTypeOK
<1>9. \A i \in PoolPlaces' : future'[queue'[i]] = "pending"
  <2> SUFFICES ASSUME NEW i \in PoolPlaces'  PROVE future'[queue'[i]] = "pending"
    OBVIOUS
  <2>1. future[queue[i + 1]] = "pending"
    BY <1>4 DEF QueueFits
  <2> QED
    BY <1>2, <1>4, <1>7, <1>8, <2>1
<1>10. \A u \in Uploads : future'[u] = "pending" => \E i \in PoolPlaces' : queue'[i] = u
  <2> SUFFICES ASSUME NEW u \in Uploads, future'[u] = "pending"
               PROVE  \E i \in PoolPlaces' : queue'[i] = u
    OBVIOUS
  <2>1. PICK i \in PoolPlaces : queue[i] = u /\ i # 1
    BY <1>8 DEF QueueFits
  <2> QED
    BY <1>5, <2>1
<1>11. future[Head(queue)] = "pending"
  BY <1>2 DEF QueueFits
<1> QED
  BY <1>2, <1>6, <1>9, <1>10, <1>11 DEF QueueFits
LEMMA CreateJobKeeps ==
    ASSUME PoolFits, NEW u \in Uploads, CreateJob(u)
    PROVE  PoolFits'
<1>1. JobsFit'
  BY DEF PoolFits, CreateJob, SaveJob, pool, service, PoolTypeOK, JobsFit, Settled
<1>2. CancelledFit'
  BY DEF PoolFits, CreateJob, SaveJob, pool, service, PoolTypeOK, CancelledFit, Settled
<1>3. PoolTypeOK'
  BY DEF PoolFits, CreateJob, SaveJob, pool, service, PoolTypeOK
<1>4. QueueFits' /\ WorkFits' /\ CallbacksFit' /\ StopFits' /\ StoppedFits' /\ PermitsAccounted'
  BY DEF PoolFits, CreateJob, SaveJob, pool, service, QueueFits, WorkFits, CallbacksFit,
     StopFits, StoppedFits, PermitsAccounted, PoolPlaces, AtStop
<1> QED
  BY <1>1, <1>2, <1>3, <1>4 DEF PoolFits

LEMMA SubmitKeeps ==
    ASSUME PoolFits, NEW u \in Uploads, Submit(u)
    PROVE  PoolFits'
<1>1. QueueFits'
  BY DEF PoolFits, Submit, Handed, service, PoolTypeOK, QueueFits, PoolPlaces
<1>2. WorkFits'
  BY DEF PoolFits, Submit, Handed, service, PoolTypeOK, WorkFits
<1>3. CallbacksFit'
  BY DEF PoolFits, Submit, Handed, service, PoolTypeOK, CallbacksFit
<1>4. JobsFit'
  BY DEF PoolFits, Submit, Handed, service, PoolTypeOK, JobsFit, Settled
<1>5. CancelledFit'
  BY DEF PoolFits, Submit, Handed, service, PoolTypeOK, CancelledFit, StopFits, AtStop,
     Settled
<1>6. StoppedFits'
  BY DEF PoolFits, Submit, Handed, service, PoolTypeOK, StoppedFits, StopFits, AtStop
<1>7. PoolTypeOK'
  <2>1. future[u] = "none" /\ callbacks[u] = {}
    BY DEF PoolFits, Submit, Handed, PoolTypeOK, CallbacksFit
  <2>2. free' \in 0..Capacity
    BY <2>1, PermitTaken DEF PoolFits, Submit
  <2>3. queue' \in Seq(Uploads)
    BY DEF PoolFits, Submit, PoolTypeOK
  <2> QED
    BY <2>2, <2>3 DEF PoolFits, Submit, service, PoolTypeOK
<1>8. PermitsAccounted'
  <2>1. callbacks[u] = {}
    BY DEF PoolFits, Submit, Handed, PoolTypeOK, CallbacksFit
  <2> QED
    BY <2>1, PermitTaken DEF PoolFits, Submit
<1>9. StopFits'
  BY DEF PoolFits, Submit, service, StopFits, AtStop
<1> QED
  BY <1>1, <1>2, <1>3, <1>4, <1>5, <1>6, <1>7, <1>8, <1>9 DEF PoolFits

LEMMA RefuseKeeps ==
    ASSUME PoolFits, NEW u \in Uploads, Refuse(u)
    PROVE  PoolFits'
<1>1. JobsFit'
  BY DEF PoolFits, Refuse, SaveJob, Handed, pool, service, PoolTypeOK, JobsFit, Settled
<1>2. CancelledFit'
  BY DEF PoolFits, Refuse, SaveJob, Handed, pool, service, PoolTypeOK, CancelledFit, Settled
<1>3. PoolTypeOK'
  BY DEF PoolFits, Refuse, SaveJob, Handed, pool, service, PoolTypeOK
<1>4. QueueFits' /\ WorkFits' /\ CallbacksFit' /\ StopFits' /\ StoppedFits' /\ PermitsAccounted'
  BY DEF PoolFits, Refuse, SaveJob, pool, service, QueueFits, WorkFits, CallbacksFit,
     StopFits, StoppedFits, PermitsAccounted, PoolPlaces, AtStop
<1> QED
  BY <1>1, <1>2, <1>3, <1>4 DEF PoolFits

LEMMA TakeKeeps ==
    ASSUME PoolFits, NEW w \in Threads, Take(w)
    PROVE  PoolFits'
<1>1. QueueFits'
  BY Dequeued DEF PoolFits, Take
<1>2. WorkFits'
  <2>1. Head(queue) \in Uploads /\ future[Head(queue)] = "pending"
    BY Dequeued DEF PoolFits, Take
  <2> QED
    BY <2>1, PoolAssumption DEF PoolFits, Take, service, PoolTypeOK, WorkFits
<1>3. CallbacksFit'
  <2>1. Head(queue) \in Uploads /\ future[Head(queue)] = "pending"
    BY Dequeued DEF PoolFits, Take
  <2> QED
    BY <2>1, PoolAssumption DEF PoolFits, Take, service, PoolTypeOK, CallbacksFit
<1>4. JobsFit'
  BY DEF PoolFits, Take, service, PoolTypeOK, JobsFit, QueueFits, PoolPlaces, Settled
<1>5. CancelledFit'
  BY DEF PoolFits, Take, service, PoolTypeOK, CancelledFit, Settled
<1>6. StoppedFits'
  BY DEF PoolFits, Take, service, PoolTypeOK, StoppedFits
<1>7. PoolTypeOK'
  BY DEF PoolFits, Take, service, PoolTypeOK
<1>8. StopFits' /\ PermitsAccounted'
  BY DEF PoolFits, Take, service, StopFits, PermitsAccounted, AtStop
<1> QED
  BY <1>1, <1>2, <1>3, <1>4, <1>5, <1>6, <1>7, <1>8 DEF PoolFits

LEMMA BeginJobKeeps ==
    ASSUME PoolFits, NEW w \in Threads, BeginJob(w)
    PROVE  PoolFits'
<1>1. JobsFit'
  BY DEF PoolFits, BeginJob, SaveJob, pool, service, PoolTypeOK, JobsFit, Settled
<1>2. CancelledFit'
  BY DEF PoolFits, BeginJob, SaveJob, pool, service, PoolTypeOK, CancelledFit, Settled
<1>3. PoolTypeOK'
  BY DEF PoolFits, BeginJob, SaveJob, pool, service, PoolTypeOK
<1>4. QueueFits' /\ WorkFits' /\ CallbacksFit' /\ StopFits' /\ StoppedFits' /\ PermitsAccounted'
  BY DEF PoolFits, BeginJob, SaveJob, pool, service, QueueFits, WorkFits, CallbacksFit,
     StopFits, StoppedFits, PermitsAccounted, PoolPlaces, AtStop
<1> QED
  BY <1>1, <1>2, <1>3, <1>4 DEF PoolFits

LEMMA EndJobKeeps ==
    ASSUME PoolFits, NEW w \in Threads, EndJob(w)
    PROVE  PoolFits'
<1>1. QueueFits'
  BY DEF PoolFits, EndJob, SaveJob, service, PoolTypeOK, QueueFits, PoolPlaces
<1>2. WorkFits'
  BY DEF PoolFits, EndJob, SaveJob, service, PoolTypeOK, WorkFits
<1>3. CallbacksFit'
  BY DEF PoolFits, EndJob, SaveJob, service, PoolTypeOK, CallbacksFit
<1>4. JobsFit'
  BY DEF PoolFits, EndJob, SaveJob, service, PoolTypeOK, JobsFit, Settled
<1>5. CancelledFit'
  BY DEF PoolFits, EndJob, SaveJob, service, PoolTypeOK, CancelledFit, Settled
<1>6. PoolTypeOK'
  BY DEF PoolFits, EndJob, SaveJob, service, PoolTypeOK
<1>7. StopFits' /\ StoppedFits' /\ PermitsAccounted'
  BY DEF PoolFits, EndJob, SaveJob, service, StopFits, StoppedFits, PermitsAccounted, AtStop
<1> QED
  BY <1>1, <1>2, <1>3, <1>4, <1>5, <1>6, <1>7 DEF PoolFits

LEMMA LoseJobKeeps ==
    ASSUME PoolFits, NEW w \in Threads, LoseJob(w)
    PROVE  PoolFits'
<1>1. QueueFits'
  BY DEF PoolFits, LoseJob, Fault, service, PoolTypeOK, QueueFits, PoolPlaces
<1>2. WorkFits'
  BY DEF PoolFits, LoseJob, Fault, service, PoolTypeOK, WorkFits
<1>3. CallbacksFit'
  BY DEF PoolFits, LoseJob, Fault, service, PoolTypeOK, CallbacksFit
<1>4. JobsFit'
  BY DEF PoolFits, LoseJob, Fault, service, PoolTypeOK, JobsFit, Settled
<1>5. CancelledFit'
  BY DEF PoolFits, LoseJob, Fault, service, PoolTypeOK, CancelledFit, Settled
<1>6. PoolTypeOK'
  BY PoolAssumption DEF PoolFits, LoseJob, Fault, service, PoolTypeOK
<1>7. StopFits' /\ StoppedFits' /\ PermitsAccounted'
  BY DEF PoolFits, LoseJob, Fault, service, StopFits, StoppedFits, PermitsAccounted, AtStop
<1> QED
  BY <1>1, <1>2, <1>3, <1>4, <1>5, <1>6, <1>7 DEF PoolFits

LEMMA RunCallbackKeeps ==
    ASSUME PoolFits, NEW w \in Threads, RunCallback(w)
    PROVE  PoolFits'
<1>1. CallbacksFit'
  BY DEF PoolFits, RunCallback, CallBack, service, PoolTypeOK, CallbacksFit
<1>2. PoolTypeOK'
  <2>1. work[w] \in Uploads
    BY DEF PoolFits, RunCallback, PoolTypeOK
  <2>2. free' \in 0..Capacity
    BY <2>1, PermitGivenBack DEF PoolFits, RunCallback
  <2> QED
    BY <2>1, <2>2 DEF PoolFits, RunCallback, CallBack, service, PoolTypeOK
<1>3. PermitsAccounted'
  BY PermitGivenBack DEF PoolFits, RunCallback, PoolTypeOK
<1>4. QueueFits' /\ WorkFits' /\ JobsFit' /\ StopFits' /\ CancelledFit' /\ StoppedFits'
  BY DEF PoolFits, RunCallback, CallBack, service, QueueFits, WorkFits, JobsFit, StopFits,
     CancelledFit, StoppedFits, PoolPlaces, AtStop, Settled
<1> QED
  BY <1>1, <1>2, <1>3, <1>4 DEF PoolFits

LEMMA FinishItemKeeps ==
    ASSUME PoolFits, NEW w \in Threads, FinishItem(w)
    PROVE  PoolFits'
<1>1. WorkFits'
  BY DEF PoolFits, FinishItem, service, PoolTypeOK, WorkFits
<1>2. StoppedFits'
  BY DEF PoolFits, FinishItem, service, PoolTypeOK, StoppedFits
<1>3. PoolTypeOK'
  BY DEF PoolFits, FinishItem, service, PoolTypeOK
<1>4. QueueFits' /\ CallbacksFit' /\ JobsFit' /\ StopFits' /\ CancelledFit' /\ PermitsAccounted'
  BY DEF PoolFits, FinishItem, service, QueueFits, CallbacksFit, JobsFit, StopFits,
     CancelledFit, PermitsAccounted, PoolPlaces, AtStop, Settled
<1> QED
  BY <1>1, <1>2, <1>3, <1>4 DEF PoolFits

LEMMA StartStopKeeps ==
    ASSUME PoolFits, NEW s \in Stoppers, StartStop(s)
    PROVE  PoolFits'
<1>1. StopFits'
  BY DEF PoolFits, StartStop, pool, PoolTypeOK, StopFits, AtStop
<1>2. CancelledFit'
  BY DEF PoolFits, StartStop, pool, PoolTypeOK, CancelledFit, Settled
<1>3. StoppedFits'
  BY DEF PoolFits, StartStop, pool, PoolTypeOK, StoppedFits
<1>4. PoolTypeOK'
  BY DEF PoolFits, StartStop, pool, PoolTypeOK
<1>5. QueueFits' /\ WorkFits' /\ CallbacksFit' /\ JobsFit' /\ PermitsAccounted'
  BY DEF PoolFits, StartStop, pool, QueueFits, WorkFits, CallbacksFit, JobsFit,
     PermitsAccounted, PoolPlaces, Settled
<1> QED
  BY <1>1, <1>2, <1>3, <1>4, <1>5 DEF PoolFits

LEMMA ListSubmittedKeeps ==
    ASSUME PoolFits, NEW s \in Stoppers, ListSubmitted(s)
    PROVE  PoolFits'
<1>1. StopFits'
  BY DEF PoolFits, ListSubmitted, pool, PoolTypeOK, StopFits, AtStop
<1>2. CancelledFit'
  BY DEF PoolFits, ListSubmitted, pool, PoolTypeOK, CancelledFit, QueueFits, CallbacksFit,
     JobsFit, StopFits, AtStop, Settled, PoolPlaces
<1>3. StoppedFits'
  BY DEF PoolFits, ListSubmitted, pool, PoolTypeOK, StoppedFits
<1>4. PoolTypeOK'
  BY DEF PoolFits, ListSubmitted, pool, PoolTypeOK
<1>5. QueueFits' /\ WorkFits' /\ CallbacksFit' /\ JobsFit' /\ PermitsAccounted'
  BY DEF PoolFits, ListSubmitted, pool, QueueFits, WorkFits, CallbacksFit, JobsFit,
     PermitsAccounted, PoolPlaces, Settled
<1> QED
  BY <1>1, <1>2, <1>3, <1>4, <1>5 DEF PoolFits

LEMMA CancelKeeps ==
    ASSUME PoolFits, NEW s \in Stoppers, Cancel(s)
    PROVE  PoolFits'
<1> USE DEF PoolFits
<1>1. CASE /\ \E u \in Owing : CallBack(u)
           /\ UNCHANGED <<queue, future, stop, uploadJob, work, closing, closed, listed,
                          slipped, poolFaults>>
  <2>1. PICK u \in Owing : CallBack(u)
    BY <1>1
  <2>2. u \in Uploads /\ future[u] = "cancelled"
    BY <2>1 DEF Owing
  <2>3. free' \in 0..Capacity /\ PermitsAccounted'
    BY <2>1, <2>2, PermitGivenBack
  <2>4. PoolTypeOK'
    BY <1>1, <2>1, <2>2, <2>3 DEF CallBack, PoolTypeOK
  <2>5. CallbacksFit'
    BY <1>1, <2>1, <2>2 DEF CallBack, PoolTypeOK, CallbacksFit
  <2>6. QueueFits' /\ WorkFits' /\ JobsFit' /\ StopFits' /\ CancelledFit' /\ StoppedFits'
    BY <1>1 DEF QueueFits, WorkFits, JobsFit, StopFits, CancelledFit, StoppedFits, PoolPlaces,
                AtStop, Settled
  <2> QED
    BY <2>3, <2>4, <2>5, <2>6
<1>2. CASE /\ queue # <<>> /\ stop[s] = "cancel"
           /\ future' = [future EXCEPT ![Head(queue)] = "cancelled"]
           /\ queue' = Tail(queue)
           /\ UNCHANGED <<callbacks, free, submitted, stop, uploadJob, work, closing, closed,
                          listed, slipped, poolFaults>>
  <2>1. QueueFits' /\ Head(queue) \in Uploads /\ future[Head(queue)] = "pending"
    BY <1>2, Dequeued
  <2>2. PoolTypeOK'
    BY <1>2, <2>1 DEF PoolTypeOK
  <2>3. /\ WorkFits'
        /\ CallbacksFit'
        /\ JobsFit'
    <3> DEFINE u == Head(queue)
    <3>1. u \in Uploads /\ future[u] = "pending" /\ future' = [future EXCEPT ![u] = "cancelled"]
      BY <1>2, <2>1
    <3> HIDE DEF u
    <3>2. WorkFits'
      BY <1>2, <3>1 DEF PoolTypeOK, WorkFits
    <3>3. CallbacksFit'
      BY <1>2, <3>1 DEF PoolTypeOK, CallbacksFit
    <3>4. JobsFit'
      BY <1>2, <3>1 DEF PoolTypeOK, JobsFit, Settled
    <3> QED
      BY <3>2, <3>3, <3>4
  <2>4. CancelledFit'
    BY <1>2, <2>1 DEF PoolTypeOK, CancelledFit, Settled
  <2>5. StoppedFits'
    BY <1>2 DEF PoolTypeOK, StopFits, AtStop, StoppedFits
  <2>6. StopFits' /\ PermitsAccounted'
    BY <1>2 DEF StopFits, AtStop, PermitsAccounted
  <2> QED
    BY <2>1, <2>2, <2>3, <2>4, <2>5, <2>6
<1>3. CASE /\ queue = <<>> /\ stop[s] = "cancel"
           /\ stop' = [stop EXCEPT ![s] = "join"]
           /\ UNCHANGED <<queue, future, callbacks, free, submitted, uploadJob, work, closing,
                          closed, listed, slipped, poolFaults>>
  <2>1. PoolTypeOK'
    BY <1>3 DEF PoolTypeOK
  <2>2. StopFits' /\ StoppedFits'
    BY <1>3 DEF PoolTypeOK, StopFits, AtStop, StoppedFits
  <2>3. CancelledFit'
    BY <1>3 DEF PoolTypeOK, CancelledFit, Settled
  <2>4. QueueFits' /\ WorkFits' /\ CallbacksFit' /\ JobsFit' /\ PermitsAccounted'
    BY <1>3 DEF QueueFits, WorkFits, CallbacksFit, JobsFit, PermitsAccounted, PoolPlaces, Settled
  <2> QED
    BY <2>1, <2>2, <2>3, <2>4
<1> QED
  BY <1>1, <1>2, <1>3 DEF Cancel

LEMMA JoinKeeps ==
    ASSUME PoolFits, NEW s \in Stoppers, Join(s)
    PROVE  PoolFits'
<1>1. StopFits'
  BY DEF PoolFits, Join, pool, PoolTypeOK, StopFits, AtStop
<1>2. CancelledFit'
  BY DEF PoolFits, Join, pool, PoolTypeOK, CancelledFit, Settled
<1>3. StoppedFits'
  BY DEF PoolFits, Join, pool, PoolTypeOK, StoppedFits
<1>4. PoolTypeOK'
  BY DEF PoolFits, Join, pool, PoolTypeOK
<1>5. QueueFits' /\ WorkFits' /\ CallbacksFit' /\ JobsFit' /\ PermitsAccounted'
  BY DEF PoolFits, Join, pool, QueueFits, WorkFits, CallbacksFit, JobsFit, PermitsAccounted,
     PoolPlaces, Settled
<1> QED
  BY <1>1, <1>2, <1>3, <1>4, <1>5 DEF PoolFits

LEMMA FailCancelledKeeps ==
    ASSUME PoolFits, NEW s \in Stoppers, FailCancelled(s)
    PROVE  PoolFits'
<1>1. JobsFit'
  BY DEF PoolFits, FailCancelled, Cancelled, Fault, SaveJob, pool, PoolTypeOK, JobsFit,
     Settled
<1>2. StopFits'
  BY DEF PoolFits, FailCancelled, Cancelled, Fault, SaveJob, pool, PoolTypeOK, StopFits,
     AtStop
<1>3. CancelledFit'
  BY DEF PoolFits, FailCancelled, Cancelled, Fault, SaveJob, pool, PoolTypeOK, CancelledFit,
     Settled
<1>4. StoppedFits'
  BY DEF PoolFits, FailCancelled, Cancelled, Fault, SaveJob, pool, PoolTypeOK, StoppedFits
<1>5. PoolTypeOK'
  <2>1. poolFaults' \in 0..MaxPoolFaults
    BY PoolAssumption DEF PoolFits, FailCancelled, Fault, PoolTypeOK
  <2>2. slipped' \in SUBSET Uploads
    BY DEF PoolFits, FailCancelled, Cancelled, PoolTypeOK
  <2>3. uploadJob' \in [Uploads -> {"none", "queued", "running", "completed", "failed"}]
    BY DEF PoolFits, FailCancelled, Cancelled, SaveJob, PoolTypeOK
  <2>4. listed' \in [Stoppers -> SUBSET Uploads]
    BY DEF PoolFits, FailCancelled, Cancelled, PoolTypeOK
  <2> QED
    BY <2>1, <2>2, <2>3, <2>4 DEF PoolFits, FailCancelled, pool, PoolTypeOK
<1>6. QueueFits' /\ WorkFits' /\ CallbacksFit' /\ PermitsAccounted'
  BY DEF PoolFits, FailCancelled, Cancelled, Fault, SaveJob, pool, QueueFits, WorkFits,
     CallbacksFit, PermitsAccounted, PoolPlaces
<1> QED
  BY <1>1, <1>2, <1>3, <1>4, <1>5, <1>6 DEF PoolFits

LEMMA AwaitStopKeeps ==
    ASSUME PoolFits, NEW s \in Stoppers, AwaitStop(s)
    PROVE  PoolFits'
<1>1. StopFits'
  BY DEF PoolFits, AwaitStop, pool, PoolTypeOK, StopFits, AtStop
<1>2. CancelledFit'
  BY DEF PoolFits, AwaitStop, pool, PoolTypeOK, CancelledFit, Settled
<1>3. StoppedFits'
  BY DEF PoolFits, AwaitStop, pool, PoolTypeOK, StoppedFits
<1>4. PoolTypeOK'
  BY DEF PoolFits, AwaitStop, pool, PoolTypeOK
<1>5. QueueFits' /\ WorkFits' /\ CallbacksFit' /\ JobsFit' /\ PermitsAccounted'
  BY DEF PoolFits, AwaitStop, pool, QueueFits, WorkFits, CallbacksFit, JobsFit,
     PermitsAccounted, PoolPlaces, Settled
<1> QED
  BY <1>1, <1>2, <1>3, <1>4, <1>5 DEF PoolFits

\* A new process begins with an empty pool, as the first one did.
LEMMA EmptyPoolFits ==
    ASSUME PoolTypeOK, queue = <<>>, free = Capacity, submitted = {}, ~closing, ~closed,
           \A u \in Uploads : future[u] = "none" /\ callbacks[u] = {},
           \A w \in Threads : work[w] = NoUpload,
           \A s \in Stoppers : stop[s] = "idle"
    PROVE  PoolFits
<1>1. QueueFits /\ WorkFits /\ CallbacksFit /\ JobsFit
  BY DEF PoolTypeOK, QueueFits, WorkFits, CallbacksFit, JobsFit, PoolPlaces
<1>2. StopFits /\ CancelledFit /\ StoppedFits
  BY DEF StopFits, CancelledFit, StoppedFits, AtStop
<1>3. {u \in Uploads : "release" \in callbacks[u]} = {}
  OBVIOUS
<1>4. PermitsAccounted
  BY <1>3, CapacityType, FS_EmptySet DEF PermitsAccounted
<1> QED
  BY <1>1, <1>2, <1>4 DEF PoolFits

LEMMA PoolInitFits == PoolInit => PoolFits
<1> SUFFICES ASSUME PoolInit PROVE PoolFits
  OBVIOUS
<1>1. free \in 0..Capacity /\ poolFaults \in 0..MaxPoolFaults
  BY PoolAssumption, CapacityType DEF PoolInit
<1>2. queue \in Seq(Uploads)
  BY DEF PoolInit
<1>3. PoolTypeOK
  BY <1>1, <1>2 DEF PoolInit, PoolTypeOK
<1> QED
  BY <1>3, EmptyPoolFits DEF PoolInit

LEMMA PoolRestartKeeps ==
    ASSUME PoolFits, PoolRestart
    PROVE  PoolFits'
<1>1. PoolTypeOK'
  <2>1. free' \in 0..Capacity /\ poolFaults' \in 0..MaxPoolFaults
    BY PoolAssumption, CapacityType DEF PoolFits, PoolRestart, Fault, PoolTypeOK
  <2>2. queue' \in Seq(Uploads)
    BY DEF PoolRestart
  <2>3. slipped' \in SUBSET Uploads
    BY DEF PoolFits, PoolRestart, PoolTypeOK
  <2> QED
    BY <2>1, <2>2, <2>3 DEF PoolFits, PoolRestart, PoolTypeOK
<1>2. QueueFits' /\ WorkFits' /\ CallbacksFit' /\ JobsFit'
  BY <1>1 DEF PoolRestart, PoolTypeOK, QueueFits, WorkFits, CallbacksFit, JobsFit, PoolPlaces
<1>3. StopFits' /\ CancelledFit' /\ StoppedFits'
  BY DEF PoolRestart, StopFits, CancelledFit, StoppedFits, AtStop
<1>4. Holders' = {}
  BY DEF PoolRestart, Holders
<1>5. Cardinality(Holders') = 0
  BY <1>4, FS_EmptySet
<1>6. PermitsAccounted'
  BY <1>5, CapacityType DEF PoolRestart, PermitsAccounted, Holders
<1> QED
  BY <1>1, <1>2, <1>3, <1>6 DEF PoolFits

LEMMA PoolStutterKeeps ==
    ASSUME PoolFits, UNCHANGED poolVars
    PROVE  PoolFits'
  BY DEF PoolFits, poolVars, PoolTypeOK, QueueFits, WorkFits, CallbacksFit, JobsFit, StopFits,
       CancelledFit, StoppedFits, PermitsAccounted, PoolPlaces, AtStop, Settled

LEMMA PoolStep == PoolFits /\ [PoolNext]_poolVars => PoolFits'
<1> SUFFICES ASSUME PoolFits, [PoolNext]_poolVars PROVE PoolFits'
  OBVIOUS
<1>1. ASSUME NEW u \in Uploads, CreateJob(u) \/ Submit(u) \/ Refuse(u) PROVE PoolFits'
  BY <1>1, CreateJobKeeps, SubmitKeeps, RefuseKeeps
<1>2. ASSUME NEW w \in Threads, Thread(w) \/ LoseJob(w) PROVE PoolFits'
  BY <1>2, TakeKeeps, BeginJobKeeps, EndJobKeeps, RunCallbackKeeps, FinishItemKeeps,
     LoseJobKeeps DEF Thread
<1>3. ASSUME NEW s \in Stoppers, StartStop(s) \/ Stopping(s) PROVE PoolFits'
  BY <1>3, StartStopKeeps, ListSubmittedKeeps, CancelKeeps, JoinKeeps, FailCancelledKeeps,
     AwaitStopKeeps DEF Stopping
<1> QED
  BY <1>1, <1>2, <1>3, PoolRestartKeeps, PoolStutterKeeps DEF PoolNext

LEMMA PoolInvariance == PoolSpec => []PoolFits
<1> QED
  BY PoolInitFits, PoolStep, PTL DEF PoolSpec

\* Every state of the pool and of its shutdown has its type, for any number of uploads,
\* threads, places in the queue and callers of the shutdown.
THEOREM PoolTypeCorrect == PoolSpec => []PoolTypeOK
<1>1. PoolFits => PoolTypeOK
  BY DEF PoolFits
<1> QED
  BY <1>1, PoolInvariance, PTL

\* BoundedIngestionExecutor: a permit is out for each future that has callbacks to run, and
\* for nothing else; none is lost or given back twice.
THEOREM Permits == PoolSpec => []PermitsAccounted
<1>1. PoolFits => PermitsAccounted
  BY DEF PoolFits
<1> QED
  BY <1>1, PoolInvariance, PTL

\* DocumentIngestionService.shutdown: when it reports its end, the pool is empty, and what
\* was handed in is settled.
THEOREM StoppedSettled == PoolSpec => []StoppedIsSettled
<1>1. PoolFits => StoppedIsSettled
  <2> SUFFICES ASSUME PoolFits, closed PROVE StoppedIsSettled
    BY DEF StoppedIsSettled
  <2>1. queue = <<>> /\ \A w \in Threads : work[w] = NoUpload
    BY DEF PoolFits, StoppedFits
  <2>2. ASSUME NEW u \in Uploads \ slipped, Handed(u) PROVE Settled(u)
    <3>1. future[u] \in {"pending", "running", "finished", "cancelled"}
      BY <2>2 DEF PoolFits, PoolTypeOK, Handed
    <3>2. future[u] \notin {"pending", "running"}
      BY <2>1, PoolAssumption DEF PoolFits, QueueFits, WorkFits, PoolPlaces
    <3>3. ~ \E s \in Stoppers : AtStop(s)
      BY DEF PoolFits, StopFits
    <3> QED
      BY <2>2, <3>1, <3>2, <3>3 DEF PoolFits, JobsFit, CancelledFit, AtStop
  <2> QED
    BY <2>1, <2>2 DEF StoppedIsSettled
<1> QED
  BY <1>1, PoolInvariance, PTL

\* run_job and fail_job: the status a job ended with stays, whatever the pool, the shutdown
\* and the next process do.
THEOREM SettledStays == PoolSpec => SettledIsFinal
<1>1. PoolFits /\ [PoolNext]_poolVars =>
          [\A u \in Uploads : Settled(u) => uploadJob'[u] = uploadJob[u]]_poolVars
  <2> SUFFICES ASSUME PoolFits, PoolNext, NEW u \in Uploads, Settled(u)
               PROVE  uploadJob'[u] = uploadJob[u]
    OBVIOUS
  <2> USE DEF PoolFits, PoolTypeOK, Settled, SaveJob
  <2>1. ASSUME NEW v \in Uploads, CreateJob(v) \/ Submit(v) \/ Refuse(v)
        PROVE  uploadJob'[u] = uploadJob[u]
    BY <2>1 DEF CreateJob, Submit, Refuse
  <2>2. ASSUME NEW w \in Threads, Thread(w) \/ LoseJob(w)
        PROVE  uploadJob'[u] = uploadJob[u]
    <3>1. CASE EndJob(w)
      BY <3>1 DEF EndJob, JobsFit
    <3>2. CASE BeginJob(w)
      BY <3>2 DEF BeginJob
    <3> QED
      BY <2>2, <3>1, <3>2 DEF Thread, LoseJob, Take, RunCallback, FinishItem
  <2>3. ASSUME NEW s \in Stoppers, StartStop(s) \/ Stopping(s)
        PROVE  uploadJob'[u] = uploadJob[u]
    <3>1. CASE FailCancelled(s)
      BY <3>1 DEF FailCancelled, Cancelled, JobsFit
    <3> QED
      BY <2>3, <3>1 DEF Stopping, StartStop, ListSubmitted, Cancel, Join, AwaitStop
  <2> QED
    BY <2>1, <2>2, <2>3 DEF PoolNext, PoolRestart
<1> QED
  BY <1>1, PoolInvariance, PTL DEF PoolSpec, SettledIsFinal

---------------------------------------------------------------------------
(* The pool implements IngestionService.                                   *)

\* What is lost has no thread and no place in the queue, and no shutdown will fail it.
SlippedFit ==
    \A u \in slipped :
        /\ uploadJob[u] # "none"
        /\ \/ future[u] \in {"none", "finished"}
           \/ future[u] = "cancelled" /\ closed

LEMMA SlippedStep == PoolFits /\ SlippedFit /\ [PoolNext]_poolVars => SlippedFit'
<1> SUFFICES ASSUME PoolFits, SlippedFit, [PoolNext]_poolVars PROVE SlippedFit'
  OBVIOUS
<1> USE DEF PoolFits, PoolTypeOK, SlippedFit, SaveJob, pool, service
<1>1. ASSUME NEW u \in Uploads, CreateJob(u) \/ Submit(u) \/ Refuse(u) PROVE SlippedFit'
  BY <1>1 DEF CreateJob, Submit, Refuse, Handed
<1>2. ASSUME NEW w \in Threads, Take(w) PROVE SlippedFit'
  BY <1>2, Dequeued DEF Take
<1>3. ASSUME NEW w \in Threads, Thread(w) \/ LoseJob(w) PROVE SlippedFit'
  <2>1. CASE LoseJob(w)
    <3>1. uploadJob[work[w]] # "none"
      BY <2>1 DEF LoseJob, JobsFit
    <3> QED
      BY <2>1, <3>1 DEF LoseJob
  <2> QED
    BY <1>2, <1>3, <2>1 DEF Thread, BeginJob, EndJob, RunCallback, FinishItem
<1>4. ASSUME NEW s \in Stoppers, Cancel(s) PROVE SlippedFit'
  <2>1. CASE future' = future
    BY <1>4, <2>1 DEF Cancel
  <2>2. CASE /\ queue # <<>> /\ queue' = Tail(queue)
             /\ future' = [future EXCEPT ![Head(queue)] = "cancelled"]
    BY <1>4, <2>2, Dequeued DEF Cancel
  <2> QED
    BY <1>4, <2>1, <2>2 DEF Cancel
<1>5. ASSUME NEW s \in Stoppers, FailCancelled(s) PROVE SlippedFit'
  <2>1. \A u \in Cancelled(s) : u \in Uploads /\ future[u] = "cancelled" /\ uploadJob[u] # "none"
    BY DEF Cancelled, JobsFit
  <2> QED
    BY <1>5, <2>1 DEF FailCancelled
<1>6. ASSUME NEW s \in Stoppers, StartStop(s) \/ Stopping(s) PROVE SlippedFit'
  BY <1>4, <1>5, <1>6 DEF Stopping, StartStop, ListSubmitted, Join, AwaitStop
<1>7. CASE PoolRestart
  BY <1>7 DEF PoolRestart
<1>8. CASE UNCHANGED poolVars
  BY <1>8 DEF poolVars
<1> QED
  BY <1>1, <1>2, <1>3, <1>6, <1>7, <1>8 DEF PoolNext

LEMMA SlippedInvariance == PoolSpec => [](PoolFits /\ SlippedFit)
<1>1. PoolInit => SlippedFit
  BY DEF PoolInit, SlippedFit
<1> QED
  BY <1>1, SlippedStep, PoolInvariance, PTL DEF PoolSpec

HandedIn == {u \in Uploads : Handed(u)}
LostJobs == {u \in slipped : ~Settled(u)}

\* Where the pool is between two points its promise speaks of, it stutters.
LEMMA Unseen ==
    ASSUME uploadJob' = uploadJob, slipped' = slipped, closing' = closing, closed' = closed,
           \A u \in Uploads : future'[u] = "none" <=> future[u] = "none"
    PROVE  UNCHANGED Promise!vars
  BY DEF Promise!vars, Door, Handed, Settled

LEMMA HandedStays ==
    ASSUME \A u \in Uploads : future'[u] = "none" <=> future[u] = "none"
    PROVE  HandedIn' = HandedIn
  BY DEF HandedIn, Handed

\* A running upload is owed its end; so is one that waits in the queue.
LEMMA RunningOwed ==
    ASSUME PoolFits, SlippedFit, NEW u \in Uploads, future[u] = "running"
    PROVE  u \in Promise!Owed /\ u \notin slipped /\ uploadJob[u] \in {"queued", "running"}
  BY DEF PoolFits, JobsFit, SlippedFit, Promise!Owed, Promise!Ended, Handed, Settled

\* The end of a job that is not lost touches nothing else.
LEMMA EndSeen ==
    ASSUME PoolTypeOK, NEW u \in Uploads, u \notin slipped, NEW status, SaveJob(u, status),
           slipped' = slipped, closing' = closing, closed' = closed,
           \A v \in Uploads : future'[v] = "none" <=> future[v] = "none"
    PROVE  /\ uploadJob' = [uploadJob EXCEPT ![u] = status]
           /\ Door' = Door /\ HandedIn' = HandedIn /\ LostJobs' = LostJobs
<1>1. \A v \in slipped : uploadJob'[v] = uploadJob[v]
  BY DEF SaveJob, PoolTypeOK
<1>2. LostJobs' = LostJobs
  BY <1>1 DEF LostJobs, Settled
<1> QED
  BY <1>2, HandedStays DEF SaveJob, Door

LEMMA ServiceUploads ==
    ASSUME PoolFits, SlippedFit, NEW u \in Uploads, CreateJob(u) \/ Submit(u) \/ Refuse(u)
    PROVE  Promise!Create(u) \/ Promise!Accept(u) \/ Promise!Refuse(u)
<1> USE DEF PoolFits, PoolTypeOK, pool, service
<1>1. ASSUME CreateJob(u) PROVE Promise!Create(u)
  <2>1. u \notin slipped
    BY <1>1 DEF CreateJob, SlippedFit
  <2> QED
    BY <1>1, <2>1, EndSeen DEF CreateJob, Promise!Create, HandedIn, LostJobs
<1>2. ASSUME Submit(u) PROVE Promise!Accept(u)
  <2>1. Promise!Waiting(u) /\ Door = "open"
    BY <1>2 DEF Submit, Promise!Waiting, Handed, Door, StopFits
  <2>2. HandedIn' = HandedIn \cup {u}
    BY <1>2 DEF Submit, HandedIn, Handed
  <2>3. LostJobs' = LostJobs /\ Door' = Door
    BY <1>2 DEF Submit, LostJobs, Settled, Door
  <2> QED
    BY <1>2, <2>1, <2>2, <2>3 DEF Submit, Promise!Accept, HandedIn, LostJobs
<1>3. ASSUME Refuse(u) PROVE Promise!Refuse(u)
  <2>1. Promise!Waiting(u)
    BY <1>3 DEF Refuse, Promise!Waiting, Handed
  <2> QED
    BY <1>3, <2>1, EndSeen DEF Refuse, Promise!Refuse, HandedIn, LostJobs
<1> QED
  BY <1>1, <1>2, <1>3

LEMMA ServiceThreads ==
    ASSUME PoolFits, SlippedFit, NEW w \in Threads, Thread(w) \/ LoseJob(w)
    PROVE  \/ UNCHANGED Promise!vars
           \/ \E u \in Uploads : \/ Promise!Start(u) \/ Promise!Complete(u)
                                 \/ Promise!Fail(u) \/ Promise!Lose(u)
<1> USE DEF PoolFits, PoolTypeOK, pool, service
<1>1. CASE Take(w)
  <2>1. Head(queue) \in Uploads /\ future[Head(queue)] = "pending"
    BY <1>1, Dequeued DEF Take
  <2> QED
    BY <1>1, <2>1, Unseen DEF Take
<1>2. CASE RunCallback(w) \/ FinishItem(w)
  BY <1>2, Unseen DEF RunCallback, FinishItem
<1>3. ASSUME work[w] # NoUpload, future[work[w]] = "running"
      PROVE  /\ work[w] \in Uploads /\ work[w] \in Promise!Owed /\ work[w] \notin slipped
             /\ uploadJob[work[w]] \in {"queued", "running"}
  BY <1>3, RunningOwed
<1>4. CASE BeginJob(w)
  <2>1. Promise!Start(work[w])
    BY <1>3, <1>4, EndSeen DEF BeginJob, Promise!Start, HandedIn, LostJobs
  <2> QED
    BY <1>3, <1>4, <2>1 DEF BeginJob
<1>5. CASE EndJob(w)
  <2> DEFINE u == work[w]
  <2>1. u \in Uploads /\ u \in Promise!Owed /\ u \notin slipped /\ future[u] = "running"
    BY <1>3, <1>5 DEF EndJob
  <2>2. \A v \in Uploads : future'[v] = "none" <=> future[v] = "none"
    BY <1>5, <2>1 DEF EndJob
  <2>3. CASE uploadJob[u] = "running" /\ SaveJob(u, "completed")
    <3>1. Promise!Complete(u)
      BY <1>5, <2>1, <2>2, <2>3, EndSeen DEF EndJob, Promise!Complete, HandedIn, LostJobs
    <3> QED
      BY <2>1, <3>1
  <2>4. CASE SaveJob(u, "failed")
    <3>1. Promise!Fail(u)
      BY <1>5, <2>1, <2>2, <2>4, EndSeen DEF EndJob, Promise!Fail, HandedIn, LostJobs
    <3> QED
      BY <2>1, <3>1
  <2> QED
    BY <1>5, <2>3, <2>4 DEF EndJob
<1>6. CASE LoseJob(w)
  <2> DEFINE u == work[w]
  <2>1. /\ u \in Uploads /\ u \in Promise!Owed /\ ~Settled(u) /\ future[u] = "running"
        /\ slipped' = slipped \cup {u} /\ uploadJob' = uploadJob
    BY <1>3, <1>6 DEF LoseJob, Settled
  <2>2. LostJobs' = LostJobs \cup {u}
    BY <2>1 DEF LostJobs, Settled
  <2>3. HandedIn' = HandedIn /\ Door' = Door
    BY <1>6, <2>1, HandedStays DEF LoseJob, Door
  <2>4. Promise!Lose(u)
    BY <2>1, <2>2, <2>3 DEF Promise!Lose, HandedIn, LostJobs
  <2> QED
    BY <2>1, <2>4
<1> QED
  BY <1>1, <1>2, <1>4, <1>5, <1>6 DEF Thread

\* When the threads are through and the queue is empty, what is owed an end was cancelled and
\* is on the list of the shutdown at work.
LEMMA OwedIsListed ==
    ASSUME PoolFits, SlippedFit, NEW s \in Stoppers, stop[s] = "fail"
    PROVE  Promise!Owed = {u \in Cancelled(s) \ slipped : ~Settled(u)}
<1> USE DEF PoolFits, PoolTypeOK
<1>1. \A u \in Uploads : Handed(u) => future[u] \in {"finished", "cancelled"}
  <2>1. queue = <<>> /\ \A w \in Threads : work[w] = NoUpload
    BY DEF StoppedFits
  <2> QED
    BY <2>1, PoolAssumption DEF QueueFits, WorkFits, PoolPlaces, Handed
<1>2. \A u \in Uploads : future[u] = "finished" => Settled(u) \/ u \in slipped
  BY DEF JobsFit
<1>3. \A t \in Stoppers : stop[t] \in {"cancel", "join", "fail"} => t = s
  BY DEF StopFits, AtStop
<1>4. \A u \in Uploads : future[u] = "cancelled" => Settled(u) \/ u \in slipped \/ u \in listed[s]
  BY <1>3 DEF CancelledFit
<1>5. Promise!Owed = {u \in Uploads : Handed(u) /\ u \notin slipped /\ ~Settled(u)}
  BY DEF Promise!Owed, Promise!Ended, Settled
<1>6. \A u \in listed[s] : u \in Uploads
  OBVIOUS
<1> QED
  BY <1>1, <1>2, <1>4, <1>5, <1>6 DEF Cancelled, Handed

LEMMA ServiceStops ==
    ASSUME PoolFits, SlippedFit, NEW s \in Stoppers, StartStop(s) \/ Stopping(s)
    PROVE  \/ UNCHANGED Promise!vars \/ Promise!Close \/ Promise!Shut
           \/ \E u \in Uploads : Promise!Fail(u)
<1> USE DEF PoolFits, PoolTypeOK, pool, service
<1>1. CASE StartStop(s)
  <2>1. CASE closing
    BY <1>1, <2>1, Unseen DEF StartStop
  <2>2. CASE ~closing
    <3>1. Door = "open" /\ Door' = "closing"
      BY <1>1, <2>2 DEF StartStop, Door, StopFits
    <3>2. HandedIn' = HandedIn /\ LostJobs' = LostJobs
      BY <1>1, HandedStays DEF StartStop, LostJobs, Settled
    <3> QED
      BY <1>1, <3>1, <3>2 DEF StartStop, Promise!Close, HandedIn, LostJobs
  <2> QED
    BY <2>1, <2>2
<1>2. CASE ListSubmitted(s) \/ Join(s) \/ AwaitStop(s)
  BY <1>2, Unseen DEF ListSubmitted, Join, AwaitStop
<1>3. CASE Cancel(s)
  <2>1. CASE future' = future
    BY <1>3, <2>1, Unseen DEF Cancel
  <2>2. CASE /\ queue # <<>> /\ queue' = Tail(queue)
             /\ future' = [future EXCEPT ![Head(queue)] = "cancelled"]
    <3>1. Head(queue) \in Uploads /\ future[Head(queue)] = "pending"
      BY <2>2, Dequeued
    <3> QED
      BY <1>3, <2>2, <3>1, Unseen DEF Cancel
  <2> QED
    BY <1>3, <2>1, <2>2 DEF Cancel
<1>4. CASE FailCancelled(s)
  <2>1. stop[s] = "fail" /\ closing /\ ~closed /\ future' = future /\ closing' = closing
    BY <1>4 DEF FailCancelled, StopFits, AtStop
  <2>2. Promise!Owed = {u \in Cancelled(s) \ slipped : ~Settled(u)}
    BY <2>1, OwedIsListed
  <2>3. \A u \in Cancelled(s) : u \in Uploads /\ future[u] = "cancelled"
                                /\ uploadJob[u] \in {"queued", "failed"} /\ u \notin slipped
    BY <2>1 DEF Cancelled, JobsFit, SlippedFit
  <2>4. ASSUME NEW u \in Cancelled(s), SaveJob(u, "failed"), UNCHANGED <<closed, slipped>>
        PROVE  UNCHANGED Promise!vars \/ Promise!Fail(u)
    <3>1. CASE Settled(u)
      <4>1. uploadJob' = uploadJob
        BY <2>3, <2>4, <3>1 DEF SaveJob, Settled
      <4> QED
        BY <2>1, <2>4, <4>1, Unseen
    <3>2. CASE ~Settled(u)
      BY <2>1, <2>2, <2>3, <2>4, <3>2, EndSeen DEF Promise!Fail, HandedIn, LostJobs
    <3> QED
      BY <3>1, <3>2
  <2>5. ASSUME closed', uploadJob' = uploadJob, slipped' = slipped \cup Cancelled(s)
        PROVE  Promise!Shut
    <3>1. Door = "closing" /\ Door' = "closed"
      BY <2>1, <2>5 DEF Door
    <3>2. \A u \in Promise!Owed : uploadJob[u] = "queued"
      BY <2>2, <2>3 DEF Settled
    <3>3. LostJobs' = LostJobs \cup Promise!Owed
      BY <2>2, <2>3, <2>5 DEF LostJobs, Settled
    <3>4. HandedIn' = HandedIn
      BY <2>1, HandedStays
    <3> QED
      BY <2>5, <3>1, <3>2, <3>3, <3>4 DEF Promise!Shut, HandedIn, LostJobs
  <2>6. CASE Cancelled(s) = {} /\ closed' = TRUE /\ UNCHANGED <<uploadJob, slipped>>
    BY <2>5, <2>6
  <2>7. CASE /\ closed' = TRUE /\ uploadJob' = uploadJob
             /\ slipped' = slipped \cup Cancelled(s)
    BY <2>5, <2>7
  <2> QED
    BY <1>4, <2>3, <2>4, <2>6, <2>7 DEF FailCancelled
<1> QED
  BY <1>1, <1>2, <1>3, <1>4 DEF Stopping

LEMMA ServiceStep == PoolFits /\ SlippedFit /\ [PoolNext]_poolVars => [Promise!Next]_(Promise!vars)
<1> SUFFICES ASSUME PoolFits, SlippedFit, [PoolNext]_poolVars
             PROVE  [Promise!Next]_(Promise!vars)
  OBVIOUS
<1>1. ASSUME NEW u \in Uploads, CreateJob(u) \/ Submit(u) \/ Refuse(u) PROVE Promise!Next
  BY <1>1, ServiceUploads DEF Promise!Next
<1>2. ASSUME NEW w \in Threads, Thread(w) \/ LoseJob(w) PROVE [Promise!Next]_(Promise!vars)
  BY <1>2, ServiceThreads DEF Promise!Next
<1>3. ASSUME NEW s \in Stoppers, StartStop(s) \/ Stopping(s)
      PROVE  [Promise!Next]_(Promise!vars)
  BY <1>3, ServiceStops DEF Promise!Next
<1>4. ASSUME PoolRestart PROVE Promise!Restart
  <2>1. Door' = "open" /\ HandedIn' = {} /\ uploadJob' = uploadJob
    BY <1>4 DEF PoolRestart, Door, HandedIn, Handed
  <2>2. LostJobs' = LostJobs \cup {u \in Uploads : uploadJob[u] # "none" /\ ~Settled(u)}
    BY <1>4 DEF PoolRestart, LostJobs, Settled
  <2> QED
    BY <2>1, <2>2 DEF Promise!Restart, Promise!Ended, Settled, HandedIn, LostJobs
<1>5. CASE UNCHANGED poolVars
  BY <1>5, Unseen DEF poolVars
<1> QED
  BY <1>1, <1>2, <1>3, <1>4, <1>5 DEF PoolNext, Promise!Next

\* Every step of the pool, its threads and its shutdown is a step of IngestionService or none
\* that it sees: an accepted job runs at most once and ends, none is accepted once the
\* shutdown has begun, and the shutdown ends when all have ended.
THEOREM ServiceRefinement == PoolSpec => ImplementsService
<1>1. PoolInit => Promise!Init
  BY DEF PoolInit, Promise!Init, Door, Handed
<1> QED
  BY <1>1, ServiceStep, SlippedInvariance, PTL DEF PoolSpec, ImplementsService, Promise!Spec

---------------------------------------------------------------------------
(* Chunks: parts of the text, joined and cut.                              *)

LEMMA TextFacts ==
  ASSUME NEW from \in Int, NEW to \in Int, from < to, from >= -1
  PROVE  /\ Text(from, to) \in Seq(Nat) /\ Text(from, to) # <<>>
         /\ Len(Text(from, to)) = to - from
         /\ Head(Text(from, to)) = from + 1 /\ Last(Text(from, to)) = to
         /\ \A i \in 1..(to - from) : Text(from, to)[i] = from + i
         /\ Window(Text(from, to))
<1> DEFINE text == Text(from, to)
<1>1. text \in [1..(to - from) -> Nat] /\ to - from \in Nat \ {0}
  BY DEF Text
<1>2. /\ text \in Seq(Nat) /\ Len(text) = to - from
  BY <1>1
<1>3. \A i \in 1..(to - from) : text[i] = from + i
  BY DEF Text
<1>4. text # <<>>
  BY <1>1, <1>2
<1>5. Head(text) = from + 1
  BY <1>1, <1>2, <1>3, <1>4
<1>6. Last(text) = to
  BY <1>1, <1>2, <1>3 DEF Last
<1>7. Window(text)
  BY <1>4, <1>5, <1>6 DEF Window
<1> QED
  BY <1>2, <1>3, <1>4, <1>5, <1>6, <1>7

LEMMA WindowFacts ==
  ASSUME NEW s \in Seq(Nat), Window(s)
  PROVE  /\ Len(s) \in Nat \ {0} /\ s # <<>>
         /\ Head(s) \in Nat /\ Head(s) = s[1] /\ Last(s) \in Nat
         /\ Last(s) = Head(s) + Len(s) - 1
         /\ \A i \in 1..Len(s) : s[i] = Head(s) + i - 1
<1>1. s # <<>> /\ Len(s) \in Nat \ {0}
  BY EmptySeq DEF Window
<1>2. Head(s) = s[1] /\ Head(s) \in Nat /\ Last(s) \in Nat
  BY <1>1, ElementOfSeq DEF Last
<1>3. s = Text(Head(s) - 1, Last(s))
  BY DEF Window
<1> DEFINE h == Head(s) - 1
           l == Last(s)
<1>4. DOMAIN s = 1..(l - h) /\ DOMAIN s = 1..Len(s)
  BY <1>3 DEF Text
<1>5. l - h = Len(s)
  BY <1>1, <1>2, <1>4
<1>6. \A i \in 1..Len(s) : s[i] = h + i
  BY <1>3, <1>5 DEF Text
<1>7. \A i \in 1..Len(s) : s[i] = Head(s) + i - 1
  <2> SUFFICES ASSUME NEW i \in 1..Len(s)
               PROVE  s[i] = Head(s) + i - 1
    OBVIOUS
  <2>1. s[i] = h + i /\ i \in Int
    BY <1>1, <1>6
  <2> QED
    BY <1>2, <2>1
<1>8. Last(s) = Head(s) + Len(s) - 1
  BY <1>1, <1>2, <1>5
<1> QED
  BY <1>1, <1>2, <1>7, <1>8

LEMMA WindowOf ==
  ASSUME NEW s \in Seq(Nat), NEW n \in Nat, NEW h \in Nat, Len(s) = n, n # 0,
         \A i \in 1..n : s[i] = h + i - 1
  PROVE  s # <<>> /\ Window(s) /\ Head(s) = h /\ Last(s) = h + n - 1
<1>1. s # <<>>
  BY EmptySeq
<1>2. Head(s) = h /\ Last(s) = h + n - 1
  BY <1>1 DEF Last
<1>3. PICK f \in Int, l \in Int : f = h - 1 /\ l = h + n - 1
  OBVIOUS
<1>4. /\ Text(f, l) \in Seq(Nat) /\ Len(Text(f, l)) = n
      /\ \A i \in 1..n : Text(f, l)[i] = f + i
  BY <1>3, TextFacts
<1>5. \A i \in 1..n : Text(f, l)[i] = s[i]
  BY <1>3, <1>4
<1>6. s = Text(f, l)
  BY <1>4, <1>5, SeqEqual
<1> QED
  BY <1>1, <1>2, <1>3, <1>6 DEF Window

\* What follows a window directly makes it longer.
LEMMA WindowJoined ==
  ASSUME NEW s \in Seq(Nat), Window(s), NEW to \in Nat, Last(s) < to
  PROVE  LET t == s \o Text(Last(s), to) IN
         /\ t \in Seq(Nat) /\ Window(t) /\ Head(t) = Head(s) /\ Last(t) = to
         /\ Len(t) = Len(s) + to - Last(s)
<1>1. PICK n \in Nat, h \in Nat, l \in Nat : n = Len(s) /\ h = Head(s) /\ l = Last(s) /\ n # 0
  BY WindowFacts
<1>2. l = h + n - 1 /\ l < to /\ \A i \in 1..n : s[i] = h + i - 1
  BY <1>1, WindowFacts
<1> DEFINE e == Text(l, to)
<1>3. /\ e \in Seq(Nat) /\ Len(e) = to - l
      /\ \A i \in 1..to - l : e[i] = l + i
  <2>1. l \in Int /\ to \in Int /\ l < to /\ l >= -1
    BY <1>2
  <2> QED
    BY <2>1, TextFacts
<1> HIDE DEF e
<1> DEFINE t == s \o e
<1>4. PICK m \in Nat : m = n + (to - l) /\ m # 0
  BY <1>1, <1>2
<1>5. /\ t \in Seq(Nat) /\ Len(t) = m
      /\ \A i \in 1..m : t[i] = IF i <= n THEN s[i] ELSE e[i - n]
  <2>1. /\ t \in Seq(Nat) /\ Len(t) = Len(s) + Len(e)
        /\ \A i \in 1..Len(s) + Len(e) : t[i] = IF i <= Len(s) THEN s[i] ELSE e[i - Len(s)]
    BY <1>3, ConcatProperties
  <2>2. Len(s) + Len(e) = m
    BY <1>1, <1>3, <1>4
  <2> HIDE DEF t
  <2> QED
    BY <1>1, <2>1, <2>2
<1> HIDE DEF t
<1>6. \A i \in 1..m : t[i] = h + i - 1
  <2>1. SUFFICES ASSUME NEW i \in Nat, i >= 1, i <= m
                 PROVE  t[i] = h + i - 1
    OBVIOUS
  <2>2. CASE i <= n
    BY <2>1, <2>2, <1>2, <1>5
  <2>3. CASE i > n
    <3>1. i - n \in 1..to - l
      BY <2>1, <2>3, <1>1, <1>2, <1>4
    <3>2. t[i] = e[i - n]
      BY <2>1, <2>3, <1>5
    <3>3. e[i - n] = l + (i - n)
      BY <3>1, <1>3
    <3> QED
      BY <2>1, <3>2, <3>3, <1>2
  <2> QED
    BY <2>2, <2>3
<1>7. t # <<>> /\ Window(t) /\ Head(t) = h /\ Last(t) = h + m - 1
  BY <1>4, <1>5, <1>6, WindowOf
<1>8. s \o Text(Last(s), to) = t
  BY <1>1, Zenon DEF t, e
<1>9. /\ t \in Seq(Nat) /\ Window(t) /\ Head(t) = Head(s) /\ Last(t) = to
      /\ Len(t) = Len(s) + to - Last(s)
  <2>1. h + m - 1 = to /\ m = n + to - l
    BY <1>2, <1>4
  <2> QED
    BY <1>1, <1>5, <1>7, <2>1
<1> QED
  BY <1>8, <1>9

\* A part of a window is one.
LEMMA WindowCut ==
  ASSUME NEW s \in Seq(Nat), Window(s), NEW a \in Nat, NEW b \in Nat, 1 <= a, a <= b, b <= Len(s)
  PROVE  LET t == SubSeq(s, a, b) IN
         /\ t \in Seq(Nat) /\ Window(t) /\ Len(t) = b - a + 1
         /\ Head(t) = Head(s) + a - 1 /\ Last(t) = Head(s) + b - 1
<1>1. PICK n \in Nat, h \in Nat : n = Len(s) /\ h = Head(s) /\ n # 0
  BY WindowFacts
<1>2. \A i \in 1..n : s[i] = h + i - 1
  BY <1>1, WindowFacts
<1> DEFINE t == SubSeq(s, a, b)
<1>3. PICK m \in Nat : m = b - a + 1 /\ m # 0
  OBVIOUS
<1>4. \A i \in a..b : s[i] \in Nat
  BY <1>1, <1>2
<1>5. /\ t \in Seq(Nat) /\ Len(t) = m
      /\ \A i \in 1..m : t[i] = s[a + i - 1]
  BY <1>3, <1>4, SubSeqProperties
<1> HIDE DEF t
<1>6. \A i \in 1..m : t[i] = (h + a - 1) + i - 1
  <2>1. SUFFICES ASSUME NEW i \in Nat, i >= 1, i <= m
                 PROVE  t[i] = (h + a - 1) + i - 1
    OBVIOUS
  <2>2. a + i - 1 \in 1..n
    BY <2>1, <1>1, <1>3
  <2>3. s[a + i - 1] = h + (a + i - 1) - 1
    BY <2>2, <1>2
  <2> QED
    BY <2>1, <2>3, <1>5
<1>7. PICK g \in Nat : g = h + a - 1
  OBVIOUS
<1>8. t # <<>> /\ Window(t) /\ Head(t) = g /\ Last(t) = g + m - 1
  BY <1>3, <1>5, <1>6, <1>7, WindowOf
<1>9. /\ t \in Seq(Nat) /\ Window(t) /\ Len(t) = b - a + 1
      /\ Head(t) = Head(s) + a - 1 /\ Last(t) = Head(s) + b - 1
  BY <1>1, <1>3, <1>5, <1>7, <1>8
<1> QED
  BY <1>9 DEF t

---------------------------------------------------------------------------
(* Lists of chunks and of pieces.                                          *)

Gap(nl, from, to) == \A x \in from + 1 .. to : x \in nl
EndIn(chs, k) == IF k = 0 THEN 0 ELSE Last(chs[k])
EndOfAll(chs) == EndIn(chs, Len(chs))

\* Chunks that cover the text up to where the last one ends.
Covers(chs, nl, n) ==
    \A k \in 1..Len(chs) :
        /\ Len(chs[k]) <= MaxSize /\ Window(chs[k])
        /\ Last(chs[k]) \notin nl /\ Last(chs[k]) <= n
        /\ EndIn(chs, k - 1) < Last(chs[k])
        /\ Gap(nl, EndIn(chs, k - 1), Head(chs[k]) - 1)

\* Pieces of a long paragraph: each goes on where the one before ends.
Adjoin(ps, n) ==
    \A k \in 1..Len(ps) :
        /\ Window(ps[k]) /\ Last(ps[k]) <= n
        /\ k > 1 => Head(ps[k]) = Last(ps[k - 1]) + 1

LEMMA ListFacts ==
  ASSUME NEW ps \in Seq(Seq(Nat))
  PROVE  /\ Len(ps) \in Nat /\ (ps = <<>> <=> Len(ps) = 0)
         /\ \A k \in 1..Len(ps) : ps[k] \in Seq(Nat)
         /\ ps # <<>> => /\ Head(ps) = ps[1] /\ Last(ps) = ps[Len(ps)]
                         /\ Head(ps) \in Seq(Nat) /\ Last(ps) \in Seq(Nat)
<1>1. Len(ps) \in Nat /\ \A k \in 1..Len(ps) : ps[k] \in Seq(Nat)
  BY LenProperties, ElementOfSeq
<1>2. ps = <<>> <=> Len(ps) = 0
  BY EmptySeq
<1>3. ASSUME ps # <<>>
      PROVE  /\ Head(ps) = ps[1] /\ Last(ps) = ps[Len(ps)]
             /\ Head(ps) \in Seq(Nat) /\ Last(ps) \in Seq(Nat)
  BY <1>1, <1>2, <1>3 DEF Last
<1> QED
  BY <1>1, <1>2, <1>3

LEMMA AppendFacts ==
  ASSUME NEW ps \in Seq(Seq(Nat)), NEW p \in Seq(Nat)
  PROVE  /\ Append(ps, p) \in Seq(Seq(Nat)) /\ Append(ps, p) # <<>>
         /\ Len(Append(ps, p)) = Len(ps) + 1
         /\ \A k \in 1..Len(ps) : Append(ps, p)[k] = ps[k]
         /\ Append(ps, p)[Len(ps) + 1] = p
         /\ Last(Append(ps, p)) = p
         /\ Head(Append(ps, p)) = IF ps = <<>> THEN p ELSE Head(ps)
         /\ ps \o <<p>> = Append(ps, p) /\ ps \o <<>> = ps
<1>1. /\ Append(ps, p) \in Seq(Seq(Nat)) /\ Append(ps, p) # <<>>
      /\ Len(Append(ps, p)) = Len(ps) + 1
      /\ \A k \in 1..Len(ps) : Append(ps, p)[k] = ps[k]
      /\ Append(ps, p)[Len(ps) + 1] = p
  BY AppendProperties
<1>2. Last(Append(ps, p)) = p
  BY <1>1, Zenon DEF Last
<1>3. Head(Append(ps, p)) = IF ps = <<>> THEN p ELSE Head(ps)
  BY HeadTailAppend
<1>4. ps \o <<p>> = Append(ps, p) /\ ps \o <<>> = ps
  BY AppendIsConcat, ConcatEmptySeq
<1> QED
  BY <1>1, <1>2, <1>3, <1>4

LEMMA EndIsNat ==
  ASSUME NEW chs \in Seq(Seq(Nat)), NEW nl, NEW n \in Nat, Covers(chs, nl, n)
  PROVE  /\ \A k \in 0..Len(chs) : EndIn(chs, k) \in Nat /\ EndIn(chs, k) <= n
         /\ EndOfAll(chs) \in Nat /\ EndOfAll(chs) <= n
<1>1. ASSUME NEW k \in 0..Len(chs) PROVE EndIn(chs, k) \in Nat /\ EndIn(chs, k) <= n
  <2>1. CASE k = 0
    BY <2>1 DEF EndIn
  <2>2. CASE k # 0
    <3>1. k \in 1..Len(chs) /\ chs[k] \in Seq(Nat)
      BY <2>2, ListFacts
    <3>2. Window(chs[k]) /\ Last(chs[k]) <= n
      BY <3>1 DEF Covers
    <3>3. Last(chs[k]) \in Nat
      BY <3>1, <3>2, WindowFacts
    <3> QED
      BY <2>2, <3>2, <3>3 DEF EndIn
  <2> QED
    BY <2>1, <2>2
<1>2. Len(chs) \in 0..Len(chs)
  BY ListFacts
<1> QED
  BY <1>1, <1>2 DEF EndOfAll

LEMMA CoversNone ==
  ASSUME NEW nl, NEW n
  PROVE  Covers(<<>>, nl, n) /\ EndOfAll(<<>>) = 0
BY EmptySeq DEF Covers, EndOfAll, EndIn

LEMMA CoversAppend ==
  ASSUME NEW chs \in Seq(Seq(Nat)), NEW nl, NEW n \in Nat, Covers(chs, nl, n),
         NEW c \in Seq(Nat), Window(c), Len(c) <= MaxSize, Last(c) \notin nl, Last(c) <= n,
         EndOfAll(chs) < Last(c), Gap(nl, EndOfAll(chs), Head(c) - 1)
  PROVE  Covers(Append(chs, c), nl, n) /\ EndOfAll(Append(chs, c)) = Last(c)
<1> DEFINE all == Append(chs, c)
<1>1. /\ Len(all) = Len(chs) + 1 /\ Len(chs) \in Nat
      /\ \A k \in 1..Len(chs) : all[k] = chs[k]
      /\ all[Len(chs) + 1] = c
  BY AppendFacts, ListFacts
<1> HIDE DEF all
<1>2. \A k \in 0..Len(chs) : EndIn(all, k) = EndIn(chs, k)
  BY <1>1 DEF EndIn
<1>3. ASSUME NEW k \in 1..Len(all)
      PROVE  /\ Len(all[k]) <= MaxSize /\ Window(all[k])
             /\ Last(all[k]) \notin nl /\ Last(all[k]) <= n
             /\ EndIn(all, k - 1) < Last(all[k])
             /\ Gap(nl, EndIn(all, k - 1), Head(all[k]) - 1)
  <2>1. EndIn(all, k - 1) = EndIn(chs, k - 1)
    BY <1>1, <1>2
  <2>2. CASE k \in 1..Len(chs)
    <3>1. all[k] = chs[k]
      BY <2>2, <1>1
    <3>2. /\ Len(chs[k]) <= MaxSize /\ Window(chs[k])
          /\ Last(chs[k]) \notin nl /\ Last(chs[k]) <= n
          /\ EndIn(chs, k - 1) < Last(chs[k])
          /\ Gap(nl, EndIn(chs, k - 1), Head(chs[k]) - 1)
      BY <2>2 DEF Covers
    <3> QED
      BY <2>1, <3>1, <3>2, Zenon
  <2>3. CASE k = Len(chs) + 1
    <3>1. EndIn(chs, k - 1) = EndOfAll(chs)
      BY <2>3, <1>1 DEF EndOfAll
    <3>2. all[k] = c
      BY <2>3, <1>1
    <3> QED
      BY <2>1, <3>1, <3>2, Zenon
  <2> QED
    BY <1>1, <2>2, <2>3
<1>4. EndOfAll(all) = Last(c)
  BY <1>1 DEF EndOfAll, EndIn
<1> QED
  BY <1>3, <1>4 DEF Covers, all

\* A newline behind them changes nothing.
LEMMA CoversFurther ==
  ASSUME NEW chs \in Seq(Seq(Nat)), NEW nl, NEW n \in Nat, Covers(chs, nl, n),
         NEW m \in Nat, n < m
  PROVE  Covers(chs, nl \cup {n + 1}, m)
<1>1. SUFFICES ASSUME NEW k \in 1..Len(chs)
               PROVE  /\ Len(chs[k]) <= MaxSize /\ Window(chs[k])
                      /\ Last(chs[k]) \notin nl \cup {n + 1} /\ Last(chs[k]) <= m
                      /\ EndIn(chs, k - 1) < Last(chs[k])
                      /\ Gap(nl \cup {n + 1}, EndIn(chs, k - 1), Head(chs[k]) - 1)
  BY DEF Covers
<1>2. /\ Len(chs[k]) <= MaxSize /\ Window(chs[k])
      /\ Last(chs[k]) \notin nl /\ Last(chs[k]) <= n
      /\ EndIn(chs, k - 1) < Last(chs[k])
      /\ Gap(nl, EndIn(chs, k - 1), Head(chs[k]) - 1)
  BY DEF Covers
<1>3. Last(chs[k]) \in Nat
  BY <1>2, ListFacts, WindowFacts
<1>4. Last(chs[k]) <= m /\ Last(chs[k]) # n + 1
  BY <1>2, <1>3
<1>5. Gap(nl \cup {n + 1}, EndIn(chs, k - 1), Head(chs[k]) - 1)
  BY <1>2, Zenon DEF Gap
<1> QED
  BY <1>2, <1>4, <1>5

LEMMA CoversLater ==
  ASSUME NEW chs \in Seq(Seq(Nat)), NEW nl, NEW n \in Nat, NEW m \in Nat, n <= m,
         Covers(chs, nl, n)
  PROVE  Covers(chs, nl, m)
<1>1. SUFFICES ASSUME NEW k \in 1..Len(chs)
               PROVE  Last(chs[k]) <= m
  BY Zenon DEF Covers
<1>2. Window(chs[k]) /\ Last(chs[k]) <= n /\ Last(chs[k]) \in Nat
  BY ListFacts, WindowFacts DEF Covers
<1> QED
  BY <1>2

LEMMA AdjoinAppend ==
  ASSUME NEW ps \in Seq(Seq(Nat)), NEW n \in Nat, Adjoin(ps, n),
         NEW p \in Seq(Nat), Window(p), Last(p) <= n,
         ps # <<>> => Head(p) = Last(Last(ps)) + 1
  PROVE  Adjoin(Append(ps, p), n)
<1> DEFINE all == Append(ps, p)
<1>1. PICK m \in Nat : m = Len(ps)
  BY ListFacts
<1>2. /\ Len(all) = m + 1
      /\ \A k \in 1..m : all[k] = ps[k]
      /\ all[m + 1] = p
  BY <1>1, AppendFacts
<1> HIDE DEF all
<1>3. ASSUME NEW k \in 1..Len(all)
      PROVE  Window(all[k]) /\ Last(all[k]) <= n /\ (k > 1 => Head(all[k]) = Last(all[k - 1]) + 1)
  <2>1. CASE k \in 1..m
    <3>1. all[k] = ps[k]
      BY <2>1, <1>2
    <3>2. ASSUME k > 1 PROVE all[k - 1] = ps[k - 1]
      <4>1. k - 1 \in 1..m
        BY <2>1, <3>2
      <4> QED
        BY <4>1, <1>2
    <3>3. Window(ps[k]) /\ Last(ps[k]) <= n /\ (k > 1 => Head(ps[k]) = Last(ps[k - 1]) + 1)
      BY <1>1, <2>1 DEF Adjoin
    <3> QED
      BY <3>1, <3>2, <3>3, Zenon
  <2>2. CASE k = m + 1
    <3>1. all[k] = p
      BY <2>2, <1>2
    <3>2. ASSUME k > 1 PROVE all[k - 1] = Last(ps) /\ ps # <<>>
      <4>1. k - 1 = m /\ m \in 1..m /\ m # 0
        BY <2>2, <3>2
      <4>2. all[m] = ps[m] /\ ps # <<>>
        BY <4>1, <1>1, <1>2, ListFacts
      <4> QED
        BY <4>1, <4>2, <1>1 DEF Last
    <3> QED
      BY <3>1, <3>2, Zenon
  <2> QED
    BY <1>2, <2>1, <2>2
<1> QED
  BY <1>3 DEF Adjoin, all

LEMMA AdjoinLater ==
  ASSUME NEW ps \in Seq(Seq(Nat)), NEW n \in Nat, NEW m \in Nat, n <= m, Adjoin(ps, n)
  PROVE  Adjoin(ps, m)
<1>1. SUFFICES ASSUME NEW k \in 1..Len(ps)
               PROVE  Last(ps[k]) <= m
  BY Zenon DEF Adjoin
<1>2. Window(ps[k]) /\ Last(ps[k]) <= n /\ Last(ps[k]) \in Nat
  BY ListFacts, WindowFacts DEF Adjoin
<1> QED
  BY <1>2

LEMMA AdjoinTail ==
  ASSUME NEW ps \in Seq(Seq(Nat)), NEW n, ps # <<>>, Adjoin(ps, n)
  PROVE  /\ Tail(ps) \in Seq(Seq(Nat)) /\ Adjoin(Tail(ps), n)
         /\ Tail(ps) = <<>> => Last(ps) = Head(ps)
         /\ Tail(ps) # <<>> => /\ Last(Tail(ps)) = Last(ps)
                               /\ Head(Head(Tail(ps))) = Last(Head(ps)) + 1
<1> DEFINE more == Tail(ps)
<1>1. PICK m \in Nat : m = Len(ps) /\ m # 0
  BY ListFacts
<1>2. /\ more \in Seq(Seq(Nat)) /\ Len(more) = m - 1
      /\ \A k \in 1..m - 1 : more[k] = ps[k + 1]
  BY <1>1, HeadTailProperties
<1> HIDE DEF more
<1>3. ASSUME NEW k \in 1..Len(more)
      PROVE  /\ Window(more[k]) /\ Last(more[k]) <= n
             /\ k > 1 => Head(more[k]) = Last(more[k - 1]) + 1
  <2>1. k \in Nat /\ k + 1 \in 1..m /\ k + 1 > 1 /\ (k + 1) - 1 = k
    BY <1>1, <1>2
  <2>2. Window(ps[k + 1]) /\ Last(ps[k + 1]) <= n /\ Head(ps[k + 1]) = Last(ps[k]) + 1
    BY <1>1, <2>1 DEF Adjoin
  <2>3. more[k] = ps[k + 1] /\ (k > 1 => more[k - 1] = ps[k])
    BY <1>2, <2>1
  <2> QED
    BY <2>2, <2>3, Zenon
<1>4. ASSUME more = <<>> PROVE Last(ps) = Head(ps)
  <2>1. m = 1
    BY <1>1, <1>2, <1>4, ListFacts
  <2> QED
    BY <1>1, <2>1, ListFacts
<1>5. ASSUME more # <<>>
      PROVE  Last(more) = Last(ps) /\ Head(Head(more)) = Last(Head(ps)) + 1
  <2>1. m > 1
    BY <1>1, <1>2, <1>5, ListFacts
  <2>2. Head(more) = ps[2] /\ Head(ps) = ps[1] /\ Last(more) = ps[m] /\ Last(ps) = ps[m]
    <3>1. Head(more) = more[1] /\ Last(more) = more[m - 1]
      BY <1>2, <1>5, ListFacts
    <3>2. Head(ps) = ps[1] /\ Last(ps) = ps[m]
      BY <1>1, ListFacts
    <3>3. more[1] = ps[1 + 1] /\ more[m - 1] = ps[(m - 1) + 1] /\ (m - 1) + 1 = m
      BY <1>2, <2>1
    <3> QED
      BY <3>1, <3>2, <3>3
  <2>3. Head(ps[2]) = Last(ps[1]) + 1
    BY <1>1, <2>1 DEF Adjoin
  <2> QED
    BY <2>2, <2>3, Zenon
<1> QED
  BY <1>2, <1>3, <1>4, <1>5 DEF Adjoin, more

---------------------------------------------------------------------------
(* The text that is cut: what the loops of chunk_text have read and kept.  *)

Spaced(nl) == \A x \in nl : x + 1 \notin nl

\* A chunk that is being filled goes on where the full ones end and ends where one reads.
Goes(c, chs, nl, n) ==
    /\ Window(c) /\ Len(c) <= MaxSize /\ Last(c) = n
    /\ EndOfAll(chs) < n /\ Gap(nl, EndOfAll(chs), Head(c) - 1)

InParagraphs ==
    loop = "paragraphs" =>
        /\ sentences = <<>> /\ piece = <<>> /\ pieces = <<>> /\ cutAt = 0
        /\ read \notin newlines
        /\ IF current = <<>> THEN EndOfAll(chunks) = read ELSE Goes(current, chunks, newlines, read)

\* Where the first piece begins, as far as it is not cut off.
PieceStart ==
    IF pieces # <<>> THEN Head(Head(pieces)) - 1 + cutAt
    ELSE IF piece # <<>> THEN Head(piece) - 1 ELSE read

Meets(chs, nl, from) ==
    /\ EndOfAll(chs) <= from /\ Gap(nl, EndOfAll(chs), from)
    /\ \A x \in nl : x <= from

InSentences ==
    loop = "sentences" =>
        /\ current = <<>> /\ cutAt = 0
        /\ Adjoin(pieces, read) /\ Meets(chunks, newlines, PieceStart)
        /\ \A k \in 1..Len(sentences) :
              sentences[k] > (IF k = 1 THEN read ELSE sentences[k - 1])
        /\ piece = <<>> => pieces = <<>> /\ sentences # <<>>
        /\ piece # <<>> => Window(piece) /\ Last(piece) = read /\ read \notin newlines
        /\ piece # <<>> /\ pieces # <<>> => Head(piece) = Last(Last(pieces)) + 1

InPieces ==
    loop = "pieces" =>
        /\ current = <<>> /\ sentences = <<>> /\ piece = <<>> /\ read \notin newlines
        /\ pieces = <<>> => cutAt = 0 /\ EndOfAll(chunks) = read
        /\ pieces # <<>> => /\ cutAt < Len(Head(pieces)) /\ Last(Last(pieces)) = read
                            /\ Adjoin(pieces, read) /\ Meets(chunks, newlines, PieceStart)

ChunkerFits ==
    /\ ChunkerTypeOK /\ Spaced(newlines)
    /\ loop # "returned" => Covers(chunks, newlines, read)
    /\ InParagraphs /\ InSentences /\ InPieces /\ ChunksAreWindows

LEMMA ChunkerInitFits == ChunkerInit => ChunkerFits
<1> SUFFICES ASSUME ChunkerInit PROVE ChunkerFits
  OBVIOUS
<1>1. ChunkerTypeOK
  <2>1. rest \in Seq(Paragraphs)
    BY DEF ChunkerInit, BoundedSeq, SeqOf
  <2> QED
    BY <2>1, EmptySeq DEF ChunkerInit, ChunkerTypeOK
<1>2. Covers(chunks, newlines, read) /\ EndOfAll(chunks) = 0
  BY CoversNone DEF ChunkerInit
<1>3. InParagraphs
  BY <1>2 DEF ChunkerInit, InParagraphs
<1> QED
  BY <1>1, <1>2, <1>3
  DEF ChunkerInit, ChunkerFits, Spaced, InSentences, InPieces, ChunksAreWindows

\* At the end of a paragraph, with the chunk that is being filled, nothing is left out.
LEMMA PutAway ==
  ASSUME ChunkerFits, loop = "paragraphs"
  PROVE  LET all == chunks \o OrNone(current) IN
         all \in Seq(Seq(Nat)) /\ Covers(all, newlines, read) /\ EndOfAll(all) = read
<1>1. /\ chunks \in Seq(Seq(Nat)) /\ current \in Seq(Nat) /\ read \in Nat
      /\ Covers(chunks, newlines, read) /\ read \notin newlines
      /\ IF current = <<>> THEN EndOfAll(chunks) = read ELSE Goes(current, chunks, newlines, read)
  BY DEF ChunkerFits, ChunkerTypeOK, InParagraphs
<1>2. CASE current = <<>>
  <2>1. chunks \o OrNone(current) = chunks
    BY <1>1, <1>2, ConcatEmptySeq DEF OrNone
  <2> QED
    BY <1>1, <1>2, <2>1, Zenon
<1>3. CASE current # <<>>
  <2>1. chunks \o OrNone(current) = Append(chunks, current)
    BY <1>1, <1>3, AppendFacts DEF OrNone
  <2>2. Append(chunks, current) \in Seq(Seq(Nat))
    BY <1>1, AppendFacts
  <2>3. /\ Window(current) /\ Len(current) <= MaxSize /\ Last(current) = read
        /\ EndOfAll(chunks) < read /\ Gap(newlines, EndOfAll(chunks), Head(current) - 1)
    BY <1>1, <1>3 DEF Goes
  <2>4. Last(current) <= read /\ Last(current) \notin newlines /\ EndOfAll(chunks) < Last(current)
    BY <1>1, <2>3
  <2>5. /\ Covers(Append(chunks, current), newlines, read)
        /\ EndOfAll(Append(chunks, current)) = Last(current)
    BY <1>1, <2>3, <2>4, CoversAppend
  <2> QED
    BY <2>1, <2>2, <2>3, <2>5, Zenon
<1> QED
  BY <1>2, <1>3

\* A paragraph that is taken brings its newline.
LEMMA Taken ==
  ASSUME ChunkerFits, NEW paragraph, TakeParagraph(paragraph)
  PROVE  /\ rest' \in Seq(Paragraphs) /\ loop = "paragraphs"
         /\ paragraph \in Seq(Nat \ {0}) /\ paragraph # <<>> /\ paragraph \in Paragraphs
         /\ Size(paragraph) \in Nat \ {0}
         /\ newlines' = newlines \cup {read + 1} /\ newlines' \subseteq 1..(read + 1)
         /\ Spaced(newlines') /\ read \in Nat
         /\ \A x \in newlines : x <= read
<1>1. /\ rest \in Seq(Paragraphs) /\ rest # <<>> /\ rest' = Tail(rest) /\ paragraph = Head(rest)
      /\ loop = "paragraphs" /\ newlines' = newlines \cup {read + 1}
      /\ read \in Nat /\ newlines \subseteq 1..read /\ Spaced(newlines) /\ read \notin newlines
  BY DEF ChunkerFits, ChunkerTypeOK, InParagraphs, TakeParagraph
<1>2. rest' \in Seq(Paragraphs) /\ paragraph \in Paragraphs
  BY <1>1, HeadTailProperties
<1>3. paragraph \in Seq(Nat \ {0}) /\ paragraph # <<>>
  BY <1>2, ChunkerAssumption
<1>4. Size(paragraph) \in Nat \ {0}
  <2>1. Len(paragraph) \in Nat \ {0}
    BY <1>3, EmptySeq
  <2>2. paragraph[Len(paragraph)] \in Nat \ {0}
    BY <1>3, <2>1, ElementOfSeq
  <2> QED
    BY <2>2 DEF Size, Last
<1>5. newlines' \subseteq 1..(read + 1)
  BY <1>1
<1>6. Spaced(newlines')
  <2>1. SUFFICES ASSUME NEW x \in newlines \cup {read + 1}
                 PROVE  x + 1 \notin newlines \cup {read + 1}
    BY <1>1 DEF Spaced
  <2>2. CASE x \in newlines
    BY <1>1, <2>2 DEF Spaced
  <2>3. CASE x = read + 1
    BY <1>1, <2>3
  <2> QED
    BY <2>2, <2>3
<1>7. \A x \in newlines : x <= read
  BY <1>1
<1> QED
  BY <1>1, <1>2, <1>3, <1>4, <1>5, <1>6, <1>7

LEMMA LongParagraphKeeps ==
  ASSUME ChunkerFits, NEW paragraph \in Paragraphs, LongParagraph(paragraph)
  PROVE  ChunkerFits'
<1>1. /\ rest' \in Seq(Paragraphs) /\ loop = "paragraphs"
      /\ paragraph \in Seq(Nat \ {0}) /\ paragraph # <<>>
      /\ newlines' = newlines \cup {read + 1} /\ newlines' \subseteq 1..(read + 1)
      /\ Spaced(newlines') /\ read \in Nat /\ \A x \in newlines : x <= read
  BY Taken DEF LongParagraph
<1>2. /\ chunks' = chunks \o OrNone(current) /\ current' = <<>>
      /\ sentences' = [k \in 1..Len(paragraph) |-> read + 1 + paragraph[k]]
      /\ read' = read + 1 /\ loop' = "sentences"
      /\ piece' = piece /\ pieces' = pieces /\ cutAt' = cutAt
  BY DEF LongParagraph
<1>3. piece = <<>> /\ pieces = <<>> /\ cutAt = 0
  BY <1>1 DEF ChunkerFits, InParagraphs
<1>4. /\ chunks' \in Seq(Seq(Nat)) /\ Covers(chunks', newlines, read) /\ EndOfAll(chunks') = read
  BY <1>1, <1>2, PutAway, Zenon
<1>5. /\ sentences' \in Seq(Nat) /\ Len(sentences') = Len(paragraph)
      /\ \A k \in 1..Len(paragraph) : sentences'[k] = read + 1 + paragraph[k]
      /\ sentences' # <<>>
  <2>1. PICK n \in Nat : n = Len(paragraph) /\ n # 0
    BY <1>1, EmptySeq
  <2>2. \A k \in 1..n : paragraph[k] \in Nat
    BY <1>1, <2>1, ElementOfSeq
  <2>3. sentences' \in [1..n -> Nat]
    BY <1>1, <1>2, <2>1, <2>2
  <2> QED
    <3>1. sentences' \in Seq(Nat) /\ Len(sentences') = n
      BY <2>1, <2>3
    <3>2. sentences' # <<>>
      BY <2>1, <3>1, EmptySeq
    <3> QED
      BY <1>2, <2>1, <3>1, <3>2
<1>6. ChunkerTypeOK'
  BY <1>1, <1>2, <1>3, <1>4, <1>5, EmptySeq DEF ChunkerTypeOK
<1>7. Covers(chunks', newlines', read')
  <2>1. read + 1 \in Nat /\ read < read + 1
    BY <1>1
  <2>2. Covers(chunks', newlines \cup {read + 1}, read + 1)
    BY <1>1, <1>4, <2>1, CoversFurther
  <2> QED
    BY <1>1, <1>2, <2>2, Zenon
<1>8. InSentences'
  <2>1. Adjoin(pieces', read') /\ PieceStart' = read + 1
    BY <1>2, <1>3, EmptySeq DEF Adjoin, PieceStart
  <2>2. Gap(newlines', read, read + 1)
    BY <1>1 DEF Gap
  <2>3. \A x \in newlines' : x <= read + 1
    BY <1>1
  <2>4. Meets(chunks', newlines', read + 1)
    BY <1>1, <1>2, <1>4, <2>2, <2>3 DEF Meets
  <2>5. \A k \in 1..Len(sentences') :
            sentences'[k] > (IF k = 1 THEN read' ELSE sentences'[k - 1])
    <3>1. SUFFICES ASSUME NEW k \in 1..Len(paragraph)
                   PROVE  sentences'[k] > (IF k = 1 THEN read + 1 ELSE sentences'[k - 1])
      BY <1>2, <1>5
    <3>2. sentences'[k] = read + 1 + paragraph[k] /\ paragraph[k] \in Nat \ {0}
      BY <1>1, <1>5, ElementOfSeq
    <3>3. CASE k = 1
      BY <1>1, <3>2, <3>3
    <3>4. CASE k # 1
      <4>1. PICK j \in 1..Len(paragraph) : j = k - 1 /\ j \in 1..Len(paragraph) - 1 /\ k = j + 1
        BY <1>1, <3>4, LenProperties
      <4>2. paragraph[j] < paragraph[k] /\ paragraph[j] \in Nat
        BY <1>1, <4>1, ChunkerAssumption, ElementOfSeq
      <4>3. sentences'[j] = read + 1 + paragraph[j]
        BY <1>5, <4>1
      <4> QED
        BY <1>1, <3>2, <3>4, <4>1, <4>2, <4>3
    <3> QED
      BY <3>3, <3>4
  <2> QED
    <3>1. Adjoin(pieces', read') /\ Meets(chunks', newlines', PieceStart')
      BY <2>1, <2>4, Zenon
    <3>2. piece' = <<>> /\ pieces' = <<>> /\ cutAt' = 0 /\ current' = <<>>
      BY <1>2, <1>3
    <3> QED
      BY <1>5, <2>5, <3>1, <3>2, Zenon DEF InSentences
<1>9. InParagraphs' /\ InPieces' /\ ChunksAreWindows'
  BY <1>2 DEF InParagraphs, InPieces, ChunksAreWindows
<1> QED
  BY <1>1, <1>6, <1>7, <1>8, <1>9 DEF ChunkerFits

LEMMA ParagraphKept ==
  ASSUME ChunkerFits, NEW paragraph \in Paragraphs, TakeParagraph(paragraph),
         FitsChunk(paragraph),
         read' = read + 1 + Size(paragraph), UNCHANGED <<loop, long>>,
         chunks' \in Seq(Seq(Nat)), current' \in Seq(Nat), current' # <<>>,
         Covers(chunks', newlines, read), Goes(current', chunks', newlines', read')
  PROVE  ChunkerFits'
<1>1. /\ rest' \in Seq(Paragraphs) /\ loop = "paragraphs" /\ Size(paragraph) \in Nat \ {0}
      /\ newlines' = newlines \cup {read + 1} /\ newlines' \subseteq 1..(read + 1)
      /\ Spaced(newlines') /\ read \in Nat /\ \A x \in newlines : x <= read
  BY Taken
<1>2. /\ loop' = loop /\ sentences' = sentences /\ piece' = piece /\ pieces' = pieces
      /\ cutAt' = cutAt
  BY DEF long
<1>3. sentences = <<>> /\ piece = <<>> /\ pieces = <<>> /\ cutAt = 0
  BY <1>1 DEF ChunkerFits, InParagraphs
<1>4. PICK n \in Nat : n = read + 1 + Size(paragraph) /\ read < n /\ read + 1 < n
  BY <1>1
<1>5. read' = n /\ newlines' \subseteq 1..n /\ read' \notin newlines'
  BY <1>1, <1>4
<1>6. ChunkerTypeOK'
  BY <1>1, <1>2, <1>3, <1>5, EmptySeq DEF ChunkerTypeOK
<1>7. Covers(chunks', newlines', read')
  BY <1>1, <1>4, <1>5, CoversFurther
<1>8. InParagraphs'
  BY <1>2, <1>3, <1>5 DEF InParagraphs
<1>9. InSentences' /\ InPieces' /\ ChunksAreWindows'
  BY <1>1, <1>2 DEF InSentences, InPieces, ChunksAreWindows
<1> QED
  BY <1>1, <1>6, <1>7, <1>8, <1>9 DEF ChunkerFits

\* The letters of a paragraph, behind its newline or without it.
LEMMA LettersFit ==
  ASSUME NEW paragraph, Size(paragraph) \in Nat \ {0}, read \in Nat
  PROVE  /\ Letters(paragraph) \in Seq(Nat) /\ Letters(paragraph) # <<>>
         /\ Window(Letters(paragraph)) /\ Len(Letters(paragraph)) = Size(paragraph)
         /\ Head(Letters(paragraph)) = read + 2
         /\ Last(Letters(paragraph)) = read + 1 + Size(paragraph)
<1>1. PICK f \in Nat, l \in Nat : f = read + 1 /\ l = read + 1 + Size(paragraph)
  <2>1. read + 1 \in Nat /\ read + 1 + Size(paragraph) \in Nat
    OBVIOUS
  <2> QED
    BY <2>1, Zenon
<1>2. f \in Int /\ l \in Int /\ f < l /\ f >= -1 /\ l - f = Size(paragraph) /\ f + 1 = read + 2
  BY <1>1
<1>3. /\ Text(f, l) \in Seq(Nat) /\ Text(f, l) # <<>> /\ Len(Text(f, l)) = l - f
      /\ Head(Text(f, l)) = f + 1 /\ Last(Text(f, l)) = l /\ Window(Text(f, l))
  BY <1>2, TextFacts
<1>4. Letters(paragraph) = Text(f, l)
  BY <1>1, Zenon DEF Letters
<1> QED
  BY <1>1, <1>2, <1>3, <1>4

LEMMA JoinedFit ==
  ASSUME NEW paragraph, Size(paragraph) \in Nat \ {0}, read \in Nat,
         NEW c \in Seq(Nat), Window(c), Last(c) = read
  PROVE  LET t == (c \o Newline) \o Letters(paragraph) IN
         /\ t \in Seq(Nat) /\ t # <<>> /\ Window(t)
         /\ Len(t) = Len(c) + 1 + Size(paragraph)
         /\ Head(t) = Head(c) /\ Last(t) = read + 1 + Size(paragraph)
<1>1. PICK f \in Nat, l \in Nat : f = read + 1 /\ l = read + 1 + Size(paragraph)
  <2>1. read + 1 \in Nat /\ read + 1 + Size(paragraph) \in Nat
    OBVIOUS
  <2> QED
    BY <2>1, Zenon
<1>2. f < l /\ read < f /\ l - f = Size(paragraph)
  BY <1>1
<1>3. Newline = Text(read, f)
  <2>1. Text(read, f) = [i \in 1..1 |-> read + i]
    BY <1>1 DEF Text
  <2>2. Newline \in [1..1 -> Nat] /\ Newline[1] = read + 1
    BY DEF Newline
  <2>3. \A i \in 1..1 : Newline[i] = read + i
    BY <2>2
  <2> QED
    BY <1>1, <2>1, <2>2, <2>3
<1> DEFINE d == c \o Text(read, f)
<1>4. d \in Seq(Nat) /\ Window(d) /\ Head(d) = Head(c) /\ Last(d) = f /\ Len(d) = Len(c) + f - read
  <2>1. Last(c) < f
    BY <1>2
  <2>2. LET t == c \o Text(Last(c), f) IN
        t \in Seq(Nat) /\ Window(t) /\ Head(t) = Head(c) /\ Last(t) = f
        /\ Len(t) = Len(c) + f - Last(c)
    BY <2>1, WindowJoined
  <2> QED
    BY <2>2, Zenon
<1> DEFINE e == d \o Text(f, l)
<1> HIDE DEF d
<1>5. e \in Seq(Nat) /\ Window(e) /\ Head(e) = Head(d) /\ Last(e) = l /\ Len(e) = Len(d) + l - f
  <2>1. Last(d) < l
    BY <1>2, <1>4
  <2>2. LET t == d \o Text(Last(d), l) IN
        t \in Seq(Nat) /\ Window(t) /\ Head(t) = Head(d) /\ Last(t) = l
        /\ Len(t) = Len(d) + l - Last(d)
    BY <1>4, <2>1, WindowJoined
  <2> QED
    BY <1>4, <2>2, Zenon
<1>6. (c \o Newline) \o Letters(paragraph) = e
  <2>1. Letters(paragraph) = Text(f, l)
    BY <1>1, Zenon DEF Letters
  <2> QED
    BY <1>3, <2>1, Zenon DEF d, e
<1> HIDE DEF e
<1>7. Len(c) \in Nat
  BY WindowFacts
<1>8. /\ e \in Seq(Nat) /\ e # <<>> /\ Window(e)
      /\ Len(e) = Len(c) + 1 + Size(paragraph)
      /\ Head(e) = Head(c) /\ Last(e) = read + 1 + Size(paragraph)
  BY <1>1, <1>2, <1>4, <1>5, <1>7 DEF Window
<1> QED
  BY <1>6, <1>8, Zenon

LEMMA NextChunkKeeps ==
  ASSUME ChunkerFits, NEW paragraph \in Paragraphs, NextChunk(paragraph)
  PROVE  ChunkerFits'
<1>1. /\ loop = "paragraphs" /\ Size(paragraph) \in Nat \ {0}
      /\ newlines' = newlines \cup {read + 1} /\ read \in Nat /\ \A x \in newlines : x <= read
  BY Taken DEF NextChunk
<1>2. PICK n \in Nat, o \in Nat :
          /\ n = Len(current) /\ o = Overlap
          /\ current # <<>> /\ n # 0 /\ current \in Seq(Nat) /\ Window(current)
          /\ Last(current) = read /\ Size(paragraph) <= MaxSize /\ MaxSize \in Nat
          /\ chunks' = Append(chunks, current)
          /\ read' = read + 1 + Size(paragraph)
  <2>1. current # <<>> /\ current \in Seq(Nat) /\ Goes(current, chunks, newlines, read)
    BY <1>1 DEF NextChunk, Overflows, ChunkerFits, ChunkerTypeOK, InParagraphs
  <2>2. Window(current) /\ Last(current) = read
    BY <2>1 DEF Goes
  <2> QED
    BY <2>1, <2>2, WindowFacts, ChunkerAssumption DEF NextChunk, FitsChunk
<1>3. chunks' \in Seq(Seq(Nat)) /\ Covers(chunks', newlines, read) /\ EndOfAll(chunks') = read
  <2>1. chunks \o OrNone(current) = chunks'
    BY <1>2, AppendFacts DEF OrNone, ChunkerFits, ChunkerTypeOK
  <2> QED
    BY <1>1, <2>1, PutAway, Zenon
<1> DEFINE tail == SubSeq(current, Len(current) - Overlap + 1, Len(current))
<1>4. CASE Overlap > 0 /\ Len(current) > Overlap /\ Overlap + 1 + Size(paragraph) <= MaxSize
  <2>1. PICK a \in Nat : a = n - o + 1 /\ 1 <= a /\ a <= n /\ n - a + 1 = o
    <3>1. o > 0 /\ n > o
      BY <1>2, <1>4
    <3>2. /\ n - o + 1 \in Nat /\ 1 <= n - o + 1 /\ n - o + 1 <= n
          /\ n - (n - o + 1) + 1 = o
      BY <3>1
    <3> QED
      BY <3>2
  <2>2. /\ SubSeq(current, a, n) \in Seq(Nat) /\ Window(SubSeq(current, a, n))
        /\ Len(SubSeq(current, a, n)) = n - a + 1
        /\ Last(SubSeq(current, a, n)) = Head(current) + n - 1
        /\ Head(SubSeq(current, a, n)) = Head(current) + a - 1
    <3>1. current \in Seq(Nat) /\ Window(current) /\ n <= Len(current)
      BY <1>2
    <3>2. LET t == SubSeq(current, a, n) IN
          /\ t \in Seq(Nat) /\ Window(t) /\ Len(t) = n - a + 1
          /\ Head(t) = Head(current) + a - 1 /\ Last(t) = Head(current) + n - 1
      BY <2>1, <3>1, WindowCut
    <3> QED
      BY <3>2, Zenon
  <2>3. tail = SubSeq(current, a, n)
    BY <1>2, <2>1
  <2>4. /\ tail \in Seq(Nat) /\ Window(tail) /\ Len(tail) = o
        /\ Last(tail) = read /\ Head(tail) \in Nat /\ Head(tail) <= read
    <3>1. read = Head(current) + n - 1 /\ Head(current) \in Nat
      BY <1>2, WindowFacts
    <3>2. Last(tail) = read /\ Len(tail) = o /\ tail \in Seq(Nat) /\ Window(tail)
      BY <2>1, <2>2, <2>3, <3>1
    <3>3. Head(tail) = Head(current) + a - 1
      BY <2>2, <2>3
    <3>4. Head(current) + a - 1 \in Nat /\ Head(current) + a - 1 <= read
      BY <2>1, <3>1
    <3> QED
      BY <3>2, <3>3, <3>4
  <2> HIDE DEF tail
  <2> DEFINE t == (tail \o Newline) \o Letters(paragraph)
  <2>5. /\ t \in Seq(Nat) /\ t # <<>> /\ Window(t)
        /\ Len(t) = Len(tail) + 1 + Size(paragraph)
        /\ Head(t) = Head(tail) /\ Last(t) = read + 1 + Size(paragraph)
    BY <1>1, <2>4, JoinedFit
  <2>6. current' = t
    BY <1>4 DEF NextChunk, tail
  <2> HIDE DEF t
  <2>7. Goes(t, chunks', newlines', read')
    <3>1. Gap(newlines', read, Head(t) - 1)
      BY <1>1, <2>4, <2>5 DEF Gap
    <3>2. Len(t) <= MaxSize
      BY <1>2, <1>4, <2>4, <2>5
    <3>3. EndOfAll(chunks') < read' /\ Last(t) = read'
      BY <1>1, <1>2, <1>3, <2>5
    <3> QED
      BY <1>3, <2>5, <3>1, <3>2, <3>3, Zenon DEF Goes
  <2> QED
    BY <1>2, <1>3, <2>5, <2>6, <2>7, ParagraphKept DEF NextChunk
<1>5. CASE ~(Overlap > 0 /\ Len(current) > Overlap /\ Overlap + 1 + Size(paragraph) <= MaxSize)
  <2> DEFINE t == Letters(paragraph)
  <2>1. current' = t
    BY <1>5 DEF NextChunk
  <2>2. /\ t \in Seq(Nat) /\ t # <<>> /\ Window(t) /\ Len(t) = Size(paragraph)
        /\ Head(t) = read + 2 /\ Last(t) = read + 1 + Size(paragraph)
    BY <1>1, LettersFit
  <2> HIDE DEF t
  <2>3. Goes(t, chunks', newlines', read')
    <3>1. Gap(newlines', read, Head(t) - 1)
      BY <1>1, <2>2 DEF Gap
    <3>2. Len(t) <= MaxSize
      BY <1>2, <2>2
    <3>3. EndOfAll(chunks') < read' /\ Last(t) = read'
      BY <1>1, <1>2, <1>3, <2>2
    <3> QED
      BY <1>3, <2>2, <3>1, <3>2, <3>3, Zenon DEF Goes
  <2> QED
    BY <1>2, <1>3, <2>1, <2>2, <2>3, ParagraphKept DEF NextChunk
<1> QED
  BY <1>4, <1>5

LEMMA JoinParagraphKeeps ==
  ASSUME ChunkerFits, NEW paragraph \in Paragraphs, JoinParagraph(paragraph)
  PROVE  ChunkerFits'
<1>1. /\ loop = "paragraphs" /\ Size(paragraph) \in Nat \ {0}
      /\ newlines' = newlines \cup {read + 1} /\ read \in Nat /\ \A x \in newlines : x <= read
  BY Taken DEF JoinParagraph
<1>2. /\ chunks \in Seq(Seq(Nat)) /\ current \in Seq(Nat) /\ Covers(chunks, newlines, read)
      /\ IF current = <<>> THEN EndOfAll(chunks) = read ELSE Goes(current, chunks, newlines, read)
      /\ chunks' = chunks /\ read' = read + 1 + Size(paragraph)
      /\ current' = (IF current = <<>> THEN <<>> ELSE current \o Newline) \o Letters(paragraph)
      /\ Size(paragraph) <= MaxSize /\ MaxSize \in Nat
  BY <1>1, ChunkerAssumption
  DEF JoinParagraph, FitsChunk, ChunkerFits, ChunkerTypeOK, InParagraphs
<1>3. /\ Letters(paragraph) \in Seq(Nat) /\ Letters(paragraph) # <<>>
      /\ Window(Letters(paragraph)) /\ Len(Letters(paragraph)) = Size(paragraph)
      /\ Head(Letters(paragraph)) = read + 2
      /\ Last(Letters(paragraph)) = read + 1 + Size(paragraph)
  BY <1>1, LettersFit
<1>4. CASE current = <<>>
  <2> DEFINE t == Letters(paragraph)
  <2>1. current' = t
    BY <1>2, <1>3, <1>4, ConcatEmptySeq
  <2> HIDE DEF t
  <2>2. /\ t \in Seq(Nat) /\ t # <<>> /\ Window(t) /\ Len(t) = Size(paragraph)
        /\ Head(t) = read + 2 /\ Last(t) = read + 1 + Size(paragraph)
    BY <1>3 DEF t
  <2>3. Goes(t, chunks', newlines', read')
    <3>1. Gap(newlines', read, Head(t) - 1)
      BY <1>1, <2>2 DEF Gap
    <3>2. Len(t) <= MaxSize
      BY <1>2, <2>2
    <3>3. EndOfAll(chunks') = read /\ EndOfAll(chunks') < read' /\ Last(t) = read'
      BY <1>1, <1>2, <1>4, <2>2
    <3> QED
      BY <2>2, <3>1, <3>2, <3>3, Zenon DEF Goes
  <2> QED
    BY <1>2, <2>1, <2>2, <2>3, ParagraphKept DEF JoinParagraph
<1>5. CASE current # <<>>
  <2> DEFINE t == (current \o Newline) \o Letters(paragraph)
  <2>1. current' = t
    BY <1>2, <1>5
  <2>2. /\ Window(current) /\ Len(current) <= MaxSize /\ Last(current) = read
        /\ EndOfAll(chunks) < read /\ Gap(newlines, EndOfAll(chunks), Head(current) - 1)
    BY <1>2, <1>5 DEF Goes
  <2>3. /\ t \in Seq(Nat) /\ t # <<>> /\ Window(t)
        /\ Len(t) = Len(current) + 1 + Size(paragraph)
        /\ Head(t) = Head(current) /\ Last(t) = read + 1 + Size(paragraph)
    BY <1>1, <1>2, <2>2, JoinedFit
  <2> HIDE DEF t
  <2>4. Len(current) + Size(paragraph) + 1 <= MaxSize /\ Len(current) \in Nat
    BY <1>1, <1>2, <1>5 DEF JoinParagraph, Overflows
  <2>5. Goes(t, chunks', newlines', read')
    <3>1. Gap(newlines', EndOfAll(chunks), Head(t) - 1)
      BY <1>1, <2>2, <2>3 DEF Gap
    <3>2. Len(t) <= MaxSize
      BY <1>1, <1>2, <2>3, <2>4
    <3>3. EndOfAll(chunks') < read' /\ Last(t) = read' /\ EndOfAll(chunks') = EndOfAll(chunks)
      <4>1. EndOfAll(chunks) \in Nat
        BY <1>1, <1>2, EndIsNat
      <4> QED
        BY <1>1, <1>2, <2>2, <2>3, <4>1
    <3> QED
      BY <2>3, <3>1, <3>2, <3>3, Zenon DEF Goes
  <2> QED
    BY <1>2, <2>1, <2>3, <2>5, ParagraphKept DEF JoinParagraph
<1> QED
  BY <1>4, <1>5

\* The sentence that is read next.
LEMMA SentenceFits ==
  ASSUME ChunkerFits, loop = "sentences", sentences # <<>>
  PROVE  /\ Head(sentences) \in Nat /\ read \in Nat /\ read < Head(sentences)
         /\ Tail(sentences) \in Seq(Nat)
         /\ \A k \in 1..Len(Tail(sentences)) :
               Tail(sentences)[k] > (IF k = 1 THEN Head(sentences) ELSE Tail(sentences)[k - 1])
         /\ LET s == Text(read, Head(sentences)) IN
            /\ s \in Seq(Nat) /\ s # <<>> /\ Window(s) /\ Head(s) = read + 1
            /\ Last(s) = Head(sentences)
<1>1. /\ sentences \in Seq(Nat) /\ read \in Nat
      /\ \A k \in 1..Len(sentences) : sentences[k] > (IF k = 1 THEN read ELSE sentences[k - 1])
  BY DEF ChunkerFits, ChunkerTypeOK, InSentences
<1>2. PICK n \in Nat, l \in Nat : n = Len(sentences) /\ n # 0 /\ l = Head(sentences)
  BY <1>1, EmptySeq
<1>3. l = sentences[1] /\ read < l
  BY <1>1, <1>2
<1> DEFINE more == Tail(sentences)
<1>4. /\ more \in Seq(Nat) /\ Len(more) = n - 1
      /\ \A k \in 1..n - 1 : more[k] = sentences[k + 1]
  BY <1>1, <1>2, HeadTailProperties
<1> HIDE DEF more
<1>5. ASSUME NEW k \in 1..Len(more)
      PROVE  more[k] > (IF k = 1 THEN l ELSE more[k - 1])
  <2>1. k \in Nat /\ k + 1 \in 1..n /\ k + 1 # 1 /\ (k + 1) - 1 = k
    BY <1>2, <1>4
  <2>2. sentences[k + 1] > sentences[k]
    BY <1>1, <1>2, <2>1
  <2>3. more[k] = sentences[k + 1]
    BY <1>4
  <2>4. k # 1 => more[k - 1] = sentences[k]
    BY <1>4, <2>1
  <2> QED
    BY <1>3, <2>2, <2>3, <2>4
<1>6. LET s == Text(read, l) IN
      s \in Seq(Nat) /\ s # <<>> /\ Window(s) /\ Head(s) = read + 1 /\ Last(s) = l
  <2>1. read \in Int /\ l \in Int /\ read >= -1
    BY <1>1
  <2> QED
    BY <1>3, <2>1, TextFacts
<1>7. Head(sentences) \in Nat /\ read < Head(sentences)
  BY <1>2, <1>3
<1>8. \A k \in 1..Len(more) : more[k] > (IF k = 1 THEN Head(sentences) ELSE more[k - 1])
  BY <1>2, <1>5, Zenon
<1>9. LET s == Text(read, Head(sentences)) IN
      /\ s \in Seq(Nat) /\ s # <<>> /\ Window(s) /\ Head(s) = read + 1
      /\ Last(s) = Head(sentences)
  BY <1>2, <1>6, Zenon
<1> QED
  BY <1>1, <1>4, <1>7, <1>8, <1>9 DEF more

LEMMA GatherSentenceKeeps == ChunkerFits /\ GatherSentence => ChunkerFits'
<1> SUFFICES ASSUME ChunkerFits, GatherSentence PROVE ChunkerFits'
  OBVIOUS
<1>1. PICK l \in Nat, s \in Seq(Nat) :
         /\ l = Head(sentences) /\ read < l /\ read \in Nat
         /\ s = Text(read, Head(sentences)) /\ s # <<>> /\ Window(s) /\ Head(s) = read + 1
         /\ Last(s) = l
  BY SentenceFits, Zenon DEF GatherSentence
<1>2. /\ loop = "sentences" /\ loop' = "sentences" /\ read' = l
      /\ rest' = rest /\ newlines' = newlines /\ current' = current /\ chunks' = chunks
      /\ cutAt' = cutAt
  BY <1>1 DEF GatherSentence
<1>3. /\ sentences' \in Seq(Nat)
      /\ \A k \in 1..Len(sentences') :
            sentences'[k] > (IF k = 1 THEN read' ELSE sentences'[k - 1])
  <2>1. sentences' = Tail(sentences) /\ read' = Head(sentences)
    BY DEF GatherSentence
  <2> QED
    BY <2>1, SentenceFits, Zenon DEF GatherSentence
<1>4. \/ /\ piece # <<>> /\ pieces' = Append(pieces, piece) /\ piece' = s
      \/ piece' = piece \o s /\ pieces' = pieces
  BY <1>1, Zenon DEF GatherSentence
<1>5. /\ rest \in Seq(Paragraphs) /\ newlines \subseteq 1..read
      /\ chunks \in Seq(Seq(Nat)) /\ piece \in Seq(Nat) /\ pieces \in Seq(Seq(Nat))
      /\ Covers(chunks, newlines, read) /\ Spaced(newlines)
  BY <1>2 DEF ChunkerFits, ChunkerTypeOK
<1>6. /\ current = <<>> /\ cutAt = 0
      /\ Adjoin(pieces, read) /\ Meets(chunks, newlines, PieceStart)
      /\ piece = <<>> => pieces = <<>> /\ sentences # <<>>
      /\ piece # <<>> => Window(piece) /\ Last(piece) = read
      /\ piece # <<>> /\ pieces # <<>> => Head(piece) = Last(Last(pieces)) + 1
  BY <1>2 DEF ChunkerFits, InSentences
<1>7. newlines \subseteq 1..l /\ l \notin newlines /\ Covers(chunks, newlines, l)
  <2>1. newlines \subseteq 1..l /\ l \notin newlines /\ read <= l
    BY <1>1, <1>5
  <2> QED
    BY <1>1, <1>5, <2>1, CoversLater
<1>8. /\ pieces' \in Seq(Seq(Nat)) /\ Adjoin(pieces', l)
      /\ piece' \in Seq(Nat) /\ piece' # <<>> /\ Window(piece') /\ Last(piece') = l
      /\ pieces' # <<>> => Head(piece') = Last(Last(pieces')) + 1
      /\ PieceStart' = PieceStart
  <2>1. CASE piece # <<>> /\ pieces' = Append(pieces, piece) /\ piece' = s
    <3>1. Window(piece) /\ Last(piece) = read /\ Last(piece) <= read
      BY <1>1, <1>6, <2>1
    <3>2. Adjoin(Append(pieces, piece), read)
      BY <1>1, <1>5, <1>6, <2>1, <3>1, AdjoinAppend
    <3>3. /\ Append(pieces, piece) \in Seq(Seq(Nat)) /\ Append(pieces, piece) # <<>>
          /\ Last(Append(pieces, piece)) = piece
          /\ Head(Append(pieces, piece)) = IF pieces = <<>> THEN piece ELSE Head(pieces)
      BY <1>5, AppendFacts
    <3>4. Adjoin(Append(pieces, piece), l)
      <4>1. read <= l
        BY <1>1
      <4> QED
        BY <1>1, <3>2, <3>3, <4>1, AdjoinLater
    <3>5. Head(s) = Last(Last(pieces')) + 1
      BY <1>1, <2>1, <3>1, <3>3
    <3>6. PieceStart' = PieceStart
      <4>1. PieceStart' = Head(Head(pieces')) - 1 + cutAt'
        BY <2>1, <3>3 DEF PieceStart
      <4>2. CASE pieces = <<>>
        <5>1. Head(piece) \in Nat
          BY <1>5, <3>1, WindowFacts
        <5>2. PieceStart = Head(piece) - 1 /\ Head(pieces') = piece
          BY <2>1, <3>3, <4>2 DEF PieceStart
        <5> QED
          BY <1>2, <1>6, <4>1, <5>1, <5>2
      <4>3. CASE pieces # <<>>
        BY <1>2, <2>1, <3>3, <4>1, <4>3 DEF PieceStart
      <4> QED
        BY <4>2, <4>3
    <3> QED
      BY <1>1, <2>1, <3>3, <3>4, <3>5, <3>6
  <2>2. CASE piece' = piece \o s /\ pieces' = pieces
    <3>1. Adjoin(pieces', l)
      BY <1>1, <1>5, <1>6, <2>2, AdjoinLater
    <3>2. CASE piece = <<>>
      <4>1. piece' = s /\ pieces' = <<>>
        BY <1>6, <2>2, <3>2, ConcatEmptySeq
      <4>2. PieceStart' = Head(s) - 1 /\ PieceStart = read
        BY <1>1, <1>6, <3>2, <4>1 DEF PieceStart
      <4> QED
        <5>1. Head(s) - 1 = read
          BY <1>1
        <5>2. PieceStart' = PieceStart
          BY <4>2, <5>1
        <5> QED
          BY <1>1, <1>5, <2>2, <3>1, <4>1, <5>2, Zenon
    <3>3. CASE piece # <<>>
      <4>1. Window(piece) /\ Last(piece) = read /\ Last(piece) < l
        BY <1>1, <1>6, <3>3
      <4>2. LET t == piece \o Text(Last(piece), l) IN
            t \in Seq(Nat) /\ Window(t) /\ Head(t) = Head(piece) /\ Last(t) = l
        BY <1>5, <4>1, WindowJoined
      <4>3. piece \o Text(Last(piece), l) = piece'
        BY <1>1, <2>2, <4>1, Zenon
      <4>4. piece' \in Seq(Nat) /\ Window(piece') /\ Head(piece') = Head(piece) /\ Last(piece') = l
        BY <4>2, <4>3, Zenon
      <4>5. piece' # <<>>
        BY <4>4 DEF Window
      <4>6. PieceStart' = PieceStart
        BY <1>2, <2>2, <3>3, <4>4, <4>5 DEF PieceStart
      <4>7. pieces' # <<>> => Head(piece') = Last(Last(pieces')) + 1
        BY <1>6, <2>2, <3>3, <4>4, Zenon
      <4> QED
        BY <1>5, <2>2, <3>1, <4>4, <4>5, <4>6, <4>7
    <3> QED
      BY <3>2, <3>3
  <2> QED
    BY <1>4, <2>1, <2>2
<1>9. ChunkerTypeOK'
  BY <1>1, <1>2, <1>3, <1>5, <1>6, <1>7, <1>8 DEF ChunkerFits, ChunkerTypeOK
<1>10. InSentences'
  BY <1>2, <1>3, <1>6, <1>7, <1>8, Zenon DEF InSentences
<1>11. InParagraphs' /\ InPieces' /\ ChunksAreWindows'
  BY <1>2 DEF InParagraphs, InPieces, ChunksAreWindows
<1> QED
  BY <1>2, <1>5, <1>7, <1>9, <1>10, <1>11 DEF ChunkerFits

LEMMA EndSentencesKeeps == ChunkerFits /\ EndSentences => ChunkerFits'
<1> SUFFICES ASSUME ChunkerFits, EndSentences PROVE ChunkerFits'
  OBVIOUS
<1>1. /\ loop = "sentences" /\ loop' = "pieces" /\ sentences = <<>> /\ sentences' = <<>>
      /\ pieces' = pieces \o OrNone(piece) /\ piece' = <<>>
      /\ rest' = rest /\ read' = read /\ newlines' = newlines /\ current' = current
      /\ chunks' = chunks /\ cutAt' = cutAt
  BY DEF EndSentences
<1>2. /\ rest \in Seq(Paragraphs) /\ newlines \subseteq 1..read /\ read \in Nat
      /\ chunks \in Seq(Seq(Nat)) /\ piece \in Seq(Nat) /\ pieces \in Seq(Seq(Nat))
      /\ Covers(chunks, newlines, read) /\ Spaced(newlines)
  BY <1>1 DEF ChunkerFits, ChunkerTypeOK
<1>3. /\ current = <<>> /\ cutAt = 0
      /\ Adjoin(pieces, read) /\ Meets(chunks, newlines, PieceStart)
      /\ piece # <<>> /\ Window(piece) /\ Last(piece) = read /\ read \notin newlines
      /\ pieces # <<>> => Head(piece) = Last(Last(pieces)) + 1
  BY <1>1 DEF ChunkerFits, InSentences
<1>4. pieces' = Append(pieces, piece)
  BY <1>1, <1>2, <1>3, AppendFacts DEF OrNone
<1>5. /\ pieces' \in Seq(Seq(Nat)) /\ pieces' # <<>> /\ Last(pieces') = piece
      /\ Head(pieces') = IF pieces = <<>> THEN piece ELSE Head(pieces)
  BY <1>2, <1>4, AppendFacts
<1>6. Adjoin(pieces', read)
  <2>1. Last(piece) <= read
    BY <1>2, <1>3
  <2> QED
    BY <1>2, <1>3, <1>4, <2>1, AdjoinAppend
<1>7. PieceStart' = PieceStart
  <2>1. PieceStart' = Head(Head(pieces')) - 1 + cutAt'
    BY <1>5 DEF PieceStart
  <2>2. CASE pieces = <<>>
    <3>1. Head(piece) \in Nat
      BY <1>2, <1>3, WindowFacts
    <3>2. PieceStart = Head(piece) - 1 /\ Head(pieces') = piece
      BY <1>3, <1>5, <2>2 DEF PieceStart
    <3>3. Head(Head(pieces')) = Head(piece) /\ cutAt' = 0
      BY <1>1, <1>3, <3>2
    <3>4. Head(piece) - 1 + 0 = Head(piece) - 1
      BY <3>1
    <3> QED
      BY <2>1, <3>2, <3>3, <3>4, Zenon
  <2>3. CASE pieces # <<>>
    BY <1>1, <1>5, <2>1, <2>3 DEF PieceStart
  <2> QED
    BY <2>2, <2>3
<1>8. cutAt' < Len(Head(pieces'))
  <2>1. Head(pieces') \in Seq(Nat) /\ Window(Head(pieces'))
    <3>1. Len(pieces') \in Nat /\ Len(pieces') # 0 /\ Head(pieces') = pieces'[1]
          /\ Head(pieces') \in Seq(Nat)
      BY <1>5, ListFacts
    <3> QED
      BY <1>6, <3>1 DEF Adjoin
  <2> QED
    <3>1. PICK m \in Nat : m = Len(Head(pieces')) /\ m # 0
      BY <2>1, WindowFacts
    <3>2. 0 < m
      BY <3>1
    <3>3. cutAt' = 0
      BY <1>1, <1>3
    <3> QED
      BY <3>1, <3>2, <3>3, Zenon
<1>9. ChunkerTypeOK'
  BY <1>1, <1>2, <1>3, <1>5, EmptySeq DEF ChunkerFits, ChunkerTypeOK
<1>10. InPieces'
  BY <1>1, <1>3, <1>5, <1>6, <1>7, <1>8, Zenon DEF InPieces
<1>11. InParagraphs' /\ InSentences' /\ ChunksAreWindows'
  BY <1>1 DEF InParagraphs, InSentences, ChunksAreWindows
<1> QED
  BY <1>1, <1>2, <1>9, <1>10, <1>11 DEF ChunkerFits

LEMMA CutPieceKeeps == ChunkerFits /\ CutPiece => ChunkerFits'
<1> SUFFICES ASSUME ChunkerFits, CutPiece PROVE ChunkerFits'
  OBVIOUS
<1>1. /\ loop = "pieces" /\ loop' = "pieces" /\ pieces # <<>>
      /\ rest' = rest /\ read' = read /\ newlines' = newlines /\ current' = current
      /\ sentences' = sentences /\ piece' = piece
  BY DEF CutPiece
<1>2. /\ rest \in Seq(Paragraphs) /\ newlines \subseteq 1..read /\ read \in Nat
      /\ chunks \in Seq(Seq(Nat)) /\ pieces \in Seq(Seq(Nat)) /\ cutAt \in Nat
      /\ Covers(chunks, newlines, read) /\ Spaced(newlines)
  BY <1>1 DEF ChunkerFits, ChunkerTypeOK
<1>3. /\ current = <<>> /\ sentences = <<>> /\ piece = <<>> /\ read \notin newlines
      /\ cutAt < Len(Head(pieces)) /\ Last(Last(pieces)) = read
      /\ Adjoin(pieces, read) /\ Meets(chunks, newlines, PieceStart)
  BY <1>1 DEF ChunkerFits, InPieces
<1>4. PICK text \in Seq(Nat) : text = Head(pieces) /\ Window(text) /\ Last(text) <= read
  <2>1. Len(pieces) \in Nat /\ Len(pieces) # 0 /\ Head(pieces) = pieces[1]
        /\ Head(pieces) \in Seq(Nat)
    BY <1>1, <1>2, ListFacts
  <2>2. Window(Head(pieces)) /\ Last(Head(pieces)) <= read
    BY <1>3, <2>1 DEF Adjoin
  <2> QED
    BY <2>1, <2>2
<1>5. PICK n \in Nat, h \in Nat, c \in Nat, b \in Nat :
         /\ n = Len(text) /\ h = Head(text) /\ Last(text) = h + n - 1 /\ c = cutAt /\ c < n
         /\ b = Smaller(cutAt + MaxSize, Len(text))
         /\ b = IF c + MaxSize < n THEN c + MaxSize ELSE n
         /\ MaxSize \in Nat \ {0}
  <2>1. Len(text) \in Nat /\ Head(text) \in Nat /\ Last(text) = Head(text) + Len(text) - 1
    BY <1>4, WindowFacts
  <2>2. Smaller(cutAt + MaxSize, Len(text)) \in Nat
    BY <1>2, <2>1, ChunkerAssumption DEF Smaller
  <2> QED
    BY <1>2, <1>3, <1>4, <2>1, <2>2, ChunkerAssumption DEF Smaller
<1>6. /\ c + 1 <= b /\ b <= n /\ b - (c + 1) + 1 <= MaxSize
      /\ h + (c + 1) - 1 - 1 = h - 1 + c /\ h - 1 + c < h + b - 1 /\ h + b - 1 <= h + n - 1
  <2>1. c + 1 <= b /\ b <= n /\ b - (c + 1) + 1 <= MaxSize
    BY <1>5
  <2> QED
    BY <2>1
<1>7. PICK window \in Seq(Nat) :
         /\ window = SubSeq(text, cutAt + 1, Smaller(cutAt + MaxSize, Len(text)))
         /\ Window(window) /\ Len(window) = b - (c + 1) + 1
         /\ Head(window) = h + (c + 1) - 1 /\ Last(window) = h + b - 1
  <2>1. c + 1 \in Nat /\ 1 <= c + 1 /\ c + 1 <= b /\ b <= Len(text)
    BY <1>5, <1>6
  <2>2. LET t == SubSeq(text, c + 1, b) IN
        /\ t \in Seq(Nat) /\ Window(t) /\ Len(t) = b - (c + 1) + 1
        /\ Head(t) = Head(text) + (c + 1) - 1 /\ Last(t) = Head(text) + b - 1
    BY <1>4, <2>1, WindowCut
  <2> QED
    BY <1>5, <2>2, Zenon
<1>8. PICK e \in Nat : e = EndOfAll(chunks)
  BY <1>2, EndIsNat
<1>9. PieceStart = h - 1 + c
  BY <1>1, <1>4, <1>5 DEF PieceStart
<1>10. /\ e <= h - 1 + c /\ Gap(newlines, e, h - 1 + c)
       /\ \A x \in newlines : x <= h - 1 + c
  BY <1>3, <1>8, <1>9, Zenon DEF Meets
<1>11. /\ chunks' = Append(chunks, window) /\ chunks' \in Seq(Seq(Nat))
       /\ Covers(chunks', newlines, read) /\ EndOfAll(chunks') = h + b - 1
  <2>1. chunks' = Append(chunks, window)
    BY <1>4, <1>7, Zenon DEF CutPiece
  <2>2. Append(chunks, window) \in Seq(Seq(Nat))
    BY <1>2, AppendFacts
  <2>3. Len(window) <= MaxSize /\ e < Last(window) /\ Head(window) - 1 = h - 1 + c
    <3>1. e < h + b - 1
      BY <1>6, <1>10
    <3>2. e < Last(window)
      BY <1>7, <3>1, Zenon
    <3>3. Len(window) <= MaxSize
      BY <1>6, <1>7, Zenon
    <3>4. Head(window) = h + (c + 1) - 1
      BY <1>7, Zenon
    <3>5. Head(window) - 1 = h - 1 + c
      BY <3>4
    <3> QED
      BY <3>2, <3>3, <3>5, Zenon
  <2>4. Last(window) <= read
    <3>1. h + n - 1 <= read
      BY <1>4, <1>5
    <3>2. h + b - 1 <= read
      BY <1>2, <1>6, <3>1
    <3> QED
      BY <1>7, <3>2, Zenon
  <2>5. Last(window) \notin newlines
    <3>1. ~(h + b - 1 <= h - 1 + c)
      BY <1>6
    <3> QED
      BY <1>7, <1>10, <3>1, Zenon
  <2>6. Gap(newlines, EndOfAll(chunks), Head(window) - 1) /\ EndOfAll(chunks) < Last(window)
    BY <1>8, <1>10, <2>3, Zenon
  <2>7. /\ Covers(Append(chunks, window), newlines, read)
        /\ EndOfAll(Append(chunks, window)) = Last(window)
    BY <1>2, <1>7, <2>3, <2>4, <2>5, <2>6, CoversAppend
  <2> QED
    BY <1>7, <2>1, <2>2, <2>7, Zenon
<1>12. ASSUME NEW from \in Int, from = h + b - 1
       PROVE  Meets(chunks', newlines', from)
  <2>1. Gap(newlines, from, from)
    BY DEF Gap
  <2>2. \A x \in newlines : x <= from
    <3>1. SUFFICES ASSUME NEW x \in newlines PROVE x <= from
      OBVIOUS
    <3>2. x \in Nat /\ x <= h - 1 + c
      BY <1>2, <1>10
    <3>3. x <= h + b - 1
      BY <1>6, <3>2
    <3> QED
      BY <1>12, <3>3, Zenon
  <2>3. EndOfAll(chunks') = from /\ from <= from
    BY <1>11, <1>12
  <2> QED
    BY <1>1, <2>1, <2>2, <2>3 DEF Meets
<1>13. /\ pieces' \in Seq(Seq(Nat)) /\ cutAt' \in Nat
       /\ pieces' = <<>> => cutAt' = 0 /\ EndOfAll(chunks') = read
       /\ pieces' # <<>> => /\ cutAt' < Len(Head(pieces')) /\ Last(Last(pieces')) = read
                            /\ Adjoin(pieces', read)
                            /\ PieceStart' \in Int /\ PieceStart' = h + b - 1
  <2>1. CASE NextCut(cutAt) < Len(text)
    <3>1. cutAt' = NextCut(cutAt) /\ pieces' = pieces
      BY <1>2, <1>4, <1>5, <2>1, ChunkerAssumption DEF CutPiece, NextCut
    <3>2. cutAt' = c + MaxSize /\ c + MaxSize < n /\ b = c + MaxSize
      BY <1>5, <2>1, <3>1 DEF NextCut
    <3>3. PieceStart' = Head(Head(pieces')) - 1 + cutAt'
      BY <1>1, <3>1 DEF PieceStart
    <3>4. PieceStart' = h - 1 + cutAt'
      BY <1>4, <1>5, <3>1, <3>3
    <3>5. h - 1 + cutAt' = h + b - 1 /\ h + b - 1 \in Int
      BY <1>5, <3>2
    <3> QED
      BY <1>1, <1>2, <1>3, <1>4, <1>5, <3>1, <3>2, <3>4, <3>5
  <2>2. CASE ~(NextCut(cutAt) < Len(text))
    <3>1. cutAt' = 0 /\ pieces' = Tail(pieces)
      BY <1>4, <2>2, Zenon DEF CutPiece
    <3>2. b = n
      BY <1>5, <2>2 DEF NextCut
    <3>3. /\ Tail(pieces) \in Seq(Seq(Nat)) /\ Adjoin(Tail(pieces), read)
          /\ Tail(pieces) = <<>> => Last(pieces) = Head(pieces)
          /\ Tail(pieces) # <<>> => /\ Last(Tail(pieces)) = Last(pieces)
                                    /\ Head(Head(Tail(pieces))) = Last(Head(pieces)) + 1
      BY <1>1, <1>2, <1>3, AdjoinTail
    <3>4. ASSUME pieces' = <<>> PROVE EndOfAll(chunks') = read
      <4>1. Last(text) = read
        BY <1>3, <1>4, <3>1, <3>3, <3>4, Zenon
      <4> QED
        BY <1>5, <1>11, <3>2, <4>1
    <3>5. ASSUME pieces' # <<>>
          PROVE  /\ cutAt' < Len(Head(pieces')) /\ PieceStart' \in Int /\ PieceStart' = h + b - 1
      <4>1. Head(pieces') \in Seq(Nat) /\ Window(Head(pieces'))
        <5>1. Len(pieces') \in Nat /\ Len(pieces') # 0 /\ Head(pieces') = pieces'[1]
              /\ Head(pieces') \in Seq(Nat)
          BY <3>1, <3>3, <3>5, ListFacts
        <5>2. Adjoin(pieces', read)
          BY <3>1, <3>3, Zenon
        <5>3. Window(pieces'[1])
          BY <5>1, <5>2 DEF Adjoin
        <5> QED
          BY <5>1, <5>3, Zenon
      <4>2. PICK m \in Nat : m = Len(Head(pieces')) /\ m # 0
        BY <4>1, WindowFacts
      <4>3. Head(Head(pieces')) = h + n - 1 + 1
        BY <1>4, <1>5, <3>1, <3>3, <3>5
      <4>4. PieceStart' = Head(Head(pieces')) - 1 + cutAt'
        BY <3>5 DEF PieceStart
      <4>5. PieceStart' = (h + n - 1 + 1) - 1 + 0
        BY <3>1, <4>3, <4>4, Zenon
      <4>6. (h + n - 1 + 1) - 1 + 0 = h + b - 1 /\ h + b - 1 \in Int /\ 0 < m
        BY <3>2, <4>2
      <4> QED
        BY <3>1, <4>2, <4>5, <4>6, Zenon
    <3> QED
      BY <1>3, <3>1, <3>3, <3>4, <3>5, Zenon
  <2> QED
    BY <2>1, <2>2
<1>14. ChunkerTypeOK'
  BY <1>1, <1>2, <1>3, <1>11, <1>13, EmptySeq DEF ChunkerTypeOK
<1>15. InPieces'
  <2>1. pieces' # <<>> => Meets(chunks', newlines', PieceStart')
    BY <1>12, <1>13
  <2> QED
    BY <1>1, <1>3, <1>13, <2>1, Zenon DEF InPieces
<1>16. InParagraphs' /\ InSentences' /\ ChunksAreWindows'
  BY <1>1 DEF InParagraphs, InSentences, ChunksAreWindows
<1> QED
  BY <1>1, <1>2, <1>11, <1>14, <1>15, <1>16 DEF ChunkerFits

LEMMA EndPiecesKeeps == ChunkerFits /\ EndPieces => ChunkerFits'
<1> SUFFICES ASSUME ChunkerFits, EndPieces PROVE ChunkerFits'
  OBVIOUS
<1>1. /\ loop = "pieces" /\ loop' = "paragraphs" /\ pieces = <<>>
      /\ rest' = rest /\ read' = read /\ newlines' = newlines /\ current' = current
      /\ chunks' = chunks /\ sentences' = sentences /\ piece' = piece /\ pieces' = pieces
      /\ cutAt' = cutAt
  BY DEF EndPieces, long
<1>2. ChunkerTypeOK'
  BY <1>1 DEF ChunkerFits, ChunkerTypeOK
<1>3. InParagraphs'
  BY <1>1 DEF ChunkerFits, InPieces, InParagraphs
<1>4. InSentences' /\ InPieces' /\ ChunksAreWindows'
  BY <1>1 DEF InSentences, InPieces, ChunksAreWindows
<1> QED
  BY <1>1, <1>2, <1>3, <1>4 DEF ChunkerFits

\* What a chunk loses at its front is a newline.
LEMMA StripFits ==
  ASSUME NEW s \in Seq(Nat), Window(s), Last(s) \notin newlines, Spaced(newlines)
  PROVE  /\ Strip(s) \in Seq(Nat) /\ Window(Strip(s)) /\ Len(Strip(s)) <= Len(s)
         /\ Last(Strip(s)) = Last(s) /\ Head(Strip(s)) \notin newlines
         /\ \/ Head(Strip(s)) = Head(s)
            \/ Head(Strip(s)) = Head(s) + 1 /\ Head(s) \in newlines
<1>1. PICK n \in Nat, h \in Nat : n = Len(s) /\ n # 0 /\ h = Head(s) /\ Last(s) = h + n - 1
  BY WindowFacts
<1>2. CASE h \in newlines
  <2>1. n # 1
    <3>1. n = 1 => h + n - 1 = h
      OBVIOUS
    <3> QED
      BY <1>1, <1>2, <3>1, Zenon
  <2>2. LET t == SubSeq(s, 2, n) IN
        /\ t \in Seq(Nat) /\ Window(t) /\ Len(t) = n - 2 + 1
        /\ Head(t) = Head(s) + 2 - 1 /\ Last(t) = Head(s) + n - 1
    <3>1. 2 <= n /\ n <= Len(s)
      BY <1>1, <2>1
    <3> QED
      BY <3>1, WindowCut
  <2>3. Strip(s) = SubSeq(s, 2, n)
    <3>1. s # <<>>
      BY DEF Window
    <3>2. Tail(s) = SubSeq(s, 2, Len(s))
      BY <3>1, TailIsSubSeq
    <3> QED
      BY <1>1, <1>2, <3>2 DEF Strip
  <2>4. h + 1 \notin newlines
    BY <1>2 DEF Spaced
  <2>5. /\ Strip(s) \in Seq(Nat) /\ Window(Strip(s)) /\ Len(Strip(s)) = n - 2 + 1
        /\ Head(Strip(s)) = h + 2 - 1 /\ Last(Strip(s)) = h + n - 1
    BY <1>1, <2>2, <2>3, Zenon
  <2> QED
    BY <1>1, <1>2, <2>4, <2>5
<1>3. CASE h \notin newlines
  BY <1>1, <1>3 DEF Strip
<1> QED
  BY <1>2, <1>3

LEMMA ReturnKeeps == ChunkerFits /\ Return => ChunkerFits'
<1> SUFFICES ASSUME ChunkerFits, Return PROVE ChunkerFits'
  OBVIOUS
<1> DEFINE all == chunks \o OrNone(current)
<1>1. /\ loop = "paragraphs" /\ loop' = "returned" /\ current' = <<>>
      /\ chunks' = [k \in 1..Len(all) |-> Strip(all[k])]
      /\ rest' = rest /\ read' = read /\ newlines' = newlines
      /\ sentences' = sentences /\ piece' = piece /\ pieces' = pieces /\ cutAt' = cutAt
  BY DEF Return, long
<1>2. all \in Seq(Seq(Nat)) /\ Covers(all, newlines, read) /\ EndOfAll(all) = read
  BY <1>1, PutAway
<1> HIDE DEF all
<1>3. read \in Nat /\ Spaced(newlines) /\ newlines \subseteq 1..read
  BY DEF ChunkerFits, ChunkerTypeOK
<1>4. PICK n \in Nat : n = Len(all) /\ \A k \in 1..n : all[k] \in Seq(Nat)
  BY <1>2, ListFacts
<1>5. ASSUME NEW k \in 1..n
      PROVE  /\ all[k] \in Seq(Nat) /\ Window(all[k]) /\ Len(all[k]) <= MaxSize
             /\ Last(all[k]) \notin newlines /\ EndIn(all, k - 1) < Last(all[k])
             /\ Gap(newlines, EndIn(all, k - 1), Head(all[k]) - 1)
  BY <1>2, <1>4 DEF Covers
<1>6. ASSUME NEW k \in 1..n
      PROVE  /\ Strip(all[k]) \in Seq(Nat) /\ Window(Strip(all[k]))
             /\ Len(Strip(all[k])) <= Len(all[k])
             /\ Last(Strip(all[k])) = Last(all[k]) /\ Head(Strip(all[k])) \notin newlines
             /\ \/ Head(Strip(all[k])) = Head(all[k])
                \/ Head(Strip(all[k])) = Head(all[k]) + 1 /\ Head(all[k]) \in newlines
  BY <1>3, <1>5, StripFits
<1>7. /\ chunks' \in Seq(Seq(Nat)) /\ Len(chunks') = n
      /\ \A k \in 1..n : chunks'[k] = Strip(all[k])
  <2>1. chunks' \in [1..n -> Seq(Nat)] /\ \A k \in 1..n : chunks'[k] = Strip(all[k])
    BY <1>1, <1>4, <1>6
  <2> QED
    BY <2>1
<1>8. \A k \in 0..n : EndOf(k)' = EndIn(all, k)
  <2>1. SUFFICES ASSUME NEW k \in 0..n PROVE EndOf(k)' = EndIn(all, k)
    OBVIOUS
  <2>2. CASE k = 0
    BY <2>2 DEF EndOf, EndIn
  <2>3. CASE k # 0
    <3>1. k \in 1..n
      BY <2>3
    <3> QED
      BY <2>3, <3>1, <1>6, <1>7 DEF EndOf, EndIn
  <2> QED
    BY <2>2, <2>3
<1>9. ASSUME NEW k \in 1..n
      PROVE  /\ Len(chunks'[k]) <= MaxSize /\ Window(chunks'[k])
             /\ Head(chunks'[k]) \notin newlines' /\ Last(chunks'[k]) \notin newlines'
             /\ EndOf(k - 1)' < EndOf(k)'
             /\ \A x \in EndOf(k - 1)' + 1 .. Head(chunks'[k]) - 1 : x \in newlines'
  <2>1. k \in Nat /\ k # 0 /\ k - 1 \in 0..n /\ k \in 0..n
    OBVIOUS
  <2>2. EndOf(k - 1)' = EndIn(all, k - 1) /\ EndOf(k)' = Last(all[k])
    BY <1>8, <2>1 DEF EndIn
  <2>3. chunks'[k] = Strip(all[k])
    BY <1>7
  <2>4. EndIn(all, k - 1) \in Nat /\ Head(all[k]) \in Nat /\ Len(all[k]) \in Nat
        /\ Len(Strip(all[k])) \in Nat
    BY <1>2, <1>3, <1>4, <1>5, <1>6, <2>1, EndIsNat, WindowFacts
  <2>5. Len(Strip(all[k])) <= MaxSize
    BY <1>5, <1>6, <2>4, ChunkerAssumption
  <2>6. ASSUME NEW x \in EndIn(all, k - 1) + 1 .. Head(Strip(all[k])) - 1
        PROVE  x \in newlines
    <3>1. CASE x <= Head(all[k]) - 1
      <4>1. x \in EndIn(all, k - 1) + 1 .. Head(all[k]) - 1
        BY <2>4, <3>1
      <4> QED
        BY <1>5, <4>1 DEF Gap
    <3>2. CASE ~(x <= Head(all[k]) - 1)
      <4>1. Head(Strip(all[k])) = Head(all[k]) + 1 /\ Head(all[k]) \in newlines
        <5>1. x <= Head(Strip(all[k])) - 1
          OBVIOUS
        <5>2. Head(Strip(all[k])) # Head(all[k])
          BY <3>2, <5>1, Zenon
        <5> QED
          BY <1>6, <5>2
      <4>2. x = Head(all[k])
        BY <2>4, <3>2, <4>1
      <4> QED
        BY <4>1, <4>2
    <3> QED
      BY <3>1, <3>2
  <2> QED
    <3>1. /\ Len(chunks'[k]) <= MaxSize /\ Window(chunks'[k])
          /\ Head(chunks'[k]) \notin newlines' /\ Last(chunks'[k]) \notin newlines'
      <4>1. newlines' = newlines
        BY <1>1
      <4>2. Last(Strip(all[k])) \notin newlines
        BY <1>5, <1>6, Zenon
      <4> QED
        BY <1>6, <2>3, <2>5, <4>1, <4>2, Zenon
    <3>2. EndOf(k - 1)' < EndOf(k)'
      BY <1>5, <2>2, Zenon
    <3>3. \A x \in EndOf(k - 1)' + 1 .. Head(chunks'[k]) - 1 : x \in newlines'
      BY <1>1, <2>2, <2>3, <2>6, Zenon
    <3> QED
      BY <3>1, <3>2, <3>3
<1>10. EndOf(Len(chunks))' = read'
  <2>1. EndOf(n)' = EndIn(all, n) /\ EndIn(all, n) = read
    BY <1>2, <1>4, <1>8 DEF EndOfAll
  <2> QED
    BY <1>1, <1>7, <2>1
<1>11. ChunksAreWindows'
  BY <1>7, <1>9, <1>10 DEF ChunksAreWindows
<1>12. ChunkerTypeOK'
  BY <1>1, <1>7, EmptySeq DEF ChunkerFits, ChunkerTypeOK
<1> QED
  BY <1>1, <1>3, <1>11, <1>12 DEF ChunkerFits, InParagraphs, InSentences, InPieces

LEMMA ChunkerStutterKeeps == ChunkerFits /\ UNCHANGED chunkerVars => ChunkerFits'
<1> SUFFICES ASSUME ChunkerFits, UNCHANGED chunkerVars PROVE ChunkerFits'
  OBVIOUS
<1>1. /\ rest' = rest /\ read' = read /\ newlines' = newlines /\ current' = current
      /\ chunks' = chunks /\ sentences' = sentences /\ piece' = piece /\ pieces' = pieces
      /\ cutAt' = cutAt /\ loop' = loop
  BY DEF chunkerVars
<1> QED
  BY <1>1 DEF ChunkerFits, ChunkerTypeOK, InParagraphs, InSentences, InPieces, PieceStart,
              ChunksAreWindows, EndOf

LEMMA ChunkerStep == ChunkerFits /\ [ChunkerNext]_chunkerVars => ChunkerFits'
BY LongParagraphKeeps, NextChunkKeeps, JoinParagraphKeeps, GatherSentenceKeeps,
   EndSentencesKeeps, CutPieceKeeps, EndPiecesKeeps, ReturnKeeps, ChunkerStutterKeeps
DEF ChunkerNext

LEMMA ChunkerInvariance == ChunkerSpec => []ChunkerFits
BY ChunkerInitFits, ChunkerStep, PTL DEF ChunkerSpec

\* The cutting of a text keeps its types: characters, chunks of them, and where it reads.
THEOREM ChunkerTypeCorrect == ChunkerSpec => []ChunkerTypeOK
<1>1. ChunkerFits => ChunkerTypeOK
  BY DEF ChunkerFits
<1> QED
  BY <1>1, ChunkerInvariance, PTL

\* For every text, every size of a chunk and every overlap, chunk_text returns windows over
\* the text that leave nothing but newlines out.
THEOREM WindowsReturned == ChunkerSpec => []ChunksAreWindows
<1>1. ChunkerFits => ChunksAreWindows
  BY DEF ChunkerFits
<1> QED
  BY <1>1, ChunkerInvariance, PTL
====
