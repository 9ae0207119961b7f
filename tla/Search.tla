---- MODULE Search ----
(***************************************************************************)
(* One search over everything that is indexed: chat messages, activities,  *)
(* evidence, memory of the team and of the asker, documents.  It reads the *)
(* rows of the index in one transaction, then every record and the role of *)
(* the asker in transactions of their own, while others go on working.  A  *)
(* chat turn searches in three layers, then term by term, and asks the     *)
(* board for help when nothing is found.                                   *)
(*                                                                         *)
(* Everything is of one workspace and one project, of which the asker is a *)
(* member (members are never taken off), and nothing the program creates   *)
(* has a team.  Ranks are left out: any order and any cut may happen.      *)
(***************************************************************************)
EXTENDS Naturals, FiniteSets, Sequences

CONSTANTS Ids,         \* of the records that have a term of the query
          Asker, Other, \* two users
          Enough,      \* results of an upper layer that make the lower ones needless
          RowLimit,    \* rows taken from the index
          Budget,      \* results a search returns at most
          MaxChanges   \* bound on what others do meanwhile

ASSUME SearchAssumption ==
    /\ IsFiniteSet(Ids)
    /\ Asker # Other
    /\ Enough \in Nat \ {0} /\ RowLimit \in Nat \ {0} /\ Budget \in Nat \ {0}
    /\ MaxChanges \in Nat

VARIABLES records,   \* what is stored, and what of the query it matches
          lead,      \* the asker is a team lead or an admin
          several,   \* the query has more than one term
          search,    \* where the search is
          answer,    \* what it returned
          ever,      \* history: what could be served at some moment since it began
          always,    \* history: what could be served all the time, by the same right
          changes

searchVars == <<records, lead, several, search, answer, ever, always, changes>>

Scopes == {"private", "project", "team_candidate", "team_accepted"}

Record(kinds, scopes, owners, states, matches) ==
    [kind : kinds, scope : scopes, owner : owners, status : states, match : matches]

\* What is posted, the agents' evidence among it, is for the project; only the memory of
\* imported documents has other states than active; a message or an activity that matches
\* some of the terms is found by nobody.
Stored ==
    LET both == {Asker, Other}  any == {"whole", "some"}
    IN  Record({"message", "activity"}, {"private"}, both, {"active"}, {"whole"})
        \cup Record({"activity"}, {"project"}, {Other}, {"active"}, {"whole"})
        \cup Record({"evidence", "post"}, {"project"}, {Other}, {"active"}, any)
        \cup Record({"document"}, {"private"}, both, {"active"}, any)
        \cup Record({"item"}, {"private", "team_candidate"}, both, {"active"}, any)
        \cup Record({"item"}, {"team_accepted"}, {Other}, {"active"}, any)
        \cup Record({"memory"}, {"private"}, both, {"staging", "active", "stale"}, any)

\* The layers of a chat turn, the visibilities of the search page, and the documents that
\* acquisition looks for.
LayersOf ==
    [chat      |-> <<{"team_accepted"},
                     {"project", "team_candidate", "team_accepted"},
                     Scopes>>,
     personal  |-> <<Scopes>>,
     project   |-> <<{"project", "team_candidate", "team_accepted"}>>,
     team      |-> <<{"team_accepted"}>>,
     documents |-> <<{"private"}>>]

Purposes == DOMAIN LayersOf

\* _filter_memory_types, and the filter of _document_search_results.
Wanted(purpose) ==
    CASE purpose = "chat" -> {"memory", "item", "document", "evidence"}
      [] purpose = "documents" -> {"memory", "document"}
      [] OTHER -> {"message", "activity", "evidence", "item", "memory", "document"}

\* held: the record that is looked at, as it was read; pool: the collections to go through.
NotBegun == [step |-> "idle", purpose |-> "chat", layer |-> 0, rows |-> {}, held |-> {},
         found |-> {}, pool |-> <<>>]

SearchInit ==
    /\ records \in [Ids -> Stored]
    /\ lead \in BOOLEAN /\ several \in BOOLEAN
    /\ search = NotBegun /\ answer = {} /\ ever = {} /\ always = {}
    /\ changes = 0

---------------------------------------------------------------------------
(* What the asker may be served: the reference for all of them.            *)

Readable(r, isLead) ==
    CASE r.scope = "private" -> r.owner = Asker
      [] r.scope = "team_candidate" -> isLead \/ r.owner = Asker
      [] OTHER -> TRUE

Served(rs, isLead) ==
    {i \in Ids : Readable(rs[i], isLead) /\ rs[i].status = "active"}

\* By which rights: the role is one for all that is the team's.
Entitles(right, r, isLead) ==
    CASE right = "owner" -> r.owner = Asker
      [] right = "role" -> isLead /\ r.scope # "private"
      [] right = "member" -> r.scope \in {"project", "team_accepted"}

Rights(rs, isLead) ==
    {x \in Ids \X {"owner", "role", "member"} :
        Entitles(x[2], rs[x[1]], isLead) /\ rs[x[1]].status = "active"}

---------------------------------------------------------------------------
(* Others.                                                                 *)

Change(rs, isLead) ==
    /\ changes < MaxChanges /\ changes' = changes + 1
    /\ search.step \notin {"idle", "done"}
    /\ records' = rs /\ lead' = isLead
    /\ ever' = ever \cup Served(rs, isLead)
    /\ always' = always \cap Rights(rs, isLead)
    /\ UNCHANGED <<several, search, answer>>

\* A lead accepts a candidate.
AcceptCandidate(i) ==
    /\ records[i].kind = "item" /\ records[i].scope = "team_candidate"
    /\ Change([records EXCEPT ![i].scope = "team_accepted"], lead)

\* An import is completed, or a newer version has taken the place of this one.
Activated(i) ==
    /\ records[i].status = "staging"
    /\ Change([records EXCEPT ![i].status = "active"], lead)

Outdated(i) ==
    /\ records[i].kind = "memory" /\ records[i].status = "active"
    /\ Change([records EXCEPT ![i].status = "stale"], lead)

\* An admin gives the asker another role.
Promoted == Change(records, ~lead)

---------------------------------------------------------------------------
(* The search.                                                             *)

BeginSearch(purpose) ==
    /\ search.step = "idle"
    /\ search' = [NotBegun EXCEPT !.step = "index", !.purpose = purpose, !.layer = 1]
    /\ ever' = Served(records, lead) /\ always' = Rights(records, lead)
    /\ UNCHANGED <<records, lead, several, answer, changes>>

Going(s) == search' = s /\ UNCHANGED <<records, lead, several, ever, always, changes>>

GoOn(s) == Going(s) /\ UNCHANGED answer

Allowed == LayersOf[search.purpose][search.layer]

\* _extract_fts_doc: memory of documents that is not active has no row.
Indexed == {i \in Ids : /\ records[i].scope \in Allowed
                        /\ records[i].status = "active"
                        /\ records[i].match = "whole"}

Cuts(S, limit) == {T \in SUBSET S : Cardinality(T) = IF Cardinality(S) < limit
                                                     THEN Cardinality(S) ELSE limit}

\* Text and vectors, merged: the limits are applied before anybody's rights.
ReadIndex ==
    /\ search.step = "index"
    /\ \E rows \in Cuts(Indexed, RowLimit) :
          GoOn([search EXCEPT !.step = "visit", !.rows = rows, !.found = {}])

\* The record is read once more; what the row said is not relied on.
Fetch(i) ==
    /\ search.step = "visit" /\ search.held = {} /\ i \in search.rows
    /\ GoOn([search EXCEPT !.rows = @ \ {i}, !.held = {<<i, records[i]>>}])

\* Variant: who proposed a candidate does not matter.
ItemVisibleToAll(r) == r.scope = "private" => r.owner = Asker

\* memory_item_visible_to_user, with the role of this moment.
ItemVisible(r) ==
    CASE r.scope = "private" -> r.owner = Asker
      [] r.scope = "team_candidate" -> r.owner = Asker \/ lead
      [] OTHER -> TRUE

\* activity_log_visible_to_user.
ActivityVisible(r) == r.scope = "private" => r.owner = Asker

OwnPrivate(r) == "private" \in Allowed /\ r.owner = Asker

Shown(r) ==
    CASE r.kind = "message"  -> r.scope = "private" => r.owner = Asker
      [] r.kind = "activity" -> ActivityVisible(r)
      [] r.kind = "evidence" -> TRUE
      [] r.kind = "item"     -> ItemVisible(r)
      [] r.kind = "memory"   -> OwnPrivate(r) /\ r.status = "active"
      [] r.kind = "document" -> OwnPrivate(r)
      [] OTHER -> FALSE

Judge ==
    /\ search.step = "visit"
    /\ \E h \in search.held :
          GoOn([search EXCEPT !.held = {},
                              !.found = IF Shown(h[2]) THEN @ \cup {h[1]} ELSE @])

\* _apply_budget: by number and by length, but never nothing.
Kept(found) == {T \in SUBSET found : Cardinality(T) <= Budget /\ (found # {} => T # {})}

LastLayer == search.layer = Len(LayersOf[search.purpose])

Return(results) ==
    /\ Going([search EXCEPT !.step = "done", !.found = {}])
    /\ answer' = results

\* What a search that found nothing goes through, term by term.
Pools ==
    [chat      |-> <<{"memory"}, {"item"}, {"document"}, {"evidence", "post"}>>,
     documents |-> <<{"document"}>>]

\* Variant: the first layer is taken for enough, whatever it has.
EndFirstLayer ==
    /\ search.step = "visit" /\ search.rows = {} /\ search.held = {}
    /\ \E kept \in Kept(search.found) :
        Return({i \in kept : records[i].kind \in Wanted(search.purpose)})

\* The results of a layer are enough, or the next layer is searched, or the terms.
EndLayer ==
    /\ search.step = "visit" /\ search.rows = {} /\ search.held = {}
    /\ \E kept \in Kept(search.found) :
        LET results == {i \in kept : records[i].kind \in Wanted(search.purpose)}
        IN  \/ /\ \/ search.purpose \notin DOMAIN Pools
                  \/ Cardinality(results) >= IF LastLayer THEN 1 ELSE Enough
               /\ Return(results)
            \/ /\ ~LastLayer /\ Cardinality(results) < Enough
               /\ GoOn([search EXCEPT !.step = "index", !.layer = @ + 1])
            \/ /\ LastLayer /\ results = {} /\ search.purpose \in DOMAIN Pools
               /\ GoOn([search EXCEPT !.step = "terms", !.found = {},
                                      !.pool = Pools[search.purpose]])

\* _memory_search_pool reads one collection after the other and looks at no status.
InPool(r) ==
    CASE r.kind \in {"memory", "document"} -> r.owner = Asker
      [] r.kind = "item" -> ItemVisible(r)
      [] OTHER -> r.scope # "private"

\* Two terms have to match, but any one of them for a document to acquire.
ReadPool ==
    /\ search.step = "terms" /\ search.pool # <<>>
    /\ LET hits == {i \in Ids : /\ records[i].kind \in Head(search.pool) /\ InPool(records[i])
                                /\ several \/ search.purpose = "documents"}
       IN  GoOn([search EXCEPT !.pool = Tail(@), !.found = @ \cup hits])

EndPool ==
    /\ search.step = "terms" /\ search.pool = <<>>
    /\ \E kept \in Kept(search.found) : Return(kept)

SearchNext ==
    \/ \E p \in Purposes : BeginSearch(p)
    \/ ReadIndex \/ Judge \/ EndLayer \/ ReadPool \/ EndPool \/ Promoted
    \/ \E i \in Ids : Fetch(i) \/ AcceptCandidate(i) \/ Activated(i) \/ Outdated(i)

SearchSpec == SearchInit /\ [][SearchNext]_searchVars

---------------------------------------------------------------------------
(* Properties.                                                             *)

\* Whatever is shown, the asker could read it, and it was current, at some moment of the
\* search, whoever changed it or the asker's role meanwhile (store.py search).  Memory of
\* one's own that is found term by term may be of an older version.
ShownWasServed ==
    \A i \in answer : \/ i \in ever
                      \/ /\ search.pool = <<>> /\ search.purpose = "chat"
                         /\ records[i].kind = "memory" /\ records[i].owner = Asker

\* More rows than are taken, or a message or an activity before the results that count.
Crowded ==
    LET rows == {i \in Ids : records[i].match = "whole"}
    IN  \/ Cardinality(rows) > RowLimit
        \/ \E i \in rows : records[i].kind \in {"message", "activity"}

\* A chat turn that finds nothing, and asks the board, had nothing to find: what matched and
\* could be served all the time, by the same right, is not passed over because it moved from
\* one layer to another, or because the index or the budget was full of other rows (agents.py
\* _search_team_brain).  With a single term there is no second way past those.  What a lead
\* reads as a candidate is passed over if it is accepted and the role is taken away before it
\* is judged: each right alone had an end.
AsksOnlyWhenUnknown ==
    (search.step = "done" /\ search.purpose = "chat" /\ answer = {}) =>
        \A x \in always : records[x[1]].kind \in {"memory", "item", "document"} =>
            /\ ~several
            /\ records[x[1]].match = "whole" => Crowded
====
