---- MODULE Governance ----
(***************************************************************************)
(* A Brief on its way to the team: the draft document and the inbox item   *)
(* that a chat turn leaves, edits of the document, snoozing and reopening  *)
(* of the item, the confirmation that turns the Brief into candidate       *)
(* memory, and its acceptance by a team lead.                              *)
(*                                                                         *)
(* The confirmation is one transaction.  Everybody else reads a record in  *)
(* one transaction and saves the whole of it in another one.  Callers are  *)
(* those who pass the checks of ownership and role.                        *)
(***************************************************************************)
EXTENDS Naturals, Sequences, FiniteSets

CONSTANTS Texts,       \* texts of the document
          Draft,       \* the text the chat turn writes
          Threads,     \* threads that serve HTTP calls, numbered
          MaxCalls,    \* bound on calls
          MaxFaults    \* bound on handlers that die

ASSUME GovernanceAssumption ==
    /\ Draft \in Texts
    /\ Threads \subseteq Nat
    /\ MaxCalls \in Nat /\ MaxFaults \in Nat

VARIABLES document,   \* version 0: there is none
          item,       \* the inbox item and the number of the memory that confirmed it
          memories,   \* candidate memories, oldest first
          call,       \* what each handler has read, with its change, and what it will save
          stored,     \* history: every version of the document with its text
          disturbed,  \* history: two handlers overlapped or one died
          made,       \* calls so far
          faults      \* handlers that died

vars == <<document, item, memories, call, stored, disturbed, made, faults>>

Document == [version : Nat, text : Texts]
Item == [status : {"none", "open", "snoozed", "resolved"}, memory : Nat]
Memory == [version : Nat, text : Texts, status : {"proposed", "accepted"}]

NoItem == [status |-> "none", memory |-> 0]
Idle == [plan |-> <<>>, document |-> [version |-> 0, text |-> Draft], item |-> NoItem,
         at |-> 0, memory |-> [version |-> 0, text |-> Draft, status |-> "proposed"]]
Plans == {<<>>, <<"document">>, <<"item">>, <<"memory">>, <<"document", "item">>}
Call == [plan : Plans, document : Document, item : Item, at : Nat, memory : Memory]

TypeOK ==
    /\ document \in Document
    /\ item \in Item
    /\ memories \in Seq(Memory)
    /\ call \in [Threads -> Call]
    /\ stored \in SUBSET (Nat \X Texts)
    /\ disturbed \in BOOLEAN
    /\ made \in 0..MaxCalls /\ faults \in 0..MaxFaults

Init ==
    /\ document = [version |-> 0, text |-> Draft]
    /\ item = NoItem
    /\ memories = <<>>
    /\ call = [c \in Threads |-> Idle]
    /\ stored = {} /\ disturbed = FALSE /\ made = 0 /\ faults = 0

InFlight == {c \in Threads : call[c] # Idle}

\* A call comes in; threads are alike and the first free one takes it.
Arrive ==
    /\ made < MaxCalls /\ made' = made + 1
    /\ disturbed' = (disturbed \/ InFlight # {})
    /\ UNCHANGED faults

Begin(c, h) ==
    /\ call[c] = Idle /\ \A d \in Threads : d < c => call[d] # Idle
    /\ Arrive
    /\ call' = [call EXCEPT ![c] = h]
    /\ UNCHANGED <<document, item, memories, stored>>

---------------------------------------------------------------------------
(* Handlers that read and save.                                            *)

\* The chat turn leaves a draft and then asks its owner to confirm it.
CreateBrief(c) ==
    /\ document.version = 0 /\ InFlight = {}
    /\ Begin(c, [Idle EXCEPT !.plan = <<"document", "item">>,
                             !.document = [version |-> 1, text |-> Draft],
                             !.item = [status |-> "open", memory |-> 0]])

\* Variant: an edit keeps the version of the document.
EditInPlace(c, text) ==
    /\ document.version # 0
    /\ Begin(c, [Idle EXCEPT !.plan = <<"document">>,
                             !.document = [version |-> document.version, text |-> text]])

EditDocument(c, text) ==
    /\ document.version # 0
    /\ Begin(c, [Idle EXCEPT !.plan = <<"document">>,
                             !.document = [version |-> document.version + 1, text |-> text]])

\* Variant: the inbox PATCH resolves the item of a Brief as it resolves others.
PatchResolves(c, status) ==
    /\ item.status \notin {"none", "resolved"}
    /\ Begin(c, [Idle EXCEPT !.plan = <<"item">>, !.item = [item EXCEPT !.status = "resolved"]])

\* Variant: the inbox PATCH reopens a resolved item.
PatchReopens(c, status) ==
    /\ item.status # "none"
    /\ Begin(c, [Idle EXCEPT !.plan = <<"item">>,
                             !.item = [status |-> status, memory |-> 0]])

\* The inbox PATCH: only the confirmation resolves the item of a Brief, and for good.
PatchItem(c, status) ==
    /\ item.status \notin {"none", "resolved"}
    /\ Begin(c, [Idle EXCEPT !.plan = <<"item">>, !.item = [item EXCEPT !.status = status]])

Accept(c, m) ==
    /\ memories[m].status = "proposed"
    /\ Begin(c, [Idle EXCEPT !.plan = <<"memory">>, !.at = m,
                             !.memory = [memories[m] EXCEPT !.status = "accepted"]])

After(h) == IF Len(h.plan) = 1 THEN Idle ELSE [h EXCEPT !.plan = Tail(h.plan)]

Proceed(c) ==
    /\ call' = [call EXCEPT ![c] = After(call[c])]
    /\ UNCHANGED <<disturbed, made, faults>>

At(c, step) == call[c].plan # <<>> /\ Head(call[c].plan) = step

SaveDocument(c) ==
    /\ At(c, "document")
    /\ document' = call[c].document
    /\ stored' = stored \cup {<<call[c].document.version, call[c].document.text>>}
    /\ Proceed(c)
    /\ UNCHANGED <<item, memories>>

SaveItem(c) ==
    /\ At(c, "item")
    /\ item' = call[c].item
    /\ Proceed(c)
    /\ UNCHANGED <<document, memories, stored>>

SaveMemory(c) ==
    /\ At(c, "memory")
    /\ memories' = [memories EXCEPT ![call[c].at] = call[c].memory]
    /\ Proceed(c)
    /\ UNCHANGED <<document, item, stored>>

\* A handler dies: a storage error, or with others a crash of the process.
Die(c) ==
    /\ call[c] # Idle
    /\ faults < MaxFaults /\ faults' = faults + 1
    /\ call' = [call EXCEPT ![c] = Idle]
    /\ disturbed' = TRUE
    /\ UNCHANGED <<document, item, memories, stored, made>>

---------------------------------------------------------------------------
(* The confirmation.                                                       *)

\* The caller read version expected of the document and sends the text to keep.
Confirm(expected, text) ==
    /\ item.status = "open" /\ item.memory = 0
    /\ document.version # 0 /\ document.version = expected
    /\ Arrive
    /\ document' = [version |-> document.version + 1, text |-> text]
    /\ stored' = stored \cup {<<document.version + 1, text>>}
    /\ memories' = Append(memories, [version |-> document.version + 1, text |-> text,
                                     status |-> "proposed"])
    /\ item' = [status |-> "resolved", memory |-> Len(memories) + 1]
    /\ UNCHANGED call

Next ==
    \/ \E c \in Threads :
        \/ CreateBrief(c) \/ SaveDocument(c) \/ SaveItem(c) \/ SaveMemory(c) \/ Die(c)
        \/ \E text \in Texts : EditDocument(c, text)
        \/ \E status \in {"open", "snoozed"} : PatchItem(c, status)
        \/ \E m \in DOMAIN memories : Accept(c, m)
    \/ \E expected \in 1..(MaxCalls + 1), text \in Texts : Confirm(expected, text)

Spec == Init /\ [][Next]_vars

---------------------------------------------------------------------------
(* Properties.                                                             *)

\* An item that is resolved was confirmed: it names a candidate memory, whatever PATCH,
\* edit and crash came in between.  (The PATCH saves whole items that it read earlier.)
ResolvedIsConfirmed ==
    item.status = "resolved" => item.memory \in DOMAIN memories

\* Where handlers neither overlapped nor died, a Brief becomes candidate memory once, and
\* stays resolved by it.
SerialConfirmedOnce ==
    ~disturbed => /\ Len(memories) <= 1
                  /\ memories # <<>> /\ InFlight = {} => item = [status |-> "resolved", memory |-> 1]

\* Where handlers neither overlapped nor died, a version of the document names one text, so
\* that the text a candidate memory kept is the text of the version it cites.
SerialVersionNamesOneText ==
    ~disturbed =>
        /\ \A p, q \in stored : p[1] = q[1] => p = q
        /\ \A m \in DOMAIN memories : <<memories[m].version, memories[m].text>> \in stored
====
