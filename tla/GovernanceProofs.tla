---- MODULE GovernanceProofs ----
(***************************************************************************)
(* The Brief, the memory tiers, and the search over them, for any number   *)
(* of threads, texts, records, calls and deaths.                           *)
(*                                                                         *)
(* The Brief: a resolved one was confirmed; and where handlers neither     *)
(* overlapped nor died, it was confirmed once, and a version of its        *)
(* document names one text.                                                *)
(* Memory: what the team accepted stands, and what is private stays so,    *)
(* whatever copies handlers save; and where handlers took turns, a         *)
(* deprecated skill stays deprecated and a day has one summary.            *)
(* The search: what it shows was served, and a chat turn asks its owner    *)
(* only for what it could not find.                                        *)
(***************************************************************************)
EXTENDS MemoryTiers, Search, FiniteSetTheorems, SequenceTheorems, TLAPS

\* No handler holds a copy of the item that it would save as resolved.
NoneCarriesResolved == \A c \in Threads : call[c].item.status # "resolved"

\* Handlers save items and memories of places that exist.
PlacesExist == \A c \in Threads : At(c, "memory") => call[c].at \in DOMAIN memories

IInv == TypeOK /\ ResolvedIsConfirmed /\ NoneCarriesResolved /\ PlacesExist

---------------------------------------------------------------------------
(* Lemmas about handlers.                                                  *)

\* A handler that begins has passed the checks, and changes no record.
LEMMA BeginStep ==
    ASSUME TypeOK, NEW c \in Threads, NEW h \in Call, h.plan # <<>>, Begin(c, h)
    PROVE  /\ call' = [call EXCEPT ![c] = h] /\ call' \in [Threads -> Call]
           /\ made' \in 0..MaxCalls
           /\ disturbed' \in BOOLEAN /\ (disturbed => disturbed')
           /\ ~disturbed' => \A d \in Threads : call[d] = Idle
           /\ UNCHANGED <<document, item, memories, stored, faults>>
<1>1. call' = [call EXCEPT ![c] = h] /\ UNCHANGED <<document, item, memories, stored, faults>>
  BY DEF Begin, Arrive
<1>2. call' \in [Threads -> Call]
  BY <1>1 DEF TypeOK
<1>3. made' \in 0..MaxCalls
  BY GovernanceAssumption DEF TypeOK, Begin, Arrive
<1>4. disturbed' = (disturbed \/ InFlight # {})
  BY DEF Begin, Arrive
<1>5. disturbed' \in BOOLEAN /\ (disturbed => disturbed') /\ (~disturbed' => InFlight = {})
  BY <1>4, Zenon
<1>6. InFlight = {} => \A d \in Threads : call[d] = Idle
  BY DEF InFlight
<1> QED
  BY <1>1, <1>2, <1>3, <1>5, <1>6

\* What is left of a plan is a plan.
LEMMA Rest ==
    ASSUME NEW p \in Plans, p # <<>>
    PROVE  /\ Len(p) # 1 => p = <<"document", "item">> /\ Tail(p) = <<"item">>
           /\ Len(p) = 1 => p \in {<<"document">>, <<"item">>, <<"memory">>}
<1>1. CASE p \in {<<"document">>, <<"item">>, <<"memory">>}
  <2>1. Len(p) = 1
    BY <1>1
  <2> QED
    BY <1>1, <2>1
<1>2. CASE p = <<"document", "item">>
  <2>1. Len(p) = 2 /\ Tail(p) = <<"item">>
    BY <1>2
  <2> QED
    BY <1>2, <2>1
<1> QED
  BY <1>1, <1>2 DEF Plans

\* The record of a handler that has nothing to do.
LEMMA IdleType == Idle \in Call /\ Idle.plan = <<>> /\ Idle.item.status = "none"
  BY GovernanceAssumption DEF Idle, Call, Document, Item, Memory, NoItem, Plans

\* A handler that saves goes on with the rest of its plan, and keeps what it carries.
LEMMA ProceedStep ==
    ASSUME TypeOK, NEW c \in Threads, call[c].plan # <<>>, Proceed(c)
    PROVE  /\ call' \in [Threads -> Call]
           /\ made' \in 0..MaxCalls /\ disturbed' \in BOOLEAN
           /\ \A d \in Threads \ {c} : call'[d] = call[d]
           /\ \/ call'[c] = Idle /\ call[c].plan \in {<<"document">>, <<"item">>, <<"memory">>}
              \/ /\ call[c].plan = <<"document", "item">>
                 /\ call'[c] = [call[c] EXCEPT !.plan = <<"item">>]
           /\ UNCHANGED <<disturbed, faults, made>>
<1>1. call[c] \in Call /\ call[c].plan \in Plans
  BY DEF TypeOK, Call
<1>2. CASE Len(call[c].plan) = 1
  <2>1. call' = [call EXCEPT ![c] = Idle]
    BY <1>2 DEF Proceed, After
  <2> QED
    BY <1>1, <1>2, <2>1, Rest, IdleType DEF TypeOK, Proceed
<1>3. CASE Len(call[c].plan) # 1
  <2>1. call' = [call EXCEPT ![c] = [call[c] EXCEPT !.plan = <<"item">>]]
    BY <1>1, <1>3, Rest DEF Proceed, After
  <2>2. [call[c] EXCEPT !.plan = <<"item">>] \in Call
    BY <1>1 DEF Call, Plans
  <2> QED
    BY <1>1, <1>3, <2>1, <2>2, Rest DEF TypeOK, Proceed
<1> QED
  BY <1>2, <1>3

---------------------------------------------------------------------------
(* The inductive invariant.                                                *)

\* A handler that begins keeps the invariant if it carries an item that is not resolved.
LEMMA BeginIInv ==
    ASSUME IInv, NEW c \in Threads, NEW h \in Call, h.plan # <<>>, Begin(c, h),
           h.item.status # "resolved",
           Head(h.plan) = "memory" => h.at \in DOMAIN memories
    PROVE  IInv'
<1>1. /\ call' = [call EXCEPT ![c] = h] /\ call' \in [Threads -> Call]
      /\ made' \in 0..MaxCalls /\ disturbed' \in BOOLEAN
      /\ UNCHANGED <<document, item, memories, stored, faults>>
  BY BeginStep DEF IInv
<1>2. \A d \in Threads : call'[d] = IF d = c THEN h ELSE call[d]
  BY <1>1 DEF IInv, TypeOK
<1>3. TypeOK' /\ ResolvedIsConfirmed'
  BY <1>1 DEF IInv, TypeOK, ResolvedIsConfirmed
<1>4. NoneCarriesResolved' /\ PlacesExist'
  BY <1>1, <1>2 DEF IInv, NoneCarriesResolved, PlacesExist, At
<1> QED
  BY <1>3, <1>4 DEF IInv

\* A handler that goes on carries nothing new.
LEMMA ProceedCarries ==
    ASSUME IInv, NEW c \in Threads, call[c].plan # <<>>, Proceed(c),
           DOMAIN memories' = DOMAIN memories
    PROVE  NoneCarriesResolved' /\ PlacesExist'
<1>1. /\ \A d \in Threads \ {c} : call'[d] = call[d]
      /\ \/ call'[c] = Idle
         \/ call'[c] = [call[c] EXCEPT !.plan = <<"item">>]
  BY ProceedStep DEF IInv
<1>2. call[c] \in Call
  BY DEF IInv, TypeOK
<1>3. call'[c].item.status # "resolved"
  BY <1>1, <1>2, IdleType DEF IInv, NoneCarriesResolved, Call
<1>4. call'[c].plan = <<>> \/ Head(call'[c].plan) = "item"
  BY <1>1, <1>2, IdleType DEF Call
<1>5. NoneCarriesResolved'
  BY <1>1, <1>3 DEF IInv, NoneCarriesResolved
<1>6. PlacesExist'
  BY <1>1, <1>4 DEF IInv, PlacesExist, At
<1> QED
  BY <1>5, <1>6

\* A Brief starts without item and handlers.
LEMMA InitIInv == Init => IInv
<1> SUFFICES ASSUME Init PROVE IInv
  OBVIOUS
<1>1. \A c \in Threads : call[c] = Idle
  BY DEF Init
<1>2. TypeOK
  <2>1. document \in Document /\ item \in Item /\ memories \in Seq(Memory)
    BY GovernanceAssumption DEF Init, Document, Item, NoItem
  <2>2. call \in [Threads -> Call] /\ stored \in SUBSET (Nat \X Texts)
    BY IdleType DEF Init
  <2>3. disturbed \in BOOLEAN
    BY Zenon DEF Init
  <2>4. made \in 0..MaxCalls /\ faults \in 0..MaxFaults
    BY GovernanceAssumption DEF Init
  <2> QED
    BY <2>1, <2>2, <2>3, <2>4 DEF TypeOK
<1>3. ResolvedIsConfirmed /\ NoneCarriesResolved /\ PlacesExist
  BY <1>1, IdleType DEF Init, ResolvedIsConfirmed, NoneCarriesResolved, PlacesExist, At, NoItem
<1> QED
  BY <1>2, <1>3 DEF IInv

\* The handlers that begin carry what they read, changed in the way of their operation.
LEMMA BeginTypes ==
    ASSUME IInv, NEW c \in Threads
    PROVE  /\ CreateBrief(c) => IInv'
           /\ \A text \in Texts : EditDocument(c, text) => IInv'
           /\ \A status \in {"open", "snoozed"} : PatchItem(c, status) => IInv'
           /\ \A m \in DOMAIN memories : Accept(c, m) => IInv'
<1>1. ASSUME CreateBrief(c) PROVE IInv'
  <2> DEFINE h == [Idle EXCEPT !.plan = <<"document", "item">>,
                               !.document = [version |-> 1, text |-> Draft],
                               !.item = [status |-> "open", memory |-> 0]]
  <2>1. /\ h.plan = <<"document", "item">> /\ h.item = [status |-> "open", memory |-> 0]
        /\ h.document = [version |-> 1, text |-> Draft]
        /\ h.at = Idle.at /\ h.memory = Idle.memory
    BY DEF Idle
  <2>2. h \in Call
    BY <2>1, GovernanceAssumption, IdleType DEF Call, Document, Item, Plans
  <2>3. h.plan # <<>> /\ h.item.status # "resolved" /\ Head(h.plan) # "memory"
    BY <2>1
  <2>4. Begin(c, h)
    BY <1>1 DEF CreateBrief
  <2> QED
    BY <2>2, <2>3, <2>4, BeginIInv
<1>2. ASSUME NEW text \in Texts, EditDocument(c, text) PROVE IInv'
  <2> DEFINE h == [Idle EXCEPT !.plan = <<"document">>,
                               !.document = [version |-> document.version + 1, text |-> text]]
  <2>1. /\ h.plan = <<"document">> /\ h.item = Idle.item /\ h.at = Idle.at
        /\ h.document = [version |-> document.version + 1, text |-> text]
        /\ h.memory = Idle.memory
    BY DEF Idle
  <2>2. h \in Call
    <3>1. h.document \in Document
      BY <2>1 DEF Document, IInv, TypeOK
    <3> QED
      BY <2>1, <3>1, IdleType DEF Call, Plans
  <2>3. h.plan # <<>> /\ h.item.status # "resolved" /\ Head(h.plan) # "memory"
    BY <2>1, IdleType
  <2>4. Begin(c, h)
    BY <1>2 DEF EditDocument
  <2> QED
    BY <2>2, <2>3, <2>4, BeginIInv
<1>3. ASSUME NEW status \in {"open", "snoozed"}, PatchItem(c, status) PROVE IInv'
  <2> DEFINE h == [Idle EXCEPT !.plan = <<"item">>, !.item = [item EXCEPT !.status = status]]
  <2>1. /\ h.plan = <<"item">> /\ h.item = [item EXCEPT !.status = status]
        /\ h.document = Idle.document /\ h.at = Idle.at /\ h.memory = Idle.memory
    BY DEF Idle
  <2>2. h.item \in Item /\ h.item.status = status
    BY <2>1 DEF Item, IInv, TypeOK
  <2>3. h \in Call
    BY <2>1, <2>2, IdleType DEF Call, Plans
  <2>4. h.plan # <<>> /\ h.item.status # "resolved" /\ Head(h.plan) # "memory"
    BY <2>1, <2>2
  <2>5. Begin(c, h)
    BY <1>3 DEF PatchItem
  <2> QED
    BY <2>3, <2>4, <2>5, BeginIInv
<1>4. ASSUME NEW m \in DOMAIN memories, Accept(c, m) PROVE IInv'
  <2> DEFINE h == [Idle EXCEPT !.plan = <<"memory">>, !.at = m,
                               !.memory = [memories[m] EXCEPT !.status = "accepted"]]
  <2>1. memories[m] \in Memory /\ m \in Nat
    BY DEF IInv, TypeOK
  <2>2. h \in Call /\ h.plan # <<>> /\ h.item.status = "none" /\ h.at = m
    BY <2>1, IdleType DEF Call, Memory, Plans
  <2>3. Begin(c, h)
    BY <1>4 DEF Accept
  <2> QED
    BY <2>2, <2>3, BeginIInv
<1> QED
  BY <1>1, <1>2, <1>3, <1>4

\* Every step keeps the invariant.
LEMMA IInvStep == IInv /\ [Next]_vars => IInv'
<1> SUFFICES ASSUME IInv, [Next]_vars PROVE IInv'
  OBVIOUS
<1>1. ASSUME NEW c \in Threads, SaveDocument(c) PROVE IInv'
  <2>1. call[c].plan # <<>> /\ Proceed(c) /\ call[c] \in Call
    BY <1>1 DEF SaveDocument, At, IInv, TypeOK
  <2>2. document' \in Document /\ stored' \in SUBSET (Nat \X Texts)
    BY <1>1, <2>1 DEF SaveDocument, IInv, TypeOK, Call, Document
  <2>3. TypeOK' /\ ResolvedIsConfirmed'
    BY <1>1, <2>1, <2>2, ProceedStep DEF SaveDocument, IInv, TypeOK, ResolvedIsConfirmed
  <2>4. NoneCarriesResolved' /\ PlacesExist'
    BY <1>1, <2>1, ProceedCarries DEF SaveDocument
  <2> QED
    BY <2>3, <2>4 DEF IInv
<1>2. ASSUME NEW c \in Threads, SaveItem(c) PROVE IInv'
  <2>1. call[c].plan # <<>> /\ Proceed(c) /\ call[c] \in Call
    BY <1>2 DEF SaveItem, At, IInv, TypeOK
  <2>2. item' \in Item /\ item'.status # "resolved"
    BY <1>2, <2>1 DEF SaveItem, IInv, NoneCarriesResolved, Call
  <2>3. TypeOK' /\ ResolvedIsConfirmed'
    BY <1>2, <2>1, <2>2, ProceedStep DEF SaveItem, IInv, TypeOK, ResolvedIsConfirmed
  <2>4. NoneCarriesResolved' /\ PlacesExist'
    BY <1>2, <2>1, ProceedCarries DEF SaveItem
  <2> QED
    BY <2>3, <2>4 DEF IInv
<1>3. ASSUME NEW c \in Threads, SaveMemory(c) PROVE IInv'
  <2>1. call[c].plan # <<>> /\ Proceed(c) /\ call[c] \in Call
    BY <1>3 DEF SaveMemory, At, IInv, TypeOK
  <2>2. call[c].at \in DOMAIN memories /\ call[c].memory \in Memory
    BY <1>3, <2>1 DEF SaveMemory, IInv, PlacesExist, Call
  <2>3. memories' \in Seq(Memory) /\ DOMAIN memories' = DOMAIN memories
    BY <1>3, <2>2 DEF SaveMemory, IInv, TypeOK
  <2>4. TypeOK' /\ ResolvedIsConfirmed'
    BY <1>3, <2>1, <2>3, ProceedStep DEF SaveMemory, IInv, TypeOK, ResolvedIsConfirmed
  <2>5. NoneCarriesResolved' /\ PlacesExist'
    BY <2>1, <2>3, ProceedCarries
  <2> QED
    BY <2>4, <2>5 DEF IInv
<1>4. ASSUME NEW c \in Threads, Die(c) PROVE IInv'
  <2>1. /\ call' = [call EXCEPT ![c] = Idle] /\ faults' \in 0..MaxFaults /\ disturbed' = TRUE
        /\ UNCHANGED <<document, item, memories, stored, made>>
    BY <1>4, GovernanceAssumption DEF Die, IInv, TypeOK
  <2>2. \A d \in Threads : call'[d] = IF d = c THEN Idle ELSE call[d]
    BY <2>1 DEF IInv, TypeOK
  <2>3. TypeOK' /\ ResolvedIsConfirmed'
    BY <2>1, IdleType DEF IInv, TypeOK, ResolvedIsConfirmed
  <2>4. NoneCarriesResolved' /\ PlacesExist'
    BY <2>1, <2>2, IdleType DEF IInv, NoneCarriesResolved, PlacesExist, At
  <2> QED
    BY <2>3, <2>4 DEF IInv
<1>5. ASSUME NEW expected \in 1..(MaxCalls + 1), NEW text \in Texts, Confirm(expected, text)
      PROVE  IInv'
  <2>1. [version |-> document.version + 1, text |-> text, status |-> "proposed"] \in Memory
    BY DEF IInv, TypeOK, Document, Memory
  <2>2. /\ memories' \in Seq(Memory) /\ DOMAIN memories \subseteq DOMAIN memories'
        /\ Len(memories) + 1 \in DOMAIN memories' /\ Len(memories) + 1 \in Nat
    BY <1>5, <2>1 DEF Confirm, IInv, TypeOK
  <2>3. document' \in Document /\ stored' \in SUBSET (Nat \X Texts)
    BY <1>5 DEF Confirm, IInv, TypeOK, Document
  <2>4. item' = [status |-> "resolved", memory |-> Len(memories) + 1] /\ item' \in Item
    BY <1>5, <2>2 DEF Confirm, Item
  <2>5. made' \in 0..MaxCalls /\ faults' = faults /\ call' = call
    BY <1>5, GovernanceAssumption DEF Confirm, Arrive, IInv, TypeOK
  <2>6. disturbed' = (disturbed \/ InFlight # {})
    BY <1>5 DEF Confirm, Arrive
  <2>7. disturbed' \in BOOLEAN
    BY <2>6, Zenon
  <2>8. TypeOK' /\ ResolvedIsConfirmed'
    BY <2>2, <2>3, <2>4, <2>5, <2>7 DEF IInv, TypeOK, ResolvedIsConfirmed
  <2>9. NoneCarriesResolved' /\ PlacesExist'
    BY <2>2, <2>5 DEF IInv, NoneCarriesResolved, PlacesExist, At
  <2> QED
    BY <2>8, <2>9 DEF IInv
<1>6. CASE UNCHANGED vars
  BY <1>6 DEF vars, IInv, TypeOK, ResolvedIsConfirmed, NoneCarriesResolved, PlacesExist, At
<1> QED
  BY <1>1, <1>2, <1>3, <1>4, <1>5, <1>6, BeginTypes DEF Next

\* The invariant holds in every state of every behaviour.
LEMMA Invariance == Spec => []IInv
  BY InitIInv, IInvStep, PTL DEF Spec

\* Every state of a Brief has its type.
THEOREM TypeCorrect == Spec => []TypeOK
<1>1. IInv => TypeOK
  BY DEF IInv
<1> QED
  BY <1>1, Invariance, PTL

\* A resolved item names a candidate memory that exists, whatever PATCH, edit, confirmation
\* and death overlapped: no stale save of an item resolves it (confirm_brief, update_inbox_item).
THEOREM Confirmed == Spec => []ResolvedIsConfirmed
<1>1. IInv => ResolvedIsConfirmed
  BY DEF IInv
<1> QED
  BY <1>1, Invariance, PTL

---------------------------------------------------------------------------
(* Handlers that neither overlap nor die.                                  *)

\* One handler at most is under way.
OneByOne == \A c, d \in Threads : call[c] # Idle /\ call[d] # Idle => c = d

\* The next version of the document is one that nobody has stored.
NextIsNew ==
    /\ \A p \in stored : p[1] <= document.version
    /\ \A c \in Threads : At(c, "document") => call[c].document.version = document.version + 1

\* A memory, stored or carried, has the text of the version that it cites.
MemoriesCite ==
    /\ \A m \in DOMAIN memories : <<memories[m].version, memories[m].text>> \in stored
    /\ \A c \in Threads :
         At(c, "memory") => <<call[c].memory.version, call[c].memory.text>> \in stored

\* Once a Brief is confirmed, it has a document and nobody carries its item.
ConfirmedForGood ==
    memories # <<>> =>
        /\ Len(memories) = 1 /\ document.version # 0
        /\ item = [status |-> "resolved", memory |-> 1]
        /\ \A c \in Threads : call[c].plan \notin {<<"item">>, <<"document", "item">>}

VersionsNameTexts == \A p, q \in stored : p[1] = q[1] => p = q

SerialInv == ~disturbed => OneByOne /\ NextIsNew /\ MemoriesCite /\ ConfirmedForGood
                             /\ VersionsNameTexts

\* A handler that begins alone keeps the serial invariant if it carries what is new, or cited.
LEMMA BeginSerial ==
    ASSUME IInv, SerialInv, NEW c \in Threads, NEW h \in Call, h.plan # <<>>, Begin(c, h),
           Head(h.plan) = "document" => h.document.version = document.version + 1,
           Head(h.plan) = "memory" => <<h.memory.version, h.memory.text>> \in stored,
           memories # <<>> => h.plan \notin {<<"item">>, <<"document", "item">>}
    PROVE  SerialInv'
<1> SUFFICES ASSUME ~disturbed'
             PROVE  (OneByOne /\ NextIsNew /\ MemoriesCite /\ ConfirmedForGood
                       /\ VersionsNameTexts)'
  BY DEF SerialInv
<1>1. /\ call' = [call EXCEPT ![c] = h] /\ UNCHANGED <<document, item, memories, stored>>
      /\ ~disturbed /\ \A d \in Threads : call[d] = Idle
  BY BeginStep DEF IInv
<1>2. \A d \in Threads : call'[d] = IF d = c THEN h ELSE Idle
  BY <1>1 DEF IInv, TypeOK
<1>3. NextIsNew /\ MemoriesCite /\ ConfirmedForGood /\ VersionsNameTexts
  BY <1>1 DEF SerialInv
<1>4. OneByOne' /\ VersionsNameTexts'
  BY <1>1, <1>2, <1>3 DEF OneByOne, VersionsNameTexts
<1>5. NextIsNew'
  BY <1>1, <1>2, <1>3, IdleType DEF NextIsNew, At
<1>6. MemoriesCite'
  BY <1>1, <1>2, <1>3, IdleType DEF MemoriesCite, At
<1>7. ConfirmedForGood'
  BY <1>1, <1>2, <1>3, IdleType DEF ConfirmedForGood
<1> QED
  BY <1>4, <1>5, <1>6, <1>7

\* Where handlers neither overlap nor die, one that goes on is alone, and left with its item
\* or with nothing.
LEMMA ProceedSerial ==
    ASSUME IInv, SerialInv, NEW c \in Threads, call[c].plan # <<>>, Proceed(c), ~disturbed'
    PROVE  /\ ~disturbed
           /\ OneByOne /\ NextIsNew /\ MemoriesCite /\ ConfirmedForGood /\ VersionsNameTexts
           /\ \A d \in Threads \ {c} : call'[d] = Idle
           /\ \/ call'[c] = Idle
              \/ call[c].plan = <<"document", "item">> /\ call'[c].plan = <<"item">>
           /\ OneByOne'
           /\ \A d \in Threads : ~At(d, "document")' /\ ~At(d, "memory")'
           /\ memories # <<>> => call'[c] = Idle
<1>1. /\ ~disturbed /\ \A d \in Threads \ {c} : call'[d] = call[d]
      /\ \/ call'[c] = Idle
         \/ /\ call[c].plan = <<"document", "item">>
            /\ call'[c] = [call[c] EXCEPT !.plan = <<"item">>]
  BY ProceedStep DEF IInv
<1>2. OneByOne /\ NextIsNew /\ MemoriesCite /\ ConfirmedForGood /\ VersionsNameTexts
  BY <1>1 DEF SerialInv
<1>3. call[c] \in Call /\ call[c] # Idle
  BY IdleType DEF IInv, TypeOK
<1>4. \A d \in Threads \ {c} : call[d] = Idle
  BY <1>2, <1>3 DEF OneByOne
<1>5. \/ call'[c] = Idle
      \/ call[c].plan = <<"document", "item">> /\ call'[c].plan = <<"item">>
  BY <1>1, <1>3 DEF Call
<1>6. OneByOne'
  BY <1>1, <1>4 DEF OneByOne
<1>7. \A d \in Threads : call'[d].plan = <<>> \/ Head(call'[d].plan) = "item"
  BY <1>1, <1>4, <1>5, IdleType
<1>8. \A d \in Threads : ~At(d, "document")' /\ ~At(d, "memory")'
  BY <1>7 DEF At
<1>9. memories # <<>> => call'[c] = Idle
  BY <1>2, <1>5 DEF ConfirmedForGood
<1> QED
  BY <1>1, <1>2, <1>4, <1>5, <1>6, <1>8, <1>9

\* The handlers that begin carry the next version, or text that is cited.
LEMMA BeginsSerially ==
    ASSUME IInv, SerialInv, NEW c \in Threads
    PROVE  /\ CreateBrief(c) => SerialInv'
           /\ \A text \in Texts : EditDocument(c, text) => SerialInv'
           /\ \A status \in {"open", "snoozed"} : PatchItem(c, status) => SerialInv'
           /\ \A m \in DOMAIN memories : Accept(c, m) => SerialInv'
<1>1. ASSUME CreateBrief(c) PROVE SerialInv'
  <2> DEFINE h == [Idle EXCEPT !.plan = <<"document", "item">>,
                               !.document = [version |-> 1, text |-> Draft],
                               !.item = [status |-> "open", memory |-> 0]]
  <2>1. /\ h.plan = <<"document", "item">> /\ h.item = [status |-> "open", memory |-> 0]
        /\ h.document = [version |-> 1, text |-> Draft]
        /\ h.at = Idle.at /\ h.memory = Idle.memory
    BY DEF Idle
  <2>2. h \in Call
    BY <2>1, GovernanceAssumption, IdleType DEF Call, Document, Item, Plans
  <2>3. h.plan # <<>> /\ Head(h.plan) = "document" /\ h.document.version = document.version + 1
    BY <1>1, <2>1 DEF CreateBrief
  <2>4. Begin(c, h) /\ document.version = 0
    BY <1>1 DEF CreateBrief
  <2>5. CASE disturbed'
    BY <2>5 DEF SerialInv
  <2>6. CASE ~disturbed'
    <3>1. ~disturbed
      BY <2>2, <2>3, <2>4, <2>6, BeginStep DEF IInv
    <3>2. memories = <<>>
      BY <2>4, <3>1 DEF SerialInv, ConfirmedForGood
    <3> QED
      BY <2>2, <2>3, <2>4, <3>2, BeginSerial
  <2> QED
    BY <2>5, <2>6
<1>2. ASSUME NEW text \in Texts, EditDocument(c, text) PROVE SerialInv'
  <2> DEFINE h == [Idle EXCEPT !.plan = <<"document">>,
                               !.document = [version |-> document.version + 1, text |-> text]]
  <2>1. /\ h.plan = <<"document">> /\ h.item = Idle.item /\ h.at = Idle.at
        /\ h.document = [version |-> document.version + 1, text |-> text]
        /\ h.memory = Idle.memory
    BY DEF Idle
  <2>2. h.document \in Document
    BY <2>1 DEF Document, IInv, TypeOK
  <2>3. h \in Call
    BY <2>1, <2>2, IdleType DEF Call, Plans
  <2>4. /\ h.plan # <<>> /\ Head(h.plan) = "document"
        /\ h.document.version = document.version + 1
        /\ h.plan \notin {<<"item">>, <<"document", "item">>}
    BY <2>1
  <2>5. Begin(c, h)
    BY <1>2 DEF EditDocument
  <2> QED
    BY <2>3, <2>4, <2>5, BeginSerial
<1>3. ASSUME NEW status \in {"open", "snoozed"}, PatchItem(c, status) PROVE SerialInv'
  <2> DEFINE h == [Idle EXCEPT !.plan = <<"item">>, !.item = [item EXCEPT !.status = status]]
  <2>1. /\ h.plan = <<"item">> /\ h.item = [item EXCEPT !.status = status]
        /\ h.document = Idle.document /\ h.at = Idle.at /\ h.memory = Idle.memory
    BY DEF Idle
  <2>2. h.item \in Item
    BY <2>1 DEF Item, IInv, TypeOK
  <2>3. h \in Call
    BY <2>1, <2>2, IdleType DEF Call, Plans
  <2>4. h.plan # <<>> /\ Head(h.plan) = "item"
    BY <2>1
  <2>5. Begin(c, h) /\ item.status # "resolved"
    BY <1>3 DEF PatchItem
  <2>6. CASE disturbed'
    BY <2>6 DEF SerialInv
  <2>7. CASE ~disturbed'
    <3>1. ~disturbed
      BY <2>3, <2>4, <2>5, <2>7, BeginStep DEF IInv
    <3>2. memories = <<>>
      BY <2>5, <3>1 DEF SerialInv, ConfirmedForGood
    <3> QED
      BY <2>3, <2>4, <2>5, <3>2, BeginSerial
  <2> QED
    BY <2>6, <2>7
<1>4. ASSUME NEW m \in DOMAIN memories, Accept(c, m) PROVE SerialInv'
  <2> DEFINE h == [Idle EXCEPT !.plan = <<"memory">>, !.at = m,
                               !.memory = [memories[m] EXCEPT !.status = "accepted"]]
  <2>1. memories[m] \in Memory /\ m \in Nat
    BY DEF IInv, TypeOK
  <2>2. /\ h \in Call /\ h.plan = <<"memory">>
        /\ h.memory.version = memories[m].version /\ h.memory.text = memories[m].text
    BY <2>1, IdleType DEF Call, Memory, Plans
  <2>3. /\ h.plan # <<>> /\ Head(h.plan) = "memory"
        /\ h.plan \notin {<<"item">>, <<"document", "item">>}
    BY <2>2
  <2>4. Begin(c, h)
    BY <1>4 DEF Accept
  <2>5. CASE disturbed'
    BY <2>5 DEF SerialInv
  <2>6. CASE ~disturbed'
    <3>1. ~disturbed
      BY <2>2, <2>3, <2>4, <2>6, BeginStep DEF IInv
    <3>2. <<h.memory.version, h.memory.text>> \in stored
      BY <2>2, <3>1 DEF SerialInv, MemoriesCite
    <3> QED
      BY <2>2, <2>3, <2>4, <3>2, BeginSerial
  <2> QED
    BY <2>5, <2>6
<1> QED
  BY <1>1, <1>2, <1>3, <1>4

\* Every step keeps the serial invariant.
LEMMA SerialStep == IInv /\ SerialInv /\ [Next]_vars => SerialInv'
<1> SUFFICES ASSUME IInv, SerialInv, [Next]_vars PROVE SerialInv'
  OBVIOUS
<1>1. ASSUME NEW c \in Threads, SaveDocument(c), ~disturbed' PROVE SerialInv'
  <2>1. /\ At(c, "document") /\ call[c].plan # <<>> /\ Proceed(c) /\ call[c] \in Call
        /\ document' = call[c].document /\ UNCHANGED <<item, memories>>
        /\ stored' = stored \cup {<<call[c].document.version, call[c].document.text>>}
    BY <1>1 DEF SaveDocument, At, IInv, TypeOK
  <2>2. /\ NextIsNew /\ MemoriesCite /\ ConfirmedForGood /\ VersionsNameTexts
        /\ OneByOne' /\ \A d \in Threads : ~At(d, "document")' /\ ~At(d, "memory")'
        /\ memories # <<>> => \A d \in Threads : call'[d] = Idle
    BY <1>1, <2>1, ProceedSerial
  <2>3. document \in Document /\ document' \in Document /\ stored \in SUBSET (Nat \X Texts)
    BY <2>1 DEF IInv, TypeOK, Call
  <2>4. document'.version = document.version + 1 /\ document.version \in Nat
    BY <2>1, <2>2, <2>3 DEF NextIsNew, Document
  <2>5. \A p \in stored : p[1] \in Nat /\ p[1] <= document.version
    BY <2>2, <2>3 DEF NextIsNew
  <2>6. NextIsNew'
    BY <2>1, <2>2, <2>4, <2>5 DEF NextIsNew
  <2>7. VersionsNameTexts'
    BY <2>1, <2>2, <2>4, <2>5 DEF VersionsNameTexts
  <2>8. MemoriesCite'
    BY <2>1, <2>2 DEF MemoriesCite
  <2>9. ConfirmedForGood'
    BY <2>1, <2>2, <2>4, IdleType DEF ConfirmedForGood
  <2> QED
    BY <2>2, <2>6, <2>7, <2>8, <2>9 DEF SerialInv
<1>2. ASSUME NEW c \in Threads, SaveItem(c), ~disturbed' PROVE SerialInv'
  <2>1. /\ call[c].plan # <<>> /\ Head(call[c].plan) = "item" /\ Proceed(c) /\ call[c] \in Call
        /\ UNCHANGED <<document, memories, stored>>
    BY <1>2 DEF SaveItem, At, IInv, TypeOK
  <2>2. call[c].plan = <<"item">>
    BY <2>1 DEF Call, Plans
  <2>3. /\ NextIsNew /\ MemoriesCite /\ ConfirmedForGood /\ VersionsNameTexts
        /\ OneByOne' /\ \A d \in Threads : ~At(d, "document")' /\ ~At(d, "memory")'
    BY <1>2, <2>1, ProceedSerial
  <2>4. memories = <<>>
    BY <2>2, <2>3 DEF ConfirmedForGood
  <2>5. NextIsNew' /\ VersionsNameTexts' /\ MemoriesCite' /\ ConfirmedForGood'
    BY <2>1, <2>3, <2>4 DEF NextIsNew, VersionsNameTexts, MemoriesCite, ConfirmedForGood
  <2> QED
    BY <2>3, <2>5 DEF SerialInv
<1>3. ASSUME NEW c \in Threads, SaveMemory(c), ~disturbed' PROVE SerialInv'
  <2>1. /\ At(c, "memory") /\ call[c].plan # <<>> /\ Proceed(c) /\ call[c] \in Call
        /\ memories' = [memories EXCEPT ![call[c].at] = call[c].memory]
        /\ UNCHANGED <<document, item, stored>>
    BY <1>3 DEF SaveMemory, At, IInv, TypeOK
  <2>2. /\ NextIsNew /\ MemoriesCite /\ ConfirmedForGood /\ VersionsNameTexts
        /\ OneByOne' /\ \A d \in Threads : ~At(d, "document")' /\ ~At(d, "memory")'
        /\ memories # <<>> => \A d \in Threads : call'[d] = Idle
    BY <1>3, <2>1, ProceedSerial
  <2>3. call[c].at \in DOMAIN memories /\ call[c].memory \in Memory /\ memories \in Seq(Memory)
    BY <2>1 DEF IInv, TypeOK, PlacesExist, Call
  <2>4. DOMAIN memories' = DOMAIN memories /\ Len(memories') = Len(memories)
    BY <2>1, <2>3
  <2>5. MemoriesCite'
    <3>1. ASSUME NEW m \in DOMAIN memories
          PROVE  <<memories'[m].version, memories'[m].text>> \in stored
      BY <2>1, <2>2, <2>3 DEF MemoriesCite
    <3> QED
      BY <2>1, <2>2, <2>4, <3>1 DEF MemoriesCite
  <2>6. memories # <<>>
    BY <2>3
  <2>7. NextIsNew' /\ VersionsNameTexts'
    BY <2>1, <2>2 DEF NextIsNew, VersionsNameTexts
  <2>8. ConfirmedForGood'
    BY <2>1, <2>2, <2>4, <2>6, IdleType DEF ConfirmedForGood
  <2> QED
    BY <2>2, <2>5, <2>7, <2>8 DEF SerialInv
<1>4. ASSUME NEW c \in Threads, Die(c) PROVE SerialInv'
  BY <1>4 DEF Die, SerialInv
<1>5. ASSUME NEW expected \in 1..(MaxCalls + 1), NEW text \in Texts, Confirm(expected, text),
             ~disturbed'
      PROVE  SerialInv'
  <2>1. /\ item.status = "open" /\ call' = call
        /\ document' = [version |-> document.version + 1, text |-> text]
        /\ stored' = stored \cup {<<document.version + 1, text>>}
        /\ memories' = Append(memories, [version |-> document.version + 1, text |-> text,
                                         status |-> "proposed"])
        /\ item' = [status |-> "resolved", memory |-> Len(memories) + 1]
        /\ disturbed' = (disturbed \/ InFlight # {})
    BY <1>5 DEF Confirm, Arrive
  <2>2. ~disturbed /\ \A d \in Threads : call[d] = Idle
    BY <1>5, <2>1 DEF InFlight
  <2>3. OneByOne /\ NextIsNew /\ MemoriesCite /\ ConfirmedForGood /\ VersionsNameTexts
    BY <2>2 DEF SerialInv
  <2>4. memories = <<>>
    BY <2>1, <2>3 DEF ConfirmedForGood
  <2>5. document.version \in Nat /\ stored \in SUBSET (Nat \X Texts)
    BY DEF IInv, TypeOK, Document
  <2>6. \A p \in stored : p[1] \in Nat /\ p[1] <= document.version
    BY <2>3, <2>5 DEF NextIsNew
  <2>7. /\ Len(memories') = 1 /\ DOMAIN memories' = {1}
        /\ memories'[1] = [version |-> document.version + 1, text |-> text, status |-> "proposed"]
        /\ item' = [status |-> "resolved", memory |-> 1]
    BY <2>1, <2>4
  <2>8. OneByOne' /\ NextIsNew'
    BY <2>1, <2>2, <2>5, <2>6, IdleType DEF OneByOne, NextIsNew, At
  <2>9. VersionsNameTexts'
    BY <2>1, <2>3, <2>5, <2>6 DEF VersionsNameTexts
  <2>10. MemoriesCite'
    BY <2>1, <2>2, <2>7, IdleType DEF MemoriesCite, At
  <2>11. ConfirmedForGood'
    BY <2>1, <2>2, <2>5, <2>7, IdleType DEF ConfirmedForGood
  <2> QED
    BY <2>8, <2>9, <2>10, <2>11 DEF SerialInv
<1>6. CASE UNCHANGED vars
  BY <1>6 DEF vars, SerialInv, OneByOne, NextIsNew, MemoriesCite, ConfirmedForGood,
              VersionsNameTexts, At
<1>7. CASE disturbed'
  BY <1>7 DEF SerialInv
<1> QED
  BY <1>1, <1>2, <1>3, <1>4, <1>5, <1>6, <1>7, BeginsSerially DEF Next

\* The serial invariant holds in every state of every behaviour.
LEMMA SerialInvariance == Spec => [](IInv /\ SerialInv)
<1>1. Init => SerialInv
  <2> SUFFICES ASSUME Init PROVE SerialInv
    OBVIOUS
  <2>1. \A c \in Threads : call[c] = Idle
    BY DEF Init
  <2> QED
    BY <2>1, IdleType DEF Init, SerialInv, OneByOne, NextIsNew, MemoriesCite, ConfirmedForGood,
                          VersionsNameTexts, At
<1> QED
  BY <1>1, InitIInv, IInvStep, SerialStep, PTL DEF Spec

\* Without overlap and death a Brief becomes candidate memory once, and stays resolved by it
\* (confirm_brief, update_inbox_item), for any number of calls.
THEOREM ConfirmedOnce == Spec => []SerialConfirmedOnce
<1>1. IInv /\ SerialInv => SerialConfirmedOnce
  <2> SUFFICES ASSUME IInv, SerialInv, ~disturbed
               PROVE  /\ Len(memories) <= 1
                      /\ memories # <<>> => item = [status |-> "resolved", memory |-> 1]
    BY DEF SerialConfirmedOnce
  <2>1. ConfirmedForGood
    BY DEF SerialInv
  <2>2. memories = <<>> => Len(memories) = 0
    OBVIOUS
  <2>3. memories # <<>> => Len(memories) = 1 /\ item = [status |-> "resolved", memory |-> 1]
    BY <2>1, Zenon DEF ConfirmedForGood
  <2>4. Len(memories) = 0 \/ Len(memories) = 1
    BY <2>2, <2>3, Zenon
  <2>5. Len(memories) <= 1
    <3>1. Len(memories) \in Nat
      BY DEF IInv, TypeOK
    <3>2. \A n \in Nat : n = 0 \/ n = 1 => n <= 1
      OBVIOUS
    <3> QED
      BY <2>4, <3>1, <3>2, Zenon
  <2> QED
    BY <2>3, <2>5
<1> QED
  BY <1>1, SerialInvariance, PTL

\* Without overlap and death a version of the document names one text, and a candidate
\* memory has the text of the version that it cites (confirm_brief, update_document).
THEOREM VersionsCited == Spec => []SerialVersionNamesOneText
<1>1. IInv /\ SerialInv => SerialVersionNamesOneText
  BY DEF SerialInv, MemoriesCite, VersionsNameTexts, SerialVersionNamesOneText
<1> QED
  BY <1>1, SerialInvariance, PTL

---------------------------------------------------------------------------
(* Memory: what a handler may save.                                        *)

AcceptedItem == [scope |-> "team_accepted", status |-> "accepted"]

\* Nothing is accepted but for the team.
AcceptedIsShared(its) ==
    \A i \in DOMAIN its : its[i].status = "accepted" => its[i] = AcceptedItem

\* Who is going to save an item accepts one that is not private, or disputes a private one.
ItemFits(t, its) ==
    t.plan = <<"item">> =>
        /\ t.at \in DOMAIN its
        /\ \/ t.item = AcceptedItem /\ its[t.at].scope # "private"
           \/ /\ t.item.scope = "private" /\ t.item.status # "accepted"
              /\ its[t.at].scope = "private"

MIInv ==
    /\ MemoryTypeOK
    /\ AcceptedIsShared(items)
    /\ \A c \in Threads : ItemFits(task[c], items)

Daily(ps) == {m \in DOMAIN ps : ps[m].kind = "daily_summary"}

\* Who is going to save a skill has seen whether it is deprecated, and who is going to save
\* the summary of the day has seen that there is none.
SerialFits(t, ps, ss) ==
    /\ (t.plan = <<"skill">> /\ t.at \in DOMAIN ss /\ ss[t.at].status = "deprecated") =>
          t.skill = ss[t.at]
    /\ (t.plan \in {<<"collect", "personal">>, <<"personal">>}
          /\ t.personal.kind = "daily_summary") => Daily(ps) = {}

\* Handlers take turns.
OneAtWork == \A c, d \in Threads : task[c] # NoTask /\ task[d] # NoTask => c = d

MSerialInv ==
    ~disturbed => /\ OneAtWork
                  /\ \A c \in Threads : SerialFits(task[c], personal, skills)
                  /\ \A m, n \in Daily(personal) : m = n

---------------------------------------------------------------------------
(* Lemmas about plans and handlers.                                        *)

LEMMA PlanRest ==
    ASSUME NEW p \in TaskPlans, p # <<>>
    PROVE  /\ Head(p) = "exists" => p = <<"exists", "collect", "personal">>
                                    /\ Tail(p) = <<"collect", "personal">>
           /\ Head(p) = "collect" => p = <<"collect", "personal">> /\ Tail(p) = <<"personal">>
           /\ Head(p) = "candidate" => p = <<"candidate", "relation">>
                                       /\ Tail(p) = <<"relation">>
           /\ Head(p) = "personal" => p = <<"personal">> /\ Tail(p) = <<>>
           /\ Head(p) = "relation" => p = <<"relation">> /\ Tail(p) = <<>>
           /\ Head(p) = "item" => p = <<"item">> /\ Tail(p) = <<>>
           /\ Head(p) = "learn" => p = <<"learn">> /\ Tail(p) = <<>>
           /\ Head(p) = "skill" => p = <<"skill">> /\ Tail(p) = <<>>
<1>1. CASE p = <<"exists", "collect", "personal">>
  <2>1. Head(p) = "exists" /\ Tail(p) = <<"collect", "personal">>
    BY <1>1
  <2> QED
    BY <1>1, <2>1
<1>2. CASE p = <<"collect", "personal">>
  <2>1. Head(p) = "collect" /\ Tail(p) = <<"personal">>
    BY <1>2
  <2> QED
    BY <1>2, <2>1
<1>3. CASE p = <<"candidate", "relation">>
  <2>1. Head(p) = "candidate" /\ Tail(p) = <<"relation">>
    BY <1>3
  <2> QED
    BY <1>3, <2>1
<1>4. CASE p = <<"personal">>
  <2>1. Head(p) = "personal" /\ Tail(p) = <<>>
    BY <1>4
  <2> QED
    BY <1>4, <2>1
<1>5. CASE p = <<"relation">>
  <2>1. Head(p) = "relation" /\ Tail(p) = <<>>
    BY <1>5
  <2> QED
    BY <1>5, <2>1
<1>6. CASE p = <<"item">>
  <2>1. Head(p) = "item" /\ Tail(p) = <<>>
    BY <1>6
  <2> QED
    BY <1>6, <2>1
<1>7. CASE p = <<"learn">>
  <2>1. Head(p) = "learn" /\ Tail(p) = <<>>
    BY <1>7
  <2> QED
    BY <1>7, <2>1
<1>8. CASE p = <<"skill">>
  <2>1. Head(p) = "skill" /\ Tail(p) = <<>>
    BY <1>8
  <2> QED
    BY <1>8, <2>1
<1> QED
  BY <1>1, <1>2, <1>3, <1>4, <1>5, <1>6, <1>7, <1>8 DEF TaskPlans

\* A handler with nothing to do carries nothing.
LEMMA NoTaskFits ==
    /\ NoTask \in Task /\ NoTask.plan = <<>>
    /\ \A its : ItemFits(NoTask, its)
    /\ \A ps, ss : SerialFits(NoTask, ps, ss)
<1>1. NoTask \in Task /\ NoTask.plan = <<>>
  BY DEF NoTask, Task, TaskPlans, ANote, AnItem, ASkill, Personal, TeamItem, Skill, Layers, Kinds
<1> QED
  BY <1>1 DEF ItemFits, SerialFits

\* A handler that begins, where it may, keeps the invariants if it fits.
LEMMA BeginKeeps ==
    ASSUME MIInv, MSerialInv, NEW c \in Threads, NEW t \in Task, BeginTask(c, t),
           ItemFits(t, items), ~disturbed => SerialFits(t, personal, skills)
    PROVE  /\ MIInv' /\ MSerialInv'
           /\ UNCHANGED tiers
<1>1. task' = [task EXCEPT ![c] = t] /\ UNCHANGED <<tiers, faults>> /\ made < MaxCalls
      /\ made' = made + 1 /\ disturbed' = (disturbed \/ AtWork # {})
  BY DEF BeginTask, Called
<1>2. task' \in [Threads -> Task] /\ \A d \in Threads : task'[d] = IF d = c THEN t ELSE task[d]
  BY <1>1 DEF MIInv, MemoryTypeOK
<1>3. made' \in 0..MaxCalls
  BY <1>1, GovernanceAssumption DEF MIInv, MemoryTypeOK
<1>4. disturbed' \in BOOLEAN /\ (~disturbed' => ~disturbed /\ AtWork = {})
  BY <1>1, Zenon
<1>5. UNCHANGED <<personal, items, relations, skills>>
  BY <1>1 DEF tiers
<1>6. MIInv'
  <2>1. MemoryTypeOK'
    BY <1>1, <1>2, <1>3, <1>4, <1>5 DEF MIInv, MemoryTypeOK
  <2>2. \A d \in Threads : ItemFits(task'[d], items')
    BY <1>2, <1>5 DEF MIInv
  <2>3. AcceptedIsShared(items')
    BY <1>5 DEF MIInv
  <2> QED
    BY <2>1, <2>2, <2>3 DEF MIInv
<1>7. MSerialInv'
  <2> SUFFICES ASSUME ~disturbed'
               PROVE  (/\ OneAtWork
                       /\ \A d \in Threads : SerialFits(task[d], personal, skills)
                       /\ \A m, n \in Daily(personal) : m = n)'
    BY DEF MSerialInv
  <2>1. \A d \in Threads : task[d] = NoTask
    BY <1>4 DEF AtWork
  <2>2. OneAtWork'
    BY <1>2, <2>1 DEF OneAtWork
  <2>3. \A d \in Threads : SerialFits(task'[d], personal', skills')
    BY <1>2, <1>4, <1>5, <2>1, NoTaskFits
  <2>4. \A m, n \in Daily(personal') : m = n
    BY <1>4, <1>5 DEF MSerialInv
  <2> QED
    BY <2>2, <2>3, <2>4
<1> QED
  BY <1>1, <1>6, <1>7

\* What is saved has its type, and what is left of the handler that saves it fits.
SavedFits(t) ==
    /\ personal' \in Seq(Personal) /\ items' \in Seq(TeamItem)
    /\ relations' \in SUBSET (Nat \X Nat) /\ skills' \in Seq(Skill)
    /\ AcceptedIsShared(items') /\ ItemFits(t, items')
    /\ \A u \in Task : ItemFits(u, items) => ItemFits(u, items')
    /\ ~disturbed => SerialFits(t, personal', skills')
    /\ ~disturbed => \A m, n \in Daily(personal') : m = n

\* A handler that goes on keeps the invariants if what it saves fits.
LEMMA ContinueKeeps ==
    ASSUME MIInv, MSerialInv, NEW c \in Threads, NEW t \in Task, task[c].plan # <<>>,
           Continue(c, t), SavedFits(t)
    PROVE  MIInv' /\ MSerialInv'
<1>1. task' = [task EXCEPT ![c] = IF t.plan = <<>> THEN NoTask ELSE t]
      /\ UNCHANGED <<disturbed, made, faults>>
  BY DEF Continue
<1>2. /\ task' \in [Threads -> Task] /\ \A d \in Threads \ {c} : task'[d] = task[d]
      /\ task'[c] \in {NoTask, t}
  BY <1>1, NoTaskFits DEF MIInv, MemoryTypeOK
<1>3. MemoryTypeOK'
  BY <1>1, <1>2 DEF MIInv, MemoryTypeOK, SavedFits
<1>4. \A d \in Threads : ItemFits(task'[d], items')
  BY <1>2, NoTaskFits DEF MIInv, MemoryTypeOK, SavedFits
<1>5. MIInv'
  BY <1>3, <1>4 DEF MIInv, SavedFits
<1>6. MSerialInv'
  <2> SUFFICES ASSUME ~disturbed'
               PROVE  (/\ OneAtWork
                       /\ \A d \in Threads : SerialFits(task[d], personal, skills)
                       /\ \A m, n \in Daily(personal) : m = n)'
    BY DEF MSerialInv
  <2>1. ~disturbed /\ task[c] # NoTask
    BY <1>1, NoTaskFits
  <2>2. \A d \in Threads \ {c} : task[d] = NoTask
    BY <2>1 DEF MSerialInv, OneAtWork
  <2>3. OneAtWork'
    BY <1>2, <2>2 DEF OneAtWork
  <2>4. \A d \in Threads : SerialFits(task'[d], personal', skills')
    BY <1>2, <2>1, <2>2, NoTaskFits DEF SavedFits
  <2> QED
    BY <2>1, <2>3, <2>4 DEF SavedFits
<1> QED
  BY <1>5, <1>6

\* What is left to do.
LEMMA DoneStep ==
    ASSUME MIInv, NEW c \in Threads, task[c].plan # <<>>
    PROVE  /\ task[c] \in Task /\ task[c].plan \in TaskPlans /\ Done(c) \in Task
           /\ Done(c).plan = Tail(task[c].plan)
           /\ Done(c).at = task[c].at /\ Done(c).personal = task[c].personal
           /\ Done(c).item = task[c].item /\ Done(c).skill = task[c].skill
<1>1. task[c] \in Task /\ task[c].plan \in TaskPlans
  BY DEF MIInv, MemoryTypeOK, Task
<1>2. Tail(task[c].plan) \in TaskPlans
  <2>1. Head(task[c].plan) \in {"exists", "collect", "personal", "candidate", "relation",
                                "item", "learn", "skill"}
    BY <1>1 DEF TaskPlans
  <2> QED
    BY <1>1, <2>1, PlanRest DEF TaskPlans
<1> QED
  BY <1>1, <1>2 DEF Done, Task

\* What a step may do to items and to skills.
Decided ==
    /\ \A i \in DOMAIN items :
          /\ i \in DOMAIN items'
          /\ items[i].status = "accepted" => items'[i] = items[i]
          /\ (items[i].scope = "private") = (items'[i].scope = "private")
    /\ disturbed \/ \A s \in DOMAIN skills :
          skills[s].status = "deprecated" => skills'[s] = skills[s]

Keeps == MIInv' /\ MSerialInv' /\ Decided

LEMMA SameIsDecided == UNCHANGED <<items, skills>> => Decided
  BY DEF Decided

---------------------------------------------------------------------------
(* The handlers that begin.                                                *)

LEMMA SummaryKeeps ==
    ASSUME MIInv, MSerialInv, NEW c \in Threads, NEW layer \in Layers, NEW kind \in Kinds,
           NEW p \in {<<"exists", "collect", "personal">>, <<"collect", "personal">>},
           kind = "daily_summary" => p = <<"exists", "collect", "personal">>,
           BeginTask(c, [NoTask EXCEPT !.plan = p, !.personal = Summary(layer, kind)])
    PROVE  Keeps
<1> DEFINE x == Summary(layer, kind)
           t == [NoTask EXCEPT !.plan = p, !.personal = x]
<1>1. x \in Personal /\ x.kind = kind
  BY DEF Summary, Personal
<1>2. BeginTask(c, t) /\ p \in TaskPlans
  BY DEF TaskPlans
<1> HIDE DEF x
<1>3. t \in Task /\ t.plan = p /\ t.personal.kind = kind
  BY <1>1, <1>2, NoTaskFits DEF Task
<1> HIDE DEF t
<1>4. p \notin {<<"skill">>, <<"personal">>, <<"item">>}
      /\ (kind = "daily_summary" => p # <<"collect", "personal">>)
  OBVIOUS
<1>5. ItemFits(t, items) /\ SerialFits(t, personal, skills)
  BY <1>3, <1>4 DEF ItemFits, SerialFits
<1> QED
  BY <1>2, <1>3, <1>5, BeginKeeps, SameIsDecided DEF Keeps, tiers

LEMMA SummariesKeep ==
    ASSUME MIInv, MSerialInv, NEW c \in Threads,
           SummarizeDay(c) \/ SummarizeProject(c) \/ ArchiveProject(c)
    PROVE  Keeps
<1>1. /\ {"short", "mid", "long"} \subseteq Layers
      /\ {"daily_summary", "short_term_rollup", "project_archive"} \subseteq Kinds
  BY DEF Layers, Kinds
<1>2. CASE SummarizeDay(c)
  <2>1. BeginTask(c, [NoTask EXCEPT !.plan = <<"exists", "collect", "personal">>,
                                    !.personal = Summary("short", "daily_summary")])
    BY <1>2 DEF SummarizeDay
  <2> QED
    BY <1>1, <2>1, SummaryKeeps
<1>3. CASE SummarizeProject(c)
  <2>1. BeginTask(c, [NoTask EXCEPT !.plan = <<"collect", "personal">>,
                                    !.personal = Summary("mid", "short_term_rollup")])
    BY <1>3 DEF SummarizeProject
  <2> QED
    BY <1>1, <2>1, SummaryKeeps
<1>4. CASE ArchiveProject(c)
  <2>1. BeginTask(c, [NoTask EXCEPT !.plan = <<"collect", "personal">>,
                                    !.personal = Summary("long", "project_archive")])
    BY <1>4 DEF ArchiveProject
  <2> QED
    BY <1>1, <2>1, SummaryKeeps
<1> QED
  BY <1>2, <1>3, <1>4

LEMMA ItemsBeginKeep ==
    ASSUME MIInv, MSerialInv, NEW c \in Threads
    PROVE  /\ \A m \in DOMAIN personal : Share(c, m) => Keeps
           /\ \A i \in DOMAIN items : AcceptItem(c, i) \/ Dispute(c, i) => Keeps
<1>1. ASSUME NEW m \in DOMAIN personal, Share(c, m) PROVE Keeps
  <2> DEFINE t == [NoTask EXCEPT !.plan = <<"candidate", "relation">>, !.at = m]
  <2>1. m \in Nat
    BY DEF MIInv, MemoryTypeOK
  <2>2. t \in Task /\ t.plan = <<"candidate", "relation">>
    BY <2>1, NoTaskFits DEF Task, TaskPlans
  <2>3. BeginTask(c, t)
    BY <1>1 DEF Share
  <2> HIDE DEF t
  <2>4. ItemFits(t, items) /\ SerialFits(t, personal, skills)
    BY <2>2 DEF ItemFits, SerialFits
  <2> QED
    BY <2>2, <2>3, <2>4, BeginKeeps, SameIsDecided DEF Keeps, tiers
<1>2. ASSUME NEW i \in DOMAIN items, AcceptItem(c, i) PROVE Keeps
  <2> DEFINE t == [NoTask EXCEPT !.plan = <<"item">>, !.at = i,
                      !.item = [scope |-> "team_accepted", status |-> "accepted"]]
  <2>1. i \in Nat /\ items[i] = AnItem
    BY <1>2 DEF MIInv, MemoryTypeOK, AcceptItem
  <2>2. t \in Task /\ t.plan = <<"item">> /\ t.at = i /\ t.item = AcceptedItem
    BY <2>1, NoTaskFits DEF Task, TaskPlans, AcceptedItem, TeamItem
  <2>3. BeginTask(c, t)
    BY <1>2 DEF AcceptItem
  <2> HIDE DEF t
  <2>4. ItemFits(t, items) /\ SerialFits(t, personal, skills)
    BY <2>1, <2>2 DEF ItemFits, SerialFits, AnItem
  <2> QED
    BY <2>2, <2>3, <2>4, BeginKeeps, SameIsDecided DEF Keeps, tiers
<1>3. ASSUME NEW i \in DOMAIN items, Dispute(c, i) PROVE Keeps
  <2> DEFINE t == [NoTask EXCEPT !.plan = <<"item">>, !.at = i,
                      !.item = [items[i] EXCEPT !.status = "disputed"]]
  <2>1. i \in Nat /\ items[i] \in TeamItem /\ items[i].scope = "private"
    BY <1>3 DEF MIInv, MemoryTypeOK, Dispute
  <2>2. /\ [items[i] EXCEPT !.status = "disputed"] \in TeamItem
        /\ [items[i] EXCEPT !.status = "disputed"].scope = "private"
        /\ [items[i] EXCEPT !.status = "disputed"].status = "disputed"
    BY <2>1 DEF TeamItem
  <2>3. /\ t \in Task /\ t.plan = <<"item">> /\ t.at = i
        /\ t.item = [items[i] EXCEPT !.status = "disputed"]
    BY <2>1, <2>2, NoTaskFits DEF Task, TaskPlans
  <2>4. BeginTask(c, t)
    BY <1>3 DEF Dispute
  <2> HIDE DEF t
  <2>5. ItemFits(t, items) /\ SerialFits(t, personal, skills)
    BY <2>1, <2>2, <2>3 DEF ItemFits, SerialFits
  <2> QED
    BY <2>3, <2>4, <2>5, BeginKeeps, SameIsDecided DEF Keeps, tiers
<1> QED
  BY <1>1, <1>2, <1>3

LEMMA SkillsBeginKeep ==
    ASSUME MIInv, MSerialInv, NEW c \in Threads
    PROVE  /\ Learn(c) => Keeps
           /\ \A s \in DOMAIN skills :
                 Activate(c, s) \/ ShareSkill(c, s) \/ Deprecate(c, s) => Keeps
<1>1. ASSUME Learn(c) PROVE Keeps
  <2> DEFINE t == [NoTask EXCEPT !.plan = <<"learn">>]
  <2>1. t \in Task /\ t.plan = <<"learn">>
    BY NoTaskFits DEF Task, TaskPlans
  <2>2. BeginTask(c, t)
    BY <1>1 DEF Learn
  <2> HIDE DEF t
  <2>3. ItemFits(t, items) /\ SerialFits(t, personal, skills)
    BY <2>1 DEF ItemFits, SerialFits
  <2> QED
    BY <2>1, <2>2, <2>3, BeginKeeps, SameIsDecided DEF Keeps, tiers
<1>2. ASSUME NEW s \in DOMAIN skills, NEW k \in Skill,
             BeginTask(c, [NoTask EXCEPT !.plan = <<"skill">>, !.at = s, !.skill = k]),
             skills[s].status = "deprecated" => k = skills[s]
      PROVE  Keeps
  <2> DEFINE t == [NoTask EXCEPT !.plan = <<"skill">>, !.at = s, !.skill = k]
  <2>1. s \in Nat
    BY DEF MIInv, MemoryTypeOK
  <2>2. t \in Task /\ t.plan = <<"skill">> /\ t.at = s /\ t.skill = k
    BY <2>1, NoTaskFits DEF Task, TaskPlans
  <2>3. BeginTask(c, t)
    BY <1>2
  <2> HIDE DEF t
  <2>4. ItemFits(t, items) /\ SerialFits(t, personal, skills)
    BY <1>2, <2>2 DEF ItemFits, SerialFits
  <2> QED
    BY <2>2, <2>3, <2>4, BeginKeeps, SameIsDecided DEF Keeps, tiers
<1>3. ASSUME NEW s \in DOMAIN skills, Activate(c, s) \/ ShareSkill(c, s) \/ Deprecate(c, s)
      PROVE  Keeps
  <2>1. skills[s] \in Skill
    BY DEF MIInv, MemoryTypeOK
  <2>2. /\ [skills[s] EXCEPT !.status = "active"] \in Skill
        /\ [skills[s] EXCEPT !.scope = "project"] \in Skill
        /\ [skills[s] EXCEPT !.status = "deprecated"] \in Skill
        /\ skills[s].status = "deprecated" => [skills[s] EXCEPT !.status = "deprecated"] = skills[s]
    BY <2>1 DEF Skill
  <2>3. CASE Activate(c, s)
    BY <1>2, <2>2, <2>3 DEF Activate
  <2>4. CASE ShareSkill(c, s)
    BY <1>2, <2>2, <2>4 DEF ShareSkill
  <2>5. CASE Deprecate(c, s)
    BY <1>2, <2>2, <2>5 DEF Deprecate
  <2> QED
    BY <1>3, <2>3, <2>4, <2>5
<1> QED
  BY <1>1, <1>3

---------------------------------------------------------------------------
(* The handlers that go on.                                                *)

\* A handler that reads on keeps the invariants if what is left of it fits.
LEMMA ReadKeeps ==
    ASSUME MIInv, MSerialInv, NEW c \in Threads, NEW t \in Task, task[c].plan # <<>>,
           Continue(c, t), UNCHANGED tiers,
           t.plan # <<"item">>, ~disturbed => SerialFits(t, personal, skills)
    PROVE  Keeps
<1>1. UNCHANGED <<personal, items, relations, skills>>
  BY DEF tiers
<1>2. ItemFits(t, items)
  BY DEF ItemFits
<1>3. ~disturbed => \A m, n \in Daily(personal') : m = n
  BY <1>1 DEF MSerialInv
<1>4. SavedFits(t)
  BY <1>1, <1>2, <1>3 DEF MIInv, MemoryTypeOK, SavedFits
<1>5. MIInv' /\ MSerialInv'
  BY <1>4, ContinueKeeps
<1> QED
  BY <1>1, <1>5, SameIsDecided DEF Keeps

LEMMA LooksKeep ==
    ASSUME MIInv, MSerialInv, NEW c \in Threads
    PROVE  /\ LookForSummary(c) => Keeps
           /\ Collect(c) => Keeps
           /\ LookForSkill(c) => Keeps
<1>1. ASSUME LookForSummary(c) PROVE Keeps
  <2>1. task[c].plan # <<>> /\ Head(task[c].plan) = "exists" /\ UNCHANGED tiers
    BY <1>1 DEF LookForSummary, TaskAt
  <2>2. Done(c) \in Task /\ Done(c).plan = <<"collect", "personal">>
    BY <2>1, DoneStep, PlanRest
  <2>3. CASE \E m \in DOMAIN personal : personal[m].kind = "daily_summary"
    <3>1. Continue(c, NoTask)
      BY <1>1, <2>3 DEF LookForSummary
    <3>2. NoTask \in Task /\ NoTask.plan # <<"item">> /\ SerialFits(NoTask, personal, skills)
      BY NoTaskFits
    <3> QED
      BY <2>1, <3>1, <3>2, ReadKeeps
  <2>4. CASE ~ \E m \in DOMAIN personal : personal[m].kind = "daily_summary"
    <3>1. Continue(c, Done(c))
      BY <1>1, <2>4 DEF LookForSummary
    <3>2. Done(c).plan # <<"item">> /\ Done(c).plan # <<"skill">>
      BY <2>2
    <3>3. SerialFits(Done(c), personal, skills)
      BY <2>4, <3>2 DEF SerialFits, Daily
    <3> QED
      BY <2>1, <2>2, <3>1, <3>2, <3>3, ReadKeeps
  <2> QED
    BY <2>3, <2>4
<1>2. ASSUME Collect(c) PROVE Keeps
  <2> DEFINE sources == Sources(task[c].personal)
             t == [Done(c) EXCEPT !.personal.from = sources]
  <2>1. task[c].plan # <<>> /\ Head(task[c].plan) = "collect" /\ UNCHANGED tiers
    BY <1>2 DEF Collect, TaskAt
  <2>2. /\ Done(c) \in Task /\ Done(c).plan = <<"personal">>
        /\ Done(c).personal = task[c].personal /\ task[c].plan = <<"collect", "personal">>
    BY <2>1, DoneStep, PlanRest
  <2>3. sources \in SUBSET Nat
    BY DEF Sources, MIInv, MemoryTypeOK
  <2>4. Continue(c, NoTask) \/ Continue(c, t)
    BY <1>2 DEF Collect
  <2>5. CASE Continue(c, NoTask)
    <3>1. NoTask \in Task /\ NoTask.plan # <<"item">> /\ SerialFits(NoTask, personal, skills)
      BY NoTaskFits
    <3> QED
      BY <2>1, <2>5, <3>1, ReadKeeps
  <2>6. CASE Continue(c, t)
    <3> HIDE DEF sources
    <3>1. t \in Task /\ t.plan = <<"personal">> /\ t.personal.kind = task[c].personal.kind
      BY <2>2, <2>3 DEF Task, Personal
    <3>2. ~disturbed => SerialFits(task[c], personal, skills)
      BY DEF MSerialInv
    <3> HIDE DEF t
    <3>3. t.plan # <<"item">> /\ t.plan # <<"skill">>
      BY <3>1
    <3>4. ~disturbed => SerialFits(t, personal, skills)
      BY <2>2, <3>1, <3>2, <3>3 DEF SerialFits
    <3> QED
      BY <2>1, <2>6, <3>1, <3>3, <3>4, ReadKeeps
  <2> QED
    BY <2>4, <2>5, <2>6
<1>3. ASSUME LookForSkill(c) PROVE Keeps
  <2> DEFINE t == [Done(c) EXCEPT !.plan = <<"skill">>]
  <2>1. task[c].plan # <<>> /\ UNCHANGED tiers
    BY <1>3 DEF LookForSkill, TaskAt
  <2>2. Done(c) \in Task
    BY <2>1, DoneStep
  <2>3. CASE skills # <<>>
    <3>1. Continue(c, NoTask)
      BY <1>3, <2>3 DEF LookForSkill
    <3>2. NoTask \in Task /\ NoTask.plan # <<"item">> /\ SerialFits(NoTask, personal, skills)
      BY NoTaskFits
    <3> QED
      BY <2>1, <3>1, <3>2, ReadKeeps
  <2>4. CASE skills = <<>>
    <3>1. Continue(c, t)
      BY <1>3, <2>4 DEF LookForSkill
    <3>2. t \in Task /\ t.plan = <<"skill">>
      BY <2>2 DEF Task, TaskPlans
    <3> HIDE DEF t
    <3>3. t.plan \notin {<<"item">>, <<"personal">>, <<"collect", "personal">>}
      BY <3>2
    <3>4. DOMAIN skills = {}
      BY <2>4
    <3>5. SerialFits(t, personal, skills)
      BY <3>3, <3>4 DEF SerialFits
    <3> QED
      BY <2>1, <3>1, <3>2, <3>3, <3>5, ReadKeeps
  <2> QED
    BY <2>3, <2>4
<1> QED
  BY <1>1, <1>2, <1>3

\* Who has saved the last of its plan has nothing more to fit.
LEMMA LastSaveFits ==
    ASSUME NEW t, t.plan \in {<<>>, <<"relation">>}
    PROVE  /\ \A its : ItemFits(t, its)
           /\ \A ps, ss : SerialFits(t, ps, ss)
<1>1. t.plan \notin {<<"item">>, <<"skill">>, <<"personal">>, <<"collect", "personal">>}
  OBVIOUS
<1> QED
  BY <1>1 DEF ItemFits, SerialFits

LEMMA PersonalKeep ==
    ASSUME MIInv, MSerialInv, NEW c \in Threads
    PROVE  /\ SavePersonal(c) => Keeps
           /\ SaveRelation(c) => Keeps
<1>1. ASSUME SavePersonal(c) PROVE Keeps
  <2>1. /\ task[c].plan # <<>> /\ Head(task[c].plan) = "personal" /\ Continue(c, Done(c))
        /\ personal' = Append(personal, task[c].personal)
        /\ items' = items /\ relations' = relations /\ skills' = skills
    BY <1>1 DEF SavePersonal, TaskAt
  <2>2. Done(c) \in Task /\ Done(c).plan = <<>> /\ task[c].plan = <<"personal">>
        /\ task[c] \in Task
    BY <2>1, DoneStep, PlanRest
  <2>3. task[c].personal \in Personal /\ personal \in Seq(Personal)
    BY <2>2 DEF Task, MIInv, MemoryTypeOK
  <2>4. personal' \in Seq(Personal)
    BY <2>1, <2>3
  <2>5. ASSUME ~disturbed PROVE \A m, n \in Daily(personal') : m = n
    <3>1. SerialFits(task[c], personal, skills) /\ \A m, n \in Daily(personal) : m = n
      BY <2>5 DEF MSerialInv
    <3>2. /\ DOMAIN personal' = 1..(Len(personal) + 1) /\ DOMAIN personal = 1..Len(personal)
          /\ \A m \in 1..Len(personal) : personal'[m] = personal[m]
          /\ personal'[Len(personal) + 1] = task[c].personal
          /\ Len(personal) \in Nat
      BY <2>1, <2>3
    <3>3. CASE task[c].personal.kind = "daily_summary"
      <4>1. Daily(personal) = {}
        BY <2>2, <3>1, <3>3 DEF SerialFits
      <4>2. Daily(personal') \subseteq {Len(personal) + 1}
        BY <3>2, <4>1 DEF Daily
      <4> QED
        BY <4>2
    <3>4. CASE task[c].personal.kind # "daily_summary"
      <4>1. Daily(personal') \subseteq Daily(personal)
        BY <3>2, <3>4 DEF Daily
      <4> QED
        BY <3>1, <4>1
    <3> QED
      BY <3>3, <3>4
  <2>6. ItemFits(Done(c), items') /\ SerialFits(Done(c), personal', skills')
    BY <2>2, LastSaveFits
  <2>7. SavedFits(Done(c))
    BY <2>1, <2>4, <2>5, <2>6 DEF MIInv, MemoryTypeOK, SavedFits
  <2> QED
    BY <2>1, <2>2, <2>7, ContinueKeeps, SameIsDecided DEF Keeps
<1>2. ASSUME SaveRelation(c) PROVE Keeps
  <2>1. /\ task[c].plan # <<>> /\ Head(task[c].plan) = "relation" /\ Continue(c, Done(c))
        /\ relations' = relations \cup {<<task[c].at, m>> : m \in task[c].personal.from}
        /\ items' = items /\ personal' = personal /\ skills' = skills
    BY <1>2 DEF SaveRelation, TaskAt
  <2>2. Done(c) \in Task /\ Done(c).plan = <<>> /\ task[c] \in Task
    BY <2>1, DoneStep, PlanRest
  <2>3. task[c].at \in Nat /\ task[c].personal.from \in SUBSET Nat
    BY <2>2 DEF Task, Personal
  <2>4. relations' \in SUBSET (Nat \X Nat)
    BY <2>1, <2>3 DEF MIInv, MemoryTypeOK
  <2>5. ~disturbed => \A m, n \in Daily(personal') : m = n
    BY <2>1 DEF MSerialInv
  <2>6. ItemFits(Done(c), items') /\ SerialFits(Done(c), personal', skills')
    BY <2>2, LastSaveFits
  <2>7. SavedFits(Done(c))
    BY <2>1, <2>4, <2>5, <2>6 DEF MIInv, MemoryTypeOK, SavedFits
  <2> QED
    BY <2>1, <2>2, <2>7, ContinueKeeps, SameIsDecided DEF Keeps
<1> QED
  BY <1>1, <1>2

LEMMA ItemsKeep ==
    ASSUME MIInv, MSerialInv, NEW c \in Threads
    PROVE  /\ SaveCandidate(c) => Keeps
           /\ SaveTeamItem(c) => Keeps
<1>1. ASSUME SaveCandidate(c) PROVE Keeps
  <2> DEFINE t == [Done(c) EXCEPT !.personal.from = {task[c].at}, !.at = Len(items) + 1]
  <2>1. /\ task[c].plan # <<>> /\ Head(task[c].plan) = "candidate" /\ Continue(c, t)
        /\ items' = Append(items, AnItem)
        /\ personal' = personal /\ relations' = relations /\ skills' = skills
    BY <1>1 DEF SaveCandidate, TaskAt
  <2>2. Done(c) \in Task /\ Done(c).plan = <<"relation">> /\ task[c] \in Task
    BY <2>1, DoneStep, PlanRest
  <2>3. items \in Seq(TeamItem) /\ AnItem \in TeamItem /\ task[c].at \in Nat
    BY <2>2 DEF Task, MIInv, MemoryTypeOK, AnItem, TeamItem
  <2>4. /\ items' \in Seq(TeamItem) /\ Len(items) \in Nat
        /\ DOMAIN items' = 1..(Len(items) + 1) /\ DOMAIN items = 1..Len(items)
        /\ \A i \in 1..Len(items) : items'[i] = items[i]
        /\ items'[Len(items) + 1] = AnItem
    BY <2>1, <2>3
  <2>5. t \in Task /\ t.plan = <<"relation">>
    <3>1. [Done(c) EXCEPT !.personal.from = {task[c].at}] \in Task
      BY <2>2, <2>3 DEF Task, Personal
    <3>2. Len(items) + 1 \in Nat
      BY <2>4
    <3> QED
      BY <2>2, <3>1, <3>2 DEF Task
  <2> HIDE DEF t
  <2>6. AcceptedIsShared(items')
    BY <2>4 DEF MIInv, AcceptedIsShared, AnItem
  <2>7. \A u : ItemFits(u, items) => ItemFits(u, items')
    BY <2>4 DEF ItemFits
  <2>8. /\ personal' \in Seq(Personal) /\ relations' \in SUBSET (Nat \X Nat)
        /\ skills' \in Seq(Skill)
        /\ ~disturbed => \A m, n \in Daily(personal') : m = n
    BY <2>1 DEF MIInv, MemoryTypeOK, MSerialInv
  <2>9. MIInv' /\ MSerialInv'
    <3>1. t.plan \notin {<<"item">>, <<"skill">>, <<"personal">>, <<"collect", "personal">>}
      BY <2>5
    <3>2. ItemFits(t, items') /\ SerialFits(t, personal', skills')
      BY <3>1 DEF ItemFits, SerialFits
    <3>3. SavedFits(t)
      BY <2>4, <2>6, <2>7, <2>8, <3>2 DEF SavedFits
    <3> QED
      BY <2>1, <2>5, <3>3, ContinueKeeps
  <2>10. \A i \in DOMAIN items : i \in DOMAIN items' /\ items'[i] = items[i]
    BY <2>4
  <2> QED
    BY <2>1, <2>9, <2>10 DEF Keeps, Decided
<1>2. ASSUME SaveTeamItem(c) PROVE Keeps
  <2>1. /\ task[c].plan # <<>> /\ Head(task[c].plan) = "item" /\ Continue(c, Done(c))
        /\ items' = [items EXCEPT ![task[c].at] = task[c].item]
        /\ personal' = personal /\ relations' = relations /\ skills' = skills
    BY <1>2 DEF SaveTeamItem, TaskAt
  <2>2. /\ Done(c) \in Task /\ Done(c).plan = <<>> /\ task[c] \in Task
        /\ task[c].plan = <<"item">>
    BY <2>1, DoneStep, PlanRest
  <2>3. items \in Seq(TeamItem) /\ task[c].item \in TeamItem
    BY <2>2 DEF Task, MIInv, MemoryTypeOK
  <2>4. /\ task[c].at \in DOMAIN items
        /\ \/ task[c].item = AcceptedItem /\ items[task[c].at].scope # "private"
           \/ /\ task[c].item.scope = "private" /\ task[c].item.status # "accepted"
              /\ items[task[c].at].scope = "private"
    BY <2>2 DEF MIInv, ItemFits
  <2>5. items' \in Seq(TeamItem) /\ DOMAIN items' = DOMAIN items
    BY <2>1, <2>3, <2>4
  <2>6. \A i \in DOMAIN items : items'[i] = IF i = task[c].at THEN task[c].item ELSE items[i]
    BY <2>1, <2>3
  <2>7. AcceptedIsShared(items')
    BY <2>4, <2>5, <2>6 DEF MIInv, AcceptedIsShared
  <2>8. \A i \in DOMAIN items : /\ items[i].status = "accepted" => items'[i] = items[i]
                                /\ (items[i].scope = "private") = (items'[i].scope = "private")
    <3>1. \A i \in DOMAIN items : items[i].status = "accepted" => items[i] = AcceptedItem
      BY DEF MIInv, AcceptedIsShared
    <3>2. AcceptedItem.scope = "team_accepted"
      BY DEF AcceptedItem
    <3> QED
      BY <2>4, <2>6, <3>1, <3>2
  <2>9. \A u : ItemFits(u, items) => ItemFits(u, items')
    BY <2>5, <2>8 DEF ItemFits
  <2>10. /\ personal' \in Seq(Personal) /\ relations' \in SUBSET (Nat \X Nat)
         /\ skills' \in Seq(Skill)
         /\ ~disturbed => \A m, n \in Daily(personal') : m = n
    BY <2>1 DEF MIInv, MemoryTypeOK, MSerialInv
  <2>11. MIInv' /\ MSerialInv'
    <3>1. ItemFits(Done(c), items') /\ SerialFits(Done(c), personal', skills')
      BY <2>2, LastSaveFits
    <3>2. SavedFits(Done(c))
      BY <2>5, <2>7, <2>9, <2>10, <3>1 DEF SavedFits
    <3> QED
      BY <2>1, <2>2, <3>2, ContinueKeeps
  <2> QED
    BY <2>1, <2>5, <2>8, <2>11 DEF Keeps, Decided
<1> QED
  BY <1>1, <1>2

LEMMA SkillsKeep ==
    ASSUME MIInv, MSerialInv, NEW c \in Threads, SaveSkill(c)
    PROVE  Keeps
<1>1. /\ task[c].plan # <<>> /\ Head(task[c].plan) = "skill" /\ Continue(c, Done(c))
      /\ skills' = IF task[c].at = 0 THEN Append(skills, task[c].skill)
                   ELSE [skills EXCEPT ![task[c].at] = task[c].skill]
      /\ personal' = personal /\ relations' = relations /\ items' = items
  BY DEF SaveSkill, TaskAt
<1>2. /\ Done(c) \in Task /\ Done(c).plan = <<>> /\ task[c] \in Task
      /\ task[c].plan = <<"skill">>
  BY <1>1, DoneStep, PlanRest
<1>3. skills \in Seq(Skill) /\ task[c].skill \in Skill
  BY <1>2 DEF Task, MIInv, MemoryTypeOK
<1>4. /\ skills' \in Seq(Skill)
      /\ \A s \in DOMAIN skills : /\ s \in DOMAIN skills'
                                  /\ s # task[c].at => skills'[s] = skills[s]
                                  /\ s = task[c].at => skills'[s] = task[c].skill
  <2>1. CASE task[c].at = 0
    <3>1. skills' = Append(skills, task[c].skill) /\ 0 \notin DOMAIN skills
      BY <1>1, <1>3, <2>1
    <3> QED
      BY <1>3, <2>1, <3>1
  <2>2. CASE task[c].at # 0
    <3>1. skills' = [skills EXCEPT ![task[c].at] = task[c].skill]
      BY <1>1, <2>2
    <3>2. CASE task[c].at \in 1..Len(skills)
      BY <1>3, <3>1, <3>2, ExceptSeq
    <3>3. CASE task[c].at \notin 1..Len(skills)
      <4>1. DOMAIN skills = 1..Len(skills) /\ \A s \in DOMAIN skills : s # task[c].at
        BY <1>3, <3>3
      <4>2. skills' = skills
        BY <1>3, <3>1, <4>1
      <4> QED
        BY <1>3, <4>1, <4>2
    <3> QED
      BY <3>2, <3>3
  <2> QED
    BY <2>1, <2>2
<1>5. ~disturbed => \A s \in DOMAIN skills :
                       skills[s].status = "deprecated" => skills'[s] = skills[s]
  BY <1>2, <1>4 DEF MSerialInv, SerialFits
<1>6. /\ personal' \in Seq(Personal) /\ relations' \in SUBSET (Nat \X Nat)
      /\ items' \in Seq(TeamItem) /\ AcceptedIsShared(items')
      /\ \A u : ItemFits(u, items) => ItemFits(u, items')
      /\ ~disturbed => \A m, n \in Daily(personal') : m = n
  BY <1>1 DEF MIInv, MemoryTypeOK, MSerialInv
<1>7. MIInv' /\ MSerialInv'
  <2>1. ItemFits(Done(c), items') /\ SerialFits(Done(c), personal', skills')
    BY <1>2, LastSaveFits
  <2>2. SavedFits(Done(c))
    BY <1>4, <1>6, <2>1 DEF SavedFits
  <2> QED
    BY <1>1, <1>2, <2>2, ContinueKeeps
<1> QED
  BY <1>1, <1>5, <1>7, SameIsDecided DEF Keeps, Decided

---------------------------------------------------------------------------
(* Calls that save at once, and handlers that die.                         *)

LEMMA CalledStep ==
    ASSUME MIInv, Called
    PROVE  /\ made' \in 0..MaxCalls /\ disturbed' \in BOOLEAN /\ faults' = faults
           /\ disturbed => disturbed'
<1>1. made < MaxCalls /\ made' = made + 1 /\ faults' = faults
      /\ disturbed' = (disturbed \/ AtWork # {})
  BY DEF Called
<1>2. made' \in 0..MaxCalls
  BY <1>1, GovernanceAssumption DEF MIInv, MemoryTypeOK
<1>3. disturbed' \in BOOLEAN /\ (disturbed => disturbed')
  BY <1>1, Zenon
<1> QED
  BY <1>1, <1>2, <1>3

LEMMA WritesKeep ==
    ASSUME MIInv, MSerialInv
    PROVE  /\ \A layer \in Layers : WriteDown(layer) => Keeps
           /\ \A scope \in {"private", "team_candidate"} : Propose(scope) => Keeps
<1>1. ASSUME NEW layer \in Layers, WriteDown(layer) PROVE Keeps
  <2> DEFINE note == [ANote EXCEPT !.layer = layer]
  <2>1. personal' = Append(personal, note) /\ UNCHANGED <<items, relations, skills, task>>
        /\ Called
    BY <1>1 DEF WriteDown
  <2>2. note \in Personal /\ note.kind = "note"
    BY DEF ANote, Personal, Kinds
  <2> HIDE DEF note
  <2>3. personal \in Seq(Personal)
    BY DEF MIInv, MemoryTypeOK
  <2>4. /\ personal' \in Seq(Personal)
        /\ DOMAIN personal' = 1..(Len(personal) + 1) /\ DOMAIN personal = 1..Len(personal)
        /\ \A m \in 1..Len(personal) : personal'[m] = personal[m]
        /\ personal'[Len(personal) + 1] = note /\ Len(personal) \in Nat
    BY <2>1, <2>2, <2>3
  <2>5. Daily(personal') \subseteq Daily(personal)
    BY <2>2, <2>4 DEF Daily
  <2>6. MIInv'
    BY <2>1, <2>4, CalledStep DEF MIInv, MemoryTypeOK
  <2>7. MSerialInv'
    <3> SUFFICES ASSUME ~disturbed'
                 PROVE  (/\ OneAtWork
                         /\ \A d \in Threads : SerialFits(task[d], personal, skills)
                         /\ \A m, n \in Daily(personal) : m = n)'
      BY DEF MSerialInv
    <3>1. ~disturbed
      BY <2>1, CalledStep
    <3>2. OneAtWork'
      BY <2>1, <3>1 DEF MSerialInv, OneAtWork
    <3>3. \A d \in Threads : SerialFits(task'[d], personal', skills')
      BY <2>1, <2>5, <3>1 DEF MSerialInv, SerialFits
    <3>4. \A m, n \in Daily(personal') : m = n
      BY <2>5, <3>1 DEF MSerialInv
    <3> QED
      BY <3>2, <3>3, <3>4
  <2> QED
    BY <2>1, <2>6, <2>7, SameIsDecided DEF Keeps
<1>2. ASSUME NEW scope \in {"private", "team_candidate"}, Propose(scope) PROVE Keeps
  <2> DEFINE new == [AnItem EXCEPT !.scope = scope]
  <2>1. items' = Append(items, new) /\ UNCHANGED <<personal, relations, skills, task>>
        /\ Called
    BY <1>2 DEF Propose
  <2>2. new \in TeamItem /\ new.status = "proposed"
    BY DEF AnItem, TeamItem
  <2> HIDE DEF new
  <2>3. items \in Seq(TeamItem)
    BY DEF MIInv, MemoryTypeOK
  <2>4. /\ items' \in Seq(TeamItem)
        /\ DOMAIN items' = 1..(Len(items) + 1) /\ DOMAIN items = 1..Len(items)
        /\ \A m \in 1..Len(items) : items'[m] = items[m]
        /\ items'[Len(items) + 1] = new /\ Len(items) \in Nat
    BY <2>1, <2>2, <2>3
  <2>5. \A u : ItemFits(u, items) => ItemFits(u, items')
    BY <2>4 DEF ItemFits
  <2>6. AcceptedIsShared(items')
    BY <2>2, <2>4 DEF MIInv, AcceptedIsShared
  <2>7. MIInv'
    BY <2>1, <2>4, <2>5, <2>6, CalledStep DEF MIInv, MemoryTypeOK
  <2>8. MSerialInv'
    BY <2>1, CalledStep DEF MSerialInv, OneAtWork
  <2>9. \A i \in DOMAIN items : i \in DOMAIN items' /\ items'[i] = items[i]
    BY <2>4
  <2> QED
    BY <2>1, <2>7, <2>8, <2>9 DEF Keeps, Decided
<1> QED
  BY <1>1, <1>2

LEMMA DeathKeeps ==
    ASSUME MIInv, MSerialInv, NEW c \in Threads, TaskDies(c)
    PROVE  Keeps
<1>1. /\ task' = [task EXCEPT ![c] = NoTask] /\ disturbed' = TRUE /\ made' = made
      /\ faults < MaxFaults /\ faults' = faults + 1
      /\ UNCHANGED <<personal, items, relations, skills>>
  BY DEF TaskDies, tiers
<1>2. faults' \in 0..MaxFaults
  BY <1>1, GovernanceAssumption DEF MIInv, MemoryTypeOK
<1>3. task' \in [Threads -> Task] /\ \A d \in Threads : task'[d] \in {NoTask, task[d]}
  BY <1>1, NoTaskFits DEF MIInv, MemoryTypeOK
<1>4. MIInv'
  BY <1>1, <1>2, <1>3, NoTaskFits DEF MIInv, MemoryTypeOK
<1>5. MSerialInv'
  BY <1>1 DEF MSerialInv
<1> QED
  BY <1>1, <1>4, <1>5, SameIsDecided DEF Keeps

---------------------------------------------------------------------------
(* The theorems.                                                           *)

LEMMA MemoryInitInv == Init /\ MemoryInit => MIInv /\ MSerialInv
<1> SUFFICES ASSUME Init, MemoryInit PROVE MIInv /\ MSerialInv
  OBVIOUS
<1>1. /\ personal = <<>> /\ items = <<>> /\ relations = {} /\ skills = <<>>
      /\ task = [c \in Threads |-> NoTask] /\ disturbed = FALSE /\ made = 0 /\ faults = 0
  BY DEF Init, MemoryInit
<1>2. MemoryTypeOK
  <2>1. personal \in Seq(Personal) /\ items \in Seq(TeamItem) /\ skills \in Seq(Skill)
    BY <1>1
  <2>2. task \in [Threads -> Task]
    BY <1>1, NoTaskFits
  <2>3. made \in 0..MaxCalls /\ faults \in 0..MaxFaults
    BY <1>1, GovernanceAssumption
  <2>4. disturbed \in BOOLEAN
    BY <1>1, Zenon
  <2> QED
    BY <1>1, <2>1, <2>2, <2>3, <2>4 DEF MemoryTypeOK
<1>3. DOMAIN items = {} /\ DOMAIN personal = {}
  BY <1>1
<1>4. AcceptedIsShared(items) /\ Daily(personal) = {}
  BY <1>3 DEF AcceptedIsShared, Daily
<1>5. \A c \in Threads : task[c] = NoTask
  BY <1>1
<1> QED
  BY <1>2, <1>4, <1>5, NoTaskFits DEF MIInv, MSerialInv, OneAtWork

LEMMA MemoryStep == MIInv /\ MSerialInv /\ MemoryNext => Keeps
<1> SUFFICES ASSUME MIInv, MSerialInv, MemoryNext PROVE Keeps
  OBVIOUS
<1>1. CASE \E layer \in Layers : WriteDown(layer)
  BY <1>1, WritesKeep
<1>2. CASE \E scope \in {"private", "team_candidate"} : Propose(scope)
  BY <1>2, WritesKeep
<1>3. ASSUME NEW c \in Threads,
             \/ SummarizeDay(c) \/ SummarizeProject(c) \/ ArchiveProject(c) \/ Learn(c)
             \/ \E m \in DOMAIN personal : Share(c, m)
             \/ \E i \in DOMAIN items : AcceptItem(c, i) \/ Dispute(c, i)
             \/ \E s \in DOMAIN skills : Activate(c, s) \/ ShareSkill(c, s) \/ Deprecate(c, s)
      PROVE  Keeps
  BY <1>3, SummariesKeep, ItemsBeginKeep, SkillsBeginKeep
<1>4. ASSUME NEW c \in Threads,
             \/ LookForSummary(c) \/ Collect(c) \/ SavePersonal(c)
             \/ SaveCandidate(c) \/ SaveRelation(c) \/ SaveTeamItem(c)
             \/ LookForSkill(c) \/ SaveSkill(c) \/ TaskDies(c)
      PROVE  Keeps
  BY <1>4, LooksKeep, PersonalKeep, ItemsKeep, SkillsKeep, DeathKeeps
<1> QED
  BY <1>1, <1>2, <1>3, <1>4 DEF MemoryNext

LEMMA MemoryInvariance == MemorySpec => [](MIInv /\ MSerialInv)
<1>1. MIInv /\ MSerialInv /\ UNCHANGED <<memoryVars, disturbed, made, faults>>
        => MIInv' /\ MSerialInv'
  <2> SUFFICES ASSUME MIInv, MSerialInv, UNCHANGED <<memoryVars, disturbed, made, faults>>
               PROVE  MIInv' /\ MSerialInv'
    OBVIOUS
  <2>1. UNCHANGED <<personal, items, relations, skills, task, disturbed, made, faults>>
    BY DEF memoryVars, tiers
  <2>2. MIInv'
    BY <2>1 DEF MIInv, MemoryTypeOK
  <2>3. MSerialInv'
    BY <2>1 DEF MSerialInv, OneAtWork
  <2> QED
    BY <2>2, <2>3
<1>2. MIInv /\ MSerialInv /\ [MemoryNext]_<<memoryVars, disturbed, made, faults>>
        => (MIInv /\ MSerialInv)'
  BY <1>1, MemoryStep DEF Keeps
<1> QED
  BY <1>2, MemoryInitInv, PTL DEF MemorySpec

\* Every state of the memories, items, skills and handlers has its type.
THEOREM MemoryTypeCorrect == MemorySpec => []MemoryTypeOK
<1>1. MIInv => MemoryTypeOK
  BY DEF MIInv
<1> QED
  BY <1>1, MemoryInvariance, PTL

\* Where handlers took turns, a day has one summary, made by whomever (memory.py
\* create_daily_memory_summary, generate_daily_memory_summaries).
THEOREM OneDailySummary == MemorySpec => []SerialOneDailySummary
<1>1. MSerialInv => SerialOneDailySummary
  BY DEF MSerialInv, SerialOneDailySummary, Daily
<1> QED
  BY <1>1, MemoryInvariance, PTL

\* No copy that is saved late undoes what the team accepted, or publishes what is private;
\* where handlers took turns, a deprecated skill stays so (memory.py update_memory_item,
\* deprecate_skill).
THEOREM DecisionsLast == MemorySpec => DecisionsStand
<1>1. MIInv /\ MSerialInv /\ [MemoryNext]_<<memoryVars, disturbed, made, faults>>
        => [Decided]_<<items, skills>>
  <2> SUFFICES ASSUME MIInv, MSerialInv, [MemoryNext]_<<memoryVars, disturbed, made, faults>>
               PROVE  Decided \/ UNCHANGED <<items, skills>>
    OBVIOUS
  <2>1. CASE MemoryNext
    BY <2>1, MemoryStep DEF Keeps
  <2>2. CASE UNCHANGED <<memoryVars, disturbed, made, faults>>
    BY <2>2 DEF memoryVars, tiers
  <2> QED
    BY <2>1, <2>2
<1> QED
  BY <1>1, MemoryInvariance, PTL DEF MemorySpec, DecisionsStand, Decided

---------------------------------------------------------------------------
(* The search.                                                             *)

RecordKinds == {"message", "activity", "evidence", "post", "document", "item", "memory"}

AnyRecord == Record(RecordKinds, Scopes, {Asker, Other},
                    {"staging", "active", "stale"}, {"whole", "some"})

\* The records that there are: each kind has its scopes, and memory alone has a status.
RecordFits(r) ==
    /\ r \in AnyRecord
    /\ r.kind # "memory" => r.status = "active"
    /\ r.kind \in {"message", "document", "memory"} => r.scope = "private"
    /\ r.kind = "activity" => r.scope \in {"private", "project"}
    /\ r.kind \in {"evidence", "post"} => r.scope = "project"
    /\ r.kind = "item" => r.scope \in {"private", "team_candidate", "team_accepted"}

\* What is left to read of the pools of a chat turn, and of a search for documents.
MemoryOn == <<{"memory"}, {"item"}, {"document"}, {"evidence", "post"}>>
ItemsOn == <<{"item"}, {"document"}, {"evidence", "post"}>>
DocumentsOn == <<{"document"}, {"evidence", "post"}>>
EvidenceOn == <<{"evidence", "post"}>>
DocumentAlone == <<{"document"}>>
PoolRests == {MemoryOn, ItemsOn, DocumentsOn, EvidenceOn, DocumentAlone, <<>>}

SearchTypeOK ==
    /\ records \in [Ids -> AnyRecord]
    /\ lead \in BOOLEAN /\ several \in BOOLEAN
    /\ search \in [step : {"idle", "index", "visit", "terms", "done"}, purpose : Purposes,
                   layer : 0..3, rows : SUBSET Ids, held : SUBSET (Ids \X AnyRecord),
                   found : SUBSET Ids, pool : PoolRests]
    /\ answer \subseteq Ids /\ ever \subseteq Ids
    /\ always \subseteq Ids \X {"owner", "role", "member"}
    /\ changes \in 0..MaxChanges

\* The searches that are on their way, and what may be served now.
UnderWay == search.step \notin {"idle", "done"}

ServedNow ==
    /\ \A i \in Ids : RecordFits(records[i])
    /\ UnderWay => Served(records, lead) \subseteq ever
    /\ search.step # "idle" => always \subseteq Rights(records, lead)

\* A record as it was read: it has changed in one way at most since, and could be served
\* then to whom it is for.
ReadOf(r, n) ==
    /\ r.kind = n.kind /\ r.owner = n.owner
    /\ r.scope # n.scope => r.scope = "team_candidate" /\ n.scope = "team_accepted"

HeldFits ==
    \A h \in search.held :
        /\ RecordFits(h[2]) /\ ReadOf(h[2], records[h[1]])
        /\ h[2].status = "active" /\ Readable(h[2], FALSE) => h[1] \in ever
        /\ \A x \in always : x[1] = h[1] => Entitles(x[2], h[2], lead) /\ h[2].status = "active"

\* What has been found could be served; the pool of memory has the asker's, of any status.
OwnMemory(i) == records[i].kind = "memory" /\ records[i].owner = Asker

FoundFits ==
    /\ search.step = "visit" => search.found \subseteq ever
    /\ search.step = "terms" =>
          \A i \in search.found : i \in ever \/ (search.purpose = "chat" /\ OwnMemory(i))
    /\ answer # {} => search.step = "done"
    /\ search.step = "terms" => search.purpose \in {"chat", "documents"}
    /\ search.step = "terms" /\ search.purpose = "documents" =>
          search.pool \in {DocumentAlone, <<>>}
    /\ search.step = "terms" /\ search.purpose = "chat" => search.pool # DocumentAlone

\* What a chat turn has not passed over: all rows of its last layer match, each of them that
\* counts is still to be read, held, or found; and what a pool has that was read is found.
Counting == {"memory", "item", "document"}
HeldIds == {h[1] : h \in search.held}

RowsFit ==
    search.step = "visit" =>
        /\ \A i \in search.rows \cup HeldIds \cup search.found : records[i].match = "whole"
        /\ \A i \in search.found : records[i].kind # "post"
        /\ search.purpose = "chat" /\ search.layer = 3 /\ ~Crowded =>
              \A x \in always : records[x[1]].kind \in Counting /\ records[x[1]].match = "whole" =>
                  x[1] \in search.rows \cup HeldIds \cup search.found

ReadAlready(kind) ==
    CASE kind = "memory" -> search.pool \in {ItemsOn, DocumentsOn, EvidenceOn, <<>>}
      [] kind = "item" -> search.pool \in {DocumentsOn, EvidenceOn, <<>>}
      [] kind = "document" -> search.pool \in {EvidenceOn, <<>>}

TermsFit ==
    search.step = "terms" /\ search.purpose = "chat" =>
        \A x \in always : records[x[1]].kind \in Counting =>
            /\ several /\ ReadAlready(records[x[1]].kind) => x[1] \in search.found
            /\ ~several /\ records[x[1]].match = "whole" => Crowded

LayerFits ==
    /\ search.step \in {"index", "visit"} => search.layer \in 1..Len(LayersOf[search.purpose])
    /\ search.step = "idle" => search = NotBegun
    /\ search.step # "visit" => search.held = {}

OneHeld == \A g, h \in search.held : g = h

SearchFits ==
    /\ SearchTypeOK /\ ServedNow /\ HeldFits /\ FoundFits /\ RowsFit /\ TermsFit /\ LayerFits
    /\ OneHeld /\ ShownWasServed /\ AsksOnlyWhenUnknown

---------------------------------------------------------------------------
(* Lemmas about the search.                                                *)

LEMMA PoolTails ==
    /\ \A p \in PoolRests : p # <<>> => Tail(p) \in PoolRests
    /\ Tail(MemoryOn) = ItemsOn /\ Tail(ItemsOn) = DocumentsOn /\ Tail(DocumentsOn) = EvidenceOn
    /\ Tail(EvidenceOn) = <<>> /\ Tail(DocumentAlone) = <<>>
<1>1. Tail(MemoryOn) = ItemsOn
  BY DEF MemoryOn, ItemsOn
<1>2. Tail(ItemsOn) = DocumentsOn
  BY DEF ItemsOn, DocumentsOn
<1>3. Tail(DocumentsOn) = EvidenceOn
  BY DEF DocumentsOn, EvidenceOn
<1>4. Tail(EvidenceOn) = <<>> /\ Tail(DocumentAlone) = <<>>
  BY DEF EvidenceOn, DocumentAlone
<1> QED
  BY <1>1, <1>2, <1>3, <1>4 DEF PoolRests

LEMMA PoolHeads ==
    /\ Head(MemoryOn) = {"memory"} /\ Head(ItemsOn) = {"item"} /\ Head(DocumentsOn) = {"document"}
    /\ Head(EvidenceOn) = {"evidence", "post"} /\ Head(DocumentAlone) = {"document"}
  BY DEF MemoryOn, ItemsOn, DocumentsOn, EvidenceOn, DocumentAlone

\* Which rest is which: they differ in their length or in what they begin with.
LEMMA PoolsDiffer ==
    /\ MemoryOn \notin {ItemsOn, DocumentsOn, EvidenceOn, DocumentAlone, <<>>}
    /\ ItemsOn \notin {DocumentsOn, EvidenceOn, DocumentAlone, <<>>}
    /\ DocumentsOn \notin {EvidenceOn, DocumentAlone, <<>>}
    /\ EvidenceOn \notin {DocumentAlone, <<>>} /\ DocumentAlone # <<>>
<1>1. /\ Len(MemoryOn) = 4 /\ Len(ItemsOn) = 3 /\ Len(DocumentsOn) = 2 /\ Len(EvidenceOn) = 1
      /\ Len(DocumentAlone) = 1 /\ Len(<<>>) = 0
  BY DEF MemoryOn, ItemsOn, DocumentsOn, EvidenceOn, DocumentAlone
<1>2. EvidenceOn # DocumentAlone
  <2>1. {"evidence", "post"} # {"document"}
    OBVIOUS
  <2> QED
    BY <2>1, PoolHeads
<1>3. MemoryOn # ItemsOn /\ MemoryOn # DocumentsOn /\ MemoryOn # EvidenceOn /\ MemoryOn # DocumentAlone
  BY <1>1
<1>4. ItemsOn # DocumentsOn /\ ItemsOn # EvidenceOn /\ ItemsOn # DocumentAlone
  BY <1>1
<1>5. DocumentsOn # EvidenceOn /\ DocumentsOn # DocumentAlone
  BY <1>1
<1>6. MemoryOn # <<>> /\ ItemsOn # <<>> /\ DocumentsOn # <<>>
  BY <1>1
<1>7. EvidenceOn # <<>> /\ DocumentAlone # <<>>
  BY DEF EvidenceOn, DocumentAlone
<1> QED
  BY <1>2, <1>3, <1>4, <1>5, <1>6, <1>7

LEMMA NextLayer ==
    ASSUME NEW n \in 1..3, NEW m \in 1..n, m # n
    PROVE  m + 1 \in 1..n /\ m + 1 \in 0..3
  OBVIOUS

\* A cut that has room for all of it takes all of it.
LEMMA CutTakesAll ==
    ASSUME NEW S, S \subseteq Ids, Cardinality(S) <= RowLimit, NEW T \in Cuts(S, RowLimit)
    PROVE  T = S
<1>1. IsFiniteSet(S) /\ T \in SUBSET S /\ IsFiniteSet(T)
  BY SearchAssumption, FS_Subset DEF Cuts
<1>2. Cardinality(S) \in Nat /\ RowLimit \in Nat
  BY <1>1, FS_CardinalityType, SearchAssumption
<1>3. Cardinality(T) = Cardinality(S)
  BY <1>2 DEF Cuts
<1> QED
  BY <1>1, <1>3, FS_Subset

\* Who is entitled may read, and who may read is entitled.
LEMMA RightsServe ==
    ASSUME NEW rs, NEW isLead, \A i \in Ids : RecordFits(rs[i])
    PROVE  \A x \in Rights(rs, isLead) : x[1] \in Served(rs, isLead)
  BY DEF Rights, Served, Entitles, Readable, RecordFits, AnyRecord, Record, Scopes

\* What others do keeps what a record is, and what was read of it a reading of it.
RecordMoves(r, n) ==
    /\ RecordFits(n) /\ r.kind = n.kind /\ r.owner = n.owner /\ r.match = n.match
    /\ \/ r.scope = n.scope
       \/ r.kind = "item" /\ r.scope = "team_candidate" /\ n.scope = "team_accepted"

LEMMA ChangeKeeps ==
    ASSUME SearchFits, NEW rs \in [Ids -> AnyRecord], NEW isLead \in BOOLEAN, Change(rs, isLead),
           \A i \in Ids : RecordMoves(records[i], rs[i])
    PROVE  SearchFits'
<1>1. /\ records' = rs /\ lead' = isLead /\ UNCHANGED <<several, search, answer>>
      /\ ever' = ever \cup Served(rs, isLead) /\ always' = always \cap Rights(rs, isLead)
      /\ UnderWay /\ changes' \in 0..MaxChanges
  BY SearchAssumption DEF Change, UnderWay, SearchFits, SearchTypeOK
<1>2. SearchTypeOK'
  BY <1>1 DEF SearchFits, SearchTypeOK, Served
<1>3. ServedNow'
  BY <1>1 DEF SearchFits, ServedNow, RecordMoves, UnderWay
<1>4. HeldFits'
  <2>1. SUFFICES ASSUME NEW h \in search.held
                 PROVE  /\ RecordFits(h[2]) /\ ReadOf(h[2], rs[h[1]])
                        /\ h[2].status = "active" /\ Readable(h[2], FALSE) => h[1] \in ever'
                        /\ \A x \in always' : x[1] = h[1] =>
                              Entitles(x[2], h[2], isLead) /\ h[2].status = "active"
    BY <1>1 DEF HeldFits
  <2>2. h[1] \in Ids /\ RecordMoves(records[h[1]], rs[h[1]])
    BY DEF SearchFits, SearchTypeOK
  <2>3. RecordFits(h[2]) /\ ReadOf(h[2], rs[h[1]])
    BY <2>2 DEF SearchFits, HeldFits, ReadOf, RecordMoves
  <2>4. ASSUME NEW x \in always', x[1] = h[1]
        PROVE  Entitles(x[2], h[2], isLead) /\ h[2].status = "active"
    <3>1. x \in always /\ x \in Rights(rs, isLead)
      BY <1>1, <2>4
    <3>2. Entitles(x[2], h[2], lead) /\ h[2].status = "active"
      BY <2>4, <3>1 DEF SearchFits, HeldFits
    <3>3. x[2] \in {"owner", "role", "member"} /\ Entitles(x[2], rs[x[1]], isLead)
      BY <3>1 DEF Rights
    <3> QED
      BY <3>2, <3>3 DEF Entitles
  <2> QED
    BY <1>1, <2>3, <2>4 DEF SearchFits, HeldFits
<1>5. FoundFits'
  BY <1>1 DEF SearchFits, SearchTypeOK, FoundFits, OwnMemory, RecordMoves
<1>6. Crowded' <=> Crowded
  <2>1. \A i \in Ids : records'[i].match = records[i].match /\ records'[i].kind = records[i].kind
    BY <1>1 DEF RecordMoves
  <2>2. {i \in Ids : records'[i].match = "whole"} = {i \in Ids : records[i].match = "whole"}
    BY <2>1
  <2> QED
    BY <2>1, <2>2 DEF Crowded
<1>7. \A x \in always' : x \in always /\ x[1] \in Ids /\ records'[x[1]].kind = records[x[1]].kind
                         /\ records'[x[1]].match = records[x[1]].match
  BY <1>1 DEF RecordMoves, SearchFits, SearchTypeOK
<1>8. RowsFit'
  <2>1. HeldIds' = HeldIds /\ HeldIds \subseteq Ids /\ search.rows \subseteq Ids /\ search.found \subseteq Ids
    BY <1>1 DEF HeldIds, SearchFits, SearchTypeOK
  <2> QED
    BY <1>1, <1>6, <1>7, <2>1 DEF SearchFits, RowsFit, RecordMoves
<1>9. TermsFit' /\ LayerFits' /\ OneHeld'
  BY <1>1, <1>6, <1>7 DEF SearchFits, TermsFit, LayerFits, OneHeld, ReadAlready
<1>10. ShownWasServed' /\ AsksOnlyWhenUnknown'
  BY <1>1 DEF SearchFits, FoundFits, UnderWay, ShownWasServed, AsksOnlyWhenUnknown
<1> QED
  BY <1>2, <1>3, <1>4, <1>5, <1>8, <1>9, <1>10 DEF SearchFits

LEMMA OthersKeep ==
    ASSUME SearchFits, Promoted \/ \E i \in Ids : AcceptCandidate(i) \/ Activated(i) \/ Outdated(i)
    PROVE  SearchFits'
<1>1. \A i \in Ids : records[i] \in AnyRecord /\ RecordFits(records[i])
  BY DEF SearchFits, SearchTypeOK, ServedNow
<1>2. lead \in BOOLEAN /\ records \in [Ids -> AnyRecord]
  BY DEF SearchFits, SearchTypeOK
<1>3. CASE Promoted
  <2>1. \A i \in Ids : RecordMoves(records[i], records[i])
    BY <1>1 DEF RecordMoves
  <2> QED
    BY <1>2, <1>3, <2>1, ChangeKeeps DEF Promoted
<1>4. ASSUME NEW i \in Ids, AcceptCandidate(i) PROVE SearchFits'
  <2> DEFINE n == [records[i] EXCEPT !.scope = "team_accepted"]
  <2>1. n \in AnyRecord /\ RecordMoves(records[i], n)
    BY <1>1, <1>4 DEF AcceptCandidate, RecordMoves, RecordFits, AnyRecord, Record, Scopes
  <2>2. [records EXCEPT ![i].scope = "team_accepted"] = [records EXCEPT ![i] = n]
    OBVIOUS
  <2>3. \A j \in Ids : RecordMoves(records[j], [records EXCEPT ![i] = n][j])
    BY <1>1, <1>2, <2>1 DEF RecordMoves
  <2>4. [records EXCEPT ![i] = n] \in [Ids -> AnyRecord]
    BY <1>2, <2>1
  <2> QED
    BY <1>2, <1>4, <2>2, <2>3, <2>4, ChangeKeeps DEF AcceptCandidate
<1>5. ASSUME NEW i \in Ids, NEW s \in {"active", "stale"}, records[i].kind = "memory",
             Change([records EXCEPT ![i].status = s], lead)
      PROVE  SearchFits'
  <2> DEFINE n == [records[i] EXCEPT !.status = s]
  <2>1. n \in AnyRecord /\ RecordMoves(records[i], n)
    BY <1>1, <1>5 DEF RecordMoves, RecordFits, AnyRecord, Record
  <2>2. [records EXCEPT ![i].status = s] = [records EXCEPT ![i] = n]
    OBVIOUS
  <2>3. \A j \in Ids : RecordMoves(records[j], [records EXCEPT ![i] = n][j])
    BY <1>1, <1>2, <2>1 DEF RecordMoves
  <2>4. [records EXCEPT ![i] = n] \in [Ids -> AnyRecord]
    BY <1>2, <2>1
  <2> QED
    BY <1>2, <1>5, <2>2, <2>3, <2>4, ChangeKeeps
<1>6. ASSUME NEW i \in Ids, Activated(i) PROVE SearchFits'
  <2>1. records[i].kind = "memory"
    BY <1>1, <1>6 DEF Activated, RecordFits
  <2> QED
    BY <1>5, <1>6, <2>1 DEF Activated
<1>7. ASSUME NEW i \in Ids, Outdated(i) PROVE SearchFits'
  BY <1>5, <1>7 DEF Outdated
<1> QED
  BY <1>3, <1>4, <1>6, <1>7

\* A step of the search changes no record, no role, and what could be served stays.
LEMMA BeginSearchKeeps ==
    ASSUME SearchFits, NEW p \in Purposes, BeginSearch(p)
    PROVE  SearchFits'
<1>1. /\ search.step = "idle" /\ search = NotBegun
      /\ search' = [step |-> "index", purpose |-> p, layer |-> 1, rows |-> {}, held |-> {},
                    found |-> {}, pool |-> <<>>]
      /\ ever' = Served(records, lead) /\ always' = Rights(records, lead)
      /\ UNCHANGED <<records, lead, several, answer, changes>>
  BY DEF BeginSearch, NotBegun, SearchFits, LayerFits
<1>2. /\ search'.step = "index" /\ search'.purpose = p /\ search'.layer = 1 /\ search'.rows = {}
      /\ search'.held = {} /\ search'.found = {} /\ search'.pool = <<>>
  BY <1>1
<1>3. SearchTypeOK'
  BY <1>1 DEF SearchFits, SearchTypeOK, Served, Rights, PoolRests
<1>4. answer = {}
  BY <1>1 DEF SearchFits, FoundFits
<1>5. 1 \in 1..Len(LayersOf[p])
  BY DEF LayersOf, Purposes
<1>6. ServedNow' /\ HeldFits' /\ FoundFits' /\ RowsFit' /\ TermsFit' /\ LayerFits' /\ OneHeld'
  BY <1>1, <1>2, <1>4, <1>5
     DEF SearchFits, ServedNow, HeldFits, FoundFits, RowsFit, TermsFit, LayerFits, OneHeld
<1>7. ShownWasServed' /\ AsksOnlyWhenUnknown'
  BY <1>1, <1>2, <1>4 DEF ShownWasServed, AsksOnlyWhenUnknown
<1> QED
  BY <1>3, <1>6, <1>7 DEF SearchFits

LEMMA ReadIndexKeeps ==
    ASSUME SearchFits, ReadIndex
    PROVE  SearchFits'
<1>1. PICK rows \in Cuts(Indexed, RowLimit) :
          GoOn([search EXCEPT !.step = "visit", !.rows = rows, !.found = {}])
  BY DEF ReadIndex
<1>2. /\ search.step = "index" /\ UNCHANGED <<records, lead, several, answer, ever, always, changes>>
      /\ search'.step = "visit" /\ search'.purpose = search.purpose /\ search'.layer = search.layer
      /\ search'.rows = rows /\ search'.held = search.held /\ search'.found = {}
      /\ search'.pool = search.pool
  BY <1>1 DEF ReadIndex, GoOn, Going, SearchFits, SearchTypeOK
<1>3. rows \subseteq Indexed /\ Indexed \subseteq Ids /\ \A i \in rows : records[i].match = "whole"
  BY DEF Cuts, Indexed
<1>4. SearchTypeOK'
  BY <1>1, <1>2, <1>3 DEF GoOn, Going, SearchFits, SearchTypeOK
<1>5. ServedNow' /\ HeldFits' /\ FoundFits' /\ TermsFit' /\ LayerFits' /\ OneHeld'
  BY <1>2 DEF SearchFits, ServedNow, UnderWay, HeldFits, FoundFits, TermsFit, LayerFits, OneHeld
<1>6. RowsFit'
  <2>1. HeldIds' = HeldIds
    BY <1>2 DEF HeldIds
  <2>2. ASSUME search.purpose = "chat", search.layer = 3, ~Crowded,
               NEW x \in always, records[x[1]].match = "whole"
        PROVE  x[1] \in rows
    <3>1. Allowed = Scopes
      BY <2>2 DEF Allowed, LayersOf
    <3>2. x \in Rights(records, lead) /\ x[1] \in Ids /\ records[x[1]] \in AnyRecord
      BY <1>2 DEF SearchFits, SearchTypeOK, ServedNow
    <3>3. x[1] \in Indexed
      BY <2>2, <3>1, <3>2 DEF Indexed, Rights, AnyRecord, Record
    <3> DEFINE whole == {i \in Ids : records[i].match = "whole"}
    <3>4. Indexed \subseteq whole /\ IsFiniteSet(whole)
      BY SearchAssumption, FS_Subset DEF Indexed
    <3>5. Cardinality(whole) <= RowLimit
      <4>1. ~(Cardinality(whole) > RowLimit)
        BY <2>2 DEF Crowded
      <4>2. Cardinality(whole) \in Nat
        BY <3>4, FS_CardinalityType
      <4> QED
        BY <4>1, <4>2, SearchAssumption
    <3>6. Cardinality(Indexed) <= Cardinality(whole) /\ Cardinality(Indexed) \in Nat /\ Cardinality(whole) \in Nat
      BY <3>4, FS_Subset, FS_CardinalityType
    <3>7. rows = Indexed
      BY <1>3, <3>5, <3>6, CutTakesAll, SearchAssumption
    <3> QED
      BY <3>3, <3>7
  <2>3. Crowded' <=> Crowded
    BY <1>2 DEF Crowded
  <2>4. ASSUME NEW i \in HeldIds PROVE records[i].match = "whole"
    BY <2>4, <1>2 DEF SearchFits, LayerFits, HeldIds
  <2> QED
    BY <1>2, <1>3, <2>1, <2>2, <2>3, <2>4 DEF RowsFit
<1>7. ShownWasServed' /\ AsksOnlyWhenUnknown'
  BY <1>2 DEF SearchFits, FoundFits, ShownWasServed, AsksOnlyWhenUnknown
<1> QED
  BY <1>4, <1>5, <1>6, <1>7 DEF SearchFits

LEMMA FetchKeeps ==
    ASSUME SearchFits, NEW i \in Ids, Fetch(i)
    PROVE  SearchFits'
<1>1. /\ search.step = "visit" /\ search.held = {} /\ i \in search.rows
      /\ UNCHANGED <<records, lead, several, answer, ever, always, changes>>
      /\ search'.step = "visit" /\ search'.purpose = search.purpose /\ search'.layer = search.layer
      /\ search'.rows = search.rows \ {i} /\ search'.held = {<<i, records[i]>>}
      /\ search'.found = search.found /\ search'.pool = search.pool
  BY DEF Fetch, GoOn, Going, SearchFits, SearchTypeOK
<1>2. records[i] \in AnyRecord /\ RecordFits(records[i])
  BY DEF SearchFits, SearchTypeOK, ServedNow
<1>3. SearchTypeOK'
  <2>1. {<<i, records[i]>>} \subseteq Ids \X AnyRecord
    BY <1>2
  <2> QED
    BY <1>1, <2>1 DEF Fetch, GoOn, Going, SearchFits, SearchTypeOK
<1>4. HeldFits'
  <2>1. records[i].status = "active" /\ Readable(records[i], FALSE) => i \in ever
    BY <1>1, <1>2 DEF SearchFits, ServedNow, Served, UnderWay, Readable
  <2>2. \A x \in always : x[1] = i => Entitles(x[2], records[i], lead) /\ records[i].status = "active"
    BY <1>1 DEF SearchFits, ServedNow, Rights
  <2> DEFINE h == <<i, records[i]>>
  <2>3. h[1] = i /\ h[2] = records[i] /\ search'.held = {h}
    BY <1>1
  <2> HIDE DEF h
  <2> QED
    BY <1>1, <1>2, <2>1, <2>2, <2>3 DEF HeldFits, ReadOf
<1>5. ServedNow' /\ FoundFits' /\ TermsFit' /\ LayerFits' /\ OneHeld'
  BY <1>1 DEF SearchFits, ServedNow, UnderWay, FoundFits, TermsFit, LayerFits, OneHeld, OwnMemory
<1>6. RowsFit'
  <2>1. HeldIds = {} /\ HeldIds' = {i}
    BY <1>1 DEF HeldIds
  <2>2. Crowded' <=> Crowded
    BY <1>1 DEF Crowded
  <2> QED
    BY <1>1, <2>1, <2>2 DEF SearchFits, RowsFit
<1>7. ShownWasServed' /\ AsksOnlyWhenUnknown'
  BY <1>1 DEF SearchFits, FoundFits, ShownWasServed, AsksOnlyWhenUnknown
<1> QED
  BY <1>3, <1>4, <1>5, <1>6, <1>7 DEF SearchFits

\* What is shown of a record as it was read could be served once, with the role of now; and
\* what could be served all the time by one right is shown.
LEMMA ShownFits ==
    ASSUME SearchFits, search.step = "visit", NEW h \in search.held
    PROVE  /\ Shown(h[2]) => h[1] \in ever /\ records[h[1]].kind # "post"
           /\ \A x \in always : /\ x[1] = h[1] /\ records[h[1]].kind \in Counting
                                /\ search.purpose = "chat" /\ search.layer = 3
                                => Shown(h[2])
<1>1. /\ RecordFits(h[2]) /\ ReadOf(h[2], records[h[1]]) /\ h[1] \in Ids
      /\ h[2].status = "active" /\ Readable(h[2], FALSE) => h[1] \in ever
      /\ \A x \in always : x[1] = h[1] => Entitles(x[2], h[2], lead) /\ h[2].status = "active"
      /\ Served(records, lead) \subseteq ever /\ RecordFits(records[h[1]])
      /\ lead \in BOOLEAN
  BY DEF SearchFits, SearchTypeOK, HeldFits, ServedNow, UnderWay
<1>2. Shown(h[2]) => h[1] \in ever
  <2>1. CASE h[2].kind = "item" /\ h[2].scope = "team_candidate" /\ h[2].owner # Asker
    BY <1>1, <2>1 DEF Shown, ItemVisible, ReadOf, Served, Readable, RecordFits
  <2>2. CASE ~(h[2].kind = "item" /\ h[2].scope = "team_candidate" /\ h[2].owner # Asker)
    BY <1>1, <2>2 DEF Shown, ItemVisible, ActivityVisible, OwnPrivate, Readable, RecordFits,
       AnyRecord,
                      Record, RecordKinds
  <2> QED
    BY <2>1, <2>2
<1>3. Shown(h[2]) => records[h[1]].kind # "post"
  BY <1>1 DEF Shown, ReadOf
<1>4. ASSUME NEW x \in always, x[1] = h[1], records[h[1]].kind \in Counting,
             search.purpose = "chat", search.layer = 3
      PROVE  Shown(h[2])
  <2>1. Entitles(x[2], h[2], lead) /\ h[2].status = "active" /\ h[2].kind \in Counting
    BY <1>1, <1>4 DEF ReadOf
  <2>2. x[2] \in {"owner", "role", "member"}
    BY DEF SearchFits, SearchTypeOK
  <2>3. "private" \in Allowed
    BY <1>4 DEF Allowed, LayersOf, Scopes
  <2> QED
    BY <1>1, <2>1, <2>2, <2>3
          DEF Shown, Entitles, Counting, ItemVisible, OwnPrivate, RecordFits
<1> QED
  BY <1>2, <1>3, <1>4

LEMMA JudgeKeeps ==
    ASSUME SearchFits, Judge
    PROVE  SearchFits'
<1>1. PICK h \in search.held :
          GoOn([search EXCEPT !.held = {},
                              !.found = IF Shown(h[2]) THEN @ \cup {h[1]} ELSE @])
  BY DEF Judge
<1>2. /\ search.step = "visit" /\ UNCHANGED <<records, lead, several, answer, ever, always, changes>>
      /\ search'.step = "visit" /\ search'.purpose = search.purpose /\ search'.layer = search.layer
      /\ search'.rows = search.rows /\ search'.held = {}
      /\ search'.found = IF Shown(h[2]) THEN search.found \cup {h[1]} ELSE search.found
      /\ search'.pool = search.pool
  BY <1>1 DEF Judge, GoOn, Going, SearchFits, SearchTypeOK
<1>3. h[1] \in Ids
  BY DEF SearchFits, SearchTypeOK
<1>4. SearchTypeOK'
  BY <1>1, <1>2, <1>3 DEF Judge, GoOn, Going, SearchFits, SearchTypeOK
<1>5. Shown(h[2]) => h[1] \in ever /\ records[h[1]].kind # "post"
  BY <1>2, ShownFits
<1>6. ServedNow' /\ HeldFits' /\ FoundFits' /\ TermsFit' /\ LayerFits' /\ OneHeld'
  BY <1>2, <1>5 DEF SearchFits, ServedNow, UnderWay, HeldFits, FoundFits, TermsFit, LayerFits,
     OneHeld, OwnMemory
<1>7. RowsFit'
  <2>1. HeldIds' = {} /\ h[1] \in HeldIds
    BY <1>2 DEF HeldIds
  <2>2. Crowded' <=> Crowded
    BY <1>2 DEF Crowded
  <2>3. \A g \in search.held : g = h
    BY DEF SearchFits, OneHeld
  <2>4. HeldIds = {h[1]}
    BY <2>1, <2>3 DEF HeldIds
  <2>5. ASSUME search.purpose = "chat", search.layer = 3,
               NEW x \in always, x[1] = h[1], records[x[1]].kind \in Counting
        PROVE  Shown(h[2])
    BY <1>2, <2>5, ShownFits
  <2> QED
    BY <1>2, <1>5, <2>1, <2>2, <2>4, <2>5 DEF SearchFits, RowsFit
<1>8. ShownWasServed' /\ AsksOnlyWhenUnknown'
  BY <1>2 DEF SearchFits, FoundFits, ShownWasServed, AsksOnlyWhenUnknown
<1> QED
  BY <1>2, <1>4, <1>6, <1>7, <1>8 DEF SearchFits

LEMMA EndLayerKeeps ==
    ASSUME SearchFits, EndLayer
    PROVE  SearchFits'
<1>1. PICK kept \in Kept(search.found) :
          LET results == {i \in kept : records[i].kind \in Wanted(search.purpose)}
          IN  \/ /\ \/ search.purpose \notin DOMAIN Pools
                    \/ Cardinality(results) >= IF LastLayer THEN 1 ELSE Enough
                 /\ Return(results)
              \/ /\ ~LastLayer /\ Cardinality(results) < Enough
                 /\ GoOn([search EXCEPT !.step = "index", !.layer = @ + 1])
              \/ /\ LastLayer /\ results = {} /\ search.purpose \in DOMAIN Pools
                 /\ GoOn([search EXCEPT !.step = "terms", !.found = {},
                                        !.pool = Pools[search.purpose]])
  BY DEF EndLayer
<1> DEFINE results == {i \in kept : records[i].kind \in Wanted(search.purpose)}
<1>2. /\ search.step = "visit" /\ search.rows = {} /\ search.held = {}
      /\ search.purpose \in Purposes /\ search.layer \in 1..Len(LayersOf[search.purpose])
  BY DEF EndLayer, SearchFits, SearchTypeOK, LayerFits
<1>3. results \subseteq search.found /\ search.found \subseteq Ids /\ search.found \subseteq ever
  BY <1>2 DEF Kept, SearchFits, SearchTypeOK, FoundFits
<1>4. Len(LayersOf[search.purpose]) \in 1..3 /\ (search.purpose = "chat" => Len(LayersOf[search.purpose]) = 3)
  BY <1>2 DEF Purposes, LayersOf
<1>5. answer = {}
  BY <1>2 DEF SearchFits, FoundFits
<1>6. DOMAIN Pools = {"chat", "documents"} /\ Pools["documents"] = DocumentAlone
      /\ Pools["chat"] = MemoryOn
  BY DEF Pools, MemoryOn, DocumentAlone
<1>7. ASSUME search.purpose = "chat", LastLayer, results = {}, ~Crowded,
             NEW x \in always, records[x[1]].kind \in Counting, records[x[1]].match = "whole"
      PROVE  FALSE
  <2>1. search.layer = 3
    BY <1>4, <1>7 DEF LastLayer
  <2>2. x[1] \in search.found
    BY <1>2, <1>7, <2>1 DEF SearchFits, RowsFit, HeldIds
  <2>3. PICK i \in kept : i \in search.found
    BY <2>2 DEF Kept
  <2>4. records[i].kind \notin {"message", "activity", "post"} /\ records[i].kind \in RecordKinds
    BY <1>2, <1>3, <1>7, <2>3 DEF SearchFits, RowsFit, Crowded, SearchTypeOK, AnyRecord, Record
  <2>5. records[i].kind \in Wanted(search.purpose)
    BY <1>7, <2>4 DEF Wanted, RecordKinds
  <2> QED
    BY <1>7, <2>3, <2>5
<1>8. CASE /\ \/ search.purpose \notin DOMAIN Pools
              \/ Cardinality(results) >= IF LastLayer THEN 1 ELSE Enough
           /\ Return(results)
  <2>1. /\ UNCHANGED <<records, lead, several, ever, always, changes>> /\ answer' = results
        /\ search'.step = "done" /\ search'.purpose = search.purpose /\ search'.held = {}
        /\ search'.layer = search.layer /\ search'.pool = search.pool
    BY <1>2, <1>8 DEF Return, Going, SearchFits, SearchTypeOK
  <2>2. SearchTypeOK'
    BY <1>3, <1>8, <2>1 DEF Return, Going, SearchFits, SearchTypeOK
  <2>3. ServedNow' /\ HeldFits' /\ FoundFits' /\ RowsFit' /\ TermsFit' /\ LayerFits' /\ OneHeld'
    BY <1>2, <2>1 DEF SearchFits, ServedNow, UnderWay, HeldFits, FoundFits, RowsFit, TermsFit,
       LayerFits, OneHeld
  <2>4. ShownWasServed'
    BY <1>3, <2>1 DEF ShownWasServed
  <2>5. search.purpose = "chat" => results # {}
    <3>1. SUFFICES ASSUME search.purpose = "chat", results = {} PROVE FALSE
      OBVIOUS
    <3>2. Cardinality(results) = 0
      BY <3>1, FS_EmptySet
    <3> QED
      BY <1>6, <1>8, <3>1, <3>2, SearchAssumption
  <2>6. AsksOnlyWhenUnknown'
    BY <2>1, <2>5 DEF AsksOnlyWhenUnknown
  <2> QED
    BY <2>2, <2>3, <2>4, <2>6 DEF SearchFits
<1>9. CASE ~LastLayer /\ GoOn([search EXCEPT !.step = "index", !.layer = @ + 1])
  <2>1. /\ UNCHANGED <<records, lead, several, answer, ever, always, changes>>
        /\ search'.step = "index" /\ search'.purpose = search.purpose /\ search'.held = {}
        /\ search'.layer = search.layer + 1 /\ search'.rows = {} /\ search'.found = search.found
        /\ search'.pool = search.pool
    BY <1>2, <1>9 DEF GoOn, Going, SearchFits, SearchTypeOK
  <2>2. search.layer + 1 \in 1..Len(LayersOf[search.purpose]) /\ search.layer + 1 \in 0..3
    <3>1. search.layer # Len(LayersOf[search.purpose])
      BY <1>9 DEF LastLayer
    <3> QED
      BY <1>2, <1>4, <3>1, NextLayer
  <2>3. SearchTypeOK'
    BY <1>9, <2>1, <2>2 DEF GoOn, Going, SearchFits, SearchTypeOK
  <2>4. ServedNow' /\ HeldFits' /\ FoundFits' /\ RowsFit' /\ TermsFit' /\ LayerFits' /\ OneHeld'
    BY <1>2, <1>5, <2>1, <2>2
       DEF SearchFits, ServedNow, UnderWay, HeldFits, FoundFits, RowsFit, TermsFit, LayerFits, OneHeld
  <2>5. ShownWasServed' /\ AsksOnlyWhenUnknown'
    BY <1>5, <2>1 DEF ShownWasServed, AsksOnlyWhenUnknown
  <2> QED
    BY <2>3, <2>4, <2>5 DEF SearchFits
<1>10. CASE /\ LastLayer /\ results = {} /\ search.purpose \in DOMAIN Pools
            /\ GoOn([search EXCEPT !.step = "terms", !.found = {}, !.pool = Pools[search.purpose]])
  <2>1. /\ UNCHANGED <<records, lead, several, answer, ever, always, changes>>
        /\ search'.step = "terms" /\ search'.purpose = search.purpose /\ search'.held = {}
        /\ search'.layer = search.layer /\ search'.rows = {} /\ search'.found = {}
        /\ search'.pool = Pools[search.purpose]
    BY <1>2, <1>10 DEF GoOn, Going, SearchFits, SearchTypeOK
  <2>2. Pools[search.purpose] \in PoolRests
    BY <1>6, <1>10 DEF PoolRests
  <2>3. SearchTypeOK'
    BY <1>10, <2>1, <2>2 DEF GoOn, Going, SearchFits, SearchTypeOK
  <2>4. TermsFit'
    <3>1. SUFFICES ASSUME search.purpose = "chat", NEW x \in always, records[x[1]].kind \in Counting
                   PROVE  /\ ~ReadAlready(records[x[1]].kind)'
                          /\ records[x[1]].match = "whole" => Crowded
      BY <2>1 DEF TermsFit, Crowded
    <3>2. search'.pool = MemoryOn
      BY <1>6, <2>1, <3>1
    <3>3. ~ReadAlready(records[x[1]].kind)'
      BY <2>1, <3>1, <3>2, PoolsDiffer DEF ReadAlready, Counting
    <3> QED
      BY <1>7, <1>10, <3>1, <3>3
  <2>5. ServedNow' /\ HeldFits' /\ RowsFit' /\ LayerFits' /\ OneHeld'
    BY <1>2, <2>1 DEF SearchFits, ServedNow, UnderWay, HeldFits, RowsFit, LayerFits, OneHeld
  <2>6. FoundFits'
    BY <1>5, <1>6, <1>10, <2>1, PoolsDiffer DEF FoundFits
  <2>7. ShownWasServed' /\ AsksOnlyWhenUnknown'
    BY <1>5, <2>1 DEF ShownWasServed, AsksOnlyWhenUnknown
  <2> QED
    BY <2>3, <2>4, <2>5, <2>6, <2>7 DEF SearchFits
<1> QED
  BY <1>1, <1>8, <1>9, <1>10

LEMMA ReadPoolKeeps ==
    ASSUME SearchFits, ReadPool
    PROVE  SearchFits'
<1> DEFINE hits == {i \in Ids : /\ records[i].kind \in Head(search.pool) /\ InPool(records[i])
                                /\ several \/ search.purpose = "documents"}
<1>1. /\ search.step = "terms" /\ search.pool # <<>>
      /\ UNCHANGED <<records, lead, several, answer, ever, always, changes>>
      /\ search'.step = "terms" /\ search'.purpose = search.purpose /\ search'.held = search.held
      /\ search'.layer = search.layer /\ search'.rows = search.rows
      /\ search'.found = search.found \cup hits /\ search'.pool = Tail(search.pool)
  BY DEF ReadPool, GoOn, Going, SearchFits, SearchTypeOK
<1>2. search.pool \in PoolRests /\ Tail(search.pool) \in PoolRests
  BY <1>1, PoolTails DEF SearchFits, SearchTypeOK
<1>3. SearchTypeOK'
  BY <1>1, <1>2 DEF ReadPool, GoOn, Going, SearchFits, SearchTypeOK
<1>4. search.purpose \in {"chat", "documents"} /\
      (search.purpose = "documents" => search.pool = DocumentAlone)
  BY <1>1 DEF SearchFits, FoundFits
<1>5. ASSUME NEW i \in hits PROVE i \in ever \/ (search.purpose = "chat" /\ OwnMemory(i))
  <2>1. InPool(records[i]) /\ RecordFits(records[i]) /\ i \in Ids /\ Served(records, lead) \subseteq ever
    BY <1>1 DEF SearchFits, ServedNow, UnderWay
  <2>2. search.purpose = "documents" => records[i].kind = "document"
    BY <1>4, PoolHeads
  <2> QED
    BY <1>4, <2>1, <2>2
          DEF InPool, ItemVisible, RecordFits, Served, Readable, OwnMemory, AnyRecord, Record, RecordKinds, Scopes
<1>6. FoundFits'
  <2>1. search.purpose = "documents" => Tail(search.pool) = <<>>
    BY <1>4, PoolTails
  <2>2. Tail(search.pool) # DocumentAlone
    <3>1. search.pool \in {MemoryOn, ItemsOn, DocumentsOn, EvidenceOn, DocumentAlone}
      BY <1>1, <1>2 DEF PoolRests
    <3> QED
      BY <3>1, PoolTails, PoolsDiffer
  <2> QED
    BY <1>1, <1>4, <1>5, <2>1, <2>2 DEF SearchFits, FoundFits, OwnMemory
<1>7. TermsFit'
  <2>1. SUFFICES ASSUME search.purpose = "chat", NEW x \in always, records[x[1]].kind \in Counting
                 PROVE  /\ several /\ ReadAlready(records[x[1]].kind)' => x[1] \in search'.found
                        /\ ~several /\ records[x[1]].match = "whole" => Crowded
    BY <1>1 DEF TermsFit, Crowded
  <2>2. /\ several /\ ReadAlready(records[x[1]].kind) => x[1] \in search.found
        /\ ~several /\ records[x[1]].match = "whole" => Crowded
    BY <1>1, <2>1 DEF SearchFits, TermsFit
  <2>3. several /\ records[x[1]].kind \in Head(search.pool) => x[1] \in hits
    <3>1. x \in Rights(records, lead) /\ x[1] \in Ids /\ RecordFits(records[x[1]])
      BY <1>1 DEF SearchFits, ServedNow, SearchTypeOK
    <3>2. InPool(records[x[1]])
      BY <2>1, <3>1 DEF InPool, ItemVisible, Rights, Entitles, RecordFits, Counting
    <3> QED
      BY <3>1, <3>2
  <2>4. ReadAlready(records[x[1]].kind)' =>
            ReadAlready(records[x[1]].kind) \/ records[x[1]].kind \in Head(search.pool)
    <3>1. search.pool \in {MemoryOn, ItemsOn, DocumentsOn, EvidenceOn, DocumentAlone}
      BY <1>1, <1>2 DEF PoolRests
    <3>2. CASE search.pool = MemoryOn
      BY <1>1, <2>1, <3>2, PoolTails, PoolHeads, PoolsDiffer DEF ReadAlready, Counting
    <3>3. CASE search.pool = ItemsOn
      BY <1>1, <2>1, <3>3, PoolTails, PoolHeads, PoolsDiffer DEF ReadAlready, Counting
    <3>4. CASE search.pool = DocumentsOn
      BY <1>1, <2>1, <3>4, PoolTails, PoolHeads, PoolsDiffer DEF ReadAlready, Counting
    <3>5. CASE search.pool = EvidenceOn
      BY <1>1, <2>1, <3>5 DEF ReadAlready, Counting
    <3>6. CASE search.pool = DocumentAlone
      BY <1>1, <2>1, <3>6 DEF SearchFits, FoundFits
    <3> QED
      BY <3>1, <3>2, <3>3, <3>4, <3>5, <3>6
  <2> QED
    BY <1>1, <2>2, <2>3, <2>4
<1>8. ServedNow' /\ HeldFits' /\ RowsFit' /\ LayerFits' /\ OneHeld'
  BY <1>1 DEF SearchFits, ServedNow, UnderWay, HeldFits, RowsFit, LayerFits, OneHeld
<1>9. ShownWasServed' /\ AsksOnlyWhenUnknown'
  BY <1>1 DEF SearchFits, FoundFits, ShownWasServed, AsksOnlyWhenUnknown
<1> QED
  BY <1>3, <1>6, <1>7, <1>8, <1>9 DEF SearchFits

LEMMA EndPoolKeeps ==
    ASSUME SearchFits, EndPool
    PROVE  SearchFits'
<1>1. PICK kept \in Kept(search.found) : Return(kept)
  BY DEF EndPool
<1>2. /\ search.step = "terms" /\ search.pool = <<>> /\ search.held = {}
      /\ UNCHANGED <<records, lead, several, ever, always, changes>> /\ answer' = kept
      /\ search'.step = "done" /\ search'.purpose = search.purpose /\ search'.held = {}
      /\ search'.layer = search.layer /\ search'.pool = <<>>
  BY <1>1 DEF EndPool, Return, Going, SearchFits, SearchTypeOK, LayerFits
<1>3. kept \subseteq search.found /\ search.found \subseteq Ids /\ (kept = {} => search.found = {})
  BY DEF Kept, SearchFits, SearchTypeOK
<1>4. SearchTypeOK'
  BY <1>1, <1>2, <1>3 DEF Return, Going, SearchFits, SearchTypeOK
<1>5. ServedNow' /\ HeldFits' /\ FoundFits' /\ RowsFit' /\ TermsFit' /\ LayerFits' /\ OneHeld'
  BY <1>2 DEF SearchFits, ServedNow, UnderWay, HeldFits, FoundFits, RowsFit, TermsFit, LayerFits,
     OneHeld
<1>6. ShownWasServed'
  BY <1>2, <1>3 DEF SearchFits, FoundFits, OwnMemory, ShownWasServed
<1>7. AsksOnlyWhenUnknown'
  <2>1. SUFFICES ASSUME search.purpose = "chat", kept = {}, NEW x \in always,
                        records[x[1]].kind \in Counting
                 PROVE  ~several /\ (records[x[1]].match = "whole" => Crowded)
    BY <1>2 DEF AsksOnlyWhenUnknown, Counting, Crowded
  <2>2. ReadAlready(records[x[1]].kind)
    BY <1>2, <2>1 DEF ReadAlready, Counting
  <2> QED
    BY <1>2, <1>3, <2>1, <2>2 DEF SearchFits, SearchTypeOK, TermsFit
<1> QED
  BY <1>4, <1>5, <1>6, <1>7 DEF SearchFits

LEMMA SearchInitFits == SearchInit => SearchFits
<1> SUFFICES ASSUME SearchInit PROVE SearchFits
  OBVIOUS
<1>1. \A r \in Stored : RecordFits(r)
  BY DEF Stored, RecordFits, AnyRecord, Record, RecordKinds, Scopes
<1>2. records \in [Ids -> AnyRecord] /\ \A i \in Ids : RecordFits(records[i])
  BY <1>1 DEF SearchInit, RecordFits
<1>3. /\ search.step = "idle" /\ search.held = {} /\ search.rows = {} /\ search.found = {}
      /\ search.purpose = "chat" /\ search.layer = 0 /\ search.pool = <<>> /\ answer = {}
  BY DEF SearchInit, NotBegun
<1>4. SearchTypeOK
  BY <1>2, SearchAssumption DEF SearchInit, NotBegun, SearchTypeOK, PoolRests, Purposes, LayersOf
<1>5. /\ ServedNow /\ HeldFits /\ FoundFits /\ RowsFit /\ TermsFit /\ LayerFits /\ OneHeld
      /\ ShownWasServed /\ AsksOnlyWhenUnknown
  BY <1>2, <1>3 DEF ServedNow, UnderWay, HeldFits, FoundFits, RowsFit, TermsFit, LayerFits,
     OneHeld,
     ShownWasServed, AsksOnlyWhenUnknown, SearchInit
<1> QED
  BY <1>4, <1>5 DEF SearchFits

LEMMA SearchStutterKeeps == SearchFits /\ UNCHANGED searchVars => SearchFits'
<1> SUFFICES ASSUME SearchFits, UNCHANGED searchVars PROVE SearchFits'
  OBVIOUS
<1> USE DEF searchVars, SearchFits
<1>1. SearchTypeOK' /\ ServedNow' /\ HeldFits' /\ FoundFits'
  BY DEF SearchTypeOK, ServedNow, UnderWay, HeldFits, FoundFits, OwnMemory
<1>2. Crowded' = Crowded
  BY DEF Crowded
<1>3. RowsFit' /\ TermsFit' /\ LayerFits' /\ OneHeld'
  BY <1>2 DEF RowsFit, HeldIds, TermsFit, ReadAlready, LayerFits, OneHeld
<1>4. ShownWasServed' /\ AsksOnlyWhenUnknown'
  BY <1>2 DEF ShownWasServed, AsksOnlyWhenUnknown
<1> QED
  BY <1>1, <1>3, <1>4

LEMMA SearchInvariance == SearchSpec => []SearchFits
<1>1. SearchFits /\ [SearchNext]_searchVars => SearchFits'
  BY BeginSearchKeeps, ReadIndexKeeps, FetchKeeps, JudgeKeeps, EndLayerKeeps, ReadPoolKeeps,
     EndPoolKeeps, OthersKeep, SearchStutterKeeps DEF SearchNext
<1> QED
  BY <1>1, SearchInitFits, PTL DEF SearchSpec

\* store.py search: what is shown could be read by the asker, and was current, at some moment
\* of the search, for any number of records, changes and limits.
THEOREM ShownWasServedHolds == SearchSpec => []ShownWasServed
<1>1. SearchFits => ShownWasServed
  BY DEF SearchFits
<1> QED
  BY <1>1, SearchInvariance, PTL

\* agents.py _search_team_brain: a chat turn that finds nothing had nothing to find that it
\* could read all the time by one right, for any number of records, changes and limits.
THEOREM AsksWhenUnknown == SearchSpec => []AsksOnlyWhenUnknown
<1>1. SearchFits => AsksOnlyWhenUnknown
  BY DEF SearchFits
<1> QED
  BY <1>1, SearchInvariance, PTL
====
