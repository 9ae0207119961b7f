---- MODULE VectorIndexProofs ----
(***************************************************************************)
(* For any number of records, texts, writers and restarts: a vector that   *)
(* search may return embeds the present text, every text is tracked, and   *)
(* an entry that waits is owed a work.                                     *)
(***************************************************************************)
EXTENDS VectorIndex, TLAPS

\* What an entry e may be while the record says t.
Good(e, t) ==
    /\ e.state = "ready" => e.vector = e.hash /\ e.vector \in Texts
    /\ t \in Texts /\ e.state # "none" => e.hash = t
    /\ t \in {NoText, Blank} => e.state = "none"
    /\ e.state = "none" => e.vector \in {NoText, t}

EntriesGood == \A r \in Records : Good(index[r], text[r])

\* A process that is down has no work.
DownIsIdle == phase = "down" => boot = {} /\ \A w \in Writers : job[w] = NoWork

IInv == TypeOK /\ EntriesGood /\ DownIsIdle

---------------------------------------------------------------------------
(* The operations on one entry.                                            *)

\* prepare makes the entry good for the new text, whatever it was good for before.
LEMMA PreparedGood ==
    ASSUME NEW e \in Entry, NEW u, Good(e, u), NEW t \in Texts \cup {Blank}
    PROVE  Prepared(e, t) \in Entry /\ Good(Prepared(e, t), t)
<1>1. CASE t = Blank
  BY <1>1, VectorAssumption DEF Prepared, Good, Nothing, Entry, State
<1>2. CASE t # Blank /\ Current(e, t)
  BY <1>2, VectorAssumption DEF Prepared, Good, Current, Entry
<1>3. CASE t # Blank /\ ~Current(e, t)
  BY <1>3, VectorAssumption DEF Prepared, Good, Entry, State
<1> QED
  BY <1>1, <1>2, <1>3

\* mark_stale leaves the entry good for a record without a search document.
LEMMA MarkedStaleGood ==
    ASSUME NEW e \in Entry, NEW u, Good(e, u)
    PROVE  MarkedStale(e) \in Entry /\ Good(MarkedStale(e), Hidden)
  BY VectorAssumption DEF MarkedStale, Good, Entry, State

\* A late answer, good or bad, keeps the entry good for the text of the record.
LEMMA OutcomeGood ==
    ASSUME NEW e \in Entry, NEW u, Good(e, u), NEW t \in Texts
    PROVE  /\ Embedded(e, t) \in Entry /\ Good(Embedded(e, t), u)
           /\ FailedToEmbed(e, t) \in Entry /\ Good(FailedToEmbed(e, t), u)
<1>1. CASE Matches(e, t)
  BY <1>1 DEF Matches, Embedded, FailedToEmbed, Good, Entry, State
<1>2. CASE ~Matches(e, t)
  BY <1>2 DEF Embedded, FailedToEmbed
<1> QED
  BY <1>1, <1>2

\* adopt_ready and prepare, as the backfill applies them.
LEMMA BackfilledGood ==
    ASSUME TypeOK, EntriesGood, NEW r \in Records
    PROVE  Backfilled(r) \in Entry /\ Good(Backfilled(r), text[r])
<1>1. index[r] \in Entry /\ Good(index[r], text[r])
  BY DEF TypeOK, EntriesGood
<1>2. CASE index[r].state # "none" \/ text[r] \notin Texts \cup {Blank}
  BY <1>1, <1>2 DEF Backfilled
<1>3. CASE index[r].state = "none" /\ text[r] \in Texts \cup {Blank} /\ index[r].vector # NoText
  <2>1. index[r].vector = text[r] /\ index[r].vector \in Texts
    BY <1>1, <1>3 DEF Good, Entry
  <2>2. Backfilled(r) = [index[r] EXCEPT !.state = "ready", !.hash = text[r]]
    BY <1>3, <2>1, VectorAssumption DEF Backfilled, AdoptedReady
  <2> QED
    BY <1>1, <2>1, <2>2, VectorAssumption DEF Good, Entry, State
<1>4. CASE index[r].state = "none" /\ text[r] \in Texts \cup {Blank} /\ index[r].vector = NoText
  BY <1>1, <1>4, PreparedGood DEF Backfilled
<1> QED
  BY <1>2, <1>3, <1>4

---------------------------------------------------------------------------
(* The inductive invariant.                                                *)

\* The initial states, those of a database of an earlier version included.
LEMMA InitIInv == Init => IInv
<1> SUFFICES ASSUME Init PROVE IInv
  OBVIOUS
<1>1. \A r \in Records : index[r] \in Entry /\ index[r].state = "none"
  BY DEF Init, Nothing, Entry, State
<1> QED
  BY <1>1, VectorAssumption DEF Init, IInv, TypeOK, EntriesGood, Good, DownIsIdle

\* The end of process, by a writer or at startup, keeps the entries good.
LEMMA OutcomeStep ==
    ASSUME IInv, NEW k \in Work, Outcome(k)
    PROVE  index' \in [Records -> Entry] /\ \A r \in Records : Good(index'[r], text[r])
<1>1. k.record \in Records /\ k.text \in Texts
  BY DEF Work
<1>2. index[k.record] \in Entry /\ Good(index[k.record], text[k.record])
  BY <1>1 DEF IInv, TypeOK, EntriesGood
<1>3. PICK e \in Entry : Good(e, text[k.record]) /\ index' = [index EXCEPT ![k.record] = e]
  BY <1>1, <1>2, OutcomeGood DEF Outcome
<1> QED
  BY <1>1, <1>3 DEF IInv, TypeOK, EntriesGood

\* Every step keeps the inductive invariant.
LEMMA IInvStep == IInv /\ [Next]_vars => IInv'
<1> SUFFICES ASSUME IInv, [Next]_vars PROVE IInv'
  OBVIOUS
<1>1. ASSUME NEW w \in Writers, NEW r \in Records, NEW t \in Texts \cup {Blank, Hidden},
             Write(w, r, t)
      PROVE  IInv'
  <2>1. index[r] \in Entry /\ Good(index[r], text[r])
    BY DEF IInv, TypeOK, EntriesGood
  <2>2. PICK e \in Entry : Good(e, t) /\ index' = [index EXCEPT ![r] = e]
    BY <1>1, <2>1, PreparedGood, MarkedStaleGood DEF Write
  <2>3. index' \in [Records -> Entry] /\ text' \in [Records -> Texts \cup {NoText, Blank, Hidden}]
    BY <1>1, <2>2 DEF Write, IInv, TypeOK
  <2>4. EntriesGood'
    BY <1>1, <2>2 DEF Write, IInv, TypeOK, EntriesGood
  <2>5. job' \in [Writers -> Work \cup {NoWork}] /\ skipped' \in SUBSET Records
    <3>1. CASE NeedsWork(index[r], t) /\ enabled
      <4>1. [record |-> r, text |-> t] \in Work
        BY <3>1 DEF NeedsWork, Work
      <4> QED
        BY <1>1, <3>1, <4>1 DEF Write, IInv, TypeOK
    <3>2. CASE ~(NeedsWork(index[r], t) /\ enabled)
      BY <1>1, <3>2 DEF Write, IInv, TypeOK
    <3> QED
      BY <3>1, <3>2
  <2> QED
    BY <1>1, <2>3, <2>4, <2>5 DEF Write, IInv, TypeOK, DownIsIdle
<1>2. ASSUME NEW w \in Writers, Process(w) PROVE IInv'
  <2>1. job[w] \in Work /\ Outcome(job[w])
    BY <1>2 DEF Process, IInv, TypeOK
  <2> QED
    BY <1>2, <2>1, OutcomeStep DEF Process, IInv, TypeOK, EntriesGood, DownIsIdle
<1>3. CASE StartUp
  <2>1. /\ index' \in [Records -> Entry]
        /\ \A r \in Records : Good(index'[r], text[r])
    BY <1>3, BackfilledGood DEF StartUp, IInv
  <2>2. boot' \in SUBSET Work /\ skipped' \in SUBSET Records
    BY <1>3 DEF StartUp, Missing, Work, IInv, TypeOK
  <2> QED
    BY <1>3, <2>1, <2>2 DEF StartUp, IInv, TypeOK, EntriesGood, DownIsIdle
<1>4. CASE ProcessBoot
  <2>1. PICK k \in boot : Outcome(k) /\ boot' = boot \ {k}
    BY <1>4 DEF ProcessBoot
  <2>2. k \in Work
    BY DEF IInv, TypeOK
  <2> QED
    BY <1>4, <2>1, <2>2, OutcomeStep DEF ProcessBoot, IInv, TypeOK, EntriesGood, DownIsIdle
<1>5. CASE Serve
  BY <1>5 DEF Serve, IInv, TypeOK, EntriesGood, DownIsIdle
<1>6. CASE Crash
  <2>1. skipped' \in SUBSET Records /\ crashes' \in 0..MaxCrashes
    BY <1>6, VectorAssumption DEF Crash, IInv, TypeOK, Work
  <2> QED
    BY <1>6, <2>1 DEF Crash, IInv, TypeOK, EntriesGood, DownIsIdle
<1>7. CASE UNCHANGED vars
  BY <1>7 DEF vars, IInv, TypeOK, EntriesGood, DownIsIdle
<1> QED
  BY <1>1, <1>2, <1>3, <1>4, <1>5, <1>6, <1>7 DEF Next

\* The inductive invariant holds in every behaviour.
LEMMA Invariance == Spec => []IInv
  BY InitIInv, IInvStep, PTL DEF Spec

\* The variables have their types.
THEOREM TypeCorrect == Spec => []TypeOK
  BY Invariance, PTL DEF IInv

\* A READY vector embeds what the record says now: the content hash does keep a late
\* answer from attaching an old vector to newer text.
THEOREM ReadyCurrent == Spec => []ReadyIsCurrent
<1>1. IInv => ReadyIsCurrent
  <2> SUFFICES ASSUME IInv, NEW r \in Records, index[r].state = "ready"
               PROVE  /\ index[r].vector = index[r].hash /\ index[r].vector \in Texts
                      /\ text[r] # Hidden => index[r].vector = text[r]
    BY DEF ReadyIsCurrent
  <2> QED
    BY DEF IInv, TypeOK, EntriesGood, Good
<1> QED
  BY <1>1, Invariance, PTL

---------------------------------------------------------------------------
(* Tracking and owed works.                                                *)

\* An answer never removes an entry, nor opens one that is settled.
LEMMA OutcomeKeeps ==
    ASSUME TypeOK, NEW k \in Work, Outcome(k), NEW r \in Records
    PROVE  /\ index[r].state # "none" => index'[r].state # "none"
           /\ index'[r].state \in {"pending", "stale"} =>
                  /\ index'[r] = index[r]
                  /\ r = k.record => index[r].hash # k.text
<1>1. k.record \in Records /\ index[k.record] \in Entry
  BY DEF Work, TypeOK
<1>2. CASE r # k.record
  BY <1>1, <1>2 DEF Outcome, TypeOK
<1>3. CASE r = k.record
  <2>1. index'[r] \in {Embedded(index[r], k.text), FailedToEmbed(index[r], k.text)}
    BY <1>1, <1>3 DEF Outcome, TypeOK
  <2> QED
    BY <1>1, <1>3, <2>1 DEF Embedded, FailedToEmbed, Matches, Entry
<1> QED
  BY <1>2, <1>3

\* Every step keeps the texts tracked.
LEMMA TrackedStep == IInv /\ EveryTextIsTracked /\ [Next]_vars => EveryTextIsTracked'
<1> SUFFICES ASSUME IInv, EveryTextIsTracked, [Next]_vars, phase' # "down",
                    NEW r \in Records, text'[r] \in Texts
             PROVE  index'[r].state # "none" /\ index'[r].hash = text'[r]
  BY DEF EveryTextIsTracked
<1>1. Good(index'[r], text'[r])
  BY IInvStep DEF IInv, EntriesGood
<1>2. index'[r].state # "none"
  <2>1. ASSUME NEW w \in Writers, NEW s \in Records, NEW t \in Texts \cup {Blank, Hidden},
               Write(w, s, t)
        PROVE  index'[r].state # "none"
    <3>1. CASE r = s
      <4>1. t \in Texts
        BY <2>1, <3>1 DEF Write, IInv, TypeOK
      <4>2. index'[r] = Prepared(index[r], t)
        BY <2>1, <3>1, <4>1, VectorAssumption DEF Write, IInv, TypeOK
      <4> QED
        BY <4>1, <4>2, VectorAssumption DEF Prepared, Current
    <3>2. CASE r # s
      BY <2>1, <3>2 DEF Write, IInv, TypeOK, EveryTextIsTracked
    <3> QED
      BY <3>1, <3>2
  <2>2. ASSUME NEW w \in Writers, Process(w) PROVE index'[r].state # "none"
    BY <2>2, OutcomeKeeps DEF Process, IInv, TypeOK, EveryTextIsTracked
  <2>3. CASE StartUp
    <3>1. index'[r] = Backfilled(r) /\ text[r] \in Texts /\ index[r] \in Entry
      BY <2>3 DEF StartUp, IInv, TypeOK
    <3>2. CASE index[r].state # "none"
      BY <3>1, <3>2 DEF Backfilled
    <3>3. CASE index[r].state = "none" /\ index[r].vector # NoText
      BY <3>1, <3>3, VectorAssumption DEF Backfilled, AdoptedReady, Entry
    <3>4. CASE index[r].state = "none" /\ index[r].vector = NoText
      BY <3>1, <3>4, VectorAssumption DEF Backfilled, Prepared, Current
    <3> QED
      BY <3>2, <3>3, <3>4
  <2>4. CASE ProcessBoot
    <3>1. PICK k \in Work : Outcome(k)
      BY <2>4 DEF ProcessBoot, IInv, TypeOK
    <3> QED
      BY <2>4, <3>1, OutcomeKeeps DEF ProcessBoot, IInv, EveryTextIsTracked
  <2>5. CASE Serve \/ UNCHANGED vars
    BY <2>5 DEF Serve, vars, EveryTextIsTracked
  <2>6. CASE Crash
    BY <2>6 DEF Crash
  <2> QED
    BY <2>1, <2>2, <2>3, <2>4, <2>5, <2>6 DEF Next
<1> QED
  BY <1>1, <1>2 DEF Good

\* Once the server is starting, every record with a text is tracked with its hash.
THEOREM Tracked == Spec => []EveryTextIsTracked
<1>1. Init => EveryTextIsTracked
  BY DEF Init, EveryTextIsTracked
<1> QED
  BY <1>1, TrackedStep, Invariance, PTL DEF Spec

\* Every step keeps the works that waiting entries are owed.
LEMMA OwedStep == IInv /\ WaitingIsOwed /\ [Next]_vars => WaitingIsOwed'
<1> DEFINE Jobs == boot \cup {job[w] : w \in Writers}
           Owed(r) == [record |-> r, text |-> text[r]]
           Waits(r) == text[r] \in Texts /\ index[r].state \in {"pending", "stale"}
<1> SUFFICES ASSUME IInv, WaitingIsOwed, [Next]_vars,
                    NEW r \in Records, r \notin skipped', Waits(r)'
             PROVE  Owed(r)' \in Jobs'
  BY DEF WaitingIsOwed
<1>1. Waits(r) /\ r \notin skipped => Owed(r) \in Jobs
  BY DEF WaitingIsOwed
<1>2. ASSUME NEW w \in Writers, NEW s \in Records, NEW t \in Texts \cup {Blank, Hidden},
             Write(w, s, t)
      PROVE  Owed(r)' \in Jobs'
  <2>1. CASE r = s
    <3>1. t \in Texts /\ text'[r] = t
      BY <1>2, <2>1 DEF Write, IInv, TypeOK
    <3>2. index'[r] = Prepared(index[r], t)
      BY <1>2, <2>1, <3>1, VectorAssumption DEF Write, IInv, TypeOK
    <3>3. NeedsWork(index[r], t)
      BY <3>1, <3>2, VectorAssumption DEF NeedsWork, Prepared, Current
    <3>4. enabled
      BY <1>2, <2>1, <3>3 DEF Write
    <3>5. job'[w] = [record |-> r, text |-> t]
      BY <1>2, <2>1, <3>3, <3>4 DEF Write, IInv, TypeOK
    <3> QED
      BY <3>1, <3>5
  <2>2. CASE r # s
    <3>1. Waits(r) /\ text'[r] = text[r] /\ r \notin skipped
      BY <1>2, <2>2 DEF Write, IInv, TypeOK
    <3>2. Owed(r) \in boot \/ \E v \in Writers : job[v] = Owed(r)
      BY <1>1, <3>1
    <3>3. ASSUME NEW v \in Writers, job[v] = Owed(r) PROVE job'[v] = Owed(r)
      <4>1. v # w
        BY <1>2, <3>1, <3>3, VectorAssumption DEF Write, NoWork
      <4> QED
        BY <1>2, <3>3, <4>1 DEF Write, IInv, TypeOK
    <3> QED
      BY <1>2, <3>1, <3>2, <3>3 DEF Write
  <2> QED
    BY <2>1, <2>2
<1>3. ASSUME NEW w \in Writers, Process(w) PROVE Owed(r)' \in Jobs'
  <2>1. job[w] \in Work /\ Outcome(job[w])
    BY <1>3 DEF Process, IInv, TypeOK
  <2>2. /\ index'[r] = index[r] /\ text'[r] = text[r] /\ r \notin skipped
        /\ r = job[w].record => index[r].hash # job[w].text
    BY <1>3, <2>1, OutcomeKeeps DEF Process, IInv
  <2>3. Waits(r) /\ index[r].hash = text[r]
    BY <2>2 DEF IInv, EntriesGood, Good
  <2>4. job[w] # Owed(r)
    BY <2>2, <2>3
  <2>5. Owed(r) \in boot \/ \E v \in Writers : v # w /\ job[v] = Owed(r)
    BY <1>1, <2>2, <2>3, <2>4
  <2> QED
    BY <1>3, <2>2, <2>5 DEF Process, IInv, TypeOK
<1>4. CASE StartUp
  <2>1. PICK S \in SUBSET Missing : /\ boot' = {[record |-> s, text |-> text[s]] : s \in S}
                                    /\ skipped' = (skipped \ S) \cup (Missing \ S)
    BY <1>4 DEF StartUp
  <2>2. boot = {} /\ \A w \in Writers : job[w] = NoWork
    BY <1>4 DEF StartUp, IInv, DownIsIdle
  <2>3. Owed(r) \notin Jobs
    <3>1. text[r] \in Texts
      BY <1>4 DEF StartUp
    <3>2. Owed(r) # NoWork
      BY <3>1, VectorAssumption DEF NoWork
    <3> QED
      BY <2>2, <3>2
  <2>4. text' = text /\ index'[r] = Backfilled(r)
    BY <1>4 DEF StartUp
  <2>5. CASE r \in Missing
    BY <2>1, <2>4, <2>5
  <2>6. CASE r \notin Missing
    <3>1. r \notin skipped
      BY <2>1, <2>6
    <3>2. ~Waits(r)
      BY <1>1, <2>3, <3>1
    <3>3. index[r].state # "none" \/ index[r].vector # NoText
      BY <2>4, <2>6 DEF Missing
    <3>4. index'[r].state \notin {"pending", "stale"}
      BY <2>4, <3>2, <3>3, VectorAssumption DEF Backfilled, AdoptedReady, IInv, TypeOK, Entry
    <3> QED
      BY <3>4
  <2> QED
    BY <2>5, <2>6
<1>5. CASE ProcessBoot
  <2>1. PICK k \in boot : Outcome(k) /\ boot' = boot \ {k}
    BY <1>5 DEF ProcessBoot
  <2>2. k \in Work
    BY DEF IInv, TypeOK
  <2>3. /\ index'[r] = index[r] /\ text'[r] = text[r] /\ r \notin skipped
        /\ r = k.record => index[r].hash # k.text
    BY <1>5, <2>1, <2>2, OutcomeKeeps DEF ProcessBoot, IInv
  <2>4. Waits(r) /\ index[r].hash = text[r]
    BY <2>3 DEF IInv, EntriesGood, Good
  <2>5. k # Owed(r)
    BY <2>3, <2>4
  <2> QED
    BY <1>1, <1>5, <2>1, <2>3, <2>4, <2>5 DEF ProcessBoot
<1>6. CASE Serve \/ UNCHANGED vars
  BY <1>1, <1>6 DEF Serve, vars
<1>7. CASE Crash
  <2>1. Waits(r) /\ r \notin skipped
    BY <1>7 DEF Crash
  <2>2. Owed(r) \in Jobs /\ Owed(r) # NoWork
    BY <1>1, <2>1, VectorAssumption DEF NoWork
  <2>3. r \in skipped'
    <3>1. skipped' = skipped \cup {k.record : k \in Jobs \ {NoWork}}
      BY <1>7 DEF Crash
    <3>2. Owed(r).record \in {k.record : k \in Jobs \ {NoWork}}
      BY <2>2
    <3> QED
      BY <3>1, <3>2
  <2> QED
    BY <2>3
<1> QED
  BY <1>2, <1>3, <1>4, <1>5, <1>6, <1>7 DEF Next

\* An entry that waits has a work under way with its text, unless that work was given up
\* with its process, by the backfill limit or by the setting.
THEOREM Owed == Spec => []WaitingIsOwed
<1>1. Init => WaitingIsOwed
  <2> SUFFICES ASSUME Init, NEW r \in Records PROVE index[r].state = "none"
    BY DEF WaitingIsOwed
  <2> QED
    BY DEF Init, Nothing
<1> QED
  BY <1>1, OwedStep, Invariance, PTL DEF Spec
====
