---- MODULE MarketProofs ----
(***************************************************************************)
(* For any users, topics, calls and faults: an answer that nobody confirmed*)
(* is covered by consent and cites nothing sensitive, and whoever left is  *)
(* silent.  The second needs that a turn belongs to somebody who had not   *)
(* left when it began, and that the matter at hand is that helper's.       *)
(***************************************************************************)
EXTENDS Market, TLAPS

\* Between two turns nobody is at work on anything, and in a turn one user is.
TurnHasUser ==
    /\ worker.step = "next" => worker.user = NoUser /\ worker.left = {} /\ worker.about = {}
    /\ worker.step # "next" => worker.user \in Users

\* What is left to look at are the needs of others, and the matter at hand is the helper's.
MattersAreOwn ==
    /\ \A x \in worker.left : x[1] # worker.user
    /\ \A m \in worker.about : m[1] = worker.user

\* Whoever follows a need up has a match left in this run.
RoomForMatch == worker.step \in {"grant", "answer", "post"} => worker.matched < Cap

\* Who left is not a participant, and it is not their turn.
GoneAreOut == gone \cap joined = {} /\ worker.user \notin gone

IInv == TypeOK /\ TurnHasUser /\ MattersAreOwn /\ RoomForMatch /\ GoneAreOut

---------------------------------------------------------------------------
(* Lemmas about the worker.                                                *)

LEMMA RestingTyped ==
    /\ Resting \in Worker
    /\ Resting.step = "next" /\ Resting.user = NoUser /\ Resting.left = {} /\ Resting.about = {}
BY MarketAssumption DEF Resting, Worker

\* A worker may change any of its fields to a value of its type.
LEMMA WorkerWith ==
    ASSUME NEW w \in Worker
    PROVE  /\ \A x \in SUBSET Users : [w EXCEPT !.todo = x] \in Worker
           /\ \A x \in SUBSET (Users \X Topics) : [w EXCEPT !.left = x] \in Worker
           /\ \A x \in SUBSET (Users \X Topics), y \in SUBSET Matters :
                 [w EXCEPT !.left = x, !.step = "grant", !.about = y] \in Worker
           /\ [w EXCEPT !.step = "answer"] \in Worker
           /\ [w EXCEPT !.step = "post"] \in Worker
           /\ w.matched < Cap =>
                 [w EXCEPT !.step = "look", !.about = {}, !.matched = @ + 1] \in Worker
           /\ \A r \in {"none", "publish", "scout"}, x \in SUBSET Users :
                 [w EXCEPT !.run = r, !.todo = x] \in Worker
           /\ \A u \in Users, k \in SUBSET Topics, x \in SUBSET (Users \X Topics) :
                 [w EXCEPT !.user = u, !.step = "look", !.knows = k, !.left = x] \in Worker
<1>1. w.matched < Cap => w.matched + 1 \in 0..Cap
  BY MarketAssumption DEF Worker
<1> QED
  BY <1>1 DEF Worker

LEMMA NeedsTyped ==
    ASSUME TypeOK, NEW u \in Users
    PROVE  /\ NeedsOfOthers(u) \in SUBSET (Users \X Topics)
           /\ \A x \in NeedsOfOthers(u) : x[1] # u
BY DEF TypeOK, NeedsOfOthers

LEMMA KnowsTyped ==
    ASSUME TypeOK, NEW u \in Users
    PROVE  Topic(notes[u]) \in SUBSET Topics
<1>1. notes[u] \in SUBSET Note
  BY DEF TypeOK
<1>2. \A m \in Note : m.topic \in Topics
  BY DEF Note
<1> QED
  BY <1>1, <1>2 DEF Topic

\* A turn ends without a user, and whoever left in it is gone.
LEMMA TurnEnds ==
    ASSUME IInv, EndTurn
    PROVE  /\ worker' \in Worker /\ worker'.step = "next" /\ worker'.user = NoUser
           /\ worker'.left = {} /\ worker'.about = {}
           /\ gone' \in SUBSET Users /\ gone' \cap joined = {}
           /\ gone \subseteq gone'
<1>1. worker.run \in {"none", "publish", "scout"} /\ worker.todo \in SUBSET Users
  BY DEF IInv, TypeOK, Worker
<1>2. worker' \in Worker
  BY <1>1, RestingTyped, WorkerWith DEF EndTurn
<1>3. /\ worker'.step = "next" /\ worker'.user = NoUser
      /\ worker'.left = {} /\ worker'.about = {}
  BY DEF EndTurn, Resting
<1> QED
  BY <1>2, <1>3 DEF EndTurn, IInv, TypeOK, GoneAreOut

---------------------------------------------------------------------------
(* The invariant.                                                          *)

LEMMA InitIInv == Init => IInv
<1> SUFFICES ASSUME Init PROVE IInv
  OBVIOUS
<1>1. TypeOK
  <2>1. notes \in [Users -> SUBSET Note]
    BY DEF Init
  <2>2. signal \in [Users -> Topics \cup {NoNeed}]
    BY DEF Init
  <2>3. joined \in SUBSET Users /\ gone \in SUBSET Users
    BY MarketAssumption DEF Init
  <2> QED
    BY <2>1, <2>2, <2>3, RestingTyped, MarketAssumption DEF Init, TypeOK
<1>2. TurnHasUser /\ MattersAreOwn /\ RoomForMatch
  BY RestingTyped DEF Init, TurnHasUser, MattersAreOwn, RoomForMatch, Resting
<1>3. GoneAreOut
  BY RestingTyped, MarketAssumption DEF Init, GoneAreOut
<1> QED
  BY <1>1, <1>2, <1>3 DEF IInv

\* People who call: the worker goes on as it was.
LEMMA CallsKeep ==
    ASSUME IInv, Calls
    PROVE  IInv'
<1>1. worker' = worker /\ signal' = signal /\ seen' = seen /\ consents' = consents
      /\ answers' = answers /\ matches' = matches /\ settled' = settled
      /\ made' = made + 1 /\ made < MaxCalls /\ changes' = changes /\ faults' = faults
  BY DEF Calls, Join, Leave, TakeNote, Called, board
<1>2. made' \in 0..MaxCalls
  BY <1>1, MarketAssumption DEF IInv, TypeOK
<1>3. (TurnHasUser /\ MattersAreOwn /\ RoomForMatch)'
  BY <1>1 DEF IInv, TurnHasUser, MattersAreOwn, RoomForMatch
<1>4. ASSUME NEW u \in Users, Join(u) PROVE IInv'
  <2>1. joined' \in SUBSET Users /\ gone' \in SUBSET Users /\ notes' = notes
    BY <1>4 DEF IInv, TypeOK, Join
  <2>2. GoneAreOut'
    BY <1>1, <1>4 DEF IInv, GoneAreOut, Join
  <2> QED
    BY <1>1, <1>2, <1>3, <2>1, <2>2 DEF IInv, TypeOK
<1>5. ASSUME NEW u \in Users, Leave(u) PROVE IInv'
  <2>1. joined' \in SUBSET Users /\ gone' \in SUBSET Users /\ notes' = notes
    BY <1>5 DEF IInv, TypeOK, Leave
  <2>2. GoneAreOut'
    BY <1>1, <1>5 DEF IInv, GoneAreOut, Leave
  <2> QED
    BY <1>1, <1>2, <1>3, <2>1, <2>2 DEF IInv, TypeOK
<1>6. ASSUME NEW u \in Users, NEW note \in Note, TakeNote(u, note) PROVE IInv'
  <2>1. notes' \in [Users -> SUBSET Note] /\ joined' = joined /\ gone' = gone
    BY <1>6 DEF IInv, TypeOK, TakeNote
  <2>2. GoneAreOut'
    BY <1>1, <2>1 DEF IInv, GoneAreOut
  <2> QED
    BY <1>1, <1>2, <1>3, <2>1, <2>2 DEF IInv, TypeOK
<1> QED
  BY <1>4, <1>5, <1>6 DEF Calls

\* Errors and restarts: the run is over, as a turn may be.
LEMMA StopsKeep ==
    ASSUME IInv, Stops, seen' \in SUBSET Matters, settled' \in SUBSET Matters
    PROVE  IInv'
<1>1. worker' = Resting /\ UNCHANGED <<joined, notes, signal, matches, consents, answers,
                                       made, changes>>
  BY DEF Stops, people, board
<1>2. faults' \in 0..MaxFaults
  BY MarketAssumption DEF Stops, IInv, TypeOK
<1>3. gone' \in SUBSET Users /\ gone' \cap joined = {}
  BY DEF Stops, IInv, TypeOK, GoneAreOut
<1>4. NoUser \notin gone'
  BY <1>3, MarketAssumption
<1>5. TypeOK'
  BY <1>1, <1>2, <1>3, RestingTyped DEF IInv, TypeOK
<1>6. (TurnHasUser /\ MattersAreOwn /\ RoomForMatch)'
  BY <1>1, RestingTyped DEF TurnHasUser, MattersAreOwn, RoomForMatch
<1> QED
  BY <1>1, <1>3, <1>4, <1>5, <1>6, RestingTyped DEF IInv, GoneAreOut

\* A turn begins, with somebody who has not left.
LEMMA NextUserKeeps ==
    ASSUME IInv, NEW u \in Users, NextUser(u)
    PROVE  IInv'
<1> DEFINE rest == [worker EXCEPT !.todo = @ \ {u}]
           left == IF worker.run = "scout" THEN NeedsOfOthers(u) ELSE {}
           begun == [rest EXCEPT !.user = u, !.step = "look", !.knows = Topic(notes[u]),
                                 !.left = left]
<1>1. UNCHANGED <<joined, notes, signal, matches, seen, consents, answers, gone, settled,
                  made, changes, faults>>
  BY DEF NextUser, people, board, history, bounds
<1>2. worker \in Worker /\ worker.step = "next" /\ worker.about = {}
      /\ worker.todo \in SUBSET Users
  BY DEF NextUser, IInv, TypeOK, TurnHasUser, Worker
<1>3. rest \in Worker
  BY <1>2, WorkerWith
<1>4. worker' = rest \/ (u \in joined /\ worker' = begun)
  BY DEF NextUser
<1>5. CASE worker' = rest
  <2>1. /\ rest.step = worker.step /\ rest.user = worker.user /\ rest.left = worker.left
        /\ rest.about = worker.about /\ rest.matched = worker.matched
    BY <1>2 DEF Worker
  <2>2. TypeOK'
    BY <1>1, <1>3, <1>5 DEF IInv, TypeOK
  <2> HIDE DEF rest
  <2> QED
    BY <1>1, <1>5, <2>1, <2>2
    DEF IInv, TurnHasUser, MattersAreOwn, RoomForMatch, GoneAreOut
<1>6. CASE u \in joined /\ worker' = begun
  <2>1. left \in SUBSET (Users \X Topics) /\ \A x \in left : x[1] # u
    BY NeedsTyped DEF IInv
  <2>2. begun \in Worker
    <3> HIDE DEF rest, left
    <3> QED
      BY <1>3, <2>1, WorkerWith, KnowsTyped DEF IInv
  <2>3. begun.step = "look" /\ begun.user = u /\ begun.left = left /\ begun.about = {}
    <3> HIDE DEF left
    <3> QED
      BY <1>2 DEF Worker
  <2>4. u \notin gone /\ u # NoUser
    BY <1>6, MarketAssumption DEF IInv, GoneAreOut
  <2> HIDE DEF begun, left
  <2>5. TypeOK'
    BY <1>1, <1>6, <2>2 DEF IInv, TypeOK
  <2>6. (TurnHasUser /\ MattersAreOwn /\ RoomForMatch)'
    BY <1>6, <2>1, <2>3 DEF TurnHasUser, MattersAreOwn, RoomForMatch
  <2> QED
    BY <1>1, <1>6, <2>3, <2>4, <2>5, <2>6 DEF IInv, GoneAreOut
<1> QED
  BY <1>4, <1>5, <1>6

LEMMA PublishKeeps ==
    ASSUME IInv, NEW need \in Topics \cup {NoNeed}, Publish(need)
    PROVE  IInv'
<1>1. UNCHANGED <<joined, notes, matches, seen, consents, answers, settled, made, faults>>
  BY DEF Publish, people
<1>2. EndTurn
  BY DEF Publish
<1>3. worker.user \in Users
  BY DEF Publish, IInv, TurnHasUser
<1>4. signal' \in [Users -> Topics \cup {NoNeed}]
  BY <1>3 DEF Publish, IInv, TypeOK
<1>5. changes' \in 0..MaxChanges
  BY MarketAssumption DEF Publish, IInv, TypeOK
<1>6. TypeOK'
  BY <1>1, <1>2, <1>4, <1>5, TurnEnds DEF IInv, TypeOK
<1>7. NoUser \notin gone'
  BY <1>2, TurnEnds, MarketAssumption
<1> QED
  BY <1>1, <1>2, <1>6, <1>7, TurnEnds
  DEF IInv, TurnHasUser, MattersAreOwn, RoomForMatch, GoneAreOut

LEMMA ScoutedKeeps ==
    ASSUME IInv, Scouted
    PROVE  IInv'
<1>1. UNCHANGED <<joined, notes, signal, matches, seen, consents, answers, settled, made,
                  changes, faults>>
  BY DEF Scouted, people, board, bounds
<1>2. EndTurn
  BY DEF Scouted
<1>3. TypeOK'
  BY <1>1, <1>2, TurnEnds DEF IInv, TypeOK
<1>4. NoUser \notin gone'
  BY <1>2, TurnEnds, MarketAssumption
<1> QED
  BY <1>1, <1>2, <1>3, <1>4, TurnEnds
  DEF IInv, TurnHasUser, MattersAreOwn, RoomForMatch, GoneAreOut

\* A scout looks at a need of somebody else.
LEMMA LookKeeps ==
    ASSUME IInv, NEW o \in Users, NEW n \in Topics, NEW fits \in BOOLEAN, Look(o, n, fits)
    PROVE  IInv'
<1> DEFINE h == worker.user
           m == Matter(h, o, n)
           passed == [worker EXCEPT !.left = @ \ {<<o, n>>}]
           matched == [passed EXCEPT !.step = "grant", !.about = {m}]
<1>1. UNCHANGED <<joined, notes, signal, matches, consents, answers, gone, made, changes, faults>>
  BY DEF Look, people, board, bounds
<1>2. /\ worker \in Worker /\ worker.step = "look" /\ h \in Users /\ worker.matched < Cap
      /\ <<o, n>> \in worker.left /\ worker.left \in SUBSET (Users \X Topics)
  BY DEF Look, IInv, TypeOK, TurnHasUser, Worker
<1>3. h # o
  <2>1. <<o, n>>[1] # worker.user
    BY <1>2 DEF IInv, MattersAreOwn
  <2> QED
    BY <2>1
<1>4. m \in Matters /\ m[1] = h
  BY <1>2, <1>3 DEF Matters, Matter
<1>5. passed \in Worker
  BY <1>2, WorkerWith
<1>6. matched = [worker EXCEPT !.left = @ \ {<<o, n>>}, !.step = "grant", !.about = {m}]
  BY <1>2 DEF Worker
<1>7. matched \in Worker
  BY <1>2, <1>4, <1>6, WorkerWith
<1>8. worker' \in {passed, matched} /\ seen' \in {seen, seen \cup {m}}
      /\ settled' \in {settled, settled \cup {m}}
  BY DEF Look
<1>9. /\ passed.step = "look" /\ passed.user = h /\ passed.matched = worker.matched
      /\ passed.left = worker.left \ {<<o, n>>} /\ passed.about = worker.about
  BY <1>2 DEF Worker
<1>10. /\ matched.step = "grant" /\ matched.user = h /\ matched.matched = worker.matched
       /\ matched.left = worker.left \ {<<o, n>>} /\ matched.about = {m}
  BY <1>2 DEF Worker
<1>11. /\ worker' \in Worker /\ worker'.step \in {"look", "grant"} /\ worker'.user = h
       /\ worker'.matched = worker.matched /\ worker'.left \subseteq worker.left
       /\ worker'.about \in {worker.about, {m}}
  <2> HIDE DEF passed, matched
  <2> QED
    BY <1>5, <1>7, <1>8, <1>9, <1>10
<1>12. TypeOK'
  BY <1>1, <1>4, <1>8, <1>11 DEF IInv, TypeOK
<1>13. (TurnHasUser /\ MattersAreOwn /\ RoomForMatch)'
  BY <1>2, <1>4, <1>11 DEF IInv, TurnHasUser, MattersAreOwn, RoomForMatch
<1> QED
  BY <1>1, <1>11, <1>12, <1>13 DEF IInv, GoneAreOut

LEMMA GrantKeeps ==
    ASSUME IInv, Grant
    PROVE  IInv'
<1>1. UNCHANGED <<joined, notes, signal, matches, seen, answers, gone, settled, made, changes,
                  faults>>
  BY DEF Grant, people, board, history, bounds
<1>2. worker \in Worker /\ worker.step = "grant" /\ worker' = [worker EXCEPT !.step = "answer"]
  BY DEF Grant, IInv, TypeOK
<1>3. worker' \in Worker
  BY <1>2, WorkerWith
<1>4. /\ worker'.step = "answer" /\ worker'.user = worker.user /\ worker'.left = worker.left
      /\ worker'.about = worker.about /\ worker'.matched = worker.matched
  BY <1>2 DEF Worker
<1>5. consents' \in SUBSET (Users \X Users)
  <2>1. worker.about \in SUBSET Matters
    BY <1>2 DEF Worker
  <2> QED
    BY <2>1 DEF Grant, IInv, TypeOK, Matters
<1>6. TypeOK'
  BY <1>1, <1>3, <1>5 DEF IInv, TypeOK
<1>7. (TurnHasUser /\ MattersAreOwn /\ RoomForMatch)'
  BY <1>2, <1>4 DEF IInv, TurnHasUser, MattersAreOwn, RoomForMatch
<1> QED
  BY <1>1, <1>4, <1>6, <1>7 DEF IInv, GoneAreOut

\* An answer of the helper's own: with what it cites if it is given at once.
LEMMA AnswerIsTyped ==
    ASSUME IInv, NEW m \in worker.about,
           NEW cites \in (IF MayAnswer(m) THEN Citations(m) ELSE {{}})
    PROVE  [matter |-> m, auto |-> MayAnswer(m), cites |-> cites] \in Answer
<1>1. worker.about \in SUBSET Matters
  BY DEF IInv, TypeOK, Worker
<1>2. m \in Matters /\ m[1] \in Users
  BY <1>1 DEF Matters
<1>3. cites \in SUBSET Note
  <2>1. Found(m) \in SUBSET Note
    BY <1>2 DEF Found, IInv, TypeOK
  <2>2. cites \in {Found(m), {}}
    BY DEF Citations
  <2> QED
    BY <2>1, <2>2
<1>4. MayAnswer(m) \in BOOLEAN
  BY DEF MayAnswer
<1>5. \A b \in BOOLEAN : [matter |-> m, auto |-> b, cites |-> cites] \in Answer
  BY <1>2, <1>3 DEF Answer
<1> QED
  BY <1>4, <1>5

LEMMA AnswerKeeps ==
    ASSUME IInv, AnswerForPeer
    PROVE  IInv'
<1>1. UNCHANGED <<joined, notes, signal, matches, seen, consents, gone, settled, made, changes,
                  faults>>
  BY DEF AnswerForPeer, people, board, history, bounds
<1>2. worker \in Worker /\ worker.step = "answer" /\ worker' = [worker EXCEPT !.step = "post"]
  BY DEF AnswerForPeer, IInv, TypeOK
<1>3. worker' \in Worker
  BY <1>2, WorkerWith
<1>4. /\ worker'.step = "post" /\ worker'.user = worker.user /\ worker'.left = worker.left
      /\ worker'.about = worker.about /\ worker'.matched = worker.matched
  BY <1>2 DEF Worker
<1>5. answers' \in SUBSET Answer
  BY AnswerIsTyped DEF AnswerForPeer, IInv, TypeOK
<1>6. TypeOK'
  BY <1>1, <1>3, <1>5 DEF IInv, TypeOK
<1>7. (TurnHasUser /\ MattersAreOwn /\ RoomForMatch)'
  BY <1>2, <1>4 DEF IInv, TurnHasUser, MattersAreOwn, RoomForMatch
<1> QED
  BY <1>1, <1>4, <1>6, <1>7 DEF IInv, GoneAreOut

LEMMA PostKeeps ==
    ASSUME IInv, PostMatch
    PROVE  IInv'
<1>1. UNCHANGED <<joined, notes, signal, seen, consents, answers, gone, made, changes, faults>>
  BY DEF PostMatch, people, bounds
<1>2. /\ worker \in Worker /\ worker.step = "post" /\ worker.matched < Cap
      /\ worker' = [worker EXCEPT !.step = "look", !.about = {}, !.matched = @ + 1]
  BY DEF PostMatch, IInv, TypeOK, RoomForMatch
<1>3. worker' \in Worker
  BY <1>2, WorkerWith
<1>4. /\ worker'.step = "look" /\ worker'.user = worker.user /\ worker'.left = worker.left
      /\ worker'.about = {}
  BY <1>2 DEF Worker
<1>5. matches' \in SUBSET (Users \X Users) /\ settled' \in SUBSET Matters
  <2>1. worker.about \in SUBSET Matters
    BY <1>2 DEF Worker
  <2> QED
    BY <2>1 DEF PostMatch, IInv, TypeOK, Matters
<1>6. TypeOK'
  BY <1>1, <1>3, <1>5 DEF IInv, TypeOK
<1>7. (TurnHasUser /\ MattersAreOwn /\ RoomForMatch)'
  BY <1>2, <1>4 DEF IInv, TurnHasUser, MattersAreOwn, RoomForMatch
<1> QED
  BY <1>1, <1>4, <1>6, <1>7 DEF IInv, GoneAreOut

LEMMA RunKeeps ==
    ASSUME IInv, (\E run \in {"publish", "scout"} : StartRun(run)) \/ EndRun
    PROVE  IInv'
<1>1. UNCHANGED <<joined, notes, signal, matches, seen, consents, answers, gone, settled, made,
                  changes, faults>>
  BY DEF StartRun, EndRun, people, board, history, bounds
<1>2. /\ worker' \in Worker /\ worker'.step = "next" /\ worker'.user = NoUser
      /\ worker'.left = {} /\ worker'.about = {}
  <2>1. CASE EndRun
    BY <2>1, RestingTyped DEF EndRun
  <2>2. ASSUME NEW run \in {"publish", "scout"}, StartRun(run)
        PROVE  /\ worker' \in Worker /\ worker'.step = "next" /\ worker'.user = NoUser
               /\ worker'.left = {} /\ worker'.about = {}
    <3>1. worker' = [Resting EXCEPT !.run = run, !.todo = Users]
      BY <2>2 DEF StartRun
    <3>2. worker' \in Worker
      BY <3>1, RestingTyped, WorkerWith
    <3> QED
      BY <3>1, <3>2 DEF Resting
  <2> QED
    BY <2>1, <2>2
<1>3. TypeOK'
  BY <1>1, <1>2 DEF IInv, TypeOK
<1>4. NoUser \notin gone
  BY MarketAssumption DEF IInv, TypeOK
<1> QED
  BY <1>1, <1>2, <1>3, <1>4 DEF IInv, TurnHasUser, MattersAreOwn, RoomForMatch, GoneAreOut

LEMMA NextIInv == IInv /\ [Next]_vars => IInv'
<1> SUFFICES ASSUME IInv, [Next]_vars PROVE IInv'
  OBVIOUS
<1>1. CASE Calls
  BY <1>1, CallsKeep
<1>2. CASE \E run \in {"publish", "scout"} : StartRun(run)
  BY <1>2, RunKeeps
<1>3. CASE Works
  <2>1. CASE \E u \in Users : NextUser(u)
    BY <2>1, NextUserKeeps
  <2>2. CASE \E need \in Topics \cup {NoNeed} : Publish(need)
    BY <2>2, PublishKeeps
  <2>3. CASE \E o \in Users, n \in Topics, fits \in BOOLEAN : Look(o, n, fits)
    BY <2>3, LookKeeps
  <2> QED
    BY <1>3, <2>1, <2>2, <2>3, GrantKeeps, AnswerKeeps, PostKeeps, ScoutedKeeps, RunKeeps
    DEF Works
<1>4. CASE Error
  <2>1. settled' \in SUBSET Matters /\ seen' \in SUBSET Matters
    BY <1>4 DEF Error, IInv, TypeOK, Worker
  <2> QED
    BY <1>4, <2>1, StopsKeep DEF Error
<1>5. CASE Restart
  <2>1. settled' \in SUBSET Matters /\ seen' \in SUBSET Matters
    BY <1>5 DEF Restart, IInv, TypeOK
  <2> QED
    BY <1>5, <2>1, StopsKeep DEF Restart
<1>6. CASE UNCHANGED vars
  BY <1>6 DEF vars, people, board, history, bounds, IInv, TypeOK, TurnHasUser, MattersAreOwn,
              RoomForMatch, GoneAreOut
<1> QED
  BY <1>1, <1>2, <1>3, <1>4, <1>5, <1>6 DEF Next

LEMMA Invariance == Spec => []IInv
<1>1. Init => IInv
  BY InitIInv
<1>2. IInv /\ [Next]_vars => IInv'
  BY NextIInv
<1> QED
  BY <1>1, <1>2, PTL DEF Spec

---------------------------------------------------------------------------
(* What is proved.                                                         *)

\* Every state of the market has its type.
THEOREM TypeCorrect == Spec => []TypeOK
<1>1. IInv => TypeOK
  BY DEF IInv
<1> QED
  BY <1>1, Invariance, PTL

\* The answers change by what answer_for_peer adds.
LEMMA AnswersGrow ==
    ASSUME IInv, [Next]_vars
    PROVE  /\ consents \subseteq consents'
           /\ \A a \in answers' \ answers :
                 /\ a.matter[1] = worker.user /\ worker.user \in Users
                 /\ a.auto => <<a.matter[1], a.matter[2]>> \in consents
                 /\ \A x \in a.cites : a.auto /\ x.sensitivity # "high"
<1>1. CASE AnswerForPeer
  <2>1. consents' = consents /\ worker.user \in Users
    BY <1>1 DEF AnswerForPeer, IInv, TurnHasUser
  <2>2. ASSUME NEW m \in worker.about,
               NEW cites \in (IF MayAnswer(m) THEN Citations(m) ELSE {{}}),
               NEW a, a = [matter |-> m, auto |-> MayAnswer(m), cites |-> cites]
        PROVE  /\ a.matter[1] = worker.user
               /\ a.auto => <<a.matter[1], a.matter[2]>> \in consents
               /\ \A x \in a.cites : a.auto /\ x.sensitivity # "high"
    <3>1. a.matter = m /\ a.auto = MayAnswer(m) /\ a.cites = cites
      BY <2>2
    <3>2. m[1] = worker.user
      BY DEF IInv, MattersAreOwn
    <3>3. CASE MayAnswer(m)
      <4>1. cites \in {Found(m), {}}
        BY <3>3 DEF Citations
      <4>2. \A x \in Found(m) : x.sensitivity # "high"
        BY <3>3 DEF MayAnswer
      <4>3. <<m[1], m[2]>> \in consents
        BY <3>3 DEF MayAnswer
      <4> HIDE DEF MayAnswer
      <4> QED
        BY <3>1, <3>2, <3>3, <4>1, <4>2, <4>3
    <3>4. CASE ~MayAnswer(m)
      <4>1. cites = {}
        BY <3>4
      <4> QED
        BY <3>1, <3>2, <3>4, <4>1
    <3> QED
      BY <3>3, <3>4
  <2>3. \A a \in answers' \ answers :
           \E m \in worker.about :
           \E cites \in (IF MayAnswer(m) THEN Citations(m) ELSE {{}}) :
              a = [matter |-> m, auto |-> MayAnswer(m), cites |-> cites]
    BY <1>1 DEF AnswerForPeer
  <2> QED
    BY <2>1, <2>2, <2>3
<1>2. CASE ~AnswerForPeer
  <2>1. answers' = answers
    BY <1>2 DEF Next, Calls, Works, Join, Leave, TakeNote, Called, StartRun, NextUser, Publish,
                Look, Grant, PostMatch, Scouted, EndRun, Error, Restart, Stops, vars
  <2>2. consents \subseteq consents'
    BY <1>2 DEF Next, Calls, Works, Join, Leave, TakeNote, Called, StartRun, NextUser, Publish,
                Look, Grant, PostMatch, Scouted, EndRun, Error, Restart, Stops, vars
  <2> QED
    BY <2>1, <2>2
<1> QED
  BY <1>1, <1>2

\* An answer that its owner did not confirm was covered by consent and cites nothing that
\* is sensitive (agents.py answer_for_peer).
THEOREM AnswersAreOrdinary == Spec => []AutomaticIsOrdinary
<1>1. Init => AutomaticIsOrdinary
  BY DEF Init, AutomaticIsOrdinary
<1>2. IInv /\ AutomaticIsOrdinary /\ [Next]_vars => AutomaticIsOrdinary'
  BY AnswersGrow DEF AutomaticIsOrdinary
<1> QED
  BY <1>1, <1>2, Invariance, PTL DEF Spec

\* Signals, consents and matches are changed in a user's own turn only.
LEMMA OthersStay ==
    ASSUME IInv, Next, NEW u \in Users, u # worker.user
    PROVE  /\ signal'[u] = signal[u]
           /\ \A o \in Users : /\ <<u, o>> \in consents' => <<u, o>> \in consents
                              /\ <<u, o>> \in matches' => <<u, o>> \in matches
<1>1. CASE \E need \in Topics \cup {NoNeed} : Publish(need)
  BY <1>1 DEF Publish, IInv, TypeOK
<1>2. CASE Grant
  <2>1. signal' = signal /\ matches' = matches
    BY <1>2 DEF Grant, board
  <2>2. \E m \in worker.about : consents' = consents \cup {<<m[1], m[2]>>}
    BY <1>2 DEF Grant
  <2> QED
    BY <2>1, <2>2 DEF IInv, MattersAreOwn
<1>3. CASE PostMatch
  <2>1. signal' = signal /\ consents' = consents
    BY <1>3 DEF PostMatch
  <2>2. \E m \in worker.about : matches' = matches \cup {<<m[1], m[2]>>}
    BY <1>3 DEF PostMatch
  <2> QED
    BY <2>1, <2>2 DEF IInv, MattersAreOwn
<1>4. CASE /\ ~(\E need \in Topics \cup {NoNeed} : Publish(need))
           /\ ~Grant /\ ~PostMatch
  <2>1. signal' = signal /\ consents' = consents /\ matches' = matches
    BY <1>4 DEF Next, Calls, Works, Join, Leave, TakeNote, Called, StartRun, NextUser, Look,
                AnswerForPeer, Scouted, EndRun, Error, Restart, Stops, board
  <2> QED
    BY <2>1
<1> QED
  BY <1>1, <1>2, <1>3, <1>4

\* Nobody who left speaks any more, once the turn in which they left is over
\* (marketplace.py publish_all_signals, scout_all).
THEOREM Silence == Spec => GoneAreSilent
<1> DEFINE Silent ==
      \A u \in gone :
          /\ signal'[u] = signal[u]
          /\ \A o \in Users : /\ <<u, o>> \in consents' => <<u, o>> \in consents
                             /\ <<u, o>> \in matches' => <<u, o>> \in matches
          /\ \A a \in answers' : a.matter[1] = u => a \in answers
<1>1. IInv /\ [Next]_vars => [Silent]_vars
  <2> SUFFICES ASSUME IInv, Next, NEW u \in gone
               PROVE  /\ signal'[u] = signal[u]
                      /\ \A o \in Users : /\ <<u, o>> \in consents' => <<u, o>> \in consents
                                         /\ <<u, o>> \in matches' => <<u, o>> \in matches
                      /\ \A a \in answers' : a.matter[1] = u => a \in answers
    OBVIOUS
  <2>1. u \in Users /\ u # worker.user
    BY DEF IInv, TypeOK, GoneAreOut
  <2>2. \A a \in answers' : a.matter[1] = u => a \in answers
    BY <2>1, AnswersGrow
  <2> QED
    BY <2>1, <2>2, OthersStay
<1> QED
  BY <1>1, Invariance, PTL DEF Spec, GoneAreSilent
====
