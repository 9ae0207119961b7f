---- MODULE Market ----
(***************************************************************************)
(* The signal market.  A worker publishes what every participant offers    *)
(* and needs, and another one lets every participant's agent scout the     *)
(* board for needs it can meet and answer them from its owner's memory.    *)
(* The two run one after the other on the event loop; people take notes    *)
(* and join or leave meanwhile, on the threads that serve their calls.     *)
(*                                                                         *)
(* A need is a topic, and a memory a topic with a sensitivity.  What a     *)
(* user needs and whether an agent thinks that it can help is the model's  *)
(* choice.  Left out: tasks as a source of signals, and delegated answers  *)
(* that are resolved, adopted or revoked, which no endpoint does yet.      *)
(***************************************************************************)
EXTENDS Naturals, FiniteSets

CONSTANTS Users,        \* numbered in the order in which a run goes over them
          Topics,
          Early,        \* who participates and has a memory of every topic to begin with
          NoNeed,       \* a signal without a need; also no signal at all
          NoUser,       \* nobody's turn
          Cap,          \* matches of one helper in a run
          MaxCalls,     \* bound on notes and changes of participation
          MaxChanges,   \* bound on signals that change
          MaxFaults     \* bound on errors and restarts

ASSUME MarketAssumption ==
    /\ Users \subseteq Nat /\ NoNeed \notin Topics /\ NoUser \notin Users
    /\ Early \subseteq Users /\ Cap \in Nat \ {0}
    /\ MaxCalls \in Nat /\ MaxChanges \in Nat /\ MaxFaults \in Nat

VARIABLES joined,    \* the participants
          notes,     \* the memories of each user
          signal,    \* the need on each user's signal
          seen,      \* what each helper has looked at; lost when the process ends
          consents,  \* helper and needer
          answers,   \* what a helper gave, or put before its owner, in answer to a need
          matches,   \* the match posts: helper and needer
          worker,    \* the run that is under way
          gone,      \* history: those who left, none of whose turns is under way since
          settled,   \* history: needs that were answered, or declined, or that an error hit
          made, changes, faults

people == <<joined, notes>>
board == <<signal, matches>>
history == <<gone, settled>>
bounds == <<made, changes, faults>>
vars == <<people, board, seen, consents, answers, worker, history, bounds>>

Note == [topic : Topics, sensitivity : {"normal", "high"}]

\* Helper, needer and need: what the fingerprint and the answer are about.
Matters == {m \in Users \X Users \X Topics : m[1] # m[2]}
Matter(h, o, n) == <<h, o, n>>

\* An answer is given at once, citing what was found, or waits in its owner's inbox.
Answer == [matter : Matters, auto : BOOLEAN, cites : SUBSET Note]

\* todo: whose turn is still to come; user: whose turn it is; knows: the topics of its
\* memories; left: the signals that it has not come to yet; about: the matter at hand.
Worker == [run : {"none", "publish", "scout"}, todo : SUBSET Users, user : Users \cup {NoUser},
           knows : SUBSET Topics, left : SUBSET (Users \X Topics), matched : 0..Cap,
           step : {"next", "look", "grant", "answer", "post"}, about : SUBSET Matters]

Resting == [run |-> "none", todo |-> {}, user |-> NoUser, knows |-> {}, left |-> {},
            matched |-> 0, step |-> "next", about |-> {}]

TypeOK ==
    /\ joined \in SUBSET Users /\ notes \in [Users -> SUBSET Note]
    /\ signal \in [Users -> Topics \cup {NoNeed}]
    /\ seen \in SUBSET Matters /\ consents \in SUBSET (Users \X Users)
    /\ answers \in SUBSET Answer /\ matches \in SUBSET (Users \X Users)
    /\ worker \in Worker
    /\ gone \in SUBSET Users
    /\ settled \in SUBSET Matters
    /\ made \in 0..MaxCalls /\ changes \in 0..MaxChanges /\ faults \in 0..MaxFaults

Init ==
    /\ joined = Early
    /\ notes = [u \in Users |->
                  {x \in Note : u \in Early /\ x.sensitivity = "normal"}]
    /\ signal \in [Users -> Topics \cup {NoNeed}]   \* of an earlier life of the process
    /\ seen = {} /\ consents = {} /\ answers = {} /\ matches = {}
    /\ worker = Resting
    /\ gone = Users \ joined
    /\ settled = {}
    /\ made = 0 /\ changes = 0 /\ faults = 0

Topic(memories) == {m.topic : m \in memories}

---------------------------------------------------------------------------
(* Calls.                                                                  *)

Called ==
    /\ made < MaxCalls /\ made' = made + 1
    /\ UNCHANGED <<board, seen, consents, answers, worker, settled, changes, faults>>

TakeNote(u, note) ==
    /\ note \notin notes[u]
    /\ notes' = [notes EXCEPT ![u] = @ \cup {note}]
    /\ Called /\ UNCHANGED <<joined, gone>>

Join(u) ==
    /\ u \notin joined
    /\ joined' = joined \cup {u} /\ gone' = gone \ {u}
    /\ Called /\ UNCHANGED notes

\* Whoever leaves in its agent's turn is gone when the turn ends.
Leave(u) ==
    /\ u \in joined
    /\ joined' = joined \ {u}
    /\ gone' = IF worker.user = u THEN gone ELSE gone \cup {u}
    /\ Called /\ UNCHANGED notes

---------------------------------------------------------------------------
(* The workers.                                                            *)

\* A run goes over all users.
StartRun(run) ==
    /\ worker.run = "none"
    /\ worker' = [Resting EXCEPT !.run = run, !.todo = Users]
    /\ UNCHANGED <<people, board, seen, consents, answers, history, bounds>>

\* The turn of a user ends; who left in it is gone from now on.
EndTurn ==
    /\ worker' = [Resting EXCEPT !.run = worker.run, !.todo = worker.todo]
    /\ gone' = gone \cup {u \in Users : u = worker.user /\ u \notin joined}

EndRun ==
    /\ worker.run # "none" /\ worker.step = "next" /\ worker.todo = {}
    /\ worker' = Resting
    /\ UNCHANGED <<people, board, seen, consents, answers, history, bounds>>

\* The needs on the signals of other people.
NeedsOfOthers(u) == {<<o, signal[o]>> : o \in {v \in Users \ {u} : signal[v] # NoNeed}}

\* Variant: whoever has a signal is served.
NextUserAny(u) ==
    /\ worker.step = "next" /\ u \in worker.todo /\ \A v \in worker.todo : u <= v
    /\ LET rest == [worker EXCEPT !.todo = @ \ {u}]
       IN  worker' = IF notes[u] = {} THEN rest
                     ELSE [rest EXCEPT !.user = u, !.step = "look", !.knows = Topic(notes[u]),
                              !.left = IF worker.run = "scout" THEN NeedsOfOthers(u) ELSE {}]
    /\ UNCHANGED <<people, board, seen, consents, answers, history, bounds>>

\* The next user who participates and has something to offer; a scout takes the whole
\* board along, the signals of other people that state a need.
NextUser(u) ==
    /\ worker.step = "next" /\ u \in worker.todo /\ \A v \in worker.todo : u <= v
    /\ LET rest == [worker EXCEPT !.todo = @ \ {u}]
       IN  worker' = IF u \notin joined \/ notes[u] = {} THEN rest
                     ELSE [rest EXCEPT !.user = u, !.step = "look", !.knows = Topic(notes[u]),
                              !.left = IF worker.run = "scout" THEN NeedsOfOthers(u) ELSE {}]
    /\ UNCHANGED <<people, board, seen, consents, answers, history, bounds>>

\* The signal replaces the one of before, with a need or without one.
Publish(need) ==
    /\ worker.run = "publish" /\ worker.step = "look"
    /\ LET u == worker.user
       IN  /\ signal' = [signal EXCEPT ![u] = need]
           /\ need # signal[u] => changes < MaxChanges
           /\ changes' = IF need = signal[u] THEN changes ELSE changes + 1
    /\ EndTurn
    /\ UNCHANGED <<people, matches, seen, consents, answers, settled, made, faults>>

\* A scout is through with the board, or has had as many matches as a run allows.
Scouted ==
    /\ worker.run = "scout" /\ worker.step = "look"
    /\ worker.left = {} \/ worker.matched = Cap
    /\ EndTurn
    /\ UNCHANGED <<people, board, seen, consents, answers, settled, bounds>>

\* A topic of the helper's memory, and the model's judgement that it fits.
MatchSignal(n, fits) == n \in worker.knows /\ fits

\* Variant: what was looked at before is looked at again.
LookAgain(o, n, fits) ==
    /\ worker.run = "scout" /\ worker.step = "look" /\ worker.matched < Cap
    /\ <<o, n>> \in worker.left
    /\ LET h == worker.user
           m == Matter(h, o, n)
           passed == [worker EXCEPT !.left = @ \ {<<o, n>>}]
       IN  /\ seen' = seen \cup {m}
           /\ \/ /\ MatchSignal(n, fits)
                 /\ worker' = [passed EXCEPT !.step = "grant", !.about = {m}]
                 /\ UNCHANGED settled
              \/ /\ ~MatchSignal(n, fits)
                 /\ worker' = passed
                 /\ settled' = settled \cup {m}
    /\ UNCHANGED <<people, board, consents, answers, gone, bounds>>

\* A need that was looked at before is passed over.  Any other is remembered first; it is
\* followed up if it matches.
Look(o, n, fits) ==
    /\ worker.run = "scout" /\ worker.step = "look" /\ worker.matched < Cap
    /\ <<o, n>> \in worker.left
    /\ LET h == worker.user
           m == Matter(h, o, n)
           passed == [worker EXCEPT !.left = @ \ {<<o, n>>}]
       IN  \/ /\ m \in seen
              /\ worker' = passed
              /\ UNCHANGED <<seen, settled>>
           \/ /\ m \notin seen
              /\ seen' = seen \cup {m}
              /\ \/ /\ MatchSignal(n, fits)
                    /\ worker' = [passed EXCEPT !.step = "grant", !.about = {m}]
                    /\ UNCHANGED settled
                 \/ /\ ~MatchSignal(n, fits)
                    /\ worker' = passed
                    /\ settled' = settled \cup {m}
    /\ UNCHANGED <<people, board, consents, answers, gone, bounds>>

\* The helper's consent is standing once it is given.
Grant ==
    /\ worker.step = "grant"
    /\ \E m \in worker.about : consents' = consents \cup {<<m[1], m[2]>>}
    /\ worker' = [worker EXCEPT !.step = "answer"]
    /\ UNCHANGED <<people, board, seen, answers, history, bounds>>

\* What the helper's memory of now says on the matter.
Found(m) == {x \in notes[m[1]] : x.topic = m[3]}

\* Variant: one ordinary memory is enough.
MayAnswerLoosely(m) ==
    <<m[1], m[2]>> \in consents /\ \E x \in Found(m) : x.sensitivity # "high"

\* With the helper's consent, and nothing sensitive among what was found.
MayAnswer(m) ==
    <<m[1], m[2]>> \in consents /\ \A x \in Found(m) : x.sensitivity # "high"

\* An answer cites all that was found, or nothing when that does not suffice.
Citations(m) == {Found(m), {}}

\* The answer is given, or the question is put before the helper.
AnswerForPeer ==
    /\ worker.step = "answer"
    /\ \E m \in worker.about :
       \E cites \in (IF MayAnswer(m) THEN Citations(m) ELSE {{}}) :
          answers' = answers \cup {[matter |-> m, auto |-> MayAnswer(m), cites |-> cites]}
    /\ worker' = [worker EXCEPT !.step = "post"]
    /\ UNCHANGED <<people, board, seen, consents, history, bounds>>

\* The match is posted under an id of its helper and needer, and counts in the run.
PostMatch ==
    /\ worker.step = "post"
    /\ \E m \in worker.about :
          /\ matches' = matches \cup {<<m[1], m[2]>>}
          /\ settled' = settled \cup {m}
    /\ worker' = [worker EXCEPT !.step = "look", !.about = {}, !.matched = @ + 1]
    /\ UNCHANGED <<people, signal, seen, consents, answers, gone, bounds>>

---------------------------------------------------------------------------
(* What goes wrong.                                                        *)

Stops ==
    /\ faults < MaxFaults /\ faults' = faults + 1
    /\ worker' = Resting
    /\ gone' = gone \cup {u \in Users : u = worker.user /\ u \notin joined}
    /\ UNCHANGED <<people, board, consents, answers, made, changes>>

\* An error ends the run, for everybody whose turn was still to come; what was looked at
\* stays remembered.
Error ==
    /\ worker.run # "none"
    /\ settled' = settled \cup worker.about
    /\ Stops /\ UNCHANGED seen

Restart ==
    /\ seen' = {}
    /\ Stops /\ UNCHANGED settled

Works ==
    \/ \E u \in Users : NextUser(u)
    \/ \E need \in Topics \cup {NoNeed} : Publish(need)
    \/ \E o \in Users, n \in Topics, fits \in BOOLEAN : Look(o, n, fits)
    \/ Grant \/ AnswerForPeer \/ PostMatch \/ Scouted \/ EndRun

Calls ==
    \/ \E u \in Users : Join(u) \/ Leave(u)
    \/ \E u \in Users, note \in Note : TakeNote(u, note)

Next == Calls \/ (\E run \in {"publish", "scout"} : StartRun(run)) \/ Works \/ Error \/ Restart

Spec == Init /\ [][Next]_vars

\* A run that has begun goes on to its end, and each loop's turn comes on the event loop.
FairSpec ==
    /\ Spec
    /\ WF_vars(Works)
    /\ \A run \in {"publish", "scout"} : SF_vars(StartRun(run))

---------------------------------------------------------------------------
(* Properties.                                                             *)

\* An answer that is given without its owner's confirmation was covered by consent and
\* cites nothing that is sensitive, whatever notes are taken while the scout is at work;
\* what waits for confirmation cites nothing at all (agents.py answer_for_peer).
AutomaticIsOrdinary ==
    \A a \in answers :
        /\ a.auto => <<a.matter[1], a.matter[2]>> \in consents
        /\ \A x \in a.cites : a.auto /\ x.sensitivity # "high"

\* Nobody who left speaks any more: once the turn in which they left is over, there is no
\* new signal, consent, answer or match of theirs until they join again, whoever was
\* listed when the run began (marketplace.py publish_all_signals, scout_all).
GoneAreSilent ==
    [][\A u \in gone :
          /\ signal'[u] = signal[u]
          /\ \A o \in Users : /\ <<u, o>> \in consents' => <<u, o>> \in consents
                             /\ <<u, o>> \in matches' => <<u, o>> \in matches
          /\ \A a \in answers' : a.matter[1] = u => a \in answers]_vars

\* Who can help, and for which need of whom.
Standing(m) == m[1] \in joined /\ notes[m[1]] # {} /\ signal[m[2]] = m[3]

\* A need that stands on the board is declined or answered, or hit by an error, by every
\* participant with memories in the end, although a run stops at Cap matches and the
\* process restarts (agents.py scout_and_match, marketplace.py scout_all).  A need that an
\* error hit is remembered as looked at and is left as it is.
NeedsAreMet ==
    \A m \in Matters : Standing(m) ~> (~Standing(m) \/ m \in settled)
====
