---- MODULE MCResearchWorker ----
(* The worker: three requests behind each other, the second one gated, for what it serves
   in the end.  Or the providers: one turn that asks them, over every configuration, with
   two models that may be the chosen one.  They share no variable. *)
EXTENDS ResearchDispatch, Sourcing

NoTurn == setup.keys = {NoModel}
NoSetup == [research |-> {}, mockWeb |-> FALSE, api |-> FALSE, keys |-> {NoModel}]

MCInit ==
    /\ Init
    /\ \/ SourcingInit
       \/ setup = NoSetup /\ chosen = NoModel /\ turn = NewTurn /\ trace = NoTrace /\ switches = 0

MCNext ==
    \/ NoTurn /\ Next /\ UNCHANGED sourcingVars
    \/ ~NoTurn /\ SourcingNext /\ UNCHANGED vars

\* The fairness of FairSpec, where the worker is at work.
MCSpec ==
    /\ MCInit /\ [][MCNext]_<<vars, sourcingVars>>
    /\ \A w \in Workers :
          WF_<<vars, sourcingVars>>(NoTurn /\ (StartDrain(w) \/ Dispatch(w)) /\ UNCHANGED sourcingVars)
====
