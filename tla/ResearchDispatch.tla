---- MODULE ResearchDispatch ----
(***************************************************************************)
(* Board requests for outside evidence, and how they are fulfilled.  A     *)
(* chat turn that finds nothing leaves a request post whose task waits for *)
(* an external agent.  The dispatch worker (and its drain endpoint) walks  *)
(* all requests, POST /posts/{id}/dispatch serves one, and a reviewer      *)
(* releases or discards evidence that was quarantined.  Handlers run on    *)
(* threads of their own; each step here is one of their store operations.  *)
(* (The worker's own round blocks the event loop: no new handler starts    *)
(* during it, though those under way go on.  The drain endpoint has no     *)
(* such limit, and a drain here is either.)                                *)
(*                                                                         *)
(* Left out: the stage and the readers of the request post, the sources    *)
(* taken from the evidence, activity logs and audit events.  Every request *)
(* post is there from the start and its task RUNNING until the chat turn   *)
(* saves it; the task of a turn that fails before that stays out of it.    *)
(***************************************************************************)
EXTENDS Naturals, Sequences, FiniteSets

CONSTANTS NumRequests,  \* request posts, numbered in the order they were created
          Gated,        \* requests whose task waits for a tool-call approval
          Workers,      \* drain loops: the dispatch worker, clients of the drain endpoint
          Callers,      \* clients of POST /posts/{id}/dispatch
          Reviewers,    \* clients of the inbox endpoints
          MaxFaults     \* bound on exceptions and restarts

Requests == 1..NumRequests
Dispatchers == Workers \cup Callers
Actors == Dispatchers \cup Reviewers

\* A dispatcher adds at most one evidence post to a request.
Evidence == Dispatchers \X Requests

ASSUME ResearchAssumption ==
    /\ NumRequests \in Nat \ {0}
    /\ Gated \subseteq Requests
    /\ Workers \cap Callers = {}
    /\ Dispatchers # {} /\ Dispatchers \cap Reviewers = {}
    /\ MaxFaults \in Nat

TaskStatus == {"running", "waiting", "completed", "failed"}
ReviewStatus == {"none", "open", "snoozed", "resolved"}

VARIABLES task,      \* status of the task behind a request post
          evidence,  \* status of the evidence posts
          injected,  \* the evidence posts whose content looks like an injection
          review,    \* status of the inbox item of a quarantined evidence post
          answers,   \* the evidence cited by the answers appended to the thread
          pc,        \* where an actor is in its handler
          on,        \* the evidence post the handler is about
          copy,      \* what the handler read: the task's status, or the new item status
          released,  \* history: the evidence a reviewer let go
          raced,     \* history: the requests two handlers worked on at once
          faults     \* exceptions and restarts so far

board == <<task, evidence, injected, review, answers>>
history == <<released, raced>>
vars == <<task, evidence, injected, review, answers, pc, on, copy, released, raced, faults>>

\* What a handler is about before it starts.
Nowhere(a) == <<IF a \in Dispatchers THEN a ELSE CHOOSE d \in Dispatchers : TRUE, 1>>

\* The labels behind a handler's guards.
Working == {"load", "publish", "quarantine", "review_item", "save_blocked", "finalize",
            "complete", "answer", "discard", "fail_task", "close", "patch"}

TypeOK ==
    /\ task \in [Requests -> TaskStatus]
    /\ evidence \in [Evidence -> {"none", "published", "needs_review", "discarded"}]
    /\ injected \in SUBSET Evidence
    /\ review \in [Evidence -> ReviewStatus]
    /\ answers \in [Requests -> Seq(Evidence)]
    /\ pc \in [Actors -> {"idle", "scan", "check", "judge"} \cup Working]
    /\ on \in [Actors -> Evidence]
    /\ \A d \in Dispatchers : on[d][1] = d
    /\ copy \in [Actors -> TaskStatus \cup ReviewStatus \cup {"release", "discard"}]
    /\ released \in SUBSET Evidence
    /\ raced \in SUBSET Requests
    /\ faults \in 0..MaxFaults

Init ==
    /\ task = [r \in Requests |-> "running"]
    /\ evidence = [e \in Evidence |-> "none"]
    /\ injected = {}
    /\ review = [e \in Evidence |-> "none"]
    /\ answers = [r \in Requests |-> <<>>]
    /\ pc = [a \in Actors |-> "idle"]
    /\ on = [a \in Actors |-> Nowhere(a)]
    /\ copy = [a \in Actors |-> "none"]
    /\ released = {}
    /\ raced = {}
    /\ faults = 0

---------------------------------------------------------------------------
Request(a) == on[a][2]
Goto(a, l) == pc' = [pc EXCEPT ![a] = l]
Copied(a, v) == copy' = [copy EXCEPT ![a] = v]

\* A handler passes its guards: it has raced if another one is at work on the request.
Enter(a, r, l) ==
    /\ Goto(a, l)
    /\ raced' = IF \E b \in Actors \ {a} : pc[b] \in Working /\ Request(b) = r
                THEN raced \cup {r} ELSE raced

\* The handler ends and its locals are gone.
End(a) ==
    /\ Goto(a, "idle")
    /\ on' = [on EXCEPT ![a] = Nowhere(a)]
    /\ copy' = [copy EXCEPT ![a] = "none"]

\* A drain goes on to the next post.
Leave(a) ==
    IF a \in Workers /\ Request(a) < NumRequests
    THEN /\ Goto(a, "scan")
         /\ on' = [on EXCEPT ![a] = <<a, Request(a) + 1>>]
         /\ copy' = [copy EXCEPT ![a] = "none"]
    ELSE End(a)

\* The chat turn ends: its task, RUNNING until then, is saved WAITING_EXTERNAL_AGENT.
Ask(r) ==
    /\ task[r] = "running"
    /\ task' = [task EXCEPT ![r] = "waiting"]
    /\ UNCHANGED <<evidence, injected, review, answers, pc, on, copy, history, faults>>

StartDrain(w) ==
    /\ pc[w] = "idle"
    /\ Goto(w, "scan")
    /\ on' = [on EXCEPT ![w] = <<w, 1>>]
    /\ UNCHANGED <<board, copy, history, faults>>

StartDispatch(c, r) ==
    /\ pc[c] = "idle"
    /\ Goto(c, "scan")
    /\ on' = [on EXCEPT ![c] = <<c, r>>]
    /\ UNCHANGED <<board, copy, history, faults>>

\* The endpoint and the drain skip a task that does not wait, or waits for an approval.
Scan(d) ==
    /\ pc[d] = "scan"
    /\ IF task[Request(d)] = "waiting" /\ Request(d) \notin Gated
       THEN Goto(d, "check") /\ UNCHANGED <<on, copy>>
       ELSE Leave(d)
    /\ UNCHANGED <<board, history, faults>>

\* fulfill_research_request: refuse a request that has evidence.
Fulfilled(r) == \E d \in Dispatchers : evidence[<<d, r>>] # "none"

\* Variant: the evidence already on the board is not looked for.
CheckNothing(d) ==
    /\ pc[d] = "check"
    /\ Enter(d, Request(d), "load")
    /\ UNCHANGED <<board, on, copy, released, faults>>

\* Variant: the drain breaks off instead of going on to the next post.
CheckAndStop(d) ==
    /\ pc[d] = "check"
    /\ \/ Fulfilled(Request(d)) /\ End(d) /\ UNCHANGED raced
       \/ ~Fulfilled(Request(d)) /\ Enter(d, Request(d), "load") /\ UNCHANGED <<on, copy>>
    /\ UNCHANGED <<board, released, faults>>

Check(d) ==
    /\ pc[d] = "check"
    /\ \/ Fulfilled(Request(d)) /\ Leave(d) /\ UNCHANGED raced
       \/ ~Fulfilled(Request(d)) /\ Enter(d, Request(d), "load") /\ UNCHANGED <<on, copy>>
    /\ UNCHANGED <<board, released, faults>>

\* Variant: the content is not assessed.
AcquireUnassessed(d) ==
    /\ pc[d] = "load"
    /\ injected' \in {injected \cup {on[d]}, injected \ {on[d]}}
    /\ Goto(d, "publish")
    /\ UNCHANGED <<task, evidence, review, answers, on, copy, history, faults>>

\* The task is read again, the provider answers, and the content is assessed.
Acquire(d) ==
    /\ pc[d] = "load"
    /\ \/ /\ injected' = injected \ {on[d]}
          /\ Goto(d, "publish")
          /\ UNCHANGED copy
       \/ /\ injected' = injected \cup {on[d]}
          /\ Goto(d, "quarantine")
          /\ Copied(d, task[Request(d)])
    /\ UNCHANGED <<task, evidence, review, answers, on, history, faults>>

SaveEvidence(a, status) == evidence' = [evidence EXCEPT ![on[a]] = status]
SaveTask(a, status) == task' = [task EXCEPT ![Request(a)] = status]

Publish(d) ==
    /\ pc[d] = "publish"
    /\ SaveEvidence(d, "published")
    /\ Goto(d, "finalize")
    /\ UNCHANGED <<task, injected, review, answers, on, copy, history, faults>>

Quarantine(d) ==
    /\ pc[d] = "quarantine"
    /\ SaveEvidence(d, "needs_review")
    /\ Goto(d, "review_item")
    /\ UNCHANGED <<task, injected, review, answers, on, copy, history, faults>>

\* Variant: the inbox item of the quarantine is not added.
ReviewItemForgotten(d) ==
    /\ pc[d] = "review_item"
    /\ Goto(d, "save_blocked")
    /\ UNCHANGED <<board, on, copy, history, faults>>

AddReviewItem(d) ==
    /\ pc[d] = "review_item"
    /\ review' = [review EXCEPT ![on[d]] = "open"]
    /\ Goto(d, "save_blocked")
    /\ UNCHANGED <<task, evidence, injected, answers, on, copy, history, faults>>

\* The task is saved as it was read, whatever it has become since.
SaveBlocked(d) ==
    /\ pc[d] = "save_blocked"
    /\ SaveTask(d, copy[d])
    /\ Leave(d)
    /\ UNCHANGED <<evidence, injected, review, answers, history, faults>>

---------------------------------------------------------------------------
(* _finalize_research_evidence, for a dispatcher or a releasing reviewer.  *)

Finalize(a) ==
    /\ pc[a] = "finalize"
    /\ SaveEvidence(a, "published")
    /\ Goto(a, "complete")
    /\ UNCHANGED <<task, injected, review, answers, on, copy, history, faults>>

CompleteTask(a) ==
    /\ pc[a] = "complete"
    /\ SaveTask(a, "completed")
    /\ Goto(a, "answer")
    /\ UNCHANGED <<evidence, injected, review, answers, on, copy, history, faults>>

\* Synthesis, then the assistant message in the thread of the task.
AppendAnswer(a) ==
    /\ pc[a] = "answer"
    /\ answers' = [answers EXCEPT ![Request(a)] = Append(@, on[a])]
    /\ IF a \in Reviewers THEN Goto(a, "close") /\ UNCHANGED <<on, copy>> ELSE Leave(a)
    /\ UNCHANGED <<task, evidence, injected, review, history, faults>>

---------------------------------------------------------------------------
(* The inbox endpoints.                                                    *)

\* resolve_injection_review_item reads an open item.
OpenReview(v, e, action) ==
    /\ pc[v] = "idle"
    /\ review[e] = "open"
    /\ Goto(v, "judge")
    /\ on' = [on EXCEPT ![v] = e]
    /\ Copied(v, action)
    /\ UNCHANGED <<board, history, faults>>

\* resolve_quarantined_research: 409 unless the evidence still needs its review.
Judge(v) ==
    /\ pc[v] = "judge"
    /\ \/ /\ evidence[on[v]] # "needs_review"
          /\ End(v)
          /\ UNCHANGED history
       \/ /\ evidence[on[v]] = "needs_review" /\ copy[v] = "release"
          /\ Enter(v, Request(v), "finalize")
          /\ released' = released \cup {on[v]}
          /\ UNCHANGED <<on, copy>>
       \/ /\ evidence[on[v]] = "needs_review" /\ copy[v] = "discard"
          /\ Enter(v, Request(v), "discard")
          /\ UNCHANGED <<on, copy, released>>
    /\ UNCHANGED <<board, faults>>

Discard(v) ==
    /\ pc[v] = "discard"
    /\ SaveEvidence(v, "discarded")
    /\ Goto(v, "fail_task")
    /\ UNCHANGED <<task, injected, review, answers, on, copy, history, faults>>

FailTask(v) ==
    /\ pc[v] = "fail_task"
    /\ SaveTask(v, "failed")
    /\ Goto(v, "close")
    /\ UNCHANGED <<evidence, injected, review, answers, on, copy, history, faults>>

CloseReview(v) ==
    /\ pc[v] = "close"
    /\ review' = [review EXCEPT ![on[v]] = "resolved"]
    /\ End(v)
    /\ UNCHANGED <<task, evidence, injected, answers, history, faults>>

\* PATCH /inbox/{id}: reads an item that is not resolved, to snooze or reopen it ...
ReadForPatch(v, e, status) ==
    /\ pc[v] = "idle"
    /\ review[e] \in {"open", "snoozed"}
    /\ Enter(v, e[2], "patch")
    /\ on' = [on EXCEPT ![v] = e]
    /\ Copied(v, status)
    /\ UNCHANGED <<board, released, faults>>

\* ... and saves the whole item.
SavePatch(v) ==
    /\ pc[v] = "patch"
    /\ review' = [review EXCEPT ![on[v]] = copy[v]]
    /\ End(v)
    /\ UNCHANGED <<task, evidence, injected, answers, history, faults>>

---------------------------------------------------------------------------
\* An exception of a provider, the synthesis or the store ends the handler where it is.
\* A drain catches what fulfill_research_request raises and goes on to the next post;
\* what it raises itself while it looks at a post ends it.
Abort(a) ==
    /\ faults < MaxFaults
    /\ faults' = faults + 1
    /\ pc[a] # "idle"
    /\ IF pc[a] = "scan" THEN End(a) ELSE Leave(a)
    /\ UNCHANGED <<board, history>>

Restart ==
    /\ faults < MaxFaults
    /\ faults' = faults + 1
    /\ pc # [a \in Actors |-> "idle"]
    /\ pc' = [a \in Actors |-> "idle"]
    /\ on' = [a \in Actors |-> Nowhere(a)]
    /\ copy' = [a \in Actors |-> "none"]
    /\ UNCHANGED <<board, history>>

Dispatch(d) == \/ Scan(d) \/ Check(d) \/ Acquire(d) \/ Publish(d) \/ Quarantine(d)
               \/ AddReviewItem(d) \/ SaveBlocked(d)
               \/ Finalize(d) \/ CompleteTask(d) \/ AppendAnswer(d)

Review(v) == \/ \E e \in Evidence : \/ \E action \in {"release", "discard"} : OpenReview(v, e, action)
                                    \/ \E s \in {"open", "snoozed"} : ReadForPatch(v, e, s)
             \/ Judge(v) \/ Discard(v) \/ FailTask(v) \/ CloseReview(v) \/ SavePatch(v)
             \/ Finalize(v) \/ CompleteTask(v) \/ AppendAnswer(v)

Next == \/ \E r \in Requests : Ask(r)
        \/ \E w \in Workers : StartDrain(w)
        \/ \E c \in Callers, r \in Requests : StartDispatch(c, r)
        \/ \E d \in Dispatchers : Dispatch(d)
        \/ \E v \in Reviewers : Review(v)
        \/ \E a \in Actors : Abort(a)
        \/ Restart

Spec == Init /\ [][Next]_vars

\* The worker wakes up after every interval and its round runs to its end: providers
\* have timeouts.  Nothing is assumed of callers and reviewers.
FairSpec == Spec /\ \A w \in Workers : WF_vars(StartDrain(w) \/ Dispatch(w))

---------------------------------------------------------------------------
(* Properties.                                                             *)

\* Content that looks like an injection is neither published nor cited in an answer
\* before a reviewer released it, however dispatchers and reviewers interleave.
QuarantineHolds ==
    \A e \in injected :
        (evidence[e] = "published" \/ \E i \in DOMAIN answers[e[2]] : answers[e[2]][i] = e)
            => e \in released

\* A request is answered once, whatever fails and is retried, as long as no two
\* handlers worked on it at the same time.
SerialAnsweredOnce == \A r \in Requests : Len(answers[r]) > 1 => r \in raced

\* Nobody is at work on the request and nothing failed.
Quiet(r) == faults = 0 /\ \A a \in Actors : pc[a] \in Working => Request(a) # r

\* A request that waits with evidence on the board can still be moved.
Hangs(r) ==
    /\ task[r] = "waiting" /\ Fulfilled(r)
    /\ ~ \E d \in Dispatchers : /\ evidence[<<d, r>>] = "needs_review"
                                /\ review[<<d, r>>] \in {"open", "snoozed"}

\* Task, evidence and review agree, unless handlers of the request raced: it is COMPLETED
\* only over published evidence and FAILED only over discarded evidence; and when its
\* handlers have ended, evidence in quarantine is left to a reviewer, and nothing else is
\* (agents.py fulfill_research_request, resolve_quarantined_research).
SerialQuarantineIsReviewed ==
    \A r \in Requests \ raced :
        /\ task[r] = "completed" => \E d \in Dispatchers : evidence[<<d, r>>] = "published"
        /\ task[r] = "failed"    => \E d \in Dispatchers : evidence[<<d, r>>] = "discarded"
        /\ Quiet(r) =>
              /\ ~Hangs(r)
              /\ \A d \in Dispatchers :
                    review[<<d, r>>] \in {"open", "snoozed"} => evidence[<<d, r>>] = "needs_review"

\* The worker serves every request that waits, also behind requests that are
\* quarantined, gated or whose acquisition raised.
WorkerServesAll ==
    \A r \in Requests \ Gated : (task[r] = "waiting") ~> Fulfilled(r)

\* What the docstring of resolve_quarantined_research promises.
NeverLeftHanging == \A r \in Requests : Quiet(r) => ~Hangs(r)
====
