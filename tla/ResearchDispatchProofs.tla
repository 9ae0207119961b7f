---- MODULE ResearchDispatchProofs ----
(***************************************************************************)
(* For any number of requests, drains, callers, reviewers, exceptions and  *)
(* restarts: quarantined evidence is neither published nor cited before a  *)
(* reviewer released it; and where two handlers did not work on a request  *)
(* at once, it is answered once, and its task, its evidence and its review *)
(* agree.  And for any providers and models of a turn: its trace is true,  *)
(* and its request is served.                                              *)
(***************************************************************************)
EXTENDS ResearchDispatch, Sourcing, FiniteSetTheorems, SequenceTheorems, TLAPS

Labels == {"idle", "scan", "check", "judge"} \cup Working
Copies == TaskStatus \cup ReviewStatus \cup {"release", "discard"}

\* What the label of a handler says of its evidence: a dispatcher that has not saved it
\* yet is the only one that could have, a later step finds it saved, and whoever is on
\* the way to an answer holds clean or released evidence.
Held(a) ==
    /\ pc[a] \in {"load", "publish", "quarantine"} =>
          a \in Dispatchers /\ evidence[on[a]] = "none"
    /\ pc[a] \in {"finalize", "complete", "answer", "discard"} => evidence[on[a]] # "none"
    /\ pc[a] \in {"publish", "finalize", "complete", "answer"} =>
          (on[a] \in injected => on[a] \in released)

EvidenceHeld == \A a \in Actors : Held(a)

\* What an answer cites is on the board.
CitedIsSaved ==
    \A r \in Requests : \A i \in DOMAIN answers[r] : evidence[answers[r][i]] # "none"

\* What a handler saves from what it read is of the kind it saves.
CopyHeld ==
    \A a \in Actors :
        /\ pc[a] \in {"quarantine", "review_item", "save_blocked"} => copy[a] \in TaskStatus
        /\ pc[a] = "patch" => copy[a] \in ReviewStatus

Types == TypeOK /\ CopyHeld

IInv == Types /\ EvidenceHeld /\ CitedIsSaved /\ QuarantineHolds

---------------------------------------------------------------------------
(* Shapes.                                                                 *)

\* A dispatcher works on its own evidence post.
LEMMA Places ==
    ASSUME TypeOK, NEW a \in Actors
    PROVE  /\ on[a] \in Evidence /\ Request(a) \in Requests
           /\ \A d \in Dispatchers : on[d] = <<d, Request(d)>>
  BY DEF TypeOK, Evidence, Request, Actors

\* Every actor has a place to start from.
LEMMA Homes ==
    ASSUME NEW a \in Actors
    PROVE  Nowhere(a) \in Evidence /\ (a \in Dispatchers => Nowhere(a)[1] = a)
<1>1. (CHOOSE d \in Dispatchers : TRUE) \in Dispatchers
  BY ResearchAssumption
<1>2. 1 \in Requests
  BY ResearchAssumption DEF Requests
<1> QED
  BY <1>1, <1>2 DEF Nowhere, Evidence

\* Only the locals of one actor change, and it ends outside the guarded labels.
Rests(a) ==
    /\ pc' \in [Actors -> Labels] /\ on' \in [Actors -> Evidence] /\ copy' \in [Actors -> Copies]
    /\ \A d \in Dispatchers : on'[d][1] = d
    /\ pc'[a] \in {"idle", "scan"}
    /\ \A b \in Actors \ {a} : pc'[b] = pc[b] /\ on'[b] = on[b] /\ copy'[b] = copy[b]

\* A handler that ends is idle, or a drain scans its next post.
LEMMA LeaveRests ==
    ASSUME TypeOK, NEW a \in Actors, Leave(a) \/ End(a)
    PROVE  Rests(a)
<1>1. CASE End(a)
  BY <1>1, Homes DEF End, Rests, Goto, TypeOK, Labels, Copies, ReviewStatus, Actors
<1>2. CASE Leave(a) /\ ~End(a)
  <2>1. a \in Workers /\ Request(a) < NumRequests /\ a \in Dispatchers
    BY <1>2 DEF Leave, Dispatchers
  <2>2. Request(a) + 1 \in Requests
    BY <2>1, Places, ResearchAssumption DEF Requests
  <2>3. <<a, Request(a) + 1>> \in Evidence
    BY <2>1, <2>2 DEF Evidence
  <2>4. /\ pc' = [pc EXCEPT ![a] = "scan"]
        /\ on' = [on EXCEPT ![a] = <<a, Request(a) + 1>>]
        /\ copy' = [copy EXCEPT ![a] = "none"]
    BY <1>2, <2>1 DEF Leave, Goto
  <2>5. pc' \in [Actors -> Labels] /\ copy' \in [Actors -> Copies] /\ pc'[a] = "scan"
    BY <2>4 DEF TypeOK, Labels, Copies, ReviewStatus
  <2>6. on' \in [Actors -> Evidence] /\ \A d \in Dispatchers : on'[d][1] = d
    BY <2>3, <2>4 DEF TypeOK, Actors
  <2>7. \A b \in Actors \ {a} : pc'[b] = pc[b] /\ on'[b] = on[b] /\ copy'[b] = copy[b]
    BY <2>4 DEF TypeOK
  <2> QED
    BY <2>5, <2>6, <2>7 DEF Rests
<1> QED
  BY <1>1, <1>2

\* Only the label of one actor changes.
LEMMA GotoMoves ==
    ASSUME TypeOK, NEW a \in Actors, NEW l \in Labels, Goto(a, l)
    PROVE  pc' \in [Actors -> Labels] /\ pc'[a] = l /\ \A b \in Actors \ {a} : pc'[b] = pc[b]
  BY DEF Goto, TypeOK, Labels

\* Two handlers that hold evidence, one of them a dispatcher that has not saved its own,
\* hold different evidence.
LEMMA Apart ==
    ASSUME TypeOK, EvidenceHeld, NEW a \in Actors, NEW b \in Actors, a # b,
           pc[b] \in {"load", "publish", "quarantine"},
           pc[a] \in {"load", "publish", "quarantine", "finalize", "complete", "answer", "discard"}
    PROVE  on[b] # on[a] /\ b \in Dispatchers /\ evidence[on[b]] = "none"
<1>1. b \in Dispatchers /\ evidence[on[b]] = "none" /\ on[b][1] = b
  BY DEF EvidenceHeld, Held, TypeOK
<1>2. CASE pc[a] \in {"load", "publish", "quarantine"}
  BY <1>1, <1>2 DEF EvidenceHeld, Held, TypeOK
<1>3. CASE pc[a] \notin {"load", "publish", "quarantine"}
  BY <1>1, <1>3 DEF EvidenceHeld, Held
<1> QED
  BY <1>1, <1>2, <1>3

---------------------------------------------------------------------------
(* Types.                                                                  *)

LEMMA InitTypes ==
    ASSUME Init
    PROVE  TypeOK
<1>1. \A a \in Actors : Nowhere(a) \in Evidence /\ (a \in Dispatchers => Nowhere(a)[1] = a)
  BY Homes
<1>2. \A d \in Dispatchers : on[d][1] = d
  BY <1>1 DEF Init, Actors
<1>3. answers \in [Requests -> Seq(Evidence)]
  BY DEF Init
<1> QED
  BY <1>1, <1>2, <1>3, ResearchAssumption DEF Init, TypeOK, TaskStatus, ReviewStatus

\* A handler's locals keep their types when it moves on with them.
LEMMA TypeMoves ==
    ASSUME TypeOK, NEW a \in Actors, NEW l \in Labels, Goto(a, l),
           on' = on, NEW s \in Copies, copy' = [copy EXCEPT ![a] = s] \/ copy' = copy
    PROVE  /\ pc' \in [Actors -> Labels] /\ on' \in [Actors -> Evidence]
           /\ copy' \in [Actors -> Copies] /\ \A d \in Dispatchers : on'[d][1] = d
  BY DEF Goto, TypeOK, Labels, Copies

\* An actor's step keeps CopyHeld when it ends, or when its new label reads no copy.
LEMMA CopyMoves ==
    ASSUME Types, NEW a \in Actors, copy' \in [Actors -> Copies],
           \A b \in Actors \ {a} : pc'[b] = pc[b] /\ copy'[b] = copy[b],
           \/ pc'[a] \notin {"quarantine", "review_item", "save_blocked", "patch"}
           \/ pc'[a] \in {"quarantine", "review_item", "save_blocked"} /\ copy'[a] \in TaskStatus
           \/ pc'[a] = "patch" /\ copy'[a] \in ReviewStatus
    PROVE  CopyHeld'
<1>1. ASSUME NEW b \in Actors
      PROVE  /\ pc'[b] \in {"quarantine", "review_item", "save_blocked"} => copy'[b] \in TaskStatus
             /\ pc'[b] = "patch" => copy'[b] \in ReviewStatus
  <2>1. CASE b = a
    BY <2>1
  <2>2. CASE b # a
    BY <2>2 DEF Types, CopyHeld
  <2> QED
    BY <2>1, <2>2
<1> QED
  BY <1>1 DEF CopyHeld

\* The steps of a dispatcher keep the types.
LEMMA TypeDispatch ==
    ASSUME Types, NEW d \in Dispatchers, Dispatch(d)
    PROVE  Types'
<1>y. TypeOK /\ d \in Actors
  BY DEF Types, Actors
<1>d. on[d] \in Evidence /\ Request(d) \in Requests
  BY <1>y, Places
<1>c. pc[d] \in {"quarantine", "review_item", "save_blocked"} => copy[d] \in TaskStatus
  BY <1>y DEF Types, CopyHeld
<1>l. Leave(d) => Rests(d)
  BY <1>y, LeaveRests
<1>t. task[Request(d)] \in TaskStatus /\ task[Request(d)] \in Copies
  BY <1>y, <1>d DEF TypeOK, Copies
<1>m. ASSUME TypeOK', \A b \in Actors \ {d} : pc'[b] = pc[b] /\ copy'[b] = copy[b],
             \/ pc'[d] \notin {"quarantine", "review_item", "save_blocked", "patch"}
             \/ pc'[d] \in {"quarantine", "review_item", "save_blocked"} /\ copy'[d] \in TaskStatus
      PROVE  Types'
  BY <1>m, <1>y, CopyMoves DEF Types, TypeOK, Copies
<1>1. CASE Scan(d)
  <2>1. TypeOK'
    BY <1>1, <1>y, <1>d, <1>l DEF Scan, Rests, board, history, Labels, Copies, Goto, Working,
       TypeOK
  <2>2. \A b \in Actors \ {d} : pc'[b] = pc[b] /\ copy'[b] = copy[b]
    BY <1>1, <1>y, <1>l DEF Scan, Rests, board, history, Labels, Copies, Goto, Working, TypeOK
  <2>3. \/ pc'[d] \notin {"quarantine", "review_item", "save_blocked", "patch"}
        \/ pc'[d] \in {"quarantine", "review_item", "save_blocked"} /\ copy'[d] \in TaskStatus
    BY <1>1, <1>y, <1>l DEF Scan, Rests, board, history, Labels, Copies, Goto, Working, TypeOK
  <2> QED
    BY <2>1, <2>2, <2>3, <1>m
<1>2. CASE Check(d)
  <2>1. TypeOK'
    BY <1>2, <1>y, <1>d, <1>l DEF Check, Enter, Goto, Rests, board, history, Labels, Working,
       Copies, TypeOK
  <2>2. \A b \in Actors \ {d} : pc'[b] = pc[b] /\ copy'[b] = copy[b]
    BY <1>2, <1>y, <1>l DEF Check, Enter, Goto, Rests, board, history, Labels, Working, Copies,
       TypeOK
  <2>3. \/ pc'[d] \notin {"quarantine", "review_item", "save_blocked", "patch"}
        \/ pc'[d] \in {"quarantine", "review_item", "save_blocked"} /\ copy'[d] \in TaskStatus
    BY <1>2, <1>y, <1>l DEF Check, Enter, Goto, Rests, board, history, Labels, Working, Copies,
       TypeOK
  <2> QED
    BY <2>1, <2>2, <2>3, <1>m
<1>3. CASE Acquire(d)
  <2>1. TypeOK'
    BY <1>3, <1>y, <1>d, <1>t DEF Acquire, Goto, Copied, history, Labels, Working, Copies, TypeOK
  <2>2. \A b \in Actors \ {d} : pc'[b] = pc[b] /\ copy'[b] = copy[b]
    BY <1>3, <1>y, <1>t DEF Acquire, Goto, Copied, history, Labels, Working, Copies, TypeOK
  <2>3. \/ pc'[d] \notin {"quarantine", "review_item", "save_blocked", "patch"}
        \/ pc'[d] \in {"quarantine", "review_item", "save_blocked"} /\ copy'[d] \in TaskStatus
    BY <1>3, <1>y, <1>t DEF Acquire, Goto, Copied, history, Labels, Working, Copies, TypeOK
  <2> QED
    BY <2>1, <2>2, <2>3, <1>m
<1>4. CASE Publish(d)
  <2>1. TypeOK'
    BY <1>4, <1>y, <1>d DEF Publish, SaveEvidence, Goto, history, Working, TypeOK
  <2>2. \A b \in Actors \ {d} : pc'[b] = pc[b] /\ copy'[b] = copy[b]
    BY <1>4, <1>y DEF Publish, SaveEvidence, Goto, history, Working, TypeOK
  <2>3. \/ pc'[d] \notin {"quarantine", "review_item", "save_blocked", "patch"}
        \/ pc'[d] \in {"quarantine", "review_item", "save_blocked"} /\ copy'[d] \in TaskStatus
    BY <1>4, <1>y DEF Publish, SaveEvidence, Goto, history, Working, TypeOK
  <2> QED
    BY <2>1, <2>2, <2>3, <1>m
<1>5. CASE Quarantine(d)
  <2>1. TypeOK'
    BY <1>5, <1>y, <1>d, <1>c DEF Quarantine, SaveEvidence, Goto, history, Working, TypeOK
  <2>2. \A b \in Actors \ {d} : pc'[b] = pc[b] /\ copy'[b] = copy[b]
    BY <1>5, <1>y, <1>c DEF Quarantine, SaveEvidence, Goto, history, Working, TypeOK
  <2>3. \/ pc'[d] \notin {"quarantine", "review_item", "save_blocked", "patch"}
        \/ pc'[d] \in {"quarantine", "review_item", "save_blocked"} /\ copy'[d] \in TaskStatus
    BY <1>5, <1>y, <1>c DEF Quarantine, SaveEvidence, Goto, history, Working, TypeOK
  <2> QED
    BY <2>1, <2>2, <2>3, <1>m
<1>6. CASE AddReviewItem(d)
  <2>1. TypeOK'
    BY <1>6, <1>y, <1>d, <1>c DEF AddReviewItem, Goto, history, Working, ReviewStatus, TypeOK
  <2>2. \A b \in Actors \ {d} : pc'[b] = pc[b] /\ copy'[b] = copy[b]
    BY <1>6, <1>y, <1>c DEF AddReviewItem, Goto, history, Working, ReviewStatus, TypeOK
  <2>3. \/ pc'[d] \notin {"quarantine", "review_item", "save_blocked", "patch"}
        \/ pc'[d] \in {"quarantine", "review_item", "save_blocked"} /\ copy'[d] \in TaskStatus
    BY <1>6, <1>y, <1>c DEF AddReviewItem, Goto, history, Working, ReviewStatus, TypeOK
  <2> QED
    BY <2>1, <2>2, <2>3, <1>m
<1>7. CASE SaveBlocked(d)
  <2>1. TypeOK'
    BY <1>7, <1>y, <1>d, <1>c, <1>l DEF SaveBlocked, SaveTask, Rests, history, Labels, Copies,
       TypeOK
  <2>2. \A b \in Actors \ {d} : pc'[b] = pc[b] /\ copy'[b] = copy[b]
    BY <1>7, <1>y, <1>c, <1>l DEF SaveBlocked, SaveTask, Rests, history, Labels, Copies, TypeOK
  <2>3. \/ pc'[d] \notin {"quarantine", "review_item", "save_blocked", "patch"}
        \/ pc'[d] \in {"quarantine", "review_item", "save_blocked"} /\ copy'[d] \in TaskStatus
    BY <1>7, <1>y, <1>c, <1>l DEF SaveBlocked, SaveTask, Rests, history, Labels, Copies, TypeOK
  <2> QED
    BY <2>1, <2>2, <2>3, <1>m
<1>8. CASE Finalize(d)
  <2>1. TypeOK'
    BY <1>8, <1>y, <1>d DEF Finalize, SaveEvidence, Goto, history, Working, TypeOK
  <2>2. \A b \in Actors \ {d} : pc'[b] = pc[b] /\ copy'[b] = copy[b]
    BY <1>8, <1>y DEF Finalize, SaveEvidence, Goto, history, Working, TypeOK
  <2>3. \/ pc'[d] \notin {"quarantine", "review_item", "save_blocked", "patch"}
        \/ pc'[d] \in {"quarantine", "review_item", "save_blocked"} /\ copy'[d] \in TaskStatus
    BY <1>8, <1>y DEF Finalize, SaveEvidence, Goto, history, Working, TypeOK
  <2> QED
    BY <2>1, <2>2, <2>3, <1>m
<1>9. CASE CompleteTask(d)
  <2>1. TypeOK'
    BY <1>9, <1>y, <1>d DEF CompleteTask, SaveTask, Goto, history, Working, TaskStatus, TypeOK
  <2>2. \A b \in Actors \ {d} : pc'[b] = pc[b] /\ copy'[b] = copy[b]
    BY <1>9, <1>y DEF CompleteTask, SaveTask, Goto, history, Working, TaskStatus, TypeOK
  <2>3. \/ pc'[d] \notin {"quarantine", "review_item", "save_blocked", "patch"}
        \/ pc'[d] \in {"quarantine", "review_item", "save_blocked"} /\ copy'[d] \in TaskStatus
    BY <1>9, <1>y DEF CompleteTask, SaveTask, Goto, history, Working, TaskStatus, TypeOK
  <2> QED
    BY <2>1, <2>2, <2>3, <1>m
<1>10. CASE AppendAnswer(d)
  <2>1. TypeOK'
    BY <1>10, <1>y, <1>d, <1>l, ResearchAssumption DEF AppendAnswer, Rests, history, Labels,
       Copies, Dispatchers, Working, Goto, TypeOK
  <2>2. \A b \in Actors \ {d} : pc'[b] = pc[b] /\ copy'[b] = copy[b]
    BY <1>10, <1>y, <1>l, ResearchAssumption DEF AppendAnswer, Rests, history, Labels, Copies,
       Dispatchers, Working, Goto, TypeOK
  <2>3. \/ pc'[d] \notin {"quarantine", "review_item", "save_blocked", "patch"}
        \/ pc'[d] \in {"quarantine", "review_item", "save_blocked"} /\ copy'[d] \in TaskStatus
    BY <1>10, <1>y, <1>l, ResearchAssumption DEF AppendAnswer, Rests, history, Labels, Copies,
       Dispatchers, Working, Goto, TypeOK
  <2> QED
    BY <2>1, <2>2, <2>3, <1>m
<1> QED
  BY <1>1, <1>2, <1>3, <1>4, <1>5, <1>6, <1>7, <1>8, <1>9, <1>10 DEF Dispatch

\* The steps of a reviewer keep the types.
LEMMA TypeReview ==
    ASSUME Types, NEW v \in Reviewers, Review(v)
    PROVE  Types'
<1>y. TypeOK /\ v \in Actors /\ v \notin Dispatchers /\ v \notin Workers
  BY ResearchAssumption DEF Types, Actors, Dispatchers
<1>d. on[v] \in Evidence /\ Request(v) \in Requests
  BY <1>y, Places
<1>c. pc[v] = "patch" => copy[v] \in ReviewStatus
  BY <1>y DEF Types, CopyHeld
<1>l. End(v) => Rests(v)
  BY <1>y, LeaveRests
<1>m. ASSUME TypeOK', \A b \in Actors \ {v} : pc'[b] = pc[b] /\ copy'[b] = copy[b],
             \/ pc'[v] \notin {"quarantine", "review_item", "save_blocked", "patch"}
             \/ pc'[v] \in {"quarantine", "review_item", "save_blocked"} /\ copy'[v] \in TaskStatus
             \/ pc'[v] = "patch" /\ copy'[v] \in ReviewStatus
      PROVE  Types'
  BY <1>m, <1>y, CopyMoves DEF Types, TypeOK, Copies
<1>1. ASSUME NEW e \in Evidence, NEW action \in {"release", "discard"}, OpenReview(v, e, action)
      PROVE  Types'
  <2>1. TypeOK'
    BY <1>1, <1>y, <1>d DEF OpenReview, Goto, Copied, board, history, Labels, Working, Copies,
       TypeOK
  <2>2. \A b \in Actors \ {v} : pc'[b] = pc[b] /\ copy'[b] = copy[b]
    BY <1>1, <1>y DEF OpenReview, Goto, Copied, board, history, Labels, Working, Copies, TypeOK
  <2>3. \/ pc'[v] \notin {"quarantine", "review_item", "save_blocked", "patch"}
        \/ pc'[v] = "patch" /\ copy'[v] \in ReviewStatus
    BY <1>1, <1>y DEF OpenReview, Goto, Copied, board, history, Labels, Working, Copies, TypeOK
  <2> QED
    BY <2>1, <2>2, <2>3, <1>m
<1>2. ASSUME NEW e \in Evidence, NEW s \in {"open", "snoozed"}, ReadForPatch(v, e, s)
      PROVE  Types'
  <2>1. TypeOK'
    BY <1>2, <1>y, <1>d DEF ReadForPatch, Enter, Goto, Copied, board, Labels, Working, Copies,
       ReviewStatus, Evidence, TypeOK
  <2>2. \A b \in Actors \ {v} : pc'[b] = pc[b] /\ copy'[b] = copy[b]
    BY <1>2, <1>y DEF ReadForPatch, Enter, Goto, Copied, board, Labels, Working, Copies,
       ReviewStatus, Evidence, TypeOK
  <2>3. \/ pc'[v] \notin {"quarantine", "review_item", "save_blocked", "patch"}
        \/ pc'[v] = "patch" /\ copy'[v] \in ReviewStatus
    BY <1>2, <1>y DEF ReadForPatch, Enter, Goto, Copied, board, Labels, Working, Copies,
       ReviewStatus, Evidence, TypeOK
  <2> QED
    BY <2>1, <2>2, <2>3, <1>m
<1>3. CASE Judge(v)
  <2>1. TypeOK'
    BY <1>3, <1>y, <1>d, <1>l DEF Judge, Enter, Goto, Rests, board, history, Labels, Working,
       Copies, TypeOK
  <2>2. \A b \in Actors \ {v} : pc'[b] = pc[b] /\ copy'[b] = copy[b]
    BY <1>3, <1>y, <1>l DEF Judge, Enter, Goto, Rests, board, history, Labels, Working, Copies,
       TypeOK
  <2>3. \/ pc'[v] \notin {"quarantine", "review_item", "save_blocked", "patch"}
        \/ pc'[v] = "patch" /\ copy'[v] \in ReviewStatus
    BY <1>3, <1>y, <1>l DEF Judge, Enter, Goto, Rests, board, history, Labels, Working, Copies,
       TypeOK
  <2> QED
    BY <2>1, <2>2, <2>3, <1>m
<1>4. CASE Discard(v)
  <2>1. TypeOK'
    BY <1>4, <1>y, <1>d DEF Discard, SaveEvidence, Goto, history, Working, TypeOK
  <2>2. \A b \in Actors \ {v} : pc'[b] = pc[b] /\ copy'[b] = copy[b]
    BY <1>4, <1>y DEF Discard, SaveEvidence, Goto, history, Working, TypeOK
  <2>3. \/ pc'[v] \notin {"quarantine", "review_item", "save_blocked", "patch"}
        \/ pc'[v] = "patch" /\ copy'[v] \in ReviewStatus
    BY <1>4, <1>y DEF Discard, SaveEvidence, Goto, history, Working, TypeOK
  <2> QED
    BY <2>1, <2>2, <2>3, <1>m
<1>5. CASE FailTask(v)
  <2>1. TypeOK'
    BY <1>5, <1>y, <1>d DEF FailTask, SaveTask, Goto, history, Working, TaskStatus, TypeOK
  <2>2. \A b \in Actors \ {v} : pc'[b] = pc[b] /\ copy'[b] = copy[b]
    BY <1>5, <1>y DEF FailTask, SaveTask, Goto, history, Working, TaskStatus, TypeOK
  <2>3. \/ pc'[v] \notin {"quarantine", "review_item", "save_blocked", "patch"}
        \/ pc'[v] = "patch" /\ copy'[v] \in ReviewStatus
    BY <1>5, <1>y DEF FailTask, SaveTask, Goto, history, Working, TaskStatus, TypeOK
  <2> QED
    BY <2>1, <2>2, <2>3, <1>m
<1>6. CASE CloseReview(v)
  <2>1. TypeOK'
    BY <1>6, <1>y, <1>d, <1>l DEF CloseReview, Rests, history, Labels, Copies, ReviewStatus,
       Working, TypeOK
  <2>2. \A b \in Actors \ {v} : pc'[b] = pc[b] /\ copy'[b] = copy[b]
    BY <1>6, <1>y, <1>l DEF CloseReview, Rests, history, Labels, Copies, ReviewStatus, Working,
       TypeOK
  <2>3. \/ pc'[v] \notin {"quarantine", "review_item", "save_blocked", "patch"}
        \/ pc'[v] = "patch" /\ copy'[v] \in ReviewStatus
    BY <1>6, <1>y, <1>l DEF CloseReview, Rests, history, Labels, Copies, ReviewStatus, Working,
       TypeOK
  <2> QED
    BY <2>1, <2>2, <2>3, <1>m
<1>7. CASE SavePatch(v)
  <2>1. TypeOK'
    BY <1>7, <1>y, <1>d, <1>l, <1>c DEF SavePatch, Rests, history, Labels, Copies, TypeOK
  <2>2. \A b \in Actors \ {v} : pc'[b] = pc[b] /\ copy'[b] = copy[b]
    BY <1>7, <1>y, <1>l, <1>c DEF SavePatch, Rests, history, Labels, Copies, TypeOK
  <2>3. \/ pc'[v] \notin {"quarantine", "review_item", "save_blocked", "patch"}
        \/ pc'[v] = "patch" /\ copy'[v] \in ReviewStatus
    BY <1>7, <1>y, <1>l, <1>c DEF SavePatch, Rests, history, Labels, Copies, TypeOK
  <2> QED
    BY <2>1, <2>2, <2>3, <1>m
<1>8. CASE Finalize(v)
  <2>1. TypeOK'
    BY <1>8, <1>y, <1>d DEF Finalize, SaveEvidence, Goto, history, Working, TypeOK
  <2>2. \A b \in Actors \ {v} : pc'[b] = pc[b] /\ copy'[b] = copy[b]
    BY <1>8, <1>y DEF Finalize, SaveEvidence, Goto, history, Working, TypeOK
  <2>3. \/ pc'[v] \notin {"quarantine", "review_item", "save_blocked", "patch"}
        \/ pc'[v] = "patch" /\ copy'[v] \in ReviewStatus
    BY <1>8, <1>y DEF Finalize, SaveEvidence, Goto, history, Working, TypeOK
  <2> QED
    BY <2>1, <2>2, <2>3, <1>m
<1>9. CASE CompleteTask(v)
  <2>1. TypeOK'
    BY <1>9, <1>y, <1>d DEF CompleteTask, SaveTask, Goto, history, Working, TaskStatus, TypeOK
  <2>2. \A b \in Actors \ {v} : pc'[b] = pc[b] /\ copy'[b] = copy[b]
    BY <1>9, <1>y DEF CompleteTask, SaveTask, Goto, history, Working, TaskStatus, TypeOK
  <2>3. \/ pc'[v] \notin {"quarantine", "review_item", "save_blocked", "patch"}
        \/ pc'[v] = "patch" /\ copy'[v] \in ReviewStatus
    BY <1>9, <1>y DEF CompleteTask, SaveTask, Goto, history, Working, TaskStatus, TypeOK
  <2> QED
    BY <2>1, <2>2, <2>3, <1>m
<1>10. CASE AppendAnswer(v)
  <2>1. TypeOK'
    <3>1. answers' \in [Requests -> Seq(Evidence)]
      BY <1>10, <1>y, <1>d DEF AppendAnswer, TypeOK
    <3>2. UNCHANGED <<task, evidence, injected, review, on, copy, history, faults>> /\ Goto(v, "close")
      BY <1>10 DEF AppendAnswer
    <3> QED
      BY <3>1, <3>2, <1>y DEF history, Goto, Working, TypeOK
  <2>2. \A b \in Actors \ {v} : pc'[b] = pc[b] /\ copy'[b] = copy[b]
    BY <1>10, <1>y DEF AppendAnswer, history, Goto, Working, TypeOK
  <2>3. \/ pc'[v] \notin {"quarantine", "review_item", "save_blocked", "patch"}
        \/ pc'[v] = "patch" /\ copy'[v] \in ReviewStatus
    BY <1>10, <1>y DEF AppendAnswer, history, Goto, Working, TypeOK
  <2> QED
    BY <2>1, <2>2, <2>3, <1>m
<1> QED
  BY <1>1, <1>2, <1>3, <1>4, <1>5, <1>6, <1>7, <1>8, <1>9, <1>10 DEF Review

\* So do the other steps.
LEMMA TypeOther ==
    ASSUME Types,
           \/ \E r \in Requests : Ask(r)
           \/ \E w \in Workers : StartDrain(w)
           \/ \E c \in Callers, r \in Requests : StartDispatch(c, r)
           \/ \E a \in Actors : Abort(a)
           \/ Restart
           \/ UNCHANGED vars
    PROVE  Types'
<1>y. TypeOK
  BY DEF Types
<1>1. ASSUME NEW r \in Requests, Ask(r)
      PROVE  Types'
  BY <1>1 DEF Ask, Types, TypeOK, CopyHeld, TaskStatus, history
<1>2. ASSUME NEW d \in Dispatchers, NEW r \in Requests, pc' = [pc EXCEPT ![d] = "scan"],
             on' = [on EXCEPT ![d] = <<d, r>>], UNCHANGED <<board, copy, history, faults>>
      PROVE  Types'
  <2>1. <<d, r>> \in Evidence
    BY <1>2 DEF Evidence
  <2>2. TypeOK'
    BY <1>2, <2>1, <1>y DEF TypeOK, board, history, Actors
  <2>3. CopyHeld'
    BY <1>2 DEF Types, TypeOK, CopyHeld
  <2> QED
    BY <2>2, <2>3 DEF Types
<1>3. ASSUME NEW w \in Workers, StartDrain(w)
      PROVE  Types'
  <2>1. w \in Dispatchers /\ 1 \in Requests
    BY ResearchAssumption DEF Dispatchers, Requests
  <2> QED
    BY <2>1, <1>2, <1>3 DEF StartDrain, Goto
<1>4. ASSUME NEW c \in Callers, NEW r \in Requests, StartDispatch(c, r)
      PROVE  Types'
  BY <1>2, <1>4 DEF StartDispatch, Goto, Dispatchers
<1>5. ASSUME NEW a \in Actors, Abort(a)
      PROVE  Types'
  <2>1. Rests(a)
    BY <1>5, <1>y, LeaveRests DEF Abort
  <2>2. TypeOK'
    BY <1>5, <2>1, <1>y, ResearchAssumption DEF Abort, Rests, TypeOK, board, history, Labels,
       Copies
  <2>3. CopyHeld'
    BY <2>1, CopyMoves DEF Rests
  <2> QED
    BY <2>2, <2>3 DEF Types
<1>6. CASE Restart
  <2>1. \A a \in Actors : Nowhere(a) \in Evidence /\ (a \in Dispatchers => Nowhere(a)[1] = a)
    BY Homes
  <2>2. TypeOK'
    BY <1>6, <2>1, <1>y, ResearchAssumption
       DEF Restart, TypeOK, board, history, ReviewStatus, Actors
  <2>3. CopyHeld'
    BY <1>6 DEF Restart, CopyHeld
  <2> QED
    BY <2>2, <2>3 DEF Types
<1>7. CASE UNCHANGED vars
  BY <1>7 DEF vars, board, history, Types, TypeOK, CopyHeld
<1> QED
  BY <1>1, <1>3, <1>4, <1>5, <1>6, <1>7

LEMMA TypeStep ==
    ASSUME Types, [Next]_vars
    PROVE  Types'
  BY TypeDispatch, TypeReview, TypeOther DEF Next

---------------------------------------------------------------------------
(* The invariant.                                                          *)

Safe == EvidenceHeld /\ CitedIsSaved /\ QuarantineHolds

\* Only actor a moves, and nothing that was released is taken back.
Moves(a) ==
    /\ \A b \in Actors \ {a} : pc'[b] = pc[b] /\ on'[b] = on[b]
    /\ released \subseteq released'

\* A step that saves no evidence and appends no answer.
LEMMA SafeMoves ==
    ASSUME IInv, NEW a \in Actors, Moves(a), Held(a)', UNCHANGED <<evidence, injected, answers>>
    PROVE  Safe'
<1>1. EvidenceHeld'
  <2>1. ASSUME NEW b \in Actors, b # a
        PROVE  Held(b)'
    BY <2>1 DEF IInv, Moves, EvidenceHeld, Held
  <2> QED
    BY <2>1 DEF EvidenceHeld
<1>2. CitedIsSaved' /\ QuarantineHolds'
  BY DEF IInv, Moves, CitedIsSaved, QuarantineHolds
<1> QED
  BY <1>1, <1>2 DEF Safe

\* A handler saves its evidence post.
LEMMA SafeSaves ==
    ASSUME IInv, NEW a \in Actors, Moves(a), Held(a)', UNCHANGED <<injected, answers>>,
           NEW s \in {"published", "needs_review", "discarded"}, SaveEvidence(a, s),
           pc[a] \in {"publish", "quarantine", "finalize", "discard"},
           s = "published" => (on[a] \in injected => on[a] \in released)
    PROVE  Safe'
<1>t. TypeOK /\ EvidenceHeld /\ on[a] \in Evidence
  BY Places DEF IInv, Types
<1>s. /\ \A e \in Evidence : e # on[a] => evidence'[e] = evidence[e]
      /\ evidence'[on[a]] = s
  BY <1>t DEF SaveEvidence, TypeOK
<1>1. ASSUME NEW b \in Actors, b # a
      PROVE  Held(b)'
  <2>1. on[b] \in Evidence /\ Held(b) /\ pc'[b] = pc[b] /\ on'[b] = on[b]
    BY <1>1, <1>t, Places DEF Moves, EvidenceHeld
  <2>2. pc[b] \in {"load", "publish", "quarantine"} =>
            b \in Dispatchers /\ evidence'[on[b]] = "none"
    BY <1>1, <1>t, <1>s, <2>1, Apart
  <2>3. evidence[on[b]] # "none" => evidence'[on[b]] # "none"
    BY <1>s, <2>1
  <2> QED
    BY <2>1, <2>2, <2>3 DEF Held, Moves
<1>2. CitedIsSaved'
  <2>1. ASSUME NEW r \in Requests, NEW i \in DOMAIN answers[r]
        PROVE  evidence'[answers[r][i]] # "none"
    <3>1. answers[r][i] \in Evidence
      BY <1>t, <2>1, ElementOfSeq DEF TypeOK
    <3> QED
      BY <3>1, <1>s, <2>1 DEF IInv, CitedIsSaved
  <2> QED
    BY <2>1 DEF CitedIsSaved
<1>3. QuarantineHolds'
  <2>1. \A e \in injected : e \in Evidence
    BY <1>t DEF TypeOK
  <2> QED
    BY <2>1, <1>s DEF IInv, QuarantineHolds, Moves
<1> QED
  BY <1>1, <1>2, <1>3 DEF Safe, EvidenceHeld

\* What the provider sent is assessed before it is saved.
LEMMA SafeAcquires ==
    ASSUME IInv, NEW a \in Actors, Moves(a), Held(a)', UNCHANGED <<evidence, answers>>,
           pc[a] = "load", injected' \in {injected \cup {on[a]}, injected \ {on[a]}}
    PROVE  Safe'
<1>t. TypeOK /\ EvidenceHeld /\ on[a] \in Evidence /\ evidence[on[a]] = "none"
  BY Places DEF IInv, Types, EvidenceHeld, Held
<1>1. ASSUME NEW b \in Actors, b # a
      PROVE  Held(b)'
  <2>1. Held(b) /\ pc'[b] = pc[b] /\ on'[b] = on[b]
    BY <1>1, <1>t DEF Moves, EvidenceHeld
  <2>2. pc[b] \in {"publish", "finalize", "complete", "answer"} => on[b] # on[a]
    BY <1>1, <1>t, Apart
  <2> QED
    BY <2>1, <2>2 DEF Held, Moves
<1>2. CitedIsSaved'
  BY DEF IInv, CitedIsSaved
<1>3. QuarantineHolds'
  <2>1. ASSUME NEW e \in injected', \/ evidence[e] = "published"
                                    \/ \E i \in DOMAIN answers[e[2]] : answers[e[2]][i] = e
        PROVE  e \in released'
    <3>1. e \in Evidence /\ e[2] \in Requests
      BY <1>t DEF TypeOK, Evidence
    <3>2. evidence[e] # "none"
      BY <2>1, <3>1 DEF IInv, CitedIsSaved
    <3>3. e \in injected
      BY <3>2, <1>t
    <3> QED
      BY <2>1, <3>3 DEF IInv, QuarantineHolds, Moves
  <2> QED
    BY <2>1 DEF QuarantineHolds
<1> QED
  BY <1>1, <1>2, <1>3 DEF Safe, EvidenceHeld

\* The answer cites what the handler holds.
LEMMA SafeAnswers ==
    ASSUME IInv, NEW a \in Actors, Moves(a), Held(a)', UNCHANGED <<evidence, injected>>,
           pc[a] = "answer", answers' = [answers EXCEPT ![Request(a)] = Append(@, on[a])]
    PROVE  Safe'
<1>t. /\ TypeOK /\ EvidenceHeld /\ on[a] \in Evidence /\ Request(a) \in Requests
      /\ evidence[on[a]] # "none" /\ (on[a] \in injected => on[a] \in released)
  BY Places DEF IInv, Types, EvidenceHeld, Held
<1>1. ASSUME NEW b \in Actors, b # a
      PROVE  Held(b)'
  BY <1>1, <1>t DEF Moves, EvidenceHeld, Held
<1>a. ASSUME NEW r \in Requests, NEW i \in DOMAIN answers'[r]
      PROVE  answers'[r][i] = on[a] \/ (i \in DOMAIN answers[r] /\ answers'[r][i] = answers[r][i])
  <2>1. CASE r = Request(a)
    <3>1. answers[r] \in Seq(Evidence) /\ answers'[r] = Append(answers[r], on[a])
      BY <1>t, <2>1 DEF TypeOK
    <3>2. /\ DOMAIN answers'[r] = 1..(Len(answers[r]) + 1)
          /\ DOMAIN answers[r] = 1..Len(answers[r]) /\ Len(answers[r]) \in Nat
      BY <3>1, <1>t
    <3>3. CASE i = Len(answers[r]) + 1
      BY <3>1, <3>2, <3>3, <1>t
    <3>4. CASE i # Len(answers[r]) + 1
      <4>1. i \in 1..Len(answers[r])
        BY <3>2, <3>4, <1>a
      <4> QED
        BY <4>1, <3>1, <3>2, <1>t
    <3> QED
      BY <3>3, <3>4
  <2>2. CASE r # Request(a)
    BY <2>2, <1>a, <1>t DEF TypeOK
  <2> QED
    BY <2>1, <2>2
<1>2. CitedIsSaved'
  BY <1>a, <1>t DEF IInv, CitedIsSaved
<1>3. QuarantineHolds'
  <2>1. ASSUME NEW e \in injected', \/ evidence'[e] = "published"
                                    \/ \E i \in DOMAIN answers'[e[2]] : answers'[e[2]][i] = e
        PROVE  e \in released'
    <3>1. e \in Evidence /\ e[2] \in Requests /\ e \in injected
      BY <1>t, <2>1 DEF TypeOK, Evidence
    <3>2. e = on[a] \/ e \in released
      BY <2>1, <3>1, <1>a DEF IInv, QuarantineHolds
    <3> QED
      BY <3>1, <3>2, <1>t DEF Moves
  <2> QED
    BY <2>1 DEF QuarantineHolds
<1> QED
  BY <1>1, <1>2, <1>3 DEF Safe, EvidenceHeld

\* The steps of a dispatcher keep the invariant.
LEMMA SafeDispatch ==
    ASSUME IInv, NEW d \in Dispatchers, Dispatch(d)
    PROVE  Safe'
<1>t. TypeOK /\ EvidenceHeld /\ d \in Actors
  BY DEF IInv, Types, Actors
<1>e. on[d] \in Evidence /\ evidence \in [Evidence -> {"none", "published", "needs_review", "discarded"}]
  BY <1>t, Places DEF TypeOK
<1>l. Leave(d) \/ End(d) => Rests(d)
  BY <1>t, LeaveRests
<1>r. ASSUME Rests(d), released \subseteq released'
      PROVE  Moves(d) /\ Held(d)'
  BY <1>r DEF Rests, Moves, Held
<1>h. Held(d) /\ pc \in [Actors -> Labels] /\ injected \subseteq Evidence
  BY <1>t DEF EvidenceHeld, TypeOK, Labels
<1>1. CASE Scan(d)
  <2>1. Moves(d) /\ Held(d)'
    BY <1>1, <1>t, <1>h, <1>l, <1>r DEF Scan, Goto, Moves, Held, board, history
  <2> QED
    BY <2>1, <1>1, <1>t, SafeMoves DEF Scan, board
<1>2. CASE Check(d)
  <2>1. on[d] = <<d, Request(d)>>
    BY <1>t, Places
  <2>2. Moves(d) /\ Held(d)'
    <3>1. CASE Leave(d)
      BY <3>1, <1>2, <1>l, <1>r DEF Check
    <3>2. CASE ~Fulfilled(Request(d)) /\ Enter(d, Request(d), "load") /\ UNCHANGED <<on, copy>>
      BY <3>2, <1>2, <1>h, <2>1 DEF Check, Enter, Goto, Moves, Held, board, Fulfilled
    <3> QED
      BY <3>1, <3>2, <1>2 DEF Check
  <2> QED
    BY <2>2, <1>2, <1>t, SafeMoves DEF Check, board
<1>3. CASE Acquire(d)
  <2>1. Moves(d) /\ Held(d)'
    BY <1>3, <1>t, <1>h DEF Acquire, Goto, Moves, Held, history
  <2> QED
    BY <2>1, <1>3, <1>t, SafeAcquires DEF Acquire
<1>4. CASE Publish(d)
  <2>1. Moves(d) /\ Held(d)'
    BY <1>4, <1>t, <1>h, <1>e DEF Publish, SaveEvidence, Goto, Moves, Held, history
  <2> QED
    BY <2>1, <1>4, <1>t, <1>h, SafeSaves DEF Publish, Held
<1>5. CASE Quarantine(d)
  <2>1. Moves(d) /\ Held(d)'
    BY <1>5, <1>t, <1>h, <1>e DEF Quarantine, SaveEvidence, Goto, Moves, Held, history
  <2> QED
    BY <2>1, <1>5, <1>t, <1>h, SafeSaves DEF Quarantine, Held
<1>6. CASE AddReviewItem(d)
  <2>1. Moves(d) /\ Held(d)'
    BY <1>6, <1>t, <1>h DEF AddReviewItem, Goto, Moves, Held, history
  <2> QED
    BY <2>1, <1>6, <1>t, SafeMoves DEF AddReviewItem
<1>7. CASE SaveBlocked(d)
  <2>1. Moves(d) /\ Held(d)'
    BY <1>7, <1>t, <1>h, <1>l, <1>r DEF SaveBlocked, Goto, Moves, Held, history
  <2> QED
    BY <2>1, <1>7, <1>t, SafeMoves DEF SaveBlocked
<1>8. CASE Finalize(d)
  <2>1. Moves(d) /\ Held(d)'
    BY <1>8, <1>t, <1>h, <1>e DEF Finalize, SaveEvidence, Goto, Moves, Held, history
  <2> QED
    BY <2>1, <1>8, <1>t, <1>h, SafeSaves DEF Finalize, Held
<1>9. CASE CompleteTask(d)
  <2>1. Moves(d) /\ Held(d)'
    BY <1>9, <1>t, <1>h DEF CompleteTask, Goto, Moves, Held, history
  <2> QED
    BY <2>1, <1>9, <1>t, SafeMoves DEF CompleteTask
<1>10. CASE AppendAnswer(d)
  <2>1. Moves(d) /\ Held(d)'
    BY <1>10, <1>t, <1>h, <1>l, <1>r, ResearchAssumption DEF AppendAnswer, Goto, Moves, Held,
       history, Dispatchers
  <2> QED
    BY <2>1, <1>10, <1>t, SafeAnswers DEF AppendAnswer
<1> QED
  BY <1>1, <1>2, <1>3, <1>4, <1>5, <1>6, <1>7, <1>8, <1>9, <1>10 DEF Dispatch

\* The steps of a reviewer keep the invariant.
LEMMA SafeReview ==
    ASSUME IInv, NEW v \in Reviewers, Review(v)
    PROVE  Safe'
<1>t. TypeOK /\ EvidenceHeld /\ v \in Actors
  BY DEF IInv, Types, Actors
<1>e. on[v] \in Evidence /\ evidence \in [Evidence -> {"none", "published", "needs_review", "discarded"}]
  BY <1>t, Places DEF TypeOK
<1>l. Leave(v) \/ End(v) => Rests(v)
  BY <1>t, LeaveRests
<1>r. ASSUME Rests(v), released \subseteq released'
      PROVE  Moves(v) /\ Held(v)'
  BY <1>r DEF Rests, Moves, Held
<1>h. Held(v) /\ pc \in [Actors -> Labels] /\ injected \subseteq Evidence
  BY <1>t DEF EvidenceHeld, TypeOK, Labels
<1>1. ASSUME NEW e \in Evidence, NEW action \in {"release", "discard"}, OpenReview(v, e, action)
      PROVE  Safe'
  <2>1. Moves(v) /\ Held(v)'
    BY <1>1, <1>t, <1>h DEF OpenReview, Goto, Moves, Held, history, TypeOK
  <2> QED
    BY <2>1, <1>1, <1>t, SafeMoves DEF OpenReview, board
<1>2. ASSUME NEW e \in Evidence, NEW s \in {"open", "snoozed"}, ReadForPatch(v, e, s)
      PROVE  Safe'
  <2>1. Moves(v) /\ Held(v)'
    BY <1>2, <1>t, <1>h DEF ReadForPatch, Enter, Goto, Moves, Held, TypeOK
  <2> QED
    BY <2>1, <1>2, <1>t, SafeMoves DEF ReadForPatch, board
<1>3. CASE Judge(v)
  <2>1. Moves(v) /\ Held(v)'
    <3>1. CASE End(v)
      BY <3>1, <1>3, <1>l, <1>r DEF Judge, history
    <3>2. CASE ~End(v)
      BY <3>2, <1>3, <1>t, <1>h DEF Judge, Enter, Goto, Moves, Held, board
    <3> QED
      BY <3>1, <3>2
  <2> QED
    BY <2>1, <1>3, <1>t, SafeMoves DEF Judge, board
<1>4. CASE Discard(v)
  <2>1. Moves(v) /\ Held(v)'
    BY <1>4, <1>t, <1>h, <1>e DEF Discard, SaveEvidence, Goto, Moves, Held, history
  <2> QED
    BY <2>1, <1>4, <1>t, <1>h, SafeSaves DEF Discard, Held
<1>5. CASE FailTask(v)
  <2>1. Moves(v) /\ Held(v)'
    BY <1>5, <1>t, <1>h DEF FailTask, Goto, Moves, Held, history
  <2> QED
    BY <2>1, <1>5, <1>t, SafeMoves DEF FailTask
<1>6. CASE CloseReview(v)
  <2>1. Moves(v) /\ Held(v)'
    BY <1>6, <1>t, <1>h, <1>l, <1>r DEF CloseReview, Goto, Moves, Held, history
  <2> QED
    BY <2>1, <1>6, <1>t, SafeMoves DEF CloseReview
<1>7. CASE SavePatch(v)
  <2>1. Moves(v) /\ Held(v)'
    BY <1>7, <1>t, <1>h, <1>l, <1>r DEF SavePatch, Goto, Moves, Held, history
  <2> QED
    BY <2>1, <1>7, <1>t, SafeMoves DEF SavePatch
<1>8. CASE Finalize(v)
  <2>1. Moves(v) /\ Held(v)'
    BY <1>8, <1>t, <1>h, <1>e DEF Finalize, SaveEvidence, Goto, Moves, Held, history
  <2> QED
    BY <2>1, <1>8, <1>t, <1>h, SafeSaves DEF Finalize, Held
<1>9. CASE CompleteTask(v)
  <2>1. Moves(v) /\ Held(v)'
    BY <1>9, <1>t, <1>h DEF CompleteTask, Goto, Moves, Held, history
  <2> QED
    BY <2>1, <1>9, <1>t, SafeMoves DEF CompleteTask
<1>10. CASE AppendAnswer(v)
  <2>1. Moves(v) /\ Held(v)'
    BY <1>10, <1>t, <1>h, ResearchAssumption DEF AppendAnswer, Goto, Moves, Held, history,
       Dispatchers
  <2> QED
    BY <2>1, <1>10, <1>t, SafeAnswers DEF AppendAnswer
<1> QED
  BY <1>1, <1>2, <1>3, <1>4, <1>5, <1>6, <1>7, <1>8, <1>9, <1>10 DEF Review

\* So do the other steps.
LEMMA SafeOther ==
    ASSUME IInv,
           \/ \E r \in Requests : Ask(r)
           \/ \E w \in Workers : StartDrain(w)
           \/ \E c \in Callers, r \in Requests : StartDispatch(c, r)
           \/ \E a \in Actors : Abort(a)
           \/ Restart
           \/ UNCHANGED vars
    PROVE  Safe'
<1>t. TypeOK /\ EvidenceHeld
  BY DEF IInv, Types
<1>1. CASE (\E r \in Requests : Ask(r)) \/ UNCHANGED vars
  <2>1. UNCHANGED <<pc, on, evidence, injected, answers, released>>
    BY <1>1 DEF Ask, vars, board, history
  <2> QED
    BY <2>1 DEF IInv, Safe, EvidenceHeld, Held, CitedIsSaved, QuarantineHolds
<1>2. ASSUME NEW d \in Dispatchers, NEW r \in Requests, pc' = [pc EXCEPT ![d] = "scan"],
             on' = [on EXCEPT ![d] = <<d, r>>], UNCHANGED <<board, copy, history, faults>>
      PROVE  Safe'
  <2>1. d \in Actors
    BY DEF Actors
  <2>2. Moves(d) /\ Held(d)'
    BY <1>2, <1>t, <2>1 DEF Moves, Held, history, TypeOK
  <2> QED
    BY <2>1, <2>2, <1>2, SafeMoves DEF board
<1>3. ASSUME NEW w \in Workers, StartDrain(w)
      PROVE  Safe'
  <2>1. w \in Dispatchers /\ 1 \in Requests
    BY ResearchAssumption DEF Dispatchers, Requests
  <2> QED
    BY <2>1, <1>2, <1>3 DEF StartDrain, Goto
<1>4. ASSUME NEW c \in Callers, NEW r \in Requests, StartDispatch(c, r)
      PROVE  Safe'
  BY <1>2, <1>4 DEF StartDispatch, Goto, Dispatchers
<1>5. ASSUME NEW a \in Actors, Abort(a)
      PROVE  Safe'
  <2>1. Rests(a)
    BY <1>5, <1>t, LeaveRests DEF Abort
  <2>2. Moves(a) /\ Held(a)'
    BY <1>5, <2>1 DEF Rests, Moves, Held, Abort, history
  <2> QED
    BY <2>2, <1>5, SafeMoves DEF Abort, board
<1>6. CASE Restart
  <2>1. EvidenceHeld'
    BY <1>6 DEF Restart, EvidenceHeld, Held
  <2> QED
    BY <2>1, <1>6 DEF Restart, board, history, IInv, Safe, CitedIsSaved, QuarantineHolds
<1> QED
  BY <1>1, <1>3, <1>4, <1>5, <1>6

---------------------------------------------------------------------------
(* The theorems.                                                           *)

\* The strengthened invariant is inductive.
THEOREM Invariance == Spec => []IInv
<1>1. Init => IInv
  <2>1. ASSUME Init
        PROVE  CopyHeld /\ EvidenceHeld /\ CitedIsSaved /\ QuarantineHolds
    BY <2>1 DEF Init, CopyHeld, EvidenceHeld, Held, CitedIsSaved, QuarantineHolds
  <2> QED
    BY <2>1, InitTypes DEF IInv, Types
<1>2. IInv /\ [Next]_vars => IInv'
  <2> SUFFICES ASSUME IInv, [Next]_vars
               PROVE  IInv'
    OBVIOUS
  <2>1. Types'
    BY TypeStep DEF IInv
  <2>2. Safe'
    BY SafeDispatch, SafeReview, SafeOther DEF Next
  <2> QED
    BY <2>1, <2>2 DEF IInv, Safe
<1> QED
  BY <1>1, <1>2, PTL DEF Spec

\* Type correctness of the dispatcher, for every number of requests, handlers and faults.
THEOREM TypeCorrect == Spec => []TypeOK
<1>1. IInv => TypeOK
  BY DEF IInv, Types
<1> QED
  BY <1>1, Invariance, PTL

\* Quarantined evidence is neither published nor cited before a reviewer released it,
\* for every number of requests, drains, callers, reviewers, exceptions and restarts.
THEOREM QuarantineHeld == Spec => []QuarantineHolds
<1>1. IInv => QuarantineHolds
  BY DEF IInv
<1> QED
  BY <1>1, Invariance, PTL

---------------------------------------------------------------------------
(* One handler at a time on a request.                                     *)

AtWork(a, r) == pc[a] \in Working /\ Request(a) = r
Kept(s) == s \in {"open", "snoozed"}

\* A task that a dispatcher saw waiting is RUNNING no more, nor is a copy of it.
Asked(r) ==
    \A d \in Dispatchers :
        /\ pc[d] \in {"check"} \cup Working /\ Request(d) = r => task[r] # "running"
        /\ evidence[<<d, r>>] # "none" => task[r] # "running"
        /\ pc[d] \in {"quarantine", "review_item", "save_blocked"} /\ Request(d) = r =>
              copy[d] # "running"

\* What is on the board at the label of the handler that is at work on the request.
Stage(a, r) ==
    /\ pc[a] \in {"load", "publish", "quarantine"} => ~Fulfilled(r)
    /\ pc[a] \in {"quarantine", "review_item", "save_blocked"} => copy[a] = "waiting"
    /\ pc[a] \in {"review_item", "save_blocked", "discard"} => evidence[on[a]] = "needs_review"
    /\ pc[a] = "finalize" => /\ evidence[on[a]] \in {"needs_review", "published"}
                             /\ a \in Dispatchers => evidence[on[a]] = "published"
    /\ pc[a] \in {"complete", "answer"} => evidence[on[a]] = "published"
    /\ pc[a] = "fail_task" => evidence[on[a]] = "discarded"
    /\ pc[a] = "close" => evidence[on[a]] \in {"published", "discarded"}
    /\ pc[a] \notin {"close", "patch"} => answers[r] = <<>>

OneAtWork(r) == \A a, b \in Actors : AtWork(a, r) /\ AtWork(b, r) => a = b

OneEvidence(r) ==
    \A d, e \in Dispatchers :
        evidence[<<d, r>>] # "none" /\ evidence[<<e, r>>] # "none" => d = e

\* Task, answer and evidence.
Agree(r) ==
    /\ task[r] = "completed" => \E d \in Dispatchers : evidence[<<d, r>>] = "published"
    /\ task[r] = "failed" => \E d \in Dispatchers : evidence[<<d, r>>] = "discarded"
    /\ Len(answers[r]) <= 1
    /\ answers[r] # <<>> => \E d \in Dispatchers : evidence[<<d, r>>] = "published"

\* Without a failure, what is not yet as it should be has a handler that will see to it.
At(a, e, ls) == pc[a] \in ls /\ on[a] = e

SeenTo(r, d) ==
    LET e == <<d, r>>
    IN  /\ evidence[e] = "needs_review" => Kept(review[e]) \/ At(d, e, {"review_item"})
        /\ Kept(review[e]) =>
              \/ evidence[e] = "needs_review"
              \/ \E v \in Reviewers : At(v, e, {"complete", "answer", "fail_task", "close"})
        /\ task[r] = "waiting" /\ evidence[e] = "published" =>
              \E a \in Actors : At(a, e, {"finalize", "complete"})
        /\ task[r] = "waiting" /\ evidence[e] = "discarded" =>
              \E v \in Reviewers : At(v, e, {"fail_task"})
        /\ \A v \in Reviewers : At(v, e, {"patch"}) =>
              evidence[e] = "needs_review" /\ Kept(review[e]) /\ Kept(copy[v])

SerialFits(r) ==
    /\ OneAtWork(r) /\ OneEvidence(r) /\ Agree(r)
    /\ \A a \in Actors : AtWork(a, r) => Stage(a, r)
    /\ faults = 0 => \A d \in Dispatchers : SeenTo(r, d)

Serially ==
    /\ \A r \in Requests : Asked(r)
    /\ \A r \in Requests \ raced : SerialFits(r)

\* One actor moves, and only one request with it.
Alone(a, r) ==
    /\ \A b \in Actors \ {a} : pc'[b] = pc[b] /\ on'[b] = on[b] /\ copy'[b] = copy[b]
    /\ \A q \in Requests \ {r} :
          /\ task'[q] = task[q] /\ answers'[q] = answers[q]
          /\ \A d \in Dispatchers : /\ evidence'[<<d, q>>] = evidence[<<d, q>>]
                                    /\ review'[<<d, q>>] = review[<<d, q>>]
    /\ pc[a] \in Working => Request(a) = r
    /\ pc'[a] \in Working => on'[a][2] = r
    /\ raced \subseteq raced'
    /\ faults' = 0 => faults = 0

\* The other requests keep what holds of them.
LEMMA ElsewhereKeeps ==
    ASSUME TypeOK, TypeOK', NEW a \in Actors, NEW r, Alone(a, r),
           NEW q \in Requests \ {r}, SerialFits(q)
    PROVE  SerialFits(q)'
<1>1. \A b \in Actors : AtWork(b, q)' <=> AtWork(b, q)
  BY DEF Alone, AtWork, Request
<1>2. \A b \in Actors : AtWork(b, q) => b # a
  BY DEF Alone, AtWork
<1>3. \A b \in Actors : AtWork(b, q) => on[b] \in Evidence /\ evidence'[on[b]] = evidence[on[b]]
  <2> SUFFICES ASSUME NEW b \in Actors, AtWork(b, q)
               PROVE  on[b] \in Evidence /\ evidence'[on[b]] = evidence[on[b]]
    OBVIOUS
  <2>1. on[b] \in Evidence /\ on[b][2] = q
    BY DEF AtWork, Request, TypeOK
  <2>2. PICK d \in Dispatchers : on[b] = <<d, q>>
    BY <2>1 DEF Evidence
  <2> QED
    BY <2>1, <2>2 DEF Alone
<1>4. OneAtWork(q)'
  BY <1>1 DEF SerialFits, OneAtWork
<1>5. OneEvidence(q)' /\ Agree(q)'
  BY DEF SerialFits, OneEvidence, Agree, Alone
<1>6. \A b \in Actors : AtWork(b, q)' => Stage(b, q)'
  BY <1>1, <1>2, <1>3 DEF SerialFits, Stage, Fulfilled, Alone
<1>7. ASSUME faults' = 0, NEW d \in Dispatchers PROVE SeenTo(q, d)'
  <2>1. SeenTo(q, d)
    BY <1>7 DEF SerialFits, Alone
  <2>2. \A b \in Actors, ls \in SUBSET Working : At(b, <<d, q>>, ls)' <=> At(b, <<d, q>>, ls)
    BY DEF At, Alone, Request
  <2>3. \A v \in Reviewers : At(v, <<d, q>>, {"patch"}) => copy'[v] = copy[v]
    BY DEF At, Alone, Request, Working, Actors
  <2>4. d \in Actors /\ Reviewers \subseteq Actors
    BY DEF Actors
  <2>5. {"review_item"} \subseteq Working /\ {"complete", "answer", "fail_task", "close"} \subseteq Working
        /\ {"finalize", "complete"} \subseteq Working /\ {"fail_task"} \subseteq Working /\ {"patch"} \subseteq Working
    BY DEF Working
  <2>6. /\ At(d, <<d, q>>, {"review_item"})' <=> At(d, <<d, q>>, {"review_item"})
        /\ \A v \in Actors : /\ At(v, <<d, q>>, {"complete", "answer", "fail_task", "close"})' <=>
                                   At(v, <<d, q>>, {"complete", "answer", "fail_task", "close"})
                             /\ At(v, <<d, q>>, {"finalize", "complete"})' <=>
                                   At(v, <<d, q>>, {"finalize", "complete"})
                             /\ At(v, <<d, q>>, {"fail_task"})' <=> At(v, <<d, q>>, {"fail_task"})
                             /\ At(v, <<d, q>>, {"patch"})' <=> At(v, <<d, q>>, {"patch"})
    BY <2>2, <2>4, <2>5
  <2> QED
    BY <2>1, <2>3, <2>4, <2>6 DEF SeenTo, Kept, Alone
<1> QED
  BY <1>4, <1>5, <1>6, <1>7 DEF SerialFits

LEMMA AloneKeeps ==
    ASSUME TypeOK, TypeOK', NEW a \in Actors, NEW r, Alone(a, r),
           \A q \in Requests \ raced : SerialFits(q),
           r \in Requests \ raced' => SerialFits(r)'
    PROVE  \A q \in Requests \ raced' : SerialFits(q)'
<1> SUFFICES ASSUME NEW q \in Requests \ raced' PROVE SerialFits(q)'
  OBVIOUS
<1>1. CASE q = r
  BY <1>1
<1>2. CASE q # r
  <2>1. q \notin raced
    BY DEF Alone
  <2> QED
    BY <1>2, <2>1, ElsewhereKeeps
<1> QED
  BY <1>1, <1>2

\* The same for the handler that is the only one at work on the request.
Sole(a, r) == \A b \in Actors \ {a} : ~AtWork(b, r)

SeenBy(a, r, d) ==
    LET e == <<d, r>>
    IN  /\ evidence[e] = "needs_review" => Kept(review[e]) \/ (d = a /\ At(a, e, {"review_item"}))
        /\ Kept(review[e]) =>
              \/ evidence[e] = "needs_review"
              \/ a \in Reviewers /\ At(a, e, {"complete", "answer", "fail_task", "close"})
        /\ task[r] = "waiting" /\ evidence[e] = "published" => At(a, e, {"finalize", "complete"})
        /\ task[r] = "waiting" /\ evidence[e] = "discarded" =>
              a \in Reviewers /\ At(a, e, {"fail_task"})
        /\ a \in Reviewers /\ At(a, e, {"patch"}) =>
              evidence[e] = "needs_review" /\ Kept(review[e]) /\ Kept(copy[a])

LEMMA SoleSees ==
    ASSUME NEW a \in Actors, NEW r, Sole(a, r), NEW d \in Dispatchers, SeenTo(r, d)
    PROVE  SeenBy(a, r, d)
<1>1. \A b \in Actors : \A ls \in SUBSET Working : At(b, <<d, r>>, ls) => b = a
  BY DEF Sole, At, AtWork, Request
<1>2. {"review_item"} \in SUBSET Working /\ {"complete", "answer", "fail_task", "close"} \in SUBSET Working
      /\ {"finalize", "complete"} \in SUBSET Working /\ {"fail_task"} \in SUBSET Working
      /\ {"patch"} \in SUBSET Working
  BY DEF Working
<1>3. d \in Actors /\ Reviewers \subseteq Actors
  BY DEF Actors
<1> QED
  BY <1>1, <1>2, <1>3 DEF SeenTo, SeenBy

LEMMA SeenBySole ==
    ASSUME NEW a \in Actors, NEW r, Sole(a, r)', NEW d \in Dispatchers, SeenBy(a, r, d)'
    PROVE  SeenTo(r, d)'
<1>1. \A b \in Actors : At(b, <<d, r>>, {"patch"})' => b = a
  BY DEF Sole, At, AtWork, Request, Working
<1>2. d \in Actors /\ Reviewers \subseteq Actors
  BY DEF Actors
<1> QED
  BY <1>1, <1>2 DEF SeenTo, SeenBy

\* At work on a request that is not raced for, a handler is the only one.
LEMMA OneWorks ==
    ASSUME NEW a \in Actors, NEW r, SerialFits(r), AtWork(a, r)
    PROVE  Sole(a, r) /\ Stage(a, r)
  BY DEF SerialFits, OneAtWork, Sole

LEMMA OneSees ==
    ASSUME NEW a \in Actors, NEW r, SerialFits(r), Sole(a, r), faults = 0, NEW d \in Dispatchers
    PROVE  SeenBy(a, r, d)
  BY SoleSees DEF SerialFits

LEMMA OwnKeeps ==
    ASSUME NEW a \in Actors, NEW r, Alone(a, r), Sole(a, r),
           OneEvidence(r)', Agree(r)', AtWork(a, r)' => Stage(a, r)',
           faults' = 0 => \A d \in Dispatchers : SeenBy(a, r, d)'
    PROVE  SerialFits(r)'
<1>1. Sole(a, r)'
  BY DEF Alone, Sole, AtWork, Request
<1>2. OneAtWork(r)' /\ \A b \in Actors : AtWork(b, r)' => Stage(b, r)'
  BY <1>1 DEF Sole, OneAtWork
<1>3. faults' = 0 => \A d \in Dispatchers : SeenTo(r, d)'
  BY <1>1, SeenBySole
<1> QED
  BY <1>2, <1>3 DEF SerialFits

\* What keeps a task from being waited for by nobody.
LEMMA AskedKeeps ==
    ASSUME TypeOK, TypeOK', \A r \in Requests : Asked(r), NEW a \in Actors,
           \A b \in Actors \ {a} : pc'[b] = pc[b] /\ on'[b] = on[b] /\ copy'[b] = copy[b],
           \A r \in Requests : task[r] # "running" => task'[r] # "running",
           a \in Dispatchers /\ pc'[a] \in {"check"} \cup Working => task[on'[a][2]] # "running",
           a \in Dispatchers /\ pc'[a] \in {"quarantine", "review_item", "save_blocked"} =>
               copy'[a] # "running",
           \A e \in Evidence : evidence'[e] # "none" =>
               evidence[e] # "none" \/ task[e[2]] # "running"
    PROVE  \A r \in Requests : Asked(r)'
<1> SUFFICES ASSUME NEW r \in Requests, NEW d \in Dispatchers
             PROVE  /\ pc'[d] \in {"check"} \cup Working /\ Request(d)' = r => task'[r] # "running"
                    /\ evidence'[<<d, r>>] # "none" => task'[r] # "running"
                    /\ pc'[d] \in {"quarantine", "review_item", "save_blocked"} /\ Request(d)' = r =>
                          copy'[d] # "running"
  BY DEF Asked
<1>1. d \in Actors /\ <<d, r>> \in Evidence /\ <<d, r>>[2] = r
  BY DEF Actors, Evidence
<1>2. evidence'[<<d, r>>] # "none" => task'[r] # "running"
  BY <1>1 DEF Asked
<1>3. CASE d = a
  BY <1>1, <1>2, <1>3 DEF Request
<1>4. CASE d # a
  BY <1>1, <1>2, <1>4 DEF Request, Asked
<1> QED
  BY <1>3, <1>4

\* A dispatcher works on its own evidence.
LEMMA DispatcherAt ==
    ASSUME IInv, IInv', NEW d \in Dispatchers
    PROVE  /\ TypeOK /\ TypeOK' /\ d \in Actors /\ d \notin Reviewers
           /\ \E r \in Requests : on[d] = <<d, r>> /\ Request(d) = r /\ on[d] \in Evidence
  BY Places, ResearchAssumption DEF IInv, Types, Actors

LEMMA ReviewerAt ==
    ASSUME IInv, IInv', NEW v \in Reviewers
    PROVE  /\ TypeOK /\ TypeOK' /\ v \in Actors /\ v \notin Dispatchers /\ v \notin Workers
           /\ \E d \in Dispatchers, r \in Requests :
                 on[v] = <<d, r>> /\ Request(v) = r /\ on[v] \in Evidence
<1>1. TypeOK /\ TypeOK' /\ v \in Actors /\ v \notin Dispatchers /\ v \notin Workers
  BY ResearchAssumption DEF IInv, Types, Actors, Dispatchers
<1>2. Request(v) \in Requests /\ on[v] \in Evidence
  BY <1>1, Places
<1> QED
  BY <1>1, <1>2 DEF Evidence, Request

---------------------------------------------------------------------------
(* The dispatcher and the end of a request's work.                         *)

LEMMA PublishSerial ==
    ASSUME IInv, IInv', Serially, NEW d \in Dispatchers, Publish(d)
    PROVE  Serially'
<1>0. PICK r \in Requests : /\ TypeOK /\ TypeOK' /\ d \in Actors /\ d \notin Reviewers
                           /\ on[d] = <<d, r>> /\ Request(d) = r /\ on[d] \in Evidence
  BY DispatcherAt
<1>1. /\ pc[d] = "publish" /\ pc' = [pc EXCEPT ![d] = "finalize"]
      /\ evidence' = [evidence EXCEPT ![<<d, r>>] = "published"]
      /\ UNCHANGED <<task, review, answers, on, copy, raced, faults>>
  BY <1>0 DEF Publish, SaveEvidence, Goto, history
<1>2. Alone(d, r)
  BY <1>0, <1>1 DEF Alone, TypeOK, Request, Working
<1>3. \A q \in Requests : Asked(q)'
  <2>1. task[r] # "running"
    BY <1>0, <1>1 DEF Serially, Asked, Working
  <2>2. \A e \in Evidence : evidence'[e] # "none" => evidence[e] # "none" \/ e[2] = r
    BY <1>0, <1>1, <2>1 DEF TypeOK
  <2>3. pc'[d] = "finalize" /\ on'[d][2] = r
    BY <1>0, <1>1 DEF TypeOK
  <2> QED
    BY <1>0, <1>1, <1>2, <2>1, <2>2, <2>3, AskedKeeps DEF Serially, Alone
<1>4. ASSUME r \notin raced PROVE SerialFits(r)'
  <2>0. SerialFits(r) /\ AtWork(d, r) /\ Sole(d, r) /\ Stage(d, r)
    BY <1>0, <1>1, <1>4, OneWorks DEF Serially, AtWork, Working
  <2>1. ~Fulfilled(r) /\ answers[r] = <<>>
    BY <1>1, <2>0 DEF Stage
  <2>2. \A e \in Dispatchers : /\ evidence[<<e, r>>] = "none"
                               /\ evidence'[<<e, r>>] = IF e = d THEN "published" ELSE "none"
    BY <1>0, <1>1, <2>1 DEF TypeOK, Fulfilled, Evidence
  <2>8. evidence'[on'[d]] = "published"
    BY <1>0, <1>1, <2>2
  <2>3. OneEvidence(r)' /\ Agree(r)'
    BY <1>1, <2>0, <2>2 DEF OneEvidence, Agree, SerialFits, TypeOK
  <2>4. AtWork(d, r)' => Stage(d, r)'
    BY <1>0, <1>1, <2>1, <2>2, <2>8 DEF Stage, TypeOK, Fulfilled
  <2>5. ASSUME faults' = 0, NEW e \in Dispatchers PROVE SeenBy(d, r, e)'
    <3>1. SeenBy(d, r, e)
      BY <1>0, <1>1, <2>0, <2>5, OneSees
    <3>2. \A ls : At(d, <<e, r>>, ls) <=> e = d /\ "publish" \in ls
      BY <1>0, <1>1 DEF At, TypeOK
    <3>3. \A ls : At(d, <<e, r>>, ls)' <=> e = d /\ "finalize" \in ls
      BY <1>0, <1>1 DEF At, TypeOK
    <3> QED
      BY <1>0, <1>1, <2>1, <2>2, <3>1, <3>2, <3>3 DEF SeenBy
  <2> QED
    BY <1>0, <1>2, <2>0, <2>3, <2>4, <2>5, OwnKeeps
<1> QED
  BY <1>0, <1>1, <1>2, <1>3, <1>4, AloneKeeps DEF Serially

LEMMA QuarantineSerial ==
    ASSUME IInv, IInv', Serially, NEW d \in Dispatchers, Quarantine(d)
    PROVE  Serially'
<1>0. PICK r \in Requests : /\ TypeOK /\ TypeOK' /\ d \in Actors /\ d \notin Reviewers
                           /\ on[d] = <<d, r>> /\ Request(d) = r /\ on[d] \in Evidence
  BY DispatcherAt
<1>1. /\ pc[d] = "quarantine" /\ pc' = [pc EXCEPT ![d] = "review_item"]
      /\ evidence' = [evidence EXCEPT ![<<d, r>>] = "needs_review"]
      /\ UNCHANGED <<task, review, answers, on, copy, raced, faults>>
  BY <1>0 DEF Quarantine, SaveEvidence, Goto, history
<1>2. Alone(d, r)
  BY <1>0, <1>1 DEF Alone, TypeOK, Request, Working
<1>3. \A q \in Requests : Asked(q)'
  <2>1. task[r] # "running"
    BY <1>0, <1>1 DEF Serially, Asked, Working
  <2>2. \A e \in Evidence : evidence'[e] # "none" => evidence[e] # "none" \/ e[2] = r
    BY <1>0, <1>1, <2>1 DEF TypeOK
  <2>3. pc'[d] = "review_item" /\ on'[d][2] = r
    BY <1>0, <1>1 DEF TypeOK
  <2>4. copy[d] # "running"
    BY <1>0, <1>1 DEF Serially, Asked
  <2> QED
    BY <1>0, <1>1, <1>2, <2>1, <2>2, <2>3, <2>4, AskedKeeps DEF Serially, Alone
<1>4. ASSUME r \notin raced PROVE SerialFits(r)'
  <2>0. SerialFits(r) /\ AtWork(d, r) /\ Sole(d, r) /\ Stage(d, r)
    BY <1>0, <1>1, <1>4, OneWorks DEF Serially, AtWork, Working
  <2>1. ~Fulfilled(r) /\ answers[r] = <<>> /\ copy[d] = "waiting"
    BY <1>1, <2>0 DEF Stage
  <2>2. \A e \in Dispatchers : /\ evidence[<<e, r>>] = "none"
                               /\ evidence'[<<e, r>>] = IF e = d THEN "needs_review" ELSE "none"
    BY <1>0, <1>1, <2>1 DEF TypeOK, Fulfilled, Evidence
  <2>8. evidence'[on'[d]] = "needs_review"
    BY <1>0, <1>1, <2>2
  <2>3. OneEvidence(r)' /\ Agree(r)'
    BY <1>1, <2>0, <2>2 DEF OneEvidence, Agree, SerialFits, TypeOK
  <2>4. AtWork(d, r)' => Stage(d, r)'
    BY <1>0, <1>1, <2>1, <2>2, <2>8 DEF Stage, TypeOK, Fulfilled
  <2>5. ASSUME faults' = 0, NEW e \in Dispatchers PROVE SeenBy(d, r, e)'
    <3>1. SeenBy(d, r, e)
      BY <1>0, <1>1, <2>0, <2>5, OneSees
    <3>2. \A ls : At(d, <<e, r>>, ls) <=> e = d /\ "quarantine" \in ls
      BY <1>0, <1>1 DEF At, TypeOK
    <3>3. \A ls : At(d, <<e, r>>, ls)' <=> e = d /\ "review_item" \in ls
      BY <1>0, <1>1 DEF At, TypeOK
    <3> QED
      BY <1>0, <1>1, <2>1, <2>2, <3>1, <3>2, <3>3 DEF SeenBy
  <2> QED
    BY <1>0, <1>2, <2>0, <2>3, <2>4, <2>5, OwnKeeps
<1> QED
  BY <1>0, <1>1, <1>2, <1>3, <1>4, AloneKeeps DEF Serially

LEMMA AddReviewItemSerial ==
    ASSUME IInv, IInv', Serially, NEW d \in Dispatchers, AddReviewItem(d)
    PROVE  Serially'
<1>0. PICK r \in Requests : /\ TypeOK /\ TypeOK' /\ d \in Actors /\ d \notin Reviewers
                           /\ on[d] = <<d, r>> /\ Request(d) = r /\ on[d] \in Evidence
  BY DispatcherAt
<1>1. /\ pc[d] = "review_item" /\ pc' = [pc EXCEPT ![d] = "save_blocked"]
      /\ review' = [review EXCEPT ![<<d, r>>] = "open"]
      /\ UNCHANGED <<task, evidence, answers, on, copy, raced, faults>>
  BY <1>0 DEF AddReviewItem, Goto, history
<1>2. Alone(d, r)
  BY <1>0, <1>1 DEF Alone, TypeOK, Request, Working
<1>3. \A q \in Requests : Asked(q)'
  <2>1. task[r] # "running"
    BY <1>0, <1>1 DEF Serially, Asked, Working
  <2>2. \A e \in Evidence : evidence'[e] # "none" => evidence[e] # "none" \/ e[2] = r
    BY <1>0, <1>1, <2>1 DEF TypeOK
  <2>3. pc'[d] = "save_blocked" /\ on'[d][2] = r
    BY <1>0, <1>1 DEF TypeOK
  <2>4. copy[d] # "running"
    BY <1>0, <1>1 DEF Serially, Asked
  <2> QED
    BY <1>0, <1>1, <1>2, <2>1, <2>2, <2>3, <2>4, AskedKeeps DEF Serially, Alone
<1>4. ASSUME r \notin raced PROVE SerialFits(r)'
  <2>0. SerialFits(r) /\ AtWork(d, r) /\ Sole(d, r) /\ Stage(d, r)
    BY <1>0, <1>1, <1>4, OneWorks DEF Serially, AtWork, Working
  <2>1. /\ evidence[<<d, r>>] = "needs_review" /\ answers[r] = <<>> /\ copy[d] = "waiting"
    BY <1>0, <1>1, <2>0 DEF Stage
  <2>2. \A e \in Dispatchers : IF e = d THEN evidence'[<<e, r>>] = "needs_review"
                               ELSE evidence[<<e, r>>] = "none" /\ evidence'[<<e, r>>] = "none"
    <3>1. \A e \in Dispatchers \ {d} : evidence[<<e, r>>] = "none"
      BY <1>0, <2>0, <2>1 DEF SerialFits, OneEvidence
    <3>2. \A e \in Dispatchers : <<e, r>> \in Evidence /\ (<<e, r>> = <<d, r>> <=> e = d)
      BY <1>0 DEF Evidence
    <3> QED
      BY <1>0, <1>1, <2>1, <3>1, <3>2 DEF TypeOK
  <2>3. OneEvidence(r)' /\ Agree(r)'
    <3>1. Agree(r) /\ evidence'[<<d, r>>] = "needs_review" /\ d \in Dispatchers /\ OneEvidence(r)'
      BY <1>0, <2>0, <2>2 DEF SerialFits, OneEvidence
    <3> QED
      BY <1>0, <1>1, <2>1, <2>2, <3>1 DEF Agree, TypeOK
  <2>4. AtWork(d, r)' => Stage(d, r)'
    BY <1>0, <1>1, <2>0, <2>1, <2>2 DEF Stage, TypeOK
  <2>5. ASSUME faults' = 0, NEW e \in Dispatchers PROVE SeenBy(d, r, e)'
    <3>1. SeenBy(d, r, e)
      BY <1>0, <1>1, <2>0, <2>5, OneSees
    <3>2. \A ls : At(d, <<e, r>>, ls) <=> e = d /\ "review_item" \in ls
      BY <1>0, <1>1 DEF At, TypeOK
    <3>3. \A ls : At(d, <<e, r>>, ls)' <=> e = d /\ "save_blocked" \in ls
      BY <1>0, <1>1 DEF At, TypeOK
    <3>4. <<e, r>> \in Evidence /\ (<<e, r>> = <<d, r>> <=> e = d)
      BY <1>0 DEF Evidence
    <3>5. review'[<<e, r>>] = IF e = d THEN "open" ELSE review[<<e, r>>]
      BY <1>0, <1>1, <3>4 DEF TypeOK
    <3> QED
      BY <1>0, <1>1, <2>1, <2>2, <3>1, <3>2, <3>3, <3>5 DEF SeenBy, Kept
  <2> QED
    BY <1>0, <1>2, <2>0, <2>3, <2>4, <2>5, OwnKeeps
<1> QED
  BY <1>0, <1>1, <1>2, <1>3, <1>4, AloneKeeps DEF Serially

LEMMA SaveBlockedSerial ==
    ASSUME IInv, IInv', Serially, NEW d \in Dispatchers, SaveBlocked(d)
    PROVE  Serially'
<1>0. PICK r \in Requests : /\ TypeOK /\ TypeOK' /\ d \in Actors /\ d \notin Reviewers
                           /\ on[d] = <<d, r>> /\ Request(d) = r /\ on[d] \in Evidence
  BY DispatcherAt
<1>1. /\ pc[d] = "save_blocked"
      /\ pc'[d] \in {"idle", "scan"}
      /\ \A b \in Actors \ {d} : pc'[b] = pc[b] /\ on'[b] = on[b] /\ copy'[b] = copy[b]
      /\ task' = [task EXCEPT ![r] = copy[d]]
      /\ UNCHANGED <<evidence, review, answers, raced, faults>>
  BY <1>0, LeaveRests DEF SaveBlocked, SaveTask, history, Rests
<1>2. Alone(d, r)
  BY <1>0, <1>1 DEF Alone, TypeOK, Request, Working
<1>3. \A q \in Requests : Asked(q)'
  <2>1. copy[d] # "running"
    BY <1>0, <1>1 DEF Serially, Asked
  <2>2. \A q \in Requests : task[q] # "running" => task'[q] # "running"
    BY <1>0, <1>1, <2>1 DEF TypeOK
  <2> QED
    BY <1>0, <1>1, <1>2, <2>2, AskedKeeps DEF Serially, Alone, Working
<1>4. ASSUME r \notin raced PROVE SerialFits(r)'
  <2>0. SerialFits(r) /\ AtWork(d, r) /\ Sole(d, r) /\ Stage(d, r)
    BY <1>0, <1>1, <1>4, OneWorks DEF Serially, AtWork, Working
  <2>1. /\ evidence[<<d, r>>] = "needs_review" /\ answers[r] = <<>> /\ copy[d] = "waiting"
    BY <1>0, <1>1, <2>0 DEF Stage
  <2>2. \A e \in Dispatchers : IF e = d THEN evidence'[<<e, r>>] = "needs_review"
                               ELSE evidence[<<e, r>>] = "none" /\ evidence'[<<e, r>>] = "none"
    <3>1. \A e \in Dispatchers \ {d} : evidence[<<e, r>>] = "none"
      BY <1>0, <2>0, <2>1 DEF SerialFits, OneEvidence
    <3>2. \A e \in Dispatchers : <<e, r>> \in Evidence /\ (<<e, r>> = <<d, r>> <=> e = d)
      BY <1>0 DEF Evidence
    <3> QED
      BY <1>0, <1>1, <2>1, <3>1, <3>2 DEF TypeOK
  <2>3. OneEvidence(r)' /\ Agree(r)'
    <3>1. Agree(r) /\ evidence'[<<d, r>>] = "needs_review" /\ d \in Dispatchers /\ OneEvidence(r)'
      BY <1>0, <2>0, <2>2 DEF SerialFits, OneEvidence
    <3> QED
      BY <1>0, <1>1, <2>1, <2>2, <3>1 DEF Agree, TypeOK
  <2>4. AtWork(d, r)' => Stage(d, r)'
    BY <1>0, <1>1, <2>0, <2>1, <2>2 DEF Stage, TypeOK, AtWork, Working
  <2>5. ASSUME faults' = 0, NEW e \in Dispatchers PROVE SeenBy(d, r, e)'
    <3>1. SeenBy(d, r, e)
      BY <1>0, <1>1, <2>0, <2>5, OneSees
    <3>2. \A ls : At(d, <<e, r>>, ls) <=> e = d /\ "save_blocked" \in ls
      BY <1>0, <1>1 DEF At, TypeOK
    <3>3. \A ls : At(d, <<e, r>>, ls)' => pc'[d] \in ls \cap {"idle", "scan"}
      BY <1>1 DEF At
    <3> QED
      BY <1>0, <1>1, <2>1, <2>2, <3>1, <3>2, <3>3 DEF SeenBy
  <2> QED
    BY <1>0, <1>2, <2>0, <2>3, <2>4, <2>5, OwnKeeps
<1> QED
  BY <1>0, <1>1, <1>2, <1>3, <1>4, AloneKeeps DEF Serially

LEMMA FinalizeSerial ==
    ASSUME IInv, IInv', Serially, NEW a \in Actors, Finalize(a)
    PROVE  Serially'
<1>0. PICK h \in Dispatchers, r \in Requests :
         /\ TypeOK /\ TypeOK' /\ (a \in Dispatchers => h = a /\ a \notin Reviewers)
         /\ on[a] = <<h, r>> /\ Request(a) = r /\ on[a] \in Evidence
  BY DispatcherAt, ReviewerAt DEF Actors
<1>1. /\ pc[a] = "finalize" /\ pc' = [pc EXCEPT ![a] = "complete"]
      /\ evidence' = [evidence EXCEPT ![<<h, r>>] = "published"]
      /\ UNCHANGED <<task, review, answers, on, copy, raced, faults>>
  BY <1>0 DEF Finalize, SaveEvidence, Goto, history
<1>2. Alone(a, r)
  BY <1>0, <1>1 DEF Alone, TypeOK, Request, Working
<1>3. \A q \in Requests : Asked(q)'
  <2>1. task[r] # "running"
    BY <1>0, <1>1 DEF Serially, Asked, IInv, EvidenceHeld, Held
  <2>2. \A e \in Evidence : evidence'[e] # "none" => evidence[e] # "none" \/ e[2] = r
    BY <1>0, <1>1 DEF TypeOK
  <2>3. pc'[a] = "complete" /\ on'[a][2] = r
    BY <1>0, <1>1 DEF TypeOK
  <2> QED
    BY <1>0, <1>1, <1>2, <2>1, <2>2, <2>3, AskedKeeps DEF Serially, Alone
<1>4. ASSUME r \notin raced PROVE SerialFits(r)'
  <2>0. SerialFits(r) /\ AtWork(a, r) /\ Sole(a, r) /\ Stage(a, r)
    BY <1>0, <1>1, <1>4, OneWorks DEF Serially, AtWork, Working
  <2>1. /\ evidence[<<h, r>>] \in {"needs_review", "published"}
        /\ a \in Dispatchers => evidence[<<h, r>>] = "published"
        /\ answers[r] = <<>>
    BY <1>0, <1>1, <2>0 DEF Stage
  <2>2. \A e \in Dispatchers : IF e = h THEN evidence'[<<e, r>>] = "published"
                               ELSE evidence[<<e, r>>] = "none" /\ evidence'[<<e, r>>] = "none"
    <3>1. \A e \in Dispatchers \ {h} : evidence[<<e, r>>] = "none"
      BY <1>0, <2>0, <2>1 DEF SerialFits, OneEvidence
    <3>2. \A e \in Dispatchers : <<e, r>> \in Evidence /\ (<<e, r>> = <<h, r>> <=> e = h)
      BY <1>0 DEF Evidence
    <3> QED
      BY <1>0, <1>1, <2>1, <3>1, <3>2 DEF TypeOK
  <2>3. OneEvidence(r)' /\ Agree(r)'
    <3>1. Agree(r) /\ evidence'[<<h, r>>] = "published" /\ h \in Dispatchers /\ OneEvidence(r)'
      BY <1>0, <2>0, <2>2 DEF SerialFits, OneEvidence
    <3> QED
      BY <1>0, <1>1, <2>1, <2>2, <3>1 DEF Agree, TypeOK
  <2>4. AtWork(a, r)' => Stage(a, r)'
    BY <1>0, <1>1, <2>0, <2>1, <2>2 DEF Stage, TypeOK
  <2>5. ASSUME faults' = 0, NEW e \in Dispatchers PROVE SeenBy(a, r, e)'
    <3>1. SeenBy(a, r, e)
      BY <1>0, <1>1, <2>0, <2>5, OneSees
    <3>2. \A ls : At(a, <<e, r>>, ls) <=> e = h /\ "finalize" \in ls
      BY <1>0, <1>1 DEF At, TypeOK
    <3>3. \A ls : At(a, <<e, r>>, ls)' <=> e = h /\ "complete" \in ls
      BY <1>0, <1>1 DEF At, TypeOK
    <3> QED
      BY <1>0, <1>1, <2>1, <2>2, <3>1, <3>2, <3>3 DEF SeenBy, Actors
  <2> QED
    BY <1>0, <1>2, <2>0, <2>3, <2>4, <2>5, OwnKeeps
<1> QED
  BY <1>0, <1>1, <1>2, <1>3, <1>4, AloneKeeps DEF Serially

LEMMA CompleteTaskSerial ==
    ASSUME IInv, IInv', Serially, NEW a \in Actors, CompleteTask(a)
    PROVE  Serially'
<1>0. PICK h \in Dispatchers, r \in Requests :
         /\ TypeOK /\ TypeOK' /\ (a \in Dispatchers => h = a /\ a \notin Reviewers)
         /\ on[a] = <<h, r>> /\ Request(a) = r /\ on[a] \in Evidence
  BY DispatcherAt, ReviewerAt DEF Actors
<1>1. /\ pc[a] = "complete" /\ pc' = [pc EXCEPT ![a] = "answer"]
      /\ task' = [task EXCEPT ![r] = "completed"]
      /\ UNCHANGED <<evidence, review, answers, on, copy, raced, faults>>
  BY <1>0 DEF CompleteTask, SaveTask, Goto, history
<1>2. Alone(a, r)
  BY <1>0, <1>1 DEF Alone, TypeOK, Request, Working
<1>3. \A q \in Requests : Asked(q)'
  <2>1. \A q \in Requests : task[q] # "running" => task'[q] # "running"
    BY <1>0, <1>1 DEF TypeOK
  <2>2. a \in Dispatchers => task[r] # "running" /\ pc'[a] = "answer" /\ on'[a][2] = r
    BY <1>0, <1>1 DEF TypeOK, Serially, Asked, Working
  <2> QED
    BY <1>0, <1>1, <1>2, <2>1, <2>2, AskedKeeps DEF Serially, Alone
<1>4. ASSUME r \notin raced PROVE SerialFits(r)'
  <2>0. SerialFits(r) /\ AtWork(a, r) /\ Sole(a, r) /\ Stage(a, r)
    BY <1>0, <1>1, <1>4, OneWorks DEF Serially, AtWork, Working
  <2>1. /\ evidence[<<h, r>>] = "published" /\ answers[r] = <<>>
    BY <1>0, <1>1, <2>0 DEF Stage
  <2>2. \A e \in Dispatchers : IF e = h THEN evidence'[<<e, r>>] = "published"
                               ELSE evidence[<<e, r>>] = "none" /\ evidence'[<<e, r>>] = "none"
    <3>1. \A e \in Dispatchers \ {h} : evidence[<<e, r>>] = "none"
      BY <1>0, <2>0, <2>1 DEF SerialFits, OneEvidence
    <3>2. \A e \in Dispatchers : <<e, r>> \in Evidence /\ (<<e, r>> = <<h, r>> <=> e = h)
      BY <1>0 DEF Evidence
    <3> QED
      BY <1>0, <1>1, <2>1, <3>1, <3>2 DEF TypeOK
  <2>3. OneEvidence(r)' /\ Agree(r)'
    <3>1. Agree(r) /\ evidence'[<<h, r>>] = "published" /\ h \in Dispatchers /\ OneEvidence(r)'
      BY <1>0, <2>0, <2>2 DEF SerialFits, OneEvidence
    <3> QED
      BY <1>0, <1>1, <2>1, <2>2, <3>1 DEF Agree, TypeOK
  <2>4. AtWork(a, r)' => Stage(a, r)'
    BY <1>0, <1>1, <2>0, <2>1, <2>2 DEF Stage, TypeOK
  <2>5. ASSUME faults' = 0, NEW e \in Dispatchers PROVE SeenBy(a, r, e)'
    <3>1. SeenBy(a, r, e)
      BY <1>0, <1>1, <2>0, <2>5, OneSees
    <3>2. \A ls : At(a, <<e, r>>, ls) <=> e = h /\ "complete" \in ls
      BY <1>0, <1>1 DEF At, TypeOK
    <3>3. \A ls : At(a, <<e, r>>, ls)' <=> e = h /\ "answer" \in ls
      BY <1>0, <1>1 DEF At, TypeOK
    <3> QED
      BY <1>0, <1>1, <2>1, <2>2, <3>1, <3>2, <3>3 DEF SeenBy, TypeOK, Actors
  <2> QED
    BY <1>0, <1>2, <2>0, <2>3, <2>4, <2>5, OwnKeeps
<1> QED
  BY <1>0, <1>1, <1>2, <1>3, <1>4, AloneKeeps DEF Serially

LEMMA AcquireSerial ==
    ASSUME IInv, IInv', Serially, NEW d \in Dispatchers, Acquire(d)
    PROVE  Serially'
<1>0. PICK r \in Requests : /\ TypeOK /\ TypeOK' /\ d \in Actors /\ d \notin Reviewers
                           /\ on[d] = <<d, r>> /\ Request(d) = r /\ on[d] \in Evidence
  BY DispatcherAt
<1>1. /\ pc[d] = "load" /\ pc'[d] \in {"publish", "quarantine"}
      /\ pc'[d] = "quarantine" => copy'[d] = task[r]
      /\ \A b \in Actors \ {d} : pc'[b] = pc[b] /\ copy'[b] = copy[b]
      /\ UNCHANGED <<task, evidence, review, answers, on, raced, faults>>
  BY <1>0 DEF Acquire, Copied, Goto, history, TypeOK
<1>2. Alone(d, r)
  BY <1>0, <1>1 DEF Alone, Request, Working
<1>3. task[r] # "running" /\ \A q \in Requests : Asked(q)'
  <2>1. task[r] # "running"
    BY <1>0, <1>1 DEF Serially, Asked, Working
  <2> QED
    BY <1>0, <1>1, <1>2, <2>1, AskedKeeps DEF Serially, Alone
<1>4. ASSUME r \notin raced PROVE SerialFits(r)'
  <2>0. SerialFits(r) /\ AtWork(d, r) /\ Sole(d, r) /\ Stage(d, r)
    BY <1>0, <1>1, <1>4, OneWorks DEF Serially, AtWork, Working
  <2>1. ~Fulfilled(r) /\ answers[r] = <<>> /\ Agree(r) /\ OneEvidence(r)
    BY <1>1, <2>0 DEF Stage, SerialFits
  <2>2. task[r] = "waiting"
    <3>1. task[r] \in {"running", "waiting", "completed", "failed"}
      BY <1>0 DEF TypeOK, TaskStatus
    <3>2. task[r] # "completed" /\ task[r] # "failed"
      BY <2>1 DEF Agree, Fulfilled
    <3> QED
      BY <1>3, <3>1, <3>2
  <2>3. OneEvidence(r)' /\ Agree(r)'
    BY <1>1, <2>1 DEF OneEvidence, Agree
  <2>4. AtWork(d, r)' => Stage(d, r)'
    BY <1>1, <2>1, <2>2 DEF Stage, Fulfilled
  <2>5. ASSUME faults' = 0, NEW e \in Dispatchers PROVE SeenBy(d, r, e)'
    <3>1. SeenBy(d, r, e) /\ evidence[<<e, r>>] = "none"
      BY <1>0, <1>1, <2>0, <2>1, <2>5, OneSees DEF Fulfilled
    <3> QED
      BY <1>0, <1>1, <3>1 DEF SeenBy, At
  <2> QED
    BY <1>0, <1>2, <2>0, <2>3, <2>4, <2>5, OwnKeeps
<1> QED
  BY <1>0, <1>1, <1>2, <1>3, <1>4, AloneKeeps DEF Serially

LEMMA AppendAnswerSerial ==
    ASSUME IInv, IInv', Serially, NEW a \in Actors, AppendAnswer(a)
    PROVE  Serially'
<1>0. PICK h \in Dispatchers, r \in Requests :
         /\ TypeOK /\ TypeOK' /\ (a \in Dispatchers => h = a /\ a \notin Reviewers)
         /\ on[a] = <<h, r>> /\ Request(a) = r /\ on[a] \in Evidence
  BY DispatcherAt, ReviewerAt DEF Actors
<1>1. /\ pc[a] = "answer"
      /\ answers' = [answers EXCEPT ![r] = Append(@, <<h, r>>)]
      /\ UNCHANGED <<task, evidence, review, raced, faults>>
      /\ \A b \in Actors \ {a} : pc'[b] = pc[b] /\ on'[b] = on[b] /\ copy'[b] = copy[b]
      /\ IF a \in Reviewers THEN pc'[a] = "close" /\ on'[a] = on[a]
         ELSE pc'[a] \in {"idle", "scan"}
  BY <1>0, LeaveRests DEF AppendAnswer, Goto, history, Rests, TypeOK
<1>2. Alone(a, r)
  BY <1>0, <1>1 DEF Alone, TypeOK, Request, Working
<1>3. \A q \in Requests : Asked(q)'
  BY <1>0, <1>1, <1>2, AskedKeeps, ResearchAssumption DEF Serially, Alone, Working
<1>4. ASSUME r \notin raced PROVE SerialFits(r)'
  <2>0. SerialFits(r) /\ AtWork(a, r) /\ Sole(a, r) /\ Stage(a, r)
    BY <1>0, <1>1, <1>4, OneWorks DEF Serially, AtWork, Working
  <2>1. /\ evidence[<<h, r>>] = "published" /\ answers[r] = <<>>
        /\ Agree(r) /\ OneEvidence(r)
    BY <1>0, <1>1, <2>0 DEF Stage, SerialFits
  <2>2. \A e \in Dispatchers \ {h} : evidence[<<e, r>>] = "none"
    BY <1>0, <2>1 DEF OneEvidence
  <2>3. OneEvidence(r)' /\ Agree(r)'
    <3>1. Len(answers'[r]) <= 1
      BY <1>0, <1>1, <2>1 DEF TypeOK
    <3> QED
      BY <1>1, <2>1, <3>1 DEF OneEvidence, Agree
  <2>4. AtWork(a, r)' => Stage(a, r)'
    BY <1>0, <1>1, <2>1 DEF Stage, AtWork, Working
  <2>5. ASSUME faults' = 0, NEW e \in Dispatchers PROVE SeenBy(a, r, e)'
    <3>1. SeenBy(a, r, e)
      BY <1>0, <1>1, <2>0, <2>5, OneSees
    <3>2. \A ls : At(a, <<e, r>>, ls) <=> e = h /\ "answer" \in ls
      BY <1>0, <1>1 DEF At
    <3>3. CASE a \in Reviewers
      <4>1. \A ls : At(a, <<e, r>>, ls)' <=> e = h /\ "close" \in ls
        BY <1>0, <1>1, <3>3 DEF At
      <4> QED
        BY <1>1, <2>1, <2>2, <3>1, <3>2, <3>3, <4>1 DEF SeenBy
    <3>4. CASE a \notin Reviewers
      BY <1>1, <2>1, <2>2, <3>1, <3>2, <3>4 DEF SeenBy
    <3> QED
      BY <3>3, <3>4
  <2> QED
    BY <1>0, <1>2, <2>0, <2>3, <2>4, <2>5, OwnKeeps
<1> QED
  BY <1>0, <1>1, <1>2, <1>3, <1>4, AloneKeeps DEF Serially

LEMMA DiscardSerial ==
    ASSUME IInv, IInv', Serially, NEW v \in Reviewers, Discard(v)
    PROVE  Serially'
<1>0. PICK h \in Dispatchers, r \in Requests :
         /\ TypeOK /\ TypeOK' /\ v \in Actors /\ v \notin Dispatchers /\ v \notin Workers
         /\ on[v] = <<h, r>> /\ Request(v) = r /\ on[v] \in Evidence
  BY ReviewerAt
<1>1. /\ pc[v] = "discard" /\ pc' = [pc EXCEPT ![v] = "fail_task"]
      /\ evidence' = [evidence EXCEPT ![<<h, r>>] = "discarded"]
      /\ UNCHANGED <<task, review, answers, on, copy, raced, faults>>
  BY <1>0 DEF Discard, SaveEvidence, Goto, history
<1>2. Alone(v, r)
  BY <1>0, <1>1 DEF Alone, TypeOK, Request, Working
<1>3. \A q \in Requests : Asked(q)'
  <2>1. evidence[<<h, r>>] # "none"
    BY <1>0, <1>1 DEF IInv, EvidenceHeld, Held
  <2>2. \A e \in Evidence : evidence'[e] # "none" => evidence[e] # "none"
    BY <1>0, <1>1, <2>1 DEF TypeOK
  <2> QED
    BY <1>0, <1>1, <1>2, <2>2, AskedKeeps DEF Serially, Alone
<1>4. ASSUME r \notin raced PROVE SerialFits(r)'
  <2>0. SerialFits(r) /\ AtWork(v, r) /\ Sole(v, r) /\ Stage(v, r)
    BY <1>0, <1>1, <1>4, OneWorks DEF Serially, AtWork, Working
  <2>1. /\ evidence[<<h, r>>] = "needs_review" /\ answers[r] = <<>>
        /\ Agree(r) /\ OneEvidence(r)
    BY <1>0, <1>1, <2>0 DEF Stage, SerialFits
  <2>2. \A e \in Dispatchers : IF e = h THEN evidence'[<<e, r>>] = "discarded"
                               ELSE evidence[<<e, r>>] = "none" /\ evidence'[<<e, r>>] = "none"
    <3>1. \A e \in Dispatchers \ {h} : evidence[<<e, r>>] = "none"
      BY <1>0, <2>1 DEF OneEvidence
    <3>2. \A e \in Dispatchers : <<e, r>> \in Evidence /\ (<<e, r>> = <<h, r>> <=> e = h)
      BY <1>0 DEF Evidence
    <3> QED
      BY <1>0, <1>1, <3>1, <3>2 DEF TypeOK
  <2>3. OneEvidence(r)' /\ Agree(r)'
    BY <1>0, <1>1, <2>1, <2>2 DEF OneEvidence, Agree
  <2>4. AtWork(v, r)' => Stage(v, r)'
    BY <1>0, <1>1, <2>1, <2>2 DEF Stage, TypeOK
  <2>5. ASSUME faults' = 0, NEW e \in Dispatchers PROVE SeenBy(v, r, e)'
    <3>1. SeenBy(v, r, e)
      BY <1>0, <1>1, <2>0, <2>5, OneSees
    <3>2. \A ls : At(v, <<e, r>>, ls) <=> e = h /\ "discard" \in ls
      BY <1>0, <1>1 DEF At
    <3>3. \A ls : At(v, <<e, r>>, ls)' <=> e = h /\ "fail_task" \in ls
      BY <1>0, <1>1 DEF At, TypeOK
    <3> QED
      BY <1>0, <1>1, <2>1, <2>2, <3>1, <3>2, <3>3 DEF SeenBy
  <2> QED
    BY <1>0, <1>2, <2>0, <2>3, <2>4, <2>5, OwnKeeps
<1> QED
  BY <1>0, <1>1, <1>2, <1>3, <1>4, AloneKeeps DEF Serially

LEMMA FailTaskSerial ==
    ASSUME IInv, IInv', Serially, NEW v \in Reviewers, FailTask(v)
    PROVE  Serially'
<1>0. PICK h \in Dispatchers, r \in Requests :
         /\ TypeOK /\ TypeOK' /\ v \in Actors /\ v \notin Dispatchers /\ v \notin Workers
         /\ on[v] = <<h, r>> /\ Request(v) = r /\ on[v] \in Evidence
  BY ReviewerAt
<1>1. /\ pc[v] = "fail_task" /\ pc' = [pc EXCEPT ![v] = "close"]
      /\ task' = [task EXCEPT ![r] = "failed"]
      /\ UNCHANGED <<evidence, review, answers, on, copy, raced, faults>>
  BY <1>0 DEF FailTask, SaveTask, Goto, history
<1>2. Alone(v, r)
  BY <1>0, <1>1 DEF Alone, TypeOK, Request, Working
<1>3. \A q \in Requests : Asked(q)'
  <2>1. \A q \in Requests : task[q] # "running" => task'[q] # "running"
    BY <1>0, <1>1 DEF TypeOK
  <2> QED
    BY <1>0, <1>1, <1>2, <2>1, AskedKeeps DEF Serially, Alone
<1>4. ASSUME r \notin raced PROVE SerialFits(r)'
  <2>0. SerialFits(r) /\ AtWork(v, r) /\ Sole(v, r) /\ Stage(v, r)
    BY <1>0, <1>1, <1>4, OneWorks DEF Serially, AtWork, Working
  <2>1. /\ evidence[<<h, r>>] = "discarded" /\ answers[r] = <<>>
        /\ Agree(r) /\ OneEvidence(r) /\ task'[r] = "failed"
    BY <1>0, <1>1, <2>0 DEF Stage, SerialFits, TypeOK
  <2>2. \A e \in Dispatchers \ {h} : evidence[<<e, r>>] = "none"
    BY <1>0, <2>1 DEF OneEvidence
  <2>3. OneEvidence(r)' /\ Agree(r)'
    BY <1>0, <1>1, <2>1, <2>2 DEF OneEvidence, Agree
  <2>4. AtWork(v, r)' => Stage(v, r)'
    BY <1>0, <1>1, <2>1 DEF Stage, TypeOK
  <2>5. ASSUME faults' = 0, NEW e \in Dispatchers PROVE SeenBy(v, r, e)'
    <3>1. SeenBy(v, r, e)
      BY <1>0, <1>1, <2>0, <2>5, OneSees
    <3>2. \A ls : At(v, <<e, r>>, ls) <=> e = h /\ "fail_task" \in ls
      BY <1>0, <1>1 DEF At
    <3>3. \A ls : At(v, <<e, r>>, ls)' <=> e = h /\ "close" \in ls
      BY <1>0, <1>1 DEF At, TypeOK
    <3> QED
      BY <1>0, <1>1, <2>1, <2>2, <3>1, <3>2, <3>3 DEF SeenBy
  <2> QED
    BY <1>0, <1>2, <2>0, <2>3, <2>4, <2>5, OwnKeeps
<1> QED
  BY <1>0, <1>1, <1>2, <1>3, <1>4, AloneKeeps DEF Serially

\* The item a reviewer saves at the end of a handler.
LEMMA ItemSerial ==
    ASSUME IInv, IInv', Serially, NEW v \in Reviewers, CloseReview(v) \/ SavePatch(v)
    PROVE  Serially'
<1>0. PICK h \in Dispatchers, r \in Requests :
         /\ TypeOK /\ TypeOK' /\ v \in Actors /\ v \notin Dispatchers /\ v \notin Workers
         /\ on[v] = <<h, r>> /\ Request(v) = r /\ on[v] \in Evidence
  BY ReviewerAt
<1>1. PICK s : /\ review' = [review EXCEPT ![<<h, r>>] = s]
               /\ \/ pc[v] = "close" /\ s = "resolved"
                  \/ pc[v] = "patch" /\ s = copy[v]
  BY <1>0 DEF CloseReview, SavePatch
<1>2. /\ UNCHANGED <<task, evidence, answers, raced, faults>>
      /\ pc'[v] \in {"idle", "scan"}
      /\ \A b \in Actors \ {v} : pc'[b] = pc[b] /\ on'[b] = on[b] /\ copy'[b] = copy[b]
  BY <1>0, LeaveRests DEF CloseReview, SavePatch, history, Rests
<1>3. Alone(v, r)
  BY <1>0, <1>1, <1>2 DEF Alone, TypeOK, Request, Working
<1>4. \A q \in Requests : Asked(q)'
  BY <1>0, <1>2, <1>3, AskedKeeps DEF Serially, Alone
<1>5. ASSUME r \notin raced PROVE SerialFits(r)'
  <2>0. SerialFits(r) /\ AtWork(v, r) /\ Sole(v, r) /\ Stage(v, r)
    BY <1>0, <1>1, <1>5, OneWorks DEF Serially, AtWork, Working
  <2>1. OneEvidence(r)' /\ Agree(r)' /\ ~AtWork(v, r)'
    BY <1>2, <2>0 DEF SerialFits, OneEvidence, Agree, AtWork, Working
  <2>2. ASSUME faults' = 0, NEW e \in Dispatchers PROVE SeenBy(v, r, e)'
    <3>1. SeenBy(v, r, e)
      BY <1>0, <1>2, <2>0, <2>2, OneSees
    <3>2. <<e, r>> \in Evidence /\ (<<e, r>> = <<h, r>> <=> e = h)
      BY <1>0 DEF Evidence
    <3>3. review'[<<e, r>>] = IF e = h THEN s ELSE review[<<e, r>>]
      BY <1>0, <1>1, <3>2 DEF TypeOK
    <3>4. \A ls : At(v, <<e, r>>, ls) <=> e = h /\ pc[v] \in ls
      BY <1>0 DEF At
    <3>5. \A ls : At(v, <<e, r>>, ls)' => pc'[v] \in ls
      BY DEF At
    <3>6. pc[v] = "close" => evidence[<<h, r>>] \in {"published", "discarded"}
      BY <1>0, <2>0 DEF Stage
    <3>7. CASE pc[v] = "close"
      BY <1>1, <1>2, <3>1, <3>3, <3>4, <3>5, <3>6, <3>7 DEF SeenBy, Kept
    <3>8. CASE pc[v] = "patch"
      BY <1>1, <1>2, <3>1, <3>3, <3>4, <3>5, <3>8 DEF SeenBy, Kept
    <3> QED
      BY <1>1, <3>7, <3>8
  <2> QED
    BY <1>0, <1>3, <2>0, <2>1, <2>2, OwnKeeps
<1> QED
  BY <1>0, <1>2, <1>3, <1>4, <1>5, AloneKeeps DEF Serially

\* Handlers that are not at work before or after a step on their own locals.
LEMMA IdleSerial ==
    ASSUME IInv, IInv', Serially, NEW a \in Actors,
           pc[a] \notin Working, pc'[a] \notin Working,
           \A b \in Actors \ {a} : pc'[b] = pc[b] /\ on'[b] = on[b] /\ copy'[b] = copy[b],
           a \in Dispatchers /\ pc'[a] = "check" => task[on'[a][2]] # "running",
           UNCHANGED <<task, evidence, review, answers, raced>>, faults' = 0 => faults = 0
    PROVE  Serially'
<1>1. TypeOK /\ TypeOK'
  BY DEF IInv, Types
<1>2. Alone(a, 0)
  BY DEF Alone
<1>3. \A q \in Requests : Asked(q)'
  BY <1>1, AskedKeeps DEF Serially, Working
<1>4. 0 \notin Requests
  BY ResearchAssumption DEF Requests
<1> QED
  BY <1>1, <1>2, <1>3, <1>4, AloneKeeps DEF Serially

LEMMA IdleStepsSerial ==
    ASSUME IInv, IInv', Serially, NEW a \in Actors,
           \/ a \in Workers /\ StartDrain(a)
           \/ a \in Callers /\ \E r \in Requests : StartDispatch(a, r)
           \/ a \in Dispatchers /\ Scan(a)
           \/ a \in Dispatchers /\ Check(a) /\ Leave(a) /\ raced' = raced
           \/ a \in Reviewers /\ \E e \in Evidence, action \in {"release", "discard"} :
                                    OpenReview(a, e, action)
           \/ a \in Reviewers /\ Judge(a) /\ End(a) /\ raced' = raced
    PROVE  Serially'
<1>1. TypeOK /\ TypeOK'
  BY DEF IInv, Types
<1>2. /\ UNCHANGED <<task, evidence, review, answers, raced, faults>>
      /\ pc[a] \notin Working
  BY DEF StartDrain, StartDispatch, Scan, Check, OpenReview, Judge, board, history, Working
<1>3. CASE Leave(a) \/ End(a)
  <2>1. Rests(a)
    BY <1>1, <1>3, LeaveRests
  <2> QED
    BY <1>2, <2>1, IdleSerial DEF Rests, Working
<1>4. CASE a \in Dispatchers /\ Scan(a) /\ Goto(a, "check") /\ UNCHANGED <<on, copy>>
  <2>1. task[Request(a)] = "waiting"
    BY <1>1, <1>4 DEF Scan, Goto, Leave, End, TypeOK
  <2> QED
    BY <1>1, <1>2, <1>4, <2>1, IdleSerial DEF Goto, TypeOK, Request, Working
<1>5. CASE \/ a \in Workers /\ StartDrain(a)
           \/ a \in Callers /\ \E r \in Requests : StartDispatch(a, r)
           \/ a \in Reviewers /\ \E e \in Evidence, action \in {"release", "discard"} :
                                    OpenReview(a, e, action)
  <2>1. /\ pc'[a] \in {"scan", "judge"}
        /\ \A b \in Actors \ {a} : pc'[b] = pc[b] /\ on'[b] = on[b] /\ copy'[b] = copy[b]
    BY <1>1, <1>5 DEF StartDrain, StartDispatch, OpenReview, Goto, Copied, TypeOK
  <2> QED
    BY <1>2, <2>1, IdleSerial DEF Working
<1> QED
  BY <1>3, <1>4, <1>5 DEF Scan

\* Without a race, a handler that enters is the only one.
LEMMA EnterSole ==
    ASSUME NEW a \in Actors, NEW r, NEW l, Enter(a, r, l), r \notin raced'
    PROVE  Sole(a, r)
  BY DEF Enter, Sole, AtWork

LEMMA EnterRaces ==
    ASSUME NEW a \in Actors, NEW r, NEW l, Enter(a, r, l)
    PROVE  raced \subseteq raced'
  BY DEF Enter

LEMMA CheckSerial ==
    ASSUME IInv, IInv', Serially, NEW d \in Dispatchers, Check(d)
    PROVE  Serially'
<1>0. PICK r \in Requests : /\ TypeOK /\ TypeOK' /\ d \in Actors /\ d \notin Reviewers
                           /\ on[d] = <<d, r>> /\ Request(d) = r /\ on[d] \in Evidence
  BY DispatcherAt
<1>1. CASE Leave(d) /\ raced' = raced
  BY <1>0, <1>1, IdleStepsSerial
<1>2. CASE ~Fulfilled(r) /\ Enter(d, r, "load") /\ UNCHANGED <<on, copy>>
  <2>1. /\ pc[d] = "check" /\ pc' = [pc EXCEPT ![d] = "load"] /\ raced \subseteq raced'
        /\ UNCHANGED <<task, evidence, review, answers, on, copy, faults>>
    BY <1>0, <1>2, EnterRaces DEF Check, Enter, Goto, board
  <2>2. Alone(d, r)
    BY <1>0, <2>1 DEF Alone, TypeOK, Request, Working
  <2>3. \A q \in Requests : Asked(q)'
    <3>1. task[r] # "running" /\ pc'[d] = "load" /\ on'[d][2] = r
      BY <1>0, <2>1 DEF Serially, Asked, TypeOK
    <3> QED
      BY <1>0, <2>1, <2>2, <3>1, AskedKeeps DEF Serially, Alone
  <2>4. ASSUME r \notin raced' PROVE SerialFits(r)'
    <3>1. SerialFits(r) /\ Sole(d, r) /\ Agree(r) /\ OneEvidence(r)
      BY <1>0, <1>2, <2>1, <2>4, EnterSole DEF Serially, SerialFits
    <3>2. answers[r] = <<>>
      BY <1>2, <3>1 DEF Agree, Fulfilled
    <3>3. OneEvidence(r)' /\ Agree(r)'
      BY <2>1, <3>1 DEF OneEvidence, Agree
    <3>4. AtWork(d, r)' => Stage(d, r)'
      BY <1>0, <1>2, <2>1, <3>2 DEF Stage, Fulfilled, TypeOK
    <3>5. ASSUME faults' = 0, NEW e \in Dispatchers PROVE SeenBy(d, r, e)'
      <4>1. SeenBy(d, r, e) /\ evidence[<<e, r>>] = "none"
        BY <1>0, <1>2, <2>1, <3>1, <3>5, OneSees DEF Fulfilled
      <4> QED
        BY <1>0, <2>1, <4>1 DEF SeenBy
    <3> QED
      BY <1>0, <2>2, <3>1, <3>3, <3>4, <3>5, OwnKeeps
  <2> QED
    BY <1>0, <2>1, <2>2, <2>3, <2>4, AloneKeeps DEF Serially
<1> QED
  BY <1>0, <1>1, <1>2 DEF Check

\* A reviewer begins to work on evidence that needs a review.
LEMMA ReviewBeginsSerial ==
    ASSUME IInv, IInv', Serially, NEW v \in Reviewers, NEW h \in Dispatchers, NEW r \in Requests,
           NEW l \in {"finalize", "discard", "patch"}, pc[v] \notin Working, Enter(v, r, l),
           on'[v] = <<h, r>>,
           l # "patch" => evidence[<<h, r>>] = "needs_review",
           l = "patch" => Kept(review[<<h, r>>]) /\ Kept(copy'[v]),
           \A b \in Actors \ {v} : on'[b] = on[b] /\ copy'[b] = copy[b],
           UNCHANGED <<task, evidence, review, answers, faults>>
    PROVE  Serially'
<1>0. TypeOK /\ TypeOK' /\ v \in Actors /\ v \notin Dispatchers
  BY ReviewerAt
<1>1. pc' = [pc EXCEPT ![v] = l] /\ pc'[v] = l /\ raced \subseteq raced'
  BY <1>0, EnterRaces DEF Enter, Goto, TypeOK
<1>2. Alone(v, r)
  BY <1>0, <1>1 DEF Alone, TypeOK
<1>3. \A q \in Requests : Asked(q)'
  BY <1>0, <1>2, AskedKeeps DEF Serially, Alone
<1>4. ASSUME r \notin raced' PROVE SerialFits(r)'
  <2>1. SerialFits(r) /\ Sole(v, r) /\ Agree(r) /\ OneEvidence(r)
    BY <1>0, <1>1, <1>4, EnterSole DEF Serially, SerialFits
  <2>2. l # "patch" => answers[r] = <<>>
    BY <2>1 DEF Agree, OneEvidence
  <2>3. OneEvidence(r)' /\ Agree(r)'
    BY <2>1 DEF OneEvidence, Agree
  <2>4. AtWork(v, r)' => Stage(v, r)'
    BY <1>0, <1>1, <2>2 DEF Stage
  <2>5. ASSUME faults' = 0, NEW e \in Dispatchers PROVE SeenBy(v, r, e)'
    <3>1. SeenBy(v, r, e) /\ \A ls : At(v, <<e, r>>, ls) => pc[v] \in ls
      BY <1>0, <2>1, <2>5, OneSees DEF At
    <3>2. \A ls : At(v, <<e, r>>, ls)' <=> e = h /\ l \in ls
      BY <1>1 DEF At
    <3>3. l = "patch" /\ e = h => evidence[<<e, r>>] = "needs_review"
      BY <3>1 DEF SeenBy, Working
    <3>4. /\ task[r] = "waiting" /\ evidence[<<e, r>>] = "published" => FALSE
          /\ task[r] = "waiting" /\ evidence[<<e, r>>] = "discarded" => FALSE
          /\ Kept(review[<<e, r>>]) => evidence[<<e, r>>] = "needs_review"
          /\ evidence[<<e, r>>] = "needs_review" => Kept(review[<<e, r>>])
      BY <1>0, <3>1 DEF SeenBy, Working
    <3> QED
      BY <1>0, <3>2, <3>3, <3>4 DEF SeenBy
  <2> QED
    BY <1>0, <1>2, <2>1, <2>3, <2>4, <2>5, OwnKeeps
<1> QED
  BY <1>0, <1>1, <1>2, <1>3, <1>4, AloneKeeps DEF Serially

LEMMA JudgeSerial ==
    ASSUME IInv, IInv', Serially, NEW v \in Reviewers, Judge(v)
    PROVE  Serially'
<1>0. PICK h \in Dispatchers, r \in Requests :
         /\ TypeOK /\ TypeOK' /\ v \in Actors /\ v \notin Dispatchers /\ v \notin Workers
         /\ on[v] = <<h, r>> /\ Request(v) = r /\ on[v] \in Evidence
  BY ReviewerAt
<1>1. CASE End(v) /\ raced' = raced
  BY <1>0, <1>1, IdleStepsSerial
<1>2. CASE /\ evidence[on[v]] = "needs_review" /\ UNCHANGED <<on, copy>>
           /\ Enter(v, r, "finalize") \/ Enter(v, r, "discard")
  <2>1. pc[v] \notin Working /\ UNCHANGED <<task, evidence, review, answers, faults>>
    BY DEF Judge, board, Working
  <2> QED
    BY <1>0, <1>2, <2>1, ReviewBeginsSerial
<1> QED
  BY <1>0, <1>1, <1>2 DEF Judge, history

LEMMA ReadForPatchSerial ==
    ASSUME IInv, IInv', Serially, NEW v \in Reviewers, NEW e \in Evidence,
           NEW s \in {"open", "snoozed"}, ReadForPatch(v, e, s)
    PROVE  Serially'
<1>0. TypeOK /\ v \in Actors
  BY ReviewerAt
<1>1. PICK h \in Dispatchers, r \in Requests : e = <<h, r>> /\ e[2] = r
  BY DEF Evidence
<1>2. /\ pc[v] \notin Working /\ Enter(v, r, "patch") /\ Kept(review[e])
      /\ on' = [on EXCEPT ![v] = e] /\ copy' = [copy EXCEPT ![v] = s]
      /\ UNCHANGED <<task, evidence, review, answers, faults>>
  BY <1>1 DEF ReadForPatch, Working, Kept, Copied, board
<1>3. /\ on'[v] = e /\ Kept(copy'[v])
      /\ \A b \in Actors \ {v} : on'[b] = on[b] /\ copy'[b] = copy[b]
  BY <1>0, <1>2 DEF TypeOK, Kept
<1> QED
  BY <1>1, <1>2, <1>3, ReviewBeginsSerial

---------------------------------------------------------------------------
LEMMA AbortSerial ==
    ASSUME IInv, IInv', Serially, NEW a \in Actors, Abort(a)
    PROVE  Serially'
<1>1. /\ TypeOK /\ TypeOK' /\ faults' # 0
      /\ UNCHANGED <<task, evidence, review, answers, raced>>
  BY DEF IInv, Types, Abort, board, history, TypeOK
<1>2. /\ pc'[a] \in {"idle", "scan"}
      /\ \A b \in Actors \ {a} : pc'[b] = pc[b] /\ on'[b] = on[b] /\ copy'[b] = copy[b]
  BY <1>1, LeaveRests DEF Abort, Rests
<1>3. CASE pc[a] \notin Working
  BY <1>1, <1>2, <1>3, IdleSerial DEF Working
<1>4. CASE pc[a] \in Working
  <2>0. PICK r \in Requests : Request(a) = r /\ AtWork(a, r)
    BY <1>1, <1>4, Places DEF AtWork
  <2>1. Alone(a, r)
    BY <1>1, <1>2, <2>0 DEF Alone, Working
  <2>2. \A q \in Requests : Asked(q)'
    BY <1>1, <1>2, AskedKeeps DEF Serially, Working
  <2>3. ASSUME r \notin raced PROVE SerialFits(r)'
    <3>1. SerialFits(r) /\ Sole(a, r)
      BY <2>0, <2>3, OneWorks DEF Serially
    <3>2. OneEvidence(r)' /\ Agree(r)' /\ ~AtWork(a, r)'
      BY <1>1, <1>2, <3>1 DEF SerialFits, OneEvidence, Agree, AtWork, Working
    <3> QED
      BY <1>1, <2>1, <3>1, <3>2, OwnKeeps
  <2> QED
    BY <1>1, <2>1, <2>2, <2>3, AloneKeeps DEF Serially
<1> QED
  BY <1>3, <1>4

LEMMA RestartSerial ==
    ASSUME IInv, IInv', Serially, Restart
    PROVE  Serially'
<1>1. /\ faults' # 0 /\ \A a \in Actors : pc'[a] = "idle"
      /\ UNCHANGED <<task, evidence, review, answers, raced>>
  BY DEF IInv, Types, Restart, board, history, TypeOK
<1>2. ASSUME NEW r \in Requests PROVE Asked(r)'
  BY <1>1 DEF Serially, Asked, Working, Actors
<1>3. ASSUME NEW r \in Requests \ raced PROVE SerialFits(r)'
  <2>1. SerialFits(r) /\ \A a \in Actors : ~AtWork(a, r)'
    BY <1>1, <1>3 DEF Serially, AtWork, Working
  <2> QED
    BY <1>1, <2>1 DEF SerialFits, OneAtWork, OneEvidence, Agree
<1> QED
  BY <1>1, <1>2, <1>3 DEF Serially

LEMMA AskSerial ==
    ASSUME IInv, IInv', Serially, NEW r \in Requests, Ask(r)
    PROVE  Serially'
<1>1. /\ TypeOK /\ task[r] = "running" /\ task' = [task EXCEPT ![r] = "waiting"]
      /\ UNCHANGED <<evidence, review, answers, pc, on, copy, raced, faults>>
  BY DEF IInv, Types, Ask, history
<1>2. \A q \in Requests : IF q = r THEN task'[q] = "waiting" ELSE task'[q] = task[q]
  BY <1>1 DEF TypeOK
<1>3. ASSUME NEW q \in Requests PROVE Asked(q)'
  BY <1>1, <1>2 DEF Serially, Asked, Request
<1>4. ASSUME NEW q \in Requests \ raced PROVE SerialFits(q)'
  <2>1. SerialFits(q) /\ OneAtWork(q)' /\ OneEvidence(q)'
    BY <1>1, <1>4 DEF Serially, SerialFits, OneAtWork, OneEvidence, AtWork, Request
  <2>2. q = r => \A d \in Dispatchers : evidence[<<d, q>>] = "none"
    BY <1>1 DEF Serially, Asked
  <2>3. Agree(q)'
    BY <1>1, <1>2, <2>1 DEF SerialFits, Agree
  <2>4. ASSUME NEW a \in Actors PROVE AtWork(a, q)' => Stage(a, q)'
    BY <1>1, <2>1 DEF SerialFits, Stage, Fulfilled, AtWork, Request
  <2>5. ASSUME faults' = 0, NEW d \in Dispatchers PROVE SeenTo(q, d)'
    <3>1. SeenTo(q, d)
      BY <1>1, <2>1, <2>5 DEF SerialFits
    <3>2. task'[q] = "waiting" => task[q] = "waiting" \/ evidence[<<d, q>>] = "none"
      BY <1>2, <2>2
    <3> QED
      BY <1>1, <3>1, <3>2 DEF SeenTo, At
  <2> QED
    BY <2>1, <2>3, <2>4, <2>5 DEF SerialFits
<1> QED
  BY <1>1, <1>3, <1>4 DEF Serially

LEMMA SerialStep ==
    ASSUME IInv, IInv', Serially, [Next]_vars
    PROVE  Serially'
<1>1. CASE UNCHANGED vars
  <2>1. /\ UNCHANGED <<task, evidence, review, answers, pc, on, copy, raced, faults>>
        /\ \A r \in Requests : Asked(r) /\ (r \notin raced => SerialFits(r))
    BY <1>1 DEF vars, Serially
  <2>2. ASSUME NEW r \in Requests PROVE Asked(r)'
    BY <2>1 DEF Asked, Request
  <2>3. ASSUME NEW r \in Requests \ raced PROVE SerialFits(r)'
    <3>1. OneAtWork(r)' /\ OneEvidence(r)' /\ Agree(r)'
      BY <2>1 DEF SerialFits, OneAtWork, OneEvidence, Agree, AtWork, Request
    <3>2. ASSUME NEW a \in Actors PROVE AtWork(a, r)' => Stage(a, r)'
      BY <2>1 DEF SerialFits, AtWork, Request, Stage, Fulfilled
    <3>3. ASSUME faults' = 0, NEW d \in Dispatchers PROVE SeenTo(r, d)'
      <4>1. SeenTo(r, d)
        BY <2>1, <3>3 DEF SerialFits
      <4> QED
        BY <2>1, <4>1 DEF SeenTo, At
    <3> QED
      BY <3>1, <3>2, <3>3 DEF SerialFits
  <2> QED
    BY <2>1, <2>2, <2>3 DEF Serially
<1>2. ASSUME NEW d \in Dispatchers, Dispatch(d) PROVE Serially'
  <2>1. d \in Actors
    BY DEF Actors
  <2> QED
    BY <1>2, <2>1, IdleStepsSerial, CheckSerial, AcquireSerial, PublishSerial, QuarantineSerial,
       AddReviewItemSerial, SaveBlockedSerial, FinalizeSerial, CompleteTaskSerial,
       AppendAnswerSerial DEF Dispatch
<1>3. ASSUME NEW v \in Reviewers, Review(v) PROVE Serially'
  <2>1. v \in Actors
    BY DEF Actors
  <2>2. CASE \E e \in Evidence : \/ \E action \in {"release", "discard"} : OpenReview(v, e, action)
                                 \/ \E s \in {"open", "snoozed"} : ReadForPatch(v, e, s)
    BY <2>1, <2>2, IdleStepsSerial, ReadForPatchSerial
  <2>3. CASE Finalize(v) \/ CompleteTask(v) \/ AppendAnswer(v)
    BY <2>1, <2>3, FinalizeSerial, CompleteTaskSerial, AppendAnswerSerial
  <2>4. CASE Judge(v) \/ Discard(v) \/ FailTask(v) \/ CloseReview(v) \/ SavePatch(v)
    BY <2>4, JudgeSerial, DiscardSerial, FailTaskSerial, ItemSerial
  <2> QED
    BY <1>3, <2>2, <2>3, <2>4 DEF Review
<1>4. CASE \/ \E w \in Workers : StartDrain(w)
           \/ \E c \in Callers, r \in Requests : StartDispatch(c, r)
  BY <1>4, IdleStepsSerial DEF Actors, Dispatchers
<1>5. CASE (\E r \in Requests : Ask(r)) \/ (\E a \in Actors : Abort(a)) \/ Restart
  BY <1>5, AskSerial, AbortSerial, RestartSerial
<1> QED
  BY <1>1, <1>2, <1>3, <1>4, <1>5 DEF Next

LEMMA SerialInvariance == Spec => []Serially
<1>1. Init => Serially
  <2> SUFFICES ASSUME Init PROVE Serially
    OBVIOUS
  <2>1. \A r \in Requests :
           /\ task[r] = "running" /\ answers[r] = <<>>
           /\ \A d \in Dispatchers : evidence[<<d, r>>] = "none" /\ review[<<d, r>>] = "none"
    BY DEF Init, Evidence
  <2>2. \A a \in Actors : pc[a] = "idle"
    BY DEF Init
  <2>3. ASSUME NEW r \in Requests PROVE Asked(r) /\ SerialFits(r)
    <3>1. \A a \in Actors : ~AtWork(a, r) /\ \A e, ls : "idle" \notin ls => ~At(a, e, ls)
      BY <2>2 DEF AtWork, Working, At
    <3>2. Asked(r) /\ OneAtWork(r) /\ OneEvidence(r)
      BY <2>1, <2>2, <3>1 DEF Asked, OneAtWork, OneEvidence, Actors, Working
    <3>3. Agree(r)
      <4>1. task[r] = "running" /\ answers[r] = <<>> /\ Len(answers[r]) <= 1
        BY <2>1
      <4> QED
        BY <4>1 DEF Agree
    <3>4. \A d \in Dispatchers : SeenTo(r, d)
      BY <2>1, <3>1 DEF SeenTo, Kept, Actors
    <3> QED
      BY <3>1, <3>2, <3>3, <3>4 DEF SerialFits
  <2> QED
    BY <2>3 DEF Serially
<1>2. IInv /\ IInv' /\ Serially /\ [Next]_vars => Serially'
  BY SerialStep
<1> QED
  BY <1>1, <1>2, Invariance, PTL DEF Spec

\* A request is answered once, whatever fails and is retried, unless two handlers worked
\* on it at once, for every number of requests, drains, callers, reviewers and faults.
THEOREM AnsweredOnce == Spec => []SerialAnsweredOnce
<1>1. IInv /\ Serially => SerialAnsweredOnce
  <2> SUFFICES ASSUME IInv, Serially, NEW r \in Requests, r \notin raced
               PROVE  ~(Len(answers[r]) > 1)
    BY DEF SerialAnsweredOnce
  <2>1. Len(answers[r]) <= 1 /\ Len(answers[r]) \in Nat
    BY DEF Serially, SerialFits, Agree, IInv, Types, TypeOK
  <2> QED
    BY <2>1
<1> QED
  BY <1>1, Invariance, SerialInvariance, PTL

\* Task, evidence and review agree, and when the handlers of a request have ended its
\* quarantined evidence is left to a reviewer and to nobody else, unless they raced.
THEOREM QuarantineIsReviewed == Spec => []SerialQuarantineIsReviewed
<1>1. TypeOK /\ Serially => SerialQuarantineIsReviewed
  <2> SUFFICES ASSUME TypeOK, Serially, NEW r \in Requests \ raced
               PROVE  /\ task[r] = "completed" =>
                             \E d \in Dispatchers : evidence[<<d, r>>] = "published"
                      /\ task[r] = "failed" =>
                             \E d \in Dispatchers : evidence[<<d, r>>] = "discarded"
                      /\ Quiet(r) =>
                            /\ ~Hangs(r)
                            /\ \A d \in Dispatchers :
                                  review[<<d, r>>] \in {"open", "snoozed"} =>
                                      evidence[<<d, r>>] = "needs_review"
    BY DEF SerialQuarantineIsReviewed
  <2>1. SerialFits(r) /\ Agree(r)
    BY DEF Serially, SerialFits
  <2>2. ASSUME Quiet(r), NEW d \in Dispatchers
        PROVE  /\ Kept(review[<<d, r>>]) => evidence[<<d, r>>] = "needs_review"
               /\ evidence[<<d, r>>] = "needs_review" => Kept(review[<<d, r>>])
               /\ task[r] = "waiting" => evidence[<<d, r>>] \notin {"published", "discarded"}
    <3>1. SeenTo(r, d)
      BY <2>1, <2>2 DEF SerialFits, Quiet
    <3>2. \A a \in Actors : At(a, <<d, r>>, Working) => FALSE
      BY <2>2 DEF At, Quiet, Request
    <3>3. \A a \in Actors : \A ls \in SUBSET Working : ~At(a, <<d, r>>, ls)
      BY <3>2 DEF At
    <3>4. /\ {"review_item"} \in SUBSET Working /\ {"fail_task"} \in SUBSET Working
          /\ {"complete", "answer", "fail_task", "close"} \in SUBSET Working
          /\ {"finalize", "complete"} \in SUBSET Working
      BY DEF Working
    <3> QED
      BY <3>1, <3>3, <3>4 DEF SeenTo, Actors
  <2>3. ASSUME Quiet(r), Hangs(r) PROVE FALSE
    <3>1. PICK d \in Dispatchers : evidence[<<d, r>>] # "none"
      BY <2>3 DEF Hangs, Fulfilled
    <3>2. evidence[<<d, r>>] \in {"none", "published", "needs_review", "discarded"}
      BY DEF TypeOK, Evidence
    <3>3. task[r] = "waiting" /\ ~(evidence[<<d, r>>] = "needs_review" /\ Kept(review[<<d, r>>]))
      BY <2>3 DEF Hangs, Kept
    <3> QED
      BY <2>2, <2>3, <3>1, <3>2, <3>3
  <2> QED
    BY <2>1, <2>2, <2>3 DEF Agree, Kept
<1> QED
  BY <1>1, TypeCorrect, SerialInvariance, PTL

---------------------------------------------------------------------------
(* One turn: its providers and models.                                     *)

Providers == {"memory_index", "documents", "o2", "web", "mock", "api", "local_metrics"}
Reviews == {"tool_call_approval", "prompt_injection_review", "decision_review", "risk_review"}

\* The providers still to be asked, in their order.
ApiFirst == <<"api", "local_metrics">>
LocalOnly == <<"local_metrics">>
O2First == <<"o2", "web">>
O2Only == <<"o2">>
WebOnly == <<"web">>
MockOnly == <<"mock">>
DataAsks == {<<>>, ApiFirst, LocalOnly}
ResearchAsks == {<<>>, O2First, O2Only, WebOnly, MockOnly}

\* A client has a model, and another one at most to fall back to.
ClientFits(c) ==
    \/ c = NoClient
    \/ /\ c \in [primary : Models, backup : Models \cup {NoModel}, actual : Models,
                 reason : {"none", "blank", "timeout"}]
       /\ c.backup # c.primary

Clients == [primary : Models \cup {NoModel}, backup : Models \cup {NoModel},
            actual : Models \cup {NoModel}, reason : {"none", "blank", "timeout"}]

Turn == [step : {"idle", "classify", "chat", "handle", "documents", "ask", "assess", "answer",
                 "done", "raised"},
         intent : Intents \cup {"none"},
         client : Clients,
         ask : DataAsks \cup ResearchAsks,
         got : SUBSET Providers, failed : SUBSET Providers, barren : SUBSET Providers,
         request : BOOLEAN, reply : {"none", "risk", "evidence", "needs_review"}, gated : BOOLEAN,
         inbox : SUBSET Reviews, used : SUBSET Providers,
         draft : {"none", "llm_regenerated", "template_fallback"},
         task : {"none", "running", "waiting", "completed", "failed"},
         author : Models \cup {NoModel}]

Traces == [llm : BOOLEAN, requested : Models \cup {NoModel}, actual : Models \cup {NoModel},
           reason : Replies \cup {"none", "both", "llm_not_configured"},
           mode : {"none", "real", "fallback"}, why : {"none", "diagnostics", "declared"}]

SourcingTypeOK ==
    /\ setup \in Setups /\ chosen \in Models
    /\ turn \in Turn /\ ClientFits(turn.client)
    /\ trace \in Traces
    /\ switches \in 0..MaxSwitches

NobodyYet == turn.got = {} /\ turn.failed = {} /\ turn.barren = {}

\* What a handler can be at with which skill, and what is there before one starts.
StepFits ==
    /\ turn.step \in {"idle", "classify", "chat"} => turn.intent = "none"
    /\ turn.step \in {"handle", "documents", "ask", "assess", "answer"} => turn.intent # "none"
    /\ turn.step \in {"ask", "assess"} => turn.intent \in {"data"} \cup Acquiring
    /\ turn.step = "documents" => turn.intent \in Acquiring
    /\ turn.step \in {"idle", "classify", "chat", "handle", "documents"} => NobodyYet /\ turn.ask = <<>>

\* The data API is asked before the samples, and these only when it gave nothing.
DataFits ==
    turn.intent = "data" =>
        /\ turn.ask \in DataAsks
        /\ turn.got \in {{}, {"api"}, {"local_metrics"}}
        /\ turn.failed \cup turn.barren \subseteq {"api"}
        /\ turn.ask = ApiFirst => setup.api /\ NobodyYet
        /\ turn.ask = LocalOnly =>
              /\ "local_metrics" \notin turn.got
              /\ setup.api => turn.got = {"api"} \/ "api" \in turn.failed \cup turn.barren
        /\ turn.got = {"local_metrics"} /\ setup.api => "api" \in turn.failed \cup turn.barren
        /\ turn.got = {"api"} => turn.failed = {}

Configured == IF setup.research = {} THEN {"mock"} ELSE setup.research
Both == {"o2", "web"}

\* The documents of the user, or the agents that are configured, each one once.
ResearchFits ==
    turn.intent \in Acquiring =>
        /\ turn.ask \in ResearchAsks
        /\ \/ turn.got = {"documents"} /\ turn.failed = {} /\ turn.barren = {} /\ turn.ask = <<>>
           \/ turn.got \cup turn.failed \cup turn.barren \subseteq Configured
        /\ turn.ask = O2First => setup.research = Both /\ NobodyYet
        /\ turn.ask = O2Only => setup.research = {"o2"} /\ NobodyYet
        /\ turn.ask = MockOnly => setup.research = {} /\ NobodyYet
        /\ turn.ask = WebOnly => "web" \in setup.research /\ (setup.research = Both \/ NobodyYet)
        /\ setup.research # Both => turn.got = {} \/ turn.failed = {}

\* A search of the memory asks nobody else; the other turns ask nobody at all.
OthersFit ==
    /\ turn.intent = "memory" => /\ turn.got \subseteq {"memory_index"}
                                 /\ turn.failed = {} /\ turn.barren = {}
    /\ turn.intent \notin {"memory", "data"} \cup Acquiring \/ turn.gated => NobodyYet

\* A failure that did not end the turn is one beside material.
FailedBeside ==
    turn.step \in {"assess", "answer", "done"} /\ turn.failed # {} => turn.got # {}

\* The request, its reply, and who looks after it.
BoardFits ==
    /\ turn.step \in {"idle", "classify", "chat", "handle"} =>
          /\ ~turn.request /\ turn.reply = "none" /\ turn.inbox = {} /\ ~turn.gated
          /\ turn.draft = "none"
    /\ turn.step # "done" => turn.used = {}
    /\ turn.gated => "tool_call_approval" \in turn.inbox /\ turn.step \in {"answer", "done"}
    /\ turn.step \in {"answer", "done"} /\ turn.request => turn.reply # "none" \/ turn.task = "waiting"
    /\ turn.reply # "none" => turn.step \in {"answer", "done"}

SourcingFits ==
    /\ SourcingTypeOK /\ StepFits /\ DataFits /\ ResearchFits /\ OthersFit /\ FailedBeside
    /\ BoardFits /\ TraceIsTrue /\ RequestIsServed

---------------------------------------------------------------------------
(* What a call of a model leaves, and what the trace says of it.           *)

LEMMA FitsIsClient ==
    ASSUME NEW c, ClientFits(c) PROVE c \in Clients
  BY DEF ClientFits, NoClient, Clients

LEMMA ClientNowFits ==
    ASSUME SourcingTypeOK PROVE ClientFits(ClientNow)
  BY SourcingAssumption DEF SourcingTypeOK, Setups, ClientNow, ClientFits

LEMMA CallFits ==
    ASSUME NEW c, ClientFits(c), c # NoClient, NEW replies \in AllReplies
    PROVE  LET call == Complete(c, replies)
           IN  /\ ClientFits(call.client) /\ call.client # NoClient
               /\ call.client.primary = c.primary
               /\ call.author \in Models /\ call.result \in Replies \cup {"both"}
               /\ call.client.actual = call.author
               /\ call.client.reason # "none" <=> call.author # c.primary
<1>1. c \in [primary : Models, backup : Models \cup {NoModel}, actual : Models,
             reason : {"none", "blank", "timeout"}] /\ c.backup # c.primary
  BY DEF ClientFits
<1>2. replies[c.primary] \in Replies
  BY <1>1 DEF AllReplies
<1>3. CASE c.backup = NoModel \/ replies[c.primary] \notin FailsOver
  <2> DEFINE left == [c EXCEPT !.actual = c.primary, !.reason = "none"]
  <2>1. Complete(c, replies) = [client |-> left,
                                result |-> replies[c.primary], author |-> c.primary]
    BY <1>3 DEF Complete
  <2>3. /\ left.primary = c.primary /\ left.actual = c.primary /\ left.reason = "none"
        /\ left.backup = c.backup
        /\ left \in [primary : Models, backup : Models \cup {NoModel}, actual : Models,
                     reason : {"none", "blank", "timeout"}]
    BY <1>1
  <2>4. ClientFits(left) /\ left # NoClient
    BY <1>1, <2>3, SourcingAssumption DEF ClientFits, NoClient
  <2> HIDE DEF left
  <2> QED
    BY <1>1, <1>2, <2>1, <2>3, <2>4, SourcingAssumption
<1>4. CASE ~(c.backup = NoModel \/ replies[c.primary] \notin FailsOver)
  <2> DEFINE left == [c EXCEPT !.actual = c.backup, !.reason = replies[c.primary]]
  <2>1. c.backup \in Models /\ replies[c.backup] \in Replies /\ replies[c.primary] \in {"blank", "timeout"}
    BY <1>1, <1>4 DEF AllReplies, FailsOver
  <2>2. Complete(c, replies) = [client |-> left,
             result |-> IF replies[c.backup] \in FailsOver THEN "both" ELSE replies[c.backup],
             author |-> c.backup]
    BY <1>4 DEF Complete
  <2>3. /\ left.primary = c.primary /\ left.actual = c.backup /\ left.reason = replies[c.primary]
        /\ left.backup = c.backup
        /\ left \in [primary : Models, backup : Models \cup {NoModel}, actual : Models,
                     reason : {"none", "blank", "timeout"}]
    BY <1>1, <2>1
  <2>4. ClientFits(left) /\ left # NoClient
    BY <1>1, <2>3, SourcingAssumption DEF ClientFits, NoClient
  <2> HIDE DEF left
  <2> QED
    BY <1>1, <2>1, <2>2, <2>3, <2>4, SourcingAssumption
<1> QED
  BY <1>3, <1>4

\* The result names the author of the text, and a fallback with its reason.
LEMMA WrittenFits ==
    ASSUME NEW c, ClientFits(c), NEW replies \in AllReplies
    PROVE  LET w == Written(c, replies)
           IN  /\ w \in Traces /\ w.mode = "none" /\ w.why = "none"
               /\ AuthorOf(c, replies) \in Models \cup {NoModel}
               /\ w.llm <=> AuthorOf(c, replies) # NoModel
               /\ w.llm => /\ w.actual = AuthorOf(c, replies)
                           /\ w.reason # "none" <=> w.actual # w.requested
                           /\ w.reason # "auth_error"
<1>0. NoTrace \in Traces /\ NoTrace.mode = "none" /\ NoTrace.why = "none" /\ ~NoTrace.llm
  BY DEF NoTrace, Traces
<1>1. CASE c = NoClient
  BY <1>0, <1>1 DEF Written, AuthorOf, Traces, Replies
<1>2. CASE c # NoClient
  <2> DEFINE call == Complete(c, replies)
  <2>1. /\ ClientFits(call.client) /\ call.client # NoClient /\ call.client.primary = c.primary
        /\ call.author \in Models /\ call.result \in Replies \cup {"both"}
        /\ call.client.actual = call.author
        /\ call.client.reason # "none" <=> call.author # c.primary
    BY <1>2, CallFits
  <2>2. c.primary \in Models /\ call.client.reason \in {"none", "blank", "timeout"}
    BY <1>2, <2>1 DEF ClientFits
  <2>3. CASE call.result = "text"
    <3>1. /\ Written(c, replies) = [NoTrace EXCEPT !.llm = TRUE, !.requested = c.primary,
                                       !.actual = call.client.actual, !.reason = call.client.reason]
          /\ AuthorOf(c, replies) = call.author
      BY <1>2, <2>3 DEF Written, AuthorOf
    <3> HIDE DEF call
    <3> QED
      BY <2>1, <2>2, <3>1, SourcingAssumption DEF NoTrace, Traces, Replies
  <2>4. CASE call.result # "text"
    <3>1. /\ Written(c, replies) = [NoTrace EXCEPT !.requested = c.primary, !.reason = call.result]
          /\ AuthorOf(c, replies) = NoModel
      BY <1>2, <2>4 DEF Written, AuthorOf
    <3> HIDE DEF call
    <3> QED
      BY <2>1, <2>2, <3>1, SourcingAssumption DEF NoTrace, Traces
  <2> QED
    BY <2>3, <2>4
<1> QED
  BY <1>1, <1>2

---------------------------------------------------------------------------
(* Who is asked next.                                                      *)

LEMMA Queues ==
    /\ Head(ApiFirst) = "api" /\ Tail(ApiFirst) = LocalOnly
    /\ Head(LocalOnly) = "local_metrics" /\ Tail(LocalOnly) = <<>>
    /\ Head(O2First) = "o2" /\ Tail(O2First) = WebOnly
    /\ Head(O2Only) = "o2" /\ Tail(O2Only) = <<>>
    /\ Head(WebOnly) = "web" /\ Tail(WebOnly) = <<>>
    /\ Head(MockOnly) = "mock" /\ Tail(MockOnly) = <<>>
  BY DEF ApiFirst, LocalOnly, O2First, O2Only, WebOnly, MockOnly

LEMMA QueuesDiffer ==
    /\ <<>> \notin {ApiFirst, LocalOnly, O2First, O2Only, WebOnly, MockOnly}
    /\ ApiFirst \notin {LocalOnly, O2First, O2Only, WebOnly, MockOnly}
    /\ LocalOnly \notin {O2First, O2Only, WebOnly, MockOnly}
    /\ O2First \notin {O2Only, WebOnly, MockOnly}
    /\ O2Only \notin {WebOnly, MockOnly} /\ WebOnly # MockOnly
<1>1. Len(ApiFirst) = 2 /\ Len(O2First) = 2 /\ Len(LocalOnly) = 1 /\ Len(O2Only) = 1
      /\ Len(WebOnly) = 1 /\ Len(MockOnly) = 1 /\ Len(<<>>) = 0
  BY DEF ApiFirst, LocalOnly, O2First, O2Only, WebOnly, MockOnly
<1> QED
  BY <1>1, Queues

LEMMA CompositeIsBoth ==
    ASSUME SourcingTypeOK PROVE Composite <=> turn.intent # "data" /\ setup.research = Both
<1>1. setup.research \in {{}, {"o2"}, {"web"}, Both}
  BY DEF SourcingTypeOK, Setups, Both
<1>2. Cardinality({}) = 0 /\ Cardinality({"o2"}) = 1 /\ Cardinality({"web"}) = 1
  BY FS_EmptySet, FS_Singleton
<1>3. Cardinality(Both) = 2
  <2>1. Both = {"o2"} \cup {"web"} /\ "web" \notin {"o2"} /\ IsFiniteSet({"o2"})
    BY FS_Singleton DEF Both
  <2>2. Cardinality({"o2"} \cup {"web"}) = Cardinality({"o2"}) + 1
    BY <2>1, FS_AddElement
  <2> QED
    BY <1>2, <2>1, <2>2
<1> QED
  BY <1>1, <1>2, <1>3 DEF Composite, Both

---------------------------------------------------------------------------
(* What the steps of a turn keep.                                          *)

LEMMA SwitchModelKeeps ==
    ASSUME SourcingFits, NEW m \in Models, SwitchModel(m)
    PROVE  SourcingFits'
<1>1. setup' = setup /\ turn' = turn /\ trace' = trace /\ chosen' = m
      /\ turn.step # "done" /\ switches < MaxSwitches /\ switches' = switches + 1
  BY DEF SwitchModel
<1>2. SourcingTypeOK'
  BY <1>1, SourcingAssumption DEF SourcingFits, SourcingTypeOK, Turn, Intents, Acquiring,
     Providers, Reviews
<1>3. StepFits'
  BY <1>1, SourcingAssumption DEF SourcingFits, StepFits, NobodyYet, Acquiring
<1>4. DataFits'
  BY <1>1, SourcingAssumption DEF SourcingFits, DataFits, NobodyYet
<1>5. ResearchFits'
  BY <1>1, SourcingAssumption DEF SourcingFits, ResearchFits, NobodyYet, Acquiring, Configured
<1>6. OthersFit'
  BY <1>1, SourcingAssumption DEF SourcingFits, OthersFit, NobodyYet, Acquiring
<1>7. FailedBeside'
  BY <1>1, SourcingAssumption DEF SourcingFits, FailedBeside
<1>8. BoardFits'
  BY <1>1, SourcingAssumption DEF SourcingFits, BoardFits
<1>9. TraceIsTrue'
  BY <1>1, SourcingAssumption DEF SourcingFits, TraceIsTrue
<1>10. RequestIsServed'
  BY <1>1, SourcingAssumption DEF SourcingFits, RequestIsServed
<1> QED
  BY <1>2, <1>3, <1>4, <1>5, <1>6, <1>7, <1>8, <1>9, <1>10 DEF SourcingFits

LEMMA CommandKeeps ==
    ASSUME SourcingFits, NEW intent \in Intents, Command(intent)
    PROVE  SourcingFits'
<1>0. turn.step = "idle" /\ intent \in Intents /\ intent # "none"
  BY DEF Command, Intents, Acquiring
<1>1. /\ setup' = setup /\ chosen' = chosen /\ trace' = trace /\ switches' = switches
      /\ turn'.step = "handle"
      /\ turn'.intent = intent
      /\ turn'.task = "running"
      /\ turn'.client = turn.client /\ turn'.ask = turn.ask /\ turn'.got = turn.got
      /\ turn'.failed = turn.failed /\ turn'.barren = turn.barren /\ turn'.request = turn.request
      /\ turn'.reply = turn.reply /\ turn'.gated = turn.gated /\ turn'.inbox = turn.inbox
      /\ turn'.used = turn.used /\ turn'.draft = turn.draft /\ turn'.author = turn.author
      /\ turn' \in Turn
  BY DEF Command, Proceed, SourcingFits, SourcingTypeOK, Turn
<1>2. SourcingTypeOK'
  BY <1>0, <1>1, QueuesDiffer DEF SourcingFits, SourcingTypeOK, Turn, Intents, Acquiring,
     Providers, Reviews
<1>3. StepFits'
  BY <1>0, <1>1, QueuesDiffer DEF SourcingFits, StepFits, NobodyYet, Acquiring
<1>4. DataFits'
  BY <1>0, <1>1, QueuesDiffer DEF SourcingFits, DataFits, NobodyYet, StepFits, DataAsks
<1>5. ResearchFits'
  BY <1>0, <1>1, QueuesDiffer DEF SourcingFits, ResearchFits, NobodyYet, Acquiring, Configured,
     StepFits, ResearchAsks
<1>6. OthersFit'
  BY <1>0, <1>1, QueuesDiffer DEF SourcingFits, OthersFit, NobodyYet, Acquiring, StepFits,
     BoardFits
<1>7. FailedBeside'
  BY <1>0, <1>1, QueuesDiffer DEF SourcingFits, FailedBeside
<1>8. BoardFits'
  BY <1>0, <1>1, QueuesDiffer DEF SourcingFits, BoardFits
<1>9. TraceIsTrue'
  BY <1>0, <1>1, QueuesDiffer DEF SourcingFits, TraceIsTrue
<1>10. RequestIsServed'
  BY <1>0, <1>1, QueuesDiffer DEF SourcingFits, RequestIsServed
<1> QED
  BY <1>2, <1>3, <1>4, <1>5, <1>6, <1>7, <1>8, <1>9, <1>10 DEF SourcingFits

LEMMA WriteKeeps ==
    ASSUME SourcingFits, Write
    PROVE  SourcingFits'
<1>0. turn.step = "idle" /\ ClientFits(ClientNow)
  BY ClientNowFits DEF Write, SourcingFits
<1>1. /\ setup' = setup /\ chosen' = chosen /\ trace' = trace /\ switches' = switches
      /\ turn'.step = "classify"
      /\ turn'.client = ClientNow
      /\ turn'.intent = turn.intent /\ turn'.ask = turn.ask /\ turn'.got = turn.got
      /\ turn'.failed = turn.failed /\ turn'.barren = turn.barren /\ turn'.request = turn.request
      /\ turn'.reply = turn.reply /\ turn'.gated = turn.gated /\ turn'.inbox = turn.inbox
      /\ turn'.used = turn.used /\ turn'.draft = turn.draft /\ turn'.task = turn.task
      /\ turn'.author = turn.author
      /\ turn' \in Turn
  BY <1>0, FitsIsClient DEF Write, Proceed, SourcingFits, SourcingTypeOK, Turn
<1>2. SourcingTypeOK'
  BY <1>0, <1>1 DEF SourcingFits, SourcingTypeOK, Turn, Intents, Acquiring, Providers, Reviews
<1>3. StepFits'
  BY <1>0, <1>1 DEF SourcingFits, StepFits, NobodyYet, Acquiring
<1>4. DataFits'
  BY <1>0, <1>1 DEF SourcingFits, DataFits, NobodyYet
<1>5. ResearchFits'
  BY <1>0, <1>1 DEF SourcingFits, ResearchFits, NobodyYet, Acquiring, Configured
<1>6. OthersFit'
  BY <1>0, <1>1 DEF SourcingFits, OthersFit, NobodyYet, Acquiring
<1>7. FailedBeside'
  BY <1>0, <1>1 DEF SourcingFits, FailedBeside
<1>8. BoardFits'
  BY <1>0, <1>1 DEF SourcingFits, BoardFits
<1>9. TraceIsTrue'
  BY <1>0, <1>1 DEF SourcingFits, TraceIsTrue
<1>10. RequestIsServed'
  BY <1>0, <1>1 DEF SourcingFits, RequestIsServed
<1> QED
  BY <1>2, <1>3, <1>4, <1>5, <1>6, <1>7, <1>8, <1>9, <1>10 DEF SourcingFits

LEMMA ClassifyKeeps ==
    ASSUME SourcingFits, Classify
    PROVE  SourcingFits'
<1>0. PICK left : /\ turn.step = "classify" /\ ClientFits(left)
                  /\ \/ Proceed([turn EXCEPT !.step = "chat", !.client = left])
                     \/ \E intent \in Intents :
                           Proceed([turn EXCEPT !.step = "handle", !.intent = intent,
                                                !.client = left, !.task = "running"])
  <2>1. CASE turn.client = NoClient /\ Proceed([turn EXCEPT !.step = "chat"])
    <3>1. [turn EXCEPT !.step = "chat"] = [turn EXCEPT !.step = "chat", !.client = turn.client]
      BY DEF SourcingFits, SourcingTypeOK, Turn
    <3> QED
      BY <2>1, <3>1 DEF Classify, SourcingFits, SourcingTypeOK
  <2>2. CASE turn.client # NoClient
    <3>1. \A replies \in AllReplies : ClientFits(Complete(turn.client, replies).client)
      BY <2>2, CallFits DEF SourcingFits, SourcingTypeOK
    <3> QED
      BY <2>2, <3>1 DEF Classify
  <2> QED
    BY <2>1, <2>2 DEF Classify
<1>1. CASE Proceed([turn EXCEPT !.step = "chat", !.client = left])
  <2>1. /\ setup' = setup /\ chosen' = chosen /\ trace' = trace /\ switches' = switches
        /\ turn'.step = "chat"
        /\ turn'.client = left
        /\ turn'.intent = turn.intent /\ turn'.ask = turn.ask /\ turn'.got = turn.got
        /\ turn'.failed = turn.failed /\ turn'.barren = turn.barren /\ turn'.request = turn.request
        /\ turn'.reply = turn.reply /\ turn'.gated = turn.gated /\ turn'.inbox = turn.inbox
        /\ turn'.used = turn.used /\ turn'.draft = turn.draft /\ turn'.task = turn.task
        /\ turn'.author = turn.author
        /\ turn' \in Turn
    BY <1>0, <1>1, FitsIsClient DEF Proceed, SourcingFits, SourcingTypeOK, Turn
  <2>2. SourcingTypeOK'
    BY <1>0, <2>1 DEF SourcingFits, SourcingTypeOK, Turn, Intents, Acquiring, Providers, Reviews
  <2>3. StepFits'
    BY <1>0, <2>1 DEF SourcingFits, StepFits, NobodyYet, Acquiring
  <2>4. DataFits'
    BY <1>0, <2>1 DEF SourcingFits, DataFits, NobodyYet
  <2>5. ResearchFits'
    BY <1>0, <2>1 DEF SourcingFits, ResearchFits, NobodyYet, Acquiring, Configured
  <2>6. OthersFit'
    BY <1>0, <2>1 DEF SourcingFits, OthersFit, NobodyYet, Acquiring
  <2>7. FailedBeside'
    BY <1>0, <2>1 DEF SourcingFits, FailedBeside
  <2>8. BoardFits'
    BY <1>0, <2>1 DEF SourcingFits, BoardFits
  <2>9. TraceIsTrue'
    BY <1>0, <2>1 DEF SourcingFits, TraceIsTrue
  <2>10. RequestIsServed'
    BY <1>0, <2>1 DEF SourcingFits, RequestIsServed
  <2> QED
    BY <2>2, <2>3, <2>4, <2>5, <2>6, <2>7, <2>8, <2>9, <2>10 DEF SourcingFits
<1>2. ASSUME NEW intent \in Intents,
             Proceed([turn EXCEPT !.step = "handle", !.intent = intent, !.client = left,
                                  !.task = "running"])
      PROVE  SourcingFits'
  <2>0. intent # "none"
    BY DEF Intents, Acquiring
  <2>1. /\ setup' = setup /\ chosen' = chosen /\ trace' = trace /\ switches' = switches
        /\ turn'.step = "handle"
        /\ turn'.intent = intent
        /\ turn'.client = left
        /\ turn'.task = "running"
        /\ turn'.ask = turn.ask /\ turn'.got = turn.got /\ turn'.failed = turn.failed
        /\ turn'.barren = turn.barren /\ turn'.request = turn.request /\ turn'.reply = turn.reply
        /\ turn'.gated = turn.gated /\ turn'.inbox = turn.inbox /\ turn'.used = turn.used
        /\ turn'.draft = turn.draft /\ turn'.author = turn.author
        /\ turn' \in Turn
    BY <1>0, <1>2, FitsIsClient DEF Proceed, SourcingFits, SourcingTypeOK, Turn
  <2>2. SourcingTypeOK'
    BY <1>0, <2>0, <2>1, QueuesDiffer DEF SourcingFits, SourcingTypeOK, Turn, Intents, Acquiring,
       Providers, Reviews
  <2>3. StepFits'
    BY <1>0, <2>0, <2>1, QueuesDiffer DEF SourcingFits, StepFits, NobodyYet, Acquiring
  <2>4. DataFits'
    BY <1>0, <2>0, <2>1, QueuesDiffer DEF SourcingFits, DataFits, NobodyYet, StepFits, DataAsks
  <2>5. ResearchFits'
    BY <1>0, <2>0, <2>1, QueuesDiffer DEF SourcingFits, ResearchFits, NobodyYet, Acquiring,
       Configured, StepFits, ResearchAsks
  <2>6. OthersFit'
    BY <1>0, <2>0, <2>1, QueuesDiffer DEF SourcingFits, OthersFit, NobodyYet, Acquiring, StepFits,
       BoardFits
  <2>7. FailedBeside'
    BY <1>0, <2>0, <2>1, QueuesDiffer DEF SourcingFits, FailedBeside
  <2>8. BoardFits'
    BY <1>0, <2>0, <2>1, QueuesDiffer DEF SourcingFits, BoardFits
  <2>9. TraceIsTrue'
    BY <1>0, <2>0, <2>1, QueuesDiffer DEF SourcingFits, TraceIsTrue
  <2>10. RequestIsServed'
    BY <1>0, <2>0, <2>1, QueuesDiffer DEF SourcingFits, RequestIsServed
  <2> QED
    BY <2>2, <2>3, <2>4, <2>5, <2>6, <2>7, <2>8, <2>9, <2>10 DEF SourcingFits
<1> QED
  BY <1>0, <1>1, <1>2

LEMMA ChatPlainlyKeeps ==
    ASSUME SourcingFits, ChatPlainly
    PROVE  SourcingFits'
<1>0. PICK replies \in AllReplies :
         /\ turn.step = "chat"
         /\ turn' = [turn EXCEPT !.step = "done", !.author = AuthorOf(turn.client, replies)]
         /\ trace' = PlainTrace(Written(turn.client, replies))
         /\ UNCHANGED <<setup, chosen, switches>>
  BY DEF ChatPlainly
<1> DEFINE author == AuthorOf(turn.client, replies)
           told == Written(turn.client, replies)
<1>a. /\ told \in Traces /\ author \in Models \cup {NoModel}
      /\ told.llm <=> author # NoModel
      /\ told.llm => /\ told.actual = author
                     /\ told.reason # "none" <=> told.actual # told.requested
                     /\ told.reason # "auth_error"
  BY WrittenFits DEF SourcingFits, SourcingTypeOK
<1>b. trace' \in Traces /\ trace'.llm = told.llm /\ trace'.actual = told.actual
      /\ trace'.requested = told.requested /\ trace'.reason = told.reason
  BY <1>0, <1>a DEF PlainTrace, Traces
<1> HIDE DEF author, told
<1>1. /\ setup' = setup /\ chosen' = chosen /\ switches' = switches
      /\ turn'.step = "done"
      /\ turn'.author = author
      /\ turn'.intent = turn.intent /\ turn'.client = turn.client /\ turn'.ask = turn.ask
      /\ turn'.got = turn.got /\ turn'.failed = turn.failed /\ turn'.barren = turn.barren
      /\ turn'.request = turn.request /\ turn'.reply = turn.reply /\ turn'.gated = turn.gated
      /\ turn'.inbox = turn.inbox /\ turn'.used = turn.used /\ turn'.draft = turn.draft
      /\ turn'.task = turn.task
      /\ turn' \in Turn
  BY <1>0, <1>a DEF SourcingFits, SourcingTypeOK, Turn, author
<1>2. SourcingTypeOK'
  BY <1>0, <1>a, <1>b, <1>1 DEF SourcingFits, SourcingTypeOK, Turn, Intents, Acquiring, Providers,
     Reviews
<1>3. StepFits'
  BY <1>0, <1>a, <1>b, <1>1 DEF SourcingFits, StepFits, NobodyYet, Acquiring
<1>4. DataFits'
  BY <1>0, <1>a, <1>b, <1>1 DEF SourcingFits, DataFits, NobodyYet
<1>5. ResearchFits'
  BY <1>0, <1>a, <1>b, <1>1 DEF SourcingFits, ResearchFits, NobodyYet, Acquiring, Configured
<1>6. OthersFit'
  BY <1>0, <1>a, <1>b, <1>1 DEF SourcingFits, OthersFit, NobodyYet, Acquiring
<1>7. FailedBeside'
  BY <1>0, <1>a, <1>b, <1>1 DEF SourcingFits, FailedBeside, StepFits, BoardFits, SourcingTypeOK,
     DataFits, ResearchFits, OthersFit, NobodyYet, Acquiring, Configured, RequestIsServed
<1>8. BoardFits'
  BY <1>0, <1>a, <1>b, <1>1 DEF SourcingFits, BoardFits
<1>9. TraceIsTrue'
  BY <1>0, <1>a, <1>b, <1>1 DEF SourcingFits, TraceIsTrue, StepFits, BoardFits, SourcingTypeOK,
     DataFits, ResearchFits, OthersFit, FailedBeside, NobodyYet, Acquiring, Configured,
     RequestIsServed
<1>10. RequestIsServed'
  BY <1>0, <1>a, <1>b, <1>1 DEF SourcingFits, RequestIsServed, StepFits, BoardFits
<1> QED
  BY <1>2, <1>3, <1>4, <1>5, <1>6, <1>7, <1>8, <1>9, <1>10 DEF SourcingFits

LEMMA SearchMemoryKeeps ==
    ASSUME SourcingFits, SearchMemory
    PROVE  SourcingFits'
<1>0. turn.step = "handle" /\ turn.intent = "memory"
  BY DEF SearchMemory
<1>1. CASE Proceed([turn EXCEPT !.step = "answer", !.got = {"memory_index"}])
  <2>1. /\ setup' = setup /\ chosen' = chosen /\ trace' = trace /\ switches' = switches
        /\ turn'.step = "answer"
        /\ turn'.got = {"memory_index"}
        /\ turn'.intent = turn.intent /\ turn'.client = turn.client /\ turn'.ask = turn.ask
        /\ turn'.failed = turn.failed /\ turn'.barren = turn.barren /\ turn'.request = turn.request
        /\ turn'.reply = turn.reply /\ turn'.gated = turn.gated /\ turn'.inbox = turn.inbox
        /\ turn'.used = turn.used /\ turn'.draft = turn.draft /\ turn'.task = turn.task
        /\ turn'.author = turn.author
        /\ turn' \in Turn
    BY <1>1 DEF Proceed, SourcingFits, SourcingTypeOK, Turn, Providers, Reviews
  <2>2. SourcingTypeOK'
    BY <1>0, <2>1 DEF SourcingFits, SourcingTypeOK, Turn, Intents, Acquiring, Providers, Reviews
  <2>3. StepFits'
    BY <1>0, <2>1 DEF SourcingFits, StepFits, NobodyYet, Acquiring
  <2>4. DataFits'
    BY <1>0, <2>1 DEF SourcingFits, DataFits, NobodyYet
  <2>5. ResearchFits'
    BY <1>0, <2>1 DEF SourcingFits, ResearchFits, NobodyYet, Acquiring, Configured
  <2>6. OthersFit'
    BY <1>0, <2>1 DEF SourcingFits, OthersFit, NobodyYet, Acquiring, StepFits, BoardFits
  <2>7. FailedBeside'
    BY <1>0, <2>1 DEF SourcingFits, FailedBeside
  <2>8. BoardFits'
    BY <1>0, <2>1 DEF SourcingFits, BoardFits
  <2>9. TraceIsTrue'
    BY <1>0, <2>1 DEF SourcingFits, TraceIsTrue
  <2>10. RequestIsServed'
    BY <1>0, <2>1 DEF SourcingFits, RequestIsServed
  <2> QED
    BY <2>2, <2>3, <2>4, <2>5, <2>6, <2>7, <2>8, <2>9, <2>10 DEF SourcingFits
<1>2. CASE Proceed([turn EXCEPT !.step = "answer", !.request = TRUE, !.task = "waiting"])
  <2>1. /\ setup' = setup /\ chosen' = chosen /\ trace' = trace /\ switches' = switches
        /\ turn'.step = "answer"
        /\ turn'.request = TRUE
        /\ turn'.task = "waiting"
        /\ turn'.intent = turn.intent /\ turn'.client = turn.client /\ turn'.ask = turn.ask
        /\ turn'.got = turn.got /\ turn'.failed = turn.failed /\ turn'.barren = turn.barren
        /\ turn'.reply = turn.reply /\ turn'.gated = turn.gated /\ turn'.inbox = turn.inbox
        /\ turn'.used = turn.used /\ turn'.draft = turn.draft /\ turn'.author = turn.author
        /\ turn' \in Turn
    BY <1>2 DEF Proceed, SourcingFits, SourcingTypeOK, Turn, Providers, Reviews
  <2>2. SourcingTypeOK'
    BY <1>0, <2>1 DEF SourcingFits, SourcingTypeOK, Turn, Intents, Acquiring, Providers, Reviews
  <2>3. StepFits'
    BY <1>0, <2>1 DEF SourcingFits, StepFits, NobodyYet, Acquiring
  <2>4. DataFits'
    BY <1>0, <2>1 DEF SourcingFits, DataFits, NobodyYet
  <2>5. ResearchFits'
    BY <1>0, <2>1 DEF SourcingFits, ResearchFits, NobodyYet, Acquiring, Configured
  <2>6. OthersFit'
    BY <1>0, <2>1 DEF SourcingFits, OthersFit, NobodyYet, Acquiring
  <2>7. FailedBeside'
    BY <1>0, <2>1 DEF SourcingFits, FailedBeside, StepFits, BoardFits, SourcingTypeOK, DataFits,
       ResearchFits, OthersFit, NobodyYet, Acquiring, Configured, RequestIsServed
  <2>8. BoardFits'
    BY <1>0, <2>1 DEF SourcingFits, BoardFits
  <2>9. TraceIsTrue'
    BY <1>0, <2>1 DEF SourcingFits, TraceIsTrue
  <2>10. RequestIsServed'
    BY <1>0, <2>1 DEF SourcingFits, RequestIsServed
  <2> QED
    BY <2>2, <2>3, <2>4, <2>5, <2>6, <2>7, <2>8, <2>9, <2>10 DEF SourcingFits
<1> QED
  BY <1>1, <1>2 DEF SearchMemory

LEMMA QueryDataKeeps ==
    ASSUME SourcingFits, QueryData
    PROVE  SourcingFits'
<1>0. turn.step = "handle" /\ turn.intent = "data"
  BY DEF QueryData
<1>1. CASE Proceed([[turn EXCEPT !.request = TRUE] EXCEPT !.step = "ask", !.ask = Connectors])
  <2>0. Connectors = IF setup.api THEN ApiFirst ELSE LocalOnly
    BY DEF Connectors, ApiFirst, LocalOnly
  <2>1. /\ setup' = setup /\ chosen' = chosen /\ trace' = trace /\ switches' = switches
        /\ turn'.step = "ask"
        /\ turn'.ask = Connectors
        /\ turn'.request = TRUE
        /\ turn'.intent = turn.intent /\ turn'.client = turn.client /\ turn'.got = turn.got
        /\ turn'.failed = turn.failed /\ turn'.barren = turn.barren /\ turn'.reply = turn.reply
        /\ turn'.gated = turn.gated /\ turn'.inbox = turn.inbox /\ turn'.used = turn.used
        /\ turn'.draft = turn.draft /\ turn'.task = turn.task /\ turn'.author = turn.author
        /\ turn' \in Turn
    BY <1>1, <2>0 DEF Proceed, SourcingFits, SourcingTypeOK, Turn, DataAsks
  <2>2. SourcingTypeOK'
    BY <1>0, <2>0, <2>1, QueuesDiffer DEF SourcingFits, SourcingTypeOK, Turn, Intents, Acquiring,
       Providers, Reviews
  <2>3. StepFits'
    BY <1>0, <2>0, <2>1, QueuesDiffer DEF SourcingFits, StepFits, NobodyYet, Acquiring
  <2>4. DataFits'
    BY <1>0, <2>0, <2>1, QueuesDiffer DEF SourcingFits, DataFits, NobodyYet, StepFits, BoardFits,
       SourcingTypeOK, ResearchFits, OthersFit, FailedBeside, Acquiring, Configured,
       RequestIsServed, Turn, Intents, Both, DataAsks, ResearchAsks
  <2>5. ResearchFits'
    BY <1>0, <2>0, <2>1, QueuesDiffer DEF SourcingFits, ResearchFits, NobodyYet, Acquiring,
       Configured
  <2>6. OthersFit'
    BY <1>0, <2>0, <2>1, QueuesDiffer DEF SourcingFits, OthersFit, NobodyYet, Acquiring
  <2>7. FailedBeside'
    BY <1>0, <2>0, <2>1, QueuesDiffer DEF SourcingFits, FailedBeside
  <2>8. BoardFits'
    BY <1>0, <2>0, <2>1, QueuesDiffer DEF SourcingFits, BoardFits
  <2>9. TraceIsTrue'
    BY <1>0, <2>0, <2>1, QueuesDiffer DEF SourcingFits, TraceIsTrue
  <2>10. RequestIsServed'
    BY <1>0, <2>0, <2>1, QueuesDiffer DEF SourcingFits, RequestIsServed
  <2> QED
    BY <2>2, <2>3, <2>4, <2>5, <2>6, <2>7, <2>8, <2>9, <2>10 DEF SourcingFits
<1>2. CASE Raised([turn EXCEPT !.request = TRUE])
  <2>1. /\ setup' = setup /\ chosen' = chosen /\ trace' = trace /\ switches' = switches
        /\ turn'.step = "raised"
        /\ turn'.request = TRUE
        /\ turn'.task = "failed"
        /\ turn'.intent = turn.intent /\ turn'.client = turn.client /\ turn'.ask = turn.ask
        /\ turn'.got = turn.got /\ turn'.failed = turn.failed /\ turn'.barren = turn.barren
        /\ turn'.reply = turn.reply /\ turn'.gated = turn.gated /\ turn'.inbox = turn.inbox
        /\ turn'.used = turn.used /\ turn'.draft = turn.draft /\ turn'.author = turn.author
        /\ turn' \in Turn
    BY <1>2 DEF Raised, Proceed, SourcingFits, SourcingTypeOK, Turn
  <2>2. SourcingTypeOK'
    BY <1>0, <2>1 DEF SourcingFits, SourcingTypeOK, Turn, Intents, Acquiring, Providers, Reviews
  <2>3. StepFits'
    BY <1>0, <2>1 DEF SourcingFits, StepFits, NobodyYet, Acquiring
  <2>4. DataFits'
    BY <1>0, <2>1 DEF SourcingFits, DataFits, NobodyYet
  <2>5. ResearchFits'
    BY <1>0, <2>1 DEF SourcingFits, ResearchFits, NobodyYet, Acquiring, Configured
  <2>6. OthersFit'
    BY <1>0, <2>1 DEF SourcingFits, OthersFit, NobodyYet, Acquiring
  <2>7. FailedBeside'
    BY <1>0, <2>1 DEF SourcingFits, FailedBeside
  <2>8. BoardFits'
    BY <1>0, <2>1 DEF SourcingFits, BoardFits
  <2>9. TraceIsTrue'
    BY <1>0, <2>1 DEF SourcingFits, TraceIsTrue
  <2>10. RequestIsServed'
    BY <1>0, <2>1 DEF SourcingFits, RequestIsServed
  <2> QED
    BY <2>2, <2>3, <2>4, <2>5, <2>6, <2>7, <2>8, <2>9, <2>10 DEF SourcingFits
<1> QED
  BY <1>1, <1>2 DEF QueryData

LEMMA GateKeeps ==
    ASSUME SourcingFits, Gate
    PROVE  SourcingFits'
<1>0. turn.step = "handle" /\ turn.intent \in Acquiring
  BY DEF Gate
<1>1. CASE Proceed([[turn EXCEPT !.request = TRUE] EXCEPT !.step = "documents"])
  <2>1. /\ setup' = setup /\ chosen' = chosen /\ trace' = trace /\ switches' = switches
        /\ turn'.step = "documents"
        /\ turn'.request = TRUE
        /\ turn'.intent = turn.intent /\ turn'.client = turn.client /\ turn'.ask = turn.ask
        /\ turn'.got = turn.got /\ turn'.failed = turn.failed /\ turn'.barren = turn.barren
        /\ turn'.reply = turn.reply /\ turn'.gated = turn.gated /\ turn'.inbox = turn.inbox
        /\ turn'.used = turn.used /\ turn'.draft = turn.draft /\ turn'.task = turn.task
        /\ turn'.author = turn.author
        /\ turn' \in Turn
    BY <1>1 DEF Proceed, SourcingFits, SourcingTypeOK, Turn
  <2>2. SourcingTypeOK'
    BY <1>0, <2>1 DEF SourcingFits, SourcingTypeOK, Turn, Intents, Acquiring, Providers, Reviews
  <2>3. StepFits'
    BY <1>0, <2>1 DEF SourcingFits, StepFits, NobodyYet, Acquiring
  <2>4. DataFits'
    BY <1>0, <2>1 DEF SourcingFits, DataFits, NobodyYet
  <2>5. ResearchFits'
    BY <1>0, <2>1 DEF SourcingFits, ResearchFits, NobodyYet, Acquiring, Configured
  <2>6. OthersFit'
    BY <1>0, <2>1 DEF SourcingFits, OthersFit, NobodyYet, Acquiring
  <2>7. FailedBeside'
    BY <1>0, <2>1 DEF SourcingFits, FailedBeside
  <2>8. BoardFits'
    BY <1>0, <2>1 DEF SourcingFits, BoardFits
  <2>9. TraceIsTrue'
    BY <1>0, <2>1 DEF SourcingFits, TraceIsTrue
  <2>10. RequestIsServed'
    BY <1>0, <2>1 DEF SourcingFits, RequestIsServed
  <2> QED
    BY <2>2, <2>3, <2>4, <2>5, <2>6, <2>7, <2>8, <2>9, <2>10 DEF SourcingFits
<1>2. CASE Proceed([[turn EXCEPT !.request = TRUE] EXCEPT !.step = "answer", !.gated = TRUE,
                             !.task = "waiting", !.inbox = {"tool_call_approval"}])
  <2>1. /\ setup' = setup /\ chosen' = chosen /\ trace' = trace /\ switches' = switches
        /\ turn'.step = "answer"
        /\ turn'.request = TRUE
        /\ turn'.gated = TRUE
        /\ turn'.inbox = {"tool_call_approval"}
        /\ turn'.task = "waiting"
        /\ turn'.intent = turn.intent /\ turn'.client = turn.client /\ turn'.ask = turn.ask
        /\ turn'.got = turn.got /\ turn'.failed = turn.failed /\ turn'.barren = turn.barren
        /\ turn'.reply = turn.reply /\ turn'.used = turn.used /\ turn'.draft = turn.draft
        /\ turn'.author = turn.author
        /\ turn' \in Turn
    BY <1>2 DEF Proceed, SourcingFits, SourcingTypeOK, Turn, Reviews
  <2>2. SourcingTypeOK'
    BY <1>0, <2>1 DEF SourcingFits, SourcingTypeOK, Turn, Intents, Acquiring, Providers, Reviews
  <2>3. StepFits'
    BY <1>0, <2>1 DEF SourcingFits, StepFits, NobodyYet, Acquiring
  <2>4. DataFits'
    BY <1>0, <2>1 DEF SourcingFits, DataFits, NobodyYet
  <2>5. ResearchFits'
    BY <1>0, <2>1 DEF SourcingFits, ResearchFits, NobodyYet, Acquiring, Configured
  <2>6. OthersFit'
    BY <1>0, <2>1 DEF SourcingFits, OthersFit, NobodyYet, Acquiring, StepFits, BoardFits
  <2>7. FailedBeside'
    BY <1>0, <2>1 DEF SourcingFits, FailedBeside, StepFits, BoardFits, SourcingTypeOK, DataFits,
       ResearchFits, OthersFit, NobodyYet, Acquiring, Configured, RequestIsServed
  <2>8. BoardFits'
    BY <1>0, <2>1 DEF SourcingFits, BoardFits
  <2>9. TraceIsTrue'
    BY <1>0, <2>1 DEF SourcingFits, TraceIsTrue
  <2>10. RequestIsServed'
    BY <1>0, <2>1 DEF SourcingFits, RequestIsServed, StepFits, BoardFits
  <2> QED
    BY <2>2, <2>3, <2>4, <2>5, <2>6, <2>7, <2>8, <2>9, <2>10 DEF SourcingFits
<1> QED
  BY <1>1, <1>2 DEF Gate

LEMMA LookIntoDocumentsKeeps ==
    ASSUME SourcingFits, LookIntoDocuments
    PROVE  SourcingFits'
<1>0. turn.step = "documents" /\ turn.intent \in Acquiring
  BY DEF LookIntoDocuments, SourcingFits, StepFits
<1>1. CASE Proceed([turn EXCEPT !.step = "assess", !.got = {"documents"}])
  <2>1. /\ setup' = setup /\ chosen' = chosen /\ trace' = trace /\ switches' = switches
        /\ turn'.step = "assess"
        /\ turn'.got = {"documents"}
        /\ turn'.intent = turn.intent /\ turn'.client = turn.client /\ turn'.ask = turn.ask
        /\ turn'.failed = turn.failed /\ turn'.barren = turn.barren /\ turn'.request = turn.request
        /\ turn'.reply = turn.reply /\ turn'.gated = turn.gated /\ turn'.inbox = turn.inbox
        /\ turn'.used = turn.used /\ turn'.draft = turn.draft /\ turn'.task = turn.task
        /\ turn'.author = turn.author
        /\ turn' \in Turn
    BY <1>1 DEF Proceed, SourcingFits, SourcingTypeOK, Turn, Providers
  <2>2. SourcingTypeOK'
    BY <1>0, <2>1, QueuesDiffer DEF SourcingFits, SourcingTypeOK, Turn, Intents, Acquiring,
       Providers, Reviews
  <2>3. StepFits'
    BY <1>0, <2>1, QueuesDiffer DEF SourcingFits, StepFits, NobodyYet, Acquiring
  <2>4. DataFits'
    BY <1>0, <2>1, QueuesDiffer DEF SourcingFits, DataFits, NobodyYet, StepFits, BoardFits,
       SourcingTypeOK, ResearchFits, OthersFit, FailedBeside, Acquiring, Configured,
       RequestIsServed
  <2>5. ResearchFits'
    BY <1>0, <2>1, QueuesDiffer DEF SourcingFits, ResearchFits, NobodyYet, Acquiring, Configured,
       StepFits, BoardFits
  <2>6. OthersFit'
    BY <1>0, <2>1, QueuesDiffer DEF SourcingFits, OthersFit, NobodyYet, Acquiring, StepFits,
       BoardFits
  <2>7. FailedBeside'
    BY <1>0, <2>1, QueuesDiffer DEF SourcingFits, FailedBeside
  <2>8. BoardFits'
    BY <1>0, <2>1, QueuesDiffer DEF SourcingFits, BoardFits
  <2>9. TraceIsTrue'
    BY <1>0, <2>1, QueuesDiffer DEF SourcingFits, TraceIsTrue
  <2>10. RequestIsServed'
    BY <1>0, <2>1, QueuesDiffer DEF SourcingFits, RequestIsServed
  <2> QED
    BY <2>2, <2>3, <2>4, <2>5, <2>6, <2>7, <2>8, <2>9, <2>10 DEF SourcingFits
<1>2. CASE Proceed([turn EXCEPT !.step = "ask", !.ask = Researchers])
  <2>0. /\ setup.research = Both => Researchers = O2First
        /\ setup.research = {"o2"} => Researchers = O2Only
        /\ setup.research = {"web"} => Researchers = WebOnly
        /\ setup.research = {} => Researchers = MockOnly
        /\ setup.research \in {Both, {"o2"}, {"web"}, {}}
    <3>1. setup.research \in {Both, {"o2"}, {"web"}, {}}
      BY DEF SourcingFits, SourcingTypeOK, Setups, Both
    <3> QED
      BY <3>1 DEF Researchers, Both, O2First, O2Only, WebOnly, MockOnly
  <2>1. /\ setup' = setup /\ chosen' = chosen /\ trace' = trace /\ switches' = switches
        /\ turn'.step = "ask"
        /\ turn'.ask = Researchers
        /\ turn'.intent = turn.intent /\ turn'.client = turn.client /\ turn'.got = turn.got
        /\ turn'.failed = turn.failed /\ turn'.barren = turn.barren /\ turn'.request = turn.request
        /\ turn'.reply = turn.reply /\ turn'.gated = turn.gated /\ turn'.inbox = turn.inbox
        /\ turn'.used = turn.used /\ turn'.draft = turn.draft /\ turn'.task = turn.task
        /\ turn'.author = turn.author
        /\ turn' \in Turn
    BY <1>2, <2>0 DEF Proceed, SourcingFits, SourcingTypeOK, Turn, ResearchAsks
  <2>2. SourcingTypeOK'
    BY <1>0, <2>0, <2>1, QueuesDiffer DEF SourcingFits, SourcingTypeOK, Turn, Intents, Acquiring,
       Providers, Reviews
  <2>3. StepFits'
    BY <1>0, <2>0, <2>1, QueuesDiffer DEF SourcingFits, StepFits, NobodyYet, Acquiring
  <2>4. DataFits'
    BY <1>0, <2>0, <2>1, QueuesDiffer DEF SourcingFits, DataFits, NobodyYet, Acquiring
  <2>5. ResearchFits'
    BY <1>0, <2>0, <2>1, QueuesDiffer DEF SourcingFits, ResearchFits, NobodyYet, Acquiring,
       Configured, StepFits, BoardFits, Both, ResearchAsks
  <2>6. OthersFit'
    BY <1>0, <2>0, <2>1, QueuesDiffer DEF SourcingFits, OthersFit, NobodyYet, Acquiring
  <2>7. FailedBeside'
    BY <1>0, <2>0, <2>1, QueuesDiffer DEF SourcingFits, FailedBeside
  <2>8. BoardFits'
    BY <1>0, <2>0, <2>1, QueuesDiffer DEF SourcingFits, BoardFits
  <2>9. TraceIsTrue'
    BY <1>0, <2>0, <2>1, QueuesDiffer DEF SourcingFits, TraceIsTrue
  <2>10. RequestIsServed'
    BY <1>0, <2>0, <2>1, QueuesDiffer DEF SourcingFits, RequestIsServed
  <2> QED
    BY <2>2, <2>3, <2>4, <2>5, <2>6, <2>7, <2>8, <2>9, <2>10 DEF SourcingFits
<1> QED
  BY <1>1, <1>2 DEF LookIntoDocuments

LEMMA ReviewRiskKeeps ==
    ASSUME SourcingFits, ReviewRisk
    PROVE  SourcingFits'
<1>0. turn.step = "handle" /\ turn.intent = "risk"
  BY DEF ReviewRisk
<1>1. /\ setup' = setup /\ chosen' = chosen /\ trace' = trace /\ switches' = switches
      /\ turn'.step = "answer"
      /\ turn'.request = TRUE
      /\ turn'.reply = "risk"
      /\ turn'.intent = turn.intent /\ turn'.client = turn.client /\ turn'.ask = turn.ask
      /\ turn'.got = turn.got /\ turn'.failed = turn.failed /\ turn'.barren = turn.barren
      /\ turn'.gated = turn.gated /\ turn'.inbox = turn.inbox /\ turn'.used = turn.used
      /\ turn'.draft = turn.draft /\ turn'.task = turn.task /\ turn'.author = turn.author
      /\ turn' \in Turn
  BY DEF ReviewRisk, Proceed, SourcingFits, SourcingTypeOK, Turn
<1>2. SourcingTypeOK'
  BY <1>0, <1>1 DEF SourcingFits, SourcingTypeOK, Turn, Intents, Acquiring, Providers, Reviews
<1>3. StepFits'
  BY <1>0, <1>1 DEF SourcingFits, StepFits, NobodyYet, Acquiring
<1>4. DataFits'
  BY <1>0, <1>1 DEF SourcingFits, DataFits, NobodyYet
<1>5. ResearchFits'
  BY <1>0, <1>1 DEF SourcingFits, ResearchFits, NobodyYet, Acquiring, Configured
<1>6. OthersFit'
  BY <1>0, <1>1 DEF SourcingFits, OthersFit, NobodyYet, Acquiring
<1>7. FailedBeside'
  BY <1>0, <1>1 DEF SourcingFits, FailedBeside, StepFits, BoardFits, SourcingTypeOK, DataFits,
     ResearchFits, OthersFit, NobodyYet, Acquiring, Configured, RequestIsServed
<1>8. BoardFits'
  BY <1>0, <1>1 DEF SourcingFits, BoardFits
<1>9. TraceIsTrue'
  BY <1>0, <1>1 DEF SourcingFits, TraceIsTrue
<1>10. RequestIsServed'
  BY <1>0, <1>1 DEF SourcingFits, RequestIsServed
<1> QED
  BY <1>2, <1>3, <1>4, <1>5, <1>6, <1>7, <1>8, <1>9, <1>10 DEF SourcingFits

LEMMA TakeNoteKeeps ==
    ASSUME SourcingFits, TakeNote
    PROVE  SourcingFits'
<1>0. turn.step = "handle" /\ turn.intent = "note"
  BY DEF TakeNote
<1>1. /\ setup' = setup /\ chosen' = chosen /\ trace' = trace /\ switches' = switches
      /\ turn'.step = "answer"
      /\ turn'.intent = turn.intent /\ turn'.client = turn.client /\ turn'.ask = turn.ask
      /\ turn'.got = turn.got /\ turn'.failed = turn.failed /\ turn'.barren = turn.barren
      /\ turn'.request = turn.request /\ turn'.reply = turn.reply /\ turn'.gated = turn.gated
      /\ turn'.inbox = turn.inbox /\ turn'.used = turn.used /\ turn'.draft = turn.draft
      /\ turn'.task = turn.task /\ turn'.author = turn.author
      /\ turn' \in Turn
  BY DEF TakeNote, Proceed, SourcingFits, SourcingTypeOK, Turn
<1>2. SourcingTypeOK'
  BY <1>0, <1>1 DEF SourcingFits, SourcingTypeOK, Turn, Intents, Acquiring, Providers, Reviews
<1>3. StepFits'
  BY <1>0, <1>1 DEF SourcingFits, StepFits, NobodyYet, Acquiring
<1>4. DataFits'
  BY <1>0, <1>1 DEF SourcingFits, DataFits, NobodyYet
<1>5. ResearchFits'
  BY <1>0, <1>1 DEF SourcingFits, ResearchFits, NobodyYet, Acquiring, Configured
<1>6. OthersFit'
  BY <1>0, <1>1 DEF SourcingFits, OthersFit, NobodyYet, Acquiring
<1>7. FailedBeside'
  BY <1>0, <1>1 DEF SourcingFits, FailedBeside, StepFits, BoardFits, SourcingTypeOK, DataFits,
     ResearchFits, OthersFit, NobodyYet, Acquiring, Configured, RequestIsServed
<1>8. BoardFits'
  BY <1>0, <1>1 DEF SourcingFits, BoardFits
<1>9. TraceIsTrue'
  BY <1>0, <1>1 DEF SourcingFits, TraceIsTrue
<1>10. RequestIsServed'
  BY <1>0, <1>1 DEF SourcingFits, RequestIsServed
<1> QED
  BY <1>2, <1>3, <1>4, <1>5, <1>6, <1>7, <1>8, <1>9, <1>10 DEF SourcingFits

LEMMA AskConnectorKeeps ==
    ASSUME SourcingFits, AskConnector
    PROVE  SourcingFits'
<1> DEFINE p == Head(turn.ask)
<1>0. turn.step = "ask" /\ turn.intent = "data" /\ turn.got = {} /\ turn.ask \in {ApiFirst, LocalOnly}
  BY DEF AskConnector, SourcingFits, DataFits, DataAsks
<1>a. PICK outcome \in ConnectorOutcomes(p) : Proceed(After(outcome))
  BY DEF AskConnector
<1>b. outcome \in {"material", "failed", "barren"} /\ p \in Providers
  BY <1>0, Queues DEF ConnectorOutcomes, Providers
<1>c. \/ turn.ask = ApiFirst /\ p = "api" /\ Tail(turn.ask) = LocalOnly
      \/ /\ turn.ask = LocalOnly /\ p = "local_metrics" /\ Tail(turn.ask) = <<>>
         /\ outcome = "material"
  BY <1>0, <1>a, Queues, QueuesDiffer DEF ConnectorOutcomes, IsSample, DataAsks
<1>d. turn.ask # <<>> /\ Tail(turn.ask) \in DataAsks
  BY <1>0, Queues, QueuesDiffer DEF DataAsks
<1> HIDE DEF p
<1>1. /\ setup' = setup /\ chosen' = chosen /\ trace' = trace /\ switches' = switches
      /\ turn'.ask = Tail(turn.ask)
      /\ turn'.got = IF outcome = "material" THEN turn.got \cup {p} ELSE turn.got
      /\ turn'.failed = IF outcome = "failed" THEN turn.failed \cup {p} ELSE turn.failed
      /\ turn'.barren = IF outcome = "barren" THEN turn.barren \cup {p} ELSE turn.barren
      /\ turn'.step = turn.step /\ turn'.intent = turn.intent /\ turn'.client = turn.client
      /\ turn'.request = turn.request /\ turn'.reply = turn.reply /\ turn'.gated = turn.gated
      /\ turn'.inbox = turn.inbox /\ turn'.used = turn.used /\ turn'.draft = turn.draft
      /\ turn'.task = turn.task /\ turn'.author = turn.author
      /\ turn' \in Turn
  BY <1>a, <1>b, <1>d DEF Proceed, After, p, DataAsks, ResearchAsks, SourcingFits, SourcingTypeOK,
     Turn
<1>2. SourcingTypeOK'
  BY <1>0, <1>b, <1>c, <1>1, Queues, QueuesDiffer DEF SourcingFits, SourcingTypeOK, Turn, Intents,
     Acquiring, Providers, Reviews
<1>3. StepFits'
  BY <1>0, <1>b, <1>c, <1>1, Queues, QueuesDiffer DEF SourcingFits, StepFits, NobodyYet, Acquiring
<1>4. DataFits'
  BY <1>0, <1>b, <1>c, <1>1, Queues, QueuesDiffer DEF SourcingFits, DataFits, NobodyYet, StepFits,
     BoardFits, SourcingTypeOK, ResearchFits, OthersFit, FailedBeside, Acquiring, Configured,
     RequestIsServed, DataAsks
<1>5. ResearchFits'
  BY <1>0, <1>b, <1>c, <1>1, Queues, QueuesDiffer DEF SourcingFits, ResearchFits, NobodyYet,
     Acquiring, Configured
<1>6. OthersFit'
  BY <1>0, <1>b, <1>c, <1>1, Queues, QueuesDiffer DEF SourcingFits, OthersFit, NobodyYet,
     Acquiring, StepFits, BoardFits
<1>7. FailedBeside'
  BY <1>0, <1>b, <1>c, <1>1, Queues, QueuesDiffer DEF SourcingFits, FailedBeside
<1>8. BoardFits'
  BY <1>0, <1>b, <1>c, <1>1, Queues, QueuesDiffer DEF SourcingFits, BoardFits
<1>9. TraceIsTrue'
  BY <1>0, <1>b, <1>c, <1>1, Queues, QueuesDiffer DEF SourcingFits, TraceIsTrue
<1>10. RequestIsServed'
  BY <1>0, <1>b, <1>c, <1>1, Queues, QueuesDiffer DEF SourcingFits, RequestIsServed
<1> QED
  BY <1>2, <1>3, <1>4, <1>5, <1>6, <1>7, <1>8, <1>9, <1>10 DEF SourcingFits

LEMMA AskResearcherKeeps ==
    ASSUME SourcingFits, AskResearcher
    PROVE  SourcingFits'
<1> DEFINE p == Head(turn.ask)
<1>0. /\ turn.step = "ask" /\ turn.intent \in Acquiring /\ turn.intent # "data"
      /\ turn.ask \in {O2First, O2Only, WebOnly, MockOnly}
  BY DEF AskResearcher, SourcingFits, StepFits, ResearchFits, ResearchAsks
<1>a. PICK outcome \in AgentOutcomes(p) : Proceed(After(outcome))
  BY DEF AskResearcher
<1>b. outcome \in {"material", "failed", "barren"} /\ p \in Providers
  BY <1>0, Queues DEF AgentOutcomes, Providers
<1>c. \/ turn.ask = O2First /\ p = "o2" /\ Tail(turn.ask) = WebOnly
      \/ turn.ask = O2Only /\ p = "o2" /\ Tail(turn.ask) = <<>>
      \/ turn.ask = WebOnly /\ p = "web" /\ Tail(turn.ask) = <<>>
      \/ turn.ask = MockOnly /\ p = "mock" /\ Tail(turn.ask) = <<>>
  BY <1>0, <1>a, Queues, QueuesDiffer DEF AgentOutcomes, IsSample, ResearchAsks
<1>d. turn.ask # <<>> /\ Tail(turn.ask) \in ResearchAsks
  BY <1>0, Queues, QueuesDiffer DEF ResearchAsks
<1> HIDE DEF p
<1>1. /\ setup' = setup /\ chosen' = chosen /\ trace' = trace /\ switches' = switches
      /\ turn'.ask = Tail(turn.ask)
      /\ turn'.got = IF outcome = "material" THEN turn.got \cup {p} ELSE turn.got
      /\ turn'.failed = IF outcome = "failed" THEN turn.failed \cup {p} ELSE turn.failed
      /\ turn'.barren = IF outcome = "barren" THEN turn.barren \cup {p} ELSE turn.barren
      /\ turn'.step = turn.step /\ turn'.intent = turn.intent /\ turn'.client = turn.client
      /\ turn'.request = turn.request /\ turn'.reply = turn.reply /\ turn'.gated = turn.gated
      /\ turn'.inbox = turn.inbox /\ turn'.used = turn.used /\ turn'.draft = turn.draft
      /\ turn'.task = turn.task /\ turn'.author = turn.author
      /\ turn' \in Turn
  BY <1>a, <1>b, <1>d DEF Proceed, After, p, DataAsks, ResearchAsks, SourcingFits, SourcingTypeOK,
     Turn
<1>2. SourcingTypeOK'
  BY <1>0, <1>b, <1>c, <1>1, Queues, QueuesDiffer DEF SourcingFits, SourcingTypeOK, Turn, Intents,
     Acquiring, Providers, Reviews
<1>3. StepFits'
  BY <1>0, <1>b, <1>c, <1>1, Queues, QueuesDiffer DEF SourcingFits, StepFits, NobodyYet, Acquiring
<1>4. DataFits'
  BY <1>0, <1>b, <1>c, <1>1, Queues, QueuesDiffer DEF SourcingFits, DataFits, NobodyYet
<1>5. ResearchFits'
  BY <1>0, <1>b, <1>c, <1>1, Queues, QueuesDiffer DEF SourcingFits, ResearchFits, NobodyYet,
     Acquiring, Configured, ResearchAsks, Both
<1>6. OthersFit'
  BY <1>0, <1>b, <1>c, <1>1, Queues, QueuesDiffer DEF SourcingFits, OthersFit, NobodyYet,
     Acquiring, StepFits, BoardFits
<1>7. FailedBeside'
  BY <1>0, <1>b, <1>c, <1>1, Queues, QueuesDiffer DEF SourcingFits, FailedBeside
<1>8. BoardFits'
  BY <1>0, <1>b, <1>c, <1>1, Queues, QueuesDiffer DEF SourcingFits, BoardFits
<1>9. TraceIsTrue'
  BY <1>0, <1>b, <1>c, <1>1, Queues, QueuesDiffer DEF SourcingFits, TraceIsTrue
<1>10. RequestIsServed'
  BY <1>0, <1>b, <1>c, <1>1, Queues, QueuesDiffer DEF SourcingFits, RequestIsServed
<1> QED
  BY <1>2, <1>3, <1>4, <1>5, <1>6, <1>7, <1>8, <1>9, <1>10 DEF SourcingFits

LEMMA CollectKeeps ==
    ASSUME SourcingFits, Collect
    PROVE  SourcingFits'
<1>0. turn.step = "ask"
  BY DEF Collect
<1>1. CASE Raised(turn)
  <2>1. /\ setup' = setup /\ chosen' = chosen /\ trace' = trace /\ switches' = switches
        /\ turn'.step = "raised"
        /\ turn'.task = "failed"
        /\ turn'.intent = turn.intent /\ turn'.client = turn.client /\ turn'.ask = turn.ask
        /\ turn'.got = turn.got /\ turn'.failed = turn.failed /\ turn'.barren = turn.barren
        /\ turn'.request = turn.request /\ turn'.reply = turn.reply /\ turn'.gated = turn.gated
        /\ turn'.inbox = turn.inbox /\ turn'.used = turn.used /\ turn'.draft = turn.draft
        /\ turn'.author = turn.author
        /\ turn' \in Turn
    BY <1>1 DEF Raised, Proceed, SourcingFits, SourcingTypeOK, Turn
  <2>2. SourcingTypeOK'
    BY <1>0, <2>1 DEF SourcingFits, SourcingTypeOK, Turn, Intents, Acquiring, Providers, Reviews
  <2>3. StepFits'
    BY <1>0, <2>1 DEF SourcingFits, StepFits, NobodyYet, Acquiring
  <2>4. DataFits'
    BY <1>0, <2>1 DEF SourcingFits, DataFits, NobodyYet
  <2>5. ResearchFits'
    BY <1>0, <2>1 DEF SourcingFits, ResearchFits, NobodyYet, Acquiring, Configured
  <2>6. OthersFit'
    BY <1>0, <2>1 DEF SourcingFits, OthersFit, NobodyYet, Acquiring
  <2>7. FailedBeside'
    BY <1>0, <2>1 DEF SourcingFits, FailedBeside
  <2>8. BoardFits'
    BY <1>0, <2>1 DEF SourcingFits, BoardFits
  <2>9. TraceIsTrue'
    BY <1>0, <2>1 DEF SourcingFits, TraceIsTrue
  <2>10. RequestIsServed'
    BY <1>0, <2>1 DEF SourcingFits, RequestIsServed
  <2> QED
    BY <2>2, <2>3, <2>4, <2>5, <2>6, <2>7, <2>8, <2>9, <2>10 DEF SourcingFits
<1>2. CASE (turn.failed # {} => turn.got # {}) /\ Proceed([turn EXCEPT !.step = "assess"])
  <2>1. /\ setup' = setup /\ chosen' = chosen /\ trace' = trace /\ switches' = switches
        /\ turn'.step = "assess"
        /\ turn'.intent = turn.intent /\ turn'.client = turn.client /\ turn'.ask = turn.ask
        /\ turn'.got = turn.got /\ turn'.failed = turn.failed /\ turn'.barren = turn.barren
        /\ turn'.request = turn.request /\ turn'.reply = turn.reply /\ turn'.gated = turn.gated
        /\ turn'.inbox = turn.inbox /\ turn'.used = turn.used /\ turn'.draft = turn.draft
        /\ turn'.task = turn.task /\ turn'.author = turn.author
        /\ turn' \in Turn
    BY <1>2 DEF Proceed, SourcingFits, SourcingTypeOK, Turn
  <2>2. SourcingTypeOK'
    BY <1>0, <1>2, <2>1 DEF SourcingFits, SourcingTypeOK, Turn, Intents, Acquiring, Providers,
       Reviews
  <2>3. StepFits'
    BY <1>0, <1>2, <2>1 DEF SourcingFits, StepFits, NobodyYet, Acquiring
  <2>4. DataFits'
    BY <1>0, <1>2, <2>1 DEF SourcingFits, DataFits, NobodyYet
  <2>5. ResearchFits'
    BY <1>0, <1>2, <2>1 DEF SourcingFits, ResearchFits, NobodyYet, Acquiring, Configured
  <2>6. OthersFit'
    BY <1>0, <1>2, <2>1 DEF SourcingFits, OthersFit, NobodyYet, Acquiring
  <2>7. FailedBeside'
    BY <1>0, <1>2, <2>1 DEF SourcingFits, FailedBeside
  <2>8. BoardFits'
    BY <1>0, <1>2, <2>1 DEF SourcingFits, BoardFits
  <2>9. TraceIsTrue'
    BY <1>0, <1>2, <2>1 DEF SourcingFits, TraceIsTrue
  <2>10. RequestIsServed'
    BY <1>0, <1>2, <2>1 DEF SourcingFits, RequestIsServed
  <2> QED
    BY <2>2, <2>3, <2>4, <2>5, <2>6, <2>7, <2>8, <2>9, <2>10 DEF SourcingFits
<1> QED
  BY <1>1, <1>2 DEF Collect

LEMMA AssessKeeps ==
    ASSUME SourcingFits, Assess
    PROVE  SourcingFits'
<1>0. turn.step = "assess"
  BY DEF Assess
<1>1. CASE Proceed([turn EXCEPT !.step = "answer", !.reply = "evidence"])
  <2>1. /\ setup' = setup /\ chosen' = chosen /\ trace' = trace /\ switches' = switches
        /\ turn'.step = "answer"
        /\ turn'.reply = "evidence"
        /\ turn'.intent = turn.intent /\ turn'.client = turn.client /\ turn'.ask = turn.ask
        /\ turn'.got = turn.got /\ turn'.failed = turn.failed /\ turn'.barren = turn.barren
        /\ turn'.request = turn.request /\ turn'.gated = turn.gated /\ turn'.inbox = turn.inbox
        /\ turn'.used = turn.used /\ turn'.draft = turn.draft /\ turn'.task = turn.task
        /\ turn'.author = turn.author
        /\ turn' \in Turn
    BY <1>1 DEF Proceed, SourcingFits, SourcingTypeOK, Turn
  <2>2. SourcingTypeOK'
    BY <1>0, <2>1 DEF SourcingFits, SourcingTypeOK, Turn, Intents, Acquiring, Providers, Reviews
  <2>3. StepFits'
    BY <1>0, <2>1 DEF SourcingFits, StepFits, NobodyYet, Acquiring
  <2>4. DataFits'
    BY <1>0, <2>1 DEF SourcingFits, DataFits, NobodyYet
  <2>5. ResearchFits'
    BY <1>0, <2>1 DEF SourcingFits, ResearchFits, NobodyYet, Acquiring, Configured
  <2>6. OthersFit'
    BY <1>0, <2>1 DEF SourcingFits, OthersFit, NobodyYet, Acquiring
  <2>7. FailedBeside'
    BY <1>0, <2>1 DEF SourcingFits, FailedBeside
  <2>8. BoardFits'
    BY <1>0, <2>1 DEF SourcingFits, BoardFits
  <2>9. TraceIsTrue'
    BY <1>0, <2>1 DEF SourcingFits, TraceIsTrue
  <2>10. RequestIsServed'
    BY <1>0, <2>1 DEF SourcingFits, RequestIsServed
  <2> QED
    BY <2>2, <2>3, <2>4, <2>5, <2>6, <2>7, <2>8, <2>9, <2>10 DEF SourcingFits
<1>2. CASE Proceed([turn EXCEPT !.step = "answer", !.reply = "needs_review",
                            !.inbox = @ \cup {"prompt_injection_review"}])
  <2>1. /\ setup' = setup /\ chosen' = chosen /\ trace' = trace /\ switches' = switches
        /\ turn'.step = "answer"
        /\ turn'.reply = "needs_review"
        /\ turn'.inbox = turn.inbox \cup {"prompt_injection_review"}
        /\ turn'.intent = turn.intent /\ turn'.client = turn.client /\ turn'.ask = turn.ask
        /\ turn'.got = turn.got /\ turn'.failed = turn.failed /\ turn'.barren = turn.barren
        /\ turn'.request = turn.request /\ turn'.gated = turn.gated /\ turn'.used = turn.used
        /\ turn'.draft = turn.draft /\ turn'.task = turn.task /\ turn'.author = turn.author
        /\ turn' \in Turn
    BY <1>2 DEF Proceed, Reviews, SourcingFits, SourcingTypeOK, Turn
  <2>2. SourcingTypeOK'
    BY <1>0, <2>1 DEF SourcingFits, SourcingTypeOK, Turn, Intents, Acquiring, Providers, Reviews
  <2>3. StepFits'
    BY <1>0, <2>1 DEF SourcingFits, StepFits, NobodyYet, Acquiring
  <2>4. DataFits'
    BY <1>0, <2>1 DEF SourcingFits, DataFits, NobodyYet
  <2>5. ResearchFits'
    BY <1>0, <2>1 DEF SourcingFits, ResearchFits, NobodyYet, Acquiring, Configured
  <2>6. OthersFit'
    BY <1>0, <2>1 DEF SourcingFits, OthersFit, NobodyYet, Acquiring
  <2>7. FailedBeside'
    BY <1>0, <2>1 DEF SourcingFits, FailedBeside
  <2>8. BoardFits'
    BY <1>0, <2>1 DEF SourcingFits, BoardFits
  <2>9. TraceIsTrue'
    BY <1>0, <2>1 DEF SourcingFits, TraceIsTrue
  <2>10. RequestIsServed'
    BY <1>0, <2>1 DEF SourcingFits, RequestIsServed, StepFits, BoardFits
  <2> QED
    BY <2>2, <2>3, <2>4, <2>5, <2>6, <2>7, <2>8, <2>9, <2>10 DEF SourcingFits
<1> QED
  BY <1>1, <1>2 DEF Assess

LEMMA DraftBriefKeeps ==
    ASSUME SourcingFits, DraftBrief
    PROVE  SourcingFits'
<1>0. turn.step = "answer" /\ turn.intent = "brief"
  BY DEF DraftBrief
<1>a. PICK draft \in {"llm_regenerated", "template_fallback"} :
         Proceed([turn EXCEPT !.draft = draft, !.inbox = @ \cup {"decision_review"}])
  BY DEF DraftBrief
<1>1. /\ setup' = setup /\ chosen' = chosen /\ trace' = trace /\ switches' = switches
      /\ turn'.inbox = turn.inbox \cup {"decision_review"}
      /\ turn'.draft = draft
      /\ turn'.step = turn.step /\ turn'.intent = turn.intent /\ turn'.client = turn.client
      /\ turn'.ask = turn.ask /\ turn'.got = turn.got /\ turn'.failed = turn.failed
      /\ turn'.barren = turn.barren /\ turn'.request = turn.request /\ turn'.reply = turn.reply
      /\ turn'.gated = turn.gated /\ turn'.used = turn.used /\ turn'.task = turn.task
      /\ turn'.author = turn.author
      /\ turn' \in Turn
  BY <1>a DEF Proceed, Reviews, SourcingFits, SourcingTypeOK, Turn
<1>2. SourcingTypeOK'
  BY <1>0, <1>1 DEF SourcingFits, SourcingTypeOK, Turn, Intents, Acquiring, Providers, Reviews
<1>3. StepFits'
  BY <1>0, <1>1 DEF SourcingFits, StepFits, NobodyYet, Acquiring
<1>4. DataFits'
  BY <1>0, <1>1 DEF SourcingFits, DataFits, NobodyYet
<1>5. ResearchFits'
  BY <1>0, <1>1 DEF SourcingFits, ResearchFits, NobodyYet, Acquiring, Configured
<1>6. OthersFit'
  BY <1>0, <1>1 DEF SourcingFits, OthersFit, NobodyYet, Acquiring
<1>7. FailedBeside'
  BY <1>0, <1>1 DEF SourcingFits, FailedBeside
<1>8. BoardFits'
  BY <1>0, <1>1 DEF SourcingFits, BoardFits
<1>9. TraceIsTrue'
  BY <1>0, <1>1 DEF SourcingFits, TraceIsTrue
<1>10. RequestIsServed'
  BY <1>0, <1>1 DEF SourcingFits, RequestIsServed
<1> QED
  BY <1>2, <1>3, <1>4, <1>5, <1>6, <1>7, <1>8, <1>9, <1>10 DEF SourcingFits

LEMMA SharesAreSingle ==
    ASSUME SourcingFits, turn.got # {}, \A p \in turn.got : IsSample(p),
           HasProvider
    PROVE  Cardinality(turn.got) = 1
<1>1. \E p \in Providers : turn.got = {p}
  <2>1. CASE turn.intent = "memory"
    BY <2>1 DEF SourcingFits, OthersFit, IsSample
  <2>2. CASE turn.intent = "data"
    BY <2>2 DEF SourcingFits, DataFits, Providers
  <2>3. CASE turn.intent \in Acquiring
    <3>1. setup.research \in {{}, {"o2"}, {"web"}, {"o2", "web"}}
      BY DEF SourcingFits, SourcingTypeOK, Setups
    <3>2. turn.got = {"documents"} \/ turn.got \subseteq Configured
      BY <2>3 DEF SourcingFits, ResearchFits
    <3>3. "o2" \notin turn.got
      BY DEF IsSample
    <3> QED
      BY <3>1, <3>2, <3>3 DEF Configured, Providers
  <2> QED
    BY <2>1, <2>2, <2>3 DEF HasProvider
<1> QED
  BY <1>1, FS_Singleton

LEMMA MetadataIsTrue ==
    ASSUME SourcingFits, HasProvider, turn.step = "answer"
    PROVE  /\ Metadata.mode \in {"real", "fallback"}
           /\ Metadata.why \in {"none", "diagnostics", "declared"}
           /\ Metadata.mode = "real" /\ turn.got # {} => \E p \in turn.got : ~IsSample(p)
           /\ turn.failed # {} => Metadata.why # "none"
<1> DEFINE mode == IF Cardinality(turn.got) # 1 \/ \E p \in turn.got : ~IsSample(p)
                   THEN "real" ELSE "fallback"
<1>1. /\ Metadata.mode = mode
      /\ Metadata.why = IF Composite /\ turn.failed \cup turn.barren # {} THEN "diagnostics"
                        ELSE IF mode = "fallback" THEN "declared" ELSE "none"
  BY DEF Metadata
<1>2. mode = "real" /\ turn.got # {} => \E p \in turn.got : ~IsSample(p)
  BY SharesAreSingle
<1>3. ASSUME turn.failed # {} PROVE Composite \/ mode = "fallback"
  <2>1. turn.got # {}
    BY <1>3 DEF SourcingFits, FailedBeside
  <2>2. CASE turn.intent = "data"
    <3>1. turn.got = {"local_metrics"}
      BY <1>3, <2>1, <2>2 DEF SourcingFits, DataFits
    <3>2. Cardinality(turn.got) = 1
      BY <3>1, FS_Singleton
    <3> QED
      BY <3>1, <3>2 DEF IsSample
  <2>3. CASE turn.intent \in Acquiring
    <3>1. setup.research = Both
      BY <1>3, <2>1, <2>3 DEF SourcingFits, ResearchFits
    <3> QED
      BY <2>3, <3>1, CompositeIsBoth DEF SourcingFits, Acquiring
  <2>4. CASE turn.intent = "memory"
    BY <1>3, <2>4 DEF SourcingFits, OthersFit
  <2> QED
    BY <2>2, <2>3, <2>4 DEF HasProvider
<1> HIDE DEF mode
<1> QED
  BY <1>1, <1>2, <1>3 DEF mode

LEMMA AnswerKeeps ==
    ASSUME SourcingFits, Answer
    PROVE  SourcingFits'
<1>0. PICK replies \in AllReplies :
         /\ trace' = Told(IF Canned THEN NoTrace ELSE Written(ClientNow, replies))
         /\ turn' = [turn EXCEPT
                !.step = "done", !.used = Material, !.inbox = @ \cup Confirmations,
                !.author = IF Canned THEN NoModel ELSE AuthorOf(ClientNow, replies),
                !.task = IF @ = "waiting" THEN @ ELSE "completed"]
  BY DEF Answer
<1>1. /\ turn.step = "answer" /\ (turn.intent = "brief" => turn.draft # "none")
      /\ setup' = setup /\ chosen' = chosen /\ switches' = switches
  BY DEF Answer
<1> DEFINE author == IF Canned THEN NoModel ELSE AuthorOf(ClientNow, replies)
           told == IF Canned THEN NoTrace ELSE Written(ClientNow, replies)
           inbox == turn.inbox \cup Confirmations
           settled == IF turn.task = "waiting" THEN "waiting" ELSE "completed"
<1>2. /\ told \in Traces /\ author \in Models \cup {NoModel} /\ told.mode = "none"
      /\ told.llm <=> author # NoModel
      /\ told.llm => /\ told.actual = author
                     /\ told.reason # "none" <=> told.actual # told.requested
                     /\ told.reason # "auth_error"
  BY WrittenFits, ClientNowFits DEF SourcingFits, NoTrace, Traces, SourcingTypeOK
<1>3. trace' = Told(told)
  BY <1>0
<1> HIDE DEF told
<1>4. /\ trace' \in Traces /\ trace'.llm = told.llm /\ trace'.actual = told.actual
      /\ trace'.requested = told.requested /\ trace'.reason = told.reason
      /\ HasProvider => trace'.mode = Metadata.mode /\ trace'.why = Metadata.why
  BY <1>1, <1>2, <1>3, MetadataIsTrue DEF Told, PlainTrace, Traces
<1>b. turn' = [turn EXCEPT !.step = "done", !.used = Material,
                           !.inbox = inbox, !.author = author,
                           !.task = settled]
  BY <1>0
<1> HIDE DEF author, inbox
<1>c. Material \in SUBSET Providers /\ Confirmations \in SUBSET Reviews
  BY DEF Material, Confirmations, Reviews, SourcingFits, SourcingTypeOK, Turn
<1>d. inbox \in SUBSET Reviews /\ settled \in {"waiting", "completed"}
  BY <1>c DEF inbox, SourcingFits, SourcingTypeOK, Turn
<1> HIDE DEF settled
<1>5. /\ setup' = setup /\ chosen' = chosen /\ switches' = switches
      /\ turn'.step = "done"
      /\ turn'.inbox = inbox
      /\ turn'.used = Material
      /\ turn'.task = settled
      /\ turn'.author = author
      /\ turn'.intent = turn.intent /\ turn'.client = turn.client /\ turn'.ask = turn.ask
      /\ turn'.got = turn.got /\ turn'.failed = turn.failed /\ turn'.barren = turn.barren
      /\ turn'.request = turn.request /\ turn'.reply = turn.reply /\ turn'.gated = turn.gated
      /\ turn'.draft = turn.draft
      /\ turn' \in Turn
  BY <1>1, <1>2, <1>b, <1>c, <1>d DEF SourcingFits, SourcingTypeOK, Turn
<1>6. /\ turn.got # {} /\ trace'.mode = "real" => \E p \in turn.got : ~IsSample(p)
      /\ turn.failed # {} => trace'.why # "none"
  <2>1. CASE HasProvider
    BY <1>1, <1>4, <2>1, MetadataIsTrue
  <2>2. CASE ~HasProvider
    <3>1. NobodyYet
      BY <2>2 DEF HasProvider, SourcingFits, OthersFit
    <3> QED
      BY <3>1 DEF NobodyYet
  <2> QED
    BY <2>1, <2>2
<1>7. /\ "local_metrics" \in turn.got /\ setup.api => "api" \in turn.failed \cup turn.barren
      /\ "mock" \in turn.got => setup.research = {}
  <2>1. CASE turn.intent = "memory"
    BY <2>1 DEF SourcingFits, OthersFit
  <2>2. CASE turn.intent = "data"
    BY <2>2 DEF SourcingFits, DataFits
  <2>3. CASE turn.intent \in Acquiring
    BY <2>3 DEF SourcingFits, SourcingTypeOK, Setups, ResearchFits, Configured
  <2>4. CASE turn.intent \notin {"memory", "data"} \cup Acquiring
    BY <2>4 DEF SourcingFits, OthersFit, NobodyYet
  <2> QED
    BY <2>1, <2>2, <2>3, <2>4
<1>8. SourcingTypeOK'
  BY <1>1, <1>4, <1>5 DEF SourcingFits, SourcingTypeOK, Turn, Intents, Acquiring, Providers,
     Reviews
<1>9. StepFits'
  BY <1>1, <1>4, <1>5 DEF SourcingFits, StepFits, NobodyYet, Acquiring
<1>10. DataFits'
  BY <1>1, <1>4, <1>5 DEF SourcingFits, DataFits, NobodyYet
<1>11. ResearchFits'
  BY <1>1, <1>4, <1>5 DEF SourcingFits, ResearchFits, NobodyYet, Acquiring, Configured
<1>12. OthersFit'
  BY <1>1, <1>4, <1>5 DEF SourcingFits, OthersFit, NobodyYet, Acquiring
<1>13. FailedBeside'
  BY <1>1, <1>4, <1>5 DEF SourcingFits, FailedBeside
<1>14. BoardFits'
  BY <1>1, <1>4, <1>5 DEF SourcingFits, BoardFits, inbox, settled
<1>15. TraceIsTrue'
  BY <1>1, <1>2, <1>4, <1>5, <1>6, <1>7 DEF TraceIsTrue, IsSample
<1>16. RequestIsServed'
  BY <1>1, <1>5
     DEF SourcingFits, RequestIsServed, BoardFits, Material, Confirmations, inbox, settled
<1> QED
  BY <1>8, <1>9, <1>10, <1>11, <1>12, <1>13, <1>14, <1>15, <1>16 DEF SourcingFits

---------------------------------------------------------------------------
LEMMA SourcingInitFits ==
    ASSUME SourcingInit PROVE SourcingFits
<1>1. /\ setup \in Setups /\ chosen \in Models /\ switches = 0
      /\ trace = NoTrace /\ turn = NewTurn
  BY DEF SourcingInit
<1>2. ClientFits(NoClient) /\ NoClient \in Clients
  BY FitsIsClient DEF ClientFits
<1>3. NewTurn \in Turn /\ NoTrace \in Traces
  BY <1>2 DEF NewTurn, Turn, NoTrace, Traces, DataAsks
<1>4. /\ turn.step = "idle" /\ turn.intent = "none" /\ turn.client = NoClient /\ turn.ask = <<>>
      /\ turn.got = {} /\ turn.failed = {} /\ turn.barren = {} /\ ~turn.request
      /\ turn.reply = "none" /\ ~turn.gated /\ turn.inbox = {} /\ turn.used = {}
      /\ turn.draft = "none"
  BY <1>1 DEF NewTurn
<1>5. SourcingTypeOK
  BY <1>1, <1>2, <1>3, <1>4, SourcingAssumption DEF SourcingTypeOK
<1>6. StepFits /\ OthersFit /\ FailedBeside /\ BoardFits /\ DataFits /\ ResearchFits
  BY <1>4 DEF StepFits, NobodyYet, OthersFit, FailedBeside, BoardFits, DataFits, ResearchFits,
     Acquiring
<1>7. TraceIsTrue /\ RequestIsServed
  BY <1>4 DEF TraceIsTrue, RequestIsServed
<1> QED
  BY <1>5, <1>6, <1>7 DEF SourcingFits

LEMMA SourcingStutterKeeps ==
    ASSUME SourcingFits, UNCHANGED sourcingVars PROVE SourcingFits'
<1>1. setup' = setup /\ chosen' = chosen /\ turn' = turn /\ trace' = trace /\ switches' = switches
  BY DEF sourcingVars
<1> QED
  BY <1>1 DEF SourcingFits, SourcingTypeOK, StepFits, NobodyYet, DataFits, ResearchFits,
     Configured,
     OthersFit, FailedBeside, BoardFits, TraceIsTrue, IsSample, RequestIsServed

LEMMA SourcingStep ==
    ASSUME SourcingFits, [SourcingNext]_sourcingVars PROVE SourcingFits'
<1>1. CASE UNCHANGED sourcingVars
  BY <1>1, SourcingStutterKeeps
<1>2. CASE \E m \in Models : SwitchModel(m)
  BY <1>2, SwitchModelKeeps
<1>3. CASE \E intent \in Intents : Command(intent)
  BY <1>3, CommandKeeps
<1>4. CASE Write \/ Classify \/ ChatPlainly
  BY <1>4, WriteKeeps, ClassifyKeeps, ChatPlainlyKeeps
<1>5. CASE SearchMemory \/ QueryData \/ Gate \/ LookIntoDocuments \/ ReviewRisk \/ TakeNote
  BY <1>5, SearchMemoryKeeps, QueryDataKeeps, GateKeeps, LookIntoDocumentsKeeps, ReviewRiskKeeps,
     TakeNoteKeeps
<1>6. CASE AskConnector \/ AskResearcher \/ Collect \/ Assess \/ DraftBrief \/ Answer
  BY <1>6, AskConnectorKeeps, AskResearcherKeeps, CollectKeeps, AssessKeeps, DraftBriefKeeps,
     AnswerKeeps
<1> QED
  BY <1>1, <1>2, <1>3, <1>4, <1>5, <1>6 DEF SourcingNext

LEMMA SourcingInvariance == SourcingSpec => []SourcingFits
<1>1. SourcingInit => SourcingFits
  BY SourcingInitFits
<1>2. SourcingFits /\ [SourcingNext]_sourcingVars => SourcingFits'
  BY SourcingStep
<1> QED
  BY <1>1, <1>2, PTL DEF SourcingSpec

\* The trace of a finished turn names the model that wrote its answer, says "real" only over
\* material of a real provider, and leaves no failure behind the answer unsaid
\* (src/agentmesh/agents.py handle_chat, _apply_trace_provenance; llm_client.py and
\* llm_provider.py of what a call leaves): whatever models and providers are configured,
\* whoever fails, and however often the user chooses another model meanwhile.
THEOREM TraceHolds == SourcingSpec => []TraceIsTrue
<1>1. SourcingFits => TraceIsTrue
  BY DEF SourcingFits
<1> QED
  BY <1>1, SourcingInvariance, PTL

\* The request of a finished turn has its reply or somebody who looks after it, a turn that
\* raised leaves a failed task, and material in quarantine is in no prompt, draft or
\* candidate and in the inbox (agents.py _handle_memory_search, _handle_acquisition_intent).
THEOREM RequestServed == SourcingSpec => []RequestIsServed
<1>1. SourcingFits => RequestIsServed
  BY DEF SourcingFits
<1> QED
  BY <1>1, SourcingInvariance, PTL
====
