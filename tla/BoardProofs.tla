---- MODULE BoardProofs ----
(***************************************************************************)
(* For any number of users, agents, requests, calls and deaths: whoever    *)
(* owns, locks or wrote anything in a task was brought in by a handoff, a  *)
(* lead or an admin, whatever handlers overlap and whatever they save; an  *)
(* automatic post is of a reviewed request; and where handlers work one    *)
(* after the other, a request has one post and a lock stays its owner's.   *)
(***************************************************************************)
EXTENDS Board, WellFoundedInduction, FiniteSetTheorems, TLAPS

Handlers == Calls \cup {Worker}

\* Those who are known to a task with the posts ps, where a lead or an admin named app.
Known(ps, app) ==
    Governors \cup {Initiator, Nobody} \cup app \cup {ps[i].handoff : i \in DOMAIN ps}

PostKnown(p, known) == p.owner \in known /\ p.lock.owner \in known /\ Author(p) \in known
TaskKnown(t, known) == t.owner \in known /\ t.lock.owner \in known

\* What a handler holds: it names known agents only, a handoff until its post is there
\* excepted, and it leaves the handoff of the post that it saves as it is.
HandlerFits(h, ps, known) ==
    /\ PostKnown(h.copy, known) /\ TaskKnown(h.taskCopy, known)
    /\ h.plan \in {<<"post">>, <<"post", "load", "save">>, <<"child", "post", "load", "save">>} =>
           h.at \in DOMAIN ps /\ ps[h.at].handoff = h.copy.handoff
    /\ h.plan = <<"child">> => h.op = "reply" /\ h.user \in known \cap Agents
    /\ h.plan \in {<<"child", "load", "save">>, <<"child", "post", "load", "save">>} =>
           h.op = "handoff" /\ h.agent \in Agents
    /\ h.plan \in {<<"load", "save">>, <<"post", "load", "save">>} =>
           /\ h.op \in {"lock", "unlock", "handoff"}
           /\ h.op # "unlock" => h.agent \in known \cap Agents
    /\ h.plan \in {<<"mark">>, <<"publish", "mark">>} => h.batch # {}

Custody ==
    LET known == Known(posts, appointed)
    IN  /\ \A i \in DOMAIN posts : PostKnown(posts[i], known)
        /\ TaskKnown(task, known)
        /\ \A c \in Handlers : HandlerFits(call[c], posts, known)

IInv == TypeOK /\ Custody

---------------------------------------------------------------------------
(* Lemmas about data.                                                      *)

\* Plans of one step, and longer ones with their rest.
LEMMA Rest ==
    ASSUME NEW p \in Plans, p # <<>>
    PROVE  \/ /\ p \in {<<"child">>, <<"post">>, <<"save">>, <<"review">>, <<"mark">>}
              /\ Len(p) = 1
           \/ p = <<"load", "save">> /\ Len(p) # 1 /\ Tail(p) = <<"save">>
           \/ p = <<"post", "load", "save">> /\ Len(p) # 1 /\ Tail(p) = <<"load", "save">>
           \/ p = <<"child", "load", "save">> /\ Len(p) # 1 /\ Tail(p) = <<"load", "save">>
           \/ /\ p = <<"child", "post", "load", "save">> /\ Len(p) # 1
              /\ Tail(p) = <<"post", "load", "save">>
           \/ p = <<"publish", "mark">> /\ Len(p) # 1 /\ Tail(p) = <<"mark">>
<1>1. CASE p \in {<<"child">>, <<"post">>, <<"save">>, <<"review">>, <<"mark">>}
  <2>1. Len(p) = 1
    BY <1>1
  <2> QED
    BY <1>1, <2>1
<1>2. CASE p = <<"load", "save">>
  <2>1. Len(p) # 1 /\ Tail(p) = <<"save">>
    BY <1>2
  <2> QED
    BY <1>2, <2>1
<1>3. CASE p = <<"post", "load", "save">>
  <2>1. Len(p) # 1 /\ Tail(p) = <<"load", "save">>
    BY <1>3
  <2> QED
    BY <1>3, <2>1
<1>4. CASE p = <<"child", "load", "save">>
  <2>1. Len(p) # 1 /\ Tail(p) = <<"load", "save">>
    BY <1>4
  <2> QED
    BY <1>4, <2>1
<1>5. CASE p = <<"child", "post", "load", "save">>
  <2>1. Len(p) # 1 /\ Tail(p) = <<"post", "load", "save">>
    BY <1>5
  <2> QED
    BY <1>5, <2>1
<1>6. CASE p = <<"publish", "mark">>
  <2>1. Len(p) # 1 /\ Tail(p) = <<"mark">>
    BY <1>6
  <2> QED
    BY <1>6, <2>1
<1> QED
  BY <1>1, <1>2, <1>3, <1>4, <1>5, <1>6 DEF Plans

\* The first request of a batch is one of the batch.
LEMMA FirstIsOne ==
    ASSUME NEW batch, batch \subseteq Requests, batch # {}
    PROVE  First(batch) \in batch
<1>1. batch \subseteq Nat
  BY BoardAssumption
<1>2. \E x \in batch : \A y \in batch : ~(<<y, x>> \in OpToRel(<, Nat))
  BY <1>1, NatLessThanWellFounded, WFMin
<1>3. PICK x \in batch : \A y \in batch : ~(<<y, x>> \in OpToRel(<, Nat))
  BY <1>2
<1>4. ASSUME NEW y \in batch PROVE x <= y
  <2>1. x \in Nat /\ y \in Nat /\ <<y, x>> \in Nat \X Nat
    BY <1>1
  <2>2. ~(<<y, x>>[1] < <<y, x>>[2])
    BY <1>3, <2>1 DEF OpToRel
  <2> QED
    BY <2>1, <2>2
<1> QED
  BY <1>4 DEF First

\* New records and the record of a handler that has nothing to do.
LEMMA NewTypes ==
    /\ \A a \in Agents \cup Labels : NewPost(a) \in Post
    /\ NewTask \in Task /\ NoLock \in ExecutionLock /\ Idle \in Call /\ Idle.plan = <<>>
    /\ Initiator \in Agents /\ Users \subseteq Agents
<1>1. Initiator \in Agents /\ Users \subseteq Agents
  BY BoardAssumption DEF Agents, Users
<1>2. NoLock \in ExecutionLock
  BY DEF NoLock, ExecutionLock
<1>3. \A a \in Agents \cup Labels : NewPost(a) \in Post
  BY <1>2 DEF NewPost, Post, Stages
<1>4. NewTask \in Task
  BY <1>2 DEF NewTask, Task, Stages
<1>5. Idle \in Call /\ Idle.plan = <<>>
  BY <1>1, <1>3, <1>4 DEF Idle, Call, Plans
<1> QED
  BY <1>1, <1>2, <1>3, <1>4, <1>5

\* Locks are taken and released as locks.
LEMMA LockTypes ==
    /\ \A a \in Agents : LockOf(a) \in ExecutionLock /\ LockOf(a).owner = a
    /\ \A l \in ExecutionLock : Release(l) \in ExecutionLock /\ Release(l).owner = l.owner
  BY DEF LockOf, Release, ExecutionLock

\* The author of a post that is signed with an id or with a label.
LEMMA Authors ==
    ASSUME NEW p
    PROVE  /\ p.actor \in Agents => Author(p) = p.actor
           /\ \A a \in Agents : p.actor = Label(a) => Author(p) = a
  BY BoardAssumption DEF Author, Label

\* A sequence with one more element.
LEMMA Appends ==
    ASSUME NEW S, NEW s \in Seq(S), NEW x \in S
    PROVE  /\ Append(s, x) \in Seq(S) /\ DOMAIN s \subseteq DOMAIN Append(s, x)
           /\ \A i \in DOMAIN s : Append(s, x)[i] = s[i]
           /\ \A i \in DOMAIN Append(s, x) : i \in DOMAIN s \/ Append(s, x)[i] = x
           /\ Len(s) + 1 \in DOMAIN Append(s, x) /\ Append(s, x)[Len(s) + 1] = x
  OBVIOUS

---------------------------------------------------------------------------
(* Lemmas about handlers.                                                  *)

\* A handler that has nothing to do names nobody but the initiator.
LEMMA IdleFits ==
    ASSUME NEW ps, NEW app
    PROVE  HandlerFits(Idle, ps, Known(ps, app))
<1>1. /\ Idle.plan = <<>>
      /\ Idle.copy.owner = Nobody /\ Idle.copy.lock.owner = Nobody /\ Idle.copy.actor = Initiator
      /\ Idle.taskCopy.owner = Nobody /\ Idle.taskCopy.lock.owner = Nobody
  BY DEF Idle, NewPost, NewTask, NoLock
<1>2. Author(Idle.copy) = Initiator
  BY <1>1, NewTypes, Authors
<1> QED
  BY <1>1, <1>2 DEF HandlerFits, PostKnown, TaskKnown, Known

\* A step of one handler keeps the invariant when the handler still fits, the board and the
\* task know whom they name, and no handoff is lost.
LEMMA Keeps ==
    ASSUME IInv, NEW c \in Handlers, NEW h \in Call, call' = [call EXCEPT ![c] = h],
           posts' \in Seq(Post), task' \in Task, autos' \in [Requests -> AutoPost],
           appointed' \in SUBSET Agents, appointed \subseteq appointed',
           disturbed' \in SUBSET {"board", "queue"},
           made' \in 0..MaxCalls, faults' \in 0..MaxFaults,
           DOMAIN posts \subseteq DOMAIN posts',
           \A i \in DOMAIN posts : posts'[i].handoff = posts[i].handoff,
           HandlerFits(h, posts', Known(posts', appointed')),
           \A i \in DOMAIN posts' : PostKnown(posts'[i], Known(posts', appointed')),
           TaskKnown(task', Known(posts', appointed'))
    PROVE  IInv'
<1>1. TypeOK'
  <2>1. call' \in [Calls \cup {Worker} -> Call]
    BY DEF IInv, TypeOK, Handlers
  <2> QED
    BY <2>1, Zenon DEF TypeOK
<1>2. Known(posts, appointed) \subseteq Known(posts', appointed')
  BY DEF Known
<1>3. ASSUME NEW d \in Handlers PROVE HandlerFits(call'[d], posts', Known(posts', appointed'))
  <2>1. CASE d = c
    BY <2>1 DEF IInv, TypeOK, Handlers
  <2>2. CASE d # c
    <3>1. call'[d] = call[d] /\ HandlerFits(call[d], posts, Known(posts, appointed))
      BY <2>2 DEF IInv, TypeOK, Custody, Handlers
    <3> QED
      BY <3>1, <1>2 DEF HandlerFits, PostKnown, TaskKnown
  <2> QED
    BY <2>1, <2>2
<1>4. Custody'
  BY <1>3 DEF Custody
<1> QED
  BY <1>1, <1>4 DEF IInv

\* A handler that begins keeps the invariant if what it holds fits.
LEMMA BeginKeeps ==
    ASSUME IInv, NEW c \in Handlers, NEW h \in Call, Begin(c, h),
           c # Worker => made < MaxCalls,
           appointed' \in SUBSET Agents, appointed \subseteq appointed',
           HandlerFits(h, posts, Known(posts, appointed'))
    PROVE  IInv'
<1>1. call' = [call EXCEPT ![c] = h] /\ UNCHANGED <<posts, task, autos, faults>>
  BY DEF Begin
<1>2. made' \in 0..MaxCalls
  BY BoardAssumption DEF Begin, IInv, TypeOK
<1>3. disturbed' \in SUBSET {"board", "queue"}
  BY DEF Begin, Family, IInv, TypeOK
<1>4. Known(posts, appointed) \subseteq Known(posts', appointed')
  BY <1>1 DEF Known
<1>5. /\ \A i \in DOMAIN posts' : PostKnown(posts'[i], Known(posts', appointed'))
      /\ TaskKnown(task', Known(posts', appointed'))
  BY <1>1, <1>4 DEF IInv, Custody, PostKnown, TaskKnown
<1>6. HandlerFits(h, posts', Known(posts', appointed'))
  BY <1>1
<1>7. posts' = posts /\ task' = task /\ autos' = autos /\ faults' = faults
  BY <1>1
<1>8. /\ posts' \in Seq(Post) /\ task' \in Task /\ autos' \in [Requests -> AutoPost]
      /\ faults' \in 0..MaxFaults
  BY <1>7, Zenon DEF IInv, TypeOK
<1>9. /\ DOMAIN posts \subseteq DOMAIN posts'
      /\ \A i \in DOMAIN posts : posts'[i].handoff = posts[i].handoff
  BY <1>7
<1> QED
  BY <1>1, <1>2, <1>3, <1>5, <1>6, <1>8, <1>9, Keeps

\* What a handler is left with when a step of its plan is done.
Left(h) == IF Len(h.plan) = 1 THEN Idle ELSE [h EXCEPT !.plan = Tail(h.plan)]

\* It fits again, when the place it saves is there and its handoff, if it wrote one, as well.
LEMMA LeftFits ==
    ASSUME NEW h \in Call, h.plan # <<>>, NEW ps, NEW app, NEW qs,
           HandlerFits(h, ps, Known(ps, app)),
           DOMAIN ps \subseteq DOMAIN qs,
           \A i \in DOMAIN ps : qs[i].handoff = ps[i].handoff,
           Head(h.plan) = "child" /\ h.op = "handoff" => h.agent \in Known(qs, app)
    PROVE  Left(h) \in Call /\ HandlerFits(Left(h), qs, Known(qs, app))
<1>1. h.plan \in Plans
  BY DEF Call
<1>2. CASE Len(h.plan) = 1
  BY <1>2, NewTypes, IdleFits DEF Left
<1>3. CASE Len(h.plan) # 1
  <2> DEFINE g == [h EXCEPT !.plan = Tail(h.plan)]
  <2>1. Left(h) = g
    BY <1>3 DEF Left
  <2>2. /\ g.plan = Tail(h.plan) /\ g.op = h.op /\ g.agent = h.agent /\ g.at = h.at
        /\ g.copy = h.copy /\ g.taskCopy = h.taskCopy /\ g.batch = h.batch
    BY DEF Call
  <2>3. g.plan \in Plans
    BY <1>1, <1>3, <2>2, Rest DEF Plans
  <2>4. g \in Call
    BY <2>2, <2>3 DEF Call
  <2> HIDE DEF g
  <2> SUFFICES HandlerFits(g, qs, Known(qs, app))
    BY <2>1, <2>4
  <2>5. Known(ps, app) \subseteq Known(qs, app)
    BY DEF Known
  <2>6. PostKnown(g.copy, Known(qs, app)) /\ TaskKnown(g.taskCopy, Known(qs, app))
    BY <2>2, <2>5 DEF HandlerFits, PostKnown, TaskKnown
  <2>7. CASE h.plan = <<"load", "save">> \/ h.plan = <<"publish", "mark">>
    <3>1. g.plan = <<"save">> \/ (g.plan = <<"mark">> /\ h.plan = <<"publish", "mark">>)
      BY <1>1, <1>3, <2>2, <2>7, Rest
    <3>2. g.plan = <<"mark">> => g.batch # {}
      <4>1. CASE g.plan = <<"mark">>
        <5>1. h.plan = <<"publish", "mark">>
          BY <3>1, <4>1
        <5> QED
          BY <2>2, <5>1 DEF HandlerFits
      <4> QED
        BY <4>1
    <3> QED
      BY <2>6, <3>1, <3>2 DEF HandlerFits
  <2>8. CASE h.plan = <<"post", "load", "save">>
    <3>1. g.plan = <<"load", "save">>
      BY <1>1, <1>3, <2>2, <2>8, Rest
    <3>2. /\ h.op \in {"lock", "unlock", "handoff"}
          /\ h.op # "unlock" => h.agent \in Known(qs, app) \cap Agents
      BY <2>5, <2>8 DEF HandlerFits
    <3> QED
      BY <2>2, <2>6, <3>1, <3>2 DEF HandlerFits
  <2>9. CASE h.plan \in {<<"child", "load", "save">>, <<"child", "post", "load", "save">>}
    <3>1. h.op = "handoff" /\ h.agent \in Agents \cap Known(qs, app)
      <4>1. Head(h.plan) = "child"
        BY <2>9
      <4> QED
        BY <2>9, <4>1 DEF HandlerFits
    <3>2. \/ g.plan = <<"load", "save">>
          \/ /\ g.plan = <<"post", "load", "save">>
             /\ h.plan = <<"child", "post", "load", "save">>
      BY <1>1, <1>3, <2>2, <2>9, Rest
    <3>3. g.plan = <<"post", "load", "save">> =>
              g.at \in DOMAIN qs /\ qs[g.at].handoff = g.copy.handoff
      <4> SUFFICES ASSUME h.plan = <<"child", "post", "load", "save">>
                   PROVE  h.at \in DOMAIN qs /\ qs[h.at].handoff = h.copy.handoff
        BY <2>2, <3>2
      <4> QED
        BY DEF HandlerFits
    <3> QED
      BY <2>2, <2>6, <3>1, <3>2, <3>3 DEF HandlerFits
  <2> QED
    BY <1>1, <1>3, <2>7, <2>8, <2>9, Rest
<1> QED
  BY <1>2, <1>3

---------------------------------------------------------------------------
(* One lemma per action that begins a handler.                             *)

\* A post that is read is known, and so is a copy with the same actor and known agents.
LEMMA Reads ==
    ASSUME IInv, NEW i \in DOMAIN posts, NEW app, appointed \subseteq app
    PROVE  /\ posts[i] \in Post /\ i \in Nat
           /\ PostKnown(posts[i], Known(posts, app))
           /\ TaskKnown(NewTask, Known(posts, app))
<1>1. posts \in Seq(Post)
  BY DEF IInv, TypeOK
<1>2. posts[i] \in Post /\ i \in Nat
  BY <1>1
<1>3. Known(posts, appointed) \subseteq Known(posts, app)
  BY DEF Known
<1>4. PostKnown(posts[i], Known(posts, app))
  BY <1>3 DEF IInv, Custody, PostKnown
<1>5. TaskKnown(NewTask, Known(posts, app))
  BY DEF TaskKnown, NewTask, NoLock, Known
<1> QED
  BY <1>2, <1>4, <1>5

\* A copy of a post with its lock released.
LEMMA Released ==
    ASSUME NEW p \in Post, NEW known, PostKnown(p, known)
    PROVE  LET q == [p EXCEPT !.lock = Release(p.lock), !.stage = "review"]
           IN  q \in Post /\ q.handoff = p.handoff /\ PostKnown(q, known)
<1> DEFINE q == [p EXCEPT !.lock = Release(p.lock), !.stage = "review"]
<1>1. Release(p.lock) \in ExecutionLock /\ Release(p.lock).owner = p.lock.owner
  BY LockTypes DEF Post
<1>2. /\ q.actor = p.actor /\ q.owner = p.owner /\ q.lock = Release(p.lock)
      /\ q.handoff = p.handoff
  BY DEF Post
<1>3. q \in Post
  BY <1>1 DEF Post, Stages
<1>4. PostKnown(q, known)
  BY <1>1, <1>2 DEF PostKnown, Author
<1> QED
  BY <1>2, <1>3, <1>4

\* A lock is taken for oneself, or by a lead or an admin, who appoints its owner.
LEMMA LockKeeps ==
    ASSUME IInv, NEW c \in Calls, NEW u \in Users, NEW i \in DOMAIN posts, NEW a \in Agents,
           made < MaxCalls, Lock(c, u, i, a)
    PROVE  IInv'
<1> DEFINE p == [posts[i] EXCEPT !.lock = LockOf(a), !.owner = a, !.stage = "execution"]
           h == [Idle EXCEPT !.op = "lock", !.user = u, !.agent = a, !.at = i, !.copy = p,
                             !.plan = <<"post", "load", "save">>]
<1>1. appointed' \in SUBSET Agents /\ appointed \subseteq appointed'
  BY DEF Lock, IInv, TypeOK
<1>2. posts[i] \in Post /\ i \in Nat
  BY <1>1, Reads
<1>3. /\ PostKnown(posts[i], Known(posts, appointed'))
      /\ TaskKnown(NewTask, Known(posts, appointed'))
  BY <1>1, Reads
<1>4. a \in Known(posts, appointed')
  <2>1. CASE u \in Governors
    BY <2>1 DEF Lock, Known
  <2>2. CASE u \notin Governors
    <3>1. a = u /\ (u = Initiator \/ posts[i].owner = u)
      BY <2>2 DEF Lock, Manages, Controls, Governors
    <3> QED
      BY <1>3, <3>1 DEF Known, PostKnown
  <2> QED
    BY <2>1, <2>2
<1>5. p \in Post /\ p.handoff = posts[i].handoff
  BY <1>2, LockTypes DEF Post, Stages
<1>6. PostKnown(p, Known(posts, appointed'))
  <2>1. p.actor = posts[i].actor /\ p.owner = a /\ p.lock.owner = a
    BY <1>2, LockTypes DEF Post
  <2> QED
    BY <1>3, <1>4, <2>1 DEF PostKnown, Author
<1> HIDE DEF p
<1>7. /\ h.op = "lock" /\ h.agent = a /\ h.at = i /\ h.copy = p
      /\ h.taskCopy = NewTask /\ h.plan = <<"post", "load", "save">>
  BY DEF Idle
<1>8. h \in Call
  BY <1>2, <1>5, NewTypes DEF Call, Plans
<1>9. HandlerFits(h, posts, Known(posts, appointed'))
  <2> HIDE DEF h
  <2> QED
    BY <1>3, <1>4, <1>5, <1>6, <1>7 DEF HandlerFits
<1>10. Begin(c, h)
  BY DEF Lock, p
<1> QED
  BY <1>1, <1>8, <1>9, <1>10, BeginKeeps DEF Handlers

\* The owner of the lock is released and stays the owner of the post.
LEMMA UnlockKeeps ==
    ASSUME IInv, NEW c \in Calls, NEW u \in Users, NEW i \in DOMAIN posts,
           made < MaxCalls, Unlock(c, u, i)
    PROVE  IInv'
<1> DEFINE p == [posts[i] EXCEPT !.lock = Release(posts[i].lock), !.stage = "review"]
           h == [Idle EXCEPT !.op = "unlock", !.user = u, !.at = i, !.copy = p,
                             !.plan = <<"post", "load", "save">>]
<1>1. appointed' \in SUBSET Agents /\ appointed \subseteq appointed'
  BY DEF Unlock, IInv, TypeOK
<1>2. posts[i] \in Post /\ i \in Nat
  BY <1>1, Reads
<1>3. /\ PostKnown(posts[i], Known(posts, appointed'))
      /\ TaskKnown(NewTask, Known(posts, appointed'))
  BY <1>1, Reads
<1>4. p \in Post /\ p.handoff = posts[i].handoff /\ PostKnown(p, Known(posts, appointed'))
  BY <1>2, <1>3, Released
<1> HIDE DEF p
<1>5. /\ h.op = "unlock" /\ h.at = i /\ h.copy = p
      /\ h.taskCopy = NewTask /\ h.plan = <<"post", "load", "save">>
  BY DEF Idle
<1>6. h \in Call
  BY <1>2, <1>4, NewTypes DEF Call, Plans
<1>7. HandlerFits(h, posts, Known(posts, appointed'))
  <2> HIDE DEF h
  <2> QED
    BY <1>3, <1>4, <1>5 DEF HandlerFits
<1>8. Begin(c, h)
  BY DEF Unlock, p
<1> QED
  BY <1>1, <1>6, <1>7, <1>8, BeginKeeps DEF Handlers

\* The agent of a handoff is not known before its post is added.
LEMMA HandoffKeeps ==
    ASSUME IInv, NEW c \in Calls, NEW u \in Users, NEW i \in DOMAIN posts, NEW a \in Agents,
           made < MaxCalls, Handoff(c, u, i, a)
    PROVE  IInv'
<1>1. appointed' \in SUBSET Agents /\ appointed \subseteq appointed'
  BY DEF Handoff, IInv, TypeOK
<1>2. posts[i] \in Post /\ i \in Nat
  BY <1>1, Reads
<1>3. /\ PostKnown(posts[i], Known(posts, appointed'))
      /\ TaskKnown(NewTask, Known(posts, appointed'))
  BY <1>1, Reads
<1>4. ASSUME NEW p \in Post, p.handoff = posts[i].handoff,
             PostKnown(p, Known(posts, appointed')),
             NEW plan \in {<<"child", "post", "load", "save">>, <<"child", "load", "save">>}
      PROVE  LET h == [Idle EXCEPT !.op = "handoff", !.user = u, !.agent = a, !.at = i,
                                   !.copy = p, !.plan = plan]
             IN  h \in Call /\ HandlerFits(h, posts, Known(posts, appointed'))
  <2> DEFINE h == [Idle EXCEPT !.op = "handoff", !.user = u, !.agent = a, !.at = i,
                               !.copy = p, !.plan = plan]
  <2>1. /\ h.op = "handoff" /\ h.agent = a /\ h.at = i /\ h.copy = p
        /\ h.taskCopy = NewTask /\ h.plan = plan
    BY DEF Idle
  <2>2. h \in Call
    BY <1>2, NewTypes DEF Call, Plans
  <2>3. HandlerFits(h, posts, Known(posts, appointed'))
    <3> HIDE DEF h
    <3>1. h.plan \notin {<<"child">>, <<"load", "save">>, <<"post", "load", "save">>,
                         <<"mark">>, <<"publish", "mark">>}
      BY <2>1
    <3> QED
      BY <1>3, <1>4, <2>1, <3>1 DEF HandlerFits
  <2> QED
    BY <2>2, <2>3
<1>5. CASE posts[i].lock.active
  <2> DEFINE p == [posts[i] EXCEPT !.lock = Release(posts[i].lock), !.stage = "review"]
             h == [Idle EXCEPT !.op = "handoff", !.user = u, !.agent = a, !.at = i,
                               !.copy = p, !.plan = <<"child", "post", "load", "save">>]
  <2>1. p \in Post /\ p.handoff = posts[i].handoff /\ PostKnown(p, Known(posts, appointed'))
    BY <1>2, <1>3, Released
  <2>2. h \in Call /\ HandlerFits(h, posts, Known(posts, appointed'))
    BY <1>4, <2>1, Zenon
  <2>3. Begin(c, h)
    BY <1>5 DEF Handoff
  <2> HIDE DEF p, h
  <2> QED
    BY <1>1, <2>2, <2>3, BeginKeeps DEF Handlers
<1>6. CASE ~posts[i].lock.active
  <2> DEFINE h == [Idle EXCEPT !.op = "handoff", !.user = u, !.agent = a, !.at = i,
                               !.copy = posts[i], !.plan = <<"child", "load", "save">>]
  <2>1. h \in Call /\ HandlerFits(h, posts, Known(posts, appointed'))
    BY <1>2, <1>3, <1>4, Zenon
  <2>2. Begin(c, h)
    BY <1>6 DEF Handoff
  <2> HIDE DEF h
  <2> QED
    BY <1>1, <2>1, <2>2, BeginKeeps DEF Handlers
<1> QED
  BY <1>5, <1>6

\* Whoever replies controls the post and is known by that.
LEMMA ReplyKeeps ==
    ASSUME IInv, NEW c \in Calls, NEW u \in Users, NEW i \in DOMAIN posts,
           made < MaxCalls, Reply(c, u, i)
    PROVE  IInv'
<1> DEFINE h == [Idle EXCEPT !.op = "reply", !.user = u, !.at = i, !.copy = posts[i],
                             !.plan = <<"child">>]
<1>1. appointed' \in SUBSET Agents /\ appointed \subseteq appointed'
  BY DEF Reply, IInv, TypeOK
<1>2. posts[i] \in Post /\ i \in Nat
  BY <1>1, Reads
<1>3. /\ PostKnown(posts[i], Known(posts, appointed'))
      /\ TaskKnown(NewTask, Known(posts, appointed'))
  BY <1>1, Reads
<1>4. u \in Known(posts, appointed') \cap Agents
  BY <1>3, NewTypes DEF Reply, Controls, Known, PostKnown
<1>5. /\ h.op = "reply" /\ h.user = u /\ h.copy = posts[i]
      /\ h.taskCopy = NewTask /\ h.plan = <<"child">>
  BY DEF Idle
<1>6. h \in Call
  BY <1>2, <1>4, NewTypes DEF Call, Plans
<1>7. HandlerFits(h, posts, Known(posts, appointed'))
  <2> HIDE DEF h
  <2> QED
    BY <1>3, <1>4, <1>5 DEF HandlerFits
<1>8. Begin(c, h)
  BY DEF Reply
<1> QED
  BY <1>1, <1>6, <1>7, <1>8, BeginKeeps DEF Handlers

\* A reader leaves everything of the post but its readers.
LEMMA MarkReadKeeps ==
    ASSUME IInv, NEW c \in Calls, NEW u \in Users, NEW i \in DOMAIN posts,
           made < MaxCalls, MarkRead(c, u, i)
    PROVE  IInv'
<1> DEFINE p == [posts[i] EXCEPT !.readers = posts[i].readers \cup {u}]
           h == [Idle EXCEPT !.op = "read", !.user = u, !.at = i, !.copy = p,
                             !.plan = <<"post">>]
<1>1. appointed' \in SUBSET Agents /\ appointed \subseteq appointed'
  BY DEF MarkRead, IInv, TypeOK
<1>2. posts[i] \in Post /\ i \in Nat
  BY <1>1, Reads
<1>3. /\ PostKnown(posts[i], Known(posts, appointed'))
      /\ TaskKnown(NewTask, Known(posts, appointed'))
  BY <1>1, Reads
<1>4. p \in Post /\ p.handoff = posts[i].handoff
  BY <1>2 DEF Post
<1>5. PostKnown(p, Known(posts, appointed'))
  <2>1. p.actor = posts[i].actor /\ p.owner = posts[i].owner /\ p.lock = posts[i].lock
    BY <1>2 DEF Post
  <2> QED
    BY <1>3, <2>1 DEF PostKnown, Author
<1> HIDE DEF p
<1>6. h.at = i /\ h.copy = p /\ h.taskCopy = NewTask /\ h.plan = <<"post">>
  BY DEF Idle
<1>7. h \in Call
  BY <1>2, <1>4, NewTypes DEF Call, Plans
<1>8. HandlerFits(h, posts, Known(posts, appointed'))
  <2> HIDE DEF h
  <2> QED
    BY <1>3, <1>4, <1>5, <1>6 DEF HandlerFits
<1>9. Begin(c, h)
  BY DEF MarkRead, p
<1> QED
  BY <1>1, <1>7, <1>8, <1>9, BeginKeeps DEF Handlers

\* A handler of the queue names the initiator only.
LEMMA QueueFits ==
    ASSUME NEW ps, NEW app, NEW op \in {"review", "drain"}, NEW u \in Agents \cup {Nobody},
           NEW batch \in SUBSET Requests, batch # {},
           NEW plan \in {<<"review">>, <<"publish", "mark">>}
    PROVE  LET h == [Idle EXCEPT !.op = op, !.user = u, !.batch = batch, !.plan = plan]
           IN  h \in Call /\ HandlerFits(h, ps, Known(ps, app))
<1> DEFINE h == [Idle EXCEPT !.op = op, !.user = u, !.batch = batch, !.plan = plan]
<1>1. /\ h.batch = batch /\ h.plan = plan /\ h.copy = Idle.copy /\ h.taskCopy = Idle.taskCopy
  BY DEF Idle
<1>2. h \in Call
  BY NewTypes DEF Call, Plans
<1>3. PostKnown(Idle.copy, Known(ps, app)) /\ TaskKnown(Idle.taskCopy, Known(ps, app))
  BY IdleFits DEF HandlerFits
<1> HIDE DEF h
<1>4. HandlerFits(h, ps, Known(ps, app))
  BY <1>1, <1>3 DEF HandlerFits
<1> QED
  BY <1>2, <1>4 DEF h

LEMMA ReviewKeeps ==
    ASSUME IInv, NEW c \in Calls, NEW u \in Admins, NEW r \in Requests,
           made < MaxCalls, Review(c, u, r)
    PROVE  IInv'
<1> DEFINE h == [Idle EXCEPT !.op = "review", !.user = u, !.batch = {r}, !.plan = <<"review">>]
<1>1. appointed' \in SUBSET Agents /\ appointed \subseteq appointed'
  BY DEF Review, IInv, TypeOK
<1>2. h \in Call /\ HandlerFits(h, posts, Known(posts, appointed'))
  BY QueueFits DEF Agents, Users, Governors
<1>3. Begin(c, h)
  BY DEF Review
<1> HIDE DEF h
<1> QED
  BY <1>1, <1>2, <1>3, BeginKeeps DEF Handlers

LEMMA DrainKeeps ==
    ASSUME IInv, NEW c \in Handlers, NEW u \in Admins \cup {Nobody},
           c # Worker => made < MaxCalls, Drain(c, u)
    PROVE  IInv'
<1> DEFINE h == [Idle EXCEPT !.op = "drain", !.user = u, !.batch = Ready,
                             !.plan = <<"publish", "mark">>]
<1>1. appointed' \in SUBSET Agents /\ appointed \subseteq appointed'
  BY DEF Drain, IInv, TypeOK
<1>2. Ready \in SUBSET Requests /\ Ready # {} /\ u \in Agents \cup {Nobody}
  BY DEF Drain, Ready, Agents, Users, Governors
<1>3. h \in Call /\ HandlerFits(h, posts, Known(posts, appointed'))
  BY <1>2, QueueFits
<1>4. Begin(c, h)
  BY DEF Drain
<1> HIDE DEF h
<1> QED
  BY <1>1, <1>3, <1>4, BeginKeeps

---------------------------------------------------------------------------
(* One lemma per action that a handler goes on with.                       *)

\* What a step of a plan assumes, and what is left of its handler.
LEMMA Proceeds ==
    ASSUME IInv, NEW c \in Handlers, NEW step, At(c, step), NEW h, Proceed(c, h),
           h.plan = call[c].plan
    PROVE  /\ call[c] \in Call /\ call[c].plan # <<>> /\ Head(call[c].plan) = step
           /\ HandlerFits(call[c], posts, Known(posts, appointed))
           /\ call' = [call EXCEPT ![c] = Left(h)]
  BY DEF IInv, TypeOK, Custody, Handlers, At, Proceed, Left

\* Plans by their first step.
LEMMA Heads ==
    ASSUME NEW p \in Plans, p # <<>>
    PROVE  /\ Head(p) = "child" =>
                  p \in {<<"child">>, <<"child", "load", "save">>,
                         <<"child", "post", "load", "save">>}
           /\ Head(p) = "post" => p \in {<<"post">>, <<"post", "load", "save">>}
           /\ Head(p) = "load" => p = <<"load", "save">>
           /\ Head(p) = "mark" => p = <<"mark">>
           /\ Head(p) = "publish" => p = <<"publish", "mark">>
<1>1. /\ Head(<<"child">>) = "child" /\ Head(<<"child", "load", "save">>) = "child"
      /\ Head(<<"child", "post", "load", "save">>) = "child"
      /\ Head(<<"post">>) = "post" /\ Head(<<"post", "load", "save">>) = "post"
  OBVIOUS
<1>2. /\ Head(<<"save">>) = "save" /\ Head(<<"load", "save">>) = "load"
      /\ Head(<<"review">>) = "review" /\ Head(<<"mark">>) = "mark"
      /\ Head(<<"publish", "mark">>) = "publish"
  OBVIOUS
<1> QED
  BY <1>1, <1>2 DEF Plans

\* The post of a handoff makes its agent known, a reply names who is known already.
LEMMA AddChildKeeps ==
    ASSUME IInv, NEW c \in Handlers, AddChild(c)
    PROVE  IInv'
<1> DEFINE h == call[c]
           q == Child(h)
<1>1. /\ h \in Call /\ h.plan # <<>> /\ Head(h.plan) = "child"
      /\ HandlerFits(h, posts, Known(posts, appointed))
      /\ call' = [call EXCEPT ![c] = Left(h)]
  BY Proceeds DEF AddChild
<1>2. h.plan \in {<<"child">>, <<"child", "load", "save">>, <<"child", "post", "load", "save">>}
  BY <1>1, Heads DEF Call
<1>3. posts' = Append(posts, q) /\ UNCHANGED <<task, autos, appointed, disturbed, made, faults>>
  BY DEF AddChild
<1> HIDE DEF h
<1>4. \/ h.op = "reply" /\ h.user \in Known(posts, appointed) \cap Agents
      \/ h.op = "handoff" /\ h.agent \in Agents
  BY <1>1, <1>2 DEF HandlerFits
<1>5. PostKnown(h.copy, Known(posts, appointed)) /\ h.copy \in Post
  BY <1>1 DEF HandlerFits, Call
<1>6. /\ q \in Post
      /\ q.owner \in Known(posts, appointed) \cup {q.handoff}
      /\ q.lock.owner \in Known(posts, appointed) /\ Author(q) \in Known(posts, appointed)
      /\ h.op = "handoff" => q.handoff = h.agent
  <2>1. CASE h.op = "reply"
    <3>1. NewPost(h.user) \in Post
      BY <1>4, <2>1, NewTypes
    <3>2. q = [NewPost(h.user) EXCEPT !.stage = h.copy.stage, !.owner = h.copy.owner]
      BY <2>1 DEF Child
    <3>3. /\ q.actor = h.user /\ q.owner = h.copy.owner /\ q.lock.owner = Nobody
      BY <3>2 DEF NewPost, NoLock
    <3>4. q \in Post
      BY <1>5, <3>1, <3>2 DEF Post
    <3>5. Author(q) = h.user
      BY <1>4, <2>1, <3>3, Authors
    <3> QED
      BY <1>4, <1>5, <2>1, <3>3, <3>4, <3>5 DEF PostKnown, Known
  <2>2. CASE h.op = "handoff"
    <3> DEFINE actor == IF h.copy.owner = Nobody THEN h.copy.actor ELSE Label(h.copy.owner)
    <3>1. actor \in Agents \cup Labels
      BY <1>5 DEF Post, Labels
    <3>2. q = [NewPost(actor) EXCEPT !.owner = h.agent, !.handoff = h.agent]
      BY <2>2 DEF Child
    <3>3. NewPost(actor) \in Post
      BY <3>1, NewTypes
    <3>4. Author(q) \in Known(posts, appointed)
      <4>1. CASE h.copy.owner = Nobody
        <5>1. q.actor = h.copy.actor
          BY <3>2, <4>1 DEF NewPost
        <5> QED
          BY <1>5, <5>1 DEF PostKnown, Author
      <4>2. CASE h.copy.owner # Nobody
        <5>1. q.actor = Label(h.copy.owner) /\ h.copy.owner \in Agents
          BY <1>5, <3>2, <4>2 DEF NewPost, Post
        <5> QED
          BY <1>5, <5>1, Authors DEF PostKnown
      <4> QED
        BY <4>1, <4>2
    <3> HIDE DEF actor
    <3>5. q.owner = h.agent /\ q.handoff = h.agent /\ q.lock.owner = Nobody
      BY <3>2 DEF NewPost, NoLock
    <3>6. q \in Post
      BY <1>4, <2>2, <3>2, <3>3 DEF Post
    <3> QED
      BY <3>4, <3>5, <3>6 DEF Known
  <2> QED
    BY <1>4, <2>1, <2>2
<1> HIDE DEF q
<1>7. /\ posts' \in Seq(Post) /\ DOMAIN posts \subseteq DOMAIN posts'
      /\ \A i \in DOMAIN posts : posts'[i] = posts[i]
      /\ \A i \in DOMAIN posts' : i \in DOMAIN posts \/ posts'[i] = q
      /\ Len(posts) + 1 \in DOMAIN posts' /\ posts'[Len(posts) + 1] = q
  BY <1>3, <1>6, Appends DEF IInv, TypeOK
<1>8. /\ Known(posts, appointed) \subseteq Known(posts', appointed')
      /\ q.handoff \in Known(posts', appointed')
  BY <1>3, <1>7 DEF Known
<1>9. \A i \in DOMAIN posts' : PostKnown(posts'[i], Known(posts', appointed'))
  BY <1>6, <1>7, <1>8 DEF IInv, Custody, PostKnown
<1>10. TaskKnown(task', Known(posts', appointed'))
  BY <1>3, <1>8 DEF IInv, Custody, TaskKnown
<1>11. Left(h) \in Call /\ HandlerFits(Left(h), posts', Known(posts', appointed'))
  BY <1>1, <1>3, <1>6, <1>7, <1>8, LeftFits
<1> QED
  BY <1>1, <1>3, <1>7, <1>9, <1>10, <1>11, Keeps DEF IInv, TypeOK

\* A save puts back a post with the same handoff and known agents.
LEMMA SavePostKeeps ==
    ASSUME IInv, NEW c \in Handlers, SavePost(c)
    PROVE  IInv'
<1> DEFINE h == call[c]
<1>1. /\ h \in Call /\ h.plan # <<>> /\ Head(h.plan) = "post"
      /\ HandlerFits(h, posts, Known(posts, appointed))
      /\ call' = [call EXCEPT ![c] = Left(h)]
  BY Proceeds DEF SavePost
<1>2. /\ posts' = [posts EXCEPT ![h.at] = h.copy]
      /\ UNCHANGED <<task, autos, appointed, disturbed, made, faults>>
  BY DEF SavePost
<1> HIDE DEF h
<1>3. h.at \in DOMAIN posts /\ posts[h.at].handoff = h.copy.handoff
  BY <1>1, Heads DEF HandlerFits, Call
<1>4. posts \in Seq(Post) /\ h.copy \in Post
  BY <1>1 DEF IInv, TypeOK, Call
<1>5. /\ posts' \in Seq(Post) /\ DOMAIN posts' = DOMAIN posts
      /\ \A i \in DOMAIN posts : posts'[i] = IF i = h.at THEN h.copy ELSE posts[i]
  BY <1>2, <1>3, <1>4
<1>6. \A i \in DOMAIN posts : posts'[i].handoff = posts[i].handoff
  BY <1>3, <1>5
<1>7. Known(posts, appointed) \subseteq Known(posts', appointed')
  BY <1>2, <1>5, <1>6 DEF Known
<1>8. \A i \in DOMAIN posts' : PostKnown(posts'[i], Known(posts', appointed'))
  <2>1. PostKnown(h.copy, Known(posts, appointed))
    BY <1>1 DEF HandlerFits
  <2> QED
    BY <1>5, <1>7, <2>1 DEF IInv, Custody, PostKnown
<1>9. TaskKnown(task', Known(posts', appointed'))
  BY <1>2, <1>7 DEF IInv, Custody, TaskKnown
<1>10. Left(h) \in Call /\ HandlerFits(Left(h), posts', Known(posts', appointed'))
  BY <1>1, <1>2, <1>5, <1>6, LeftFits
<1> QED
  BY <1>1, <1>2, <1>5, <1>6, <1>8, <1>9, <1>10, Keeps DEF IInv, TypeOK

\* What the task becomes names the agent of the handler or whom the task named before.
LEMMA TaskAfterFits ==
    ASSUME IInv, NEW h \in Call, h.op \in {"lock", "unlock", "handoff"},
           h.op # "unlock" => h.agent \in Known(posts, appointed) \cap Agents
    PROVE  TaskAfter(h) \in Task /\ TaskKnown(TaskAfter(h), Known(posts, appointed))
<1> DEFINE t == TaskAfter(h)
<1>4. task \in Task /\ TaskKnown(task, Known(posts, appointed))
  BY DEF IInv, TypeOK, Custody
<1>1. CASE h.op = "lock"
  <2>1. t = [owner |-> h.agent, stage |-> "execution", lock |-> LockOf(h.agent)]
    BY <1>1 DEF TaskAfter
  <2> QED
    BY <1>1, <2>1, LockTypes DEF Task, Stages, TaskKnown
<1>2. CASE h.op = "unlock"
  <2>1. t = [task EXCEPT !.stage = "review", !.lock = Release(task.lock)]
    BY <1>2 DEF TaskAfter
  <2>2. Release(task.lock) \in ExecutionLock /\ Release(task.lock).owner = task.lock.owner
    BY <1>4, LockTypes DEF Task
  <2>3. t.owner = task.owner /\ t.lock = Release(task.lock)
    BY <1>4, <2>1 DEF Task
  <2>4. t \in Task
    BY <1>4, <2>1, <2>2 DEF Task, Stages
  <2> QED
    BY <1>4, <2>2, <2>3, <2>4 DEF TaskKnown
<1>3. CASE h.op = "handoff"
  <2>1. t = [owner |-> h.agent, stage |-> "discussion", lock |-> NoLock]
    BY <1>3 DEF TaskAfter
  <2> QED
    BY <1>3, <2>1, NewTypes DEF Task, Stages, TaskKnown, NoLock, Known
<1> QED
  BY <1>1, <1>2, <1>3

\* The copy of the task names the agent of the handler or whom the task named before.
LEMMA LoadTaskKeeps ==
    ASSUME IInv, NEW c \in Handlers, LoadTask(c)
    PROVE  IInv'
<1> DEFINE h == call[c]
           t == TaskAfter(h)
           g == [h EXCEPT !.taskCopy = t]
<1>1. /\ h \in Call /\ h.plan # <<>> /\ Head(h.plan) = "load"
      /\ HandlerFits(h, posts, Known(posts, appointed))
  BY DEF IInv, TypeOK, Custody, Handlers, LoadTask, At
<1>2. g.plan = h.plan
  BY <1>1 DEF Call
<1>3. call' = [call EXCEPT ![c] = Left(g)]
  BY <1>2, Proceeds DEF LoadTask
<1>4. UNCHANGED <<posts, task, autos, appointed, disturbed, made, faults>>
  BY DEF LoadTask
<1> HIDE DEF h
<1>6. h.plan = <<"load", "save">>
  BY <1>1, Heads DEF Call
<1>7. /\ h.op \in {"lock", "unlock", "handoff"}
      /\ h.op # "unlock" => h.agent \in Known(posts, appointed) \cap Agents
  BY <1>1, <1>6 DEF HandlerFits
<1>8. t \in Task /\ TaskKnown(t, Known(posts, appointed))
  BY <1>1, <1>7, TaskAfterFits
<1> HIDE DEF t
<1>9. /\ g \in Call /\ g.op = h.op /\ g.agent = h.agent /\ g.copy = h.copy /\ g.taskCopy = t
  BY <1>1, <1>8 DEF Call
<1> HIDE DEF g
<1>10. HandlerFits(g, posts, Known(posts, appointed))
  BY <1>1, <1>2, <1>6, <1>8, <1>9 DEF HandlerFits
<1>11. Left(g) \in Call /\ HandlerFits(Left(g), posts', Known(posts', appointed'))
  <2>1. g.plan # <<>> /\ Head(g.plan) # "child"
    BY <1>2, <1>6
  <2> QED
    BY <1>4, <1>9, <1>10, <2>1, LeftFits
<1>12. /\ \A i \in DOMAIN posts' : PostKnown(posts'[i], Known(posts', appointed'))
       /\ TaskKnown(task', Known(posts', appointed'))
  BY <1>4 DEF IInv, Custody
<1> QED
  BY <1>3, <1>4, <1>11, <1>12, Keeps DEF IInv, TypeOK

\* What is saved as the task is the copy of a handler that fits.
LEMMA SaveTaskKeeps ==
    ASSUME IInv, NEW c \in Handlers, SaveTask(c)
    PROVE  IInv'
<1> DEFINE h == call[c]
<1>1. /\ h \in Call /\ h.plan # <<>> /\ Head(h.plan) = "save"
      /\ HandlerFits(h, posts, Known(posts, appointed))
      /\ call' = [call EXCEPT ![c] = Left(h)]
  BY Proceeds DEF SaveTask
<1>2. task' = h.taskCopy /\ UNCHANGED <<posts, autos, appointed, disturbed, made, faults>>
  BY DEF SaveTask
<1> HIDE DEF h
<1>3. task' \in Task /\ TaskKnown(task', Known(posts', appointed'))
  BY <1>1, <1>2 DEF HandlerFits, Call
<1>4. Left(h) \in Call /\ HandlerFits(Left(h), posts', Known(posts', appointed'))
  BY <1>1, <1>2, LeftFits
<1>5. \A i \in DOMAIN posts' : PostKnown(posts'[i], Known(posts', appointed'))
  BY <1>2 DEF IInv, Custody
<1> QED
  BY <1>1, <1>2, <1>3, <1>4, <1>5, Keeps DEF IInv, TypeOK

LEMMA SaveReviewKeeps ==
    ASSUME IInv, NEW c \in Handlers, SaveReview(c)
    PROVE  IInv'
<1> DEFINE h == call[c]
<1>1. /\ h \in Call /\ h.plan # <<>> /\ Head(h.plan) = "review"
      /\ HandlerFits(h, posts, Known(posts, appointed))
      /\ call' = [call EXCEPT ![c] = Left(h)]
  BY Proceeds DEF SaveReview
<1>2. UNCHANGED <<posts, task, appointed, disturbed, made, faults>>
  BY DEF SaveReview
<1>3. autos' \in [Requests -> AutoPost]
  BY <1>1 DEF SaveReview, IInv, TypeOK, AutoPost, Call
<1> HIDE DEF h
<1>4. Left(h) \in Call /\ HandlerFits(Left(h), posts', Known(posts', appointed'))
  BY <1>1, <1>2, LeftFits
<1>5. /\ \A i \in DOMAIN posts' : PostKnown(posts'[i], Known(posts', appointed'))
      /\ TaskKnown(task', Known(posts', appointed'))
  BY <1>2 DEF IInv, Custody
<1> QED
  BY <1>1, <1>2, <1>3, <1>4, <1>5, Keeps DEF IInv, TypeOK

\* An automatic post is one of the initiator.
LEMMA PublishKeeps ==
    ASSUME IInv, NEW c \in Handlers, Publish(c)
    PROVE  IInv'
<1> DEFINE h == call[c]
           r == First(h.batch)
           q == [NewPost(Initiator) EXCEPT !.auto = r]
           g == [h EXCEPT !.at = Len(posts) + 1]
<1>1. /\ h \in Call /\ h.plan # <<>> /\ Head(h.plan) = "publish"
      /\ HandlerFits(h, posts, Known(posts, appointed))
  BY DEF IInv, TypeOK, Custody, Handlers, Publish, At
<1>2. g.plan = h.plan
  BY <1>1 DEF Call
<1>3. call' = [call EXCEPT ![c] = Left(g)]
  BY <1>2, Proceeds DEF Publish
<1>4. posts' = Append(posts, q) /\ UNCHANGED <<task, autos, appointed, disturbed, made, faults>>
  BY DEF Publish
<1> HIDE DEF h
<1>5. h.plan = <<"publish", "mark">>
  BY <1>1, Heads DEF Call
<1>6. r \in Requests
  BY <1>1, <1>5, FirstIsOne DEF HandlerFits, Call
<1>7. posts \in Seq(Post) /\ Len(posts) + 1 \in Nat
  BY DEF IInv, TypeOK
<1>8. g \in Call /\ g.copy = h.copy /\ g.taskCopy = h.taskCopy /\ g.batch = h.batch
  BY <1>1, <1>7 DEF Call
<1> HIDE DEF r, g
<1>9. /\ q \in Post /\ q.owner = Nobody /\ q.lock.owner = Nobody /\ q.actor = Initiator
  <2>1. NewPost(Initiator) \in Post
    BY NewTypes
  <2>2. q \in Post
    BY <1>6, <2>1 DEF Post
  <2> QED
    BY <2>2 DEF NewPost, NoLock
<1>10. PostKnown(q, Known(posts, appointed))
  BY <1>9, Authors, NewTypes DEF PostKnown, Known
<1> HIDE DEF q
<1>11. /\ posts' \in Seq(Post) /\ DOMAIN posts \subseteq DOMAIN posts'
       /\ \A i \in DOMAIN posts : posts'[i] = posts[i]
       /\ \A i \in DOMAIN posts' : i \in DOMAIN posts \/ posts'[i] = q
  BY <1>4, <1>7, <1>9, Appends
<1>12. Known(posts, appointed) \subseteq Known(posts', appointed')
  BY <1>4, <1>11 DEF Known
<1>13. \A i \in DOMAIN posts' : PostKnown(posts'[i], Known(posts', appointed'))
  BY <1>10, <1>11, <1>12 DEF IInv, Custody, PostKnown
<1>14. TaskKnown(task', Known(posts', appointed'))
  BY <1>4, <1>12 DEF IInv, Custody, TaskKnown
<1>15. HandlerFits(g, posts, Known(posts, appointed))
  BY <1>1, <1>2, <1>5, <1>8 DEF HandlerFits
<1>16. Left(g) \in Call /\ HandlerFits(Left(g), posts', Known(posts', appointed'))
  <2>1. g.plan # <<>> /\ Head(g.plan) # "child"
    BY <1>2, <1>5
  <2> QED
    BY <1>4, <1>8, <1>11, <1>15, <2>1, LeftFits
<1> QED
  BY <1>3, <1>4, <1>11, <1>13, <1>14, <1>16, Keeps DEF IInv, TypeOK

\* A batch that is not done keeps a request.
LEMMA MarkKeeps ==
    ASSUME IInv, NEW c \in Handlers, Mark(c)
    PROVE  IInv'
<1> DEFINE h == call[c]
           r == First(h.batch)
           rest == h.batch \ {r}
           k == [h EXCEPT !.batch = rest, !.plan = <<"publish", "mark">>]
           g == IF rest = {} THEN Idle ELSE k
<1>1. /\ h \in Call /\ h.plan # <<>> /\ Head(h.plan) = "mark"
      /\ HandlerFits(h, posts, Known(posts, appointed))
  BY DEF IInv, TypeOK, Custody, Handlers, Mark, At
<1>2. /\ call' = [call EXCEPT ![c] = g]
      /\ autos' = [autos EXCEPT ![r] = [status |-> "published", post |-> h.at]]
      /\ UNCHANGED <<posts, task, appointed, disturbed, made, faults>>
  BY DEF Mark
<1>3. autos \in [Requests -> AutoPost]
  BY DEF IInv, TypeOK
<1> HIDE DEF h
<1>4. autos' \in [Requests -> AutoPost]
  BY <1>1, <1>2, <1>3 DEF AutoPost, Call
<1>5. rest \in SUBSET Requests
  BY <1>1 DEF Call
<1> HIDE DEF rest
<1>6. CASE rest # {}
  <2>1. k \in Call
    BY <1>1, <1>5 DEF Call, Plans
  <2>2. /\ k.plan = <<"publish", "mark">> /\ k.batch = rest
        /\ k.copy = h.copy /\ k.taskCopy = h.taskCopy
    BY <1>1 DEF Call
  <2> HIDE DEF k
  <2>3. HandlerFits(k, posts, Known(posts, appointed))
    BY <1>1, <1>6, <2>2 DEF HandlerFits
  <2> QED
    BY <1>2, <1>4, <1>6, <2>1, <2>3, Keeps DEF IInv, TypeOK, Custody
<1>7. CASE rest = {}
  BY <1>2, <1>4, <1>7, IdleFits, NewTypes, Keeps DEF IInv, TypeOK, Custody
<1> QED
  BY <1>6, <1>7

\* Nothing that a dead handler wrote is taken back.
LEMMA DieKeeps ==
    ASSUME IInv, NEW c \in Handlers, Die(c)
    PROVE  IInv'
<1>1. /\ call' = [call EXCEPT ![c] = Idle] /\ UNCHANGED <<posts, task, autos, appointed, made>>
      /\ disturbed' \in SUBSET {"board", "queue"} /\ faults' \in 0..MaxFaults
  BY BoardAssumption DEF Die, Family, IInv, TypeOK
<1> QED
  BY <1>1, IdleFits, NewTypes, Keeps DEF IInv, TypeOK, Custody

LEMMA EnqueueKeeps ==
    ASSUME IInv, NEW r \in Requests, Enqueue(r)
    PROVE  IInv'
<1>1. /\ UNCHANGED <<posts, task, call, appointed, disturbed, faults>>
      /\ autos' \in [Requests -> AutoPost] /\ made' \in 0..MaxCalls
  BY BoardAssumption DEF Enqueue, IInv, TypeOK, AutoPost
<1> QED
  BY <1>1 DEF IInv, TypeOK, Custody

---------------------------------------------------------------------------
(* The invariant and the theorems.                                         *)

LEMMA Initially ==
    ASSUME Init
    PROVE  IInv
<1>1. NewPost(Initiator) \in Post
  BY NewTypes
<1>2. /\ posts = <<NewPost(Initiator)>> /\ task = NewTask /\ appointed = {}
      /\ call = [c \in Calls \cup {Worker} |-> Idle]
  BY DEF Init
<1>3. TypeOK
  <2>1. posts \in Seq(Post)
    BY <1>1, <1>2
  <2>2. autos \in [Requests -> AutoPost]
    BY DEF Init, AutoPost
  <2>3. call \in [Calls \cup {Worker} -> Call]
    BY <1>2, NewTypes
  <2>4. /\ appointed \in SUBSET Agents /\ disturbed \in SUBSET {"board", "queue"}
        /\ made \in 0..MaxCalls /\ faults \in 0..MaxFaults
    BY BoardAssumption DEF Init
  <2>5. task \in Task
    BY <1>2, NewTypes
  <2> QED
    BY <2>1, <2>2, <2>3, <2>4, <2>5, Zenon DEF TypeOK
<1>4. Custody
  <2>1. ASSUME NEW i \in DOMAIN posts
        PROVE  PostKnown(posts[i], Known(posts, appointed))
    <3>1. posts[i] = NewPost(Initiator)
      BY <1>2
    <3>2. /\ posts[i].owner = Nobody /\ posts[i].lock.owner = Nobody
          /\ posts[i].actor = Initiator
      BY <3>1 DEF NewPost, NoLock
    <3> QED
      BY <3>2, Authors, NewTypes DEF PostKnown, Known
  <2>2. TaskKnown(task, Known(posts, appointed))
    BY <1>2 DEF TaskKnown, NewTask, NoLock, Known
  <2>3. \A c \in Handlers : HandlerFits(call[c], posts, Known(posts, appointed))
    BY <1>2, IdleFits DEF Handlers
  <2> QED
    BY <2>1, <2>2, <2>3 DEF Custody
<1> QED
  BY <1>3, <1>4 DEF IInv

LEMMA WriteKeeps ==
    ASSUME IInv, NEW c \in Handlers, Write(c)
    PROVE  IInv'
  BY AddChildKeeps, SavePostKeeps, LoadTaskKeeps, SaveTaskKeeps, SaveReviewKeeps,
     PublishKeeps, MarkKeeps DEF Write

LEMMA DecideKeeps ==
    ASSUME IInv, NEW c \in Calls, Decide(c)
    PROVE  IInv'
<1>1. made < MaxCalls /\ c \in Handlers
  BY DEF Decide, Handlers
<1>2. ASSUME NEW u \in Users, NEW i \in DOMAIN posts, NEW a \in Agents,
             Lock(c, u, i, a) \/ Handoff(c, u, i, a)
      PROVE  IInv'
  BY <1>1, <1>2, LockKeeps, HandoffKeeps
<1>3. ASSUME NEW u \in Users, NEW i \in DOMAIN posts,
             Unlock(c, u, i) \/ Reply(c, u, i) \/ MarkRead(c, u, i)
      PROVE  IInv'
  BY <1>1, <1>3, UnlockKeeps, ReplyKeeps, MarkReadKeeps
<1>4. ASSUME NEW u \in Admins, NEW r \in Requests, Review(c, u, r)
      PROVE  IInv'
  BY <1>1, <1>4, ReviewKeeps
<1>5. ASSUME NEW u \in Admins, Drain(c, u)
      PROVE  IInv'
  BY <1>1, <1>5, DrainKeeps
<1> QED
  BY <1>2, <1>3, <1>4, <1>5 DEF Decide

\* The inductive invariant: types, and everybody that the board, the task or a copy in a
\* handler names is known.
THEOREM Invariance == Spec => []IInv
<1>1. Init => IInv
  BY Initially
<1>2. IInv /\ [Next]_vars => IInv'
  <2> SUFFICES ASSUME IInv, [Next]_vars PROVE IInv'
    OBVIOUS
  <2>1. ASSUME NEW c \in Calls, Decide(c) \/ Write(c) \/ Die(c)
        PROVE  IInv'
    BY <2>1, DecideKeeps, WriteKeeps, DieKeeps DEF Handlers
  <2>2. CASE WorkerStep
    BY <2>2, DrainKeeps, WriteKeeps DEF WorkerStep, Handlers
  <2>3. CASE Die(Worker)
    BY <2>3, DieKeeps DEF Handlers
  <2>4. ASSUME NEW r \in Requests, Enqueue(r)
        PROVE  IInv'
    BY <2>4, EnqueueKeeps
  <2>5. CASE UNCHANGED vars
    BY <2>5 DEF vars, IInv, TypeOK, Custody
  <2> QED
    BY <2>1, <2>2, <2>3, <2>4, <2>5 DEF Next
<1> QED
  BY <1>1, <1>2, PTL DEF Spec

\* The state of the board, of the queue and of every handler has its type, the copies that
\* the handlers hold included.
THEOREM TypeCorrect == Spec => []TypeOK
<1>1. IInv => TypeOK
  BY DEF IInv
<1> QED
  BY <1>1, Invariance, PTL

\* Nobody owns, locks or writes anything in a task who was not brought in by a handoff that
\* is still on its board, by a lead or by an admin: for every number of users, services and
\* handlers, in every order of their steps and after any of them died.
THEOREM CustodyHolds == Spec => []ChainOfCustody
<1>1. IInv => ChainOfCustody
  <2> SUFFICES ASSUME IInv, NEW a \in Holders \ ({Initiator, Nobody} \cup Governors)
               PROVE  a \in appointed \/ \E i \in DOMAIN posts : posts[i].handoff = a
    BY DEF ChainOfCustody
  <2>1. a \in Known(posts, appointed)
    BY DEF Holders, IInv, Custody, PostKnown, TaskKnown
  <2> QED
    BY <2>1 DEF Known
<1> QED
  BY <1>1, Invariance, PTL

---------------------------------------------------------------------------
(* The queue of automatic posts.                                           *)

\* The plans that save a copy of a post, and those of a handler of the queue.
PostPlans == {<<"post">>, <<"post", "load", "save">>, <<"child", "post", "load", "save">>}
DrainPlans == {<<"publish", "mark">>, <<"mark">>}
QueuePlans == {<<"review">>} \cup DrainPlans

Told(as) == {r \in Requests : as[r].status \in {"reviewed", "published"}}

\* What a handler knows of the queue: the copy of a post is of the same request as the post,
\* a drain works on requests that were reviewed, and the post that it has added is the post
\* of its first request.
Tells(h, ps, as) ==
    /\ h.plan \in PostPlans => h.at \in DOMAIN ps /\ h.copy.auto = ps[h.at].auto
    /\ h.plan \in DrainPlans => h.batch # {} /\ h.batch \subseteq Told(as)
    /\ h.plan = <<"mark">> => h.at \in DOMAIN ps /\ ps[h.at].auto = First(h.batch)
    /\ h.plan # <<>> => (Family(h.op) = "queue" <=> h.plan \in QueuePlans)

Reviewed ==
    /\ \A c \in Handlers : Tells(call[c], posts, autos)
    /\ \A i \in DOMAIN posts : posts[i].auto # 0 => posts[i].auto \in Told(autos)
    /\ \A r \in Requests :
          autos[r].status = "published" =>
              autos[r].post \in DOMAIN posts /\ posts[autos[r].post].auto = r

\* What a handler of the queue knows besides when no other has been at work.
Works(h, as) ==
    /\ h.plan = <<"review">> => \A r \in h.batch : as[r].status = "queued"
    /\ h.plan \in DrainPlans => \A r \in h.batch : as[r].status = "reviewed"

\* The requests whose post is there and whose handler is about to say so.
Posting == {First(call[c].batch) : c \in {d \in Handlers : call[d].plan = <<"mark">>}}

OneEach ==
    "queue" \notin disturbed =>
        /\ \A c, d \in Handlers :
              call[c].plan \in QueuePlans /\ call[d].plan \in QueuePlans => c = d
        /\ \A c \in Handlers : Works(call[c], autos)
        /\ \A i \in DOMAIN posts : posts[i].auto # 0 =>
              /\ \A j \in DOMAIN posts : posts[j].auto = posts[i].auto => j = i
              /\ autos[posts[i].auto].status = "published" \/ posts[i].auto \in Posting

QInv == Reviewed /\ OneEach

\* Nothing is lost by steps that keep the request of every post and forget no review.
LEMMA StillTells ==
    ASSUME NEW h, NEW ps, NEW as, NEW qs, NEW bs, Tells(h, ps, as),
           DOMAIN ps \subseteq DOMAIN qs, \A i \in DOMAIN ps : qs[i].auto = ps[i].auto,
           Told(as) \subseteq Told(bs)
    PROVE  Tells(h, qs, bs)
<1>1. h.plan = <<"mark">> => h.plan \in DrainPlans
  BY DEF DrainPlans
<1> QED
  BY <1>1 DEF Tells

\* Of one step of a handler that is left with g.
LEMMA TellsOn ==
    ASSUME IInv, Reviewed, NEW c \in Handlers, NEW g, call' = [call EXCEPT ![c] = g],
           DOMAIN posts \subseteq DOMAIN posts',
           \A i \in DOMAIN posts : posts'[i].auto = posts[i].auto,
           Told(autos) \subseteq Told(autos'), Tells(g, posts', autos')
    PROVE  \A d \in Handlers : Tells(call'[d], posts', autos')
<1> SUFFICES ASSUME NEW d \in Handlers PROVE Tells(call'[d], posts', autos')
  OBVIOUS
<1>1. CASE d = c
  BY <1>1 DEF IInv, TypeOK, Handlers
<1>2. CASE d # c
  <2>1. call'[d] = call[d] /\ Tells(call[d], posts, autos)
    BY <1>2 DEF IInv, TypeOK, Handlers, Reviewed
  <2> QED
    BY <2>1, StillTells
<1> QED
  BY <1>1, <1>2

\* The plans of the queue and the others.
LEMMA PlansApart ==
    /\ \A p \in PostPlans : p \notin QueuePlans
    /\ {<<>>, <<"child">>, <<"save">>, <<"load", "save">>, <<"child", "load", "save">>}
           \cap (PostPlans \cup QueuePlans) = {}
    /\ {<<"review">>, <<"mark">>} \subseteq QueuePlans /\ <<"review">> \notin DrainPlans
  BY DEF PostPlans, QueuePlans, DrainPlans

\* A handler that has nothing to do knows nothing.
LEMMA IdleTells ==
    ASSUME NEW ps, NEW as
    PROVE  Tells(Idle, ps, as) /\ Idle.plan \notin QueuePlans /\ Works(Idle, as)
  BY NewTypes, PlansApart DEF Tells, Works, QueuePlans, DrainPlans, PostPlans

\* A step outside the queue: it adds no automatic post, and its handler is none of the queue
\* before and after it, unless one of the queue died.
LEMMA ElsewhereKeeps ==
    ASSUME IInv, QInv, NEW c \in Handlers, NEW g, call' = [call EXCEPT ![c] = g],
           autos' = autos, disturbed \subseteq disturbed',
           DOMAIN posts \subseteq DOMAIN posts',
           \A i \in DOMAIN posts : posts'[i].auto = posts[i].auto,
           \A i \in DOMAIN posts' : i \in DOMAIN posts \/ posts'[i].auto = 0,
           Tells(g, posts', autos'), g.plan \notin QueuePlans,
           call[c].plan \notin QueuePlans \/ "queue" \in disturbed'
    PROVE  QInv'
<1>1. \A d \in Handlers : d # c => call'[d] = call[d]
  BY DEF IInv, TypeOK, Handlers
<1>2. call'[c] = g
  BY DEF IInv, TypeOK, Handlers
<1>3. Reviewed'
  <2>1. \A d \in Handlers : Tells(call'[d], posts', autos')
    BY TellsOn DEF QInv
  <2> QED
    BY <2>1 DEF QInv, Reviewed
<1>4. OneEach'
  <2> SUFFICES ASSUME "queue" \notin disturbed' PROVE OneEach'
    BY DEF OneEach
  <2>1. "queue" \notin disturbed /\ call[c].plan \notin QueuePlans
    OBVIOUS
  <2>2. \A d, e \in Handlers :
            call'[d].plan \in QueuePlans /\ call'[e].plan \in QueuePlans => d = e
    BY <1>1, <1>2, <2>1 DEF QInv, OneEach
  <2>3. \A d \in Handlers : Works(call'[d], autos')
    <3>1. Works(g, autos')
      BY DEF Works, QueuePlans
    <3> QED
      BY <1>1, <1>2, <2>1, <3>1 DEF QInv, OneEach
  <2>4. Posting \subseteq Posting'
    <3> SUFFICES ASSUME NEW d \in Handlers, call[d].plan = <<"mark">>
                 PROVE  call'[d] = call[d]
      BY DEF Posting
    <3> QED
      BY <1>1, <2>1, PlansApart
  <2>5. ASSUME NEW i \in DOMAIN posts', posts'[i].auto # 0
        PROVE  /\ \A j \in DOMAIN posts' : posts'[j].auto = posts'[i].auto => j = i
               /\ autos'[posts'[i].auto].status = "published" \/ posts'[i].auto \in Posting'
    <3>1. i \in DOMAIN posts /\ posts'[i].auto = posts[i].auto
      BY <2>5
    <3>2. /\ \A j \in DOMAIN posts : posts[j].auto = posts[i].auto => j = i
          /\ autos[posts[i].auto].status = "published" \/ posts[i].auto \in Posting
      BY <2>1, <2>5, <3>1 DEF QInv, OneEach
    <3> QED
      BY <2>4, <2>5, <3>1, <3>2
  <2> QED
    BY <2>2, <2>3, <2>5 DEF OneEach
<1> QED
  BY <1>3, <1>4 DEF QInv

\* A handler that is not of the queue goes on with its plan.
LEMMA LeftTells ==
    ASSUME NEW h \in Call, h.plan # <<>>, h.plan \notin QueuePlans,
           NEW ps, NEW as, NEW qs, Tells(h, ps, as),
           DOMAIN ps \subseteq DOMAIN qs, \A i \in DOMAIN ps : qs[i].auto = ps[i].auto
    PROVE  Tells(Left(h), qs, as) /\ Left(h).plan \notin QueuePlans
<1>1. h.plan \in Plans
  BY DEF Call
<1>2. CASE Len(h.plan) = 1
  BY <1>2, IdleTells DEF Left
<1>3. CASE Len(h.plan) # 1
  <2> DEFINE g == [h EXCEPT !.plan = Tail(h.plan)]
  <2>1. Left(h) = g
    BY <1>3 DEF Left
  <2>2. g.plan = Tail(h.plan) /\ g.op = h.op /\ g.at = h.at /\ g.copy = h.copy
    BY DEF Call
  <2> HIDE DEF g
  <2>3. Family(h.op) # "queue"
    BY DEF Tells
  <2>4. CASE h.plan = <<"child", "post", "load", "save">>
    <3>1. g.plan = <<"post", "load", "save">>
      BY <1>1, <1>3, <2>2, <2>4, Rest
    <3>2. g.plan \in PostPlans /\ h.plan \in PostPlans
      BY <2>4, <3>1 DEF PostPlans
    <3> QED
      BY <2>1, <2>2, <2>3, <3>2, PlansApart DEF Tells, QueuePlans
  <2>5. CASE h.plan # <<"child", "post", "load", "save">>
    <3>1. h.plan # <<"publish", "mark">>
      BY DEF QueuePlans, DrainPlans
    <3>2. g.plan \in {<<"save">>, <<"load", "save">>}
      BY <1>1, <1>3, <2>2, <2>5, <3>1, Rest
    <3> QED
      BY <2>1, <2>2, <2>3, <3>2, PlansApart DEF Tells, QueuePlans
  <2> QED
    BY <2>4, <2>5
<1> QED
  BY <1>2, <1>3

\* A handler of the board begins with a copy of the post that it read.
LEMMA BeginTells ==
    ASSUME IInv, QInv, NEW c \in Handlers, NEW h, Begin(c, h),
           h.op \in {"lock", "unlock", "handoff", "reply", "read"},
           h.plan \notin QueuePlans,
           h.at \in DOMAIN posts, h.copy.auto = posts[h.at].auto
    PROVE  QInv'
<1>1. /\ call' = [call EXCEPT ![c] = h] /\ posts' = posts /\ autos' = autos
      /\ disturbed \subseteq disturbed' /\ call[c] = Idle
  BY DEF Begin
<1>2. Tells(h, posts', autos')
  <2>1. h.plan \notin DrainPlans /\ h.plan # <<"mark">>
    BY PlansApart DEF QueuePlans
  <2>2. Family(h.op) # "queue"
    BY DEF Family
  <2> QED
    BY <1>1, <2>1, <2>2 DEF Tells
<1>3. call[c].plan \notin QueuePlans
  BY <1>1, IdleTells
<1> QED
  BY <1>1, <1>2, <1>3, ElsewhereKeeps

\* What a handler of the board begins with is a copy of the post that it read.
LEMMA BoardDecides ==
    ASSUME IInv, QInv, NEW c \in Calls, NEW u \in Users, NEW i \in DOMAIN posts, NEW a \in Agents,
           \/ Lock(c, u, i, a) \/ Handoff(c, u, i, a)
           \/ Unlock(c, u, i) \/ Reply(c, u, i) \/ MarkRead(c, u, i)
    PROVE  QInv'
<1>1. posts[i] \in Post /\ c \in Handlers
  BY Reads DEF Handlers
<1>2. \A p \in PostPlans \cup {<<"child">>, <<"child", "load", "save">>} : p \notin QueuePlans
  BY PlansApart
<1>3. {<<"post">>, <<"post", "load", "save">>, <<"child", "post", "load", "save">>} = PostPlans
  BY DEF PostPlans
<1>4. CASE Lock(c, u, i, a)
  <2> DEFINE p == [posts[i] EXCEPT !.lock = LockOf(a), !.owner = a, !.stage = "execution"]
             h == [Idle EXCEPT !.op = "lock", !.user = u, !.agent = a, !.at = i, !.copy = p,
                               !.plan = <<"post", "load", "save">>]
  <2>1. h.op = "lock" /\ h.at = i /\ h.copy = p /\ h.plan = <<"post", "load", "save">>
    BY DEF Idle
  <2>2. Begin(c, h)
    BY <1>4 DEF Lock
  <2>3. p.auto = posts[i].auto
    BY <1>1 DEF Post
  <2> HIDE DEF p, h
  <2> QED
    BY <1>1, <1>2, <1>3, <2>1, <2>2, <2>3, BeginTells
<1>5. CASE Unlock(c, u, i)
  <2> DEFINE p == [posts[i] EXCEPT !.lock = Release(posts[i].lock), !.stage = "review"]
             h == [Idle EXCEPT !.op = "unlock", !.user = u, !.at = i, !.copy = p,
                               !.plan = <<"post", "load", "save">>]
  <2>1. h.op = "unlock" /\ h.at = i /\ h.copy = p /\ h.plan = <<"post", "load", "save">>
    BY DEF Idle
  <2>2. Begin(c, h)
    BY <1>5 DEF Unlock
  <2>3. p.auto = posts[i].auto
    BY <1>1 DEF Post
  <2> HIDE DEF p, h
  <2> QED
    BY <1>1, <1>2, <1>3, <2>1, <2>2, <2>3, BeginTells
<1>6. CASE Handoff(c, u, i, a) /\ posts[i].lock.active
  <2> DEFINE p == [posts[i] EXCEPT !.lock = Release(posts[i].lock), !.stage = "review"]
             h == [Idle EXCEPT !.op = "handoff", !.user = u, !.agent = a, !.at = i, !.copy = p,
                               !.plan = <<"child", "post", "load", "save">>]
  <2>1. h.op = "handoff" /\ h.at = i /\ h.copy = p /\ h.plan = <<"child", "post", "load", "save">>
    BY DEF Idle
  <2>2. Begin(c, h)
    BY <1>6 DEF Handoff
  <2>3. p.auto = posts[i].auto
    BY <1>1 DEF Post
  <2> HIDE DEF p, h
  <2> QED
    BY <1>1, <1>2, <1>3, <2>1, <2>2, <2>3, BeginTells
<1>7. CASE Handoff(c, u, i, a) /\ ~posts[i].lock.active
  <2> DEFINE p == posts[i]
             h == [Idle EXCEPT !.op = "handoff", !.user = u, !.agent = a, !.at = i, !.copy = p,
                               !.plan = <<"child", "load", "save">>]
  <2>1. h.op = "handoff" /\ h.at = i /\ h.copy = p /\ h.plan = <<"child", "load", "save">>
    BY DEF Idle
  <2>2. Begin(c, h)
    BY <1>7 DEF Handoff
  <2>3. p.auto = posts[i].auto
    BY <1>1 DEF Post
  <2> HIDE DEF p, h
  <2> QED
    BY <1>1, <1>2, <1>3, <2>1, <2>2, <2>3, BeginTells
<1>8. CASE Reply(c, u, i)
  <2> DEFINE p == posts[i]
             h == [Idle EXCEPT !.op = "reply", !.user = u, !.at = i, !.copy = p,
                               !.plan = <<"child">>]
  <2>1. h.op = "reply" /\ h.at = i /\ h.copy = p /\ h.plan = <<"child">>
    BY DEF Idle
  <2>2. Begin(c, h)
    BY <1>8 DEF Reply
  <2>3. p.auto = posts[i].auto
    BY <1>1 DEF Post
  <2> HIDE DEF p, h
  <2> QED
    BY <1>1, <1>2, <1>3, <2>1, <2>2, <2>3, BeginTells
<1>9. CASE MarkRead(c, u, i)
  <2> DEFINE p == [posts[i] EXCEPT !.readers = posts[i].readers \cup {u}]
             h == [Idle EXCEPT !.op = "read", !.user = u, !.at = i, !.copy = p,
                               !.plan = <<"post">>]
  <2>1. h.op = "read" /\ h.at = i /\ h.copy = p /\ h.plan = <<"post">>
    BY DEF Idle
  <2>2. Begin(c, h)
    BY <1>9 DEF MarkRead
  <2>3. p.auto = posts[i].auto
    BY <1>1 DEF Post
  <2> HIDE DEF p, h
  <2> QED
    BY <1>1, <1>2, <1>3, <2>1, <2>2, <2>3, BeginTells
<1> QED
  BY <1>4, <1>5, <1>6, <1>7, <1>8, <1>9

\* What is written to the board is no automatic post, and a saved copy is of the request
\* that the post was made of.
LEMMA BoardWrites ==
    ASSUME IInv, QInv, NEW c \in Handlers,
           AddChild(c) \/ SavePost(c) \/ LoadTask(c) \/ SaveTask(c)
    PROVE  QInv'
<1>1. /\ call[c] \in Call /\ call[c].plan \in Plans /\ posts \in Seq(Post)
      /\ HandlerFits(call[c], posts, Known(posts, appointed))
      /\ Tells(call[c], posts, autos)
  BY DEF IInv, TypeOK, Custody, Handlers, Call, QInv, Reviewed
<1>2. /\ call[c].plan # <<>> /\ Head(call[c].plan) \in {"child", "post", "load", "save"}
      /\ autos' = autos /\ disturbed' = disturbed
  BY DEF AddChild, SavePost, LoadTask, SaveTask, At
<1>3. call[c].plan \notin QueuePlans
  <2>1. Head(<<"review">>) = "review" /\ Head(<<"mark">>) = "mark"
    OBVIOUS
  <2>2. Head(<<"publish", "mark">>) = "publish"
    OBVIOUS
  <2> QED
    BY <1>2, <2>1, <2>2 DEF QueuePlans, DrainPlans
<1>4. ASSUME NEW g \in Call, g.plan = call[c].plan, Tells(g, posts, autos),
             call' = [call EXCEPT ![c] = Left(g)],
             DOMAIN posts \subseteq DOMAIN posts',
             \A i \in DOMAIN posts : posts'[i].auto = posts[i].auto,
             \A i \in DOMAIN posts' : i \in DOMAIN posts \/ posts'[i].auto = 0
      PROVE  QInv'
  <2>1. Tells(Left(g), posts', autos) /\ Left(g).plan \notin QueuePlans
    BY <1>2, <1>3, <1>4, LeftTells
  <2> QED
    BY <1>2, <1>3, <1>4, <2>1, ElsewhereKeeps
<1>5. CASE AddChild(c)
  <2>1. call' = [call EXCEPT ![c] = Left(call[c])] /\ posts' = Append(posts, Child(call[c]))
    BY <1>5, Proceeds DEF AddChild
  <2>2. Child(call[c]).auto = 0
    BY DEF Child, NewPost
  <2>3. /\ DOMAIN posts \subseteq DOMAIN posts'
        /\ \A i \in DOMAIN posts : posts'[i] = posts[i]
        /\ \A i \in DOMAIN posts' : i \in DOMAIN posts \/ posts'[i] = Child(call[c])
    BY <1>1, <2>1
  <2> QED
    BY <1>1, <1>4, <2>1, <2>2, <2>3
<1>6. CASE SavePost(c)
  <2>1. /\ call' = [call EXCEPT ![c] = Left(call[c])]
        /\ posts' = [posts EXCEPT ![call[c].at] = call[c].copy] /\ Head(call[c].plan) = "post"
    BY <1>6, Proceeds DEF SavePost
  <2>2. call[c].plan \in PostPlans
    BY <1>1, <1>2, <2>1, Heads DEF PostPlans
  <2>3. call[c].at \in DOMAIN posts /\ call[c].copy.auto = posts[call[c].at].auto
    BY <1>1, <2>2 DEF Tells
  <2>4. DOMAIN posts' = DOMAIN posts /\ \A i \in DOMAIN posts : posts'[i].auto = posts[i].auto
    BY <2>1, <2>3
  <2> QED
    BY <1>1, <1>4, <2>1, <2>4
<1>7. CASE LoadTask(c)
  <2>1. PICK t : t = TaskAfter(call[c])
    OBVIOUS
  <2> DEFINE g == [call[c] EXCEPT !.taskCopy = t]
  <2>2. /\ g.plan = call[c].plan /\ g.op = call[c].op /\ g.at = call[c].at
        /\ g.copy = call[c].copy /\ g.batch = call[c].batch
    BY <1>1 DEF Call
  <2>3. call' = [call EXCEPT ![c] = Left(g)] /\ posts' = posts
    BY <1>7, <2>1, <2>2, Proceeds DEF LoadTask
  <2>4. Tells(g, posts, autos)
    BY <1>1, <2>2 DEF Tells
  <2>5. call[c].plan = <<"load", "save">>
    BY <1>1, <1>2, <1>7, Heads DEF LoadTask, At
  <2>6. t \in Task
    BY <1>1, <2>1, <2>5, TaskAfterFits DEF HandlerFits
  <2>7. g \in Call
    BY <1>1, <2>6 DEF Call
  <2> HIDE DEF g
  <2> QED
    BY <1>4, <2>2, <2>3, <2>4, <2>7
<1>8. CASE SaveTask(c)
  <2>1. call' = [call EXCEPT ![c] = Left(call[c])] /\ posts' = posts
    BY <1>8, Proceeds DEF SaveTask
  <2> QED
    BY <1>1, <1>4, <2>1
<1> QED
  BY <1>5, <1>6, <1>7, <1>8

\* A death in the queue is remembered, one on the board is no matter of the queue.
LEMMA DieTells ==
    ASSUME IInv, QInv, NEW c \in Handlers, Die(c)
    PROVE  QInv'
<1>1. /\ call' = [call EXCEPT ![c] = Idle] /\ posts' = posts /\ autos' = autos
      /\ disturbed' = disturbed \cup {Family(call[c].op)} /\ call[c].plan # <<>>
  BY DEF Die
<1>2. call[c].plan \notin QueuePlans \/ "queue" \in disturbed'
  BY <1>1 DEF QInv, Reviewed, Tells
<1> QED
  BY <1>1, <1>2, IdleTells, ElsewhereKeeps

\* A handler of the queue begins.
LEMMA QueueBegins ==
    ASSUME IInv, QInv, NEW c \in Handlers, NEW h, Begin(c, h), Family(h.op) = "queue",
           h.plan \in {<<"review">>, <<"publish", "mark">>},
           Tells(h, posts, autos), Works(h, autos)
    PROVE  QInv'
<1>1. /\ call' = [call EXCEPT ![c] = h] /\ posts' = posts /\ autos' = autos
      /\ disturbed \subseteq disturbed'
      /\ InFlight("queue") # {} => "queue" \in disturbed'
  BY DEF Begin
<1>2. \A d \in Handlers : call'[d] = IF d = c THEN h ELSE call[d]
  BY <1>1 DEF IInv, TypeOK, Handlers
<1>3. \A d \in Handlers : Tells(call'[d], posts', autos')
  BY <1>1, TellsOn DEF QInv
<1>4. Reviewed'
  BY <1>1, <1>3 DEF QInv, Reviewed
<1>5. OneEach'
  <2> SUFFICES ASSUME "queue" \notin disturbed' PROVE OneEach'
    BY DEF OneEach
  <2>1. "queue" \notin disturbed
    BY <1>1
  <2>2. ASSUME NEW d \in Handlers PROVE call[d].plan \notin QueuePlans
    <3>1. DOMAIN call = Handlers
      BY DEF IInv, TypeOK, Handlers
    <3>2. call[d].plan \in QueuePlans => d \in InFlight("queue")
      BY <3>1, PlansApart DEF QInv, Reviewed, Tells, InFlight
    <3> QED
      BY <1>1, <3>2
  <2>3. Posting = {}
    BY <2>2, PlansApart DEF Posting
  <2>4. \A d \in Handlers : Works(call'[d], autos')
    BY <1>1, <1>2, <2>1 DEF QInv, OneEach
  <2> QED
    BY <1>1, <1>2, <2>1, <2>2, <2>3, <2>4 DEF QInv, OneEach
<1> QED
  BY <1>4, <1>5 DEF QInv

LEMMA ReviewTells ==
    ASSUME IInv, QInv, NEW c \in Handlers, NEW u, NEW r \in Requests, Review(c, u, r)
    PROVE  QInv'
<1> DEFINE h == [Idle EXCEPT !.op = "review", !.user = u, !.batch = {r}, !.plan = <<"review">>]
<1>1. h.op = "review" /\ h.batch = {r} /\ h.plan = <<"review">>
  BY DEF Idle
<1>2. Begin(c, h) /\ autos[r].status = "queued"
  BY DEF Review
<1> HIDE DEF h
<1>3. Family(h.op) = "queue"
  BY <1>1 DEF Family
<1>4. Tells(h, posts, autos)
  BY <1>1, <1>3, PlansApart DEF Tells
<1>5. Works(h, autos)
  BY <1>1, <1>2, PlansApart DEF Works
<1> QED
  BY <1>1, <1>2, <1>3, <1>4, <1>5, QueueBegins

LEMMA DrainTells ==
    ASSUME IInv, QInv, NEW c \in Handlers, NEW u, Drain(c, u)
    PROVE  QInv'
<1> DEFINE h == [Idle EXCEPT !.op = "drain", !.user = u, !.batch = Ready,
                             !.plan = <<"publish", "mark">>]
<1>1. h.op = "drain" /\ h.batch = Ready /\ h.plan = <<"publish", "mark">>
  BY DEF Idle
<1>2. Begin(c, h) /\ Ready # {}
  BY DEF Drain
<1> HIDE DEF h
<1>3. Family(h.op) = "queue"
  BY <1>1 DEF Family
<1>4. h.plan \in QueuePlans /\ h.plan # <<"mark">> /\ h.plan # <<"review">>
  BY <1>1 DEF QueuePlans, DrainPlans
<1>5. Tells(h, posts, autos)
  <2>1. Ready \subseteq Told(autos)
    BY DEF Ready, Told
  <2> QED
    BY <1>1, <1>2, <1>3, <1>4, <2>1, PlansApart DEF Tells
<1>6. Works(h, autos)
  BY <1>1, <1>4 DEF Works, Ready
<1> QED
  BY <1>1, <1>2, <1>3, <1>5, <1>6, QueueBegins

\* Where the queue was never disturbed, its handler is alone.
LEMMA Alone ==
    ASSUME IInv, QInv, NEW c \in Handlers, call[c].plan \in QueuePlans, "queue" \notin disturbed,
           NEW g, call' = [call EXCEPT ![c] = g], Works(g, autos')
    PROVE  /\ \A d, e \in Handlers :
                 call'[d].plan \in QueuePlans /\ call'[e].plan \in QueuePlans => d = e
           /\ \A d \in Handlers : Works(call'[d], autos')
           /\ Works(call[c], autos)
           /\ \A s \in Posting : call[c].plan = <<"mark">> /\ s = First(call[c].batch)
           /\ g.plan = <<"mark">> => First(g.batch) \in Posting'
<1>1. \A d \in Handlers : call'[d] = IF d = c THEN g ELSE call[d]
  BY DEF IInv, TypeOK, Handlers
<1>2. \A d \in Handlers : d # c => call[d].plan \notin QueuePlans
  BY DEF QInv, OneEach
<1>3. \A d \in Handlers : d # c => Works(call[d], autos')
  BY <1>2 DEF Works, QueuePlans
<1>4. \A s \in Posting : call[c].plan = <<"mark">> /\ s = First(call[c].batch)
  BY <1>2, PlansApart DEF Posting
<1>5. g.plan = <<"mark">> => First(g.batch) \in Posting'
  BY <1>1 DEF Posting
<1> QED
  BY <1>1, <1>2, <1>3, <1>4, <1>5 DEF QInv, OneEach

LEMMA ReviewHead ==
    ASSUME NEW p \in Plans, p # <<>>, Head(p) \in {"review", "save"}
    PROVE  p = <<Head(p)>>
<1>1. /\ Head(<<"child">>) = "child" /\ Head(<<"child", "load", "save">>) = "child"
      /\ Head(<<"child", "post", "load", "save">>) = "child"
      /\ Head(<<"post">>) = "post" /\ Head(<<"post", "load", "save">>) = "post"
  OBVIOUS
<1>2. /\ Head(<<"save">>) = "save" /\ Head(<<"load", "save">>) = "load"
      /\ Head(<<"mark">>) = "mark" /\ Head(<<"publish", "mark">>) = "publish"
      /\ Head(<<"review">>) = "review"
  OBVIOUS
<1> QED
  BY <1>1, <1>2 DEF Plans

\* A review that was saved: the request was queued, or somebody else was at work.
LEMMA SaveReviewTells ==
    ASSUME IInv, QInv, NEW c \in Handlers, SaveReview(c)
    PROVE  QInv'
<1>1. /\ call[c] \in Call /\ call[c].plan # <<>> /\ Head(call[c].plan) = "review"
      /\ call' = [call EXCEPT ![c] = Left(call[c])]
      /\ posts' = posts /\ disturbed' = disturbed
  BY Proceeds DEF SaveReview
<1>2. call[c].plan = <<"review">>
  BY <1>1, ReviewHead DEF Call
<1>3. Left(call[c]) = Idle
  BY <1>2 DEF Left
<1>4. autos \in [Requests -> AutoPost]
  BY DEF IInv, TypeOK
<1>5. PICK r \in call[c].batch : autos' = [autos EXCEPT ![r] = [status |-> "reviewed", post |-> 0]]
  BY DEF SaveReview
<1>6. r \in Requests
  BY <1>1 DEF Call
<1>7. /\ autos'[r].status = "reviewed"
      /\ \A s \in Requests : s # r => autos'[s] = autos[s]
  BY <1>4, <1>5, <1>6
<1>8. Told(autos) \subseteq Told(autos')
  BY <1>7 DEF Told
<1>9. \A d \in Handlers : Tells(call'[d], posts', autos')
  BY <1>1, <1>3, <1>8, IdleTells, TellsOn DEF QInv
<1>10. Reviewed'
  BY <1>1, <1>6, <1>7, <1>8, <1>9 DEF QInv, Reviewed
<1>11. OneEach'
  <2> SUFFICES ASSUME "queue" \notin disturbed' PROVE OneEach'
    BY DEF OneEach
  <2>1. /\ \A d, e \in Handlers :
              call'[d].plan \in QueuePlans /\ call'[e].plan \in QueuePlans => d = e
        /\ \A d \in Handlers : Works(call'[d], autos')
        /\ Works(call[c], autos) /\ \A s \in Posting : call[c].plan = <<"mark">>
    BY <1>1, <1>2, <1>3, IdleTells, PlansApart, Alone
  <2>2. autos[r].status = "queued" /\ Posting = {}
    BY <1>2, <2>1 DEF Works
  <2>3. ASSUME NEW i \in DOMAIN posts, posts[i].auto # 0
        PROVE  /\ \A j \in DOMAIN posts : posts[j].auto = posts[i].auto => j = i
               /\ posts[i].auto \in Requests /\ autos[posts[i].auto].status = "published"
    BY <1>1, <2>2, <2>3 DEF QInv, Reviewed, OneEach, Told
  <2>4. \A i \in DOMAIN posts : posts[i].auto # 0 => posts[i].auto # r
    BY <2>2, <2>3
  <2> QED
    BY <1>1, <1>7, <2>1, <2>3, <2>4 DEF OneEach
<1> QED
  BY <1>10, <1>11 DEF QInv

\* A post that a drain adds is the first of a request that was reviewed.
LEMMA PublishTells ==
    ASSUME IInv, QInv, NEW c \in Handlers, Publish(c)
    PROVE  QInv'
<1>1. PICK n : n = Len(posts) + 1
  OBVIOUS
<1>2. PICK r : r = First(call[c].batch)
  OBVIOUS
<1>3. PICK q : q = [NewPost(Initiator) EXCEPT !.auto = r]
  OBVIOUS
<1>4. PICK h : h = [call[c] EXCEPT !.at = n]
  OBVIOUS
<1>5. /\ call[c] \in Call /\ call[c].plan # <<>> /\ Head(call[c].plan) = "publish"
      /\ Tells(call[c], posts, autos) /\ posts \in Seq(Post)
  BY DEF IInv, TypeOK, Handlers, QInv, Reviewed, Publish, At
<1>6. call[c].plan = <<"publish", "mark">>
  BY <1>5, Heads DEF Call
<1>7. h.plan = call[c].plan /\ h.op = call[c].op /\ h.at = n /\ h.batch = call[c].batch
  BY <1>4, <1>5 DEF Call
<1>8. DOMAIN h = DOMAIN call[c]
  BY <1>4
<1>9. PICK g : g = [h EXCEPT !.plan = <<"mark">>]
  OBVIOUS
<1>10. g.plan = <<"mark">> /\ g.op = h.op /\ g.at = n /\ g.batch = h.batch
  BY <1>4, <1>5, <1>7, <1>9 DEF Call
<1>11. call' = [call EXCEPT ![c] = g] /\ posts' = Append(posts, q)
  <2>1. Len(h.plan) # 1 /\ Tail(h.plan) = <<"mark">>
    BY <1>6, <1>7
  <2> QED
    BY <1>1, <1>2, <1>3, <1>4, <1>9, <2>1 DEF Publish, Proceed
<1>12. autos' = autos /\ disturbed' = disturbed
  BY DEF Publish
<1>13. call[c].plan \in DrainPlans /\ call[c].plan \in QueuePlans /\ call[c].plan # <<"mark">>
  BY <1>6 DEF DrainPlans, QueuePlans
<1>14. /\ call[c].batch \subseteq Told(autos) /\ call[c].batch # {}
       /\ Family(call[c].op) = "queue"
  BY <1>5, <1>6, <1>13 DEF Tells
<1>15. r \in call[c].batch /\ r \in Told(autos) /\ r \in Requests
  BY <1>2, <1>14, FirstIsOne DEF Told
<1>16. q \in Post /\ q.auto = r
  <2>1. NewPost(Initiator) \in Post
    BY NewTypes
  <2> QED
    BY <1>3, <1>15, <2>1 DEF Post
<1>17. /\ DOMAIN posts \subseteq DOMAIN posts' /\ n \in DOMAIN posts' /\ posts'[n] = q
       /\ \A i \in DOMAIN posts : posts'[i] = posts[i]
       /\ \A i \in DOMAIN posts' : i \in DOMAIN posts \/ i = n
       /\ n \notin DOMAIN posts
  BY <1>1, <1>5, <1>11, <1>16
<1>18. Tells(g, posts', autos')
  BY <1>2, <1>7, <1>10, <1>12, <1>14, <1>16, <1>17, PlansApart
     DEF Tells, QueuePlans, DrainPlans
<1>19. \A d \in Handlers : Tells(call'[d], posts', autos')
  BY <1>11, <1>12, <1>17, <1>18, TellsOn DEF QInv
<1>20. Reviewed'
  BY <1>12, <1>15, <1>16, <1>17, <1>19 DEF QInv, Reviewed
<1>21. OneEach'
  <2> SUFFICES ASSUME "queue" \notin disturbed' PROVE OneEach'
    BY DEF OneEach
  <2>1. "queue" \notin disturbed
    BY <1>12
  <2>2. Works(call[c], autos)
    BY <2>1 DEF QInv, OneEach
  <2>3. autos[r].status = "reviewed" /\ Works(g, autos')
    BY <1>7, <1>10, <1>12, <1>13, <1>15, <2>2, PlansApart DEF Works
  <2>4. /\ \A d, e \in Handlers :
              call'[d].plan \in QueuePlans /\ call'[e].plan \in QueuePlans => d = e
        /\ \A d \in Handlers : Works(call'[d], autos')
        /\ Posting = {} /\ First(g.batch) \in Posting'
    BY <1>10, <1>11, <1>13, <2>1, <2>3, Alone
  <2>5. ASSUME NEW i \in DOMAIN posts, posts[i].auto # 0
        PROVE  /\ \A j \in DOMAIN posts : posts[j].auto = posts[i].auto => j = i
               /\ autos[posts[i].auto].status = "published"
    BY <2>1, <2>4, <2>5 DEF QInv, OneEach
  <2>6. \A i \in DOMAIN posts : posts[i].auto # r
    BY <1>15, <2>3, <2>5, BoardAssumption
  <2>7. ASSUME NEW i \in DOMAIN posts', posts'[i].auto # 0
        PROVE  /\ \A j \in DOMAIN posts' : posts'[j].auto = posts'[i].auto => j = i
               /\ autos'[posts'[i].auto].status = "published" \/ posts'[i].auto \in Posting'
    <3>1. CASE i = n
      BY <1>2, <1>7, <1>10, <1>16, <1>17, <2>4, <2>6, <3>1
    <3>2. CASE i # n
      BY <1>12, <1>16, <1>17, <2>5, <2>6, <2>7, <3>2
    <3> QED
      BY <3>1, <3>2
  <2> QED
    BY <2>4, <2>7 DEF OneEach
<1> QED
  BY <1>20, <1>21 DEF QInv

\* The request is marked with the post that its handler has added.
LEMMA MarkTells ==
    ASSUME IInv, QInv, NEW c \in Handlers, Mark(c)
    PROVE  QInv'
<1>1. PICK r : r = First(call[c].batch)
  OBVIOUS
<1>2. PICK rest : rest = call[c].batch \ {r}
  OBVIOUS
<1>3. PICK n : n = call[c].at
  OBVIOUS
<1>4. PICK k : k = [call[c] EXCEPT !.batch = rest, !.plan = <<"publish", "mark">>]
  OBVIOUS
<1>5. PICK g : g = IF rest = {} THEN Idle ELSE k
  OBVIOUS
<1>6. /\ call[c] \in Call /\ call[c].plan # <<>> /\ Head(call[c].plan) = "mark"
      /\ Tells(call[c], posts, autos) /\ autos \in [Requests -> AutoPost]
  BY DEF IInv, TypeOK, Handlers, QInv, Reviewed, Mark, At
<1>7. call[c].plan = <<"mark">>
  BY <1>6, Heads DEF Call
<1>8. call[c].plan \in DrainPlans /\ call[c].plan \in QueuePlans
  BY <1>7 DEF DrainPlans, QueuePlans
<1>9. /\ call[c].batch # {} /\ call[c].batch \subseteq Told(autos)
      /\ n \in DOMAIN posts /\ posts[n].auto = r /\ Family(call[c].op) = "queue"
  BY <1>1, <1>3, <1>6, <1>7, <1>8 DEF Tells
<1>10. r \in call[c].batch /\ r \in Requests
  BY <1>1, <1>9, FirstIsOne DEF Told
<1>11. /\ call' = [call EXCEPT ![c] = g] /\ posts' = posts /\ disturbed' = disturbed
       /\ autos' = [autos EXCEPT ![r] = [status |-> "published", post |-> n]]
  BY <1>1, <1>2, <1>3, <1>4, <1>5 DEF Mark
<1>12. /\ autos'[r].status = "published" /\ autos'[r].post = n
       /\ \A s \in Requests : s # r => autos'[s] = autos[s]
  BY <1>6, <1>10, <1>11
<1>13. Told(autos) \subseteq Told(autos')
  BY <1>12 DEF Told
<1>14. /\ k.plan = <<"publish", "mark">> /\ k.batch = rest /\ k.op = call[c].op
  BY <1>4, <1>6 DEF Call
<1>15. /\ <<"publish", "mark">> \in DrainPlans /\ <<"publish", "mark">> \in QueuePlans
       /\ <<"publish", "mark">> # <<"mark">> /\ <<"publish", "mark">> # <<"review">>
       /\ <<"publish", "mark">> \notin PostPlans
  BY DEF DrainPlans, QueuePlans, PostPlans
<1>16. Tells(g, posts', autos')
  <2>1. CASE rest = {}
    BY <1>5, <2>1, IdleTells
  <2>2. CASE rest # {}
    BY <1>2, <1>5, <1>9, <1>13, <1>14, <1>15, <2>2 DEF Tells
  <2> QED
    BY <2>1, <2>2
<1>17. \A d \in Handlers : Tells(call'[d], posts', autos')
  BY <1>11, <1>13, <1>16, TellsOn DEF QInv
<1>18. Reviewed'
  BY <1>9, <1>11, <1>12, <1>13, <1>17 DEF QInv, Reviewed
<1>19. OneEach'
  <2> SUFFICES ASSUME "queue" \notin disturbed' PROVE OneEach'
    BY DEF OneEach
  <2>1. "queue" \notin disturbed
    BY <1>11
  <2>2. Works(call[c], autos)
    BY <2>1 DEF QInv, OneEach
  <2>3. Works(g, autos')
    <3>1. CASE rest = {}
      BY <1>5, <3>1, IdleTells
    <3>2. CASE rest # {}
      <4>1. \A s \in rest : autos'[s].status = "reviewed"
        BY <1>2, <1>8, <1>9, <1>12, <2>2 DEF Works, Told
      <4> QED
        BY <1>5, <1>14, <1>15, <3>2, <4>1 DEF Works
    <3> QED
      BY <3>1, <3>2
  <2>4. /\ \A d, e \in Handlers :
              call'[d].plan \in QueuePlans /\ call'[e].plan \in QueuePlans => d = e
        /\ \A d \in Handlers : Works(call'[d], autos')
        /\ \A s \in Posting : s = r
    BY <1>1, <1>8, <1>11, <2>1, <2>3, Alone
  <2>5. ASSUME NEW i \in DOMAIN posts, posts[i].auto # 0
        PROVE  /\ \A j \in DOMAIN posts : posts[j].auto = posts[i].auto => j = i
               /\ posts[i].auto \in Requests
               /\ autos[posts[i].auto].status = "published" \/ posts[i].auto = r
    BY <2>1, <2>4, <2>5 DEF QInv, Reviewed, OneEach, Told
  <2>6. ASSUME NEW i \in DOMAIN posts, posts[i].auto # 0
        PROVE  autos'[posts[i].auto].status = "published"
    BY <1>12, <2>5, <2>6
  <2> QED
    BY <1>11, <2>4, <2>5, <2>6 DEF OneEach
<1> QED
  BY <1>18, <1>19 DEF QInv

\* A request that is queued was nobody's matter before.
LEMMA EnqueueTells ==
    ASSUME IInv, QInv, NEW r \in Requests, Enqueue(r)
    PROVE  QInv'
<1>1. /\ posts' = posts /\ call' = call /\ disturbed' = disturbed
      /\ autos' = [autos EXCEPT ![r].status = "queued"] /\ autos[r].status = "none"
      /\ autos \in [Requests -> AutoPost]
  BY DEF Enqueue, IInv, TypeOK
<1>2. autos'[r].status = "queued" /\ \A s \in Requests : s # r => autos'[s] = autos[s]
  BY <1>1 DEF AutoPost
<1>3. Told(autos') = Told(autos) /\ r \notin Told(autos)
  BY <1>1, <1>2 DEF Told
<1>4. ASSUME NEW d \in Handlers PROVE Tells(call'[d], posts', autos')
  <2>1. Tells(call[d], posts, autos)
    BY DEF QInv, Reviewed
  <2> QED
    BY <1>1, <1>3, <2>1, StillTells
<1>5. Reviewed'
  BY <1>1, <1>2, <1>3, <1>4 DEF QInv, Reviewed
<1>6. OneEach'
  <2> SUFFICES ASSUME "queue" \notin disturbed' PROVE OneEach'
    BY DEF OneEach
  <2>1. "queue" \notin disturbed
    BY <1>1
  <2>2. ASSUME NEW d \in Handlers PROVE Works(call'[d], autos')
    <3>1. Works(call[d], autos) /\ call[d].batch \subseteq Requests
      BY <2>1 DEF QInv, OneEach, IInv, TypeOK, Call, Handlers
    <3>2. call[d].plan \in DrainPlans => r \notin call[d].batch
      BY <1>1, <3>1 DEF Works
    <3> QED
      BY <1>1, <1>2, <3>1, <3>2 DEF Works
  <2>3. Posting' = Posting
    BY <1>1 DEF Posting
  <2>4. ASSUME NEW i \in DOMAIN posts, posts[i].auto # 0
        PROVE  /\ posts[i].auto \in Told(autos)
               /\ \A j \in DOMAIN posts : posts[j].auto = posts[i].auto => j = i
               /\ autos[posts[i].auto].status = "published" \/ posts[i].auto \in Posting
    BY <2>1, <2>4 DEF QInv, Reviewed, OneEach
  <2>5. \A s \in Told(autos) : autos'[s] = autos[s]
    BY <1>2, <1>3 DEF Told
  <2>6. \A d, e \in Handlers :
            call'[d].plan \in QueuePlans /\ call'[e].plan \in QueuePlans => d = e
    BY <1>1, <2>1 DEF QInv, OneEach
  <2>7. ASSUME NEW i \in DOMAIN posts', posts'[i].auto # 0
        PROVE  /\ \A j \in DOMAIN posts' : posts'[j].auto = posts'[i].auto => j = i
               /\ autos'[posts'[i].auto].status = "published" \/ posts'[i].auto \in Posting'
    BY <1>1, <2>3, <2>4, <2>5, <2>7
  <2> QED
    BY <2>2, <2>6, <2>7 DEF OneEach
<1> QED
  BY <1>5, <1>6 DEF QInv

LEMMA QueueInitially ==
    ASSUME Init
    PROVE  QInv
<1>1. \A d \in Handlers : call[d] = Idle
  BY DEF Init, Handlers
<1>2. /\ \A i \in DOMAIN posts : posts[i].auto = 0
      /\ \A r \in Requests : autos[r].status = "none"
  BY DEF Init, NewPost
<1>3. Reviewed
  BY <1>1, <1>2, IdleTells DEF Reviewed
<1>4. OneEach
  BY <1>1, <1>2, IdleTells DEF OneEach
<1> QED
  BY <1>3, <1>4 DEF QInv

\* The inductive invariant of the queue: posts are made of reviewed requests only, and of
\* each request once while its handlers work one after the other.
THEOREM QueueInvariance == Spec => []QInv
<1>1. Init => QInv
  BY QueueInitially
<1>2. IInv /\ QInv /\ [Next]_vars => QInv'
  <2> SUFFICES ASSUME IInv, QInv, [Next]_vars PROVE QInv'
    OBVIOUS
  <2>1. ASSUME NEW c \in Handlers, Write(c) PROVE QInv'
    BY <2>1, BoardWrites, SaveReviewTells, PublishTells, MarkTells DEF Write
  <2>2. ASSUME NEW c \in Calls, Decide(c) PROVE QInv'
    <3>1. ASSUME NEW u \in Users, NEW i \in DOMAIN posts, NEW a \in Agents,
                 Lock(c, u, i, a) \/ Handoff(c, u, i, a)
          PROVE  QInv'
      BY <3>1, BoardDecides
    <3>2. ASSUME NEW u \in Users, NEW i \in DOMAIN posts,
                 Unlock(c, u, i) \/ Reply(c, u, i) \/ MarkRead(c, u, i)
          PROVE  QInv'
      <4>1. Initiator \in Agents
        BY NewTypes
      <4> QED
        BY <3>2, <4>1, BoardDecides
    <3>3. ASSUME NEW u \in Admins, NEW r \in Requests, Review(c, u, r) PROVE QInv'
      BY <3>3, ReviewTells DEF Handlers
    <3>4. ASSUME NEW u \in Admins, Drain(c, u) PROVE QInv'
      BY <3>4, DrainTells DEF Handlers
    <3> QED
      BY <2>2, <3>1, <3>2, <3>3, <3>4 DEF Decide
  <2>3. ASSUME NEW c \in Handlers, Die(c) PROVE QInv'
    BY <2>3, DieTells
  <2>4. CASE WorkerStep
    BY <2>1, <2>4, DrainTells DEF WorkerStep, Handlers
  <2>5. ASSUME NEW r \in Requests, Enqueue(r) PROVE QInv'
    BY <2>5, EnqueueTells
  <2>6. CASE UNCHANGED vars
    <3>1. posts' = posts /\ autos' = autos /\ call' = call /\ disturbed' = disturbed
      BY <2>6 DEF vars
    <3>2. Reviewed'
      BY <3>1 DEF QInv, Reviewed
    <3>3. OneEach'
      BY <3>1 DEF QInv, OneEach, Posting
    <3> QED
      BY <3>2, <3>3 DEF QInv
  <2> QED
    BY <2>1, <2>2, <2>3, <2>4, <2>5, <2>6 DEF Next, Handlers
<1>3. Spec => []IInv
  BY Invariance
<1> QED
  BY <1>1, <1>2, <1>3, PTL DEF Spec

\* An automatic post is on the board only after its review, what is marked as published
\* points to its post, and there is one post of it where no two handlers of the queue
\* overlapped and none died: for every number of requests and of drains by hand.
THEOREM PublicationsReviewed == Spec => []PublicationsAreReviewed
<1>1. IInv /\ QInv => PublicationsAreReviewed
  <2> SUFFICES ASSUME IInv, QInv, NEW r \in Requests
               PROVE  /\ PostsOf(r) # {} => autos[r].status \in {"reviewed", "published"}
                      /\ autos[r].status = "published" => autos[r].post \in PostsOf(r)
                      /\ "queue" \notin disturbed => Cardinality(PostsOf(r)) <= 1
    BY DEF PublicationsAreReviewed
  <2>1. r # 0
    BY BoardAssumption
  <2>2. PostsOf(r) # {} => autos[r].status \in {"reviewed", "published"}
    BY <2>1 DEF PostsOf, QInv, Reviewed, Told
  <2>3. autos[r].status = "published" => autos[r].post \in PostsOf(r)
    BY DEF PostsOf, QInv, Reviewed
  <2>4. ASSUME "queue" \notin disturbed PROVE Cardinality(PostsOf(r)) <= 1
    <3>1. \A i, j \in PostsOf(r) : i = j
      BY <2>1, <2>4 DEF PostsOf, QInv, OneEach
    <3>2. CASE PostsOf(r) = {}
      BY <3>2, FS_EmptySet
    <3>3. CASE PostsOf(r) # {}
      <4>1. PICK i \in PostsOf(r) : PostsOf(r) = {i}
        BY <3>1, <3>3
      <4>2. Cardinality({i}) = 1
        BY FS_Singleton
      <4> QED
        BY <4>1, <4>2
    <3> QED
      BY <3>2, <3>3
  <2> QED
    BY <2>2, <2>3, <2>4
<1> QED
  BY <1>1, Invariance, QueueInvariance, PTL

\* What the view of a post offers is what its handlers would accept, for every user and any
\* post that the handlers can leave on the board.
THEOREM OfferedAccepted == Spec => []OfferedIsAccepted
<1>1. IInv => OfferedIsAccepted
  <2> SUFFICES ASSUME IInv, NEW u \in Users, NEW i \in DOMAIN posts
               PROVE  AllowedActions(u, posts[i]) =
                        {act \in {"lock", "unlock", "handoff"} :
                            /\ Visible(u) /\ Controls(u, posts[i])
                            /\ act = "lock" => Manages(u, u) /\ MayLock(u, posts[i])
                            /\ act = "unlock" => posts[i].lock.active
                            /\ act # "lock" => MayRelease(u, posts[i])}
    BY DEF OfferedIsAccepted
  <2>1. posts[i].lock.active \in BOOLEAN
    BY Reads DEF Post, ExecutionLock
  <2>2. MayLock(u, posts[i]) <=> ~posts[i].lock.active \/ posts[i].lock.owner = u
    BY DEF MayLock
  <2>3. MayRelease(u, posts[i]) <=>
            ~posts[i].lock.active \/ u \in Governors \/ posts[i].lock.owner = u
    BY DEF MayRelease
  <2> QED
    BY <2>1, <2>2, <2>3, Zenon DEF AllowedActions, Manages
<1> QED
  BY <1>1, Invariance, PTL

---------------------------------------------------------------------------
(* Locks, where the handlers of the board work one after the other.        *)

Boarding(h) == h.plan # <<>> /\ h.plan \notin QueuePlans

\* A handler whose copy gives up or replaces an active lock is of its owner or of a governor.
Releases(h, ps) ==
    h.plan \in PostPlans =>
        (ps[h.at].lock.active /\ h.copy.lock # ps[h.at].lock =>
            h.user \in Governors \cup {ps[h.at].lock.owner})

LInv ==
    "board" \notin disturbed =>
        /\ \A c, d \in Handlers : Boarding(call[c]) /\ Boarding(call[d]) => c = d
        /\ \A c \in Handlers : Releases(call[c], posts)

\* A handler that saves a post is one of the board.
LEMMA SavesAreBoarding ==
    ASSUME NEW h, h.plan \in PostPlans
    PROVE  Boarding(h)
  BY PlansApart DEF Boarding

LEMMA BoardingInFlight ==
    ASSUME IInv, QInv, NEW c \in Handlers
    PROVE  Boarding(call[c]) <=> c \in InFlight("board")
<1>1. DOMAIN call = Handlers
  BY DEF IInv, TypeOK, Handlers
<1>2. Family(call[c].op) = "board" <=> Family(call[c].op) # "queue"
  BY DEF Family
<1> QED
  BY <1>1, <1>2 DEF Boarding, InFlight, QInv, Reviewed, Tells

\* One step of a handler: it was of the board before, or no post has changed.
LEMMA LockKept ==
    ASSUME IInv, QInv, LInv, NEW c \in Handlers, NEW g, call' = [call EXCEPT ![c] = g],
           disturbed \subseteq disturbed', Releases(g, posts'),
           \/ Boarding(call[c])
           \/ \A i \in DOMAIN posts : posts'[i] = posts[i],
           Boarding(g) =>
               Boarding(call[c]) \/ InFlight("board") = {} \/ "board" \in disturbed'
    PROVE  LInv'
<1> SUFFICES ASSUME "board" \notin disturbed' PROVE LInv'
  BY DEF LInv
<1>1. /\ \A d, e \in Handlers : Boarding(call[d]) /\ Boarding(call[e]) => d = e
      /\ \A d \in Handlers : Releases(call[d], posts)
  BY DEF LInv
<1>2. \A d \in Handlers : call'[d] = IF d = c THEN g ELSE call[d]
  BY DEF IInv, TypeOK, Handlers
<1>3. InFlight("board") = {} => \A d \in Handlers : ~Boarding(call[d])
  BY BoardingInFlight
<1>4. \A d, e \in Handlers : Boarding(call'[d]) /\ Boarding(call'[e]) => d = e
  BY <1>1, <1>2, <1>3
<1>5. ASSUME NEW d \in Handlers PROVE Releases(call'[d], posts')
  <2>1. CASE d = c
    BY <1>2, <2>1
  <2>2. CASE d # c /\ call[d].plan \notin PostPlans
    BY <1>2, <2>2 DEF Releases
  <2>3. CASE d # c /\ call[d].plan \in PostPlans
    <3>1. Boarding(call[d]) /\ call'[d] = call[d]
      BY <1>2, <2>3, SavesAreBoarding
    <3>2. call[d].at \in DOMAIN posts
      BY <2>3 DEF QInv, Reviewed, Tells
    <3>3. posts'[call[d].at] = posts[call[d].at]
      BY <1>1, <2>3, <3>1, <3>2
    <3> QED
      BY <1>1, <3>1, <3>3 DEF Releases
  <2> QED
    BY <2>1, <2>2, <2>3
<1> QED
  BY <1>4, <1>5 DEF LInv

\* A handler begins: it has looked at the lock, and only then another one may start.
LEMMA LockBegins ==
    ASSUME IInv, QInv, LInv, NEW c \in Handlers, NEW h, Begin(c, h), Releases(h, posts),
           Boarding(h) => Family(h.op) = "board"
    PROVE  LInv'
<1>1. /\ call' = [call EXCEPT ![c] = h] /\ posts' = posts /\ disturbed \subseteq disturbed'
      /\ InFlight("board") # {} /\ Family(h.op) = "board" => "board" \in disturbed'
  BY DEF Begin
<1> QED
  BY <1>1, LockKept

\* What the handlers of the board look at before they change a copy of the lock.
LEMMA LockDecides ==
    ASSUME IInv, QInv, LInv,
           NEW c \in Calls, NEW u \in Users, NEW i \in DOMAIN posts, NEW a \in Agents,
           \/ Lock(c, u, i, a) \/ Handoff(c, u, i, a)
           \/ Unlock(c, u, i) \/ Reply(c, u, i) \/ MarkRead(c, u, i)
    PROVE  LInv'
<1>1. posts[i] \in Post /\ c \in Handlers
  BY Reads DEF Handlers
<1>2. CASE Lock(c, u, i, a)
  <2> DEFINE p == [posts[i] EXCEPT !.lock = LockOf(a), !.owner = a, !.stage = "execution"]
             h == [Idle EXCEPT !.op = "lock", !.user = u, !.agent = a, !.at = i, !.copy = p,
                               !.plan = <<"post", "load", "save">>]
  <2>1. /\ h.op = "lock" /\ h.user = u /\ h.at = i /\ h.copy = p
        /\ h.plan = <<"post", "load", "save">>
    BY DEF Idle
  <2>2. Begin(c, h)
    BY <1>2 DEF Lock
  <2>3. posts[i].lock.active /\ p.lock # posts[i].lock => u \in Governors \cup {posts[i].lock.owner}
    <3>1. p.lock = LockOf(a) /\ posts[i].lock \in ExecutionLock
      BY <1>1 DEF Post
    <3>2. posts[i].lock.active => posts[i].lock = LockOf(a)
      BY <1>2, <3>1 DEF Lock, MayLock, LockOf, ExecutionLock
    <3> QED
      BY <3>1, <3>2
  <2> HIDE DEF p, h
  <2>4. Releases(h, posts) /\ Family(h.op) = "board"
    BY <2>1, <2>3 DEF Releases, Family
  <2> QED
    BY <1>1, <2>2, <2>4, LockBegins
<1>3. CASE Unlock(c, u, i)
  <2> DEFINE p == [posts[i] EXCEPT !.lock = Release(posts[i].lock), !.stage = "review"]
             h == [Idle EXCEPT !.op = "unlock", !.user = u, !.at = i, !.copy = p,
                               !.plan = <<"post", "load", "save">>]
  <2>1. /\ h.op = "unlock" /\ h.user = u /\ h.at = i /\ h.copy = p
        /\ h.plan = <<"post", "load", "save">>
    BY DEF Idle
  <2>2. Begin(c, h)
    BY <1>3 DEF Unlock
  <2>3. posts[i].lock.active /\ p.lock # posts[i].lock => u \in Governors \cup {posts[i].lock.owner}
    BY <1>3 DEF Unlock, MayRelease
  <2> HIDE DEF p, h
  <2>4. Releases(h, posts) /\ Family(h.op) = "board"
    BY <2>1, <2>3 DEF Releases, Family
  <2> QED
    BY <1>1, <2>2, <2>4, LockBegins
<1>4. CASE Handoff(c, u, i, a) /\ posts[i].lock.active
  <2> DEFINE p == [posts[i] EXCEPT !.lock = Release(posts[i].lock), !.stage = "review"]
             h == [Idle EXCEPT !.op = "handoff", !.user = u, !.agent = a, !.at = i, !.copy = p,
                               !.plan = <<"child", "post", "load", "save">>]
  <2>1. /\ h.op = "handoff" /\ h.user = u /\ h.at = i /\ h.copy = p
        /\ h.plan = <<"child", "post", "load", "save">>
    BY DEF Idle
  <2>2. Begin(c, h)
    BY <1>4 DEF Handoff
  <2>3. posts[i].lock.active /\ p.lock # posts[i].lock => u \in Governors \cup {posts[i].lock.owner}
    BY <1>4 DEF Handoff, MayRelease
  <2> HIDE DEF p, h
  <2>4. Releases(h, posts) /\ Family(h.op) = "board"
    BY <2>1, <2>3 DEF Releases, Family
  <2> QED
    BY <1>1, <2>2, <2>4, LockBegins
<1>5. CASE Handoff(c, u, i, a) /\ ~posts[i].lock.active
  <2> DEFINE p == posts[i]
             h == [Idle EXCEPT !.op = "handoff", !.user = u, !.agent = a, !.at = i, !.copy = p,
                               !.plan = <<"child", "load", "save">>]
  <2>1. /\ h.op = "handoff" /\ h.user = u /\ h.at = i /\ h.copy = p
        /\ h.plan = <<"child", "load", "save">>
    BY DEF Idle
  <2>2. Begin(c, h)
    BY <1>5 DEF Handoff
  <2>3. posts[i].lock.active /\ p.lock # posts[i].lock => u \in Governors \cup {posts[i].lock.owner}
    OBVIOUS
  <2> HIDE DEF p, h
  <2>4. Releases(h, posts) /\ Family(h.op) = "board"
    BY <2>1, <2>3 DEF Releases, Family
  <2> QED
    BY <1>1, <2>2, <2>4, LockBegins
<1>6. CASE Reply(c, u, i)
  <2> DEFINE p == posts[i]
             h == [Idle EXCEPT !.op = "reply", !.user = u, !.at = i, !.copy = p,
                               !.plan = <<"child">>]
  <2>1. /\ h.op = "reply" /\ h.user = u /\ h.at = i /\ h.copy = p
        /\ h.plan = <<"child">>
    BY DEF Idle
  <2>2. Begin(c, h)
    BY <1>6 DEF Reply
  <2>3. posts[i].lock.active /\ p.lock # posts[i].lock => u \in Governors \cup {posts[i].lock.owner}
    OBVIOUS
  <2> HIDE DEF p, h
  <2>4. Releases(h, posts) /\ Family(h.op) = "board"
    BY <2>1, <2>3 DEF Releases, Family
  <2> QED
    BY <1>1, <2>2, <2>4, LockBegins
<1>7. CASE MarkRead(c, u, i)
  <2> DEFINE p == [posts[i] EXCEPT !.readers = posts[i].readers \cup {u}]
             h == [Idle EXCEPT !.op = "read", !.user = u, !.at = i, !.copy = p,
                               !.plan = <<"post">>]
  <2>1. /\ h.op = "read" /\ h.user = u /\ h.at = i /\ h.copy = p
        /\ h.plan = <<"post">>
    BY DEF Idle
  <2>2. Begin(c, h)
    BY <1>7 DEF MarkRead
  <2>3. posts[i].lock.active /\ p.lock # posts[i].lock => u \in Governors \cup {posts[i].lock.owner}
    BY <1>1 DEF Post
  <2> HIDE DEF p, h
  <2>4. Releases(h, posts) /\ Family(h.op) = "board"
    BY <2>1, <2>3 DEF Releases, Family
  <2> QED
    BY <1>1, <2>2, <2>4, LockBegins
<1> QED
  BY <1>2, <1>3, <1>4, <1>5, <1>6, <1>7

\* A handler of the queue that begins looks at no lock.
LEMMA LockStarts ==
    ASSUME IInv, QInv, LInv, NEW c \in Handlers, NEW h, Begin(c, h),
           h.plan \in {<<"review">>, <<"publish", "mark">>}
    PROVE  LInv'
<1>1. ~Boarding(h)
  BY DEF Boarding, QueuePlans, DrainPlans
<1>2. Releases(h, posts)
  BY <1>1, SavesAreBoarding DEF Releases
<1> QED
  BY <1>1, <1>2, LockBegins

LEMMA LockStays ==
    ASSUME IInv, QInv, LInv, NEW c \in Handlers, NEW u, NEW r \in Requests, Review(c, u, r)
    PROVE  LInv'
<1> DEFINE h == [Idle EXCEPT !.op = "review", !.user = u, !.batch = {r}, !.plan = <<"review">>]
<1>1. Begin(c, h) /\ h.plan = <<"review">>
  BY DEF Review, Idle
<1> HIDE DEF h
<1> QED
  BY <1>1, LockStarts

LEMMA LockDrains ==
    ASSUME IInv, QInv, LInv, NEW c \in Handlers, NEW u, Drain(c, u)
    PROVE  LInv'
<1> DEFINE h == [Idle EXCEPT !.op = "drain", !.user = u, !.batch = Ready,
                             !.plan = <<"publish", "mark">>]
<1>1. Begin(c, h) /\ h.plan = <<"publish", "mark">>
  BY DEF Drain, Idle
<1> HIDE DEF h
<1> QED
  BY <1>1, LockStarts

\* A copy that is saved changes an active lock only for its owner or a governor, and what is
\* left of the handler saves no post any more.
LEMMA LockSaved ==
    ASSUME IInv, QInv, LInv, NEW c \in Handlers, SavePost(c)
    PROVE  /\ LInv'
           /\ Boarding(call[c]) /\ disturbed' = disturbed
           /\ \A i \in DOMAIN posts : posts'[i] = IF i = call[c].at THEN call[c].copy ELSE posts[i]
<1>1. /\ call[c] \in Call /\ call[c].plan # <<>> /\ Head(call[c].plan) = "post"
      /\ call' = [call EXCEPT ![c] = Left(call[c])]
      /\ posts' = [posts EXCEPT ![call[c].at] = call[c].copy]
      /\ disturbed' = disturbed /\ posts \in Seq(Post)
  BY Proceeds DEF SavePost, IInv, TypeOK
<1>2. call[c].plan \in {<<"post">>, <<"post", "load", "save">>}
  BY <1>1, Heads DEF Call
<1>3. call[c].plan \in PostPlans
  BY <1>2 DEF PostPlans
<1>4. Boarding(call[c])
  BY <1>3, SavesAreBoarding
<1>5. call[c].at \in DOMAIN posts
  BY <1>3 DEF QInv, Reviewed, Tells
<1>6. \A i \in DOMAIN posts : posts'[i] = IF i = call[c].at THEN call[c].copy ELSE posts[i]
  BY <1>1, <1>5
<1>7. Left(call[c]).plan \notin PostPlans
  <2>1. CASE call[c].plan = <<"post">>
    <3>1. Left(call[c]) = Idle
      BY <2>1 DEF Left
    <3> QED
      BY <3>1, NewTypes, PlansApart
  <2>2. CASE call[c].plan = <<"post", "load", "save">>
    <3>1. Left(call[c]).plan = <<"load", "save">>
      BY <1>1, <2>2 DEF Left, Call
    <3> QED
      BY <3>1, PlansApart
  <2> QED
    BY <1>2, <2>1, <2>2
<1>8. Releases(Left(call[c]), posts')
  BY <1>7 DEF Releases
<1>9. LInv'
  BY <1>1, <1>4, <1>8, LockKept
<1> QED
  BY <1>1, <1>4, <1>6, <1>9

\* Nothing else that a handler of the board writes touches a post that is there.
LEMMA LockWrites ==
    ASSUME IInv, QInv, LInv, NEW c \in Handlers,
           AddChild(c) \/ LoadTask(c) \/ SaveTask(c)
    PROVE  LInv' /\ \A i \in DOMAIN posts : posts'[i] = posts[i]
<1>1. /\ call[c] \in Call /\ call[c].plan \in Plans /\ posts \in Seq(Post)
      /\ HandlerFits(call[c], posts, Known(posts, appointed))
      /\ Tells(call[c], posts, autos)
  BY DEF IInv, TypeOK, Custody, Handlers, Call, QInv, Reviewed
<1>2. /\ call[c].plan # <<>> /\ Head(call[c].plan) \in {"child", "load", "save"}
      /\ disturbed' = disturbed
  BY DEF AddChild, LoadTask, SaveTask, At
<1>3. Boarding(call[c])
  <2>1. Head(<<"review">>) = "review" /\ Head(<<"mark">>) = "mark"
    OBVIOUS
  <2>2. Head(<<"publish", "mark">>) = "publish"
    OBVIOUS
  <2> QED
    BY <1>2, <2>1, <2>2 DEF Boarding, QueuePlans, DrainPlans
<1>4. \A i \in DOMAIN posts : posts'[i] = posts[i]
  <2>1. CASE AddChild(c)
    BY <1>1, <2>1 DEF AddChild
  <2>2. CASE LoadTask(c) \/ SaveTask(c)
    BY <2>2 DEF LoadTask, SaveTask
  <2> QED
    BY <2>1, <2>2
<1> SUFFICES LInv'
  BY <1>4
<1>5. ASSUME NEW g, g.plan \in PostPlans, g.copy = call[c].copy, g.at = call[c].at,
             g.user = call[c].user, call[c].plan \in PostPlans
      PROVE  Releases(g, posts') \/ "board" \in disturbed'
  <2>1. call[c].at \in DOMAIN posts
    BY <1>1, <1>5 DEF Tells
  <2>2. "board" \notin disturbed => Releases(call[c], posts)
    BY DEF LInv
  <2> QED
    BY <1>2, <1>4, <1>5, <2>1, <2>2 DEF Releases
<1>6. ASSUME NEW g, call' = [call EXCEPT ![c] = g], Releases(g, posts') PROVE LInv'
  BY <1>2, <1>3, <1>6, LockKept
<1>7. CASE "board" \in disturbed'
  BY <1>7 DEF LInv
<1>8. CASE "board" \notin disturbed' /\ AddChild(c)
  <2>1. call' = [call EXCEPT ![c] = Left(call[c])]
    BY <1>8, Proceeds DEF AddChild
  <2>2. CASE call[c].plan = <<"child", "post", "load", "save">>
    <3>1. PICK g : g = [call[c] EXCEPT !.plan = <<"post", "load", "save">>]
      OBVIOUS
    <3>2. Len(call[c].plan) # 1 /\ Tail(call[c].plan) = <<"post", "load", "save">>
      BY <2>2
    <3>3. Left(call[c]) = g
      BY <3>1, <3>2 DEF Left
    <3>4. /\ g.plan = <<"post", "load", "save">> /\ g.copy = call[c].copy /\ g.at = call[c].at
          /\ g.user = call[c].user
      BY <1>1, <3>1 DEF Call
    <3>5. g.plan \in PostPlans /\ call[c].plan \in PostPlans
      BY <2>2, <3>4 DEF PostPlans
    <3> QED
      BY <1>5, <1>6, <1>8, <2>1, <3>3, <3>4, <3>5
  <2>3. CASE call[c].plan # <<"child", "post", "load", "save">>
    <3>1. call[c].plan \in {<<"child">>, <<"child", "load", "save">>}
      BY <1>1, <1>2, <1>8, <2>3, Heads DEF AddChild, At
    <3>2. Left(call[c]).plan \notin PostPlans
      <4>1. CASE call[c].plan = <<"child">>
        <5>1. Left(call[c]) = Idle
          BY <4>1 DEF Left
        <5> QED
          BY <5>1, NewTypes, PlansApart
      <4>2. CASE call[c].plan = <<"child", "load", "save">>
        <5>1. Left(call[c]).plan = <<"load", "save">>
          BY <1>1, <4>2 DEF Left, Call
        <5> QED
          BY <5>1, PlansApart
      <4> QED
        BY <3>1, <4>1, <4>2
    <3> QED
      BY <1>6, <2>1, <3>2 DEF Releases
  <2> QED
    BY <2>2, <2>3
<1>9. CASE LoadTask(c)
  <2>1. PICK g : g = [call[c] EXCEPT !.taskCopy = TaskAfter(call[c])]
    OBVIOUS
  <2>2. PICK k : k = [g EXCEPT !.plan = <<"save">>]
    OBVIOUS
  <2>3. g.plan = call[c].plan /\ call[c].plan = <<"load", "save">>
    BY <1>1, <1>2, <1>9, <2>1, Heads DEF LoadTask, At, Call
  <2>4. k.plan = <<"save">>
    BY <1>1, <2>1, <2>2 DEF Call
  <2>5. Len(g.plan) # 1 /\ Tail(g.plan) = <<"save">>
    BY <2>3
  <2>6. call' = [call EXCEPT ![c] = k]
    BY <1>9, <2>1, <2>2, <2>5 DEF LoadTask, Proceed
  <2> QED
    BY <1>6, <2>4, <2>6, PlansApart DEF Releases
<1>10. CASE SaveTask(c)
  <2>1. call[c].plan = <<"save">>
    BY <1>1, <1>10, ReviewHead DEF SaveTask, At
  <2>2. call' = [call EXCEPT ![c] = Idle]
    BY <1>10, <2>1 DEF SaveTask, Proceed
  <2> QED
    BY <1>6, <2>2, NewTypes, PlansApart DEF Releases
<1> QED
  BY <1>2, <1>7, <1>8, <1>9, <1>10

\* A handler of the queue leaves the posts that are there and stays one of the queue.
LEMMA LockQueues ==
    ASSUME IInv, QInv, LInv, NEW c \in Handlers,
           SaveReview(c) \/ Publish(c) \/ Mark(c)
    PROVE  LInv' /\ \A i \in DOMAIN posts : posts'[i] = posts[i]
<1>1. /\ call[c] \in Call /\ call[c].plan \in Plans /\ posts \in Seq(Post)
  BY DEF IInv, TypeOK, Handlers, Call
<1>2. \A i \in DOMAIN posts : posts'[i] = posts[i]
  <2>1. CASE Publish(c)
    BY <1>1, <2>1 DEF Publish
  <2>2. CASE SaveReview(c) \/ Mark(c)
    BY <2>2 DEF SaveReview, Mark
  <2> QED
    BY <2>1, <2>2
<1>3. disturbed' = disturbed
  BY DEF SaveReview, Publish, Mark
<1>4. ASSUME NEW g, call' = [call EXCEPT ![c] = g],
             g.plan \in {<<>>, <<"publish", "mark">>, <<"mark">>}
      PROVE  LInv'
  <2>1. ~Boarding(g)
    BY <1>4 DEF Boarding, QueuePlans, DrainPlans
  <2>2. Releases(g, posts')
    BY <2>1, SavesAreBoarding DEF Releases
  <2> QED
    BY <1>2, <1>3, <1>4, <2>1, <2>2, LockKept
<1>5. CASE SaveReview(c)
  <2>1. /\ call' = [call EXCEPT ![c] = Left(call[c])]
        /\ call[c].plan # <<>> /\ Head(call[c].plan) = "review"
    BY <1>5, Proceeds DEF SaveReview
  <2>2. call[c].plan = <<"review">>
    BY <1>1, <2>1, ReviewHead
  <2>3. Left(call[c]) = Idle
    BY <2>2 DEF Left
  <2> QED
    BY <1>2, <1>4, <2>1, <2>3, NewTypes
<1>6. CASE Publish(c)
  <2>1. PICK g : g = [call[c] EXCEPT !.at = Len(posts) + 1]
    OBVIOUS
  <2>2. PICK k : k = [g EXCEPT !.plan = <<"mark">>]
    OBVIOUS
  <2>3. g.plan = call[c].plan /\ call[c].plan = <<"publish", "mark">>
    BY <1>1, <1>6, <2>1, Heads DEF Publish, At, Call
  <2>4. k.plan = <<"mark">>
    BY <1>1, <2>1, <2>2 DEF Call
  <2>5. Len(g.plan) # 1 /\ Tail(g.plan) = <<"mark">>
    BY <2>3
  <2>6. call' = [call EXCEPT ![c] = k]
    BY <1>6, <2>1, <2>2, <2>5 DEF Publish, Proceed
  <2> QED
    BY <1>2, <1>4, <2>4, <2>6
<1>7. CASE Mark(c)
  <2>1. PICK rest : rest = call[c].batch \ {First(call[c].batch)}
    OBVIOUS
  <2>2. PICK k : k = [call[c] EXCEPT !.batch = rest, !.plan = <<"publish", "mark">>]
    OBVIOUS
  <2>3. k.plan = <<"publish", "mark">>
    BY <1>1, <2>2 DEF Call
  <2>4. call' = [call EXCEPT ![c] = IF rest = {} THEN Idle ELSE k]
    BY <1>7, <2>1, <2>2 DEF Mark
  <2> QED
    BY <1>2, <1>4, <2>3, <2>4, NewTypes
<1> QED
  BY <1>5, <1>6, <1>7

LEMMA LockDies ==
    ASSUME IInv, QInv, LInv, NEW c \in Handlers, Die(c)
    PROVE  LInv'
<1>1. /\ call' = [call EXCEPT ![c] = Idle] /\ posts' = posts /\ disturbed \subseteq disturbed'
  BY DEF Die
<1>2. ~Boarding(Idle) /\ Releases(Idle, posts')
  BY NewTypes, PlansApart DEF Boarding, Releases
<1> QED
  BY <1>1, <1>2, LockKept

\* One step: the invariant stays, and an active lock that changes was given up or replaced
\* by its owner or a governor.
LEMMA LockStep ==
    ASSUME IInv, QInv, LInv, [Next]_vars
    PROVE  /\ LInv'
           /\ \A i \in DOMAIN posts :
                 /\ "board" \notin disturbed'
                 /\ posts[i].lock.active
                 /\ posts'[i].lock # posts[i].lock
                 => \E c \in InFlight("board") :
                       call[c].user \in Governors \cup {posts[i].lock.owner}
<1> DEFINE Same == \A i \in DOMAIN posts : posts'[i] = posts[i]
           Goal == /\ LInv'
                   /\ \A i \in DOMAIN posts :
                         /\ "board" \notin disturbed'
                         /\ posts[i].lock.active
                         /\ posts'[i].lock # posts[i].lock
                         => \E c \in InFlight("board") :
                               call[c].user \in Governors \cup {posts[i].lock.owner}
<1> SUFFICES Goal
  OBVIOUS
<1>1. LInv' /\ Same => Goal
  OBVIOUS
<1>2. ASSUME NEW c \in Handlers, SavePost(c) PROVE Goal
  <2>1. /\ LInv' /\ Boarding(call[c]) /\ disturbed' = disturbed
        /\ \A i \in DOMAIN posts :
              posts'[i] = IF i = call[c].at THEN call[c].copy ELSE posts[i]
    BY <1>2, LockSaved
  <2>2. c \in InFlight("board")
    BY <2>1, BoardingInFlight
  <2>3. call[c].plan \in PostPlans
    <3>1. call[c] \in Call /\ call[c].plan # <<>> /\ Head(call[c].plan) = "post"
      BY <1>2 DEF SavePost, At, IInv, TypeOK, Handlers
    <3> QED
      BY <3>1, Heads DEF Call, PostPlans
  <2>4. "board" \notin disturbed => Releases(call[c], posts)
    BY DEF LInv
  <2> QED
    BY <2>1, <2>2, <2>3, <2>4 DEF Releases
<1>3. ASSUME NEW c \in Handlers, Write(c) PROVE Goal
  <2>1. CASE SavePost(c)
    BY <1>2, <2>1
  <2>2. CASE AddChild(c) \/ LoadTask(c) \/ SaveTask(c)
    BY <1>1, <2>2, LockWrites
  <2>3. CASE SaveReview(c) \/ Publish(c) \/ Mark(c)
    BY <1>1, <2>3, LockQueues
  <2> QED
    BY <1>3, <2>1, <2>2, <2>3 DEF Write
<1>4. ASSUME NEW c \in Calls, Decide(c) PROVE Goal
  <2>1. ASSUME NEW h, Begin(c, h), LInv' PROVE Goal
    BY <1>1, <2>1 DEF Begin
  <2>2. ASSUME NEW u \in Users, NEW i \in DOMAIN posts, NEW a \in Agents,
               Lock(c, u, i, a) \/ Handoff(c, u, i, a)
        PROVE  Goal
    <3>1. LInv' /\ \E h : Begin(c, h)
      BY <2>2, LockDecides DEF Lock, Handoff
    <3> QED
      BY <2>1, <3>1
  <2>3. ASSUME NEW u \in Users, NEW i \in DOMAIN posts,
               Unlock(c, u, i) \/ Reply(c, u, i) \/ MarkRead(c, u, i)
        PROVE  Goal
    <3>1. Initiator \in Agents
      BY NewTypes
    <3>2. LInv' /\ \E h : Begin(c, h)
      BY <2>3, <3>1, LockDecides DEF Unlock, Reply, MarkRead
    <3> QED
      BY <2>1, <3>2
  <2>4. ASSUME NEW u \in Admins, NEW r \in Requests, Review(c, u, r) PROVE Goal
    <3>1. LInv' /\ \E h : Begin(c, h)
      BY <2>4, LockStays DEF Handlers, Review
    <3> QED
      BY <2>1, <3>1
  <2>5. ASSUME NEW u \in Admins, Drain(c, u) PROVE Goal
    <3>1. LInv' /\ \E h : Begin(c, h)
      BY <2>5, LockDrains DEF Handlers, Drain
    <3> QED
      BY <2>1, <3>1
  <2> HIDE DEF Goal
  <2> QED
    BY <1>4, <2>2, <2>3, <2>4, <2>5 DEF Decide
<1>5. ASSUME NEW c \in Handlers, Die(c) PROVE Goal
  <2>1. posts' = posts
    BY <1>5 DEF Die
  <2> QED
    BY <1>1, <1>5, <2>1, LockDies
<1>6. CASE WorkerStep
  <2>1. CASE Drain(Worker, Nobody)
    <3>1. posts' = posts
      BY <2>1 DEF Drain, Begin
    <3> QED
      BY <1>1, <2>1, <3>1, LockDrains DEF Handlers
  <2> QED
    BY <1>3, <1>6, <2>1 DEF WorkerStep, Handlers
<1>7. ASSUME posts' = posts, call' = call, disturbed' = disturbed PROVE Goal
  <2>1. LInv'
    BY <1>7 DEF LInv
  <2> QED
    BY <1>1, <1>7, <2>1
<1>8. ASSUME NEW r \in Requests, Enqueue(r) PROVE Goal
  BY <1>7, <1>8 DEF Enqueue
<1>9. CASE UNCHANGED vars
  BY <1>7, <1>9 DEF vars
<1> HIDE DEF Goal
<1> QED
  BY <1>3, <1>4, <1>5, <1>6, <1>8, <1>9 DEF Next, Handlers

\* Where handlers of the board neither overlapped nor died, an active lock is released or
\* replaced only by its owner, a lead or an admin, whatever the queue does meanwhile.
THEOREM NoTakeover == Spec => SerialNoTakeover
<1>1. Init => LInv
  <2>1. ASSUME Init PROVE LInv
    <3>1. \A c \in Handlers : call[c] = Idle
      BY <2>1 DEF Init, Handlers
    <3> QED
      BY <3>1, NewTypes, PlansApart DEF LInv, Boarding, Releases
  <2> QED
    BY <2>1
<1>2. IInv /\ QInv /\ LInv /\ [Next]_vars => LInv'
  BY LockStep
<1>3. Spec => []IInv /\ []QInv
  BY Invariance, QueueInvariance, PTL
<1>4. Spec => []LInv
  BY <1>1, <1>2, <1>3, PTL DEF Spec
<1>5. IInv /\ QInv /\ LInv /\ [Next]_vars =>
        [\A i \in DOMAIN posts :
            /\ "board" \notin disturbed'
            /\ posts[i].lock.active
            /\ posts'[i].lock # posts[i].lock
            => \E c \in InFlight("board") :
                  call[c].user \in Governors \cup {posts[i].lock.owner}]_vars
  BY LockStep
<1> QED
  BY <1>3, <1>4, <1>5, PTL DEF Spec, SerialNoTakeover
====
