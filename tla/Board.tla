---- MODULE Board ----
(***************************************************************************)
(* The posts of one task on the blackboard, with their execution locks,    *)
(* and the queue of automatic posts.  A handler reads the post, changes    *)
(* its copy and saves all of it, then does the same with the task; the     *)
(* drain of the queue adds a post and then marks its request.  Every such  *)
(* store operation is a step, so handlers overlap and die in between.      *)
(*                                                                         *)
(* A user stands for their personal agent as well.  Posts are visible to   *)
(* the project (no private ones), all agents may receive a handoff, and    *)
(* the permission policy is the seeded one.                                *)
(***************************************************************************)
EXTENDS Naturals, Sequences, FiniteSets

CONSTANTS Members,     \* users without a role, each with a personal agent
          Leads,       \* users who lead a team
          Admins,      \* users who administer
          Initiator,   \* the member who owns the thread of the task
          Services,    \* public agents
          Requests,    \* automatic posts, numbered in the order they are queued
          Calls,       \* threads that serve HTTP calls, numbered
          Worker,      \* the auto-post worker
          Nobody,
          MaxCalls,    \* bound on calls
          MaxFaults    \* bound on handlers that die

Governors == Leads \cup Admins
Users == Members \cup Governors
Agents == Users \cup Services

ASSUME BoardAssumption ==
    /\ Initiator \in Members
    /\ Nobody \notin Agents
    /\ \A a \in Agents : <<a>> \notin Agents
    /\ Calls \subseteq Nat /\ Worker \notin Calls
    /\ Requests \subseteq Nat \ {0}
    /\ MaxCalls \in Nat /\ MaxFaults \in Nat

VARIABLES posts,      \* the posts of the task, oldest first
          task,       \* the task
          autos,      \* the queue of automatic posts
          call,       \* what each handler still has to do, and its copies
          appointed,  \* history: agents for whom somebody else took a lock
          disturbed,  \* history: kinds of handlers that overlapped or died
          made,       \* calls so far
          faults      \* handlers that died

vars == <<posts, task, autos, call, appointed, disturbed, made, faults>>

---------------------------------------------------------------------------
(* Records.                                                                *)

Stages == {"discussion", "execution", "review"}
ExecutionLock == [owner : Agents \cup {Nobody}, active : BOOLEAN]
NoLock == [owner |-> Nobody, active |-> FALSE]
LockOf(a) == [owner |-> a, active |-> TRUE]
Release(lock) == [lock EXCEPT !.active = FALSE]

\* A handoff is signed with the label of an agent, other posts with the id of one.
Label(a) == <<a>>
Labels == {Label(a) : a \in Agents}

Task == [owner : Agents \cup {Nobody}, stage : Stages, lock : ExecutionLock]
Post == [actor : Agents \cup Labels, owner : Agents \cup {Nobody}, stage : Stages, lock : ExecutionLock,
         readers : SUBSET Users, handoff : Agents \cup {Nobody}, auto : Requests \cup {0}]

NewPost(actor) == [actor |-> actor, owner |-> Nobody, stage |-> "discussion", lock |-> NoLock,
                   readers |-> {}, handoff |-> Nobody, auto |-> 0]
NewTask == [owner |-> Nobody, stage |-> "discussion", lock |-> NoLock]

\* A request in the queue; post is the number of the post that was made of it.
AutoPost == [status : {"none", "queued", "reviewed", "published"}, post : Nat]

\* A handler: its kind and user, the agent it names, the place and the copy of its post,
\* its copy of the task, the requests it works on, and the steps it has still to do.
Idle == [op |-> "idle", user |-> Nobody, agent |-> Nobody, at |-> 0, copy |-> NewPost(Initiator),
         taskCopy |-> NewTask, batch |-> {}, plan |-> <<>>]
Plans == {<<>>, <<"child">>, <<"post">>, <<"save">>, <<"load", "save">>, <<"post", "load", "save">>,
          <<"child", "load", "save">>, <<"child", "post", "load", "save">>,
          <<"review">>, <<"mark">>, <<"publish", "mark">>}
Call == [op : {"idle", "lock", "unlock", "handoff", "reply", "read", "review", "drain"},
         user : Agents \cup {Nobody}, agent : Agents \cup {Nobody}, at : Nat, copy : Post,
         taskCopy : Task, batch : SUBSET Requests,
         plan : Plans]

TypeOK ==
    /\ posts \in Seq(Post)
    /\ task \in Task
    /\ autos \in [Requests -> AutoPost]
    /\ call \in [Calls \cup {Worker} -> Call]
    /\ appointed \in SUBSET Agents
    /\ disturbed \in SUBSET {"board", "queue"}
    /\ made \in 0..MaxCalls /\ faults \in 0..MaxFaults

Init ==
    /\ posts = <<NewPost(Initiator)>>
    /\ task = NewTask
    /\ autos = [r \in Requests |-> [status |-> "none", post |-> 0]]
    /\ call = [c \in Calls \cup {Worker} |-> Idle]
    /\ appointed = {} /\ disturbed = {} /\ made = 0 /\ faults = 0

---------------------------------------------------------------------------
(* Who may do what.                                                        *)

NamedIn(p) == {p.actor, p.owner, p.lock.owner} \cup p.readers

Visible(u) == u \in Governors \cup {Initiator} \/ \E i \in DOMAIN posts : u \in NamedIn(posts[i])

Controls(u, p) == u \in Governors \cup {Initiator} \/ p.owner = u

\* Variant: a member may name the agent of anybody.
ManagesAny(u, a) == u \in Admins \/ a \in Users

Manages(u, a) == u \in Admins \/ a = u \/ (u \in Leads /\ a \in Services)

MayRelease(u, p) == p.lock.active => u \in Governors \/ p.lock.owner = u

\* Variant: the lock of another agent is not looked at.
LockIgnored(a, p) == TRUE

MayLock(a, p) == p.lock.active => p.lock.owner = a

\* Variant: the offer to unlock does not ask whose lock it is.
OffersAll(u, p) ==
    {act \in {"lock", "unlock", "handoff"} :
        /\ Visible(u) /\ Controls(u, p)
        /\ act = "lock" => ~p.lock.active \/ p.lock.owner = u
        /\ act = "unlock" => p.lock.active}

\* What the view of a post offers to a user, beside read and reply.
AllowedActions(u, p) ==
    {act \in {"lock", "unlock", "handoff"} :
        /\ Visible(u) /\ Controls(u, p)
        /\ act = "lock" => ~p.lock.active \/ p.lock.owner = u
        /\ act = "unlock" => p.lock.active
        /\ act # "lock" => ~p.lock.active \/ u \in Governors \/ p.lock.owner = u}

---------------------------------------------------------------------------
(* The life of a handler.                                                  *)

Family(op) == IF op \in {"review", "drain"} THEN "queue" ELSE "board"
InFlight(f) == {c \in DOMAIN call : call[c].plan # <<>> /\ Family(call[c].op) = f}

Begin(c, h) ==
    /\ call[c] = Idle
    /\ made' = IF c = Worker THEN made ELSE made + 1
    /\ call' = [call EXCEPT ![c] = h]
    /\ disturbed' = disturbed \cup (IF InFlight(Family(h.op)) = {} THEN {} ELSE {Family(h.op)})
    /\ UNCHANGED <<posts, task, autos, faults>>

At(c, step) == call[c].plan # <<>> /\ Head(call[c].plan) = step

Proceed(c, h) ==
    call' = [call EXCEPT ![c] = IF Len(h.plan) = 1 THEN Idle ELSE [h EXCEPT !.plan = Tail(h.plan)]]

\* Variant: the loop of the worker ends with its first error.
DieForGood(c) ==
    /\ call[c].plan # <<>>
    /\ faults < MaxFaults /\ faults' = faults + 1
    /\ disturbed' = disturbed \cup {Family(call[c].op)}
    /\ call' = [call EXCEPT ![c] = IF c = Worker THEN [Idle EXCEPT !.op = "drain"] ELSE Idle]
    /\ UNCHANGED <<posts, task, autos, appointed, made>>

\* A handler dies: a storage error, or with others a crash of the process.  The worker
\* records the error and goes on with its next round.
Die(c) ==
    /\ call[c].plan # <<>>
    /\ faults < MaxFaults /\ faults' = faults + 1
    /\ disturbed' = disturbed \cup {Family(call[c].op)}
    /\ call' = [call EXCEPT ![c] = Idle]
    /\ UNCHANGED <<posts, task, autos, appointed, made>>

---------------------------------------------------------------------------
(* The board: what a handler decides when it has read its post.            *)

Lock(c, u, i, a) ==
    /\ Visible(u) /\ Controls(u, posts[i]) /\ Manages(u, a) /\ MayLock(a, posts[i])
    /\ Begin(c, [Idle EXCEPT !.op = "lock", !.user = u, !.agent = a, !.at = i,
                             !.copy = [posts[i] EXCEPT !.lock = LockOf(a), !.owner = a,
                                                       !.stage = "execution"],
                             !.plan = <<"post", "load", "save">>])
    /\ appointed' = IF u \in Governors THEN appointed \cup {a} ELSE appointed

Unlock(c, u, i) ==
    /\ Visible(u) /\ Controls(u, posts[i]) /\ MayRelease(u, posts[i])
    /\ Begin(c, [Idle EXCEPT !.op = "unlock", !.user = u, !.at = i,
                             !.copy = [posts[i] EXCEPT !.lock = Release(posts[i].lock),
                                                       !.stage = "review"],
                             !.plan = <<"post", "load", "save">>])
    /\ UNCHANGED appointed

\* The parent is saved only where its lock is given up with it.
Handoff(c, u, i, a) ==
    /\ Visible(u) /\ Controls(u, posts[i]) /\ MayRelease(u, posts[i])
    /\ IF posts[i].lock.active
       THEN Begin(c, [Idle EXCEPT !.op = "handoff", !.user = u, !.agent = a, !.at = i,
                                 !.copy = [posts[i] EXCEPT !.lock = Release(posts[i].lock),
                                                           !.stage = "review"],
                                 !.plan = <<"child", "post", "load", "save">>])
       ELSE Begin(c, [Idle EXCEPT !.op = "handoff", !.user = u, !.agent = a, !.at = i,
                                 !.copy = posts[i], !.plan = <<"child", "load", "save">>])
    /\ UNCHANGED appointed

Reply(c, u, i) ==
    /\ Visible(u) /\ Controls(u, posts[i])
    /\ Begin(c, [Idle EXCEPT !.op = "reply", !.user = u, !.at = i, !.copy = posts[i],
                             !.plan = <<"child">>])
    /\ UNCHANGED appointed

MarkRead(c, u, i) ==
    /\ Visible(u) /\ u \notin posts[i].readers
    /\ Begin(c, [Idle EXCEPT !.op = "read", !.user = u, !.at = i,
                             !.copy = [posts[i] EXCEPT !.readers = posts[i].readers \cup {u}],
                             !.plan = <<"post">>])
    /\ UNCHANGED appointed

---------------------------------------------------------------------------
(* The board: what a handler writes.                                       *)

\* A reply inherits stage and owner of its parent, a handoff starts a new discussion.
Child(h) ==
    IF h.op = "reply"
    THEN [NewPost(h.user) EXCEPT !.stage = h.copy.stage, !.owner = h.copy.owner]
    ELSE [NewPost(IF h.copy.owner = Nobody THEN h.copy.actor ELSE Label(h.copy.owner))
             EXCEPT !.owner = h.agent, !.handoff = h.agent]

AddChild(c) ==
    /\ At(c, "child")
    /\ posts' = Append(posts, Child(call[c]))
    /\ Proceed(c, call[c])
    /\ UNCHANGED <<task, autos, appointed, disturbed, made, faults>>

SavePost(c) ==
    /\ At(c, "post")
    /\ posts' = [posts EXCEPT ![call[c].at] = call[c].copy]
    /\ Proceed(c, call[c])
    /\ UNCHANGED <<task, autos, appointed, disturbed, made, faults>>

\* The task as the handler h will save it.
TaskAfter(h) ==
    CASE h.op = "lock" -> [owner |-> h.agent, stage |-> "execution", lock |-> LockOf(h.agent)]
      [] h.op = "unlock" -> [task EXCEPT !.stage = "review", !.lock = Release(task.lock)]
      [] h.op = "handoff" -> [owner |-> h.agent, stage |-> "discussion", lock |-> NoLock]

LoadTask(c) ==
    /\ At(c, "load")
    /\ Proceed(c, [call[c] EXCEPT !.taskCopy = TaskAfter(call[c])])
    /\ UNCHANGED <<posts, task, autos, appointed, disturbed, made, faults>>

SaveTask(c) ==
    /\ At(c, "save")
    /\ task' = call[c].taskCopy
    /\ Proceed(c, call[c])
    /\ UNCHANGED <<posts, autos, appointed, disturbed, made, faults>>

---------------------------------------------------------------------------
(* The queue of automatic posts.                                           *)

\* One insert, by somebody who sees the task anyway: the initiator, a lead or an admin.
Enqueue(r) ==
    /\ autos[r].status = "none" /\ \A s \in Requests : s < r => autos[s].status # "none"
    /\ made < MaxCalls /\ made' = made + 1
    /\ autos' = [autos EXCEPT ![r].status = "queued"]
    /\ UNCHANGED <<posts, task, call, appointed, disturbed, faults>>

Review(c, u, r) ==
    /\ u \in Admins /\ autos[r].status = "queued"
    /\ Begin(c, [Idle EXCEPT !.op = "review", !.user = u, !.batch = {r}, !.plan = <<"review">>])
    /\ UNCHANGED appointed

SaveReview(c) ==
    /\ At(c, "review")
    /\ \E r \in call[c].batch : autos' = [autos EXCEPT ![r] = [status |-> "reviewed", post |-> 0]]
    /\ Proceed(c, call[c])
    /\ UNCHANGED <<posts, task, appointed, disturbed, made, faults>>

\* Variant: a drain takes the queued requests as well.
ReadyUnreviewed == {r \in Requests : autos[r].status \in {"queued", "reviewed"}}

Ready == {r \in Requests : autos[r].status = "reviewed"}

Drain(c, u) ==
    /\ Ready # {}
    /\ Begin(c, [Idle EXCEPT !.op = "drain", !.user = u, !.batch = Ready,
                             !.plan = <<"publish", "mark">>])
    /\ UNCHANGED appointed

First(batch) == CHOOSE r \in batch : \A s \in batch : r <= s

Publish(c) ==
    /\ At(c, "publish")
    /\ posts' = Append(posts, [NewPost(Initiator) EXCEPT !.auto = First(call[c].batch)])
    /\ Proceed(c, [call[c] EXCEPT !.at = Len(posts) + 1])
    /\ UNCHANGED <<task, autos, appointed, disturbed, made, faults>>

Mark(c) ==
    LET r == First(call[c].batch)
        rest == call[c].batch \ {r}
    IN  /\ At(c, "mark")
        /\ autos' = [autos EXCEPT ![r] = [status |-> "published", post |-> call[c].at]]
        /\ call' = [call EXCEPT ![c] = IF rest = {} THEN Idle
                                       ELSE [call[c] EXCEPT !.batch = rest,
                                                              !.plan = <<"publish", "mark">>]]
        /\ UNCHANGED <<posts, task, appointed, disturbed, made, faults>>

---------------------------------------------------------------------------

\* Threads are alike: the first free one takes a call.
Free(c) == call[c] = Idle /\ \A d \in Calls : d < c => call[d] # Idle

Decide(c) ==
    /\ Free(c) /\ made < MaxCalls
    /\ \/ \E u \in Users, i \in DOMAIN posts :
            \/ \E a \in Agents : Lock(c, u, i, a) \/ Handoff(c, u, i, a)
            \/ Unlock(c, u, i) \/ Reply(c, u, i) \/ MarkRead(c, u, i)
       \/ \E u \in Admins, r \in Requests : Review(c, u, r)
       \/ \E u \in Admins : Drain(c, u)

Write(c) ==
    \/ AddChild(c) \/ SavePost(c) \/ LoadTask(c) \/ SaveTask(c)
    \/ SaveReview(c) \/ Publish(c) \/ Mark(c)

WorkerStep == Drain(Worker, Nobody) \/ Write(Worker)

Next ==
    \/ \E c \in Calls : Decide(c) \/ Write(c) \/ Die(c)
    \/ WorkerStep \/ Die(Worker)
    \/ \E r \in Requests : Enqueue(r)

Spec == Init /\ [][Next]_vars

\* The loop of the worker sleeps, drains, records an error and goes on for ever.
FairSpec == Spec /\ WF_vars(WorkerStep)

---------------------------------------------------------------------------
(* Properties.                                                             *)

Author(p) == IF p.actor \in Agents THEN p.actor ELSE p.actor[1]

Holders == {posts[i].owner : i \in DOMAIN posts} \cup {posts[i].lock.owner : i \in DOMAIN posts}
               \cup {Author(posts[i]) : i \in DOMAIN posts} \cup {task.owner, task.lock.owner}

\* Whoever owns, locks or wrote anything in the task, other than its initiator, leads and
\* admins, was named by a handoff post that is still on the board, or a lead or an admin
\* took a lock in their name: no order of handlers and no stale save brings a stranger in.
ChainOfCustody ==
    \A a \in Holders \ ({Initiator, Nobody} \cup Governors) :
        a \in appointed \/ \E i \in DOMAIN posts : posts[i].handoff = a

\* Where handlers of the board neither overlapped nor died, an active lock is released or
\* replaced only by its owner, a lead or an admin.
SerialNoTakeover ==
    [][\A i \in DOMAIN posts :
         /\ "board" \notin disturbed'
         /\ posts[i].lock.active
         /\ posts'[i].lock # posts[i].lock
         => \E c \in InFlight("board") : call[c].user \in Governors \cup {posts[i].lock.owner}]_vars

\* The page and the handlers have the same guards written twice: what is offered on a post
\* is what would be accepted, except that a lock that nobody holds is not offered for release.
OfferedIsAccepted ==
    \A u \in Users, i \in DOMAIN posts :
        LET p == posts[i]
            open == Visible(u) /\ Controls(u, p)
        IN  AllowedActions(u, p) =
               {act \in {"lock", "unlock", "handoff"} :
                   /\ open
                   /\ act = "lock" => Manages(u, u) /\ MayLock(u, p)
                   /\ act = "unlock" => p.lock.active
                   /\ act # "lock" => MayRelease(u, p)}

PostsOf(r) == {i \in DOMAIN posts : posts[i].auto = r}

\* An automatic post is on the board only after its review, a request marked as published
\* points to its post, and there is one post of it unless two handlers of the queue
\* overlapped or one died.
PublicationsAreReviewed ==
    \A r \in Requests :
        /\ PostsOf(r) # {} => autos[r].status \in {"reviewed", "published"}
        /\ autos[r].status = "published" => autos[r].post \in PostsOf(r)
        /\ "queue" \notin disturbed => Cardinality(PostsOf(r)) <= 1

\* A reviewed request is published in the end, also after rounds of the worker that died.
ReviewedIsPublished ==
    \A r \in Requests : autos[r].status = "reviewed" ~> autos[r].status = "published"

====
