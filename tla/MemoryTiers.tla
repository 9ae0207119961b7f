---- MODULE MemoryTiers ----
(***************************************************************************)
(* A user's own memory on its way up: notes, the summary of a day that the *)
(* worker or a call makes, the summary of a project, its archive, what is  *)
(* shared with the team and accepted there, and the skills learned from    *)
(* repeated work.  Handlers read in one transaction and save in another.   *)
(* The threads, their bounds and the team lead are those of Governance.    *)
(*                                                                         *)
(* One user, one project and one day.  What a summary says is left out,    *)
(* but for the memories it was made of.                                    *)
(***************************************************************************)
EXTENDS Governance

VARIABLES personal,   \* the user's own memories, oldest first
          items,      \* the memories of the team and those offered to it, oldest first
          relations,  \* which item was shared from which memory of the user's
          skills,     \* learned skills, oldest first
          task        \* what each handler has to do still, and what it has read

tiers == <<personal, items, relations, skills>>
memoryVars == <<tiers, task>>

Layers == {"short", "mid", "long"}
Kinds == {"note", "daily_summary", "short_term_rollup", "project_archive"}
Personal == [layer : Layers, kind : Kinds, from : SUBSET Nat]
TeamItem == [scope : {"private", "team_candidate", "team_accepted"},
             status : {"proposed", "accepted", "disputed"}]
Skill == [status : {"draft", "active", "deprecated"}, scope : {"private", "project"}]

ANote == [layer |-> "short", kind |-> "note", from |-> {}]
AnItem == [scope |-> "team_candidate", status |-> "proposed"]
ASkill == [status |-> "draft", scope |-> "private"]
TaskPlans == {<<>>, <<"exists", "collect", "personal">>, <<"collect", "personal">>,
              <<"personal">>, <<"candidate", "relation">>, <<"relation">>, <<"item">>,
              <<"learn">>, <<"skill">>}

\* at: the memory, item or skill a task is about; the rest is what it will save.
Task == [plan : TaskPlans, at : Nat, personal : Personal, item : TeamItem, skill : Skill]
NoTask == [plan |-> <<>>, at |-> 0, personal |-> ANote, item |-> AnItem, skill |-> ASkill]

MemoryTypeOK ==
    /\ personal \in Seq(Personal) /\ items \in Seq(TeamItem)
    /\ relations \in SUBSET (Nat \X Nat)
    /\ skills \in Seq(Skill)
    /\ task \in [Threads -> Task]
    /\ disturbed \in BOOLEAN
    /\ made \in 0..MaxCalls /\ faults \in 0..MaxFaults

MemoryInit ==
    /\ personal = <<>> /\ items = <<>> /\ relations = {} /\ skills = <<>>
    /\ task = [c \in Threads |-> NoTask]

AtWork == {c \in Threads : task[c] # NoTask}

Called ==
    /\ made < MaxCalls /\ made' = made + 1
    /\ disturbed' = (disturbed \/ AtWork # {})
    /\ UNCHANGED faults

BeginTask(c, t) ==
    /\ task[c] = NoTask /\ \A d \in Threads : d < c => task[d] # NoTask
    /\ Called
    /\ task' = [task EXCEPT ![c] = t]
    /\ UNCHANGED tiers

---------------------------------------------------------------------------
(* Calls that save at once.                                                *)

\* A note or the summary of a group chat, in the layer its author chooses.
WriteDown(layer) ==
    /\ Called
    /\ personal' = Append(personal, [ANote EXCEPT !.layer = layer])
    /\ UNCHANGED <<items, relations, skills, task>>

\* A memory for oneself, or a candidate: nobody posts an accepted one.
Propose(scope) ==
    /\ Called
    /\ items' = Append(items, [AnItem EXCEPT !.scope = scope])
    /\ UNCHANGED <<personal, relations, skills, task>>

---------------------------------------------------------------------------
(* Calls that read and save.                                               *)

Summary(layer, kind) == [layer |-> layer, kind |-> kind, from |-> {}]

\* Variant: the day is summarised again.
SummarizeDayAgain(c) ==
    BeginTask(c, [NoTask EXCEPT !.plan = <<"collect", "personal">>,
                                !.personal = Summary("short", "daily_summary")])

\* The worker, its manual run and the endpoint alike.
SummarizeDay(c) ==
    BeginTask(c, [NoTask EXCEPT !.plan = <<"exists", "collect", "personal">>,
                                !.personal = Summary("short", "daily_summary")])

SummarizeProject(c) ==
    BeginTask(c, [NoTask EXCEPT !.plan = <<"collect", "personal">>,
                                !.personal = Summary("mid", "short_term_rollup")])

ArchiveProject(c) ==
    BeginTask(c, [NoTask EXCEPT !.plan = <<"collect", "personal">>,
                                !.personal = Summary("long", "project_archive")])

Share(c, m) ==
    BeginTask(c, [NoTask EXCEPT !.plan = <<"candidate", "relation">>, !.at = m])

\* A lead accepts an open candidate.
AcceptItem(c, i) ==
    /\ items[i] = AnItem
    /\ BeginTask(c, [NoTask EXCEPT !.plan = <<"item">>, !.at = i,
                        !.item = [scope |-> "team_accepted", status |-> "accepted"]])

\* Variant: a candidate may be disputed too.
DisputeAny(c, i) ==
    /\ items[i].scope # "team_accepted"
    /\ BeginTask(c, [NoTask EXCEPT !.plan = <<"item">>, !.at = i,
                        !.item = [items[i] EXCEPT !.status = "disputed"]])

\* The one other transition: its owner disputes a private item.
Dispute(c, i) ==
    /\ items[i].scope = "private"
    /\ BeginTask(c, [NoTask EXCEPT !.plan = <<"item">>, !.at = i,
                        !.item = [items[i] EXCEPT !.status = "disputed"]])

\* A chat turn that looks like others before it is learned from.
Learn(c) == BeginTask(c, [NoTask EXCEPT !.plan = <<"learn">>])

Activate(c, s) ==
    /\ skills[s].status = "draft"
    /\ BeginTask(c, [NoTask EXCEPT !.plan = <<"skill">>, !.at = s,
                        !.skill = [skills[s] EXCEPT !.status = "active"]])

ShareSkill(c, s) ==
    /\ skills[s].status = "active"
    /\ BeginTask(c, [NoTask EXCEPT !.plan = <<"skill">>, !.at = s,
                        !.skill = [skills[s] EXCEPT !.scope = "project"]])

Deprecate(c, s) ==
    BeginTask(c, [NoTask EXCEPT !.plan = <<"skill">>, !.at = s,
                     !.skill = [skills[s] EXCEPT !.status = "deprecated"]])

---------------------------------------------------------------------------
(* Handlers go on.                                                         *)

TaskAt(c, step) == task[c].plan # <<>> /\ Head(task[c].plan) = step

Continue(c, t) ==
    /\ task' = [task EXCEPT ![c] = IF t.plan = <<>> THEN NoTask ELSE t]
    /\ UNCHANGED <<disturbed, made, faults>>

Done(c) == [task[c] EXCEPT !.plan = Tail(task[c].plan)]

\* A day that has its summary is refused, or passed over.
LookForSummary(c) ==
    /\ TaskAt(c, "exists")
    /\ Continue(c, IF \E m \in DOMAIN personal : personal[m].kind = "daily_summary"
                   THEN NoTask ELSE Done(c))
    /\ UNCHANGED tiers

\* What a summary is made of: the layer below it, without summaries of its own kind.
Sources(summary) ==
    LET below == IF summary.layer = "long" THEN "mid" ELSE "short"
    IN  {m \in DOMAIN personal : personal[m].layer = below /\ personal[m].kind # summary.kind}

\* Nothing to summarise is refused.
Collect(c) ==
    /\ TaskAt(c, "collect")
    /\ LET sources == Sources(task[c].personal)
       IN  Continue(c, IF sources = {} THEN NoTask
                       ELSE [Done(c) EXCEPT !.personal.from = sources])
    /\ UNCHANGED tiers

SavePersonal(c) ==
    /\ TaskAt(c, "personal")
    /\ personal' = Append(personal, task[c].personal)
    /\ Continue(c, Done(c))
    /\ UNCHANGED <<items, relations, skills>>

\* What is shared is a new candidate.
SaveCandidate(c) ==
    /\ TaskAt(c, "candidate")
    /\ items' = Append(items, AnItem)
    /\ Continue(c, [Done(c) EXCEPT !.personal.from = {task[c].at}, !.at = Len(items) + 1])
    /\ UNCHANGED <<personal, relations, skills>>

SaveRelation(c) ==
    /\ TaskAt(c, "relation")
    /\ relations' = relations \cup {<<task[c].at, m>> : m \in task[c].personal.from}
    /\ Continue(c, Done(c))
    /\ UNCHANGED <<personal, items, skills>>

SaveTeamItem(c) ==
    /\ TaskAt(c, "item")
    /\ items' = [items EXCEPT ![task[c].at] = task[c].item]
    /\ Continue(c, Done(c))
    /\ UNCHANGED <<personal, relations, skills>>

\* A pattern that has its skill is not learned again; place 0 is a new one.
LookForSkill(c) ==
    /\ TaskAt(c, "learn")
    /\ Continue(c, IF skills # <<>> THEN NoTask ELSE [Done(c) EXCEPT !.plan = <<"skill">>])
    /\ UNCHANGED tiers

SaveSkill(c) ==
    /\ TaskAt(c, "skill")
    /\ skills' = IF task[c].at = 0 THEN Append(skills, task[c].skill)
                 ELSE [skills EXCEPT ![task[c].at] = task[c].skill]
    /\ Continue(c, Done(c))
    /\ UNCHANGED <<personal, items, relations>>

TaskDies(c) ==
    /\ task[c] # NoTask
    /\ faults < MaxFaults /\ faults' = faults + 1
    /\ task' = [task EXCEPT ![c] = NoTask]
    /\ disturbed' = TRUE
    /\ UNCHANGED <<tiers, made>>

MemoryNext ==
    \/ \E layer \in Layers : WriteDown(layer)
    \/ \E scope \in {"private", "team_candidate"} : Propose(scope)
    \/ \E c \in Threads :
        \/ SummarizeDay(c) \/ SummarizeProject(c) \/ ArchiveProject(c) \/ Learn(c)
        \/ \E m \in DOMAIN personal : Share(c, m)
        \/ \E i \in DOMAIN items : AcceptItem(c, i) \/ Dispute(c, i)
        \/ \E s \in DOMAIN skills : Activate(c, s) \/ ShareSkill(c, s) \/ Deprecate(c, s)
        \/ LookForSummary(c) \/ Collect(c) \/ SavePersonal(c)
        \/ SaveCandidate(c) \/ SaveRelation(c) \/ SaveTeamItem(c)
        \/ LookForSkill(c) \/ SaveSkill(c) \/ TaskDies(c)

MemorySpec == Init /\ MemoryInit /\ [][MemoryNext]_<<memoryVars, disturbed, made, faults>>

---------------------------------------------------------------------------
(* Properties.                                                             *)

\* A day has one summary (memory.py create_daily_memory_summary and
\* generate_daily_memory_summaries), where handlers took turns: the worker and a call that
\* both find none do both make one.
SerialOneDailySummary ==
    ~disturbed => \A m, n \in DOMAIN personal :
                     personal[m].kind = "daily_summary" /\ personal[n].kind = "daily_summary" => m = n

\* What was decided stands: no PATCH moves what the team accepted, or makes public what is
\* private, also none that read the item before it was accepted and saves the whole of it
\* later (memory.py update_memory_item, permissions.py ensure_can_update_memory); and a skill
\* that its owner deprecated is not used or shared again, where handlers took turns, for a
\* share that read it before saves it active (memory.py share_skill_to_project).
DecisionsStand ==
    [][/\ \A i \in DOMAIN items :
             /\ i \in DOMAIN items'
             /\ items[i].status = "accepted" => items'[i] = items[i]
             /\ (items[i].scope = "private") = (items'[i].scope = "private")
       /\ disturbed \/ \A s \in DOMAIN skills :
             skills[s].status = "deprecated" => skills'[s] = skills[s]]_<<items, skills>>
====
