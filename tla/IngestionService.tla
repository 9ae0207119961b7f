---- MODULE IngestionService ----
(***************************************************************************)
(* What the ingestion service promises of the jobs of uploads, whatever    *)
(* its pool does: a job is accepted or refused, an accepted one runs at    *)
(* most once and ends completed or failed, nothing is accepted once a      *)
(* shutdown has begun, and the shutdown ends when every accepted job has.  *)
(* A job is lost when its end cannot be saved or the process ends first.   *)
(***************************************************************************)
CONSTANT Uploads

VARIABLES job,      \* job[u]: none, queued, running, completed or failed
          door,     \* open, closing or closed
          accepted, \* the jobs this process has accepted
          lost      \* the jobs that stay queued or running for good

vars == <<job, door, accepted, lost>>

Ended(u) == job[u] \in {"completed", "failed"}
Owed == {u \in accepted \ lost : ~Ended(u)}

Init == /\ job = [u \in Uploads |-> "none"]
        /\ door = "open"
        /\ accepted = {} /\ lost = {}

Create(u) == /\ job[u] = "none"
             /\ job' = [job EXCEPT ![u] = "queued"]
             /\ UNCHANGED <<door, accepted, lost>>

Waiting(u) == job[u] = "queued" /\ u \notin accepted \cup lost

Accept(u) == /\ Waiting(u) /\ door = "open"
             /\ accepted' = accepted \cup {u}
             /\ UNCHANGED <<job, door, lost>>

Refuse(u) == /\ Waiting(u)
             /\ job' = [job EXCEPT ![u] = "failed"]
             /\ UNCHANGED <<door, accepted, lost>>

Start(u) == /\ u \in Owed /\ job[u] = "queued"
            /\ job' = [job EXCEPT ![u] = "running"]
            /\ UNCHANGED <<door, accepted, lost>>

Complete(u) == /\ u \in Owed /\ job[u] = "running"
               /\ job' = [job EXCEPT ![u] = "completed"]
               /\ UNCHANGED <<door, accepted, lost>>

Fail(u) == /\ u \in Owed
           /\ job' = [job EXCEPT ![u] = "failed"]
           /\ UNCHANGED <<door, accepted, lost>>

Lose(u) == /\ u \in Owed
           /\ lost' = lost \cup {u}
           /\ UNCHANGED <<job, door, accepted>>

Close == /\ door = "open"
         /\ door' = "closing"
         /\ UNCHANGED <<job, accepted, lost>>

\* The shutdown ends when every accepted job has ended; it gives up, when it must, only
\* jobs that never ran.
Shut == /\ door = "closing"
        /\ \A u \in Owed : job[u] = "queued"
        /\ door' = "closed"
        /\ lost' = lost \cup Owed
        /\ UNCHANGED <<job, accepted>>

Restart == /\ door' = "open"
           /\ accepted' = {}
           /\ lost' = lost \cup {u \in Uploads : job[u] # "none" /\ ~Ended(u)}
           /\ UNCHANGED job

Next == \/ \E u \in Uploads : \/ Create(u) \/ Accept(u) \/ Refuse(u)
                              \/ Start(u) \/ Complete(u) \/ Fail(u) \/ Lose(u)
        \/ Close \/ Shut \/ Restart

Spec == Init /\ [][Next]_vars
====
