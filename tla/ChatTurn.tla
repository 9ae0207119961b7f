---- MODULE ChatTurn ----
(***************************************************************************)
(* POST /api/chat/messages: one client turn executed through a persisted   *)
(* receipt.  Every request (a call) runs on a threadpool thread of its own *)
(* and every store operation is one SQLite transaction, so the steps of    *)
(* two calls interleave between transactions.  A restart kills the calls   *)
(* in flight and keeps the database.                                       *)
(***************************************************************************)
EXTENDS Naturals, FiniteSets

CONSTANTS Turns,        \* receipt ids, one for each (user, client_turn_id)
          Contents,     \* message texts
          Calls,        \* HTTP requests
          OpenThreads,  \* chat threads the user already owns
          NoThread,     \* request.thread_id is None
          NoCall,       \* no response
          NoReceipt,    \* no row for the receipt id
          NoRequest,    \* the request of a call not yet received
          MaxFaults     \* bound on storage failures and restarts

\* new_id("thread") is unique: the thread a call makes bears the call's name.
Threads == OpenThreads \cup Calls

Request == [turn : Turns, content : Contents, thread : Threads \cup {NoThread}]

Receipt == [status    : {"processing", "completed", "failed"},
            content   : Contents,
            requested : Threads \cup {NoThread},
            thread    : Threads,
            response  : Calls \cup {NoCall}]

Reply == [kind  : {"none", "ok", "mismatch", "not_retryable", "not_found", "error"},
          value : Calls \cup {NoCall}]

Message == [thread : Threads, call : Calls, role : {"user", "assistant"}]

ASSUME ChatTurnAssumption ==
    /\ OpenThreads \cap Calls = {}
    /\ NoThread \notin OpenThreads \cup Calls
    /\ NoCall \notin Calls
    /\ NoReceipt \notin Receipt
    /\ MaxFaults \in Nat

VARIABLES receipt,   \* collection chat_turn_receipts
          threads,   \* collection chat_threads: the ids the user owns
          messages,  \* collection chat_messages
          task,      \* task[c]: status of the task call c created, if any
          pc,        \* where the thread of a call is in create_chat_message
          req,       \* the body of a call
          reply,     \* what a call was answered
          faults     \* storage failures and restarts so far

vars == <<receipt, threads, messages, task, pc, req, reply, faults>>

TypeOK ==
    /\ receipt \in [Turns -> Receipt \cup {NoReceipt}]
    /\ threads \in SUBSET Threads
    /\ messages \in SUBSET Message
    /\ task \in [Calls -> {"none", "running", "waiting", "completed", "failed"}]
    /\ pc \in [Calls -> {"idle", "lookup", "claim", "thread", "handle", "work",
                         "save_task", "reply", "finish", "fail", "return",
                         "done", "dead"}]
    /\ req \in [Calls -> Request \cup {NoRequest}]
    /\ \A c \in Calls : pc[c] # "idle" => req[c] \in Request
    /\ reply \in [Calls -> Reply]
    /\ faults \in 0..MaxFaults

Init ==
    /\ receipt = [t \in Turns |-> NoReceipt]
    /\ threads = OpenThreads
    /\ messages = {}
    /\ task = [c \in Calls |-> "none"]
    /\ pc = [c \in Calls |-> "idle"]
    /\ req = [c \in Calls |-> NoRequest]
    /\ reply = [c \in Calls |-> [kind |-> "none", value |-> NoCall]]
    /\ faults = 0

---------------------------------------------------------------------------
(* Steps of a call, in the order of create_chat_message.                   *)

Turn(c) == req[c].turn
Goto(c, l) == pc' = [pc EXCEPT ![c] = l]
Answer(c, k, v) == /\ reply' = [reply EXCEPT ![c] = [kind |-> k, value |-> v]]
                   /\ Goto(c, "done")
Fault == /\ faults < MaxFaults
         /\ faults' = faults + 1

Post(c, q) ==
    /\ pc[c] = "idle"
    /\ req' = [req EXCEPT ![c] = q]
    /\ Goto(c, "lookup")
    /\ UNCHANGED <<receipt, threads, messages, task, reply, faults>>

\* Only a turn without a receipt has its thread checked here.
Lookup(c) ==
    /\ pc[c] = "lookup"
    /\ IF receipt[Turn(c)] = NoReceipt /\ req[c].thread \notin threads \cup {NoThread}
       THEN Answer(c, "not_found", NoCall)
       ELSE Goto(c, "claim") /\ UNCHANGED reply
    /\ UNCHANGED <<receipt, threads, messages, task, req, faults>>

\* Variant: the row is written whether or not it exists (an upsert in place of the
\* insert under BEGIN IMMEDIATE).
ClaimByUpsert(c) ==
    /\ pc[c] = "claim"
    /\ receipt' = [receipt EXCEPT ![Turn(c)] =
                     [status    |-> "processing",
                      content   |-> req[c].content,
                      requested |-> req[c].thread,
                      thread    |-> IF req[c].thread = NoThread THEN c ELSE req[c].thread,
                      response  |-> NoCall]]
    /\ Goto(c, IF req[c].thread = NoThread THEN "thread" ELSE "handle")
    /\ UNCHANGED <<threads, messages, task, req, reply, faults>>

\* claim_chat_turn_receipt inserts the row: this call owns the turn.
Claim(c) ==
    /\ pc[c] = "claim"
    /\ receipt[Turn(c)] = NoReceipt
    /\ receipt' = [receipt EXCEPT ![Turn(c)] =
                     [status    |-> "processing",
                      content   |-> req[c].content,
                      requested |-> req[c].thread,
                      thread    |-> IF req[c].thread = NoThread THEN c ELSE req[c].thread,
                      response  |-> NoCall]]
    /\ Goto(c, IF req[c].thread = NoThread THEN "thread" ELSE "handle")
    /\ UNCHANGED <<threads, messages, task, req, reply, faults>>

\* Variant: the content of a repeated turn is not compared.
RejoinAnyContent(c) ==
    /\ pc[c] = "claim"
    /\ receipt[Turn(c)] # NoReceipt
    /\ LET r == receipt[Turn(c)] IN
       IF r.requested = req[c].thread /\ r.status = "completed"
       THEN Answer(c, "ok", r.response)
       ELSE Answer(c, "not_retryable", NoCall)
    /\ UNCHANGED <<receipt, threads, messages, task, req, faults>>

\* Another call owns the turn: replay its response or refuse.
Rejoin(c) ==
    /\ pc[c] = "claim"
    /\ receipt[Turn(c)] # NoReceipt
    /\ LET r == receipt[Turn(c)] IN
       \/ /\ \/ r.content # req[c].content
             \/ r.requested # req[c].thread
          /\ Answer(c, "mismatch", NoCall)
       \/ /\ r.content = req[c].content /\ r.requested = req[c].thread
          /\ r.status = "completed"
          /\ Answer(c, "ok", r.response)
       \/ /\ r.content = req[c].content /\ r.requested = req[c].thread
          /\ r.status # "completed"
          /\ Answer(c, "not_retryable", NoCall)
    /\ UNCHANGED <<receipt, threads, messages, task, req, faults>>

CreateThread(c) ==
    /\ pc[c] = "thread"
    /\ threads' = threads \cup {receipt[Turn(c)].thread}
    /\ Goto(c, "handle")
    /\ UNCHANGED <<receipt, messages, task, req, reply, faults>>

Say(c, role) ==
    messages' = messages \cup
        {[thread |-> receipt[Turn(c)].thread, call |-> c, role |-> role]}

\* handle_chat without a skill: _persist_private_chat_turn, no task.
ChatPlainly(c) ==
    /\ pc[c] = "handle"
    /\ receipt[Turn(c)].thread \in threads
    /\ Say(c, "user")
    /\ Goto(c, "reply")
    /\ UNCHANGED <<receipt, threads, task, req, reply, faults>>

\* _run_skill_invocation: the user message, then the task, RUNNING.
StartSkill(c) ==
    /\ pc[c] = "handle"
    /\ receipt[Turn(c)].thread \in threads
    /\ Say(c, "user")
    /\ task' = [task EXCEPT ![c] = "running"]
    /\ Goto(c, "work")
    /\ UNCHANGED <<receipt, threads, req, reply, faults>>

\* The intent handlers: they leave the task to be completed, or waiting for an
\* external agent, or raise, and then the task is saved FAILED before the re-raise.
SkillWorks(c) ==
    /\ pc[c] = "work"
    /\ Goto(c, "save_task")
    /\ \/ task' = [task EXCEPT ![c] = "waiting"]
       \/ UNCHANGED task
    /\ UNCHANGED <<receipt, threads, messages, req, reply, faults>>

SkillRaises(c) ==
    /\ pc[c] = "work"
    /\ task' = [task EXCEPT ![c] = "failed"]
    /\ Goto(c, "fail")
    /\ UNCHANGED <<receipt, threads, messages, req, reply, faults>>

\* Variant: the status is set on the task and never saved.
SaveTaskForgotten(c) ==
    /\ pc[c] = "save_task"
    /\ Goto(c, "reply")
    /\ UNCHANGED <<receipt, threads, messages, task, req, reply, faults>>

SaveTask(c) ==
    /\ pc[c] = "save_task"
    /\ task' = [task EXCEPT ![c] = IF @ = "waiting" THEN "waiting" ELSE "completed"]
    /\ Goto(c, "reply")
    /\ UNCHANGED <<receipt, threads, messages, req, reply, faults>>

AssistantReplies(c) ==
    /\ pc[c] = "reply"
    /\ Say(c, "assistant")
    /\ Goto(c, "finish")
    /\ UNCHANGED <<receipt, threads, task, req, reply, faults>>

\* Variant: an exception leaves the handler without finishing the receipt.
RaiseUnfinished(c) ==
    /\ pc[c] \in {"thread", "handle", "save_task", "reply"}
    /\ Answer(c, "error", NoCall)
    /\ UNCHANGED <<receipt, threads, messages, task, req, faults>>

\* Whatever else raises inside the try: a thread gone, a refused data query, the
\* synthesis, or storage.  The except clauses finish the receipt as FAILED.
Raise(c) ==
    /\ pc[c] \in {"thread", "handle", "save_task", "reply"}
    /\ Goto(c, "fail")
    /\ UNCHANGED <<receipt, threads, messages, task, req, reply, faults>>

\* finish_chat_turn_receipt: a receipt leaves PROCESSING once.
FinishReceipt(c, status, response) ==
    receipt' = IF receipt[Turn(c)].status = "processing"
               THEN [receipt EXCEPT ![Turn(c)].status = status,
                                    ![Turn(c)].response = response]
               ELSE receipt

\* Variant: the response is returned before the receipt is finished.
ReturnUnfinished(c) ==
    /\ pc[c] = "finish"
    /\ Goto(c, "return")
    /\ UNCHANGED <<receipt, threads, messages, task, req, reply, faults>>

FinishCompleted(c) ==
    /\ pc[c] = "finish"
    /\ FinishReceipt(c, "completed", c)
    /\ Goto(c, "return")
    /\ UNCHANGED <<threads, messages, task, req, reply, faults>>

Return(c) ==
    /\ pc[c] = "return"
    /\ Answer(c, "ok", c)
    /\ UNCHANGED <<receipt, threads, messages, task, req, faults>>

FinishFailed(c) ==
    /\ pc[c] = "fail"
    /\ FinishReceipt(c, "failed", NoCall)
    /\ Answer(c, "error", NoCall)
    /\ UNCHANGED <<threads, messages, task, req, faults>>

\* A storage error outside the try (no receipt is written), while the failed receipt or
\* the FAILED task is written, or after the last message (the except clause takes over).
StorageError(c) ==
    /\ Fault
    /\ \/ pc[c] \in {"lookup", "claim", "fail"} /\ Answer(c, "error", NoCall)
       \/ pc[c] \in {"work", "finish"} /\ Goto(c, "fail") /\ UNCHANGED reply
    /\ UNCHANGED <<receipt, threads, messages, task, req>>

Step(c) == \/ Lookup(c) \/ Claim(c) \/ Rejoin(c) \/ CreateThread(c)
           \/ ChatPlainly(c) \/ StartSkill(c) \/ SkillWorks(c) \/ SkillRaises(c)
           \/ SaveTask(c) \/ AssistantReplies(c) \/ Raise(c)
           \/ FinishCompleted(c) \/ Return(c) \/ FinishFailed(c)

\* The process stops and starts again: the calls in flight are never answered.
Restart ==
    /\ Fault
    /\ \E c \in Calls : pc[c] \notin {"idle", "done", "dead"}
    /\ pc' = [c \in Calls |-> IF pc[c] \in {"idle", "done"} THEN pc[c] ELSE "dead"]
    /\ UNCHANGED <<receipt, threads, messages, task, req, reply>>

Serve == \/ \E c \in Calls : Step(c) \/ StorageError(c)
         \/ Restart

Next == \/ \E c \in Calls, q \in Request : Post(c, q)
        \/ Serve

Spec == Init /\ [][Next]_vars

\* Every handler step ends: the providers have timeouts and SQLite locks are short.
FairSpec == Spec /\ \A c \in Calls : WF_vars(Step(c))

---------------------------------------------------------------------------
(* Properties.                                                             *)

\* A turn is executed by one call: no retry, however it races with the first
\* attempt or with a restart, says anything in the conversation a second time.
AtMostOnceExecution ==
    \A m, n \in messages : Turn(m.call) = Turn(n.call) => m.call = n.call

\* A success is durable and canonical: whoever is answered ok, winner or retry, sent
\* the payload the receipt records and got the response the receipt keeps.
CanonicalAnswer ==
    \A c \in Calls : reply[c].kind = "ok" =>
        /\ receipt[Turn(c)] # NoReceipt
        /\ receipt[Turn(c)].status = "completed"
        /\ receipt[Turn(c)].response = reply[c].value
        /\ receipt[Turn(c)].content = req[c].content
        /\ receipt[Turn(c)].requested = req[c].thread

\* A completed receipt stands for a whole turn: both messages are in the thread it
\* names, the user owns that thread, and no task is left RUNNING behind the answer.
CompletedTurnIsWhole ==
    \A t \in Turns :
        (receipt[t] # NoReceipt /\ receipt[t].status = "completed") =>
            LET r == receipt[t] IN
            /\ r.response \in Calls
            /\ r.thread \in threads
            /\ \A role \in {"user", "assistant"} :
                  [thread |-> r.thread, call |-> r.response, role |-> role] \in messages
            /\ task[r.response] \in {"none", "waiting", "completed"}

\* A receipt that left PROCESSING never changes again, whatever is posted later.
ReceiptIsFinal ==
    [][\A t \in Turns :
          (receipt[t] # NoReceipt /\ receipt[t].status # "processing")
              => receipt'[t] = receipt[t]]_vars

Settled(t) == receipt[t] # NoReceipt /\ receipt[t].status # "processing"

\* Every claimed turn is eventually completed or failed, unless storage failed or the
\* process stopped: then the receipt may stay PROCESSING for good.
ReceiptSettles ==
    \A t \in Turns : (receipt[t] # NoReceipt) ~> (Settled(t) \/ faults > 0)

---------------------------------------------------------------------------
(* The receipt protocol implements TurnOnce.                               *)

Outcome(t) == IF receipt[t] = NoReceipt THEN "absent"
              ELSE CASE receipt[t].status = "processing" -> "running"
                     [] receipt[t].status = "completed"  -> "done"
                     [] receipt[t].status = "failed"     -> "failed"

Canonical(t) == IF Outcome(t) = "done" THEN receipt[t].response ELSE NoCall

Given(t) == {reply[c].value : c \in {d \in Calls : /\ reply[d].kind = "ok"
                                                   /\ Turn(d) = t}}

Promise == INSTANCE TurnOnce WITH
    Values  <- Calls,
    NoValue <- NoCall,
    outcome <- [t \in Turns |-> Outcome(t)],
    value   <- [t \in Turns |-> Canonical(t)],
    given   <- [t \in Turns |-> Given(t)]

\* Seen through its receipts and its successes, the endpoint is TurnOnce.
ImplementsTurnOnce == Promise!Spec
====
