---- MODULE ChatTurnProofs ----
(***************************************************************************)
(* For any number of turns, calls, texts and threads, and any number of    *)
(* storage failures and restarts: a turn is executed by one call, every    *)
(* success is canonical, a completed receipt stands for a whole turn, the  *)
(* receipt protocol implements TurnOnce, and what the page shows as sent   *)
(* was executed as it stands there.                                        *)
(***************************************************************************)
EXTENDS ChatComposer, TLAPS

(* The call that inserted the receipt owns the turn until it answers.      *)
Executing == {"thread", "handle", "work", "save_task", "reply", "finish", "fail"}
Owns(c) == pc[c] \in Executing \cup {"return"}
Started(c) == pc[c] # "idle"

\* The receipt of an owned turn records the owner's payload and stays open until
\* the owner itself completes it.
OwnerHoldsReceipt ==
    \A c \in Calls : Owns(c) =>
        /\ receipt[Turn(c)] # NoReceipt
        /\ receipt[Turn(c)].content = req[c].content
        /\ receipt[Turn(c)].requested = req[c].thread
        /\ pc[c] \in Executing => receipt[Turn(c)].status = "processing"
        /\ pc[c] = "return" => /\ receipt[Turn(c)].status = "completed"
                               /\ receipt[Turn(c)].response = c

OneOwner ==
    \A c, d \in Calls : Owns(c) /\ Owns(d) /\ Turn(c) = Turn(d) => c = d

\* Whatever was said for a turn was said by a call that holds or held its receipt,
\* and by the present owner if there is one.
MessagesAreOwned ==
    \A m \in messages :
        /\ Started(m.call)
        /\ receipt[Turn(m.call)] # NoReceipt
        /\ \A c \in Calls : Owns(c) /\ Turn(c) = Turn(m.call) => m.call = c

AnswersEndCalls == \A c \in Calls : reply[c].kind # "none" => pc[c] = "done"

IInv == /\ TypeOK
        /\ OwnerHoldsReceipt
        /\ OneOwner
        /\ MessagesAreOwned
        /\ AnswersEndCalls
        /\ AtMostOnceExecution
        /\ CanonicalAnswer

---------------------------------------------------------------------------
(* The shapes of the steps.                                                *)

\* The step moves the owner c from one executing label to another, and says nothing
\* that is not c's.
Executes(c) ==
    /\ pc[c] \in Executing
    /\ \E l \in Executing : pc' = [pc EXCEPT ![c] = l]
    /\ \E S \in SUBSET {m \in Message : m.call = c} : messages' = messages \cup S
    /\ UNCHANGED <<receipt, req, reply>>

Works(c) == \/ CreateThread(c) \/ ChatPlainly(c) \/ StartSkill(c) \/ SkillWorks(c)
            \/ SkillRaises(c) \/ SaveTask(c) \/ AssistantReplies(c) \/ Raise(c)

\* The initial states satisfy the inductive invariant.
LEMMA InitIInv == Init => IInv
  BY ChatTurnAssumption
  DEF Init, IInv, TypeOK, OwnerHoldsReceipt, OneOwner, MessagesAreOwned,
      AnswersEndCalls, AtMostOnceExecution, CanonicalAnswer, Owns, Executing, Reply,
      Threads

\* A call that started has a well-formed request, and an owner a well-formed receipt.
LEMMA Formed ==
    ASSUME IInv, NEW c \in Calls
    PROVE  /\ Started(c) => req[c] \in Request /\ Turn(c) \in Turns
           /\ Owns(c) => /\ Started(c)
                         /\ receipt[Turn(c)] \in Receipt
                         /\ receipt[Turn(c)].thread \in Threads
<1>1. Started(c) => req[c] \in Request /\ Turn(c) \in Turns
  BY DEF IInv, TypeOK, Started, Turn, Request
<1>2. Owns(c) => Started(c)
  BY DEF Owns, Executing, Started
<1>3. Owns(c) => receipt[Turn(c)] \in Receipt
  BY <1>1, <1>2 DEF IInv, TypeOK, OwnerHoldsReceipt
<1> QED
  BY <1>1, <1>2, <1>3 DEF Receipt

\* The steps between the claim and the finish only execute.
LEMMA WorksExecutes ==
    ASSUME IInv, NEW c \in Calls, Works(c)
    PROVE  Executes(c)
<1>1. Owns(c) /\ pc[c] \in Executing
  BY DEF Works, CreateThread, ChatPlainly, StartSkill, SkillWorks, SkillRaises, SaveTask,
         AssistantReplies, Raise, Owns, Executing
<1>2. \A role \in {"user", "assistant"} :
        [thread |-> receipt[Turn(c)].thread, call |-> c, role |-> role]
            \in {m \in Message : m.call = c}
  BY <1>1, Formed DEF Message
<1>3. CASE CreateThread(c) \/ SkillWorks(c) \/ SkillRaises(c) \/ SaveTask(c) \/ Raise(c)
  <2>1. messages' = messages \cup {}
    BY <1>3 DEF CreateThread, SkillWorks, SkillRaises, SaveTask, Raise
  <2> QED
    BY <1>1, <1>3, <2>1
    DEF Executes, Executing, CreateThread, SkillWorks, SkillRaises, SaveTask, Raise, Goto
<1>4. CASE ChatPlainly(c) \/ StartSkill(c) \/ AssistantReplies(c)
  <2>1. PICK role \in {"user", "assistant"} : Say(c, role)
    BY <1>4 DEF ChatPlainly, StartSkill, AssistantReplies
  <2>2. \E S \in SUBSET {m \in Message : m.call = c} : messages' = messages \cup S
    BY <1>2, <2>1 DEF Say
  <2> QED
    BY <1>1, <1>4, <2>2
    DEF Executes, Executing, ChatPlainly, StartSkill, AssistantReplies, Goto
<1> QED
  BY <1>3, <1>4 DEF Works

\* claim_chat_turn_receipt inserts a well-formed open receipt and touches no other.
LEMMA ClaimShape ==
    ASSUME IInv, NEW c \in Calls, Claim(c)
    PROVE  /\ receipt' \in [Turns -> Receipt \cup {NoReceipt}]
           /\ receipt'[Turn(c)] \in Receipt /\ receipt'[Turn(c)] # NoReceipt
           /\ receipt'[Turn(c)].content = req[c].content
           /\ receipt'[Turn(c)].requested = req[c].thread
           /\ receipt'[Turn(c)].status = "processing"
           /\ receipt'[Turn(c)].response = NoCall
           /\ \A t \in Turns : t # Turn(c) => receipt'[t] = receipt[t]
<1> DEFINE new == [status    |-> "processing",
                   content   |-> req[c].content,
                   requested |-> req[c].thread,
                   thread    |-> IF req[c].thread = NoThread THEN c ELSE req[c].thread,
                   response  |-> NoCall]
<1>1. req[c] \in Request /\ Turn(c) \in Turns
  BY Formed DEF Claim, Started
<1>2. new \in Receipt
  BY <1>1 DEF Receipt, Request, Threads
<1>3. receipt' = [receipt EXCEPT ![Turn(c)] = new]
  BY DEF Claim
<1>4. receipt' \in [Turns -> Receipt \cup {NoReceipt}] /\ receipt'[Turn(c)] = new
  BY <1>1, <1>2, <1>3 DEF IInv, TypeOK
<1>5. \A t \in Turns : t # Turn(c) => receipt'[t] = receipt[t]
  BY <1>1, <1>3 DEF IInv, TypeOK
<1> HIDE DEF new
<1>6. receipt'[Turn(c)] \in Receipt /\ receipt'[Turn(c)] # NoReceipt
  BY <1>2, <1>4, ChatTurnAssumption
<1> QED
  BY <1>4, <1>5, <1>6 DEF new

\* finish_chat_turn_receipt by the owner closes its receipt and touches no other.
LEMMA FinishShape ==
    ASSUME IInv, NEW c \in Calls, pc[c] \in Executing,
           NEW status \in {"completed", "failed"}, NEW response \in Calls \cup {NoCall},
           FinishReceipt(c, status, response)
    PROVE  /\ receipt' \in [Turns -> Receipt \cup {NoReceipt}]
           /\ receipt'[Turn(c)] \in Receipt /\ receipt'[Turn(c)] # NoReceipt
           /\ receipt'[Turn(c)].content = receipt[Turn(c)].content
           /\ receipt'[Turn(c)].requested = receipt[Turn(c)].requested
           /\ receipt'[Turn(c)].thread = receipt[Turn(c)].thread
           /\ receipt'[Turn(c)].status = status
           /\ receipt'[Turn(c)].response = response
           /\ \A t \in Turns : t # Turn(c) => receipt'[t] = receipt[t]
<1> DEFINE old == receipt[Turn(c)]
           new == [old EXCEPT !.status = status, !.response = response]
<1>1. Owns(c)
  BY DEF Owns
<1>2. Turn(c) \in Turns /\ old \in Receipt /\ old.status = "processing"
  BY <1>1, Formed DEF IInv, OwnerHoldsReceipt
<1>3. receipt' = [receipt EXCEPT ![Turn(c)] = new]
  BY <1>2 DEF FinishReceipt, IInv, TypeOK
<1>4. new \in Receipt /\ new.content = old.content /\ new.requested = old.requested
      /\ new.thread = old.thread /\ new.status = status /\ new.response = response
  BY <1>2 DEF Receipt
<1>5. receipt'[Turn(c)] = new /\ receipt' \in [Turns -> Receipt \cup {NoReceipt}]
  BY <1>2, <1>3, <1>4 DEF IInv, TypeOK
<1>6. \A t \in Turns : t # Turn(c) => receipt'[t] = receipt[t]
  BY <1>2, <1>3 DEF IInv, TypeOK
<1> HIDE DEF new, old
<1>7. receipt'[Turn(c)] # NoReceipt
  BY <1>4, <1>5, ChatTurnAssumption
<1> QED
  BY <1>4, <1>5, <1>6, <1>7 DEF old

---------------------------------------------------------------------------
(* One lemma for each conjunct of the invariant, one step for each action. *)

\* Types are preserved; that a thread exists under the receipt of an owner is needed.
LEMMA TypeStep == IInv /\ [Next]_vars => TypeOK'
<1> SUFFICES ASSUME IInv, [Next]_vars PROVE TypeOK'
  OBVIOUS
<1> USE ChatTurnAssumption, Formed DEF IInv, TypeOK, Started, Owns, Executing, Turn, Reply, Request, Receipt, Message
<1>1. ASSUME NEW c \in Calls, NEW q \in Request, Post(c, q) PROVE TypeOK'
  BY <1>1 DEF Post, Goto
<1>2. ASSUME NEW c \in Calls, Lookup(c) PROVE TypeOK'
  BY <1>2 DEF Lookup, Goto, Answer
<1>3. ASSUME NEW c \in Calls, Claim(c) PROVE TypeOK'
  <2>1. /\ pc[c] = "claim" /\ receipt[Turn(c)] = NoReceipt
        /\ pc' \in {[pc EXCEPT ![c] = "thread"], [pc EXCEPT ![c] = "handle"]}
        /\ UNCHANGED <<threads, messages, task, req, reply, faults>>
    BY <1>3 DEF Claim, Goto
  <2>2. Started(c) /\ Turn(c) \in Turns
    BY <2>1, Formed DEF Started
  <2> QED
    BY <1>3, <2>1, <2>2, ClaimShape
<1>4. ASSUME NEW c \in Calls, Rejoin(c) PROVE TypeOK'
  BY <1>4 DEF Rejoin, Goto, Answer
<1>5. ASSUME NEW c \in Calls, Works(c) PROVE TypeOK'
  BY <1>5 DEF Works, CreateThread, ChatPlainly, StartSkill, SkillWorks, SkillRaises,
               SaveTask, AssistantReplies, Raise, Goto, Say
<1>6. ASSUME NEW c \in Calls, FinishCompleted(c) PROVE TypeOK'
  <2>1. pc[c] \in Executing /\ c \in Calls \cup {NoCall}
    BY <1>6 DEF FinishCompleted
  <2>2. FinishReceipt(c, "completed", c)
    BY <1>6 DEF FinishCompleted
  <2> QED
    BY <1>6, <2>1, <2>2, FinishShape DEF FinishCompleted, Goto
<1>7. ASSUME NEW c \in Calls, Return(c) PROVE TypeOK'
  BY <1>7 DEF Return, Goto, Answer
<1>8. ASSUME NEW c \in Calls, FinishFailed(c) PROVE TypeOK'
  <2>1. pc[c] \in Executing /\ NoCall \in Calls \cup {NoCall}
    BY <1>8 DEF FinishFailed
  <2>2. FinishReceipt(c, "failed", NoCall)
    BY <1>8 DEF FinishFailed
  <2> QED
    BY <1>8, <2>1, <2>2, FinishShape DEF FinishFailed, Goto, Answer
<1>9. ASSUME NEW c \in Calls, StorageError(c) PROVE TypeOK'
  BY <1>9 DEF StorageError, Fault, Goto, Answer
<1>10. CASE Restart
  BY <1>10 DEF Restart, Fault
<1>11. CASE UNCHANGED vars
  BY <1>11 DEF vars
<1> QED
  BY <1>1, <1>2, <1>3, <1>4, <1>5, <1>6, <1>7, <1>8, <1>9, <1>10, <1>11
  DEF Next, Serve, Step, Works

\* No step of another call closes or rewrites an owner's receipt.
LEMMA HoldStep == IInv /\ [Next]_vars => OwnerHoldsReceipt'
<1> SUFFICES ASSUME IInv, [Next]_vars PROVE OwnerHoldsReceipt'
  OBVIOUS
<1> USE ChatTurnAssumption, Formed DEF IInv, TypeOK, OwnerHoldsReceipt, OneOwner, Started, Owns, Executing, Turn
<1>1. ASSUME NEW c \in Calls, NEW q \in Request, Post(c, q) PROVE OwnerHoldsReceipt'
  BY <1>1 DEF Post, Goto
<1>2. ASSUME NEW c \in Calls, Lookup(c) PROVE OwnerHoldsReceipt'
  BY <1>2 DEF Lookup, Goto, Answer
<1>3. ASSUME NEW c \in Calls, Claim(c) PROVE OwnerHoldsReceipt'
  <2>1. /\ pc[c] = "claim" /\ receipt[Turn(c)] = NoReceipt
        /\ pc' \in {[pc EXCEPT ![c] = "thread"], [pc EXCEPT ![c] = "handle"]}
        /\ UNCHANGED <<threads, messages, task, req, reply, faults>>
    BY <1>3 DEF Claim, Goto
  <2>2. Started(c) /\ Turn(c) \in Turns
    BY <2>1, Formed DEF Started
  <2> QED
    BY <1>3, <2>1, <2>2, ClaimShape
<1>4. ASSUME NEW c \in Calls, Rejoin(c) PROVE OwnerHoldsReceipt'
  BY <1>4 DEF Rejoin, Goto, Answer
<1>5. ASSUME NEW c \in Calls, Works(c) PROVE OwnerHoldsReceipt'
  BY <1>5, WorksExecutes DEF Executes
<1>6. ASSUME NEW c \in Calls, FinishCompleted(c) PROVE OwnerHoldsReceipt'
  <2>1. pc[c] \in Executing /\ c \in Calls \cup {NoCall}
    BY <1>6 DEF FinishCompleted
  <2>2. FinishReceipt(c, "completed", c)
    BY <1>6 DEF FinishCompleted
  <2> QED
    BY <1>6, <2>1, <2>2, FinishShape DEF FinishCompleted, Goto
<1>7. ASSUME NEW c \in Calls, Return(c) PROVE OwnerHoldsReceipt'
  BY <1>7 DEF Return, Goto, Answer
<1>8. ASSUME NEW c \in Calls, FinishFailed(c) PROVE OwnerHoldsReceipt'
  <2>1. pc[c] \in Executing /\ NoCall \in Calls \cup {NoCall}
    BY <1>8 DEF FinishFailed
  <2>2. FinishReceipt(c, "failed", NoCall)
    BY <1>8 DEF FinishFailed
  <2> QED
    BY <1>8, <2>1, <2>2, FinishShape DEF FinishFailed, Goto, Answer
<1>9. ASSUME NEW c \in Calls, StorageError(c) PROVE OwnerHoldsReceipt'
  BY <1>9 DEF StorageError, Fault, Goto, Answer
<1>10. CASE Restart
  BY <1>10 DEF Restart, Fault
<1>11. CASE UNCHANGED vars
  BY <1>11 DEF vars
<1> QED
  BY <1>1, <1>2, <1>3, <1>4, <1>5, <1>6, <1>7, <1>8, <1>9, <1>10, <1>11
  DEF Next, Serve, Step, Works

\* A second call cannot claim an owned turn.
LEMMA OneOwnerStep == IInv /\ [Next]_vars => OneOwner'
<1> SUFFICES ASSUME IInv, [Next]_vars PROVE OneOwner'
  OBVIOUS
<1> USE ChatTurnAssumption, Formed DEF IInv, TypeOK, OwnerHoldsReceipt, OneOwner, Started, Owns, Executing, Turn
<1>1. ASSUME NEW c \in Calls, NEW q \in Request, Post(c, q) PROVE OneOwner'
  BY <1>1 DEF Post, Goto
<1>2. ASSUME NEW c \in Calls, Lookup(c) PROVE OneOwner'
  BY <1>2 DEF Lookup, Goto, Answer
<1>3. ASSUME NEW c \in Calls, Claim(c) PROVE OneOwner'
  <2>1. /\ pc[c] = "claim" /\ receipt[Turn(c)] = NoReceipt
        /\ pc' \in {[pc EXCEPT ![c] = "thread"], [pc EXCEPT ![c] = "handle"]}
        /\ UNCHANGED <<threads, messages, task, req, reply, faults>>
    BY <1>3 DEF Claim, Goto
  <2>2. Started(c) /\ Turn(c) \in Turns
    BY <2>1, Formed DEF Started
  <2> QED
    BY <1>3, <2>1, <2>2, ClaimShape
<1>4. ASSUME NEW c \in Calls, Rejoin(c) PROVE OneOwner'
  BY <1>4 DEF Rejoin, Goto, Answer
<1>5. ASSUME NEW c \in Calls, Works(c) PROVE OneOwner'
  BY <1>5, WorksExecutes DEF Executes
<1>6. ASSUME NEW c \in Calls, FinishCompleted(c) PROVE OneOwner'
  <2>1. pc[c] \in Executing /\ c \in Calls \cup {NoCall}
    BY <1>6 DEF FinishCompleted
  <2>2. FinishReceipt(c, "completed", c)
    BY <1>6 DEF FinishCompleted
  <2> QED
    BY <1>6, <2>1, <2>2, FinishShape DEF FinishCompleted, Goto
<1>7. ASSUME NEW c \in Calls, Return(c) PROVE OneOwner'
  BY <1>7 DEF Return, Goto, Answer
<1>8. ASSUME NEW c \in Calls, FinishFailed(c) PROVE OneOwner'
  <2>1. pc[c] \in Executing /\ NoCall \in Calls \cup {NoCall}
    BY <1>8 DEF FinishFailed
  <2>2. FinishReceipt(c, "failed", NoCall)
    BY <1>8 DEF FinishFailed
  <2> QED
    BY <1>8, <2>1, <2>2, FinishShape DEF FinishFailed, Goto, Answer
<1>9. ASSUME NEW c \in Calls, StorageError(c) PROVE OneOwner'
  BY <1>9 DEF StorageError, Fault, Goto, Answer
<1>10. CASE Restart
  BY <1>10 DEF Restart, Fault
<1>11. CASE UNCHANGED vars
  BY <1>11 DEF vars
<1> QED
  BY <1>1, <1>2, <1>3, <1>4, <1>5, <1>6, <1>7, <1>8, <1>9, <1>10, <1>11
  DEF Next, Serve, Step, Works

\* Only the owner says something, and nobody becomes owner of a turn already begun.
LEMMA MessagesStep == IInv /\ [Next]_vars => MessagesAreOwned'
<1> SUFFICES ASSUME IInv, [Next]_vars PROVE MessagesAreOwned'
  OBVIOUS
<1> USE ChatTurnAssumption, Formed DEF IInv, TypeOK, OwnerHoldsReceipt, OneOwner, MessagesAreOwned, Started, Owns, Executing, Turn, Message
<1>1. ASSUME NEW c \in Calls, NEW q \in Request, Post(c, q) PROVE MessagesAreOwned'
  BY <1>1 DEF Post, Goto
<1>2. ASSUME NEW c \in Calls, Lookup(c) PROVE MessagesAreOwned'
  BY <1>2 DEF Lookup, Goto, Answer
<1>3. ASSUME NEW c \in Calls, Claim(c) PROVE MessagesAreOwned'
  <2>1. /\ pc[c] = "claim" /\ receipt[Turn(c)] = NoReceipt
        /\ pc' \in {[pc EXCEPT ![c] = "thread"], [pc EXCEPT ![c] = "handle"]}
        /\ UNCHANGED <<threads, messages, task, req, reply, faults>>
    BY <1>3 DEF Claim, Goto
  <2>2. Started(c) /\ Turn(c) \in Turns
    BY <2>1, Formed DEF Started
  <2> QED
    BY <1>3, <2>1, <2>2, ClaimShape
<1>4. ASSUME NEW c \in Calls, Rejoin(c) PROVE MessagesAreOwned'
  BY <1>4 DEF Rejoin, Goto, Answer
<1>5. ASSUME NEW c \in Calls, Works(c) PROVE MessagesAreOwned'
  BY <1>5, WorksExecutes DEF Executes
<1>6. ASSUME NEW c \in Calls, FinishCompleted(c) PROVE MessagesAreOwned'
  <2>1. pc[c] \in Executing /\ c \in Calls \cup {NoCall}
    BY <1>6 DEF FinishCompleted
  <2>2. FinishReceipt(c, "completed", c)
    BY <1>6 DEF FinishCompleted
  <2> QED
    BY <1>6, <2>1, <2>2, FinishShape DEF FinishCompleted, Goto
<1>7. ASSUME NEW c \in Calls, Return(c) PROVE MessagesAreOwned'
  BY <1>7 DEF Return, Goto, Answer
<1>8. ASSUME NEW c \in Calls, FinishFailed(c) PROVE MessagesAreOwned'
  <2>1. pc[c] \in Executing /\ NoCall \in Calls \cup {NoCall}
    BY <1>8 DEF FinishFailed
  <2>2. FinishReceipt(c, "failed", NoCall)
    BY <1>8 DEF FinishFailed
  <2> QED
    BY <1>8, <2>1, <2>2, FinishShape DEF FinishFailed, Goto, Answer
<1>9. ASSUME NEW c \in Calls, StorageError(c) PROVE MessagesAreOwned'
  BY <1>9 DEF StorageError, Fault, Goto, Answer
<1>10. CASE Restart
  BY <1>10 DEF Restart, Fault
<1>11. CASE UNCHANGED vars
  BY <1>11 DEF vars
<1> QED
  BY <1>1, <1>2, <1>3, <1>4, <1>5, <1>6, <1>7, <1>8, <1>9, <1>10, <1>11
  DEF Next, Serve, Step, Works

\* A call is answered once, at its end.
LEMMA AnswersStep == IInv /\ [Next]_vars => AnswersEndCalls'
<1> SUFFICES ASSUME IInv, [Next]_vars PROVE AnswersEndCalls'
  OBVIOUS
<1> USE ChatTurnAssumption, Formed DEF IInv, TypeOK, AnswersEndCalls, Started, Owns, Executing, Turn, Reply
<1>1. ASSUME NEW c \in Calls, NEW q \in Request, Post(c, q) PROVE AnswersEndCalls'
  BY <1>1 DEF Post, Goto
<1>2. ASSUME NEW c \in Calls, Lookup(c) PROVE AnswersEndCalls'
  BY <1>2 DEF Lookup, Goto, Answer
<1>3. ASSUME NEW c \in Calls, Claim(c) PROVE AnswersEndCalls'
  <2>1. /\ pc[c] = "claim" /\ receipt[Turn(c)] = NoReceipt
        /\ pc' \in {[pc EXCEPT ![c] = "thread"], [pc EXCEPT ![c] = "handle"]}
        /\ UNCHANGED <<threads, messages, task, req, reply, faults>>
    BY <1>3 DEF Claim, Goto
  <2>2. Started(c) /\ Turn(c) \in Turns
    BY <2>1, Formed DEF Started
  <2> QED
    BY <1>3, <2>1, <2>2, ClaimShape
<1>4. ASSUME NEW c \in Calls, Rejoin(c) PROVE AnswersEndCalls'
  BY <1>4 DEF Rejoin, Goto, Answer
<1>5. ASSUME NEW c \in Calls, Works(c) PROVE AnswersEndCalls'
  BY <1>5, WorksExecutes DEF Executes
<1>6. ASSUME NEW c \in Calls, FinishCompleted(c) PROVE AnswersEndCalls'
  <2>1. pc[c] \in Executing /\ c \in Calls \cup {NoCall}
    BY <1>6 DEF FinishCompleted
  <2>2. FinishReceipt(c, "completed", c)
    BY <1>6 DEF FinishCompleted
  <2> QED
    BY <1>6, <2>1, <2>2, FinishShape DEF FinishCompleted, Goto
<1>7. ASSUME NEW c \in Calls, Return(c) PROVE AnswersEndCalls'
  BY <1>7 DEF Return, Goto, Answer
<1>8. ASSUME NEW c \in Calls, FinishFailed(c) PROVE AnswersEndCalls'
  <2>1. pc[c] \in Executing /\ NoCall \in Calls \cup {NoCall}
    BY <1>8 DEF FinishFailed
  <2>2. FinishReceipt(c, "failed", NoCall)
    BY <1>8 DEF FinishFailed
  <2> QED
    BY <1>8, <2>1, <2>2, FinishShape DEF FinishFailed, Goto, Answer
<1>9. ASSUME NEW c \in Calls, StorageError(c) PROVE AnswersEndCalls'
  BY <1>9 DEF StorageError, Fault, Goto, Answer
<1>10. CASE Restart
  BY <1>10 DEF Restart, Fault
<1>11. CASE UNCHANGED vars
  BY <1>11 DEF vars
<1> QED
  BY <1>1, <1>2, <1>3, <1>4, <1>5, <1>6, <1>7, <1>8, <1>9, <1>10, <1>11
  DEF Next, Serve, Step, Works

\* All that is said for a turn is said by one call.
LEMMA OnceStep == IInv /\ [Next]_vars => AtMostOnceExecution'
<1> SUFFICES ASSUME IInv, [Next]_vars PROVE AtMostOnceExecution'
  OBVIOUS
<1> USE ChatTurnAssumption, Formed DEF IInv, TypeOK, OwnerHoldsReceipt, MessagesAreOwned, AtMostOnceExecution, Started,
           Owns, Executing, Turn, Message
<1>1. ASSUME NEW c \in Calls, NEW q \in Request, Post(c, q) PROVE AtMostOnceExecution'
  BY <1>1 DEF Post, Goto
<1>2. ASSUME NEW c \in Calls, Lookup(c) PROVE AtMostOnceExecution'
  BY <1>2 DEF Lookup, Goto, Answer
<1>3. ASSUME NEW c \in Calls, Claim(c) PROVE AtMostOnceExecution'
  <2>1. /\ pc[c] = "claim" /\ receipt[Turn(c)] = NoReceipt
        /\ pc' \in {[pc EXCEPT ![c] = "thread"], [pc EXCEPT ![c] = "handle"]}
        /\ UNCHANGED <<threads, messages, task, req, reply, faults>>
    BY <1>3 DEF Claim, Goto
  <2>2. Started(c) /\ Turn(c) \in Turns
    BY <2>1, Formed DEF Started
  <2> QED
    BY <1>3, <2>1, <2>2, ClaimShape
<1>4. ASSUME NEW c \in Calls, Rejoin(c) PROVE AtMostOnceExecution'
  BY <1>4 DEF Rejoin, Goto, Answer
<1>5. ASSUME NEW c \in Calls, Works(c) PROVE AtMostOnceExecution'
  BY <1>5, WorksExecutes DEF Executes
<1>6. ASSUME NEW c \in Calls, FinishCompleted(c) PROVE AtMostOnceExecution'
  <2>1. pc[c] \in Executing /\ c \in Calls \cup {NoCall}
    BY <1>6 DEF FinishCompleted
  <2>2. FinishReceipt(c, "completed", c)
    BY <1>6 DEF FinishCompleted
  <2> QED
    BY <1>6, <2>1, <2>2, FinishShape DEF FinishCompleted, Goto
<1>7. ASSUME NEW c \in Calls, Return(c) PROVE AtMostOnceExecution'
  BY <1>7 DEF Return, Goto, Answer
<1>8. ASSUME NEW c \in Calls, FinishFailed(c) PROVE AtMostOnceExecution'
  <2>1. pc[c] \in Executing /\ NoCall \in Calls \cup {NoCall}
    BY <1>8 DEF FinishFailed
  <2>2. FinishReceipt(c, "failed", NoCall)
    BY <1>8 DEF FinishFailed
  <2> QED
    BY <1>8, <2>1, <2>2, FinishShape DEF FinishFailed, Goto, Answer
<1>9. ASSUME NEW c \in Calls, StorageError(c) PROVE AtMostOnceExecution'
  BY <1>9 DEF StorageError, Fault, Goto, Answer
<1>10. CASE Restart
  BY <1>10 DEF Restart, Fault
<1>11. CASE UNCHANGED vars
  BY <1>11 DEF vars
<1> QED
  BY <1>1, <1>2, <1>3, <1>4, <1>5, <1>6, <1>7, <1>8, <1>9, <1>10, <1>11
  DEF Next, Serve, Step, Works

\* Successes stay canonical: a completed receipt is nobody's to rewrite.
LEMMA CanonicalStep == IInv /\ [Next]_vars => CanonicalAnswer'
<1> SUFFICES ASSUME IInv, [Next]_vars PROVE CanonicalAnswer'
  OBVIOUS
<1> USE ChatTurnAssumption, Formed DEF IInv, TypeOK, OwnerHoldsReceipt, OneOwner, AnswersEndCalls, CanonicalAnswer, Started, Owns,
           Executing, Turn, Reply
<1>1. ASSUME NEW c \in Calls, NEW q \in Request, Post(c, q) PROVE CanonicalAnswer'
  BY <1>1 DEF Post, Goto
<1>2. ASSUME NEW c \in Calls, Lookup(c) PROVE CanonicalAnswer'
  BY <1>2 DEF Lookup, Goto, Answer
<1>3. ASSUME NEW c \in Calls, Claim(c) PROVE CanonicalAnswer'
  <2>1. /\ pc[c] = "claim" /\ receipt[Turn(c)] = NoReceipt
        /\ pc' \in {[pc EXCEPT ![c] = "thread"], [pc EXCEPT ![c] = "handle"]}
        /\ UNCHANGED <<threads, messages, task, req, reply, faults>>
    BY <1>3 DEF Claim, Goto
  <2>2. Started(c) /\ Turn(c) \in Turns
    BY <2>1, Formed DEF Started
  <2> QED
    BY <1>3, <2>1, <2>2, ClaimShape
<1>4. ASSUME NEW c \in Calls, Rejoin(c) PROVE CanonicalAnswer'
  BY <1>4 DEF Rejoin, Goto, Answer
<1>5. ASSUME NEW c \in Calls, Works(c) PROVE CanonicalAnswer'
  BY <1>5, WorksExecutes DEF Executes
<1>6. ASSUME NEW c \in Calls, FinishCompleted(c) PROVE CanonicalAnswer'
  <2>1. pc[c] \in Executing /\ c \in Calls \cup {NoCall}
    BY <1>6 DEF FinishCompleted
  <2>2. FinishReceipt(c, "completed", c)
    BY <1>6 DEF FinishCompleted
  <2> QED
    BY <1>6, <2>1, <2>2, FinishShape DEF FinishCompleted, Goto
<1>7. ASSUME NEW c \in Calls, Return(c) PROVE CanonicalAnswer'
  BY <1>7 DEF Return, Goto, Answer
<1>8. ASSUME NEW c \in Calls, FinishFailed(c) PROVE CanonicalAnswer'
  <2>1. pc[c] \in Executing /\ NoCall \in Calls \cup {NoCall}
    BY <1>8 DEF FinishFailed
  <2>2. FinishReceipt(c, "failed", NoCall)
    BY <1>8 DEF FinishFailed
  <2> QED
    BY <1>8, <2>1, <2>2, FinishShape DEF FinishFailed, Goto, Answer
<1>9. ASSUME NEW c \in Calls, StorageError(c) PROVE CanonicalAnswer'
  BY <1>9 DEF StorageError, Fault, Goto, Answer
<1>10. CASE Restart
  BY <1>10 DEF Restart, Fault
<1>11. CASE UNCHANGED vars
  BY <1>11 DEF vars
<1> QED
  BY <1>1, <1>2, <1>3, <1>4, <1>5, <1>6, <1>7, <1>8, <1>9, <1>10, <1>11
  DEF Next, Serve, Step, Works

\* The inductive invariant holds in every reachable state.
THEOREM Invariance == Spec => []IInv
<1>1. IInv /\ [Next]_vars => IInv'
  BY TypeStep, HoldStep, OneOwnerStep, MessagesStep, AnswersStep, OnceStep, CanonicalStep
  DEF IInv
<1> QED
  BY InitIInv, <1>1, PTL DEF Spec

\* Type correctness of the chat endpoint.
THEOREM TypeCorrect == Spec => []TypeOK
  BY Invariance, PTL DEF IInv

\* A turn is executed by at most one call, for any number of calls racing on it.
THEOREM ExecutedOnce == Spec => []AtMostOnceExecution
  BY Invariance, PTL DEF IInv

\* Every success carries the response the receipt keeps, for the payload it records.
THEOREM Canonicity == Spec => []CanonicalAnswer
  BY Invariance, PTL DEF IInv

---------------------------------------------------------------------------
(* A completed receipt stands for a whole turn.                            *)

Said(c, role) == [thread |-> receipt[Turn(c)].thread, call |-> c, role |-> role]

\* What an owner has stored by the time it reaches a label.
Stored(c) ==
    /\ pc[c] \in {"idle", "lookup", "claim", "thread", "handle"} => task[c] = "none"
    /\ pc[c] \in {"work", "save_task", "reply", "finish"} =>
         Said(c, "user") \in messages /\ receipt[Turn(c)].thread \in threads
    /\ pc[c] \in {"reply", "finish"} => task[c] \in {"none", "waiting", "completed"}
    /\ pc[c] = "finish" => Said(c, "assistant") \in messages

StoredByLabel == \A c \in Calls : Stored(c)

\* The call whose response a receipt keeps is past every step that saves its task.
ResponderIsPast ==
    \A t \in Turns :
        receipt[t] # NoReceipt /\ receipt[t].status = "completed" =>
            pc[receipt[t].response] \in {"return", "done", "dead"}

WholeInv == StoredByLabel /\ ResponderIsPast /\ CompletedTurnIsWhole

\* An owner stores the messages and the task in the order of its labels.
LEMMA StoredStep == IInv /\ WholeInv /\ [Next]_vars => StoredByLabel'
<1> SUFFICES ASSUME IInv, WholeInv, [Next]_vars PROVE StoredByLabel'
  OBVIOUS
<1> USE ChatTurnAssumption, Formed
    DEF IInv, TypeOK, OwnerHoldsReceipt, OneOwner, WholeInv, StoredByLabel, Stored, ResponderIsPast,
        CompletedTurnIsWhole, Started, Owns, Executing, Turn, Said
<1>1. ASSUME NEW c \in Calls, NEW q \in Request, Post(c, q) PROVE StoredByLabel'
  BY <1>1 DEF Post, Goto
<1>2. ASSUME NEW c \in Calls, Lookup(c) PROVE StoredByLabel'
  BY <1>2 DEF Lookup, Goto, Answer
<1>3. ASSUME NEW c \in Calls, Claim(c) PROVE StoredByLabel'
  <2>1. /\ pc[c] = "claim" /\ receipt[Turn(c)] = NoReceipt
        /\ pc' \in {[pc EXCEPT ![c] = "thread"], [pc EXCEPT ![c] = "handle"]}
        /\ UNCHANGED <<threads, messages, task, req, reply, faults>>
    BY <1>3 DEF Claim, Goto
  <2>2. ASSUME NEW d \in Calls, Owns(d) PROVE receipt'[Turn(d)] = receipt[Turn(d)]
    BY <1>3, <2>1, <2>2, ClaimShape
  <2>3. ASSUME NEW d \in Calls PROVE Stored(d)'
    <3>1. Stored(d)
      OBVIOUS
    <3> QED
      BY <2>1, <2>2, <3>1
  <2> QED
    BY <2>3
<1>4. ASSUME NEW c \in Calls, Rejoin(c) PROVE StoredByLabel'
  BY <1>4 DEF Rejoin, Goto, Answer
<1>5. ASSUME NEW c \in Calls,
             CreateThread(c) \/ SkillWorks(c) \/ SkillRaises(c) \/ SaveTask(c) \/ Raise(c)
      PROVE StoredByLabel'
  BY <1>5 DEF CreateThread, SkillWorks, SkillRaises, SaveTask, Raise, Goto
<1>6. ASSUME NEW c \in Calls, ChatPlainly(c) \/ StartSkill(c) \/ AssistantReplies(c)
      PROVE StoredByLabel'
  BY <1>6 DEF ChatPlainly, StartSkill, AssistantReplies, Goto, Say
<1>7. ASSUME NEW c \in Calls, FinishCompleted(c) PROVE StoredByLabel'
  <2>1. pc[c] \in Executing /\ c \in Calls \cup {NoCall}
    BY <1>7 DEF FinishCompleted
  <2>2. FinishReceipt(c, "completed", c)
    BY <1>7 DEF FinishCompleted
  <2>3. ASSUME NEW d \in Calls, Owns(d)
        PROVE  receipt'[Turn(d)].thread = receipt[Turn(d)].thread
    BY <2>1, <2>2, <2>3, FinishShape
  <2>4. ASSUME NEW d \in Calls PROVE Stored(d)'
    <3>1. Stored(d)
      OBVIOUS
    <3> QED
      BY <1>7, <2>1, <2>3, <3>1 DEF FinishCompleted, Goto
  <2> QED
    BY <2>4
<1>8. ASSUME NEW c \in Calls, Return(c) PROVE StoredByLabel'
  BY <1>8 DEF Return, Goto, Answer
<1>9. ASSUME NEW c \in Calls, FinishFailed(c) PROVE StoredByLabel'
  <2>1. pc[c] \in Executing /\ NoCall \in Calls \cup {NoCall}
    BY <1>9 DEF FinishFailed
  <2>2. FinishReceipt(c, "failed", NoCall)
    BY <1>9 DEF FinishFailed
  <2>3. ASSUME NEW d \in Calls, Owns(d)
        PROVE  receipt'[Turn(d)].thread = receipt[Turn(d)].thread
    BY <2>1, <2>2, <2>3, FinishShape
  <2>4. ASSUME NEW d \in Calls PROVE Stored(d)'
    <3>1. Stored(d)
      OBVIOUS
    <3> QED
      BY <1>9, <2>1, <2>3, <3>1 DEF FinishFailed, Goto, Answer
  <2> QED
    BY <2>4
<1>10. ASSUME NEW c \in Calls, StorageError(c) PROVE StoredByLabel'
  BY <1>10 DEF StorageError, Fault, Goto, Answer
<1>11. CASE Restart
  BY <1>11 DEF Restart, Fault
<1>12. CASE UNCHANGED vars
  BY <1>12 DEF vars
<1> QED
  BY <1>1, <1>2, <1>3, <1>4, <1>5, <1>6, <1>7, <1>8, <1>9, <1>10, <1>11, <1>12
  DEF Next, Serve, Step

\* Only the owner at its finish becomes a responder.
LEMMA PastStep == IInv /\ WholeInv /\ [Next]_vars => ResponderIsPast'
<1> SUFFICES ASSUME IInv, WholeInv, [Next]_vars PROVE ResponderIsPast'
  OBVIOUS
<1> USE ChatTurnAssumption, Formed
    DEF IInv, TypeOK, OwnerHoldsReceipt, OneOwner, WholeInv, StoredByLabel, Stored, ResponderIsPast,
        CompletedTurnIsWhole, Started, Owns, Executing, Turn, Said
<1>1. ASSUME NEW c \in Calls, NEW q \in Request, Post(c, q) PROVE ResponderIsPast'
  BY <1>1 DEF Post, Goto
<1>2. ASSUME NEW c \in Calls, Lookup(c) PROVE ResponderIsPast'
  BY <1>2 DEF Lookup, Goto, Answer
<1>3. ASSUME NEW c \in Calls, Claim(c) PROVE ResponderIsPast'
  <2>1. /\ pc[c] = "claim" /\ receipt[Turn(c)] = NoReceipt
        /\ pc' \in {[pc EXCEPT ![c] = "thread"], [pc EXCEPT ![c] = "handle"]}
    BY <1>3 DEF Claim, Goto
  <2>2. SUFFICES ASSUME NEW t \in Turns, receipt'[t] # NoReceipt,
                        receipt'[t].status = "completed"
                 PROVE  pc'[receipt'[t].response] \in {"return", "done", "dead"}
    OBVIOUS
  <2>3. receipt'[t] = receipt[t]
    BY <1>3, <2>2, ClaimShape
  <2>4. /\ receipt[t].response \in Calls
        /\ pc[receipt[t].response] \in {"return", "done", "dead"}
    BY <2>2, <2>3
  <2> QED
    BY <2>1, <2>3, <2>4
<1>4. ASSUME NEW c \in Calls, Rejoin(c) PROVE ResponderIsPast'
  BY <1>4 DEF Rejoin, Goto, Answer
<1>5. ASSUME NEW c \in Calls,
             CreateThread(c) \/ SkillWorks(c) \/ SkillRaises(c) \/ SaveTask(c) \/ Raise(c)
      PROVE ResponderIsPast'
  <2>1. /\ pc[c] \in Executing
        /\ receipt' = receipt
        /\ \E l \in Executing : pc' = [pc EXCEPT ![c] = l]
    BY <1>5, WorksExecutes DEF Executes, Works
  <2> QED
    BY <2>1
<1>6. ASSUME NEW c \in Calls, ChatPlainly(c) \/ StartSkill(c) \/ AssistantReplies(c)
      PROVE ResponderIsPast'
  <2>1. /\ pc[c] \in Executing
        /\ receipt' = receipt
        /\ \E l \in Executing : pc' = [pc EXCEPT ![c] = l]
    BY <1>6, WorksExecutes DEF Executes, Works
  <2> QED
    BY <2>1
<1>7. ASSUME NEW c \in Calls, FinishCompleted(c) PROVE ResponderIsPast'
  <2>1. pc[c] \in Executing /\ c \in Calls \cup {NoCall}
    BY <1>7 DEF FinishCompleted
  <2>2. FinishReceipt(c, "completed", c)
    BY <1>7 DEF FinishCompleted
  <2> QED
    BY <1>7, <2>1, <2>2, FinishShape DEF FinishCompleted, Goto
<1>8. ASSUME NEW c \in Calls, Return(c) PROVE ResponderIsPast'
  BY <1>8 DEF Return, Goto, Answer
<1>9. ASSUME NEW c \in Calls, FinishFailed(c) PROVE ResponderIsPast'
  <2>1. pc[c] \in Executing /\ NoCall \in Calls \cup {NoCall}
    BY <1>9 DEF FinishFailed
  <2>2. FinishReceipt(c, "failed", NoCall)
    BY <1>9 DEF FinishFailed
  <2> QED
    BY <1>9, <2>1, <2>2, FinishShape DEF FinishFailed, Goto, Answer
<1>10. ASSUME NEW c \in Calls, StorageError(c) PROVE ResponderIsPast'
  BY <1>10 DEF StorageError, Fault, Goto, Answer
<1>11. CASE Restart
  BY <1>11 DEF Restart, Fault
<1>12. CASE UNCHANGED vars
  BY <1>12 DEF vars
<1> QED
  BY <1>1, <1>2, <1>3, <1>4, <1>5, <1>6, <1>7, <1>8, <1>9, <1>10, <1>11, <1>12
  DEF Next, Serve, Step

\* The owner has stored everything when it completes the receipt.
LEMMA WholeStep == IInv /\ WholeInv /\ [Next]_vars => CompletedTurnIsWhole'
<1> SUFFICES ASSUME IInv, WholeInv, [Next]_vars PROVE CompletedTurnIsWhole'
  OBVIOUS
<1> USE ChatTurnAssumption, Formed
    DEF IInv, TypeOK, OwnerHoldsReceipt, OneOwner, WholeInv, StoredByLabel, Stored, ResponderIsPast,
        CompletedTurnIsWhole, Started, Owns, Executing, Turn, Said
<1>1. ASSUME NEW c \in Calls, NEW q \in Request, Post(c, q) PROVE CompletedTurnIsWhole'
  BY <1>1 DEF Post, Goto
<1>2. ASSUME NEW c \in Calls, Lookup(c) PROVE CompletedTurnIsWhole'
  BY <1>2 DEF Lookup, Goto, Answer
<1>3. ASSUME NEW c \in Calls, Claim(c) PROVE CompletedTurnIsWhole'
  <2>1. /\ pc[c] = "claim" /\ receipt[Turn(c)] = NoReceipt
        /\ pc' \in {[pc EXCEPT ![c] = "thread"], [pc EXCEPT ![c] = "handle"]}
        /\ UNCHANGED <<threads, messages, task, req, reply, faults>>
    BY <1>3 DEF Claim, Goto
  <2>2. Started(c) /\ Turn(c) \in Turns
    BY <2>1, Formed DEF Started
  <2> QED
    BY <1>3, <2>1, <2>2, ClaimShape
<1>4. ASSUME NEW c \in Calls, Rejoin(c) PROVE CompletedTurnIsWhole'
  BY <1>4 DEF Rejoin, Goto, Answer
<1>5. ASSUME NEW c \in Calls,
             CreateThread(c) \/ SkillWorks(c) \/ SkillRaises(c) \/ SaveTask(c) \/ Raise(c)
      PROVE CompletedTurnIsWhole'
  BY <1>5 DEF CreateThread, SkillWorks, SkillRaises, SaveTask, Raise, Goto
<1>6. ASSUME NEW c \in Calls, ChatPlainly(c) \/ StartSkill(c) \/ AssistantReplies(c)
      PROVE CompletedTurnIsWhole'
  BY <1>6 DEF ChatPlainly, StartSkill, AssistantReplies, Goto, Say
<1>7. ASSUME NEW c \in Calls, FinishCompleted(c) PROVE CompletedTurnIsWhole'
  <2>1. pc[c] \in Executing /\ c \in Calls \cup {NoCall}
    BY <1>7 DEF FinishCompleted
  <2>2. FinishReceipt(c, "completed", c)
    BY <1>7 DEF FinishCompleted
  <2> QED
    BY <1>7, <2>1, <2>2, FinishShape DEF FinishCompleted, Goto
<1>8. ASSUME NEW c \in Calls, Return(c) PROVE CompletedTurnIsWhole'
  BY <1>8 DEF Return, Goto, Answer
<1>9. ASSUME NEW c \in Calls, FinishFailed(c) PROVE CompletedTurnIsWhole'
  <2>1. pc[c] \in Executing /\ NoCall \in Calls \cup {NoCall}
    BY <1>9 DEF FinishFailed
  <2>2. FinishReceipt(c, "failed", NoCall)
    BY <1>9 DEF FinishFailed
  <2> QED
    BY <1>9, <2>1, <2>2, FinishShape DEF FinishFailed, Goto, Answer
<1>10. ASSUME NEW c \in Calls, StorageError(c) PROVE CompletedTurnIsWhole'
  BY <1>10 DEF StorageError, Fault, Goto, Answer
<1>11. CASE Restart
  BY <1>11 DEF Restart, Fault
<1>12. CASE UNCHANGED vars
  BY <1>12 DEF vars
<1> QED
  BY <1>1, <1>2, <1>3, <1>4, <1>5, <1>6, <1>7, <1>8, <1>9, <1>10, <1>11, <1>12
  DEF Next, Serve, Step

\* Its strengthening: what an owner stored by its label, and that the response a receipt
\* keeps belongs to a call past storing, hold in every behaviour.
LEMMA WholeInvariance == Spec => []WholeInv
<1>1. Init => WholeInv
  BY DEF Init, WholeInv, StoredByLabel, Stored, ResponderIsPast, CompletedTurnIsWhole
<1> QED
  BY <1>1, StoredStep, PastStep, WholeStep, Invariance, PTL DEF Spec, WholeInv

\* Behind a completed receipt there are both messages, in a thread of the user, and no
\* task left RUNNING.
THEOREM Wholeness == Spec => []CompletedTurnIsWhole
  BY WholeInvariance, PTL DEF WholeInv

---------------------------------------------------------------------------
(* What a step may do to a receipt, and the refinement.                    *)

\* A receipt is inserted, or an open one is closed, or nothing happens to it.
LEMMA ReceiptStep ==
    ASSUME IInv, [Next]_vars, NEW t \in Turns, receipt[t] # NoReceipt,
           receipt[t].status # "processing"
    PROVE  receipt'[t] = receipt[t]
<1> USE ChatTurnAssumption, Formed
    DEF IInv, TypeOK, OwnerHoldsReceipt, Started, Owns, Executing
<1>1. ASSUME NEW c \in Calls, Claim(c) PROVE receipt'[t] = receipt[t]
  BY <1>1, ClaimShape DEF Claim
<1>2. ASSUME NEW c \in Calls, FinishCompleted(c) \/ FinishFailed(c)
      PROVE receipt'[t] = receipt[t]
  BY <1>2 DEF FinishCompleted, FinishFailed, FinishReceipt
<1>3. ASSUME NEW c \in Calls, Works(c) PROVE receipt'[t] = receipt[t]
  BY <1>3, WorksExecutes DEF Executes
<1>4. ASSUME NEW c \in Calls,
             \/ \E q \in Request : Post(c, q)
             \/ Lookup(c) \/ Rejoin(c) \/ Return(c) \/ StorageError(c)
      PROVE receipt'[t] = receipt[t]
  BY <1>4 DEF Post, Lookup, Rejoin, Return, StorageError
<1>5. CASE Restart
  BY <1>5 DEF Restart
<1>6. CASE UNCHANGED vars
  BY <1>6 DEF vars
<1> QED
  BY <1>1, <1>2, <1>3, <1>4, <1>5, <1>6 DEF Next, Serve, Step, Works

\* A completed or failed receipt never changes again.
THEOREM Finality == Spec => ReceiptIsFinal
<1>1. IInv /\ [Next]_vars =>
        [\A t \in Turns : (receipt[t] # NoReceipt /\ receipt[t].status # "processing")
                              => receipt'[t] = receipt[t]]_vars
  BY ReceiptStep
<1> QED
  BY <1>1, Invariance, PTL DEF Spec, ReceiptIsFinal

\* Every success of a done turn is its canonical value, so handing it out is Give.
LEMMA GivenIsCanonical ==
    ASSUME IInv, NEW c \in Calls, reply[c].kind = "ok"
    PROVE  /\ Turn(c) \in Turns
           /\ Outcome(Turn(c)) = "done"
           /\ reply[c].value = Canonical(Turn(c))
<1>1. Turn(c) \in Turns
  BY Formed DEF IInv, AnswersEndCalls, Started
<1> QED
  BY <1>1 DEF IInv, CanonicalAnswer, Outcome, Canonical

\* No call is answered ok in this step, and those answered before stay as they are.
SameSuccesses ==
    \A c \in Calls : (reply[c].kind = "ok" \/ reply'[c].kind = "ok") =>
        reply'[c] = reply[c] /\ req'[c] = req[c]

\* A step with the same receipts and the same successes is a stutter of TurnOnce.
LEMMA StutterStep ==
    ASSUME receipt' = receipt, SameSuccesses
    PROVE  UNCHANGED Promise!vars
<1>1. \A t \in Turns : Outcome(t)' = Outcome(t) /\ Canonical(t)' = Canonical(t)
  BY DEF Outcome, Canonical
<1>2. \A t \in Turns : Given(t)' = Given(t)
  BY DEF Given, Turn, SameSuccesses
<1> QED
  BY <1>1, <1>2 DEF Promise!vars

\* Inserting or closing the receipt of turn t moves the outcome of t alone.
LEMMA OutcomeStep ==
    ASSUME NEW t \in Turns, SameSuccesses,
           \A u \in Turns : u # t => receipt'[u] = receipt[u]
    PROVE  /\ [u \in Turns |-> Outcome(u)]' =
                  [[u \in Turns |-> Outcome(u)] EXCEPT ![t] = Outcome(t)']
           /\ [u \in Turns |-> Canonical(u)]' =
                  [[u \in Turns |-> Canonical(u)] EXCEPT ![t] = Canonical(t)']
           /\ [u \in Turns |-> Given(u)]' = [u \in Turns |-> Given(u)]
<1>1. ASSUME NEW u \in Turns, u # t
      PROVE  Outcome(u)' = Outcome(u) /\ Canonical(u)' = Canonical(u)
  <2>1. receipt'[u] = receipt[u]
    BY <1>1
  <2>2. Outcome(u)' = Outcome(u)
    BY <2>1 DEF Outcome
  <2> QED
    BY <2>1, <2>2 DEF Canonical
<1>2. \A u \in Turns : Given(u)' = Given(u)
  BY DEF Given, Turn, SameSuccesses
<1>3. [u \in Turns |-> Outcome(u)]' = [[u \in Turns |-> Outcome(u)] EXCEPT ![t] = Outcome(t)']
  BY <1>1
<1>4. [u \in Turns |-> Canonical(u)]' = [[u \in Turns |-> Canonical(u)] EXCEPT ![t] = Canonical(t)']
  BY <1>1
<1> QED
  BY <1>2, <1>3, <1>4

\* Answering a done turn ok is Give.
LEMMA GiveStep ==
    ASSUME IInv, NEW c \in Calls, NEW v \in Calls, NEW t \in Turns, t = Turn(c),
           reply[c].kind = "none", receipt' = receipt, req' = req,
           Outcome(t) = "done", v = Canonical(t),
           reply' = [reply EXCEPT ![c] = [kind |-> "ok", value |-> v]]
    PROVE  Promise!Give(t)
<1>1. \A u \in Turns : Outcome(u)' = Outcome(u) /\ Canonical(u)' = Canonical(u)
  BY DEF Outcome, Canonical
<1>2. \A u \in Turns : u # t => Given(u)' = Given(u)
  BY DEF Given, Turn, IInv, TypeOK
<1>3. Given(t)' = Given(t) \cup {v}
  BY DEF Given, Turn, IInv, TypeOK
<1>4. [u \in Turns |-> Given(u)]' =
        [[u \in Turns |-> Given(u)] EXCEPT ![t] = Given(t) \cup {v}]
  BY <1>2, <1>3
<1>5. /\ [u \in Turns |-> Outcome(u)]' = [u \in Turns |-> Outcome(u)]
      /\ [u \in Turns |-> Canonical(u)]' = [u \in Turns |-> Canonical(u)]
  BY <1>1
<1> QED
  BY <1>4, <1>5 DEF Promise!Give

\* Every step of the endpoint is a step of TurnOnce or leaves it unchanged.
LEMMA RefinementStep == IInv /\ WholeInv /\ [Next]_vars => [Promise!Next]_(Promise!vars)
<1> SUFFICES ASSUME IInv, WholeInv, [Next]_vars PROVE [Promise!Next]_(Promise!vars)
  OBVIOUS
<1> USE ChatTurnAssumption, Formed DEF Started
<1>1. ASSUME NEW c \in Calls, Claim(c) PROVE \E t \in Turns : Promise!Begin(t)
  <2>1. PICK t \in Turns : t = Turn(c) /\ receipt[t] = NoReceipt
    BY <1>1 DEF Claim
  <2>2. SameSuccesses /\ \A u \in Turns : u # t => receipt'[u] = receipt[u]
    BY <1>1, <2>1, ClaimShape DEF Claim, SameSuccesses
  <2>3. receipt'[t] # NoReceipt /\ receipt'[t].status = "processing"
    BY <1>1, <2>1, ClaimShape
  <2>4. /\ Outcome(t) = "absent" /\ Outcome(t)' = "running"
        /\ Canonical(t) = NoCall /\ Canonical(t)' = NoCall
    BY <2>1, <2>3 DEF Outcome, Canonical
  <2>5. [u \in Turns |-> Canonical(u)]' = [u \in Turns |-> Canonical(u)]
    BY <2>2, <2>4, OutcomeStep
  <2> QED
    BY <2>2, <2>4, <2>5, OutcomeStep DEF Promise!Begin
<1>2. ASSUME NEW c \in Calls, FinishCompleted(c)
      PROVE  \E t \in Turns : Promise!Complete(t, c)
  <2>1. /\ pc[c] \in Executing /\ FinishReceipt(c, "completed", c)
        /\ SameSuccesses /\ req' = req
    BY <1>2 DEF FinishCompleted, Executing, SameSuccesses
  <2>2. PICK t \in Turns : /\ t = Turn(c) /\ receipt[t] # NoReceipt
                           /\ receipt[t].status = "processing"
    BY <2>1 DEF Owns, IInv, OwnerHoldsReceipt
  <2>3. /\ \A u \in Turns : u # t => receipt'[u] = receipt[u]
        /\ receipt'[t] # NoReceipt
        /\ receipt'[t].status = "completed" /\ receipt'[t].response = c
    BY <2>1, <2>2, FinishShape
  <2>4. Outcome(t) = "running" /\ Outcome(t)' = "done" /\ Canonical(t)' = c
    BY <2>2, <2>3 DEF Outcome, Canonical
  <2> QED
    BY <2>1, <2>3, <2>4, OutcomeStep DEF Promise!Complete
<1>3. ASSUME NEW c \in Calls, FinishFailed(c)
      PROVE  \E t \in Turns : Promise!Fail(t)
  <2>1. /\ pc[c] \in Executing /\ FinishReceipt(c, "failed", NoCall) /\ req' = req
        /\ reply' = [reply EXCEPT ![c] = [kind |-> "error", value |-> NoCall]]
    BY <1>3 DEF FinishFailed, Executing, Answer
  <2>2. PICK t \in Turns : /\ t = Turn(c) /\ receipt[t] # NoReceipt
                           /\ receipt[t].status = "processing"
    BY <2>1 DEF Owns, IInv, OwnerHoldsReceipt
  <2>3. SameSuccesses
    BY <2>1 DEF SameSuccesses, IInv, TypeOK, AnswersEndCalls, Executing
  <2>4. /\ \A u \in Turns : u # t => receipt'[u] = receipt[u]
        /\ receipt'[t] # NoReceipt /\ receipt'[t].status = "failed"
    BY <2>1, <2>2, FinishShape
  <2>5. /\ Outcome(t) = "running" /\ Outcome(t)' = "failed"
        /\ Canonical(t) = NoCall /\ Canonical(t)' = NoCall
    BY <2>2, <2>4 DEF Outcome, Canonical
  <2>6. [u \in Turns |-> Canonical(u)]' = [u \in Turns |-> Canonical(u)]
    BY <2>3, <2>4, <2>5, OutcomeStep
  <2> QED
    BY <2>3, <2>4, <2>5, <2>6, OutcomeStep DEF Promise!Fail
<1>4. ASSUME NEW c \in Calls, Return(c)
      PROVE  \E t \in Turns : Promise!Give(t)
  <2>1. PICK t \in Turns : /\ t = Turn(c) /\ receipt[t] # NoReceipt
                           /\ receipt[t].status = "completed" /\ receipt[t].response = c
    BY <1>4 DEF Return, Owns, IInv, OwnerHoldsReceipt
  <2>2. Outcome(t) = "done" /\ Canonical(t) = c /\ reply[c].kind = "none"
    BY <1>4, <2>1 DEF Outcome, Canonical, Return, IInv, AnswersEndCalls
  <2> QED
    BY <1>4, <2>1, <2>2, GiveStep DEF Return, Answer
<1>5. ASSUME NEW c \in Calls, Rejoin(c)
      PROVE  (\E t \in Turns : Promise!Give(t)) \/ UNCHANGED Promise!vars
  <2>1. PICK t \in Turns : t = Turn(c) /\ receipt[t] # NoReceipt
    BY <1>5 DEF Rejoin
  <2>2. reply[c].kind = "none" /\ receipt' = receipt /\ req' = req
    BY <1>5 DEF Rejoin, IInv, AnswersEndCalls
  <2>3. CASE receipt[t].status = "completed" /\ Answer(c, "ok", receipt[t].response)
    <3>1. /\ Outcome(t) = "done" /\ Canonical(t) = receipt[t].response
          /\ receipt[t].response \in Calls
      BY <2>1, <2>3 DEF Outcome, Canonical, WholeInv, CompletedTurnIsWhole
    <3> QED
      BY <2>1, <2>2, <2>3, <3>1, GiveStep DEF Answer
  <2>4. CASE Answer(c, "mismatch", NoCall) \/ Answer(c, "not_retryable", NoCall)
    <3>1. SameSuccesses
      BY <2>2, <2>4 DEF SameSuccesses, Answer, IInv, TypeOK
    <3> QED
      BY <2>2, <3>1, StutterStep
  <2> QED
    BY <1>5, <2>1, <2>3, <2>4 DEF Rejoin
<1>6. ASSUME NEW c \in Calls,
             \/ \E q \in Request : Post(c, q)
             \/ Lookup(c) \/ StorageError(c)
      PROVE  UNCHANGED Promise!vars
  <2>1. receipt' = receipt
    BY <1>6 DEF Post, Lookup, StorageError
  <2>2. SameSuccesses
    BY <1>6 DEF Post, Lookup, StorageError, Answer, SameSuccesses, IInv, TypeOK,
                AnswersEndCalls
  <2> QED
    BY <2>1, <2>2, StutterStep
<1>7. ASSUME NEW c \in Calls, Works(c) PROVE UNCHANGED Promise!vars
  BY <1>7, WorksExecutes, StutterStep DEF Executes, SameSuccesses
<1>8. CASE Restart \/ UNCHANGED vars
  BY <1>8, StutterStep DEF Restart, vars, SameSuccesses
<1> QED
  BY <1>1, <1>2, <1>3, <1>4, <1>5, <1>6, <1>7, <1>8
  DEF Next, Serve, Step, Works, Promise!Next

\* The receipt protocol implements TurnOnce: begun once, one canonical value, and no
\* success but that value, whatever calls, storage failures and restarts do.
THEOREM Refinement == Spec => ImplementsTurnOnce
<1>1. Init => Promise!Init
  BY DEF Init, Promise!Init, Outcome, Canonical, Given
<1> QED
  BY <1>1, RefinementStep, Invariance, WholeInvariance, PTL DEF Spec, ImplementsTurnOnce, Promise!Spec

---------------------------------------------------------------------------
(* The page in front of the endpoint.                                      *)

\* What is posted under the id of the message at hand is this message.
Posted(q) ==
    /\ q.turn \in used
    /\ q.turn = composer.turn => composer.state # "idle" /\ q.content = composer.content

Busy == composer.state \notin {"absent", "idle"}

\* The call the page listens to is the one that serves its post.
Heard ==
    composer.state = "sending" =>
        \/ \E m \in transit : m.call = composer.call /\ m.request.turn = composer.turn
        \/ Started(composer.call) /\ Turn(composer.call) = composer.turn

PageFits ==
    /\ composer.state # "absent" => composer.turn \in used \cup {NoTurn}
    /\ Busy => composer.turn \in used /\ composer.content \in Contents
    /\ composer.state = "sending" => composer.call \in Calls
    /\ composer.state = "absent" => transit = {} /\ sent = {}
    /\ composer.state # "absent" =>
          /\ \A m \in transit : pc[m.call] = "idle" /\ Posted(m.request)
          /\ \A c \in Calls : Started(c) => Posted(req[c])
          /\ \A t \in Turns : receipt[t] # NoReceipt =>
                                  Posted([turn |-> t, content |-> receipt[t].content])
    /\ \A m, n \in transit : m.call = n.call => m = n
    /\ Heard

\* The response a completed receipt keeps is that of a call of its turn.
ResponseIsOwn ==
    \A t \in Turns : receipt[t] # NoReceipt /\ receipt[t].status = "completed" =>
                         Turn(receipt[t].response) = t

SentIsCompleted ==
    \A s \in sent : /\ receipt[s.turn] # NoReceipt
                    /\ receipt[s.turn].status = "completed"
                    /\ receipt[s.turn].content = s.content

Served == IInv /\ WholeInv /\ ResponseIsOwn
ComposerInv == Served /\ ComposerTypeOK /\ PageFits /\ SentIsCompleted

\* A step of the server leaves the requests alone, and a receipt it changes is that of a
\* call that has the text it records.
LEMMA ServeKeeps ==
    ASSUME IInv, Serve
    PROVE  /\ req' = req
           /\ \A c \in Calls : pc'[c] = "idle" <=> pc[c] = "idle"
           /\ \A t \in Turns :
                 \/ receipt'[t] = receipt[t]
                 \/ \E c \in Calls :
                       /\ Started(c) /\ Turn(c) = t /\ receipt'[t] # NoReceipt
                       /\ receipt'[t].content = req[c].content
                       /\ receipt'[t].status = "completed" => receipt'[t].response = c
<1>1. ASSUME NEW c \in Calls, Step(c) \/ StorageError(c)
      PROVE  req' = req /\ \A d \in Calls : pc'[d] = "idle" <=> pc[d] = "idle"
  BY <1>1 DEF Step, Lookup, Claim, Rejoin, CreateThread, ChatPlainly, StartSkill, SkillWorks,
              SkillRaises, SaveTask, AssistantReplies, Raise, FinishCompleted, Return,
              FinishFailed, StorageError, Goto, Answer, IInv, TypeOK
<1>2. ASSUME NEW c \in Calls, Claim(c), NEW t \in Turns, receipt'[t] # receipt[t]
      PROVE  /\ Started(c) /\ Turn(c) = t /\ receipt'[t] # NoReceipt
             /\ receipt'[t].content = req[c].content
             /\ receipt'[t].status # "completed"
  BY <1>2, ClaimShape DEF Claim, Started
<1>3. ASSUME NEW c \in Calls, FinishCompleted(c) \/ FinishFailed(c),
             NEW t \in Turns, receipt'[t] # receipt[t]
      PROVE  /\ Started(c) /\ Turn(c) = t /\ receipt'[t] # NoReceipt
             /\ receipt'[t].content = req[c].content
             /\ receipt'[t].status = "completed" => receipt'[t].response = c
  <2>1. Owns(c) /\ pc[c] \in Executing /\ receipt[Turn(c)].content = req[c].content
    BY <1>3 DEF FinishCompleted, FinishFailed, Owns, Executing, IInv, OwnerHoldsReceipt
  <2>2. /\ FinishCompleted(c) => FinishReceipt(c, "completed", c)
        /\ FinishFailed(c) => FinishReceipt(c, "failed", NoCall)
    BY DEF FinishCompleted, FinishFailed
  <2>3. Started(c)
    BY <2>1, Formed
  <2>4. CASE FinishCompleted(c)
    BY <1>3, <2>1, <2>2, <2>3, <2>4, FinishShape
  <2>5. CASE FinishFailed(c)
    BY <1>3, <2>1, <2>2, <2>3, <2>5, FinishShape
  <2> QED
    BY <1>3, <2>4, <2>5
<1>4. ASSUME NEW c \in Calls, Works(c) PROVE receipt' = receipt
  BY <1>4, WorksExecutes DEF Executes
<1>5. ASSUME NEW c \in Calls, Lookup(c) \/ Rejoin(c) \/ Return(c) \/ StorageError(c)
      PROVE receipt' = receipt
  BY <1>5 DEF Lookup, Rejoin, Return, StorageError
<1>6. CASE Restart
  BY <1>6 DEF Restart, Fault
<1>7. ASSUME NEW c \in Calls, Step(c) \/ StorageError(c), NEW t \in Turns
      PROVE  \/ receipt'[t] = receipt[t]
             \/ /\ Started(c) /\ Turn(c) = t /\ receipt'[t] # NoReceipt
                /\ receipt'[t].content = req[c].content
                /\ receipt'[t].status = "completed" => receipt'[t].response = c
  BY <1>2, <1>3, <1>4, <1>5, <1>7 DEF Step, Works
<1> QED
  BY <1>1, <1>6, <1>7 DEF Serve

\* Whatever the server does, its invariants hold, and a completed receipt stays.
LEMMA ServedStep ==
    ASSUME Served, Serve \/ \E c \in Calls, q \in Request : Post(c, q)
    PROVE  /\ Served'
           /\ \A t \in Turns : receipt[t] # NoReceipt /\ receipt[t].status # "processing" =>
                                   receipt'[t] = receipt[t]
<1>1. [Next]_vars
  BY DEF Next
<1>2. IInv' /\ WholeInv'
  <2>1. IInv'
    BY <1>1, TypeStep, HoldStep, OneOwnerStep, MessagesStep, AnswersStep, OnceStep, CanonicalStep
       DEF IInv, Served
  <2> QED
    BY <1>1, <2>1, StoredStep, PastStep, WholeStep DEF Served, WholeInv
<1>3. \A t \in Turns : receipt[t] # NoReceipt /\ receipt[t].status # "processing" =>
                           receipt'[t] = receipt[t]
  BY <1>1, ReceiptStep DEF Served
<1>4. ASSUME NEW t \in Turns, receipt'[t] # NoReceipt, receipt'[t].status = "completed"
      PROVE  Turn(receipt[t].response)' = t
  <2>1. CASE Serve
    <3>1. req' = req
      BY <2>1, ServeKeeps DEF Served
    <3>2. CASE receipt'[t] = receipt[t]
      BY <1>4, <3>1, <3>2 DEF Served, ResponseIsOwn, Turn
    <3>3. CASE receipt'[t] # receipt[t]
      BY <1>4, <2>1, <3>1, <3>3, ServeKeeps DEF Served, Turn
    <3> QED
      BY <3>2, <3>3
  <2>2. ASSUME NEW c \in Calls, NEW q \in Request, Post(c, q)
        PROVE  Turn(receipt[t].response)' = t
    <3>1. pc[c] = "idle" /\ receipt' = receipt /\ req' = [req EXCEPT ![c] = q]
      BY <2>2 DEF Post
    <3>2. receipt[t].response \in Calls \ {c}
      BY <1>4, <3>1 DEF Served, WholeInv, ResponderIsPast, CompletedTurnIsWhole
    <3> QED
      BY <1>4, <3>1, <3>2 DEF Served, ResponseIsOwn, Turn, IInv, TypeOK
  <2> QED
    BY <2>1, <2>2
<1> QED
  BY <1>2, <1>3, <1>4 DEF Served, ResponseIsOwn

LEMMA SentKeeps ==
    ASSUME Served, Served', ComposerTypeOK, SentIsCompleted, sent' = sent,
           \A t \in Turns : receipt[t] # NoReceipt /\ receipt[t].status # "processing" =>
                                receipt'[t] = receipt[t]
    PROVE  SentIsCompleted'
  BY DEF SentIsCompleted, ComposerTypeOK

---------------------------------------------------------------------------
LEMMA ServePageKeeps ==
    ASSUME ComposerInv, Serve, UNCHANGED composerVars
    PROVE  ComposerInv'
<1>1. Served' /\ SentIsCompleted'
  BY ServedStep, SentKeeps DEF ComposerInv, composerVars
<1>2. UNCHANGED <<composer, transit, used, sent, req>> /\ ComposerTypeOK'
  BY ServeKeeps DEF ComposerInv, Served, composerVars, ComposerTypeOK
<1>3. ASSUME NEW c \in Calls PROVE pc'[c] = "idle" <=> pc[c] = "idle"
  BY ServeKeeps DEF ComposerInv, Served
<1>4. ASSUME NEW t \in Turns, composer.state # "absent", receipt'[t] # NoReceipt
      PROVE  Posted([turn |-> t, content |-> receipt[t].content])'
  <2>1. CASE receipt'[t] = receipt[t]
    BY <1>2, <1>4, <2>1 DEF ComposerInv, PageFits, Posted
  <2>2. CASE receipt'[t] # receipt[t]
    <3>1. PICK c \in Calls : Started(c) /\ Turn(c) = t /\ receipt'[t].content = req[c].content
      BY <2>2, ServeKeeps DEF ComposerInv, Served
    <3>2. Posted(req[c])
      BY <1>4, <3>1 DEF ComposerInv, PageFits
    <3> QED
      BY <1>2, <3>1, <3>2 DEF Posted, Turn
  <2> QED
    BY <2>1, <2>2
<1>5. PageFits'
  <2>1. PageFits /\ ComposerTypeOK
    BY DEF ComposerInv
  <2>2. composer.state # "absent" =>
          /\ \A m \in transit : pc'[m.call] = "idle" /\ Posted(m.request)'
          /\ \A c \in Calls : Started(c)' => Posted(req[c])'
    BY <1>2, <1>3, <2>1 DEF PageFits, Posted, Started, ComposerTypeOK
  <2>3. Heard'
    BY <1>2, <1>3, <2>1 DEF PageFits, Heard, Started, Turn
  <2> QED
    BY <1>2, <1>4, <2>1, <2>2, <2>3 DEF PageFits, Busy
<1> QED
  BY <1>1, <1>2, <1>5 DEF ComposerInv

\* Without a page.
LEMMA OpenPostKeeps ==
    ASSUME ComposerInv, NEW c \in Calls, NEW q \in Request, Post(c, q),
           composer.state = "absent", UNCHANGED composerVars
    PROVE  ComposerInv'
<1>1. Served' /\ SentIsCompleted'
  BY ServedStep, SentKeeps DEF ComposerInv, composerVars
<1> QED
  BY <1>1 DEF ComposerInv, composerVars, ComposerTypeOK, PageFits, Busy, Heard

LEMMA DeliverKeeps ==
    ASSUME ComposerInv, NEW m \in transit, Deliver(m)
    PROVE  ComposerInv'
<1>1. /\ ComposerTypeOK /\ PageFits /\ TypeOK /\ m.call \in Calls /\ m.request \in Request
      /\ composer.state # "absent" /\ Posted(m.request)
  BY DEF ComposerInv, Served, IInv, ComposerTypeOK, PageFits
<1>2. /\ Post(m.call, m.request) /\ UNCHANGED <<composer, used, sent, receipt>>
      /\ transit' = transit \ {m}
  BY DEF Deliver, Post
<1>3. Served' /\ SentIsCompleted'
  BY <1>1, <1>2, ServedStep, SentKeeps DEF ComposerInv
<1>4. \A c \in Calls : IF c = m.call
                       THEN Started(c)' /\ req'[c] = m.request
                       ELSE pc'[c] = pc[c] /\ req'[c] = req[c]
  BY <1>1, <1>2 DEF Post, Goto, TypeOK, Started
<1>5. ComposerTypeOK'
  BY <1>1, <1>2 DEF ComposerTypeOK
<1>6. PageFits'
  <2>1. ASSUME NEW n \in transit' PROVE pc'[n.call] = "idle" /\ Posted(n.request)'
    <3>1. n \in transit /\ n.call # m.call /\ n.call \in Calls
      BY <1>1, <1>2, <2>1 DEF PageFits, ComposerTypeOK
    <3> QED
      BY <1>1, <1>2, <1>4, <3>1 DEF PageFits, Posted
  <2>2. ASSUME NEW c \in Calls, Started(c)' PROVE Posted(req[c])'
    BY <1>1, <1>2, <1>4, <2>2 DEF PageFits, Posted, Started
  <2>3. Heard'
    BY <1>1, <1>2, <1>4 DEF PageFits, Heard, Started, Turn
  <2>4. \A t \in Turns : receipt'[t] # NoReceipt =>
                             Posted([turn |-> t, content |-> receipt[t].content])'
    BY <1>1, <1>2 DEF PageFits, Posted
  <2> QED
    BY <1>1, <1>2, <2>1, <2>2, <2>3, <2>4 DEF PageFits, Busy
<1> QED
  BY <1>3, <1>5, <1>6 DEF ComposerInv

---------------------------------------------------------------------------
\* The page draws a new turn id: nothing was posted under it.
LEMMA NextTurnKeeps ==
    ASSUME ComposerInv, UNCHANGED <<vars, transit>>, composer.state # "absent",
           NEW page \in Composer, NextTurn(page), ComposerTypeOK', SentIsCompleted'
    PROVE  ComposerInv'
<1>1. /\ ComposerTypeOK /\ PageFits /\ Served /\ Served'
      /\ UNCHANGED <<receipt, pc, req, transit>>
  BY DEF ComposerInv, Served, IInv, TypeOK, OwnerHoldsReceipt, OneOwner, MessagesAreOwned,
         AnswersEndCalls, AtMostOnceExecution, CanonicalAnswer, WholeInv, StoredByLabel, Stored,
         ResponderIsPast, CompletedTurnIsWhole, ResponseIsOwn, Owns, Started, Turn, Said, vars
<1>2. PICK t \in Fresh : /\ composer' = [page EXCEPT !.turn = t, !.state = "idle",
                                                     !.content = NoText, !.call = NoCall]
                         /\ used' = used \cup (Fresh \cap {t} \cap Turns)
  BY DEF NextTurn
<1>3. composer'.turn = t /\ composer'.state = "idle" /\ t \notin used
  BY <1>1, <1>2, ComposerAssumption DEF Composer, Fresh, ComposerTypeOK
<1>4. \A q : Posted(q) => Posted(q)'
  BY <1>2, <1>3 DEF Posted
<1>5. t \in used' \cup {NoTurn}
  BY <1>2 DEF Fresh
<1>6. PageFits'
  BY <1>1, <1>3, <1>4, <1>5 DEF PageFits, Busy, Heard, Started
<1> QED
  BY <1>1, <1>6 DEF ComposerInv

\* The page changes what it shows of the message at hand.
LEMMA ShowKeeps ==
    ASSUME ComposerInv, UNCHANGED <<vars, transit, used, sent>>, composer.state # "absent",
           composer'.turn = composer.turn, composer'.content = composer.content,
           composer'.state # "absent", composer.state = "idle" <=> composer'.state = "idle",
           ComposerTypeOK', composer'.call \in {composer.call, NoCall}, Heard',
           composer'.state = "sending" => composer'.call \in Calls
    PROVE  ComposerInv'
<1>1. /\ ComposerTypeOK /\ PageFits /\ Served /\ Served' /\ SentIsCompleted'
      /\ UNCHANGED <<receipt, pc, req, transit, used, sent>>
  BY DEF ComposerInv, SentIsCompleted, Served, IInv, TypeOK, OwnerHoldsReceipt, OneOwner,
         MessagesAreOwned, AnswersEndCalls, AtMostOnceExecution, CanonicalAnswer, WholeInv,
         StoredByLabel, Stored, ResponderIsPast, CompletedTurnIsWhole, ResponseIsOwn, Owns,
         Started, Turn, Said, vars
<1>2. \A q : Posted(q) => Posted(q)'
  BY <1>1 DEF Posted
<1>3. PageFits'
  BY <1>1, <1>2 DEF PageFits, Busy, Started
<1> QED
  BY <1>1, <1>3 DEF ComposerInv

LEMMA SendTextKeeps ==
    ASSUME ComposerInv, NEW content \in Contents, SendText(content),
           composer.state # "absent", composer.state # "idle" => content = composer.content
    PROVE  ComposerInv'
<1>1. /\ ComposerTypeOK /\ PageFits /\ Served /\ Served' /\ SentIsCompleted' /\ TypeOK
      /\ UNCHANGED <<receipt, pc, req, used, sent>>
  BY DEF SendText, ComposerInv, SentIsCompleted, Served, IInv, TypeOK, OwnerHoldsReceipt,
     OneOwner,
         MessagesAreOwned, AnswersEndCalls, AtMostOnceExecution, CanonicalAnswer, WholeInv,
         StoredByLabel, Stored, ResponderIsPast, CompletedTurnIsWhole, ResponseIsOwn, Owns,
         Started, Turn, Said, vars
<1>2. PICK c \in Calls :
         /\ pc[c] = "idle" /\ \A m \in transit : m.call # c
         /\ composer' = [composer EXCEPT !.state = "sending", !.content = content, !.call = c]
         /\ transit' = transit \cup
               {[call |-> c, request |-> [turn |-> composer.turn, content |-> content,
                                          thread |-> composer.thread]]}
  <2>1. NextCall \in Unserved
    BY DEF SendText, MayPost, NextCall
  <2> QED
    BY <2>1 DEF SendText, Unserved
<1>3. composer.turn \in Turns /\ composer \in Composer
  BY <1>1 DEF SendText, MayPost, ComposerTypeOK, Composer
<1>4. /\ composer' \in Composer /\ composer'.turn = composer.turn
      /\ composer'.content = content /\ composer'.state = "sending" /\ composer'.call = c
  BY <1>2, <1>3 DEF Composer, States
<1>5. [turn |-> composer.turn, content |-> content, thread |-> composer.thread] \in Request
  BY <1>3 DEF Composer, Request
<1>6. ComposerTypeOK'
  BY <1>1, <1>2, <1>4, <1>5 DEF ComposerTypeOK
<1>7. PageFits'
  <2>1. ASSUME NEW q, Posted(q) PROVE Posted(q)'
    BY <1>1, <1>4, <2>1 DEF Posted
  <2>2. composer.turn \in used
    BY <1>1, <1>3, ComposerAssumption DEF PageFits
  <2>3. Posted([turn |-> composer.turn, content |-> content, thread |-> composer.thread])'
    BY <1>1, <1>4, <2>2 DEF Posted
  <2>4. Heard'
    <3> DEFINE post == [call |-> c, request |-> [turn |-> composer.turn, content |-> content,
                                                 thread |-> composer.thread]]
    <3>1. post \in transit' /\ post.call = c /\ post.request.turn = composer.turn
      BY <1>2
    <3> QED
      BY <1>4, <3>1 DEF Heard
  <2> QED
    BY <1>1, <1>2, <1>4, <2>1, <2>2, <2>3, <2>4 DEF PageFits, Busy, Started
<1> QED
  BY <1>1, <1>6, <1>7 DEF ComposerInv

\* What NextTurn leaves of the page.
LEMMA NextTurnType ==
    ASSUME ComposerTypeOK, NEW page \in Composer, NextTurn(page), transit' = transit,
           sent' \in SUBSET [turn : Turns, content : Contents]
    PROVE  ComposerTypeOK'
<1>1. PICK t \in Fresh : /\ composer' = [page EXCEPT !.turn = t, !.state = "idle",
                                                     !.content = NoText, !.call = NoCall]
                         /\ used' = used \cup (Fresh \cap {t} \cap Turns)
  BY DEF NextTurn
<1>2. t \in Turns \cup {NoTurn}
  BY DEF Fresh
<1>3. composer' \in Composer
  BY <1>1, <1>2 DEF Composer, States
<1> QED
  BY <1>1, <1>3 DEF ComposerTypeOK

LEMMA DropKeeps ==
    ASSUME ComposerInv, Edit \/ Reload
    PROVE  ComposerInv'
<1>1. /\ ComposerTypeOK /\ composer \in Composer /\ NextTurn(composer) /\ SentIsCompleted
      /\ composer.state # "absent" /\ UNCHANGED <<vars, transit, sent>>
  BY DEF ComposerInv, ComposerTypeOK, Edit, Reload
<1>2. ComposerTypeOK' /\ SentIsCompleted'
  BY <1>1, NextTurnType DEF ComposerTypeOK, SentIsCompleted, vars
<1> QED
  BY <1>1, <1>2, NextTurnKeeps

LEMMA TakeAsSentKeeps ==
    ASSUME ComposerInv, Busy, TakeAsSent, receipt[composer.turn] # NoReceipt,
           receipt[composer.turn].status = "completed"
    PROVE  ComposerInv'
<1>1. /\ ComposerTypeOK /\ composer \in Composer /\ PageFits /\ SentIsCompleted
      /\ composer.state # "absent" /\ composer.turn \in Turns /\ composer.content \in Contents
  BY DEF ComposerInv, ComposerTypeOK, Busy, PageFits
<1>2. receipt[composer.turn].content = composer.content
  <2>1. Posted([turn |-> composer.turn, content |-> receipt[composer.turn].content])
    BY <1>1 DEF PageFits
  <2> QED
    BY <2>1 DEF Posted
<1>3. receipt[composer.turn].thread \in Threads
  BY <1>1 DEF ComposerInv, Served, IInv, TypeOK, Receipt
<1> DEFINE page == [composer EXCEPT !.thread = receipt[composer.turn].thread]
<1>4. page \in Composer /\ NextTurn(page)
  BY <1>1, <1>3 DEF TakeAsSent, Composer
<1>5. /\ sent' = sent \cup {[turn |-> composer.turn, content |-> composer.content]}
      /\ UNCHANGED <<vars, transit>>
  BY DEF TakeAsSent
<1>6. sent' \in SUBSET [turn : Turns, content : Contents]
  BY <1>1, <1>5 DEF ComposerTypeOK
<1>7. SentIsCompleted'
  BY <1>1, <1>2, <1>5 DEF SentIsCompleted, vars
<1> HIDE DEF page
<1>8. ComposerTypeOK'
  BY <1>1, <1>4, <1>5, <1>6, NextTurnType
<1> QED
  BY <1>1, <1>4, <1>5, <1>7, <1>8, NextTurnKeeps

LEMMA HearKeeps ==
    ASSUME ComposerInv, Hear
    PROVE  ComposerInv'
<1>1. /\ PageFits /\ composer.state = "sending" /\ reply[composer.call].kind = "ok"
      /\ composer.call \in Calls /\ Busy /\ TakeAsSent /\ IInv
  BY DEF ComposerInv, Served, PageFits, Hear, Busy
<1>2. pc[composer.call] = "done"
  BY <1>1 DEF IInv, AnswersEndCalls
<1>3. Turn(composer.call) = composer.turn
  BY <1>1, <1>2 DEF PageFits, Heard, Busy
<1>4. receipt[composer.turn] # NoReceipt /\ receipt[composer.turn].status = "completed"
  BY <1>1, <1>3 DEF IInv, CanonicalAnswer
<1> QED
  BY <1>1, <1>4, TakeAsSentKeeps

LEMMA LookUpKeeps ==
    ASSUME ComposerInv, LookUp
    PROVE  ComposerInv'
<1>1. /\ ComposerTypeOK /\ PageFits /\ TypeOK /\ composer \in Composer
      /\ composer.state = "checking" /\ Busy /\ composer.turn \in Turns
  BY DEF ComposerInv, Served, IInv, ComposerTypeOK, PageFits, Busy, LookUp
<1>2. CASE /\ receipt[composer.turn] # NoReceipt /\ receipt[composer.turn].status = "completed"
           /\ TakeAsSent
  BY <1>1, <1>2, TakeAsSentKeeps
<1>3. ASSUME NEW state \in {"retryable", "processing", "failed", "unknown"},
             NEW thread \in Threads \cup {NoThread},
             composer' = [composer EXCEPT !.state = state, !.thread = thread, !.call = NoCall],
             UNCHANGED <<vars, transit, used, sent>>
      PROVE  ComposerInv'
  <2>1. /\ composer' \in Composer /\ composer'.turn = composer.turn
        /\ composer'.content = composer.content /\ composer'.state = state
        /\ composer'.call = NoCall
    BY <1>1, <1>3 DEF Composer, States
  <2>2. ComposerTypeOK' /\ Heard'
    BY <1>1, <1>3, <2>1 DEF ComposerTypeOK, Heard
  <2> QED
    BY <1>1, <1>3, <2>1, <2>2, ShowKeeps
<1>4. composer.thread \in Threads \cup {NoThread}
  BY <1>1 DEF Composer
<1>5. receipt[composer.turn] # NoReceipt =>
         /\ receipt[composer.turn].thread \in Threads
         /\ receipt[composer.turn].status \in {"processing", "completed", "failed"}
  BY <1>1 DEF TypeOK, Receipt
<1> QED
  BY <1>2, <1>3, <1>4, <1>5 DEF LookUp

LEMMA PageKeeps ==
    ASSUME ComposerInv,
           (\E thread \in threads \cup {NoThread} : Navigate(thread)) \/ HearNothing
    PROVE  ComposerInv'
<1>1. ComposerTypeOK /\ PageFits /\ TypeOK /\ composer \in Composer
  BY DEF ComposerInv, Served, IInv, ComposerTypeOK
<1>2. CASE HearNothing
  <2>1. /\ composer' = [composer EXCEPT !.state = "checking"] /\ composer.state = "sending"
        /\ UNCHANGED <<vars, transit, used, sent>>
    BY <1>2 DEF HearNothing
  <2>2. /\ composer' \in Composer /\ composer'.turn = composer.turn
        /\ composer'.content = composer.content /\ composer'.state = "checking"
        /\ composer'.call = composer.call
    BY <1>1, <2>1 DEF Composer, States
  <2>3. ComposerTypeOK' /\ Heard'
    BY <1>1, <2>1, <2>2 DEF ComposerTypeOK, Heard
  <2> QED
    BY <2>1, <2>2, <2>3, ShowKeeps
<1>3. ASSUME NEW thread \in threads \cup {NoThread}, Navigate(thread) PROVE ComposerInv'
  <2>1. /\ composer' = [composer EXCEPT !.thread = thread]
        /\ composer.state \notin {"absent", "sending", "checking"}
        /\ UNCHANGED <<vars, transit, used, sent>> /\ thread \in Threads \cup {NoThread}
    BY <1>1, <1>3 DEF Navigate, TypeOK
  <2>2. /\ composer' \in Composer /\ composer'.turn = composer.turn
        /\ composer'.content = composer.content /\ composer'.state = composer.state
        /\ composer'.call = composer.call
    BY <1>1, <2>1 DEF Composer
  <2>3. ComposerTypeOK' /\ Heard'
    BY <1>1, <2>1, <2>2 DEF ComposerTypeOK, Heard
  <2> QED
    BY <2>1, <2>2, <2>3, ShowKeeps
<1> QED
  BY <1>2, <1>3

LEMMA ComposerStutterKeeps ==
    ASSUME ComposerInv, UNCHANGED <<vars, composerVars>>
    PROVE  ComposerInv'
<1>1. Served'
  BY DEF ComposerInv, Served, IInv, TypeOK, OwnerHoldsReceipt, OneOwner, MessagesAreOwned,
         AnswersEndCalls, AtMostOnceExecution, CanonicalAnswer, WholeInv, StoredByLabel, Stored,
         ResponderIsPast, CompletedTurnIsWhole, ResponseIsOwn, Owns, Started, Turn, Said, vars
<1>2. UNCHANGED <<receipt, pc, req, composer, transit, used, sent>>
  BY DEF vars, composerVars
<1>3. PageFits'
  BY <1>2 DEF ComposerInv, PageFits, Busy, Posted, Heard, Started, Turn
<1> QED
  BY <1>1, <1>2, <1>3 DEF ComposerInv, ComposerTypeOK, SentIsCompleted

LEMMA ClientInvariance == ClientSpec => []ComposerInv
<1>1. Init /\ ComposerInit => ComposerInv
  <2> SUFFICES ASSUME Init, ComposerInit PROVE ComposerInv
    OBVIOUS
  <2>1. Served
    BY InitIInv DEF Served, Init, WholeInv, StoredByLabel, Stored, ResponderIsPast,
                    CompletedTurnIsWhole, ResponseIsOwn
  <2>2. PICK state \in {"absent", "idle"}, t \in Turns :
           /\ composer = [state |-> state, content |-> NoText, turn |-> t,
                          thread |-> NoThread, call |-> NoCall]
           /\ used = {t} /\ transit = {} /\ sent = {}
    BY DEF ComposerInit
  <2>3. ComposerTypeOK /\ SentIsCompleted
    BY <2>2 DEF ComposerTypeOK, SentIsCompleted, Composer, States
  <2>4. (\A c \in Calls : ~Started(c)) /\ \A u \in Turns : receipt[u] = NoReceipt
    BY DEF Init, Started
  <2>5. PageFits
    BY <2>2, <2>4 DEF PageFits, Busy, Heard
  <2> QED
    BY <2>1, <2>3, <2>5 DEF ComposerInv
<1>2. ComposerInv /\ [ClientNext]_<<vars, composerVars>> => ComposerInv'
  <2> SUFFICES ASSUME ComposerInv, [ClientNext]_<<vars, composerVars>> PROVE ComposerInv'
    OBVIOUS
  <2>1. CASE Serve /\ UNCHANGED composerVars
    BY <2>1, ServePageKeeps
  <2>2. CASE /\ composer.state = "absent" /\ UNCHANGED composerVars
             /\ \E c \in Calls, q \in Request : Post(c, q)
    BY <2>2, OpenPostKeeps
  <2>3. ASSUME NEW content \in Contents, Send(content) PROVE ComposerInv'
    BY <2>3, SendTextKeeps DEF Send
  <2>4. CASE Retry
    <3>1. composer.content \in Contents /\ composer.state # "absent" /\ SendText(composer.content)
      BY <2>4 DEF Retry, ComposerInv, PageFits, Busy
    <3> QED
      BY <3>1, SendTextKeeps
  <2>5. CASE Edit \/ Reload
    BY <2>5, DropKeeps
  <2>6. CASE (\E thread \in threads \cup {NoThread} : Navigate(thread)) \/ HearNothing
    BY <2>6, PageKeeps
  <2>7. CASE \E m \in transit : Deliver(m)
    BY <2>7, DeliverKeeps
  <2>8. CASE Hear \/ LookUp
    BY <2>8, HearKeeps, LookUpKeeps
  <2>9. CASE UNCHANGED <<vars, composerVars>>
    BY <2>9, ComposerStutterKeeps
  <2> QED
    BY <2>1, <2>2, <2>3, <2>4, <2>5, <2>6, <2>7, <2>8, <2>9 DEF ClientNext, ComposerNext
<1> QED
  BY <1>1, <1>2, PTL DEF ClientSpec

\* What the page shows as sent was executed as it stands there, once, for any number of
\* calls, turns, texts and threads, of lost answers, lookups, edits and restarts.
THEOREM SentExecuted == ClientSpec => []SentIsExecuted
<1>1. ComposerInv => SentIsExecuted
  <2> SUFFICES ASSUME ComposerInv, NEW s \in sent
               PROVE  /\ receipt[s.turn] # NoReceipt
                      /\ receipt[s.turn].status = "completed"
                      /\ receipt[s.turn].content = s.content
                      /\ \E c \in Calls :
                            {m.call : m \in {n \in messages : Turn(n.call) = s.turn}} = {c}
    BY DEF SentIsExecuted
  <2>1. /\ receipt[s.turn] # NoReceipt /\ receipt[s.turn].status = "completed"
        /\ receipt[s.turn].content = s.content /\ s.turn \in Turns
    BY DEF ComposerInv, SentIsCompleted, ComposerTypeOK
  <2>2. PICK c \in Calls : /\ Turn(c) = s.turn
                           /\ [thread |-> receipt[s.turn].thread, call |-> c, role |-> "user"]
                                 \in messages
    BY <2>1 DEF ComposerInv, Served, WholeInv, CompletedTurnIsWhole, ResponseIsOwn
  <2>3. \A n \in messages : Turn(n.call) = s.turn => n.call = c
    BY <2>2 DEF ComposerInv, Served, IInv, AtMostOnceExecution
  <2> QED
    BY <2>1, <2>2, <2>3
<1> QED
  BY <1>1, ClientInvariance, PTL
====
