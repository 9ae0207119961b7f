---- MODULE Sourcing ----
(***************************************************************************)
(* Where the answer of one chat turn comes from: the model that classifies *)
(* what the user wrote, the providers a skill asks for material (documents,*)
(* research, data), the assessment of what they bring, and the model that  *)
(* writes the answer; and what the trace of the turn says about all this.  *)
(* Providers and models may fail or have nothing, and the user may choose  *)
(* another model meanwhile.                                                *)
(*                                                                         *)
(* What is searched in the memory is in Search, the receipts and the       *)
(* records of the turn in ChatTurn, the rules that a risk review applies   *)
(* are left out.  The provider of the trace is left out, its mode is not.  *)
(***************************************************************************)
EXTENDS Naturals, Sequences, FiniteSets

CONSTANTS Models, NoModel,  \* the models that the environment names
          Backup,           \* AGENTMESH_LLM_FALLBACK_MODEL_ID, or NoModel
          MaxSwitches       \* bound on how often the user chooses another model

ASSUME SourcingAssumption ==
    /\ NoModel \notin Models
    /\ Backup \in Models \cup {NoModel}
    /\ MaxSwitches \in Nat

VARIABLES setup,    \* what is configured
          chosen,   \* the model of the user's agent
          turn,     \* the turn so far, with its _ChatTurnState
          trace,    \* what its trace says in the end
          switches

sourcingVars == <<setup, chosen, turn, trace, switches>>

\* research: the acquisition agents; mockWeb: the web provider is the mock; api: there is a
\* data API; keys: the models with a key.
Setups == [research : SUBSET {"o2", "web"}, mockWeb : BOOLEAN, api : BOOLEAN,
           keys : SUBSET Models]

Acquiring == {"brief", "research", "candidate"}
Intents == {"memory", "data", "risk", "note"} \cup Acquiring

NoClient == [primary |-> NoModel, backup |-> NoModel, actual |-> NoModel, reason |-> "none"]

\* got: who brought material; failed: who raised; barren: who had nothing; reply: what was
\* posted under the request; used: the material in the prompt, the draft or the candidate.
NewTurn == [step |-> "idle", intent |-> "none", client |-> NoClient, ask |-> <<>>,
            got |-> {}, failed |-> {}, barren |-> {}, request |-> FALSE, reply |-> "none",
            gated |-> FALSE, inbox |-> {}, used |-> {}, draft |-> "none", task |-> "none",
            author |-> NoModel]

NoTrace == [llm |-> FALSE, requested |-> NoModel, actual |-> NoModel, reason |-> "none",
            mode |-> "none", why |-> "none"]

SourcingInit ==
    /\ setup \in Setups /\ chosen \in Models
    /\ turn = NewTurn /\ trace = NoTrace /\ switches = 0

---------------------------------------------------------------------------
(* Models.                                                                 *)

\* chat_llm_client: of the model that the agent has now.
ClientNow ==
    IF chosen \notin setup.keys THEN NoClient
    ELSE [primary |-> chosen, actual |-> chosen, reason |-> "none",
          backup |-> IF Backup \in setup.keys \ {chosen} THEN Backup ELSE NoModel]

\* What a model may answer; "crash" is an exception that LLMClient does not expect.
Replies == {"text", "blank", "timeout", "auth_error", "crash"}

FailsOver == {"blank", "timeout"}

\* Variant: what the client says of an earlier call is not reset.
CompleteKeeping(c, replies) ==
    IF c.backup = NoModel \/ replies[c.primary] \notin FailsOver
    THEN [client |-> c, result |-> replies[c.primary], author |-> c.primary]
    ELSE [client |-> [c EXCEPT !.actual = c.backup, !.reason = replies[c.primary]],
          result |-> IF replies[c.backup] \in FailsOver THEN "both" ELSE replies[c.backup],
          author |-> c.backup]

\* LLMClient and FailoverChatLLM complete: the client as the call leaves it, what came of
\* the call, and whose text it is if it is one.
Complete(c, replies) ==
    LET first == replies[c.primary]  second == replies[c.backup]
    IN  IF c.backup = NoModel \/ first \notin FailsOver
        THEN [client |-> [c EXCEPT !.actual = c.primary, !.reason = "none"],
              result |-> first, author |-> c.primary]
        ELSE [client |-> [c EXCEPT !.actual = c.backup, !.reason = first],
              result |-> IF second \in FailsOver THEN "both" ELSE second,
              author |-> c.backup]

AllReplies == [Models -> Replies]

\* The SynthesisResult: of the models, or the local answer and why.
Written(c, replies) ==
    IF c = NoClient
    THEN [NoTrace EXCEPT !.reason = "llm_not_configured"]
    ELSE LET call == Complete(c, replies)
         IN  IF call.result = "text"
             THEN [NoTrace EXCEPT !.llm = TRUE, !.requested = c.primary,
                                  !.actual = call.client.actual, !.reason = call.client.reason]
             ELSE [NoTrace EXCEPT !.requested = c.primary, !.reason = call.result]

AuthorOf(c, replies) ==
    IF c # NoClient /\ Complete(c, replies).result = "text"
    THEN Complete(c, replies).author ELSE NoModel

---------------------------------------------------------------------------
(* Steps of the turn.                                                      *)

Proceed(t) == turn' = t /\ UNCHANGED <<setup, chosen, trace, switches>>

SwitchModel(m) ==
    /\ turn.step \notin {"idle", "done", "raised"}
    /\ switches < MaxSwitches /\ switches' = switches + 1
    /\ chosen' = m
    /\ UNCHANGED <<setup, turn, trace>>

\* A command names its skill.
Command(intent) ==
    /\ turn.step = "idle"
    /\ Proceed([turn EXCEPT !.step = "handle", !.intent = intent, !.task = "running"])

Write ==
    /\ turn.step = "idle"
    /\ Proceed([turn EXCEPT !.step = "classify", !.client = ClientNow])

\* _classify_intent: a model names a skill, or says nothing of use.
Classify ==
    /\ turn.step = "classify"
    /\ \/ Proceed([turn EXCEPT !.step = "chat"]) /\ turn.client = NoClient
       \/ /\ turn.client # NoClient
          /\ \E replies \in AllReplies :
               LET call == Complete(turn.client, replies)
               IN  \/ Proceed([turn EXCEPT !.step = "chat", !.client = call.client])
                   \/ /\ call.result = "text"
                      /\ \E intent \in Intents :
                            Proceed([turn EXCEPT !.step = "handle", !.intent = intent,
                                                 !.client = call.client, !.task = "running"])

PlainTrace(result) ==
    [result EXCEPT !.mode = IF result.reason # "none" THEN "fallback" ELSE "real"]

\* _general_chat_answer, with the client that has classified.
ChatPlainly ==
    /\ turn.step = "chat"
    /\ \E replies \in AllReplies :
          /\ turn' = [turn EXCEPT !.step = "done", !.author = AuthorOf(turn.client, replies)]
          /\ trace' = PlainTrace(Written(turn.client, replies))
    /\ UNCHANGED <<setup, chosen, switches>>

\* The handler raises: the task is FAILED.
Raised(t) == Proceed([t EXCEPT !.step = "raised", !.task = "failed"])

\* Variant: the task of a search without results does not wait.
SearchMemoryOnly ==
    /\ turn.step = "handle" /\ turn.intent = "memory"
    /\ \/ Proceed([turn EXCEPT !.step = "answer", !.got = {"memory_index"}])
       \/ Proceed([turn EXCEPT !.step = "answer", !.request = TRUE])

\* _handle_memory_search: results, or a request on the board that the worker serves.
SearchMemory ==
    /\ turn.step = "handle" /\ turn.intent = "memory"
    /\ \/ Proceed([turn EXCEPT !.step = "answer", !.got = {"memory_index"}])
       \/ Proceed([turn EXCEPT !.step = "answer", !.request = TRUE, !.task = "waiting"])

\* authorize_data_query: of the agent, the tool and the grant.
MayQuery(rights) == rights = {"own_agent", "tool_enabled", "granted"}

\* The connectors that the registry of this agent has, in the order they are tried.
Connectors == IF setup.api THEN <<"api", "local_metrics">> ELSE <<"local_metrics">>

\* _handle_data_query posts the request first.
QueryData ==
    /\ turn.step = "handle" /\ turn.intent = "data"
    /\ LET asking == [turn EXCEPT !.request = TRUE]
       IN  \E rights \in SUBSET {"own_agent", "tool_enabled", "granted"} :
              IF MayQuery(rights)
              THEN Proceed([asking EXCEPT !.step = "ask", !.ask = Connectors])
              ELSE Raised(asking)

\* _handle_acquisition_intent: what asks for a risky tool waits for an approval.
Gate ==
    /\ turn.step = "handle" /\ turn.intent \in Acquiring
    /\ LET asking == [turn EXCEPT !.request = TRUE]
       IN  \/ Proceed([asking EXCEPT !.step = "documents"])
           \/ Proceed([asking EXCEPT !.step = "answer", !.gated = TRUE, !.task = "waiting",
                                     !.inbox = {"tool_call_approval"}])

\* build_acquisition_agent.
Researchers == CASE setup.research = {"o2", "web"} -> <<"o2", "web">>
                 [] setup.research = {"o2"} -> <<"o2">>
                 [] setup.research = {"web"} -> <<"web">>
                 [] OTHER -> <<"mock">>

\* Documents of the user come before everybody else.
LookIntoDocuments ==
    /\ turn.step = "documents"
    /\ \/ Proceed([turn EXCEPT !.step = "assess", !.got = {"documents"}])
       \/ Proceed([turn EXCEPT !.step = "ask", !.ask = Researchers])

ReviewRisk ==
    /\ turn.step = "handle" /\ turn.intent = "risk"
    /\ Proceed([turn EXCEPT !.step = "answer", !.request = TRUE, !.reply = "risk"])

TakeNote ==
    /\ turn.step = "handle" /\ turn.intent = "note"
    /\ Proceed([turn EXCEPT !.step = "answer"])

---------------------------------------------------------------------------
(* Providers.                                                              *)

IsSample(p) == p \in {"mock", "local_metrics"} \/ (p = "web" /\ setup.mockWeb)

\* Material, an exception (also for what cannot be read), or an answer with nothing in it;
\* samples never fail.
ConnectorOutcomes(p) ==
    IF p = "local_metrics" THEN {"material"} ELSE {"material", "failed", "barren"}
AgentOutcomes(p) ==
    IF IsSample(p) THEN {"material"} ELSE {"material", "failed", "barren"}

After(outcome) ==
    LET p == Head(turn.ask)
    IN  CASE outcome = "material" -> [turn EXCEPT !.got = @ \cup {p}, !.ask = Tail(@)]
          [] outcome = "failed"   -> [turn EXCEPT !.failed = @ \cup {p}, !.ask = Tail(@)]
          [] outcome = "barren"   -> [turn EXCEPT !.barren = @ \cup {p}, !.ask = Tail(@)]

\* query_first_available: the first that has records.
AskConnector ==
    /\ turn.step = "ask" /\ turn.ask # <<>> /\ turn.intent = "data" /\ turn.got = {}
    /\ \E outcome \in ConnectorOutcomes(Head(turn.ask)) : Proceed(After(outcome))

\* All researchers are asked.
AskResearcher ==
    /\ turn.step = "ask" /\ turn.ask # <<>> /\ turn.intent # "data"
    /\ \E outcome \in AgentOutcomes(Head(turn.ask)) : Proceed(After(outcome))

Composite == turn.intent # "data" /\ Cardinality(setup.research) > 1

\* CompositeAcquisitionAgent.  A single agent that has nothing says so; one that fails, or several with nothing, raise.
Collect ==
    /\ turn.step = "ask" /\ (turn.ask = <<>> \/ (turn.intent = "data" /\ turn.got # {}))
    /\ IF turn.got = {} /\ (Composite \/ turn.failed # {}) THEN Raised(turn)
       ELSE Proceed([turn EXCEPT !.step = "assess"])

\* Only what is acquired is assessed, and what the program itself says is harmless.
Assess ==
    /\ turn.step = "assess"
    /\ \/ Proceed([turn EXCEPT !.step = "answer", !.reply = "evidence"])
       \/ /\ turn.intent \in Acquiring /\ \E p \in turn.got : ~IsSample(p)
          /\ Proceed([turn EXCEPT !.step = "answer", !.reply = "needs_review",
                                  !.inbox = @ \cup {"prompt_injection_review"}])

\* The metadata of what was brought, and of what a search of the memory says.
Metadata ==
    LET mode == IF Cardinality(turn.got) # 1 \/ \E p \in turn.got : ~IsSample(p)
                THEN "real" ELSE "fallback"
    IN  [mode |-> mode,
         why  |-> IF Composite /\ turn.failed \cup turn.barren # {} THEN "diagnostics"
                  ELSE IF mode = "fallback" THEN "declared" ELSE "none"]

---------------------------------------------------------------------------
(* The answer.                                                             *)

\* _capture_provider_metadata was called.
HasProvider == turn.intent \in {"memory", "data"} \cup Acquiring /\ ~turn.gated

\* _apply_trace_provenance: the provider's word comes before the model's.
Told(result) == IF HasProvider THEN [result EXCEPT !.mode = Metadata.mode, !.why = Metadata.why]
                ELSE PlainTrace(result)

\* synthesis_evidence_post: material in quarantine is none.
Material == IF turn.reply = "needs_review" THEN {} ELSE turn.got

\* A brief is drafted by a model or from its template, also in a turn that is gated.
DraftBrief ==
    /\ turn.step = "answer" /\ turn.intent = "brief" /\ turn.draft = "none"
    /\ \E replies \in AllReplies :
          Proceed([turn EXCEPT !.draft = IF AuthorOf(ClientNow, replies) # NoModel
                                         THEN "llm_regenerated" ELSE "template_fallback",
                               !.inbox = @ \cup {"decision_review"}])

\* The answer is a fixed sentence, and no model is asked for it.
Canned == turn.gated \/ turn.intent = "brief"

Confirmations == IF turn.intent = "risk" THEN {"risk_review"} ELSE {}

Answer ==
    /\ turn.step = "answer" /\ (turn.intent = "brief" => turn.draft # "none")
    /\ \E replies \in AllReplies :
          /\ trace' = Told(IF Canned THEN NoTrace ELSE Written(ClientNow, replies))
          /\ turn' = [turn EXCEPT
                 !.step = "done", !.used = Material, !.inbox = @ \cup Confirmations,
                 !.author = IF Canned THEN NoModel ELSE AuthorOf(ClientNow, replies),
                 !.task = IF @ = "waiting" THEN @ ELSE "completed"]
    /\ UNCHANGED <<setup, chosen, switches>>

SourcingNext ==
    \/ \E m \in Models : SwitchModel(m)
    \/ \E intent \in Intents : Command(intent)
    \/ Write \/ Classify \/ ChatPlainly
    \/ SearchMemory \/ QueryData \/ Gate \/ LookIntoDocuments \/ ReviewRisk \/ TakeNote
    \/ AskConnector \/ AskResearcher \/ Collect \/ Assess \/ DraftBrief \/ Answer

SourcingSpec == SourcingInit /\ [][SourcingNext]_sourcingVars

---------------------------------------------------------------------------
(* Properties.                                                             *)

\* The trace of a finished turn tells the truth about its answer (agents.py handle_chat,
\* _run_skill_invocation, _apply_trace_provenance): the model it names is the one that wrote
\* it, also when the same client fell back to the other one in an earlier call, and a
\* fallback is named with a reason, which a refused key never is.  It says "real" only over
\* material of a real provider; the samples stand in for data only when the data API was
\* asked in vain, and for research only where no provider is configured; and no failure of
\* a provider behind an answer is silent.
TraceIsTrue ==
    turn.step = "done" =>
        /\ trace.llm <=> turn.author # NoModel
        /\ trace.llm => /\ trace.actual = turn.author
                        /\ trace.reason # "none" <=> trace.actual # trace.requested
                        /\ trace.reason # "auth_error"
        /\ trace.mode = "real" /\ turn.got # {} => \E p \in turn.got : ~IsSample(p)
        /\ "local_metrics" \in turn.got /\ setup.api => "api" \in turn.failed \cup turn.barren
        /\ "mock" \in turn.got => setup.research = {}
        /\ turn.failed # {} => trace.why # "none"

\* Nothing is left on the board that nobody looks after, and nothing is used that somebody
\* has yet to look at (agents.py _handle_memory_search, _handle_acquisition_intent): the
\* request of a finished turn has its reply, or its task waits for the worker or for an
\* approval in the inbox; that of a turn that raised belongs to a failed task.  Material in
\* quarantine is in no prompt, draft or candidate, and in the inbox; what is to be confirmed
\* there is written.
RequestIsServed ==
    /\ turn.step = "done" /\ turn.request =>
          \/ turn.reply # "none"
          \/ turn.task = "waiting" /\ (turn.gated => "tool_call_approval" \in turn.inbox)
    /\ turn.step = "raised" => turn.task = "failed"
    /\ turn.reply = "needs_review" => /\ turn.used = {}
                                      /\ "prompt_injection_review" \in turn.inbox
    /\ "decision_review" \in turn.inbox => turn.draft # "none"
====
