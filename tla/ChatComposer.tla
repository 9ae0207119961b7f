---- MODULE ChatComposer ----
(***************************************************************************)
(* The message composer of the web client in front of ChatTurn.  A message *)
(* is posted under a turn id; if no answer is heard, the client looks the  *)
(* turn's receipt up and goes by what it says.  The network delays or      *)
(* loses requests and answers, so that a lookup may overtake the post.     *)
(***************************************************************************)
EXTENDS ChatTurn

CONSTANTS NoTurn,  \* every turn id was used (a bound)
          NoText   \* nothing is pending

ASSUME ComposerAssumption == NoTurn \notin Turns

VARIABLES composer,  \* what the page shows: state, text, turn id and open thread
          transit,   \* posts on their way: the call that will serve each of them
          used,      \* turn ids that were drawn
          sent       \* history: what the page took as sent, with its turn

composerVars == <<composer, transit, used, sent>>

States == {"absent", "idle", "sending", "checking", "retryable", "processing", "failed", "unknown"}
Composer == [state : States, content : Contents \cup {NoText}, turn : Turns \cup {NoTurn},
             thread : Threads \cup {NoThread}, call : Calls \cup {NoCall}]

ComposerTypeOK ==
    /\ composer \in Composer
    /\ transit \in SUBSET [call : Calls, request : Request]
    /\ used \in SUBSET Turns
    /\ sent \in SUBSET [turn : Turns, content : Contents]

\* Without this page, ChatTurn is open to whatever clients may post.
ComposerInit ==
    /\ \E state \in {"absent", "idle"}, t \in Turns :
          /\ composer = [state |-> state, content |-> NoText, turn |-> t,
                         thread |-> NoThread, call |-> NoCall]
          /\ used = {t}
    /\ transit = {} /\ sent = {}

Fresh == IF used = Turns THEN {NoTurn} ELSE Turns \ used

\* The page draws an id for the next message.
NextTurn(page) ==
    \E t \in Fresh :
        /\ composer' = [page EXCEPT !.turn = t, !.state = "idle",
                                    !.content = NoText, !.call = NoCall]
        /\ used' = used \cup (Fresh \cap {t} \cap Turns)

\* Calls are names only: the next one is anyone's.
Unserved == {c \in Calls : pc[c] = "idle"} \ {m.call : m \in transit}
NextCall == CHOOSE c \in Unserved : TRUE
MayPost == Unserved # {} /\ composer.turn # NoTurn

---------------------------------------------------------------------------
(* What the user does.                                                     *)

SendText(content) ==
    /\ MayPost
    /\ composer' = [composer EXCEPT !.state = "sending", !.content = content, !.call = NextCall]
    /\ transit' = transit \cup
          {[call |-> NextCall, request |-> [turn |-> composer.turn, content |-> content,
                                            thread |-> composer.thread]]}
    /\ UNCHANGED <<vars, used, sent>>

Send(content) == composer.state = "idle" /\ SendText(content)

\* The same text under the same turn id, in the thread that is open now.
Retry == composer.state \in {"retryable", "processing"} /\ SendText(composer.content)

\* Variant: the turn id belongs to the page.
EditInTurn ==
    /\ composer.state = "retryable"
    /\ composer' = [composer EXCEPT !.state = "idle", !.content = NoText, !.call = NoCall]
    /\ UNCHANGED <<vars, used, transit, sent>>

\* Only a message that the server knows nothing of can be edited, and gets a new id.
Edit ==
    /\ composer.state = "retryable"
    /\ NextTurn(composer)
    /\ UNCHANGED <<vars, transit, sent>>

\* The page is loaded anew; what it waited for is forgotten.
Reload ==
    /\ composer.state \notin {"absent", "idle"} /\ MayPost
    /\ NextTurn(composer)
    /\ UNCHANGED <<vars, transit, sent>>

\* Another thread is opened, or a new one (while a post may follow).
Navigate(thread) ==
    /\ composer.state \notin {"absent", "sending", "checking"} /\ composer.thread # thread /\ MayPost
    /\ composer' = [composer EXCEPT !.thread = thread]
    /\ UNCHANGED <<vars, transit, used, sent>>

---------------------------------------------------------------------------
(* The network, and what the page makes of an answer.                      *)

\* A post that is lost is one that is never delivered.
Deliver(m) ==
    /\ m \in transit
    /\ transit' = transit \ {m}
    /\ Post(m.call, m.request)
    /\ UNCHANGED <<composer, used, sent>>

TakeAsSent ==
    /\ sent' = sent \cup {[turn |-> composer.turn, content |-> composer.content]}
    /\ NextTurn([composer EXCEPT !.thread = receipt[composer.turn].thread])
    /\ UNCHANGED <<vars, transit>>

Hear ==
    /\ composer.state = "sending" /\ reply[composer.call].kind = "ok"
    /\ TakeAsSent

\* An error is answered, or the connection breaks, even while the post is still on its way.
HearNothing ==
    /\ composer.state = "sending"
    /\ composer' = [composer EXCEPT !.state = "checking"]
    /\ UNCHANGED <<vars, transit, used, sent>>

\* The receipt of the turn is looked up; of an unfinished one the page opens the thread.
LookUp ==
    /\ composer.state = "checking"
    /\ LET r == receipt[composer.turn]
           show(state, thread) ==
               /\ composer' = [composer EXCEPT !.state = state, !.thread = thread, !.call = NoCall]
               /\ UNCHANGED <<vars, transit, used, sent>>
       IN  \/ r = NoReceipt /\ show("retryable", composer.thread)
           \/ r # NoReceipt /\ r.status = "completed" /\ TakeAsSent
           \/ r # NoReceipt /\ r.status # "completed" /\ show(r.status, r.thread)
           \/ show("unknown", composer.thread)

ComposerNext ==
    \/ \E content \in Contents : Send(content)
    \/ Retry \/ Edit \/ Reload
    \/ \E thread \in threads \cup {NoThread} : Navigate(thread)
    \/ \E m \in transit : Deliver(m)
    \/ Hear \/ HearNothing \/ LookUp

\* The page and the server; without a page, clients post whatever they like.
ClientNext ==
    \/ composer.state = "absent" /\ UNCHANGED composerVars
       /\ \E c \in Calls, q \in Request : Post(c, q)
    \/ Serve /\ UNCHANGED composerVars
    \/ ComposerNext

ClientSpec == Init /\ ComposerInit /\ [][ClientNext]_<<vars, composerVars>>

---------------------------------------------------------------------------
(* What the page promises.                                                 *)

\* A message that the page shows as sent was executed, as it stands there, and only once:
\* its turn is completed, with this text, and was said by one call, whatever retries,
\* edits, lost answers and lookups that overtook their post went before
\* (queries.ts useSendMessageMutation, Workspace.tsx send).
SentIsExecuted ==
    \A s \in sent :
        /\ receipt[s.turn] # NoReceipt
        /\ receipt[s.turn].status = "completed" /\ receipt[s.turn].content = s.content
        /\ \E c \in Calls : {m.call : m \in {n \in messages : Turn(n.call) = s.turn}} = {c}
====
