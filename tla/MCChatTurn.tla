---- MODULE MCChatTurn ----
(* Two turns, two texts and two racing calls: enough for a retry, a different payload
   under the same turn, and a call of another turn in the same thread.  Either the page
   posts them, or whoever posts what they like. *)
EXTENDS ChatComposer

MCInit ==
    /\ Init /\ ComposerInit
    /\ used = {CHOOSE t \in Turns : TRUE}

MCSpec ==
    /\ MCInit /\ [][ClientNext]_<<vars, composerVars>>
    /\ \A c \in Calls : WF_vars(Step(c))
====
