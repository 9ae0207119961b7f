---- MODULE TurnOnce ----
(***************************************************************************)
(* What a chat turn promises, whatever the transport does: a turn that a   *)
(* client names is begun at most once, ends completed with one value or    *)
(* failed, and every success handed out for it is that value.              *)
(***************************************************************************)
CONSTANTS Turns, Values, NoValue

VARIABLES outcome,  \* outcome[t]: absent, running, done or failed
          value,    \* value[t]: the canonical answer of a done turn
          given     \* given[t]: the successes handed out so far for t

vars == <<outcome, value, given>>

Outcomes == {"absent", "running", "done", "failed"}

Init == /\ outcome = [t \in Turns |-> "absent"]
        /\ value = [t \in Turns |-> NoValue]
        /\ given = [t \in Turns |-> {}]

Begin(t) == /\ outcome[t] = "absent"
            /\ outcome' = [outcome EXCEPT ![t] = "running"]
            /\ UNCHANGED <<value, given>>

Complete(t, v) == /\ outcome[t] = "running"
                  /\ outcome' = [outcome EXCEPT ![t] = "done"]
                  /\ value' = [value EXCEPT ![t] = v]
                  /\ UNCHANGED given

Fail(t) == /\ outcome[t] = "running"
           /\ outcome' = [outcome EXCEPT ![t] = "failed"]
           /\ UNCHANGED <<value, given>>

Give(t) == /\ outcome[t] = "done"
           /\ given' = [given EXCEPT ![t] = @ \cup {value[t]}]
           /\ UNCHANGED <<outcome, value>>

Next == \E t \in Turns : \/ Begin(t)
                         \/ \E v \in Values : Complete(t, v)
                         \/ Fail(t)
                         \/ Give(t)

Spec == Init /\ [][Next]_vars
====
