---- MODULE MCGovernance ----
(* A draft, two texts to edit it to, and two calls at a time: about the Brief, or about
   the memory of a user.  Or one search over three records that match, of which two rows
   are taken and two results are enough.  The three have no variable in common but the
   bounds, and every property speaks of one of them, so that a behaviour of several of
   them shows nothing more. *)
EXTENDS MemoryTiers, Search

governed == <<document, item, memories, call, stored>>

\* The order of the records says nothing: they are sorted, only items come twice, and one
\* record is enough of those that a chat turn has no use for.
Rank(r) == CASE r.kind = "item" -> 1 [] r.kind = "memory" -> 2 [] r.kind = "document" -> 3
             [] OTHER -> 4

ItemRank(r) ==
    (CASE r.scope = "private" -> 0 [] r.scope = "team_candidate" -> 4 [] OTHER -> 8)
    + (IF r.owner = Asker THEN 2 ELSE 0) + (IF r.match = "whole" THEN 1 ELSE 0)

Sorted == \A i, j \in Ids :
              i < j => \/ Rank(records[i]) < Rank(records[j])
                       \/ /\ records[i].kind = "item" /\ records[j].kind = "item"
                          /\ ItemRank(records[i]) <= ItemRank(records[j])

NoSearch == records = [i \in Ids |-> Draft]

MCInit ==
    /\ Init /\ MemoryInit
    /\ \/ SearchInit /\ Sorted
       \/ /\ NoSearch /\ lead = FALSE /\ several = FALSE
          /\ search = NotBegun /\ answer = {} /\ ever = {} /\ always = {} /\ changes = 0

MCNext ==
    \/ NoSearch /\ Next /\ UNCHANGED <<memoryVars, searchVars>>
       /\ tiers = <<<<>>, <<>>, {}, <<>>>> /\ AtWork = {}
    \/ NoSearch /\ MemoryNext /\ UNCHANGED <<governed, searchVars>>
       /\ document.version = 0 /\ InFlight = {}
    \/ ~NoSearch /\ SearchNext /\ UNCHANGED <<vars, memoryVars>>

MCSpec == MCInit /\ [][MCNext]_<<vars, memoryVars, searchVars>>
====
