---- MODULE MCResearchDispatch ----
(* One request, the worker, a caller of the dispatch endpoint and two reviewers, so that
   every pair of handlers can overlap on it. *)
EXTENDS ResearchDispatch, TLC

SymReviewers == Permutations(Reviewers)
====
