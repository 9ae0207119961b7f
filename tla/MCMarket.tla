---- MODULE MCMarket ----
(* One who helps, and two who need help: a run ends before it met both needs. *)
EXTENDS Market
====
