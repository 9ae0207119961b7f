---- MODULE MCVectorIndex ----
(* Two records, two texts and two writers: a late answer for either text of a record
   that two handlers save, and a backfill that keeps one work of two. *)
EXTENDS VectorIndex
====
