---- MODULE MCIngestionPool ----
(* One thread and one place in the queue: three uploads are one more than fit. *)
EXTENDS IngestionPool
====
