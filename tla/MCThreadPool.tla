---- MODULE MCThreadPool ----
(* One worker, the main thread and a thread that finishes or aborts jobs. *)
EXTENDS ThreadPool
====
