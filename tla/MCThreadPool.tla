---------------------------- MODULE MCThreadPool ----------------------------
(* Two clients race each other; a job may enqueue the next, so three jobs    *)
(* suffice for one running, one queued and one enqueued after stop.          *)
EXTENDS ThreadPool
=============================================================================
