----------------------------- MODULE JobService -----------------------------
(* What ThreadPool promises its callers, without workers, queue or locks:  *)
(* a job that was handed over is finished once, waitUntilFinished returns  *)
(* at a moment with nothing outstanding, and the pool is gone only after   *)
(* the last job was finished.                                              *)

CONSTANTS Jobs, Clients

VARIABLES job,      \* job[j]: not yet handed over, outstanding, or finished
          waiting,  \* clients inside waitUntilFinished
          open      \* the pool exists

vars == <<job, waiting, open>>

Outstanding == {j \in Jobs : job[j] = "outstanding"}

Init == /\ job = [j \in Jobs |-> "new"]
        /\ waiting = {}
        /\ open = TRUE

Submit(j) == /\ open
             /\ job[j] = "new"
             /\ job' = [job EXCEPT ![j] = "outstanding"]
             /\ UNCHANGED <<waiting, open>>

Finish(j) == /\ job[j] = "outstanding"
             /\ job' = [job EXCEPT ![j] = "finished"]
             /\ UNCHANGED <<waiting, open>>

BeginWait(c) == /\ open
                /\ c \notin waiting
                /\ waiting' = waiting \cup {c}
                /\ UNCHANGED <<job, open>>

EndWait(c) == /\ c \in waiting
              /\ Outstanding = {}
              /\ waiting' = waiting \ {c}
              /\ UNCHANGED <<job, open>>

Close == /\ open
         /\ Outstanding = {}
         /\ waiting = {}
         /\ open' = FALSE
         /\ UNCHANGED <<job, waiting>>

Next == \/ \E j \in Jobs : Submit(j) \/ Finish(j)
        \/ \E c \in Clients : BeginWait(c) \/ EndWait(c)
        \/ Close

Spec == Init /\ [][Next]_vars
=============================================================================
