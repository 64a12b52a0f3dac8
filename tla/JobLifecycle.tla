---------------------------- MODULE JobLifecycle ----------------------------
(***************************************************************************)
(* What the job queue promises to its callers, without workers, leases or  *)
(* time (application/src/jobs.rs): a durable unit of work that is executed *)
(* to success at least once, or dead-lettered, and then forgotten.         *)
(***************************************************************************)
CONSTANT Ids

VARIABLES status,    \* where each job is in its life
          executed   \* jobs with at least one successful execution

Init == /\ status = [i \in Ids |-> "absent"]
        /\ executed = {}

Submit(i) == /\ status[i] = "absent"
             /\ status' = [status EXCEPT ![i] = "queued"]
             /\ executed' = executed \ {i}

\* A superseded worker may still be executing a job that is already settled,
\* and the execution of jobs.gc forgets settled jobs.
Execute(i, G) == /\ \A k \in G : status[k] \in {"done", "dead"}
                 /\ status' = [k \in Ids |-> IF k \in G THEN "absent" ELSE status[k]]
                 /\ executed' = executed \cup {i}

Complete(i) == /\ status[i] = "queued" /\ i \in executed
               /\ status' = [status EXCEPT ![i] = "done"]
               /\ UNCHANGED executed

DeadLetter(i) == /\ status[i] = "queued"
                 /\ status' = [status EXCEPT ![i] = "dead"]
                 /\ UNCHANGED executed

Next == \E i \in Ids : \/ Submit(i) \/ Complete(i) \/ DeadLetter(i)
                       \/ \E G \in SUBSET Ids : Execute(i, G)

Spec == Init /\ [][Next]_<<status, executed>>
=============================================================================
