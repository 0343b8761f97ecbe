---------------------------- MODULE JobLifecycle ----------------------------
(***************************************************************************)
(* What the job queue promises the phone about one share: the verdicts a   *)
(* job can be given, in which order, and when a pin may be saved for it.   *)
(* It says nothing of queues, leases, workers or clocks: JobQueue          *)
(* implements it.                                                          *)
(***************************************************************************)
CONSTANT Job

VARIABLES status,   \* the status field of enrichmentJobs/{jobId}
          saved,    \* whether a pin has been committed for the job
          progress  \* whether its document counts a place as saved

vars == <<status, saved, progress>>

\* "complete" stands for the code's complete and duplicate, "partial" for a
\* failed job whose failure code is partial_save.
Verdict == {"complete", "partial", "failed", "needs_selection"}
Status  == {"none", "pending", "processing"} \cup Verdict

\* Every job has one status, and is and says saved or not.
TypeOK == /\ status \in [Job -> Status]
          /\ saved \in [Job -> BOOLEAN]
          /\ progress \in [Job -> BOOLEAN]

Init == /\ status = [j \in Job |-> "none"]
        /\ saved = [j \in Job |-> FALSE]
        /\ progress = [j \in Job |-> FALSE]

Become(j, s) == status' = [status EXCEPT ![j] = s] /\ UNCHANGED <<saved, progress>>

Submit(j) == status[j] = "none" /\ Become(j, "pending")

\* Refused, or never started: no attempt ran.
Refuse(j) == status[j] \in {"none", "pending"} /\ Become(j, "failed")

\* One attempt for a submitted job, one more for a selection made by the user.
Start(j) == status[j] \in {"pending", "needs_selection"} /\ Become(j, "processing")

Save(j) == /\ status[j] = "processing"
           /\ saved' = [saved EXCEPT ![j] = TRUE]
           /\ UNCHANGED <<status, progress>>

\* A retry takes over the places its share has saved before.
Inherit(j) == /\ status[j] = "processing"
              /\ progress' = [progress EXCEPT ![j] = TRUE]
              /\ UNCHANGED <<status, saved>>

\* A partial save counts something: saved by this job or by those it retries.
Settle(j, s) == /\ status[j] = "processing"
                /\ status' = [status EXCEPT ![j] = s]
                /\ \E p \in BOOLEAN : /\ s = "partial" => p
                                      /\ progress' = [progress EXCEPT ![j] = p]
                /\ UNCHANGED saved

\* The user accounts for every place a partial save left unresolved.
Review(j) == status[j] = "partial" /\ Become(j, "complete")

Next == \E j \in Job : \/ Submit(j) \/ Refuse(j) \/ Start(j) \/ Save(j) \/ Inherit(j)
                       \/ \E s \in Verdict : Settle(j, s)
                       \/ Review(j)

\* A submitted job does not wait for ever, and an attempt does not run for ever.
Decide(j) == status[j] = "pending" /\ (Refuse(j) \/ Start(j))
Fairness == \A j \in Job : /\ WF_vars(Decide(j))
                           /\ WF_vars(\E s \in Verdict : Settle(j, s))

Safety == Init /\ [][Next]_vars
Spec   == Safety /\ Fairness
=============================================================================
