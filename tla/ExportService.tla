---------------------------- MODULE ExportService ----------------------------
(* What whoever asks for an export may rely on, with no worker, thread, lease *)
(* or snapshot in sight. Accepted jobs form one line, in order of acceptance, *)
(* and only the first in line is worked on, by one executor at most. A file   *)
(* appears only for the first in line, and once. A job ends once: completed,  *)
(* with its file and unasked; cancelled, only when asked, and failed, only    *)
(* when not, both without the file. A client may be told that its job was not *)
(* accepted after all, whatever has become of the job by then, but only when  *)
(* nobody serves, and from then on it is neither published nor completed.     *)
EXTENDS Naturals, FiniteSets

CONSTANTS
    Jobs,  \* numbers, in the order jobs are accepted
    Room   \* jobs that may wait behind the first

VARIABLES
    outcome,   \* what became of each job
    asked,     \* jobs that were asked to stop
    refused,   \* jobs whose client was told they are not accepted
    file,      \* what lies at the destination of each job
    executors  \* how many serve the line

evars == <<outcome, asked, refused, file, executors>>

Line == {j \in Jobs : outcome[j] = "accepted"}
First(j) == j \in Line /\ \A k \in Line : j <= k

Init ==
    /\ outcome = [j \in Jobs |-> "none"] /\ file = [j \in Jobs |-> "none"]
    /\ asked = {} /\ refused = {} /\ executors = 0

-----------------------------------------------------------------------------
(* The next job joins the line.                                               *)
Accept(j) ==
    /\ outcome[j] = "none" /\ \A k \in Jobs : k < j => outcome[k] # "none"
    /\ Cardinality(Line) <= Room
    /\ outcome' = [outcome EXCEPT ![j] = "accepted"]
    /\ UNCHANGED <<asked, refused, file, executors>>

\* The job may wait, be the first in line, or be over.
Refuse(j) ==
    /\ outcome[j] # "none" /\ executors = 0
    /\ refused' = refused \cup {j}
    /\ UNCHANGED <<outcome, asked, file, executors>>

\* The first in line is asked to stop, and whoever serves will notice.
Ask(j) ==
    /\ First(j) /\ asked' = asked \cup {j}
    /\ UNCHANGED <<outcome, refused, file, executors>>

\* Nobody works on the others yet, so they end at once.
Leave(j) ==
    /\ j \in Line /\ ~ First(j)
    /\ asked' = asked \cup {j} /\ outcome' = [outcome EXCEPT ![j] = "cancelled"]
    /\ UNCHANGED <<refused, file, executors>>

Place(j) ==
    /\ First(j) /\ j \notin refused /\ executors = 1
    /\ file[j] = "none" /\ file' = [file EXCEPT ![j] = "published"]
    /\ UNCHANGED <<outcome, asked, refused, executors>>

\* The request came too late to keep the file from being published.
TakeAway(j) ==
    /\ First(j) /\ j \in asked /\ executors = 1
    /\ file[j] = "published" /\ \E left \in {"none", "left"} : file' = [file EXCEPT ![j] = left]
    /\ UNCHANGED <<outcome, asked, refused, executors>>

End(j) ==
    /\ First(j)
    /\ \E how \in {"completed", "failed", "cancelled"} :
        /\ (how = "cancelled") = (j \in asked)
        /\ (how = "completed") = (file[j] = "published")
        /\ how = "completed" => executors = 1 /\ j \notin refused
        /\ outcome' = [outcome EXCEPT ![j] = how]
    /\ UNCHANGED <<asked, refused, file, executors>>

Begin == executors = 0 /\ executors' = 1 /\ UNCHANGED <<outcome, asked, refused, file>>
Cease == executors = 1 /\ executors' = 0 /\ UNCHANGED <<outcome, asked, refused, file>>

Next ==
    \/ \E j \in Jobs : Accept(j) \/ Refuse(j) \/ Ask(j) \/ Leave(j) \/ Place(j) \/ TakeAway(j) \/ End(j)
    \/ Begin \/ Cease

Spec == Init /\ [][Next]_evars
=============================================================================
