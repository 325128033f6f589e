----------------------------- MODULE SaveService -----------------------------
(* What whoever asks for a replay save may rely on, with no worker, channel   *)
(* or file in sight: a request is refused at once or accepted into a line,    *)
(* the requests in line are answered in the order they were accepted, each    *)
(* at most once, and the line can only be left unanswered as a whole (the     *)
(* session that held it is replaced, or the process dies).                    *)
EXTENDS Naturals, Sequences, SequencesExt

CONSTANT Saves  \* the requests

VARIABLES
    pending,  \* accepted and unanswered, in order of acceptance
    verdict   \* what became of each request

svars == <<pending, verdict>>

Answers == {"saved", "failed"}
Verdicts == {"unasked", "refused", "accepted", "abandoned"} \cup Answers

Init == pending = <<>> /\ verdict = [s \in Saves |-> "unasked"]

Refuse(s) ==
    /\ verdict[s] = "unasked"
    /\ verdict' = [verdict EXCEPT ![s] = "refused"]
    /\ UNCHANGED pending

Accept(s) ==
    /\ verdict[s] = "unasked"
    /\ verdict' = [verdict EXCEPT ![s] = "accepted"]
    /\ pending' = Append(pending, s)

\* The first n requests in line are answered.
Report(n) ==
    /\ pending' = SubSeq(pending, n + 1, Len(pending))
    /\ verdict' \in [Saves -> Verdicts]
    /\ \A s \in Saves : IF s \in ToSet(SubSeq(pending, 1, n))
                        THEN verdict'[s] \in Answers
                        ELSE verdict'[s] = verdict[s]

Abandon ==
    /\ pending # <<>>
    /\ pending' = <<>>
    /\ verdict' = [s \in Saves |-> IF s \in ToSet(pending) THEN "abandoned" ELSE verdict[s]]

Next ==
    \/ \E s \in Saves : Refuse(s) \/ Accept(s)
    \/ \E n \in 1 .. Len(pending) : Report(n)
    \/ Abandon

Spec == Init /\ [][Next]_svars
=============================================================================
