-------------------------- MODULE MCRecorderEngine --------------------------
(* RecorderEngine without the calls that change the window under a running    *)
(* engine (set_replay_retention_ms, notify_resume) and without a rejected     *)
(* start: what the workers alone can do to an engine that reached Ready.      *)
EXTENDS RecorderEngine

WorkersNext ==
    \/ Start
    \/ PumpBegin \/ PumpEvent \/ PumpPromote \/ PumpEnd
    \/ StopBegin \/ StopEnd
    \/ VideoWorker \/ AudioInsert \/ AudioWarns \/ AudioEnds

WorkersSpec == Init /\ [][WorkersNext]_vars
=============================================================================
