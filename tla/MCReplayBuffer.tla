--------------------------- MODULE MCReplayBuffer ---------------------------
(* Two instances of ReplayBuffer side by side. In "calls" every method may be *)
(* called at any point, over few packets. In "session" the streams are        *)
(* registered before the workers start and never again, as in one session of  *)
(* the engine, so that the run can afford more packets.                       *)
EXTENDS ReplayBuffer

CONSTANT MaxInsertsAmongCalls   \* bound on the packets of the first instance

VARIABLE instance

SessionInit ==
    /\ registered = Streams
    /\ packets = NoPackets
    /\ lastDts = [s \in Streams |-> NoDts]
    /\ retention \in Retentions \ {0}
    /\ nextSequence = 0
    /\ epoch = 0
    /\ memoryBytes = 0
    /\ log = NoPackets
    /\ capped = {}
    /\ replacedBytes = 0

SessionNext ==
    \/ \E s \in Streams : \E p \in {q \in NewPackets(s) : q.dts = q.pts} : Insert(s, p)
    \/ \E r \in Retentions : SetRetention(r)

MCInit ==
    \/ instance = "calls" /\ Init
    \/ instance = "session" /\ SessionInit

MCNext ==
    /\ UNCHANGED instance
    /\ \/ instance = "calls" /\ Next /\ nextSequence' <= MaxInsertsAmongCalls
       \/ instance = "session" /\ SessionNext

MCSpec == MCInit /\ [][MCNext]_<<vars, instance>>
=============================================================================
