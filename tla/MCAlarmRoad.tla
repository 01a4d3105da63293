----------------------------- MODULE MCAlarmRoad -----------------------------
(* The road of an alarm for TLC, in two parts: what rings it (AlarmWatch), and *)
(* how far its messages get (AlarmRelay).  A behaviour is of one part: what    *)
(* the relay does with a message does not depend on what made it.              *)
EXTENDS AlarmRelay, AlarmWatch

VARIABLE part

RoadInit ==
    /\ part \in {"watch", "relay"} /\ Init /\ WatchInit
    /\ part = "relay" => road = "gateway"

RoadNext ==
    \/ part = "watch" /\ WatchNext /\ UNCHANGED <<part, vars>>
    \/ part = "relay" /\ Next /\ UNCHANGED <<part, watchVars>>

RoadSpec == RoadInit /\ [][RoadNext]_<<part, vars, watchVars>> /\ Fairness
=============================================================================
