----------------------------- MODULE MCConfigStore -----------------------------
(* ConfigStore for TLC: the API keys, which the environment overrides, the  *)
(* outbound endpoints, and a setting whose default is not zero and which    *)
(* only the administrator changes.                                          *)
EXTENDS ConfigStore

CONSTANTS keys, endpoints, days, new, env

Settings == {keys, endpoints, days}
SavedByHandlers == {keys, endpoints}
DefaultConfig == [f \in Settings |-> IF f = days THEN new ELSE Zero]
Environment == [f \in Settings |-> IF f = keys THEN env ELSE NoEnv]
ByHand ==
    {[f \in Settings |-> IF f = endpoints THEN v ELSE IF f = keys THEN new ELSE Zero] :
        v \in {Zero, new}}
NoFile == {Absent}
=============================================================================
