---- MODULE KeyValueMap ----
(***************************************************************************)
(* What an attribute container promises its users: a map from keys to      *)
(* typed values. A call that sets an attribute changes this one entry or,  *)
(* when it returns false, nothing at all.                                  *)
(***************************************************************************)
CONSTANTS MapKey, MapValue, NoValue

VARIABLES
  map,    \* the value of each key
  reply   \* the last call to set an attribute, and what it returned

mapVars == <<map, reply>>

MapInit == map = [k \in MapKey |-> NoValue] /\ reply = NoValue

Put(k, v) ==
  /\ reply' = [key |-> k, value |-> v, ok |-> TRUE]
  /\ map' = [map EXCEPT ![k] = v]

Refuse(k, v) ==
  /\ reply' = [key |-> k, value |-> v, ok |-> FALSE]
  /\ UNCHANGED map

MakeEmpty == UNCHANGED reply /\ map' = [k \in MapKey |-> NoValue]

MapNext ==
  \/ \E k \in MapKey, v \in MapValue : Put(k, v) \/ Refuse(k, v)
  \/ MakeEmpty

MapSpec == MapInit /\ [][MapNext]_mapVars
====
