-------------------------- MODULE MCRedisStreamBus --------------------------
(***************************************************************************)
(* RedisStreamBus on small instances.                                      *)
(***************************************************************************)
EXTENDS RedisStreamBus, TLC

Replicas == Permutations(Consumers)
=============================================================================
