-------------------------- MODULE MCRedisIdAllocator --------------------------
(* Two instances, two IDs, a clock that stops at 3.                          *)
EXTENDS RedisIdAllocator, TLC

InstSymmetry == Permutations(Insts)
==============================================================================
