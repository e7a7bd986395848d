---------------------------- MODULE MCPodGroupStore ----------------------------
(* Two groups, three pods, two ticks per second and a time to live of one    *)
(* and a half seconds: lapsed for the reap cycle one tick before the cache.  *)
EXTENDS PodGroupStore, TLC

Symmetric == Permutations(Groups) \cup Permutations(Pods)
=============================================================================
