----------------------------- MODULE MCSentinel -----------------------------
(* Two sources of one event and one process that crashes, with each of the   *)
(* trackers it may be given.                                                 *)
EXTENDS Sentinel

MCRuleOf == [first |-> "compromise"]
MCActiveSets == {{"first"}}
MCSpec == SentinelSpec /\ SentinelFairness
=============================================================================
