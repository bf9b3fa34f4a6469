--------------------------- MODULE TargetAdapter ---------------------------
(***************************************************************************)
(* What a protected contract shows the kernel, as the reference target     *)
(* contracts/reference_agent_protocol.py implements it: whether it accepts *)
(* the kernel as its assurance controller, and which typed actions it      *)
(* says it supports and which it accepts.                                  *)
(***************************************************************************)
EXTENDS Assurance

CONSTANTS ProviderA, ProviderB   \* RESOURCE_PROVIDER_A, RESOURCE_PROVIDER_B

Providers == {ProviderA, ProviderB}

ASSUME ProviderAssumption == ProviderA # ProviderB /\ NoResource \notin Providers

VARIABLE links   \* per target: controller set to the kernel, authority_revoked

LinkType == [set: BOOLEAN, revoked: BOOLEAN]

\* get_assurance_controller is the kernel and is_assurance_authority_revoked is false.
ControllerActive(t) == links[t].set /\ ~links[t].revoked

\* Both steps are the target owner's, and one-way.
SetAssuranceController(t) ==
  /\ ~links[t].set
  /\ links' = [links EXCEPT ![t].set = TRUE]

RevokeAssuranceController(t) == links' = [links EXCEPT ![t].revoked = TRUE]

SupportsAssuranceAction(action, resource) ==
  \/ /\ action \in {"MONITOR", "ENTER_SAFE_MODE", "PAUSE", "ENTER_RECOVERY"}
     /\ resource = NoResource
  \/ action \in {"RESTRICT", "REVOKE_CAPABILITY"} /\ resource \in Providers
  \/ action = "RESTORE" /\ resource \in Providers \cup {NoResource}

\* The actions apply_assurance_action executes; it reverts on every other.
Accepted(action, resource, param, stage) ==
  /\ resource \in Providers \cup {NoResource}
  /\ stage = "PROVISIONAL" => action \in PROVISIONAL_SAFE_ACTIONS
  /\ \/ action = "RESTORE"
     \/ /\ action \in {"MONITOR", "RESTRICT", "REVOKE_CAPABILITY", "ENTER_SAFE_MODE",
                       "PAUSE", "ENTER_RECOVERY"}
        /\ param = "NORMAL"
=============================================================================
