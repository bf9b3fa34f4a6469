------------------------- MODULE AbstractAssurance -------------------------
(***************************************************************************)
(* What the kernel promises about incidents and target states, with no     *)
(* counter, no release list and no message: a target's state is always the *)
(* most severe one that some live incident gives a reason for, and a       *)
(* decision on one incident touches the reasons of that incident only.     *)
(***************************************************************************)
EXTENDS Assurance

VARIABLES
  lifecycle,   \* [IncidentIds -> IncidentStatuses], OPEN before the first decision
  owner,       \* the target of each incident, once it has one
  reasons,     \* the active restrictions: why targets are held where they are
  state        \* [Targets -> AssuranceStates]

vars == <<lifecycle, owner, reasons, state>>

\* The states something asks for target t, and the most severe of them.
Wanted(t, rs, life, own) ==
  {"NORMAL"}
    \cup {RequiredState(r.action) : r \in {x \in rs : x.target = t}}
    \cup {"RECOVERY" : i \in {j \in IncidentIds : life[j] = "RECOVERY" /\ own[j] = t}}

MostSevere(states) ==
  CHOOSE s \in states :
    \A other \in states : StatePriorityRank(other) <= StatePriorityRank(s)

StateFollowsReasons ==
  state' = [t \in Targets |-> MostSevere(Wanted(t, reasons', lifecycle', owner'))]

Of(i) == {r \in reasons : r.incident = i}
Hold(r) == r.phase = "POLICY_REPLACEMENT"

Move(i, from, to) ==
  /\ lifecycle[i] \in from
  /\ lifecycle' = [lifecycle EXCEPT ![i] = to]

KeepOwner == UNCHANGED owner

\* Only the first decision of an incident settles which target it is about.
Bind(i) == /\ \A j \in IncidentIds \ {i} : owner'[j] = owner[j]
           /\ lifecycle[i] # "OPEN" => UNCHANGED owner

Added == reasons' \ reasons
Removed == reasons \ reasons'
About(i, rs) == \A r \in rs : r.incident = i /\ r.target = owner'[i]

\* A decision opens an incident, or applies safe restrictions before it is final.
Suspect(i) ==
  /\ \/ Move(i, {"OPEN"}, "OPEN") /\ Added = {}
     \/ Move(i, {"OPEN", "PROVISIONAL_APPLIED"}, "PROVISIONAL_APPLIED")
  /\ Removed = {} /\ About(i, Added)
  /\ \A r \in Added : r.action \in PROVISIONAL_SAFE_ACTIONS /\ ~Hold(r)
  /\ Bind(i)

Confirm(i) ==
  /\ Move(i, {"OPEN", "PROVISIONAL_APPLIED"}, "FINAL_CONFIRMED")
  /\ Removed = {} /\ About(i, Added)
  /\ \A r \in Added : ~Hold(r)
  /\ Bind(i)

\* Rejected or undetermined: everything it held goes; at most a hold remains.
Dismiss(i) ==
  /\ Move(i, {"OPEN", "PROVISIONAL_APPLIED"}, "CLOSED")
  /\ Removed = Of(i) /\ About(i, Added)
  /\ \A r \in Added : Hold(r) /\ r.action = "MONITOR"
  /\ \A r, s \in Added : r = s
  /\ Bind(i)

Remediate(i) ==
  /\ Move(i, {"FINAL_CONFIRMED"}, "RECOVERY")
  /\ reasons' = reasons \ {r \in Of(i) : r.phase = "REMEDIATION_CONFIRMED"}
  /\ KeepOwner

\* After recovery validation the incident holds nothing at all.
Validate(i) ==
  /\ Move(i, {"RECOVERY"}, "CLOSED")
  /\ reasons' = reasons \ Of(i)
  /\ KeepOwner

\* A policy replacement ends every hold on its target, and nothing else.
ReplacePolicy(t) ==
  /\ reasons' = {r \in reasons : r.target = t => ~Hold(r)}
  /\ KeepOwner /\ UNCHANGED lifecycle

Init ==
  /\ lifecycle = [i \in IncidentIds |-> "OPEN"]
  /\ reasons = {}
  /\ state = [t \in Targets |-> "NORMAL"]
  /\ owner \in [IncidentIds -> Targets]

Next ==
  /\ \/ \E i \in IncidentIds :
          Suspect(i) \/ Confirm(i) \/ Dismiss(i) \/ Remediate(i) \/ Validate(i)
     \/ \E t \in Targets : ReplacePolicy(t)
  /\ StateFollowsReasons

Spec == Init /\ [][Next]_vars
=============================================================================
