------------------------- MODULE PolicyConstruction -------------------------
(* The three ways to build a policy, over one kernel: the studio script, the *)
(* deployment's scripts, and the browser's page.                             *)
EXTENDS PolicyScripts, PolicyJourney

CONSTANT Ways   \* those of {"studio", "deployment", "browser"} looked at

constructionVars == <<scriptsVars, journeys, page, interruptions>>

ConstructionInit ==
  /\ WritesInit
  /\ \/ \E script \in Ways \ {"browser"}, apm \in Manifests :
          job = [script |-> script, apm |-> apm, calls |-> CompiledCalls(apm)]
     \/ /\ "browser" \in Ways
        /\ job = [script |-> "browser", apm |-> CHOOSE apm \in Authored : TRUE,
                  calls |-> <<>>]
  /\ ScriptsInit /\ PageInit

ConstructionNext ==
  \/ ScriptsNext /\ UNCHANGED <<journeys, page, interruptions>>
  \/ job.script = "browser" /\ JourneyNext /\ UNCHANGED <<job, process, file, crashes>>
  \/ NetworkStep /\ UNCHANGED <<job, process, file, crashes, journeys, page, interruptions>>

\* Processes run, an operator starts the next one, a user goes on with what the page
\* offers, time passes, and the network decides and finalizes what was sent or
\* cancels it.
ConstructionSpec ==
  /\ ConstructionInit /\ [][ConstructionNext]_constructionVars
  /\ WF_scriptsVars(ScriptStep) /\ WF_scriptsVars(TickInDelay)
  /\ WF_journeyVars(JourneyStep) /\ WF_journeyVars(TickTimelock)
  /\ \A i \in 1 .. MaxTxs : WF_writesVars(Decided(i))

-----------------------------------------------------------------------------
\* With the owner's wallet connected, and neither interrupted nor built anew, the
\* journey ends with the policy active, unless a transaction was canceled.
JourneyActivates ==
  Len(journeys) = 1 /\ page.account = Owner ~>
    \/ \E j \in ToSet(journeys) : policies[j.apm.policyId].active
    \/ Canceled \/ Len(journeys) > 1 \/ interruptions > 0
=============================================================================
