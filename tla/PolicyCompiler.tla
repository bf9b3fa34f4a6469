--------------------------- MODULE PolicyCompiler ---------------------------
(* packages/policy-compiler: a canonical manifest (APM) is projected onto    *)
(* what the kernel stores, checked, and compiled into the calls that build   *)
(* the policy, in their order. With it, the comparison of a manifest with     *)
(* the policy as built (readback.ts).                                         *)
EXTENDS PolicyLifecycle, SequencesExt

\* A manifest. wellFormed stands for what validateCanonicalApm and the conversions
\* say of its fields' presence and format; a hash of a manifest is the manifest.
ApmType ==
  [policyId : PolicyKeys, target : Targets, wellFormed : BOOLEAN,
   resources : Seq(Resources), judges : [RuleIds -> Judges] \cup {<<>>},
   rules : Seq([id : RuleIds, module : RuleIds, kind : VALID_RULE_KINDS,
                provisional : BOOLEAN, bounty : Nat, effects : Seq(Effects)]),
   override : BOOLEAN]

-----------------------------------------------------------------------------
(* canonicalApm.ts *)

Authorable == {"REMEDIATION_CONFIRMED", "RECOVERY_VALIDATED"}

Projects(apm) ==
  /\ apm.wellFormed
  /\ \A rule \in ToSet(apm.rules) :
       /\ rule.module \in DOMAIN apm.judges
       /\ \A e \in ToSet(rule.effects) : e.phase \in Authorable

RuleManifest(apm, rule) ==
  [id |-> rule.id, judge |-> apm.judges[rule.module], kind |-> rule.kind,
   provisional |-> rule.provisional, bounty |-> rule.bounty]

EffectManifests(rule) ==
  [i \in DOMAIN rule.effects |-> [rule |-> rule.id, effect |-> rule.effects[i]]]

Projection(apm) ==
  [target |-> apm.target, key |-> apm.policyId, resources |-> apm.resources,
   rules |-> [i \in DOMAIN apm.rules |-> RuleManifest(apm, apm.rules[i])],
   effects |-> FlattenSeq([i \in DOMAIN apm.rules |-> EffectManifests(apm.rules[i])])]

-----------------------------------------------------------------------------
(* compile.ts *)

ValidEffect(manifest, x) ==
  /\ \E rule \in ToSet(manifest.rules) : rule.id = x.rule
  /\ x.effect.action \in RESOURCE_SCOPED_ACTIONS =>
       x.effect.resource \in ToSet(manifest.resources)
  /\ x.effect.action \in TARGET_WIDE_ACTIONS => x.effect.resource = NoResource

\* Two effects of a rule on the same action and resource pass, as does an effect the
\* target does not support: the kernel refuses the former, and to seal the latter.
Checked(manifest) ==
  LET rules == manifest.rules
      effects == manifest.effects
  IN  /\ rules # <<>>
      /\ IsInjective(manifest.resources)
      /\ IsInjective([i \in DOMAIN rules |-> rules[i].id])
      /\ \A i \in DOMAIN effects : ValidEffect(manifest, effects[i])
      /\ \A rule \in ToSet(rules) :
           Cardinality({i \in DOMAIN effects : effects[i].rule = rule.id})
             <= MAX_EFFECTS_PER_DECISION

Compiles(apm) == Projects(apm) /\ Checked(Projection(apm))

BeginCall(apm) ==
  [fn |-> "begin_policy", key |-> apm.policyId, target |-> apm.target, hash |-> apm]
SealCall(key) == [fn |-> "seal_policy", key |-> key]
ActivateCall(key) == [fn |-> "activate_policy", key |-> key]

ResourceCalls(manifest) ==
  [i \in DOMAIN manifest.resources |->
     [fn |-> "add_policy_resource", key |-> manifest.key, resource |-> manifest.resources[i]]]
RuleCalls(manifest) ==
  [i \in DOMAIN manifest.rules |->
     [fn |-> "add_policy_rule", key |-> manifest.key, rule |-> manifest.rules[i]]]
EffectCalls(manifest) ==
  [i \in DOMAIN manifest.effects |->
     [fn |-> "add_policy_effect", key |-> manifest.key, rule |-> manifest.effects[i].rule,
      effect |-> manifest.effects[i].effect]]

\* compileCanonicalApm: the hash committed to is the manifest's, not the projection's.
CompiledCalls(apm) ==
  LET manifest == Projection(apm) IN
  <<BeginCall(apm)>> \o ResourceCalls(manifest) \o RuleCalls(manifest)
    \o EffectCalls(manifest) \o <<SealCall(manifest.key)>>

-----------------------------------------------------------------------------
(* readback.ts *)

\* The calls of this function, in their order.
Named(fn, calls) ==
  LET upTo[n \in 0 .. Len(calls)] ==
        IF n = 0 THEN <<>>
        ELSE IF calls[n].fn = fn THEN Append(upTo[n - 1], calls[n]) ELSE upTo[n - 1]
  IN  upTo[Len(calls)]

\* verifyPolicyReadback of the calls a policy was built by, which its header and its
\* resources, rules and effects in their order stand for.
Verified(built, sealed, apm) ==
  /\ built # <<>> /\ built[1].hash = apm
  /\ \A fn \in {"add_policy_resource", "add_policy_rule", "add_policy_effect"} :
       Named(fn, built) = Named(fn, CompiledCalls(apm))
  /\ sealed
=============================================================================
