---------------------- MODULE PolicyConstruction_proofs ----------------------
(* Whichever way a policy is built, what the kernel holds of it is what its    *)
(* manifest was compiled into, call by call.                                   *)
EXTENDS PolicyConstruction, SequenceTheorems, WellFoundedInduction, TLAPS

Authors == Manifests \cup Authored

CallType ==
  {BeginCall(apm) : apm \in ApmType}
    \cup [fn: {"add_policy_resource"}, key: PolicyKeys, resource: Resources]
    \cup [fn: {"add_policy_rule"}, key: PolicyKeys, rule: RuleType]
    \cup [fn: {"add_policy_effect"}, key: PolicyKeys, rule: RuleIds, effect: Effects]
    \cup [fn: {"seal_policy", "activate_policy"}, key: PolicyKeys]

BuildRecord ==
  [target: Targets \cup {NoTarget}, version: Nat, rules: SUBSET RuleType,
   resources: SUBSET Resources, effects: SUBSET [rule: RuleIds, effect: Effects],
   sealed: BOOLEAN, sealedAt: Nat, active: BOOLEAN, superseded: BOOLEAN]

TxType == [call: CallType, signer: Accounts, status: TxStatuses, result: ExecutionResults]

WritesTypeOK ==
  /\ policies \in [PolicyKeys -> BuildRecord]
  /\ \E n \in Nat : \A pk \in PolicyKeys : policies[pk].version <= n
  /\ now \in Nat
  /\ txs \in Seq(TxType)
  /\ built \in [PolicyKeys -> Seq(CallType)]

\* A policy holds what the calls that took effect added, and nothing else.
HoldsCalls(pol, s) ==
  /\ \A c \in s :
       /\ c.fn = "add_policy_resource" => c.resource \in pol.resources
       /\ c.fn = "add_policy_rule" => c.rule \in pol.rules
       /\ c.fn = "add_policy_effect" => [rule |-> c.rule, effect |-> c.effect] \in pol.effects
       /\ c.fn = "seal_policy" => pol.sealed
  /\ \A res \in pol.resources : \E c \in s : c.fn = "add_policy_resource" /\ c.resource = res
  /\ \A rule \in pol.rules : \E c \in s : c.fn = "add_policy_rule" /\ c.rule = rule
  /\ pol.sealed => \E c \in s : c.fn = "seal_policy"

ContentsOK ==
  \A pk \in PolicyKeys :
    /\ Begun(pk) <=> built[pk] # <<>>
    /\ \A c \in ToSet(built[pk]) : c.key = pk
    /\ HoldsCalls(policies[pk], ToSet(built[pk]))

Returned(i) == txs[i].result = "FINISHED_WITH_RETURN" /\ txs[i].call.fn # "activate_policy"

TxsOK ==
  /\ \A i \in DOMAIN txs : Returned(i) => txs[i].call \in ToSet(built[txs[i].call.key])
  /\ \A i, j \in DOMAIN txs : Returned(i) /\ Returned(j) /\ txs[i].call = txs[j].call => i = j

WritesInv == WritesTypeOK /\ ContentsOK /\ TxsOK

-----------------------------------------------------------------------------
(* In order *)

Along(s, plan) ==
  \A i \in DOMAIN s : IF i <= Len(plan) THEN s[i] = plan[i] ELSE s[i].fn = "activate_policy"

\* The first k calls of the plan have taken effect.
Reached(apm, k) ==
  LET s == built[apm.policyId] IN
  k > 0 => s # <<>> /\ s[1] = BeginCall(apm) /\ k <= Len(s)

\* call is the plan's (k+1)th.
IsStep(call, apm, k) == k \in 0 .. Len(CompiledCalls(apm)) - 1 /\ call = CompiledCalls(apm)[k + 1]

Ready(call) ==
  \/ call.fn = "activate_policy"
  \/ \E apm \in Authors : \E k \in Nat : IsStep(call, apm, k) /\ Reached(apm, k)

LineOK ==
  \A pk \in PolicyKeys : built[pk] # <<>> =>
    \E apm \in Authors :
      /\ apm.policyId = pk /\ built[pk][1] = BeginCall(apm)
      /\ Along(built[pk], CompiledCalls(apm))

LineInv == LineOK /\ \A i \in DOMAIN txs : Ready(txs[i].call)

-----------------------------------------------------------------------------
(* The studio script *)

\* tx is the next call of the plan, sent.
SentAs(tx, apm, k) ==
  /\ tx \in DOMAIN txs /\ IsStep(txs[tx].call, apm, k)
  /\ Returned(tx) => Reached(apm, k + 1)

StudioTypes ==
  /\ job.apm \in Manifests /\ job.calls = CompiledCalls(job.apm)
  /\ file \in [steps: Seq(Nat), pending: Nat]
  /\ process \in [at: {"stopped", "ended", "estimate", "write", "captured", "wait", "readback"},
                  todo: Seq(CallType), tx: Nat, since: Nat]

\* The kernel is at most a call ahead of the file, and no call later than that was sent.
StudioBuilt ==
  LET n == Len(file.steps) IN
  /\ n <= Len(Calls) /\ Reached(job.apm, n)
  /\ \A k \in 1 .. n : file.steps[k] \in DOMAIN txs /\ txs[file.steps[k]].call = Calls[k]
  /\ Len(built[Key]) <= n + 1 /\ Len(built[Key]) <= Len(Calls)
  /\ Reached(job.apm, Len(built[Key]))
  /\ \A i \in DOMAIN txs : \E k \in 0 .. n : IsStep(txs[i].call, job.apm, k)

StudioProcess ==
  LET n == Len(file.steps) IN
  /\ file.pending # NoTx => SentAs(file.pending, job.apm, n)
  /\ process.at \notin {"stopped", "ended"} => n < Len(Calls) /\ process.todo = Remaining(n)
  /\ process.at \in {"captured", "wait", "readback"} => SentAs(process.tx, job.apm, n)
  /\ process.at = "readback" => Reached(job.apm, n + 1)

StudioOK == StudioTypes /\ StudioBuilt /\ StudioProcess

-----------------------------------------------------------------------------
(* The page *)

JourneyType ==
  [apm: Authored, calls: Seq(CallType), index: Nat,
   sealConfirmed: BOOLEAN, activationBuilt: BOOLEAN]

JourneyOK(j) ==
  /\ j \in JourneyType /\ j.calls = CompiledCalls(j.apm) /\ j.index <= Len(j.calls)
  /\ Reached(j.apm, j.index)
  /\ j.sealConfirmed \/ j.activationBuilt => Finished(j)

JourneysOK(js) == js \in Seq(JourneyType) /\ \A x \in DOMAIN js : JourneyOK(js[x])

\* The call of a draft of this kind for journey j.
DraftOf(call, kind, j) ==
  IF kind = Activate THEN call.fn = "activate_policy"
  ELSE \E n \in 0 .. j.index : kind = Step(n) /\ \E k \in 0 .. n : IsStep(call, j.apm, k)

\* What is prepared is for the current journey, or for the one there was.
BuildOK(b, p, js) ==
  /\ b.journey = Len(js) /\ b.journey # 0
  /\ b.screen \in Nat /\ b.screen <= p.screen
  /\ b.screen = p.screen => p.current # NoJourney
  /\ b.call \in CallType
  /\ \/ b.call.fn = "activate_policy" /\ Finished(js[b.journey])
     \/ \E k \in 0 .. js[b.journey].index : IsStep(b.call, js[b.journey].apm, k)

\* What the panel offers is the current journey's, or is about to be replaced.
PanelOK(p, js) ==
  \/ p.panel.shows = "nothing"
  \/ \E b \in p.builds : b.screen = p.screen
  \/ /\ p.current # NoJourney
     /\ p.panel.shows \in {"verify", "wait", "activate"} => Finished(js[p.current])
     /\ p.panel.shows = "draft" /\ p.panel.kind \in DOMAIN p.drafts =>
          DraftOf(p.drafts[p.panel.kind].call, p.panel.kind, js[p.current])

\* The plan whose seal the panel confirms is finished, and that whose seal is being read;
\* a read for the panel there is, is for the current journey.
SealsOK(p, js) ==
  /\ p.panel.shows \in {"wait", "activate"} =>
       p.panel.plan \in DOMAIN js /\ Finished(js[p.panel.plan])
  /\ \A s \in p.reads :
       /\ s.journey \in DOMAIN js /\ Finished(js[s.journey])
       /\ s.screen \in Nat /\ s.screen <= p.screen
       /\ s.screen = p.screen => s.journey = p.current

\* A review's transaction is its draft's call; if it returned, the journey's current call,
\* which is then there.
TrackedOK(r, j) ==
  /\ r.tx \in DOMAIN txs /\ txs[r.tx].call = r.draft.call
  /\ r.draft.signer # Anyone => txs[r.tx].signer = r.draft.signer
  /\ r.kind # Activate /\ Returned(r.tx) =>
       /\ r.kind = Step(j.index) /\ IsStep(r.draft.call, j.apm, j.index)
       /\ Reached(j.apm, j.index + 1)

ReviewOK(r, js) ==
  /\ r = [journey |-> r.journey, kind |-> r.kind, draft |-> r.draft, at |-> r.at, tx |-> r.tx,
          shown |-> r.shown, waited |-> r.waited]
  /\ r.journey \in DOMAIN js /\ r.draft.call \in CallType
  /\ DraftOf(r.draft.call, r.kind, js[r.journey])
  /\ r.at = "tracking" => TrackedOK(r, js[r.journey])

Fields(p) ==
  /\ p = [account |-> p.account, current |-> p.current, drafts |-> p.drafts, screen |-> p.screen,
          panel |-> p.panel, builds |-> p.builds, reads |-> p.reads, reviews |-> p.reviews]
  /\ p.account \in Accounts \cup {NoAccount} /\ p.screen \in Nat

DraftsOK(p) == \A k \in DOMAIN p.drafts : p.drafts[k].call \in CallType

\* No two reviews track one transaction.
TrackOnce(p) ==
  \A r, s \in p.reviews : r.at = "tracking" /\ s.at = "tracking" /\ r.tx = s.tx => r = s

PageOK(p, js) ==
  /\ Fields(p) /\ p.current \in {NoJourney, Len(js)}
  /\ DraftsOK(p) /\ PanelOK(p, js) /\ SealsOK(p, js) /\ TrackOnce(p)
  /\ \A b \in p.builds : BuildOK(b, p, js)
  /\ \A r \in p.reviews : ReviewOK(r, js)

BrowserOK == JourneysOK(journeys) /\ PageOK(page, journeys)
-----------------------------------------------------------------------------
(* The calls of one function *)

\* A set of naturals that is not empty has a least element.
LEMMA LeastOf ==
  ASSUME NEW bad \in SUBSET Nat, bad # {}
  PROVE  \E n \in bad : \A k \in bad : n <= k
<1>1. PICK n \in bad : \A k \in bad : <<k, n>> \notin OpToRel(<, Nat)
  BY NatLessThanWellFounded, WFMin
<1>2. ASSUME NEW k \in bad PROVE n <= k
  <2>1. n \in Nat /\ k \in Nat OBVIOUS
  <2>2. ~(k < n) BY <1>1, <1>2, <2>1 DEF OpToRel
  <2> QED BY <2>1, <2>2
<1> QED BY <1>2

\* it is what Named selects of the first n calls.
Selects(it, fn, s, n) ==
  it = [k \in 0 .. n |-> IF k = 0 THEN <<>>
                         ELSE IF s[k].fn = fn THEN Append(it[k - 1], s[k]) ELSE it[k - 1]]

\* The recursion that selects the calls of fn among the first n of s, a step of it.
LEMMA SelectsStep ==
  ASSUME NEW it, NEW fn, NEW s, NEW n \in Nat, Selects(it, fn, s, n), NEW k \in 0 .. n
  PROVE  it[k] = IF k = 0 THEN <<>>
                 ELSE IF s[k].fn = fn THEN Append(it[k - 1], s[k]) ELSE it[k - 1]
<1> DEFINE body == [j \in 0 .. n |-> IF j = 0 THEN <<>>
                      ELSE IF s[j].fn = fn THEN Append(it[j - 1], s[j]) ELSE it[j - 1]]
<1>1. it = body BY DEF Selects
<1>2. body[k] = IF k = 0 THEN <<>>
                ELSE IF s[k].fn = fn THEN Append(it[k - 1], s[k]) ELSE it[k - 1]
  OBVIOUS
<1> HIDE DEF body
<1> QED BY <1>1, <1>2

\* There is such a recursion, for every length.
LEMMA SelectsExists ==
  ASSUME NEW fn, NEW s, NEW n \in Nat
  PROVE  \E it : Selects(it, fn, s, n)
<1> DEFINE bad == {k \in Nat : ~\E it : Selects(it, fn, s, k)}
<1> SUFFICES ASSUME bad # {} PROVE FALSE OBVIOUS
<1>1. PICK m \in bad : \A k \in bad : m <= k
  <2> HIDE DEF bad
  <2>1. bad \in SUBSET Nat BY DEF bad
  <2> QED BY <2>1, LeastOf
<1>2. m \in Nat /\ ~\E it : Selects(it, fn, s, m) OBVIOUS
<1>3. m # 0
  <2> SUFFICES ASSUME m = 0 PROVE FALSE OBVIOUS
  <2> DEFINE it == [k \in 0 .. 0 |-> <<>>]
  <2>1. it = [k \in 0 .. 0 |-> IF k = 0 THEN <<>>
                ELSE IF s[k].fn = fn THEN Append(it[k - 1], s[k]) ELSE it[k - 1]]
    OBVIOUS
  <2> HIDE DEF it
  <2>2. Selects(it, fn, s, 0) BY <2>1 DEF Selects
  <2> QED BY <1>2, <2>2
<1>4. m - 1 \in Nat /\ m - 1 \notin bad BY <1>1, <1>2, <1>3
<1>5. PICK g : Selects(g, fn, s, m - 1) BY <1>4
<1> DEFINE it == [k \in 0 .. m |-> IF k < m THEN g[k]
                    ELSE IF s[m].fn = fn THEN Append(g[m - 1], s[m]) ELSE g[m - 1]]
<1>6. ASSUME NEW k \in 0 .. m
      PROVE  it[k] = IF k = 0 THEN <<>>
                     ELSE IF s[k].fn = fn THEN Append(it[k - 1], s[k]) ELSE it[k - 1]
  <2>1. CASE k = m
    <3>1. it[k] = (IF s[m].fn = fn THEN Append(g[m - 1], s[m]) ELSE g[m - 1]) BY <1>2, <2>1
    <3>2. it[k - 1] = g[m - 1] BY <1>2, <1>3, <2>1
    <3> HIDE DEF it
    <3> QED BY <1>3, <2>1, <3>1, <3>2
  <2>2. CASE k < m
    <3>1. k \in 0 .. m - 1 BY <1>2, <2>2
    <3>2. it[k] = g[k] BY <2>2
    <3>3. k # 0 => it[k - 1] = g[k - 1] BY <1>2, <2>2
    <3>4. g[k] = IF k = 0 THEN <<>>
                 ELSE IF s[k].fn = fn THEN Append(g[k - 1], s[k]) ELSE g[k - 1]
      BY <1>4, <1>5, <3>1, SelectsStep
    <3> HIDE DEF it
    <3> QED BY <3>2, <3>3, <3>4
  <2> QED BY <1>2, <2>1, <2>2
<1>7. it = [k \in 0 .. m |-> it[k]] OBVIOUS
<1> HIDE DEF it
<1>8. Selects(it, fn, s, m) BY <1>6, <1>7 DEF Selects
<1> QED BY <1>2, <1>8

\* Named is where the recursion ends.
LEMMA NamedSelects ==
  ASSUME NEW fn, NEW s, Len(s) \in Nat
  PROVE  \E it : Selects(it, fn, s, Len(s)) /\ Named(fn, s) = it[Len(s)]
<1>1. PICK it : Selects(it, fn, s, Len(s)) BY SelectsExists
<1>2. Selects(CHOOSE x : Selects(x, fn, s, Len(s)), fn, s, Len(s)) BY <1>1
<1>3. Named(fn, s) = (CHOOSE x : Selects(x, fn, s, Len(s)))[Len(s)] BY DEF Named, Selects
<1> QED BY <1>2, <1>3

\* What is selected of the first n calls depends on these only.
LEMMA SelectsAgree ==
  ASSUME NEW fn, NEW s, NEW t, NEW n \in Nat, NEW m \in Nat, n <= m,
         NEW it, NEW jt, Selects(it, fn, s, n), Selects(jt, fn, t, m),
         \A k \in 1 .. n : s[k] = t[k]
  PROVE  it[n] = jt[n]
<1> DEFINE bad == {k \in 0 .. n : it[k] # jt[k]}
<1>1. SUFFICES ASSUME bad # {} PROVE FALSE BY n \in 0 .. n
<1>2. PICK k \in bad : \A j \in bad : k <= j
  <2> HIDE DEF bad
  <2>1. bad \in SUBSET Nat BY DEF bad
  <2> QED BY <1>1, <2>1, LeastOf
<1>3. k \in 0 .. n /\ it[k] # jt[k] OBVIOUS
<1>4. it[k] = IF k = 0 THEN <<>>
              ELSE IF s[k].fn = fn THEN Append(it[k - 1], s[k]) ELSE it[k - 1]
  BY <1>3, SelectsStep
<1>5. k \in 0 .. m BY <1>3
<1>6. jt[k] = IF k = 0 THEN <<>>
              ELSE IF t[k].fn = fn THEN Append(jt[k - 1], t[k]) ELSE jt[k - 1]
  BY <1>5, SelectsStep
<1>7. k # 0 BY <1>3, <1>4, <1>6
<1>8. k - 1 \in 0 .. n /\ k - 1 \notin bad BY <1>2, <1>3, <1>7
<1>9. it[k - 1] = jt[k - 1] BY <1>8
<1>10. s[k] = t[k] BY <1>3, <1>7
<1> HIDE DEF bad
<1> QED BY <1>3, <1>4, <1>6, <1>7, <1>9, <1>10

\* No call, none of any function.
LEMMA NamedEmpty ==
  ASSUME NEW fn PROVE Named(fn, <<>>) = <<>>
<1>1. Len(<<>>) = 0 /\ Len(<<>>) \in Nat OBVIOUS
<1>2. PICK it : Selects(it, fn, <<>>, Len(<<>>)) /\ Named(fn, <<>>) = it[Len(<<>>)]
  BY <1>1, NamedSelects
<1>3. Selects(it, fn, <<>>, 0) /\ Named(fn, <<>>) = it[0] BY <1>1, <1>2
<1>4. 0 \in 0 .. 0 OBVIOUS
<1> QED BY <1>3, <1>4, SelectsStep

\* One call more.
LEMMA NamedAppend ==
  ASSUME NEW S, NEW fn, NEW s \in Seq(S), NEW x \in S
  PROVE  Named(fn, Append(s, x)) = IF x.fn = fn THEN Append(Named(fn, s), x) ELSE Named(fn, s)
<1> DEFINE t == Append(s, x)
           n == Len(s)
<1>1. n \in Nat /\ Len(t) = n + 1 /\ t[n + 1] = x /\ \A k \in 1 .. n : s[k] = t[k] OBVIOUS
<1> HIDE DEF t
<1>2. PICK it : Selects(it, fn, s, n) /\ Named(fn, s) = it[n] BY <1>1, NamedSelects
<1>3. Len(t) \in Nat BY <1>1
<1>4. PICK jt : Selects(jt, fn, t, Len(t)) /\ Named(fn, t) = jt[Len(t)] BY <1>3, NamedSelects
<1> HIDE DEF n
<1> DEFINE m == n + 1
<1>5. Selects(jt, fn, t, m) /\ Named(fn, t) = jt[m] BY <1>1, <1>4
<1>6. m \in Nat /\ n <= m /\ m \in 0 .. m /\ m # 0 /\ m - 1 = n /\ t[m] = x BY <1>1
<1> HIDE DEF m
<1>7. it[n] = jt[n] BY <1>1, <1>2, <1>5, <1>6, SelectsAgree
<1>8. jt[m] = IF m = 0 THEN <<>>
              ELSE IF t[m].fn = fn THEN Append(jt[m - 1], t[m]) ELSE jt[m - 1]
  BY <1>5, <1>6, SelectsStep
<1>9. jt[m] = IF x.fn = fn THEN Append(jt[n], x) ELSE jt[n] BY <1>6, <1>8
<1> QED BY <1>2, <1>5, <1>7, <1>9 DEF t

\* A shortest sequence of a set: it is empty, or without its last element not in the set.
LEMMA ShortestOf ==
  ASSUME NEW S, NEW bad \in SUBSET Seq(S), bad # {}
  PROVE  \E t \in bad : t = <<>> \/ \E u \in Seq(S) \ bad, x \in S : t = Append(u, x)
<1> DEFINE lengths == {Len(t) : t \in bad}
<1>1. lengths \in SUBSET Nat /\ lengths # {}
  <2>1. \A t \in bad : Len(t) \in Nat OBVIOUS
  <2> QED BY <2>1
<1>2. PICK n \in lengths : \A k \in lengths : n <= k
  <2> HIDE DEF lengths
  <2> QED BY <1>1, LeastOf
<1>3. PICK t \in bad : Len(t) = n OBVIOUS
<1>4. \A u \in bad : n <= Len(u) BY <1>2
<1> HIDE DEF lengths
<1>5. SUFFICES ASSUME t # <<>> PROVE \E u \in Seq(S) \ bad, x \in S : t = Append(u, x) OBVIOUS
<1>6. PICK u \in Seq(S), x \in S : t = Append(u, x) BY <1>5, SequenceEmptyOrAppend
<1>7. Len(u) \in Nat /\ Len(t) = Len(u) + 1 BY <1>6
<1>8. u \notin bad BY <1>3, <1>4, <1>7
<1> QED BY <1>6, <1>8

\* What is selected are calls of the function.
LEMMA NamedType ==
  ASSUME NEW S, NEW fn, NEW s \in Seq(S)
  PROVE  Named(fn, s) \in Seq({x \in S : x.fn = fn})
<1> DEFINE T == {x \in S : x.fn = fn}
           bad == {t \in Seq(S) : Named(fn, t) \notin Seq(T)}
<1>1. SUFFICES ASSUME bad # {} PROVE FALSE OBVIOUS
<1>2. PICK t \in bad : t = <<>> \/ \E u \in Seq(S) \ bad, x \in S : t = Append(u, x)
  <2>1. bad \in SUBSET Seq(S) OBVIOUS
  <2> HIDE DEF bad
  <2> QED BY <1>1, <2>1, ShortestOf
<1>3. Named(fn, t) \notin Seq(T) OBVIOUS
<1>4. t # <<>>
  <2> HIDE DEF T
  <2>1. <<>> \in Seq(T) OBVIOUS
  <2> QED BY <1>3, <2>1, NamedEmpty
<1>5. PICK u \in Seq(S) \ bad, x \in S : t = Append(u, x) BY <1>2, <1>4
<1>6. u \in Seq(S) /\ Named(fn, u) \in Seq(T) BY <1>5
<1>7. x.fn = fn => x \in T OBVIOUS
<1> HIDE DEF T, bad
<1> DEFINE r == Named(fn, u)
<1>8. Named(fn, t) = IF x.fn = fn THEN Append(r, x) ELSE r BY <1>5, <1>6, NamedAppend
<1>9. r \in Seq(T) BY <1>6
<1> HIDE DEF r
<1> QED BY <1>3, <1>7, <1>8, <1>9

\* A sequence that ends with x still does behind another.
LEMMA ConcatAppend ==
  ASSUME NEW S, NEW s \in Seq(S), NEW u \in Seq(S), NEW x \in S
  PROVE  s \o Append(u, x) = Append(s \o u, x) /\ s \o u \in Seq(S)
<1>1. s \o u \in Seq(S) /\ <<x>> \in Seq(S) OBVIOUS
<1>2. Append(u, x) = u \o <<x>> BY AppendIsConcat
<1>3. (s \o u) \o <<x>> = s \o (u \o <<x>>) BY <1>1, ConcatAssociative
<1> DEFINE v == s \o u
<1>4. Append(v, x) = v \o <<x>>
  <2> HIDE DEF v
  <2>1. v \in Seq(S) BY <1>1 DEF v
  <2> QED BY <2>1, AppendIsConcat
<1> QED BY <1>1, <1>2, <1>3, <1>4

\* Selecting goes through concatenation: by way of a shortest counterexample.
LEMMA NamedConcat ==
  ASSUME NEW S, NEW fn, NEW s \in Seq(S), NEW v \in Seq(S)
  PROVE  Named(fn, s \o v) = Named(fn, s) \o Named(fn, v)
<1> DEFINE bad == {t \in Seq(S) : Named(fn, s \o t) # Named(fn, s) \o Named(fn, t)}
           T == {y \in S : y.fn = fn}
<1>1. SUFFICES ASSUME bad # {} PROVE FALSE OBVIOUS
<1>2. PICK t \in bad : t = <<>> \/ \E u \in Seq(S) \ bad, x \in S : t = Append(u, x)
  <2>1. bad \in SUBSET Seq(S) OBVIOUS
  <2> HIDE DEF bad
  <2> QED BY <1>1, <2>1, ShortestOf
<1>3. Named(fn, s \o t) # Named(fn, s) \o Named(fn, t) OBVIOUS
<1>4. Named(fn, s) \in Seq(T) BY NamedType
<1>5. t # <<>>
  <2> DEFINE a == Named(fn, s)
  <2>1. s \o <<>> = s BY ConcatEmptySeq
  <2>2. a \o <<>> = a
    <3>1. a \in Seq(T) BY <1>4
    <3> HIDE DEF a, T
    <3> QED BY <3>1, ConcatEmptySeq
  <2> QED BY <1>3, <2>1, <2>2, NamedEmpty
<1>6. PICK u \in Seq(S) \ bad, x \in S : t = Append(u, x) BY <1>2, <1>5
<1>7. u \in Seq(S) /\ Named(fn, s \o u) = Named(fn, s) \o Named(fn, u) BY <1>6
<1> HIDE DEF bad
<1> DEFINE a == Named(fn, s)
           b == Named(fn, u)
           w == s \o u
<1>8. Named(fn, t) = IF x.fn = fn THEN Append(b, x) ELSE b BY <1>6, <1>7, NamedAppend
<1>9. s \o t = Append(w, x) /\ w \in Seq(S) BY <1>6, <1>7, ConcatAppend
<1>10. Named(fn, w) = a \o b BY <1>7
<1>11. a \in Seq(T) /\ b \in Seq(T) /\ (x.fn = fn => x \in T) BY <1>7, NamedType
<1>12. Named(fn, s \o t) # a \o Named(fn, t) BY <1>3
<1> HIDE DEF a, b, T, w
<1>13. Named(fn, Append(w, x)) = IF x.fn = fn THEN Append(Named(fn, w), x) ELSE Named(fn, w)
  BY <1>9, NamedAppend
<1>14. x.fn = fn => a \o Append(b, x) = Append(a \o b, x) BY <1>11, ConcatAppend
<1> QED BY <1>8, <1>9, <1>10, <1>12, <1>13, <1>14

\* Where no call is of the function nothing is selected,
LEMMA NamedNone ==
  ASSUME NEW S, NEW fn, NEW s \in Seq(S), \A i \in 1 .. Len(s) : s[i].fn # fn
  PROVE  Named(fn, s) = <<>>
<1> DEFINE T == {x \in S : x.fn # fn}
           bad == {t \in Seq(T) : Named(fn, t) # <<>>}
<1>1. s \in Seq(T)
  <2>1. \A i \in 1 .. Len(s) : s[i] \in T OBVIOUS
  <2> HIDE DEF T
  <2> QED BY <2>1
<1>2. SUFFICES ASSUME bad # {} PROVE FALSE BY <1>1
<1>3. PICK t \in bad : t = <<>> \/ \E u \in Seq(T) \ bad, x \in T : t = Append(u, x)
  <2>1. bad \in SUBSET Seq(T) OBVIOUS
  <2> HIDE DEF bad, T
  <2> QED BY <1>2, <2>1, ShortestOf
<1>4. t # <<>> BY NamedEmpty
<1>5. PICK u \in Seq(T) \ bad, x \in T : t = Append(u, x) BY <1>3, <1>4
<1>6. u \in Seq(T) /\ Named(fn, u) = <<>> /\ Named(fn, t) # <<>> /\ x.fn # fn BY <1>5
<1> HIDE DEF bad, T
<1>7. Named(fn, Append(u, x)) = Named(fn, u) BY <1>5, <1>6, NamedAppend
<1> QED BY <1>5, <1>6, <1>7

\* and where every call is, everything.
LEMMA NamedAll ==
  ASSUME NEW S, NEW fn, NEW s \in Seq(S), \A i \in 1 .. Len(s) : s[i].fn = fn
  PROVE  Named(fn, s) = s
<1> DEFINE T == {x \in S : x.fn = fn}
           bad == {t \in Seq(T) : Named(fn, t) # t}
<1>1. s \in Seq(T)
  <2>1. \A i \in 1 .. Len(s) : s[i] \in T OBVIOUS
  <2> HIDE DEF T
  <2> QED BY <2>1
<1>2. SUFFICES ASSUME bad # {} PROVE FALSE BY <1>1
<1>3. PICK t \in bad : t = <<>> \/ \E u \in Seq(T) \ bad, x \in T : t = Append(u, x)
  <2>1. bad \in SUBSET Seq(T) OBVIOUS
  <2> HIDE DEF bad, T
  <2> QED BY <1>2, <2>1, ShortestOf
<1>4. t # <<>> BY NamedEmpty
<1>5. PICK u \in Seq(T) \ bad, x \in T : t = Append(u, x) BY <1>3, <1>4
<1>6. u \in Seq(T) /\ Named(fn, u) = u /\ Named(fn, t) # t /\ x.fn = fn BY <1>5
<1> HIDE DEF bad, T
<1>7. Named(fn, Append(u, x)) = Append(Named(fn, u), x) BY <1>5, <1>6, NamedAppend
<1> QED BY <1>5, <1>6, <1>7

\* s is t as far as it goes.
Begins(s, t) == Len(s) <= Len(t) /\ \A i \in 1 .. Len(s) : s[i] = t[i]

\* The first calls of a sequence, and one more.
LEMMA FirstCalls ==
  ASSUME NEW S, NEW s \in Seq(S), NEW q \in 0 .. Len(s)
  PROVE  /\ SubSeq(s, 1, q) \in Seq(S) /\ SubSeq(s, q + 1, Len(s)) \in Seq(S)
         /\ Len(SubSeq(s, 1, q)) = q
         /\ s = SubSeq(s, 1, q) \o SubSeq(s, q + 1, Len(s))
         /\ q < Len(s) => SubSeq(s, 1, q + 1) = Append(SubSeq(s, 1, q), s[q + 1])
<1>0. Len(s) \in Nat /\ q \in Nat OBVIOUS
<1>1. SubSeq(s, 1, q) \in Seq(S) /\ SubSeq(s, q + 1, Len(s)) \in Seq(S) /\ Len(SubSeq(s, 1, q)) = q
  OBVIOUS
<1>2. SubSeq(s, 1, q) \o SubSeq(s, q + 1, Len(s)) = SubSeq(s, 1, Len(s))
  <2>1. 1 \in 1 .. Len(s) + 1 /\ q \in 1 - 1 .. Len(s) /\ Len(s) \in q .. Len(s) BY <1>0
  <2> QED BY <2>1, ConcatAdjacentSubSeq
<1>3. SubSeq(s, 1, Len(s)) = s BY SubSeqFull
<1>4. ASSUME q < Len(s) PROVE SubSeq(s, 1, q + 1) = Append(SubSeq(s, 1, q), s[q + 1])
  <2>1. 1 \in 1 .. Len(s) /\ q + 1 \in 1 .. Len(s) /\ q + 1 - 1 = q BY <1>0, <1>4
  <2>2. SubSeq(s, 1, q + 1) = SubSeq(s, 1, q) \o <<s[q + 1]>>
    <3> DEFINE m == q + 1
    <3>1. m \in 1 .. Len(s) /\ m - 1 = q BY <2>1
    <3> HIDE DEF m
    <3>2. SubSeq(s, 1, m) = SubSeq(s, 1, m - 1) \o <<s[m]>> BY <2>1, <3>1, SubSeqRecursiveSecond
    <3> QED BY <3>1, <3>2 DEF m
  <2>3. s[q + 1] \in S BY <2>1
  <2> QED BY <1>1, <2>2, <2>3, AppendIsConcat
<1> QED BY <1>1, <1>2, <1>3, <1>4

\* The calls of a function among the first q begin those among all.
LEMMA NamedFirst ==
  ASSUME NEW S, NEW fn, NEW s \in Seq(S), NEW q \in 0 .. Len(s)
  PROVE  Begins(Named(fn, SubSeq(s, 1, q)), Named(fn, s))
<1> DEFINE u == SubSeq(s, 1, q)
           v == SubSeq(s, q + 1, Len(s))
           a == Named(fn, u)
           b == Named(fn, v)
           T == {x \in S : x.fn = fn}
<1>1. u \in Seq(S) /\ v \in Seq(S) /\ s = u \o v BY FirstCalls
<1> HIDE DEF u, v
<1>2. Named(fn, s) = a \o b BY <1>1, NamedConcat
<1>3. a \in Seq(T) /\ b \in Seq(T) BY <1>1, NamedType
<1> HIDE DEF a, b, T
<1>4. Begins(a, a \o b) BY <1>3 DEF Begins
<1> QED BY <1>2, <1>4 DEF a, u

-----------------------------------------------------------------------------
(* What a manifest is compiled into *)

\* it is the concatenation of the first n sequences.
Flattens(it, seqs, n) ==
  it = [k \in 1 .. n |-> IF k = 1 THEN seqs[k] ELSE it[k - 1] \o seqs[k]]

\* The recursion that FlattenSeq stands for, a step of it.
LEMMA FlattensStep ==
  ASSUME NEW it, NEW seqs, NEW n \in Nat, Flattens(it, seqs, n), NEW k \in 1 .. n
  PROVE  it[k] = IF k = 1 THEN seqs[k] ELSE it[k - 1] \o seqs[k]
<1> DEFINE body == [j \in 1 .. n |-> IF j = 1 THEN seqs[j] ELSE it[j - 1] \o seqs[j]]
<1>1. it = body BY DEF Flattens
<1>2. body[k] = IF k = 1 THEN seqs[k] ELSE it[k - 1] \o seqs[k] OBVIOUS
<1> HIDE DEF body
<1> QED BY <1>1, <1>2

\* There is such a recursion, for every length.
LEMMA FlattensExists ==
  ASSUME NEW seqs, NEW n \in Nat \ {0}
  PROVE  \E it : Flattens(it, seqs, n)
<1> DEFINE bad == {k \in Nat \ {0} : ~\E it : Flattens(it, seqs, k)}
<1> SUFFICES ASSUME bad # {} PROVE FALSE OBVIOUS
<1>1. PICK m \in bad : \A k \in bad : m <= k
  <2> HIDE DEF bad
  <2>1. bad \in SUBSET Nat BY DEF bad
  <2> QED BY <2>1, LeastOf
<1>2. m \in Nat \ {0} /\ ~\E it : Flattens(it, seqs, m) OBVIOUS
<1>3. m # 1
  <2> SUFFICES ASSUME m = 1 PROVE FALSE OBVIOUS
  <2> DEFINE it == [k \in 1 .. 1 |-> seqs[k]]
  <2>1. it = [k \in 1 .. 1 |-> IF k = 1 THEN seqs[k] ELSE it[k - 1] \o seqs[k]] OBVIOUS
  <2> HIDE DEF it
  <2>2. Flattens(it, seqs, 1) BY <2>1 DEF Flattens
  <2> QED BY <1>2, <2>2
<1>4. m - 1 \in Nat \ {0} /\ m - 1 \notin bad BY <1>1, <1>2, <1>3
<1>5. PICK g : Flattens(g, seqs, m - 1) BY <1>4
<1> DEFINE it == [k \in 1 .. m |-> IF k < m THEN g[k] ELSE g[m - 1] \o seqs[m]]
<1>6. ASSUME NEW k \in 1 .. m
      PROVE  it[k] = IF k = 1 THEN seqs[k] ELSE it[k - 1] \o seqs[k]
  <2>1. CASE k = m
    <3> DEFINE joined == g[m - 1] \o seqs[m]
    <3>1. it[m] = joined
      <4>1. it = [j \in 1 .. m |-> IF j < m THEN g[j] ELSE joined] OBVIOUS
      <4> HIDE DEF joined, it
      <4> QED BY <1>2, <4>1
    <3>2. it[m - 1] = g[m - 1] BY <1>2, <1>3, <2>1
    <3> HIDE DEF it
    <3> QED BY <1>3, <2>1, <3>1, <3>2
  <2>2. CASE k < m
    <3>1. k \in 1 .. m - 1 BY <1>2, <2>2
    <3>2. it[k] = g[k] BY <2>2
    <3>3. k # 1 => it[k - 1] = g[k - 1] BY <1>2, <2>2
    <3>4. g[k] = IF k = 1 THEN seqs[k] ELSE g[k - 1] \o seqs[k]
      BY <1>4, <1>5, <3>1, FlattensStep
    <3> HIDE DEF it
    <3> QED BY <3>2, <3>3, <3>4
  <2> QED BY <1>2, <2>1, <2>2
<1>7. it = [k \in 1 .. m |-> it[k]] OBVIOUS
<1> HIDE DEF it
<1>8. Flattens(it, seqs, m) BY <1>6, <1>7 DEF Flattens
<1> QED BY <1>2, <1>8

\* Sequences of the same set, put together, are a sequence of it.
LEMMA FlattenType ==
  ASSUME NEW S, NEW seqs \in Seq(Seq(S))
  PROVE  FlattenSeq(seqs) \in Seq(S)
<1> DEFINE n == Len(seqs)
<1>1. CASE n = 0
  <2>1. seqs = <<>> BY <1>1
  <2> QED BY <1>1, <2>1 DEF FlattenSeq
<1>2. CASE n # 0
  <2>1. n \in Nat \ {0} /\ n \in 1 .. n BY <1>2
  <2> HIDE DEF n
  <2>2. Flattens(CHOOSE x : Flattens(x, seqs, n), seqs, n) BY <2>1, FlattensExists
  <2>3. FlattenSeq(seqs) = (CHOOSE x : Flattens(x, seqs, n))[n]
    BY <1>2 DEF FlattenSeq, Flattens, n
  <2> DEFINE it == CHOOSE x : Flattens(x, seqs, n)
             bad == {k \in 1 .. n : it[k] \notin Seq(S)}
  <2>4. Flattens(it, seqs, n) BY <2>2
  <2> HIDE DEF it
  <2>5. SUFFICES ASSUME bad # {} PROVE FALSE BY <2>1, <2>3 DEF it
  <2>6. PICK k \in bad : \A j \in bad : k <= j
    <3> HIDE DEF bad
    <3>1. bad \in SUBSET Nat BY DEF bad
    <3> QED BY <2>5, <3>1, LeastOf
  <2>7. k \in 1 .. n /\ it[k] \notin Seq(S) OBVIOUS
  <2>8. it[k] = IF k = 1 THEN seqs[k] ELSE it[k - 1] \o seqs[k] BY <2>1, <2>4, <2>7, FlattensStep
  <2>9. seqs[k] \in Seq(S) BY <2>7 DEF n
  <2>10. k # 1 => k - 1 \in 1 .. n /\ k - 1 \notin bad BY <2>1, <2>6, <2>7
  <2>11. k # 1 => it[k - 1] \in Seq(S) BY <2>10
  <2> HIDE DEF bad
  <2> DEFINE a == it[k - 1]
             b == seqs[k]
  <2>12. k # 1 => a \o b \in Seq(S)
    <3> HIDE DEF a, b
    <3>1. b \in Seq(S) /\ (k # 1 => a \in Seq(S)) BY <2>9, <2>11 DEF a, b
    <3> QED BY <3>1
  <2> QED BY <2>7, <2>8, <2>9, <2>12
<1> QED BY <1>1, <1>2

Adds == {"add_policy_resource", "add_policy_rule", "add_policy_effect"}

ManifestType ==
  [target: Targets, key: PolicyKeys, resources: Seq(Resources), rules: Seq(RuleType),
   effects: Seq([rule: RuleIds, effect: Effects])]

\* The projection of a manifest that compiles has a manifest's form.
LEMMA ProjectionType ==
  ASSUME NEW apm \in ApmType, Compiles(apm)
  PROVE  Projection(apm) \in ManifestType
<1> DEFINE RuleIn == [id : RuleIds, module : RuleIds, kind : VALID_RULE_KINDS,
                      provisional : BOOLEAN, bounty : Nat, effects : Seq(Effects)]
           X == [rule: RuleIds, effect: Effects]
           m == Projection(apm)
<1>1. /\ apm.rules \in Seq(RuleIn) /\ apm.resources \in Seq(Resources)
      /\ apm.target \in Targets /\ apm.policyId \in PolicyKeys
      /\ apm.judges \in [RuleIds -> Judges] \cup {<<>>}
  BY DEF ApmType
<1>2. \A i \in DOMAIN apm.rules : apm.rules[i].module \in DOMAIN apm.judges
  BY DEF Compiles, Projects, ToSet
<1> DEFINE rules == apm.rules
           judges == apm.judges
           len == Len(rules)
<1>3. DOMAIN rules = 1 .. len /\ len \in Nat /\ \A i \in 1 .. len : rules[i] \in RuleIn
  <2>1. rules \in Seq(RuleIn) BY <1>1
  <2> HIDE DEF rules, RuleIn
  <2> QED BY <2>1
<1>4. \A i \in 1 .. len : judges[rules[i].module] \in Judges
  <2> SUFFICES ASSUME NEW i \in 1 .. len PROVE judges[rules[i].module] \in Judges OBVIOUS
  <2>1. rules[i].module \in DOMAIN judges BY <1>2, <1>3
  <2> HIDE DEF rules, judges
  <2>2. judges # <<>> BY <2>1
  <2>3. judges \in [RuleIds -> Judges] BY <1>1, <2>2 DEF judges
  <2> QED BY <2>1, <2>3
<1>5. \A i \in 1 .. len : RuleManifest(apm, rules[i]) \in RuleType
  <2> HIDE DEF rules, judges, len
  <2>1. judges = apm.judges BY DEF judges
  <2> QED BY <1>3, <1>4, <2>1 DEF RuleManifest, RuleType
<1>6. \A i \in 1 .. len : EffectManifests(rules[i]) \in Seq(X)
  <2> SUFFICES ASSUME NEW i \in 1 .. len PROVE EffectManifests(rules[i]) \in Seq(X) OBVIOUS
  <2> DEFINE r == rules[i]
  <2>1. r.id \in RuleIds /\ r.effects \in Seq(Effects) BY <1>3
  <2> HIDE DEF rules, r
  <2> DEFINE es == r.effects
  <2>2. Len(es) \in Nat /\ DOMAIN es = 1 .. Len(es) /\ \A k \in 1 .. Len(es) : es[k] \in Effects
    BY <2>1
  <2> HIDE DEF es
  <2>3. [k \in 1 .. Len(es) |-> [rule |-> r.id, effect |-> es[k]]] \in Seq(X) BY <2>1, <2>2
  <2> QED BY <2>2, <2>3 DEF EffectManifests, es, r
<1> HIDE DEF len
<1> DEFINE rs == [i \in DOMAIN rules |-> RuleManifest(apm, rules[i])]
           ess == [i \in DOMAIN rules |-> EffectManifests(rules[i])]
<1>7. rs \in Seq(RuleType)
  <2>1. rs = [i \in 1 .. len |-> RuleManifest(apm, rules[i])] BY <1>3
  <2> HIDE DEF rs, rules
  <2> QED BY <1>3, <1>5, <2>1
<1>8. ess \in Seq(Seq(X))
  <2>1. ess = [i \in 1 .. len |-> EffectManifests(rules[i])] BY <1>3
  <2> HIDE DEF ess, rules, X
  <2> QED BY <1>3, <1>6, <2>1
<1>9. FlattenSeq(ess) \in Seq(X)
  <2> HIDE DEF ess, X
  <2> QED BY <1>8, FlattenType
<1>10. m = [target |-> apm.target, key |-> apm.policyId, resources |-> apm.resources,
            rules |-> rs, effects |-> FlattenSeq(ess)]
  BY DEF Projection
<1> HIDE DEF rs, ess, m
<1>11. m \in ManifestType BY <1>1, <1>7, <1>9, <1>10 DEF ManifestType
<1> QED BY <1>11 DEF m

\* The calls that add to the policy under key.
AddCalls(key) ==
  [fn: {"add_policy_resource"}, key: {key}, resource: Resources]
    \cup [fn: {"add_policy_rule"}, key: {key}, rule: RuleType]
    \cup [fn: {"add_policy_effect"}, key: {key}, rule: RuleIds, effect: Effects]

\* The calls that add to a policy are calls, and name it.
LEMMA AddCallsAre ==
  ASSUME NEW key \in PolicyKeys, NEW c \in AddCalls(key)
  PROVE  c \in CallType /\ c.fn \in Adds /\ c.key = key
<1>1. CASE c \in [fn: {"add_policy_resource"}, key: {key}, resource: Resources]
  BY <1>1 DEF CallType, Adds
<1>2. CASE c \in [fn: {"add_policy_rule"}, key: {key}, rule: RuleType]
  BY <1>2 DEF CallType, Adds
<1>3. CASE c \in [fn: {"add_policy_effect"}, key: {key}, rule: RuleIds, effect: Effects]
  BY <1>3 DEF CallType, Adds
<1> QED BY <1>1, <1>2, <1>3 DEF AddCalls

\* What scripts and page are given compiles (PolicyCompiler's assumption on each).
LEMMA AuthorsCompile ==
  ASSUME NEW apm \in Authors PROVE apm \in ApmType /\ Compiles(apm)
BY ScriptsAssumption, JourneyAssumption DEF Authors

\* Each part of the plan adds to the policy.
LEMMA AddCallsCompiled ==
  ASSUME NEW m \in ManifestType
  PROVE  /\ ResourceCalls(m) \in Seq(AddCalls(m.key)) /\ RuleCalls(m) \in Seq(AddCalls(m.key))
         /\ EffectCalls(m) \in Seq(AddCalls(m.key))
<1> DEFINE A == AddCalls(m.key)
           rs == m.resources
           us == m.rules
           es == m.effects
<1>1. /\ m.key \in PolicyKeys /\ rs \in Seq(Resources) /\ us \in Seq(RuleType)
      /\ es \in Seq([rule: RuleIds, effect: Effects])
  BY DEF ManifestType
<1>2. /\ DOMAIN rs = 1 .. Len(rs) /\ Len(rs) \in Nat
      /\ \A i \in 1 .. Len(rs) : rs[i] \in Resources
  BY <1>1
<1>3. /\ DOMAIN us = 1 .. Len(us) /\ Len(us) \in Nat
      /\ \A i \in 1 .. Len(us) : us[i] \in RuleType
  BY <1>1
<1>4. /\ DOMAIN es = 1 .. Len(es) /\ Len(es) \in Nat
      /\ \A i \in 1 .. Len(es) : es[i].rule \in RuleIds /\ es[i].effect \in Effects
  <2> DEFINE X == [rule: RuleIds, effect: Effects]
  <2>1. \A i \in 1 .. Len(es) : es[i] \in X
    <3>1. es \in Seq(X) BY <1>1
    <3> HIDE DEF es, X
    <3> QED BY <3>1
  <2> HIDE DEF es
  <2>2. es \in Seq(X) BY <1>1
  <2>3. DOMAIN es = 1 .. Len(es) /\ Len(es) \in Nat
    <3> HIDE DEF X
    <3> QED BY <2>2
  <2> QED BY <2>1, <2>3
<1> HIDE DEF rs, us, es
<1> DEFINE r(i) == [fn |-> "add_policy_resource", key |-> m.key, resource |-> rs[i]]
           u(i) == [fn |-> "add_policy_rule", key |-> m.key, rule |-> us[i]]
           e(i) == [fn |-> "add_policy_effect", key |-> m.key, rule |-> es[i].rule,
                    effect |-> es[i].effect]
<1>5. \A i \in 1 .. Len(rs) : r(i) \in A BY <1>2 DEF AddCalls
<1>6. \A i \in 1 .. Len(us) : u(i) \in A BY <1>3 DEF AddCalls
<1>7. \A i \in 1 .. Len(es) : e(i) \in A BY <1>4 DEF AddCalls
<1>8. /\ ResourceCalls(m) = [i \in 1 .. Len(rs) |-> r(i)]
      /\ RuleCalls(m) = [i \in 1 .. Len(us) |-> u(i)]
      /\ EffectCalls(m) = [i \in 1 .. Len(es) |-> e(i)]
  BY <1>2, <1>3, <1>4 DEF ResourceCalls, RuleCalls, EffectCalls, rs, us, es
<1> HIDE DEF A, r, u, e
<1>9. /\ [i \in 1 .. Len(rs) |-> r(i)] \in Seq(A) /\ [i \in 1 .. Len(us) |-> u(i)] \in Seq(A)
      /\ [i \in 1 .. Len(es) |-> e(i)] \in Seq(A)
  BY <1>2, <1>3, <1>4, <1>5, <1>6, <1>7
<1> QED BY <1>8, <1>9 DEF A

\* s is a call first, followed by calls of A.
StartsWith(s, first, A) ==
  /\ s \in Seq(A \cup {first}) /\ s # <<>> /\ s[1] = first
  /\ \A i \in 2 .. Len(s) : s[i] \in A

\* A sequence that starts with the first call and goes on in A does so with more of A.
LEMMA StartsWithMore ==
  ASSUME NEW s, NEW first, NEW A, StartsWith(s, first, A), NEW t \in Seq(A)
  PROVE  StartsWith(s \o t, first, A)
<1>1. s \in Seq(A \cup {first}) /\ s # <<>> /\ s[1] = first /\ \A i \in 2 .. Len(s) : s[i] \in A
  BY DEF StartsWith
<1>2. t \in Seq(A \cup {first}) OBVIOUS
<1> DEFINE w == s \o t
<1>3. /\ w \in Seq(A \cup {first}) /\ Len(w) = Len(s) + Len(t) /\ Len(s) \in Nat /\ Len(t) \in Nat
      /\ \A i \in 1 .. Len(w) : w[i] = IF i <= Len(s) THEN s[i] ELSE t[i - Len(s)]
  BY <1>1, <1>2
<1> HIDE DEF w
<1>4. Len(s) >= 1 BY <1>1
<1>5. w # <<>> /\ w[1] = first BY <1>1, <1>3, <1>4
<1>6. ASSUME NEW i \in 2 .. Len(w) PROVE w[i] \in A
  <2>1. CASE i <= Len(s) BY <1>1, <1>3, <2>1
  <2>2. CASE i > Len(s)
    <3>1. i - Len(s) \in 1 .. Len(t) BY <1>3, <2>2
    <3> QED BY <1>3, <2>2, <3>1
  <2> QED BY <1>3, <2>1, <2>2
<1>7. StartsWith(w, first, A) BY <1>3, <1>5, <1>6 DEF StartsWith
<1> QED BY <1>7 DEF w

\* The plan begins the policy, adds to it, and seals it.
LEMMA PlanFacts ==
  ASSUME NEW apm \in Authors
  PROVE  LET plan == CompiledCalls(apm) IN
         /\ plan \in Seq(CallType) /\ Len(plan) >= 2
         /\ plan[1] = BeginCall(apm) /\ plan[Len(plan)] = SealCall(apm.policyId)
         /\ \A i \in 2 .. Len(plan) - 1 : plan[i].fn \in Adds
         /\ \A i \in 1 .. Len(plan) : plan[i].key = apm.policyId
<1> DEFINE m == Projection(apm)
           key == apm.policyId
           A == AddCalls(key)
           B == BeginCall(apm)
           S == SealCall(key)
           plan == CompiledCalls(apm)
           adding == <<B>> \o ResourceCalls(m) \o RuleCalls(m) \o EffectCalls(m)
<1>1. apm \in ApmType /\ Compiles(apm) /\ key \in PolicyKeys BY AuthorsCompile DEF ApmType
<1>2. m \in ManifestType /\ m.key = key BY <1>1, ProjectionType DEF Projection
<1>3. B \in CallType /\ B.key = key BY <1>1 DEF CallType, BeginCall
<1>4. S \in CallType /\ S.key = key BY <1>1 DEF CallType, SealCall
<1>5. \A c \in A : c \in CallType /\ c.fn \in Adds /\ c.key = key BY <1>1, AddCallsAre
<1>6. StartsWith(adding, B, A)
  <2> DEFINE r == ResourceCalls(m)
             u == RuleCalls(m)
             e == EffectCalls(m)
  <2>1. r \in Seq(A) /\ u \in Seq(A) /\ e \in Seq(A)
    <3> HIDE DEF m
    <3> QED BY <1>2, AddCallsCompiled
  <2> HIDE DEF r, u, e, A, B
  <2>2. StartsWith(<<B>>, B, A) BY DEF StartsWith
  <2>3. StartsWith(<<B>> \o r, B, A) BY <2>1, <2>2, StartsWithMore
  <2>4. StartsWith(<<B>> \o r \o u, B, A) BY <2>1, <2>3, StartsWithMore
  <2>5. StartsWith(<<B>> \o r \o u \o e, B, A) BY <2>1, <2>4, StartsWithMore
  <2> QED BY <2>5 DEF r, u, e
<1>7. plan = adding \o <<S>>
  <2>1. m.key = key BY <1>2
  <2> QED BY <2>1 DEF CompiledCalls
<1> HIDE DEF adding, B, S, A, plan, key
<1>8. /\ adding \in Seq(A \cup {B}) /\ adding # <<>> /\ adding[1] = B
      /\ \A i \in 2 .. Len(adding) : adding[i] \in A
  BY <1>6 DEF StartsWith
<1>9. adding \in Seq(CallType) /\ \A i \in 1 .. Len(adding) : adding[i].key = key
  <2>1. \A i \in 1 .. Len(adding) : adding[i] \in CallType /\ adding[i].key = key
    BY <1>3, <1>5, <1>8
  <2> QED BY <1>8, <2>1
<1> DEFINE n == Len(adding)
<1>10. n \in Nat /\ n >= 1 BY <1>8
<1>11. /\ plan \in Seq(CallType) /\ Len(plan) = n + 1 /\ plan[n + 1] = S
       /\ \A i \in 1 .. n : plan[i] = adding[i]
  BY <1>4, <1>7, <1>9
<1> HIDE DEF n
<1>12. plan[1] = B BY <1>8, <1>10, <1>11
<1>13. \A i \in 2 .. Len(plan) - 1 : plan[i].fn \in Adds BY <1>5, <1>8, <1>10, <1>11 DEF n
<1>14. \A i \in 1 .. Len(plan) : plan[i].key = key
  <2> SUFFICES ASSUME NEW i \in 1 .. Len(plan) PROVE plan[i].key = key OBVIOUS
  <2>1. CASE i = n + 1 BY <1>4, <1>11, <2>1
  <2>2. CASE i \in 1 .. n BY <1>9, <1>11, <2>2 DEF n
  <2> QED BY <1>10, <1>11, <2>1, <2>2
<1>15. Len(plan) >= 2 /\ plan[Len(plan)] = S BY <1>10, <1>11
<1> QED BY <1>11, <1>12, <1>13, <1>14, <1>15 DEF plan, B, S, key

-----------------------------------------------------------------------------
(* What a call does to the policy it names *)

Versions(t) == {policies[k].version : k \in PoliciesOf(t)} \cup {0}
Latest(t) == CHOOSE v \in Versions(t) : \A w \in Versions(t) : w <= v

\* The version a policy is given when it is begun is a number.
LEMMA LatestVersion ==
  ASSUME WritesTypeOK, NEW t
  PROVE  Latest(t) \in Nat
<1> DEFINE V == Versions(t)
<1>1. V \in SUBSET Nat /\ V # {} BY DEF Versions, PoliciesOf, WritesTypeOK, BuildRecord
<1>2. PICK n \in Nat : \A pk \in PolicyKeys : policies[pk].version <= n BY DEF WritesTypeOK
<1>3. \A v \in V : v <= n BY <1>2 DEF Versions, PoliciesOf
<1> HIDE DEF V
<1> DEFINE below == {n - v : v \in V}
<1>4. below \in SUBSET Nat /\ below # {}
  <2>1. \A v \in V : n - v \in Nat BY <1>1, <1>3
  <2> QED BY <1>1, <2>1
<1>5. PICK m \in below : \A k \in below : m <= k
  <2> HIDE DEF below
  <2> QED BY <1>4, LeastOf
<1>6. PICK v \in V : m = n - v OBVIOUS
<1>7. \A w \in V : n - v <= n - w BY <1>5, <1>6
<1>8. \A w \in V : w <= v BY <1>1, <1>6, <1>7
<1>9. (CHOOSE x \in V : \A w \in V : w <= x) \in V BY <1>8
<1> QED BY <1>1, <1>9 DEF V, Latest

\* One element more.
LEMMA ToSetAppend ==
  ASSUME NEW S, NEW s \in Seq(S), NEW x \in S
  PROVE  ToSet(Append(s, x)) = ToSet(s) \cup {x}
<1> DEFINE t == Append(s, x)
           n == Len(s)
<1>1. /\ n \in Nat /\ DOMAIN s = 1 .. n /\ DOMAIN t = 1 .. n + 1 /\ t[n + 1] = x
      /\ \A k \in 1 .. n : t[k] = s[k]
  OBVIOUS
<1> HIDE DEF t, n
<1>2. ASSUME NEW y \in ToSet(t) PROVE y \in ToSet(s) \cup {x}
  <2>1. PICK k \in 1 .. n + 1 : y = t[k] BY <1>1, <1>2 DEF ToSet
  <2>2. k = n + 1 \/ k \in 1 .. n BY <1>1
  <2> QED BY <1>1, <2>1, <2>2 DEF ToSet
<1>3. ASSUME NEW y \in ToSet(s) PROVE y \in ToSet(t)
  <2>1. PICK k \in 1 .. n : y = s[k] BY <1>1, <1>3 DEF ToSet
  <2>2. k \in 1 .. n + 1 BY <1>1
  <2> QED BY <1>1, <2>1, <2>2 DEF ToSet
<1>4. x \in ToSet(t)
  <2>1. n + 1 \in 1 .. n + 1 BY <1>1
  <2> QED BY <1>1, <2>1 DEF ToSet
<1>5. ToSet(t) = ToSet(s) \cup {x} BY <1>2, <1>3, <1>4
<1> QED BY <1>5 DEF t

\* new is pol with what call c adds to it.
Grows(pol, new, c) ==
  /\ new.resources = IF c.fn = "add_policy_resource" THEN pol.resources \cup {c.resource}
                     ELSE pol.resources
  /\ new.rules = IF c.fn = "add_policy_rule" THEN pol.rules \cup {c.rule} ELSE pol.rules
  /\ new.effects = IF c.fn = "add_policy_effect"
                   THEN pol.effects \cup {[rule |-> c.rule, effect |-> c.effect]}
                   ELSE pol.effects
  /\ new.sealed = IF c.fn = "seal_policy" THEN TRUE ELSE pol.sealed

\* A policy that grew by what a call adds holds one call more.
LEMMA HoldsMore ==
  ASSUME NEW pol, NEW new, NEW s, NEW c, HoldsCalls(pol, s), Grows(pol, new, c)
  PROVE  HoldsCalls(new, s \cup {c})
<1> DEFINE u == s \cup {c}
<1>1. ASSUME NEW d \in u
      PROVE  /\ d.fn = "add_policy_resource" => d.resource \in new.resources
             /\ d.fn = "add_policy_rule" => d.rule \in new.rules
             /\ d.fn = "add_policy_effect" => [rule |-> d.rule, effect |-> d.effect] \in new.effects
             /\ d.fn = "seal_policy" => new.sealed
  <2>1. CASE d = c BY <2>1 DEF Grows
  <2>2. CASE d \in s BY <2>2 DEF HoldsCalls, Grows
  <2> QED BY <2>1, <2>2
<1>2. ASSUME NEW res \in new.resources PROVE \E d \in u : d.fn = "add_policy_resource" /\ d.resource = res
  BY DEF HoldsCalls, Grows
<1>3. ASSUME NEW rule \in new.rules PROVE \E d \in u : d.fn = "add_policy_rule" /\ d.rule = rule
  BY DEF HoldsCalls, Grows
<1>4. new.sealed => \E d \in u : d.fn = "seal_policy" BY DEF HoldsCalls, Grows
<1> QED BY <1>1, <1>2, <1>3, <1>4 DEF HoldsCalls

\* A step by which call c takes effect on policy pk, and no other gains or loses contents.
Filled(c) ==
  /\ policies' \in [PolicyKeys -> BuildRecord]
  /\ \E n \in Nat : \A pk \in PolicyKeys : policies'[pk].version <= n
  /\ now' = now
  /\ Grows(policies[c.key], policies'[c.key], c) /\ policies'[c.key].version # 0
  /\ \A pk \in PolicyKeys \ {c.key} :
       /\ policies'[pk].version = policies[pk].version
       /\ policies'[pk].resources = policies[pk].resources
       /\ policies'[pk].rules = policies[pk].rules
       /\ policies'[pk].effects = policies[pk].effects
       /\ policies'[pk].sealed = policies[pk].sealed

\* The guards of a call, as far as the order of calls rests on them.
Admitted(c) ==
  LET pol == policies[c.key] IN
  /\ c.fn = "begin_policy" <=> ~Begun(c.key)
  /\ c.fn \in Adds \cup {"seal_policy"} => ~pol.sealed
  /\ c.fn = "activate_policy" => pol.sealed
  /\ c.fn = "add_policy_resource" => c.resource \notin pol.resources
  /\ c.fn = "add_policy_rule" => c.rule \notin pol.rules
  /\ c.fn = "add_policy_effect" => [rule |-> c.rule, effect |-> c.effect] \notin pol.effects

\* A step on one policy's record only.
LEMMA OneRecord ==
  ASSUME WritesTypeOK, NEW pk \in PolicyKeys, NEW rec \in BuildRecord, rec.version # 0,
         policies' = [policies EXCEPT ![pk] = rec], now' = now,
         NEW c, c.key = pk, Grows(policies[pk], rec, c)
  PROVE  Filled(c)
<1>1. policies \in [PolicyKeys -> BuildRecord] BY DEF WritesTypeOK
<1>2. policies' \in [PolicyKeys -> BuildRecord] BY <1>1
<1>3. policies'[pk] = rec /\ \A k \in PolicyKeys \ {pk} : policies'[k] = policies[k] BY <1>1
<1>4. \E n \in Nat : \A k \in PolicyKeys : policies'[k].version <= n
  <2>1. PICK n \in Nat : \A k \in PolicyKeys : policies[k].version <= n BY DEF WritesTypeOK
  <2>2. rec.version \in Nat BY DEF BuildRecord
  <2>3. n + rec.version \in Nat BY <2>2
  <2>4. \A k \in PolicyKeys : policies[k].version \in Nat BY <1>1 DEF BuildRecord
  <2>5. \A k \in PolicyKeys : policies'[k].version <= n + rec.version
    BY <1>3, <2>1, <2>2, <2>4
  <2> QED BY <2>3, <2>5
<1>5. policies'[pk].version # 0 BY <1>3
<1>6. Grows(policies[pk], policies'[pk], c) BY <1>3
<1> QED BY <1>2, <1>3, <1>4, <1>5, <1>6 DEF Filled

\* begin_policy fills one record, and finds it empty.
LEMMA BeginsOne ==
  ASSUME WritesTypeOK, NEW c \in CallType, c.fn = "begin_policy", Takes(c)
  PROVE  Filled(c) /\ Admitted(c)
<1> DEFINE pk == c.key
           t == c.target
           next == Latest(t) + 1
           rec == [policies[pk] EXCEPT !.target = t, !.version = next]
<1>1. pk \in PolicyKeys /\ t \in Targets BY DEF CallType, BeginCall, ApmType, ActivateCall
<1>2. BeginPolicy(pk, t) BY DEF Takes
<1>3. next \in Nat /\ next # 0
  <2>1. Latest(t) \in Nat BY LatestVersion
  <2> QED BY <2>1
<1>4. policies' = [policies EXCEPT ![pk].target = t, ![pk].version = next] /\ now' = now
  BY <1>2 DEF BeginPolicy, Latest, Versions
<1> HIDE DEF next, t
<1>5. policies[pk] \in BuildRecord BY <1>1 DEF WritesTypeOK
<1>6. rec \in BuildRecord /\ rec.version = next BY <1>1, <1>3, <1>5 DEF BuildRecord
<1>7. rec.version # 0 BY <1>3, <1>6
<1>8. Grows(policies[pk], rec, c) BY <1>5 DEF Grows, BuildRecord
<1>9. policies' = [policies EXCEPT ![pk] = rec] BY <1>4
<1>10. Admitted(c) BY <1>2 DEF Admitted, BeginPolicy, Adds
<1> HIDE DEF rec
<1> QED BY <1>1, <1>4, <1>6, <1>7, <1>8, <1>9, <1>10, OneRecord

\* The adding calls and the seal find the policy begun and not sealed.
LEMMA AddsOne ==
  ASSUME WritesTypeOK, NEW c \in CallType, Takes(c), c.fn \in Adds \cup {"seal_policy"}
  PROVE  Filled(c) /\ Admitted(c)
<1> DEFINE pk == c.key
           p == policies[pk]
<1>1. pk \in PolicyKeys BY DEF CallType, BeginCall, ApmType
<1>2. p \in BuildRecord BY <1>1 DEF WritesTypeOK
<1>3. CASE c.fn = "add_policy_resource"
  <2> DEFINE rec == [p EXCEPT !.resources = @ \cup {c.resource}]
  <2>1. c.resource \in Resources BY <1>3 DEF CallType, BeginCall
  <2>2. AddPolicyResource(pk, c.resource) BY <1>3 DEF Takes
  <2>3. policies' = [policies EXCEPT ![pk] = rec] /\ now' = now BY <2>2 DEF AddPolicyResource
  <2>4. rec \in BuildRecord /\ rec.version = p.version BY <1>2, <2>1 DEF BuildRecord
  <2>5. Grows(p, rec, c) BY <1>2, <1>3 DEF Grows, BuildRecord
  <2>6. p.version # 0 /\ Admitted(c)
    BY <1>3, <2>2 DEF AddPolicyResource, InDraft, Begun, Admitted, Adds
  <2> HIDE DEF rec
  <2> QED BY <1>1, <2>3, <2>4, <2>5, <2>6, OneRecord
<1>4. CASE c.fn = "add_policy_rule"
  <2> DEFINE rec == [p EXCEPT !.rules = @ \cup {c.rule}]
  <2>1. c.rule \in RuleType BY <1>4 DEF CallType, BeginCall
  <2>2. AddPolicyRule(pk, c.rule) BY <1>4 DEF Takes
  <2>3. policies' = [policies EXCEPT ![pk] = rec] /\ now' = now BY <2>2 DEF AddPolicyRule
  <2>4. rec \in BuildRecord /\ rec.version = p.version BY <1>2, <2>1 DEF BuildRecord
  <2>5. Grows(p, rec, c) BY <1>2, <1>4 DEF Grows, BuildRecord
  <2>6. p.version # 0 /\ Admitted(c)
    BY <1>4, <2>2 DEF AddPolicyRule, InDraft, Begun, Admitted, Adds
  <2> HIDE DEF rec
  <2> QED BY <1>1, <2>3, <2>4, <2>5, <2>6, OneRecord
<1>5. CASE c.fn = "add_policy_effect"
  <2> DEFINE rec == [p EXCEPT !.effects = @ \cup {[rule |-> c.rule, effect |-> c.effect]}]
  <2>1. c.rule \in RuleIds /\ c.effect \in Effects BY <1>5 DEF CallType, BeginCall
  <2>2. AddPolicyEffect(pk, c.rule, c.effect) BY <1>5 DEF Takes
  <2>3. policies' = [policies EXCEPT ![pk] = rec] /\ now' = now BY <2>2 DEF AddPolicyEffect
  <2>4. rec \in BuildRecord /\ rec.version = p.version BY <1>2, <2>1 DEF BuildRecord
  <2>5. Grows(p, rec, c) BY <1>2, <1>5 DEF Grows, BuildRecord
  <2>6. [rule |-> c.rule, effect |-> c.effect] \notin p.effects
    <3> SUFFICES ASSUME [rule |-> c.rule, effect |-> c.effect] \in p.effects PROVE FALSE
      OBVIOUS
    <3>1. c.effect \in EffectsOfRule(p, c.rule) BY DEF EffectsOfRule
    <3> QED BY <2>2, <3>1 DEF AddPolicyEffect
  <2>7. p.version # 0 /\ Admitted(c)
    BY <1>5, <2>2, <2>6 DEF AddPolicyEffect, InDraft, Begun, Admitted, Adds
  <2> HIDE DEF rec
  <2> QED BY <1>1, <2>3, <2>4, <2>5, <2>7, OneRecord
<1>6. CASE c.fn = "seal_policy"
  <2> DEFINE rec == [p EXCEPT !.sealed = TRUE, !.sealedAt = now]
  <2>1. now \in Nat BY DEF WritesTypeOK
  <2>2. SealPolicy(pk) BY <1>6 DEF Takes
  <2>3. policies' = [policies EXCEPT ![pk].sealed = TRUE, ![pk].sealedAt = now] /\ now' = now
    BY <2>2 DEF SealPolicy
  <2>4. policies' = [policies EXCEPT ![pk] = rec] BY <2>3
  <2>5. rec \in BuildRecord /\ rec.version = p.version BY <1>2, <2>1 DEF BuildRecord
  <2>6. Grows(p, rec, c) BY <1>2, <1>6 DEF Grows, BuildRecord
  <2>7. p.version # 0 /\ Admitted(c)
    BY <1>6, <2>2 DEF SealPolicy, InDraft, Begun, Admitted, Adds
  <2> HIDE DEF rec
  <2> QED BY <1>1, <2>3, <2>4, <2>5, <2>6, <2>7, OneRecord
<1> QED BY <1>3, <1>4, <1>5, <1>6 DEF Adds

\* Activation changes which policy is active, not what policies hold.
LEMMA ActivatesOne ==
  ASSUME WritesTypeOK, NEW c \in CallType, Takes(c), c.fn = "activate_policy"
  PROVE  Filled(c) /\ Admitted(c)
<1> DEFINE pk == c.key
           old == targets[policies[pk].target].activeKey
<1>1. pk \in PolicyKeys BY DEF CallType, BeginCall, ApmType
<1>2. policies \in [PolicyKeys -> BuildRecord] BY DEF WritesTypeOK
<1>3. ActivatePolicy(pk) BY DEF Takes
<1>4. /\ now' = now /\ Begun(pk) /\ policies[pk].sealed
      /\ policies' = [k \in PolicyKeys |->
           IF k = pk THEN [policies[k] EXCEPT !.active = TRUE]
           ELSE IF k = old THEN [policies[k] EXCEPT !.active = FALSE, !.superseded = TRUE]
           ELSE policies[k]]
  BY <1>3 DEF ActivatePolicy
<1> HIDE DEF old
<1>5. ASSUME NEW k \in PolicyKeys
      PROVE  /\ policies'[k] \in BuildRecord /\ policies'[k].version = policies[k].version
             /\ policies'[k].resources = policies[k].resources
             /\ policies'[k].rules = policies[k].rules
             /\ policies'[k].effects = policies[k].effects
             /\ policies'[k].sealed = policies[k].sealed
  <2>1. policies[k] \in BuildRecord BY <1>2
  <2>2. CASE k = pk
    <3>1. policies'[k] = [policies[k] EXCEPT !.active = TRUE] BY <1>4, <2>2
    <3> QED BY <2>1, <3>1 DEF BuildRecord
  <2>3. CASE k # pk /\ k = old
    <3>1. policies'[k] = [policies[k] EXCEPT !.active = FALSE, !.superseded = TRUE]
      BY <1>4, <2>3
    <3> QED BY <2>1, <3>1 DEF BuildRecord
  <2>4. CASE k # pk /\ k # old BY <1>4, <2>1, <2>4
  <2> QED BY <2>2, <2>3, <2>4
<1>6. policies' \in [PolicyKeys -> BuildRecord] BY <1>4, <1>5
<1>7. \E n \in Nat : \A k \in PolicyKeys : policies'[k].version <= n BY <1>5 DEF WritesTypeOK
<1>8. policies'[pk].version # 0 BY <1>1, <1>4, <1>5 DEF Begun
<1>9. Grows(policies[pk], policies'[pk], c) BY <1>1, <1>5 DEF Grows
<1>10. Admitted(c) BY <1>4 DEF Admitted, Adds
<1> QED BY <1>4, <1>5, <1>6, <1>7, <1>8, <1>9, <1>10 DEF Filled

\* Whichever call it is, it changes what it says of the policy it names.
LEMMA TakesFills ==
  ASSUME WritesTypeOK, NEW c \in CallType, Takes(c)
  PROVE  Filled(c) /\ Admitted(c) /\ c.key \in PolicyKeys
<1>1. c.key \in PolicyKeys BY DEF CallType, BeginCall, ApmType
<1>2. c.fn \in Adds \cup {"begin_policy", "seal_policy", "activate_policy"} BY DEF Takes, Adds
<1> QED BY <1>1, <1>2, BeginsOne, AddsOne, ActivatesOne

\* A call that took effect, other than an activation, does not take effect again.
LEMMA TakenIsNew ==
  ASSUME WritesTypeOK, ContentsOK, NEW c \in CallType, Takes(c), c.fn # "activate_policy"
  PROVE  c \notin ToSet(built[c.key])
<1>1. Admitted(c) /\ c.key \in PolicyKeys BY TakesFills
<1> DEFINE s == ToSet(built[c.key])
<1>2. HoldsCalls(policies[c.key], s) /\ (Begun(c.key) <=> built[c.key] # <<>>)
  BY <1>1 DEF ContentsOK
<1>3. SUFFICES ASSUME c \in s PROVE FALSE OBVIOUS
<1>4. built[c.key] # <<>> BY <1>3 DEF ToSet
<1> HIDE DEF s
<1>5. c.fn # "begin_policy" BY <1>1, <1>2, <1>4 DEF Admitted
<1>6. c.fn \in Adds \cup {"seal_policy"} BY <1>5 DEF Takes, Adds
<1> QED BY <1>1, <1>2, <1>3, <1>6 DEF Admitted, HoldsCalls, Adds

\* Transaction i is decided.
Marked(i, status, result) ==
  txs' = [txs EXCEPT ![i].status = status, ![i].result = result]

\* Call i of the transactions takes effect.
Taking(i) ==
  LET c == txs[i].call IN
  /\ i \in DOMAIN txs /\ txs[i].status = "PENDING" /\ Takes(c)
  /\ Marked(i, "ACCEPTED", "FINISHED_WITH_RETURN")
  /\ built' = [built EXCEPT ![c.key] = Append(@, c)]

\* Nothing takes effect: of the transactions no more have returned.
Quiet ==
  /\ UNCHANGED <<policies, built>> /\ now' \in Nat
  /\ txs' \in Seq(TxType) /\ DOMAIN txs' = DOMAIN txs
  /\ \A i \in DOMAIN txs :
       /\ txs'[i].call = txs[i].call /\ txs'[i].signer = txs[i].signer
       /\ txs'[i].result = "FINISHED_WITH_RETURN" => txs[i].result = "FINISHED_WITH_RETURN"

\* A call is sent.
Sending(call, signer) ==
  /\ UNCHANGED <<policies, built, now>>
  /\ txs' = Append(txs, [call |-> call, signer |-> signer, status |-> "PENDING",
                         result |-> "NONE"])

\* An execution marks one transaction, and keeps its call and signer.
LEMMA Executed ==
  ASSUME WritesTypeOK, NEW i \in DOMAIN txs, NEW status \in TxStatuses,
         NEW result \in ExecutionResults, Marked(i, status, result)
  PROVE  /\ txs' \in Seq(TxType) /\ DOMAIN txs' = DOMAIN txs
         /\ \A j \in DOMAIN txs : txs'[j].call = txs[j].call /\ txs'[j].signer = txs[j].signer
         /\ txs'[i].status = status /\ txs'[i].result = result
         /\ \A j \in DOMAIN txs \ {i} : txs'[j] = txs[j]
<1>1. txs \in Seq(TxType) BY DEF WritesTypeOK
<1> DEFINE tx == [txs[i] EXCEPT !.status = status, !.result = result]
<1>2. txs[i] \in TxType BY <1>1
<1>3. /\ tx \in TxType /\ tx.call = txs[i].call /\ tx.signer = txs[i].signer
      /\ tx.status = status /\ tx.result = result
  <2> HIDE DEF ExecutionResults
  <2> QED BY <1>2 DEF TxType
<1>4. txs' = [txs EXCEPT ![i] = tx] BY DEF Marked
<1> HIDE DEF tx
<1>5. txs' \in Seq(TxType) /\ DOMAIN txs' = DOMAIN txs /\ txs'[i] = tx
      /\ \A j \in DOMAIN txs \ {i} : txs'[j] = txs[j]
  <2> HIDE DEF TxType
  <2> QED BY <1>1, <1>3, <1>4
<1> QED BY <1>3, <1>5

\* The network executes a call that takes effect, or leaves the kernel alone.
LEMMA NetworkCases ==
  ASSUME WritesTypeOK, NetworkStep
  PROVE  Quiet \/ \E i \in DOMAIN txs : Taking(i)
<1>1. PICK i \in DOMAIN txs :
        ExecuteCall(i) \/ ((FinalizeTx(i) \/ CancelTx(i)) /\ UNCHANGED <<policyVars, built>>)
  BY DEF NetworkStep
<1>2. txs \in Seq(TxType) /\ now \in Nat /\ txs[i] \in TxType BY DEF WritesTypeOK
<1>3. CASE (FinalizeTx(i) \/ CancelTx(i)) /\ UNCHANGED <<policyVars, built>>
  <2>1. PICK status \in {"FINALIZED", "CANCELED"} : txs' = [txs EXCEPT ![i].status = status]
    BY <1>3 DEF FinalizeTx, CancelTx
  <2> DEFINE tx == [txs[i] EXCEPT !.status = status]
  <2>2. tx \in TxType /\ tx.call = txs[i].call /\ tx.signer = txs[i].signer
        /\ tx.result = txs[i].result
    BY <1>2, <2>1 DEF TxType, TxStatuses
  <2>3. txs' = [txs EXCEPT ![i] = tx] BY <2>1
  <2> HIDE DEF tx
  <2>4. txs' \in Seq(TxType) /\ DOMAIN txs' = DOMAIN txs /\ txs'[i] = tx
        /\ \A j \in DOMAIN txs \ {i} : txs'[j] = txs[j]
    <3> HIDE DEF TxType
    <3> QED BY <1>2, <2>2, <2>3
  <2> QED BY <1>2, <1>3, <2>2, <2>4 DEF Quiet, policyVars
<1>4. CASE ExecuteCall(i)
  <2> DEFINE c == txs[i].call
  <2>1. CASE Returns(c, txs[i].signer)
    <3>1. Takes(c) /\ Execute(i, "FINISHED_WITH_RETURN")
          /\ built' = [built EXCEPT ![c.key] = Append(@, c)]
      BY <1>4, <2>1 DEF ExecuteCall
    <3> QED BY <3>1 DEF Taking, Marked, Execute
  <2>2. CASE ~Returns(c, txs[i].signer)
    <3>1. Execute(i, "FINISHED_WITH_ERROR") /\ UNCHANGED <<policyVars, built>>
      BY <1>4, <2>2 DEF ExecuteCall
    <3>2. Marked(i, "ACCEPTED", "FINISHED_WITH_ERROR") BY <3>1 DEF Execute, Marked
    <3>3. "ACCEPTED" \in TxStatuses /\ "FINISHED_WITH_ERROR" \in ExecutionResults
      BY DEF TxStatuses, ExecutionResults
    <3>4. /\ txs' \in Seq(TxType) /\ DOMAIN txs' = DOMAIN txs
          /\ \A j \in DOMAIN txs : txs'[j].call = txs[j].call /\ txs'[j].signer = txs[j].signer
          /\ txs'[i].result = "FINISHED_WITH_ERROR"
          /\ \A j \in DOMAIN txs \ {i} : txs'[j] = txs[j]
      BY <3>2, <3>3, Executed
    <3>5. \A j \in DOMAIN txs : txs'[j].result = "FINISHED_WITH_RETURN" =>
             txs[j].result = "FINISHED_WITH_RETURN"
      BY <3>4
    <3> QED BY <1>2, <3>1, <3>4, <3>5 DEF Quiet, policyVars
  <2> QED BY <2>1, <2>2
<1> QED BY <1>1, <1>3, <1>4

-----------------------------------------------------------------------------
(* What every step keeps *)

\* What has taken effect stays, in its place.
Grown == \A pk \in PolicyKeys : Begins(built[pk], built'[pk])

\* One call more has taken effect on one policy.
LEMMA BuiltAppend ==
  ASSUME WritesTypeOK, NEW c \in CallType, c.key \in PolicyKeys,
         built' = [built EXCEPT ![c.key] = Append(@, c)]
  PROVE  /\ built' \in [PolicyKeys -> Seq(CallType)] /\ Grown
         /\ built'[c.key] = Append(built[c.key], c)
         /\ Len(built'[c.key]) = Len(built[c.key]) + 1
         /\ built'[c.key][Len(built[c.key]) + 1] = c
         /\ \A pk \in PolicyKeys \ {c.key} : built'[pk] = built[pk]
<1>1. built \in [PolicyKeys -> Seq(CallType)] BY DEF WritesTypeOK
<1> HIDE DEF CallType
<1> DEFINE s == built[c.key]
           t == Append(s, c)
<1>2. s \in Seq(CallType) BY <1>1
<1>3. t \in Seq(CallType) /\ Len(t) = Len(s) + 1 /\ t[Len(s) + 1] = c /\ Begins(s, t)
  <2> HIDE DEF s
  <2> QED BY <1>2 DEF Begins
<1> HIDE DEF t
<1>4. built' = [built EXCEPT ![c.key] = t] BY DEF t
<1>5. built'[c.key] = t /\ \A pk \in PolicyKeys \ {c.key} : built'[pk] = built[pk]
  BY <1>1, <1>4
<1>6. built' \in [PolicyKeys -> Seq(CallType)] BY <1>1, <1>3, <1>4
<1>7. Grown
  <2> SUFFICES ASSUME NEW pk \in PolicyKeys PROVE Begins(built[pk], built'[pk]) BY DEF Grown
  <2>1. CASE pk = c.key BY <1>3, <1>5, <2>1
  <2>2. CASE pk # c.key
    <3>1. built'[pk] = built[pk] /\ built[pk] \in Seq(CallType) BY <1>1, <1>5, <2>2
    <3> QED BY <3>1 DEF Begins
  <2> QED BY <2>1, <2>2
<1> QED BY <1>3, <1>5, <1>6, <1>7 DEF t

\* Nothing taking effect is no loss.
LEMMA SameBuiltGrows ==
  ASSUME WritesTypeOK, built' = built PROVE Grown
<1>1. \A pk \in PolicyKeys : built[pk] \in Seq(CallType) BY DEF WritesTypeOK
<1> HIDE DEF CallType
<1> QED BY <1>1 DEF Grown, Begins

\* A plan that has got somewhere does not get back.
LEMMA ReachedStays ==
  ASSUME WritesTypeOK, Grown, built' \in [PolicyKeys -> Seq(CallType)],
         NEW apm \in Authors, NEW k \in Nat, Reached(apm, k)
  PROVE  Reached(apm, k)'
<1> DEFINE s == built[apm.policyId]
           t == built'[apm.policyId]
<1>1. apm.policyId \in PolicyKeys BY AuthorsCompile DEF ApmType
<1>2. s \in Seq(CallType) /\ t \in Seq(CallType) /\ Begins(s, t) BY <1>1 DEF WritesTypeOK, Grown
<1> HIDE DEF s, t, CallType
<1>3. Len(s) \in Nat /\ Len(t) \in Nat /\ Len(s) <= Len(t) /\ \A i \in 1 .. Len(s) : t[i] = s[i]
  BY <1>2 DEF Begins
<1>4. k > 0 => s # <<>> /\ s[1] = BeginCall(apm) /\ k <= Len(s) BY DEF Reached, s
<1>5. k > 0 => t # <<>> /\ t[1] = BeginCall(apm) /\ k <= Len(t)
  <2>1. SUFFICES ASSUME k > 0 PROVE t # <<>> /\ t[1] = BeginCall(apm) /\ k <= Len(t) OBVIOUS
  <2>2. Len(s) >= 1 BY <1>3, <1>4, <2>1
  <2> QED BY <1>2, <1>3, <1>4, <2>1, <2>2
<1> QED BY <1>5 DEF Reached, t

\* Steps that leave kernel and calls alone keep what is known of them.
LEMMA QuietKeeps ==
  ASSUME WritesInv, Quiet PROVE WritesInv'
<1>1. WritesTypeOK' BY DEF WritesInv, WritesTypeOK, Quiet
<1>2. ContentsOK' BY DEF WritesInv, ContentsOK, HoldsCalls, Begun, Quiet
<1>3. \A i \in DOMAIN txs : Returned(i)' => Returned(i) BY DEF Quiet, Returned
<1>4. TxsOK' BY <1>3 DEF WritesInv, TxsOK, Quiet
<1> QED BY <1>1, <1>2, <1>4 DEF WritesInv

\* A transaction is sent: it is the last, and pending.
LEMMA SendingAppends ==
  ASSUME WritesTypeOK, NEW call \in CallType, NEW signer \in Accounts, Sending(call, signer)
  PROVE  /\ txs' \in Seq(TxType) /\ DOMAIN txs' = 1 .. Len(txs) + 1 /\ Len(txs') = Len(txs) + 1
         /\ Len(txs) \in Nat /\ DOMAIN txs = 1 .. Len(txs)
         /\ \A i \in DOMAIN txs : txs'[i] = txs[i]
         /\ LET tx == txs'[Len(txs) + 1] IN
            tx.call = call /\ tx.signer = signer /\ tx.status = "PENDING" /\ tx.result = "NONE"
<1> DEFINE tx == [call |-> call, signer |-> signer, status |-> "PENDING", result |-> "NONE"]
<1>1. tx \in TxType BY DEF TxType, TxStatuses, ExecutionResults
<1>2. /\ tx.call = call /\ tx.signer = signer /\ tx.status = "PENDING" /\ tx.result = "NONE"
  OBVIOUS
<1>3. txs \in Seq(TxType) /\ txs' = Append(txs, tx) BY DEF WritesTypeOK, Sending
<1> HIDE DEF tx, TxType
<1>4. /\ txs' \in Seq(TxType) /\ DOMAIN txs' = 1 .. Len(txs) + 1 /\ Len(txs') = Len(txs) + 1
      /\ Len(txs) \in Nat /\ DOMAIN txs = 1 .. Len(txs)
      /\ \A i \in DOMAIN txs : txs'[i] = txs[i]
      /\ txs'[Len(txs) + 1] = tx
  BY <1>1, <1>3
<1> QED BY <1>2, <1>4

\* Sending changes nothing that is known of the kernel.
LEMMA SendingKeeps ==
  ASSUME WritesInv, NEW call \in CallType, NEW signer \in Accounts, Sending(call, signer)
  PROVE  WritesInv'
<1> DEFINE n == Len(txs)
<1>1. /\ txs' \in Seq(TxType) /\ DOMAIN txs' = 1 .. n + 1 /\ DOMAIN txs = 1 .. n /\ n \in Nat
      /\ \A i \in DOMAIN txs : txs'[i] = txs[i]
      /\ txs'[n + 1].result = "NONE"
  BY SendingAppends DEF WritesInv
<1> HIDE DEF n
<1>2. UNCHANGED <<policies, built, now>> BY DEF Sending
<1>3. WritesTypeOK' BY <1>1, <1>2 DEF WritesInv, WritesTypeOK
<1>4. ContentsOK' BY <1>2 DEF WritesInv, ContentsOK, HoldsCalls, Begun
<1>5. \A i \in DOMAIN txs' : Returned(i)' => i \in DOMAIN txs /\ Returned(i)
  BY <1>1 DEF Returned
<1>6. TxsOK' BY <1>1, <1>2, <1>5 DEF WritesInv, TxsOK
<1> QED BY <1>3, <1>4, <1>6 DEF WritesInv

\* What is known when a transaction's call takes effect.
LEMMA TakingFacts ==
  ASSUME WritesInv, NEW i \in DOMAIN txs, Taking(i)
  PROVE  LET c == txs[i].call IN
         /\ c \in CallType /\ c.key \in PolicyKeys /\ Filled(c) /\ Admitted(c)
         /\ c.fn # "activate_policy" => c \notin ToSet(built[c.key])
         /\ built' = [built EXCEPT ![c.key] = Append(@, c)]
         /\ txs' \in Seq(TxType) /\ DOMAIN txs' = DOMAIN txs
         /\ \A j \in DOMAIN txs : txs'[j].call = txs[j].call /\ txs'[j].signer = txs[j].signer
         /\ txs'[i].status = "ACCEPTED" /\ txs'[i].result = "FINISHED_WITH_RETURN"
         /\ \A j \in DOMAIN txs \ {i} : txs'[j] = txs[j]
<1> DEFINE c == txs[i].call
<1>1. WritesTypeOK /\ ContentsOK BY DEF WritesInv
<1>2. txs[i] \in TxType BY <1>1 DEF WritesTypeOK
<1>3. c \in CallType
  <2> HIDE DEF CallType
  <2> QED BY <1>2 DEF TxType
<1>4. /\ Takes(c) /\ built' = [built EXCEPT ![c.key] = Append(@, c)]
      /\ Marked(i, "ACCEPTED", "FINISHED_WITH_RETURN")
  BY DEF Taking
<1> HIDE DEF c
<1>5. Filled(c) /\ Admitted(c) /\ c.key \in PolicyKeys BY <1>1, <1>3, <1>4, TakesFills
<1>6. c.fn # "activate_policy" => c \notin ToSet(built[c.key]) BY <1>1, <1>3, <1>4, TakenIsNew
<1>7. "ACCEPTED" \in TxStatuses /\ "FINISHED_WITH_RETURN" \in ExecutionResults
  BY DEF TxStatuses, ExecutionResults
<1>8. /\ txs' \in Seq(TxType) /\ DOMAIN txs' = DOMAIN txs
      /\ \A j \in DOMAIN txs : txs'[j].call = txs[j].call /\ txs'[j].signer = txs[j].signer
      /\ txs'[i].status = "ACCEPTED" /\ txs'[i].result = "FINISHED_WITH_RETURN"
      /\ \A j \in DOMAIN txs \ {i} : txs'[j] = txs[j]
  BY <1>1, <1>4, <1>7, Executed
<1> QED BY <1>3, <1>4, <1>5, <1>6, <1>8 DEF c

\* What a policy holds stays the calls that took effect, each of which returned once.
LEMMA TakingKeeps ==
  ASSUME WritesInv, NEW i \in DOMAIN txs, Taking(i)
  PROVE  WritesInv' /\ Grown
<1> DEFINE c == txs[i].call
           s == built[c.key]
<1>1. WritesTypeOK /\ ContentsOK /\ TxsOK BY DEF WritesInv
<1>2. /\ c \in CallType /\ c.key \in PolicyKeys /\ Filled(c) /\ Admitted(c)
      /\ c.fn # "activate_policy" => c \notin ToSet(built[c.key])
      /\ built' = [built EXCEPT ![c.key] = Append(@, c)]
      /\ txs' \in Seq(TxType) /\ DOMAIN txs' = DOMAIN txs
      /\ \A j \in DOMAIN txs : txs'[j].call = txs[j].call
      /\ \A j \in DOMAIN txs \ {i} : txs'[j] = txs[j]
  BY TakingFacts
<1> HIDE DEF c, CallType, TxType, Filled
<1>3. /\ built' \in [PolicyKeys -> Seq(CallType)] /\ Grown /\ built'[c.key] = Append(s, c)
      /\ \A pk \in PolicyKeys \ {c.key} : built'[pk] = built[pk]
  BY <1>1, <1>2, BuiltAppend
<1>4. s \in Seq(CallType) BY <1>1, <1>2 DEF WritesTypeOK
<1>5. built'[c.key] # <<>> /\ ToSet(built'[c.key]) = ToSet(s) \cup {c}
  <2>1. ToSet(Append(s, c)) = ToSet(s) \cup {c} BY <1>2, <1>4, ToSetAppend
  <2>2. Append(s, c) # <<>>
    <3> HIDE DEF s
    <3>1. Len(Append(s, c)) # 0 BY <1>2, <1>4
    <3> QED BY <3>1
  <2> QED BY <1>3, <2>1, <2>2
<1> HIDE DEF s
<1>6. WritesTypeOK' BY <1>1, <1>2, <1>3 DEF WritesTypeOK, Filled
<1>7. ContentsOK'
  <2> SUFFICES ASSUME NEW pk \in PolicyKeys
               PROVE  /\ Begun(pk)' <=> built'[pk] # <<>>
                      /\ \A d \in ToSet(built'[pk]) : d.key = pk
                      /\ HoldsCalls(policies'[pk], ToSet(built'[pk]))
    BY DEF ContentsOK, HoldsCalls, Begun
  <2>1. /\ Begun(pk) <=> built[pk] # <<>>
        /\ \A d \in ToSet(built[pk]) : d.key = pk
        /\ HoldsCalls(policies[pk], ToSet(built[pk]))
    BY <1>1 DEF ContentsOK
  <2>2. CASE pk = c.key
    <3>1. Grows(policies[pk], policies'[pk], c) /\ Begun(pk)' BY <1>2, <2>2 DEF Filled, Begun
    <3>2. HoldsCalls(policies'[pk], ToSet(s) \cup {c}) BY <2>1, <2>2, <3>1, HoldsMore DEF s
    <3> QED BY <1>5, <2>1, <2>2, <3>1, <3>2 DEF s
  <2>3. CASE pk # c.key
    <3>1. /\ Begun(pk)' = Begun(pk)
          /\ policies'[pk].resources = policies[pk].resources
          /\ policies'[pk].rules = policies[pk].rules
          /\ policies'[pk].effects = policies[pk].effects
          /\ policies'[pk].sealed = policies[pk].sealed
      BY <1>2, <2>3 DEF Filled, Begun
    <3>2. built'[pk] = built[pk] BY <1>3, <2>3
    <3>3. HoldsCalls(policies'[pk], ToSet(built[pk])) BY <2>1, <3>1 DEF HoldsCalls
    <3> QED BY <2>1, <3>1, <3>2, <3>3
  <2> QED BY <2>2, <2>3
<1>8. TxsOK'
  <2>1. \A j \in DOMAIN txs \ {i} : Returned(j)' => Returned(j) BY <1>2 DEF Returned
  <2>2. txs'[i].call = c /\ txs[i].call = c BY <1>2 DEF c
  <2>3. ASSUME NEW j \in DOMAIN txs, Returned(j)'
        PROVE  txs'[j].call \in ToSet(built'[txs'[j].call.key])
    <3>1. CASE j = i BY <1>5, <2>2, <3>1
    <3>2. CASE j # i
      <4>1. Returned(j) /\ txs'[j] = txs[j] BY <1>2, <2>1, <2>3, <3>2
      <4>2. txs[j].call \in ToSet(built[txs[j].call.key]) BY <1>1, <4>1 DEF TxsOK
      <4>3. txs[j].call.key \in PolicyKeys
        <5>1. txs[j] \in TxType BY <1>1 DEF WritesTypeOK
        <5>2. txs[j].call \in CallType BY <5>1 DEF TxType
        <5> QED BY <5>2 DEF CallType, BeginCall, ApmType
      <4>4. CASE txs[j].call.key = c.key BY <1>5, <4>1, <4>2, <4>4 DEF s
      <4>5. CASE txs[j].call.key # c.key BY <1>3, <4>1, <4>2, <4>3, <4>5
      <4> QED BY <4>4, <4>5
    <3> QED BY <3>1, <3>2
  <2>4. ASSUME NEW j \in DOMAIN txs \ {i}, Returned(j)', txs'[j].call = c PROVE FALSE
    <3>1. Returned(j) /\ txs[j].call = c BY <1>2, <2>1, <2>4
    <3>2. c \in ToSet(built[c.key]) BY <1>1, <3>1 DEF TxsOK
    <3>3. c.fn # "activate_policy" BY <3>1 DEF Returned
    <3> QED BY <1>2, <3>2, <3>3
  <2>5. ASSUME NEW j \in DOMAIN txs, NEW k \in DOMAIN txs, Returned(j)', Returned(k)',
               txs'[j].call = txs'[k].call
        PROVE  j = k
    <3>1. CASE j = i BY <2>2, <2>4, <2>5, <3>1
    <3>2. CASE k = i BY <2>2, <2>4, <2>5, <3>2
    <3>3. CASE j # i /\ k # i
      <4>1. Returned(j) /\ Returned(k) /\ txs[j].call = txs[k].call BY <1>2, <2>1, <2>5, <3>3
      <4> QED BY <1>1, <4>1 DEF TxsOK
    <3> QED BY <3>1, <3>2, <3>3
  <2> QED BY <1>2, <2>3, <2>5 DEF TxsOK, Returned
<1> QED BY <1>3, <1>6, <1>7, <1>8 DEF WritesInv

-----------------------------------------------------------------------------
(* The calls of a plan take effect in its order *)

\* Where in a plan a call stands says which function it is of.
LEMMA StepFacts ==
  ASSUME NEW apm \in Authors, NEW k \in Nat, NEW call, IsStep(call, apm, k)
  PROVE  /\ call \in CallType /\ call.key = apm.policyId
         /\ call.fn \in Adds \cup {"begin_policy", "seal_policy"}
         /\ call.fn = "begin_policy" <=> k = 0
         /\ k = 0 => call = BeginCall(apm)
         /\ call.fn = "seal_policy" <=> k = Len(CompiledCalls(apm)) - 1
<1> DEFINE plan == CompiledCalls(apm)
           n == Len(plan)
<1>1. /\ plan \in Seq(CallType) /\ n >= 2
      /\ plan[1] = BeginCall(apm) /\ plan[n] = SealCall(apm.policyId)
      /\ \A i \in 2 .. n - 1 : plan[i].fn \in Adds
      /\ \A i \in 1 .. n : plan[i].key = apm.policyId
  BY PlanFacts
<1>2. k \in 0 .. n - 1 /\ call = plan[k + 1] BY DEF IsStep
<1> HIDE DEF plan, CallType
<1>3. n \in Nat /\ k + 1 \in 1 .. n BY <1>1, <1>2
<1>4. call \in CallType /\ call.key = apm.policyId BY <1>1, <1>2, <1>3
<1>5. CASE k = 0 BY <1>1, <1>2, <1>4, <1>5 DEF BeginCall, plan
<1>6. CASE k = n - 1
  <2>1. k + 1 = n /\ k # 0 BY <1>1, <1>3, <1>6
  <2> QED BY <1>1, <1>2, <1>4, <1>6, <2>1 DEF SealCall, plan
<1>7. CASE k # 0 /\ k # n - 1
  <2>1. k + 1 \in 2 .. n - 1 BY <1>2, <1>3, <1>7
  <2>2. call.fn \in Adds BY <1>1, <1>2, <2>1
  <2> QED BY <1>4, <1>7, <2>2 DEF Adds, plan
<1> QED BY <1>5, <1>6, <1>7

\* A call whose turn has come does not lose it.
LEMMA ReadyStays ==
  ASSUME WritesTypeOK, Grown, built' \in [PolicyKeys -> Seq(CallType)], NEW call, Ready(call)
  PROVE  \/ call.fn = "activate_policy"
         \/ \E apm \in Authors : \E k \in Nat : IsStep(call, apm, k) /\ Reached(apm, k)'
<1>1. CASE call.fn = "activate_policy" BY <1>1
<1>2. CASE \E apm \in Authors : \E k \in Nat : IsStep(call, apm, k) /\ Reached(apm, k)
  <2>1. PICK apm \in Authors, k \in Nat : IsStep(call, apm, k) /\ Reached(apm, k) BY <1>2
  <2>2. Reached(apm, k)' BY <2>1, ReachedStays
  <2> QED BY <2>1, <2>2
<1> QED BY <1>1, <1>2 DEF Ready

\* What is known of the built calls of a policy.
LineAt(pk, apm) ==
  /\ apm \in Authors /\ apm.policyId = pk
  /\ built[pk] # <<>> /\ built[pk][1] = BeginCall(apm) /\ Along(built[pk], CompiledCalls(apm))

\* The seal is the last of a plan's calls: a sealed policy has had them all.
LEMMA SealedIsLong ==
  ASSUME WritesInv, NEW pk \in PolicyKeys, NEW apm, LineAt(pk, apm), policies[pk].sealed
  PROVE  Len(built[pk]) >= Len(CompiledCalls(apm))
<1> DEFINE s == built[pk]
           plan == CompiledCalls(apm)
           n == Len(plan)
<1>1. apm \in Authors /\ Along(s, plan) BY DEF LineAt
<1>2. /\ plan \in Seq(CallType) /\ n >= 2 /\ plan[1] = BeginCall(apm)
      /\ \A i \in 2 .. n - 1 : plan[i].fn \in Adds
  BY <1>1, PlanFacts
<1>3. s \in Seq(CallType) BY DEF WritesInv, WritesTypeOK
<1>4. PICK d \in ToSet(s) : d.fn = "seal_policy"
  BY DEF WritesInv, ContentsOK, HoldsCalls
<1> HIDE DEF s, plan, CallType
<1>5. PICK j \in 1 .. Len(s) : d = s[j] BY <1>3, <1>4 DEF ToSet
<1>6. Len(s) \in Nat /\ n \in Nat /\ j \in Nat /\ j >= 1 BY <1>2, <1>3, <1>5
<1>7. j \in DOMAIN s BY <1>3, <1>5
<1>8. j <= n => s[j] = plan[j] BY <1>1, <1>7 DEF Along
<1>9. j > n => s[j].fn = "activate_policy" BY <1>1, <1>6, <1>7 DEF Along
<1>10. j # 1 BY <1>2, <1>4, <1>5, <1>6, <1>8 DEF BeginCall
<1>11. ~(j \in 2 .. n - 1) BY <1>2, <1>4, <1>5, <1>6, <1>8 DEF Adds
<1>12. j >= n BY <1>6, <1>10, <1>11
<1> QED BY <1>5, <1>6, <1>12 DEF s, plan

\* A call of a plan takes effect in its place.
LEMMA TakenNext ==
  ASSUME WritesInv, LineOK, NEW c \in CallType, c.key \in PolicyKeys, Admitted(c),
         c.fn # "activate_policy" => c \notin ToSet(built[c.key]),
         built' = [built EXCEPT ![c.key] = Append(@, c)],
         NEW apm \in Authors, NEW k \in Nat, IsStep(c, apm, k), Reached(apm, k)
  PROVE  /\ apm.policyId = c.key /\ k = Len(built[c.key]) /\ Reached(apm, k + 1)'
         /\ Len(built'[c.key]) = k + 1 /\ k < Len(CompiledCalls(apm))
<1> DEFINE pk == c.key
           s == built[pk]
           t == built'[pk]
           n == Len(s)
           plan == CompiledCalls(apm)
<1>1. WritesTypeOK /\ ContentsOK BY DEF WritesInv
<1>2. Grown /\ t = Append(s, c) /\ Len(t) = n + 1 /\ t[n + 1] = c BY <1>1, BuiltAppend
<1>3. s \in Seq(CallType) BY <1>1 DEF WritesTypeOK
<1>4. n \in Nat /\ DOMAIN s = 1 .. n /\ \A i \in 1 .. n : t[i] = s[i]
  <2> HIDE DEF s, t, CallType
  <2> QED BY <1>2, <1>3
<1>5. (Begun(pk) <=> s # <<>>) BY <1>1 DEF ContentsOK
<1>6. /\ pk = apm.policyId /\ (c.fn = "begin_policy" <=> k = 0) /\ (k = 0 => c = BeginCall(apm))
      /\ c.fn \in Adds \cup {"begin_policy", "seal_policy"}
  BY StepFacts
<1>7. k \in 0 .. Len(plan) - 1 /\ c = plan[k + 1] /\ Len(plan) \in Nat BY PlanFacts DEF IsStep
<1>8. k > 0 => s[1] = BeginCall(apm) /\ k <= n BY <1>6 DEF Reached, s, n
<1> HIDE DEF s, t, n, CallType, pk, plan
<1>9. k = n
  <2>1. CASE k = 0
    <3>1. s = <<>> BY <1>5, <1>6, <2>1 DEF Admitted, pk
    <3> QED BY <2>1, <3>1 DEF n
  <2>2. CASE k # 0
    <3>1. SUFFICES ASSUME k < n PROVE FALSE BY <1>4, <1>8, <2>2
    <3>2. s # <<>> BY <1>5, <1>6, <2>2 DEF Admitted, pk
    <3>3. PICK a : LineAt(pk, a) BY <3>2 DEF LineOK, LineAt, s, pk
    <3>4. a = apm BY <1>8, <2>2, <3>3 DEF LineAt, BeginCall, s
    <3>5. Along(s, plan) BY <3>3, <3>4 DEF LineAt, s, plan
    <3>6. k + 1 \in DOMAIN s /\ k + 1 <= Len(plan) BY <1>4, <1>7, <3>1
    <3>7. s[k + 1] = c BY <1>7, <3>5, <3>6 DEF Along
    <3>8. c \in ToSet(s) BY <3>6, <3>7 DEF ToSet
    <3>9. c.fn # "activate_policy" BY <1>6 DEF Adds
    <3> QED BY <3>8, <3>9 DEF s, pk
  <2> QED BY <2>1, <2>2
<1>10. t[1] = BeginCall(apm)
  <2>1. CASE k = 0 BY <1>2, <1>6, <1>9, <2>1
  <2>2. CASE k # 0
    <3>1. 1 \in 1 .. n BY <1>4, <1>9, <2>2
    <3> QED BY <1>4, <1>8, <2>2, <3>1
  <2> QED BY <2>1, <2>2
<1>11. t # <<>> /\ Len(t) = k + 1 BY <1>2, <1>4, <1>9
<1>12. Reached(apm, k + 1)' BY <1>6, <1>10, <1>11 DEF Reached, t
<1>13. k < Len(plan) BY <1>7
<1> QED BY <1>6, <1>9, <1>11, <1>12, <1>13 DEF n, s, t, pk, plan

\* A call that takes effect begins its policy's line or continues it.
LEMMA LineGoesOn ==
  ASSUME WritesInv, LineOK, NEW c \in CallType, c.key \in PolicyKeys, Admitted(c), Ready(c),
         c.fn # "activate_policy" => c \notin ToSet(built[c.key]),
         built' = [built EXCEPT ![c.key] = Append(@, c)]
  PROVE  \E apm : LineAt(c.key, apm)'
<1> DEFINE pk == c.key
           s == built[pk]
           t == built'[pk]
           n == Len(s)
<1>1. WritesTypeOK /\ ContentsOK BY DEF WritesInv
<1>2. /\ Grown /\ t = Append(s, c) /\ Len(t) = n + 1 /\ t[n + 1] = c
      /\ built' \in [PolicyKeys -> Seq(CallType)]
  BY <1>1, BuiltAppend
<1>3. s \in Seq(CallType) /\ t \in Seq(CallType) BY <1>1, <1>2 DEF WritesTypeOK
<1>4. n \in Nat /\ DOMAIN s = 1 .. n /\ DOMAIN t = 1 .. n + 1 /\ \A i \in 1 .. n : t[i] = s[i]
  <2> HIDE DEF s, t, CallType
  <2> QED BY <1>2, <1>3
<1>5. (Begun(pk) <=> s # <<>>) BY <1>1 DEF ContentsOK
<1>6. t # <<>> BY <1>4
<1> HIDE DEF s, t, n, CallType, pk
<1>7. CASE c.fn = "begin_policy"
  <2>1. s = <<>> /\ n = 0 BY <1>5, <1>7 DEF Admitted, n, pk
  <2>2. PICK apm \in Authors, k \in Nat : IsStep(c, apm, k) BY <1>7 DEF Ready
  <2>3. c = BeginCall(apm) /\ apm.policyId = pk BY <1>7, <2>2, StepFacts DEF pk
  <2>4. /\ CompiledCalls(apm)[1] = c /\ Len(CompiledCalls(apm)) >= 2
        /\ Len(CompiledCalls(apm)) \in Nat
    BY <2>3, PlanFacts
  <2>5. Along(t, CompiledCalls(apm)) BY <1>2, <1>4, <2>1, <2>4 DEF Along
  <2>6. t[1] = BeginCall(apm) BY <1>2, <2>1, <2>3
  <2> QED BY <1>6, <2>2, <2>3, <2>5, <2>6 DEF LineAt, t, pk
<1>8. CASE c.fn # "begin_policy"
  <2>1. s # <<>> BY <1>5, <1>8 DEF Admitted, pk
  <2>2. PICK apm : LineAt(pk, apm) BY <2>1 DEF LineOK, LineAt, s, pk
  <2> DEFINE plan == CompiledCalls(apm)
             m == Len(plan)
  <2>3. apm \in Authors /\ apm.policyId = pk /\ s[1] = BeginCall(apm) /\ Along(s, plan)
    BY <2>2 DEF LineAt, s
  <2>4. m \in Nat BY <2>3, PlanFacts
  <2>5. IF n + 1 <= m THEN c = plan[n + 1] ELSE c.fn = "activate_policy"
    <3>1. CASE c.fn = "activate_policy"
      <4>1. policies[pk].sealed BY <3>1 DEF Admitted, pk
      <4>2. n >= m BY <2>2, <4>1, SealedIsLong DEF n, s, pk
      <4> QED BY <1>4, <2>4, <3>1, <4>2
    <3>2. CASE c.fn # "activate_policy"
      <4>1. PICK a \in Authors, k \in Nat : IsStep(c, a, k) /\ Reached(a, k)
        BY <3>2 DEF Ready
      <4>2. k # 0 /\ a.policyId = pk BY <1>8, <4>1, StepFacts DEF pk
      <4>3. s[1] = BeginCall(a) /\ k <= n BY <4>1, <4>2 DEF Reached, s, n
      <4>4. a = apm BY <2>3, <4>3 DEF BeginCall
      <4>5. k \in 0 .. m - 1 /\ c = plan[k + 1] BY <4>1, <4>4 DEF IsStep
      <4>6. k = n BY <4>1, TakenNext DEF n, s, pk
      <4> QED BY <1>4, <2>4, <4>5, <4>6
    <3> QED BY <3>1, <3>2
  <2> HIDE DEF plan, m
  <2>6. Along(t, plan)
    <3>1. SUFFICES ASSUME NEW i \in 1 .. n + 1
                   PROVE  IF i <= m THEN t[i] = plan[i] ELSE t[i].fn = "activate_policy"
      BY <1>4 DEF Along, m
    <3>2. CASE i = n + 1 BY <1>2, <2>5, <3>2
    <3>3. CASE i \in 1 .. n BY <1>4, <2>3, <3>3 DEF Along, m
    <3> QED BY <1>4, <3>2, <3>3
  <2>7. t[1] = BeginCall(apm)
    <3>1. 1 \in 1 .. n BY <1>3, <1>4, <2>1
    <3> QED BY <1>4, <2>3, <3>1
  <2>8. LineAt(c.key, apm)' BY <1>6, <2>3, <2>6, <2>7 DEF LineAt, t, plan, pk
  <2> HIDE DEF LineAt
  <2> QED BY <2>8
<1> QED BY <1>7, <1>8 DEF pk

\* Every step keeps policies in the line of their plans.
LEMMA LineKept ==
  ASSUME WritesInv, LineInv,
         \/ Quiet
         \/ \E call \in CallType, signer \in Accounts : Sending(call, signer) /\ Ready(call)
         \/ \E i \in DOMAIN txs : Taking(i)
  PROVE  LineInv'
<1>1. WritesTypeOK BY DEF WritesInv
<1>2. LineOK /\ \A i \in DOMAIN txs : Ready(txs[i].call) BY DEF LineInv
<1>3. ASSUME UNCHANGED built PROVE LineOK'
  BY <1>2, <1>3 DEF LineOK
<1>4. ASSUME Grown, built' \in [PolicyKeys -> Seq(CallType)], NEW i \in DOMAIN txs',
             NEW call, call = txs'[i].call, Ready(call)
      PROVE  Ready(txs[i].call)'
  <2>1. \/ call.fn = "activate_policy"
        \/ \E apm \in Authors : \E k \in Nat : IsStep(call, apm, k) /\ Reached(apm, k)'
    BY <1>1, <1>4, ReadyStays
  <2> QED BY <1>4, <2>1 DEF Ready, IsStep
<1>5. CASE Quiet
  <2>1. Grown /\ built' \in [PolicyKeys -> Seq(CallType)] /\ built' = built
    BY <1>1, <1>5, SameBuiltGrows DEF Quiet, WritesTypeOK
  <2>2. \A i \in DOMAIN txs' : Ready(txs[i].call)'
    <3> SUFFICES ASSUME NEW i \in DOMAIN txs' PROVE Ready(txs[i].call)' OBVIOUS
    <3>1. PICK call : call = txs[i].call OBVIOUS
    <3>2. i \in DOMAIN txs /\ call = txs'[i].call BY <1>5, <3>1 DEF Quiet
    <3>3. Ready(call) BY <1>2, <3>1, <3>2
    <3> QED BY <1>4, <2>1, <3>2, <3>3
  <2> QED BY <1>3, <2>1, <2>2 DEF LineInv
<1>6. CASE \E call \in CallType, signer \in Accounts : Sending(call, signer) /\ Ready(call)
  <2>1. PICK new \in CallType, signer \in Accounts : Sending(new, signer) /\ Ready(new) BY <1>6
  <2>2. Grown /\ built' \in [PolicyKeys -> Seq(CallType)] /\ built' = built
    BY <1>1, <2>1, SameBuiltGrows DEF Sending, WritesTypeOK
  <2>3. /\ DOMAIN txs' = 1 .. Len(txs) + 1 /\ DOMAIN txs = 1 .. Len(txs) /\ Len(txs) \in Nat
        /\ \A i \in DOMAIN txs : txs'[i] = txs[i]
        /\ txs'[Len(txs) + 1].call = new
    BY <1>1, <2>1, SendingAppends
  <2>4. \A i \in DOMAIN txs' : Ready(txs[i].call)'
    <3> SUFFICES ASSUME NEW i \in DOMAIN txs' PROVE Ready(txs[i].call)' OBVIOUS
    <3>1. PICK call : call = txs'[i].call OBVIOUS
    <3>2. Ready(call)
      <4>1. CASE i = Len(txs) + 1 BY <2>1, <2>3, <3>1, <4>1
      <4>2. CASE i \in DOMAIN txs
        <5>1. call = txs[i].call BY <2>3, <3>1, <4>2
        <5> QED BY <1>2, <4>2, <5>1
      <4> QED BY <2>3, <4>1, <4>2
    <3> QED BY <1>4, <2>2, <3>1, <3>2
  <2> QED BY <1>3, <2>2, <2>4 DEF LineInv
<1>7. ASSUME NEW i \in DOMAIN txs, Taking(i) PROVE LineInv'
  <2>1. PICK c : c = txs[i].call OBVIOUS
  <2>2. /\ c \in CallType /\ c.key \in PolicyKeys /\ Filled(c) /\ Admitted(c)
        /\ c.fn # "activate_policy" => c \notin ToSet(built[c.key])
        /\ built' = [built EXCEPT ![c.key] = Append(@, c)]
        /\ DOMAIN txs' = DOMAIN txs
        /\ \A j \in DOMAIN txs : txs'[j].call = txs[j].call
    BY <1>7, <2>1, TakingFacts
  <2>3. /\ Grown /\ built' \in [PolicyKeys -> Seq(CallType)]
        /\ \A pk \in PolicyKeys \ {c.key} : built'[pk] = built[pk]
    BY <1>1, <2>2, BuiltAppend
  <2>4. Ready(c) BY <1>2, <2>1
  <2>5. \E apm : LineAt(c.key, apm)' BY <1>2, <2>2, <2>4, LineGoesOn
  <2>6. LineOK'
    <3> SUFFICES ASSUME NEW pk \in PolicyKeys, built'[pk] # <<>>
                 PROVE  \E apm \in Authors :
                          /\ apm.policyId = pk /\ built'[pk][1] = BeginCall(apm)
                          /\ Along(built'[pk], CompiledCalls(apm))
      BY DEF LineOK
    <3>1. CASE pk = c.key BY <2>5, <3>1 DEF LineAt
    <3>2. CASE pk # c.key
      <4>1. built'[pk] = built[pk] BY <2>3, <3>2
      <4> QED BY <1>2, <4>1 DEF LineOK
    <3> QED BY <3>1, <3>2
  <2>7. \A j \in DOMAIN txs' : Ready(txs[j].call)'
    <3> SUFFICES ASSUME NEW j \in DOMAIN txs' PROVE Ready(txs[j].call)' OBVIOUS
    <3>1. PICK call : call = txs[j].call OBVIOUS
    <3>2. j \in DOMAIN txs /\ call = txs'[j].call BY <2>2, <3>1
    <3>3. Ready(call) BY <1>2, <3>1, <3>2
    <3> QED BY <1>4, <2>3, <3>2, <3>3
  <2> QED BY <2>6, <2>7 DEF LineInv
<1> QED BY <1>5, <1>6, <1>7

\* A plan whose every call has taken effect, in its order, verifies.
LEMMA LongLineVerifies ==
  ASSUME WritesTypeOK, NEW pk \in PolicyKeys, NEW apm, LineAt(pk, apm),
         Len(built[pk]) >= Len(CompiledCalls(apm))
  PROVE  Verified(built[pk], TRUE, apm)
<1> DEFINE s == built[pk]
           plan == CompiledCalls(apm)
           n == Len(plan)
           first == SubSeq(s, 1, n)
           rest == SubSeq(s, n + 1, Len(s))
<1>1. apm \in Authors /\ s # <<>> /\ s[1] = BeginCall(apm) /\ Along(s, plan) BY DEF LineAt
<1>2. plan \in Seq(CallType) BY <1>1, PlanFacts
<1>3. s \in Seq(CallType) BY DEF WritesTypeOK
<1>4. n \in 0 .. Len(s) BY <1>2, <1>3
<1> HIDE DEF s, plan, CallType
<1>5. /\ first \in Seq(CallType) /\ rest \in Seq(CallType) /\ Len(first) = n
      /\ s = first \o rest
  BY <1>3, <1>4, FirstCalls
<1>6. Len(s) \in Nat /\ n \in Nat /\ n <= Len(s) /\ DOMAIN s = 1 .. Len(s) BY <1>2, <1>3, <1>4
<1>7. first = plan
  <2>1. \A i \in 1 .. n : first[i] = s[i] BY <1>3, <1>6
  <2>2. \A i \in 1 .. n : s[i] = plan[i] BY <1>1, <1>6 DEF Along
  <2> HIDE DEF first
  <2> QED BY <1>2, <1>5, <2>1, <2>2
<1>8. \A i \in 1 .. Len(rest) : rest[i].fn = "activate_policy"
  <2>1. Len(rest) = Len(s) - n /\ \A i \in 1 .. Len(s) - n : rest[i] = s[n + i]
    BY <1>3, <1>6
  <2>2. \A i \in 1 .. Len(s) - n : s[n + i].fn = "activate_policy"
    <3> SUFFICES ASSUME NEW i \in 1 .. Len(s) - n PROVE s[n + i].fn = "activate_policy" OBVIOUS
    <3>1. n + i \in DOMAIN s /\ ~(n + i <= n) BY <1>6
    <3> QED BY <1>1, <3>1 DEF Along
  <2> QED BY <2>1, <2>2
<1> HIDE DEF first, rest
<1>9. ASSUME NEW fn \in Adds PROVE Named(fn, s) = Named(fn, plan)
  <2>1. fn # "activate_policy" BY DEF Adds
  <2>2. \A i \in 1 .. Len(rest) : rest[i].fn # fn BY <1>8, <2>1
  <2>3. Named(fn, rest) = <<>> BY <1>5, <2>2, NamedNone
  <2>4. Named(fn, s) = Named(fn, plan) \o <<>>
    <3>1. Named(fn, first \o rest) = Named(fn, first) \o Named(fn, rest) BY <1>5, NamedConcat
    <3> QED BY <1>5, <1>7, <2>3, <3>1
  <2> DEFINE T == {x \in CallType : x.fn = fn}
             a == Named(fn, plan)
  <2>5. a \in Seq(T) BY <1>2, NamedType
  <2> HIDE DEF a, T
  <2>6. a \o <<>> = a BY <2>5, ConcatEmptySeq
  <2> QED BY <2>4, <2>6 DEF a
<1>10. s[1].hash = apm BY <1>1 DEF BeginCall
<1> QED BY <1>1, <1>9, <1>10 DEF Verified, Adds, s, plan

-----------------------------------------------------------------------------
(* The studio script *)

\* A transaction sent for a step of the plan goes on being one.
LEMMA SentStays ==
  ASSUME WritesTypeOK, Grown, built' \in [PolicyKeys -> Seq(CallType)],
         NEW apm \in Authors, NEW k \in Nat, NEW tx, SentAs(tx, apm, k),
         tx \in DOMAIN txs', txs'[tx].call = txs[tx].call,
         Returned(tx)' => Returned(tx) \/ Reached(apm, k + 1)'
  PROVE  SentAs(tx, apm, k)'
<1>1. IsStep(txs[tx].call, apm, k) /\ (Returned(tx) => Reached(apm, k + 1)) BY DEF SentAs
<1>2. IsStep(txs[tx].call, apm, k)' BY <1>1 DEF IsStep
<1>3. Returned(tx) => Reached(apm, k + 1)'
  <2>1. k + 1 \in Nat OBVIOUS
  <2> QED BY <1>1, <2>1, ReachedStays
<1> QED BY <1>2, <1>3 DEF SentAs

\* A plan that has got far has got everywhere before.
LEMMA ReachedEarlier ==
  ASSUME NEW apm, NEW n \in Nat, NEW k \in 0 .. n, Reached(apm, n), Len(built[apm.policyId]) \in Nat
  PROVE  Reached(apm, k)
<1> DEFINE s == built[apm.policyId]
<1>1. n > 0 => s # <<>> /\ s[1] = BeginCall(apm) /\ n <= Len(s) BY DEF Reached
<1> HIDE DEF s
<1>2. Len(s) \in Nat BY DEF s
<1>3. k > 0 => s # <<>> /\ s[1] = BeginCall(apm) /\ k <= Len(s) BY <1>1, <1>2
<1> QED BY <1>3 DEF Reached, s

\* The script's plan, and the lengths it goes by.
LEMMA StudioFacts ==
  ASSUME StudioTypes, WritesTypeOK
  PROVE  /\ job.apm \in Authors /\ Key \in PolicyKeys
         /\ Calls = CompiledCalls(job.apm) /\ Calls \in Seq(CallType) /\ Len(Calls) >= 2
         /\ Len(Calls) \in Nat /\ Len(file.steps) \in Nat /\ Len(built[Key]) \in Nat
<1>1. job.apm \in Authors /\ Calls = CompiledCalls(job.apm) BY DEF StudioTypes, Authors, Calls
<1>2. Key \in PolicyKeys BY <1>1, AuthorsCompile DEF ApmType, Key
<1>3. Calls \in Seq(CallType) /\ Len(Calls) >= 2 BY <1>1, PlanFacts
<1>4. Len(Calls) \in Nat
  <2> HIDE DEF CallType
  <2> QED BY <1>3
<1>5. Len(file.steps) \in Nat BY DEF StudioTypes
<1>6. Len(built[Key]) \in Nat
  <2>1. built[Key] \in Seq(CallType) BY <1>2 DEF WritesTypeOK
  <2> HIDE DEF CallType
  <2> QED BY <2>1
<1> QED BY <1>1, <1>2, <1>3, <1>4, <1>5, <1>6

\* The network leaves the file and the process alone.
LEMMA StudioNetwork ==
  ASSUME WritesInv, LineInv, StudioOK, UNCHANGED <<job, process, file>>,
         Quiet \/ \E i \in DOMAIN txs : Taking(i)
  PROVE  StudioOK'
<1>1. WritesTypeOK /\ LineOK /\ StudioTypes /\ StudioBuilt /\ StudioProcess
  BY DEF WritesInv, LineInv, StudioOK
<1>2. PICK apm, n, key, plan :
        apm = job.apm /\ n = Len(file.steps) /\ key = Key /\ plan = Calls
  OBVIOUS
<1>3. /\ apm \in Authors /\ key \in PolicyKeys /\ plan = CompiledCalls(apm)
      /\ n \in Nat /\ Len(plan) \in Nat /\ Len(built[key]) \in Nat /\ key = apm.policyId
  BY <1>1, <1>2, StudioFacts DEF Key
<1>4. UNCHANGED <<job, process, file, Key, Calls>> BY DEF Key, Calls
<1>5. StudioTypes' BY <1>1, <1>4 DEF StudioTypes
<1>6. /\ n <= Len(plan) /\ Reached(apm, n)
      /\ \A k \in 1 .. n : file.steps[k] \in DOMAIN txs /\ txs[file.steps[k]].call = plan[k]
      /\ Len(built[key]) <= n + 1 /\ Len(built[key]) <= Len(plan)
      /\ Reached(apm, Len(built[key]))
      /\ \A i \in DOMAIN txs : \E k \in 0 .. n : IsStep(txs[i].call, apm, k)
  BY <1>1, <1>2 DEF StudioBuilt
\* What both kinds of step leave to be shown.
<1>7. ASSUME DOMAIN txs' = DOMAIN txs, \A i \in DOMAIN txs : txs'[i].call = txs[i].call,
             Grown, built' \in [PolicyKeys -> Seq(CallType)],
             Len(built'[key]) <= n + 1, Len(built'[key]) <= Len(plan),
             Reached(apm, Len(built[key]))',
             \A tx \in DOMAIN txs : \A k \in Nat :
               Returned(tx)' /\ SentAs(tx, apm, k) /\ k <= n => Returned(tx) \/ Reached(apm, k + 1)'
      PROVE  StudioOK'
  <2>1. Reached(apm, n)' BY <1>1, <1>3, <1>6, <1>7, ReachedStays
  <2>2. \A i \in DOMAIN txs' : \E k \in 0 .. n : IsStep(txs[i].call, apm, k)'
    BY <1>6, <1>7 DEF IsStep
  <2>3. StudioBuilt'
    <3>1. /\ n <= Len(plan) /\ Reached(apm, n)'
          /\ \A k \in 1 .. n : file.steps[k] \in DOMAIN txs' /\ txs'[file.steps[k]].call = plan[k]
          /\ Len(built'[key]) <= n + 1 /\ Len(built'[key]) <= Len(plan)
          /\ Reached(apm, Len(built[key]))'
      BY <1>6, <1>7, <2>1
    <3>2. apm = job'.apm /\ n = Len(file'.steps) /\ key = Key' /\ plan = Calls' BY <1>2, <1>4
    <3> QED BY <1>4, <2>2, <3>1, <3>2 DEF StudioBuilt
  <2>4. ASSUME NEW tx, SentAs(tx, apm, n) PROVE SentAs(tx, apm, n)'
    <3>1. tx \in DOMAIN txs BY <2>4 DEF SentAs
    <3>2. Returned(tx)' => Returned(tx) \/ Reached(apm, n + 1)' BY <1>3, <1>7, <2>4, <3>1
    <3> QED BY <1>1, <1>3, <1>7, <2>4, <3>1, <3>2, SentStays
  <2>5. StudioProcess'
    <3>1. PICK pending, tx : pending = file.pending /\ tx = process.tx OBVIOUS
    <3>2. /\ pending # NoTx => SentAs(pending, apm, n)
          /\ process.at \notin {"stopped", "ended"} => n < Len(plan) /\ process.todo = Remaining(n)
          /\ process.at \in {"captured", "wait", "readback"} => SentAs(tx, apm, n)
          /\ process.at = "readback" => Reached(apm, n + 1)
      BY <1>1, <1>2, <3>1 DEF StudioProcess
    <3>3. /\ pending # NoTx => SentAs(pending, apm, n)'
          /\ process.at \in {"captured", "wait", "readback"} => SentAs(tx, apm, n)'
      BY <2>4, <3>2
    <3>4. process.at = "readback" => Reached(apm, n + 1)'
      <4>1. n + 1 \in Nat BY <1>3
      <4> QED BY <1>1, <1>3, <1>7, <3>2, <4>1, ReachedStays
    <3>5. /\ apm = job'.apm /\ n = Len(file'.steps) /\ plan = Calls'
          /\ pending = file'.pending /\ tx = process'.tx
      BY <1>2, <1>4, <3>1
    <3>6. Remaining(n)' = Remaining(n) BY <1>4 DEF Remaining
    <3> QED BY <1>4, <3>2, <3>3, <3>4, <3>5, <3>6 DEF StudioProcess
  <2> QED BY <1>5, <2>3, <2>5 DEF StudioOK
<1>8. CASE Quiet
  <2>1. /\ DOMAIN txs' = DOMAIN txs /\ \A i \in DOMAIN txs : txs'[i].call = txs[i].call
        /\ \A i \in DOMAIN txs : txs'[i].result = "FINISHED_WITH_RETURN" =>
             txs[i].result = "FINISHED_WITH_RETURN"
        /\ built' = built
    BY <1>8 DEF Quiet
  <2>2. Grown /\ built' \in [PolicyKeys -> Seq(CallType)]
    BY <1>1, <2>1, SameBuiltGrows DEF WritesTypeOK
  <2>3. \A tx \in DOMAIN txs : Returned(tx)' => Returned(tx) BY <2>1 DEF Returned
  <2>4. Reached(apm, Len(built[key]))' BY <1>6, <2>1 DEF Reached
  <2> QED BY <1>6, <1>7, <2>1, <2>2, <2>3, <2>4
<1>9. ASSUME NEW i \in DOMAIN txs, Taking(i) PROVE StudioOK'
  <2>1. PICK c, taken : c = txs[i].call /\ taken = Len(built[c.key]) OBVIOUS
  <2>2. /\ c \in CallType /\ c.key \in PolicyKeys /\ Admitted(c)
        /\ c.fn # "activate_policy" => c \notin ToSet(built[c.key])
        /\ built' = [built EXCEPT ![c.key] = Append(@, c)]
        /\ DOMAIN txs' = DOMAIN txs
        /\ \A j \in DOMAIN txs : txs'[j].call = txs[j].call
        /\ \A j \in DOMAIN txs \ {i} : txs'[j] = txs[j]
    BY <1>9, <2>1, TakingFacts
  <2>3. Grown /\ built' \in [PolicyKeys -> Seq(CallType)] BY <1>1, <2>2, BuiltAppend
  <2>4. \A k \in 0 .. n : Reached(apm, k) BY <1>3, <1>6, ReachedEarlier
  <2>5. ASSUME NEW k \in 0 .. n, IsStep(c, apm, k)
        PROVE  /\ key = c.key /\ k = Len(built[key]) /\ Reached(apm, k + 1)'
               /\ Len(built'[key]) = k + 1 /\ k < Len(plan)
    <3>1. k \in Nat /\ Reached(apm, k) BY <1>3, <2>4
    <3> QED BY <1>1, <1>3, <2>2, <2>5, <3>1, TakenNext
  <2>6. PICK k \in 0 .. n : IsStep(c, apm, k) BY <1>6, <1>9, <2>1
  <2>7. /\ Len(built'[key]) = k + 1 /\ k < Len(plan) /\ k \in Nat
        /\ Reached(apm, k + 1)'
    BY <1>3, <2>5, <2>6
  <2>8. Len(built'[key]) <= n + 1 /\ Len(built'[key]) <= Len(plan) BY <1>3, <2>6, <2>7
  <2>9. Reached(apm, Len(built[key]))' BY <2>7 DEF Reached
  <2>10. ASSUME NEW tx \in DOMAIN txs, NEW m \in Nat, Returned(tx)', SentAs(tx, apm, m), m <= n
         PROVE  Returned(tx) \/ Reached(apm, m + 1)'
    <3>1. CASE tx = i
      <4>1. IsStep(c, apm, m) /\ m \in 0 .. n BY <1>3, <2>1, <2>10, <3>1 DEF SentAs
      <4> QED BY <2>5, <4>1
    <3>2. CASE tx # i BY <2>2, <2>10, <3>2 DEF Returned
    <3> QED BY <3>1, <3>2
  <2> QED BY <1>7, <2>2, <2>3, <2>8, <2>9, <2>10
<1> QED BY <1>8, <1>9

\* What is left of the plan after n calls.
LEMMA RemainingFacts ==
  ASSUME StudioTypes, WritesTypeOK, NEW n \in Nat, n <= Len(Calls)
  PROVE  /\ Remaining(n) \in Seq(CallType)
         /\ Remaining(n) = <<>> <=> n = Len(Calls)
         /\ n < Len(Calls) => Head(Remaining(n)) = Calls[n + 1] /\ Tail(Remaining(n)) = Remaining(n + 1)
<1>1. Calls \in Seq(CallType) /\ Len(Calls) \in Nat BY StudioFacts
<1> DEFINE s == Calls
           r == SubSeq(s, n + 1, Len(s))
<1> HIDE DEF s, CallType
<1>2. s \in Seq(CallType) /\ Len(s) \in Nat /\ n <= Len(s) BY <1>1 DEF s
<1>3. r \in Seq(CallType) /\ Len(r) = Len(s) - n BY <1>2
<1>4. r = <<>> <=> n = Len(s)
  <2> HIDE DEF r
  <2> QED BY <1>2, <1>3
<1>5. ASSUME n < Len(s) PROVE Head(r) = s[n + 1] /\ Tail(r) = SubSeq(s, n + 2, Len(s))
  <2>1. Head(r) = s[n + 1] BY <1>2, <1>5
  <2> DEFINE m == Len(s) - n - 1
             a == Tail(r)
             b == SubSeq(s, n + 2, Len(s))
  <2>2. m \in Nat BY <1>2, <1>5
  <2>3. a \in Seq(CallType) /\ Len(a) = m
    <3> HIDE DEF r
    <3> QED BY <1>2, <1>3, <1>5
  <2>4. b \in Seq(CallType) /\ Len(b) = m BY <1>2, <1>5
  <2>5. \A i \in 1 .. m : a[i] = s[n + 1 + i] BY <1>2, <1>3, <1>5
  <2>6. \A i \in 1 .. m : b[i] = s[n + 1 + i] BY <1>2, <1>5
  <2> HIDE DEF m, a, b
  <2>7. a = b BY <2>2, <2>3, <2>4, <2>5, <2>6
  <2> QED BY <2>1, <2>7 DEF a, b
<1>6. n + 1 + 1 = n + 2 OBVIOUS
<1> QED BY <1>3, <1>4, <1>5, <1>6 DEF Remaining, s

\* A process that does not write: the file and the process change, or only the process.
LEMMA StudioProceeds ==
  ASSUME WritesTypeOK, StudioOK, job.script = "studio",
         UNCHANGED <<built, txs, job>>,
         Estimate \/ StudioStart \/ SavePending \/ WaitFinalized \/ Crash
  PROVE  StudioOK'
<1>1. StudioTypes /\ StudioBuilt /\ StudioProcess BY DEF StudioOK
<1>2. PICK n : n = Len(file.steps) OBVIOUS
<1>3. /\ job.apm \in Authors /\ n \in Nat /\ Len(Calls) \in Nat
      /\ Calls = CompiledCalls(job.apm)
  BY <1>1, <1>2, StudioFacts
<1>4. n <= Len(Calls) BY <1>1, <1>2 DEF StudioBuilt
<1>5. /\ Remaining(n) \in Seq(CallType) /\ (Remaining(n) = <<>> <=> n = Len(Calls))
  BY <1>1, <1>3, <1>4, RemainingFacts
<1>6. UNCHANGED <<job, txs, built, Key, Calls>> BY DEF Key, Calls
<1>7. /\ file.pending # NoTx => SentAs(file.pending, job.apm, n)
      /\ process.at \notin {"stopped", "ended"} => n < Len(Calls) /\ process.todo = Remaining(n)
      /\ process.at \in {"captured", "wait", "readback"} => SentAs(process.tx, job.apm, n)
      /\ process.at = "readback" => Reached(job.apm, n + 1)
  BY <1>1, <1>2 DEF StudioProcess
<1>8. ASSUME NEW tx, NEW k, SentAs(tx, job.apm, k) PROVE SentAs(tx, job.apm, k)'
  BY <1>6, <1>8 DEF SentAs, IsStep, Reached, Returned
<1>9. Reached(job.apm, n + 1) => Reached(job.apm, n + 1)' BY <1>2, <1>6 DEF Reached
<1>10. ASSUME StudioTypes', Len(file'.steps) = n, file'.steps = file.steps,
              \A tx : \/ file'.pending = tx /\ tx # NoTx
                      \/ process'.tx = tx /\ process'.at \in {"captured", "wait", "readback"}
                      => SentAs(tx, job.apm, n),
              process'.at \notin {"stopped", "ended"} => n < Len(Calls) /\ process'.todo = Remaining(n),
              process'.at = "readback" => Reached(job.apm, n + 1)
       PROVE  StudioOK'
  <2>1. StudioBuilt' BY <1>1, <1>6, <1>10 DEF StudioBuilt, IsStep, Reached
  <2>2. PICK pending, tx : pending = file'.pending /\ tx = process'.tx OBVIOUS
  <2>3. pending # NoTx => SentAs(pending, job.apm, n)' BY <1>8, <1>10, <2>2
  <2>4. process'.at \in {"captured", "wait", "readback"} => SentAs(tx, job.apm, n)'
    BY <1>8, <1>10, <2>2
  <2>5. Remaining(n)' = Remaining(n) BY <1>6 DEF Remaining
  <2>6. StudioProcess'
    <3>1. n = Len(file'.steps) BY <1>10
    <3> QED BY <1>6, <1>9, <1>10, <2>2, <2>3, <2>4, <2>5, <3>1 DEF StudioProcess
  <2> QED BY <1>10, <2>1, <2>6 DEF StudioOK
<1>11. /\ file \in [steps: Seq(Nat), pending: Nat]
       /\ process \in [at: {"stopped", "ended", "estimate", "write", "captured", "wait", "readback"},
                       todo: Seq(CallType), tx: Nat, since: Nat]
       /\ job.apm \in Manifests /\ job.calls = CompiledCalls(job.apm)
  BY <1>1 DEF StudioTypes
<1> HIDE DEF CallType
<1>12. /\ Stopped.at = "stopped" /\ Stopped.tx = NoTx /\ Stopped.todo = <<>> /\ Stopped.since = 0
       /\ Stopped \in [at: {"stopped"}, todo: Seq(CallType), tx: Nat, since: Nat]
  BY DEF Stopped, NoTx
<1>13. ASSUME process' = Stopped, file' = file PROVE StudioOK'
  <2>1. StudioTypes' BY <1>6, <1>11, <1>12, <1>13 DEF StudioTypes
  <2> QED BY <1>2, <1>7, <1>10, <1>12, <1>13, <2>1
<1>14. CASE Crash BY <1>13, <1>14 DEF Crash, Stop
<1>15. CASE Estimate
  <2>1. process.at = "estimate" /\ file' = file BY <1>15 DEF Estimate
  <2>2. CASE process' = Stopped BY <1>13, <2>1, <2>2
  <2>3. CASE process' = [process EXCEPT !.at = "write"]
    <3>1. /\ process'.at = "write" /\ process'.todo = process.todo /\ StudioTypes'
      BY <1>6, <1>11, <2>1, <2>3 DEF StudioTypes
    <3> QED BY <1>2, <1>7, <1>10, <2>1, <3>1
  <2> QED BY <1>15, <2>2, <2>3 DEF Estimate, Go, Stop
<1>16. CASE StudioStart
  <2>1. /\ file' = file
        /\ process' = [Stopped EXCEPT !.todo = Remaining(n), !.tx = file.pending,
                         !.at = IF file.pending # NoTx THEN "wait"
                                ELSE IF Remaining(n) = <<>> THEN "ended" ELSE "estimate"]
    BY <1>2, <1>16 DEF StudioStart
  <2>2. PICK at : at = IF file.pending # NoTx THEN "wait"
                       ELSE IF Remaining(n) = <<>> THEN "ended" ELSE "estimate"
    OBVIOUS
  <2>3. process' = [Stopped EXCEPT !.todo = Remaining(n), !.tx = file.pending, !.at = at]
    BY <2>1, <2>2
  <2>4. /\ process'.at = at /\ process'.todo = Remaining(n) /\ process'.tx = file.pending
        /\ process'.since = 0 /\ process' = [at |-> at, todo |-> Remaining(n), tx |-> file.pending, since |-> 0]
    BY <2>3 DEF Stopped
  <2>5. StudioTypes'
    <3>1. at \in {"wait", "ended", "estimate"} BY <2>2
    <3>2. PICK todo : todo = Remaining(n) OBVIOUS
    <3>3. process' = [at |-> at, todo |-> todo, tx |-> file.pending, since |-> 0] BY <2>4, <3>2
    <3>4. todo \in Seq(CallType) /\ file.pending \in Nat BY <1>5, <1>11, <3>2
    <3>5. process' \in [at: {"stopped", "ended", "estimate", "write", "captured", "wait", "readback"},
                       todo: Seq(CallType), tx: Nat, since: Nat]
      BY <3>1, <3>3, <3>4
    <3> QED BY <1>6, <1>11, <2>1, <3>5 DEF StudioTypes
  <2>6. file.pending # NoTx => n < Len(Calls)
    BY <1>3, <1>7 DEF SentAs, IsStep
  <2>7. at \notin {"stopped", "ended"} => n < Len(Calls) BY <1>3, <1>4, <1>5, <2>2, <2>6
  <2> QED BY <1>2, <1>7, <1>10, <2>1, <2>2, <2>4, <2>5, <2>7
<1>17. CASE SavePending
  <2>1. /\ process.at = "captured" /\ file' = [file EXCEPT !.pending = process.tx]
        /\ process' = [process EXCEPT !.at = "wait"]
    BY <1>17 DEF SavePending, At, Go
  <2>2. /\ file'.pending = process.tx /\ file'.steps = file.steps
        /\ process'.at = "wait" /\ process'.todo = process.todo /\ process'.tx = process.tx
        /\ StudioTypes'
    BY <1>6, <1>11, <2>1 DEF StudioTypes
  <2> QED BY <1>2, <1>7, <1>10, <2>1, <2>2
<1>18. CASE WaitFinalized
  <2>1. /\ process.at = "wait" /\ file' = file
        /\ IF Succeeded(process.tx) THEN process' = [process EXCEPT !.at = "readback"]
           ELSE process' = Stopped
    BY <1>18 DEF WaitFinalized, At, Go, Stop
  <2>2. CASE ~Succeeded(process.tx) BY <1>13, <2>1, <2>2
  <2>3. CASE Succeeded(process.tx)
    <3>1. /\ process'.at = "readback" /\ process'.todo = process.todo /\ process'.tx = process.tx
          /\ StudioTypes'
      BY <1>6, <1>11, <2>1, <2>3 DEF StudioTypes
    <3>2. Reached(job.apm, n + 1)
      <4>1. SentAs(process.tx, job.apm, n) BY <1>7, <2>1
      <4>2. txs[process.tx].call.fn # "activate_policy"
        BY <1>3, <4>1, StepFacts DEF SentAs, Adds
      <4>3. Returned(process.tx) BY <2>3, <4>2 DEF Returned, Succeeded
      <4> QED BY <4>1, <4>3 DEF SentAs
    <3> QED BY <1>2, <1>7, <1>10, <2>1, <3>1, <3>2
  <2> QED BY <2>2, <2>3
<1> QED BY <1>14, <1>15, <1>16, <1>17, <1>18

\* A call is recorded once the kernel shows what it was to add.
LEMMA StudioRecords ==
  ASSUME WritesTypeOK, StudioOK, Record PROVE StudioOK'
<1>1. StudioTypes /\ StudioBuilt /\ StudioProcess BY DEF StudioOK
<1>2. PICK n, apm, plan, key, tx :
        n = Len(file.steps) /\ apm = job.apm /\ plan = Calls /\ key = Key /\ tx = process.tx
  OBVIOUS
<1>3. /\ apm \in Authors /\ n \in Nat /\ Len(plan) \in Nat /\ plan = CompiledCalls(apm)
      /\ Len(built[key]) \in Nat
  BY <1>1, <1>2, StudioFacts
<1>4. /\ process.at = "readback" /\ UNCHANGED <<built, txs, job>>
      /\ \/ /\ file' = [steps |-> Append(file.steps, tx), pending |-> NoTx]
            /\ process' = [process EXCEPT !.todo = Tail(@), !.tx = NoTx,
                             !.at = IF Tail(process.todo) = <<>> THEN "ended" ELSE "estimate"]
         \/ process' = Stopped /\ file' = file
  BY <1>2 DEF Record, At, Stop
<1>5. UNCHANGED <<Key, Calls>> BY <1>4 DEF Key, Calls
<1>6. /\ n < Len(plan) /\ process.todo = Remaining(n)
      /\ SentAs(tx, apm, n) /\ Reached(apm, n + 1)
      /\ file.pending # NoTx => SentAs(file.pending, apm, n)
  BY <1>1, <1>2, <1>4 DEF StudioProcess
<1>7. /\ \A k \in 1 .. n : file.steps[k] \in DOMAIN txs /\ txs[file.steps[k]].call = plan[k]
      /\ Len(built[key]) <= n + 1 /\ Len(built[key]) <= Len(plan)
      /\ Reached(apm, Len(built[key]))
      /\ \A i \in DOMAIN txs : \E k \in 0 .. n : IsStep(txs[i].call, apm, k)
  BY <1>1, <1>2 DEF StudioBuilt
<1>8. /\ file \in [steps: Seq(Nat), pending: Nat]
      /\ process \in [at: {"stopped", "ended", "estimate", "write", "captured", "wait", "readback"},
                      todo: Seq(CallType), tx: Nat, since: Nat]
      /\ job.apm \in Manifests /\ job.calls = CompiledCalls(job.apm)
  BY <1>1 DEF StudioTypes
<1> HIDE DEF CallType
<1>9. CASE process' = Stopped /\ file' = file
  <2>1. Stopped \in [at: {"stopped"}, todo: Seq(CallType), tx: Nat, since: Nat]
        /\ Stopped.at = "stopped"
    BY DEF Stopped, NoTx
  <2>2. StudioTypes' BY <1>4, <1>8, <1>9, <2>1 DEF StudioTypes
  <2>3. StudioBuilt' BY <1>1, <1>4, <1>5, <1>9 DEF StudioBuilt, IsStep, Reached
  <2>4. PICK pending : pending = file.pending OBVIOUS
  <2>5. pending # NoTx => SentAs(pending, apm, n)'
    BY <1>4, <1>6, <2>4 DEF SentAs, IsStep, Reached, Returned
  <2>6. StudioProcess'
    <3>1. pending = file'.pending /\ n = Len(file'.steps) /\ apm = job'.apm BY <1>2, <1>4, <1>9, <2>4
    <3> QED BY <1>9, <2>1, <2>5, <3>1 DEF StudioProcess
  <2> QED BY <2>2, <2>3, <2>6 DEF StudioOK
<1>10. CASE /\ file' = [steps |-> Append(file.steps, tx), pending |-> NoTx]
            /\ process' = [process EXCEPT !.todo = Tail(@), !.tx = NoTx,
                             !.at = IF Tail(process.todo) = <<>> THEN "ended" ELSE "estimate"]
  <2> DEFINE m == n + 1
  <2>1. m \in Nat /\ m <= Len(plan) BY <1>3, <1>6
  <2>2. tx \in DOMAIN txs /\ txs[tx].call = plan[m] BY <1>3, <1>6 DEF SentAs, IsStep
  <2>3. tx \in Nat BY <1>2, <1>8
  <2>4. /\ file'.steps \in Seq(Nat) /\ Len(file'.steps) = m /\ file'.pending = NoTx
        /\ file'.steps[m] = tx /\ \A k \in 1 .. n : file'.steps[k] = file.steps[k]
    BY <1>2, <1>8, <1>10, <2>3
  <2>5. PICK rest, at : /\ rest = Remaining(m)
                        /\ at = IF rest = <<>> THEN "ended" ELSE "estimate"
    OBVIOUS
  <2>6. /\ rest = Tail(process.todo) /\ rest \in Seq(CallType) /\ (rest = <<>> <=> m = Len(plan))
    BY <1>1, <1>2, <1>3, <1>6, <2>1, <2>5, RemainingFacts
  <2>7. process' = [process EXCEPT !.todo = rest, !.tx = NoTx, !.at = at] BY <1>10, <2>5, <2>6
  <2>8. at \in {"ended", "estimate"} /\ (at = "estimate" => m < Len(plan)) BY <1>3, <2>1, <2>5, <2>6
  <2>9. /\ process'.at = at /\ process'.todo = rest
        /\ process' \in [at: {"stopped", "ended", "estimate", "write", "captured", "wait", "readback"},
                         todo: Seq(CallType), tx: Nat, since: Nat]
    BY <1>8, <2>6, <2>7, <2>8 DEF NoTx
  <2>10. StudioTypes'
    <3>1. file' \in [steps: Seq(Nat), pending: Nat] BY <1>10, <2>4 DEF NoTx
    <3> QED BY <1>4, <1>8, <2>9, <3>1 DEF StudioTypes
  <2> HIDE DEF m
  <2>11. n < m /\ m = n + 1 BY <1>3 DEF m
  <2>12. Reached(apm, m)' BY <1>4, <1>6, <2>11 DEF Reached
  <2>13. Reached(apm, Len(built[key]))' BY <1>4, <1>7 DEF Reached
  <2>14. \A k \in 1 .. m : file'.steps[k] \in DOMAIN txs /\ txs[file'.steps[k]].call = plan[k]
    <3> SUFFICES ASSUME NEW k \in 1 .. m
                 PROVE  file'.steps[k] \in DOMAIN txs /\ txs[file'.steps[k]].call = plan[k]
      OBVIOUS
    <3>1. CASE k = m BY <2>2, <2>4, <3>1
    <3>2. CASE k \in 1 .. n BY <1>7, <2>4, <3>2
    <3> QED BY <1>3, <2>1, <2>11, <3>1, <3>2
  <2>15. \A i \in DOMAIN txs' : \E k \in 0 .. m : IsStep(txs[i].call, apm, k)'
    <3>1. \A k \in 0 .. n : k \in 0 .. m BY <1>3, <2>1, <2>11
    <3> QED BY <1>4, <1>7, <3>1 DEF IsStep
  <2>16. StudioBuilt'
    <3>1. m = Len(file'.steps) /\ apm = job'.apm /\ plan = Calls' /\ key = Key'
      BY <1>2, <1>4, <1>5, <2>4
    <3>2. Len(built'[key]) <= m + 1 /\ Len(built'[key]) <= Len(plan)
      BY <1>3, <1>4, <1>7, <2>1, <2>11
    <3> QED BY <1>4, <2>1, <2>12, <2>13, <2>14, <2>15, <3>1, <3>2 DEF StudioBuilt
  <2>17. StudioProcess'
    <3>1. m = Len(file'.steps) /\ plan = Calls' /\ Remaining(m)' = rest
      BY <1>2, <1>5, <2>4, <2>5 DEF Remaining
    <3> QED BY <2>4, <2>8, <2>9, <3>1 DEF StudioProcess
  <2> QED BY <2>10, <2>16, <2>17 DEF StudioOK
<1> QED BY <1>4, <1>9, <1>10

\* What the studio script sends is the next call of its plan.
LEMMA StudioSends ==
  ASSUME WritesTypeOK, StudioOK, process.at = "write"
  PROVE  /\ Call \in CallType
         /\ LET n == Len(file.steps) IN
            n \in Nat /\ IsStep(Call, job.apm, n) /\ Reached(job.apm, n) /\ Ready(Call)
<1> DEFINE n == Len(file.steps)
<1>1. StudioTypes /\ StudioBuilt /\ StudioProcess BY DEF StudioOK
<1>2. /\ job.apm \in Authors /\ n \in Nat /\ Len(Calls) \in Nat /\ Calls \in Seq(CallType)
      /\ Calls = CompiledCalls(job.apm)
  BY <1>1, StudioFacts
<1>3. n < Len(Calls) /\ process.todo = Remaining(n) BY <1>1 DEF StudioProcess
<1>4. Reached(job.apm, n) BY <1>1 DEF StudioBuilt
<1> HIDE DEF n, CallType
<1>5. Call = Calls[n + 1] BY <1>1, <1>2, <1>3, RemainingFacts DEF Call
<1>6. Call \in CallType
  <2>1. n + 1 \in 1 .. Len(Calls) BY <1>2, <1>3
  <2> QED BY <1>2, <1>5, <2>1
<1>7. IsStep(Call, job.apm, n) BY <1>2, <1>3, <1>5 DEF IsStep
<1>8. Ready(Call) BY <1>2, <1>4, <1>7 DEF Ready
<1> QED BY <1>2, <1>4, <1>6, <1>7, <1>8 DEF n

\* The script sends the next call of its plan.
LEMMA StudioWrites ==
  ASSUME WritesInv, StudioOK, job.script = "studio", Write
  PROVE  StudioOK' /\ Call \in CallType /\ Sending(Call, Owner) /\ Ready(Call)
<1>1. WritesTypeOK /\ StudioTypes /\ StudioBuilt /\ StudioProcess BY DEF WritesInv, StudioOK
<1>2. PICK n, apm, plan, key, call, last :
        /\ n = Len(file.steps) /\ apm = job.apm /\ plan = Calls /\ key = Key
        /\ call = Call /\ last = Len(txs) + 1
  OBVIOUS
<1>3. /\ process.at = "write" /\ UNCHANGED <<policies, now, built, job, file>>
      /\ process' = [process EXCEPT !.tx = last, !.at = "captured"]
      /\ Submit(call, Owner)
  BY <1>2 DEF Write, policyVars
<1>4. Sending(call, Owner) BY <1>3 DEF Sending, Submit
<1>5. /\ call \in CallType /\ n \in Nat /\ IsStep(call, apm, n) /\ Reached(apm, n) /\ Ready(call)
  BY <1>1, <1>2, <1>3, StudioSends
<1>6. Owner \in Accounts BY WritesAssumption
<1>7. /\ txs' \in Seq(TxType) /\ DOMAIN txs' = 1 .. last /\ DOMAIN txs = 1 .. last - 1
      /\ last \in Nat \ {0}
      /\ \A i \in DOMAIN txs : txs'[i] = txs[i]
      /\ txs'[last].call = call /\ txs'[last].result = "NONE"
  <2> DEFINE len == Len(txs)
  <2>1. /\ txs' \in Seq(TxType) /\ DOMAIN txs' = 1 .. len + 1 /\ DOMAIN txs = 1 .. len /\ len \in Nat
        /\ \A i \in DOMAIN txs : txs'[i] = txs[i]
        /\ txs'[len + 1].call = call /\ txs'[len + 1].result = "NONE"
    BY <1>1, <1>4, <1>5, <1>6, SendingAppends
  <2>2. last = len + 1 /\ len = last - 1 BY <1>2, <2>1
  <2> HIDE DEF len, TxType
  <2> QED BY <2>1, <2>2
<1> HIDE DEF CallType, TxType
<1>8. UNCHANGED <<Key, Calls>> BY <1>3 DEF Key, Calls
<1>9. /\ file \in [steps: Seq(Nat), pending: Nat]
      /\ process \in [at: {"stopped", "ended", "estimate", "write", "captured", "wait", "readback"},
                      todo: Seq(CallType), tx: Nat, since: Nat]
      /\ job.apm \in Manifests /\ job.calls = CompiledCalls(job.apm)
  BY <1>1 DEF StudioTypes
<1>10. StudioTypes' BY <1>3, <1>7, <1>9 DEF StudioTypes
<1>11. /\ n <= Len(plan)
       /\ \A k \in 1 .. n : file.steps[k] \in DOMAIN txs /\ txs[file.steps[k]].call = plan[k]
       /\ Len(built[key]) <= n + 1 /\ Len(built[key]) <= Len(plan)
       /\ Reached(apm, Len(built[key]))
       /\ \A i \in DOMAIN txs : \E k \in 0 .. n : IsStep(txs[i].call, apm, k)
  BY <1>1, <1>2 DEF StudioBuilt
<1>12. \A i \in DOMAIN txs : i \in DOMAIN txs' BY <1>7
<1>13. \A i \in DOMAIN txs' : i = last \/ i \in DOMAIN txs BY <1>7
<1>14. \A i \in DOMAIN txs' : \E k \in 0 .. n : IsStep(txs[i].call, apm, k)'
  <2> SUFFICES ASSUME NEW i \in DOMAIN txs' PROVE \E k \in 0 .. n : IsStep(txs[i].call, apm, k)'
    OBVIOUS
  <2>1. CASE i = last
    <3>1. n \in 0 .. n BY <1>5
    <3> QED BY <1>5, <1>7, <2>1, <3>1 DEF IsStep
  <2>2. CASE i \in DOMAIN txs BY <1>7, <1>11, <2>2 DEF IsStep
  <2> QED BY <1>13, <2>1, <2>2
<1>15. n = Len(file'.steps) /\ apm = job'.apm /\ plan = Calls' /\ key = Key' BY <1>2, <1>3, <1>8
<1>16. StudioBuilt'
  <2>1. Reached(apm, n)' /\ Reached(apm, Len(built[key]))' BY <1>3, <1>5, <1>11 DEF Reached
  <2>2. \A k \in 1 .. n : file'.steps[k] \in DOMAIN txs' /\ txs'[file'.steps[k]].call = plan[k]
    BY <1>3, <1>7, <1>11, <1>12
  <2> QED BY <1>3, <1>11, <1>14, <1>15, <2>1, <2>2 DEF StudioBuilt
<1>17. StudioProcess'
  <2>1. PICK pending : pending = file.pending OBVIOUS
  <2>2. pending # NoTx => SentAs(pending, apm, n)'
    <3>1. pending # NoTx => SentAs(pending, apm, n) BY <1>1, <1>2, <2>1 DEF StudioProcess
    <3> QED BY <1>3, <1>7, <1>12, <3>1 DEF SentAs, IsStep, Reached, Returned
  <2>3. SentAs(last, apm, n)' BY <1>5, <1>7 DEF SentAs, IsStep, Returned
  <2>4. n < Len(plan) /\ process.todo = Remaining(n) BY <1>1, <1>2, <1>3 DEF StudioProcess
  <2>5. process'.at = "captured" /\ process'.todo = process.todo /\ process'.tx = last
    BY <1>3, <1>9
  <2>6. Remaining(n)' = Remaining(n) /\ pending = file'.pending BY <1>3, <1>8, <2>1 DEF Remaining
  <2> QED BY <1>15, <2>2, <2>3, <2>4, <2>5, <2>6 DEF StudioProcess
<1> QED BY <1>2, <1>4, <1>5, <1>10, <1>16, <1>17 DEF StudioOK

\* The script starts with an empty file.
LEMMA StudioInit ==
  ASSUME WritesInit, ScriptsInit, job.script = "studio", job.apm \in Manifests,
         job.calls = CompiledCalls(job.apm)
  PROVE  StudioOK
<1>1. /\ process = Stopped /\ file = [steps |-> <<>>, pending |-> NoTx] /\ txs = <<>>
      /\ built = [pk \in PolicyKeys |-> <<>>]
  BY DEF WritesInit, ScriptsInit
<1> HIDE DEF CallType
<1>2. StudioTypes BY <1>1 DEF StudioTypes, Stopped, NoTx
<1>3. job.apm \in Authors /\ Calls = CompiledCalls(job.apm) BY DEF Authors, Calls
<1>4. Len(Calls) \in Nat BY <1>3, PlanFacts
<1>5. Key \in PolicyKeys BY <1>3, AuthorsCompile DEF ApmType, Key
<1>6. built[Key] = <<>> /\ Len(file.steps) = 0 /\ Len(built[Key]) = 0 /\ file.steps = <<>> BY <1>1, <1>5
<1>7. Reached(job.apm, 0) BY DEF Reached
<1>8. StudioBuilt BY <1>1, <1>4, <1>6, <1>7 DEF StudioBuilt
<1>9. StudioProcess BY <1>1 DEF StudioProcess, Stopped
<1> QED BY <1>2, <1>8, <1>9 DEF StudioOK

\* With the kernel at most a call ahead the record is the policy's calls.
LEMMA StudioRecord ==
  ASSUME WritesInv, LineInv, StudioOK PROVE RecordIsOnChain
<1>1. WritesTypeOK /\ LineOK /\ StudioTypes /\ StudioBuilt BY DEF WritesInv, LineInv, StudioOK
<1> DEFINE recorded == [k \in DOMAIN file.steps |-> txs[file.steps[k]].call]
           n == Len(file.steps)
           plan == Calls
           s == built[Key]
<1>2. /\ job.apm \in Authors /\ Key \in PolicyKeys /\ plan = CompiledCalls(job.apm)
      /\ plan \in Seq(CallType) /\ Len(plan) \in Nat /\ n \in Nat
  BY <1>1, StudioFacts
<1>3. /\ n <= Len(plan) /\ Len(s) <= n + 1 /\ Len(s) <= Len(plan)
      /\ Reached(job.apm, n) /\ Reached(job.apm, Len(s))
      /\ \A k \in 1 .. n : file.steps[k] \in DOMAIN txs /\ txs[file.steps[k]].call = plan[k]
  BY <1>1 DEF StudioBuilt
<1>4. s \in Seq(CallType) BY <1>1, <1>2 DEF WritesTypeOK
<1>5. file.steps \in Seq(Nat) /\ DOMAIN file.steps = 1 .. n BY <1>1 DEF StudioTypes
<1>6. s # <<>> => Len(s) > 0 /\ s[1] = BeginCall(job.apm)
  <2>1. s # <<>> => Len(s) > 0
    <3> HIDE DEF s, CallType
    <3> QED BY <1>4
  <2> QED BY <1>3, <2>1 DEF Reached, Key
<1>7. ASSUME s # <<>> PROVE Along(s, plan)
  <2>1. PICK apm : LineAt(Key, apm) BY <1>1, <1>2, <1>7 DEF LineOK, LineAt
  <2>2. apm = job.apm BY <1>6, <1>7, <2>1 DEF LineAt, BeginCall
  <2> QED BY <1>2, <2>1, <2>2 DEF LineAt
<1>8. n <= Len(s) BY <1>2, <1>3, <1>4 DEF Reached, Key
<1>9. \A k \in 1 .. n : recorded[k] = plan[k] BY <1>3, <1>5
<1>10. DOMAIN recorded = 1 .. n BY <1>5
<1>11. recorded = [k \in 1 .. n |-> recorded[k]] BY <1>5
<1> HIDE DEF recorded, n, plan, s, CallType
<1>12. \A k \in 1 .. n : plan[k] \in CallType BY <1>2, <1>3
<1>13. recorded \in Seq(CallType) /\ Len(recorded) = n
  <2>1. [k \in 1 .. n |-> recorded[k]] \in Seq(CallType) BY <1>2, <1>9, <1>12
  <2>2. recorded \in Seq(CallType) BY <1>11, <2>1
  <2> QED BY <1>2, <1>10, <2>2
<1>14. recorded = SubSeq(plan, 1, n)
  <2> DEFINE first == SubSeq(plan, 1, n)
  <2>1. first \in Seq(CallType) /\ Len(first) = n /\ \A k \in 1 .. n : first[k] = plan[k]
    BY <1>2, <1>3
  <2> HIDE DEF first
  <2>2. recorded = first BY <1>2, <1>9, <1>13, <2>1
  <2> QED BY <2>2 DEF first
<1>15. \A k \in 1 .. Len(s) : s[k] = plan[k]
  <2> SUFFICES ASSUME NEW k \in 1 .. Len(s) PROVE s[k] = plan[k] OBVIOUS
  <2>1. Len(s) \in Nat /\ k \in DOMAIN s BY <1>4
  <2>2. s # <<>> /\ k <= Len(plan) BY <1>2, <1>3, <2>1
  <2> QED BY <1>7, <2>1, <2>2 DEF Along
<1>16. CASE Len(s) = n
  <2>1. s = recorded BY <1>4, <1>9, <1>13, <1>15, <1>16
  <2> QED BY <1>13, <1>14, <2>1 DEF RecordIsOnChain, recorded, n, plan, s
<1>17. CASE Len(s) = n + 1
  <2>1. n + 1 \in DOMAIN plan /\ plan[n + 1] \in CallType BY <1>2, <1>3, <1>17
  <2> DEFINE more == Append(recorded, plan[n + 1])
  <2>2. /\ more \in Seq(CallType) /\ Len(more) = n + 1 /\ more[n + 1] = plan[n + 1]
        /\ \A k \in 1 .. n : more[k] = plan[k]
    BY <1>2, <1>9, <1>13, <2>1
  <2> HIDE DEF more
  <2>3. \A k \in 1 .. n + 1 : more[k] = plan[k]
    <3> SUFFICES ASSUME NEW k \in 1 .. n + 1 PROVE more[k] = plan[k] OBVIOUS
    <3>1. k = n + 1 \/ k \in 1 .. n BY <1>2
    <3> QED BY <2>2, <3>1
  <2>4. s = more
    <3>1. \A k \in 1 .. n + 1 : s[k] = plan[k] BY <1>15, <1>17
    <3>2. n + 1 \in Nat BY <1>2
    <3> QED BY <1>4, <1>17, <2>2, <2>3, <3>1, <3>2
  <2>5. n + 1 \in {n + 1} \cap DOMAIN plan BY <2>1
  <2>6. s \in {Append(recorded, plan[k]) : k \in {n + 1} \cap DOMAIN plan} BY <2>4, <2>5 DEF more
  <2> QED BY <1>13, <1>14, <2>6 DEF RecordIsOnChain, recorded, n, plan, s
<1>18. Len(s) \in Nat BY <1>4
<1> QED BY <1>2, <1>3, <1>8, <1>16, <1>17, <1>18

-----------------------------------------------------------------------------
(* The page *)

\* A review is shown no more, or moves on to something other than tracking.
Moved(r, s) ==
  \/ s = r
  \/ s = [r EXCEPT !.shown = FALSE]
  \/ s = [r EXCEPT !.at = "signing"]
  \/ s = [r EXCEPT !.at = "review"]
  \/ s = [r EXCEPT !.at = "error", !.waited = FALSE]

\* Of the page p, q has the reviews, changed at most as above, and maybe not all.
Fewer(p, q) == \A s \in q.reviews : \E r \in p.reviews : Moved(r, s)

\* What is known of a review is known of it when it has moved.
LEMMA ReviewMoves ==
  ASSUME NEW js, NEW r, ReviewOK(r, js), NEW s, Moved(r, s)
  PROVE  ReviewOK(s, js) /\ (s.at = "tracking" => r.at = "tracking" /\ s.tx = r.tx)
<1>1. /\ r = [journey |-> r.journey, kind |-> r.kind, draft |-> r.draft, at |-> r.at, tx |-> r.tx,
              shown |-> r.shown, waited |-> r.waited]
      /\ r.journey \in DOMAIN js /\ r.draft.call \in CallType
      /\ DraftOf(r.draft.call, r.kind, js[r.journey])
      /\ r.at = "tracking" => TrackedOK(r, js[r.journey])
  BY DEF ReviewOK
<1> HIDE DEF CallType
<1>2. /\ s = [journey |-> s.journey, kind |-> s.kind, draft |-> s.draft, at |-> s.at, tx |-> s.tx,
              shown |-> s.shown, waited |-> s.waited]
      /\ s.journey = r.journey /\ s.kind = r.kind /\ s.draft = r.draft /\ s.tx = r.tx
      /\ s.at = "tracking" => r.at = "tracking"
  <2>1. CASE s = [r EXCEPT !.shown = FALSE] BY <1>1, <2>1
  <2>2. CASE s = [r EXCEPT !.at = "signing"] BY <1>1, <2>2
  <2>3. CASE s = [r EXCEPT !.at = "review"] BY <1>1, <2>3
  <2>4. CASE s = [r EXCEPT !.at = "error", !.waited = FALSE] BY <1>1, <2>4
  <2>5. CASE s = r BY <1>1, <2>5
  <2> QED BY <2>1, <2>2, <2>3, <2>4, <2>5 DEF Moved
<1>3. s.at = "tracking" => TrackedOK(s, js[s.journey]) BY <1>1, <1>2 DEF TrackedOK
<1> QED BY <1>1, <1>2, <1>3 DEF ReviewOK

\* What is known of all reviews is known of fewer.
LEMMA FewerReviews ==
  ASSUME NEW p, NEW q, NEW js, \A r \in p.reviews : ReviewOK(r, js), Fewer(p, q)
  PROVE  \A r \in q.reviews : ReviewOK(r, js)
<1> SUFFICES ASSUME NEW s \in q.reviews PROVE ReviewOK(s, js) OBVIOUS
<1>1. PICK r \in p.reviews : Moved(r, s) BY DEF Fewer
<1> QED BY <1>1, ReviewMoves

\* The panel is replaced: unconfirmed reviews go, the others are hidden.
LEMMA ShownFields ==
  ASSUME NEW p, Fields(p), NEW panel, NEW js, TrackOnce(p), \A r \in p.reviews : ReviewOK(r, js)
  PROVE  LET q == Shown(p, panel) IN
         /\ Fields(q) /\ q.panel = panel /\ q.account = p.account /\ q.current = p.current
         /\ q.drafts = p.drafts /\ q.screen = p.screen /\ q.builds = p.builds /\ q.reads = p.reads
         /\ TrackOnce(q) /\ \A r \in q.reviews : ReviewOK(r, js)
<1> DEFINE q == Shown(p, panel)
           confirmed == {s \in p.reviews : s.at \in {"signing", "tracking"}}
           hidden == {[r EXCEPT !.shown = FALSE] : r \in confirmed}
<1>1. q = [p EXCEPT !.panel = panel, !.reviews = hidden] BY DEF Shown
<1>2. \A s \in hidden : \E r \in p.reviews : s = [r EXCEPT !.shown = FALSE] /\ Moved(r, s)
  BY DEF Moved
<1> HIDE DEF hidden, q
<1>3. /\ p = [account |-> p.account, current |-> p.current, drafts |-> p.drafts,
              screen |-> p.screen, panel |-> p.panel, builds |-> p.builds, reads |-> p.reads,
              reviews |-> p.reviews]
      /\ p.account \in Accounts \cup {NoAccount} /\ p.screen \in Nat
  BY DEF Fields
<1>4. /\ q = [account |-> p.account, current |-> p.current, drafts |-> p.drafts,
              screen |-> p.screen, panel |-> panel, builds |-> p.builds, reads |-> p.reads,
              reviews |-> hidden]
      /\ q.panel = panel /\ q.account = p.account /\ q.current = p.current
      /\ q.drafts = p.drafts /\ q.screen = p.screen /\ q.builds = p.builds
      /\ q.reads = p.reads /\ q.reviews = hidden
  BY <1>1, <1>3
<1>5. Fields(q) BY <1>3, <1>4 DEF Fields
<1>6. \A r \in q.reviews : ReviewOK(r, js)
  <2>1. Fewer(p, q) BY <1>2, <1>4 DEF Fewer
  <2> QED BY <2>1, FewerReviews
<1>7. TrackOnce(q)
  <2> SUFFICES ASSUME NEW s \in hidden, NEW u \in hidden, s.at = "tracking", u.at = "tracking",
                      s.tx = u.tx
               PROVE  s = u
    BY <1>4 DEF TrackOnce
  <2>1. PICK r \in p.reviews : s = [r EXCEPT !.shown = FALSE] /\ Moved(r, s) BY <1>2
  <2>2. PICK v \in p.reviews : u = [v EXCEPT !.shown = FALSE] /\ Moved(v, u) BY <1>2
  <2>3. ReviewOK(r, js) /\ ReviewOK(v, js) OBVIOUS
  <2>4. r.at = "tracking" /\ s.tx = r.tx BY <2>1, <2>3, ReviewMoves
  <2>5. v.at = "tracking" /\ u.tx = v.tx BY <2>2, <2>3, ReviewMoves
  <2>6. r = v BY <2>4, <2>5 DEF TrackOnce
  <2> QED BY <2>1, <2>2, <2>6
<1> QED BY <1>4, <1>5, <1>6, <1>7 DEF q

\* The panel shows nothing, or what the current journey's state calls for.
LEMMA ShownOK ==
  ASSUME NEW p, NEW js, Fields(p), p.current \in {NoJourney, Len(js)}, DraftsOK(p), TrackOnce(p),
         SealsOK(p, js), \A b \in p.builds : BuildOK(b, p, js),
         \A r \in p.reviews : ReviewOK(r, js),
         NEW panel,
         panel.shows \in {"wait", "activate"} =>
           panel.plan \in DOMAIN js /\ Finished(js[panel.plan]),
         \/ panel.shows = "nothing"
         \/ /\ p.current # NoJourney
            /\ panel.shows \in {"verify", "wait", "activate"} => Finished(js[p.current])
            /\ panel.shows = "draft" /\ panel.kind \in DOMAIN p.drafts =>
                 DraftOf(p.drafts[panel.kind].call, panel.kind, js[p.current])
  PROVE  PageOK(Shown(p, panel), js)
<1> DEFINE q == Shown(p, panel)
<1>1. /\ Fields(q) /\ q.panel = panel /\ q.current = p.current
      /\ q.drafts = p.drafts /\ q.screen = p.screen /\ q.builds = p.builds /\ q.reads = p.reads
      /\ TrackOnce(q) /\ \A r \in q.reviews : ReviewOK(r, js)
  BY ShownFields
<1> HIDE DEF q
<1>2. PanelOK(q, js) BY <1>1 DEF PanelOK
<1>3. \A b \in q.builds : BuildOK(b, q, js) BY <1>1 DEF BuildOK
<1>4. DraftsOK(q) BY <1>1 DEF DraftsOK
<1>5. SealsOK(q, js) BY <1>1 DEF SealsOK
<1>6. PageOK(q, js) BY <1>1, <1>2, <1>3, <1>4, <1>5 DEF PageOK
<1> QED BY <1>6 DEF q

\* An empty panel shows nothing.
LEMMA NothingShows == Nothing.shows = "nothing"
BY DEF Nothing

\* Reviews go, or move on without tracking; drafts may go, and the panel be emptied.
LEMMA ReviewsMoveOn ==
  ASSUME NEW p, NEW js, PageOK(p, js), NEW q, Fields(q), Fewer(p, q), TrackOnce(q),
         q.current = p.current, q.screen = p.screen, q.builds = p.builds,
         q.reads = p.reads, q.drafts = p.drafts,
         q.panel = p.panel \/ q.panel = Nothing
  PROVE  PageOK(q, js)
<1>1. /\ p.current \in {NoJourney, Len(js)} /\ DraftsOK(p) /\ PanelOK(p, js) /\ SealsOK(p, js)
      /\ \A b \in p.builds : BuildOK(b, p, js)
      /\ \A r \in p.reviews : ReviewOK(r, js)
  BY DEF PageOK
<1>2. PanelOK(q, js) BY <1>1, NothingShows DEF PanelOK
<1>3. \A b \in q.builds : BuildOK(b, q, js) BY <1>1 DEF BuildOK
<1>4. \A r \in q.reviews : ReviewOK(r, js) BY <1>1, FewerReviews
<1>5. DraftsOK(q) BY <1>1 DEF DraftsOK
<1>6. SealsOK(q, js) BY <1>1, NothingShows DEF SealsOK
<1> QED BY <1>1, <1>2, <1>3, <1>4, <1>5, <1>6 DEF PageOK

\* The page changes, and the kernel and the network do not.
LEMMA PageSettles ==
  ASSUME NEW q, NEW js, JourneysOK(js), PageOK(q, js), page' = q, journeys' = js,
         UNCHANGED <<txs, built>>
  PROVE  BrowserOK'
<1>1. JourneysOK(journeys)' BY DEF JourneysOK, JourneyOK, Reached, Finished
<1>2. PageOK(page, journeys)'
  <2>1. \A r \in q.reviews : ReviewOK(r, js) BY DEF PageOK
  <2>2. \A r \in q.reviews : ReviewOK(r, js)'
    BY <2>1 DEF ReviewOK, TrackedOK, Returned, Reached
  <2>3. \A r \in page'.reviews : ReviewOK(r, journeys)'
    BY <2>1 DEF ReviewOK, TrackedOK, Returned, Reached
  <2> QED BY <2>3 DEF PageOK
<1> QED BY <1>1, <1>2 DEF BrowserOK

\* What is known of a journey.
LEMMA JourneyFacts ==
  ASSUME NEW js, JourneysOK(js), NEW x \in DOMAIN js
  PROVE  LET j == js[x] IN
         /\ j.apm \in Authors /\ j.calls = CompiledCalls(j.apm) /\ j.calls \in Seq(CallType)
         /\ j.index \in Nat /\ j.index <= Len(j.calls) /\ Len(j.calls) \in Nat
         /\ Reached(j.apm, j.index) /\ (j.sealConfirmed \/ j.activationBuilt => Finished(j))
         /\ j.apm.policyId \in PolicyKeys
<1> DEFINE j == js[x]
<1>1. JourneyOK(j) BY DEF JourneysOK
<1>2. j \in JourneyType BY <1>1 DEF JourneyOK
<1>3. j.apm \in Authors /\ j.index \in Nat BY <1>2 DEF JourneyType, Authors
<1>4. CompiledCalls(j.apm) \in Seq(CallType) BY <1>3, PlanFacts
<1>5. j.apm.policyId \in PolicyKeys BY <1>3, AuthorsCompile DEF ApmType
<1> HIDE DEF CallType, j
<1> QED BY <1>1, <1>3, <1>4, <1>5 DEF JourneyOK, j

\* The current journey is the last.
LEMMA CurrentJourney ==
  ASSUME NEW js, JourneysOK(js), NEW x \in {NoJourney, Len(js)}, x # NoJourney
  PROVE  x \in DOMAIN js /\ x = Len(js)
<1>1. js \in Seq(JourneyType) BY DEF JourneysOK
<1> HIDE DEF JourneysOK
<1> QED BY <1>1 DEF NoJourney

\* The next call of the current journey is prepared, or the panel offers what is next.
LEMMA PreparingOK ==
  ASSUME NEW p, NEW js, JourneysOK(js), Fields(p), p.current \in {NoJourney, Len(js)},
         p.current = NoJourney => PanelOK(p, js), SealsOK(p, js), DraftsOK(p), TrackOnce(p),
         \A b \in p.builds : BuildOK(b, p, js), \A r \in p.reviews : ReviewOK(r, js)
  PROVE  PageOK(Preparing(p, js), js)
<1>1. CASE p.current = NoJourney BY <1>1 DEF Preparing, PageOK
<1>2. CASE p.current # NoJourney
  <2> DEFINE j == js[p.current]
             q == Preparing(p, js)
  <2>1. p.current \in DOMAIN js /\ p.current = Len(js) BY <1>2, CurrentJourney
  <2>2. /\ j.apm \in Authors /\ j.calls = CompiledCalls(j.apm) /\ j.calls \in Seq(CallType)
        /\ j.index \in Nat /\ j.index <= Len(j.calls) /\ Len(j.calls) \in Nat
        /\ j \in JourneyType
    BY <2>1, JourneyFacts DEF JourneysOK
  <2>3. CASE Finished(j)
    <3> DEFINE panel == CASE ~j.sealConfirmed -> [shows |-> "verify"]
                          [] j.sealConfirmed /\ ~j.activationBuilt -> Confirming("activate", p)
                          [] j.sealConfirmed /\ j.activationBuilt -> Nothing
    <3>1. j.sealConfirmed \in BOOLEAN /\ j.activationBuilt \in BOOLEAN BY <2>2 DEF JourneyType
    <3>2. q = Shown(p, panel) BY <1>2, <2>3 DEF Preparing
    <3>3. /\ panel.shows # "draft"
          /\ panel.shows \in {"wait", "activate"} => panel.plan = p.current
      BY <3>1 DEF Nothing, Confirming
    <3> HIDE DEF panel, q
    <3>4. PageOK(Shown(p, panel), js) BY <1>2, <2>1, <2>3, <3>3, ShownOK
    <3> QED BY <3>2, <3>4 DEF q
  <2>4. CASE ~Finished(j)
    <3> DEFINE b == [journey |-> p.current, screen |-> p.screen, call |-> j.calls[j.index + 1]]
               more == p.builds \cup {b}
    <3>1. q = [p EXCEPT !.builds = more] BY <1>2, <2>4 DEF Preparing
    <3>2. p.screen \in Nat BY DEF Fields
    <3>3. j.index \in 0 .. Len(j.calls) - 1 /\ j.calls[j.index + 1] \in CallType
      <4> HIDE DEF CallType
      <4>1. j.index + 1 \in DOMAIN j.calls BY <2>2, <2>4 DEF Finished
      <4> QED BY <2>2, <2>4, <4>1 DEF Finished
    <3>4. IsStep(b.call, j.apm, j.index) BY <2>2, <3>3 DEF IsStep
    <3>5. /\ b.journey = p.current /\ b.screen = p.screen /\ b.call \in CallType
      BY <3>3
    <3> HIDE DEF q, b
    <3>6. /\ q.builds = more /\ q.current = p.current /\ q.screen = p.screen
          /\ q.drafts = p.drafts /\ q.reviews = p.reviews /\ q.panel = p.panel
          /\ q.reads = p.reads /\ q.account = p.account /\ Fields(q)
      BY <3>1 DEF Fields
    <3>7. BuildOK(b, q, js)
      <4>1. j.index \in 0 .. js[b.journey].index BY <2>2, <3>5
      <4> QED BY <1>2, <2>1, <3>2, <3>4, <3>5, <3>6, <4>1 DEF BuildOK, NoJourney
    <3>8. \A c \in q.builds : BuildOK(c, q, js) BY <3>6, <3>7 DEF BuildOK
    <3>9. PanelOK(q, js) BY <3>5, <3>6 DEF PanelOK
    <3>10. DraftsOK(q) /\ TrackOnce(q) BY <3>6 DEF DraftsOK, TrackOnce
    <3>11. SealsOK(q, js) BY <3>6 DEF SealsOK
    <3>12. PageOK(q, js) BY <3>6, <3>8, <3>9, <3>10, <3>11 DEF PageOK
    <3> QED BY <3>12 DEF q
  <2> QED BY <2>3, <2>4
<1> QED BY <1>1, <1>2

-----------------------------------------------------------------------------
(* Wallet and page *)

\* A wallet is connected.
LEMMA WalletConnects ==
  ASSUME BrowserOK, NEW a \in Accounts, HandleConnectWallet(a) PROVE BrowserOK'
<1>1. PICK p, js : p = page /\ js = journeys OBVIOUS
<1>2. JourneysOK(js) /\ PageOK(p, js) BY <1>1 DEF BrowserOK
<1> DEFINE q == [p EXCEPT !.account = a]
<1>3. page' = q /\ journeys' = js /\ UNCHANGED <<txs, built>>
  BY <1>1 DEF HandleConnectWallet
<1>4. Fields(p) /\ TrackOnce(p) BY <1>2 DEF PageOK
<1>5. /\ Fields(q) /\ q.current = p.current /\ q.screen = p.screen /\ q.builds = p.builds
      /\ q.reads = p.reads
      /\ q.drafts = p.drafts /\ q.panel = p.panel /\ q.reviews = p.reviews
  BY <1>4 DEF Fields
<1> HIDE DEF q
<1>6. Fewer(p, q) BY <1>5 DEF Fewer, Moved
<1>7. TrackOnce(q) BY <1>4, <1>5 DEF TrackOnce
<1>8. PageOK(q, js) BY <1>2, <1>5, <1>6, <1>7, ReviewsMoveOn
<1> QED BY <1>2, <1>3, <1>8, PageSettles

Rendered(p, q) ==
  \/ q = [Shown(p, Nothing) EXCEPT !.screen = @ + 1]
  \/ q = [Shown(p, Nothing) EXCEPT !.account = NoAccount, !.drafts = <<>>,
            !.current = NoJourney, !.screen = @ + 1]

\* A page that renders anew forgets what it offered; what is prepared is for an older one.
LEMMA PageRenders ==
  ASSUME NEW p, NEW js, PageOK(p, js), NEW q, Rendered(p, q)
  PROVE  PageOK(q, js)
<1> DEFINE s == Shown(p, Nothing)
<1>1. /\ Fields(p) /\ TrackOnce(p) /\ p.current \in {NoJourney, Len(js)} /\ DraftsOK(p)
      /\ SealsOK(p, js)
      /\ \A b \in p.builds : BuildOK(b, p, js)
      /\ \A r \in p.reviews : ReviewOK(r, js)
  BY DEF PageOK
<1>2. /\ Fields(s) /\ s.panel = Nothing /\ s.account = p.account /\ s.current = p.current
      /\ s.drafts = p.drafts /\ s.screen = p.screen /\ s.builds = p.builds /\ s.reads = p.reads
      /\ TrackOnce(s)
      /\ \A r \in s.reviews : ReviewOK(r, js)
  BY <1>1, ShownFields
<1> HIDE DEF s
<1>3. /\ Fields(q) /\ q.screen = p.screen + 1 /\ q.panel = Nothing /\ q.builds = p.builds
      /\ q.reads = p.reads
      /\ q.current \in {NoJourney, p.current} /\ q.drafts \in {<<>>, p.drafts}
      /\ q.reviews = s.reviews
  <2>1. CASE q = [s EXCEPT !.screen = @ + 1] BY <1>2, <2>1 DEF Fields
  <2>2. CASE q = [s EXCEPT !.account = NoAccount, !.drafts = <<>>, !.current = NoJourney,
                    !.screen = @ + 1]
    <3>1. q = [account |-> NoAccount, current |-> NoJourney, drafts |-> <<>>,
               screen |-> s.screen + 1, panel |-> s.panel, builds |-> s.builds,
               reads |-> s.reads, reviews |-> s.reviews]
      BY <1>2, <2>2 DEF Fields
    <3> QED BY <1>2, <3>1 DEF Fields
  <2> QED BY <2>1, <2>2 DEF s, Rendered
<1>4. PanelOK(q, js) BY <1>3, NothingShows DEF PanelOK
<1>5. p.screen \in Nat BY <1>1 DEF Fields
<1>6. \A b \in q.builds : BuildOK(b, q, js)
  <2> SUFFICES ASSUME NEW b \in p.builds PROVE BuildOK(b, q, js) BY <1>3
  <2>1. BuildOK(b, p, js) BY <1>1
  <2>2. b.screen \in Nat /\ b.screen <= q.screen /\ b.screen # q.screen
    BY <1>3, <1>5, <2>1 DEF BuildOK
  <2> QED BY <2>1, <2>2 DEF BuildOK
<1>7. DraftsOK(q)
  <2>1. \A k \in DOMAIN <<>> : FALSE OBVIOUS
  <2> QED BY <1>1, <1>3, <2>1 DEF DraftsOK
<1>8. TrackOnce(q) BY <1>2, <1>3 DEF TrackOnce
<1>9. q.current \in {NoJourney, Len(js)} BY <1>1, <1>3
<1>10. SealsOK(q, js)
  <2>1. q.panel.shows = "nothing" BY <1>3, NothingShows
  <2>2. ASSUME NEW u \in p.reads
        PROVE  /\ u.journey \in DOMAIN js /\ Finished(js[u.journey])
               /\ u.screen \in Nat /\ u.screen <= q.screen /\ u.screen # q.screen
    BY <1>1, <1>3, <1>5 DEF SealsOK
  <2> QED BY <1>3, <2>1, <2>2 DEF SealsOK
<1> QED BY <1>2, <1>3, <1>4, <1>6, <1>7, <1>8, <1>9, <1>10 DEF PageOK

\* The wallet or the page changes: the page renders.
LEMMA WalletOrPageChanges ==
  ASSUME BrowserOK, OnWalletChanged \/ Navigate PROVE BrowserOK'
<1>1. PICK p, js : p = page /\ js = journeys OBVIOUS
<1>2. JourneysOK(js) /\ PageOK(p, js) BY <1>1 DEF BrowserOK
<1>3. PICK q : q = page' OBVIOUS
<1>4. /\ Rendered(p, q)
      /\ journeys' = js /\ UNCHANGED <<txs, built>>
  <2>1. CASE OnWalletChanged BY <1>1, <1>3, <2>1 DEF OnWalletChanged, Rendered
  <2>2. CASE Navigate BY <1>1, <1>3, <2>2 DEF Navigate, Rendered
  <2> QED BY <2>1, <2>2
<1>5. PageOK(q, js) BY <1>2, <1>4, PageRenders
<1> QED BY <1>2, <1>3, <1>4, <1>5, PageSettles

-----------------------------------------------------------------------------
(* Preparing drafts *)

\* A new sequence becomes the current journey; nothing of another is being prepared.
LEMMA ConstructionBuilt ==
  ASSUME Patient, WritesTypeOK, BrowserOK, NEW apm \in Authored,
         HandlePolicyBuildConstruction(apm)
  PROVE  BrowserOK'
<1>1. PICK p, old : p = page /\ old = journeys OBVIOUS
<1>2. JourneysOK(old) /\ PageOK(p, old) BY <1>1 DEF BrowserOK
<1> DEFINE j == [apm |-> apm, calls |-> CompiledCalls(apm), index |-> 0,
                  sealConfirmed |-> FALSE, activationBuilt |-> FALSE]
           js == Append(old, j)
           opened == [p EXCEPT !.current = Len(js)]
           q == Preparing(opened, js)
<1>3. /\ p.builds = {} /\ \A u \in p.reads : u.screen # p.screen
      /\ journeys' = js /\ page' = q /\ UNCHANGED <<txs, built>>
  BY <1>1 DEF HandlePolicyBuildConstruction, Unhurried
<1>4. /\ Fields(p) /\ TrackOnce(p) /\ DraftsOK(p) /\ SealsOK(p, old)
      /\ \A r \in p.reviews : ReviewOK(r, old)
  BY <1>2 DEF PageOK
<1>5. apm \in Authors BY DEF Authors
<1>6. CompiledCalls(apm) \in Seq(CallType) BY <1>5, PlanFacts
<1>7. j \in JourneyType BY <1>6 DEF JourneyType
<1>8. old \in Seq(JourneyType) /\ \A x \in DOMAIN old : JourneyOK(old[x])
  BY <1>2 DEF JourneysOK
<1>9. JourneyOK(j)
  <2>1. Len(CompiledCalls(apm)) \in Nat
    <3> HIDE DEF CallType
    <3> QED BY <1>6
  <2> QED BY <1>7, <2>1 DEF JourneyOK, Reached
<1> HIDE DEF j
<1>10. /\ js \in Seq(JourneyType) /\ Len(js) = Len(old) + 1 /\ Len(old) \in Nat
       /\ DOMAIN old = 1 .. Len(old) /\ DOMAIN js = 1 .. Len(old) + 1
       /\ \A x \in DOMAIN old : js[x] = old[x]
       /\ js[Len(old) + 1] = j
  <2> HIDE DEF JourneyType
  <2> QED BY <1>7, <1>8
<1>11. JourneysOK(js)
  <2> SUFFICES ASSUME NEW x \in DOMAIN js PROVE JourneyOK(js[x]) BY <1>10 DEF JourneysOK
  <2>1. x = Len(old) + 1 \/ x \in DOMAIN old BY <1>10
  <2> QED BY <1>8, <1>9, <1>10, <2>1
<1> HIDE DEF js
<1>12. /\ Fields(opened) /\ opened.current = Len(js) /\ opened.builds = {}
       /\ opened.drafts = p.drafts /\ opened.reviews = p.reviews
       /\ opened.reads = p.reads /\ opened.panel = p.panel /\ opened.screen = p.screen
  BY <1>3, <1>4 DEF Fields
<1> HIDE DEF opened
<1>13. DraftsOK(opened) /\ TrackOnce(opened) BY <1>4, <1>12 DEF DraftsOK, TrackOnce
<1>14. \A r \in opened.reviews : ReviewOK(r, js)
  <2> SUFFICES ASSUME NEW r \in p.reviews PROVE ReviewOK(r, js) BY <1>12
  <2>1. ReviewOK(r, old) BY <1>4
  <2>2. r.journey \in DOMAIN js /\ js[r.journey] = old[r.journey] BY <1>10, <2>1 DEF ReviewOK
  <2> QED BY <2>1, <2>2 DEF ReviewOK
<1>15. Len(js) # NoJourney BY <1>10 DEF NoJourney
<1>16. SealsOK(opened, js)
  <2>1. \A x \in DOMAIN old : x \in DOMAIN js /\ js[x] = old[x] BY <1>10
  <2> QED BY <1>3, <1>4, <1>12, <2>1 DEF SealsOK
<1>17. PageOK(q, js) BY <1>11, <1>12, <1>13, <1>14, <1>15, <1>16, PreparingOK
<1> QED BY <1>3, <1>11, <1>17, PageSettles

\* A journey whose calls are through moves on: what is known of the page rests on where
\* the journeys are in their plans.
SameSteps(js, new) ==
  /\ Len(new) = Len(js) /\ DOMAIN new = DOMAIN js
  /\ \A x \in DOMAIN js :
       new[x].apm = js[x].apm /\ new[x].calls = js[x].calls /\ new[x].index = js[x].index

\* The seal of journey x is confirmed, or its activation prepared.
Confirmed(js, x, new) ==
  \/ new = [js EXCEPT ![x].sealConfirmed = TRUE]
  \/ new = [js EXCEPT ![x].activationBuilt = TRUE]

\* Either may be said of a finished journey.
LEMMA StageMoves ==
  ASSUME NEW js, JourneysOK(js), NEW x \in DOMAIN js, Finished(js[x]),
         NEW new, Confirmed(js, x, new)
  PROVE  JourneysOK(new) /\ SameSteps(js, new)
<1>0. PICK j : /\ j = [js[x] EXCEPT !.sealConfirmed = TRUE]
                  \/ j = [js[x] EXCEPT !.activationBuilt = TRUE]
               /\ new = [js EXCEPT ![x] = j]
  BY DEF Confirmed
<1>1. js \in Seq(JourneyType) /\ JourneyOK(js[x]) BY DEF JourneysOK
<1>2. js[x] \in JourneyType BY <1>1 DEF JourneyOK
<1>3. /\ j \in JourneyType /\ j.apm = js[x].apm /\ j.calls = js[x].calls
      /\ j.index = js[x].index
  <2> HIDE DEF CallType
  <2> QED BY <1>0, <1>2 DEF JourneyType
<1>5. /\ new \in Seq(JourneyType) /\ DOMAIN new = DOMAIN js /\ new[x] = j /\ Len(new) = Len(js)
      /\ \A y \in DOMAIN js \ {x} : new[y] = js[y]
  <2> HIDE DEF JourneyType
  <2> QED BY <1>0, <1>1, <1>3
<1>6. JourneyOK(j) BY <1>1, <1>3 DEF JourneyOK, Finished
<1>7. JourneysOK(new) BY <1>5, <1>6 DEF JourneysOK
<1> QED BY <1>3, <1>5, <1>7 DEF SameSteps

\* A page stays in order when journeys stay where they are in their plans.
LEMMA SamePage ==
  ASSUME NEW p, NEW js, JourneysOK(js), PageOK(p, js), NEW new, SameSteps(js, new)
  PROVE  PageOK(p, new)
<1>1. /\ Fields(p) /\ TrackOnce(p) /\ p.current \in {NoJourney, Len(js)} /\ DraftsOK(p)
      /\ PanelOK(p, js) /\ SealsOK(p, js)
      /\ \A b \in p.builds : BuildOK(b, p, js)
      /\ \A r \in p.reviews : ReviewOK(r, js)
  BY DEF PageOK
<1>2. /\ Len(new) = Len(js) /\ DOMAIN new = DOMAIN js
      /\ \A x \in DOMAIN js :
           new[x].apm = js[x].apm /\ new[x].calls = js[x].calls /\ new[x].index = js[x].index
  BY DEF SameSteps
<1>3. \A x \in {NoJourney, Len(js)} : x # NoJourney => x \in DOMAIN js BY CurrentJourney
<1>4. PanelOK(p, new)
  <2>1. CASE p.current = NoJourney BY <1>1, <2>1 DEF PanelOK
  <2>2. CASE p.current # NoJourney
    <3>1. p.current \in DOMAIN js BY <1>1, <1>3, <2>2
    <3> QED BY <1>1, <1>2, <3>1 DEF PanelOK, DraftOf, Finished
  <2> QED BY <2>1, <2>2
<1>5. \A b \in p.builds : BuildOK(b, p, new)
  <2> SUFFICES ASSUME NEW b \in p.builds PROVE BuildOK(b, p, new) OBVIOUS
  <2>1. BuildOK(b, p, js) BY <1>1
  <2>2. b.journey \in DOMAIN js BY <1>3, <2>1 DEF BuildOK, NoJourney
  <2> QED BY <1>2, <2>1, <2>2 DEF BuildOK, Finished
<1>6. \A r \in p.reviews : ReviewOK(r, new)
  BY <1>1, <1>2 DEF ReviewOK, TrackedOK, DraftOf
<1>7. SealsOK(p, new) BY <1>1, <1>2 DEF SealsOK, Finished
<1> QED BY <1>1, <1>2, <1>4, <1>5, <1>6, <1>7 DEF PageOK

\* The page q is p without build b, and with these drafts.
Prepares(p, b, drafts, q) == q = [p EXCEPT !.builds = @ \ {b}, !.drafts = drafts]

\* The drafts are the page's, and maybe one of b's call.
DraftsFrom(p, b, j, drafts) ==
  \A k \in DOMAIN drafts :
    \/ k \in DOMAIN p.drafts /\ drafts[k] = p.drafts[k]
    \/ drafts[k].call = b.call /\ DraftOf(b.call, k, j)

\* A draft is ready, or was not to be had: the build it comes from is done with.
LEMMA BuildDone ==
  ASSUME NEW p, NEW js, PageOK(p, js), NEW b \in p.builds, NEW q, NEW drafts,
         Prepares(p, b, drafts, q), DraftsFrom(p, b, js[Len(js)], drafts)
  PROVE  /\ Fields(q) /\ q.current = p.current /\ q.current \in {NoJourney, Len(js)}
         /\ q.screen = p.screen /\ q.drafts = drafts /\ DraftsOK(q) /\ TrackOnce(q)
         /\ b.screen # p.screen => PanelOK(q, js)
         /\ SealsOK(q, js)
         /\ \A c \in q.builds : BuildOK(c, q, js)
         /\ \A r \in q.reviews : ReviewOK(r, js)
<1>1. /\ Fields(p) /\ TrackOnce(p) /\ p.current \in {NoJourney, Len(js)} /\ DraftsOK(p)
      /\ PanelOK(p, js) /\ SealsOK(p, js)
      /\ \A c \in p.builds : BuildOK(c, p, js)
      /\ \A r \in p.reviews : ReviewOK(r, js)
  BY DEF PageOK
<1> DEFINE rest == p.builds \ {b}
<1>2. q = [p EXCEPT !.builds = rest, !.drafts = drafts] BY DEF Prepares
<1> HIDE DEF rest
<1>3. /\ Fields(q) /\ q.current = p.current /\ q.screen = p.screen /\ q.drafts = drafts
      /\ q.builds = rest /\ q.reads = p.reads /\ q.panel = p.panel /\ q.reviews = p.reviews
  BY <1>1, <1>2 DEF Fields
<1>4. DraftsOK(q)
  <2> SUFFICES ASSUME NEW k \in DOMAIN drafts PROVE drafts[k].call \in CallType
    BY <1>3 DEF DraftsOK
  <2>1. b.call \in CallType BY <1>1 DEF BuildOK
  <2> QED BY <1>1, <2>1 DEF DraftsOK, DraftsFrom
<1>5. ASSUME b.screen # p.screen PROVE PanelOK(q, js)
  <2>1. CASE p.panel.shows = "nothing" BY <1>3, <2>1 DEF PanelOK
  <2>2. CASE \E c \in p.builds : c.screen = p.screen
    <3>1. \E c \in rest : c.screen = p.screen BY <1>5, <2>2 DEF rest
    <3> QED BY <1>3, <3>1 DEF PanelOK
  <2>3. CASE /\ p.current # NoJourney
             /\ p.panel.shows \in {"verify", "wait", "activate"} => Finished(js[p.current])
             /\ p.panel.shows = "draft" /\ p.panel.kind \in DOMAIN p.drafts =>
                  DraftOf(p.drafts[p.panel.kind].call, p.panel.kind, js[p.current])
    <3>1. ASSUME p.panel.shows = "draft", p.panel.kind \in DOMAIN drafts
          PROVE  DraftOf(drafts[p.panel.kind].call, p.panel.kind, js[p.current])
      BY <1>1, <2>3, <3>1 DEF DraftsFrom
    <3> QED BY <1>3, <2>3, <3>1 DEF PanelOK
  <2> QED BY <1>1, <2>1, <2>2, <2>3 DEF PanelOK
<1>6. \A c \in q.builds : BuildOK(c, q, js) BY <1>1, <1>3 DEF BuildOK, rest
<1>7. TrackOnce(q) BY <1>1, <1>3 DEF TrackOnce
<1>8. SealsOK(q, js) BY <1>1, <1>3 DEF SealsOK
<1> QED BY <1>1, <1>3, <1>4, <1>5, <1>6, <1>7, <1>8

\* A draft comes back, whatever the page has become meanwhile.
LEMMA DraftPrepared ==
  ASSUME WritesTypeOK, BrowserOK, NEW b \in page.builds, Prepared(b) PROVE BrowserOK'
<1>1. PICK p, js : p = page /\ js = journeys OBVIOUS
<1>2. JourneysOK(js) /\ PageOK(p, js) BY <1>1 DEF BrowserOK
<1> DEFINE rest == [p EXCEPT !.builds = @ \ {b}]
           j == js[b.journey]
           kind == IF b.call.fn = "activate_policy" THEN Activate ELSE Step(j.index)
<1>3. UNCHANGED <<txs, built>> BY DEF Prepared
<1>4. b \in p.builds /\ BuildOK(b, p, js) BY <1>1, <1>2 DEF PageOK
<1>5. b.journey = Len(js) /\ b.journey \in DOMAIN js
  <2>1. b.journey = Len(js) /\ b.journey # NoJourney BY <1>4 DEF BuildOK, NoJourney
  <2> QED BY <1>2, <2>1, CurrentJourney
<1>6. /\ j.index \in Nat /\ j.calls = CompiledCalls(j.apm) /\ j.apm \in Authors
  BY <1>2, <1>5, JourneyFacts
<1>7. DraftOf(b.call, kind, j) /\ (kind = Activate => Finished(j))
  <2>1. CASE b.call.fn = "activate_policy"
    <3>1. Finished(j)
      <4>1. ~ \E k \in 0 .. j.index : IsStep(b.call, j.apm, k)
        BY <1>6, <2>1, StepFacts DEF Adds
      <4> QED BY <1>4, <4>1 DEF BuildOK
    <3> QED BY <2>1, <3>1 DEF DraftOf
  <2>2. CASE b.call.fn # "activate_policy"
    <3>1. kind = Step(j.index) /\ kind # Activate BY <2>2 DEF Step, Activate
    <3>2. j.index \in 0 .. j.index BY <1>6
    <3>3. \E k \in 0 .. j.index : IsStep(b.call, j.apm, k) BY <1>4, <2>2 DEF BuildOK
    <3> QED BY <3>1, <3>2, <3>3 DEF DraftOf
  <2> QED BY <2>1, <2>2
<1>8. kind = KindOf(b) BY <1>1 DEF KindOf
<1> HIDE DEF kind
<1>9. CASE Reverts(b.call)
  <2>1. page' = (IF b.screen = p.screen THEN Shown(rest, Nothing) ELSE rest) /\ journeys' = js
    BY <1>1, <1>9 DEF Prepared
  <2>2. Prepares(p, b, p.drafts, rest) BY <1>2 DEF PageOK, Fields, Prepares
  <2>3. /\ Fields(rest) /\ rest.current \in {NoJourney, Len(js)} /\ DraftsOK(rest)
        /\ TrackOnce(rest)
        /\ b.screen # p.screen => PanelOK(rest, js)
        /\ SealsOK(rest, js)
        /\ \A c \in rest.builds : BuildOK(c, rest, js)
        /\ \A r \in rest.reviews : ReviewOK(r, js)
    <3>1. DraftsFrom(p, b, js[Len(js)], p.drafts) BY DEF DraftsFrom
    <3> HIDE DEF rest
    <3> QED BY <1>2, <1>4, <2>2, <3>1, BuildDone
  <2> HIDE DEF rest
  <2>4. CASE b.screen = p.screen
    <3>1. PageOK(Shown(rest, Nothing), js) BY <2>3, NothingShows, ShownOK
    <3> QED BY <1>2, <1>3, <2>1, <2>4, <3>1, PageSettles
  <2>5. CASE b.screen # p.screen
    <3>1. PageOK(rest, js) BY <2>3, <2>5 DEF PageOK
    <3> QED BY <1>2, <1>3, <2>1, <2>5, <3>1, PageSettles
  <2> QED BY <2>4, <2>5
<1>10. CASE ~Reverts(b.call)
  <2> DEFINE drafts(draft) ==
               [k \in DOMAIN p.drafts \cup {kind} |-> IF k = kind THEN draft ELSE p.drafts[k]]
             registered(draft) == [rest EXCEPT !.drafts = drafts(draft)]
             done(draft) == IF b.screen # p.screen THEN registered(draft)
                            ELSE Shown(registered(draft),
                                       [shows |-> "draft", kind |-> kind, draft |-> draft])
  <2>1. PICK draft : draft.call = b.call /\ page' = done(draft)
    <3>1. \A draft : RegisterDraft(kind, draft) = drafts(draft) BY <1>1 DEF RegisterDraft
    <3>2. \/ page' = done([call |-> b.call, signer |-> Owner])
          \/ page' = done([call |-> b.call, signer |-> Anyone])
      BY <1>1, <1>8, <1>10, <3>1 DEF Prepared
    <3> HIDE DEF done
    <3> QED BY <3>2
  <2>2. PICK new : new = journeys' OBVIOUS
  <2>3. new = IF kind # Activate THEN js ELSE [js EXCEPT ![b.journey].activationBuilt = TRUE]
    BY <1>1, <1>8, <1>10, <2>2 DEF Prepared
  <2>4. JourneysOK(new) /\ SameSteps(js, new)
    <3>1. CASE kind # Activate BY <1>2, <2>3, <3>1 DEF SameSteps
    <3>2. CASE kind = Activate BY <1>2, <1>5, <1>7, <2>3, <3>2, StageMoves DEF Confirmed
    <3> QED BY <3>1, <3>2
  <2> DEFINE ds == drafts(draft)
             q == registered(draft)
  <2>5. Prepares(p, b, ds, q) BY DEF Prepares
  <2>6. /\ DOMAIN ds = DOMAIN p.drafts \cup {kind} /\ ds[kind] = draft
        /\ DraftsFrom(p, b, js[Len(js)], ds)
    BY <1>5, <1>7, <2>1 DEF DraftsFrom
  <2>7. page' = IF b.screen # p.screen THEN q
                ELSE Shown(q, [shows |-> "draft", kind |-> kind, draft |-> draft])
    BY <2>1
  <2> HIDE DEF ds, q
  <2>8. /\ Fields(q) /\ q.current = p.current /\ q.current \in {NoJourney, Len(js)}
        /\ q.screen = p.screen /\ q.drafts = ds /\ DraftsOK(q) /\ TrackOnce(q)
        /\ b.screen # p.screen => PanelOK(q, js)
        /\ SealsOK(q, js)
        /\ \A c \in q.builds : BuildOK(c, q, js)
        /\ \A r \in q.reviews : ReviewOK(r, js)
    BY <1>2, <1>4, <2>5, <2>6, BuildDone
  <2>9. CASE b.screen # p.screen
    <3>1. PageOK(q, js) BY <2>8, <2>9 DEF PageOK
    <3>2. PageOK(q, new) BY <1>2, <2>4, <3>1, SamePage
    <3> QED BY <1>3, <2>2, <2>4, <2>7, <2>9, <3>2, PageSettles
  <2>10. CASE b.screen = p.screen
    <3> DEFINE panel == [shows |-> "draft", kind |-> kind, draft |-> draft]
    <3>1. panel.shows = "draft" /\ panel.kind = kind OBVIOUS
    <3>2. page' = Shown(q, panel) BY <2>7, <2>10
    <3> HIDE DEF panel
    <3>3. p.current # NoJourney BY <1>4, <2>10 DEF BuildOK
    <3>4. p.current = b.journey BY <1>5, <2>8, <3>3
    <3>5. DraftOf(q.drafts[panel.kind].call, panel.kind, js[q.current])
      BY <1>7, <2>1, <2>6, <2>8, <3>1, <3>4
    <3>6. PageOK(Shown(q, panel), js) BY <2>8, <3>1, <3>3, <3>5, ShownOK
    <3>7. PageOK(Shown(q, panel), new) BY <1>2, <2>4, <3>6, SamePage
    <3> QED BY <1>3, <2>2, <2>4, <3>2, <3>7, PageSettles
  <2> QED BY <2>9, <2>10
<1> QED BY <1>9, <1>10

\* With nothing being prepared, the panel offers what the current journey's state calls for.
LEMMA PanelIsCurrent ==
  ASSUME NEW p, NEW js, JourneysOK(js), PageOK(p, js), p.builds = {}, p.panel.shows # "nothing"
  PROVE  /\ p.current # NoJourney /\ p.current \in DOMAIN js
         /\ p.panel.shows \in {"verify", "wait", "activate"} => Finished(js[p.current])
         /\ p.panel.shows = "draft" /\ p.panel.kind \in DOMAIN p.drafts =>
              DraftOf(p.drafts[p.panel.kind].call, p.panel.kind, js[p.current])
<1>1. PanelOK(p, js) /\ p.current \in {NoJourney, Len(js)} BY DEF PageOK
<1>2. /\ p.current # NoJourney
      /\ p.panel.shows \in {"verify", "wait", "activate"} => Finished(js[p.current])
      /\ p.panel.shows = "draft" /\ p.panel.kind \in DOMAIN p.drafts =>
           DraftOf(p.drafts[p.panel.kind].call, p.panel.kind, js[p.current])
  BY <1>1 DEF PanelOK
<1> QED BY <1>1, <1>2, CurrentJourney

\* Nothing of a page changes but the reads.
LEMMA ReadsReplaced ==
  ASSUME NEW p, NEW js, PageOK(p, js), NEW reads, NEW q, q = [p EXCEPT !.reads = reads],
         SealsOK(q, js)
  PROVE  PageOK(q, js) /\ q.reads = reads /\ q.current = p.current /\ q.screen = p.screen
<1>1. /\ Fields(p) /\ TrackOnce(p) /\ p.current \in {NoJourney, Len(js)} /\ DraftsOK(p)
      /\ PanelOK(p, js)
      /\ \A c \in p.builds : BuildOK(c, p, js)
      /\ \A r \in p.reviews : ReviewOK(r, js)
  BY DEF PageOK
<1>2. /\ Fields(q) /\ q.current = p.current /\ q.screen = p.screen /\ q.drafts = p.drafts
      /\ q.builds = p.builds /\ q.reads = reads /\ q.panel = p.panel /\ q.reviews = p.reviews
  BY <1>1 DEF Fields
<1>3. PanelOK(q, js) BY <1>1, <1>2 DEF PanelOK
<1>4. \A c \in q.builds : BuildOK(c, q, js) BY <1>1, <1>2 DEF BuildOK
<1>5. DraftsOK(q) /\ TrackOnce(q) BY <1>1, <1>2 DEF DraftsOK, TrackOnce
<1> QED BY <1>1, <1>2, <1>3, <1>4, <1>5 DEF PageOK

\* The seal is looked up for a journey that is finished.
LEMMA SealLookedUp ==
  ASSUME Patient, BrowserOK, HandlePolicyVerifySeal PROVE BrowserOK'
<1>1. PICK p, js : p = page /\ js = journeys OBVIOUS
<1>2. JourneysOK(js) /\ PageOK(p, js) BY <1>1 DEF BrowserOK
<1> DEFINE r == [journey |-> p.current, screen |-> p.screen]
           reads == p.reads \cup {r}
           q == [p EXCEPT !.reads = reads]
<1>3. /\ p.panel.shows \in {"verify", "wait"} /\ p.builds = {} /\ UNCHANGED <<txs, built>>
      /\ journeys' = js /\ page' = q
  BY <1>1 DEF HandlePolicyVerifySeal, Unhurried
<1>4. p.current \in DOMAIN js /\ Finished(js[p.current])
  BY <1>2, <1>3, PanelIsCurrent
<1>5. Fields(p) /\ SealsOK(p, js) BY <1>2 DEF PageOK
<1>6. p.screen \in Nat BY <1>5 DEF Fields
<1> HIDE DEF reads
<1>7. /\ q.reads = reads /\ q.panel = p.panel /\ q.screen = p.screen /\ q.current = p.current
  BY <1>5 DEF Fields
<1>8. \A s \in reads : s = r \/ s \in p.reads BY DEF reads
<1>9. r.journey = p.current /\ r.screen = p.screen OBVIOUS
<1> HIDE DEF r, q
<1>10. SealsOK(q, js) BY <1>4, <1>5, <1>6, <1>7, <1>8, <1>9 DEF SealsOK
<1>11. PageOK(q, js) BY <1>2, <1>10, ReadsReplaced DEF q
<1> QED BY <1>2, <1>3, <1>11, PageSettles

\* The answer is about the journey of the read, and so is the panel it is written into.
LEMMA SealAnswered ==
  ASSUME BrowserOK, NEW r \in page.reads, SealRead(r) \/ SealReadFails(r)
  PROVE  BrowserOK'
<1>1. PICK p, js : p = page /\ js = journeys OBVIOUS
<1>2. JourneysOK(js) /\ PageOK(p, js) /\ r \in p.reads BY <1>1 DEF BrowserOK
<1> DEFINE reads == p.reads \ {r}
           rest == [p EXCEPT !.reads = reads]
<1>3. PICK new, q : new = journeys' /\ q = page' OBVIOUS
<1>4. UNCHANGED <<txs, built>> BY DEF SealRead, SealReadFails
<1>5. PICK panel :
        /\ q = IF r.screen = p.screen THEN Shown(rest, panel) ELSE rest
        /\ \/ panel.shows = "nothing"
           \/ panel.shows \in {"wait", "activate"} /\ panel.plan = p.current
        /\ new = js \/ new = [js EXCEPT ![r.journey].sealConfirmed = TRUE]
  <2>1. \A panel : AfterRead(r, panel) = IF r.screen = p.screen THEN Shown(rest, panel) ELSE rest
    BY <1>1 DEF AfterRead
  <2>2. \A button \in {"wait", "activate"} :
          Confirming(button, p).shows = button /\ Confirming(button, p).plan = p.current
    BY DEF Confirming
  <2>3. CASE page' = AfterRead(r, Nothing) /\ journeys' = journeys
    BY <1>1, <1>3, <2>1, <2>3, NothingShows
  <2>4. CASE /\ journeys' = [journeys EXCEPT ![r.journey].sealConfirmed = TRUE]
             /\ \E button \in {"wait", "activate"} :
                  page' = AfterRead(r, Confirming(button, page))
    <3>1. PICK button \in {"wait", "activate"} : page' = AfterRead(r, Confirming(button, page))
      BY <2>4
    <3> DEFINE panel == Confirming(button, p)
    <3>2. panel.shows = button /\ panel.plan = p.current BY <2>2
    <3>3. q = IF r.screen = p.screen THEN Shown(rest, panel) ELSE rest
      BY <1>1, <1>3, <2>1, <3>1
    <3> HIDE DEF panel, rest
    <3> QED BY <1>1, <1>3, <2>4, <3>2, <3>3
  <2>5. CASE SealReadFails(r) BY <2>3, <2>5 DEF SealReadFails
  <2>6. CASE SealRead(r)
    <3> DEFINE policy == policies[journeys[r.journey].apm.policyId]
    <3>1. CASE ~policy.sealed BY <2>3, <2>6, <3>1 DEF SealRead
    <3>2. CASE policy.sealed
      <4>1. PICK button \in {"wait", "activate"} :
              button = IF now < policy.sealedAt + MinDelay THEN "wait" ELSE "activate"
        OBVIOUS
      <4>2. /\ journeys' = [journeys EXCEPT ![r.journey].sealConfirmed = TRUE]
            /\ page' = AfterRead(r, Confirming(button, page))
        BY <2>6, <3>2, <4>1 DEF SealRead
      <4> QED BY <2>4, <4>2
    <3> QED BY <3>1, <3>2
  <2> QED BY <2>5, <2>6
<1>6. /\ Fields(p) /\ SealsOK(p, js)
      /\ r.journey \in DOMAIN js /\ Finished(js[r.journey])
      /\ r.screen = p.screen => r.journey = p.current
  <2>1. Fields(p) /\ SealsOK(p, js) BY <1>2 DEF PageOK
  <2> QED BY <1>2, <2>1 DEF SealsOK
<1>7. \A s \in reads : s \in p.reads OBVIOUS
<1> HIDE DEF reads
<1>8. /\ rest.reads = reads /\ rest.panel = p.panel /\ rest.screen = p.screen
      /\ rest.current = p.current
  BY <1>6 DEF Fields
<1>9. SealsOK(rest, js)
  <2> HIDE DEF rest
  <2> QED BY <1>6, <1>7, <1>8 DEF SealsOK
<1>10. PageOK(rest, js)
  <2>1. PICK m : m = rest OBVIOUS
  <2> QED BY <1>2, <1>9, <2>1, ReadsReplaced
<1> HIDE DEF rest
<1>11. PageOK(q, js)
  <2>1. CASE r.screen = p.screen
    <3>1. p.current \in DOMAIN js /\ Finished(js[p.current]) BY <1>6, <2>1
    <3>2. p.current # NoJourney
      <4>1. js \in Seq(JourneyType) BY <1>2 DEF JourneysOK
      <4> HIDE DEF JourneyType
      <4> QED BY <3>1, <4>1 DEF NoJourney
    <3>3. PageOK(Shown(rest, panel), js)
      <4>1. /\ Fields(rest) /\ rest.current \in {NoJourney, Len(js)} /\ DraftsOK(rest)
            /\ TrackOnce(rest) /\ SealsOK(rest, js)
            /\ \A c \in rest.builds : BuildOK(c, rest, js)
            /\ \A u \in rest.reviews : ReviewOK(u, js)
        BY <1>10 DEF PageOK
      <4>2. panel.shows \in {"wait", "activate"} =>
              panel.plan \in DOMAIN js /\ Finished(js[panel.plan])
        BY <1>5, <3>1
      <4>3. \/ panel.shows = "nothing"
            \/ /\ rest.current # NoJourney /\ Finished(js[rest.current])
               /\ panel.shows # "draft"
        BY <1>5, <1>8, <3>1, <3>2
      <4> QED BY <4>1, <4>2, <4>3, ShownOK
    <3> QED BY <1>5, <2>1, <3>3
  <2>2. CASE r.screen # p.screen BY <1>5, <1>10, <2>2
  <2> QED BY <2>1, <2>2
<1>12. JourneysOK(new) /\ SameSteps(js, new)
  <2>1. CASE new = js BY <1>2, <2>1 DEF SameSteps
  <2>2. CASE new = [js EXCEPT ![r.journey].sealConfirmed = TRUE]
    BY <1>2, <1>6, <2>2, StageMoves DEF Confirmed
  <2> QED BY <1>5, <2>1, <2>2
<1>13. PageOK(q, new) BY <1>2, <1>11, <1>12, SamePage
<1> QED BY <1>3, <1>4, <1>12, <1>13, PageSettles

\* An activation is prepared for a journey that is finished.
LEMMA ActivationBuilt ==
  ASSUME Patient, BrowserOK, HandlePolicyBuildActivation PROVE BrowserOK'
<1>1. PICK p, js : p = page /\ js = journeys OBVIOUS
<1>2. JourneysOK(js) /\ PageOK(p, js) BY <1>1 DEF BrowserOK
<1> DEFINE j == js[p.current]
           b == [journey |-> p.current, screen |-> p.screen, call |-> ActivateCall(j.apm.policyId)]
           more == p.builds \cup {b}
           q == [p EXCEPT !.builds = more]
<1>3. /\ p.panel.shows = "activate" /\ p.builds = {} /\ UNCHANGED <<txs, built>>
      /\ journeys' = js /\ page' = q
  BY <1>1 DEF HandlePolicyBuildActivation, Unhurried, Current
<1>4. p.current # NoJourney /\ p.current \in DOMAIN js /\ Finished(j)
  BY <1>2, <1>3, PanelIsCurrent
<1>5. /\ Fields(p) /\ TrackOnce(p) /\ p.current \in {NoJourney, Len(js)} /\ DraftsOK(p)
      /\ SealsOK(p, js)
      /\ \A r \in p.reviews : ReviewOK(r, js)
  BY <1>2 DEF PageOK
<1>6. p.screen \in Nat BY <1>5 DEF Fields
<1>7. /\ b.journey = p.current /\ b.screen = p.screen /\ b.call.fn = "activate_policy"
      /\ b.call \in CallType
  <2>1. j.apm.policyId \in PolicyKeys BY <1>2, <1>4, JourneyFacts
  <2> QED BY <2>1 DEF ActivateCall, CallType
<1> HIDE DEF b
<1>8. /\ Fields(q) /\ q.current = p.current /\ q.screen = p.screen /\ q.drafts = p.drafts
      /\ q.builds = more /\ q.reads = p.reads /\ q.panel = p.panel /\ q.reviews = p.reviews
  <2> HIDE DEF more
  <2> QED BY <1>5 DEF Fields
<1> HIDE DEF q
<1>9. more = {b} BY <1>3
<1>10. BuildOK(b, q, js) BY <1>4, <1>5, <1>6, <1>7, <1>8 DEF BuildOK, NoJourney
<1>11. PanelOK(q, js) BY <1>7, <1>8, <1>9 DEF PanelOK
<1>12. DraftsOK(q) /\ TrackOnce(q) BY <1>5, <1>8 DEF DraftsOK, TrackOnce
<1>13. SealsOK(q, js) BY <1>5, <1>8 DEF SealsOK
<1>14. PageOK(q, js) BY <1>5, <1>8, <1>9, <1>10, <1>11, <1>12, <1>13 DEF PageOK
<1> QED BY <1>2, <1>3, <1>14, PageSettles

-----------------------------------------------------------------------------
(* Review *)

Replaces(p, panel, reviews, q) == q = [p EXCEPT !.panel = panel, !.reviews = reviews]

\* Panel and reviews are replaced, the rest stays.
LEMMA PanelReplaced ==
  ASSUME NEW p, Fields(p), NEW panel, NEW reviews, NEW q, Replaces(p, panel, reviews, q)
  PROVE  /\ Fields(q) /\ q.current = p.current /\ q.screen = p.screen /\ q.drafts = p.drafts
         /\ q.builds = p.builds /\ q.reads = p.reads /\ q.panel = panel /\ q.reviews = reviews
<1> DEFINE s == [p EXCEPT !.panel = panel]
<1>1. /\ Fields(s) /\ s.current = p.current /\ s.screen = p.screen /\ s.drafts = p.drafts
      /\ s.builds = p.builds /\ s.reads = p.reads /\ s.panel = panel /\ s.reviews = p.reviews
  BY DEF Fields
<1>2. q = [s EXCEPT !.reviews = reviews] BY DEF Replaces
<1> HIDE DEF s
<1> QED BY <1>1, <1>2 DEF Fields

\* The registered draft goes to review.
LEMMA DraftSubmitted ==
  ASSUME Patient, BrowserOK, SubmitLiveWrite PROVE BrowserOK'
<1>1. PICK p, js : p = page /\ js = journeys OBVIOUS
<1>2. JourneysOK(js) /\ PageOK(p, js) BY <1>1 DEF BrowserOK
<1> DEFINE kind == p.panel.kind
           r == [journey |-> p.current, kind |-> kind, draft |-> p.drafts[kind],
                 at |-> "review", tx |-> 0, shown |-> TRUE, waited |-> TRUE]
           more == p.reviews \cup {r}
           q == [p EXCEPT !.panel = Nothing, !.reviews = more]
<1>3. /\ p.panel.shows = "draft" /\ p.builds = {} /\ kind \in DOMAIN p.drafts
      /\ UNCHANGED <<txs, built>> /\ journeys' = js /\ page' = q
  BY <1>1 DEF SubmitLiveWrite, Unhurried
<1>4. /\ p.current # NoJourney /\ p.current \in DOMAIN js
      /\ DraftOf(p.drafts[kind].call, kind, js[p.current])
  BY <1>2, <1>3, PanelIsCurrent
<1>5. /\ Fields(p) /\ TrackOnce(p) /\ p.current \in {NoJourney, Len(js)} /\ DraftsOK(p)
      /\ SealsOK(p, js)
      /\ \A s \in p.reviews : ReviewOK(s, js)
  BY <1>2 DEF PageOK
<1>6. ReviewOK(r, js)
  <2>1. p.drafts[kind].call \in CallType BY <1>3, <1>5 DEF DraftsOK
  <2> HIDE DEF CallType, kind
  <2> QED BY <1>4, <2>1 DEF ReviewOK
<1>7. r.at # "tracking" OBVIOUS
<1> HIDE DEF r
<1>8. /\ Fields(q) /\ q.current = p.current /\ q.screen = p.screen /\ q.drafts = p.drafts
      /\ q.builds = {} /\ q.reads = p.reads /\ q.panel = Nothing /\ q.reviews = more
  <2> HIDE DEF more
  <2>1. Replaces(p, Nothing, more, q) BY DEF Replaces
  <2> HIDE DEF q
  <2> QED BY <1>3, <1>5, <2>1, PanelReplaced
<1> HIDE DEF q
<1>9. TrackOnce(q) BY <1>5, <1>7, <1>8 DEF TrackOnce
<1>10. DraftsOK(q) BY <1>5, <1>8 DEF DraftsOK
<1>11. PanelOK(q, js) BY <1>8, NothingShows DEF PanelOK
<1>12. SealsOK(q, js) BY <1>5, <1>8, NothingShows DEF SealsOK
<1>13. PageOK(q, js) BY <1>5, <1>6, <1>8, <1>9, <1>10, <1>11, <1>12 DEF PageOK
<1> QED BY <1>2, <1>3, <1>13, PageSettles

\* One review goes, or moves on.
LEMMA OneReviewMoves ==
  ASSUME NEW p, NEW js, PageOK(p, js), NEW r \in p.reviews, NEW s, Moved(r, s),
         NEW q, q = With(p, r, s) \/ q = Without(p, r)
  PROVE  PageOK(q, js)
<1> DEFINE rest == p.reviews \ {r}
<1>1. PICK reviews \in SUBSET (rest \cup {s}) : q = [p EXCEPT !.reviews = reviews]
  BY DEF With, Without
<1>2. /\ Fields(p) /\ TrackOnce(p)
      /\ \A u \in p.reviews : ReviewOK(u, js)
  BY DEF PageOK
<1>3. /\ Fields(q) /\ q.current = p.current /\ q.screen = p.screen /\ q.drafts = p.drafts
      /\ q.builds = p.builds /\ q.reads = p.reads /\ q.panel = p.panel /\ q.reviews = reviews
  BY <1>1, <1>2 DEF Fields
<1>4. \A u \in reviews : u = s \/ u \in rest BY <1>1
<1>5. \A u \in p.reviews : Moved(u, u) BY DEF Moved
<1>6. Fewer(p, q) BY <1>3, <1>4, <1>5 DEF Fewer
<1>7. s.at = "tracking" => r.at = "tracking" /\ s.tx = r.tx BY <1>2, ReviewMoves
<1>8. TrackOnce(q)
  <2> SUFFICES ASSUME NEW u \in reviews, NEW v \in reviews, u.at = "tracking", v.at = "tracking",
                      u.tx = v.tx
               PROVE  u = v
    BY <1>3 DEF TrackOnce
  <2>1. CASE u = s /\ v = s BY <2>1
  <2>2. CASE u = s /\ v \in rest BY <1>2, <1>7, <2>2 DEF TrackOnce
  <2>3. CASE u \in rest /\ v = s BY <1>2, <1>7, <2>3 DEF TrackOnce
  <2>4. CASE u \in rest /\ v \in rest BY <1>2, <2>4 DEF TrackOnce
  <2> QED BY <1>4, <2>1, <2>2, <2>3, <2>4
<1> QED BY <1>3, <1>6, <1>8, ReviewsMoveOn

\* A review that fails is there to be estimated again, or gone.
LEMMA ReviewFailed ==
  ASSUME NEW p, NEW js, PageOK(p, js), NEW r \in p.reviews
  PROVE  PageOK(Failed(p, r), js)
<1> DEFINE s == [r EXCEPT !.at = "error", !.waited = FALSE]
<1>1. Moved(r, s) BY DEF Moved
<1>2. Failed(p, r) = With(p, r, s) \/ Failed(p, r) = Without(p, r) BY DEF Failed
<1> HIDE DEF s
<1> QED BY <1>1, <1>2, OneReviewMoves

\* A review is confirmed, estimated again, or fails.
LEMMA ReviewGoesOn ==
  ASSUME BrowserOK, NEW r \in page.reviews, Confirm(r) \/ ReEstimate(r) \/ ReviewFails(r)
  PROVE  BrowserOK'
<1>1. PICK p, js : p = page /\ js = journeys OBVIOUS
<1>2. JourneysOK(js) /\ PageOK(p, js) /\ r \in p.reviews BY <1>1 DEF BrowserOK
<1>3. PICK q : q = page' OBVIOUS
<1>4. journeys' = js /\ UNCHANGED <<txs, built>> BY <1>1 DEF Confirm, ReEstimate, ReviewFails
<1>5. PageOK(q, js)
  <2>1. CASE Confirm(r)
    <3> DEFINE s == [r EXCEPT !.at = "signing"]
    <3>1. Moved(r, s) BY DEF Moved
    <3>2. q = With(p, r, s) BY <1>1, <1>3, <2>1 DEF Confirm
    <3> HIDE DEF s
    <3> QED BY <1>2, <3>1, <3>2, OneReviewMoves
  <2>2. CASE ReEstimate(r)
    <3> DEFINE s == [r EXCEPT !.at = "review"]
    <3>1. Moved(r, s) BY DEF Moved
    <3>2. q = With(p, r, s) BY <1>1, <1>3, <2>2 DEF ReEstimate
    <3> HIDE DEF s
    <3> QED BY <1>2, <3>1, <3>2, OneReviewMoves
  <2>3. CASE ReviewFails(r)
    <3>1. q = Failed(p, r) BY <1>1, <1>3, <2>3 DEF ReviewFails
    <3> QED BY <1>2, <3>1, ReviewFailed
  <2> QED BY <2>1, <2>2, <2>3
<1> QED BY <1>2, <1>3, <1>4, <1>5, PageSettles

-----------------------------------------------------------------------------
(* Signature and tracking *)

\* The page and the journeys as they are after a step.
LEMMA PageBecomes ==
  ASSUME NEW q, NEW js, page' = q, journeys' = js, JourneysOK(js)',
         Fields(q), q.current \in {NoJourney, Len(js)}, DraftsOK(q), PanelOK(q, js),
         SealsOK(q, js), TrackOnce(q),
         \A b \in q.builds : BuildOK(b, q, js), \A r \in q.reviews : ReviewOK(r, js)'
  PROVE  BrowserOK'
<1>1. JourneysOK(journeys)' BY DEF JourneysOK, JourneyOK, Reached, Finished
<1>2. \A r \in page'.reviews : ReviewOK(r, journeys)'
  BY DEF ReviewOK, TrackedOK, Returned, Reached
<1>3. PageOK(page, journeys)' BY <1>2 DEF PageOK
<1> QED BY <1>1, <1>3 DEF BrowserOK

\* A draft is for a call whose turn has come.
LEMMA DraftReady ==
  ASSUME WritesTypeOK, NEW js, JourneysOK(js), NEW r, ReviewOK(r, js)
  PROVE  r.draft.call \in CallType /\ Ready(r.draft.call)
<1> DEFINE j == js[r.journey]
<1>1. r.journey \in DOMAIN js /\ r.draft.call \in CallType /\ DraftOf(r.draft.call, r.kind, j)
  BY DEF ReviewOK
<1>2. /\ j.apm \in Authors /\ j.index \in Nat /\ Reached(j.apm, j.index)
      /\ j.apm.policyId \in PolicyKeys
  BY <1>1, JourneyFacts
<1>3. Len(built[j.apm.policyId]) \in Nat
  <2>1. built[j.apm.policyId] \in Seq(CallType) BY <1>2 DEF WritesTypeOK
  <2> HIDE DEF CallType
  <2> QED BY <2>1
<1>4. CASE r.draft.call.fn = "activate_policy" BY <1>1, <1>4 DEF Ready
<1>5. CASE r.draft.call.fn # "activate_policy"
  <2>1. PICK k \in Nat : k \in 0 .. j.index /\ IsStep(r.draft.call, j.apm, k)
    BY <1>1, <1>2, <1>5 DEF DraftOf, Activate
  <2>2. k \in 0 .. j.index /\ k \in Nat BY <2>1
  <2>3. Reached(j.apm, k) BY <1>2, <1>3, <2>2, ReachedEarlier
  <2> QED BY <1>1, <1>2, <2>1, <2>2, <2>3 DEF Ready
<1> QED BY <1>4, <1>5

\* The page q is p with r replaced by s, and without the draft for kind.
SignedPage(p, r, s, q) ==
  q = [With(p, r, s) EXCEPT !.drafts = [k \in DOMAIN @ \ {r.kind} |-> @[k]]]

\* The page after a signature: one review tracks, one draft fewer.
LEMMA SignedFields ==
  ASSUME NEW p, Fields(p), NEW r, NEW s, NEW q, SignedPage(p, r, s, q)
  PROVE  /\ Fields(q) /\ q.current = p.current /\ q.screen = p.screen /\ q.builds = p.builds
         /\ q.reads = p.reads
         /\ q.panel = p.panel /\ q.reviews = (p.reviews \ {r}) \cup {s}
         /\ \A k \in DOMAIN q.drafts : k \in DOMAIN p.drafts /\ q.drafts[k] = p.drafts[k]
<1> DEFINE m == With(p, r, s)
           reviews == (p.reviews \ {r}) \cup {s}
           drafts == [k \in DOMAIN p.drafts \ {r.kind} |-> p.drafts[k]]
<1>1. m = [p EXCEPT !.reviews = reviews] BY DEF With
<1> HIDE DEF m, reviews
<1>2. /\ Fields(m) /\ m.current = p.current /\ m.screen = p.screen /\ m.builds = p.builds
      /\ m.reads = p.reads
      /\ m.panel = p.panel /\ m.reviews = reviews /\ m.drafts = p.drafts
  BY <1>1 DEF Fields
<1>3. q = [m EXCEPT !.drafts = drafts] BY <1>2 DEF SignedPage, m
<1>4. \A k \in DOMAIN drafts : k \in DOMAIN p.drafts /\ drafts[k] = p.drafts[k] OBVIOUS
<1> HIDE DEF drafts
<1>5. /\ Fields(q) /\ q.current = p.current /\ q.screen = p.screen /\ q.builds = p.builds
      /\ q.reads = p.reads
      /\ q.panel = p.panel /\ q.reviews = reviews /\ q.drafts = drafts
  BY <1>2, <1>3 DEF Fields
<1> QED BY <1>4, <1>5 DEF reviews

\* A signature sends the draft's call, or fails.
LEMMA ReviewSigned ==
  ASSUME WritesInv, BrowserOK, NEW r \in page.reviews, Sign(r)
  PROVE  /\ BrowserOK'
         /\ \/ UNCHANGED <<txs, built, policies, now>>
            \/ \E call \in CallType, signer \in Accounts : Sending(call, signer) /\ Ready(call)
<1>1. PICK p, js, n, a : p = page /\ js = journeys /\ n = Len(txs) /\ a = page.account OBVIOUS
<1>2. JourneysOK(js) /\ PageOK(p, js) /\ r \in p.reviews BY <1>1 DEF BrowserOK
<1>3. /\ journeys' = js /\ built' = built /\ UNCHANGED <<policies, now>>
      /\ r.at = "signing"
  BY <1>1 DEF Sign, policyVars
<1>4. CASE ~(a # NoAccount /\ r.draft.signer \in {a, Anyone})
  <2>1. page' = Failed(p, r) /\ UNCHANGED txs BY <1>1, <1>4 DEF Sign
  <2>2. PageOK(Failed(p, r), js) BY <1>2, ReviewFailed
  <2>3. BrowserOK' BY <1>2, <1>3, <2>1, <2>2, PageSettles
  <2> QED BY <1>3, <2>1, <2>3
<1>5. CASE a # NoAccount /\ r.draft.signer \in {a, Anyone}
  <2> DEFINE s == [r EXCEPT !.at = "tracking", !.tx = n + 1]
  <2>1. PICK q : q = page' OBVIOUS
  <2>2. SignedPage(p, r, s, q) /\ Submit(r.draft.call, a)
    BY <1>1, <1>5, <2>1 DEF Sign, SignedPage
  <2>3. /\ Fields(p) /\ TrackOnce(p) /\ p.current \in {NoJourney, Len(js)} /\ DraftsOK(p)
        /\ PanelOK(p, js) /\ SealsOK(p, js)
        /\ \A b \in p.builds : BuildOK(b, p, js)
        /\ \A u \in p.reviews : ReviewOK(u, js)
    BY <1>2 DEF PageOK
  <2>4. a \in Accounts BY <1>1, <1>2, <1>5 DEF PageOK, Fields
  <2>5. /\ r.draft.call \in CallType /\ Ready(r.draft.call)
    BY <1>2, <2>3, DraftReady DEF WritesInv
  <2>6. Sending(r.draft.call, a) BY <1>3, <2>2 DEF Submit, Sending
  <2>7. /\ DOMAIN txs' = 1 .. n + 1 /\ n \in Nat /\ DOMAIN txs = 1 .. n
        /\ \A i \in DOMAIN txs : txs'[i] = txs[i]
        /\ txs'[n + 1].call = r.draft.call /\ txs'[n + 1].signer = a
        /\ txs'[n + 1].result = "NONE"
    BY <1>1, <2>4, <2>5, <2>6, SendingAppends DEF WritesInv
  <2>8. /\ r.journey \in DOMAIN js /\ r.draft.call \in CallType
        /\ DraftOf(r.draft.call, r.kind, js[r.journey])
        /\ r = [journey |-> r.journey, kind |-> r.kind, draft |-> r.draft, at |-> r.at,
                tx |-> r.tx, shown |-> r.shown, waited |-> r.waited]
    <3>1. ReviewOK(r, js) BY <1>2, <2>3
    <3> QED BY <3>1 DEF ReviewOK
  <2>9. s = [journey |-> r.journey, kind |-> r.kind, draft |-> r.draft, at |-> "tracking",
             tx |-> n + 1, shown |-> r.shown, waited |-> r.waited]
    <3> DEFINE u == [r EXCEPT !.at = "tracking"]
    <3>1. u = [journey |-> r.journey, kind |-> r.kind, draft |-> r.draft, at |-> "tracking",
               tx |-> r.tx, shown |-> r.shown, waited |-> r.waited]
      <4> HIDE DEF CallType
      <4> QED BY <2>8
    <3>2. s = [u EXCEPT !.tx = n + 1] OBVIOUS
    <3> HIDE DEF s, u
    <3> QED BY <3>1, <3>2
  <2> HIDE DEF s, CallType
  <2>10. /\ s.journey = r.journey /\ s.kind = r.kind /\ s.draft = r.draft
         /\ s.at = "tracking" /\ s.tx = n + 1
         /\ s = [journey |-> s.journey, kind |-> s.kind, draft |-> s.draft, at |-> s.at,
                 tx |-> s.tx, shown |-> s.shown, waited |-> s.waited]
    BY <2>9
  <2>11. TrackedOK(s, js[s.journey])'
    <3>1. n + 1 \in DOMAIN txs' BY <2>7
    <3>2. s.draft.signer # Anyone => s.draft.signer = a BY <1>5, <2>10
    <3>3. ~Returned(s.tx)' BY <2>7, <2>10 DEF Returned
    <3> QED BY <2>7, <2>10, <3>1, <3>2, <3>3 DEF TrackedOK
  <2>12. ReviewOK(s, js)' BY <2>8, <2>10, <2>11 DEF ReviewOK
  <2>13. ASSUME NEW u \in p.reviews PROVE ReviewOK(u, js)'
    <3>1. ReviewOK(u, js) BY <2>3
    <3>2. ASSUME u.at = "tracking" PROVE TrackedOK(u, js[u.journey])'
      <4>1. TrackedOK(u, js[u.journey]) BY <3>1, <3>2 DEF ReviewOK
      <4>2. u.tx \in DOMAIN txs /\ txs'[u.tx] = txs[u.tx] /\ u.tx \in DOMAIN txs'
        BY <2>7, <4>1 DEF TrackedOK
      <4> QED BY <1>3, <4>1, <4>2 DEF TrackedOK, Returned, Reached
    <3> QED BY <3>1, <3>2 DEF ReviewOK
  <2>14. /\ Fields(q) /\ q.current = p.current /\ q.screen = p.screen /\ q.builds = p.builds
         /\ q.reads = p.reads
         /\ q.panel = p.panel /\ q.reviews = (p.reviews \ {r}) \cup {s}
         /\ \A k \in DOMAIN q.drafts : k \in DOMAIN p.drafts /\ q.drafts[k] = p.drafts[k]
    BY <2>2, <2>3, SignedFields
  <2>15. DraftsOK(q) BY <2>3, <2>14 DEF DraftsOK
  <2>16. PanelOK(q, js) BY <2>3, <2>14 DEF PanelOK
  <2>17. \A b \in q.builds : BuildOK(b, q, js) BY <2>3, <2>14 DEF BuildOK
  <2>18. TrackOnce(q)
    <3>1. \A u \in p.reviews : u.at = "tracking" => u.tx # n + 1
      BY <2>3, <2>7 DEF ReviewOK, TrackedOK
    <3> QED BY <2>3, <2>10, <2>14, <3>1 DEF TrackOnce
  <2>19. \A u \in q.reviews : ReviewOK(u, js)' BY <2>12, <2>13, <2>14
  <2>20. JourneysOK(js)' BY <1>2, <1>3 DEF JourneysOK, JourneyOK, Reached, Finished
  <2>21. SealsOK(q, js) BY <2>3, <2>14 DEF SealsOK
  <2>22. BrowserOK'
    BY <1>3, <2>1, <2>3, <2>14, <2>15, <2>16, <2>17, <2>18, <2>19, <2>20, <2>21, PageBecomes
  <2> QED BY <2>4, <2>5, <2>6, <2>22
<1> QED BY <1>4, <1>5

\* Journey x goes on to its next call.
NextStep(js, new, x) ==
  /\ Len(new) = Len(js) /\ DOMAIN new = DOMAIN js
  /\ \A y \in DOMAIN js :
       /\ new[y].apm = js[y].apm /\ new[y].calls = js[y].calls
       /\ new[y].index = IF y = x THEN js[y].index + 1 ELSE js[y].index

\* A journey goes one call further.
LEMMA IndexMoves ==
  ASSUME NEW js, JourneysOK(js), NEW x \in DOMAIN js, NEW call,
         IsStep(call, js[x].apm, js[x].index), Reached(js[x].apm, js[x].index + 1),
         NEW new, new = [js EXCEPT ![x].index = @ + 1]
  PROVE  JourneysOK(new) /\ NextStep(js, new, x)
<1> DEFINE old == js[x]
           j == [js[x] EXCEPT !.index = @ + 1]
<1>1. js \in Seq(JourneyType) /\ JourneyOK(old) BY DEF JourneysOK
<1>2. old \in JourneyType BY <1>1 DEF JourneyOK
<1>3. /\ j \in JourneyType /\ j.apm = old.apm /\ j.calls = old.calls
      /\ j.sealConfirmed = old.sealConfirmed /\ j.activationBuilt = old.activationBuilt
      /\ j.index = old.index + 1 /\ old.index \in Nat
  <2> HIDE DEF CallType
  <2> QED BY <1>2 DEF JourneyType
<1>4. /\ old.index < Len(old.calls) /\ old.calls = CompiledCalls(old.apm)
      /\ Len(old.calls) \in Nat
  <2>1. /\ old.calls = CompiledCalls(old.apm) /\ Len(old.calls) \in Nat
    BY JourneyFacts
  <2> QED BY <2>1 DEF IsStep
<1>5. new = [js EXCEPT ![x] = j] OBVIOUS
<1>6. Reached(old.apm, old.index + 1) OBVIOUS
<1> HIDE DEF j, old
<1>7. /\ new \in Seq(JourneyType) /\ DOMAIN new = DOMAIN js /\ new[x] = j /\ Len(new) = Len(js)
      /\ \A y \in DOMAIN js \ {x} : new[y] = js[y]
  <2> HIDE DEF JourneyType
  <2> QED BY <1>1, <1>3, <1>5
<1>8. ~(old.sealConfirmed \/ old.activationBuilt) BY <1>1, <1>3, <1>4 DEF JourneyOK, Finished
<1>9. JourneyOK(j)
  <2>1. j.index <= Len(j.calls) BY <1>3, <1>4
  <2>2. Reached(j.apm, j.index) BY <1>3, <1>6
  <2> QED BY <1>3, <1>4, <1>8, <2>1, <2>2 DEF JourneyOK
<1>10. JourneysOK(new) BY <1>7, <1>9 DEF JourneysOK
<1>11. NextStep(js, new, x)
  <2> SUFFICES ASSUME NEW y \in DOMAIN js
               PROVE  /\ new[y].apm = js[y].apm /\ new[y].calls = js[y].calls
                      /\ new[y].index = IF y = x THEN js[y].index + 1 ELSE js[y].index
    BY <1>7 DEF NextStep
  <2>1. CASE y = x BY <1>3, <1>7, <2>1 DEF old
  <2>2. CASE y # x BY <1>7, <2>2
  <2> QED BY <2>1, <2>2
<1> QED BY <1>10, <1>11

\* Only the current call of a journey can have returned to a review, and to one only.
LEMMA StepDone ==
  ASSUME WritesInv, NEW p, NEW js, JourneysOK(js), PageOK(p, js), NEW r \in p.reviews,
         r.at = "tracking", r.kind # Activate, txs[r.tx].result = "FINISHED_WITH_RETURN",
         NEW new, new = [js EXCEPT ![r.journey].index = @ + 1],
         NEW rest, Fields(rest), rest.current = p.current, rest.screen = p.screen,
         rest.drafts = p.drafts, rest.builds = p.builds,
         rest.reads = p.reads, rest.panel = p.panel,
         rest.reviews = p.reviews \ {r}
  PROVE  JourneysOK(new) /\ PageOK(Preparing(rest, new), new)
<1> DEFINE x == r.journey
           j == js[x]
<1>1. /\ Fields(p) /\ TrackOnce(p) /\ p.current \in {NoJourney, Len(js)} /\ DraftsOK(p)
      /\ PanelOK(p, js) /\ SealsOK(p, js)
      /\ \A b \in p.builds : BuildOK(b, p, js)
      /\ \A u \in p.reviews : ReviewOK(u, js)
  BY DEF PageOK
<1>2. ReviewOK(r, js) BY <1>1
<1>3. /\ x \in DOMAIN js /\ DraftOf(r.draft.call, r.kind, j) /\ TrackedOK(r, j)
  BY <1>2 DEF ReviewOK
<1>4. /\ j.apm \in Authors /\ j.index \in Nat /\ j.calls = CompiledCalls(j.apm)
      /\ Len(j.calls) \in Nat
  BY <1>3, JourneyFacts
<1>5. PICK k \in Nat : IsStep(r.draft.call, j.apm, k) BY <1>3, <1>4 DEF DraftOf
<1>6. Returned(r.tx)
  <2>1. r.draft.call.fn # "activate_policy" BY <1>4, <1>5, StepFacts DEF Adds
  <2> QED BY <1>3, <2>1 DEF Returned, TrackedOK
<1>7. IsStep(r.draft.call, j.apm, j.index) /\ Reached(j.apm, j.index + 1)
  BY <1>3, <1>6 DEF TrackedOK
<1>8. j.index < Len(j.calls) BY <1>4, <1>7 DEF IsStep
<1>9. JourneysOK(new) /\ NextStep(js, new, x) BY <1>3, <1>7, IndexMoves
<1>10. /\ Len(new) = Len(js) /\ DOMAIN new = DOMAIN js
       /\ \A y \in DOMAIN js :
            /\ new[y].apm = js[y].apm /\ new[y].calls = js[y].calls
            /\ new[y].index = IF y = x THEN js[y].index + 1 ELSE js[y].index
  BY <1>9 DEF NextStep
<1>11. \A y \in DOMAIN js : js[y].index \in Nat /\ js[y].apm \in Authors BY JourneyFacts
<1>12. ASSUME NEW y \in DOMAIN js, NEW call, NEW kind, DraftOf(call, kind, js[y])
       PROVE  DraftOf(call, kind, new[y])
  <2>1. /\ new[y].apm = js[y].apm /\ js[y].index \in Nat
        /\ new[y].index \in Nat /\ js[y].index <= new[y].index
    BY <1>10, <1>11
  <2>2. 0 .. js[y].index \subseteq 0 .. new[y].index BY <2>1
  <2> QED BY <1>12, <2>1, <2>2 DEF DraftOf
<1>13. \A b \in rest.builds : BuildOK(b, rest, new)
  <2> SUFFICES ASSUME NEW b \in p.builds PROVE BuildOK(b, rest, new) OBVIOUS
  <2>1. BuildOK(b, p, js) BY <1>1
  <2>2. b.journey \in DOMAIN js
    <3>1. b.journey \in {NoJourney, Len(js)} /\ b.journey # NoJourney
      BY <2>1 DEF BuildOK, NoJourney
    <3> QED BY <3>1, CurrentJourney
  <2>3. CASE b.journey = x
    <3>1. ~Finished(j) BY <1>4, <1>8 DEF Finished
    <3>2. PICK i \in 0 .. j.index : IsStep(b.call, j.apm, i) BY <2>1, <2>3, <3>1 DEF BuildOK
    <3>3. new[x].index = j.index + 1 /\ new[x].apm = j.apm BY <1>3, <1>10
    <3>4. i \in 0 .. j.index + 1 BY <1>4
    <3>5. \E n \in 0 .. new[b.journey].index : IsStep(b.call, new[b.journey].apm, n)
      BY <2>3, <3>2, <3>3, <3>4
    <3> QED BY <1>10, <2>1, <3>5 DEF BuildOK
  <2>4. CASE b.journey # x
    <3>1. /\ new[b.journey].apm = js[b.journey].apm /\ new[b.journey].calls = js[b.journey].calls
          /\ new[b.journey].index = js[b.journey].index
      BY <1>10, <2>2, <2>4
    <3> QED BY <1>10, <2>1, <3>1 DEF BuildOK, Finished
  <2> QED BY <2>3, <2>4
<1>14. ASSUME NEW u \in p.reviews \ {r} PROVE ReviewOK(u, new)
  <2>1. ReviewOK(u, js) BY <1>1
  <2>2. u.journey \in DOMAIN js /\ DraftOf(u.draft.call, u.kind, js[u.journey])
    BY <2>1 DEF ReviewOK
  <2>3. DraftOf(u.draft.call, u.kind, new[u.journey]) BY <1>12, <2>2
  <2>4. ASSUME u.at = "tracking" PROVE TrackedOK(u, new[u.journey])
    <3>1. TrackedOK(u, js[u.journey]) BY <2>1, <2>4 DEF ReviewOK
    <3>2. CASE u.journey = x
      <4>1. ~(u.kind # Activate /\ Returned(u.tx))
        <5> SUFFICES ASSUME u.kind # Activate, Returned(u.tx) PROVE FALSE OBVIOUS
        <5>1. IsStep(u.draft.call, j.apm, j.index) BY <3>1, <3>2 DEF TrackedOK
        <5>2. u.draft.call = r.draft.call BY <1>7, <5>1 DEF IsStep
        <5>3. /\ u.tx \in DOMAIN txs /\ r.tx \in DOMAIN txs
              /\ txs[u.tx].call = txs[r.tx].call
          BY <1>3, <3>1, <5>2 DEF TrackedOK
        <5>4. u.tx = r.tx BY <1>6, <5>3 DEF WritesInv, TxsOK
        <5> QED BY <1>1, <2>4, <5>4 DEF TrackOnce
      <4> QED BY <3>1, <4>1 DEF TrackedOK
    <3>3. CASE u.journey # x
      <4>1. /\ new[u.journey].apm = js[u.journey].apm
            /\ new[u.journey].index = js[u.journey].index
        BY <1>10, <2>2, <3>3
      <4> QED BY <3>1, <4>1 DEF TrackedOK
    <3> QED BY <3>2, <3>3
  <2> QED BY <1>10, <2>1, <2>3, <2>4 DEF ReviewOK
<1>15. rest.current = NoJourney => PanelOK(rest, new) BY <1>1 DEF PanelOK
<1>16. TrackOnce(rest) /\ DraftsOK(rest) BY <1>1 DEF TrackOnce, DraftsOK
<1>17. rest.current \in {NoJourney, Len(new)} BY <1>1, <1>10
<1>18. SealsOK(rest, new)
  <2>1. ~Finished(js[x]) BY <1>4, <1>8 DEF Finished
  <2>2. ASSUME NEW y \in DOMAIN js, Finished(js[y]) PROVE y \in DOMAIN new /\ Finished(new[y])
    <3>1. y # x BY <2>1, <2>2
    <3> QED BY <1>10, <2>2, <3>1 DEF Finished
  <2> QED BY <1>1, <2>2 DEF SealsOK
<1>19. PageOK(Preparing(rest, new), new)
  BY <1>9, <1>13, <1>14, <1>15, <1>16, <1>17, <1>18, PreparingOK
<1> QED BY <1>9, <1>19

\* A tracked transaction is final: the journey goes on if it returned.
LEMMA ReviewIsFinal ==
  ASSUME WritesInv, BrowserOK, NEW r \in page.reviews, TrackedFinal(r) PROVE BrowserOK'
<1>1. PICK p, js : p = page /\ js = journeys OBVIOUS
<1>2. JourneysOK(js) /\ PageOK(p, js) /\ r \in p.reviews BY <1>1 DEF BrowserOK
<1>3. PICK new, q : new = journeys' /\ q = page' OBVIOUS
<1> DEFINE rest == Without(p, r)
<1>4. UNCHANGED <<txs, built>> /\ r.at = "tracking" BY DEF TrackedFinal
<1>5. Fields(p) BY <1>2 DEF PageOK
<1>6. /\ Fields(rest) /\ rest.current = p.current /\ rest.screen = p.screen
      /\ rest.drafts = p.drafts /\ rest.builds = p.builds
      /\ rest.reads = p.reads /\ rest.panel = p.panel
      /\ rest.reviews = p.reviews \ {r}
  <2> DEFINE others == p.reviews \ {r}
  <2>1. rest = [p EXCEPT !.reviews = others] BY DEF Without
  <2> HIDE DEF others, rest
  <2>2. /\ Fields(rest) /\ rest.current = p.current /\ rest.screen = p.screen
        /\ rest.drafts = p.drafts /\ rest.builds = p.builds
        /\ rest.reads = p.reads /\ rest.panel = p.panel
        /\ rest.reviews = others
    BY <1>5, <2>1 DEF Fields
  <2> QED BY <2>2 DEF others
<1>7. PageOK(rest, js)
  <2>1. Moved(r, r) BY DEF Moved
  <2> QED BY <1>2, <2>1, OneReviewMoves
<1> HIDE DEF rest
<1>8. \/ q \in {rest, Shown(rest, Nothing)} /\ new = js
      \/ /\ r.kind # Activate /\ Succeeded(r.tx)
         /\ new = [js EXCEPT ![r.journey].index = @ + 1]
         /\ q = Preparing(rest, new)
  BY <1>1, <1>3 DEF TrackedFinal, rest
<1>9. JourneysOK(new) /\ PageOK(q, new)
  <2>1. CASE q \in {rest, Shown(rest, Nothing)} /\ new = js
    <3>1. PageOK(Shown(rest, Nothing), js)
      BY <1>7, NothingShows, ShownOK DEF PageOK
    <3> QED BY <1>2, <1>7, <2>1, <3>1
  <2>2. CASE /\ r.kind # Activate /\ Succeeded(r.tx)
             /\ new = [js EXCEPT ![r.journey].index = @ + 1]
             /\ q = Preparing(rest, new)
    <3>1. txs[r.tx].result = "FINISHED_WITH_RETURN" BY <2>2 DEF Succeeded
    <3> QED BY <1>2, <1>4, <1>6, <2>2, <3>1, StepDone
  <2> QED BY <1>8, <2>1, <2>2
<1> QED BY <1>3, <1>4, <1>9, PageSettles

-----------------------------------------------------------------------------
(* What the network does, seen from the page *)

\* A call whose transaction a review tracks takes effect as its journey's current one.
LEMMA TakenForReview ==
  ASSUME WritesInv, LineInv, NEW js, JourneysOK(js), NEW r, ReviewOK(r, js),
         r.at = "tracking", r.kind # Activate, Taking(r.tx)
  PROVE  LET j == js[r.journey] IN
         /\ r.kind = Step(j.index) /\ IsStep(r.draft.call, j.apm, j.index)
         /\ Reached(j.apm, j.index + 1)'
<1> DEFINE j == js[r.journey]
           c == r.draft.call
<1>1. /\ r.journey \in DOMAIN js /\ DraftOf(c, r.kind, j) /\ c \in CallType
      /\ r.tx \in DOMAIN txs /\ txs[r.tx].call = c
  BY DEF ReviewOK, TrackedOK
<1>2. j.apm \in Authors /\ j.index \in Nat /\ Reached(j.apm, j.index) BY <1>1, JourneyFacts
<1>3. PICK n \in 0 .. j.index : r.kind = Step(n) /\ \E k \in 0 .. n : IsStep(c, j.apm, k)
  BY <1>1 DEF DraftOf
<1>4. PICK k \in 0 .. n : IsStep(c, j.apm, k) BY <1>3
<1>5. n \in Nat /\ k \in Nat /\ k <= n /\ n <= j.index BY <1>2
<1>6. /\ c.key \in PolicyKeys /\ Admitted(c)
      /\ c.fn # "activate_policy" => c \notin ToSet(built[c.key])
      /\ built' = [built EXCEPT ![c.key] = Append(@, c)]
  BY <1>1, TakingFacts
<1>7. c.key = j.apm.policyId BY <1>2, <1>4, <1>5, StepFacts
<1>8. Len(built[c.key]) \in Nat
  <2>1. built[c.key] \in Seq(CallType) BY <1>6 DEF WritesInv, WritesTypeOK
  <2> HIDE DEF CallType
  <2> QED BY <2>1
<1>9. Reached(j.apm, k)
  <2>1. k \in 0 .. j.index BY <1>2, <1>5
  <2> QED BY <1>2, <1>7, <1>8, <2>1, ReachedEarlier
<1>10. k = Len(built[c.key]) /\ Reached(j.apm, k + 1)'
  BY <1>1, <1>2, <1>4, <1>5, <1>6, <1>9, TakenNext DEF LineInv
<1>11. j.index <= k BY <1>2, <1>5, <1>7, <1>8, <1>10 DEF Reached
<1>12. k = j.index /\ n = j.index BY <1>2, <1>5, <1>11
<1> HIDE DEF j, c
<1>13. r.kind = Step(j.index) /\ IsStep(c, j.apm, j.index) /\ Reached(j.apm, j.index + 1)'
  BY <1>3, <1>4, <1>10, <1>12
<1> QED BY <1>13 DEF j, c

\* What the network does keeps the page in order: a tracked call returns once.
LEMMA BrowserNetwork ==
  ASSUME WritesInv, LineInv, BrowserOK, UNCHANGED <<journeys, page>>,
         Quiet \/ \E i \in DOMAIN txs : Taking(i)
  PROVE  BrowserOK'
<1>1. PICK p, js : p = page /\ js = journeys OBVIOUS
<1>2. JourneysOK(js) /\ PageOK(p, js) BY <1>1 DEF BrowserOK
<1>3. page' = p /\ journeys' = js BY <1>1
<1>4. /\ Fields(p) /\ TrackOnce(p) /\ p.current \in {NoJourney, Len(js)} /\ DraftsOK(p)
      /\ PanelOK(p, js) /\ SealsOK(p, js)
      /\ \A b \in p.builds : BuildOK(b, p, js)
      /\ \A r \in p.reviews : ReviewOK(r, js)
  BY <1>2 DEF PageOK
<1>5. WritesInv' /\ Grown
  <2>1. CASE Quiet BY <2>1, QuietKeeps, SameBuiltGrows DEF Quiet, WritesInv
  <2>2. CASE \E i \in DOMAIN txs : Taking(i) BY <2>2, TakingKeeps
  <2> QED BY <2>1, <2>2
<1>6. WritesTypeOK /\ built' \in [PolicyKeys -> Seq(CallType)] BY <1>5 DEF WritesInv, WritesTypeOK
<1>7. \A apm \in Authors : \A k \in Nat : Reached(apm, k) => Reached(apm, k)'
  BY <1>5, <1>6, ReachedStays
<1>8. /\ DOMAIN txs' = DOMAIN txs
      /\ \A i \in DOMAIN txs :
           /\ txs'[i].call = txs[i].call /\ txs'[i].signer = txs[i].signer
           /\ Returned(i)' => Returned(i) \/ Taking(i)
  <2>1. CASE Quiet BY <2>1 DEF Quiet, Returned
  <2>2. CASE \E i \in DOMAIN txs : Taking(i)
    <3>1. PICK i \in DOMAIN txs : Taking(i) BY <2>2
    <3>2. /\ DOMAIN txs' = DOMAIN txs
          /\ \A x \in DOMAIN txs : txs'[x].call = txs[x].call /\ txs'[x].signer = txs[x].signer
          /\ \A x \in DOMAIN txs \ {i} : txs'[x] = txs[x]
      BY <3>1, TakingFacts
    <3> QED BY <3>1, <3>2 DEF Returned
  <2> QED BY <2>1, <2>2
<1>9. ASSUME NEW x \in DOMAIN js PROVE JourneyOK(js[x])'
  <2>1. JourneyOK(js[x]) BY <1>2 DEF JourneysOK
  <2>2. js[x].apm \in Authors /\ js[x].index \in Nat BY <1>2, JourneyFacts
  <2>3. Reached(js[x].apm, js[x].index)' BY <1>7, <2>1, <2>2 DEF JourneyOK
  <2> QED BY <2>1, <2>3 DEF JourneyOK
<1>10. JourneysOK(js)' BY <1>2, <1>9 DEF JourneysOK
<1>11. ASSUME NEW r \in p.reviews PROVE ReviewOK(r, js)'
  <2>1. ReviewOK(r, js) BY <1>4
  <2>2. ASSUME r.at = "tracking" PROVE TrackedOK(r, js[r.journey])'
    <3> DEFINE j == js[r.journey]
    <3>1. TrackedOK(r, j) /\ r.journey \in DOMAIN js BY <2>1, <2>2 DEF ReviewOK
    <3>2. j.apm \in Authors /\ j.index \in Nat BY <1>2, <3>1, JourneyFacts
    <3>3. /\ r.tx \in DOMAIN txs' /\ txs'[r.tx].call = r.draft.call
          /\ r.draft.signer # Anyone => txs'[r.tx].signer = r.draft.signer
      BY <1>8, <3>1 DEF TrackedOK
    <3>4. ASSUME r.kind # Activate, Returned(r.tx)'
          PROVE  /\ r.kind = Step(j.index) /\ IsStep(r.draft.call, j.apm, j.index)
                 /\ Reached(j.apm, j.index + 1)'
      <4>1. CASE Returned(r.tx)
        <5>1. /\ r.kind = Step(j.index) /\ IsStep(r.draft.call, j.apm, j.index)
              /\ Reached(j.apm, j.index + 1)
          BY <3>1, <3>4, <4>1 DEF TrackedOK
        <5>2. j.index + 1 \in Nat BY <3>2
        <5> QED BY <1>7, <3>2, <5>1, <5>2
      <4>2. CASE Taking(r.tx) BY <1>2, <2>1, <2>2, <3>4, <4>2, TakenForReview
      <4>3. r.tx \in DOMAIN txs BY <3>1 DEF TrackedOK
      <4> QED BY <1>8, <3>4, <4>1, <4>2, <4>3
    <3> QED BY <3>3, <3>4 DEF TrackedOK
  <2> QED BY <2>1, <2>2 DEF ReviewOK
<1> QED BY <1>3, <1>4, <1>10, <1>11, PageBecomes

-----------------------------------------------------------------------------
(* Every step of the construction *)

\* Steps of the page alone are quiet.
LEMMA PageIsQuiet ==
  ASSUME WritesTypeOK, UNCHANGED <<policies, built, txs>>, now' \in Nat PROVE Quiet
<1>1. txs \in Seq(TxType) BY DEF WritesTypeOK
<1> QED BY <1>1 DEF Quiet

\* Kernel and line, in every kind of step.
LEMMA KernelKeeps ==
  ASSUME WritesInv, LineInv,
         \/ Quiet
         \/ \E call \in CallType, signer \in Accounts : Sending(call, signer) /\ Ready(call)
         \/ \E i \in DOMAIN txs : Taking(i)
  PROVE  WritesInv' /\ LineInv'
<1>1. WritesInv'
  <2>1. CASE Quiet BY <2>1, QuietKeeps
  <2>2. CASE \E call \in CallType, signer \in Accounts : Sending(call, signer) /\ Ready(call)
    BY <2>2, SendingKeeps
  <2>3. CASE \E i \in DOMAIN txs : Taking(i) BY <2>3, TakingKeeps
  <2> QED BY <2>1, <2>2, <2>3
<1>2. LineInv' BY LineKept
<1> QED BY <1>1, <1>2

\* The time is a number.
LEMMA TypedNow == ASSUME WritesTypeOK PROVE now \in Nat
BY DEF WritesTypeOK

\* What a process of the studio script does.
LEMMA StudioSteps ==
  ASSUME WritesInv, LineInv, StudioOK, job.script = "studio", ScriptsNext
  PROVE  WritesInv' /\ LineInv' /\ StudioOK'
<1>1. WritesTypeOK /\ process.at \notin {"delay", "lifecycle"} BY DEF WritesInv, StudioOK, StudioTypes
<1>2. CASE Estimate \/ StudioStart \/ SavePending \/ WaitFinalized \/ Crash
  <2>1. UNCHANGED <<policies, now, built, txs, job>>
    BY <1>2 DEF Estimate, StudioStart, SavePending, WaitFinalized, Crash, policyVars
  <2>2. StudioOK' BY <1>1, <1>2, <2>1, StudioProceeds
  <2>3. Quiet BY <1>1, <2>1, PageIsQuiet, TypedNow
  <2> QED BY <2>2, <2>3, KernelKeeps
<1>3. CASE Record
  <2>1. UNCHANGED <<policies, now, built, txs>> BY <1>3 DEF Record, policyVars
  <2>2. StudioOK' BY <1>1, <1>3, StudioRecords
  <2>3. Quiet BY <1>1, <2>1, PageIsQuiet, TypedNow
  <2> QED BY <2>2, <2>3, KernelKeeps
<1>4. CASE Write
  <2>1. StudioOK' /\ Call \in CallType /\ Sending(Call, Owner) /\ Ready(Call)
    BY <1>4, StudioWrites
  <2>2. PICK call : call = Call OBVIOUS
  <2>3. Owner \in Accounts BY WritesAssumption
  <2>4. \E c \in CallType, signer \in Accounts : Sending(c, signer) /\ Ready(c)
    BY <2>1, <2>3
  <2> QED BY <2>1, <2>4, KernelKeeps
<1>5. CASE ResumeStart \/ WaitReceipt \/ ReadSeal \/ AfterDelay \/ TickInDelay
  BY <1>1, <1>5 DEF ResumeStart, WaitReceipt, ReadSeal, AfterDelay, TickInDelay, At
<1> QED BY <1>2, <1>3, <1>4, <1>5 DEF ScriptsNext, ScriptStep

\* What the user does at the page, and the page.
LEMMA BrowserSteps ==
  ASSUME Patient, WritesInv, LineInv, BrowserOK, JourneyNext
  PROVE  WritesInv' /\ LineInv' /\ BrowserOK'
<1>1. WritesTypeOK /\ now \in Nat BY TypedNow DEF WritesInv
<1>2. ASSUME UNCHANGED <<policies, built, txs>>, now' \in Nat
      PROVE  WritesInv' /\ LineInv'
  BY <1>1, <1>2, PageIsQuiet, KernelKeeps
<1>3. CASE \E b \in page.builds : Prepared(b)
  <2>1. PICK b \in page.builds : Prepared(b) BY <1>3
  <2>2. BrowserOK' BY <1>1, <2>1, DraftPrepared
  <2> QED BY <1>1, <1>2, <2>1, <2>2 DEF Prepared, policyVars
<1>4. CASE SubmitLiveWrite
  <2>1. BrowserOK' BY <1>4, DraftSubmitted
  <2> QED BY <1>1, <1>2, <1>4, <2>1 DEF SubmitLiveWrite, policyVars
<1>5. CASE \E r \in page.reviews : Confirm(r) \/ ReEstimate(r) \/ ReviewFails(r)
  <2>1. PICK r \in page.reviews : Confirm(r) \/ ReEstimate(r) \/ ReviewFails(r) BY <1>5
  <2>2. BrowserOK' BY <2>1, ReviewGoesOn
  <2> QED BY <1>1, <1>2, <2>1, <2>2 DEF Confirm, ReEstimate, ReviewFails, policyVars
<1>6. CASE \E r \in page.reviews : Sign(r)
  <2>1. PICK r \in page.reviews : Sign(r) BY <1>6
  <2>2. /\ BrowserOK'
        /\ \/ UNCHANGED <<txs, built, policies, now>>
           \/ \E call \in CallType, signer \in Accounts : Sending(call, signer) /\ Ready(call)
    BY <2>1, ReviewSigned
  <2>3. WritesInv' /\ LineInv' BY <1>1, <1>2, <2>2, KernelKeeps
  <2> QED BY <2>2, <2>3
<1>7. CASE \E r \in page.reviews : TrackedFinal(r)
  <2>1. PICK r \in page.reviews : TrackedFinal(r) BY <1>7
  <2>2. BrowserOK' BY <2>1, ReviewIsFinal
  <2> QED BY <1>1, <1>2, <2>1, <2>2 DEF TrackedFinal, policyVars
<1>8. CASE HandlePolicyVerifySeal
  <2>1. BrowserOK' BY <1>8, SealLookedUp
  <2> QED BY <1>1, <1>2, <1>8, <2>1 DEF HandlePolicyVerifySeal, policyVars
<1>9. CASE HandlePolicyBuildActivation
  <2>1. BrowserOK' BY <1>9, ActivationBuilt
  <2> QED BY <1>1, <1>2, <1>9, <2>1 DEF HandlePolicyBuildActivation, policyVars
<1>10. CASE TickTimelock
  <2>1. UNCHANGED <<txs, built, journeys, page, policies>> /\ now' \in Nat
    BY <1>1, <1>10 DEF TickTimelock, Tick
  <2>2. PICK p, js : p = page /\ js = journeys OBVIOUS
  <2>3. JourneysOK(js) /\ PageOK(p, js) BY <2>2 DEF BrowserOK
  <2>4. BrowserOK' BY <2>1, <2>2, <2>3, PageSettles
  <2> QED BY <1>2, <2>1, <2>4
<1>11. CASE \E a \in Accounts : HandleConnectWallet(a)
  <2>1. PICK a \in Accounts : HandleConnectWallet(a) BY <1>11
  <2>2. BrowserOK' BY <2>1, WalletConnects
  <2> QED BY <1>1, <1>2, <2>1, <2>2 DEF HandleConnectWallet, policyVars
<1>12. CASE OnWalletChanged \/ Navigate
  <2>1. BrowserOK' BY <1>12, WalletOrPageChanges
  <2> QED BY <1>1, <1>2, <1>12, <2>1 DEF OnWalletChanged, Navigate, policyVars
<1>13. CASE \E apm \in Authored : HandlePolicyBuildConstruction(apm)
  <2>1. PICK apm \in Authored : HandlePolicyBuildConstruction(apm) BY <1>13
  <2>2. BrowserOK' BY <1>1, <2>1, ConstructionBuilt
  <2> QED BY <1>1, <1>2, <2>1, <2>2 DEF HandlePolicyBuildConstruction, policyVars
<1>14. CASE \E r \in page.reads : SealRead(r) \/ SealReadFails(r)
  <2>1. PICK r \in page.reads : SealRead(r) \/ SealReadFails(r) BY <1>14
  <2>2. BrowserOK' BY <2>1, SealAnswered
  <2> QED BY <1>1, <1>2, <2>1, <2>2 DEF SealRead, SealReadFails, policyVars
<1> QED BY <1>3, <1>4, <1>5, <1>6, <1>7, <1>8, <1>9, <1>10, <1>11, <1>12, <1>13, <1>14
        DEF JourneyNext, JourneyStep

\* No policy is begun and nothing sent.
LEMMA WritesStart ==
  ASSUME WritesInit PROVE WritesInv /\ LineInv
<1>1. txs = <<>> /\ DOMAIN txs = {} BY DEF WritesInit
<1>2. NotBegun \in BuildRecord BY DEF NotBegun, BuildRecord
<1>3. policies = [pk \in PolicyKeys |-> NotBegun] /\ built = [pk \in PolicyKeys |-> <<>>]
      /\ now = 0
  BY DEF WritesInit
<1>4. WritesTypeOK
  <2>1. \A pk \in PolicyKeys : policies[pk].version <= 0 BY <1>3 DEF NotBegun
  <2>2. \E n \in Nat : \A pk \in PolicyKeys : policies[pk].version <= n BY <2>1
  <2>3. <<>> \in Seq(TxType) /\ <<>> \in Seq(CallType) OBVIOUS
  <2> HIDE DEF TxType, CallType
  <2> QED BY <1>1, <1>2, <1>3, <2>2, <2>3 DEF WritesTypeOK
<1>5. ContentsOK
  <2>1. ToSet(<<>>) = {} BY DEF ToSet
  <2>2. ASSUME NEW pk \in PolicyKeys
        PROVE  /\ ~Begun(pk) /\ built[pk] = <<>>
               /\ HoldsCalls(policies[pk], {})
    BY <1>3 DEF Begun, NotBegun, HoldsCalls
  <2> QED BY <2>1, <2>2 DEF ContentsOK
<1>6. TxsOK BY <1>1 DEF TxsOK
<1>7. LineInv BY <1>1, <1>3 DEF LineInv, LineOK
<1> QED BY <1>4, <1>5, <1>6, <1>7 DEF WritesInv

\* The page starts empty.
LEMMA PageStart ==
  ASSUME PageInit PROVE BrowserOK /\ page.current = NoJourney /\ page.reviews = {}
<1>1. journeys = <<>> BY DEF PageInit
<1>2. PICK p : p = page OBVIOUS
<1>3. p = [account |-> NoAccount, current |-> NoJourney, drafts |-> <<>>, screen |-> 1,
           panel |-> Nothing, builds |-> {}, reads |-> {}, reviews |-> {}]
  BY <1>2 DEF PageInit
<1>4. Fields(p) BY <1>3 DEF Fields
<1>5. PageOK(p, <<>>)
  <2>1. DOMAIN <<>> = {} OBVIOUS
  <2>2. PanelOK(p, <<>>) BY <1>3, NothingShows DEF PanelOK
  <2>3. SealsOK(p, <<>>) BY <1>3, NothingShows DEF SealsOK
  <2> QED BY <1>3, <1>4, <2>1, <2>2, <2>3 DEF PageOK, DraftsOK, TrackOnce
<1>6. JourneysOK(<<>>) BY DEF JourneysOK
<1> QED BY <1>1, <1>2, <1>3, <1>5, <1>6 DEF BrowserOK

-----------------------------------------------------------------------------
(* The selection by function, call by call *)

\* Every call of a function is among those selected of it,
LEMMA NamedHas ==
  ASSUME NEW S, NEW fn, NEW s \in Seq(S), NEW i \in 1 .. Len(s), s[i].fn = fn
  PROVE  \E j \in 1 .. Len(Named(fn, s)) : Named(fn, s)[j] = s[i]
<1> DEFINE first == SubSeq(s, 1, i - 1)
           a == Named(fn, first)
           b == Named(fn, SubSeq(s, 1, i))
           T == {x \in S : x.fn = fn}
<1>1. i - 1 \in 0 .. Len(s) /\ i \in 0 .. Len(s) /\ i - 1 < Len(s) /\ i - 1 + 1 = i /\ s[i] \in S
  OBVIOUS
<1>2. first \in Seq(S) /\ SubSeq(s, 1, i) = Append(first, s[i]) BY <1>1, FirstCalls
<1> HIDE DEF first
<1>3. b = Append(a, s[i]) BY <1>1, <1>2, NamedAppend
<1>4. a \in Seq(T) /\ s[i] \in T BY <1>1, <1>2, NamedType
<1>5. Begins(b, Named(fn, s)) BY <1>1, NamedFirst
<1>6. Named(fn, s) \in Seq(T) BY NamedType
<1> DEFINE t == Named(fn, s)
<1> HIDE DEF a, b, T, t
<1>7. Len(b) = Len(a) + 1 /\ b[Len(a) + 1] = s[i] /\ Len(a) \in Nat BY <1>3, <1>4
<1>8. t \in Seq(T) /\ Begins(b, t) BY <1>5, <1>6 DEF t
<1>9. Len(a) + 1 \in 1 .. Len(t) /\ t[Len(a) + 1] = s[i] BY <1>7, <1>8 DEF Begins
<1> QED BY <1>9 DEF t

\* and nothing else is.
LEMMA NamedIn ==
  ASSUME NEW S, NEW fn, NEW s \in Seq(S), NEW j \in 1 .. Len(Named(fn, s))
  PROVE  Named(fn, s)[j] \in ToSet(s) /\ Named(fn, s)[j].fn = fn
<1> DEFINE R == {s[i] : i \in DOMAIN s}
<1>1. s \in Seq(R) BY SeqOfRange
<1>2. Named(fn, s) \in Seq({x \in R : x.fn = fn}) BY <1>1, NamedType
<1> QED BY <1>2 DEF ToSet

\* One call more is selected when it is of the function, at the next place.
OneMore(fn, s, k) ==
  LET n == Len(Named(fn, SubSeq(s, 1, k))) IN
  /\ n \in Nat
  /\ s[k + 1].fn = fn =>
       /\ Len(Named(fn, SubSeq(s, 1, k + 1))) = n + 1
       /\ n + 1 \in 1 .. Len(Named(fn, s)) /\ Named(fn, s)[n + 1] = s[k + 1]
  /\ s[k + 1].fn # fn => Len(Named(fn, SubSeq(s, 1, k + 1))) = n

\* So it is with every call of a sequence.
LEMMA NextNamed ==
  ASSUME NEW S, NEW fn, NEW s \in Seq(S), NEW k \in 0 .. Len(s) - 1
  PROVE  OneMore(fn, s, k)
<1> DEFINE first == SubSeq(s, 1, k)
           a == Named(fn, first)
           longer == SubSeq(s, 1, k + 1)
           b == Named(fn, longer)
           T == {x \in S : x.fn = fn}
           t == Named(fn, s)
<1>1. k \in 0 .. Len(s) /\ k + 1 \in 0 .. Len(s) /\ k < Len(s) /\ s[k + 1] \in S OBVIOUS
<1>2. first \in Seq(S) /\ longer = Append(first, s[k + 1]) BY <1>1, FirstCalls
<1> HIDE DEF first, longer
<1>3. b = IF s[k + 1].fn = fn THEN Append(a, s[k + 1]) ELSE a
  <2>1. ASSUME NEW x \in S
        PROVE  Named(fn, Append(first, x)) = IF x.fn = fn THEN Append(a, x) ELSE a
    BY <1>2, NamedAppend
  <2> QED BY <1>1, <1>2, <2>1
<1>4. a \in Seq(T) BY <1>2, NamedType
<1>5. Begins(b, t) BY <1>1, NamedFirst DEF longer
<1>6. t \in Seq(T) BY NamedType
<1> HIDE DEF a, b, T, t
<1>7. Len(a) \in Nat BY <1>4
<1>8. ASSUME s[k + 1].fn = fn
      PROVE  Len(b) = Len(a) + 1 /\ Len(a) + 1 \in 1 .. Len(t) /\ t[Len(a) + 1] = s[k + 1]
  <2>1. s[k + 1] \in T BY <1>1, <1>8 DEF T
  <2>2. Len(b) = Len(a) + 1 /\ b[Len(a) + 1] = s[k + 1] BY <1>3, <1>4, <1>8, <2>1
  <2> QED BY <1>5, <1>6, <1>7, <2>2 DEF Begins
<1> QED BY <1>3, <1>7, <1>8 DEF OneMore, a, b, t, first, longer

\* Calls of other functions may be left off at the end.
LEMMA NamedRest ==
  ASSUME NEW S, NEW fn, NEW s \in Seq(S), NEW k \in 0 .. Len(s),
         \A i \in k + 1 .. Len(s) : s[i].fn # fn
  PROVE  Named(fn, SubSeq(s, 1, k)) = Named(fn, s)
<1> DEFINE first == SubSeq(s, 1, k)
           rest == SubSeq(s, k + 1, Len(s))
           T == {x \in S : x.fn = fn}
           a == Named(fn, first)
<1>1. first \in Seq(S) /\ rest \in Seq(S) /\ s = first \o rest BY FirstCalls
<1>2. \A i \in 1 .. Len(rest) : rest[i].fn # fn
  <2>1. Len(rest) = Len(s) - k /\ \A i \in 1 .. Len(s) - k : rest[i] = s[k + i] OBVIOUS
  <2>2. \A i \in 1 .. Len(s) - k : k + i \in k + 1 .. Len(s) OBVIOUS
  <2> QED BY <2>1, <2>2
<1> HIDE DEF first, rest
<1>3. Named(fn, rest) = <<>> BY <1>1, <1>2, NamedNone
<1>4. Named(fn, s) = a \o <<>>
  <2>1. Named(fn, first \o rest) = Named(fn, first) \o Named(fn, rest) BY <1>1, NamedConcat
  <2> QED BY <1>1, <1>3, <2>1
<1>5. a \in Seq(T) BY <1>1, NamedType
<1> HIDE DEF a, T
<1>6. a \o <<>> = a BY <1>5, ConcatEmptySeq
<1> QED BY <1>4, <1>6 DEF a, first

\* What is left of a sequence after n.
LEMMA LaterCalls ==
  ASSUME NEW S, NEW s \in Seq(S), NEW n \in 0 .. Len(s)
  PROVE  LET r == SubSeq(s, n + 1, Len(s)) IN
         /\ r \in Seq(S) /\ (r = <<>> <=> n = Len(s))
         /\ n < Len(s) => Head(r) = s[n + 1] /\ Tail(r) = SubSeq(s, n + 1 + 1, Len(s))
<1> DEFINE r == SubSeq(s, n + 1, Len(s))
<1>1. s \in Seq(S) /\ Len(s) \in Nat /\ n <= Len(s) /\ n \in Nat OBVIOUS
<1>2. r \in Seq(S) /\ Len(r) = Len(s) - n BY <1>1
<1>3. r = <<>> <=> n = Len(s)
  <2> HIDE DEF r
  <2> QED BY <1>1, <1>2
<1>4. ASSUME n < Len(s) PROVE Head(r) = s[n + 1] /\ Tail(r) = SubSeq(s, n + 2, Len(s))
  <2>1. Head(r) = s[n + 1] BY <1>1, <1>4
  <2> DEFINE m == Len(s) - n - 1
             a == Tail(r)
             b == SubSeq(s, n + 2, Len(s))
  <2>2. m \in Nat BY <1>1, <1>4
  <2>3. a \in Seq(S) /\ Len(a) = m
    <3> HIDE DEF r
    <3> QED BY <1>1, <1>2, <1>4
  <2>4. b \in Seq(S) /\ Len(b) = m BY <1>1, <1>4
  <2>5. \A i \in 1 .. m : a[i] = s[n + 1 + i] BY <1>1, <1>2, <1>4
  <2>6. \A i \in 1 .. m : b[i] = s[n + 1 + i] BY <1>1, <1>4
  <2> HIDE DEF m, a, b
  <2>7. a = b BY <2>2, <2>3, <2>4, <2>5, <2>6
  <2> QED BY <2>1, <2>7 DEF a, b
<1>5. n + 1 + 1 = n + 2 OBVIOUS
<1> QED BY <1>2, <1>3, <1>4, <1>5

\* Where a plan's calls come from, function by function; no resource comes after a rule.
LEMMA PlanParts ==
  ASSUME NEW apm \in Authors
  PROVE  LET m == Projection(apm)
             plan == CompiledCalls(apm) IN
         /\ m \in ManifestType
         /\ Named("add_policy_resource", plan) = ResourceCalls(m)
         /\ Named("add_policy_rule", plan) = RuleCalls(m)
         /\ Named("add_policy_effect", plan) = EffectCalls(m)
         /\ \A i \in 1 .. Len(plan) : plan[i].fn = "add_policy_rule" =>
              \A j \in i .. Len(plan) : plan[j].fn # "add_policy_resource"
<1> DEFINE m == Projection(apm)
           plan == CompiledCalls(apm)
           B == BeginCall(apm)
           Z == SealCall(m.key)
           r == ResourceCalls(m)
           u == RuleCalls(m)
           e == EffectCalls(m)
           p == <<B>> \o r
           q == u \o e \o <<Z>>
<1>1. apm \in ApmType /\ Compiles(apm) BY AuthorsCompile
<1>2. m \in ManifestType BY <1>1, ProjectionType
<1>3. m.key \in PolicyKeys BY <1>2 DEF ManifestType
<1>4. B \in CallType /\ B.fn = "begin_policy" BY <1>1 DEF CallType, BeginCall
<1>5. Z \in CallType /\ Z.fn = "seal_policy" BY <1>3 DEF CallType, SealCall
<1>6. r \in Seq(CallType) /\ u \in Seq(CallType) /\ e \in Seq(CallType)
  <2> DEFINE A == AddCalls(m.key)
  <2>1. r \in Seq(A) /\ u \in Seq(A) /\ e \in Seq(A) BY <1>2, AddCallsCompiled
  <2>2. A \subseteq CallType BY <1>3, AddCallsAre
  <2> HIDE DEF A, r, u, e, CallType
  <2> QED BY <2>1, <2>2
<1>7. /\ \A i \in 1 .. Len(r) : r[i].fn = "add_policy_resource"
      /\ \A i \in 1 .. Len(u) : u[i].fn = "add_policy_rule"
      /\ \A i \in 1 .. Len(e) : e[i].fn = "add_policy_effect"
  <2>1. DOMAIN r = 1 .. Len(r) /\ DOMAIN u = 1 .. Len(u) /\ DOMAIN e = 1 .. Len(e)
    <3> HIDE DEF r, u, e, CallType
    <3> QED BY <1>6
  <2>2. /\ \A i \in DOMAIN r : r[i].fn = "add_policy_resource"
        /\ \A i \in DOMAIN u : u[i].fn = "add_policy_rule"
        /\ \A i \in DOMAIN e : e[i].fn = "add_policy_effect"
    BY DEF ResourceCalls, RuleCalls, EffectCalls
  <2> QED BY <2>1, <2>2
<1>8. plan = p \o u \o e \o <<Z>> BY DEF CompiledCalls
<1> HIDE DEF plan, B, Z, r, u, e, m, CallType
<1>9. <<B>> \in Seq(CallType) /\ <<Z>> \in Seq(CallType) BY <1>4, <1>5
<1>10. p \in Seq(CallType) /\ p \o u \in Seq(CallType) /\ p \o u \o e \in Seq(CallType)
  BY <1>6, <1>9, ConcatProperties
<1>11. q \in Seq(CallType) /\ plan = p \o q
  <2> HIDE DEF p
  <2>0. ASSUME NEW a \in Seq(CallType), NEW b \in Seq(CallType), NEW c \in Seq(CallType)
        PROVE  (a \o b) \o c = a \o (b \o c)
    BY ConcatAssociative
  <2>1. u \o e \in Seq(CallType) /\ q \in Seq(CallType) BY <1>6, <1>9, ConcatProperties
  <2>2. p \o (u \o (e \o <<Z>>)) = plan
    <3>1. (p \o u) \o (e \o <<Z>>) = ((p \o u) \o e) \o <<Z>>
      BY <1>6, <1>9, <1>10, <2>0
    <3>2. p \o (u \o (e \o <<Z>>)) = (p \o u) \o (e \o <<Z>>)
      <4> DEFINE v == e \o <<Z>>
      <4>1. v \in Seq(CallType) BY <1>6, <1>9, ConcatProperties
      <4> HIDE DEF v
      <4>2. (p \o u) \o v = p \o (u \o v)
        <5>1. p \in Seq(CallType) /\ u \in Seq(CallType) BY <1>6, <1>10
        <5> QED BY <4>1, <5>1, <2>0, Zenon
      <4> QED BY <4>2 DEF v
    <3> QED BY <1>8, <3>1, <3>2
  <2>3. u \o (e \o <<Z>>) = (u \o e) \o <<Z>> BY <1>6, <1>9, <2>0
  <2> QED BY <2>1, <2>2, <2>3
<1>12. ASSUME NEW fn \in Adds
       PROVE  Named(fn, plan) = Named(fn, r) \o Named(fn, u) \o Named(fn, e)
  <2>1. Named(fn, <<B>>) = <<>> /\ Named(fn, <<Z>>) = <<>>
    <3>1. \A i \in 1 .. Len(<<B>>) : <<B>>[i].fn # fn BY <1>4 DEF Adds
    <3>2. \A i \in 1 .. Len(<<Z>>) : <<Z>>[i].fn # fn BY <1>5 DEF Adds
    <3> QED BY <1>9, <3>1, <3>2, NamedNone
  <2> DEFINE T == {x \in CallType : x.fn = fn}
             a == Named(fn, r)
             b == Named(fn, u)
             c == Named(fn, e)
  <2>2. a \in Seq(T) /\ b \in Seq(T) /\ c \in Seq(T) BY <1>6, NamedType
  <2>3. ASSUME NEW s \in Seq(CallType), NEW v \in Seq(CallType)
        PROVE  Named(fn, s \o v) = Named(fn, s) \o Named(fn, v)
    BY NamedConcat
  <2>4. Named(fn, p) = <<>> \o a
    <3>1. Named(fn, <<B>> \o r) = Named(fn, <<B>>) \o Named(fn, r)
      <4>1. r \in Seq(CallType) BY <1>6
      <4> QED BY <1>9, <4>1, <2>3, Zenon
    <3> QED BY <2>1, <3>1
  <2> HIDE DEF p
  <2>5. Named(fn, p \o u) = Named(fn, p) \o b BY <1>6, <1>10, <2>3
  <2>6. Named(fn, plan) = ((Named(fn, p) \o b) \o c) \o <<>>
    <3>1. Named(fn, p \o u \o e) = Named(fn, p \o u) \o c BY <1>6, <1>10, <2>3
    <3>2. Named(fn, plan) = Named(fn, p \o u \o e) \o Named(fn, <<Z>>)
      BY <1>8, <1>9, <1>10, <2>3
    <3> QED BY <2>1, <2>5, <3>1, <3>2
  <2> HIDE DEF a, b, c, T
  <2>7. <<>> \o a = a BY <2>2, ConcatEmptySeq
  <2>8. a \o b \o c \in Seq(T) BY <2>2, ConcatProperties
  <2>9. (a \o b \o c) \o <<>> = a \o b \o c BY <2>8, ConcatEmptySeq
  <2>10. Named(fn, plan) = a \o b \o c BY <2>4, <2>6, <2>7, <2>9
  <2> QED BY <2>10 DEF a, b, c
<1>13. /\ Named("add_policy_resource", r) = r /\ Named("add_policy_rule", u) = u
       /\ Named("add_policy_effect", e) = e
  BY <1>6, <1>7, NamedAll
<1>14. /\ Named("add_policy_resource", u) = <<>> /\ Named("add_policy_resource", e) = <<>>
       /\ Named("add_policy_rule", r) = <<>> /\ Named("add_policy_rule", e) = <<>>
       /\ Named("add_policy_effect", r) = <<>> /\ Named("add_policy_effect", u) = <<>>
  <2>1. ASSUME NEW fn, NEW s \in Seq(CallType), \A i \in 1 .. Len(s) : s[i].fn # fn
        PROVE  Named(fn, s) = <<>>
    BY <2>1, NamedNone
  <2> QED BY <1>6, <1>7, <2>1
<1>15. /\ Named("add_policy_resource", plan) = r /\ Named("add_policy_rule", plan) = u
       /\ Named("add_policy_effect", plan) = e
  <2>1. /\ Named("add_policy_resource", plan) = r \o <<>> \o <<>>
        /\ Named("add_policy_rule", plan) = <<>> \o u \o <<>>
        /\ Named("add_policy_effect", plan) = <<>> \o <<>> \o e
    BY <1>12, <1>13, <1>14 DEF Adds
  <2>2. r \o <<>> = r /\ <<>> \o u = u /\ u \o <<>> = u /\ <<>> \o e = e BY <1>6, ConcatEmptySeq
  <2>3. <<>> \o <<>> = <<>> OBVIOUS
  <2> QED BY <2>1, <2>2, <2>3
<1>16. \A i \in 1 .. Len(p) : p[i].fn # "add_policy_rule"
  <2>1. Len(p) = 1 + Len(r) /\ Len(r) \in Nat
        /\ \A i \in 1 .. Len(p) : p[i] = IF i <= 1 THEN B ELSE r[i - 1]
    BY <1>6, <1>9
  <2> SUFFICES ASSUME NEW i \in 1 .. Len(p) PROVE p[i].fn # "add_policy_rule" OBVIOUS
  <2> HIDE DEF p
  <2>2. CASE i <= 1 BY <1>4, <2>1, <2>2
  <2>3. CASE i > 1
    <3>1. i - 1 \in 1 .. Len(r) BY <2>1, <2>3
    <3> QED BY <1>7, <2>1, <2>3, <3>1
  <2> QED BY <2>1, <2>2, <2>3
<1>17. \A i \in 1 .. Len(q) : q[i].fn # "add_policy_resource"
  <2> DEFINE w == u \o e
  <2>1. /\ w \in Seq(CallType) /\ Len(w) = Len(u) + Len(e) /\ Len(u) \in Nat /\ Len(e) \in Nat
        /\ \A i \in 1 .. Len(w) : w[i] = IF i <= Len(u) THEN u[i] ELSE e[i - Len(u)]
    BY <1>6
  <2>2. ASSUME NEW i \in 1 .. Len(w) PROVE w[i].fn # "add_policy_resource"
    <3> HIDE DEF w
    <3>1. CASE i <= Len(u) BY <1>7, <2>1, <3>1
    <3>2. CASE i > Len(u)
      <4>1. i - Len(u) \in 1 .. Len(e) BY <2>1, <3>2
      <4> QED BY <1>7, <2>1, <3>2, <4>1
    <3> QED BY <2>1, <3>1, <3>2
  <2> HIDE DEF w
  <2>3. q = w \o <<Z>> BY DEF w
  <2>4. Len(q) = Len(w) + 1 /\ \A i \in 1 .. Len(q) : q[i] = IF i <= Len(w) THEN w[i] ELSE Z
    BY <1>9, <2>1, <2>3
  <2> HIDE DEF q
  <2> QED BY <1>5, <2>1, <2>2, <2>4
<1>18. ASSUME NEW i \in 1 .. Len(plan), plan[i].fn = "add_policy_rule", NEW j \in i .. Len(plan)
       PROVE  plan[j].fn # "add_policy_resource"
  <2> HIDE DEF p, q
  <2>1. /\ Len(plan) = Len(p) + Len(q) /\ Len(p) \in Nat /\ Len(q) \in Nat
        /\ \A k \in 1 .. Len(plan) : plan[k] = IF k <= Len(p) THEN p[k] ELSE q[k - Len(p)]
    BY <1>10, <1>11
  <2>2. i > Len(p) BY <1>16, <1>18, <2>1
  <2>3. j - Len(p) \in 1 .. Len(q) /\ j \in 1 .. Len(plan) /\ ~(j <= Len(p)) BY <2>1, <2>2
  <2> QED BY <1>17, <2>1, <2>3
<1> QED BY <1>2, <1>15, <1>18 DEF plan, m, r, u, e

-----------------------------------------------------------------------------
(* The deployment's scripts: in order function by function only *)

Planned(fn, apm) == Named(fn, CompiledCalls(apm))

\* Of the calls s that took effect those of this function are as many as are planned.
AllOf(fn, apm, s) == Len(Named(fn, s)) >= Len(Planned(fn, apm))

\* The plan's calls of c's function before c have taken effect; of other functions only
\* what must be there for the policy to be sealed whole in the end.
Due(c, apm, s) ==
  /\ c \in CallType /\ c.key = apm.policyId
  /\ c.fn = "begin_policy" => c = BeginCall(apm)
  /\ c.fn \in Adds =>
       \E m \in 1 .. Len(Planned(c.fn, apm)) :
         c = Planned(c.fn, apm)[m] /\ m <= Len(Named(c.fn, s)) + 1
  /\ c.fn = "add_policy_rule" => AllOf("add_policy_resource", apm, s)
  /\ c.fn = "seal_policy" => AllOf("add_policy_effect", apm, s)

Orderly(apm, s) ==
  /\ s # <<>> => s[1] = BeginCall(apm)
  /\ \A fn \in Adds : Begins(Named(fn, s), Planned(fn, apm))
  /\ Len(Named("add_policy_rule", s)) > 0 => AllOf("add_policy_resource", apm, s)
  /\ \A c \in ToSet(s) : c.fn = "add_policy_effect" =>
       \E d \in ToSet(s) : d.fn = "add_policy_rule" /\ d.rule.id = c.rule

\* The first k calls of a plan took effect, function by function.
Past(plan, k, s) == \A fn \in Adds : Len(Named(fn, SubSeq(plan, 1, k))) <= Len(Named(fn, s))

Gains(s, t) == \A fn \in Adds : Len(Named(fn, s)) <= Len(Named(fn, t))

\* What a process writes: the whole plan, its effects, the seal, or the activation.
Followed(plan, apm, s) ==
  \/ plan \in {CompiledCalls(apm), Planned("add_policy_effect", apm),
               <<ActivateCall(apm.policyId)>>}
  \/ plan = <<SealCall(apm.policyId)>> /\ AllOf("add_policy_effect", apm, s)

\* The selected are a sequence.
LEMMA CountIsNat ==
  ASSUME NEW fn, NEW s \in Seq(CallType) PROVE Len(Named(fn, s)) \in Nat
<1> HIDE DEF CallType
<1>1. Named(fn, s) \in Seq({x \in CallType : x.fn = fn}) BY NamedType
<1> QED BY <1>1

\* So are those a plan has of a function.
LEMMA PlannedIsNat == ASSUME NEW fn, NEW apm \in Authors PROVE Len(Planned(fn, apm)) \in Nat
<1>1. CompiledCalls(apm) \in Seq(CallType) BY PlanFacts
<1> QED BY <1>1, CountIsNat DEF Planned

\* A call whose turn has come does not lose it, nor a plan what it has got,
LEMMA DueStays ==
  ASSUME NEW apm \in Authors, NEW s \in Seq(CallType), NEW t \in Seq(CallType), Gains(s, t)
  PROVE  /\ \A fn \in Adds : AllOf(fn, apm, s) => AllOf(fn, apm, t)
         /\ \A c : Due(c, apm, s) => Due(c, apm, t)
         /\ \A plan \in Seq(CallType), k \in Nat :
              k <= Len(plan) /\ Past(plan, k, s) => Past(plan, k, t)
         /\ \A plan : Followed(plan, apm, s) => Followed(plan, apm, t)
<1>1. \A fn : Len(Named(fn, s)) \in Nat /\ Len(Named(fn, t)) \in Nat /\ Len(Planned(fn, apm)) \in Nat
  BY CountIsNat, PlannedIsNat
<1>2. \A fn \in Adds : Len(Named(fn, s)) <= Len(Named(fn, t)) BY DEF Gains
<1>3. \A fn \in Adds : AllOf(fn, apm, s) => AllOf(fn, apm, t) BY <1>1, <1>2 DEF AllOf
<1>4. ASSUME NEW c, Due(c, apm, s) PROVE Due(c, apm, t)
  <2>1. c.fn \in Adds =>
          \E m \in 1 .. Len(Planned(c.fn, apm)) :
            c = Planned(c.fn, apm)[m] /\ m <= Len(Named(c.fn, t)) + 1
    <3>1. SUFFICES ASSUME c.fn \in Adds
                   PROVE  \E m \in 1 .. Len(Planned(c.fn, apm)) :
                            c = Planned(c.fn, apm)[m] /\ m <= Len(Named(c.fn, t)) + 1
      OBVIOUS
    <3>2. PICK m \in 1 .. Len(Planned(c.fn, apm)) :
            c = Planned(c.fn, apm)[m] /\ m <= Len(Named(c.fn, s)) + 1
      BY <1>4, <3>1 DEF Due
    <3>3. m <= Len(Named(c.fn, t)) + 1 BY <1>1, <1>2, <3>1, <3>2
    <3> QED BY <3>2, <3>3
  <2> QED BY <1>3, <1>4, <2>1 DEF Due, Adds
<1>5. ASSUME NEW plan \in Seq(CallType), NEW k \in Nat, k <= Len(plan), Past(plan, k, s)
      PROVE  Past(plan, k, t)
  <2>1. SubSeq(plan, 1, k) \in Seq(CallType)
    <3> HIDE DEF CallType
    <3>1. k \in 0 .. Len(plan) BY <1>5
    <3> QED BY <3>1, FirstCalls
  <2>2. \A fn : Len(Named(fn, SubSeq(plan, 1, k))) \in Nat BY <2>1, CountIsNat
  <2> QED BY <1>1, <1>2, <1>5, <2>2 DEF Past
<1>6. \A plan : Followed(plan, apm, s) => Followed(plan, apm, t) BY <1>3 DEF Followed, Adds
<1> QED BY <1>3, <1>4, <1>5, <1>6

\* At the start nothing of a plan is past, and nothing is needed to be.
LEMMA PastNothing ==
  ASSUME NEW plan \in Seq(CallType), NEW s \in Seq(CallType) PROVE Past(plan, 0, s)
<1>1. SubSeq(plan, 1, 0) = <<>> OBVIOUS
<1>2. Len(<<>>) = 0 OBVIOUS
<1>3. \A fn : Len(Named(fn, s)) \in Nat BY CountIsNat
<1>4. ASSUME NEW fn PROVE Len(Named(fn, SubSeq(plan, 1, 0))) <= Len(Named(fn, s))
  <2>1. Len(Named(fn, SubSeq(plan, 1, 0))) = 0 BY <1>1, <1>2, NamedEmpty
  <2> QED BY <1>3, <2>1
<1> QED BY <1>4 DEF Past

\* The next call of the whole plan is due when those before it took effect.
LEMMA WholePlanDue ==
  ASSUME NEW apm \in Authors, NEW s \in Seq(CallType),
         NEW k \in 0 .. Len(CompiledCalls(apm)) - 1, Past(CompiledCalls(apm), k, s)
  PROVE  Due(CompiledCalls(apm)[k + 1], apm, s)
<1> DEFINE plan == CompiledCalls(apm)
           c == plan[k + 1]
<1>1. /\ plan \in Seq(CallType) /\ Len(plan) >= 2
      /\ plan[1] = BeginCall(apm) /\ plan[Len(plan)] = SealCall(apm.policyId)
      /\ \A i \in 2 .. Len(plan) - 1 : plan[i].fn \in Adds
      /\ \A i \in 1 .. Len(plan) : plan[i].key = apm.policyId
  BY PlanFacts
<1>2. \A fn \in Adds : Len(Named(fn, SubSeq(plan, 1, k))) <= Len(Named(fn, s)) BY DEF Past
<1>3. \A i \in 1 .. Len(plan) : plan[i].fn = "add_policy_rule" =>
        \A j \in i .. Len(plan) : plan[j].fn # "add_policy_resource"
  BY PlanParts
<1>4. \A fn : Len(Named(fn, s)) \in Nat BY CountIsNat
<1>5. \A fn : Planned(fn, apm) = Named(fn, plan) BY DEF Planned
<1>6. BeginCall(apm).fn = "begin_policy" /\ SealCall(apm.policyId).fn = "seal_policy"
  BY DEF BeginCall, SealCall
<1>7. k \in 0 .. Len(plan) - 1 OBVIOUS
<1> HIDE DEF plan, CallType
<1>8. Len(plan) \in Nat /\ k + 1 \in 1 .. Len(plan) /\ k \in 0 .. Len(plan) BY <1>1, <1>7
<1>9. c \in CallType /\ c.key = apm.policyId BY <1>1, <1>8
<1>10. c.fn = "begin_policy" => k = 0
  <2>1. k = Len(plan) - 1 => c.fn = "seal_policy" BY <1>1, <1>6, <1>8
  <2>2. k # 0 /\ k # Len(plan) - 1 => c.fn \in Adds
    <3>1. k # 0 /\ k # Len(plan) - 1 => k + 1 \in 2 .. Len(plan) - 1 BY <1>7, <1>8
    <3> QED BY <1>1, <3>1
  <2> QED BY <2>1, <2>2 DEF Adds
<1>11. c.fn = "begin_policy" => c = BeginCall(apm) BY <1>1, <1>10
<1>12. ASSUME c.fn \in Adds
       PROVE  \E m \in 1 .. Len(Planned(c.fn, apm)) :
                c = Planned(c.fn, apm)[m] /\ m <= Len(Named(c.fn, s)) + 1
  <2> DEFINE n == Len(Named(c.fn, SubSeq(plan, 1, k)))
  <2>1. n \in Nat /\ n + 1 \in 1 .. Len(Named(c.fn, plan)) /\ Named(c.fn, plan)[n + 1] = c
    BY <1>1, <1>7, NextNamed DEF OneMore
  <2>2. n <= Len(Named(c.fn, s)) BY <1>2, <1>12
  <2> HIDE DEF n, c
  <2>3. n + 1 <= Len(Named(c.fn, s)) + 1 BY <1>4, <2>1, <2>2
  <2> QED BY <1>5, <2>1, <2>3
<1>13. c.fn = "add_policy_rule" => AllOf("add_policy_resource", apm, s)
  <2>1. SUFFICES ASSUME c.fn = "add_policy_rule" PROVE AllOf("add_policy_resource", apm, s) OBVIOUS
  <2>2. \A j \in k + 1 .. Len(plan) : plan[j].fn # "add_policy_resource" BY <1>3, <1>8, <2>1
  <2>3. Named("add_policy_resource", SubSeq(plan, 1, k)) = Named("add_policy_resource", plan)
    BY <1>1, <1>8, <2>2, NamedRest
  <2>4. "add_policy_resource" \in Adds BY DEF Adds
  <2>5. Len(Named("add_policy_resource", plan)) <= Len(Named("add_policy_resource", s))
    BY <1>2, <2>3, <2>4
  <2>6. Len(Planned("add_policy_resource", apm)) \in Nat BY PlannedIsNat
  <2> QED BY <1>4, <1>5, <2>5, <2>6 DEF AllOf
<1>14. c.fn = "seal_policy" => AllOf("add_policy_effect", apm, s)
  <2>1. SUFFICES ASSUME c.fn = "seal_policy" PROVE AllOf("add_policy_effect", apm, s) OBVIOUS
  <2>2. k = Len(plan) - 1
    <3>1. k = 0 => c.fn = "begin_policy" BY <1>1, <1>6
    <3>2. k # 0 /\ k # Len(plan) - 1 => c.fn \in Adds
      <4>1. k # 0 /\ k # Len(plan) - 1 => k + 1 \in 2 .. Len(plan) - 1 BY <1>7, <1>8
      <4> QED BY <1>1, <4>1
    <3> QED BY <2>1, <3>1, <3>2 DEF Adds
  <2>3. \A j \in k + 1 .. Len(plan) : plan[j].fn # "add_policy_effect"
    <3>1. \A j \in k + 1 .. Len(plan) : j = Len(plan) BY <1>8, <2>2
    <3> QED BY <1>1, <1>6, <3>1
  <2>4. Named("add_policy_effect", SubSeq(plan, 1, k)) = Named("add_policy_effect", plan)
    BY <1>1, <1>8, <2>3, NamedRest
  <2>5. "add_policy_effect" \in Adds BY DEF Adds
  <2>6. Len(Named("add_policy_effect", plan)) <= Len(Named("add_policy_effect", s))
    BY <1>2, <2>4, <2>5
  <2>7. Len(Planned("add_policy_effect", apm)) \in Nat BY PlannedIsNat
  <2> QED BY <1>4, <1>5, <2>6, <2>7 DEF AllOf
<1> HIDE DEF c
<1>15. Due(c, apm, s) BY <1>9, <1>11, <1>12, <1>13, <1>14 DEF Due
<1> QED BY <1>15 DEF c, plan

\* The plan's effects, as the second script selects them.
LEMMA EffectsDue ==
  ASSUME NEW apm \in Authors, NEW s \in Seq(CallType), NEW plan,
         plan = Planned("add_policy_effect", apm)
  PROVE  /\ plan \in Seq(CallType)
         /\ \A k \in 0 .. Len(plan) :
              /\ Named("add_policy_effect", SubSeq(plan, 1, k)) = SubSeq(plan, 1, k)
              /\ \A fn \in Adds \ {"add_policy_effect"} : Named(fn, SubSeq(plan, 1, k)) = <<>>
              /\ Past(plan, k, s) <=> k <= Len(Named("add_policy_effect", s))
         /\ \A k \in 0 .. Len(plan) - 1 : Past(plan, k, s) => Due(plan[k + 1], apm, s)
<1> DEFINE whole == CompiledCalls(apm)
           T == {x \in CallType : x.key = apm.policyId}
           U == {x \in T : x.fn = "add_policy_effect"}
<1>1. whole \in Seq(CallType) /\ \A i \in 1 .. Len(whole) : whole[i].key = apm.policyId BY PlanFacts
<1>2. whole \in Seq(T)
  <2> HIDE DEF whole, CallType
  <2>1. \A i \in 1 .. Len(whole) : whole[i] \in T BY <1>1
  <2> QED BY <1>1, <2>1
<1>3. plan \in Seq(U)
  <2>1. plan = Named("add_policy_effect", whole) BY DEF Planned
  <2> HIDE DEF T, whole
  <2> QED BY <1>2, <2>1, NamedType
<1>4. Len(Named("add_policy_effect", s)) \in Nat BY CountIsNat
<1>5. \A x \in U : x \in CallType /\ x.key = apm.policyId /\ x.fn = "add_policy_effect" OBVIOUS
<1>6. \A fn : Len(Named(fn, s)) \in Nat BY CountIsNat
<1> HIDE DEF whole, CallType, T, U
<1>7. plan \in Seq(CallType) BY <1>3, <1>5
<1>8. ASSUME NEW k \in 0 .. Len(plan)
      PROVE  /\ Named("add_policy_effect", SubSeq(plan, 1, k)) = SubSeq(plan, 1, k)
             /\ \A fn \in Adds \ {"add_policy_effect"} : Named(fn, SubSeq(plan, 1, k)) = <<>>
             /\ Past(plan, k, s) <=> k <= Len(Named("add_policy_effect", s))
  <2> DEFINE f == SubSeq(plan, 1, k)
  <2>1. f \in Seq(U) /\ Len(f) = k BY <1>3, FirstCalls
  <2> HIDE DEF f
  <2>2. f \in Seq(CallType) /\ \A i \in 1 .. Len(f) : f[i].fn = "add_policy_effect"
    BY <1>5, <2>1
  <2>3. Named("add_policy_effect", f) = f BY <2>2, NamedAll
  <2>4. ASSUME NEW fn \in Adds \ {"add_policy_effect"} PROVE Named(fn, f) = <<>>
    <3>1. \A i \in 1 .. Len(f) : f[i].fn # fn BY <2>2, <2>4
    <3> QED BY <2>2, <3>1, NamedNone
  <2>5. ASSUME NEW fn \in Adds \ {"add_policy_effect"} PROVE Len(Named(fn, f)) <= Len(Named(fn, s))
    <3>1. Len(<<>>) = 0 OBVIOUS
    <3> QED BY <1>6, <2>4, <3>1
  <2>6. (\A fn \in Adds : Len(Named(fn, f)) <= Len(Named(fn, s)))
          <=> k <= Len(Named("add_policy_effect", s))
    BY <2>1, <2>3, <2>5 DEF Adds
  <2> QED BY <2>3, <2>4, <2>6 DEF Past, f
<1>9. ASSUME NEW k \in 0 .. Len(plan) - 1, Past(plan, k, s) PROVE Due(plan[k + 1], apm, s)
  <2>1. k \in 0 .. Len(plan) /\ k + 1 \in 1 .. Len(plan) /\ k \in Nat BY <1>7
  <2>2. plan[k + 1] \in U BY <1>3, <2>1
  <2>3. k + 1 <= Len(Named("add_policy_effect", s)) + 1 BY <1>4, <1>8, <1>9, <2>1
  <2>4. PICK c : c = plan[k + 1] OBVIOUS
  <2>5. /\ c \in CallType /\ c.key = apm.policyId /\ c.fn = "add_policy_effect"
        /\ \E m \in 1 .. Len(Planned("add_policy_effect", apm)) :
             c = Planned("add_policy_effect", apm)[m] /\ m <= Len(Named("add_policy_effect", s)) + 1
    BY <1>5, <2>1, <2>2, <2>3, <2>4
  <2>6. Due(c, apm, s) BY <2>5 DEF Due
  <2> QED BY <2>4, <2>6
<1> QED BY <1>7, <1>8, <1>9

\* Whatever a process writes, its next call is due when those before it took effect, and
\* after its last, if it is no seal or activation, the policy has all effects.
LEMMA FollowedIsDue ==
  ASSUME NEW apm \in Authors, NEW s \in Seq(CallType), NEW plan, Followed(plan, apm, s)
  PROVE  /\ plan \in Seq(CallType) /\ Len(plan) \in Nat
         /\ \A k \in 0 .. Len(plan) - 1 : Past(plan, k, s) => Due(plan[k + 1], apm, s)
         /\ plan # <<>> /\ plan[Len(plan)].fn \notin {"seal_policy", "activate_policy"}
              /\ Past(plan, Len(plan), s)
              => AllOf("add_policy_effect", apm, s)
<1> DEFINE key == apm.policyId
<1>1. key \in PolicyKeys BY AuthorsCompile DEF ApmType
<1>2. CASE plan = CompiledCalls(apm)
  <2>1. plan \in Seq(CallType) /\ plan[Len(plan)] = SealCall(key) BY <1>2, PlanFacts
  <2>2. \A k \in 0 .. Len(plan) - 1 : Past(plan, k, s) => Due(plan[k + 1], apm, s)
    BY <1>2, WholePlanDue
  <2>3. SealCall(key).fn = "seal_policy" BY DEF SealCall
  <2> HIDE DEF CallType
  <2> QED BY <2>1, <2>2, <2>3
<1>3. CASE plan = Planned("add_policy_effect", apm)
  <2>1. /\ plan \in Seq(CallType)
        /\ \A k \in 0 .. Len(plan) : Past(plan, k, s) => k <= Len(Named("add_policy_effect", s))
        /\ \A k \in 0 .. Len(plan) - 1 : Past(plan, k, s) => Due(plan[k + 1], apm, s)
    BY <1>3, EffectsDue
  <2>2. Len(Named("add_policy_effect", s)) \in Nat BY CountIsNat
  <2> HIDE DEF CallType
  <2>3. Len(plan) \in Nat BY <2>1
  <2>4. Past(plan, Len(plan), s) => AllOf("add_policy_effect", apm, s)
    BY <1>3, <2>1, <2>2, <2>3 DEF AllOf
  <2> QED BY <2>1, <2>3, <2>4
<1>4. ASSUME NEW c, plan = <<c>>, c \in {SealCall(key), ActivateCall(key)}, Due(c, apm, s)
      PROVE  /\ plan \in Seq(CallType) /\ Len(plan) = 1
             /\ \A k \in 0 .. Len(plan) - 1 : Due(plan[k + 1], apm, s)
             /\ plan[Len(plan)].fn \in {"seal_policy", "activate_policy"}
  <2>1. c \in CallType /\ c.fn \in {"seal_policy", "activate_policy"}
    BY <1>1, <1>4 DEF CallType, SealCall, ActivateCall
  <2> HIDE DEF CallType
  <2>2. plan \in Seq(CallType) /\ Len(plan) = 1 /\ plan[1] = c BY <1>4, <2>1
  <2>3. \A k \in 0 .. 1 - 1 : k + 1 = 1 OBVIOUS
  <2> QED BY <1>4, <2>1, <2>2, <2>3
<1>5. CASE plan = <<ActivateCall(key)>>
  <2>1. Due(ActivateCall(key), apm, s)
    <3>1. ActivateCall(key) \in CallType BY <1>1 DEF CallType, ActivateCall
    <3>2. ActivateCall(key).fn = "activate_policy" /\ ActivateCall(key).key = key BY DEF ActivateCall
    <3> QED BY <3>1, <3>2 DEF Due, Adds
  <2> HIDE DEF CallType
  <2> QED BY <1>4, <1>5, <2>1
<1>6. CASE plan = <<SealCall(key)>> /\ AllOf("add_policy_effect", apm, s)
  <2>1. Due(SealCall(key), apm, s)
    <3>1. SealCall(key) \in CallType BY <1>1 DEF CallType, SealCall
    <3>2. SealCall(key).fn = "seal_policy" /\ SealCall(key).key = key BY DEF SealCall
    <3> QED BY <1>6, <3>1, <3>2 DEF Due, Adds
  <2> HIDE DEF CallType
  <2> QED BY <1>4, <1>6, <2>1
<1> QED BY <1>2, <1>3, <1>5, <1>6 DEF Followed

\* A call that is due and takes effect for the first time is the next of its function.
LEMMA DueTaken ==
  ASSUME NEW apm \in Authors, NEW s \in Seq(CallType), NEW c, Orderly(apm, s), Due(c, apm, s),
         c.fn # "activate_policy" => c \notin ToSet(s),
         s = <<>> => c.fn = "begin_policy",
         c.fn = "add_policy_effect" =>
           \E d \in ToSet(s) : d.fn = "add_policy_rule" /\ d.rule.id = c.rule
  PROVE  /\ Orderly(apm, Append(s, c)) /\ Gains(s, Append(s, c))
         /\ \A plan \in Seq(CallType), k \in Nat :
              k + 1 <= Len(plan) /\ plan[k + 1] = c /\ Past(plan, k, s) =>
                Past(plan, k + 1, Append(s, c))
<1> DEFINE t == Append(s, c)
<1>1. c \in CallType BY DEF Due
<1>2. \A fn : Len(Named(fn, s)) \in Nat BY CountIsNat
<1> HIDE DEF CallType
<1>3. t \in Seq(CallType) /\ ToSet(t) = ToSet(s) \cup {c} BY <1>1, ToSetAppend
<1>4. \A fn : Named(fn, t) = IF c.fn = fn THEN Append(Named(fn, s), c) ELSE Named(fn, s)
  BY <1>1, NamedAppend
<1>5. ASSUME NEW fn
      PROVE  Len(Named(fn, t)) = IF c.fn = fn THEN Len(Named(fn, s)) + 1 ELSE Len(Named(fn, s))
  <2>1. Named(fn, s) \in Seq({x \in CallType : x.fn = fn}) BY NamedType
  <2>2. CASE c.fn = fn
    <3>1. c \in {x \in CallType : x.fn = fn} BY <1>1, <2>2
    <3>2. PICK T, a : T = {x \in CallType : x.fn = fn} /\ a = Named(fn, s) OBVIOUS
    <3>3. a \in Seq(T) /\ c \in T BY <2>1, <3>1, <3>2
    <3>4. Len(Append(a, c)) = Len(a) + 1 BY <3>3
    <3> QED BY <1>4, <2>2, <3>2, <3>4
  <2>3. CASE c.fn # fn BY <1>4, <2>3
  <2> QED BY <2>2, <2>3
<1>6. Gains(s, t) BY <1>2, <1>5 DEF Gains
<1>7. t # <<>> /\ t[1] = BeginCall(apm)
  <2>1. s = <<>> => c = BeginCall(apm) BY DEF Due
  <2>2. CASE s = <<>> BY <2>1, <2>2
  <2>3. CASE s # <<>>
    <3>1. Len(s) >= 1 /\ s[1] = BeginCall(apm) BY <2>3 DEF Orderly
    <3>2. t[1] = s[1] /\ Len(t) >= 1 BY <1>1, <3>1
    <3> QED BY <3>1, <3>2
  <2> QED BY <2>2, <2>3
<1>8. ASSUME NEW fn \in Adds PROVE Begins(Named(fn, t), Planned(fn, apm))
  <2>1. Begins(Named(fn, s), Planned(fn, apm)) BY DEF Orderly
  <2>2. CASE c.fn # fn BY <1>4, <2>1, <2>2
  <2>3. CASE c.fn = fn
    <3>1. PICK a, p, T : a = Named(fn, s) /\ p = Planned(fn, apm) /\ T = {x \in CallType : x.fn = fn}
      OBVIOUS
    <3>2. PICK m \in 1 .. Len(p) : c = p[m] /\ m <= Len(a) + 1 BY <2>3, <3>1 DEF Due
    <3>3. a \in Seq(T) /\ c \in T BY <1>1, <2>3, <3>1, NamedType
    <3>4. Begins(a, p) BY <2>1, <3>1
    <3>5. m = Len(a) + 1
      <4>1. SUFFICES ASSUME m <= Len(a) PROVE FALSE BY <3>2, <3>3
      <4>2. c = a[m] /\ m \in 1 .. Len(a) BY <3>2, <3>3, <3>4, <4>1 DEF Begins
      <4>3. c \in ToSet(s) BY <3>1, <4>2, NamedIn
      <4> QED BY <2>3, <4>3 DEF Adds
    <3>6. Begins(Append(a, c), p)
      <4>1. /\ Len(Append(a, c)) = Len(a) + 1 /\ Append(a, c)[Len(a) + 1] = c /\ Len(a) \in Nat
            /\ \A i \in 1 .. Len(a) : Append(a, c)[i] = a[i]
        BY <3>3
      <4> QED BY <3>2, <3>4, <3>5, <4>1 DEF Begins
    <3> QED BY <1>4, <2>3, <3>1, <3>6
  <2> QED BY <2>2, <2>3
<1>9. \A fn \in Adds : AllOf(fn, apm, s) => AllOf(fn, apm, t)
  <2>1. \A fn : Len(Planned(fn, apm)) \in Nat BY PlannedIsNat
  <2> QED BY <1>2, <1>5, <2>1 DEF AllOf
<1>10. Len(Named("add_policy_rule", t)) > 0 => AllOf("add_policy_resource", apm, t)
  <2>1. CASE c.fn = "add_policy_rule" BY <1>9, <2>1 DEF Due, Adds
  <2>2. CASE c.fn # "add_policy_rule" BY <1>5, <1>9, <2>2 DEF Orderly, Adds
  <2> QED BY <2>1, <2>2
<1>11. \A x \in ToSet(t) : x.fn = "add_policy_effect" =>
         \E d \in ToSet(t) : d.fn = "add_policy_rule" /\ d.rule.id = x.rule
  BY <1>3 DEF Orderly
<1>12. ASSUME NEW plan \in Seq(CallType), NEW k \in Nat, k + 1 <= Len(plan), plan[k + 1] = c,
              Past(plan, k, s)
       PROVE  Past(plan, k + 1, t)
  <2> SUFFICES ASSUME NEW fn \in Adds
               PROVE  Len(Named(fn, SubSeq(plan, 1, k + 1))) <= Len(Named(fn, t))
    BY DEF Past
  <2>1. PICK n : n = Len(Named(fn, SubSeq(plan, 1, k))) OBVIOUS
  <2>2. k \in 0 .. Len(plan) - 1 BY <1>12
  <2>3. /\ n \in Nat
        /\ c.fn = fn => Len(Named(fn, SubSeq(plan, 1, k + 1))) = n + 1
        /\ c.fn # fn => Len(Named(fn, SubSeq(plan, 1, k + 1))) = n
    <3>1. OneMore(fn, plan, k) BY <2>2, NextNamed
    <3> QED BY <1>12, <2>1, <3>1 DEF OneMore
  <2>4. n <= Len(Named(fn, s)) BY <1>12, <2>1 DEF Past
  <2> QED BY <1>2, <1>5, <2>3, <2>4
<1>13. Orderly(apm, t) BY <1>7, <1>8, <1>10, <1>11 DEF Orderly
<1> QED BY <1>6, <1>12, <1>13

\* The last of the manifest's rules has an effect.
LastRuleHasEffect(apm) ==
  LET m == Projection(apm) IN \E x \in ToSet(m.effects) : x.rule = Last(m.rules).id

\* Where all effects took effect so did their rules, hence the last one, hence all rules
\* and all resources.
LEMMA OrderlyIsWhole ==
  ASSUME NEW apm \in Authors, NEW s \in Seq(CallType), Orderly(apm, s), s # <<>>,
         AllOf("add_policy_effect", apm, s), LastRuleHasEffect(apm)
  PROVE  Verified(s, TRUE, apm)
<1> DEFINE m == Projection(apm)
           plan == CompiledCalls(apm)
           u == Named("add_policy_rule", s)
           e == Named("add_policy_effect", s)
           rules == m.rules
           n == Len(rules)
<1>1. /\ m \in ManifestType /\ Planned("add_policy_rule", apm) = RuleCalls(m)
      /\ Planned("add_policy_effect", apm) = EffectCalls(m)
  BY PlanParts DEF Planned
<1>2. /\ rules \in Seq(RuleType) /\ m.effects \in Seq([rule: RuleIds, effect: Effects])
  BY <1>1 DEF ManifestType
<1>3. rules # <<>> /\ IsInjective([i \in DOMAIN rules |-> rules[i].id])
  BY AuthorsCompile DEF Compiles, Checked
<1>4. PICK x \in ToSet(m.effects) : x.rule = Last(rules).id BY DEF LastRuleHasEffect
<1>5. PICK j \in DOMAIN m.effects : x = m.effects[j] BY <1>4 DEF ToSet
<1>6. ASSUME NEW fn \in Adds, AllOf(fn, apm, s)
      PROVE  Named(fn, s) = Planned(fn, apm)
  <2>1. PICK a, p : a = Named(fn, s) /\ p = Planned(fn, apm) OBVIOUS
  <2>2. \E S : a \in Seq(S)
    <3> HIDE DEF CallType
    <3> QED BY <2>1, NamedType
  <2>3. \E S : p \in Seq(S)
    <3>1. plan \in Seq(CallType) BY PlanFacts
    <3> HIDE DEF CallType, plan
    <3>2. Named(fn, plan) \in Seq({y \in CallType : y.fn = fn}) BY <3>1, NamedType
    <3> QED BY <2>1, <3>2 DEF Planned, plan
  <2>4. Begins(a, p) /\ Len(a) >= Len(p) BY <1>6, <2>1 DEF Orderly, AllOf
  <2>5. /\ Len(a) \in Nat /\ DOMAIN a = 1 .. Len(a) /\ a = [i \in DOMAIN a |-> a[i]]
        /\ Len(p) \in Nat /\ DOMAIN p = 1 .. Len(p) /\ p = [i \in DOMAIN p |-> p[i]]
    BY <2>2, <2>3
  <2>6. a = p BY <2>4, <2>5 DEF Begins
  <2> QED BY <2>1, <2>6
<1>7. e = EffectCalls(m) BY <1>1, <1>6 DEF Adds
<1>8. DOMAIN (EffectCalls(m)) = DOMAIN m.effects /\ EffectCalls(m)[j].rule = x.rule
      /\ EffectCalls(m)[j].fn = "add_policy_effect"
  BY <1>5 DEF EffectCalls
<1>9. e[j] \in ToSet(s)
  <2>1. \E S : e \in Seq(S)
    <3> HIDE DEF CallType
    <3> QED BY NamedType
  <2>2. j \in DOMAIN e BY <1>5, <1>7, <1>8
  <2> HIDE DEF e, m
  <2>3. j \in 1 .. Len(e) BY <2>1, <2>2
  <2> HIDE DEF CallType
  <2> QED BY <2>3, NamedIn DEF e
<1>10. PICK d \in ToSet(s) : d.fn = "add_policy_rule" /\ d.rule.id = x.rule
  BY <1>7, <1>8, <1>9 DEF Orderly
<1>11. PICK i \in 1 .. Len(u) : u[i] = d
  <2>1. PICK k \in DOMAIN s : d = s[k] BY <1>10 DEF ToSet
  <2> HIDE DEF CallType
  <2>2. k \in 1 .. Len(s) BY <2>1
  <2> QED BY <1>10, <2>1, <2>2, NamedHas
<1>12. Begins(u, RuleCalls(m)) BY <1>1 DEF Orderly, Adds
<1>13. /\ DOMAIN (RuleCalls(m)) = DOMAIN rules
       /\ \A k \in DOMAIN rules : RuleCalls(m)[k].rule = rules[k]
  BY DEF RuleCalls
<1>14. n \in Nat /\ DOMAIN rules = 1 .. n /\ n >= 1 /\ Last(rules) = rules[n]
  <2> HIDE DEF rules
  <2> QED BY <1>2, <1>3 DEF Last
<1>15. Len(RuleCalls(m)) = n
  <2> DEFINE call(k) == [fn |-> "add_policy_rule", key |-> m.key, rule |-> rules[k]]
  <2>1. RuleCalls(m) = [k \in 1 .. n |-> call(k)] BY <1>14 DEF RuleCalls
  <2> HIDE DEF call, n
  <2> QED BY <1>14, <2>1
<1>16. Len(u) \in Nat BY CountIsNat
<1> HIDE DEF u, e, m, rules, n, plan, CallType
<1>17. i \in 1 .. n /\ RuleCalls(m)[i] = d BY <1>11, <1>12, <1>15, <1>16 DEF Begins
<1>18. rules[i].id = rules[n].id BY <1>4, <1>10, <1>13, <1>14, <1>17
<1>19. i = n
  <2>1. n \in DOMAIN rules /\ i \in DOMAIN rules BY <1>14, <1>17
  <2> QED BY <1>3, <1>18, <2>1 DEF IsInjective
<1>20. Len(u) >= n BY <1>11, <1>14, <1>16, <1>19
<1>21. AllOf("add_policy_rule", apm, s) BY <1>1, <1>15, <1>20 DEF AllOf, u
<1>22. AllOf("add_policy_resource", apm, s) BY <1>14, <1>16, <1>20 DEF Orderly, u
<1>23. \A fn \in Adds : Named(fn, s) = Planned(fn, apm) BY <1>6, <1>21, <1>22 DEF Adds
<1>24. s[1].hash = apm BY DEF Orderly, BeginCall
<1> QED BY <1>23, <1>24 DEF Verified, Planned, Adds

\* What is known of the policy under construction.
DeploymentBuilt ==
  LET s == built[Key] IN
  /\ Orderly(job.apm, s)
  /\ \A pk \in PolicyKeys \ {Key} : built[pk] = <<>>
  /\ policies[Key].sealed => AllOf("add_policy_effect", job.apm, s)
  /\ \A i \in DOMAIN txs : Due(txs[i].call, job.apm, s)

ProcessType ==
  [at: {"stopped", "ended", "estimate", "write", "wait", "lifecycle", "delay"},
   todo: Seq(CallType), tx: Nat, since: Nat]

DeploymentTypes ==
  /\ job.apm \in Manifests /\ job.calls = CompiledCalls(job.apm) /\ process \in ProcessType

\* A process has the first k calls of its plan behind it, and the rest to write.
Writing(plan, k, todo) ==
  /\ Followed(plan, job.apm, built[Key]) /\ k \in 0 .. Len(plan) - 1
  /\ todo = SubSeq(plan, k + 1, Len(plan)) /\ Past(plan, k, built[Key])

\* tx is the plan's next call, sent.
Waiting(plan, k, tx) ==
  /\ tx \in DOMAIN txs /\ txs[tx].call = plan[k + 1]
  /\ txs[tx].result = "FINISHED_WITH_RETURN" => Past(plan, k + 1, built[Key])

\* (The kernel was built on this far, a process is at this place.)
ProcessOK(p) ==
  /\ p.at \in {"estimate", "write", "wait"} =>
       \E plan, k : Writing(plan, k, p.todo) /\ (p.at = "wait" => Waiting(plan, k, p.tx))
  /\ p.at = "lifecycle" => AllOf("add_policy_effect", job.apm, built[Key])

DeploymentOK == DeploymentTypes /\ DeploymentBuilt /\ ProcessOK(process)

\* Its plan is a plan, under a key the kernel knows.
LEMMA DeploymentFacts ==
  ASSUME DeploymentTypes, WritesTypeOK
  PROVE  /\ job.apm \in Authors /\ Key \in PolicyKeys /\ Key = job.apm.policyId
         /\ Calls = CompiledCalls(job.apm) /\ built[Key] \in Seq(CallType)
<1>1. job.apm \in Authors /\ Calls = CompiledCalls(job.apm) BY DEF DeploymentTypes, Authors, Calls
<1>2. Key \in PolicyKeys /\ Key = job.apm.policyId BY <1>1, AuthorsCompile DEF ApmType, Key
<1>3. built[Key] \in Seq(CallType) BY <1>2 DEF WritesTypeOK
<1> QED BY <1>1, <1>2, <1>3

\* Where no call takes effect and none is sent the kernel's side stays as it is,
LEMMA DeploymentQuiet ==
  ASSUME DeploymentBuilt, Quiet, job' = job PROVE DeploymentBuilt'
<1>1. UNCHANGED <<Key, built, policies, job>> /\ DOMAIN txs' = DOMAIN txs
      /\ \A i \in DOMAIN txs : txs'[i].call = txs[i].call
  BY DEF Quiet, Key
<1>2. PICK apm, s : apm = job.apm /\ s = built[Key] OBVIOUS
<1>3. \A i \in DOMAIN txs' : Due(txs'[i].call, apm, s) BY <1>1, <1>2 DEF DeploymentBuilt
<1> QED BY <1>1, <1>2, <1>3 DEF DeploymentBuilt

\* and so does what is known of a process.
LEMMA ProcessQuiet ==
  ASSUME Quiet, job' = job, NEW p, ProcessOK(p) PROVE ProcessOK(p)'
<1>1. UNCHANGED <<Key, built, job>> /\ DOMAIN txs' = DOMAIN txs
      /\ \A i \in DOMAIN txs : /\ txs'[i].call = txs[i].call
                               /\ txs'[i].result = "FINISHED_WITH_RETURN" =>
                                    txs[i].result = "FINISHED_WITH_RETURN"
  BY DEF Quiet, Key
<1>2. \A plan, k : Writing(plan, k, p.todo) => Writing(plan, k, p.todo)' BY <1>1 DEF Writing
<1>3. \A plan, k : Waiting(plan, k, p.tx) => Waiting(plan, k, p.tx)' BY <1>1 DEF Waiting
<1>4. p.at = "lifecycle" => AllOf("add_policy_effect", job.apm, built[Key])'
  BY <1>1 DEF ProcessOK
<1> QED BY <1>2, <1>3, <1>4 DEF ProcessOK

\* A call that takes effect is the next of its function, and the process moves with it.
LEMMA DeploymentTakes ==
  ASSUME WritesInv, DeploymentTypes, DeploymentBuilt, NEW p, ProcessOK(p),
         NEW i \in DOMAIN txs, Taking(i), job' = job
  PROVE  DeploymentBuilt' /\ ProcessOK(p)'
<1>1. WritesTypeOK /\ ContentsOK BY DEF WritesInv
<1>2. PICK apm, key, s, c : apm = job.apm /\ key = Key /\ s = built[key] /\ c = txs[i].call OBVIOUS
<1>3. apm \in Authors /\ key \in PolicyKeys /\ key = apm.policyId /\ s \in Seq(CallType)
  BY <1>1, <1>2, DeploymentFacts
<1>4. /\ Orderly(apm, s)
      /\ \A pk \in PolicyKeys \ {key} : built[pk] = <<>>
      /\ policies[key].sealed => AllOf("add_policy_effect", apm, s)
      /\ \A j \in DOMAIN txs : Due(txs[j].call, apm, s)
  BY <1>2 DEF DeploymentBuilt
<1>5. Due(c, apm, s) BY <1>2, <1>4
<1>6. c \in CallType /\ c.key = key BY <1>3, <1>5 DEF Due
<1>7. /\ Filled(c) /\ Admitted(c)
      /\ c.fn # "activate_policy" => c \notin ToSet(s)
      /\ built' = [built EXCEPT ![key] = Append(@, c)]
      /\ DOMAIN txs' = DOMAIN txs
      /\ \A j \in DOMAIN txs : txs'[j].call = txs[j].call
      /\ \A j \in DOMAIN txs \ {i} : txs'[j] = txs[j]
  BY <1>2, <1>6, TakingFacts
<1>8. Takes(c) BY <1>2 DEF Taking
<1>9. (Begun(key) <=> s # <<>>) /\ HoldsCalls(policies[key], ToSet(s)) BY <1>1, <1>2, <1>3 DEF ContentsOK
<1>10. s = <<>> => c.fn = "begin_policy" BY <1>6, <1>7, <1>9 DEF Admitted
<1>11. c.fn = "add_policy_effect" =>
         \E d \in ToSet(s) : d.fn = "add_policy_rule" /\ d.rule.id = c.rule
  <2>1. SUFFICES ASSUME c.fn = "add_policy_effect"
                 PROVE  \E d \in ToSet(s) : d.fn = "add_policy_rule" /\ d.rule.id = c.rule
    OBVIOUS
  <2>2. AddPolicyEffect(key, c.rule, c.effect) BY <1>6, <1>8, <2>1 DEF Takes
  <2>3. PICK r \in policies[key].rules : r.id = c.rule BY <2>2 DEF AddPolicyEffect
  <2> QED BY <1>9, <2>3 DEF HoldsCalls
<1> DEFINE t == Append(s, c)
<1> HIDE DEF t, CallType
<1>12. /\ Orderly(apm, t) /\ Gains(s, t)
       /\ \A plan \in Seq(CallType), k \in Nat :
            k + 1 <= Len(plan) /\ plan[k + 1] = c /\ Past(plan, k, s) => Past(plan, k + 1, t)
  BY <1>3, <1>4, <1>5, <1>7, <1>10, <1>11, DueTaken DEF t
<1>13. built'[key] = t /\ t \in Seq(CallType) /\ \A pk \in PolicyKeys \ {key} : built'[pk] = built[pk]
  <2>1. built'[key] = Append(built[key], c) /\ built' \in [PolicyKeys -> Seq(CallType)]
        /\ \A pk \in PolicyKeys \ {key} : built'[pk] = built[pk]
    BY <1>1, <1>3, <1>6, <1>7, BuiltAppend
  <2> QED BY <1>2, <1>3, <2>1 DEF t
<1>14. /\ \A fn \in Adds : AllOf(fn, apm, s) => AllOf(fn, apm, t)
       /\ \A x : Due(x, apm, s) => Due(x, apm, t)
       /\ \A plan \in Seq(CallType), k \in Nat : k <= Len(plan) /\ Past(plan, k, s) => Past(plan, k, t)
       /\ \A plan : Followed(plan, apm, s) => Followed(plan, apm, t)
  BY <1>3, <1>12, <1>13, DueStays
<1>15. job'.apm = apm /\ Key' = key BY <1>2 DEF Key
<1>16. policies'[key].sealed => AllOf("add_policy_effect", apm, t)
  <2>1. CASE c.fn = "seal_policy" BY <1>5, <1>14, <2>1 DEF Due, Adds
  <2>2. CASE c.fn # "seal_policy"
    <3>1. policies'[key].sealed = policies[key].sealed BY <1>6, <1>7, <2>2 DEF Filled, Grows
    <3> QED BY <1>4, <1>14, <3>1 DEF Adds
  <2> QED BY <2>1, <2>2
<1>17. \A j \in DOMAIN txs' : Due(txs'[j].call, apm, t) BY <1>4, <1>7, <1>14
<1>18. DeploymentBuilt'
  <2>1. \A pk \in PolicyKeys \ {key} : built'[pk] = <<>> BY <1>4, <1>13
  <2> QED BY <1>12, <1>13, <1>15, <1>16, <1>17, <2>1 DEF DeploymentBuilt
<1>19. ASSUME NEW plan, NEW k, Writing(plan, k, p.todo)
       PROVE  /\ Writing(plan, k, p.todo)'
              /\ Waiting(plan, k, p.tx) => Waiting(plan, k, p.tx)'
  <2>1. /\ Followed(plan, apm, s) /\ k \in 0 .. Len(plan) - 1
        /\ p.todo = SubSeq(plan, k + 1, Len(plan)) /\ Past(plan, k, s)
    BY <1>2, <1>19 DEF Writing
  <2>2. plan \in Seq(CallType) /\ Len(plan) \in Nat BY <1>3, <2>1, FollowedIsDue
  <2>3. k \in Nat /\ k <= Len(plan) /\ k + 1 <= Len(plan) /\ k + 1 \in Nat BY <2>1, <2>2
  <2>4. Writing(plan, k, p.todo)' BY <1>13, <1>14, <1>15, <2>1, <2>2, <2>3 DEF Writing
  <2>5. ASSUME Waiting(plan, k, p.tx) PROVE Waiting(plan, k, p.tx)'
    <3>1. PICK tx : tx = p.tx OBVIOUS
    <3>2. /\ tx \in DOMAIN txs /\ txs[tx].call = plan[k + 1]
          /\ txs[tx].result = "FINISHED_WITH_RETURN" => Past(plan, k + 1, s)
      BY <1>2, <2>5, <3>1 DEF Waiting
    <3>3. txs'[tx].result = "FINISHED_WITH_RETURN" => Past(plan, k + 1, t)
      <4>1. CASE tx = i BY <1>2, <1>12, <2>1, <2>2, <2>3, <3>2, <4>1
      <4>2. CASE tx # i
        <5>1. txs'[tx] = txs[tx] BY <1>7, <3>2, <4>2
        <5> QED BY <1>14, <2>2, <2>3, <3>2, <5>1
      <4> QED BY <4>1, <4>2
    <3>4. tx \in DOMAIN txs' /\ txs'[tx].call = plan[k + 1] BY <1>7, <3>2
    <3> QED BY <1>13, <1>15, <3>1, <3>3, <3>4 DEF Waiting
  <2> QED BY <2>4, <2>5
<1>20. p.at = "lifecycle" => AllOf("add_policy_effect", job.apm, built[Key])'
  BY <1>2, <1>13, <1>14, <1>15 DEF ProcessOK, Adds
<1>21. ProcessOK(p)' BY <1>19, <1>20 DEF ProcessOK
<1> QED BY <1>18, <1>21

\* The network leaves the process alone.
LEMMA DeploymentNetwork ==
  ASSUME WritesInv, DeploymentOK, UNCHANGED <<job, process>>,
         Quiet \/ \E i \in DOMAIN txs : Taking(i)
  PROVE  DeploymentOK'
<1>1. DeploymentTypes /\ DeploymentBuilt /\ ProcessOK(process) BY DEF DeploymentOK
<1>2. DeploymentTypes' BY <1>1 DEF DeploymentTypes
<1>3. PICK p : p = process OBVIOUS
<1>4. ProcessOK(p) BY <1>1, <1>3
<1>5. DeploymentBuilt' /\ ProcessOK(p)'
  <2>1. CASE Quiet BY <1>1, <1>4, <2>1, DeploymentQuiet, ProcessQuiet
  <2>2. CASE \E i \in DOMAIN txs : Taking(i) BY <1>1, <1>4, <2>2, DeploymentTakes
  <2> QED BY <2>1, <2>2
<1>6. ProcessOK(process)'
  <2>1. p = process' BY <1>3
  <2> QED BY <1>5, <2>1 DEF ProcessOK
<1> QED BY <1>2, <1>5, <1>6 DEF DeploymentOK

\* A process that ends, or does not write, knows nothing that could be wrong.
LEMMA IdleProcess ==
  ASSUME NEW p, p.at \in {"stopped", "ended", "delay"} PROVE ProcessOK(p)
BY DEF ProcessOK

\* It may write any plan from the first call on.
LEMMA PlanWritten ==
  ASSUME WritesTypeOK, DeploymentTypes, NEW plan, Followed(plan, job.apm, built[Key]),
         NEW k \in 0 .. Len(plan) - 1, Past(plan, k, built[Key]),
         NEW p, p.todo = SubSeq(plan, k + 1, Len(plan)), p.at \in {"estimate", "write"}
  PROVE  ProcessOK(p)
<1>1. Writing(plan, k, p.todo) BY DEF Writing
<1> QED BY <1>1 DEF ProcessOK

\* What a process does that writes nothing.
LEMMA ProcessMoves ==
  ASSUME WritesTypeOK, DeploymentTypes, DeploymentBuilt, ProcessOK(process),
         job.script = "deployment",
         Estimate \/ Crash \/ ResumeStart \/ WaitReceipt \/ ReadSeal \/ AfterDelay
  PROVE  process' \in ProcessType /\ ProcessOK(process')
<1>1. PICK p, q, apm, key, s :
        p = process /\ q = process' /\ apm = job.apm /\ key = Key /\ s = built[key]
  OBVIOUS
<1>2. /\ apm \in Authors /\ key \in PolicyKeys /\ key = apm.policyId /\ s \in Seq(CallType)
      /\ Calls = CompiledCalls(apm)
  BY <1>1, DeploymentFacts
<1>3. p \in ProcessType /\ ProcessOK(p) /\ now \in Nat BY <1>1 DEF DeploymentTypes, WritesTypeOK
<1>4. Stopped \in ProcessType /\ Stopped.at = "stopped" BY DEF Stopped, ProcessType, NoTx
<1> HIDE DEF CallType
<1>5. ASSUME NEW at \in {"stopped", "ended", "estimate", "write", "wait", "lifecycle", "delay"}
      PROVE  /\ [p EXCEPT !.at = at] \in ProcessType /\ [p EXCEPT !.at = at].at = at
             /\ [p EXCEPT !.at = at].todo = p.todo
  BY <1>3 DEF ProcessType
<1>7. CASE Estimate
  <2>1. p.at = "estimate" /\ (q = [p EXCEPT !.at = "write"] \/ q = Stopped)
    BY <1>1, <1>7 DEF Estimate, Go, Stop
  <2>2. CASE q = Stopped BY <1>1, <1>4, <2>2, IdleProcess
  <2>3. CASE q = [p EXCEPT !.at = "write"]
    <3>1. q \in ProcessType /\ q.at = "write" /\ q.todo = p.todo BY <1>5, <2>3
    <3>2. PICK plan, k : Writing(plan, k, p.todo) BY <1>3, <2>1 DEF ProcessOK
    <3>3. ProcessOK(q) BY <3>1, <3>2 DEF ProcessOK
    <3> QED BY <1>1, <3>1, <3>3
  <2> QED BY <2>1, <2>2, <2>3
<1>8. CASE Crash
  <2>1. q = Stopped BY <1>1, <1>8 DEF Crash, Stop
  <2> QED BY <1>1, <1>4, <2>1, IdleProcess
<1>9. CASE ResumeStart
  <2>1. PICK plan, n :
          plan = Planned("add_policy_effect", apm) /\ n = Len(Named("add_policy_effect", s))
    OBVIOUS
  <2>2. /\ plan \in Seq(CallType)
        /\ \A k \in 0 .. Len(plan) : Past(plan, k, s) <=> k <= Len(Named("add_policy_effect", s))
    BY <1>2, <2>1, EffectsDue
  <2>3. n \in Nat BY <1>2, <2>1, CountIsNat
  <2>4. n <= Len(plan) BY <1>1, <2>1 DEF DeploymentBuilt, Orderly, Adds, Begins
  <2>5. PICK rest : rest = SubSeq(plan, n + 1, Len(plan)) OBVIOUS
  <2>6. MissingEffects = rest BY <1>1, <1>2, <2>1, <2>5 DEF MissingEffects, Planned
  <2>7. Len(plan) \in Nat /\ n \in 0 .. Len(plan) BY <2>2, <2>3, <2>4
  <2>8. rest \in Seq(CallType) /\ (rest = <<>> <=> n = Len(plan)) BY <2>2, <2>5, <2>7, LaterCalls
  <2>9. q = [Stopped EXCEPT !.todo = rest,
               !.at = IF rest = <<>> THEN "lifecycle" ELSE "estimate"]
    BY <1>1, <1>9, <2>6 DEF ResumeStart
  <2>10. CASE rest = <<>>
    <3>1. q \in ProcessType /\ q.at = "lifecycle"
      <4>1. q = [Stopped EXCEPT !.todo = rest, !.at = "lifecycle"] BY <2>9, <2>10
      <4> QED BY <1>4, <2>8, <4>1 DEF ProcessType
    <3>2. AllOf("add_policy_effect", apm, s) BY <2>1, <2>7, <2>8, <2>10 DEF AllOf
    <3>3. ProcessOK(q) BY <1>1, <3>1, <3>2 DEF ProcessOK
    <3> QED BY <1>1, <3>1, <3>3
  <2>11. CASE rest # <<>>
    <3>1. q \in ProcessType /\ q.at = "estimate" /\ q.todo = rest
      <4>1. q = [Stopped EXCEPT !.todo = rest, !.at = "estimate"] BY <2>9, <2>11
      <4> QED BY <1>4, <2>8, <4>1 DEF ProcessType
    <3>2. n \in 0 .. Len(plan) - 1 BY <2>7, <2>8, <2>11
    <3>3. Past(plan, n, s) BY <2>1, <2>2, <2>3, <2>7
    <3>4. Followed(plan, apm, s) BY <2>1 DEF Followed
    <3>5. ProcessOK(q) BY <1>1, <2>5, <3>1, <3>2, <3>3, <3>4, PlanWritten
    <3> QED BY <1>1, <3>1, <3>5
  <2> QED BY <2>10, <2>11
<1>10. CASE WaitReceipt
  <2>1. CASE ~Succeeded(p.tx)
    <3>1. q = Stopped BY <1>1, <1>10, <2>1 DEF WaitReceipt, Stop
    <3> QED BY <1>1, <1>4, <3>1, IdleProcess
  <2>2. CASE Succeeded(p.tx)
    <3>1. PICK todo, tail, place : todo = p.todo /\ tail = Tail(p.todo) /\ place = AfterLast(Head(p.todo).fn)
      OBVIOUS
    <3>2. /\ p.at = "wait"
          /\ q = [p EXCEPT !.todo = tail, !.since = now,
                    !.at = IF tail # <<>> THEN "estimate" ELSE place]
      BY <1>1, <1>10, <2>2, <3>1 DEF WaitReceipt, At, Call
    <3>3. PICK plan, k : Writing(plan, k, todo) /\ Waiting(plan, k, p.tx)
      BY <1>3, <3>1, <3>2 DEF ProcessOK
    <3>4. /\ Followed(plan, apm, s) /\ k \in 0 .. Len(plan) - 1
          /\ todo = SubSeq(plan, k + 1, Len(plan))
      BY <1>1, <3>3 DEF Writing
    <3>5. Past(plan, k + 1, s) BY <1>1, <2>2, <3>3 DEF Waiting, Succeeded
    <3>6. /\ plan \in Seq(CallType) /\ Len(plan) \in Nat
          /\ plan # <<>> /\ plan[Len(plan)].fn \notin {"seal_policy", "activate_policy"}
               /\ Past(plan, Len(plan), s)
               => AllOf("add_policy_effect", apm, s)
      BY <1>2, <3>4, FollowedIsDue
    <3>7. k \in 0 .. Len(plan) /\ k < Len(plan) /\ k + 1 \in 0 .. Len(plan) /\ k \in Nat BY <3>4, <3>6
    <3>8. Head(todo) = plan[k + 1] /\ tail = SubSeq(plan, k + 1 + 1, Len(plan))
      BY <3>1, <3>4, <3>6, <3>7, LaterCalls
    <3>9. tail \in Seq(CallType) /\ (tail = <<>> <=> k + 1 = Len(plan))
      BY <3>6, <3>7, <3>8, LaterCalls
    <3>10. ASSUME NEW at \in {"stopped", "ended", "estimate", "write", "wait", "lifecycle", "delay"}
           PROVE  LET n == [p EXCEPT !.todo = tail, !.since = now, !.at = at] IN
                  n \in ProcessType /\ n.at = at /\ n.todo = tail
      BY <1>3, <3>9 DEF ProcessType
    <3>11. CASE tail # <<>>
      <4>1. q \in ProcessType /\ q.at = "estimate" /\ q.todo = tail BY <3>2, <3>10, <3>11
      <4>2. k + 1 \in 0 .. Len(plan) - 1 BY <3>6, <3>7, <3>9, <3>11
      <4>3. ProcessOK(q) BY <1>1, <3>4, <3>5, <3>8, <4>1, <4>2, PlanWritten
      <4> QED BY <1>1, <4>1, <4>3
    <3>12. CASE tail = <<>>
      <4>1. place \in {"delay", "ended", "lifecycle"} BY <3>1 DEF AfterLast
      <4>2. q \in ProcessType /\ q.at = place BY <3>2, <3>10, <3>12, <4>1
      <4>3. CASE place = "lifecycle"
        <5>1. Head(todo).fn \notin {"seal_policy", "activate_policy"} BY <3>1, <4>3 DEF AfterLast
        <5>2. k + 1 = Len(plan) /\ plan # <<>> BY <3>6, <3>7, <3>9, <3>12
        <5>3. AllOf("add_policy_effect", apm, s) BY <3>5, <3>6, <3>8, <5>1, <5>2
        <5>4. ProcessOK(q) BY <1>1, <4>2, <4>3, <5>3 DEF ProcessOK
        <5> QED BY <1>1, <4>2, <5>4
      <4>4. CASE place # "lifecycle" BY <1>1, <4>1, <4>2, <4>4, IdleProcess
      <4> QED BY <4>3, <4>4
    <3> QED BY <3>11, <3>12
  <2> QED BY <2>1, <2>2
\* A single call as a plan.
<1>11. ASSUME NEW c \in CallType, NEW r \in ProcessType, Followed(<<c>>, apm, s),
              q = [r EXCEPT !.todo = <<c>>, !.at = "estimate"]
       PROVE  q \in ProcessType /\ ProcessOK(q)
  <2>1. PICK plan : plan = <<c>> OBVIOUS
  <2>2. plan \in Seq(CallType) /\ Len(plan) = 1 /\ SubSeq(plan, 0 + 1, Len(plan)) = plan
    <3>1. plan \in Seq(CallType) /\ Len(plan) = 1 BY <1>11, <2>1
    <3>2. SubSeq(plan, 0 + 1, Len(plan)) = plan BY <3>1
    <3> QED BY <3>1, <3>2
  <2>3. q \in ProcessType /\ q.at = "estimate" /\ q.todo = plan
    <3>1. q = [r EXCEPT !.todo = plan, !.at = "estimate"] BY <1>11, <2>1
    <3> QED BY <1>11, <2>2, <3>1 DEF ProcessType
  <2>4. 0 \in 0 .. Len(plan) - 1 BY <2>2
  <2>5. Past(plan, 0, s) BY <1>2, <2>2, PastNothing
  <2>6. ProcessOK(q) BY <1>1, <1>11, <2>1, <2>2, <2>3, <2>4, <2>5, PlanWritten
  <2> QED BY <2>3, <2>6
<1>12. CASE ReadSeal
  <2>1. /\ p.at = "lifecycle"
        /\ q = IF policies[key].sealed THEN [p EXCEPT !.since = now, !.at = "delay"]
               ELSE [p EXCEPT !.todo = <<SealCall(key)>>, !.at = "estimate"]
    BY <1>1, <1>12 DEF ReadSeal, At
  <2>2. CASE q = [p EXCEPT !.since = now, !.at = "delay"]
    <3>1. q \in ProcessType /\ q.at = "delay" BY <1>3, <2>2 DEF ProcessType
    <3> QED BY <1>1, <3>1, IdleProcess
  <2>3. CASE q = [p EXCEPT !.todo = <<SealCall(key)>>, !.at = "estimate"]
    <3>1. SealCall(key) \in CallType BY <1>2 DEF CallType, SealCall
    <3>2. Followed(<<SealCall(key)>>, apm, s) BY <1>1, <1>2, <1>3, <2>1 DEF ProcessOK, Followed
    <3> QED BY <1>1, <1>3, <1>11, <2>3, <3>1, <3>2
  <2> QED BY <2>1, <2>2, <2>3
<1>13. CASE AfterDelay
  <2>1. q = IF policies[key].active THEN [p EXCEPT !.at = "ended"]
            ELSE [p EXCEPT !.todo = <<ActivateCall(key)>>, !.at = "estimate"]
    BY <1>1, <1>13 DEF AfterDelay
  <2>2. CASE q = [p EXCEPT !.at = "ended"]
    <3>1. q \in ProcessType /\ q.at = "ended" BY <1>5, <2>2
    <3> QED BY <1>1, <3>1, IdleProcess
  <2>3. CASE q = [p EXCEPT !.todo = <<ActivateCall(key)>>, !.at = "estimate"]
    <3>1. ActivateCall(key) \in CallType BY <1>2 DEF CallType, ActivateCall
    <3>2. Followed(<<ActivateCall(key)>>, apm, s) BY <1>2 DEF Followed
    <3> QED BY <1>1, <1>3, <1>11, <2>3, <3>1, <3>2
  <2> QED BY <2>1, <2>2, <2>3
<1> QED BY <1>7, <1>8, <1>9, <1>10, <1>12, <1>13

\* A process sends the next call of its plan, which is due.
LEMMA DeploymentWrites ==
  ASSUME WritesInv, DeploymentOK, job.script = "deployment", Write
  PROVE  /\ DeploymentOK'
         /\ \E call \in CallType : Sending(call, Owner)
<1>1. WritesTypeOK /\ DeploymentTypes /\ DeploymentBuilt /\ ProcessOK(process)
  BY DEF WritesInv, DeploymentOK
<1>2. PICK p, q, apm, key, s, n :
        /\ p = process /\ q = process' /\ apm = job.apm /\ key = Key /\ s = built[key]
        /\ n = Len(txs) + 1
  OBVIOUS
<1>3. apm \in Authors /\ key \in PolicyKeys /\ s \in Seq(CallType) BY <1>1, <1>2, DeploymentFacts
<1>4. /\ p.at = "write" /\ Submit(Call, Owner) /\ q = [p EXCEPT !.tx = n, !.at = "wait"]
      /\ UNCHANGED <<policies, now, built, job>>
  BY <1>2 DEF Write, policyVars
<1>5. p \in ProcessType /\ ProcessOK(p) BY <1>1, <1>2 DEF DeploymentTypes
<1>6. PICK plan, k : Writing(plan, k, p.todo) BY <1>4, <1>5 DEF ProcessOK
<1>7. /\ Followed(plan, apm, s) /\ k \in 0 .. Len(plan) - 1
      /\ p.todo = SubSeq(plan, k + 1, Len(plan)) /\ Past(plan, k, s)
  BY <1>2, <1>6 DEF Writing
<1>8. plan \in Seq(CallType) /\ Len(plan) \in Nat /\ Due(plan[k + 1], apm, s)
  BY <1>3, <1>7, FollowedIsDue
<1>9. PICK c : c = plan[k + 1] OBVIOUS
<1>10. k \in 0 .. Len(plan) /\ k < Len(plan) BY <1>7, <1>8
<1>11. Call = c BY <1>2, <1>7, <1>8, <1>9, <1>10, LaterCalls DEF Call
<1>12. Due(c, apm, s) /\ c \in CallType BY <1>8, <1>9 DEF Due
<1>13. Owner \in Accounts BY WritesAssumption
<1>14. Sending(c, Owner) BY <1>4, <1>11 DEF Submit, Sending
<1> HIDE DEF CallType
<1>15. /\ DOMAIN txs' = 1 .. n /\ DOMAIN txs = 1 .. Len(txs) /\ Len(txs) \in Nat
       /\ \A i \in DOMAIN txs : txs'[i] = txs[i]
       /\ txs'[n].call = c /\ txs'[n].result = "NONE"
  BY <1>1, <1>2, <1>12, <1>13, <1>14, SendingAppends
<1>16. q \in ProcessType /\ q.at = "wait" /\ q.todo = p.todo /\ q.tx = n
  <2>1. n \in Nat BY <1>2, <1>15
  <2> QED BY <1>4, <1>5, <2>1 DEF ProcessType
<1>17. UNCHANGED <<Key, job, built, policies>> BY <1>4 DEF Key
<1>18. DeploymentTypes' BY <1>1, <1>2, <1>16, <1>17 DEF DeploymentTypes
<1>19. \A i \in DOMAIN txs' : Due(txs'[i].call, apm, s)
  <2> SUFFICES ASSUME NEW i \in DOMAIN txs' PROVE Due(txs'[i].call, apm, s) OBVIOUS
  <2>1. CASE i = n BY <1>12, <1>15, <2>1
  <2>2. CASE i # n
    <3>1. i \in DOMAIN txs BY <1>2, <1>15, <2>2
    <3>2. Due(txs[i].call, apm, s) BY <1>1, <1>2, <3>1 DEF DeploymentBuilt
    <3> QED BY <1>15, <3>1, <3>2
  <2> QED BY <2>1, <2>2
<1>20. DeploymentBuilt' BY <1>1, <1>2, <1>17, <1>19 DEF DeploymentBuilt
<1>21. Writing(plan, k, q.todo)' BY <1>2, <1>7, <1>16, <1>17 DEF Writing
<1>22. Waiting(plan, k, q.tx)'
  <2>1. n \in DOMAIN txs' BY <1>2, <1>15
  <2> QED BY <1>9, <1>15, <1>16, <2>1 DEF Waiting
<1>23. ProcessOK(q)' BY <1>16, <1>21, <1>22 DEF ProcessOK
<1>24. ProcessOK(process)' BY <1>2, <1>23 DEF ProcessOK
<1> QED BY <1>12, <1>14, <1>18, <1>20, <1>24 DEF DeploymentOK

\* The first script starts with the whole plan.
LEMMA DeploymentInit ==
  ASSUME WritesInit, ScriptsInit, job.script = "deployment", job.apm \in Manifests,
         job.calls = CompiledCalls(job.apm)
  PROVE  DeploymentOK
<1>1. WritesTypeOK BY WritesStart DEF WritesInv
<1>2. PICK p, apm, key, plan : p = process /\ apm = job.apm /\ key = Key /\ plan = CompiledCalls(apm)
  OBVIOUS
<1>3. apm \in Authors BY <1>2 DEF Authors
<1>4. key \in PolicyKeys /\ Key = key BY <1>2, <1>3, AuthorsCompile DEF ApmType, Key
<1>5. plan \in Seq(CallType) /\ Len(plan) >= 2 BY <1>2, <1>3, PlanFacts
<1>6. built[key] = <<>> /\ txs = <<>> /\ ~policies[key].sealed
      /\ \A pk \in PolicyKeys : built[pk] = <<>>
  BY <1>4 DEF WritesInit, NotBegun
<1> HIDE DEF CallType
<1>7. p = [Stopped EXCEPT !.at = "estimate", !.todo = plan] BY <1>2 DEF ScriptsInit, Calls
<1>8. p \in ProcessType /\ p.at = "estimate" /\ p.todo = plan
  BY <1>5, <1>7 DEF Stopped, ProcessType, NoTx
<1>9. DeploymentTypes BY <1>2, <1>8 DEF DeploymentTypes
<1>10. Orderly(apm, <<>>)
  <2>1. \A fn \in Adds : Begins(Named(fn, <<>>), Planned(fn, apm))
    <3> SUFFICES ASSUME NEW fn \in Adds PROVE Begins(Named(fn, <<>>), Planned(fn, apm)) OBVIOUS
    <3>1. Named(fn, <<>>) = <<>> BY NamedEmpty
    <3>2. Len(Planned(fn, apm)) \in Nat BY <1>3, PlannedIsNat
    <3>3. Len(<<>>) = 0 OBVIOUS
    <3> QED BY <3>1, <3>2, <3>3 DEF Begins
  <2>2. Named("add_policy_rule", <<>>) = <<>> BY NamedEmpty
  <2>3. Len(<<>>) = 0 /\ ToSet(<<>>) = {} BY DEF ToSet
  <2> QED BY <2>1, <2>2, <2>3 DEF Orderly
<1>11. DeploymentBuilt BY <1>2, <1>4, <1>6, <1>10 DEF DeploymentBuilt
<1>12. ProcessOK(p)
  <2>1. SubSeq(plan, 0 + 1, Len(plan)) = plan BY <1>5
  <2>2. 0 \in 0 .. Len(plan) - 1 BY <1>5
  <2>3. <<>> \in Seq(CallType) OBVIOUS
  <2>4. Past(plan, 0, built[Key]) BY <1>4, <1>5, <1>6, <2>3, PastNothing
  <2>5. Followed(plan, job.apm, built[Key]) BY <1>2 DEF Followed
  <2> QED BY <1>1, <1>8, <1>9, <2>1, <2>2, <2>4, <2>5, PlanWritten
<1> QED BY <1>2, <1>9, <1>11, <1>12 DEF DeploymentOK

\* What a process of the deployment's scripts does.
LEMMA DeploymentSteps ==
  ASSUME WritesInv, DeploymentOK, job.script = "deployment", ScriptsNext
  PROVE  WritesInv' /\ DeploymentOK'
<1>1. WritesTypeOK /\ DeploymentTypes /\ DeploymentBuilt /\ ProcessOK(process)
  BY DEF WritesInv, DeploymentOK
<1>2. ASSUME process' \in ProcessType, ProcessOK(process'),
             UNCHANGED <<policies, built, txs, job>>, now' \in Nat
      PROVE  WritesInv' /\ DeploymentOK'
  <2>1. Quiet BY <1>1, <1>2, PageIsQuiet
  <2>2. PICK q : q = process' OBVIOUS
  <2>3. ProcessOK(q) /\ job' = job BY <1>2, <2>2
  <2>4. ProcessOK(q)' BY <2>1, <2>3, ProcessQuiet
  <2>5. ProcessOK(process)' BY <2>2, <2>4 DEF ProcessOK
  <2>6. DeploymentTypes' BY <1>1, <1>2 DEF DeploymentTypes
  <2>7. DeploymentBuilt' BY <1>1, <2>1, <2>3, DeploymentQuiet
  <2>8. WritesInv' BY <2>1, QuietKeeps
  <2> QED BY <2>5, <2>6, <2>7, <2>8 DEF DeploymentOK
<1>3. CASE Estimate \/ Crash \/ ResumeStart \/ WaitReceipt \/ ReadSeal \/ AfterDelay
  <2>1. UNCHANGED <<policies, built, txs, job, now>>
    BY <1>3 DEF Estimate, Crash, ResumeStart, WaitReceipt, ReadSeal, AfterDelay, policyVars
  <2>2. process' \in ProcessType /\ ProcessOK(process') BY <1>1, <1>3, ProcessMoves
  <2>3. now' \in Nat BY <1>1, <2>1, TypedNow
  <2> QED BY <1>2, <2>1, <2>2, <2>3
<1>4. CASE TickInDelay
  <2>1. UNCHANGED <<policies, built, txs, job, process>> /\ now' = now + 1
    BY <1>4 DEF TickInDelay, Tick
  <2>2. now' \in Nat BY <1>1, <2>1, TypedNow
  <2>3. process' \in ProcessType BY <1>1, <2>1 DEF DeploymentTypes
  <2>4. PICK p : p = process OBVIOUS
  <2>5. ProcessOK(p) /\ process' = p BY <1>1, <2>1, <2>4
  <2>6. ProcessOK(process') BY <2>5
  <2> QED BY <1>2, <2>1, <2>2, <2>3, <2>6
<1>5. CASE Write
  <2>1. DeploymentOK' /\ \E call \in CallType : Sending(call, Owner) BY <1>5, DeploymentWrites
  <2>2. Owner \in Accounts BY WritesAssumption
  <2>3. WritesInv' BY <2>1, <2>2, SendingKeeps
  <2> QED BY <2>1, <2>3
<1>6. CASE StudioStart \/ SavePending \/ WaitFinalized \/ Record
  BY <1>6 DEF StudioStart, SavePending, WaitFinalized, Record, At
<1> QED BY <1>3, <1>4, <1>5, <1>6 DEF ScriptsNext, ScriptStep

\* A sealed policy has all effects, and so all that its manifest says.
LEMMA DeploymentIsCommitted ==
  ASSUME WritesInv, DeploymentOK, LastRuleHasEffect(job.apm) PROVE SealedAsCommitted
<1> SUFFICES ASSUME NEW pk \in PolicyKeys, policies[pk].sealed
             PROVE  Verified(built[pk], TRUE, built[pk][1].hash)
  BY DEF SealedAsCommitted
<1>1. built[pk] # <<>> BY DEF WritesInv, ContentsOK, HoldsCalls, ToSet
<1>2. pk = Key BY <1>1 DEF DeploymentOK, DeploymentBuilt
<1>3. PICK apm, s : apm = job.apm /\ s = built[pk] OBVIOUS
<1>4. apm \in Authors /\ s \in Seq(CallType)
  BY <1>2, <1>3, DeploymentFacts DEF WritesInv, DeploymentOK
<1>5. Orderly(apm, s) /\ AllOf("add_policy_effect", apm, s) /\ s # <<>>
  BY <1>1, <1>2, <1>3 DEF DeploymentOK, DeploymentBuilt
<1>6. Verified(s, TRUE, apm) BY <1>3, <1>4, <1>5, OrderlyIsWhole
<1>7. s[1].hash = apm BY <1>5 DEF Orderly, BeginCall
<1> QED BY <1>3, <1>6, <1>7

-----------------------------------------------------------------------------
(* The invariant *)

ConstructionInv ==
  /\ job.script \in Ways
  /\ job.script = "studio" => WritesInv /\ LineInv /\ StudioOK
  /\ job.script = "deployment" => WritesInv /\ DeploymentOK
  /\ job.script = "browser" =>
       process.at = "stopped" /\ (Patient => WritesInv /\ LineInv /\ BrowserOK)
  /\ job.script # "browser" => journeys = <<>>

\* The invariant holds at first
LEMMA ConstructionStarts ==
  ASSUME ConstructionInit PROVE ConstructionInv
<1>1. WritesInit /\ ScriptsInit /\ PageInit BY DEF ConstructionInit
<1>2. WritesInv /\ LineInv BY <1>1, WritesStart
<1>3. BrowserOK /\ journeys = <<>> BY <1>1, PageStart DEF PageInit
<1>4. ASSUME job.script = "studio" PROVE StudioOK
  <2>1. PICK script \in Ways \ {"browser"}, apm \in Manifests :
          job = [script |-> script, apm |-> apm, calls |-> CompiledCalls(apm)]
    BY <1>4 DEF ConstructionInit
  <2>2. job.apm \in Manifests /\ job.calls = CompiledCalls(job.apm) BY <2>1
  <2> QED BY <1>1, <1>4, <2>2, StudioInit
<1>5. job.script = "browser" => process.at = "stopped"
  BY <1>1 DEF ScriptsInit, Stopped
<1>6. job.script \in Ways BY DEF ConstructionInit
<1>7. ASSUME job.script = "deployment" PROVE DeploymentOK
  <2>1. PICK script \in Ways \ {"browser"}, apm \in Manifests :
          job = [script |-> script, apm |-> apm, calls |-> CompiledCalls(apm)]
    BY <1>7 DEF ConstructionInit
  <2>2. job.apm \in Manifests /\ job.calls = CompiledCalls(job.apm) BY <2>1
  <2> QED BY <1>1, <1>7, <2>2, DeploymentInit
<1> QED BY <1>2, <1>3, <1>4, <1>5, <1>6, <1>7 DEF ConstructionInv

\* and every step of script, page or network keeps it.
LEMMA ConstructionGoesOn ==
  ASSUME ConstructionInv, [ConstructionNext]_constructionVars
  PROVE  ConstructionInv'
<1>1. job' = job
  <2>1. CASE ScriptsNext
    BY <2>1 DEF ScriptsNext, ScriptStep, Estimate, Write, StudioStart, SavePending, WaitFinalized,
                Record, ResumeStart, WaitReceipt, ReadSeal, AfterDelay, Crash, TickInDelay
  <2>2. CASE UNCHANGED job BY <2>2
  <2> QED BY <2>1, <2>2 DEF ConstructionNext, constructionVars, scriptsVars
<1>2. CASE job.script = "studio"
  <2>1. /\ WritesInv /\ LineInv /\ StudioOK /\ journeys = <<>>
    BY <1>2 DEF ConstructionInv
  <2>2. CASE ScriptsNext /\ UNCHANGED <<journeys, page, interruptions>>
    <3>1. WritesInv' /\ LineInv' /\ StudioOK' BY <1>2, <2>1, <2>2, StudioSteps
    <3> QED BY <1>1, <1>2, <2>1, <2>2, <3>1 DEF ConstructionInv
  <2>3. CASE NetworkStep /\ UNCHANGED <<job, process, file, crashes, journeys, page, interruptions>>
    <3>1. Quiet \/ \E i \in DOMAIN txs : Taking(i) BY <2>1, <2>3, NetworkCases DEF WritesInv
    <3>2. WritesInv' /\ LineInv' BY <2>1, <3>1, KernelKeeps
    <3>3. StudioOK' BY <2>1, <2>3, <3>1, StudioNetwork
    <3> QED BY <1>1, <1>2, <2>1, <2>3, <3>2, <3>3 DEF ConstructionInv
  <2>4. CASE UNCHANGED constructionVars
    <3>1. UNCHANGED <<policies, built, txs, now, job, process, file, journeys>>
      BY <2>4 DEF constructionVars, scriptsVars, writesVars, policyVars
    <3>2. Quiet BY <2>1, <3>1, PageIsQuiet, TypedNow DEF WritesInv
    <3>3. WritesInv' /\ LineInv' BY <2>1, <3>2, KernelKeeps
    <3>4. StudioOK' BY <2>1, <3>1, <3>2, StudioNetwork
    <3> QED BY <1>1, <1>2, <2>1, <3>1, <3>3, <3>4 DEF ConstructionInv
  <2>5. job.script # "browser" BY <1>2
  <2> QED BY <2>2, <2>3, <2>4, <2>5 DEF ConstructionNext
<1>3. CASE job.script = "browser"
  <2>1. process.at = "stopped" BY <1>3 DEF ConstructionInv
  <2>2. ~ScriptsNext
    BY <1>3, <2>1 DEF ScriptsNext, ScriptStep, Estimate, Write, StudioStart, SavePending,
                      WaitFinalized, Record, ResumeStart, WaitReceipt, ReadSeal, AfterDelay,
                      Crash, TickInDelay, At
  <2>3. process' = process
    BY <2>2 DEF ConstructionNext, constructionVars, scriptsVars
  <2>4. ASSUME Patient PROVE WritesInv' /\ LineInv' /\ BrowserOK'
    <3>1. WritesInv /\ LineInv /\ BrowserOK BY <1>3, <2>4 DEF ConstructionInv
    <3>2. CASE JourneyNext BY <2>4, <3>1, <3>2, BrowserSteps
    <3>3. CASE NetworkStep /\ UNCHANGED <<journeys, page>>
      <4>1. Quiet \/ \E i \in DOMAIN txs : Taking(i) BY <3>1, <3>3, NetworkCases DEF WritesInv
      <4>2. WritesInv' /\ LineInv' BY <3>1, <4>1, KernelKeeps
      <4>3. BrowserOK' BY <3>1, <3>3, <4>1, BrowserNetwork
      <4> QED BY <4>2, <4>3
    <3>4. CASE UNCHANGED constructionVars
      <4>1. UNCHANGED <<policies, built, txs, now, journeys, page>>
        BY <3>4 DEF constructionVars, scriptsVars, writesVars, policyVars
      <4>2. Quiet BY <3>1, <4>1, PageIsQuiet, TypedNow DEF WritesInv
      <4>3. WritesInv' /\ LineInv' BY <3>1, <4>2, KernelKeeps
      <4>4. BrowserOK' BY <3>1, <4>1, <4>2, BrowserNetwork
      <4> QED BY <4>3, <4>4
    <3> QED BY <2>2, <3>2, <3>3, <3>4 DEF ConstructionNext
  <2> QED BY <1>1, <1>3, <2>1, <2>3, <2>4 DEF ConstructionInv
<1>4. CASE job.script = "deployment"
  <2>1. WritesInv /\ DeploymentOK /\ journeys = <<>> BY <1>4 DEF ConstructionInv
  <2>2. CASE ScriptsNext /\ UNCHANGED <<journeys, page, interruptions>>
    <3>1. WritesInv' /\ DeploymentOK' BY <1>4, <2>1, <2>2, DeploymentSteps
    <3> QED BY <1>1, <1>4, <2>1, <2>2, <3>1 DEF ConstructionInv
  <2>3. ASSUME Quiet \/ \E i \in DOMAIN txs : Taking(i), UNCHANGED <<process, journeys>>
        PROVE  ConstructionInv'
    <3>1. WritesInv' BY <2>1, <2>3, QuietKeeps, TakingKeeps
    <3>2. DeploymentOK' BY <1>1, <2>1, <2>3, DeploymentNetwork
    <3> QED BY <1>1, <1>4, <2>1, <2>3, <3>1, <3>2 DEF ConstructionInv
  <2>4. CASE NetworkStep /\ UNCHANGED <<job, process, file, crashes, journeys, page, interruptions>>
    BY <2>1, <2>3, <2>4, NetworkCases DEF WritesInv
  <2>5. CASE UNCHANGED constructionVars
    <3>1. UNCHANGED <<policies, built, txs, now, process, journeys>>
      BY <2>5 DEF constructionVars, scriptsVars, writesVars, policyVars
    <3>2. Quiet BY <2>1, <3>1, PageIsQuiet, TypedNow DEF WritesInv
    <3> QED BY <2>3, <3>1, <3>2
  <2>6. job.script # "browser" BY <1>4
  <2> QED BY <2>2, <2>4, <2>5, <2>6 DEF ConstructionNext
<1>5. CASE job.script \notin {"studio", "browser", "deployment"}
  <2>1. journeys = <<>> BY <1>5 DEF ConstructionInv
  <2>2. journeys' = journeys BY <1>5 DEF ConstructionNext, constructionVars
  <2>3. job.script \in Ways BY DEF ConstructionInv
  <2> QED BY <1>1, <1>5, <2>1, <2>2, <2>3 DEF ConstructionInv
<1> QED BY <1>2, <1>3, <1>4, <1>5

-----------------------------------------------------------------------------
(* What holds in every state *)

\* A plan whose seal is confirmed is finished, and a finished plan verifies.
LEMMA SealIsConfirmed ==
  ASSUME Patient, ConstructionInv PROVE SealConfirmedIsThePlan
<1> SUFFICES ASSUME NEW x \in DOMAIN journeys,
                    \/ journeys[x].sealConfirmed \/ journeys[x].activationBuilt
                    \/ page.panel.shows \in {"wait", "activate"} /\ page.panel.plan = x
             PROVE  Verified(built[journeys[x].apm.policyId], TRUE, journeys[x].apm)
  BY DEF SealConfirmedIsThePlan
<1>1. WritesInv /\ LineInv /\ BrowserOK
  <2>1. job.script = "browser"
    <3>1. journeys # <<>> OBVIOUS
    <3> QED BY <3>1 DEF ConstructionInv
  <2> QED BY <2>1 DEF ConstructionInv
<1>2. PICK js, p : js = journeys /\ p = page OBVIOUS
<1>3. JourneysOK(js) /\ SealsOK(p, js) /\ x \in DOMAIN js BY <1>1, <1>2 DEF BrowserOK, PageOK
<1> DEFINE j == js[x]
           pk == j.apm.policyId
           s == built[pk]
           n == Len(CompiledCalls(j.apm))
<1>4. /\ j.apm \in Authors /\ j.calls = CompiledCalls(j.apm) /\ pk \in PolicyKeys
      /\ Reached(j.apm, j.index) /\ (j.sealConfirmed \/ j.activationBuilt => Finished(j))
  BY <1>3, JourneyFacts
<1>5. p.panel.shows \in {"wait", "activate"} /\ p.panel.plan = x => Finished(j)
  BY <1>3 DEF SealsOK
<1>6. Finished(j) BY <1>2, <1>4, <1>5
<1>7. j.index = n /\ n >= 2 BY <1>4, <1>6, PlanFacts DEF Finished
<1>8. s # <<>> /\ s[1] = BeginCall(j.apm) /\ n <= Len(s)
  BY <1>4, <1>7 DEF Reached
<1>9. PICK a : LineAt(pk, a) BY <1>1, <1>4, <1>8 DEF LineInv, LineOK, LineAt
<1>10. a = j.apm BY <1>8, <1>9 DEF LineAt, BeginCall
<1>11. Len(s) >= n
  <2>1. s \in Seq(CallType) BY <1>1, <1>4 DEF WritesInv, WritesTypeOK
  <2>2. CompiledCalls(j.apm) \in Seq(CallType) BY <1>4, PlanFacts
  <2> HIDE DEF s, j, CallType
  <2> QED BY <1>8, <2>1, <2>2
<1>12. Verified(s, TRUE, j.apm)
  BY <1>1, <1>4, <1>9, <1>10, <1>11, LongLineVerifies DEF WritesInv
<1>13. journeys[x] = j BY <1>2
<1> HIDE DEF j
<1> QED BY <1>12, <1>13

\* A sealed policy has had its whole plan.
LEMMA SealedIsCommitted ==
  ASSUME WritesInv, LineInv PROVE SealedAsCommitted
<1> SUFFICES ASSUME NEW pk \in PolicyKeys, policies[pk].sealed
             PROVE  Verified(built[pk], TRUE, built[pk][1].hash)
  BY DEF SealedAsCommitted
<1>1. built[pk] # <<>> BY DEF WritesInv, ContentsOK, HoldsCalls, ToSet
<1>2. PICK apm : LineAt(pk, apm) BY <1>1 DEF LineInv, LineOK, LineAt
<1>3. Len(built[pk]) >= Len(CompiledCalls(apm)) BY <1>2, SealedIsLong
<1>4. Verified(built[pk], TRUE, apm) BY <1>2, <1>3, LongLineVerifies DEF WritesInv
<1>5. built[pk][1].hash = apm BY <1>2 DEF LineAt, BeginCall
<1> QED BY <1>4, <1>5

\* What the proofs below rest on holds in every state: what the kernel holds of a policy
\* is what the calls that took effect added, in its plan's order and each once; the
\* studio script's file and process, and the page, are no further than the kernel; what the
\* deployment's scripts built is in order function by function, no rule before all resources.
THEOREM ConstructionInvariant == ConstructionSpec => []ConstructionInv
<1>1. ConstructionInit => ConstructionInv BY ConstructionStarts
<1>2. ConstructionInv /\ [ConstructionNext]_constructionVars => ConstructionInv'
  BY ConstructionGoesOn
<1> QED BY <1>1, <1>2, PTL DEF ConstructionSpec

\* What the studio script has recorded is on chain, in the plan's order, and the chain is
\* at most one call ahead: also after crashes between a submission and its id's capture,
\* and with a call sent again whose id was lost (studio-dev-policy-construct.mjs).
THEOREM RecordAlwaysOnChain == ConstructionSpec => []RecordIsOnChain
<1>1. ConstructionInv => RecordIsOnChain
  <2>1. job.script # "studio" => RecordIsOnChain BY DEF RecordIsOnChain
  <2> QED BY <2>1, StudioRecord DEF ConstructionInv
<1> QED BY <1>1, ConstructionInvariant, PTL

\* Where the user presses nothing while a draft is prepared, or a seal read for the panel
\* there is, the page confirms a seal only of a policy that holds all and only what was
\* planned, and only over that plan (handlePolicyVerifySeal in app.js, which asks the kernel
\* only whether the policy is sealed, and writes over the plan there is by then).
THEOREM ConfirmedSealIsThePlan ==
  ASSUME Patient PROVE ConstructionSpec => []SealConfirmedIsThePlan
<1>1. ConstructionInv => SealConfirmedIsThePlan BY SealIsConfirmed
<1> QED BY <1>1, ConstructionInvariant, PTL

\* A policy that is sealed holds the calls its manifest was compiled into, all and no
\* other, those of each function in their order, however often construction was
\* interrupted, taken up again or a call sent twice: built by the studio script, by the
\* page with a user as above, or by the deployment's scripts. The second of these
\* (resume-source-matched-policy.mjs:24-35) sends the effects that are missing, asks for no
\* rule or resource and seals; so the manifest's last rule must have an effect, which shows
\* that it is there, as it has in the manifest that the script spells out.
THEOREM SealedAlwaysAsCommitted ==
  ASSUME Ways \subseteq {"studio", "deployment", "browser"},
         "browser" \in Ways => Patient,
         "deployment" \in Ways => \A apm \in Manifests : LastRuleHasEffect(apm)
  PROVE  ConstructionSpec => []SealedAsCommitted
<1>1. ASSUME ConstructionInv PROVE SealedAsCommitted
  <2>1. CASE job.script \in {"studio", "browser"}
    BY <1>1, <2>1, SealedIsCommitted DEF ConstructionInv
  <2>2. CASE job.script = "deployment"
    <3>1. WritesInv /\ DeploymentOK /\ "deployment" \in Ways BY <1>1, <2>2 DEF ConstructionInv
    <3>2. job.apm \in Manifests BY <3>1 DEF DeploymentOK, DeploymentTypes
    <3> QED BY <3>1, <3>2, DeploymentIsCommitted
  <2> QED BY <1>1, <2>1, <2>2 DEF ConstructionInv
<1> QED BY <1>1, ConstructionInvariant, PTL

-----------------------------------------------------------------------------
(* Who signs, whatever the user presses meanwhile *)

IsTx(tx) ==
  tx = [call |-> tx.call, signer |-> tx.signer, status |-> tx.status, result |-> tx.result]

TxsSent == (\E S : txs \in Seq(S)) /\ \A i \in DOMAIN txs : IsTx(txs[i])

\* What was sent keeps its signer.
SignersKept ==
  \A i \in DOMAIN txs : i \in DOMAIN txs' /\ txs'[i].signer = txs[i].signer

\* What is sent is the last transaction, and its signer the sender.
LEMMA SubmitKeeps ==
  ASSUME TxsSent, NEW call, NEW signer, Submit(call, signer)
  PROVE  /\ TxsSent' /\ SignersKept
         /\ Len(txs) + 1 \in DOMAIN txs' /\ Len(txs) + 1 \notin DOMAIN txs
         /\ txs'[Len(txs) + 1].signer = signer
<1> DEFINE tx == [call |-> call, signer |-> signer, status |-> "PENDING", result |-> "NONE"]
<1>1. PICK S : txs \in Seq(S) BY DEF TxsSent
<1>2. txs' = Append(txs, tx) BY DEF Submit
<1>3. IsTx(tx) /\ tx.signer = signer BY DEF IsTx
<1> HIDE DEF tx
<1>4. tx \in S \cup {tx} /\ txs \in Seq(S \cup {tx}) BY <1>1
<1>5. /\ txs' \in Seq(S \cup {tx}) /\ DOMAIN txs' = 1 .. Len(txs) + 1 /\ Len(txs) \in Nat
      /\ DOMAIN txs = 1 .. Len(txs)
      /\ txs'[Len(txs) + 1] = tx /\ \A i \in DOMAIN txs : txs'[i] = txs[i]
  BY <1>2, <1>4
<1>6. \A i \in DOMAIN txs' : IsTx(txs'[i])
  <2> SUFFICES ASSUME NEW i \in DOMAIN txs' PROVE IsTx(txs'[i]) OBVIOUS
  <2>1. i = Len(txs) + 1 \/ i \in DOMAIN txs BY <1>5
  <2> QED BY <1>3, <1>5, <2>1 DEF TxsSent
<1>7. TxsSent' BY <1>5, <1>6 DEF TxsSent, IsTx
<1>8. Len(txs) + 1 \in DOMAIN txs' /\ Len(txs) + 1 \notin DOMAIN txs BY <1>5
<1>9. SignersKept
  <2> SUFFICES ASSUME NEW i \in DOMAIN txs
               PROVE  i \in DOMAIN txs' /\ txs'[i].signer = txs[i].signer
    BY DEF SignersKept
  <2> QED BY <1>5
<1> QED BY <1>3, <1>5, <1>7, <1>8, <1>9

\* The network changes what became of a transaction, never its signer.
LEMMA NetworkKeepsSigners ==
  ASSUME TxsSent, NetworkStep PROVE TxsSent' /\ SignersKept
<1>1. PICK i \in DOMAIN txs :
        ExecuteCall(i) \/ ((FinalizeTx(i) \/ CancelTx(i)) /\ UNCHANGED <<policyVars, built>>)
  BY DEF NetworkStep
<1>2. PICK S : txs \in Seq(S) BY DEF TxsSent
<1>3. IsTx(txs[i]) BY DEF TxsSent
<1>4. \E tx : /\ txs' = [txs EXCEPT ![i] = tx] /\ IsTx(tx) /\ tx.signer = txs[i].signer
  <2>1. ASSUME NEW status, txs' = [txs EXCEPT ![i].status = status]
        PROVE  \E tx : /\ txs' = [txs EXCEPT ![i] = tx] /\ IsTx(tx) /\ tx.signer = txs[i].signer
    <3> DEFINE tx == [txs[i] EXCEPT !.status = status]
    <3>1. IsTx(tx) /\ tx.signer = txs[i].signer BY <1>3 DEF IsTx
    <3>2. txs' = [txs EXCEPT ![i] = tx] BY <2>1
    <3> HIDE DEF tx
    <3> QED BY <3>1, <3>2
  <2>2. ASSUME NEW result,
               txs' = [txs EXCEPT ![i].status = "ACCEPTED", ![i].result = result]
        PROVE  \E tx : /\ txs' = [txs EXCEPT ![i] = tx] /\ IsTx(tx) /\ tx.signer = txs[i].signer
    <3> DEFINE u == [txs[i] EXCEPT !.status = "ACCEPTED"]
               tx == [txs[i] EXCEPT !.status = "ACCEPTED", !.result = result]
    <3>1. IsTx(tx) /\ tx.signer = txs[i].signer
      <4>1. u = [call |-> txs[i].call, signer |-> txs[i].signer, status |-> "ACCEPTED",
                 result |-> txs[i].result]
        BY <1>3 DEF IsTx
      <4>2. tx = [u EXCEPT !.result = result] OBVIOUS
      <4> HIDE DEF u, tx
      <4> QED BY <4>1, <4>2 DEF IsTx
    <3>2. txs' = [txs EXCEPT ![i] = tx] BY <2>2
    <3> HIDE DEF tx
    <3> QED BY <3>1, <3>2
  <2>3. CASE FinalizeTx(i) \/ CancelTx(i)
    <3>1. \E status : txs' = [txs EXCEPT ![i].status = status] BY <2>3 DEF FinalizeTx, CancelTx
    <3> QED BY <2>1, <3>1
  <2>4. CASE ExecuteCall(i)
    <3>1. \E result : txs' = [txs EXCEPT ![i].status = "ACCEPTED", ![i].result = result]
      BY <2>4 DEF ExecuteCall, Execute
    <3> QED BY <2>2, <3>1
  <2> QED BY <1>1, <2>3, <2>4
<1>5. PICK tx : /\ txs' = [txs EXCEPT ![i] = tx] /\ IsTx(tx) /\ tx.signer = txs[i].signer
  BY <1>4
<1>6. txs \in Seq(S \cup {tx}) BY <1>2
<1>7. /\ txs' \in Seq(S \cup {tx}) /\ DOMAIN txs' = DOMAIN txs /\ txs'[i] = tx
      /\ \A x \in DOMAIN txs \ {i} : txs'[x] = txs[x]
  BY <1>5, <1>6
<1>8. \A x \in DOMAIN txs' : IsTx(txs'[x]) BY <1>5, <1>7 DEF TxsSent
<1>9. TxsSent' BY <1>7, <1>8 DEF TxsSent, IsTx
<1> QED BY <1>5, <1>7, <1>9 DEF SignersKept

\* The form of a review, and of the page.
IsReview(r) ==
  r = [journey |-> r.journey, kind |-> r.kind, draft |-> r.draft, at |-> r.at, tx |-> r.tx,
       shown |-> r.shown, waited |-> r.waited]

SignedReview(r) ==
  /\ IsReview(r)
  /\ r.at = "tracking" =>
       r.tx \in DOMAIN txs /\ (r.draft.signer # Anyone => txs[r.tx].signer = r.draft.signer)

PageFits(p, js) ==
  js \in Seq(JourneyType) /\ Fields(p) /\ p.current \in {NoJourney, Len(js)}

\* The reviews of q are p's, moved, or not signed yet.
NoneSigned(p, q) ==
  \A s \in q.reviews :
    (\E r \in p.reviews : Moved(r, s)) \/ (IsReview(s) /\ s.at # "tracking")

SignedInv ==
  TxsSent /\ PageFits(page, journeys) /\ \A r \in page.reviews : SignedReview(r)

\* A review that moves does not begin to track.
LEMMA MovedForm ==
  ASSUME NEW r, IsReview(r), NEW s, Moved(r, s)
  PROVE  /\ IsReview(s)
         /\ s.at = "tracking" => r.at = "tracking" /\ s.tx = r.tx /\ s.draft = r.draft
<1>1. r = [journey |-> r.journey, kind |-> r.kind, draft |-> r.draft, at |-> r.at, tx |-> r.tx,
           shown |-> r.shown, waited |-> r.waited]
  BY DEF IsReview
<1>2. CASE s = [r EXCEPT !.shown = FALSE] BY <1>1, <1>2 DEF IsReview
<1>3. CASE s = [r EXCEPT !.at = "signing"] BY <1>1, <1>3 DEF IsReview
<1>4. CASE s = [r EXCEPT !.at = "review"] BY <1>1, <1>4 DEF IsReview
<1>5. CASE s = [r EXCEPT !.at = "error", !.waited = FALSE]
  <2> DEFINE u == [r EXCEPT !.at = "error"]
  <2>1. u = [journey |-> r.journey, kind |-> r.kind, draft |-> r.draft, at |-> "error",
             tx |-> r.tx, shown |-> r.shown, waited |-> r.waited]
    BY <1>1
  <2>2. s = [u EXCEPT !.waited = FALSE] BY <1>5
  <2> HIDE DEF u
  <2> QED BY <2>1, <2>2 DEF IsReview
<1>6. CASE s = r BY <1>1, <1>6 DEF IsReview
<1> QED BY <1>2, <1>3, <1>4, <1>5, <1>6 DEF Moved

\* A step of the page by which nothing is signed.
LEMMA PageMovesOn ==
  ASSUME SignedInv, TxsSent', SignersKept, NEW q, page' = q, PageFits(q, journeys'),
         NoneSigned(page, q)
  PROVE  SignedInv'
<1>1. PICK p : p = page OBVIOUS
<1>2. /\ \A r \in p.reviews : SignedReview(r)
      /\ NoneSigned(p, q)
  BY <1>1 DEF SignedInv
<1>3. ASSUME NEW s \in q.reviews PROVE SignedReview(s)'
  <2>1. CASE IsReview(s) /\ s.at # "tracking" BY <2>1 DEF SignedReview
  <2>2. CASE \E r \in p.reviews : Moved(r, s)
    <3>1. PICK r \in p.reviews : Moved(r, s) BY <2>2
    <3>2. SignedReview(r) BY <1>2
    <3>3. /\ IsReview(s)
          /\ s.at = "tracking" => r.at = "tracking" /\ s.tx = r.tx /\ s.draft = r.draft
      BY <3>1, <3>2, MovedForm DEF SignedReview
    <3> QED BY <3>2, <3>3 DEF SignedReview, SignersKept
  <2> QED BY <1>2, <2>1, <2>2 DEF NoneSigned
<1>4. \A s \in page'.reviews : SignedReview(s)' BY <1>3
<1>5. PageFits(page, journeys)' BY DEF PageFits
<1> QED BY <1>4, <1>5 DEF SignedInv, SignedReview

\* Nothing is sent.
LEMMA SameTxs == ASSUME TxsSent, txs' = txs PROVE TxsSent' /\ SignersKept
BY DEF TxsSent, IsTx, SignersKept

\* The panel is replaced, whatever the reviews are.
LEMMA ShownForm ==
  ASSUME NEW p, Fields(p), NEW panel
  PROVE  LET q == Shown(p, panel) IN
         /\ Fields(q) /\ q.account = p.account /\ q.current = p.current /\ q.screen = p.screen
         /\ q.drafts = p.drafts /\ q.builds = p.builds /\ q.reads = p.reads /\ Fewer(p, q)
<1> DEFINE q == Shown(p, panel)
           confirmed == {s \in p.reviews : s.at \in {"signing", "tracking"}}
           hidden == {[r EXCEPT !.shown = FALSE] : r \in confirmed}
<1>1. Replaces(p, panel, hidden, q) BY DEF Shown, Replaces
<1>2. \A s \in hidden : \E r \in p.reviews : Moved(r, s) BY DEF Moved
<1> HIDE DEF hidden, q
<1>3. /\ Fields(q) /\ q.current = p.current /\ q.screen = p.screen /\ q.drafts = p.drafts
      /\ q.builds = p.builds /\ q.reads = p.reads /\ q.reviews = hidden
  BY <1>1, PanelReplaced
<1>4. q.account = p.account
  <2> DEFINE m == [p EXCEPT !.panel = panel]
  <2>1. Fields(m) /\ m.account = p.account BY DEF Fields
  <2>2. q = [m EXCEPT !.reviews = hidden] BY <1>1 DEF Replaces
  <2> HIDE DEF m
  <2> QED BY <2>1, <2>2 DEF Fields
<1> QED BY <1>2, <1>3, <1>4 DEF q, Fewer

\* Nothing changes but what the page shows, and what it prepares.
LEMMA PreparingForm ==
  ASSUME NEW p, NEW js, PageFits(p, js)
  PROVE  PageFits(Preparing(p, js), js) /\ Fewer(p, Preparing(p, js))
<1> DEFINE q == Preparing(p, js)
           j == js[p.current]
<1>1. Fields(p) /\ p.current \in {NoJourney, Len(js)} /\ js \in Seq(JourneyType) BY DEF PageFits
<1>2. Fewer(p, p) BY DEF Fewer, Moved
<1>3. CASE p.current = NoJourney BY <1>1, <1>2, <1>3 DEF Preparing, PageFits
<1>4. CASE p.current # NoJourney /\ Finished(j)
  <2>1. PICK panel : q = Shown(p, panel) BY <1>4 DEF Preparing
  <2> HIDE DEF q
  <2>2. /\ Fields(Shown(p, panel)) /\ Shown(p, panel).current = p.current
        /\ Fewer(p, Shown(p, panel))
    BY <1>1, ShownForm
  <2>3. PageFits(Shown(p, panel), js) BY <1>1, <2>2 DEF PageFits
  <2> QED BY <2>1, <2>2, <2>3 DEF q
<1>5. CASE p.current # NoJourney /\ ~Finished(j)
  <2> DEFINE more == p.builds \cup {[journey |-> p.current, screen |-> p.screen,
                                     call |-> j.calls[j.index + 1]]}
  <2>1. q = [p EXCEPT !.builds = more] BY <1>5 DEF Preparing
  <2> HIDE DEF q, more
  <2>2. Fields(q) /\ q.current = p.current /\ q.reviews = p.reviews BY <1>1, <2>1 DEF Fields
  <2>3. Fewer(p, q) BY <1>2, <2>2 DEF Fewer
  <2>4. PageFits(q, js) BY <1>1, <2>2 DEF PageFits
  <2> QED BY <2>3, <2>4 DEF q
<1> QED BY <1>3, <1>4, <1>5

\* The page's steps, but for the signature: a wallet, a rendering, a sequence, a draft.
LEMMA PageChanges ==
  ASSUME SignedInv, NEW p, p = page, NEW js, js = journeys,
         \/ \E a \in Accounts : HandleConnectWallet(a)
         \/ OnWalletChanged \/ Navigate
         \/ \E apm \in Authored : HandlePolicyBuildConstruction(apm)
         \/ HandlePolicyBuildActivation
  PROVE  PageFits(page', journeys') /\ NoneSigned(p, page')
<1>1. PageFits(p, js) BY DEF SignedInv
<1>2. /\ Fields(p) /\ p.current \in {NoJourney, Len(js)} /\ js \in Seq(JourneyType)
      /\ p.screen \in Nat
  BY <1>1 DEF PageFits, Fields
<1>3. \A q : Fewer(p, q) => NoneSigned(p, q) BY DEF Fewer, NoneSigned
<1>4. PICK q, new : q = page' /\ new = journeys' OBVIOUS
<1>5. \A u : u.reviews = p.reviews => Fewer(p, u) BY DEF Fewer, Moved
<1>6. CASE \E a \in Accounts : HandleConnectWallet(a)
  <2>1. PICK a \in Accounts : HandleConnectWallet(a) BY <1>6
  <2>2. q = [p EXCEPT !.account = a] /\ new = js BY <1>4, <2>1 DEF HandleConnectWallet
  <2>3. Fields(q) /\ q.current = p.current /\ q.reviews = p.reviews BY <1>2, <2>2 DEF Fields
  <2> QED BY <1>2, <1>3, <1>4, <1>5, <2>2, <2>3 DEF PageFits
<1>7. CASE OnWalletChanged \/ Navigate
  <2> DEFINE s == Shown(p, Nothing)
  <2>1. Rendered(p, q) /\ new = js BY <1>4, <1>7 DEF OnWalletChanged, Navigate, Rendered
  <2>2. /\ Fields(s) /\ s.account = p.account /\ s.current = p.current /\ s.screen = p.screen
        /\ s.drafts = p.drafts /\ s.builds = p.builds /\ s.reads = p.reads /\ Fewer(p, s)
    BY <1>2, ShownForm
  <2> HIDE DEF s
  <2>3. Fields(q) /\ q.current \in {NoJourney, p.current} /\ q.reviews = s.reviews
    <3>1. CASE q = [s EXCEPT !.screen = @ + 1] BY <1>2, <2>2, <3>1 DEF Fields
    <3>2. CASE q = [s EXCEPT !.account = NoAccount, !.drafts = <<>>, !.current = NoJourney,
                      !.screen = @ + 1]
      <4>1. q = [account |-> NoAccount, current |-> NoJourney, drafts |-> <<>>,
                 screen |-> s.screen + 1, panel |-> s.panel, builds |-> s.builds,
                 reads |-> s.reads, reviews |-> s.reviews]
        BY <2>2, <3>2 DEF Fields
      <4> QED BY <1>2, <2>2, <4>1 DEF Fields
    <3> QED BY <2>1, <3>1, <3>2 DEF Rendered, s
  <2>4. Fewer(p, q) BY <2>2, <2>3 DEF Fewer
  <2> QED BY <1>2, <1>3, <1>4, <2>1, <2>3, <2>4 DEF PageFits
<1>8. CASE \E apm \in Authored : HandlePolicyBuildConstruction(apm)
  <2>1. PICK apm \in Authored : HandlePolicyBuildConstruction(apm) BY <1>8
  <2> DEFINE j == [apm |-> apm, calls |-> CompiledCalls(apm), index |-> 0,
                    sealConfirmed |-> FALSE, activationBuilt |-> FALSE]
             opened == [p EXCEPT !.current = Len(Append(js, j))]
  <2>2. new = Append(js, j) BY <1>4, <2>1 DEF HandlePolicyBuildConstruction
  <2>3. q = Preparing([p EXCEPT !.current = Len(new)], new)
    BY <1>4, <2>1, <2>2 DEF HandlePolicyBuildConstruction
  <2>4. j \in JourneyType
    <3>1. CompiledCalls(apm) \in Seq(CallType)
      <4>1. apm \in Authors BY DEF Authors
      <4> QED BY <4>1, PlanFacts
    <3> QED BY <3>1 DEF JourneyType
  <2> HIDE DEF j
  <2>5. new \in Seq(JourneyType)
    <3> HIDE DEF JourneyType
    <3> QED BY <1>2, <2>2, <2>4
  <2> DEFINE u == [p EXCEPT !.current = Len(new)]
  <2>6. Fields(u) /\ u.current = Len(new) /\ u.reviews = p.reviews BY <1>2 DEF Fields
  <2>7. q = Preparing(u, new) BY <2>3
  <2> HIDE DEF u
  <2>8. PageFits(u, new) BY <2>5, <2>6 DEF PageFits
  <2>9. PageFits(q, new) /\ Fewer(u, q) BY <2>7, <2>8, PreparingForm
  <2>10. Fewer(p, q) BY <2>6, <2>9 DEF Fewer
  <2> QED BY <1>3, <1>4, <2>9, <2>10
<1>9. CASE HandlePolicyBuildActivation
  <2> DEFINE more == p.builds \cup {[journey |-> p.current, screen |-> p.screen,
                                     call |-> ActivateCall(Current.apm.policyId)]}
  <2>1. q = [p EXCEPT !.builds = more] /\ new = js
    BY <1>4, <1>9 DEF HandlePolicyBuildActivation
  <2> HIDE DEF more
  <2>2. Fields(q) /\ q.current = p.current /\ q.reviews = p.reviews BY <1>2, <2>1 DEF Fields
  <2> QED BY <1>2, <1>3, <1>4, <1>5, <2>1, <2>2 DEF PageFits
<1> QED BY <1>6, <1>7, <1>8, <1>9

\* A journey's seal is confirmed, its activation prepared, or it goes on, if it is one.
Steps(js, x, new) == Confirmed(js, x, new) \/ new = [js EXCEPT ![x].index = @ + 1]

\* One journey's change, and
LEMMA OneJourneyChanges ==
  ASSUME NEW j \in JourneyType
  PROVE  /\ [j EXCEPT !.sealConfirmed = TRUE] \in JourneyType
         /\ [j EXCEPT !.activationBuilt = TRUE] \in JourneyType
         /\ [j EXCEPT !.index = @ + 1] \in JourneyType
<1> HIDE DEF CallType
<1>1. [j EXCEPT !.sealConfirmed = TRUE] \in JourneyType BY DEF JourneyType
<1>2. [j EXCEPT !.activationBuilt = TRUE] \in JourneyType BY DEF JourneyType
<1>3. [j EXCEPT !.index = @ + 1] \in JourneyType BY DEF JourneyType
<1> QED BY <1>1, <1>2, <1>3

\* what it makes of them all.
LEMMA JourneyChanges ==
  ASSUME NEW js \in Seq(JourneyType), NEW x, NEW new, Steps(js, x, new)
  PROVE  new \in Seq(JourneyType) /\ Len(new) = Len(js)
<1> HIDE DEF JourneyType
<1>1. CASE x \notin DOMAIN js
  <2>1. new = js BY <1>1 DEF Steps, Confirmed
  <2> QED BY <2>1
<1>2. CASE x \in DOMAIN js
  <2>1. PICK k : k = js[x] /\ k \in JourneyType BY <1>2
  <2>2. PICK j : new = [js EXCEPT ![x] = j] /\ j \in JourneyType
    <3>1. /\ [k EXCEPT !.sealConfirmed = TRUE] \in JourneyType
          /\ [k EXCEPT !.activationBuilt = TRUE] \in JourneyType
          /\ [k EXCEPT !.index = @ + 1] \in JourneyType
      BY <2>1, OneJourneyChanges
    <3>2. \/ new = [js EXCEPT ![x] = [k EXCEPT !.sealConfirmed = TRUE]]
          \/ new = [js EXCEPT ![x] = [k EXCEPT !.activationBuilt = TRUE]]
          \/ new = [js EXCEPT ![x] = [k EXCEPT !.index = @ + 1]]
      BY <2>1 DEF Steps, Confirmed
    <3> QED BY <3>1, <3>2
  <2>3. x \in 1 .. Len(js) BY <1>2
  <2> QED BY <2>2, <2>3, ExceptSeq
<1> QED BY <1>1, <1>2

\* One review moves, or goes.
LEMMA OneMoves ==
  ASSUME NEW p, Fields(p), NEW r \in p.reviews, NEW s, Moved(r, s), NEW q,
         q = With(p, r, s) \/ q = Without(p, r)
  PROVE  Fields(q) /\ q.current = p.current /\ Fewer(p, q)
<1> DEFINE rest == p.reviews \ {r}
<1>1. PICK reviews \in SUBSET (rest \cup {s}) : q = [p EXCEPT !.reviews = reviews]
  BY DEF With, Without
<1>2. Fields(q) /\ q.current = p.current /\ q.reviews = reviews BY <1>1 DEF Fields
<1>3. \A u \in reviews : u = s \/ u \in rest BY <1>1
<1>4. \A u \in p.reviews : Moved(u, u) BY DEF Moved
<1> QED BY <1>2, <1>3, <1>4 DEF Fewer

\* One review fails.
LEMMA FailedForm ==
  ASSUME NEW p, Fields(p), NEW r \in p.reviews
  PROVE  Fields(Failed(p, r)) /\ Failed(p, r).current = p.current /\ Fewer(p, Failed(p, r))
<1> DEFINE s == [r EXCEPT !.at = "error", !.waited = FALSE]
<1>1. Moved(r, s) BY DEF Moved
<1>2. Failed(p, r) = With(p, r, s) \/ Failed(p, r) = Without(p, r) BY DEF Failed
<1> HIDE DEF s
<1> QED BY <1>1, <1>2, OneMoves

\* One build is done with.
LEMMA PreparedForm ==
  ASSUME NEW p, Fields(p), NEW b, NEW drafts, NEW q, Prepares(p, b, drafts, q)
  PROVE  Fields(q) /\ q.current = p.current /\ Fewer(p, q)
<1> DEFINE rest == p.builds \ {b}
<1>1. q = [p EXCEPT !.builds = rest, !.drafts = drafts] BY DEF Prepares
<1> HIDE DEF rest
<1>2. Fields(q) /\ q.current = p.current /\ q.reviews = p.reviews BY <1>1 DEF Fields
<1> QED BY <1>2 DEF Fewer, Moved

\* Reviews fewer than, or moved from, those of a page with p's reviews are so from p's.
LEMMA FewerOfFewer ==
  ASSUME NEW p, NEW q, q.reviews = p.reviews, NEW u, Fewer(q, u)
  PROVE  Fewer(p, u)
BY DEF Fewer

\* Drafts that come back, and the seal looked up.
LEMMA DraftOrSeal ==
  ASSUME SignedInv, NEW p, p = page, NEW js, js = journeys,
         \/ \E b \in page.builds : Prepared(b)
         \/ HandlePolicyVerifySeal
         \/ \E r \in page.reads : SealRead(r) \/ SealReadFails(r)
  PROVE  PageFits(page', journeys') /\ NoneSigned(p, page')
<1>1. Fields(p) /\ p.current \in {NoJourney, Len(js)} /\ js \in Seq(JourneyType)
  BY DEF SignedInv, PageFits
<1>2. \A q : Fewer(p, q) => NoneSigned(p, q) BY DEF Fewer, NoneSigned
<1>3. PICK q, new : q = page' /\ new = journeys' OBVIOUS
<1>4. \A panel : /\ Fields(Shown(p, panel)) /\ Shown(p, panel).current = p.current
                 /\ Fewer(p, Shown(p, panel))
  BY <1>1, ShownForm
<1>5. Fewer(p, p) BY DEF Fewer, Moved
<1>6. CASE \E b \in page.builds : Prepared(b)
  <2>1. PICK b \in p.builds : Prepared(b) BY <1>6
  <2> DEFINE rest == [p EXCEPT !.builds = @ \ {b}]
  <2>2. PICK stepped \in BOOLEAN :
          new = IF stepped THEN [js EXCEPT ![b.journey].activationBuilt = TRUE] ELSE js
    BY <1>3, <2>1 DEF Prepared
  <2>3. new \in Seq(JourneyType) /\ Len(new) = Len(js)
    <3>1. new = js \/ Steps(js, b.journey, new) BY <2>2 DEF Steps, Confirmed
    <3> HIDE DEF JourneyType
    <3> QED BY <1>1, <3>1, JourneyChanges
  <2>4. PICK panel, drafts, u :
          Prepares(p, b, drafts, u) /\ (q = u \/ q = Shown(u, panel))
    <3>1. CASE Reverts(b.call)
      <4>1. q = (IF b.screen = p.screen THEN Shown(rest, Nothing) ELSE rest)
        BY <1>3, <2>1, <3>1 DEF Prepared
      <4>2. Prepares(p, b, p.drafts, rest) BY <1>1 DEF Fields, Prepares
      <4> HIDE DEF rest
      <4> QED BY <4>1, <4>2
    <3>2. CASE ~Reverts(b.call)
      <4> DEFINE kind == KindOf(b)
      <4>1. PICK draft :
              LET registered == [rest EXCEPT !.drafts = RegisterDraft(kind, draft)] IN
              q = IF b.screen # p.screen THEN registered
                  ELSE Shown(registered, [shows |-> "draft", kind |-> kind, draft |-> draft])
        BY <1>3, <2>1, <3>2 DEF Prepared
      <4> DEFINE drafts == RegisterDraft(kind, draft)
                 registered == [rest EXCEPT !.drafts = drafts]
                 panel == [shows |-> "draft", kind |-> kind, draft |-> draft]
      <4>2. q = registered \/ q = Shown(registered, panel) BY <4>1
      <4> HIDE DEF drafts, panel, kind
      <4>3. Prepares(p, b, drafts, registered) BY DEF Prepares
      <4> HIDE DEF registered
      <4> QED BY <4>2, <4>3
    <3> QED BY <3>1, <3>2
  <2>5. Fields(u) /\ u.current = p.current /\ Fewer(p, u) BY <1>1, <2>4, PreparedForm
  <2>6. u.reviews = p.reviews
    <3> DEFINE builds == p.builds \ {b}
    <3>1. u = [p EXCEPT !.builds = builds, !.drafts = drafts] BY <2>4 DEF Prepares
    <3> HIDE DEF builds
    <3> QED BY <1>1, <3>1 DEF Fields
  <2>7. /\ Fields(Shown(u, panel)) /\ Shown(u, panel).current = u.current
        /\ Fewer(u, Shown(u, panel))
    BY <2>5, ShownForm
  <2>8. Fewer(p, Shown(u, panel)) BY <2>6, <2>7, FewerOfFewer
  <2>9. Fields(q) /\ q.current = p.current /\ Fewer(p, q) BY <2>4, <2>5, <2>7, <2>8
  <2> QED BY <1>1, <1>2, <1>3, <2>3, <2>9 DEF PageFits
<1>7. CASE HandlePolicyVerifySeal
  <2> DEFINE reads == p.reads \cup {[journey |-> page.current, screen |-> page.screen]}
  <2>1. q = [p EXCEPT !.reads = reads] /\ new = js BY <1>3, <1>7 DEF HandlePolicyVerifySeal
  <2> HIDE DEF reads
  <2>2. Fields(q) /\ q.current = p.current /\ q.reviews = p.reviews BY <1>1, <2>1 DEF Fields
  <2>3. Fewer(p, q) BY <1>5, <2>2 DEF Fewer
  <2> QED BY <1>1, <1>2, <1>3, <2>1, <2>2, <2>3 DEF PageFits
<1>8. CASE \E r \in page.reads : SealRead(r) \/ SealReadFails(r)
  <2>1. PICK r \in page.reads : SealRead(r) \/ SealReadFails(r) BY <1>8
  <2> DEFINE reads == p.reads \ {r}
             rest == [p EXCEPT !.reads = reads]
  <2>2. /\ q = rest \/ \E panel : q = Shown(rest, panel)
        /\ new = js \/ new = [js EXCEPT ![r.journey].sealConfirmed = TRUE]
    BY <1>3, <2>1 DEF SealRead, SealReadFails, AfterRead
  <2>3. new \in Seq(JourneyType) /\ Len(new) = Len(js)
    <3>1. new = js \/ Steps(js, r.journey, new) BY <2>2 DEF Steps, Confirmed
    <3> HIDE DEF JourneyType
    <3> QED BY <1>1, <3>1, JourneyChanges
  <2> HIDE DEF reads
  <2>4. Fields(rest) /\ rest.current = p.current /\ rest.reviews = p.reviews
    BY <1>1 DEF Fields
  <2> HIDE DEF rest
  <2>5. Fewer(p, rest) BY <1>5, <2>4 DEF Fewer
  <2>6. \A panel : /\ Fields(Shown(rest, panel)) /\ Shown(rest, panel).current = p.current
                   /\ Fewer(p, Shown(rest, panel))
    <3> TAKE panel
    <3>1. /\ Fields(Shown(rest, panel)) /\ Shown(rest, panel).current = rest.current
          /\ Fewer(rest, Shown(rest, panel))
      BY <2>4, ShownForm
    <3>2. Fewer(p, Shown(rest, panel)) BY <2>4, <3>1, FewerOfFewer
    <3> QED BY <2>4, <3>1, <3>2
  <2>7. Fields(q) /\ q.current = p.current /\ Fewer(p, q) BY <2>2, <2>4, <2>5, <2>6
  <2> QED BY <1>1, <1>2, <1>3, <2>3, <2>7 DEF PageFits
<1> QED BY <1>6, <1>7, <1>8

\* Reviews that go on, or come to their end.
LEMMA ReviewChanges ==
  ASSUME SignedInv, NEW p, p = page, NEW js, js = journeys,
         \/ SubmitLiveWrite
         \/ \E r \in page.reviews :
              Confirm(r) \/ ReEstimate(r) \/ ReviewFails(r) \/ TrackedFinal(r)
  PROVE  PageFits(page', journeys') /\ NoneSigned(p, page')
<1>1. Fields(p) /\ p.current \in {NoJourney, Len(js)} /\ js \in Seq(JourneyType)
  BY DEF SignedInv, PageFits
<1>2. \A q : Fewer(p, q) => NoneSigned(p, q) BY DEF Fewer, NoneSigned
<1>3. PICK q, new : q = page' /\ new = journeys' OBVIOUS
<1>4. CASE SubmitLiveWrite
  <2>1. PICK kind, draft, more :
          LET r == [journey |-> p.current, kind |-> kind, draft |-> draft,
                    at |-> "review", tx |-> 0, shown |-> TRUE, waited |-> TRUE] IN
          q = [p EXCEPT !.panel = Nothing, !.reviews = more] /\ more = p.reviews \cup {r}
    BY <1>3, <1>4 DEF SubmitLiveWrite
  <2> DEFINE r == [journey |-> p.current, kind |-> kind, draft |-> draft,
                   at |-> "review", tx |-> 0, shown |-> TRUE, waited |-> TRUE]
  <2>2. IsReview(r) /\ r.at # "tracking" BY DEF IsReview
  <2>3. Replaces(p, Nothing, more, q) /\ more = p.reviews \cup {r} BY <2>1 DEF Replaces
  <2> HIDE DEF r
  <2>4. Fields(q) /\ q.current = p.current /\ q.reviews = more
    BY <1>1, <2>3, PanelReplaced
  <2>5. NoneSigned(p, q) BY <2>2, <2>3, <2>4 DEF NoneSigned, Moved
  <2>6. new = js BY <1>3, <1>4 DEF SubmitLiveWrite
  <2> QED BY <1>1, <1>3, <2>4, <2>5, <2>6 DEF PageFits
<1>5. CASE \E r \in page.reviews : Confirm(r) \/ ReEstimate(r) \/ ReviewFails(r)
  <2>1. PICK r \in p.reviews : Confirm(r) \/ ReEstimate(r) \/ ReviewFails(r) BY <1>5
  <2>2. new = js BY <1>3, <2>1 DEF Confirm, ReEstimate, ReviewFails
  <2>3. Fields(q) /\ q.current = p.current /\ Fewer(p, q)
    <3>1. CASE Confirm(r)
      <4> DEFINE s == [r EXCEPT !.at = "signing"]
      <4>1. Moved(r, s) BY DEF Moved
      <4>2. q = With(p, r, s) BY <1>3, <3>1 DEF Confirm
      <4> HIDE DEF s
      <4> QED BY <1>1, <4>1, <4>2, OneMoves
    <3>2. CASE ReEstimate(r)
      <4> DEFINE s == [r EXCEPT !.at = "review"]
      <4>1. Moved(r, s) BY DEF Moved
      <4>2. q = With(p, r, s) BY <1>3, <3>2 DEF ReEstimate
      <4> HIDE DEF s
      <4> QED BY <1>1, <4>1, <4>2, OneMoves
    <3>3. CASE ReviewFails(r)
      <4>1. q = Failed(p, r) BY <1>3, <3>3 DEF ReviewFails
      <4> QED BY <1>1, <4>1, FailedForm
    <3> QED BY <2>1, <3>1, <3>2, <3>3
  <2> QED BY <1>1, <1>2, <1>3, <2>2, <2>3 DEF PageFits
<1>6. CASE \E r \in page.reviews : TrackedFinal(r)
  <2>1. PICK r \in p.reviews : TrackedFinal(r) BY <1>6
  <2> DEFINE rest == Without(p, r)
  <2>2. Fields(rest) /\ rest.current = p.current /\ Fewer(p, rest)
    <3>1. Moved(r, r) BY DEF Moved
    <3> QED BY <1>1, <3>1, OneMoves
  <2>3. \A u : Fewer(rest, u) => Fewer(p, u)
    <3>1. rest.reviews \subseteq p.reviews BY <1>1 DEF Without, Fields
    <3> HIDE DEF rest
    <3> QED BY <3>1 DEF Fewer
  <2> HIDE DEF rest
  <2>4. \/ q \in {rest, Shown(rest, Nothing)} /\ new = js
        \/ /\ new = [js EXCEPT ![r.journey].index = @ + 1]
           /\ q = Preparing(rest, new)
    BY <1>3, <2>1 DEF TrackedFinal, rest
  <2>5. CASE q \in {rest, Shown(rest, Nothing)} /\ new = js
    <3>1. /\ Fields(Shown(rest, Nothing)) /\ Shown(rest, Nothing).current = rest.current
          /\ Fewer(rest, Shown(rest, Nothing))
      BY <2>2, ShownForm
    <3>2. Fields(q) /\ q.current = p.current /\ Fewer(p, q) BY <2>2, <2>3, <2>5, <3>1
    <3> QED BY <1>1, <1>2, <1>3, <2>5, <3>2 DEF PageFits
  <2>6. CASE /\ new = [js EXCEPT ![r.journey].index = @ + 1]
             /\ q = Preparing(rest, new)
    <3>1. new \in Seq(JourneyType) /\ Len(new) = Len(js)
      <4>1. Steps(js, r.journey, new) BY <2>6 DEF Steps
      <4> HIDE DEF JourneyType
      <4> QED BY <1>1, <4>1, JourneyChanges
    <3>2. PageFits(rest, new) BY <1>1, <2>2, <3>1 DEF PageFits
    <3>3. PageFits(q, new) /\ Fewer(rest, q) BY <2>6, <3>2, PreparingForm
    <3> QED BY <1>2, <1>3, <2>3, <3>3
  <2> QED BY <2>4, <2>5, <2>6
<1> QED BY <1>4, <1>5, <1>6

\* The signature: submitWrite has asked the wallet for its account once more.
LEMMA SignChanges ==
  ASSUME SignedInv, NEW r \in page.reviews, Sign(r)
  PROVE  SignedInv'
<1>1. PICK p, js, n, a, q :
        p = page /\ js = journeys /\ n = Len(txs) /\ a = page.account /\ q = page'
  OBVIOUS
<1>2. /\ TxsSent /\ PageFits(p, js) /\ r \in p.reviews /\ SignedReview(r)
      /\ \A u \in p.reviews : SignedReview(u)
  BY <1>1 DEF SignedInv
<1>3. Fields(p) BY <1>2 DEF PageFits
<1>4. journeys' = js BY <1>1 DEF Sign
<1>5. CASE ~(a # NoAccount /\ r.draft.signer \in {a, Anyone})
  <2>1. q = Failed(p, r) /\ txs' = txs BY <1>1, <1>5 DEF Sign
  <2>2. Fields(q) /\ q.current = p.current /\ Fewer(p, q)
    BY <1>2, <1>3, <2>1, FailedForm
  <2>3. TxsSent' /\ SignersKept BY <1>2, <2>1, SameTxs
  <2>4. PageFits(q, journeys') BY <1>2, <1>4, <2>2 DEF PageFits
  <2>5. NoneSigned(page, q) BY <1>1, <2>2 DEF Fewer, NoneSigned
  <2> QED BY <1>1, <2>3, <2>4, <2>5, PageMovesOn
<1>6. CASE a # NoAccount /\ r.draft.signer \in {a, Anyone}
  <2> DEFINE s == [r EXCEPT !.at = "tracking", !.tx = n + 1]
  <2>1. SignedPage(p, r, s, q) /\ Submit(r.draft.call, a)
    BY <1>1, <1>6 DEF Sign, SignedPage
  <2>2. /\ TxsSent' /\ SignersKept
        /\ n + 1 \in DOMAIN txs' /\ txs'[n + 1].signer = a
    BY <1>1, <1>2, <2>1, SubmitKeeps
  <2>3. IsReview(r) BY <1>2 DEF SignedReview
  <2>4. s = [journey |-> r.journey, kind |-> r.kind, draft |-> r.draft, at |-> "tracking",
             tx |-> n + 1, shown |-> r.shown, waited |-> r.waited]
    <3> DEFINE u == [r EXCEPT !.at = "tracking"]
    <3>1. u = [journey |-> r.journey, kind |-> r.kind, draft |-> r.draft, at |-> "tracking",
               tx |-> r.tx, shown |-> r.shown, waited |-> r.waited]
      BY <2>3 DEF IsReview
    <3>2. s = [u EXCEPT !.tx = n + 1] OBVIOUS
    <3> HIDE DEF u, s
    <3> QED BY <3>1, <3>2
  <2> HIDE DEF s
  <2>5. IsReview(s) /\ s.tx = n + 1 /\ s.draft = r.draft BY <2>4 DEF IsReview
  <2>6. SignedReview(s)' BY <1>6, <2>2, <2>5 DEF SignedReview
  <2>7. /\ Fields(q) /\ q.current = p.current /\ q.reviews = (p.reviews \ {r}) \cup {s}
    BY <1>3, <2>1, SignedFields
  <2>8. \A u \in q.reviews : SignedReview(u)'
    <3> SUFFICES ASSUME NEW u \in q.reviews PROVE SignedReview(u)' OBVIOUS
    <3>1. u = s \/ u \in p.reviews BY <2>7
    <3>2. CASE u \in p.reviews
      <4>1. SignedReview(u) BY <1>2, <3>2
      <4> QED BY <2>2, <4>1 DEF SignedReview, SignersKept
    <3> QED BY <2>6, <3>1, <3>2
  <2>9. PageFits(q, journeys') BY <1>2, <1>4, <2>7 DEF PageFits
  <2>10. PageFits(page, journeys)' BY <1>1, <2>9 DEF PageFits
  <2> QED BY <1>1, <2>2, <2>8, <2>10 DEF SignedInv, SignedReview
<1> QED BY <1>5, <1>6

\* The network, and steps that leave page and journeys alone.
LEMMA PageStays ==
  ASSUME SignedInv, UNCHANGED <<journeys, page>>, TxsSent', SignersKept
  PROVE  SignedInv'
<1>1. PICK p : p = page OBVIOUS
<1>2. PageFits(p, journeys') BY <1>1 DEF SignedInv
<1>3. NoneSigned(page, p) BY <1>1 DEF NoneSigned, Moved
<1> QED BY <1>1, <1>2, <1>3, PageMovesOn

\* Nothing is sent or reviewed at first.
LEMMA SignedStarts == ASSUME ConstructionInit PROVE SignedInv
<1>1. txs = <<>> /\ journeys = <<>> BY DEF ConstructionInit, WritesInit, PageInit
<1>2. PICK p : p = page OBVIOUS
<1>3. p.reviews = {} /\ Fields(p) /\ p.current = NoJourney
  BY <1>2, PageStart DEF ConstructionInit, BrowserOK, PageOK
<1>4. TxsSent
  <2>1. <<>> \in Seq({}) /\ DOMAIN <<>> = {} OBVIOUS
  <2> QED BY <1>1, <2>1 DEF TxsSent
<1>5. PageFits(p, <<>>)
  <2> HIDE DEF JourneyType
  <2>1. <<>> \in Seq(JourneyType) OBVIOUS
  <2> QED BY <1>3, <2>1 DEF PageFits
<1> QED BY <1>1, <1>2, <1>3, <1>4, <1>5 DEF SignedInv

\* Every step keeps what was signed, and by whom.
LEMMA SignedGoesOn ==
  ASSUME SignedInv, [ConstructionNext]_constructionVars
  PROVE  SignedInv'
<1>1. TxsSent BY DEF SignedInv
<1>2. PICK p, js : p = page /\ js = journeys OBVIOUS
<1>3. ASSUME PageFits(page', journeys'), NoneSigned(p, page'), txs' = txs PROVE SignedInv'
  <2>1. TxsSent' /\ SignersKept BY <1>1, <1>3, SameTxs
  <2> QED BY <1>2, <1>3, <2>1, PageMovesOn
<1>4. CASE ScriptsNext /\ UNCHANGED <<journeys, page, interruptions>>
  <2>1. CASE Write
    <3>1. PICK call, signer : Submit(call, signer) BY <2>1 DEF Write
    <3>2. TxsSent' /\ SignersKept BY <1>1, <3>1, SubmitKeeps
    <3> QED BY <1>4, <3>2, PageStays
  <2>2. CASE ~Write
    <3>1. txs' = txs
      BY <1>4, <2>2 DEF ScriptsNext, ScriptStep, Estimate, StudioStart, SavePending, WaitFinalized,
                  Record, ResumeStart, WaitReceipt, ReadSeal, AfterDelay, Crash, TickInDelay
    <3>2. TxsSent' /\ SignersKept BY <1>1, <3>1, SameTxs
    <3> QED BY <1>4, <3>2, PageStays
  <2> QED BY <2>1, <2>2
<1>5. CASE NetworkStep /\ UNCHANGED <<job, process, file, crashes, journeys, page, interruptions>>
  <2>1. TxsSent' /\ SignersKept BY <1>1, <1>5, NetworkKeepsSigners
  <2> QED BY <1>5, <2>1, PageStays
<1>6. CASE UNCHANGED constructionVars
  <2>1. UNCHANGED <<journeys, page>> /\ txs' = txs
    BY <1>6 DEF constructionVars, scriptsVars, writesVars
  <2>2. TxsSent' /\ SignersKept BY <1>1, <2>1, SameTxs
  <2> QED BY <2>1, <2>2, PageStays
<1>7. CASE \E r \in page.reviews : Sign(r) BY <1>7, SignChanges
<1>8. CASE TickTimelock
  <2>1. UNCHANGED <<journeys, page>> /\ txs' = txs BY <1>8 DEF TickTimelock
  <2>2. TxsSent' /\ SignersKept BY <1>1, <2>1, SameTxs
  <2> QED BY <2>1, <2>2, PageStays
<1>9. CASE \/ \E a \in Accounts : HandleConnectWallet(a)
           \/ OnWalletChanged \/ Navigate
           \/ \E apm \in Authored : HandlePolicyBuildConstruction(apm)
           \/ HandlePolicyBuildActivation
  <2>1. PageFits(page', journeys') /\ NoneSigned(p, page') BY <1>2, <1>9, PageChanges
  <2>2. txs' = txs
    BY <1>9 DEF HandleConnectWallet, OnWalletChanged, Navigate, HandlePolicyBuildConstruction,
                HandlePolicyBuildActivation
  <2> QED BY <1>3, <2>1, <2>2
<1>10. CASE \/ \E b \in page.builds : Prepared(b)
            \/ HandlePolicyVerifySeal
            \/ \E r \in page.reads : SealRead(r) \/ SealReadFails(r)
  <2>1. PageFits(page', journeys') /\ NoneSigned(p, page') BY <1>2, <1>10, DraftOrSeal
  <2>2. txs' = txs BY <1>10 DEF Prepared, HandlePolicyVerifySeal, SealRead, SealReadFails
  <2> QED BY <1>3, <2>1, <2>2
<1>11. CASE \/ SubmitLiveWrite
            \/ \E r \in page.reviews :
                 Confirm(r) \/ ReEstimate(r) \/ ReviewFails(r) \/ TrackedFinal(r)
  <2>1. PageFits(page', journeys') /\ NoneSigned(p, page') BY <1>2, <1>11, ReviewChanges
  <2>2. txs' = txs
    BY <1>11 DEF SubmitLiveWrite, Confirm, ReEstimate, ReviewFails, TrackedFinal
  <2> QED BY <1>3, <2>1, <2>2
<1> QED BY <1>4, <1>5, <1>6, <1>7, <1>8, <1>9, <1>10, <1>11
        DEF ConstructionNext, JourneyNext, JourneyStep

\* A tracked transaction of a draft that names its signer was signed by that account,
\* whatever the user pressed and however often the wallet changed meanwhile (submitWrite
\* in adapters.js compares the connected account with the draft's expectedSigner).
THEOREM TrackedAlwaysSigned == ConstructionSpec => []SignedByItsSigner
<1>1. ConstructionInit => SignedInv BY SignedStarts
<1>2. SignedInv /\ [ConstructionNext]_constructionVars => SignedInv' BY SignedGoesOn
<1>3. SignedInv => SignedByItsSigner BY DEF SignedInv, SignedReview, SignedByItsSigner
<1> QED BY <1>1, <1>2, <1>3, PTL DEF ConstructionSpec

=============================================================================
