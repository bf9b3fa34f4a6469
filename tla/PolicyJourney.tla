---------------------------- MODULE PolicyJourney ----------------------------
(* The browser's "Author & review policy" page: a manifest is compiled into a *)
(* plan whose calls are prepared, reviewed, signed and tracked one at a time, *)
(* then sealed, waited for and activated.  Preparing a call, reading the seal, *)
(* signing and tracking take time, in which the user goes on using page and   *)
(* wallet.                                                                    *)
EXTENDS PolicyWrites

CONSTANTS
  Authored,          \* the manifests typed into the form
  Patient,           \* TRUE: the user presses nothing while a draft is prepared or a
                     \* seal read for the panel there is
  NoAccount, Anyone, \* no wallet connected; a draft whose expectedSigner is null
  MaxBuilds,         \* bound: construction sequences built
  MaxInterruptions   \* bound: wallet changes, page changes, and failures together

ASSUME JourneyAssumption ==
  /\ Authored \subseteq ApmType /\ \A apm \in Authored : Compiles(apm)
  /\ Patient \in BOOLEAN /\ NoAccount \notin Accounts /\ Anyone \notin Accounts
  /\ MaxBuilds \in Nat /\ MaxInterruptions \in Nat

VARIABLES
  journeys,      \* every state.policyJourney so far: old ones live on in pending calls
  page,          \* state, draftRegistry, what the panel shows, and what is under way
  interruptions

journeyVars == <<writesVars, journeys, page, interruptions>>

NoJourney == 0
Nothing == [shows |-> "nothing"]
Step(n) == [name |-> "policyStep", n |-> n]
Activate == [name |-> "policyActivate", n |-> 0]

\* page: account is state.wallet's and the writer's; current is state.policyJourney;
\* screen counts renderings of the page; builds are drafts being prepared, reads the
\* seals being read, each with the journey and the panel that were there when it began;
\* reviews are open in the Transaction Kit, those no longer shown among them.
PageInit ==
  /\ journeys = <<>>
  /\ page = [account |-> NoAccount, current |-> NoJourney, drafts |-> <<>>, screen |-> 1,
             panel |-> Nothing, builds |-> {}, reads |-> {}, reviews |-> {}]
  /\ interruptions = 0

Current == journeys[page.current]
Finished(j) == j.index = Len(j.calls)
Unhurried ==
  Patient => page.builds = {} /\ \A r \in page.reads : r.screen # page.screen
Interrupt == interruptions < MaxInterruptions /\ interruptions' = interruptions + 1

\* innerHTML replaces what the panel showed. A review goes on if it was confirmed.
Shown(p, panel) ==
  [p EXCEPT !.panel = panel,
     !.reviews = {[r EXCEPT !.shown = FALSE] : r \in
                    {s \in p.reviews : s.at \in {"signing", "tracking"}}}]

\* The plan of state.policyJourney, its seal confirmed, and a button to wait or activate.
Confirming(button, p) == [shows |-> button, plan |-> p.current]

\* renderPolicyJourneyStep, up to its await.
Preparing(p, js) ==
  IF p.current = NoJourney THEN p
  ELSE LET j == js[p.current] IN
       IF ~Finished(j)
       THEN [p EXCEPT !.builds = @ \cup {[journey |-> p.current, screen |-> p.screen,
                                          call |-> j.calls[j.index + 1]]}]
       ELSE Shown(p, CASE ~j.sealConfirmed -> [shows |-> "verify"]
                       [] j.sealConfirmed /\ ~j.activationBuilt -> Confirming("activate", p)
                       [] j.sealConfirmed /\ j.activationBuilt -> Nothing)

-----------------------------------------------------------------------------
(* Wallet and page *)

HandleConnectWallet(a) ==
  /\ page.account = NoAccount
  /\ page' = [page EXCEPT !.account = a]
  /\ UNCHANGED <<policyVars, built, txs, journeys, interruptions>>

\* accountsChanged or chainChanged: every draft and the journey go, the page renders.
OnWalletChanged ==
  /\ page.account # NoAccount /\ Interrupt
  /\ page' = [Shown(page, Nothing) EXCEPT !.account = NoAccount, !.drafts = <<>>,
                !.current = NoJourney, !.screen = @ + 1]
  /\ UNCHANGED <<policyVars, built, txs, journeys>>

\* The user leaves the page and returns to it.
Navigate ==
  /\ page.current # NoJourney /\ Interrupt
  /\ page' = [Shown(page, Nothing) EXCEPT !.screen = @ + 1]
  /\ UNCHANGED <<policyVars, built, txs, journeys>>

-----------------------------------------------------------------------------
(* Preparing drafts *)

HandlePolicyBuildConstruction(apm) ==
  /\ Len(journeys) < MaxBuilds
  /\ Unhurried
  /\ LET js == Append(journeys, [apm |-> apm, calls |-> CompiledCalls(apm), index |-> 0,
                                 sealConfirmed |-> FALSE, activationBuilt |-> FALSE])
     IN  /\ journeys' = js
         /\ page' = Preparing([page EXCEPT !.current = Len(js)], js)
  /\ UNCHANGED <<policyVars, built, txs, interruptions>>

\* The step a draft is registered for is read when it is ready.
KindOf(b) ==
  IF b.call.fn = "activate_policy" THEN Activate ELSE Step(journeys[b.journey].index)

RegisterDraft(kind, draft) ==
  [k \in DOMAIN page.drafts \cup {kind} |-> IF k = kind THEN draft ELSE page.drafts[k]]

\* buildPreparedWriteForCall has come back: the call was estimated, which runs it, and
\* the target's owner read, or not. The panel is the one that was there before.
Prepared(b) ==
  /\ b \in page.builds
  /\ LET rest == [page EXCEPT !.builds = @ \ {b}]
         fail == IF b.screen = page.screen THEN Shown(rest, Nothing) ELSE rest
         kind == KindOf(b)
         done(draft) ==
           LET registered == [rest EXCEPT !.drafts = RegisterDraft(kind, draft)] IN
           IF b.screen # page.screen THEN registered
           ELSE Shown(registered, [shows |-> "draft", kind |-> kind, draft |-> draft])
     IN  IF Reverts(b.call)
         THEN page' = fail /\ UNCHANGED <<journeys, interruptions>>
         ELSE /\ \/ /\ page' = done([call |-> b.call, signer |-> Owner])
                    /\ UNCHANGED interruptions
                 \/ page' = done([call |-> b.call, signer |-> Anyone]) /\ Interrupt
              /\ journeys' = IF kind # Activate THEN journeys
                             ELSE [journeys EXCEPT ![b.journey].activationBuilt = TRUE]
  /\ UNCHANGED <<policyVars, built, txs>>

-----------------------------------------------------------------------------
(* Seal and activation *)

\* handlePolicyVerifySeal, up to its await: "Verify seal on-chain", "Re-check timelock".
HandlePolicyVerifySeal ==
  /\ page.panel.shows \in {"verify", "wait"} /\ Unhurried
  /\ page' = [page EXCEPT !.reads = @ \cup
                {[journey |-> page.current, screen |-> page.screen]}]
  /\ UNCHANGED <<policyVars, built, txs, journeys, interruptions>>

\* What a read that is over writes goes into the panel that was there when it began.
AfterRead(r, panel) ==
  LET rest == [page EXCEPT !.reads = @ \ {r}] IN
  IF r.screen = page.screen THEN Shown(rest, panel) ELSE rest

\* Faulty variant: while the delay runs nothing is offered.
SealReadOnce(r) ==
  /\ r \in page.reads
  /\ LET policy == policies[journeys[r.journey].apm.policyId] IN
     IF ~policy.sealed THEN page' = AfterRead(r, Nothing) /\ UNCHANGED journeys
     ELSE /\ journeys' = [journeys EXCEPT ![r.journey].sealConfirmed = TRUE]
          /\ page' = AfterRead(r, IF now < policy.sealedAt + MinDelay THEN Nothing
                                  ELSE Confirming("activate", page))
  /\ UNCHANGED <<policyVars, built, txs, interruptions>>

\* get_policy_lifecycle answers for the journey the button was pressed for. Plan and
\* buttons written are those of the journey there is now.
SealRead(r) ==
  /\ r \in page.reads
  /\ LET policy == policies[journeys[r.journey].apm.policyId] IN
     IF ~policy.sealed THEN page' = AfterRead(r, Nothing) /\ UNCHANGED journeys
     ELSE /\ journeys' = [journeys EXCEPT ![r.journey].sealConfirmed = TRUE]
          /\ page' = AfterRead(r, Confirming(IF now < policy.sealedAt + MinDelay
                                             THEN "wait" ELSE "activate", page))
  /\ UNCHANGED <<policyVars, built, txs, interruptions>>

\* It cannot be read; the panel keeps no button.
SealReadFails(r) ==
  /\ r \in page.reads /\ Interrupt
  /\ page' = AfterRead(r, Nothing)
  /\ UNCHANGED <<policyVars, built, txs, journeys>>

HandlePolicyBuildActivation ==
  /\ page.panel.shows = "activate" /\ Unhurried
  /\ page' = [page EXCEPT !.builds = @ \cup
                {[journey |-> page.current, screen |-> page.screen,
                  call |-> ActivateCall(Current.apm.policyId)]}]
  /\ UNCHANGED <<policyVars, built, txs, journeys, interruptions>>

-----------------------------------------------------------------------------
(* Review, signature, tracking *)

\* submitPolicyJourneyStep and submitLiveWrite: what is registered goes to review.
SubmitLiveWrite ==
  /\ page.panel.shows = "draft" /\ page.account # NoAccount /\ Unhurried
  /\ LET kind == IF page.panel.kind = Activate THEN Activate ELSE Step(Current.index) IN
     /\ kind \in DOMAIN page.drafts
     /\ kind = page.panel.kind
     /\ page' = [page EXCEPT !.panel = Nothing, !.reviews = @ \cup
                   {[journey |-> page.current, kind |-> kind, draft |-> page.drafts[kind],
                     at |-> "review", tx |-> 0, shown |-> TRUE, waited |-> TRUE]}]
  /\ UNCHANGED <<policyVars, built, txs, journeys, interruptions>>

With(p, r, s) == [p EXCEPT !.reviews = (@ \ {r}) \cup {s}]
Without(p, r) == [p EXCEPT !.reviews = @ \ {r}]

\* onError: nobody waits for the outcome any more; the kit offers to estimate again.
Failed(p, r) ==
  IF r.shown THEN With(p, r, [r EXCEPT !.at = "error", !.waited = FALSE]) ELSE Without(p, r)

\* HoldToSign; submitWrite reads the wallet's chain id first.
Confirm(r) ==
  /\ r \in page.reviews /\ r.at = "review" /\ page.account # NoAccount
  /\ page' = With(page, r, [r EXCEPT !.at = "signing"])
  /\ UNCHANGED <<policyVars, built, txs, journeys, interruptions>>

\* Faulty variant: the signer is not checked again once the wallet has answered.
SignUnchecked(r) ==
  /\ r \in page.reviews /\ r.at = "signing"
  /\ IF page.account # NoAccount
     THEN /\ Submit(r.draft.call, page.account)
          /\ page' = [With(page, r, [r EXCEPT !.at = "tracking", !.tx = Len(txs) + 1])
                        EXCEPT !.drafts = [k \in DOMAIN @ \ {r.kind} |-> @[k]]]
     ELSE page' = Failed(page, r) /\ UNCHANGED txs
  /\ UNCHANGED <<policyVars, built, journeys, interruptions>>

\* The rest of submitWrite, with the writer connected by now; onSubmitted.
Sign(r) ==
  /\ r \in page.reviews /\ r.at = "signing"
  /\ IF page.account # NoAccount /\ r.draft.signer \in {page.account, Anyone}
     THEN /\ Submit(r.draft.call, page.account)
          /\ page' = [With(page, r, [r EXCEPT !.at = "tracking", !.tx = Len(txs) + 1])
                        EXCEPT !.drafts = [k \in DOMAIN @ \ {r.kind} |-> @[k]]]
     ELSE page' = Failed(page, r) /\ UNCHANGED txs
  /\ UNCHANGED <<policyVars, built, journeys, interruptions>>

\* The user rejects the signature, an RPC call fails, or tracking gives up.
ReviewFails(r) ==
  /\ r \in page.reviews /\ r.at \in {"signing", "tracking"} /\ Interrupt
  /\ page' = Failed(page, r)
  /\ UNCHANGED <<policyVars, built, txs, journeys>>

\* "Re-estimate": the draft may be confirmed again, submitted before or not.
ReEstimate(r) ==
  /\ r \in page.reviews /\ r.at = "error"
  /\ page' = With(page, r, [r EXCEPT !.at = "review"])
  /\ UNCHANGED <<policyVars, built, txs, journeys, interruptions>>

\* Faulty variant: the sequence advances when the transaction is final.
AdvanceWhenFinal(r) ==
  /\ r \in page.reviews /\ r.at = "tracking" /\ IsFinal(r.tx)
  /\ IF r.waited /\ r.kind # Activate
     THEN /\ journeys' = [journeys EXCEPT ![r.journey].index = @ + 1]
          /\ page' = Preparing(Without(page, r), journeys')
     ELSE page' = Without(page, r) /\ UNCHANGED journeys
  /\ UNCHANGED <<policyVars, built, txs, interruptions>>

\* onDone, and for a step of a sequence what submitPolicyJourneyStep does then.
TrackedFinal(r) ==
  /\ r \in page.reviews /\ r.at = "tracking" /\ IsFinal(r.tx)
  /\ LET rest == Without(page, r) IN
     IF ~r.waited \/ r.kind = Activate THEN page' = rest /\ UNCHANGED journeys
     ELSE IF Succeeded(r.tx)
     THEN /\ journeys' = [journeys EXCEPT ![r.journey].index = @ + 1]
          /\ page' = Preparing(rest, journeys')
     ELSE /\ page' = IF page.current = NoJourney THEN rest ELSE Shown(rest, Nothing)
          /\ UNCHANGED journeys
  /\ UNCHANGED <<policyVars, built, txs, interruptions>>

\* Time matters while the activation delay runs.
TickTimelock ==
  /\ page.current # NoJourney /\ policies[Current.apm.policyId].sealed
  /\ now < policies[Current.apm.policyId].sealedAt + MinDelay
  /\ Tick
  /\ UNCHANGED <<txs, built, journeys, page, interruptions>>

-----------------------------------------------------------------------------
\* What a user at the page who wants the policy does, and what answers.
JourneyStep ==
  \/ \E b \in page.builds : Prepared(b)
  \/ SubmitLiveWrite
  \/ \E r \in page.reviews : Confirm(r) \/ Sign(r) \/ TrackedFinal(r)
  \/ HandlePolicyVerifySeal \/ \E r \in page.reads : SealRead(r)
  \/ HandlePolicyBuildActivation \/ TickTimelock

JourneyNext ==
  \/ JourneyStep
  \/ \E a \in Accounts : HandleConnectWallet(a)
  \/ OnWalletChanged \/ Navigate
  \/ \E apm \in Authored : HandlePolicyBuildConstruction(apm)
  \/ \E r \in page.reads : SealReadFails(r)
  \/ \E r \in page.reviews : ReviewFails(r) \/ ReEstimate(r)

-----------------------------------------------------------------------------
(* Properties *)

\* When the page says that the seal is confirmed, or has prepared the activation, the
\* kernel holds the policy of the plan it shows, and committed to that plan's hash.
\* (handlePolicyVerifySeal asks only whether the policy is sealed, and of the journey it
\* was pressed for; the plan is that of the journey there is when the answer comes.)
SealConfirmedIsThePlan ==
  \A n \in DOMAIN journeys :
    \/ journeys[n].sealConfirmed \/ journeys[n].activationBuilt
    \/ page.panel.shows \in {"wait", "activate"} /\ page.panel.plan = n
    => Verified(built[journeys[n].apm.policyId], TRUE, journeys[n].apm)

\* A draft prepared for an account is signed by that account only, also when the
\* wallet was changed and connected again while the signature was under way.
SignedByItsSigner ==
  \A r \in page.reviews :
    r.at = "tracking" /\ r.draft.signer # Anyone => txs[r.tx].signer = r.draft.signer

\* What goes to review for a construction step is the current step of the current
\* sequence (app.js:669, submitPolicyJourneyStep: "Submits the CURRENT step").
SubmitsTheCurrentStep ==
  [][SubmitLiveWrite => \A r \in page'.reviews \ page.reviews :
       r.kind # Activate => r.draft.call = Current.calls[Current.index + 1]]_journeyVars
=============================================================================
