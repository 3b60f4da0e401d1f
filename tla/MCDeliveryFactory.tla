--------------------------- MODULE MCDeliveryFactory ---------------------------
(* Two tasks of the release gate one after the other (a change to a page of    *)
(* the product, a change to the factory itself), the task that follows them,   *)
(* the deferred one and the owner's. The paths stand for docs/guide.md, src/components/card.tsx,        *)
(* src/lib/factory/queue.ts, src/lib/auth/session.ts and                       *)
(* src/lib/billing/payment.ts, with what each table of rules makes of them.    *)
EXTENDS DeliveryFactory, TLC

MCTasks == {40, 50, 60, 70, 1010}
MCDeps == (40 :> {}) @@ (50 :> {40}) @@ (60 :> {50}) @@ (70 :> {60}) @@ (1010 :> {60})
MCRisk == (40 :> "medium") @@ (50 :> "high") @@ (60 :> "high") @@ (70 :> "high")
            @@ (1010 :> "high")

MCRules == ("docs" :> {"docs_only"}) @@ ("ui" :> {"product_ui"})
             @@ ("factory" :> {"roadmap_release_control_plane"})
             @@ ("auth" :> {"auth_session"})
             @@ ("payment" :> {"billing_webhook_refund"})
MCQueueSurfaces == [p \in {"docs", "ui", "factory", "auth", "payment"} |->
                      IF p = "payment" THEN {"payment", "billing"} ELSE {}]
MCHardBlocked == {"payment", "billing"}

\* 1 to 3 are build, full_test_suite and targeted_tests, 4 the roadmap's parse,
\* 5 and 6 the queue's evidence, 7 the rollback rehearsal
MCChecks == 1..3
MCQueueChecks == {1, 3}
MCValidation == [t \in MCTasks |-> {3}]
MCNames == 1..7
MCFailureSets == {{1}}

MCChanged == [t \in MCTasks |-> IF t = 40 THEN {"ui"} ELSE {"factory"}]
MCSurface == [t \in MCTasks |-> IF t = 40 THEN "product_ui"
                                ELSE "factory_control_plane"]

MCSupported == {"docs_only", "product_ui"}
MCCandidates ==
  <<[task |-> 1020, status |-> "proposed", risk |-> "medium",
     surface |-> "product_ui", deps |-> {50}, paths |-> {"ui"},
     forbidden |-> {}, needsOwner |-> FALSE],
    [task |-> 1030, status |-> "proposed", risk |-> "low",
     surface |-> "docs_only", deps |-> {50}, paths |-> {"docs"},
     forbidden |-> {}, needsOwner |-> FALSE]>>
=============================================================================
