------------------------------- MODULE RiskGate -------------------------------
(* risk-classifier.ts and quality-gate.ts of src/lib/factory: how risky a     *)
(* change is, and whether what was reported about it is enough.               *)
(*                                                                            *)
(* A path is what the path rules make of it: the set of rule ids it matches   *)
(* in each table. Every module of the factory has a table of its own, and the *)
(* tables differ.                                                             *)
EXTENDS Integers, FiniteSets

CONSTANTS
  Paths,           \* the changed files there can be
  Rules,           \* [Paths -> SUBSET rule ids], the classifier's rules
  RoadmapJson,     \* the paths that are roadmap JSON,
  TestFiles,       \* tests,
  SourceFiles,     \* .ts or .tsx under src
  Checks,          \* typecheck, lint, build, full_test_suite, targeted_tests
  FullSuite,       \* full_test_suite, the check only high risk needs
  TargetedTests,   \* targeted_tests
  RoadmapChecks    \* roadmap_json_parse and roadmap_structural_check

ASSUME PathAssumption ==
  /\ RoadmapJson \cup TestFiles \cup SourceFiles \subseteq Paths
  /\ {FullSuite, TargetedTests} \subseteq Checks
  /\ DOMAIN Rules = Paths

HardProtectedRules ==
  {"secrets_env", "github_workflows", "codeowners", "agents_policy",
   "canonical_monetization", "roadmap_release_control_plane",
   "deployment_dns_production_data"}
LowRules == {"tests_only", "fixtures_only", "docs_only"}
HighRuntimeRules ==
  {"auth_session", "database_rls", "account_sync", "entitlement_grant",
   "usage_ledger", "billing_webhook_refund", "private_asset_download",
   "ai_provider"}
MediumRules == {"product_ui", "app_server_logic"}

LowSurfaces == LowRules \cup {"non_behavioral_refactor"}
MediumSurfaces == MediumRules
HighSurfaces == HardProtectedRules \cup HighRuntimeRules
                  \cup {"factory_control_plane"}
Surfaces == LowSurfaces \cup MediumSurfaces \cup HighSurfaces

NoSurface == "none"

\* maxRisk over a set of risks
Highest(risks) ==
  IF "high" \in risks THEN "high"
  ELSE IF "medium" \in risks THEN "medium" ELSE "low"

SurfaceRisk(surface) ==
  IF surface \in LowSurfaces \cup {NoSurface} THEN "low"
  ELSE IF surface \in MediumSurfaces THEN "medium" ELSE "high"

\* The tables in order: protected, low, high runtime, medium; unknown is high
ClassifyPath(path, surface) ==
  CASE Rules[path] \cap HardProtectedRules # {} -> "high"
    [] Rules[path] \cap HardProtectedRules = {}
         /\ Rules[path] \cap LowRules # {} -> "low"
    [] Rules[path] \cap (HardProtectedRules \cup LowRules) = {}
         /\ Rules[path] \cap HighRuntimeRules = {}
         /\ Rules[path] \cap MediumRules # {} ->
           IF surface = "non_behavioral_refactor" THEN "low" ELSE "medium"
    [] OTHER -> "high"

ClassifyRisk(paths, surface) ==
  IF paths = {} THEN "high"
  ELSE Highest({SurfaceRisk(surface)}
                 \cup {ClassifyPath(p, surface) : p \in paths})

\* protectedPaths of a classification
RiskyPaths(paths, surface) ==
  {p \in paths : ClassifyPath(p, surface) = "high"}

-----------------------------------------------------------------------------
(* quality-gate.ts. An item of evidence is                                    *)
(*   [name, status, text, commit, at, noOp]                                   *)
(* text orders the evidence texts as strings are, 0 is no text.               *)

NoText == 0

Named(items, name) == {i \in items : i.name = name}

\* getRequiredChecks; the owner's approval is apart
RequiredChecks(risk, surface, paths) ==
  CASE risk = "high" -> Checks
    [] risk = "medium" -> Checks \ {FullSuite}
    [] risk = "low" /\ surface = "docs_only" ->
         (IF paths \cap RoadmapJson # {} THEN RoadmapChecks ELSE {TargetedTests})
           \cup (IF paths \cap TestFiles # {} THEN {TargetedTests} ELSE {})
    [] risk = "low" /\ surface = "non_behavioral_refactor"
         /\ paths \cap SourceFiles # {} -> Checks \ {FullSuite}
    [] OTHER -> {TargetedTests}

\* summarizeRequiredChecks: any failed result fails the check
FailedChecks(required, items) ==
  {c \in required : \E i \in Named(items, c) : i.status = "failed"}
MissingChecks(required, items) ==
  {c \in required \ FailedChecks(required, items) :
     ~\E i \in Named(items, c) : i.status = "passed" /\ i.text # NoText}

\* The risk is the caller's claim, high when it cannot be right
EffectiveRisk(risk, surface, paths) ==
  IF paths = {} \/ risk \notin {"low", "medium", "high"} \/ surface \notin Surfaces
  THEN "high" ELSE risk

\* evaluateFactoryQualityGate
QualityGatePasses(risk, surface, paths, items, approved) ==
  LET effective == EffectiveRisk(risk, surface, paths)
      required == RequiredChecks(effective, surface, paths)
  IN  /\ paths # {}
      /\ risk \in {"low", "medium", "high"}
      /\ surface \in Surfaces
      /\ FailedChecks(required, items) = {}
      /\ MissingChecks(required, items) = {}
      /\ effective = "high" => approved
=============================================================================
