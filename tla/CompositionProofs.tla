--------------------------- MODULE CompositionProofs ---------------------------
(***************************************************************************)
(* Theorems about Composition, for every set of interfaces and versions    *)
(* and every deployment.                                                   *)
(***************************************************************************)
EXTENDS Composition, TLAPS

\* What has been decided at a stage is decided for good: the bridges that are kept import
\* only what they may, and what is composed follows from the deployment alone.
BeforeCheck == {"load", "discover", "check"}
BeforeCompose == BeforeCheck \union {"capabilities", "compose"}
BeforeLoad    == BeforeCompose \union {"loadComposed"}

Decided ==
  /\ stage \notin BeforeCheck \union {"failed"} =>
       \A b \in BridgesOf(deployment) : ReachesOnlyAllowed(b)
  /\ stage \notin BeforeCheck \union {"capabilities", "failed"} =>
       /\ wanted = WantedBridges(deployment)
       /\ warned = UnusedBridges(deployment)
  /\ stage \notin BeforeLoad \union {"failed"} =>
       needs = ComposedImports(deployment, wanted)

ManifestWritten ==
  stage = "published" => manifest = [k \in 1..Len(deployment.bridges) |-> Status(k)]

CIInv == CompositionTypeOK /\ Decided /\ ManifestWritten

-----------------------------------------------------------------------------
(* Versions *)

\* compatible_with (validate.rs) and check_version (bridge.rs) write the rule down twice, and
\* differently.  Both are what their comments say, so they cannot disagree on a bridge.
THEOREM RulesAgree ==
  ASSUME NEW have \in Reference, NEW want \in Reference
  PROVE  /\ Compatible(have, want) <=> Meets(have, want)
         /\ BridgeCompatible(have, want) <=> Meets(have, want)
<1>1. CASE NoVersion \in {have.version, want.version}
  BY <1>1 DEF Compatible, BridgeCompatible, Meets
<1>2. CASE NoVersion \notin {have.version, want.version}
  <2>1. have.version \in Version /\ want.version \in Version
    BY <1>2, ReferencesAssumption DEF Reference
  <2> QED
    BY <1>2, <2>1 DEF Compatible, BridgeCompatible, Meets, SameSeries, AtLeast, Version
<1> QED
  BY <1>1, <1>2

-----------------------------------------------------------------------------
(* Deployments *)

\* The parts of a deployment have the types Deployment gives them.
LEMMA DeploymentParts ==
  ASSUME NEW d \in Deployments
  PROVE  /\ d.imports \subseteq Reference
         /\ Len(d.bridges) \in Nat
         /\ \A k \in 1..Len(d.bridges) :
              /\ d.bridges[k] \in BridgesOf(d)
              /\ d.bridges[k].file.imports \subseteq Reference
<1>1. d \in Deployment
  BY DeploymentsAssumption
<1>2. d.imports \subseteq Reference /\ d.bridges \in Seq(Bridge)
  BY <1>1 DEF Deployment
<1>3. ASSUME NEW k \in 1..Len(d.bridges)
      PROVE  d.bridges[k] \in BridgesOf(d) /\ d.bridges[k].file.imports \subseteq Reference
  <2>1. d.bridges[k] \in Bridge
    BY <1>2
  <2>2. d.bridges[k].file.imports \subseteq Reference
    BY <2>1 DEF Bridge, File
  <2> QED
    BY <2>2 DEF BridgesOf, InSeq
<1> QED
  BY <1>2, <1>3

\* A bridge is composed in exactly if one with its path is.
LEMMA WantedByPath ==
  ASSUME NEW d, NEW k \in 1..Len(d.bridges)
  PROVE  k \in WantedBridges(d) <=>
           \E c \in WantedBridges(d) : d.bridges[c].key.path = d.bridges[k].key.path
  BY DEF WantedBridges

\* What the composed component needs are references.
LEMMA ComposedImportsType ==
  ASSUME NEW d \in Deployments, NEW K \in SUBSET (1..Len(d.bridges))
  PROVE  ComposedImports(d, K) \subseteq Reference
  BY DeploymentParts DEF ComposedImports

-----------------------------------------------------------------------------
(* The invariant *)

LEMMA InitDecided == Init => CIInv
<1> SUFFICES ASSUME Init PROVE CIInv
  OBVIOUS
<1>1. CompositionTypeOK
  BY DEF Init, CompositionTypeOK, Stages, Errors
<1> QED
  BY <1>1 DEF Init, CIInv, Decided, ManifestWritten, BeforeCheck, BeforeCompose, BeforeLoad

\* A step that only moves on, or fails, leaves types in place.
LEMMA TypePreserved ==
  ASSUME CompositionTypeOK, [Next]_vars
  PROVE  CompositionTypeOK'
<1> USE DEF CompositionTypeOK, Stages, Errors, Proceed, Fail, Built
<1>1. CASE LoadGuest
  BY <1>1 DEF LoadGuest
<1>2. CASE DiscoverBridges
  BY <1>2 DEF DiscoverBridges
<1>3. CASE CheckBridges
  BY <1>3 DEF CheckBridges
<1>4. CASE CheckCapabilities
  <2>1. WantedBridges(deployment) \subseteq 1..Len(deployment.bridges)
    BY DEF WantedBridges
  <2>2. UnusedBridges(deployment) \subseteq 1..Len(deployment.bridges)
    BY DEF UnusedBridges
  <2> QED
    BY <1>4, <2>1, <2>2 DEF CheckCapabilities
<1>5. CASE Compose
  BY <1>5 DEF Compose
<1>6. CASE LoadComposed
  <2>1. ComposedImports(deployment, wanted) \subseteq Reference
    BY ComposedImportsType
  <2> QED
    BY <1>6, <2>1 DEF LoadComposed
<1>7. CASE ValidateGuest
  BY <1>7 DEF ValidateGuest
<1>8. CASE FillPool
  BY <1>8 DEF FillPool
<1>9. CASE EmitManifest
  <2>1. \A k \in 1..Len(deployment.bridges) : Status(k) \in {"active", "unavailable"}
    BY DEF Status
  <2>2. Len(deployment.bridges) \in Nat
    BY DeploymentParts
  <2>3. manifest' \in Seq({"active", "unavailable"})
    BY <1>9, <2>1, <2>2 DEF EmitManifest
  <2> QED
    BY <1>9, <2>3 DEF EmitManifest
<1>10. CASE UNCHANGED vars
  BY <1>10 DEF vars
<1> QED
  BY <1>1, <1>2, <1>3, <1>4, <1>5, <1>6, <1>7, <1>8, <1>9, <1>10 DEF Next

\* Every step keeps what has been decided, and decides at most one thing more.
LEMMA StepDecided ==
  ASSUME CIInv, [Next]_vars
  PROVE  CIInv'
<1> USE DEF Proceed, Fail, Built, BeforeCheck, BeforeCompose, BeforeLoad
<1>1. CompositionTypeOK'
  BY TypePreserved DEF CIInv
<1>2. Decided'
  <2> USE DEF CIInv, Decided
  <2>1. CASE LoadGuest
    BY <2>1 DEF LoadGuest
  <2>2. CASE DiscoverBridges
    BY <2>2 DEF DiscoverBridges
  <2>3. CASE CheckBridges
    BY <2>3 DEF CheckBridges
  <2>4. CASE CheckCapabilities
    BY <2>4 DEF CheckCapabilities
  <2>5. CASE Compose
    BY <2>5 DEF Compose
  <2>6. CASE LoadComposed
    BY <2>6 DEF LoadComposed
  <2>7. CASE ValidateGuest
    BY <2>7 DEF ValidateGuest
  <2>8. CASE FillPool
    BY <2>8 DEF FillPool
  <2>9. CASE EmitManifest
    BY <2>9 DEF EmitManifest
  <2>10. CASE UNCHANGED vars
    BY <2>10 DEF vars
  <2> QED
    BY <2>1, <2>2, <2>3, <2>4, <2>5, <2>6, <2>7, <2>8, <2>9, <2>10 DEF Next
<1>3. ManifestWritten'
  <2>1. CASE EmitManifest
    BY <2>1 DEF EmitManifest, ManifestWritten, Status
  <2>2. CASE UNCHANGED vars
    BY <2>2 DEF vars, CIInv, ManifestWritten, Status
  <2>3. CASE ~EmitManifest /\ Next
    BY <2>3 DEF Next, LoadGuest, DiscoverBridges, CheckBridges, CheckCapabilities, Compose,
                LoadComposed, ValidateGuest, FillPool, ManifestWritten
  <2> QED
    BY <2>1, <2>2, <2>3
<1> QED
  BY <1>1, <1>2, <1>3 DEF CIInv

\* The invariant the theorems below rest on.
THEOREM DecidedForGood == Spec => []CIInv
<1>1. CIInv /\ [Next]_vars => CIInv'
  BY StepDecided
<1> QED
  BY InitDecided, <1>1, PTL DEF Spec

-----------------------------------------------------------------------------
(* The properties *)

\* Every variable of a build holds a value of its kind, and a build fails exactly when it has
\* an error.
THEOREM BuildTypeCorrect == Spec => []CompositionTypeOK
<1>1. CIInv => CompositionTypeOK
  BY DEF CIInv
<1> QED
  BY DecidedForGood, <1>1, PTL

\* Composition gives a guest no import outside the bridges' allowlist (CLNH-22), although only
\* the bridges are checked against it and never the result.
THEOREM BridgesStayInside == Spec => []BridgesBringOnlyAllowed
<1>1. CIInv => BridgesBringOnlyAllowed
  <2> SUFFICES ASSUME CIInv, Accepted, NEW r \in needs \ deployment.imports
               PROVE  r.path \in BridgeReachable
    BY DEF BridgesBringOnlyAllowed, PathsOf
  <2>1. deployment \in Deployments /\ wanted \subseteq 1..Len(deployment.bridges)
    BY DEF CIInv, CompositionTypeOK
  <2>2. needs = ComposedImports(deployment, wanted)
    BY DEF CIInv, Decided, Accepted, BeforeCheck, BeforeCompose, BeforeLoad
  <2>3. PICK k \in wanted : r \in deployment.bridges[k].file.imports
    BY <2>2 DEF ComposedImports
  <2>4. deployment.bridges[k] \in BridgesOf(deployment)
    BY <2>1, DeploymentParts
  <2>5. ReachesOnlyAllowed(deployment.bridges[k])
    BY <2>4 DEF CIInv, Decided, Accepted, BeforeCheck
  <2> QED
    BY <2>3, <2>5 DEF ReachesOnlyAllowed
<1> QED
  BY DecidedForGood, <1>1, PTL

\* A published manifest calls exactly the composed bridges active (CLNH-44), although it goes
\* by path and composition by position.
THEOREM ManifestIsTrue == Spec => []ManifestTellsComposed
<1>1. CIInv => ManifestTellsComposed
  <2> SUFFICES ASSUME CIInv, stage = "published"
               PROVE  {k \in 1..Len(manifest) : manifest[k] = "active"} = wanted
    BY DEF ManifestTellsComposed
  <2>1. wanted = WantedBridges(deployment) /\ wanted \subseteq 1..Len(deployment.bridges)
    BY DEF CIInv, Decided, CompositionTypeOK, BeforeCheck
  <2>2. manifest = [k \in 1..Len(deployment.bridges) |-> Status(k)]
    BY DEF CIInv, ManifestWritten
  <2>3. Len(deployment.bridges) \in Nat
    BY DeploymentParts DEF CIInv, CompositionTypeOK
  <2>4. Len(manifest) = Len(deployment.bridges)
    BY <2>2, <2>3
  <2>5. \A k \in 1..Len(deployment.bridges) : Status(k) = "active" <=> k \in wanted
    BY <2>1, WantedByPath DEF Status
  <2> QED
    BY <2>1, <2>2, <2>4, <2>5
<1> QED
  BY DecidedForGood, <1>1, PTL
=============================================================================
