------------------------------ MODULE Composition ------------------------------
(***************************************************************************)
(* How the host decides whether a guest may run and what it is composed    *)
(* with: Host::build_composition and Host::emit_manifest (src/lib.rs) with *)
(* the functions they call (bridge.rs, compose.rs, validate.rs,            *)
(* manifest.rs).                                                           *)
(*                                                                         *)
(* A reference is a path and a version; a version that is absent or does   *)
(* not parse is NoVersion.  The files, the configuration and what the host *)
(* provides make up a deployment, which does not change during a build.    *)
(* One step is one call of build_composition, in its order, with its early *)
(* return.                                                                 *)
(***************************************************************************)
EXTENDS Integers, Sequences, FiniteSetsExt

CONSTANTS
  Paths,            \* interface paths, as clean:session/store
  Ambient,          \* those every guest may import: WASI, and three of clean:host
  BridgeReachable,  \* those a bridge may import: WASI, clean:host, the envelopes
  Versions,         \* version numbers
  NoVersion,
  Deployments       \* the deployments looked at

Version   == [major : Nat, minor : Nat, patch : Nat]
Reference == [path : Paths, version : Versions \union {NoVersion}]

\* A file that is no component, or is missing, is not valid.  `imports` and `exports` are what
\* introspection reports, `own` the exports the composer finds.
File   == [valid : BOOLEAN, imports : SUBSET Reference, exports : Seq(Reference),
           own : SUBSET Reference]
Bridge == [key : Reference, file : File]

\* `bridges` and `envelopes` are BTreeMaps, in the order of their keys.  `typesFit` is what the
\* composer thinks of the packages and the types it has to join (COMP-09 to COMP-12).
Deployment ==
  [guestLoads : BOOLEAN, imports : SUBSET Reference, exports : SUBSET Reference,
   own : SUBSET Reference, typesFit : BOOLEAN, composedLoads : BOOLEAN,
   provided : Seq(Reference), envelopes : Seq(Reference), bridges : Seq(Bridge)]

ASSUME ReferencesAssumption ==
  /\ Versions \subseteq Version
  /\ NoVersion \notin Versions
  /\ Ambient \subseteq BridgeReachable
  /\ BridgeReachable \subseteq Paths

ASSUME DeploymentsAssumption == Deployments \subseteq Deployment

VARIABLES
  deployment,  \* what is on disk and configured
  stage,       \* the next call of build_composition, or how it ended
  error,       \* the HostError it ended with
  wanted,      \* positions of the bridges that are composed in (Composed::composed_bridges)
  needs,       \* imports of the composed component
  warned,      \* positions of the bridges that were reported as unused
  manifest     \* status of every position of `bridges` in the manifest, once written

vars == <<deployment, stage, error, wanted, needs, warned, manifest>>

Stages == {"load", "discover", "check", "capabilities", "compose", "loadComposed",
           "validate", "fill", "serving", "published", "failed"}
Errors == {"none", "Config", "BridgeDiscovery", "Validation", "Composition", "Runtime"}

-----------------------------------------------------------------------------
(* Versions: the same rule is written down twice *)

\* Fault: a newer patch of the host no longer will do.
CompatibleExactPatch(have, want) ==
  have.version /= NoVersion /\ want.version /= NoVersion =>
    /\ have.version.major = want.version.major
    /\ have.version.minor = want.version.minor
    /\ have.version.patch = want.version.patch

\* compatible_with, for what the host provides
Compatible(have, want) ==
  have.version /= NoVersion /\ want.version /= NoVersion =>
    LET h == have.version
        w == want.version
    IN /\ w.major = h.major
       /\ IF w.major = 0
            THEN w.minor = h.minor /\ h.patch >= w.patch
            ELSE h.minor > w.minor \/ (h.minor = w.minor /\ h.patch >= w.patch)

\* check_version, for what a bridge exports
BridgeCompatible(have, want) ==
  have.version /= NoVersion /\ want.version /= NoVersion =>
    LET h == have.version
        w == want.version
    IN \/ /\ w.major = 0
          /\ w.major = h.major /\ w.minor = h.minor /\ h.patch >= w.patch
       \/ /\ w.major /= 0
          /\ w.major = h.major
          /\ h.minor > w.minor \/ (h.minor = w.minor /\ h.patch >= w.patch)

-----------------------------------------------------------------------------
(* Bridges *)

Named(references, path) == {r \in references : r.path = path}
InSeq(s) == {s[k] : k \in 1..Len(s)}
Positions(s, path) == {k \in 1..Len(s) : s[k].path = path}
PathsOf(references) == {r.path : r \in references}

BridgesOf(d) == InSeq(d.bridges)

\* The first export with the path of the key; the version of the others is not looked at.
ExportOf(b) == b.file.exports[Min(Positions(b.file.exports, b.key.path))]

\* discover_one
Discovered(b) == b.file.valid /\ Named(InSeq(b.file.exports), b.key.path) /= {}

\* Fault: one import inside the allowlist is enough.
ReachesSomeAllowed(b) ==
  b.file.imports = {} \/ \E i \in b.file.imports : i.path \in BridgeReachable

\* check_imports
ReachesOnlyAllowed(b) == \A i \in b.file.imports : i.path \in BridgeReachable

\* check_version is called with the configuration key, not with what the guest imports.
VersionMatchesKey(b) == BridgeCompatible(ExportOf(b), b.key)

-----------------------------------------------------------------------------
(* Capabilities *)

\* check_capabilities goes by path alone.
SatisfiedPaths(d) ==
  PathsOf(InSeq(d.provided)) \union PathsOf(InSeq(d.envelopes))
    \union {b.key.path : b \in BridgesOf(d)}
Unsatisfied(d) == {i \in d.imports : i.path \notin Ambient \union SatisfiedPaths(d)}

UnusedBridges(d) == {k \in 1..Len(d.bridges) : d.bridges[k].key.path \notin PathsOf(d.imports)}

\* The filter of build_composition.
WantedBridges(d) ==
  {k \in 1..Len(d.bridges) : \E i \in d.imports : i.path = d.bridges[k].key.path}

-----------------------------------------------------------------------------
(* Composition.  The composer (WAC) takes one package of each name, finds the      *)
(* exports it is asked for or fails, and wires an export into the import of the    *)
(* guest that has exactly its name; imports that are wired by nothing are imports  *)
(* of the result.  Without bridges it is not called, and the guest is the result.  *)

Wired(d, K) == {ExportOf(d.bridges[k]) : k \in K}

Joins(d, K) ==
  /\ \A j, k \in K : d.bridges[j].key.path = d.bridges[k].key.path => j = k
  /\ \A k \in K : ExportOf(d.bridges[k]) \in d.bridges[k].file.own
  /\ Wired(d, K) \subseteq d.imports
  /\ d.exports \subseteq d.own
  /\ d.typesFit

Composes(d, K) == K = {} \/ Joins(d, K)

ComposedImports(d, K) ==
  (d.imports \ Wired(d, K)) \union UNION {d.bridges[k].file.imports : k \in K}

-----------------------------------------------------------------------------
(* The load-time check *)

\* check_compliance is given what the host provides, the envelopes, and the
\* configuration keys of all bridges, and keeps the last reference of every path.
Available(d) == d.provided \o d.envelopes \o [k \in 1..Len(d.bridges) |-> d.bridges[k].key]

Registered(d, path) == Available(d)[Max(Positions(Available(d), path))]

\* Fault: presence is checked, the version is not.
ViolationsByPath(d, imports) ==
  {i \in imports : i.path \notin Ambient /\ Named(InSeq(Available(d)), i.path) = {}}

Violations(d, imports) ==
  {i \in imports :
     /\ i.path \notin Ambient
     /\ \/ Named(InSeq(Available(d)), i.path) = {}
        \/ ~Compatible(Registered(d, i.path), i)}

-----------------------------------------------------------------------------
Init ==
  /\ deployment \in Deployments
  /\ stage = "load"
  /\ error = "none"
  /\ wanted = {}
  /\ needs = {}
  /\ warned = {}
  /\ manifest = <<>>

Proceed(next)  == stage' = next /\ UNCHANGED <<deployment, error>>
Fail(kind)     == stage' = "failed" /\ error' = kind /\ UNCHANGED deployment
Built == <<wanted, needs, warned, manifest>>

\* The runtime may have reasons of its own to refuse the bytes.
LoadGuest ==
  /\ stage = "load"
  /\ IF deployment.guestLoads
       THEN Proceed("discover")
       ELSE \E kind \in {"Config", "Runtime"} : Fail(kind)
  /\ UNCHANGED Built

\* All bridges are discovered before the first is checked.
DiscoverBridges ==
  /\ stage = "discover"
  /\ IF \A b \in BridgesOf(deployment) : Discovered(b)
       THEN Proceed("check")
       ELSE Fail("BridgeDiscovery")
  /\ UNCHANGED Built

CheckBridges ==
  /\ stage = "check"
  /\ IF \A b \in BridgesOf(deployment) : ReachesOnlyAllowed(b) /\ VersionMatchesKey(b)
       THEN Proceed("capabilities")
       ELSE Fail("BridgeDiscovery")
  /\ UNCHANGED Built

\* check_capabilities, the warnings, and the choice of bridges
CheckCapabilities ==
  /\ stage = "capabilities"
  /\ IF Unsatisfied(deployment) = {}
       THEN /\ Proceed("compose")
            /\ warned' = UnusedBridges(deployment)
            /\ wanted' = WantedBridges(deployment)
       ELSE Fail("Validation") /\ UNCHANGED <<wanted, warned>>
  /\ UNCHANGED <<needs, manifest>>

Compose ==
  /\ stage = "compose"
  /\ IF Composes(deployment, wanted)
       THEN Proceed("loadComposed")
       ELSE Fail("Composition")
  /\ UNCHANGED Built

LoadComposed ==
  /\ stage = "loadComposed"
  /\ IF deployment.composedLoads
       THEN Proceed("validate") /\ needs' = ComposedImports(deployment, wanted)
       ELSE Fail("Composition") /\ UNCHANGED needs
  /\ UNCHANGED <<wanted, warned, manifest>>

\* Fault: the violations are noted, and the build goes on.
ValidateGuestNotes ==
  /\ stage = "validate"
  /\ stage' = "fill"
  /\ error' = IF Violations(deployment, needs) = {} THEN "none" ELSE "Validation"
  /\ UNCHANGED <<deployment, Built>>

ValidateGuest ==
  /\ stage = "validate"
  /\ IF Violations(deployment, needs) = {} THEN Proceed("fill") ELSE Fail("Validation")
  /\ UNCHANGED Built

\* InstancePool::new: an instance may fail to start.
FillPool ==
  /\ stage = "fill"
  /\ Proceed("serving") \/ Fail("Runtime")
  /\ UNCHANGED Built

\* Fault: the manifest repeats the configuration.
StatusConfigured(k) == "active"

\* A configured bridge is active when one with its path was composed in.
Status(k) ==
  IF \E c \in wanted : deployment.bridges[c].key.path = deployment.bridges[k].key.path
    THEN "active"
    ELSE "unavailable"

EmitManifest ==
  /\ stage = "serving"
  /\ Proceed("published")
  /\ manifest' = [k \in 1..Len(deployment.bridges) |-> Status(k)]
  /\ UNCHANGED <<wanted, needs, warned>>

Next ==
  \/ LoadGuest \/ DiscoverBridges \/ CheckBridges \/ CheckCapabilities \/ Compose
  \/ LoadComposed \/ ValidateGuest \/ FillPool \/ EmitManifest

Spec == Init /\ [][Next]_vars

-----------------------------------------------------------------------------
(* What the documents ask for *)

\* Semver as the comments state it: the same series (major and minor before 1.0, major from
\* then on), and at least as new.  What has no version is not compared.
SameSeries(h, w) == h.major = w.major /\ (h.major = 0 => h.minor = w.minor)
AtLeast(h, w) ==
  \/ h.major > w.major
  \/ h.major = w.major /\ h.minor > w.minor
  \/ h.major = w.major /\ h.minor = w.minor /\ h.patch >= w.patch
Meets(have, want) ==
  \/ NoVersion \in {have.version, want.version}
  \/ SameSeries(have.version, want.version) /\ AtLeast(have.version, want.version)

\* The host itself, or an envelope it registered, offers a reference.
Offered(d, r) ==
  \E o \in InSeq(d.provided) \union InSeq(d.envelopes) : o.path = r.path /\ Meets(o, r)
Granted(d, r) == r.path \in Ambient \/ Offered(d, r)

\* A guest can run when every bridge is what it is configured to be, everything the guest
\* imports comes from the host or, in a version that will do (CLNH-21), from a bridge, what
\* these bridges import comes from the host, and what has to be joined fits.
Needed(d) == {b \in BridgesOf(d) : b.key.path \in PathsOf(d.imports)}
Runnable(d) ==
  /\ d.guestLoads
  /\ \A b \in BridgesOf(d) : Discovered(b) /\ ReachesOnlyAllowed(b) /\ Meets(ExportOf(b), b.key)
  /\ \A i \in d.imports :
       \/ Granted(d, i)
       \/ \E b \in Needed(d) : b.key.path = i.path /\ Meets(ExportOf(b), i)
  /\ \A b \in Needed(d) : ExportOf(b) \in b.file.own /\ \A i \in b.file.imports : Granted(d, i)
  /\ Needed(d) /= {} => d.typesFit
  /\ d.composedLoads

\* Every path has one source: the host, an envelope or a bridge.
OneSource(d) ==
  \A j, k \in 1..Len(Available(d)) : Available(d)[j].path = Available(d)[k].path => j = k

\* The guest names what it imports from a bridge exactly as the bridge does.
NamedAlike(d) ==
  \A b \in BridgesOf(d) : \A i \in d.imports : i.path = b.key.path => i = ExportOf(b)

\* The exports reported of the guest are its own.
ReportedRight(d) == d.exports \subseteq d.own

Accepted == stage \in {"serving", "published"}

-----------------------------------------------------------------------------
(* Properties *)

\* Every variable holds a value of its kind; a build that has an error has failed.
CompositionTypeOK ==
  /\ deployment \in Deployments
  /\ stage \in Stages
  /\ error \in Errors
  /\ error /= "none" <=> stage = "failed"
  /\ wanted \subseteq 1..Len(deployment.bridges)
  /\ warned \subseteq 1..Len(deployment.bridges)
  /\ needs \subseteq Reference
  /\ manifest \in Seq({"active", "unavailable"})

\* lib.rs, build_composition: a guest that is not compliant is refused "rather than letting it
\* trap at first call": the composed component imports nothing that nobody offers.
NothingLeftOpen == Accepted => \A i \in needs : Granted(deployment, i)

\* What is left open all the same has the path of a key of [bridges], which the load-time check
\* takes for a promise; everything else the composed component imports is there, in a version
\* that will do, whichever of several sources the check looked at.
LeftOpenOnlyByKeys ==
  Accepted =>
    \A i \in needs :
      Granted(deployment, i) \/ i.path \in {b.key.path : b \in BridgesOf(deployment)}

\* A guest that can run is refused by a check (HCV-03, CLNH-21) for one of three reasons only:
\* a path has two sources, the guest and a bridge name an interface differently, if only by a
\* version that would do, or an export was reported of the guest that is not its own.
RefusedOnlyByNames ==
  error \in Errors \ {"none", "Runtime"} /\ Runnable(deployment) =>
    ~(OneSource(deployment) /\ NamedAlike(deployment) /\ ReportedRight(deployment))

\* What the composed component imports beyond its guest is inside the bridges' allowlist,
\* whatever was composed (CLNH-22).
BridgesBringOnlyAllowed ==
  Accepted => PathsOf(needs \ deployment.imports) \subseteq BridgeReachable

\* The manifest calls exactly those bridges active that are composed in (CLNH-44).
ManifestTellsComposed ==
  stage = "published" => {k \in 1..Len(manifest) : manifest[k] = "active"} = wanted
=============================================================================
