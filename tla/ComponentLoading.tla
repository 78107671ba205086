--------------------------- MODULE ComponentLoading ---------------------------
(***************************************************************************)
(* How a component gets from the compiler role to a running instance:      *)
(* precompiled and signed (src/src/compiler.rs), alone or in a package,    *)
(* carried by somebody who may alter or recombine the parts, verified,     *)
(* deserialized (src/src/verified.rs), linked and run under fuel by one of *)
(* three loaders: an embedder of this crate, the confined runtime, and the *)
(* riscv64 probe with its embedded fixture.                                *)
(***************************************************************************)
EXTENDS Naturals, FiniteSets

CONSTANTS
  Components,  \* well-formed component sources
  Imports,     \* [Components -> SUBSET InterfaceNames]
  Runaways,    \* the components that never return by themselves
  Manifests,   \* what packages declare and embedders grant, sets of Grantable
  DEFAULT_FUEL,
  MaxSigned,   \* bound on the signatures made
  None         \* no load, no trusted signature

Grantable == {"keystore", "filesystem", "monotonic-clock"}
InterfaceNames == Grantable \cup {"wasi"}  \* wasi: startup imports, never called

ASSUME ImportsAssumption == Imports \in [Components -> SUBSET InterfaceNames]
ASSUME RunawaysAssumption == Runaways \subseteq Components
ASSUME ManifestsAssumption == Manifests \subseteq SUBSET Grantable
ASSUME FuelAssumption == DEFAULT_FUEL \in Nat
ASSUME BoundAssumption == MaxSigned \in Nat

\* Mutant: no fuel metering.
UnmeteredConfig == [target |-> "pulley64", fuel |-> FALSE, reservation |-> "4 MiB", guard |-> "none"]

\* What an artifact records of the engine that compiled it.
PulleyConfig == [target |-> "pulley64", fuel |-> TRUE, reservation |-> "4 MiB", guard |-> "none"]

\* The riscv64 probe's own config: the target, and Wasmtime's defaults.
ProbeConfig == [target |-> "pulley64", fuel |-> FALSE, reservation |-> "4 GiB", guard |-> "host"]

\* Earlier versions of this crate: before fuel metering, before the reservation.
LegacyConfigs == {[PulleyConfig EXCEPT !.fuel = FALSE], [PulleyConfig EXCEPT !.reservation = "4 GiB"]}

Roles == {"embedder", "confined", "probe"}

\* Mutant: the confined role reserves less than the compiler recorded.
EngineConfigOverriding(role) ==
  CASE role = "probe" -> ProbeConfig
    [] role = "confined" -> [PulleyConfig EXCEPT !.reservation = "2 MiB"]
    [] OTHER -> PulleyConfig

EngineConfig(role) == IF role = "probe" THEN ProbeConfig ELSE PulleyConfig

\* A .cwasm, or (not intact) bytes that are none.
Artifacts == [component : Components, config : {PulleyConfig, ProbeConfig} \cup LegacyConfigs,
              intact : BOOLEAN]
Compiled(c, config) == [component |-> c, config |-> config, intact |-> TRUE]
Altered(a) == [a EXCEPT !.intact = FALSE]

\* What a signature covers: a .cwasm on its own, or the digest of a manifest and a .cwasm.
Bare == {"no manifest"}
Signables == [manifest : Manifests \cup {Bare}, artifact : Artifacts]
ASSUME NoneAssumption == None \notin Signables

VARIABLES
  signed,  \* what trusted publishers have signed
  load,    \* what a loader was handed: role, manifest, artifact and signature
  stage,   \* how far it got with it
  fuel,    \* fuel left in its Store
  parsed   \* history: some of the bytes were parsed or deserialized

vars == <<signed, load, stage, fuel, parsed>>

Failures == {"bad_signature", "refused", "load_error"}
Endings == {"returned", "out_of_fuel", "stub_trap"}

Init ==
  /\ signed = {} /\ load = None /\ stage = "idle"
  /\ fuel = 0 /\ parsed = FALSE

------------------------------------------------------------------------------
(* Trusted publishers *)

Sign(s) ==
  /\ Cardinality(signed) < MaxSigned
  /\ signed' = signed \cup {s}
  /\ UNCHANGED <<load, stage, fuel, parsed>>

\* precompile_and_sign; a malformed source is a CompileError and signs nothing.
precompile_and_sign(c) == Sign([manifest |-> Bare, artifact |-> Compiled(c, PulleyConfig)])

\* External: a package, by lantern-sdk build or by hand, of this version of the
\* compiler role or an earlier one.  The SDK compares the imports with the manifest
\* before it signs; the loaders cannot tell whether it did (STATUS.md:376-386).
SignPackage(c, m) ==
  \E config \in {PulleyConfig} \cup LegacyConfigs :
    Sign([manifest |-> m, artifact |-> Compiled(c, config)])

\* External: a build of an earlier version, or a signature over something else.
SignOther(c) ==
  \/ \E config \in LegacyConfigs : Sign([manifest |-> Bare, artifact |-> Compiled(c, config)])
  \/ Sign([manifest |-> Bare, artifact |-> Altered(Compiled(c, PulleyConfig))])

------------------------------------------------------------------------------
(* Delivery: parts of what was published, altered or recombined at will.  A   *)
(* signature that no trusted publisher made is None.                          *)

Published == {s.artifact : s \in signed}

Hand(role, manifest, artifact, signature) ==
  /\ stage = "idle"
  /\ load' = [role |-> role, manifest |-> manifest, artifact |-> artifact, signature |-> signature]
  /\ stage' = "handed"
  /\ UNCHANGED <<signed, fuel, parsed>>

Deliver ==
  \E role \in {"embedder", "confined"}, m \in Manifests, s \in signed \cup {None},
     a \in Published \cup {Altered(b) : b \in Published} : Hand(role, m, a, s)

\* The probe's fixture is embedded at build time, from its own engine or, as
\* STATUS.md:280-282 has it, from any compiler-role engine of the target.
EmbedFixture ==
  \E c \in Components, config \in {ProbeConfig, PulleyConfig} :
    /\ Imports[c] = {} /\ c \notin Runaways
    /\ Hand("probe", Bare, Compiled(c, config), None)

------------------------------------------------------------------------------
(* The loaders *)

\* load_verified_component checks the bare .cwasm, PackageRef::verify both parts.
Verifies ==
  load.signature = [manifest |-> IF load.role = "confined" THEN load.manifest ELSE Bare,
                    artifact |-> load.artifact]

\* Mutant: Component::deserialize before the signature check.
VerifyAfter ==
  /\ stage = "handed" /\ load.role # "probe"
  /\ stage' = IF Verifies THEN IF load.role = "confined" THEN "verified" ELSE "planned"
              ELSE "bad_signature"
  /\ parsed' = TRUE
  /\ UNCHANGED <<signed, load, fuel>>

Verify ==
  /\ stage = "handed" /\ load.role # "probe"
  /\ stage' = IF Verifies THEN IF load.role = "confined" THEN "verified" ELSE "planned"
              ELSE "bad_signature"
  /\ UNCHANGED <<signed, load, fuel, parsed>>

\* Mutant: no check of the manifest's clock.
PlanLettingClockThrough ==
  /\ stage = "verified"
  /\ parsed' = TRUE
  /\ stage' = IF {"keystore", "filesystem"} \subseteq load.manifest THEN "refused" ELSE "planned"
  /\ UNCHANGED <<signed, load, fuel>>

\* The confined runtime wires exactly one resource-scoped interface and no clock.
Plan ==
  /\ stage = "verified"
  /\ parsed' = TRUE
  /\ stage' = IF load.manifest \in {{"keystore"}, {"filesystem"}} THEN "planned" ELSE "refused"
  /\ UNCHANGED <<signed, load, fuel>>

\* deserialize_trusted_component; Wasmtime compares what the artifact recorded.
Deserialize ==
  /\ stage = "planned" \/ (stage = "handed" /\ load.role = "probe")
  /\ parsed' = TRUE
  /\ stage' = IF load.artifact.intact /\ load.artifact.config = EngineConfig(load.role)
              THEN "loaded" ELSE "load_error"
  /\ UNCHANGED <<signed, load, fuel>>

\* build_linker links what the loader's GrantManifest grants: the confined runtime
\* never grants a clock, the probe nothing.
Linked ==
  CASE load.role = "embedder" -> load.manifest
    [] load.role = "confined" -> load.manifest \ {"monotonic-clock"}
    [] load.role = "probe"    -> {}

\* Instantiation fails on an import nothing linked, but the confined runtime has
\* put trap stubs there (define_unknown_imports_as_traps).  The probe never calls
\* set_fuel and an embedder may forget to, which leaves the Store without any.
Instantiate ==
  /\ stage = "loaded"
  /\ IF load.role = "confined" \/ Imports[load.artifact.component] \subseteq Linked
     THEN /\ stage' = "running"
          /\ fuel' \in CASE load.role = "embedder" -> {0, DEFAULT_FUEL}
                        [] load.role = "confined" -> {DEFAULT_FUEL}
                        [] load.role = "probe"    -> {0}
     ELSE stage' = "refused" /\ UNCHANGED fuel
  /\ UNCHANGED <<signed, load, parsed>>

Metered == load.artifact.config.fuel

\* Mutant: an exhausted budget is not noticed.
BurnUnchecked == IF Metered THEN fuel' = fuel - 1 ELSE UNCHANGED fuel

\* A metered step; metering is compiled into the artifact.
Burn == IF Metered THEN fuel > 0 /\ fuel' = fuel - 1 ELSE UNCHANGED fuel

\* The component computes, calls one of its imports, or returns.
Run ==
  /\ stage = "running" /\ Burn
  /\ \/ UNCHANGED stage
     \/ \E i \in Imports[load.artifact.component] \cap Grantable :
          stage' = IF i \in Linked THEN stage ELSE "stub_trap"
     \/ load.artifact.component \notin Runaways /\ stage' = "returned"
  /\ UNCHANGED <<signed, load, parsed>>

OutOfFuel ==
  /\ stage = "running" /\ Metered /\ fuel = 0
  /\ stage' = "out_of_fuel"
  /\ UNCHANGED <<signed, load, fuel, parsed>>

\* The loader is done with what it was handed; the next one is a new load, in a
\* new process unless it is an embedder.
Discard ==
  /\ stage \in Failures \cup Endings
  /\ load' = None /\ stage' = "idle" /\ fuel' = 0 /\ parsed' = FALSE
  /\ UNCHANGED signed

Publisher ==
  \E c \in Components :
    precompile_and_sign(c) \/ SignOther(c) \/ \E m \in Manifests : SignPackage(c, m)

Loader == Verify \/ Plan \/ Deserialize \/ Instantiate \/ Run \/ OutOfFuel

Next == Publisher \/ Deliver \/ EmbedFixture \/ Loader \/ Discard

Spec == Init /\ [][Next]_vars

\* The loader's process is scheduled until it is done with a component.  A
\* component that can return does so unless it runs out of fuel first.
FairSpec == Spec /\ WF_vars(Loader)

------------------------------------------------------------------------------
(* Properties *)

\* Every variable has its type; a Store never holds more fuel than its budget.
TypeOK ==
  /\ signed \in SUBSET Signables /\ Cardinality(signed) <= MaxSigned
  /\ stage \in {"idle", "handed", "verified", "planned", "loaded", "running"} \cup Failures \cup Endings
  /\ IF stage = "idle" THEN load = None
     ELSE load.role \in Roles /\ load.artifact \in Artifacts /\ load.manifest \in Manifests \cup {Bare}
  /\ fuel \in 0 .. DEFAULT_FUEL /\ parsed \in BOOLEAN

\* No byte of a delivered artifact or manifest is parsed unless a trusted publisher
\* signed exactly these bytes, and in a package exactly this pair: deserialize is
\* unsound on anything else (verified.rs:96-111, lib.rs:201-203).
TrustedBeforeParsed ==
  parsed /\ load.role # "probe" =>
    \E s \in signed : s.artifact = load.artifact /\ (load.role = "confined" => s.manifest = load.manifest)

\* The imports a package owns up to, the SDK's "imports <= declarations".
Declared(c, m) == Imports[c] \cap Grantable \subseteq m

\* A component meets one of the stubs the confined runtime fills its linker with only
\* where the publisher left that import out of the manifest it signed this component
\* with: never because a carrier recombined two packages, never because the runtime
\* wired less than a manifest it accepted declares, and in no other role
\* (lib.rs:257-259, main.rs:53-57; compiler.rs:26-36; STATUS.md:381-382).
StubOnlyIfUndeclared ==
  stage = "stub_trap" =>
    /\ load.role = "confined"
    /\ [manifest |-> load.manifest, artifact |-> load.artifact] \in signed
    /\ ~Declared(load.artifact.component, load.manifest)

\* Every component that starts running stops, one that loops for ever included,
\* whichever version of the compiler role it came from (verified.rs:39-51).
EveryRunEnds == stage = "running" ~> stage \in Endings

\* What the current compiler role built for this loader, handed over whole.
Genuine ==
  /\ stage = "handed" /\ load.artifact.intact
  /\ CASE load.role = "probe"    -> load.artifact.config = ProbeConfig
       [] load.role = "confined" -> /\ load.signature = [manifest |-> load.manifest, artifact |-> load.artifact]
                                    /\ load.artifact.config = PulleyConfig
                                    /\ load.manifest \in {{"keystore"}, {"filesystem"}}
       [] OTHER                  -> /\ load.signature = [manifest |-> Bare, artifact |-> load.artifact]
                                    /\ load.artifact.config = PulleyConfig
                                    /\ Imports[load.artifact.component] \subseteq load.manifest

\* What was built for a loader runs there: the roles' configs do not drift apart
\* and no check refuses a good artifact (verified.rs:53-69).
GenuineRuns == Genuine ~> stage = "running"

\* "the shared `pulley64` target is the one thing they must agree on"
\* (compiler.rs:22-24); "any `compiler`-feature engine at `target("pulley64")`"
\* (STATUS.md:280): what the compiler role emits loads on every pulley64 engine.
SameTargetLoads ==
  stage = "load_error" /\ load.artifact.config = PulleyConfig =>
    \/ ~load.artifact.intact
    \/ EngineConfig(load.role).target # PulleyConfig.target
===============================================================================
