------------------------ MODULE ComponentLoading_proofs ------------------------
(***************************************************************************)
(* Trust and linking for every set of components, imports and manifests:   *)
(* what a loader parses was signed, as it was signed, and a component      *)
(* meets a stub only where its publisher's manifest left the import out.   *)
(***************************************************************************)
EXTENDS ComponentLoading, FiniteSetTheorems, TLAPS

Stages == {"idle", "handed", "verified", "planned", "loaded", "running"} \cup Failures \cup Endings

Loads == [role : Roles, manifest : Manifests \cup {Bare}, artifact : Artifacts,
          signature : signed \cup {None}]

\* Types, and who a load is for.
LoadInv ==
  /\ IsFiniteSet(signed) /\ signed \subseteq Signables /\ Cardinality(signed) <= MaxSigned
  /\ stage \in Stages /\ parsed \in BOOLEAN /\ fuel \in 0 .. DEFAULT_FUEL
  /\ stage = "idle" => load = None /\ ~parsed
  /\ stage # "idle" => load \in Loads
  /\ stage # "idle" /\ load.role # "probe" => load.manifest \in Manifests

\* Nothing is parsed before the signature check, and what passed it stays verified.
TrustInv ==
  /\ stage \in {"handed", "bad_signature"} => ~parsed
  /\ stage \notin {"idle", "handed", "bad_signature"} /\ load.role # "probe" => Verifies

\* What a loader has planned, and linked by the time the component runs.
PlanInv ==
  /\ stage \in {"planned", "loaded", "running"} /\ load.role = "confined" =>
       load.manifest \in {{"keystore"}, {"filesystem"}}
  /\ stage = "running" /\ load.role # "confined" => Imports[load.artifact.component] \subseteq Linked

IInv == LoadInv /\ TrustInv /\ PlanInv /\ StubOnlyIfUndeclared

------------------------------------------------------------------------------

\* Artifacts keep their type when they are compiled or altered.
LEMMA ArtifactTypes ==
  /\ \A c \in Components, config \in {PulleyConfig, ProbeConfig} \cup LegacyConfigs :
       Compiled(c, config) \in Artifacts
  /\ \A a \in Artifacts : Altered(a) \in Artifacts /\ a.component \in Components
  BY DEF Compiled, Altered, Artifacts

\* Every publication is one signature over something of the right type.
LEMMA PublisherSigns ==
  ASSUME Publisher
  PROVE  \E s \in Signables : Sign(s)
<1> PICK c \in Components :
      precompile_and_sign(c) \/ SignOther(c) \/ \E m \in Manifests : SignPackage(c, m)
  BY DEF Publisher
<1>1. \A m \in Manifests \cup {Bare}, config \in {PulleyConfig} \cup LegacyConfigs :
        [manifest |-> m, artifact |-> Compiled(c, config)] \in Signables
  BY ArtifactTypes DEF Signables
<1>2. [manifest |-> Bare, artifact |-> Altered(Compiled(c, PulleyConfig))] \in Signables
  BY ArtifactTypes DEF Signables
<1>3. CASE precompile_and_sign(c)
  BY <1>1, <1>3 DEF precompile_and_sign
<1>4. CASE SignOther(c)
  BY <1>1, <1>2, <1>4 DEF SignOther
<1>5. CASE \E m \in Manifests : SignPackage(c, m)
  BY <1>1, <1>5 DEF SignPackage
<1> QED
  BY <1>3, <1>4, <1>5

\* A load that verifies carries a signature some publisher made over just that.
LEMMA VerifiedIsSigned ==
  ASSUME LoadInv, stage # "idle", load.role # "probe", Verifies
  PROVE  [manifest |-> IF load.role = "confined" THEN load.manifest ELSE Bare,
          artifact |-> load.artifact] \in signed
<1> DEFINE s == [manifest |-> IF load.role = "confined" THEN load.manifest ELSE Bare,
                 artifact |-> load.artifact]
<1>1. load.manifest \in Manifests \cup {Bare} /\ load.artifact \in Artifacts
      /\ load.signature \in signed \cup {None}
  BY DEF LoadInv, Loads
<1>2. s \in Signables
  BY <1>1 DEF Signables
<1>3. s # None
  BY <1>2, NoneAssumption
<1> QED
  BY <1>1, <1>3 DEF Verifies

\* The invariant holds initially.
LEMMA InitIInv == Init => IInv
<1> SUFFICES ASSUME Init PROVE IInv
  OBVIOUS
<1>1. IsFiniteSet(signed) /\ Cardinality(signed) = 0
  BY FS_EmptySet DEF Init
<1>2. LoadInv
  <2>1. signed \subseteq Signables /\ Cardinality(signed) <= MaxSigned /\ fuel \in 0 .. DEFAULT_FUEL
    BY <1>1, FuelAssumption, BoundAssumption DEF Init
  <2>2. stage = "idle" /\ load = None /\ parsed \in BOOLEAN /\ ~parsed /\ stage \in Stages
    BY DEF Init, Stages
  <2> QED
    BY <1>1, <2>1, <2>2 DEF LoadInv
<1>3. TrustInv /\ PlanInv /\ StubOnlyIfUndeclared
  BY DEF Init, TrustInv, PlanInv, StubOnlyIfUndeclared
<1> QED
  BY <1>2, <1>3 DEF IInv

\* A new signature disturbs nothing a loader relies on.
LEMMA SignIInv ==
  ASSUME IInv, NEW s \in Signables, Sign(s)
  PROVE  IInv'
<1>1. IsFiniteSet(signed') /\ Cardinality(signed') <= MaxSigned
  <2>1. Cardinality(signed) \in Nat
    BY FS_CardinalityType DEF IInv, LoadInv
  <2>2. IsFiniteSet(signed \cup {s})
        /\ Cardinality(signed \cup {s}) = IF s \in signed THEN Cardinality(signed) ELSE Cardinality(signed) + 1
    BY FS_AddElement DEF IInv, LoadInv
  <2> QED
    BY <2>1, <2>2, BoundAssumption DEF Sign
<1>2. LoadInv'
  BY <1>1 DEF IInv, LoadInv, Loads, Sign
<1> QED
  BY <1>2 DEF IInv, TrustInv, PlanInv, StubOnlyIfUndeclared, Sign, Verifies, Linked, Declared

\* Every step keeps the invariant.
LEMMA NextIInv == IInv /\ [Next]_vars => IInv'
<1> SUFFICES ASSUME IInv, [Next]_vars
             PROVE  IInv'
  OBVIOUS
<1> USE DEF Failures, Endings
<1>1. CASE Publisher
  BY <1>1, PublisherSigns, SignIInv
<1>2. CASE Deliver
  <2> PICK role \in {"embedder", "confined"}, m \in Manifests, s \in signed \cup {None},
           a \in Published \cup {Altered(b) : b \in Published} : Hand(role, m, a, s)
    BY <1>2 DEF Deliver
  <2>1. a \in Artifacts
    BY ArtifactTypes DEF IInv, LoadInv, Published, Signables
  <2> QED
    BY <2>1 DEF IInv, LoadInv, TrustInv, PlanInv, StubOnlyIfUndeclared, Stages, Loads, Roles, Hand, Declared
<1>3. CASE EmbedFixture
  <2> PICK c \in Components, config \in {ProbeConfig, PulleyConfig} :
        Hand("probe", Bare, Compiled(c, config), None)
    BY <1>3 DEF EmbedFixture
  <2>1. Compiled(c, config) \in Artifacts
    BY ArtifactTypes
  <2> QED
    BY <2>1 DEF IInv, LoadInv, TrustInv, PlanInv, StubOnlyIfUndeclared, Stages, Loads, Roles, Hand, Declared
<1>4. CASE Verify
  BY <1>4 DEF IInv, LoadInv, TrustInv, PlanInv, StubOnlyIfUndeclared, Stages, Loads, Verify, Verifies, Declared
<1>5. CASE Plan
  BY <1>5 DEF IInv, LoadInv, TrustInv, PlanInv, StubOnlyIfUndeclared, Stages, Loads, Plan, Verifies, Declared
<1>6. CASE Deserialize
  BY <1>6 DEF IInv, LoadInv, TrustInv, PlanInv, StubOnlyIfUndeclared, Stages, Loads, Deserialize, Verifies, Declared
<1>7. CASE Instantiate
  <2>1. fuel' \in 0 .. DEFAULT_FUEL
    BY <1>7, FuelAssumption DEF Instantiate, IInv, LoadInv, Loads, Roles
  <2>2. stage' \in {"running", "refused"}
        /\ UNCHANGED <<signed, load, parsed>> /\ stage = "loaded"
        /\ (stage' = "running" /\ load.role # "confined" => Imports[load.artifact.component] \subseteq Linked)
    BY <1>7 DEF Instantiate
  <2> QED
    BY <2>1, <2>2 DEF IInv, LoadInv, TrustInv, PlanInv, StubOnlyIfUndeclared, Stages, Loads, Verifies, Declared, Linked
<1>8. CASE Run
  <2>1. stage = "running" /\ load.artifact.component \in Components
    BY <1>8, ArtifactTypes DEF Run, IInv, LoadInv, Loads
  <2>2. stage' \in {"running", "returned", "stub_trap"}
        /\ (stage' = "stub_trap" => ~(Imports[load.artifact.component] \cap Grantable \subseteq Linked))
    BY <1>8, <2>1 DEF Run
  <2>3. StubOnlyIfUndeclared'
    <3> SUFFICES ASSUME stage' = "stub_trap"
                 PROVE  /\ load.role = "confined"
                        /\ [manifest |-> load.manifest, artifact |-> load.artifact] \in signed
                        /\ ~Declared(load.artifact.component, load.manifest)
      BY <1>8 DEF Run, StubOnlyIfUndeclared, Declared
    <3>1. load.role = "confined"
      BY <2>1, <2>2 DEF IInv, PlanInv
    <3>2. [manifest |-> load.manifest, artifact |-> load.artifact] \in signed
      BY <2>1, <3>1, VerifiedIsSigned DEF IInv, TrustInv
    <3>3. load.manifest \in {{"keystore"}, {"filesystem"}}
      BY <2>1, <3>1 DEF IInv, PlanInv
    <3>4. Linked = load.manifest
      BY <3>1, <3>3 DEF Linked
    <3> QED
      BY <2>2, <3>1, <3>2, <3>4 DEF Declared
  <2>4. fuel' \in 0 .. DEFAULT_FUEL /\ UNCHANGED <<signed, load, parsed>>
    <3>1. UNCHANGED <<signed, load, parsed>> /\ Burn
      BY <1>8 DEF Run
    <3>2. fuel \in 0 .. DEFAULT_FUEL
      BY DEF IInv, LoadInv
    <3> QED
      BY <3>1, <3>2, FuelAssumption DEF Burn
  <2> QED
    BY <2>1, <2>2, <2>3, <2>4 DEF IInv, LoadInv, TrustInv, PlanInv, Stages, Loads, Verifies, Linked
<1>9. CASE OutOfFuel
  BY <1>9 DEF IInv, LoadInv, TrustInv, PlanInv, StubOnlyIfUndeclared, Stages, Loads, OutOfFuel, Verifies, Declared
<1>10. CASE Discard
  <2>1. LoadInv'
    <3>1. fuel' \in 0 .. DEFAULT_FUEL /\ UNCHANGED signed
      BY <1>10, FuelAssumption DEF Discard
    <3>2. stage' = "idle" /\ load' = None /\ parsed' \in BOOLEAN /\ ~parsed' /\ stage' \in Stages
      BY <1>10 DEF Discard, Stages
    <3> QED
      BY <3>1, <3>2 DEF IInv, LoadInv
  <2>2. (TrustInv /\ PlanInv /\ StubOnlyIfUndeclared)'
    BY <1>10 DEF TrustInv, PlanInv, StubOnlyIfUndeclared, Discard
  <2> QED
    BY <2>1, <2>2 DEF IInv
<1>11. CASE UNCHANGED vars
  BY <1>11 DEF IInv, LoadInv, TrustInv, PlanInv, StubOnlyIfUndeclared, Stages, Loads, Verifies, Declared, Linked, vars
<1> QED
  BY <1>1, <1>2, <1>3, <1>4, <1>5, <1>6, <1>7, <1>8, <1>9, <1>10, <1>11 DEF Next, Loader

\* The inductive invariant holds in every reachable state.
THEOREM Invariance == Spec => []IInv
  BY InitIInv, NextIInv, PTL DEF Spec

\* Types, and no more fuel than the budget (verified.rs:51).
THEOREM TypeCorrect == Spec => []TypeOK
<1>1. IInv => TypeOK
  BY DEF IInv, LoadInv, TypeOK, Stages, Loads
<1> QED
  BY <1>1, Invariance, PTL

\* Nothing is parsed that was not signed, and signed as it is (verified.rs:96-111,
\* lib.rs:201-203).
THEOREM TrustHolds == Spec => []TrustedBeforeParsed
<1>1. IInv => TrustedBeforeParsed
  <2> SUFFICES ASSUME IInv, parsed, load.role # "probe"
               PROVE  \E s \in signed : s.artifact = load.artifact /\ (load.role = "confined" => s.manifest = load.manifest)
    BY DEF TrustedBeforeParsed
  <2>1. stage \notin {"idle", "handed", "bad_signature"} /\ Verifies
    BY DEF IInv, LoadInv, TrustInv
  <2>2. [manifest |-> IF load.role = "confined" THEN load.manifest ELSE Bare,
         artifact |-> load.artifact] \in signed
    BY <2>1, VerifiedIsSigned DEF IInv
  <2> QED
    BY <2>2
<1> QED
  BY <1>1, Invariance, PTL

\* A stub is met only where the signed manifest does not declare the import, for every
\* set of components, imports and manifests (main.rs:53-57, lib.rs:257-259).
THEOREM StubsOnlyUndeclared == Spec => []StubOnlyIfUndeclared
<1>1. IInv => StubOnlyIfUndeclared
  BY DEF IInv
<1> QED
  BY <1>1, Invariance, PTL
================================================================================
