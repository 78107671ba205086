# A verification project for lantern-runtime

lantern-runtime hosts untrusted WebAssembly components on LanternOS. A component is
precompiled and signed by the compiler role, verified and loaded by the runtime role, and
reaches the system only through the `lantern:host` interfaces; every handle it holds there
is backed by one capability that the owning service minted. These TLA+ modules model that
path from source to instance, the mapping, the backends under it, the memory the confined
builds run on, and the confined program with the neighbours it depends on. TLC checks them
on small instances; TLAPS proves every safety property and every refinement below for every
instance.

## 1. The system

| Component | State it keeps | Operations | What makes it correct |
| --- | --- | --- | --- |
| Host mapping, `src/src/host.rs` (`RuntimeState`) | resource table, slot vectors, attached backends, clock | `open`, `drop`, `encrypt`, `decrypt`, `sign`, `read`, `write`, `now`, `resolution` | a handle names the grant of its slot and nothing else; the table neither leaks nor shares entries; the service decides every call; denials read `access`, the rest `invalid` |
| Link decision, `build_linker`, `GrantManifest` | none | link an interface or leave it out | an import the manifest did not declare is not linked; a linked clock has a source |
| Backends, `InProcessFilesystem`, `IpcKeystore`, `IpcFilesystem` | one `Channel` each, a request and a reply buffer during a call | forward one operation, over IPC in chunks | one call is one atomic operation of the service; what an `ok` returns came from the service, whole |
| Confined arena, `src/src/platform.rs` | `NEXT_REGION`, `ALLOC_VADDR`, `ALLOC_COUNT`, the kernel's mappings | `mmap_new`, `mmap_remap`, `munmap` | live blocks are disjoint, blank when handed out, and mapped exactly while held; a failure costs nothing; a guest's linear memory on top keeps its contents |
| confined-runtime, `src/confined-runtime` | stage, grant, fuel, one Channel | verify, plan, bind and self-check, attenuate, link, probe, revoke, probe, signal | SUCCESS is earned; nothing runs unverified; every launch has one outcome |
| Guests, `src/confined-probe-guest`, `src/confined-fs-guest` | the file handle or key handle | `probe` | driven by the program above |
| Probe program and platform, `src/riscv64-probe` | `ARENA_NEXT`, `TLS` (host); the arena with two regions (riscv64) | `mmap_new`, TLS get and set; load, run and report the fixture | no page is handed out twice, whoever races; nothing stays mapped |
| Runtime role, `src/src/verified.rs` | a Store's fuel | verify, deserialize, run | nothing unverified is deserialized; what runs also ends |
| Compiler role, `src/src/compiler.rs`, `src/examples/precompile.rs` | none | precompile and sign; list imports | what it emits for a role loads there |
| Crate root, `src/src/lib.rs` | none | re-exports | - |

How they interact. A publisher compiles and signs; an untrusted carrier delivers; the
embedder verifies, turns a manifest into a linker and a `RuntimeState`, and instantiates.
The guest calls in through Wasmtime; the host function looks the handle up and *calls* the
backend, in process or over a shared Frame; the service checks the badge on its own state,
which a broker or `grant-control` may change between any two host steps, and between any
two chunks. In the confined build the same crate runs on the arena, and confined-runtime
drives it: it asks the launch binder for one grant, holds a request open at the service,
and *signals* `grant-control` to revoke the grant meanwhile.

What is hard here:

* **ordering and staleness** - a revocation between lookup, decision and answer, or between
  two chunks; table indices that are reused; slots that are positional with holes; a check
  that must precede an unsafe call;
* **recombination** - a signed component next to another package's manifest, an artifact of
  an older version of the compiler role, altered bytes;
* **failure** - a transport that fails after the service acted; a mapping that stops half
  way through a claim; a grant-control that fails while others wait for it; a heap that is
  exhausted anywhere;
* **waiting** - runtime, grant-control and service wait on one another during the
  revocation; every launch must nevertheless end in a signal, every call return, and every
  component stop;
* **limits** - the resource table, the arena that is never rewound, the pool, the grant and
  the memory reservation that are set in three places, one fuel budget for two probes;
* **concurrency** - the host fallback's compare-and-swap loop and static TLS pointer,
  shared by `cargo test`'s threads.

`PROJECT.json` lists every such hazard at its line, with the properties that watch it.

## 2. The modules

```
HostInterface            vocabulary: services, operations, capabilities, handles
  CapabilityAccess       what the mapping promises (abstract)
  HostMapping            host.rs  --- implements --->  CapabilityAccess
    MCHostMapping        instances        HostMapping_proofs   theorems
                                          HostAccess_proofs    the refinement
ServiceCall              what the mapping relies on from a backend (abstract)
  IpcBackends            host.rs  --- implements --->  ServiceCall
    IpcBackends_proofs   theorems
RegionPool               what an arena promises (abstract)
  Arena                  platform.rs  --- implements --->  RegionPool
    Arena_proofs         theorems
  BumpArena              the probe's host fallback  --- implements --->  RegionPool
    MCBumpArena          the crate's tests as threads        BumpArena_proofs   theorems
LinearMemory             what a guest relies on (abstract)
  GuestMemory            Wasmtime's mappings on Arena, for both confined programs
                         --- implements --->  LinearMemory
    MCGuestMemory        pools and guests GuestMemory_proofs   theorems
ComponentLoading         compiler.rs, verified.rs, and the three loaders
  MCComponentLoading     four components and their manifests
    ComponentLoading_proofs   theorems
GrantLife                what a launch may conclude about its grant (abstract)
  ConfinedRuntime        confined-runtime, both guests, and their neighbours
                         --- implements --->  GrantLife
    MCConfinedRuntime    the launches explored
    ConfinedRuntime_proofs    theorems
```

**HostMapping.** `conf` is what the embedder chose (manifest, backends, the component's
imports) and never changes. `conf.linker` is the manifest `build_linker` was given, apart
from the one `RuntimeState::new` consumed: they are two objects (`tests.rs:563-565` builds
them one after the other), and `Linked` reads the first, `Now` the second. A clock linked
without a source panics, and the comment at `host.rs:685-687` that it cannot happen holds
for embedders whose two manifests agree. `table` is the `ResourceTable`, `guest` the guest's
own handle table (a handle is a resource type and an index; the value is the slot it was
opened at), `call` the host call in progress, `answer` the last result, `gone` and `content`
the services' state. A method of the WIT resources is three steps: `BeginCall` is everything
before the request is forwarded, in the order of the code (lookup, argument length,
backend); `Serve` is the service's decision on *its* state at that moment and the effect;
`Reply` is the error mapping and the return. `TransportFails` may replace a result, before
or after the service acted. `Withdraw` revokes a badge or destroys an object: at any moment
if the backend is over IPC, only before the guest runs if the service was moved into the
state. `Open`, `Drop`, `Now`, `Instantiate` are one step each. An IPC backend ignores the
record's badge, so `Forward` replaces it by the one the kernel delivers, and
`SingleRelationship` assumes what the doc of `IpcKeystore` calls its v0 scope: one backed
slot.

**CapabilityAccess.** What a guest may rely on: a handle is held for one offered slot;
a request on it is decided by the owner's authority at some moment between request and
response; an effect happens only with that authority. No table, no transport, no error
types. A guest request may still be *void* (`invalid`) for reasons of its own.

**IpcBackends.** HostMapping takes a backend call to be one atomic operation; this module
is why it may. A call is a request of `call.chunks` chunks and a reply of as many as the
service makes; `exchange` counts the blocking exchanges of `Channel::call`. Between any two,
`Revoke` may end the grant and `ChannelFails` the call. `Complete`, `Denied` and `Failed` are
the three ends of a backend method with the error mapping after it: in particular the length
check of `encrypt` and `decrypt` before `copy_from_slice`, and its absence in `sign`. `sound`
says whether the service's replies have the lengths its interface states. **ServiceCall** is
the contract: performed at one instant with the grant live, or denied, or void.

**Arena.** One action per outcome of `alloc` (`Exhausted`, `MapPanics`, `Allocated`) under
`mmap_new(size)`; `munmap(ptr)` frees the first slot that records `ptr` or does nothing.
`UnmapEach` is its loop over the block: the error of an `Unmap` is dropped
(`platform.rs:158`), so a region of `Stuck` may stay mapped while its slot is cleared.
Regions stand for addresses (`vaddr_of` is one to one). `held` is Wasmtime's own record of
the blocks it was given, and `dirty` the regions it has stored into: both are needed to say
what the arena owes Wasmtime. `wasmtime_mmap_remap` blanks in place.

**RegionPool.** Blocks of never-lent regions are lent, or refused; a block given back twice
is given back once.

**GuestMemory.** The composition of the arena with the two programs that use it: `Pool(p) ==
INSTANCE Arena` with the pool of the confined runtime (four regions) or of the probe (two),
and the Frames' contents in megabyte cells, which outlive a mapping. `Deserialize`,
`Instantiate`, `GrowInPlace` (within `MEMORY_RESERVATION`), `GrowByMoving` (past it: a new
mapping, a copy, the old one freed later), `Store`, and the drops in Rust's order, each
through `mmap_new` and `munmap` of the arena, the Frames the kernel will not unmap included.
A guest that returns was right (`"done"`) or not (`"wrong"`), and `Report` is the program's
signal after everything was dropped: SUCCESS for a right answer only. Wasmtime's side is
external: it maps the larger of minimum and reservation, and moves a memory to a mapping
with room for the next growth. **LinearMemory** is the guest's view: data, zeroes, its own
stores, growth by zeroes or not at all; a cell whose region is unmapped reads as a fault,
which the abstract memory never holds.

**BumpArena.** `Load`, `Exhausted`, `Swap` and `Retry` are the steps of the loop in
`backing::alloc`; `Retry` also covers the spurious failure of `compare_exchange_weak`.

**ComponentLoading.** An artifact is a component, the engine config recorded in it, and
whether its bytes are intact. Publishers sign bare artifacts (`precompile_and_sign`),
packages with any manifest (`SignPackage`), and what earlier versions of the compiler role
made (`LegacyConfigs`). That a manifest declares what `component_import_names` found is the
SDK's check, before it signs; no loader repeats it, and `STATUS.md:376-386` lists signed
packages that declare another interface than they import. In the confined runtime such a
package instantiates and traps on a stub (`lib.rs:257-259`), where the comment at
`host.rs:702-704` has an undeclared import fail to instantiate; for an embedder, whose linker
holds no stubs, it does fail. `Declared` tells the two kinds of package apart.
`Deliver` hands a loader any published artifact, altered or not, with any manifest and any
signature. The embedder, the confined runtime and the probe then `Verify`, `Plan`,
`Deserialize`, `Instantiate` and `Run`, each with its own order and its own linker. `parsed`
is history: bytes of the input were interpreted. An embedder may forget `set_fuel`, and the
probe never calls it: its engine does not meter.

**ConfinedRuntime.** `pc` is the stage of `main.rs`; every early return is `Fail(stage,
detail)`. `Script` is the guest's host calls in order. `world` fixes one launch: the package
(authentic, empty, unsigned, malformed, of a bad length), the manifest, the binder's
decision, the image, and a set of *faults*: neighbours that stopped doing what the
self-checks look for, calls the kernel fails (`CallFails`: it does not reach the owner, and
the caller reads `LOST`), or a heap too small (`HeapExhausted`, at any point where the
program can allocate). `stored` is the filesystem guest's file: `Takes` is what the guest
makes of an answer given what the file holds, and `HostRefuses` the host's size check,
without which the oversized write would reach the service. `HeldOff` is the wait of all
three programs for one another, when the service finishes an open request before it serves
REVOKE. `breaches` records what the runtime obtained although it should have been refused.
`ServeRequest` and `ServeRevoke` are the owning service, `ControlWakes` and `ControlDone`
grant-control, all modelled from what `src/` expects of them. Whether the package decoder
accepts an empty `.cwasm` is the decoder's affair; the model allows it.

**GrantLife** is the launch seen from its grant: a badge that is given once and ended once,
answers the owner gives as the badge is then and the holder looks at later, unless they are
lost on the way, and what the holder has seen. A launch that failed, or obtained what it
should not have, is spoiled. The mapping (`Badge`, `Said`, `Seen`, `Verdict`) reads this off
the stage, the reply in the channel and `breaches`.

Definitions named as mutants in the modules (`GrantSkippingHoles`, `munmapRewinding`, ...)
are the bugs each property is tested against: replacing the mapped definition by the mutant
makes TLC find that property violated.

## 3. The runs

| Run | Checks | Shows |
| --- | --- | --- |
| `host_mapping` | `TypeOK`, `HandleNamesItsGrant`, `EntriesAreOwned`, `NoHostTrap`, `RevocationIsFinal`, `OpenFailsOnlyWhenFull`, `CallAnswered`, `ImplementsAccess` | the mapping keeps its promise |
| `ipc_backends` | `TypeOK`, `ReplyIsWhole`, `ImplementsServiceCall`, `CallReturns` | a chunked call is the atomic operation the mapping takes it for |
| `arena` | `TypeOK`, `MappedIsHeld`, `BlocksDisjoint`, `FailureChangesNothing`, `FreshBlocksAreBlank`, `ImplementsPool` | memory safety of the pool |
| `guest_memory` | `TypeOK`, `SizedGuestsRun`, `NothingLeaked`, `ImplementsLinearMemory` | the arena is enough for the programs on it, and a guest's memory is a memory |
| `bump_arena` | `TypeOK`, `PagesAccountedFor`, `FailsOnlyWhenFull`, `AllReturn`, `ImplementsPool` | the lock-free loop is right |
| `component_loading` | `TypeOK`, `TrustedBeforeParsed`, `StubOnlyIfUndeclared`, `EveryRunEnds`, `GenuineRuns` | what is loaded was signed as it was, lacks only the imports its publisher did not declare, runs, and stops |
| `confined_runtime` | `TypeOK`, `SuccessIsEarned`, `VerifiedFirst`, `OneOutcome`, `DeclinedIsSilent`, `ImplementsGrantLife`, `Signalled`, `HonestLaunchSucceeds` | what a SUCCESS proves, step by step, that every launch ends, and that one with nobody at fault succeeds |
| `host_stale` (violated) | `DroppedReadsAsAccess` | the comment at `host.rs:543` holds only until the index is reused |
| `arena_empty_slot` (violated) | `EmptySlotJustFails` | an empty slot panics, against the doc of `REGIONS` |
| `bump_tests`, `bump_tls` (violated) | `TestBlocksAdjacent`, `TlsRoundTrips` | two assertions of the probe's tests depend on no other test running |
| `loading_target` (violated) | `SameTargetLoads` | two engines that agree on the target alone refuse each other's artifacts |

The violated runs are the `findings` of `PROJECT.json`, each with the line it disagrees with.

Bounds, and why they are enough:

* `MCHostMapping`: two table entries and slots 0..3. Two entries are the least in which
  handles of two interfaces coexist, the table fills and a freed index is reused; four slots
  cover granted, declined, and out of range on a three-slot manifest. Eleven configurations:
  in-process services (a hole between keys, a badge used for another key, two badges on one
  file), IPC with one relationship, all roles declined, no backend, undeclared imports,
  and two whose linker was built from another manifest than the state: a clock that is linked
  but not given, a key and a file that are given but not linked. 110,448 states.
  `Withdrawable` is one badge per service and a file.
* `MCIpcBackends`: payloads of up to three chunks, so that a request and a reply each have a
  first, a middle and a last one; two contents of the file, so that a reply is told from
  another. No other writer is modelled: while a call is under way the file is the caller's.
  18,612 states.
* `MCArena`: the code's own four regions, three of them granted as in the demos; sizes on
  both sides of a megapage, zero, and one that needs more than what was granted. One Frame,
  of region 1, may refuse to be unmapped; it is the second of some blocks and the first of
  others. 922 states.
* `MCGuestMemory`: four pools, the one `lantern-boot` fills with three of four Frames, a full
  one, the probe's two, and fifteen regions, in which a memory moves twice. Guests without a
  memory, of the sizes the demos have, with too large a memory and with too much code. A
  memory grows to ten cells of 1 MiB, six past `MEMORY_RESERVATION`. One Frame in
  all but the full pool may refuse to be unmapped. 156,478 states.
* `MCBumpArena`: seven pages for three threads that want three each, so that the last
  request may fail, and may find its bound check stale.
* `MCComponentLoading`: four components (one imports a service and WASI, one a clock no
  confined program links, one runs away, one imports nothing); two signatures, the least that can be
  recombined or downgraded; two units of fuel, so that a budget can be partly spent.
  Manifests declare more, less or something else than each component imports. 396,327 states.
* `MCConfinedRuntime`: every input with one thing wrong, over both guests and one or two
  declared roles, and every pair of faults of the programs around it; the declined grant is
  combined with each fault, and each package with a verifier that accepts everything and
  with a small heap. Fuel 0, 4, 6 and 20 runs out before the first call, during either
  probe, or never. 34,226 states.

Deadlock is checked in every run; where the system rests (`Rest`, `Parked`, `Finished`) the
specification says so.

## 4. Fairness

* `HostMapping!FairSpec`: `Serve` and `Reply`. A host call blocks the guest and the host;
  nothing else of this program can run, so it ends once the service answers. Not answering
  is the transport's failure and reads as `TransportFails`. The guest is not fair: it need
  not call anything.
* `IpcBackends!FairSpec`: `ServeChunk`, because the service is scheduled when a request
  waits; and the caller's next step once an answer or an error is there. Neither a failure
  nor a revocation is fair, nor is the next call.
* `ComponentLoading!FairSpec`: the loader's steps, one sequential program. Publishers and
  the delivery are not fair.
* `ConfinedRuntime!FairSpec`: each program is scheduled when it can run. Nothing is assumed
  about a neighbour's decision, and a call need not fail. A service with the fault
  `holds_revoke` never serves REVOKE while a request is open: `lib.rs:282-283` warns that it
  would deadlock, so `Signalled` allows that end (`HeldOff`) and no other. An honest service
  serves it meanwhile, and then `HonestLaunchSucceeds` asks for the SUCCESS.
* `BumpArena!FairSpec`: each thread's steps. `Swap(t)` is weakly fair, which is only the
  absence of endless spurious failures: another thread's success disables it.
* `GuestMemory` and `Arena` have safety properties only.

## 5. What is proved

Eight modules of proofs; each theorem holds for every value of the constants that satisfies
the named assumptions, which TLC evaluates on the instances above. Every inductive invariant
was model-checked on its run's instance before it was proved.

`HostMapping_proofs` (every manifest, table size, set of badges and channel):

* `TypeCorrect`, `HandlesNameTheirGrants`, `TableHoldsHandles`, `HostNeverTraps`: the four
  invariants of `host_mapping`; `RevocationHolds`: the action property `RevocationIsFinal`.

None of the invariants is inductive alone: that a destructor never fails needs that a held
handle resolves, which needs that `open` never reuses an index some held handle still leads
to. `IInv` adds `HandleInv` (the entry at a held handle's index is exactly its slot's
record, service included) and `OwnerInv` (an entry has a holder); `HeldResolves` turns
`HandleInv` into what each action needs. `HostNeverTraps` adds where a stub or the clock's
`expect` can end the guest: only under a linker with stubs, and only under a linker whose
manifest grants a clock the state was not given; with two manifests that agree, never.
`CallInv` says that a forwarded call passed its argument checks, which is what keeps an
oversized write out of the store; `FileBadge` that a service that allows a file operation
was given a file. `StepInv` has one lemma per action. Revocation needs `AuthorityInv` on
top: a pending call carries the authority of its handle's slot, and a verdict that reads
`ok` was given when neither badge nor object had been withdrawn before the call began.
Assumptions: what the badges were minted for fits their object (`MintedAssumption`), the
sets are disjoint (`DistinctAssumption`, `NoneAssumption`), configurations are typed
(`ConfigurationsAssumption`), a channel's badge is a badge (`ChannelAssumption`).

`HostAccess_proofs` (the same, with the bindings consuming dropped handles):

* `Refinement`: the mapping implements `CapabilityAccess`; `OpenFailsHonestly`
  (`OpenFailsOnlyWhenFull`).

`HostMapping.tla` maps a state by five operators: what is `Offered` by the manifest,
`Attached`, `Requested` by the call in progress, its `Status`, and what the guest was
`LastTold`. `RequestedCall` and `RequestedDecided` turn a call into a request with the slot
its handle names (from `IInv`'s `HandleInv`), `RefusedIsDisallowed` and `RightIsForwarded`
relate the code's early returns to what the abstract host may refuse, and there is one lemma
per action: `Serve` is the abstract decision, `BeginCall` a request made or refused, the rest
of the table's work a stutter. `EmptyInv` is needed because the abstract reply carries no
value unless the operation succeeded. The hypothesis `HostKeepsStale = FALSE` (`OwnedInv`) is
what Rust's ownership of a `Resource` gives; with a copy of a dropped handle the promise
fails, and the run `host_stale` shows where.

`IpcBackends_proofs` (every largest payload and every set of contents):

* `TypeCorrect`, `RepliesWhole` (`ReplyIsWhole`), and `Refinement`: the backends implement
  `ServiceCall`.

`CallInv` places the exchange: never past the last chunk of the reply. `ReplyInv` is the
chunked transfer itself: until the service has `Answered` the last chunk of the request
nothing is coming, and afterwards what has been received is a prefix of one reply the
service may make, as long as the exchange counter says. `ReceivedAll` concludes that at the
last exchange the reply is there whole; `ReplyShape` that a reply of the right length is the
right reply, which is what the length check of `encrypt` and `decrypt` establishes and `sign`
does without. In the refinement a write performs exactly at the last chunk of its request
because its reply is empty. Assumptions: `FramesAssumption`, `VersionsAssumption`,
`NoneAssumption`.

`Arena_proofs` (every number of regions, every set of granted Frames and of sizes):

* `TypeCorrect`, `MappingsHeld`, `HeldDisjoint` (invariants), `FailuresInert`, `FreshBlank`
  (action properties), and `Refinement`: the arena implements `RegionPool`.

The slot arrays and Wasmtime's own record of its blocks are two views of one set, and the
inductive invariant says so: an occupied slot records a held block below the bump index
(`SlotInv`), no two slots record one block (`SlotsDistinct`), every held block has a slot
(`HolderInv`), nothing above the bump index was ever stored into (`DirtyInv`).
`FreeSlot` is the argument the code leaves unsaid: because occupied slots have distinct
bases below `NEXT_REGION` and there are as many slots as regions, the slot search after the
mapping cannot fail (a pigeonhole), so the failing branch at `platform.rs:139-145`, which
would leak mapped regions, is dead. `FailuresInert` rests on it. With Frames that refuse to be
unmapped, `MappingsHeld` is what remains: all that is held is mapped, and what else is mapped
is `Stuck`. Blocks stay disjoint and blank, because the bump index passes such a region by.
Assumptions: `RegionsAssumption`, `GrantedAssumption`, `StuckAssumption`, `SizesAssumption`,
`NullAssumption`.

`GuestMemory_proofs` (every pool, grant, size of code and of memory, however often it moves):

* `TypeCorrect`, `NothingStaysMapped` (`NothingLeaked`), `SizedGuestsAreSafe`
  (`SizedGuestsRun`), and `Refinement`: what the guest reads implements `LinearMemory`.

The program that runs is a parameter of the arena's instance, and a theorem of such an
instance cannot be cited, so the arena's invariants are proved here again, of the pool in
use (`PoolInv`). `HoldsInv` says which blocks are held: code, memory and the mapping a moved
memory left, each by the base it was handed out at, and nothing else; so when all three are
dropped nothing is mapped but what the kernel refused to unmap, wherever the guest failed. A
panic leaves blocks mapped that nothing records, which is why `MapInv` is an inclusion after
one. `MemoryInv` and `StageInv` place these against the stage. `FramesInv` is the one that
makes a memory a memory: what lies above the bump index, and above a memory's length in its
own mapping, is still zero. It carries `LentBlank` (a new mapping is blank), and through it
growth in place as well as growth by moving. `ReadsItsFrames` then says that the guest reads
exactly its `Image` in the Frames; the refinement has one lemma per action that changes that
image. `SizedInv` counts regions: a guest that fits starts within the granted ones, and has
no move that fits in a pool with empty slots, so it never meets one. Assumptions:
`ProgramsAssumption`, `GuestsAssumption`, `NullAssumption`, and `SizedAssumption`: the
loader grants what the guests a pool is sized for start with, and a pool with empty slots is
smaller than a moved memory needs, as the confined runtime's is (four regions, three
Frames).

`BumpArena_proofs` (every number of threads, every program of theirs, every arena size):

* `TypeCorrect`, `PagesAccounted`, `FailuresHonest` (`FailsOnlyWhenFull`), and
  `Refinement`: the loop implements `RegionPool`.

`OffInv` is why a stale offset does no harm: `ARENA_NEXT` only grows, so an offset read
earlier is never ahead of it, and one that is refused would be refused now. With it
`PagesAccountedFor` (the blocks handed out partition the pages below the index) is
inductive. `ServedInv` and `Types` say that every served call was handed an offset, which
makes the blocks a function of the results. Assumptions: `PagesAssumption`,
`ProgramAssumption`, `NullAssumption`.

`ComponentLoading_proofs` (every set of components, imports and manifests, any number of
signatures):

* `TypeCorrect`, `TrustHolds` (`TrustedBeforeParsed`), `StubsOnlyUndeclared`
  (`StubOnlyIfUndeclared`).

`TrustInv` carries what verification established to the moment of parsing, for each role's
own order, and in the confined runtime that is the pair of manifest and artifact. `PlanInv`
says what the loader has linked when the component runs. Together: a component the confined
runtime hosts came with the manifest it was signed with, and the plan links all of that
manifest; a stub that is met stands for an import this manifest leaves out. Nothing is
assumed about what publishers declare. Assumptions: `ImportsAssumption`,
`RunawaysAssumption`, `ManifestsAssumption`, `FuelAssumption`, `BoundAssumption`,
`NoneAssumption`.

`ConfinedRuntime_proofs` (every launch, and any combination of faults, not only pairs):

* `TypeCorrect`, `SuccessEarned`, `AlwaysVerifiedFirst`, `OneOutcomeHolds`,
  `DeclinedSilent`: every invariant of `confined_runtime`; and `Refinement`: the launch
  implements `GrantLife`.

A SUCCESS is a claim about the whole run, so the invariant carries it along the stages.
`StepInv`, `GrantInv`, `ChannelInv` and `ControlInv` relate the stage to the script, the
grant, the one message under way and the revocation; `Verified` carries the package check to
every later stage. `BreachInv` is the core: for each stage, what can have been obtained
against the rules without a failure already on its way; by the second probe it is nothing,
because the self-checks and the two probes leave a misbehaving service no way past them.
`SignalInv` says that all that is or will be signalled is one `Outcome`, and that a SUCCESS
among them is earned. `StoredInv` relates the file to the guest's script (`StoredStep`): a
filesystem guest past the read that follows its write has its data in the file, which is the
part of `SuccessIsEarned` the size check is about. The refinement adds the order in which it
was earned: `SuccessIsEarned` would still hold of a runtime that forgot the open request,
`ImplementsGrantLife` would not (its mutant). Every failing step maps to `Spoil`
(`LifeFails`), every answer taken to `Look` (`LifeLooks`), a request served to `Serve`
unless it is a breach (`LifeServeRequest`), and a lost call to an answer that is lost
(`LifeCallFails`); `FreshInv` makes the binder's answer the only way to a badge.
Assumptions: `WorldsAssumption`, `FuelsAssumption`.

Only model-checked: liveness (`CallAnswered`, `CallReturns`, `Signalled`,
`HonestLaunchSucceeds`, `AllReturn`, `EveryRunEnds`, `GenuineRuns`), which is out of the
prover's reach. Every invariant, action property and refinement of a passing run is proved.

## 6. What is not modelled

* The crate root (`src/src/lib.rs`): re-exports and feature gates.
* Payloads, cryptography and wire codecs: an argument is good or one of the malformed kinds
  the code separates, a chunk is told apart by where it came from, a signature covers what
  was signed and nothing else.
* The owning services, the launch binder, `grant-control`, Wasmtime and the kernel, beyond
  what `src/` relies on. The resource table's reuse of indices, the size of a linear
  memory's mapping and its moves are Wasmtime's; they are marked external.
* `wasmtime_mprotect` (it changes no mapping), memory images and the no-op locks: no state.
* The heap of confined-runtime byte by byte: `HeapExhausted` may panic at every point where
  the program can allocate.

## 7. Plan

Done: the mapping and its backends, both arenas and what runs on them, the loading path of
every role, and the confined program, each with its runs, and the proofs of all they check
but liveness.

Left: an abstract specification of the loading path (what may reach an instance, whoever
delivers it) that `ComponentLoading` implements. The seven liveness properties stay with TLC.
