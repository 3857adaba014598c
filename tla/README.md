# TLA+ models of the CPU DRA driver

This directory holds TLA+ specifications of the CPU Dynamic Resource Allocation driver in `src/`. It also holds the TLC configurations that model-check them on small instances and TLAPS proofs of the main safety properties for every instance.

## The system

The driver publishes the node's CPUs to Kubernetes as DRA devices. When the kubelet prepares a pod's resource claim, the driver turns the claim's allocation into a concrete CPU set and hands that set to the container runtime.

| Part | Source | What it does |
|---|---|---|
| device constants | `pkg/device/consts.go` | Device name prefixes, the capacity name `dra.cpu/cpu`, and `maxDevicesPerResourceSlice` (128). |
| IndividualCoreManager | `src/unnamed/part_002` | One device per unreserved CPU, numbered so that hyperthread siblings get adjacent indices. It builds a name→CPU index and cuts the catalog into slices of at most 128 devices. `AllocateCPUs` resolves device names back to CPU IDs. |
| SocketGroupedManager | `src/unnamed/part_000` | One shareable device per socket that has unreserved CPUs, with capacity equal to that number of CPUs. For each allocation result, `AllocateCPUs` intersects the store's free pool with the socket's CPUs and calls `TakeByTopologyNUMAPacked`. |
| NUMAGroupedManager | `pkg/device/grouped_numa.go` | The same, per NUMA node. |
| attribute builders | `src/unnamed/part_001`, `SetCompatibilityAttributes` in `part_000` | Copy topology fields into device attributes. |
| driver | `pkg/driver/driver.go` | `Start` registers the kubelet plugin, starts the NRI plugin (with a restart loop), and then runs `PublishResources` in a goroutine. `prepareResourceClaim` calls the manager's `AllocateCPUs`, records the set in the `CPUAllocationStore`, and writes a CDI device carrying the set in an env var. `unprepareResourceClaim` removes the store entry and then the CDI device. |
| CPUAllocationStore, CDI manager, NRI hooks, cpuinfo, cpumanager | not under `src/` | The store's free pool (`GetSharedCPUs`) is what a grouped manager allocates from. |

How the parts interact:

- The grouped managers read the store's free pool. The driver writes the store, but only after `AllocateCPUs` returns.
- The kubelet serialises the gRPC calls. This is kubeletplugin's default, and `Start` does not change it.
- `PublishResources` runs concurrently with the first prepares, because the plugin is registered before the goroutine starts.

## Modules

| Module | Models | State and actions |
|---|---|---|
| `DeviceTopology` | The topology snapshot, the reserved set, `CPUsInSockets`/`CPUsInNUMANodes`, and `TakeByTopologyNUMAPacked`. | No variables. `TakeByTopologyNUMAPacked(pool, n)` is a deterministic choice of `n` CPUs of the pool, and `CanTake` is its failure condition. Its packing heuristic is external and opaque; the callers rely only on determinism and on the size. |
| `GroupedDriver` | A grouped manager (socket or NUMA, chosen by `CoordOf`/`Prefix`), the driver's publish, prepare and unprepare, the store and the kubelet. | See below. |
| `GroupedDriverProofs` | TLAPS proofs about `GroupedDriver`. | |
| `GroupedCountProofs` | TLAPS proof of `ResolvedCountMatchesRequest`. | |
| `GroupedCapacityProofs` | TLAPS proof of `CapacityHonoured`. | |
| `SumFold` | The laws of `MapThenSumSet` (the fold the counts are summed with), proved once for a summed operator `f(c, x)` given as a constant. | No variables. `GroupedCountProofs` instantiates it with `f <- LAMBDA c, i : Results[c][i].count`, and `GroupedCapacityProofs` with `f <- LAMBDA c, p : Results[p[1]][p[2]].count` (sums over (claim, result) pairs). |
| `CPUStore` | What the `CPUAllocationStore` promises, as an abstract specification. It also holds the proof that the abstract store is exclusive. | `held`: claim → CPUs. `Assign(c, S)` gives a claim a set of free CPUs, `Release(c)` empties its entry, and `Reset` is a new store in a new process. `GroupedDriver` instantiates it with `held <- alloc` (`StoreRefinement`). |
| `NRILoop` | The goroutine that keeps the NRI plugin running (`driver.go:143-157`). | `i`, `loc` (connecting, serving, at the `select`, past its `default` branch, returned, `Fatalf`), `ctxDone`, and the ghost `streak`: the number of Runs since one last connected. The environment's actions are `Connect`, `ConnectFail`, `Disconnect` and `Cancel`. The loop's own actions are `RunCancelled`, the two branches of the `select` (`CheckDone`, `CheckDefault`), and the loop test after `i++` (`CheckRetry`, or `CheckFatal` when it fails). `Cancel` may come between the `select` and the loop test, as it can in Go. |
| `NRILoopProofs` | TLAPS proofs about `NRILoop`. | |
| `IndividualCore` | `IndividualCoreManager.CreateSlices` and `AllocateCPUs`. | `sib` and `resv` are the topology inputs, chosen by `Init` among all symmetric sibling pairings and reserved sets. Then `index`, `slices` and the last resolution (`resolved`, `failed`). `CreateSlices` is one action: it walks the sorted available CPUs (`GroupStep`, folded over the sequence), sorts the groups, numbers the devices, and chunks them. |
| `MCGroupedDriver`, `MCIndividualCore` | Instances for TLC. | |

### The variables of `GroupedDriver`

| Variable | Meaning |
|---|---|
| `pending` | The coordinates `CreateSlices` has not visited yet. |
| `index` | `deviceNameTo{Socket,NUMANode}ID`. |
| `alloc` | The store. |
| `cdi` | The CPU set in each claim's CDI env var. |
| `kst` | The kubelet's view of each claim. |
| `pc` | Where a prepare is: `"alloc"` inside `AllocateCPUs`, `"cdi"` after the store was written. |
| `ri` | The allocation result being looked at. |
| `acc` | `cpuAssignment`. |
| `err` | The error of the last prepare (`"crash"` when the process died under it). |
| `started` | `Start` has set `cdiMgr` and launched its goroutines. |
| `restarts` | The number of kills from outside so far, bounded by `MaxRestarts`. |

### The actions of `GroupedDriver`

The publishing goroutine:

- `CreateDevice` and `SkipCoordinate` are one iteration each of `CreateSlices`. Coordinates are visited in ascending order, so a concurrent prepare sees a prefix of the index.

The kubelet's calls:

- `PrepareNoAllocation` is the `Allocation == nil` early return.
- `PrepareStart` is entry into `AllocateCPUs`.
- `Unprepare` covers store removal followed by a successful `RemoveDevice`.
- `UnprepareFail` covers store removal followed by a failed `RemoveDevice`.

The steps of a prepare, one loop iteration of `AllocateCPUs` each:

- `AllocSkipForeign` skips a result of another driver.
- `AllocLookupFail` is a device missing from the index.
- `AllocTakeFail` is a pool that is too small.
- `AllocTake` takes CPUs and adds them to `cpuAssignment`.

Then:

- `AllocDone`: `AllocateCPUs` returns and `AddResourceClaimAllocation` records the set.
- `CDIAddDevice` or `CDIAddDeviceFail`: the CDI write succeeds or fails.

The life of the process:

- `Init` is the state just after `kubeletplugin.Start`. The plugin is registered and the kubelet may call it, but `cdiMgr` is still nil and no goroutine runs. The index, the CDI and unprepare actions need `started`.
- `StartComplete` is the rest of `Start`: the registration poll, `cdiMgr`, the NRI stub and loop, and the `PublishResources` goroutine.
- `ProcessRestart(k)` is a new process that has run `Start` up to `kubeletplugin.Start` again. The store, the index and every prepare in progress are lost. In-flight calls fail with `"crash"`. The CDI spec files on disk stay.
- `Crash` is a kill from outside the handlers: OOM, an update, or the NRI loop's `Fatalf`.
- `UnpreparePanic` is an unprepare before `StartComplete`. It removes the store entry and calls `RemoveDevice` on the nil `cdiMgr`, and the process panics. A prepare cannot reach `AddDevice` in that window. The index is filled only by the goroutine `StartComplete` starts, so every prepare of a claim with a result of this driver fails its lookup first. The model has no action for that panic, and the checks would report one as an action that never fires.

Concurrency:

- `Serialize = TRUE` lets a kubelet call start only when no other call is in progress.
- `Serialize = FALSE` lets prepares of distinct claims interleave step by step.

## Runs

All runs use six CPUs. In `MCGroupedDriver`, CPUs 0 and 1 are reserved, so:

- socket 0 offers 1 CPU and socket 1 offers 3;
- NUMA node 0 is never published, and nodes 1 and 2 offer 2 CPUs each.

There are four claims. Between them they:

- overcommit one device and exactly fill another;
- carry a result of another driver, and a zero count;
- include one claim without an allocation.

These bounds are enough for every action of the model to fire. In particular:

- two prepares compete for one socket;
- a CDI failure leaves CPUs in the store while another claim prepares;
- a prepare arrives before the index is complete.

In `MCIndividualCore`, six CPUs give every pairing shape: no siblings, one pair, two pairs, or three pairs, in any arrangement. Every reserved set is covered, including one that reserves one sibling of a pair. `MaxPerSlice = 4` makes the catalog span one or two slices (a partial last slice, or an exact fit).

| Run | Expect | Checks | Shows |
|---|---|---|---|
| `socket_serial` | pass | `TypeOK`, `ExclusiveAssignment` | With serialised calls, CDI failures, retries, the nil-`cdiMgr` window and a prepare racing the publisher, but no restart: no CPU is in the CDI env vars of two prepared claims. |
| `socket_restart` | pass | `AllocationWithinDevices`, `ResolvedCountMatchesRequest`, `StoreRefinement` | The same instance with one process restart: each CPU the store records lies in a device the claim names, a prepared claim gets exactly the count it consumed, and the driver's steps on `alloc` are steps of `CPUStore`. |
| `numa_capacity` | pass | `CapacityHonoured` | Without CDI failures, a prepare fails for capacity only on an overcommitted NUMA device. |
| `individual_catalog` | pass | `TypeOK`, `DevicesCoverAllocatable`, `SiblingsAdjacent` | The device catalog is a bijection onto the unreserved CPUs, and siblings are adjacent with the lower ID first. |
| `publish_race` | violation | `PublishedDevicesResolve` | A prepare during publishing fails the lookup of a device that is published. |
| `cdi_leak` | violation | `CapacityHonoured` | A failed CDI write leaks the claim's CPUs in the store; the retry fails for capacity on a device that is not overcommitted. |
| `duplicate_device` | violation | `ResolvedCountMatchesRequest` | Two results of one claim on the same device get the same CPUs, so the container gets fewer CPUs than the claim consumed. |
| `unserialized` | violation | `ExclusiveAssignment` | Without serialisation, two prepares read the same free pool and both record the same CPU. |
| `restart` | violation | `ExclusiveAssignment` | One restart: the store is empty while a prepared claim's CDI env var still names its CPUs, and the next claim is given the same CPUs. |
| `nri_bound` | pass | `TypeOK` | The NRI loop with the code's `maxAttempts = 5`, under every interleaving of failures, disconnections and cancellation: `Run` is called at most five times. |
| `nri_cancel` | violation | `CancelledLoopExits` | A cancel that arrives after the `select` took `default` in the last iteration is never seen: the loop ends and `Fatalf` kills the process instead of returning. |
| `nri_fatal` | violation | `FatalOnlyAfterPersistentFailure` | The loop calls `Fatalf` after five Runs although one of them connected. |

`MaxRestarts` is 0 in `socket_serial` and `numa_capacity`, because the `restart` run shows that a crash breaks exclusivity, and a crash resets the loop index that `CapacityHonoured` reads. The nil-`cdiMgr` panic of unprepare still happens there, since it needs no kill from outside. The properties that survive a crash are checked in `socket_restart`, with `MaxRestarts = 1`; it takes about a minute.

Each property of a passing run has a mutant in `PROJECT.json`. A mutant is a plausible bug in the mapped code that TLC catches:

- an off-by-one in the index;
- a static pool instead of the live one;
- a pool not restricted to the device;
- `cpuAssignment` overwritten instead of united;
- a store entry not removed on unprepare;
- 1-based device IDs;
- a dropped `processedCpus` check;
- a sibling appended first;
- an NRI loop that runs once more than `maxAttempts`.

## Findings

- **Publish race** (`driver.go:160`). `PublishResources` starts only after the plugin is registered, so a prepare can observe a partial index. The goroutine writes the index map while prepares may read it. The spec requires the index to be complete before resolution can see it.
- **CDI failure leaks the store entry** (`driver.go:268-274`). Nothing rolls back `AddResourceClaimAllocation`. The CPUs stay held until the kubelet unprepares the claim, and a retry of the prepare may fail for capacity.
- **Two results on one device** (`grouped_numa.go:116-123`, `part_000:107-114`). Each result reads the free pool anew, and the claim's own earlier picks are not yet in the store. The deterministic packing therefore returns the same CPUs again.
- **Exclusivity rests on kubeletplugin's serialisation** (`driver.go:263-268`). Nothing in the driver locks the gap between reading the pool and recording the choice.
- **A restart forgets every allocation** (`driver.go:92`). `Start` creates the store empty, and nothing rebuilds it from the prepared claims. The CDI spec files survive and the containers keep running, and the kubelet does not prepare those claims again. After an OOM, an update, a `Fatalf` of the NRI loop, or a nil-`cdiMgr` panic, the next claim can be given CPUs that a running container already has.
- **The NRI loop counts recoveries, not failures** (`driver.go:144`). `i` is never reset when `Run` connects again. Five runtime restarts over a node's life therefore end the driver with `Fatalf`, although each recovery succeeded. The comment on `maxAttempts` (line 38) describes it as the number of tries to recover before failing.
- **Shutdown can end in `Fatalf`** (`driver.go:149-156`). The NRI goroutine looks at `ctx.Done()` once per iteration, in a `select` with a `default` branch. If the context is cancelled after the last iteration's `select` took `default`, the loop test fails and `klog.Fatalf` exits the process, where the `select`'s `case <-ctx.Done(): return` says cancellation should end the goroutine quietly. The `nri_cancel` run finds it.
- **The nil-`cdiMgr` window** (`driver.go:125`). The kubelet may call the plugin as soon as it is registered, but `cdiMgr` is set only after the registration poll. An unprepare in that window panics the process. A prepare in that window fails its lookup on the still-empty index before it reaches `AddDevice`. On a first start the panic is harmless to exclusivity, because no claim is prepared yet: `SerializedExclusive` proves it with the panic in the model. After a restart, though, it is one more way into the restart finding.

## Fairness

`GroupedDriver` is checked for safety only, so its `Spec` has no fairness. (A Go `for ... range` loop cannot stall on a result, so its progress properties would restate the loop's shape.)

`NRILoop`'s `Spec` assumes weak fairness of the goroutine's own steps (`Loop`): the goroutine is never blocked outside `Run`. `RunCancelled` stands for the NRI stub returning from `Run` once `ctx` is done. The `nri_cancel` counterexample needs no fairness at all: it ends in `Fatalf`, a final state. Connecting, disconnecting and cancelling are the environment's choice, and no fairness is assumed of them.

## Proofs

`GroupedDriverProofs`, `GroupedCountProofs` and `GroupedCapacityProofs` prove seven theorems with TLAPS, for every topology, reserved set, claim set and list of allocation results. The only assumptions are `TopologyAssumption` and `GroupedAssumption`: CPU IDs are naturals, the CPU set is finite, the coordinate maps are total, and the results are well-typed sequences.

### `TypeCorrect`: `Spec => []TypeOK`

The inductive invariant `TypeInv` adds one fact to `TypeOK`: a claim inside a prepare has an allocation. This is what makes the current result a record with a device and a count.

The proof rests on these lemmas:

- `MinIsLeast`: `Min` of a non-empty set of naturals is in the set. It is proved from the well-foundedness of `<` on `Nat`.
- `SubsetOfSize`: a finite set has a subset of every size up to its cardinality. It is proved by taking the image of `1..n` under the bijection that `FS_CardinalityType` provides.
- `TakeWithinPool`: `TakeByTopologyNUMAPacked` returns `n` CPUs of the pool.
- `PoolIsFinite`.
- `RestartTypeInv`: a restart leaves a well-typed state, whatever the kubelet's view after the panic.

### The store invariant `StoreInv`

`StoreExclusive` (no CPU in two store entries) is not inductive on its own, because `AllocDone` writes `cpuAssignment` into the store. `StoreInv` adds the following facts, and `NextStoreInv` proves it is preserved by every step, restarts included:

- Under serialisation at most one claim is inside a prepare (`AtMostOneBusy`).
- The CPUs that prepare has taken so far are held by no other claim (`AccFree`). Until `AllocDone` they are not in the claim's own old entry either. `AllocTake` takes only from the free pool (`PoolIsFree`, `TakeIsCPUs`), and no other claim can enter or leave the store meanwhile.
- `cpuAssignment` consists of unreserved CPUs (`AccAllocatable`).
- After `AllocDone` the store holds `cpuAssignment` (`StoreIsAcc`).

A restart empties the store and ends every prepare, so it re-establishes all of these facts (`RestartStoreInv`).

### `SerializedRefinement`: `Serialize => (Spec => StoreRefinement)`

Under serialised calls the driver implements the abstract store `CPUStore`, with `held <- alloc`. The argument:

- `Init` maps to the abstract `Init`.
- `AllocDone(c)` is `Assign(c, acc[c])`. `AccFree` and `AccAllocatable` show that `acc[c]` is free (`StoreStep`).
- `Unprepare` and `UnprepareFail` are `Release`.
- `ProcessRestart` is `Reset`.
- Every other step leaves the store unchanged.

### `SerializedStoreExclusive`: `Serialize => (Spec => []StoreExclusive)`

Under serialised calls no CPU is ever recorded for two claims in the driver's own store, crashes included (unlike the CDI env vars, which `restart` shows overlapping). The proof carries the lemma `CPUStore!StoreExclusive`, that the abstract store never gives a CPU to two claims, through the refinement: `SerializedRefinement` gives `Store!Spec`, the lemma gives `[]Store!Exclusive`, and under `held <- alloc` that formula is the driver's `StoreExclusive`.

### `SerializedExclusive`: `Serialize /\ MaxRestarts = 0 => (Spec => []ExclusiveAssignment)`

Exclusivity of the CPUs handed to containers needs more than the store, because the CDI env vars outlive the process. `ExclInv` adds two facts to `StoreInv`:

- A prepared claim is not being prepared, and its CDI set equals its store entry (`PreparedIsStore`).
- Before `cdiMgr` is set, no claim is prepared (`StoppedNotPrepared`). This is why the nil-`cdiMgr` panic of unprepare keeps `PreparedIsStore`: it empties the store when no claim is prepared (`PanicExclInv`).

The hypothesis `MaxRestarts = 0` rules out kills from outside. The `restart` run shows that the theorem is false without it.

TLC checked `ExclInv` on the socket instance, and `StoreInv` on the socket instance with one restart, before they were proved.

### `AllocationWithinClaimDevices`: `Spec => []AllocationWithinDevices`

This theorem has no hypothesis: it holds with or without serialisation, CDI failures and restarts. `AllocationWithinDevices` is not inductive, because `AllocDone` records what `AllocTake` gathered. `WithinInv` adds two facts:

- While a prepare runs, every CPU of `cpuAssignment` lies in a device that one of the claim's own results names.
- The index maps every device name to the coordinate the name was made from (`IndexNamesCoord`).

`TakeWithinDevice` carries the step that matters. `PoolOf` restricts the free pool to the coordinate `index[d]`, and `IndexNamesCoord` turns that coordinate back into `d`. The result `AllocTake` looks at has this driver's name, so it is one of the claim's own results. TLC checked `WithinInv` on the socket, unserialised, restart and duplicate-device instances before it was proved.

### `ResolvedCountMatches`: `DistinctOwnDevices => (Spec => []ResolvedCountMatchesRequest)`

A prepared claim's CDI env var holds exactly the number of CPUs its own results consumed. This holds with or without serialisation, CDI failures and restarts. The hypothesis `DistinctOwnDevices` says that no two of a claim's own results name the same device. Without it the theorem is false: `duplicate_device` shows two results on one device receiving the same CPUs, and the union then loses some.

The inductive invariant `CountInv` adds `WithinInv` and, for each claim, these facts (`ClaimCount`):

- While `AllocateCPUs` runs, every CPU of `cpuAssignment` lies in the device of an own result before `ri` (`AccBefore`).
- While `AllocateCPUs` runs, `|cpuAssignment|` is the sum of the counts of the own results before `ri` (`CountBefore`).
- After the loop, `|cpuAssignment|` is the claim's whole `RequestedCount`.
- A prepared claim's CDI set has that size.

The step that matters is `AllocTake`. The CPUs it takes lie in the coordinate of the current device (`TakeInCurDevice`, using `IndexNamesCoord`). By `AccBefore` and `DistinctOwnDevices`, these CPUs are disjoint from `cpuAssignment` (`TakeDisjoint`). The union therefore grows by exactly the result's count (`FS_Union`), and `CountBefore` grows by the same count (`CountBeforeNext`). A restart keeps the CDI sets and leaves a claim prepared only if it was prepared before (`RestartCount`). TLC checked `CountInv` and `DistinctOwnDevices` as invariants on the socket, unserialised, restart and NUMA instances before they were proved.

The sum laws come from `SumFold`. `MapThenSumSet` is a fold written as a recursive function over subsets, `CHOOSE`-ing an element each time. The module proves the following:

- The fold is a fixpoint of its defining equation (`SumIterDef`). This follows from the library's `WFInductiveDef`, over the well-founded order "smaller cardinality" on subsets (`CardLessWF`).
- The fold restricted to a subset is the fold of that subset (`SumRestrict`).
- `SumEmpty`, `SumRemove` and `SumAddElement`: removing or adding one element removes or adds its term.
- `SumUnion`: the sum over a union of disjoint finite sets is the sum of the sums.
- `SumMono`: with terms in `Nat`, the sum over a subset is at most the sum over the set.

These are inductions over finite sets. Because the library's induction theorems take an operator parameter, which the provers cannot instantiate, each induction is done by hand. It picks a least counterexample by cardinality (`NatLeast`) and shows that one smaller exists. The summed operator is a `CONSTANT` of the module, so a user obtains the laws for its own term by `INSTANCE SumFold WITH f <- ...`.

### `CapacityHonouredHolds`: `~CDIMayFail /\ MaxRestarts = 0 /\ IsFiniteSet(Claims) => (Spec => []CapacityHonoured)`

A prepare fails in `TakeByTopologyNUMAPacked` for lack of CPUs only on a device whose demand exceeds the capacity `CreateSlices` published for it. Demand is the sum of the counts of every claim's own results on the device. The theorem holds with or without serialised calls. It has three hypotheses:

- `~CDIMayFail`. A failed `AddDevice` leaves the claim's CPUs in the store while the kubelet sees a failed prepare, and the retry then takes a second set. The `cdi_leak` run shows the property failing this way.
- `MaxRestarts = 0`. A restart resets every loop index `ri`, so the device `Cur(c)` names for a claim that failed earlier changes. `CapacityHonoured` reads the device through `ri`, and TLC finds it violated with one restart.
- `IsFiniteSet(Claims)`. The sums are over finite sets of (claim, result) pairs.

The inductive invariant is `CapInv /\ ErrInv`. `CapInv` adds these facts to `WithinInv`:

- The store holds CPUs for a claim only once it has finished `AllocateCPUs` (`StoreOwner`). At that point the claim is in `cdi`, or idle and prepared.
- A running prepare's `cpuAssignment` holds, in each coordinate, at most the summed counts of the claim's results on that coordinate's device that the loop has passed (`AccBound`).
- For every set `D` of claims and every coordinate, the store holds for `D` at most the summed counts of the results of `D`'s claims that are not inside `AllocateCPUs` (`HeldBound`).

`HeldBound` is quantified over all subsets `D`. The `PrepareStart` and `AllocDone` steps of one claim need the bound for the other claims.

The step that matters is `PoolLargeEnough`. The pool `AllocateCPUs` reads for a device is the device's unreserved CPUs minus what the store holds in its coordinate (`PoolIsAllocatableLessHeld`). The claim being prepared holds nothing in the store. So by `HeldBound`, the rest of the store holds at most the demand minus the current result's count (`PSumMono`, `PSumRemove`). Whenever demand is within capacity, the pool is therefore large enough. `AllocTake` keeps `AccBound` because the CPUs it takes lie in the current device's coordinate and number exactly its count (`AccTake`). `AllocDone` moves `cpuAssignment` into the store, bounded by all of the claim's pairs (`AccAll`, `HeldAllocDone`).

`ErrInv` records three facts:

- A prepare in progress has no error.
- The index is non-empty only after `Start` (`IndexStarted`).
- A capacity error comes from an overcommitted device, in a process that has run `Start` (`ErrCap`).

The nil-`cdiMgr` panic restarts the process only before `Start`. At that point no claim has a capacity error, so the reset of `ri` does not matter.

TLC checked `CapInv` (over the coordinates `0..3`) and `ErrInv` on two instances before they were proved: the NUMA instance of `numa_capacity` and the same instance unserialised.

### `NRILoopProofs`: `NRITypeCorrect`

These are proved for every `maxAttempts` ≥ 1 (`MaxAttemptsAssumption`; the code's value is 5).

`NRITypeCorrect`: `Spec => []TypeOK`. The loop calls `Run` at most `maxAttempts` times, and the number of Runs since the last connection stays within that bound.

It rests on `NRIInv`. In it, `streak` is at most `i` while a Run is in progress, at most `i + 1` once it has returned, and `i` is below the limit whenever `Run` may be called again. TLC checked `NRIInv` on the `nri_bound` instance first.

### What stays with TLC

Two kinds of result are checked by TLC only:

- All the violation runs and the `IndividualCore` properties. `IndividualCore` uses `FoldLeft`, `SortSeq` and `FlattenSeq`. These are folds and recursive functions. Proving what they compute for every input needs inductions over sequences, done by hand as `SumFold` does for sets. Those proofs are not done.
- Liveness: `CancelledLoopExits`, which TLC finds violated.

## Not modelled

- **Attribute builders.** They are pure data formatting that no property is about.
- **`Stop` and `Shutdown`.** They only call the libraries' `Stop` and log.
- **The composition of the driver with `IndividualCoreManager`.** The driver hooks are the same; `IndividualCore` checks that manager on its own.
- **The NRI loop's effect on the driver.** `Fatalf` is one of the causes of `GroupedDriver`'s `Crash`, and the two modules are not composed.
- **What `IndividualCore`'s `AllocateCPUs` returns.** The action is modelled (the lookup of each device name and its failure), but no property is stated about it: a failed lookup returns an error and a found one returns the CPU the index names, with no interaction to check.
- **Some details of the driver's steps.** `CDIAddDevice` is guarded by `started`: before `Start` sets `cdiMgr`, a prepare never reaches `AddDevice`, because its lookup fails on the empty index, so the nil-interface panic there is unreachable and is not modelled. `StartComplete` leaves out `Start`'s error returns after registration, which end the process as a `Crash` does. The writes of the index map are modelled as atomic, one coordinate per step; the Go map is not safe for a concurrent read, which the publish-race finding already reports.
- **Rounding of fractional CPU quantities.** Counts are naturals in the model.
- **Sibling maps that are not symmetric, or that name CPUs absent from the topology.** cpuinfo does not produce them. The model keeps the Go zero-value read (`InfoID`) so that such inputs could be added later.

## Plan

Work for later sittings:

- A module composing the driver with `IndividualCore`.
- A restart-tolerant form of `CapacityHonoured` that remembers the failing result's device rather than reading it through `ri`, and its proof.
