# TLA+ models of the Kubernetes ingress plugin for Traffic Server

This directory holds TLA+ models of the plugin under `src/`. It also holds TLC
configurations that model-check them on small instances, and TLAPS proofs of
their main invariants for every value of the constants.

## 1. The system

The plugin runs inside Traffic Server (ATS). ATS owns the threads and calls the
plugin through continuations (callbacks).

| Part | Code | State it owns | Operations |
|------|------|---------------|------------|
| Cluster watchers | not under `src/` | `state->cluster`, `state->changed` under `cluster_lock` | apply an object change and set `changed` |
| Rebuild | `rebuild_maps`, `src/tsapi/remap.c:36-54` | reads `changed`/`cluster`; writes the config slot | under `cluster_lock`: if `changed`, compile and clear it; after the unlock, `TSConfigSet` |
| Config slot | ATS `TSConfig*` API | the current database, plus a reference count per database | `TSConfigGet`, `TSConfigRelease`, and `remap_db_free` once a replaced database has no reference left |
| Remap hook | `handle_remap`, `external_lookup`, `remap.c:74-87, 623-899` | per transaction: the database it holds and whether it has been re-enabled | take a reference, run `remap_run`, answer directly or set the origin (IP, or a DNS lookup with a callback), release, re-enable |
| SNI hook | `handle_tls`, `src/tsapi/tls.c:30-123` | per TLS connection: the context attached | look up the host, check the TLS version, attach `SSL_CTX`, `TSVConnReenable` |
| Compiler and dispatch | `remap_db_from_cluster`, `remap_run` (not under `src/`) | the immutable database | pure functions |
| Config loader | `k8s_config_load`, `src/config.c` | the `k8s_config_t` it returns | parse the service-account token and the config file |
| Endpoints object | `endpoints_make`, `endpoints_equal`, `src/api/endpoints.c` | an `endpoints_t` | build from JSON, compare, free |
| Transaction hooks | `handle_remap`'s continuations, `set_headers`, `server_push`, `add_cache_status`, `check_response_cache`, `remap.c:260-852` | per transaction: the hooks added, the `rz_headers` hash, the cache setting, the pushes | add continuations to later hooks; each handler runs on its hook and re-enables |

How the parts interact:

- The watchers and `rebuild_maps` share `cluster` and `changed` under
  `cluster_lock`.
- `rebuild_maps` and the hooks share only the config slot. Its reference
  counting is what makes a replaced database safe to free.
- `handle_remap` and `external_lookup` share one transaction. Exactly one of
  them must re-enable it.
- `handle_remap` hands the `rz_headers` hash to `set_headers_cont`, or frees
  it in its cleanup. It also adds `server_push`, `check_response_cache` and
  `add_cache_status` to later hooks. ATS runs the continuations of a hook in
  the order they were added. Each one runs after the previous handler's
  `TSHttpTxnReenable`.

### The source revisions do not agree

`src/plugin.h` declares `struct state` with `cluster_lock`, `changed`,
`map_lock` and `map`. `remap.c` uses `state->cfg_slot` and `state->config`.
`tls.c` uses `state->lock` (a `pthread_rwlock_t`) and `state->db`. No file
under `src/` assigns `state->db`.

The model takes the remap.c design, a single published database, and lets
`handle_tls` read that database. This is what spec section 7 describes: one
published snapshot read by every request.

### Hard behaviours in the code

- **Publishing after the unlock.** `TSConfigSet` runs after `cluster_lock` is
  released, so a watcher can change the cluster between the compilation and
  the publication.
- **Reference counting.** A transaction holds a database between `TSConfigGet`
  and `TSConfigRelease` while the slot replaces it.
- **Re-enabling exactly once.** `handle_remap` clears `reenable` when it starts
  a DNS lookup, and `external_lookup` then re-enables. The lookup may find
  nothing, and the continuation may fail to be created.
- **Early returns in `handle_tls`.** Two of them skip `TSVConnReenable`.
- **The TLS version check relies on `switch` fall-through.**
- **A failed compilation.** `rebuild_maps` publishes whatever
  `remap_db_from_cluster` returns, NULL included.

## 2. Modules

| Module | Models | Kind |
|--------|--------|------|
| `SnapshotSlot` | watchers (spec-modelled), `rebuild_maps`, the config slot, `handle_remap`, `external_lookup`, `handle_tls` | core state machine |
| `MC_SnapshotSlot` | constants for TLC | MC module |
| `SnapshotSlotProofs` | inductive invariant and theorems about `SnapshotSlot` | TLAPS |
| `SnapshotAbstract` | what the slot promises the hooks (spec section 7) | abstract specification |
| `SnapshotRefinementProofs` | `SnapshotSlot` implements `SnapshotAbstract` (safety part) | TLAPS |
| `SnapshotPublishProofs` | freshness and no-withdrawal of the published database | TLAPS |
| `Config` | `k8s_config_load` (`src/config.c`) | sequential state machine, checked against a reference |
| `MC_Config` | the abstract line alphabet | MC module |
| `Endpoints` | `endpoints_make` (operator), `endpoints_equal` (state machine) | algorithm, checked against a reference |
| `MC_Endpoints` | the JSON objects compared | MC module |
| `EndpointsMake` | `endpoints_make` as a sequence of `calloc`s | sequential state machine |
| `MC_EndpointsMake` | the object shapes | MC module |
| `TxnHooks` | `handle_remap`'s continuations and their handlers (`remap.c`) | state machine |
| `MC_TxnHooks` | constants for TLC | MC module |
| `SnapshotHookProofs` | re-enable count and TLS version check of `SnapshotSlot` | TLAPS |
| `TxnHooksProofs` | the three safety properties of `TxnHooks` | TLAPS |
| `ConfigProofs` | `k8s_config_load` matches its reference, for every file | TLAPS |
| `EndpointsMakeProofs` | `endpoints_make` dereferences NULL only after a failed allocation | TLAPS |
| `EndpointsProofs` | `endpoints_equal` matches its reference, for every object set and iteration order | TLAPS |

### SnapshotSlot: state and actions

- **Snapshots.** A snapshot (a compiled database) is a number in
  `0..MaxChanges+1`. `data[s]` is the cluster version snapshot `s` was compiled
  from, or `NoDb` for the NULL database.
- **The slot.** `current` is the snapshot in the slot. `retired` holds the
  snapshots the slot has replaced. `freed` holds the ones `remap_db_free` has
  reclaimed. `refs[s]` counts the open `TSConfigGet` references to `s`.

| Action | Code |
|--------|------|
| `WatcherUpdate` | a watcher's change to the cluster (spec-modelled) |
| `RebuildMapsLocked` | `remap.c:41-51`: the guard is `changed`; the step compiles the current cluster version (or NULL when `CompileMayFail`) and clears `changed`. When `changed` is clear, `rebuild_maps` only unlocks and returns, a step that changes nothing. |
| `RebuildMapsPublish` | `remap.c:53`, `TSConfigSet` |
| `Reclaim(s)` | the slot calls `remap_db_free` on a retired snapshot with no reference left |
| `HandleRemapBegin(t)` | `remap.c:623-652`, up to `TSConfigGet` |
| `HandleRemapRun(t)` | `remap.c:653-899`, see below |
| `HandleRemapCleanup(t)` | `remap.c:886-899`, the cleanup after `TSHostLookup` was started: `TSConfigRelease`, no re-enable |
| `ExternalLookup(t)` | `remap.c:74-87`, before or after that cleanup |
| `TlsHookInvoked(c)` | a handshake reaches the SNI hook |
| `HandleTls(c)` | `tls.c:44-123`: all five exits |

`HandleRemapRun(t)` covers the rest of `handle_remap`:

- every `goto cleanup`: no database, or a result other than `RR_OK`;
- `inet_pton` success (an IP target) or a DNS name;
- `TSContCreate` success or failure;
- the cleanup itself, `TSConfigRelease` and the re-enable, on every path
  except the lookup.

On the lookup path, `tpc[t]` is `issued` after `TSHostLookup`. Traffic Server
may call `external_lookup` back before `handle_remap` reaches `cleanup`, even
synchronously from inside `TSHostLookup` on a HostDB hit. So `ExternalLookup`
(to `called`) and `HandleRemapCleanup` (to `lookup`) may come in either order.
The transaction holds its reference in `got`, `issued` and `called`
(`Holding`).

`remap_run` is abstracted to `RR_OK` or any other result. All non-OK results
behave the same for the slot and for re-enabling.

`TlsVersionRefused` keeps the `switch` of `tls.c:88-101` with its fall-through.
Versions are numbered 0 = SSLv3 to 4 = TLSv1.3. `TlsAccepted` is the conjunction
of "host found", "context present" and "version not refused".

### SnapshotAbstract, and the refinement

`SnapshotAbstract` is what the slot promises the request hooks. It has three
variables:

- `cluster`;
- `published`, the version of the published database, or `NoDb`;
- `held`, the version each transaction holds, or `None`.

It has four actions:

- `Change`;
- `Publish`, of any version between the published one and the current
  cluster;
- `Get(t)`, which takes the published version;
- `Release(t)`.

`Spec` requires weak fairness for publishing the current cluster.

`SnapshotSlot` defines `Abs == INSTANCE SnapshotAbstract WITH published <-
data[current], held <- ...`. A transaction in a `Holding` state holds
`data[tsnap[t]]`, and any other transaction holds nothing. Under this mapping
the steps correspond as follows:

| `SnapshotSlot` step | Abstract step |
|---------------------|---------------|
| `WatcherUpdate` | `Change` |
| `RebuildMapsPublish` | `Publish` |
| `HandleRemapBegin` | `Get` |
| `HandleRemapRun` without a lookup, and `HandleRemapCleanup` | `Release` |
| every other step, including `RebuildMapsLocked` | stutter |

`RebuildMapsLocked` is a stutter because it writes a fresh snapshot id.

### Config: state and actions

A config line is abstracted to a record with three fields:

- its option: a name, `#` for a comment, `blank` for an empty line (the
  empty C string), or `other` for an unknown option;
- whether it has a `:`;
- a value class:
  - `true`, `false` or `bad` for the booleans,
  - `h` or `h:p` for `server`,
  - `v` for anything else.

Leading blanks, which the `isspace` loops skip, are left out.

The returned `k8s_config_t` is a record:

- each pointer field is `null`, `set` or `freed` (dangling);
- `co_host` records where the host came from: `sa` or `file`;
- `co_port` is `443`, `env` (from `KUBERNETES_SERVICE_PORT`) or `file`.

| Action | Code |
|--------|------|
| `LoadStart` | `calloc` and the defaults, lines 48-55 |
| `ReadServiceAccount` | lines 57-80, including the return when no file is given |
| `OpenFile` | lines 82-85 |
| `ParseLine` | one iteration of the `fgets` loop (lines 87-156), see below |
| `Checks` | lines 158-187 |

`ParseLine` has one disjunct for each way a line is handled:

- an empty line;
- a comment, or an option with a value (`Assign`);
- an option without a `:` (a NULL value);
- a bad boolean or an unknown option, which goes to `error`.

`Checks` frees the token when a keyfile is given, then applies the four
consistency checks, each of which goes to `error`. Undefined behaviour is
recorded in `ub`: reading `line[-1]`, or passing the NULL value on.

### Endpoints

`endpoints_make` is the operator `EndpointsMake`, with `MakeFails` for the
three error exits. JSON fields are values or `Absent`: the code treats a
missing field and a field of the wrong type alike. Ports are hashed by name,
and a later port with the same name replaces an earlier one.

`endpoints_equal` is a state machine with one action per comparison, so that
every early `return 0` is a step:

- `CompareHeader`
- `StartSubset`
- `CompareAddr`
- `ComparePort`

`hash.c` is not under `src/`, and its tests fix no iteration order. So each
port hash is iterated in any order of its keys (`IterOrders`), chosen at
`Init`. `Orders(S)` is the set of such orders: the sequences over `S` that
visit every key and are no longer than `S`, so visit each key once. It is
written without the RECURSIVE operators of `SequencesExt`, so that the
module can be reasoned about; TLC checked that it equals `SetToSeqs(S)` for
every subset of a four-key set.

`EndpointsAssumption` states what `endpoints_make` relies on: the subsets of
each object, and the address arrays of each subset, are JSON arrays (finite
sequences), indexed from 0 to `json_array_size`.

### EndpointsMake

`EndpointsMake` follows how `endpoints_make` allocates, one action per
allocation or loop head:

- `AllocEps` is the `endpoints_t`, the only allocation checked against NULL;
- `Metadata` covers the metadata checks, and the return when there are no
  subsets;
- `AllocSubsets` is the subsets array (line 80), kept in `subs`;
- `NextSubset` is the head of the subset loop, and the store into
  `ep_subsets[i]` (line 87) that starts its body;
- `AllocPort` is one `endpoints_port_t` per port, with `et_name` written at
  once (lines 100-105);
- `AllocAddrs` is the address array (line 137), kept in `addrs`;
- `NextAddr` is the head of the address loop, and the store of `ea_ip` into
  `es_addrs[j]` (line 154). Every address of the API has an ip.

An object is reduced to its shape: complete metadata or not, a subsets array
or not, and the number of ports and addresses of each subset. `calloc` may
return NULL when `AllocMayFail` holds. `calloc(0, ...)` may return NULL in
any case, because the C standard leaves that to the implementation.
`Deref(p, next)` is a statement that stores through `p`: a NULL sets
`crashed`. So whether a NULL array is touched is decided by the loop
tests, as in the code. The history variable `oom` records that a `calloc`
of one element or more returned NULL. `ShapesAssumption` says the counts
in a shape are natural numbers, as array lengths are.

### TxnHooks: state and actions

`TxnHooks` models one transaction from `handle_remap` to `TXN_CLOSE`.

- `HandleRemap` is the whole of `handle_remap` from the creation of
  `set_headers_cont` to the cleanup. It covers:
  - the result of `remap_run`, and whether it returned headers;
  - whether `url_from_remap_result` succeeded;
  - the path's `rp_server_push` and `rp_cache`;
  - `check_cookies` on the request's Cookie header.

  `hooks` records the continuations it added to each hook, in order. The
  hash goes to `set_headers_cont` on the synthetic path and on the ok path
  past `url_from_remap_result`. Otherwise `remap_result_free` frees it.
- ATS's side:
  - `CacheLookup`, `OriginResponse`, `SendResponse` and `Close` deliver a
    hook: `pending` becomes that hook's list;
  - `Closed` ends the transaction.

  ATS moves on only when `pending` is empty and no handler has stalled
  (`Idle`).
- The handlers:
  - `SetHeaders`: it reads the hash at `SEND_RESPONSE_HDR`, and calls
    `hash_free` on it at `TXN_CLOSE`;
  - `ServerPush`: it skips all but fresh hits at the cache lookup;
  - `AddCacheStatus`;
  - `CheckResponseCache`: it turns caching off on Set-Cookie.

  Each handler runs only when its continuation heads `pending`. It removes
  itself with its `TSHttpTxnReenable`.
- The response getters can fail when `ServerRespMayFail` holds.
  `check_response_cache` then returns without re-enabling and sets `stalled`.
- `live` is the set of continuations created and not destroyed.

`request_from_txn`, `url_from_remap_result`, `set_host_field`, `add_xfp`
and the header copying are abstracted to their outcomes. `hash.c` is not
under `src/`, so `hash_free(NULL)` is taken to be a no-op.

### Fairness, and why the code justifies it

Weak fairness applies to:

- `RebuildMapsLocked` and `RebuildMapsPublish`: `rebuild_maps` runs from a
  periodic continuation;
- `HandleRemapRun`: ATS runs the rest of a hook once it has called it;
- `ExternalLookup`: ATS calls every host-lookup continuation back, with or
  without a result;
- `HandleTls`: ATS calls the SNI hook of a handshake.

New transactions, new handshakes and cluster changes are the environment's
choice, so they get no fairness.

`TxnHooks` assumes `WF_vars(Next)`. ATS keeps driving a transaction: it
delivers the next hook once the current one is re-enabled, and calls each
continuation it reaches. The client's early close is one of the `Next`
steps, and fairness never forces it. `EndpointsMake` checks only safety.

## 3. Runs

| Run | Config | Expect | Shows |
|-----|--------|--------|-------|
| `snapshot_core` | `MC_SnapshotSlot.cfg` | pass | see below |
| `tls_stall` | `MC_SnapshotSlot_tls.cfg` | violation | `HandshakeReenabled` fails: with no SNI, or with no database, `handle_tls` returns without `TSVConnReenable` (`tls.c:48`, `tls.c:63`). This is a code bug. |
| `compile_failure` | `MC_SnapshotSlot_fail.cfg` | violation | `DbNeverWithdrawn` fails with `CompileMayFail = TRUE`: `rebuild_maps` publishes a NULL database over a working one. Spec section 7 says a failed compilation keeps the previous snapshot. |

`snapshot_core` checks these properties:

- `NoUseAfterFree`
- `FreshWhenQuiet`
- `ReenabledAtMostOnce`
- `TlsVersionEnforced`
- `RemapReenabled`
- `EventuallyFresh`
- `SlotRefinesAbstract`: the slot implements `Abs!Spec`, fairness included.
  Its mutant recompiles the database in the slot in place, which makes a
  held database change under a transaction.

It passes with 142,515 distinct states.

| Run | Config | Expect | Shows |
|-----|--------|--------|-------|
| `config_load` | `MC_Config.cfg` | pass | see below |
| `config_undefined` | `MC_Config_ub.cfg` | violation | `NoUndefinedBehaviour` fails. A service-account file whose first line is only a newline makes line 63 read `line[-1]`. The same run's state space also holds an empty config line (line 95) and an option without `:` (lines 113-142). This is a code bug. |
| `config_token_freed` | `MC_Config_token.cfg` | violation | `ReturnedTokenValid` fails. With a keyfile, line 159 frees `co_token` and the config is returned holding the dangling pointer. This is a code bug. |
| `endpoints_equal` | `MC_Endpoints.cfg` | pass | see below |

In `config_load`, `LoadMatchesReference` holds for every file of up to three
lines drawn from 14 kinds of line, every service-account case, and the
presence or absence of the file:

- a returned config is exactly the one the last line of each option
  describes;
- the result is NULL exactly when the file is malformed or incomplete.

The reference (`Expected`, `FileAccepted`) is written declaratively, from the
positions of the last lines.

In `endpoints_equal`, `EqualMatchesReference` holds:

- `endpoints_equal` returns 1 only for structurally equal objects, whatever
  the iteration orders;
- it returns 1 for equal objects when both hashes iterate alike.

The JSON objects cover port defaults, NULL addresses, duplicate port names and
the two orders of two ports.

| Run | Config | Expect | Shows |
|-----|--------|--------|-------|
| `txn_hooks` | `MC_TxnHooks.cfg` | pass | `HeaderSetOwnership`, `CacheOnlyCookieFree` and `PushedOnce` hold over every result of `remap_run`, every path flag, every Cookie header and every hook order, with failing response getters (6,354 distinct states). |
| `txn_complete` | `MC_TxnHooks_complete.cfg` | pass | `TxnCompletes`: when the response getters cannot fail, every transaction reaches `TXN_CLOSE` and closes (5,826 states). |
| `txn_stall` | `MC_TxnHooks_stall.cfg` | violation | `TxnCompletes` fails. When `TSHttpTxnServerRespGet` fails, `check_response_cache` returns without `TSHttpTxnReenable` (`remap.c:603`), and the transaction hangs. This is a code bug. |
| `endpoints_make_alloc` | `MC_EndpointsMake.cfg` | pass | `CrashOnlyOnOOM` holds with `calloc` free to fail. A NULL is dereferenced only after a `calloc` of one element or more failed. An array that comes back NULL for zero elements is never stored into, because its loop tests its bound first (3,485 states). Its mutant runs the subset loop's body before the test. |
| `endpoints_make_oom` | `MC_EndpointsMake_oom.cfg` | violation | `MakeNoNullDeref` fails. In the trace, the `calloc` of the subsets array (`endpoints.c:80`) returns NULL, and line 87 stores into it. The `calloc` of a port (line 100) and of an address array (line 137) are just as unchecked. This is a code bug. |

`MC_TxnHooks` enumerates every Cookie header over three kinds of token:
ignored, kept, and without `=`. It also enumerates both cache settings,
every `remap_run` result and every path flag. Every order of the four hooks,
and every early close, is reachable. `MC_EndpointsMake` enumerates objects
with up to two subsets of up to two ports and two addresses. This covers the
zero-length arrays that matter to `calloc(0, ...)`.

### Bounds, and why they are enough

- **Two transactions and one connection.** A transaction can hold an old
  snapshot while the other takes the new one, and each handler slot is reused
  for new transactions.
- **`MaxChanges = 2`.**
  - There are up to three builds, so a snapshot can be replaced twice while
    held.
  - A watcher change can fall between the compile and the publish.
  - The freshness properties can see a build overtaken by a change.
- **Three hosts:**
  - one with a context and minimum TLSv1.2,
  - one without a context,
  - one without a `remap_host`.

  All TLS paths are reachable, as is every client version 0..4.

Every action and every disjunct of `Next` is taken in `snapshot_core`.

Each property of `snapshot_core` has a mutant: a plausible bug in the action
the property is about. TLC finds each mutant violated. For example, the mutant
for `NoUseAfterFree` takes the database without a reference, and the mutant
for `FreshWhenQuiet` clears `changed` at publication instead of under the lock.

## 4. Proofs

`TypeOK` is not inductive. `TSConfigRelease` decrements `refs[tsnap[t]]`, which
stays a natural number only because every holder is counted. `NoUseAfterFree`
is not inductive either. The strengthening is
`IInv == TypeOK /\ RefsCount /\ SlotInv /\ NoUseAfterFree`, where:

- `RefsCount`: `refs[s]` is the number of transactions in a `Holding` state holding
  `s`.
- `SlotInv`:
  - only created snapshots were ever published;
  - freed snapshots were retired first;
  - the current snapshot was never retired;
  - the snapshot being published is the newest and has not been published.

`Reclaim` keeps `NoUseAfterFree` because `refs[s] = 0` means, by `RefsCount`,
that `s` has no holder. `HandleRemapBegin` keeps it because the current
snapshot is not retired, so it is not freed.

The proofs show `Init => IInv` and `IInv /\ [Next]_vars => IInv'` (lemma
`NextIInv`, one step per action, one sub-step per conjunct). The theorems are:

- `IInvHolds`: `Spec => []IInv`;
- `TypeCorrect`: `Spec => []TypeOK`;
- `SnapshotNotFreedInUse`: `Spec => []NoUseAfterFree`.

They hold for every finite set of transactions, every set of connections and
hosts, and every `MaxChanges`. The one assumption used is
`ConstantsAssumption`, which says the set of transactions is finite and gives
the constants their types. The cardinality facts come from
`FiniteSetTheorems`.

`SnapshotPublishProofs` proves the publication properties, under the
hypothesis `~CompileMayFail`. `FreshWhenQuiet` is not inductive:
`RebuildMapsPublish` installs `rbdb`, and `FreshWhenQuiet` says nothing of it.
The strengthening `PubInv` adds two conjuncts:

- `BuiltFresh`: while a build waits for `TSConfigSet` with `changed` still
  clear, it holds the current cluster. A watcher change in that window sets
  `changed`, which makes the conjunct vacuous until the next build.
- `BuiltNotNull`: the waiting build is not NULL.

`PubInv` rests on `TypeOK` from `IInv`. The lemma `NextCases` shows that every
step other than `WatcherUpdate`, `RebuildMapsLocked` and `RebuildMapsPublish`
leaves the rebuild variables unchanged. The theorems are:

- `QuietMeansFresh`: `Spec => []FreshWhenQuiet`.

No theorem states `DbNeverWithdrawn`. With `~CompileMayFail`, no step can
publish NULL, so it would hold whatever `rebuild_maps` did. With
`CompileMayFail` it is false, and the run `compile_failure` shows the
counterexample.

`SnapshotRefinementProofs` proves `SlotImplementsAbstract`: under
`~CompileMayFail`, `Spec => Abs!Init /\ [][Abs!Next]_Abs!avars`. This is the
safety part of the refinement. The fairness part is checked only by
`snapshot_core`. The proof adds the invariant `RInv`, with three
conjuncts:

- `Bounded`: every created snapshot was compiled from a cluster version no
  later than the current one.
- `Monotone`: snapshots are compiled in the order of their ids.
- `Created`: every snapshot id a transaction holds is at most `nsnap`.

`Created`, with `SlotInv`, makes `RebuildMapsLocked` a stutter. `Bounded`,
`Monotone` and `BuiltNotNull` make `RebuildMapsPublish` an abstract `Publish`.
The lemma `RefinementStep` has one step per action.

`SnapshotHookProofs` proves two more properties of `snapshot_core` for every
value of the constants:

- `ReenabledOnce`: `Spec => []ReenabledAtMostOnce`. It is not inductive by
  itself. The strengthening `ReenableCount` says that a transaction has one
  re-enable exactly when `handle_remap` is `called` or `done`, and none
  before.
- `TlsVersionsEnforced`: `Spec => []TlsVersionEnforced`. It rests on the
  lemma `AcceptedVersion`, which shows that the fall-through switch of
  `handle_tls` accepts exactly the versions at least the host's minimum.

`TxnHooksProofs` proves the three properties of `txn_hooks` for both values
of `ServerRespMayFail`:

- `HeadersFreedOnce`: `Spec => []HeaderSetOwnership`;
- `PushOnce`: `Spec => []PushedOnce`;
- `CachedCookieFree`: `Spec => []CacheOnlyCookieFree`.

None of the three is inductive, because each depends on which continuations
are still to run on the current hook. The inductive invariant `IInv` has
these parts:

- `HooksShape` and `PendingShape`: the lists each hook and `pending` can
  hold;
- `Ownership`: the hash is freed exactly when `set_headers` has run at
  `TXN_CLOSE` (`CloseDone`) or the cleanup freed it;
- `PushInv`: no push has happened while `server_push` is still to run on the
  cache lookup or the origin response;
- `CacheInv`: caching is on for an ok request only with allowed cookies and
  `check_response_cache` on `READ_RESPONSE_HDR`; Set-Cookie with caching on
  means `check_response_cache` is still pending.

The lemma `CalledWhere` says which hook and which list a handler can run on.
Each action then has its own lemma. The lemmas `ConcatCases` and
`HeadTailCases` give `\o`, `Head` and `Tail` on the literal lists.

`ConfigProofs` proves, for every `MaxLines` and every set of line kinds
`Lines`, the two properties that `config_load` checks:

- `ConfigTypeCorrect`: `Spec => []TypeOK`;
- `LoadCorrect`: `Spec => []LoadMatchesReference`.

`LoadMatchesReference` is about the whole file. It says that the returned
config takes each option from the last line that sets it, and that NULL is
returned exactly for a bad file. It is not inductive, because it says
nothing of `ret` while the `fgets` loop runs. The strengthening `CfgInv`
adds what the loop holds:

- before the service account, `ret` is `Zeroed`, then the defaults
  (`Started`);
- in the loop, `ret` agrees field by field with `Prefix(i)` (`Holds`).
  `Prefix(i)` is the config that lines `1..i-1` and the service account
  describe, built from `LastBefore(o, i)`, the last of those lines that
  sets option `o`;
- every line before `i` was empty or accepted.

The argument rests on these lemmas:

- `LastBeforeStep`: reading line `n` makes it the last line of its own
  option and leaves every other option alone. This is the loop's inductive
  step, done once for all options.
- `PrefixStep`: a parsed line moves `Prefix` the way `Assign` moves `ret`.
  It has one case per option.
- `LastBeforeEnd` and `PrefixEnd`: at `i = Len(file) + 1`, `Prefix` is
  `Expected`. So the checks after the loop fail exactly when `FileAccepted`
  is false.

Each action has its own lemma: `LoadStartCfgInv`, `ReadServiceAccountCfgInv`,
`OpenFileCfgInv`, `ParseLineCfgInv` and `ChecksCfgInv`. `NextCfgInv`
combines them. The only assumption is `ConfigAssumption`: `MaxLines` is a
natural number, and the fields of a line take the values the model gives
them.

Two choices keep these obligations within SMT's reach:

- `Holds` compares records field by field, because SMT does not prove
  equalities of eight-field records built with `EXCEPT`;
- the empty line is the string `blank`, because Z3's backend fails on the
  literal `""`.

`EndpointsMakeProofs` proves `CrashOnlyAfterOOM`: `Spec => []CrashOnlyOnOOM`
for every set of object shapes, whether or not `calloc` may fail. The only
assumption is `ShapesAssumption`. `CrashOnlyOnOOM` is not inductive: it says
nothing of an array that came back NULL and is not touched yet. The
strengthening `MakeInv` adds three things:

- a NULL subsets array that no failed allocation explains has length 0;
- inside a subset, `i` is one of its indexes;
- a NULL address array that no failed allocation explains has length 0.

At each loop head the body runs only when the index is at most the length,
so a length-0 NULL array is never stored into. The lemma `CallocFacts`
gives what a `calloc` does to `oom`. There is one lemma per action, and
`NextMakeInv` combines them. `MakeTypeCorrect` proves the type invariant
from the same `MakeInv`.

`EndpointsProofs` proves `EqualCorrect`: `Spec => []EqualMatchesReference`
holds for every set of JSON objects and every iteration order. Its only
assumption is `EndpointsAssumption`. So `endpoints_equal` returns 1 only
for equal objects, and it returns 1 for equal objects whose hashes iterate
alike. The reference is about whole objects, but the loop compares one
field, address or port per step. The strengthening `EqInv`
(`EqInvariant`) says what has been compared so far:

- both objects have the shape `endpoints_make` gives them (`EpShape`,
  `SubsetShape`). This is proved once, by `MakeShape`.
- In a subset, headers and subsets `1..i-1` are equal.
- In `addrs`, addresses `1..j-1` are equal.
- In `ports`, the addresses are equal. The first `j-1` keys of both
  iteration orders agree, and so do their ports.
- At `done`, a result of 1 means `a = b`, and `a = b` with `ita = itb`
  means a result of 1.

These lemmas carry the step from prefixes to whole values:

- `ArrayEqual` turns two arrays of equal length that agree on every index
  into equal arrays.
- `PortsEqual` turns two hashes whose orders have equal length and agree
  on keys and values into equal hashes. It uses `OrderProps`: an order
  visits every key.
- `EpEqual` rebuilds equal objects from equal fields.

Each action of `endpoints_equal` has its own lemma, and `NextEqInv`
combines them.

### Out of the prover's reach

These stay with TLC:

- the liveness properties (`RemapReenabled`, `EventuallyFresh`,
  `HandshakeReenabled`, `TxnCompletes`, and the fairness conjunct of `SlotRefinesAbstract`),
  which need fairness and ENABLED;
- induction over data. What a recursive definition computes for every
  input is not proved. `Orders` equals `SetToSeqs` only on the sets TLC
  enumerated.

Every safety invariant that a passing run checks is proved.

### What the properties do not catch

- `LoadMatchesReference` takes the return at `config.c:79` as the expected
  result. With no config file, `k8s_config_load` returns before the checks
  of lines 158-180. It may then return a config with no server and no
  credential, and the reference accepts it. That hazard has no run of its
  own.
- `EqualMatchesReference` is complete only when both hashes iterate alike.
  Two equal port sets built in different orders may compare unequal
  (`endpoints.c:228`). Which orders `hash.c` gives is not under `src/`.
- `TxnCompletes` in `txn_complete` assumes the getters succeed, so it
  excludes the missing re-enable at `remap.c:602-603`. The violation run
  `txn_stall` shows that path.
- The per-transaction continuations are never destroyed. `external_lookup`
  destroys only its own, at `remap.c:85`. The ones `handle_remap` creates at
  lines 641, 743, 757 and 831 leak, and no property states it.

## 5. Not modelled

- **Compiler and dispatch.** `remap_db_from_cluster` and `remap_run` are not
  under `src/`.
- **Request and response helpers.** `request_from_txn`,
  `url_from_remap_result`, `set_host_field`, `add_xfp` and `xstrndup` are
  string and header marshalling against the ATS API. `TxnHooks` models only
  their outcomes.
- **The watchers' internals.** They are not under `src/`.
- **HTTP/2 protocol-set selection in `handle_tls`.**
- **Memory release.** `k8s_config_free`, `endpoints_free` and
  `endpoints_port_free` only release memory.
- **`fgets` splitting lines longer than 1023 bytes.** Not modelled.

## 6. Plan for the next sittings

1. **`endpoints_equal` with the iteration orders of `hash.c`.** Do this once
   its source is available, to settle the completeness half of
   `EqualMatchesReference` for hashes that iterate differently.
2. **A `CompileMayFail` variant of the refinement.** Its abstract `Publish`
   may publish `NoDb`. It would make the divergence in `compile_failure`
   explicit at the abstract level.
