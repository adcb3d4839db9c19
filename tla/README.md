# TLA+ models of the OneDrive plugin

This directory holds TLA+ specifications of the parts of this repository whose
correctness depends on the order in which things happen, TLC configurations
that check them on small instances, and TLAPS proofs of what matters most for
every instance. `PROJECT.json` lists the components, runs, mutants, hazards,
findings and theorems, and maps every definition to the lines it models.

Run a model with `tlc -config <X>.cfg MC<Module>.tla`, check proofs with
`tlapm <Module>Proofs.tla`.

## 1. The system

The plugin is an MCP server for OneDrive, in Node.js, with single-threaded
processes that interleave at every `await` and share state on disk with other
processes of the same installation.

| Part (source) | State it keeps | Operations | What must be right |
| --- | --- | --- | --- |
| **Account context** (`mcp/server.mjs` 3706-3967, 5723-5890, 6146-6201) | `tokenCache`, the stored credential, `authGeneration` / `storageScopeGeneration`, `deviceLoginGeneration`, `pendingDevice`, `tokenRefreshPromise`, the active storage scope | device start, poll, logout, refresh, scope resolution, Graph request | nothing late is stored; a call never mixes two logins; a refresh token is sent once at a time |
| **Preview tokens** (`mcp/server.mjs` 6682-6750) | `previewTokensByScope` | issue, consume, expire | a confirmed mutation is the one that was previewed, under the same login |
| **Metadata cache, content index** (`mcp/server.mjs` 4328-5001, `mcp/bounded-local-state.mjs`) | per scope: file, memory copy, load promise, mutation queue | load, merge items, delta, reconcile, clear, evict | a scope's file holds that scope's data; no lost update between writers |
| **Searches and reads for ChatGPT** (`mcp/server.mjs` 7170-7293, 7632-7712, 8333-8796, 12058-12137, 12443-12605, 12862-13167) | remembered listings and answers, copies of texts, revalidations | search, find, list, fetch in chunks, revalidate | what was deleted stays away; the chunks of a file belong together |
| **Refresh vault and token endpoint** (`mcp/oauth-compat-server.mjs` 317-1130, 2305-2900) | the store twice, in memory and on disk; token slots | authorize, callback, code and refresh grants, rotation, replay detection | handles are one-time and form chains; revocation is final; sessions are not lost |
| **Managed artifact quota, file locks** (`mcp/managed-artifact-quota.mjs`, `mcp/server.mjs` 4222) | a lock file, the stored bytes | reserve, write, verify, maintain | exclusion, a hard ceiling, no silent overrun |
| **Mutation, Office and backup tools** (`mcp/server.mjs` 6637-6938, 9356-9466, 10678-11760, 11831-12013, 14207-14332, 14898-17450) | preview tokens, backups, the audit log | the twenty-six tools that change the drive | a confirmed preview takes effect once, on what it showed; partial failures are reported; backups exist before edits |
| **Watches, workspaces** (`mcp/server.mjs` 15682-16147) | `watch-state.json`, `workspaces.json`, timers | start, poll, consume, stop; create, promote, abandon | no change and no edit is lost |
| **Graph transfer** (`mcp/server.mjs` 6039, 6203, 7295, 15201, 16361) | cursors, upload sessions, monitors | retry, page, upload, poll | retries do not repeat mutations; a cursor skips nothing |
| **Heavyweight and resource-read admission** (`mcp/heavyweight-subprocess-admission.mjs`, `mcp/resource-read-admission.mjs`, `mcp/http-server.mjs`) | counters, leases | acquire, release on completion or deadline | work keeps to the limits and every lease comes back |
| **Materialized resources** (`mcp/materialized-resources.mjs`, `mcp/server.mjs` 336-353, 10340-10500) | registrations by scope, token and path; byte totals; bindings; a private directory | register, read, expire, evict, close | accounts, bindings and files agree |
| **Delegated OAuth** (`mcp/oauth.mjs`, `mcp/oauth-facade-token.mjs`) | JWKS and exchange caches | verify, refresh keys, exchange | new keys are soon accepted, withdrawn ones soon refused; unknown keys do not cause a flood |
| **Text edits, Office helpers, launchers, installer, skills** | none that outlives a call | pure functions and scripts | outside of what interleavings can break |

How they interact: an HTTP or stdio message becomes a tool call
(`processMcpMessage`), which carries a record of the generation it began under.
Its Graph requests take an access token from the account context; its local
writes go to the files of the storage scope; backups pass the artifact quota;
document work takes a heavyweight lease. The OAuth compatibility server is a
separate process in front of the provider, and clients reach the MCP server
with what it issues.

What is hard: a login, logout or refresh answered in the middle of another
call; failed writes on either side of a rename, and a restart after them; lock
files of processes that are slow rather than dead; replays and retries of
one-time credentials; answers lost after the drive made the change; a drive
that others change between a preview and its confirmation, or while a cache, an
index or a watch reads it; files that are loaded, changed and saved whole by
calls that overlap; leases on error paths. The `hazards` of `PROJECT.json`
give each one at its line, with the properties that would catch it.

## 2. Modules

| Module | Models | Extended or used by |
| --- | --- | --- |
| `RefreshVault` | the vault, the routes that use it, the provider, failed writes, restarts | `MCRefreshVault`, `RefreshVaultProofs` |
| `GrantChain` | the abstract promise: credentials are spent once and handles form chains | instantiated by `RefreshVault` as `Chain` |
| `ArtifactQuota` | lock file, reservations, verification, maintenance | `MCArtifactQuota`, `ArtifactQuotaProofs` |
| `AccountContext` | logins, refreshes, storage scope, Graph requests, previews, scoped local files, as interleaved tool calls | `MCAccountContext`, `AccountContextProofs` |
| `MutationFlow` | the tools that change the drive, from their first read to their audit record | `MCMutationFlow`, `MutationFlowProofs` |
| `PreviewLedger` | the abstract promise: a preview is confirmed once and licenses its changes once | instantiated by `MutationFlow` as `Ledger` |
| `Drive` | a drive that others change, and its delta rounds (external) | `MetadataCache`, `Watches` |
| `CachedPaths` | what a batch of items does to the cached items, paths and tombstones (functions) | `MetadataCache` |
| `MetadataCache` | the cache and content index under overlapping calls | `ChatgptReads` |
| `ChatgptReads` | searches, remembered answers, files read in chunks | `LocalState` |
| `Watches` | watches and workspaces, their two files, timers, restarts | `LocalState` |
| `Sessions` | what one behaviour explores: tools and bounds | `MetadataCache`, `Watches` |
| `LocalState` | all of these, on one drive | `MCLocalState`, `LocalStateProofs`, `CacheProofs`, `PathProofs` |
| `Slots` | the abstract promise of an admission controller | instantiated by `Serving`, once per controller |
| `AdmissionController` | the controller as operators on its state | `Serving` |
| `MaterializedResources` | the registry as operators on its state | `Serving` |
| `BearerTokens` | the verification of bearer tokens and the cache of their keys | `Serving` |
| `Serving` | document tools and HTTP reads, composed of two controllers, the registry and the verification | `MCServing`, `ServingProofs` |

The `MC...` modules only add symmetry sets and the sessions to explore.

### RefreshVault and GrantChain

`mem` is `this.state`, `disk` the store file. Every vault mutation runs inside
`serializeMutation`, so it is one action; a token request (`req`) is several
actions: take a slot, parse and consume what was presented, await the
provider, issue. `CommitClone` and `CommitInPlace` are the two ways the code
commits (write a clone then publish it, or edit `this.state` then write), and
`CloneFails` / `InPlaceFails` their failures: a failed `atomicWrite` may have
left the old file (failure before the rename) or the new one (failure in
`chmod` or in syncing the directory after it). `Restart` loads the file and
drops all requests. Random values never repeat (`generated`). History
variables record what the provider was asked (`spent`), what clients received
(`receipt`) and presented, and which replays were detected and made durable.

Abstractions: a handle stands for its hash; entries do not repeat their
family's expiry (`validateState` requires them to agree); sizes in bytes are
one of the reasons for a write that fails before its rename; rate limits are
requests refused for no stated reason; time stands still within a mutation; a
process crash is modelled, a power loss that undoes a rename is not; public
client mode only.

### ArtifactQuota

Each reservation or maintenance is an operation that runs once. A lock file is
known by its creator; `stale` says that its mtime is older than `staleLockMs`,
which may come true at any time while the file exists, also under a live
holder, because nothing refreshes it. Opening, looking at and removing the
lock file are separate steps. Writers may leave more or less than they
reserved, fail, or die with the lock. Sizes are abstract units, the entry and
per-scope quotas are compared like bytes, and a directory scan is one step.

### AccountContext

A tool call is a record: `pc` is the await it is at, `step` how far its tool
is, `gen` the generation it began under, `guard` the scope it captured, and so
on. The code between two awaits is one action. `Current` is
`tokenCache || getKeychainToken()`, evaluated anew wherever the code does;
`SameGeneration`, `SameAccount` and `ScopeHolds` are the three assertions that
the code repeats after its awaits. A login (`Context`) stands for its
`auth_context_id`, account and drive. Two tools are modelled: one that is
scoped when it begins, reads an item, caches it, and previews or confirms a
deletion (`deleteItem`); and one that is not in `previewScopedTools`.
`Foreign` is another process that shares the credential store. `allowed` and
`standing` are history: the logins the user has left a credential for, and the
polls that no logout and no newer device login has cancelled.

Abstractions: `authGeneration` and `storageScopeGeneration` always change
together and are one number; delegated requests, whose token and context are
fixed on arrival, and credentials older than `auth_context_id` are left out;
kinds of errors are merged, so that `CredentialRejected` starts a device login
after any failed check (the code does so for two kinds only, which allows
fewer behaviours); calls that wait for one promise resume in any order; the
comparison before a rename and the rename are one step, which is harmless
because path and bytes were chosen under the compared scope.

### MutationFlow and PreviewLedger

Each tool is a record, translated from its handler: what it reads of a target
(`reads`), whether a live call needs a token (`gate`), whether the token is
bound to the version or only the identity of what was read (`proof`), whether
it takes several targets and refuses duplicates (`several`), whether it
downloads content before the token is asked for (`content`), and the requests
and local steps it takes for each target (`steps`). The actions interpret these
records, so that what the handlers share in the code is shared here:
`getRawInfo` and `readVersionContent` read, `previewWithToken` and
`previewTokenRequiredResult` are the two sides of a preview, `graph` is one
request, `Check` a read or local step that must succeed, `SendChunk` the
requests of an upload session, `persistOfficeBackup`, `pollCopyMonitor` and
`writeMutationAudit` the functions of these names. `Again` and `Note` are the
steps `officeBatchTransformAdmitted` puts around each file: it calls the Office
edit with a token that its own preview issued. `updateFile` asks for no token:
its `checkout` saves the version it downloads in a `manifest`, its `commit` goes
on if that is the version it reads, `keep` is its backup, and after `verify`
the manifest names the version found then. `backup` is the option `createBackup`
of the Office edits and updates (`BackupOptional`): with `false` the backup step
is skipped (`SkipBackup`; server.mjs:11461, 11747, 14292). The option is part of
what an Office edit previews (`previewProof`), and a batch hands its own on to the
edits it calls. An update's intent may be `unchecked` (`conflictCheck: false`) or
`force`; both write without a condition. A session of the runs says which intents
and options its calls may have.

`mutationMatchHeaders` says which requests carry a condition: renames, moves,
deletions and content writes send `If-Match` of the version read last; copies,
sharing, restores from the recycle bin, workbook cells and forced updates do
not; `Accepts` is what the drive makes of it. A lost answer is a
failure after which the drive has changed. `Forget` stands for expiry and for a
watch that sees an item change; `Crash` ends all calls and loses all tokens;
`Other` is another user of the drive. A token is its number and `issued` keeps
the proof of each. `effects` records what the drive did for which call.

Abstractions: the content of requests; kinds of errors; the order of targets a
user may give; `permanentDelete` and the restore of deleted items as single
requests; updates of large files send their condition with the upload session,
as `uploadLarge` does, and are modelled as one request; `createFolder` creates
under `conflictBehavior: "fail"` only; the bodies that the creation of an upload
session tries one after the other, the last of which names no conflict behaviour
(server.mjs:15277), are one. Left out are the deletion of backups
and the clearing of the audit log. Of the assumptions about Graph, named at the head of
the module, the one that matters is that an eTag changes with every change of
an item's content, name or place and never comes back.

### LocalState: Drive, CachedPaths, MetadataCache, ChatgptReads, Watches

`Drive` is external: a tree of items with versions, changed by others in
`OthersChange`, whose delta rounds report what changed after a cursor without
paths, every folder before what is in it, in any order otherwise. `CachedPaths` translates
`cachePutSimplified` and the functions it calls: resolving a path from the
cached parent, displacing what was cached at the path, moving the descendants
of a folder, removing those of a deleted one, and the second pass over items
whose parent came later. `MetadataCache` has a call (`job`) take its tool's
steps: a round of pages with the cursor rules of `collectPages`, a scan folder
by folder, the refresh that drops a cursor and primes a new one, an index
refresh file by file, the eviction of Office search. `cacheItems` reconciles
the index and writes the cache; either write may fail, which most callers only
warn about. `mixed` is history: it records that a batch was cached after something
newer was, that the cache was cleared under a call, that an item that is there
went from the cache or was not kept in it ("loss"), that something was cached
beside items that had moved or gone with no deltaLink to follow them ("behind"), or
that an item was cached by a path below a folder whose own change was still to be
cached ("ahead", `Ahead`); the properties about what is cached exclude these as far
as each has to.

`ChatgptReads` adds the calls that find and read, as further steps of `job`.
`crawled` is Graph's search index, which may show any item as it was at an
earlier crawl; `find` loads cache and tombstones, asks, filters by the tombstones
it loaded, writes, and may confirm or scan; `remembered` has the answers that
`writeMutationAudit` invalidates. `chatgptFetch` takes a chunk from `copies`,
from the index, or from the drive under the version of the metadata, and `reader`
is what the client has put together. A text is a version in a form, since one
version has several: `plain` as it is read, `document` as the plugin converts it,
`export` as Graph does, and for Office packages `segments`, which the index has and
`chatgptIndexedText` puts together in its own way. Which forms there are depends on
the `kind` of a session's files (`IndexForms`, `FetchForms`). Segments alone are read
under no condition, so that they may be newer than the entry's label. When a document
can be neither converted nor exported, also because it has changed, a `Note` takes the
place of its text (`extractChatgptFetchSnapshot`): a first note is answered and not
kept, a later one is kept and read on like a text. An index refresh may be forced,
and then reads again what is indexed already. `Forget` lets every copy and answer go at
any time, which covers their limits, their lifetimes and other mutations. `gone`
is history: what calls delete, from the deletion on, as long as no other item was
cached by its path, the cache was not cleared, no call put its text back into
the index, and no call that was under way at the deletion put the item back
(`Follow`); `Recorded` are those of it whose calls have cached and
audited the deletion. Ranking is left out: an answer shows every candidate.

`Watches` has the two files that are loaded, changed and saved whole: a `task`
holds the file as it was loaded, and its save puts all of it back. `timers` and
`loaded` are memory, lost in a `Restart`. `consumed` and `promoted` are
history.

Abstractions: a version stands for eTag, cTag, size and time; the limits on
items, entries, bytes and events are not reached; a write of the cache holds its
lock from read to rename and is one step, and the copy in memory, which is
compared with the file before it is used, is not kept apart; content indexing is
enabled, and files are plain text, Office packages or documents that the plugin
converts.

### Serving, AdmissionController, MaterializedResources, BearerTokens

The two admission controllers of the code are the same program with other
limits, and `AdmissionController` is instantiated twice. `Serving` lets calls of
document tools go through lease, fetch, staging, registration, rendering and
child process, and requests through arrival, admission, handling and the events
of their response, which may come in every order Node allows, also before the
lease is held. `materializedResourceRegistry`, `CloseRegistry` and `Crash` make,
close and lose the registry while calls are under way; a call keeps the
`instance` it found. `disk` is the private directory.

`BearerTokens` is the verification of the token of each request, between its
arrival and its admission. `signing` is the cached key document with the state
of its refresh; `verifyBearerToken` goes on with keys that are fresh,
`cachedJson` and `refreshJwksForUnknownKid` are answers to two kinds of
requests to the issuer, which may overlap, fail, or be answered with the keys
of an earlier moment. `Rotate` publishes and withdraws keys.

Abstractions: a request to the issuer takes at most 15 seconds, which is a tick
of the clock; the three times are scaled from 15 minutes, 30 and 60 seconds to
4, 1 and 2 ticks, so that their order stays; rounding to ticks makes each bound of the
two properties up to one request (15 seconds) longer in real time; signatures, claims and the
discovery document are reasons for a verification to fail; at most 64 unknown
keys are remembered, a limit that is not reached. A subject has one drive and so
one scope; a rendering's read of the resource and the two awaits that stage it are
one step (`input`), and staging (`stage`) does not fail; the files' identity checks are left out and removals succeed; a
child's `error` event means that it was not started; a request reads one
resource (the server rejects batches that contain a read). `RegistryAssumption` demands what the configuration of
the server satisfies and the constructor does not check: that a readable
resource is no larger than a scope (25 MB and 32 MB).

## 3. Runs

| Run | Instance | Shows |
| --- | --- | --- |
| `vault_safety` | 2 authorizations, 2 codes, 2 families, 3 handles, 2 requests, 2 instants | types, loadable store, one live credential, no lost delivered handle, final revocation, one exchange per consent and per credential, refinement of `GrantChain` |
| `vault_slots` | 1 slot, 2 requests, a store of one entry | the slot always comes back (liveness) |
| `vault_replay_lost` | 1 family, 2 handles | **finding**: a detected replay whose write fails is forgotten by a restart |
| `quota` | 2 writers, 1 maintainer, 1 crash, quota 1, excess 1 | exclusion and ceiling until a lock is stale, no silent overrun at all, every waiter answered |
| `quota_race` | 3 writers | **finding**: a stale lock lets two writers in |
| `account` | 2 calls, 2 logins, 2 login changes, 1 device login | nothing late is stored, local files are of one login, one refresh at a time, confirmed mutations stay with their preview |
| `account_calls_end` | 2 calls, 1 login, no device login, another process that changes the store once | every call is answered (liveness); calls overtaken by another login are in `account` only |
| `account_shared` | 2 calls, 2 logins, 1 change by another process | **finding**: an item of one login in the files of another |
| `mutations` | every tool, 1 to 3 calls of it (of `updateFile` with a manifest from an earlier checkout; two updates without the conflict check are not put beside each other), 1 or 2 targets, 1 change by another user, 3 tokens | one effect per preview and target, on the version it showed; backups before Office edits and updates that ask for one; a true and complete audit; refinement of `PreviewLedger`; every call returns |
| `local_state` | 20 sessions: 4 items, up to 5 calls, 2 at once, 3 changes, 1 failure | cursors skip no change, refreshed paths are right and name one item, the index does not hide edits, what was deleted stays away, chunks are of one version, watches lose no change, promotions lose no edit |
| `chunks_mixed` | 1 Office file that nobody changes, 3 calls, no failures | **finding**: the chunks of a file may be cut from two renderings of it |
| `serving` | 7 sessions: up to 4 requests, 3 calls, 2 stops; 2 entries, 3 bytes, 2 keys | work keeps to the slots, leases come back, registry, bindings and directory agree, new keys are soon accepted and withdrawn ones soon refused |

Why these bounds: every race listed involves two actors, and the second login,
family or writer is what a mistake would confuse with the first. Three handles
are needed for a chain with a middle (replay of a consumed handle while its
successor is active); two authorizations for a retried callback beside
another's; a clock of two instants puts a lifetime of one tick, which codes and
handles have, before its end and at it. Two generations give logout then login, login then login, and login
then logout. A preview, a confirmation and a second confirmation are three
calls; with two, one may be a preview and the other its confirmation or both
may be live. A batch of two has a target before and one after the failure, and
the same target twice. Two folders and a file are the least with a descendant,
a folder that can be moved into another, and a path that two items claim; pages
of two let a round be cut inside and between pages. A fourth item, a folder
below the file's other folders, lets a lost folder have a folder above it that
moves, and lets two folders have something of the same name in them. Two entries and three bytes
make each of the three evictions happen alone and with another.

Three modules explore `Session`s: one behaviour has the tools and bounds of one
session. What two tools could do to each other is covered where they share
state and their handlers differ (rename beside move; a single Office edit
beside a batch and a restore; refresh beside read, list, rebuild, delta and
deletion; searches and listings beside deletions; fetches in chunks beside index
refreshes; polls beside the tools of watches and workspaces); with all tools in
one behaviour the instances would have to be too small to matter.

Counters with a bound in a guard (`MaxTime`, `MaxGeneration`, `MaxDevice`,
`MaxForeign`, `MaxCrashes`, `MaxOthers`, `MaxPolls`, `ChunkRetries`,
`MaxChanges`, and the bounds of a session) stop the environment, never the
system's own steps, except that `MaxPolls` and `ChunkRetries` stand for a
deadline and a retry limit of the code. `CHECK_DEADLOCK FALSE` appears where
every operation runs once, or the calls of a session are used up, and the system
then stops. Symmetry sets are used only in runs without temporal properties
other than action properties and the refinement of `GrantChain`, a safety
property.

Each property of a passing run has a mutant in `PROJECT.json`: a plausible
mistake in one definition under which TLC finds it violated.

### Fairness

- `RefreshVault`: weak fairness of the steps of each token request. Every
  upstream call has a deadline (`UPSTREAM_TIMEOUT_MS`, line 45, used at 2797)
  and so has every request (`REQUEST_TIMEOUT_MS`, line 47, used at 3432).
- `ArtifactQuota`: weak fairness of a waiter's own steps and of the passing of
  its deadline. Nothing is assumed of holders, which may be slow for ever.
  One caveat: a waiter that finds the lock gone retries without looking at its
  deadline (line 155); in the model each operation runs once, so others cannot
  create and remove the lock for ever.
- `AccountContext`: weak fairness of each call once it is under way: requests
  are aborted by their timeouts, and every promise is settled. Nothing makes a
  user call a tool.
- `MutationFlow`: weak fairness of the steps of each call that was begun. A
  request has a timeout and a monitor a deadline.
- `Serving`: weak fairness of the steps of each document call (Graph requests
  and children have time limits, after which children are killed) and of the
  deadline of each response. Nothing is asked of clients, which may read slowly,
  stall or leave.

### Findings

1. **A replay may go unpunished** (`vault_replay_lost`). `consume` revokes the
   family in memory and then writes (oauth-compat-server.mjs:1044). When that
   write fails before its rename and the process restarts, the old file has
   the descendant active. The test at scripts/oauth-compat-test.mjs:1565 says
   a replay "revokes every active descendant in its family".
2. **Stale locks** (`quota_race`). A holder that is slow for `staleLockMs`
   loses the lock without knowing (`officeBatchTransform` keeps it over a
   whole batch of transfers), and then removes its successor's.
   `OverrunIsReported` still holds: the inventory after the write notices.
3. **Two processes, one credential store** (`account_shared`). Generations are
   kept per process. A refresh in flight for an old login is stored over the
   login another process has just made, and a call that read with the new one
   writes to the old one's files, against "account-and-drive-isolated state"
   (README.md:5).
4. **Chunks of two renderings** (`chunks_mixed`). What `fetch` hands out to read
   on has a byte offset and a fingerprint of the item, not of its text. When the
   copy is lost, the next chunk is cut at that offset out of what
   `resolveChatgptFetchSnapshot` then finds (server.mjs:13085-13095). In the trace a
   first text comes from Graph's export, the copy goes, a forced refresh of the
   index replaces the entry by segments, and the next chunk is of these: the client
   gets some text twice or never, and no error, although the file did not change.
   The test at scripts/mock-graph-test.mjs:6814 says that "an evicted oldest scope
   should safely rebuild its continuation snapshot". There are other ways: an index
   refresh that was begun before, an extraction that fails and falls back to the
   export (12988-12997), a note in place of the text.

Other divergences the models show or exclude, with no run of their own:

- **A dry run that uploads.** `upload` looks at `dryRun` only inside
  `guardPublicReplacement`, and that returns before it looks unless the call would
  replace a file (server.mjs:15089-15136). The schema says "True always previews
  without writing" (server.mjs:1533), and true is the default. `MutationFlow` has
  this (`Ungated`); no property of a run is about it.
- **A failed issue is not always undone.** The comment at
  oauth-compat-server.mjs:1007 says "The failed write leaves the prior on-disk
  state authoritative", but a write can fail after its rename
  (`IssueInitialWriteFails` has both outcomes).
- **A cursor over a cleared cache.** A refresh that began before `replaceCache`
  writes its cursor over the cache that was cleared since; when the rebuild then
  fails, the cursor vouches for items that are not there.
  `CursorCoversChanges` excludes it (`"clear" \notin mixed`) and fails without.
- **Office search keeps what it evicts.** The entry of a hit that can no longer
  be looked up is deleted from the loaded index, and `saveContentIndex` merges
  that over the file, where the entry still is (`evict`, `Merged`;
  server.mjs:5327-5337, 4896-4904). The test at scripts/mock-graph-test.mjs:3406,
  "Office search evicts stale structured-index hits before returning them", has
  the item changed rather than removed. An index refresh brings evicted entries
  back in the same way.
- **A rejected cursor.** README.md:431 says that a refresh falls back to a scan
  when "Graph rejects the cursor"; the error of a request ends the call
  (`RequestFails`).
- **Swapped folders.** When one batch swaps the names of two folders, the items
  below the one displaced first are dropped from the cache although nothing
  happened to them (`Displace`). They are missing until they change; and while
  a folder is, a file that is cached again below it keeps its path when the
  folder moves, although README.md:431 has a refresh repath the descendants of
  moved folders: without the folder's earlier entry `cachePutSimplified` moves
  nothing (`previous?.folder`, server.mjs:4566). With a folder in a folder in a
  folder this takes one batch of swapped names and one later move, and a refresh
  that is complete. `RefreshedPathsAreRight` therefore excepts a cache that lost
  an item; `RefreshedContentIsRight` does not.
- **A path that is learned ahead of a folder.** A round reports an item as its
  folder is then; when others change the drive between pages, or a page that was
  cut off comes again, an item may be cached at its new path while the folder above
  it is still cached at its old one, and a stale item at the folder's old path.
  When the folder then moves, `updateCachedDescendantPaths` (server.mjs:4505-4528)
  moves all that is cached below that old path, what is already right included, and
  parents that `hydrateDeltaParentItems` fetches (8934-8977) are cached with their
  paths before the pages' own items are. With three folders, one in the other, this
  left a file at a wrong path after a refresh that was complete. `mixed` marks it
  ("ahead"), and `RefreshedPathsAreRight` excepts it; without the exception it
  is false on instances not much larger than the run's.
- **Two items at one path.** An item that is cached takes the place of another
  at its path, but what is below a folder that moves does not
  (`updateCachedDescendantPaths`, server.mjs:4506-4528): the other keeps its entry
  with the same path, and only `pathsByLower` forgets it. It happens where the
  other's own folder is not cached and has moved or gone since, such as in a cache
  of a few items that were read before there was a cursor: read `/a`, `/a/x` and
  `/b/x`; others remove `/b` and rename `/a` to `/b`; read `/b`. `NoTwoAtOnePath`
  excepts caches that are "behind" in this way, and fails without.
- **Late writers of whole files.** A poll in flight undoes a `watchStop`, also
  of another watch: the file says `active` and no timer runs until the process
  starts again. A promotion's last save drops workspaces that were created
  meanwhile, and stale marks (`keepWorkspaces`). A poll whose save fails twice
  is not scheduled again (`savePoll`).
- **Reads out of order.** An item that is read alone while the drive is ahead of
  the cursor, or is read before and cached after a newer round, may be cached at
  a path that is no longer its own. `mixed` marks these cases.
- **Outside of the bounds**: more than 5000 changes at a poll (server.mjs:16036
  keeps the last call's items); `onedrive_watch_status` with `consume` and
  `maxEvents` below the events kept clears events it does not return (16118);
  `exportFileToOneDrive` with `rename` replaces an existing destination (11958);
  Excel writes through Graph carry no `If-Match` although README.md:345 says
  that mutations do.
- **Answers under way when something is deleted.** README.md:341 and 490 have
  every successful mutation invalidate the remembered listings and searches. A
  listing or search that is in flight at that moment remembers its older answer
  afterwards, for up to a minute (server.mjs:7291, 12603, against 6891).
  `DeletedStaysAway` excepts these answers (`late`).
- **Items put back by calls under way.** A listing, scan, read or search that read
  an item before a call deleted it caches it afterwards, and with it takes the
  tombstone (server.mjs:7288-7289, 4596). `Follow` excepts the items that such a
  call brings, from then on; other deletions stay accounted for, and a call that
  begins after the deletion brings nothing back as long as its tombstone is there.
- **Tombstones that go early.** An item that is cached by the path of a deleted
  one takes its tombstone (server.mjs:4596), and clearing the cache takes them
  all; a search index that lags behind then brings the deleted item back
  (`Follow`).
- **Deleted files in the content index.** A deletion takes the entry of its item
  out of the index only if the item is cached, and an index refresh or a first
  text that is under way at the deletion merges its entry into the index
  afterwards (server.mjs:4896-4904). `find` takes its index hits without looking
  at the tombstones (8452-8490, against the filter at 8533), so that a search shows
  the deleted file until the entry leaves the index. `Follow` excepts these items.
- **find caches stale hits.** `find` searches with `cacheResults: false`, which
  also turns off the preference of `prepareSearchItems` for newer cached items,
  and then caches the hits itself (server.mjs:8528, 8654): a lagging hit replaces
  newer metadata. `mixed` marks it ("hits").
- **Index entries newer than their label.** The package of an Office file is read
  into the index without a condition, and what is found is served as the labelled
  version, so that a later chunk may be of a newer one than the first.
  `ChunksAreOfOneVersion` excepts the texts of segments from being newer, not from
  being older, as `IndexedTextNotOlderThanLabel` does for all entries.
- **A manifest of what was never downloaded.** A commit of
  `onedrive_update_file` ends with the manifest naming the item it reads then
  (server.mjs:14308-14318). If another user changed the file between the upload
  and that read, the next commit finds no conflict and overwrites the change,
  although README.md:409 promises "eTag/cTag/size/mtime conflict checks".
- **Empty key documents.** `cachedJson` keeps what it gets for its whole
  lifetime, also a document without keys, which `validateJwksDocument` then
  refuses for 15 minutes without asking again (oauth.mjs:346-352, 526). A
  refresh that fails starts no cooldown (449).

## 4. Proofs

All proofs hold for every value of the constants, under the named `ASSUME`s of
the modules (which TLC evaluates in each run): sets are disjoint and contain no
`None`, `None` is no record of a credential, bounds are natural numbers, admission limits are below store limits,
a drive has finitely many items, a page has at least one, no item is
called as the unknown path is written (`NameAssumption`), and a session starts from
a drive that is one: folders are there for what is in them, names in a folder differ,
and no folder is below itself (`SessionAssumption`).

- **`RefreshVaultProofs`**. The invariant `IInv` states what is `Good` of a
  store (references linked, spent credentials inert, one active handle per
  family and none beside an exchange in flight, durably revoked families
  closed) and demands it of `mem` and of `disk` separately. This is what makes
  it inductive: the two stores may differ after any failed write, and a
  restart or a reload may bring back either, so nothing may be said of one
  with the help of the other. It adds that slots count busy requests, that
  exchanges in flight spend distinct credentials of distinct families, and
  that only generated values occur in the history. `StepWrites` classifies the
  steps: each leaves in either copy one and the same new store, or what was in
  memory, its cleanup, or what was there. So two more facts are carried for each
  copy by itself: an active code is the only one of its authorization, which is
  used up and of which nothing was exchanged (`ConsentsOK`); and a handle that was
  delivered, and neither presented nor past its time, is active in an open family
  with the expiry the client was told (`SessionsKept`). They give
  `ConsentExchangedOnce` and `DeliveredSurvives`. Proved from `IInv`:
  `TypeCorrect`, `StoreIsLoadable`, `CredentialIsSingle`, `RevocationIsFinal`,
  `ExchangesOnce` and `ImplementsChain` (each step of the vault is a step of
  `GrantChain` or a stutter).
- **`ArtifactQuotaProofs`**. Until a lock is stale the lock file names the one
  holder, and what a writer was admitted for is still free when it writes;
  from this `TypeCorrect` (which no run checks besides), `Exclusion` and
  `Ceiling`. `NoSilentOverrun` needs none of it: the inventory after each write is
  what reports, and its proof holds with any number of holders.
- **`AccountContextProofs`**. `IInv` says that a refresh in flight or a device
  poll *which would still be accepted* is for a login that stands: its
  generation is at most the current one, so that every login or logout makes
  all older ones unacceptable at once. From it `NothingLateIsStored` (also
  when other processes change the store) and `OneRefreshAtATime`. `OneLogin` says
  that all a call of the current generation has in hand (its captured account,
  its token, its item, its guard, the scope it found) and every refresh of that
  generation is of the login that `Current` has; that whoever resolves the drive
  of a scope is still at it while others wait; and where a call can be (`PlaceOK`).
  It holds as long as no other process has changed the stored credential, and
  every step keeps it: a login or logout begins a generation no call belongs to
  yet. From it `IsolatedAlone`, and `MutationsStayAlone`, for which `SentOnly`
  finds that no step but `Send` puts a request in the air. With other processes
  both properties are false (finding 3).
- **`LocalStateProofs`**, about `LocalState`, with any drive, items, watches,
  workspaces and calls. A change is *reported* by a copy of the watch file when
  it is after the copy's cursor, or an event of it is in the copy or was
  consumed. `NoChangeIsLost` needs that every copy, the file's and each one a
  poll or tool has loaded, reports everything up to its own cursor together with
  what was consumed: then it does not matter which of them is saved last, because
  a save replaces cursor and events together and what was consumed only grows.
  The copy of a consumer that is about to save has no events, but carries those
  it will have consumed. `NoEditIsOverwritten` needs that a manifest's `ver`,
  in every copy, is at most the `base` its draft was copied from and that the
  request carries the `ver` that was compared; stale marks, which another save
  may undo, are not needed. The lemma on the drive, `Advances`, says that an item
  that changes gets a later version and a place after every cursor there is.
  `DriveIsTree` is about the drive itself, as `Drive` models Graph's: whatever
  users, deletions and promotions do, a live item's folder is live, no two are in one
  folder by one name, and every set of items has one whose folder is outside of it
  (`Founded`), so that the recursion that paths are defined by ends. That it has a
  solution, that the solution is unique, that different live items have different
  paths and one is below another's path exactly when it is below it in the tree
  (`PathsExist`, `PathsOne`, `PathsDiffer`, `PathAbove`) is shown without
  induction theorems, from a smallest set or number that fails; and that a folder
  cannot be placed below itself is what keeps it so (`NextTree`).
- **`CacheProofs`**, about `LocalState`, with any drive, page size and calls.
  `CursorCoversChanges` alone is not inductive: a cursor that one call has in hand
  is written after others changed the drive and the cache. `CInv` therefore says of
  every cursor that it *covers* the changes before it (`Covers`): each item that is
  there and changed up to it was given to the cache as it is, or is in the batch
  the call has in hand, or is still to come on a page of the round. This holds of
  both stored cursors with nothing in hand, of the token of each call that pages
  and stores what it reads, and of the cursor of each write with its batch; unless
  the cache was cleared meanwhile. A page that is cut off hands back the cursor
  before it, which covers the same changes with more still to come; a change by
  others comes after every cursor there is (`Advances`). It adds that nothing
  cached, found or in hand is of a later version than the drive, so that a cached
  version that is the drive's stays it, and of every copy of the index that no
  text is older than its label, also of what an index refresh has extracted and
  not merged yet. From it `NoChangeIsSkipped` and `NoStaleText`.
  Where nothing was read or written out of order, `RightItems` adds that a
  cached item is of the version that was given to the cache last, and, if that
  is the drive's, has the drive's name and parent; and every batch in hand whose
  call read nothing late is as the drive is now (`Current`), since others change
  the drive only with a mark on every call that has something in hand. Together
  with a cursor at the last change, which covers all items, this is
  `RefreshedContent`: every item the cache holds, below whichever folders it was
  moved, has the version, name and parent it has in the drive. The work is in
  the functions: that a batch goes into the cache whole and tells of nothing else
  (`PutAllOK`, `PutAllTells`), that waiting
  paths change nothing but paths (`PassesOK`), that the removal of duplicates
  from a round keeps the last of each item (`DeduplicatedOK`). They are recursive,
  and what holds at each of their steps is shown from the least number at which
  it does not (`LeastNat`).
  `OneVersionIsRead` is about chunks. One *fits* a version (`ChunkOK`) when it is a
  note, or its text is of that version, or is of segments and not older. This holds
  of every copy under the copy's version, of what the reader has under the reader's,
  and of the chunk each call is about to deliver, also where the call still has a
  write or a scan before it (in `CInv`), because it holds of every entry of the index
  under its label (`EntriesOK`), also of those that a refresh has in hand: whoever
  refills a lost copy then puts back a text that fits.
  `DeletedStays` needs to know what every call has in hand of the items that were
  deleted (`AwayInv`). A deletion that was given to the cache has left the item
  *buried*: out of the cache, with a tombstone at the path it was deleted at, and
  out of the index (`GoneAway`). It stays buried as long as no batch in hand brings
  the item but as deleted (`HandAway`); a write that caches another item at its
  path ends its account (`Follow`, section 3: tombstones that go early);
  a search that waits for Graph has loaded all these
  tombstones and drops by them what it still finds (`FindAway`); and what is about
  to be remembered shows nothing known to be deleted (`AnswerAway`). A call that
  the deletion overtook is exempt: it carries the mark in `late`, and what its write
  brings of the deleted items is not accounted for from then on. So `AwayInv` makes
  no claim only once a write has failed, and a failure stays one (`NextLouder`).
  That a whole batch leaves
  buried what it does not bring is `PutAllHolds`, again from the least number.
- **`PathProofs`**, about `LocalState`, on top of `CacheProofs`: that a refreshed
  cache has every item at its path (`RefreshedItems`) and that no two are at one
  path (`PathsDistinct`). A cached path is not written by a call for its item alone:
  an item that moves takes along what is below its old path, the item that was at
  its new path goes with all below that, and what waited for the path of a parent
  gets one in passes. The first lemmas are about one such write. Cached items are a
  *tree* when each is in another of them, or at the root, by its path as by its
  parent, and no two have one path (`Tree`). Part of the cache is, and what goes
  with an item is whole subtrees, so that what is left of that part is a tree again
  (`DisplacedTree`); what moves takes along what is in it, and no path is taken twice
  (`PutTree`); the passes leave all of it where it is (`PassesTree`). That part `H` is chosen where the invariant says so, since
  the cache also holds items whose folder nobody has read or that others deleted.
  Over a batch, an element is put at its path in the drive if all above it is in
  its place (`PutInPlace`). There are three ways in which that can be: folders come
  before what is in them, which is what "ahead" excludes (`PutAllOrdered`); all that
  is there is in place already (`PutAllLive`, `PutAllWhole`); or everything cached is
  still there and at its path or at none (`PutAllDistinct`). Items in place that are
  also in a tree with the items above them have their right paths (`RightPaths`).
  The invariant, `PInv`, is claimed while `mixed` is at most "behind". With a
  deltaLink, the cache is a tree but for items that were deleted, and holds every
  item that was given to it as it is now (`Linked`, `AllCached`); without one, in a
  first round up to the last change, what is not to come is in its place
  (`Midway`). It needs of the calls that a round a call has in hand, if no
  deltaLink is stored yet, brings everything but what the stored partial round has
  cached already (`Held`, `PageRight`, `BringsRight`); otherwise a cursor could
  be written over a cache that lacks items no later round repeats. `WritePaths` says
  that a write keeps the cache so; a change of the drive by others only makes the
  invariant's conditions harder to meet, since it puts a mark on all that is in
  hand and what has changed was not given to the cache as it is now
  (`ChangedDrive`).
- **`MutationFlowProofs`**, for any set of the modelled tools, any items and any
  batch. All that is used of the 26 handlers is `HandlerOK`, which the lemma
  `Handlers` finds true of each by evaluation. `IInv` says, of each call: before
  its effects it has done nothing; what it has read of a target is never newer
  than the drive; a call past the gate was admitted with a token that was issued
  for exactly what it has read (`Proof`) and that nobody can present again; every
  effect is one that the call has come to (`Reached`), carries its token, and has
  its condition and backup where its handler says so; everything behind it is
  done; and past its record there is a record or a warning. A call's own part
  (`CallOK`) mentions no other call's state but the ledger and the effects, which
  only grow, so that one frame lemma (`LeftAlone`) carries all the others through
  each step. That a target and step occur once (`OnceEach`) is what the refusal
  of duplicates in a batch is for; where a batch may name an item twice, the
  second change is of a version above the one that was read and its condition
  fails. Proved: `ConfirmedOnce`, `PreviewedVersion`, `BackupFirst`,
  `AuditTrue`, `ChangesAudited`, and `LedgerImplemented`: `MutationFlow`
  implements `PreviewLedger`, only the two confirmations being steps of it. The
  proof assumes that a call names an item, which the schemas demand of batches
  (`minItems`, server.mjs:3529-3530).
- **`ServingProofs`**, about `Serving`, with any limits, sizes, lifetimes, sessions
  and numbers of calls and requests. It begins with the operators of
  `AdmissionController`, for both of its instances: as long as the counters are the
  numbers of leases given and not released, of all and per subject, `AcquireAdds`
  and `ReleaseRemoves` say what becomes of the leases in use, and that the counters
  follow. `StoreInv` is the registry's invariant:
  entries are numbered apart, the total is the sum of their bytes, the four limits
  hold, a closed registry is empty; a call is registered only once it has come
  that far (`RegisteredOnce`), and a file is of an entry, a call under way, or an
  earlier process (`FilesBelong`). From it `RegistryLimitsKept`, `LinksHaveFiles`
  and `NothingLeftBehind`. That eviction makes enough room is a statement about
  the least number of oldest entries whose removal is enough: there is one, since
  removing all of them is enough (`ScopeHasRoom`, `AllHasRoom`). `ReadsInv` and `HeavyInv` add to the controllers' invariant that what
  has not begun has no lease and what works has one that is not released; from
  these `WorkKeeps`, that `Serving` implements `Slots` with both controllers, and
  `WorkWithinLimits`, what that is worth.
  `TokensInv` is about the keys of `BearerTokens`: the time for which a key has
  been published or withdrawn, and the time for which what was learned before that
  will still be used, add up to no more than the time it may be used for
  (`PublishedOK`, `WithdrawnOK`); and what a request in flight was answered is at
  most a tick old (`AskedOK`), so that an answer which comes late restarts these
  times almost in order. From it `NewKeysAccepted` and `WithdrawnKeysExpire`. The
  first needs that a refresh is refused for no longer than an unknown key is
  remembered (`Cooldown <= NegativeTtl`, 30 and 60 seconds: oauth.mjs:25-26).

`Bytes` is a sum over a set, a fold of the library that picks its elements in an
unspecified order. `BytesAdded` and `BytesTaken`, which say what one entry more or
less does to it, need that the order does not matter; this is an induction, which
is done here without its theorem, by taking a smallest set for which it fails
(`SmallestSubset`) and taking an element away (`SumExists`, `SumsAgree`).

Only model-checked: all liveness (`SlotsComeBack`, `WaitersAnswered`, `CallsEnd`,
`CallsReturn`, `LeasesComeBack`), since TLAPS does not reason about fairness and
`ENABLED`. Every safety invariant and action property of the runs that pass is
stated by a theorem.

## 5. What is left

Not modelled:

- **On-behalf-of exchange** (`mcp/oauth.mjs` 588-664): its cache is keyed by the
  token that is exchanged, so that a race costs a request and changes no answer.
- **Ranking, the probe of documents after a weak answer, the traversal for an
  exact filename, several files opened in one call, rendering for clients, Office
  inspection**: they read, and what they cache goes through the calls of
  `MetadataCache` and `ChatgptReads`.
- **Deletion of backups and of audit records.**
- **Pure parsing, cryptography, schemas, text patches, document
  transformations, launchers, the installer and the deployment scripts**: they
  keep no state that an interleaving could break.
