------------------------------ MODULE Registry ------------------------------
(***************************************************************************)
(* The plugin index behind the marketplace: LocalIndex, scanned once when  *)
(* the server starts; CommunityIndex, a cache with a time to live in front *)
(* of a file on GitHub that is fetched outside the lock; and MergedIndex,  *)
(* which prefers the local entry and installs from the community one.      *)
(* One plugin is followed.  A version is the number of times it has been   *)
(* published; an index is its version at the moment the server answered.   *)
(***************************************************************************)
EXTENDS Naturals

CONSTANTS Readers,       \* concurrent calls that need the community index
          CACHE_TTL,     \* 300 s in the code, here in ticks
          FetchTimeout,  \* 15 s in the code, here in ticks
          MaxTicks, MaxVersions,
          NoVersion

ASSUME RegistryAssumption ==
    CACHE_TTL \in Nat \ {0} /\ FetchTimeout \in Nat /\ MaxTicks \in Nat /\ MaxVersions \in Nat

VARIABLES clock,
          published,  \* tick -> version on GitHub when it begins
          cache,      \* [at, version], or NoVersion before the first fetch
          local,      \* version found by the scan at start, NoVersion if none
          onDisk,     \* version in the plugin's manifest, NoVersion if not installed
          reader,     \* call -> [step, use, version, since]
          served      \* [version, at]: answer last given, and when

registryVars == <<clock, published, cache, local, onDisk, reader, served>>

ReaderIdle == [step |-> "idle", use |-> "list", version |-> NoVersion, since |-> 0]
Latest == published[clock + 1]

RegistryInit ==
    /\ clock = 0 /\ published = [t \in 0..(MaxTicks + 1) |-> 1]
    /\ cache = NoVersion /\ local = NoVersion /\ onDisk = NoVersion
    /\ reader = [r \in Readers |-> ReaderIdle]
    /\ served = [version |-> 1, at |-> 0]

\* Time passes, but no fetch outlives its timeout.
RegistryTick ==
    /\ clock < MaxTicks /\ clock' = clock + 1
    /\ \A r \in Readers : reader[r].step \in {"fetch", "store"} => clock - reader[r].since < FetchTimeout
    /\ UNCHANGED <<published, cache, local, onDisk, reader, served>>

\* External: an author publishes a version.
PublishVersion ==
    /\ Latest < MaxVersions
    /\ published' = [t \in DOMAIN published |-> IF t > clock THEN Latest + 1 ELSE published[t]]
    /\ UNCHANGED <<clock, cache, local, onDisk, reader, served>>

-----------------------------------------------------------------------------
(* CommunityIndex::cached_index *)

FreshAlways == cache # NoVersion
Fresh == cache # NoVersion /\ clock - cache.at < CACHE_TTL

\* What the caller does with the index: list_available returns it, install_plugin
\* downloads the version it names (disk) and returns.
UseIndex(r, version) ==
    /\ served' = [version |-> version, at |-> clock]
    /\ onDisk' = IF reader[r].use = "install" THEN version ELSE onDisk
    /\ reader' = [reader EXCEPT ![r] = ReaderIdle]

\* Fast path under the read lock, or the start of a fetch.
Ask(r) ==
    /\ reader[r].step = "ask"
    /\ IF Fresh THEN UseIndex(r, cache.version)
       ELSE /\ reader' = [reader EXCEPT ![r].step = "fetch", ![r].since = clock]
            /\ UNCHANGED <<onDisk, served>>
    /\ UNCHANGED <<clock, published, cache, local>>

\* External: GitHub answers with the file as it is now.
FetchAnswered(r) ==
    /\ reader[r].step = "fetch"
    /\ reader' = [reader EXCEPT ![r].step = "store", ![r].version = Latest]
    /\ UNCHANGED <<clock, published, cache, local, onDisk, served>>

\* Timeout, bad status, too large, not JSON.  list_available degrades to the local
\* entries, get_entry and install_plugin return the error: no index is served.
FetchFails(r) ==
    /\ reader[r].step = "fetch"
    /\ reader' = [reader EXCEPT ![r] = ReaderIdle]
    /\ UNCHANGED <<clock, published, cache, local, onDisk, served>>

\* The write lock: whoever came first has filled the cache, and its index is used.
StoreFetched(r) ==
    /\ reader[r].step = "store"
    /\ IF Fresh THEN UseIndex(r, cache.version) /\ UNCHANGED cache
       ELSE /\ cache' = [at |-> clock, version |-> reader[r].version]
            /\ UseIndex(r, reader[r].version)
    /\ UNCHANGED <<clock, published, local>>

-----------------------------------------------------------------------------
(* MergedIndex and the handlers *)

CallIndex(r, use) == reader' = [reader EXCEPT ![r] = [ReaderIdle EXCEPT !.step = "ask", !.use = use]]

\* GET /marketplace/plugins: both indexes are asked.
ListPlugins(r) ==
    /\ reader[r].step = "idle" /\ CallIndex(r, "list")
    /\ UNCHANGED <<clock, published, cache, local, onDisk, served>>

\* The plugin's install lock is held by the call until it returns.
InstallRunning == \E r \in Readers : reader[r].use = "install"

\* install_plugin compares the manifest on disk with the entry it resolves, and
\* the entry of the local index, when there is one, wins.
UpToDate(version) == version # NoVersion /\ version = onDisk

\* With a local entry (which has no checksum) the community entry is asked for
\* only after the comparison; without one it is the entry that is compared.
InstallPlugin(r) ==
    /\ reader[r].step = "idle" /\ ~InstallRunning
    /\ IF UpToDate(local) THEN UNCHANGED reader ELSE CallIndex(r, "install")
    /\ UNCHANGED <<clock, published, cache, local, onDisk, served>>

\* uninstall_plugin removes the directory; the local index keeps its entry.
UninstallPlugin ==
    /\ ~InstallRunning /\ onDisk # NoVersion /\ onDisk' = NoVersion
    /\ UNCHANGED <<clock, published, cache, local, reader, served>>

\* The server starts again: the cache is empty and the directory is scanned.
RestartRegistry ==
    /\ cache' = NoVersion /\ local' = onDisk /\ reader' = [r \in Readers |-> ReaderIdle]
    /\ UNCHANGED <<clock, published, onDisk, served>>

RegistryNext ==
    \/ RegistryTick \/ PublishVersion \/ UninstallPlugin \/ RestartRegistry
    \/ \E r \in Readers : \/ ListPlugins(r) \/ InstallPlugin(r) \/ Ask(r)
                          \/ FetchAnswered(r) \/ FetchFails(r) \/ StoreFetched(r)

RegistrySpec == RegistryInit /\ [][RegistryNext]_registryVars

-----------------------------------------------------------------------------
(* Properties *)

Earlier(t, d) == IF t < d THEN 0 ELSE t - d

\* Whoever is answered sees an index that was on GitHub at most a fetch and a
\* time to live ago, although fetches overlap, may be stored long after they
\* were answered and may be thrown away for another caller's: an expired cache
\* is never served and never given a new lease.
IndexIsRecent == served.version >= published[Earlier(served.at, CACHE_TTL + FetchTimeout)]
=============================================================================
