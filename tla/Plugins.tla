-------------------------------- MODULE Plugins --------------------------------
(***************************************************************************)
(* gRPC plugins: installing and removing them, the processes the server    *)
(* and the worker keep for them, and which process the executors of the    *)
(* worker reach.                                                           *)
(*                                                                         *)
(* Server and worker share one machine and one plugins directory, and each *)
(* has a PluginProcessManager behind a mutex.  An install tells the worker *)
(* to reload over a subject without storage; a removal reloads the         *)
(* server's manager and tells the worker nothing.  Ports are numbered from *)
(* 1, which stands for 50051.  A plugin has one node type, named as it is. *)
(***************************************************************************)
EXTENDS Naturals, Sequences, FiniteSets

CONSTANTS
  Order,        \* the plugin names, sorted
  DefaultPort,  \* default_port of each plugin's manifest
  YamlPort,     \* ports that the configuration fixes, for some of the plugins
  Slots,        \* HTTP requests that may be in progress at the same time
  MaxRequests,  \* bound: HTTP requests
  MaxFaults,    \* bound: failed starts, processes that die, stops and crashes
  MaxQueue      \* bound: requests waiting for the server's manager

Names == {Order[i] : i \in DOMAIN Order}
Managers == {"server", "worker"}
NoPorts == [n \in {} |-> 0]

ASSUME PluginsAssumption ==
  /\ \A i, j \in DOMAIN Order : i # j => Order[i] # Order[j]
  /\ DefaultPort \in [Names -> Nat \ {0}]
  /\ DOMAIN YamlPort \subseteq Names
  /\ \A n \in DOMAIN YamlPort : YamlPort[n] \in Nat \ {0}

VARIABLES
  disk,      \* each plugin's directory: "absent", "torn" (its manifest cannot
             \* be parsed) or "whole"
  tmp,       \* .tmp- directories: set of plugin names
  schemas,   \* plugins whose node schema the engine has
  req,       \* HTTP request in progress in each slot
  signals,   \* reload signals the worker has received and not handled
  queue,     \* jobs waiting for the mutex of the server's manager, in order
  mg,        \* each manager: [pc, job, left, manifests, managed]
  procs,     \* processes that listen: set of [by, name, port]
  exec,      \* address each executor of the worker calls, 0 when there is none
  requests, faults,
  overlap,   \* history: plugins with two requests at once, or one cut short
  missed,    \* history: since the worker's last scan, a reload signal was sent while it
             \* did not listen, or was lost because its scan failed
  heard      \* history: processes that answered when the worker last registered
             \* executors, if only its own were listening then

vars == <<disk, tmp, schemas, req, signals, queue, mg, procs, exec, requests, faults,
          overlap, missed, heard>>

Idle == [op |-> "none"]
Down == [pc |-> "down", job |-> "none", left |-> {}, manifests |-> {}, managed |-> {}]
Free == [Down EXCEPT !.pc = "free"]

Init ==
  /\ disk \in [Names -> {"absent", "whole"}]
  /\ tmp = {} /\ schemas = {n \in Names : disk[n] = "whole"}
  /\ req = [s \in Slots |-> Idle]
  /\ signals = 0 /\ queue = <<>>
  /\ mg = [m \in Managers |-> IF m = "server" THEN [Free EXCEPT !.manifests = schemas] ELSE Down]
  /\ procs = {} /\ exec = [n \in Names |-> 0]
  /\ requests = 0 /\ faults = 0
  /\ overlap = {} /\ missed = FALSE /\ heard = {}

Fault == faults < MaxFaults /\ faults' = faults + 1

(***************************************************************************)
(* Install and uninstall                                                   *)
(***************************************************************************)
Working(n) == {s \in Slots : req[s].op # "none" /\ req[s].name = n}
At(s, op, step) == req[s].op = op /\ req[s].step = step
To(s, step) == req' = [req EXCEPT ![s].step = step]
Ends(s) == req' = [req EXCEPT ![s] = Idle]

Request(s, n, op, step) ==
  /\ req[s] = Idle /\ requests < MaxRequests /\ requests' = requests + 1
  /\ req' = [req EXCEPT ![s] = [op |-> op, step |-> step, name |-> n]]
  /\ overlap' = IF Working(n) = {} THEN overlap ELSE overlap \cup {n}

\* install_plugin, up to the archive's extraction into a directory of its own
Install(s, n) ==
  /\ Request(s, n, "install", "extracted") /\ tmp' = tmp \cup {n}
  /\ UNCHANGED <<disk, schemas, signals, queue, mg, procs, exec, faults, missed, heard>>

\* extract_plugin_atomic removes the directory that exists ...
RemoveOld(s) ==
  /\ At(s, "install", "extracted") /\ To(s, "removed")
  /\ disk' = [disk EXCEPT ![req[s].name] = "absent"]
  /\ UNCHANGED <<tmp, schemas, signals, queue, mg, procs, exec, requests, faults, overlap,
                 missed, heard>>

\* ... and renames the new one; the rename fails when another install was faster.
RenameNew(s) ==
  LET n == req[s].name IN
  /\ At(s, "install", "removed")
  /\ IF disk[n] = "absent"
     THEN disk' = [disk EXCEPT ![n] = "whole"] /\ To(s, "renamed")
     ELSE disk' = disk /\ Ends(s)
  /\ tmp' = IF \E o \in Working(n) \ {s} : req[o].op = "install" /\ req[o].step \in {"extracted", "removed"}
            THEN tmp ELSE tmp \ {n}
  /\ UNCHANGED <<schemas, signals, queue, mg, procs, exec, requests, faults, overlap, missed, heard>>

\* The manifest is written again, over the one that was unpacked: a file that
\* another process can see half written.
WriteManifest(s) ==
  LET n == req[s].name IN
  /\ At(s, "install", "renamed")
  /\ IF disk[n] = "absent" THEN disk' = disk /\ Ends(s)
     ELSE disk' = [disk EXCEPT ![n] = "torn"] /\ To(s, "writing")
  /\ UNCHANGED <<tmp, schemas, signals, queue, mg, procs, exec, requests, faults, overlap,
                 missed, heard>>

\* Core NATS: a signal that is sent while nobody listens is lost.
Signal ==
  IF mg["worker"].pc # "down" /\ mg["worker"].job # "startup"
  THEN signals' = signals + 1 /\ missed' = missed
  ELSE signals' = signals /\ missed' = TRUE

RegisterSilently(s) ==
  /\ At(s, "install", "written") /\ Ends(s)
  /\ schemas' = schemas \cup {req[s].name}
  /\ UNCHANGED <<disk, tmp, signals, queue, mg, procs, exec, requests, faults, overlap, missed,
                 heard>>
SignalOnly(s) ==
  /\ At(s, "install", "written") /\ Ends(s) /\ Signal
  /\ UNCHANGED <<disk, tmp, schemas, queue, mg, procs, exec, requests, faults, overlap, heard>>
\* register_plugin_schemas, and the reload signal
RegisterSchemas(s) ==
  /\ At(s, "install", "written") /\ Ends(s)
  /\ schemas' = schemas \cup {req[s].name} /\ Signal
  /\ UNCHANGED <<disk, tmp, queue, mg, procs, exec, requests, faults, overlap, heard>>

ManifestWritten(s) ==
  LET n == req[s].name IN
  /\ At(s, "install", "writing") /\ To(s, "written")
  /\ disk' = [disk EXCEPT ![n] = IF @ = "torn" THEN "whole" ELSE @]
  /\ UNCHANGED <<tmp, schemas, signals, queue, mg, procs, exec, requests, faults, overlap,
                 missed, heard>>

\* uninstall_plugin: the plugin is never stopped first, for the status that it
\* compares with "running" is spelled "Running".
Uninstall(s, n) ==
  /\ disk[n] # "absent" /\ Request(s, n, "uninstall", "checked")
  /\ UNCHANGED <<disk, tmp, schemas, signals, queue, mg, procs, exec, faults, missed, heard>>

RemoveDirectory(s) ==
  LET n == req[s].name IN
  /\ At(s, "uninstall", "checked")
  /\ IF disk[n] = "absent" THEN Ends(s) ELSE To(s, "removed")
  /\ disk' = [disk EXCEPT ![n] = "absent"]
  /\ UNCHANGED <<tmp, schemas, signals, queue, mg, procs, exec, requests, faults, overlap,
                 missed, heard>>

\* The manifest is read before the removal, but as an index entry, whose protocol is
\* a string; in a manifest that a scan accepts it is an object.  So no node type comes
\* out, and no schema is unregistered.
EndUninstall(s) ==
  /\ At(s, "uninstall", "removed") /\ Ends(s)
  /\ queue' = Append(queue, [job |-> "reload"])
  /\ UNCHANGED <<disk, tmp, schemas, signals, mg, procs, exec, requests, faults, overlap, missed,
                 heard>>

(***************************************************************************)
(* PluginProcessManager, in the server and in the worker                   *)
(***************************************************************************)
\* LocalIndex::scan reads a manifest in a .tmp- directory too, once it is there.
Scans == {{n \in Names : disk[n] = "whole"} \cup extra : extra \in SUBSET tmp}

Position(n) == CHOOSE i \in DOMAIN Order : Order[i] = n
\* The ports of spawn_all: the one that is configured or the next free number.
PortOf(n, found, fixed) ==
  IF n \in DOMAIN fixed THEN fixed[n]
  ELSE 1 + Cardinality({k \in found \ DOMAIN fixed : Position(k) < Position(n)})
Ports(found, fixed) == {[name |-> n, port |-> PortOf(n, found, fixed)] : n \in found}

KillNone(m) ==
  /\ mg[m].pc = "kill"
  /\ mg' = [mg EXCEPT ![m].pc = "scan", ![m].managed = {}]
  /\ UNCHANGED <<disk, tmp, schemas, req, signals, queue, procs, exec, requests, faults, overlap,
                 missed, heard>>
\* shutdown, of reload_all
KillAll(m) ==
  /\ mg[m].pc = "kill"
  /\ mg' = [mg EXCEPT ![m].pc = "scan", ![m].managed = {}]
  /\ procs' = {p \in procs : p.by # m}
  /\ UNCHANGED <<disk, tmp, schemas, req, signals, queue, exec, requests, faults, overlap,
                 missed, heard>>

\* spawn_all: scan and assign the ports.  Only the worker's start-up passes the
\* configured ones.
Scan(m) ==
  /\ mg[m].pc = "scan"
  /\ \E found \in Scans :
       mg' = [mg EXCEPT ![m].pc = "spawn", ![m].manifests = found,
                        ![m].left = Ports(found, IF mg[m].job = "startup" THEN YamlPort ELSE NoPorts)]
  /\ missed' = (missed /\ m # "worker")
  /\ UNCHANGED <<disk, tmp, schemas, req, signals, queue, procs, exec, requests, faults, overlap,
                 heard>>

\* A directory is about to be removed or renamed: one that vanishes while it is read
\* makes the scan fail.
Vanishing == tmp # {} \/ \E s \in Slots : At(s, "uninstall", "checked")

\* spawn_all, when its scan fails: nothing is started.
ScanFails(m) ==
  /\ mg[m].pc = "scan" /\ Vanishing
  /\ mg' = [mg EXCEPT ![m].pc = "spawn", ![m].left = {}]
  /\ missed' = (missed \/ m = "worker")
  /\ UNCHANGED <<disk, tmp, schemas, req, signals, queue, procs, exec, requests, faults, overlap,
                 heard>>

\* The operating system: a process gets a port nobody listens on; else it ends,
\* or shares the port.  External.
Listening(p) == {q \in procs : q.port = p}
Binds(p) == IF Listening(p.port) = {} THEN {procs \cup {p}} ELSE {procs, procs \cup {p}}

\* spawn_single_plugin: whoever answers the health check on the port, the
\* plugin counts as started.
SpawnSucceeds(m, e) ==
  /\ mg[m].pc = "spawn" /\ e \in mg[m].left
  /\ disk[e.name] # "absent" \/ e.name \in tmp
  /\ mg' = [mg EXCEPT ![m].left = @ \ {e}, ![m].managed = @ \cup {e}]
  /\ procs' \in Binds([by |-> m, name |-> e.name, port |-> e.port])
  /\ UNCHANGED <<disk, tmp, schemas, req, signals, queue, exec, requests, faults, overlap, missed,
                 heard>>

SpawnFails(m, e) ==
  /\ mg[m].pc = "spawn" /\ e \in mg[m].left
  /\ mg' = [mg EXCEPT ![m].left = @ \ {e}]
  /\ IF disk[e.name] = "absent" /\ e.name \notin tmp THEN faults' = faults ELSE Fault
  /\ UNCHANGED <<disk, tmp, schemas, req, signals, queue, procs, exec, requests, overlap, missed,
                 heard>>

SpawnDone == mg["server"].pc = "spawn" /\ mg["server"].left = {}
           /\ mg' = [mg EXCEPT !["server"].pc = "free", !["server"].job = "none"]
           /\ UNCHANGED <<disk, tmp, schemas, req, signals, queue, procs, exec, requests, faults,
                          overlap, missed, heard>>

PluginDies(p) ==
  /\ Fault /\ procs' = procs \ {p}
  /\ UNCHANGED <<disk, tmp, schemas, req, signals, queue, mg, exec, requests, overlap, missed, heard>>

(***************************************************************************)
(* The server's manager, driven by the plugin endpoints; restart_plugin is *)
(* a stop and then a start.                                                *)
(***************************************************************************)
Call(job) ==
  /\ requests < MaxRequests /\ requests' = requests + 1
  /\ Len(queue) < MaxQueue /\ queue' = Append(queue, job)
  /\ UNCHANGED <<disk, tmp, schemas, req, signals, mg, procs, exec, faults, overlap, missed, heard>>

Managed(m) == {e.name : e \in mg[m].managed}

ServerReloads ==
  /\ mg["server"].pc = "free" /\ queue # <<>> /\ Head(queue).job = "reload"
  /\ queue' = Tail(queue) /\ mg' = [mg EXCEPT !["server"].pc = "kill", !["server"].job = "reload"]
  /\ UNCHANGED <<disk, tmp, schemas, req, signals, procs, exec, requests, faults, overlap, missed, heard>>

\* start_plugin, on the manifest's default port
ServerStarts ==
  LET j == Head(queue)  s == mg["server"] IN
  /\ s.pc = "free" /\ queue # <<>> /\ j.job = "start" /\ queue' = Tail(queue)
  /\ mg' = IF j.name \in s.manifests \ Managed("server")
           THEN [mg EXCEPT !["server"] = [s EXCEPT !.pc = "spawn", !.job = "start",
                                             !.left = {[name |-> j.name, port |-> DefaultPort[j.name]]}]]
           ELSE mg
  /\ UNCHANGED <<disk, tmp, schemas, req, signals, procs, exec, requests, faults, overlap, missed, heard>>

\* stop_plugin
ServerStops ==
  LET j == Head(queue) IN
  /\ mg["server"].pc = "free" /\ queue # <<>> /\ j.job = "stop" /\ queue' = Tail(queue)
  /\ mg' = [mg EXCEPT !["server"].managed = {e \in @ : e.name # j.name}]
  /\ procs' = {p \in procs : ~(p.by = "server" /\ p.name = j.name)}
  /\ UNCHANGED <<disk, tmp, schemas, req, signals, exec, requests, faults, overlap, missed, heard>>

KeepPartialInstalls == tmp
\* cleanup_partial_installs
CleanupPartialInstalls == {}

\* Processes whose manager ends are killed, or survive it when it is killed.
Orphans(m) == {{p \in procs : p.by # m} \cup {[p EXCEPT !.by = "nobody"] : p \in kept} :
                 kept \in SUBSET {p \in procs : p.by = m}}

\* The server stops or crashes and starts again: load_plugins, build_plugin_manager
RestartServer ==
  /\ Fault /\ req' = [s \in Slots |-> Idle] /\ queue' = <<>>
  /\ overlap' = overlap \cup {req[s].name : s \in {t \in Slots : req[t].op # "none"}}
  /\ tmp' = CleanupPartialInstalls
  /\ schemas' = {n \in Names : disk[n] = "whole"}
  /\ mg' = [mg EXCEPT !["server"] = [Free EXCEPT !.manifests = schemas']]
  /\ procs' \in Orphans("server")
  /\ UNCHANGED <<disk, signals, exec, requests, missed, heard>>

(***************************************************************************)
(* The worker                                                              *)
(***************************************************************************)
StartWorker ==
  /\ mg["worker"].pc = "down"
  /\ mg' = [mg EXCEPT !["worker"] = [Down EXCEPT !.pc = "scan", !.job = "startup"]]
  /\ UNCHANGED <<disk, tmp, schemas, req, signals, queue, procs, exec, requests, faults, overlap,
                 missed, heard>>

\* reload_worker_plugins, for one signal at a time.  It scans twice: here, which may
\* end it before anything is stopped, and again in reload_all.
ReloadFails ==
  /\ mg["worker"].pc = "free" /\ signals > 0 /\ signals' = signals - 1
  /\ Vanishing /\ missed' = TRUE
  /\ UNCHANGED <<disk, tmp, schemas, req, queue, mg, procs, exec, requests, faults, overlap, heard>>

ReloadWorker ==
  /\ mg["worker"].pc = "free" /\ signals > 0 /\ signals' = signals - 1
  /\ mg' = [mg EXCEPT !["worker"].pc = "kill", !["worker"].job = "reload"]
  /\ UNCHANGED <<disk, tmp, schemas, req, queue, procs, exec, requests, faults, overlap, missed, heard>>

\* discover_grpc asks each endpoint for its schemas, at start-up the configured ones
\* too.  A process may fail to answer; of those that share a port, one answers each time.
Endpoints == mg["worker"].managed \cup
             (IF mg["worker"].job = "startup"
              THEN {[name |-> n, port |-> YamlPort[n]] : n \in DOMAIN YamlPort} ELSE {})
AsOften(p, answering) == Cardinality({q \in answering : q.port = p}) <= Cardinality({e \in Endpoints : e.port = p})
Replies == {answering \in SUBSET procs : \A p \in answering : AsOften(p.port, answering)}

\* Executors are registered under the names that come back, and the others stay as
\* they are; when two addresses answer for one plugin either may be the last.
Answering(n, answering) == {p.port : p \in {q \in answering : q.name = n}}
RegisterIfAbsent(n, answering) ==
  IF exec[n] # 0 \/ Answering(n, answering) = {} THEN {exec[n]} ELSE Answering(n, answering)
RegisterGrpc(n, answering) ==
  IF Answering(n, answering) = {} THEN {exec[n]} ELSE Answering(n, answering)

WorkerRegisters ==
  /\ mg["worker"].pc = "spawn" /\ mg["worker"].left = {}
  /\ \E answering \in Replies :
       /\ exec' \in {f \in [Names -> {exec[n] : n \in Names} \cup {p.port : p \in answering}] :
                       \A n \in Names : f[n] \in RegisterGrpc(n, answering)}
       /\ heard' = IF \A p \in procs : p.by = "worker" THEN answering ELSE {}
  /\ mg' = [mg EXCEPT !["worker"].pc = "free", !["worker"].job = "none"]
  /\ UNCHANGED <<disk, tmp, schemas, req, signals, queue, procs, requests, faults, overlap, missed>>

\* The worker stops, which kills its plugins, or crashes.
StopWorker ==
  /\ mg["worker"].pc # "down" /\ Fault
  /\ mg' = [mg EXCEPT !["worker"] = Down] /\ signals' = 0
  /\ exec' = [n \in Names |-> 0] /\ heard' = {}
  /\ procs' \in Orphans("worker")
  /\ UNCHANGED <<disk, tmp, schemas, req, queue, requests, overlap, missed>>

(***************************************************************************)
(* Specification                                                           *)
(***************************************************************************)
Step(s) == \/ RemoveOld(s) \/ RenameNew(s) \/ WriteManifest(s) \/ ManifestWritten(s)
           \/ RegisterSchemas(s) \/ RemoveDirectory(s) \/ EndUninstall(s)

Next ==
  \/ \E s \in Slots, n \in Names : Install(s, n) \/ Uninstall(s, n)
  \/ \E s \in Slots : Step(s)
  \/ \E n \in Names, job \in {"start", "stop"} : Call([job |-> job, name |-> n])
  \/ Call([job |-> "reload"])
  \/ ServerReloads \/ ServerStarts \/ ServerStops \/ RestartServer
  \/ \E m \in Managers : KillAll(m) \/ Scan(m) \/ ScanFails(m)
  \/ \E m \in Managers : \E e \in mg[m].left : SpawnSucceeds(m, e) \/ SpawnFails(m, e)
  \/ SpawnDone \/ StartWorker \/ ReloadWorker \/ ReloadFails \/ WorkerRegisters \/ StopWorker
  \/ \E p \in procs : PluginDies(p)

Spec == Init /\ [][Next]_vars

(***************************************************************************)
(* Properties                                                              *)
(***************************************************************************)
Ready == mg["worker"].pc = "free"

\* The executor of each plugin whose process told its schemas when the worker last
\* registered executors, and still listens, calls that process, whatever starts
\* failed and whatever was installed and removed before, unless processes of the server
\* or of an earlier worker were listening then.
RunningIsRouted == \A p \in heard \cap procs : exec[p.name] = p.port

\* A worker that has handled all its reload signals has scanned every plugin
\* whose install is complete, provided that since its last scan it has lost no
\* signal, and that no two requests for that plugin overlapped.
NoInstallMissed ==
  Ready /\ signals = 0 /\ ~missed =>
    \A n \in Names \ overlap : disk[n] = "whole" /\ Working(n) = {} => n \in mg["worker"].manifests

\* The node picker offers every installed plugin, while no request for it is in
\* progress and none overlapped another.
InstalledIsOffered ==
  \A n \in Names \ overlap : disk[n] = "whole" /\ Working(n) = {} => n \in schemas

\* A .tmp- directory belongs to an install that is still in progress, also
\* after a crash of the server in the middle of one.
TmpOnlyWhileInstalling ==
  \A n \in tmp : \E s \in Working(n) : req[s].op = "install" /\ req[s].step \in {"extracted", "removed"}

\* A manager loses track of no process: whatever it started and still listens
\* is one that stop, reload and shutdown can find.
NoLostProcess ==
  \A p \in procs : p.by \in Managers => [name |-> p.name, port |-> p.port] \in mg[p.by].managed

\* Installed plugins are known: to the node picker, to the worker, and on disk none
\* is half there.
InstalledIsKnown == NoInstallMissed /\ InstalledIsOffered /\ TmpOnlyWhileInstalling

\* Running plugins can be reached: by their manager and by the executor of tasks.
RunningIsReachable == RunningIsRouted /\ NoLostProcess
================================================================================
