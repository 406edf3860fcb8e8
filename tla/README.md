# TLA+ models of csi-qsd

csi-qsd is a CSI storage driver. It keeps volumes and snapshots as qcow2 layers in a
qemu-storage-daemon (QSD) on the node and hands volumes to containers as vhost-user sockets. What
has to be right is the bookkeeping of layers: which layer is backed by which, which of them may be
deleted, and that the server's maps, the daemon's block graph and the files on disk agree, although
every operation is a series of external commands any of which may fail. Around it are the driver's
controller and node services, a command line client, the program that runs server and daemon, and a
server that records volumes in Kubernetes objects.

## Inventory

| Part | Code | State | Operations | Talks to |
|---|---|---|---|---|
| QSD gRPC server | `pkg/qsd/server.go` | `images` (id → `QCOWImage`), `activeLayers` (volume → id of its top layer), in memory only; directories and files under `/var/run/qsd` | CreateVolume, ExposeVhostUser, DeleteExporter, CreateSnapshot, DeleteVolume, DeleteSnapshot, ListVolumes | VolumeManager |
| VolumeManager | `pkg/qsd/commands.go` | none | one function per operation: `qemu-img create` and one or two QMP commands | daemon, file system |
| qemu-storage-daemon | external | named block nodes with backing links, exports | blockdev-add, blockdev-snapshot, blockdev-del, block-export-add, block-export-del | – |
| QMP monitor | `vendor/.../go-qemu/qmp` | one connection, one command at a time | Run | daemon |
| QSD server process | `cmd/qsd/main.go` | pid file, sockets | start the daemon, wait, serve, end together | daemon |
| Driver, controller service | `pkg/driver/controller.go`, `driver.go` | `storage`, `snapshots`, in memory only | CreateVolume, DeleteVolume, CreateSnapshot, DeleteSnapshot | server (30 s per call), orchestrator |
| Driver, node service | `pkg/driver/node.go` | bind mounts | NodePublishVolume, NodeUnpublishVolume | kernel |
| Driver, identity service | `pkg/driver/identity.go` | none | constants | orchestrator |
| Metadata server | `pkg/metadata/metadata.go` | labels and annotations of persistent volumes, in the API server | GetVolumes, AddMetadata | Kubernetes |
| Client | `cmd/qsd-client` | none | create, delete, snapshot, list | server |

**What is hard.** The server's handlers run concurrently (one goroutine per gRPC call) and take no
lock. A handler reads the maps, then runs external commands, and afterwards changes the maps on the
strength of what it read. `RefCount` is read to choose between putting a snapshot on top of a layer
and branching off it, and to decide whether a layer may be deleted. A delete is blockdev-del,
`os.Remove` and the update of the maps, and stops wherever one of them fails. The clean-up walks
down the backing chain. Everything in memory is lost in a restart, the files are not. Callers retry.

**What makes each part correct.**
Server: the layers form a forest, every overlay is counted, no layer that is read through loses its
node, file or entry, nothing a caller still owns is deleted by somebody else's clean-up, every call
returns. Server and daemon: the daemon's graph is the one the server has recorded. Controller:
idempotence across retries, timeouts and restarts. Node service: an unpublish undoes the publishes
before it, and a pod keeps its socket while others come and go. Metadata: concurrent updates do not
overwrite one another, and what was recorded is listed. Process: it serves only with a daemon that answers, and
notices when that dies. Client and disks: a guest reads what it wrote, a snapshot keeps what it froze,
nothing is left behind.

## Modules

```
LayerForest -- LayerForestProofs         abstract: a forest that changes at its leaves
     ^
     | implements
QSD <-- QSDServer -- QSDServerProofs -- QSDServerConcurrent     any number of handlers
            |               |                    |
            +-- MCQSDServer |                    |
            +-- Driver -- DriverProofs ----------+          controller service over the server (MCDriver)
            +-- Disk -- Client -- ClientProofs --+          guests' data, and the client, over the server
                          +-- MCClient

Node -- NodeProofs          node service        (MCNode)
Process -- ProcessProofs    cmd/qsd/main.go
Metadata -- MetadataProofs  metadata server
```

**QSD** is the daemon's block graph: `nodes` (node → backing node) and `exports` (export → node).
Each command of `commands.go` is a pair of operators, the effect and the condition `Can...` without
which the daemon refuses it and changes nothing. The daemon is external; the conditions are its
documented refusals: a node name is taken, a node is missing, in use, or (for blockdev-snapshot) the
overlay already has a backing node.

**QSDServer** is the server with the steps of the VolumeManager. Variables `images` and
`activeLayers` are the maps; a `QCOWImage` has the Go fields but for `QSDID`, which is a function of
the id, and `File` is the pair of volume directory and name. `files`, `dirs` and `sockets` are what
is on disk. `call[w]` is the handler that worker `w` runs: `op`, the step it is at (`pc`), its
arguments (`id`, `from`), the layer it works on and what its `*QCOWImage` points to (`ptr`: the
fields that never change).

| Code | Actions, in order |
|---|---|
| `CreateVolume` | `CreateVolume`, `QemuImgCreate`, `AddNode`, `Store` |
| `CreateSnapshot` | `CreateSnapshot`, `QemuImgCreate`, `AddNode`, `Append` (only if nothing is on top), `Store` |
| `ExposeVhostUser` | `ExposeVhostUser`, `Export` |
| `DeleteExporter` | `DeleteExporter`, `Unexport`, `RemoveSocketDir` |
| `DeleteVolume` | `DeleteVolume`, (`DelNode`, `RemoveFile`, `Release`), `RemoveDir`, then `DelNode`, `RemoveFile`, `Release` for each layer the clean-up finds unreferenced |
| `DeleteSnapshot` | `DeleteSnapshot`, then the same three per layer |
| `cmd/qsd/main.go` | `Restart` |

A step is one external command together with the code behind it up to the next one, so handlers
interleave exactly where they can be overtaken by commands of other handlers. An external command
is `Granted` when its condition holds; it is `Refused` when the condition does not hold, or, at the
price of one of the `MaxFaults` faults, for a reason outside the model (disk full, a lost monitor
connection). A restart costs a fault too, unless a handler has panicked.

Left out of QSDServer: sizes, message texts; a failing `MkdirAll`, which ends the call with nothing
done, as an unknown image does; the removal of a stale socket before an export (server.go:138 tests
`os.IsExist` of a nil error, so the branch is never taken); failures of `os.Stat` and `ReadDir` on a
directory that is there. Go's abort on concurrent map writes is a `Restart`.

**LayerForest** is what the server promises about layers: one is added on top of another and removed
only when nothing is on top of it. `QSDServer!Forest` instantiates it with `parent` the backing ids
of `images`, and the server implements it.

**Disk** adds what the files hold, to the steps of QSDServer. `disk` gives each file the value of one
block, or `Hole`; every other block goes the same way down the chain. `opened` is the file behind
each node, `sealed` the nodes a blockdev-snapshot was put on top of. `QemuImgCreate` empties its file
(`Format`). A file that is there it keeps (`Keeps`) in two cases: createImage looks first
(commands.go:208), and qemu-img does not get past the lock (`Locked`) of an overlay, which the daemon has
open as qcow2. A plain volume's `disk.img` is open raw (commands.go:219), without a lock that would stop
qemu-img, so a CreateVolume from a source empties it (`Recreates`), whether the blockdev-add after it is
granted or not. A guest writes (`GuestWrite`) through the export of its volume, wherever that has been moved
to. `Contents` reads a node of the daemon: the first block on its chain. `written`, `writes`, `survivors` and
`overwritten` record what guests wrote, what outlived a restart, and which files were emptied that way and
not written since. After a restart a volume made from no source reads what was written to its `disk.img`; a
clone's `disk.img` is a qcow2 overlay, and opened raw it gives back nothing that was written (`Plain`).

**Client** is `cmd/qsd-client` over Disk. `cmd[t]` is the command a user runs at terminal `t`.

| Code | Actions, in order |
|---|---|
| `create` | `Create`, `Answer`, `SecondCall` (ExposeVhostUser), `Answer` |
| `delete` | `Delete` (DeleteExporter), `Answer`, `SecondCall` (DeleteVolume), `Answer` |
| `snapshot create`, `snapshot delete` | `SnapshotCreate`, `SnapshotDelete`, `Answer` |
| deadline of 60 s or 30 s, Ctrl-C | `Interrupt`: the command ends, the handler goes on |
| `list --tree` | `PrintTree` over `ListVolumes` |

**Driver** is the controller service, EXTENDing QSDServer: its calls start the server's handlers and
wait for their answers, and `Begin` is not used. `storage` and `snapshots` are the driver's tables,
`csi[r]` is a handler of the driver: the call of the server it has to make or waits for (`pc`), the
server's handler (`worker`), and whether the orchestrator still waits (`heard`). `co` and `origin`
are what the orchestrator asked for and was told; `lost` and `forgotten` are the ids it had asked for
when the server, or the driver, last restarted.

| Code | Actions, in order |
|---|---|
| `CreateVolume` | `ControllerCreateVolume` (table entry), `CallServer` (create), `AnswerSucceeded`, `CallServer` (expose), `AnswerSucceeded` |
| `DeleteVolume` | `ControllerDeleteVolume` (answered at once if not in the table), `CallServer` (unexport), `AnswerSucceeded`, `CallServer` (delete), `AnswerSucceeded` (entry removed) |
| `CreateSnapshot` | `ControllerCreateSnapshot` (answered at once if in the table), `CallServer`, `AnswerSucceeded` (table entry) |
| `DeleteSnapshot` | `ControllerDeleteSnapshot` (answered at once if not in the table), `CallServer`, `AnswerSucceeded` (entry removed) |
| any error of the server | `AnswerFailed` |
| `context.WithTimeout(context.Background(), 30s)` | `Timeout`: the request ends, the server's handler goes on; `GiveUp`: the orchestrator leaves, the driver's handler goes on |

The driver's dial does not block, so an unreachable server is a `Timeout` before the call has
started. Between the server's answer and the driver's next call other handlers run, as they may in
the code. A server restart ends the requests that wait for it.

**Node** is the node service with its plugin process, and around it, external, the kernel's mounts
(`depth`: how many bind mounts are stacked on a target), the kubelet's directories and the socket
directories under `/var/run/qsd`. `kubelet[t]` is what the kubelet asked for and was told of a target.

| Code | Actions, in order |
|---|---|
| `NodePublishVolume` | `NodePublishVolume`, `MkdirAll`, `Mount` |
| `NodeUnpublishVolume` | `NodeUnpublishVolume`, `Unmount`, `RemoveAll` (through a mount that is left it empties the socket directory, then fails) |
| `Driver.Run` | `RunPlugin` (removes the old `csi.sock`), `Listen` |
| – | `GiveUp`, `PluginCrash`, `Reboot`, `ExposeVhostUser`, `DeleteExporter` (the server, external here) |

Node stands beside Driver and is not composed with it: all that the two share is the socket directory
of a volume, which Driver's `ReadyVolumeServed` promises (`v \in sockets`) and Node assumes
(`ExposeVhostUser` before any publish, `DeleteExporter` after the last unpublish).

**Process** is `cmd/qsd/main.go`: `main` (before the first select, listening, connecting, serving,
gone), the goroutine that runs the daemon and puts its end into the channel `r`, the one that polls
for the pid file, the one that connects to the monitor, and the container's restart. `stale` says
whether a pid file of an earlier daemon was there when the program started. QSDServer's `Restart` is
all of it that volumes see.

**Metadata** is `AddMetadata` (get, change the copy, update) by any number of callers over the API
server's versioned objects, which others create, label and delete, and `GetVolumes` with its parsing.
`known` is what callers may believe recorded: two things, when an answer was lost.

**MC\*** are the instances for TLC (Process and Metadata need none); the modules named `...Proofs` and
**QSDServerConcurrent** hold the theorems.

### Callers

`Begin` of QSDServer lets any caller make any call that the driver or the client can make: create,
clone, snapshot, expose and delete any id. `DeleteSnapshot` names the volume the snapshot was taken
of, as the driver does from its table. `Disciplined = FALSE` is for a single worker: calls come one
at a time but ids may be used again, also after a failed delete. `Disciplined = TRUE` is for
concurrent handlers and adds two rules: no two calls in progress name the same id (`MayCall`), and ids
are not used again (`MayCreate`). Orchestrators keep to them as long as no call times out; the server
enforces neither. A timed-out call of the driver breaks the first, and module Driver has that. Without
these rules concurrent handlers break almost every property below, down to a nil-pointer panic in
DeleteVolume, so what the concurrent run and the theorems of QSDServerConcurrent show is what the server
can be relied on for if its callers are careful.

In Driver the orchestrator asks for one thing of an id at a time, as far as it knows (`AskFor`), clones
and snapshots what it was told is ready, repeats any request with the same arguments, also one that
was answered, and never uses an id again that it asked to delete. It does not know of handlers it gave
up on or that the driver gave up on; `hasty` collects the ids it asks for while such a late handler is
at work on them. `Workers` must exceed the requests by the handlers that can be left behind, or a call
waits for one to end: two of each, with one fault, leave at most one behind.

A call keeps what it read through a `*QCOWImage` by value (`ptr`), which is the same as long as no id
is deleted and created anew meanwhile. In Driver only a late handler can create an id anew; with one
fault and one snapshot the only other handlers that then hold the old entry are those deleting it, and
they use no more of it than what they keep.

A user of Client types what he likes: any source, any name again, in any order, but keeps the names of
volumes and snapshots apart. The kubelet of Node has one request per target at a time as far as it
knows, repeats them, and unpublishes a target for good.

## Runs

All instances have distinct node names per id (`MCQSDID`).

| Run | Instance | Shows |
|---|---|---|
| `server_faults` | 1 worker, 2 volumes, 1 snapshot, 2 faults, ids used again; 536,903 states | `TypeOK`, `BackingChain`, `LayersAcyclic`, `RefCountCovers`, `ReferencedHasNode`, `ActiveHasVolume`, `FilesPresent`, `ImplementsForest` |
| `server_concurrent` | 2 workers, disciplined, 2 volumes, 2 snapshots, no faults; 488,906 states | `RefCountExact`, `ExportHasVolume`, `StoreHasBase`, `BasesHoldImages`, `OwnerDeletes` |
| `client` | 1 user, 1 worker, 2 volumes, 1 snapshot, 1 write per guest, 1 interruption or restart; 4,978,046 states | `ClientTypeOK`, `GraphMirrorsImages`, `NodesMatchImages`, `WritesReadBack`, `NewVolumeBlank`, `SealedNotExported`, `OnlyGuestsWriteUnlessOverwritten`, `TreeShowsAll`, `NoGarbageUnlessUndercut`, `ActiveLayerThere` |
| `driver_faults` | 2 requests, 2 workers, 2 volumes, 1 snapshot, 1 fault; 1,295,146 states | `DriverTypeOK`, `ReadyVolumeServed`, `ReadySnapshotHeld`, `ServedVolumeInTable`, `DeletedVolumeGone` |
| `driver_liveness` | 2 requests, 2 workers, 1 volume, 1 snapshot, 1 fault, fair; 27,222 states | `RequestsEnd`, `CallsReturn` |
| `node` | 2 targets of 1 volume, 2 handlers, up to 3 mounts on a target, 3 faults, fair; 135,178 states | `PublishedReachable`, `UnpublishedClean`, `UnpublishSettles`, `PluginServes` |
| `process` | 3 faults, fair; 557 states | `DaemonFirst`, `DeathNoticed`, `ServesAgain` |
| `metadata` | 1 volume, 2 nodes, 2 callers, 5 updates, 2 faults; 1,399,105 states | `ListedAsRecorded`, `NodeStays`, `LabelsOfOthersStay` |
| `server_no_garbage` | 1 worker, 2 volumes, 1 snapshot, no faults | `NoGarbage` is violated |
| `server_race` | as `server_concurrent` | `ReferencedHasNode` is violated |
| `driver_create` | as `driver_liveness`, no faults | `CreateIdempotent` is violated |
| `driver_delete` | 1 request, 1 worker, 1 fault, an orchestrator that repeats deletes for ever | `DeleteSettles` is violated |

**Bounds.** *Server:* two volumes and one or two snapshots give chains of three or four layers, a
layer with two and three overlays, a snapshot of a clone and a clone of a snapshot, a clean-up that
walks over several layers, and a volume other than the one being deleted. Two faults allow a delete
that fails half-way followed by one that fails again or a restart; one fault is what it takes to leave
an entry without a node. Two workers are enough for every pair of steps to be swapped; a third
handler's commands look to the other two like those of a second. `taken` is kept only for disciplined
callers. No counter grows without bound: `RefCount` is limited by the number of failed deletes, hence
by `MaxFaults`.

*Client:* one write per guest, at any moment before or after a snapshot, a clone or a restart, is enough
to tell whose data an image shows; that no guest can write below a snapshot is `SealedNotExported`,
whether it writes or not. With one worker the handler of an interrupted
command ends before the next begins, so calls come one at a time: what two users at a time do to the
graph is in `server_concurrent`. With two terminals `SealedNotExported` fails: a snapshot between the
two calls of `create` freezes the node that ExposeVhostUser then exports (create.go:60).

*Driver:* one fault is one timeout, one request given up, one failing command or one restart: each is
enough for a late handler, a half-done operation or an empty table, and two requests with two workers
for a retry that overtakes it. Workers and requests are symmetric; the liveness run does without
symmetry.

*Node:* two targets of one volume are what it takes for one pod to harm another; volumes share nothing.
Three mounts on a target leave one to unmount and one to delete through. Three faults: a request given
up, its late handler, and a crash. *Process:* three faults allow a stale pid file, a second program
misled by it, and a third. *Metadata:* objects do not interact; five updates are a creation, a foreign
label, two callers and one more for a deletion and re-creation in between; two faults are one lost answer and
one failure. A reference count of 2 stands for one that ParseInt(_, 10, 32) does not take.

**Which properties need which setting.** Concurrency, even disciplined, breaks `ReferencedHasNode`,
`GraphMirrorsImages`, `NodesMatchImages` and `BackingChain`: a delete decided before an overlay was
recorded removes the overlay's base once the overlay's own node has been deleted, and a clone that comes
between a snapshot's look-up and its append is moved on top of the snapshot's overlay. What stays true
then is in `server_concurrent`: as long as an image has its node, that node stands on the node of its base
(`BasesHoldImages`), so nothing reads through a layer that is gone. A failing command
breaks `GraphMirrorsImages` and `NodesMatchImages`, and `RefCountExact` for callers who use ids again (it
stays too high when an id is created over the entry that a failed delete left, which is why the faulty run
checks `RefCountCovers`). Hence three runs of the server, each as strong as the code allows; the
theorems hold in every setting their hypotheses leave open. The type invariants of Node, Process and Metadata are proved and therefore not run.

**Deadlock** is checked everywhere but in `process`, where main may sit in its second select, serving,
with all faults used up.

**Fairness.** `FairDriverSpec`: the Go scheduler runs every runnable goroutine of server and driver
(`ServerStep`, `Proceed`), the monitor serves commands in turn and a command is answered, and
Kubernetes restarts a server that panicked. No request is forced to begin, no fault to happen or not;
`Timeout` is not fair, so `RequestsEnd` does not rest on the deadline. `RetryingSpec` adds an
orchestrator that repeats a DeleteVolume until it succeeds, as the external provisioner does (strong
fairness, because between its requests others may be in progress); it is used only for the run that
shows that this is not enough. `NodeSpec`: handlers run, the kubelet's container restarts start the plugin
again, and the kubelet repeats NodeUnpublishVolume until it is told success (strong fairness: it can
ask only while the plugin serves and a handler is free). `ProcessSpec`: main and its goroutines run, a
daemon that does not die starts, and the container is started again. Nowhere is a fault fair, and the
number of faults is bounded, so the liveness properties say what happens once faults end.

### What the violated runs show

* `server_no_garbage`: create v1, snapshot s1, delete s1, delete v1. s1 is v1's active layer when it
  is deleted, so only its `VolumeRef` is cleared; DeleteVolume drops `activeLayers[v1]` and starts its
  clean-up at v1's own backing image (server.go:263), not at s1. Both layers stay, with nodes and
  files. `NoGarbageUnlessUndercut` shows in `client` that this is the only way to leave garbage.
* `server_race`: a DeleteVolume has found its backing layer unreferenced (server.go:278); before its
  blockdev-del a CreateSnapshot of another handler, already past its own look-up, records an overlay
  on that layer. The daemon refuses the blockdev-del while the overlay's node is there; when a delete of
  the overlay has taken that node and not yet its entry, the layer's node goes although it is counted.
* `driver_create`: create v1, and again, the first answer having been lost. The server's CreateVolume
  keeps the existing `disk.img` and then adds its node a second time, which the daemon refuses.
* `driver_delete`: a CreateVolume fails before it has created anything; its entry in `storage` stays.
  Every DeleteVolume asks for the export's removal first (controller.go:166), of an image the server
  does not know. The same happens after an attempt that removed the export and failed later.

### Exceptions the passing properties name

* `WritesReadBack` and `OnlyGuestsWriteUnlessOverwritten` except files emptied by a CreateVolume from a
  source of a volume that is there, until the next write to them. This is a loss of data in the code: create
  v1, write to it, then create v1 again from a snapshot or another volume. qemu-img empties v1's `disk.img`
  (commands.go:290) under the open node, and with it what v1's guest and the overlays on v1 read; only then
  does blockdev-add refuse the node's name. createImage has the look at the file that is missing there
  (commands.go:207). Without the exception TLC finds both properties violated by this sequence.
* `ActiveLayerThere` except `undercut` volumes: create v1, snapshot s1, clone v2 from s1, delete s1
  (kept: it has a reference), delete v2. The clean-up finds s1 without references and deletes it
  (server.go:278) while `activeLayers[v1]` names it. v1 can no longer be deleted or snapshotted.
* `ServedVolumeInTable` and `DeletedVolumeGone` except `hasty` ids: a CreateVolume v1 times out before
  its blockdev-add, the retry creates and exports v1, v1 is deleted, and between the delete's
  blockdev-del and its end the late handler adds the node again and stores v1, which has been reported
  deleted. `ReadyVolumeServed` and `ReadySnapshotHeld` need no such exception. There is no counterpart
  for snapshots: the driver enters a snapshot in its table only after the server has answered, so one
  whose answer came too late is reported deleted (controller.go:299) and stays, with its `VolumeRef`.
* `PublishedReachable` except `stacked` volumes: a repeated NodePublishVolume puts a second mount on
  the target; NodeUnpublishVolume removes one and RemoveAll then deletes `vhost.sock` through the other,
  for every pod of the volume. `hasty`: a publish the kubelet gave up on mounts after the unpublish.
* `UnpublishSettles` except for a bare directory: umount of one that is not a mount point fails with
  EINVAL (node.go:66), on every attempt.
* `DaemonFirst` except for a stale pid file, and `ServesAgain` except for stale files for ever: the wait
  is for the file (main.go:55), not for the daemon.
* `ListedAsRecorded` except for counts beyond 32 bits, which are written as int64 and parsed as 32 bits.

## Proofs

For every set of volumes, snapshots and workers and every number of faults (assumptions
`ConstantsAssumption` and `FiniteIDs` of QSDServer: ids are finitely many, `None` is not one, a node
name for each, and several workers only for disciplined callers):

* `TypeCorrect`: `Spec => []TypeOK`. The invariant is `TypeInv`, which adds `CallOK`: what a call
  holds at each of its steps (a layer while it deletes, no layer while it makes a root, the volume
  while it removes a directory). Without it `QSDID[call.layer]` has no type. One lemma per action.
* *One call at a time* (`OneCall`, with `DistinctQSDIDs`), whatever fails and whenever the server
  restarts: `ChainsWhole` (`BackingChain`), `ReferencedStayInGraph` (`ReferencedHasNode`). Neither
  is inductive: a `Store` adds a reference to an image looked up several commands earlier, a `DelNode` trusts a
  count read in another step. `SafeInv` joins them with `RefCountCovers` and with what the call in progress
  relies on (`CallsHold`: with one call at a time nobody else can invalidate what it looked up, so this
  says nothing of several handlers). The argument: a layer with `RefCount < 1` has no overlays
  (`RefCountCovers`), hence removing it leaves chains whole; its node is its own (`DistinctQSDIDs`),
  hence no referenced layer loses a node; a node name accepted by blockdev-add was free, hence the layer
  about to be recorded under that id is unreferenced (`ReferencedHasNode`), hence a leaf. `StoreEffect`
  and `ReleaseEffect` state what the two steps that change the shape do. Both hypotheses are needed:
  `server_race` refutes `ReferencedHasNode` for two workers, and two ids with one QSDID share a node.
* `ServerKeepsForest`: `Spec => ImplementsForest` under the same two hypotheses; only `Store` and
  `Release` map to steps other than `Lose` and stuttering.

The theorems of QSDServerConcurrent are for any number of handlers in progress, whatever fails and
whenever the server restarts. They rest on invariants built one on the other:

* `OwnInv`, *whose a layer is*: `ActiveLayersHaveVolume` (`ActiveHasVolume`) and `OnlyOwnersDelete`
  (`OwnerDeletes`). A delete acts on its layer several commands after it looked at its owner: the layer
  is the call's own, which no other call names (`NamesApart`), or has no owner, and then nobody can give
  it one, since its id is taken (`IdsTaken`). `Proceeds` says once what every step does to every call;
  `OwnedNext` that what a call relies on lasts if the maps keep it.
* `GraphInv`, *what holds a layer in place*: `BasesStay` (`StoreHasBase`) and `ExportsKeepVolume`
  (`ExportHasVolume`), with `DistinctQSDIDs`. Neither the count nor the look-up protects the base of an
  overlay that is not recorded yet; the daemon does, which refuses to delete a node something stands
  on. `Above(g, n, m)` says that n stands on m, over any number of nodes: m is in every set of nodes that has n
  and is closed under backing links. `AboveAdd`, `AboveSnapshot` and `AboveDel` show that no command of the
  daemon puts a node off what it stood on, `StaysWhole` that none leaves a dangling link. A layer that a handler works on and
  another has removed from the map has lost its node, so nothing can be put on it any more (`Known`).
* `FilesInv`: `FilesStay` (`FilesPresent`), with `DistinctQSDIDs`. A file goes only after the node, and
  the file of an id is no other id's (`BelongsApart`).
* `CountInv`, *what is counted*: `RefCountsExact` (`RefCountExact`) for disciplined callers with
  `DistinctQSDIDs`. A count is changed by `Store` and `Release` only, and both act on what was read
  before; it stays exact, also when deletes fail half-way, because only the handler whose blockdev-del
  took an image's node goes on to drop its entry (`OneRemoves`), and takes along the reference the entry
  came with (`Held`). `OverlaysCounted` (`RefCountCovers`) follows in every setting: from it for
  disciplined callers, from `SafeInv` for others, who make one call at a time.
* *What an image reads through*: `BasesHold` (`BasesHoldImages`), for disciplined callers with
  `DistinctQSDIDs`, on top of `OwnInv`, `GraphInv` and `CountInv`. It is what is left of the look-ups of a
  handler once others run between its commands: not that the layer found unreferenced stays so
  (`server_race`), but that acting on it takes no base from under an image. Where the node of the new overlay stands
  becomes that of its image at `Store` (`HoldStore`); no command of the daemon takes the base of a node
  that is there, and a `Release` drops only an entry whose node is gone (`HoldKept`).
* `DepthInv`: `LayersNeverCircular` (`LayersAcyclic`) in every setting. `BackingChain` fails under
  concurrency, but where a layer's base is in the map the layer's `Depth` is one more than the base's (`Deepens`);
  of any layers one of least depth is backed by none of the others (`ChainsEnd`).
* `MirrorInv`: `GraphMirrored` (`GraphMirrorsImages`) and `NodesMatched` (`NodesMatchImages`), for one
  call at a time and no failures, where a command is refused only when its condition does not hold. The work
  is in showing that the commands in the middle of an operation are not: `CanAppend`, blockdev-snapshot finds
  its overlay unused and without a backing, because its id is in no map and nothing stands on it or exports it;
  os.Remove finds its file; `Release` finds its base.

The controller service, over the server, for every number of requests and handlers:

* `DriverTypeCorrect` (`DriverTypeOK`).
* `ReadyVolumesServed` (`ReadyVolumeServed`) and `ReadySnapshotsHeld` (`ReadySnapshotHeld`), with
  `DistinctQSDIDs`, from `AliveInv`. No request says what a handler it no longer waits for will do; what
  protects a ready volume from late handlers is that a call of the server that deletes or unexposes an id
  exists only after the orchestrator asked for the deletion (`CallsTimely`), and a clean-up takes only
  layers that have lost their owner, which is so only of such ids. `CallHeld` and `TableHeld` follow
  what has been made for an id through the two calls of a CreateVolume.
* `ServedVolumesInTable` (`ServedVolumeInTable`), without further hypotheses, and `DeletedVolumesGone`
  (`DeletedVolumeGone`), with `DistinctQSDIDs`, from `TidyInv`: no two
  requests and no two handlers are about a volume at a time unless it is `hasty` (`OneAtATime`), so what
  one step of the delete has undone stays undone until it has ended (`Undone`), and the table's entry
  goes last.

* `ForestStaysForest`: `LayerForest!Spec => [](Grounded /\ Acyclic)`, for any set of layers, finite or
  not.

The client and the disks, over the server, one call at a time (`~Disciplined`) and with
`DistinctQSDIDs`, for any ids, terminals and writes. `ClientSteps` reduces what users do to steps of the
server, so that its invariants hold here too, and `DiskInv` adds that a node has the file of its own image
open: `os.Remove` never takes a file that a node has open.

* Whatever fails: `ClientTypeCorrect` (`ClientTypeOK`); `ActiveLayersThere` (`ActiveLayerThere`), because
  a snapshot that is an active layer keeps its owner, or its volume is `undercut` (`ActiveInv`);
  `TreeShowsEverything` (`TreeShowsAll`), because a layer's `Depth` is one more than its base's, so that
  `printTree` has the base in the tree when it comes to the layer (`ShownIs`), and none is deeper than there are
  layers (`NoDeeperThanMany`).
* Whatever fails, with one user (`OneUser`): `SealedNeverExported` (`SealedNotExported`). Nothing
  has been put on a volume that is still to be exported (`Pending`), by a `create` between its two
  calls or by a handler (`SealInv`). A second user's snapshot breaks that, see *Bounds*.
* No failing command, but interruptions and restarts: `NewVolumesBlank` (`NewVolumeBlank`), and the
  action property `GuestsAloneWrite` (`OnlyGuestsWriteUnlessOverwritten`). `Contents` follows a chain of any length,
  and there is no induction over data; the proof uses instead that of any set of nodes one is backed by none of the others
  (`NodesAcyclic`). Of the nodes whose contents differ before and after a step, that one would differ in its own
  file (`ReadsDown`), and the file of a node that stays is changed by a guest's write or emptied by a qemu-img that
  creates it again. qemu-img does that under an open node to nothing but the `disk.img` of a volume
  (`EmptiesOpen`), which is not locked; what came down to it then reads nothing.
* No failing command and one user: `GuestsReadBack` (`WritesReadBack`). On the way
  down from the node that a volume's export serves there are empty files until the one its guest wrote to last
  (`ReadThrough`, `BackInv`). What is put on top is empty, and a file takes writes of one guest only
  (`SoleWriter`). The file keeps what was written, or has been emptied by a create and not written to since
  (`Kept`, `OverwrittenEmpty`).
* In the same setting: `NothingLeftBehind` (`NoGarbageUnlessUndercut`), from `LeftInv`. As long as nothing is
  `undercut`, an image that could go is being deleted, or is the next a clean-up comes to
  (`GarbageInv`). The next step of that clean-up is granted: no two volumes have the same active layer
  (`ApartInv`), a volume's active layer stands on the volume's own image (`ChainInv`) and on the node its export serves, or
  a new layer that does is about to take over (`ServedInv`), so that an image nobody refers to has nothing on it and no export
  (`GarbageUnused`); its directory is there as long as its file is (`DirsInv`). And a delete leaves its own
  layer without owner only where it goes on to remove it or something stands on it.

The smaller components, for every value of their constants:

* `NodeTypeCorrect`, `PodsKeepTheirSocket` (`PublishedReachable`), `UnpublishedIsGone`
  (`UnpublishedClean`), from `NodeInv`: what the kubelet knows is followed into the handlers it has
  forgotten (`PublishTimely`, `UnpublishAsked`), and a handler about to empty a directory with a mount
  left has a disturbed volume (`EmptiesOwn`), which is the step that could take a socket from a pod.
* `ProcessTypeCorrect`, `ServerWaitsForDaemon` (`DaemonFirst`), from `WaitInv`: without a stale file
  nothing is polled or offered before the daemon has written its own.
* `MetadataTypeCorrect`, `RecordedIsListed` (`ListedAsRecorded`), `VolumesStayOnTheirNode`
  (`NodeStays`), `LabelsSurvive` (`LabelsOfOthersStay`), from `MetaInv`: what callers may believe is
  for the node of the object's label, what the object says is one of the things they may believe, and
  an update under way was checked against the label of the object it was made from, which has not
  changed if the version has not.

Model-checked only: liveness, which rests on fairness and on ENABLED, both outside the prover's reach
(`RequestsEnd`, `CallsReturn`, `UnpublishSettles`, `PluginServes`, `DeathNoticed`, `ServesAgain`). The
properties of the violated runs are false of the code, and so no theorem states them.

## Not modelled

* `generateQSDID`: node names are given by the constant `QSDID`. That it cuts ids to eight characters, so that
  long ids may collide and short ones panic, is a matter of characters; the theorems say where they
  need `DistinctQSDIDs`.
* The helpers of `commands.go` without a caller: NBD server, stream, commit, jobs, size parsing.
* The identity service and the capability answers, which are constants; flags and wiring in `cmd/*`
  other than `cmd/qsd` and the client; the generated gRPC code, which is transport.
* Sizes of volumes, the qcow2 header, more than one block of a disk.
* Races inside the Go maps themselves (unsynchronised writes may abort the process: a `Restart`).
* A metadata server composed with the rest: nothing in the repository calls it.

## Plan

*Driver*: what an orchestrator holds as an abstract specification (asked for, ready, being deleted,
gone) that Driver implements while nothing restarts.
