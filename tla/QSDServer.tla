----------------------------- MODULE QSDServer -----------------------------
(***************************************************************************)
(* The gRPC server of pkg/qsd/server.go: it maps volumes and snapshots to  *)
(* the qcow2 layers of a qemu-storage-daemon (module QSD) and to files     *)
(* under /var/run/qsd.                                                     *)
(*                                                                         *)
(* Every handler is a sequence of steps.  A step is one external command   *)
(* (QMP, qemu-img, a file-system call), which succeeds or is refused, or   *)
(* the in-memory code between two of them.  No lock orders the handlers:   *)
(* with several Workers their steps interleave.                            *)
(***************************************************************************)
EXTENDS Integers, FiniteSets, QSD

CONSTANTS Volumes,       \* volume ids a caller may use
          Snapshots,     \* snapshot ids a caller may use
          QSDID,         \* generateQSDID: id -> node name
          CloneSources,  \* ids a caller may clone a new volume from
          Workers,       \* handlers that can be in progress at a time
          Disciplined,   \* do callers keep to MayCall and MayCreate
          Failures,      \* do commands fail unprovoked
          MaxFaults      \* bound: restarts, and commands that fail unprovoked

ImageID == Volumes \cup Snapshots

ASSUME ConstantsAssumption ==
  /\ Volumes \cap Snapshots = {}
  /\ None \notin ImageID \cup NodeName
  /\ QSDID \in [ImageID -> NodeName]
  /\ CloneSources \subseteq ImageID
  /\ Disciplined \in BOOLEAN /\ Failures \in BOOLEAN
  /\ Disciplined \/ \A w, x \in Workers : w = x
  /\ MaxFaults \in Nat

ASSUME FiniteIDs == IsFiniteSet(ImageID)

VARIABLES images,        \* Server.images: id -> QCOWImage
          activeLayers,  \* Server.activeLayers: volume -> id of its top layer
          files,         \* image files, <<volume directory, name>>
          dirs,          \* volume directories under imagesDir
          sockets,       \* volume directories under socketDir
          call,          \* worker -> the handler it is running
          faults,        \* faults so far
          taken          \* ids created so far, where MayCreate needs them

memVars == <<images, activeLayers>>
fsVars  == <<files, dirs, sockets>>
vars    == <<graphVars, memVars, fsVars, call, faults, taken>>

-----------------------------------------------------------------------------
(* QCOWImage; its QSDID is QSDID[id].  A file is <<directory, name>>, with  *)
(* None for "disk.img" and the snapshot's QSDID for "snap-<QSDID>".        *)
DiskFile(v)    == <<v, None>>
SnapFile(v, s) == <<v, QSDID[s]>>
FileName == Volumes \X (NodeName \cup {None})

QCOWImage == [BackingImageID : ImageID \cup {None},
              File : FileName,
              RefCount : Int,
              VolumeRef : ImageID \cup {None},
              Depth : Nat]

(* What a handler reads later through a *QCOWImage it keeps: the fields    *)
(* that never change.  The model keeps them and the id; that is the same   *)
(* as the pointer unless the id is deleted and created anew while a call   *)
(* is in progress, which needs a second call and MayCreate excludes.       *)
Pointee == [BackingImageID : ImageID \cup {None}, File : FileName, Depth : Nat]
Deref(i) == [BackingImageID |-> images[i].BackingImageID,
             File |-> images[i].File,
             Depth |-> images[i].Depth]
Nil == [BackingImageID |-> None, File |-> None, Depth |-> 0]

(* A call: the handler, its argument, the volume it is told to clone or to *)
(* snapshot (from), the layer it works on and the QCOWImage it points to.  *)
Op == {"none", "CreateVolume", "ExposeVhostUser", "DeleteExporter",
       "CreateSnapshot", "DeleteVolume", "DeleteSnapshot"}
PC == {"idle", "createImage", "createBacked", "createOverlay",
       "addImage", "addBacked", "addOverlay", "append", "store",
       "export", "unexport", "rmSocketDir",
       "blockdevDel", "remove", "release", "rmdir",
       "succeeded", "failed", "panicked"}
Call == [op : Op, pc : PC, id : ImageID \cup {None}, from : ImageID \cup {None},
         layer : ImageID \cup {None}, ptr : Pointee \cup {Nil}]

NoCall == [op |-> "none", pc |-> "idle", id |-> None, from |-> None,
           layer |-> None, ptr |-> Nil]
NewCall(op, id, from) == [NoCall EXCEPT !.op = op, !.id = id, !.from = from]

At(c, pc, layer, ptr) == [c EXCEPT !.pc = pc, !.layer = layer, !.ptr = ptr]
Succeeded(c) == At(c, "succeeded", None, Nil)
Failed(c)    == At(c, "failed", None, Nil)

Goto(w, pc)     == call' = [call EXCEPT ![w].pc = pc]
Become(w, c)    == call' = [call EXCEPT ![w] = c]
Succeed(w)      == Become(w, Succeeded(call[w]))
Fail(w)         == Become(w, Failed(call[w]))
(* An external command is answered with an error: because its condition    *)
(* does not hold, or for a reason outside the model, which is a fault.     *)
Fault == faults < MaxFaults /\ faults' = faults + 1
Granted(can) == can /\ UNCHANGED faults
Refused(can) == IF can THEN Failures /\ Fault ELSE UNCHANGED faults

MemTypeOK ==
  /\ DOMAIN images \subseteq ImageID
  /\ \A i \in DOMAIN images : images[i] \in QCOWImage
  /\ DOMAIN activeLayers \subseteq Volumes
  /\ \A v \in DOMAIN activeLayers : activeLayers[v] \in ImageID
FsTypeOK ==
  /\ files \subseteq FileName
  /\ dirs \subseteq Volumes
  /\ sockets \subseteq Volumes
TypeOK ==
  /\ GraphTypeOK
  /\ MemTypeOK
  /\ FsTypeOK
  /\ call \in [Workers -> Call]
  /\ faults \in 0..MaxFaults
  /\ taken \subseteq ImageID

Init ==
  /\ GraphInit
  /\ images = Empty
  /\ activeLayers = Empty
  /\ files = {} /\ dirs = {} /\ sockets = {}
  /\ call = [w \in Workers |-> NoCall]
  /\ faults = 0 /\ taken = {}

Idle(w) == call[w].pc = "idle"

-----------------------------------------------------------------------------
(* CreateVolume and CreateSnapshot.                                        *)

CreateVolume(w, id, src) ==
  /\ Idle(w)
  /\ dirs' = dirs \cup {id}
  /\ LET c == NewCall("CreateVolume", id, src) IN
     Become(w, IF src = None THEN At(c, "createImage", None, Nil)
               ELSE IF src \in DOMAIN images THEN At(c, "createBacked", src, Deref(src))
               ELSE Failed(c))
  /\ UNCHANGED <<graphVars, memVars, files, sockets, faults, taken>>

(* A layer nobody is backed by gets the snapshot on top (append), any      *)
(* other gets a further overlay beside those it has.                       *)
TakesOnTop(layer) == images[layer].RefCount < 1

CreateSnapshot(w, id, vol) ==
  /\ Idle(w)
  /\ LET c == NewCall("CreateSnapshot", id, vol)
         layer == activeLayers[vol] IN
     Become(w, IF /\ vol \in DOMAIN activeLayers
                  /\ layer \in DOMAIN images
                  /\ vol \in dirs
               THEN At(c, IF TakesOnTop(layer) THEN "createOverlay" ELSE "createBacked",
                       layer, Deref(layer))
               ELSE Failed(c))
  /\ UNCHANGED <<graphVars, memVars, fsVars, faults, taken>>

FileOf(c) == IF c.op = "CreateVolume" THEN DiskFile(c.id) ELSE SnapFile(c.from, c.id)

(* qemu-img create: the directory and the backing file must be there, and  *)
(* an image cannot be its own backing file.                                *)
CanCreateFile(c) ==
  /\ FileOf(c)[1] \in dirs
  /\ c.layer # None => c.ptr.File \in files \ {FileOf(c)}
BadAfterQemuImg ==
  [createImage |-> "createImage", createBacked |-> "addBacked", createOverlay |-> "addOverlay"]
AfterQemuImg ==
  [createImage |-> "addImage", createBacked |-> "addBacked", createOverlay |-> "addOverlay"]
QemuImgCreate(w) ==
  LET c == call[w] IN
  /\ c.pc \in DOMAIN AfterQemuImg
  /\ \/ /\ Granted(CanCreateFile(c))
        /\ files' = files \cup {FileOf(c)}
        /\ Goto(w, AfterQemuImg[c.pc])
     \/ /\ Refused(CanCreateFile(c))
        /\ UNCHANGED files
        /\ Fail(w)
  /\ UNCHANGED <<graphVars, memVars, dirs, sockets, taken>>

BadAfterAdd == [addImage |-> "store", addBacked |-> "store", addOverlay |-> "store"]
AfterAdd == [addImage |-> "store", addBacked |-> "store", addOverlay |-> "append"]
(* blockdev-add opens the file it is told.                                 *)
CanAddNode(c, backing) == FileOf(c) \in files /\ CanBlockdevAdd(QSDID[c.id], backing)
AddNode(w) ==
  LET c == call[w]
      backing == IF c.pc = "addBacked" THEN QSDID[c.layer] ELSE None IN
  /\ c.pc \in DOMAIN AfterAdd
  /\ \/ /\ Granted(CanAddNode(c, backing))
        /\ BlockdevAdd(QSDID[c.id], backing)
        /\ Goto(w, AfterAdd[c.pc])
     \/ /\ Refused(CanAddNode(c, backing))
        /\ UNCHANGED graphVars
        /\ Fail(w)
  /\ UNCHANGED <<memVars, fsVars, taken>>

Append(w) ==
  LET c == call[w] IN
  /\ c.pc = "append"
  /\ \/ /\ Granted(CanBlockdevSnapshot(QSDID[c.layer], QSDID[c.id]))
        /\ BlockdevSnapshot(QSDID[c.layer], QSDID[c.id])
        /\ Goto(w, "store")
     \/ /\ Refused(CanBlockdevSnapshot(QSDID[c.layer], QSDID[c.id]))
        /\ UNCHANGED graphVars
        /\ Fail(w)
  /\ UNCHANGED <<memVars, fsVars, taken>>

BadWithRef(im, base) == im
WithRef(im, base)    == [im EXCEPT ![base].RefCount = @ + 1]

BadNewImage(c) == [BackingImageID |-> IF c.layer = None THEN None ELSE c.id,
                   File |-> FileOf(c),
                   RefCount |-> 0,
                   VolumeRef |-> c.id,
                   Depth |-> IF c.layer = None THEN 0 ELSE c.ptr.Depth + 1]
NewImage(c) == [BackingImageID |-> c.layer,
                File |-> FileOf(c),
                RefCount |-> 0,
                VolumeRef |-> c.id,
                Depth |-> IF c.layer = None THEN 0 ELSE c.ptr.Depth + 1]
BadTopOf(c) == c.id
TopOf(c)    == IF c.op = "CreateVolume" THEN c.id ELSE c.from

Store(w) ==
  LET c == call[w] IN
  /\ c.pc = "store"
  /\ images' = Put(IF c.layer = None THEN images ELSE WithRef(images, c.layer),
                   c.id, NewImage(c))
  /\ activeLayers' = Put(activeLayers, TopOf(c), c.id)
  /\ taken' = IF Disciplined THEN taken \cup {c.id} ELSE taken
  /\ Succeed(w)
  /\ UNCHANGED <<graphVars, fsVars, faults>>

-----------------------------------------------------------------------------
(* ExposeVhostUser and DeleteExporter: the export of a volume serves the   *)
(* node of its own image.                                                  *)

ExposeVhostUser(w, id) ==
  /\ Idle(w)
  /\ LET c == NewCall("ExposeVhostUser", id, None) IN
     IF id \in DOMAIN images
     THEN sockets' = sockets \cup {id} /\ Become(w, At(c, "export", id, Nil))
     ELSE UNCHANGED sockets /\ Become(w, Failed(c))
  /\ UNCHANGED <<graphVars, memVars, files, dirs, faults, taken>>

Export(w) ==
  LET n == QSDID[call[w].id] IN
  /\ call[w].pc = "export"
  /\ \/ Granted(CanBlockExportAdd(n, n)) /\ BlockExportAdd(n, n) /\ Succeed(w)
     \/ Refused(CanBlockExportAdd(n, n)) /\ UNCHANGED graphVars /\ Fail(w)
  /\ UNCHANGED <<memVars, fsVars, taken>>

DeleteExporter(w, id) ==
  /\ Idle(w)
  /\ LET c == NewCall("DeleteExporter", id, None) IN
     Become(w, IF id \in DOMAIN images THEN At(c, "unexport", id, Nil) ELSE Failed(c))
  /\ UNCHANGED <<graphVars, memVars, fsVars, faults, taken>>

(* The daemon unlinks the socket with the export.                          *)
Unexport(w) ==
  LET n == QSDID[call[w].id] IN
  /\ call[w].pc = "unexport"
  /\ \/ Granted(CanBlockExportDel(n)) /\ BlockExportDel(n) /\ Goto(w, "rmSocketDir")
     \/ Refused(CanBlockExportDel(n)) /\ UNCHANGED graphVars /\ Fail(w)
  /\ UNCHANGED <<memVars, fsVars, taken>>

RemoveSocketDir(w) ==
  LET id == call[w].id IN
  /\ call[w].pc = "rmSocketDir"
  /\ \/ Granted(id \in sockets) /\ sockets' = sockets \ {id} /\ Succeed(w)
     \/ Refused(id \in sockets) /\ UNCHANGED sockets /\ Fail(w)
  /\ UNCHANGED <<graphVars, memVars, files, dirs, taken>>

-----------------------------------------------------------------------------
(* DeleteVolume and DeleteSnapshot.                                        *)

(* deleteNodeWithZeroReference(b), up to the first command of deleteImage. *)
BadCollectable(im, b) == b \in DOMAIN im /\ im[b].RefCount <= 0
Collectable(im, b) ==
  /\ b \in DOMAIN im
  /\ im[b].RefCount <= 0
  /\ im[b].VolumeRef = None
BadCleanUp(c, im, b) ==
  IF Collectable(im, b) THEN At(c, "remove", b, Deref(b)) ELSE Succeeded(c)
CleanUp(c, im, b) ==
  IF Collectable(im, b) THEN At(c, "blockdevDel", b, Deref(b))
                        ELSE Succeeded(c)

(* RefCount < 1 and not the active layer of a volume that goes on.         *)
BadDeletableVolume(id) == activeLayers[id] = id
DeletableVolume(id) == images[activeLayers[id]].RefCount < 1 /\ activeLayers[id] = id
IsActiveLayer(id, vol) == vol \in DOMAIN activeLayers /\ activeLayers[vol] = id
DeletableSnapshot(id, vol) == images[id].RefCount < 1 /\ ~IsActiveLayer(id, vol)

BadForget(v) == activeLayers
Forget(v)    == Drop(activeLayers, v)
DropVolumeRef(im, id) == [im EXCEPT ![id].VolumeRef = None]

(* The call's layer is None where the code goes on with a nil *QCOWImage.  *)
DeleteVolume(w, id) ==
  LET c == NewCall("DeleteVolume", id, None) IN
  /\ Idle(w)
  /\ IF id \notin DOMAIN activeLayers \/ activeLayers[id] \notin DOMAIN images
     THEN Become(w, Failed(c)) /\ UNCHANGED memVars
     ELSE IF DeletableVolume(id)
     THEN Become(w, At(c, "blockdevDel", id, Deref(id))) /\ UNCHANGED memVars
     ELSE /\ activeLayers' = Forget(id)
          /\ IF id \in DOMAIN images
             THEN /\ images' = DropVolumeRef(images, id)
                  /\ Become(w, At(c, "rmdir", id, Deref(id)))
             ELSE /\ UNCHANGED images
                  /\ Become(w, At(c, "rmdir", None, Nil))
  /\ UNCHANGED <<graphVars, fsVars, faults, taken>>

DeleteSnapshot(w, id, vol) ==
  LET c == NewCall("DeleteSnapshot", id, vol) IN
  /\ Idle(w)
  /\ IF id \notin DOMAIN images
     THEN Become(w, Failed(c)) /\ UNCHANGED images
     ELSE IF DeletableSnapshot(id, vol)
     THEN Become(w, At(c, "blockdevDel", id, Deref(id))) /\ UNCHANGED images
     ELSE /\ images' = DropVolumeRef(images, id)
          /\ Become(w, CleanUp(c, images', images[id].BackingImageID))
  /\ UNCHANGED <<graphVars, activeLayers, fsVars, faults, taken>>

(* deleteImage(layer): blockdev-del, os.Remove, then the maps.             *)
BadDelNode(w) ==
  LET n == QSDID[call[w].layer] IN
  /\ call[w].pc = "blockdevDel"
  /\ \/ Granted(CanBlockdevDel(n)) /\ BlockdevDel(n) /\ Goto(w, "release")
     \/ Refused(CanBlockdevDel(n)) /\ UNCHANGED graphVars /\ Fail(w)
  /\ UNCHANGED <<memVars, fsVars, taken>>
DelNode(w) ==
  LET n == QSDID[call[w].layer] IN
  /\ call[w].pc = "blockdevDel"
  /\ \/ Granted(CanBlockdevDel(n)) /\ BlockdevDel(n) /\ Goto(w, "remove")
     \/ Refused(CanBlockdevDel(n)) /\ UNCHANGED graphVars /\ Fail(w)
  /\ UNCHANGED <<memVars, fsVars, taken>>

RemoveFile(w) ==
  LET f == call[w].ptr.File IN
  /\ call[w].pc = "remove"
  /\ \/ Granted(f \in files) /\ files' = files \ {f} /\ Goto(w, "release")
     \/ Refused(f \in files) /\ UNCHANGED files /\ Fail(w)
  /\ UNCHANGED <<graphVars, memVars, dirs, sockets, taken>>

(* The entry goes, and with it its reference to its backing image.         *)
BadWithoutImage(im, id, b) ==
  IF b = None THEN Drop(im, id) ELSE [im EXCEPT ![b].RefCount = @ - 1]
WithoutImage(im, id, b) ==
  Drop(IF b = None THEN im ELSE [im EXCEPT ![b].RefCount = @ - 1], id)

(* The volume itself is deleted: its active layer is forgotten and its     *)
(* directory is next.  Otherwise the walk goes on with the backing layer.  *)
DeletesItself(c) == c.op = "DeleteVolume" /\ c.layer = c.id
Release(w) ==
  LET c == call[w]
      b == c.ptr.BackingImageID IN
  /\ c.pc = "release"
  /\ IF b # None /\ b \notin DOMAIN images
     THEN Fail(w) /\ UNCHANGED memVars
     ELSE /\ images' = WithoutImage(images, c.layer, b)
          /\ IF DeletesItself(c)
             THEN activeLayers' = Forget(c.id) /\ Goto(w, "rmdir")
             ELSE UNCHANGED activeLayers /\ Become(w, CleanUp(c, images', b))
  /\ UNCHANGED <<graphVars, fsVars, faults, taken>>

(* deleteIfEmptyDir, then the backing layer is cleaned up.                 *)
IsEmptyDir(v) == \A f \in files : f[1] # v
RemoveDir(w) ==
  LET c == call[w] IN
  /\ c.pc = "rmdir"
  /\ \/ /\ Granted(c.id \in dirs)
        /\ dirs' = IF IsEmptyDir(c.id) THEN dirs \ {c.id} ELSE dirs
        /\ IF c.layer = None
           THEN call' = [x \in Workers |-> At(call[x], "panicked", None, Nil)]
           ELSE Become(w, CleanUp(c, images, c.ptr.BackingImageID))
     \/ Refused(c.id \in dirs) /\ UNCHANGED dirs /\ Fail(w)
  /\ UNCHANGED <<graphVars, memVars, files, sockets, taken>>

-----------------------------------------------------------------------------
(* The caller takes the answer.                                            *)
Reply(w) ==
  /\ call[w].pc \in {"succeeded", "failed"}
  /\ Become(w, NoCall)
  /\ UNCHANGED <<graphVars, memVars, fsVars, faults, taken>>

(* cmd/qsd/main.go: server and daemon are one process tree, they go        *)
(* together; a panic in a handler ends the server.  Only files remain.     *)
Panicked == \E w \in Workers : call[w].pc = "panicked"
Restart ==
  /\ IF Panicked THEN UNCHANGED faults ELSE Fault
  /\ GraphReset
  /\ images' = Empty
  /\ activeLayers' = Empty
  /\ call' = [w \in Workers |-> NoCall]
  /\ UNCHANGED <<fsVars, taken>>

(* The volume a snapshot was taken of, as the driver's table records it.   *)
SourceVolume(s) == images[s].File[1]

(* What a container orchestrator is asked to keep to, and the gRPC server  *)
(* does not enforce: no call names an id that a call in progress names,    *)
(* and the id of what was once created is not used for another.            *)
Named(c) == {c.id, c.from} \ {None}
MayCall(w, ids) ==
  Disciplined => \A x \in Workers \ {w} : Named(call[x]) \cap ids = {}
MayCreate(id) == Disciplined => id \notin taken

Begin(w) ==
  \/ \E v \in Volumes, src \in CloneSources \cup {None} :
        MayCall(w, {v, src}) /\ MayCreate(v) /\ CreateVolume(w, v, src)
  \/ \E s \in Snapshots, v \in Volumes :
        MayCall(w, {s, v}) /\ MayCreate(s) /\ CreateSnapshot(w, s, v)
  \/ \E v \in Volumes : MayCall(w, {v}) /\ ExposeVhostUser(w, v)
  \/ \E v \in Volumes : MayCall(w, {v}) /\ DeleteExporter(w, v)
  \/ \E v \in Volumes : MayCall(w, {v}) /\ DeleteVolume(w, v)
  \/ \E s \in Snapshots, v \in Volumes :
        /\ s \in DOMAIN images => v = SourceVolume(s)
        /\ MayCall(w, {s, v}) /\ DeleteSnapshot(w, s, v)

Continue(w) ==
  \/ QemuImgCreate(w) \/ AddNode(w) \/ Append(w) \/ Store(w)
  \/ Export(w) \/ Unexport(w) \/ RemoveSocketDir(w)
  \/ DelNode(w) \/ RemoveFile(w) \/ Release(w) \/ RemoveDir(w)
  \/ Reply(w)

Next == Restart \/ \E w \in Workers : Begin(w) \/ Continue(w)

Spec == Init /\ [][Next]_vars

-----------------------------------------------------------------------------
Overlays(i)   == {j \in DOMAIN images : images[j].BackingImageID = i}
NodeOf(b)     == IF b = None THEN None ELSE QSDID[b]
AllIdle       == \A w \in Workers : Idle(w)
ParentOf      == [i \in DOMAIN images |-> images[i].BackingImageID]

(* What the map of images promises, whatever fails: its backing ids form   *)
(* chains that end in a root, with Depth counting the layers below.        *)
(* deleteImage and CreateVolume look the backing image up and must find it.*)
BackingChain ==
  \A i \in DOMAIN images :
    LET b == images[i].BackingImageID IN
    IF b = None THEN images[i].Depth = 0
    ELSE b \in DOMAIN images /\ images[i].Depth = images[b].Depth + 1

(* Every overlay is counted.  A failed delete leaves its overlay counted,  *)
(* so the count may stay too high, never too low: a layer that DeleteVolume*)
(* or deleteNodeWithZeroReference takes for unused is unused.              *)
RefCountCovers ==
  \A i \in DOMAIN images : Cardinality(Overlays(i)) <= images[i].RefCount

(* "Don't delete node if there is still a node pointing to the image": a   *)
(* layer with references has its node in the daemon.                       *)
ReferencedHasNode ==
  \A i \in DOMAIN images : images[i].RefCount > 0 => QSDID[i] \in DOMAIN nodes

(* A volume with an active layer is itself known and still referenced by   *)
(* its owner: DeleteVolume dereferences c.images[image.ID] on that belief. *)
ActiveHasVolume ==
  \A v \in DOMAIN activeLayers : v \in DOMAIN images /\ images[v].VolumeRef = v

(* Without failures RefCount is the number of overlays, at every step.     *)
RefCountExact ==
  \A i \in DOMAIN images : images[i].RefCount = Cardinality(Overlays(i))

(* The daemon's graph has the backing links the server has recorded.       *)
GraphMirrorsImages ==
  \A i \in DOMAIN images :
    QSDID[i] \in DOMAIN nodes => nodes[QSDID[i]] = NodeOf(images[i].BackingImageID)

(* Between calls, and without failures, the daemon holds no node the       *)
(* server has lost track of, and the server no image without a node.       *)
NodesMatchImages ==
  AllIdle => DOMAIN nodes = {QSDID[i] : i \in DOMAIN images}

(* While the daemon has an image's node, its file is there to be opened.   *)
FilesPresent ==
  \A i \in DOMAIN images : QSDID[i] \in DOMAIN nodes => images[i].File \in files

(* An export can be found and removed by the id of its volume: the image   *)
(* whose export it is has not been forgotten.                              *)
ExportHasVolume ==
  \A e \in DOMAIN exports : \E v \in Volumes : v \in DOMAIN images /\ QSDID[v] = e

(* When a handler records a new overlay, the image it built it on has not  *)
(* been deleted by another handler since it was looked up.                 *)
StoreHasBase ==
  \A w \in Workers :
    call[w].pc = "store" /\ call[w].layer # None => call[w].layer \in DOMAIN images

(* What stands on what in the daemon's graph.  A set of nodes is closed    *)
(* when it has the backing node of each of its nodes; n stands on m when m *)
(* is in every closed set that has n.                                      *)
Closed(g, S)   == \A n \in S \cap DOMAIN g : g[n] = None \/ g[n] \in S
Above(g, n, m) == \A S \in SUBSET NodeName : n \in S /\ Closed(g, S) => m \in S

(* However stale the count was that a delete went by, or that a snapshot   *)
(* took for its place in the graph: an image with a node still stands on   *)
(* the one it was made from, which is in the map and has its node.  Other  *)
(* overlays may have come between the two.                                 *)
StandsOnBase(i, b) ==
  /\ b \in DOMAIN images /\ QSDID[b] \in DOMAIN nodes
  /\ Above(nodes, QSDID[i], QSDID[b])
BasesHoldImages ==
  \A i \in DOMAIN images :
    LET b == images[i].BackingImageID IN
    QSDID[i] \in DOMAIN nodes /\ b # None => StandsOnBase(i, b)

(* An image that a volume or snapshot still refers to goes only with the   *)
(* call that deletes that very volume or snapshot, or with a restart.      *)
OwnerDeletes ==
  [][\A i \in DOMAIN images \ DOMAIN images' :
       \/ images[i].VolumeRef = None
       \/ \E w \in Workers : call[w].id = i /\ call[w].op \in {"DeleteVolume", "DeleteSnapshot"}
       \/ Restart]_vars

(* Every call returns: the walk down the backing chain ends.               *)
CallsReturn == \A w \in Workers : ~Idle(w) ~> Idle(w)

(* The images are a forest that only grows at the leaves and only shrinks  *)
(* at the leaves.                                                          *)
Forest == INSTANCE LayerForest WITH Layer <- ImageID, parent <- ParentOf
ImplementsForest == Forest!Spec

(* Among any images one is backed by none of the others: the recursion of  *)
(* deleteNodeWithZeroReference along BackingImageID comes to an end.       *)
LayersAcyclic == Forest!Acyclic

-----------------------------------------------------------------------------
(* What comments of server.go say, and the code does not keep.             *)

(* server.go:271,277: a node with no reference left is cleaned.  Between   *)
(* calls every image is an overlay's base, a volume's or snapshot's own,   *)
(* or an active layer.                                                     *)
NoGarbage ==
  AllIdle => \A i \in DOMAIN images :
               \/ images[i].RefCount > 0
               \/ images[i].VolumeRef # None
               \/ \E v \in DOMAIN activeLayers : activeLayers[v] = i
=============================================================================
