-------------------------- MODULE QSDServerProofs --------------------------
(***************************************************************************)
(* Theorems about QSDServer, for every set of ids, workers and faults.     *)
(***************************************************************************)
EXTENDS QSDServer, WellFoundedInduction, FiniteSetTheorems, TLAPS

-----------------------------------------------------------------------------
(* Type correctness.  What a call holds depends on where it is.            *)

CreatePC  == {"createImage", "createBacked", "createOverlay",
              "addImage", "addBacked", "addOverlay", "append", "store"}
OverlayPC == {"createBacked", "createOverlay", "addBacked", "addOverlay", "append", "store"}
DeletePC  == {"blockdevDel", "remove", "release"}
LayerPC   == OverlayPC \ {"store"}

CallOK(c) ==
  /\ c.pc \in CreatePC =>
       \/ c.op = "CreateVolume" /\ c.id \in Volumes
       \/ c.op = "CreateSnapshot" /\ c.id \in Snapshots /\ c.from \in Volumes
  /\ c.pc \in LayerPC => c.layer \in ImageID
  /\ c.pc \in {"createImage", "addImage"} => c.layer = None
  /\ c.pc \in {"export", "unexport", "rmSocketDir", "rmdir"} => c.id \in Volumes
  /\ c.pc \in DeletePC => c.layer \in ImageID /\ (c.op = "DeleteVolume" => c.id \in Volumes)

CallTypeInv == call \in [Workers -> Call] /\ \A w \in Workers : CallOK(call[w])
TypeInv == TypeOK /\ CallTypeInv

(* The record operations a step is made of.                                *)
LEMMA AtFields ==
  ASSUME NEW c \in Call, NEW pc \in PC, NEW l \in ImageID \cup {None},
         NEW p \in Pointee \cup {Nil}
  PROVE  /\ At(c, pc, l, p) \in Call
         /\ At(c, pc, l, p).op = c.op
         /\ At(c, pc, l, p).id = c.id
         /\ At(c, pc, l, p).from = c.from
         /\ At(c, pc, l, p).pc = pc
         /\ At(c, pc, l, p).layer = l
         /\ At(c, pc, l, p).ptr = p
  BY DEF At, Call

(* Starting on an overlay of layer l.                                      *)
LEMMA OverlayCall ==
  ASSUME NEW c \in Call, NEW pc \in {"createBacked", "createOverlay"},
         NEW l \in ImageID, NEW p \in Pointee,
         \/ c.op = "CreateVolume" /\ c.id \in Volumes
         \/ c.op = "CreateSnapshot" /\ c.id \in Snapshots /\ c.from \in Volumes
  PROVE  At(c, pc, l, p) \in Call /\ CallOK(At(c, pc, l, p))
<1>1. pc \in PC /\ l \in ImageID \cup {None} /\ p \in Pointee \cup {Nil}
  BY DEF PC
<1>2. /\ At(c, pc, l, p) \in Call
      /\ At(c, pc, l, p).op = c.op
      /\ At(c, pc, l, p).id = c.id
      /\ At(c, pc, l, p).from = c.from
      /\ At(c, pc, l, p).pc = pc
      /\ At(c, pc, l, p).layer = l
  BY <1>1, AtFields
<1>. QED
  BY <1>2 DEF CallOK, CreatePC, LayerPC, OverlayPC, DeletePC

LEMMA NewCallFields ==
  ASSUME NEW op \in Op, NEW id \in ImageID, NEW from \in ImageID \cup {None}
  PROVE  /\ NewCall(op, id, from) \in Call
         /\ NewCall(op, id, from).op = op
         /\ NewCall(op, id, from).id = id
         /\ NewCall(op, id, from).from = from
  BY DEF NewCall, NoCall, Call, PC, Op

LEMMA DerefType ==
  ASSUME MemTypeOK, NEW i \in DOMAIN images
  PROVE  Deref(i) \in Pointee
  BY DEF MemTypeOK, Deref, Pointee, QCOWImage

(* A step that replaces w's record by a well-typed one.                    *)
LEMMA BecomeType ==
  ASSUME CallTypeInv, NEW w \in Workers, NEW c \in Call, CallOK(c), Become(w, c)
  PROVE  CallTypeInv'
  BY DEF CallTypeInv, Become

LEMMA DoneType ==
  ASSUME CallTypeInv, NEW w \in Workers, Succeed(w) \/ Fail(w)
  PROVE  CallTypeInv'
<1>1. call[w] \in Call
  BY DEF CallTypeInv
<1>2. /\ Succeeded(call[w]) \in Call /\ CallOK(Succeeded(call[w]))
      /\ Failed(call[w]) \in Call /\ CallOK(Failed(call[w]))
  BY <1>1, AtFields DEF Succeeded, Failed, PC, CallOK, CreatePC, LayerPC, OverlayPC, DeletePC
<1>. QED
  BY <1>2, BecomeType DEF Succeed, Fail

LEMMA GotoType ==
  ASSUME CallTypeInv, NEW w \in Workers, NEW pc \in PC, Goto(w, pc),
         CallOK([call[w] EXCEPT !.pc = pc])
  PROVE  CallTypeInv'
<1>1. [call[w] EXCEPT !.pc = pc] \in Call
  BY DEF CallTypeInv, Call
<1>2. Become(w, [call[w] EXCEPT !.pc = pc])
  BY DEF Goto, Become
<1>. QED
  BY <1>1, <1>2, BecomeType

USE DEF CreatePC, LayerPC, OverlayPC, DeletePC

LEMMA TypeCreateVolume ==
  ASSUME TypeInv, NEW w \in Workers, NEW id \in Volumes, NEW src \in CloneSources \cup {None},
         CreateVolume(w, id, src)
  PROVE  TypeInv'
<1>. DEFINE c == NewCall("CreateVolume", id, src)
            d == IF src = None THEN At(c, "createImage", None, Nil)
                 ELSE IF src \in DOMAIN images THEN At(c, "createBacked", src, Deref(src))
                 ELSE Failed(c)
<1>1. c \in Call /\ c.op = "CreateVolume" /\ c.id = id
  BY NewCallFields, ConstantsAssumption DEF Op, ImageID
<1>. HIDE DEF c
<1>2. d \in Call /\ CallOK(d)
  <2>1. CASE src = None
    <3>1. At(c, "createImage", None, Nil) \in Call /\ CallOK(At(c, "createImage", None, Nil))
      BY <1>1, AtFields, ConstantsAssumption DEF CallOK, PC
    <3>. QED  BY <2>1, <3>1
  <2>2. CASE src # None /\ src \in DOMAIN images
    <3>1. src \in ImageID /\ Deref(src) \in Pointee
      BY <2>2, DerefType DEF TypeInv, TypeOK, MemTypeOK
    <3>2. /\ At(c, "createBacked", src, Deref(src)) \in Call
          /\ CallOK(At(c, "createBacked", src, Deref(src)))
      BY <1>1, <3>1, OverlayCall
    <3>. QED  BY <2>2, <3>2
  <2>3. CASE src # None /\ src \notin DOMAIN images
    <3>1. Failed(c) \in Call /\ CallOK(Failed(c))
      BY <1>1, AtFields, ConstantsAssumption DEF CallOK, PC, Failed
    <3>. QED  BY <2>3, <3>1
  <2>. QED  BY <2>1, <2>2, <2>3
<1>3. Become(w, d)
  BY DEF CreateVolume, c
<1>4. CallTypeInv'
  BY <1>2, <1>3, BecomeType DEF TypeInv
<1>. QED
  BY <1>4 DEF CreateVolume, TypeInv, CallTypeInv, TypeOK, GraphTypeOK, graphVars, MemTypeOK, memVars, FsTypeOK

LEMMA TypeCreateSnapshot ==
  ASSUME TypeInv, NEW w \in Workers, NEW id \in Snapshots, NEW vol \in Volumes,
         CreateSnapshot(w, id, vol)
  PROVE  TypeInv'
<1>. DEFINE c == NewCall("CreateSnapshot", id, vol)
            layer == activeLayers[vol]
            d == IF vol \in DOMAIN activeLayers /\ layer \in DOMAIN images /\ vol \in dirs
                 THEN At(c, IF TakesOnTop(layer) THEN "createOverlay" ELSE "createBacked",
                         layer, Deref(layer))
                 ELSE Failed(c)
<1>1. c \in Call /\ c.op = "CreateSnapshot" /\ c.id = id /\ c.from = vol
  BY NewCallFields DEF Op, ImageID
<1>. HIDE DEF c
<1>2. d \in Call /\ CallOK(d)
  <2>1. CASE vol \in DOMAIN activeLayers /\ layer \in DOMAIN images /\ vol \in dirs
    <3>1. layer \in ImageID /\ Deref(layer) \in Pointee
      BY <2>1, DerefType DEF TypeInv, TypeOK, MemTypeOK
    <3>2. \A pc \in {"createOverlay", "createBacked"} :
            /\ At(c, pc, layer, Deref(layer)) \in Call
            /\ CallOK(At(c, pc, layer, Deref(layer)))
      BY <1>1, <3>1, OverlayCall
    <3>. QED  BY <2>1, <3>2
  <2>2. CASE ~(vol \in DOMAIN activeLayers /\ layer \in DOMAIN images /\ vol \in dirs)
    <3>1. Failed(c) \in Call /\ CallOK(Failed(c))
      BY <1>1, AtFields, ConstantsAssumption DEF CallOK, PC, Failed
    <3>. QED  BY <2>2, <3>1
  <2>. QED  BY <2>1, <2>2
<1>3. Become(w, d)
  BY DEF CreateSnapshot, c
<1>4. CallTypeInv'
  BY <1>2, <1>3, BecomeType DEF TypeInv
<1>. QED
  BY <1>4 DEF CreateSnapshot, TypeInv, CallTypeInv, TypeOK, GraphTypeOK, graphVars, MemTypeOK, memVars, fsVars, FsTypeOK

LEMMA FileOfType ==
  ASSUME NEW c \in Call, CallOK(c), c.pc \in CreatePC
  PROVE  FileOf(c) \in FileName /\ TopOf(c) \in Volumes /\ c.id \in ImageID
  BY ConstantsAssumption DEF CallOK, FileOf, TopOf, FileName, DiskFile, SnapFile, ImageID

LEMMA FaultsType ==
  ASSUME faults \in 0..MaxFaults, NEW can, Granted(can) \/ Refused(can)
  PROVE  faults' \in 0..MaxFaults
  BY ConstantsAssumption DEF Granted, Refused, Fault

LEMMA TypeQemuImgCreate ==
  ASSUME TypeInv, NEW w \in Workers, QemuImgCreate(w)
  PROVE  TypeInv'
<1>. DEFINE c == call[w]
<1>1. c \in Call /\ CallOK(c) /\ c.pc \in DOMAIN AfterQemuImg
  BY DEF TypeInv, CallTypeInv, QemuImgCreate
<1>2. FileOf(c) \in FileName
  BY <1>1, FileOfType DEF AfterQemuImg
<1>3. CallTypeInv'
  <2>1. CASE Goto(w, AfterQemuImg[c.pc])
    <3>1. AfterQemuImg[c.pc] \in PC /\ CallOK([c EXCEPT !.pc = AfterQemuImg[c.pc]])
      BY <1>1 DEF AfterQemuImg, PC, CallOK, Call
    <3>. QED  BY <2>1, <3>1, GotoType DEF TypeInv
  <2>2. CASE Fail(w)
    BY <2>2, DoneType DEF TypeInv
  <2>. QED  BY <2>1, <2>2 DEF QemuImgCreate
<1>4. faults' \in 0..MaxFaults
  BY FaultsType DEF QemuImgCreate, TypeInv, TypeOK
<1>. QED
  BY <1>2, <1>3, <1>4
  DEF QemuImgCreate, TypeInv, CallTypeInv, TypeOK, GraphTypeOK, graphVars, MemTypeOK, memVars, FsTypeOK

LEMMA TypeAddNode ==
  ASSUME TypeInv, NEW w \in Workers, AddNode(w)
  PROVE  TypeInv'
<1>. DEFINE c == call[w]
            b == IF c.pc = "addBacked" THEN QSDID[c.layer] ELSE None
<1>1. c \in Call /\ CallOK(c) /\ c.pc \in DOMAIN AfterAdd
  BY DEF TypeInv, CallTypeInv, AddNode
<1>2. QSDID[c.id] \in NodeName /\ b \in NodeName \cup {None}
  BY <1>1, FileOfType, ConstantsAssumption DEF AfterAdd, CallOK
<1>3. CallTypeInv'
  <2>1. CASE Goto(w, AfterAdd[c.pc])
    <3>1. AfterAdd[c.pc] \in PC /\ CallOK([c EXCEPT !.pc = AfterAdd[c.pc]])
      BY <1>1 DEF AfterAdd, PC, CallOK, Call
    <3>. QED  BY <2>1, <3>1, GotoType DEF TypeInv
  <2>2. CASE Fail(w)
    BY <2>2, DoneType DEF TypeInv
  <2>. QED  BY <2>1, <2>2 DEF AddNode
<1>4. faults' \in 0..MaxFaults
  BY FaultsType DEF AddNode, TypeInv, TypeOK
<1>5. GraphTypeOK'
  BY <1>2 DEF AddNode, BlockdevAdd, graphVars, Put, TypeInv, TypeOK, GraphTypeOK
<1>. QED
  BY <1>3, <1>4, <1>5
  DEF AddNode, TypeInv, CallTypeInv, TypeOK, MemTypeOK, memVars, FsTypeOK, fsVars

LEMMA TypeAppend ==
  ASSUME TypeInv, NEW w \in Workers, Append(w)
  PROVE  TypeInv'
<1>. DEFINE c == call[w]
<1>1. c \in Call /\ CallOK(c) /\ c.pc = "append"
  BY DEF TypeInv, CallTypeInv, Append
<1>2. QSDID[c.id] \in NodeName /\ QSDID[c.layer] \in NodeName
  BY <1>1, FileOfType, ConstantsAssumption DEF CallOK
<1>3. CallTypeInv'
  <2>1. CASE Goto(w, "store")
    <3>1. "store" \in PC /\ CallOK([c EXCEPT !.pc = "store"])
      BY <1>1 DEF PC, CallOK, Call
    <3>. QED  BY <2>1, <3>1, GotoType DEF TypeInv
  <2>2. CASE Fail(w)
    BY <2>2, DoneType DEF TypeInv
  <2>. QED  BY <2>1, <2>2 DEF Append
<1>4. faults' \in 0..MaxFaults
  BY FaultsType DEF Append, TypeInv, TypeOK
<1>5. GraphTypeOK'
  BY <1>2 DEF Append, BlockdevSnapshot, graphVars, TypeInv, TypeOK, GraphTypeOK
<1>. QED
  BY <1>3, <1>4, <1>5
  DEF Append, TypeInv, CallTypeInv, TypeOK, MemTypeOK, memVars, FsTypeOK, fsVars

LEMMA TypeStore ==
  ASSUME TypeInv, NEW w \in Workers, Store(w)
  PROVE  TypeInv'
<1>. DEFINE c == call[w]
            im == IF c.layer = None THEN images ELSE WithRef(images, c.layer)
<1>1. c \in Call /\ CallOK(c) /\ c.pc = "store"
  BY DEF TypeInv, CallTypeInv, Store
<1>2. NewImage(c) \in QCOWImage /\ TopOf(c) \in Volumes /\ c.id \in ImageID
  <2>1. c.ptr.Depth \in Nat
    BY <1>1 DEF Call, Pointee, Nil
  <2>2. FileOf(c) \in FileName
    BY <1>1, FileOfType
  <2>. QED  BY <1>1, <2>1, <2>2, FileOfType DEF NewImage, QCOWImage, Call
<1>3. DOMAIN im \subseteq ImageID /\ \A i \in DOMAIN im : im[i] \in QCOWImage
  BY DEF TypeInv, TypeOK, MemTypeOK, WithRef, QCOWImage
<1>4. MemTypeOK'
  BY <1>2, <1>3 DEF Store, Put, TypeInv, TypeOK, MemTypeOK
<1>5. CallTypeInv'
  BY DoneType DEF Store, TypeInv
<1>. QED
  BY <1>2, <1>4, <1>5
  DEF Store, TypeInv, CallTypeInv, TypeOK, GraphTypeOK, graphVars, FsTypeOK, fsVars

LEMMA TypeExposeVhostUser ==
  ASSUME TypeInv, NEW w \in Workers, NEW id \in Volumes,
         ExposeVhostUser(w, id) \/ DeleteExporter(w, id)
  PROVE  TypeInv'
<1>1. \A op \in {"ExposeVhostUser", "DeleteExporter"}, pc \in {"export", "unexport"} :
        LET c == NewCall(op, id, None) IN
        /\ At(c, pc, id, Nil) \in Call /\ CallOK(At(c, pc, id, Nil))
        /\ Failed(c) \in Call /\ CallOK(Failed(c))
  <2>. SUFFICES ASSUME NEW op \in {"ExposeVhostUser", "DeleteExporter"},
                       NEW pc \in {"export", "unexport"}, NEW c, c = NewCall(op, id, None)
                PROVE  /\ At(c, pc, id, Nil) \in Call /\ CallOK(At(c, pc, id, Nil))
                       /\ Failed(c) \in Call /\ CallOK(Failed(c))
    OBVIOUS
  <2>1. c \in Call /\ c.id = id
    BY NewCallFields DEF Op, ImageID
  <2>2. pc \in PC /\ "failed" \in PC /\ id \in ImageID
    BY DEF PC, ImageID
  <2>3. /\ At(c, pc, id, Nil) \in Call
        /\ At(c, pc, id, Nil).pc = pc /\ At(c, pc, id, Nil).id = id
        /\ Failed(c) \in Call /\ Failed(c).pc = "failed"
    BY <2>1, <2>2, AtFields DEF Failed
  <2>. QED  BY <2>3 DEF CallOK
<1>2. CallTypeInv'
  BY <1>1, BecomeType DEF ExposeVhostUser, DeleteExporter, TypeInv
<1>. QED
  BY <1>2 DEF ExposeVhostUser, DeleteExporter, TypeInv, CallTypeInv, TypeOK, GraphTypeOK,
              graphVars, MemTypeOK, memVars, FsTypeOK, fsVars

LEMMA TypeExport ==
  ASSUME TypeInv, NEW w \in Workers, Export(w) \/ Unexport(w)
  PROVE  TypeInv'
<1>1. call[w] \in Call /\ CallOK(call[w]) /\ call[w].pc \in {"export", "unexport"}
  BY DEF TypeInv, CallTypeInv, Export, Unexport
<1>2. QSDID[call[w].id] \in NodeName
  BY <1>1, ConstantsAssumption DEF CallOK, ImageID
<1>3. CallTypeInv'
  <2>1. CASE Goto(w, "rmSocketDir")
    <3>1. "rmSocketDir" \in PC /\ CallOK([call[w] EXCEPT !.pc = "rmSocketDir"])
      BY <1>1 DEF PC, CallOK, Call
    <3>. QED  BY <2>1, <3>1, GotoType DEF TypeInv
  <2>. QED  BY <2>1, DoneType DEF TypeInv, Export, Unexport
<1>4. faults' \in 0..MaxFaults
  BY FaultsType DEF Export, Unexport, TypeInv, TypeOK
<1>5. GraphTypeOK'
  BY <1>2 DEF Export, Unexport, BlockExportAdd, BlockExportDel, graphVars, Put, Drop,
              TypeInv, TypeOK, GraphTypeOK
<1>. QED
  BY <1>3, <1>4, <1>5
  DEF Export, Unexport, TypeInv, CallTypeInv, TypeOK, MemTypeOK, memVars, FsTypeOK, fsVars

LEMMA TypeRemoveSocketDir ==
  ASSUME TypeInv, NEW w \in Workers, RemoveSocketDir(w)
  PROVE  TypeInv'
<1>1. CallTypeInv'
  BY DoneType DEF RemoveSocketDir, TypeInv
<1>2. faults' \in 0..MaxFaults
  BY FaultsType DEF RemoveSocketDir, TypeInv, TypeOK
<1>. QED
  BY <1>1, <1>2
  DEF RemoveSocketDir, TypeInv, CallTypeInv, TypeOK, GraphTypeOK, graphVars, MemTypeOK, memVars, FsTypeOK

(* deleteNodeWithZeroReference either goes on to a known layer or is done. *)
LEMMA CleanUpType ==
  ASSUME MemTypeOK, NEW c \in Call, c.op = "DeleteVolume" => c.id \in Volumes,
         NEW im, DOMAIN im \subseteq DOMAIN images, NEW b
  PROVE  CleanUp(c, im, b) \in Call /\ CallOK(CleanUp(c, im, b))
<1>1. CASE Collectable(im, b)
  <2>1. b \in ImageID \cup {None} /\ Deref(b) \in Pointee \cup {Nil} /\ "blockdevDel" \in PC /\ b \in ImageID
    BY <1>1, DerefType DEF Collectable, MemTypeOK, PC
  <2>. DEFINE d == At(c, "blockdevDel", b, Deref(b))
  <2>2. /\ d \in Call /\ d.op = c.op /\ d.id = c.id
        /\ d.pc = "blockdevDel" /\ d.layer = b
    BY <2>1, AtFields
  <2>3. CallOK(d)
    BY <2>1, <2>2 DEF CallOK
  <2>. QED  BY <1>1, <2>2, <2>3 DEF CleanUp
<1>2. CASE ~Collectable(im, b)
  <2>1. Succeeded(c) \in Call /\ CallOK(Succeeded(c))
    BY AtFields DEF Succeeded, PC, CallOK
  <2>. QED  BY <1>2, <2>1 DEF CleanUp
<1>. QED  BY <1>1, <1>2

LEMMA DropRefType ==
  ASSUME MemTypeOK, NEW id \in DOMAIN images
  PROVE  /\ DOMAIN DropVolumeRef(images, id) = DOMAIN images
         /\ \A i \in DOMAIN images : DropVolumeRef(images, id)[i] \in QCOWImage
  BY DEF MemTypeOK, DropVolumeRef, QCOWImage

LEMMA TypeDeleteVolume ==
  ASSUME TypeInv, NEW w \in Workers, NEW id \in Volumes, DeleteVolume(w, id)
  PROVE  TypeInv'
<1>. DEFINE c == NewCall("DeleteVolume", id, None)
<1>1. c \in Call /\ c.op = "DeleteVolume" /\ c.id = id /\ id \in ImageID
  BY NewCallFields DEF Op, ImageID
<1>. HIDE DEF c
<1>3. /\ Failed(c) \in Call /\ CallOK(Failed(c))
      /\ At(c, "rmdir", None, Nil) \in Call /\ CallOK(At(c, "rmdir", None, Nil))
  BY <1>1, AtFields, ConstantsAssumption DEF Failed, PC, CallOK
<1>4. ASSUME id \in DOMAIN images, NEW pc \in {"blockdevDel", "rmdir"}
      PROVE  At(c, pc, id, Deref(id)) \in Call /\ CallOK(At(c, pc, id, Deref(id)))
  <2>1. pc \in PC /\ id \in ImageID \cup {None} /\ Deref(id) \in Pointee \cup {Nil}
    BY <1>1, <1>4, DerefType DEF PC, TypeInv, TypeOK
  <2>. DEFINE d == At(c, pc, id, Deref(id))
  <2>2. d \in Call /\ d.op = c.op /\ d.id = c.id /\ d.pc = pc /\ d.layer = id
    BY <1>1, <2>1, AtFields
  <2>. QED  BY <1>1, <2>2 DEF CallOK
<1>5. CallTypeInv'
  <2>1. CASE id \notin DOMAIN activeLayers \/ activeLayers[id] \notin DOMAIN images
    BY <2>1, <1>3, BecomeType DEF DeleteVolume, TypeInv, c
  <2>2. CASE /\ ~(id \notin DOMAIN activeLayers \/ activeLayers[id] \notin DOMAIN images)
             /\ DeletableVolume(id)
    <3>1. id \in DOMAIN images
      BY <2>2 DEF DeletableVolume
    <3>2. Become(w, At(c, "blockdevDel", id, Deref(id)))
      BY <2>2 DEF DeleteVolume, c
    <3>. QED  BY <1>4, <3>1, <3>2, BecomeType DEF TypeInv
  <2>3. CASE /\ ~(id \notin DOMAIN activeLayers \/ activeLayers[id] \notin DOMAIN images)
             /\ ~DeletableVolume(id)
             /\ id \in DOMAIN images
    <3>1. Become(w, At(c, "rmdir", id, Deref(id)))
      BY <2>3 DEF DeleteVolume, c
    <3>. QED  BY <1>4, <2>3, <3>1, BecomeType DEF TypeInv
  <2>4. CASE /\ ~(id \notin DOMAIN activeLayers \/ activeLayers[id] \notin DOMAIN images)
             /\ ~DeletableVolume(id)
             /\ id \notin DOMAIN images
    <3>1. Become(w, At(c, "rmdir", None, Nil))
      BY <2>4 DEF DeleteVolume, c
    <3>. QED  BY <1>3, <3>1, BecomeType DEF TypeInv
  <2>. QED  BY <2>1, <2>2, <2>3, <2>4
<1>6. MemTypeOK'
  BY DropRefType DEF DeleteVolume, TypeInv, TypeOK, MemTypeOK, memVars, Forget, Drop
<1>. QED
  BY <1>5, <1>6
  DEF DeleteVolume, TypeInv, CallTypeInv, TypeOK, GraphTypeOK, graphVars, FsTypeOK, fsVars

LEMMA TypeDeleteSnapshot ==
  ASSUME TypeInv, NEW w \in Workers, NEW id \in Snapshots, NEW vol \in Volumes,
         DeleteSnapshot(w, id, vol)
  PROVE  TypeInv'
<1>. DEFINE c == NewCall("DeleteSnapshot", id, vol)
<1>1. c \in Call /\ c.op = "DeleteSnapshot" /\ c.id = id /\ id \in ImageID
  BY NewCallFields DEF Op, ImageID
<1>. HIDE DEF c
<1>2. MemTypeOK'
  BY DropRefType DEF DeleteSnapshot, TypeInv, TypeOK, MemTypeOK, memVars
<1>3. CallTypeInv'
  <2>1. CASE id \notin DOMAIN images
    <3>1. Failed(c) \in Call /\ CallOK(Failed(c))
      BY <1>1, AtFields DEF Failed, PC, CallOK
    <3>. QED  BY <2>1, <3>1, BecomeType DEF DeleteSnapshot, TypeInv, c
  <2>2. CASE id \in DOMAIN images /\ DeletableSnapshot(id, vol)
    <3>. DEFINE d == At(c, "blockdevDel", id, Deref(id))
    <3>1. "blockdevDel" \in PC /\ id \in ImageID \cup {None} /\ Deref(id) \in Pointee \cup {Nil}
      BY <1>1, <2>2, DerefType DEF PC, TypeInv, TypeOK
    <3>2. d \in Call /\ d.op = c.op /\ d.pc = "blockdevDel" /\ d.layer = id
      BY <1>1, <3>1, AtFields
    <3>3. CallOK(d)
      BY <1>1, <3>2 DEF CallOK
    <3>4. Become(w, d)
      BY <2>2 DEF DeleteSnapshot, c
    <3>. QED  BY <3>2, <3>3, <3>4, BecomeType DEF TypeInv
  <2>3. CASE id \in DOMAIN images /\ ~DeletableSnapshot(id, vol)
    <3>. DEFINE b == images[id].BackingImageID
    <3>1. Become(w, CleanUp(c, images', b)) /\ images' = DropVolumeRef(images, id)
      BY <2>3 DEF DeleteSnapshot, c
    <3>2. DOMAIN images' \subseteq DOMAIN images
      BY <2>3, <3>1, DropRefType DEF TypeInv, TypeOK
    <3>. HIDE DEF b
    <3>3. CleanUp(c, images', b) \in Call /\ CallOK(CleanUp(c, images', b))
      BY <1>1, <3>2, CleanUpType DEF TypeInv, TypeOK
    <3>. QED  BY <3>1, <3>3, BecomeType DEF TypeInv
  <2>. QED  BY <2>1, <2>2, <2>3
<1>. QED
  BY <1>2, <1>3
  DEF DeleteSnapshot, TypeInv, CallTypeInv, TypeOK, GraphTypeOK, graphVars, FsTypeOK, fsVars

LEMMA TypeDelNode ==
  ASSUME TypeInv, NEW w \in Workers, DelNode(w) \/ RemoveFile(w)
  PROVE  TypeInv'
<1>1. call[w] \in Call /\ CallOK(call[w]) /\ call[w].pc \in {"blockdevDel", "remove"}
  BY DEF TypeInv, CallTypeInv, DelNode, RemoveFile
<1>2. CallTypeInv'
  <2>1. ASSUME NEW pc \in {"remove", "release"}, Goto(w, pc)
        PROVE  CallTypeInv'
    <3>1. pc \in PC /\ CallOK([call[w] EXCEPT !.pc = pc])
      BY <1>1 DEF PC, CallOK, Call
    <3>. QED  BY <2>1, <3>1, GotoType DEF TypeInv
  <2>. QED  BY <2>1, DoneType DEF TypeInv, DelNode, RemoveFile
<1>3. faults' \in 0..MaxFaults
  BY FaultsType DEF DelNode, RemoveFile, TypeInv, TypeOK
<1>4. GraphTypeOK'
  BY DEF DelNode, RemoveFile, BlockdevDel, graphVars, Drop, TypeInv, TypeOK, GraphTypeOK
<1>5. FsTypeOK'
  BY DEF DelNode, RemoveFile, fsVars, TypeInv, TypeOK, FsTypeOK
<1>. QED
  BY <1>2, <1>3, <1>4, <1>5
  DEF DelNode, RemoveFile, TypeInv, CallTypeInv, TypeOK, MemTypeOK, memVars

LEMMA TypeRelease ==
  ASSUME TypeInv, NEW w \in Workers, Release(w)
  PROVE  TypeInv'
<1>. DEFINE c == call[w]
            b == c.ptr.BackingImageID
<1>1. c \in Call /\ CallOK(c) /\ c.pc = "release"
  BY DEF TypeInv, CallTypeInv, Release
<1>2. /\ DOMAIN WithoutImage(images, c.layer, b) \subseteq DOMAIN images
      /\ \A i \in DOMAIN WithoutImage(images, c.layer, b) :
           WithoutImage(images, c.layer, b)[i] \in QCOWImage
  BY DEF WithoutImage, Drop, TypeInv, TypeOK, MemTypeOK, QCOWImage
<1>3. MemTypeOK'
  BY <1>2 DEF Release, Forget, Drop, memVars, TypeInv, TypeOK, MemTypeOK
<1>4. CallTypeInv'
  <2>1. CASE b # None /\ b \notin DOMAIN images
    BY <2>1, DoneType DEF Release, TypeInv
  <2>2. CASE ~(b # None /\ b \notin DOMAIN images) /\ DeletesItself(c)
    <3>1. Goto(w, "rmdir") /\ c.op = "DeleteVolume"
      BY <2>2 DEF Release, DeletesItself
    <3>2. "rmdir" \in PC /\ CallOK([c EXCEPT !.pc = "rmdir"])
      BY <1>1, <3>1 DEF PC, CallOK, Call
    <3>. QED  BY <3>1, <3>2, GotoType DEF TypeInv
  <2>3. CASE ~(b # None /\ b \notin DOMAIN images) /\ ~DeletesItself(c)
    <3>1. Become(w, CleanUp(c, images', b)) /\ images' = WithoutImage(images, c.layer, b)
      BY <2>3 DEF Release
    <3>2. c.op = "DeleteVolume" => c.id \in Volumes
      BY <1>1 DEF CallOK
    <3>3. CleanUp(c, images', b) \in Call /\ CallOK(CleanUp(c, images', b))
      BY <1>1, <1>2, <3>1, <3>2, CleanUpType DEF TypeInv, TypeOK
    <3>. QED  BY <3>1, <3>3, BecomeType DEF TypeInv
  <2>. QED  BY <2>1, <2>2, <2>3
<1>. QED
  BY <1>3, <1>4
  DEF Release, TypeInv, CallTypeInv, TypeOK, GraphTypeOK, graphVars, FsTypeOK, fsVars

LEMMA TypeRemoveDir ==
  ASSUME TypeInv, NEW w \in Workers, RemoveDir(w)
  PROVE  TypeInv'
<1>. DEFINE c == call[w]
<1>1. c \in Call /\ CallOK(c) /\ c.pc = "rmdir"
  BY DEF TypeInv, CallTypeInv, RemoveDir
<1>2. CallTypeInv'
  <2>1. CASE call' = [x \in Workers |-> At(call[x], "panicked", None, Nil)]
    <3>1. ASSUME NEW x \in Workers
          PROVE  call'[x] \in Call /\ CallOK(call'[x])
      <4>1. call[x] \in Call
        BY DEF TypeInv, CallTypeInv
      <4>2. "panicked" \in PC
        BY DEF PC
      <4>3. call'[x] \in Call /\ call'[x].pc = "panicked"
        BY <2>1, <4>1, <4>2, AtFields
      <4>. QED  BY <4>3 DEF CallOK
    <3>. QED  BY <2>1, <3>1 DEF CallTypeInv
  <2>2. CASE Become(w, CleanUp(c, images, c.ptr.BackingImageID))
    <3>1. c.op = "DeleteVolume" => c.id \in Volumes
      BY <1>1 DEF CallOK
    <3>2. /\ CleanUp(c, images, c.ptr.BackingImageID) \in Call
          /\ CallOK(CleanUp(c, images, c.ptr.BackingImageID))
      BY <1>1, <3>1, CleanUpType DEF TypeInv, TypeOK
    <3>. QED  BY <2>2, <3>2, BecomeType DEF TypeInv
  <2>3. CASE Fail(w)
    BY <2>3, DoneType DEF TypeInv
  <2>. QED  BY <2>1, <2>2, <2>3 DEF RemoveDir
<1>3. faults' \in 0..MaxFaults
  BY FaultsType DEF RemoveDir, TypeInv, TypeOK
<1>. QED
  BY <1>2, <1>3
  DEF RemoveDir, TypeInv, CallTypeInv, TypeOK, GraphTypeOK, graphVars, MemTypeOK, memVars, FsTypeOK

LEMMA NoCallType == NoCall \in Call /\ CallOK(NoCall)
  BY DEF NoCall, Call, Op, PC, CallOK

LEMMA TypeReply ==
  ASSUME TypeInv, NEW w \in Workers, Reply(w)
  PROVE  TypeInv'
<1>1. CallTypeInv'
  BY NoCallType, BecomeType DEF Reply, TypeInv
<1>. QED
  BY <1>1
  DEF Reply, TypeInv, CallTypeInv, TypeOK, GraphTypeOK, graphVars, MemTypeOK, memVars, FsTypeOK, fsVars

LEMMA TypeRestart ==
  ASSUME TypeInv, Restart
  PROVE  TypeInv'
<1>1. faults' \in 0..MaxFaults
  BY ConstantsAssumption DEF Restart, Fault, TypeInv, TypeOK
<1>. QED
  BY <1>1, NoCallType
  DEF Restart, GraphReset, Empty, TypeInv, CallTypeInv, TypeOK, GraphTypeOK, MemTypeOK, FsTypeOK, fsVars

LEMMA TypeInit == Init => TypeInv
  BY ConstantsAssumption, NoCallType
  DEF Init, GraphInit, Empty, TypeInv, TypeOK, GraphTypeOK, MemTypeOK, FsTypeOK, CallTypeInv

LEMMA TypeInductive == TypeInv /\ [Next]_vars => TypeInv'
<1>. SUFFICES ASSUME TypeInv, [Next]_vars
              PROVE  TypeInv'
  OBVIOUS
<1>1. CASE Restart
  BY <1>1, TypeRestart
<1>2. ASSUME NEW w \in Workers, Begin(w)
      PROVE  TypeInv'
  BY <1>2, TypeCreateVolume, TypeCreateSnapshot, TypeExposeVhostUser, TypeDeleteVolume,
     TypeDeleteSnapshot DEF Begin
<1>3. ASSUME NEW w \in Workers, Continue(w)
      PROVE  TypeInv'
  BY <1>3, TypeQemuImgCreate, TypeAddNode, TypeAppend, TypeStore, TypeExport,
     TypeRemoveSocketDir, TypeDelNode, TypeRelease, TypeRemoveDir, TypeReply DEF Continue
<1>4. CASE UNCHANGED vars
  BY <1>4 DEF vars, graphVars, memVars, fsVars, TypeInv, CallTypeInv, TypeOK, GraphTypeOK,
             MemTypeOK, FsTypeOK
<1>. QED  BY <1>1, <1>2, <1>3, <1>4 DEF Next

(* In every reachable state every variable has its type: in particular a   *)
(* handler never goes on with a layer, a file or a node that is none.      *)
THEOREM TypeCorrect == Spec => []TypeOK
<1>1. TypeInv => TypeOK
  BY DEF TypeInv
<1>. QED  BY <1>1, TypeInit, TypeInductive, PTL DEF Spec

-----------------------------------------------------------------------------
(* What a step of a handler does to the calls.                             *)

Deleting == {"DeleteVolume", "DeleteSnapshot"}
RemovePC == DeletePC \cup {"rmdir"}

USE DEF RemovePC

SameNames(c, d) == c.op = d.op /\ c.id = d.id /\ c.from = d.from

LEMMA AtKeeps ==
  ASSUME NEW c \in Call, NEW pc, NEW l, NEW p
  PROVE  /\ SameNames(At(c, pc, l, p), c)
         /\ At(c, pc, l, p).pc = pc
         /\ At(c, pc, l, p).layer = l
         /\ At(c, pc, l, p).ptr = p
  BY DEF At, Call, SameNames

(* From c, a call that goes on to d stays among its own steps, and turns   *)
(* to another layer only when that one can be collected.                   *)
Proceeds(c, d, im) ==
  /\ SameNames(d, c) \/ d = NoCall
  /\ d.pc \in CreatePC => c.pc \in CreatePC
  /\ d.pc \in RemovePC => c.pc \in RemovePC
  /\ d.pc \in DeletePC => \/ c.pc \in DeletePC /\ d.layer = c.layer /\ d.ptr = c.ptr
                          \/ Collectable(im, d.layer) /\ d.ptr = Deref(d.layer)

LEMMA GotoProceeds ==
  ASSUME NEW c \in Call, NEW pc, NEW im,
         pc \in CreatePC => c.pc \in CreatePC,
         pc \in RemovePC => c.pc \in RemovePC,
         pc \in DeletePC => c.pc \in DeletePC
  PROVE  Proceeds(c, [c EXCEPT !.pc = pc], im)
  BY DEF Proceeds, SameNames, Call

LEMMA DoneProceeds ==
  ASSUME NEW c \in Call, NEW im
  PROVE  Proceeds(c, Succeeded(c), im) /\ Proceeds(c, Failed(c), im)
<1>1. SameNames(Succeeded(c), c) /\ Succeeded(c).pc = "succeeded"
  BY AtKeeps DEF Succeeded
<1>2. SameNames(Failed(c), c) /\ Failed(c).pc = "failed"
  BY AtKeeps DEF Failed
<1>. QED  BY <1>1, <1>2 DEF Proceeds

LEMMA CleanUpProceeds ==
  ASSUME NEW c \in Call, c.pc \in RemovePC, NEW im, NEW b
  PROVE  Proceeds(c, CleanUp(c, im, b), im)
<1>1. CASE Collectable(im, b)
  <2>. DEFINE d == At(c, "blockdevDel", b, Deref(b))
  <2>1. SameNames(d, c) /\ d.pc = "blockdevDel" /\ d.layer = b /\ d.ptr = Deref(b)
    BY AtKeeps
  <2>. HIDE DEF d
  <2>2. Proceeds(c, d, im)
    BY <1>1, <2>1 DEF Proceeds
  <2>. QED  BY <1>1, <2>2 DEF CleanUp, d
<1>2. CASE ~Collectable(im, b)
  BY <1>2, DoneProceeds DEF CleanUp
<1>. QED  BY <1>1, <1>2

LEMMA NoCallProceeds ==
  ASSUME NEW c, NEW im
  PROVE  Proceeds(c, NoCall, im)
<1>1. NoCall.pc = "idle"
  BY DEF NoCall
<1>. QED  BY <1>1 DEF Proceeds

(* Nobody but w moves, unless the server goes down.                        *)
LEMMA ContinueProceeds ==
  ASSUME TypeInv, NEW w \in Workers, Continue(w)
  PROVE  \A x \in Workers : Proceeds(call[x], call'[x], images')
<1>0. call \in [Workers -> Call]
  BY DEF TypeInv, TypeOK
<1>2. \A x \in Workers : call'[x] = call[x] => Proceeds(call[x], call'[x], images')
  BY DEF Proceeds, SameNames
<1>3. SUFFICES \/ Proceeds(call[w], call'[w], images') /\ (\E d : Become(w, d))
               \/ \A x \in Workers : call'[x] = At(call[x], "panicked", None, Nil)
  <2>1. CASE \E d : Become(w, d)
    BY <1>0, <1>2, <1>3, <2>1, DoneProceeds, AtKeeps DEF Become, Proceeds
  <2>2. CASE \A x \in Workers : call'[x] = At(call[x], "panicked", None, Nil)
    BY <1>0, <2>2, AtKeeps DEF Proceeds
  <2>. QED  BY <1>3, <2>1, <2>2
<1>4. ASSUME NEW pc, Goto(w, pc),
             pc \in CreatePC => call[w].pc \in CreatePC,
             pc \in RemovePC => call[w].pc \in RemovePC,
             pc \in DeletePC => call[w].pc \in DeletePC
      PROVE  Proceeds(call[w], call'[w], images') /\ (\E d : Become(w, d))
  <2>1. Become(w, [call[w] EXCEPT !.pc = pc])
    BY <1>4 DEF Goto, Become
  <2>2. call'[w] = [call[w] EXCEPT !.pc = pc]
    BY <1>0, <2>1 DEF Become
  <2>. QED  BY <1>0, <1>4, <2>1, <2>2, GotoProceeds
<1>5. ASSUME NEW d, Become(w, d), Proceeds(call[w], d, images')
      PROVE  Proceeds(call[w], call'[w], images') /\ (\E e : Become(w, e))
  BY <1>0, <1>5 DEF Become
<1>6. ASSUME Succeed(w) \/ Fail(w)
      PROVE  Proceeds(call[w], call'[w], images') /\ (\E e : Become(w, e))
  BY <1>0, <1>5, <1>6, DoneProceeds DEF Succeed, Fail
<1>7. CASE QemuImgCreate(w)
  <2>1. call[w].pc \in CreatePC /\ AfterQemuImg[call[w].pc] \notin RemovePC
    BY <1>7 DEF QemuImgCreate, AfterQemuImg
  <2>. QED  BY <1>4, <1>6, <1>7, <2>1 DEF QemuImgCreate
<1>8. CASE AddNode(w)
  <2>1. call[w].pc \in CreatePC /\ AfterAdd[call[w].pc] \notin RemovePC
    BY <1>8 DEF AddNode, AfterAdd
  <2>. QED  BY <1>4, <1>6, <1>8, <2>1 DEF AddNode
<1>9. CASE Append(w) \/ Store(w)
  BY <1>4, <1>6, <1>9 DEF Append, Store
<1>10. CASE Export(w) \/ Unexport(w) \/ RemoveSocketDir(w)
  BY <1>4, <1>6, <1>10 DEF Export, Unexport, RemoveSocketDir
<1>11. CASE DelNode(w) \/ RemoveFile(w)
  BY <1>4, <1>6, <1>11 DEF DelNode, RemoveFile
<1>12. CASE Release(w)
  <2>1. call[w].pc = "release"
    BY <1>12 DEF Release
  <2>2. CASE Fail(w)
    BY <1>6, <2>2
  <2>3. CASE Goto(w, "rmdir")
    BY <1>4, <2>1, <2>3
  <2>4. CASE Become(w, CleanUp(call[w], images', call[w].ptr.BackingImageID))
    BY <1>0, <1>5, <2>1, <2>4, CleanUpProceeds
  <2>. QED  BY <1>12, <2>2, <2>3, <2>4 DEF Release
<1>13. CASE RemoveDir(w)
  <2>1. call[w].pc = "rmdir" /\ images' = images
    BY <1>13 DEF RemoveDir, memVars
  <2>2. CASE Fail(w)
    BY <1>6, <2>2
  <2>3. CASE call' = [x \in Workers |-> At(call[x], "panicked", None, Nil)]
    BY <2>3
  <2>4. CASE Become(w, CleanUp(call[w], images, call[w].ptr.BackingImageID))
    BY <1>0, <1>5, <2>1, <2>4, CleanUpProceeds
  <2>. QED  BY <1>13, <2>2, <2>3, <2>4 DEF RemoveDir
<1>14. CASE Reply(w)
  BY <1>5, <1>14, NoCallProceeds DEF Reply
<1>. QED
  BY <1>7, <1>8, <1>9, <1>10, <1>11, <1>12, <1>13, <1>14 DEF Continue

(* The order of a handler's steps, when the one it takes succeeds.         *)
Follows == [createImage   |-> {"addImage"},
            createBacked  |-> {"addBacked"},
            createOverlay |-> {"addOverlay"},
            addImage      |-> {"store"},
            addBacked     |-> {"store"},
            addOverlay    |-> {"append"},
            append        |-> {"store"},
            store         |-> {"succeeded"},
            export        |-> {"succeeded"},
            unexport      |-> {"rmSocketDir"},
            rmSocketDir   |-> {"succeeded"},
            blockdevDel   |-> {"remove"},
            remove        |-> {"release"},
            release       |-> {"rmdir", "blockdevDel", "succeeded"},
            rmdir         |-> {"blockdevDel", "succeeded"}]

Moves(c, d) ==
  \/ d = c
  \/ SameNames(d, c) /\ d.pc \in {"failed", "panicked"}
  \/ SameNames(d, c) /\ c.pc \in DOMAIN Follows /\ d.pc \in Follows[c.pc]

LEMMA ContinueMoves ==
  ASSUME TypeInv, NEW w \in Workers, Continue(w)
  PROVE  /\ \A x \in Workers \ {w} : call'[x] = call[x] \/ call'[x].pc = "panicked"
         /\ \A x \in Workers : Moves(call[x], call'[x]) \/ (x = w /\ Reply(w))
<1>. DEFINE Alone == /\ \A x \in Workers \ {w} : call'[x] = call[x]
                     /\ Moves(call[w], call'[w]) /\ call'[w] # NoCall
            Down == \A x \in Workers : call'[x].pc = "panicked" /\ SameNames(call'[x], call[x])
<1>0. call \in [Workers -> Call]
  BY DEF TypeInv, TypeOK
<1>1. ASSUME NEW d, Become(w, d), Moves(call[w], d), d.pc # "idle"
      PROVE  Alone
  BY <1>0, <1>1 DEF Become, NoCall
<1>. HIDE DEF Alone
<1>2. ASSUME NEW pc, Goto(w, pc), call[w].pc \in DOMAIN Follows, pc \in Follows[call[w].pc]
      PROVE  Alone
  <2>. DEFINE d == [call[w] EXCEPT !.pc = pc]
  <2>1. Become(w, d)
    BY <1>2 DEF Goto, Become
  <2>2. SameNames(d, call[w]) /\ d.pc = pc
    BY <1>0 DEF SameNames, Call
  <2>3. d.pc # "idle"
    BY <1>2, <2>2 DEF Follows
  <2>. HIDE DEF d
  <2>. QED  BY <1>1, <1>2, <2>1, <2>2, <2>3 DEF Moves
<1>3. ASSUME NEW pc, NEW l, NEW p, Become(w, At(call[w], pc, l, p)),
             pc = "failed" \/ (call[w].pc \in DOMAIN Follows /\ pc \in Follows[call[w].pc])
      PROVE  Alone
  <2>. DEFINE d == At(call[w], pc, l, p)
  <2>1. SameNames(d, call[w]) /\ d.pc = pc
    BY <1>0, AtKeeps
  <2>2. d.pc # "idle"
    BY <1>3, <2>1 DEF Follows
  <2>. HIDE DEF d
  <2>. QED  BY <1>1, <1>3, <2>1, <2>2 DEF Moves, d
<1>4. ASSUME Fail(w)
      PROVE  Alone
  BY <1>3, <1>4 DEF Fail, Failed
<1>5. ASSUME Succeed(w), call[w].pc \in {"store", "export", "rmSocketDir"}
      PROVE  Alone
  BY <1>3, <1>5 DEF Succeed, Succeeded, Follows
<1>6. ASSUME NEW im, NEW b, Become(w, CleanUp(call[w], im, b)), call[w].pc \in {"release", "rmdir"}
      PROVE  Alone
  BY <1>3, <1>6 DEF CleanUp, Succeeded, Follows
<1>7. ASSUME QemuImgCreate(w)
      PROVE  Alone
  <2>1. call[w].pc \in DOMAIN Follows /\ AfterQemuImg[call[w].pc] \in Follows[call[w].pc]
    BY <1>7 DEF QemuImgCreate, AfterQemuImg, Follows
  <2>. QED  BY <1>2, <1>4, <1>7, <2>1 DEF QemuImgCreate
<1>8. ASSUME AddNode(w)
      PROVE  Alone
  <2>1. call[w].pc \in DOMAIN Follows /\ AfterAdd[call[w].pc] \in Follows[call[w].pc]
    BY <1>8 DEF AddNode, AfterAdd, Follows
  <2>. QED  BY <1>2, <1>4, <1>8, <2>1 DEF AddNode
<1>9. ASSUME Append(w) \/ Unexport(w) \/ DelNode(w) \/ RemoveFile(w)
      PROVE  Alone
  <2>1. \A pc : \/ call[w].pc = "append" /\ pc = "store"
                \/ call[w].pc = "unexport" /\ pc = "rmSocketDir"
                \/ call[w].pc = "blockdevDel" /\ pc = "remove"
                \/ call[w].pc = "remove" /\ pc = "release"
                => call[w].pc \in DOMAIN Follows /\ pc \in Follows[call[w].pc]
    BY DEF Follows
  <2>. QED  BY <1>2, <1>4, <1>9, <2>1 DEF Append, Unexport, DelNode, RemoveFile
<1>10. ASSUME Store(w) \/ Export(w) \/ RemoveSocketDir(w)
      PROVE  Alone
  BY <1>4, <1>5, <1>10 DEF Store, Export, RemoveSocketDir
<1>11. ASSUME Release(w)
      PROVE  Alone
  <2>1. "rmdir" \in Follows["release"] /\ "release" \in DOMAIN Follows
    BY DEF Follows
  <2>. QED  BY <1>2, <1>4, <1>6, <1>11, <2>1 DEF Release
<1>12. ASSUME RemoveDir(w)
       PROVE  Alone \/ Down
  <2>1. CASE call' = [x \in Workers |-> At(call[x], "panicked", None, Nil)]
    <3>1. Down
      BY <1>0, <2>1, AtKeeps
    <3>. QED  BY <3>1
  <2>2. CASE Become(w, CleanUp(call[w], images, call[w].ptr.BackingImageID))
    BY <1>6, <1>12, <2>2 DEF RemoveDir
  <2>. QED  BY <1>4, <1>12, <2>1, <2>2 DEF RemoveDir
<1>. HIDE DEF Down
<1>13. Alone \/ Down \/ Reply(w)
  BY <1>7, <1>8, <1>9, <1>10, <1>11, <1>12 DEF Continue
<1>14. \A x \in Workers : call'[x] = call[x] => Moves(call[x], call'[x])
  BY DEF Moves
<1>15. CASE Alone
  <2>1. \A x \in Workers \ {w} : call'[x] = call[x]
    BY <1>15 DEF Alone
  <2>2. ASSUME NEW x \in Workers
        PROVE  Moves(call[x], call'[x])
    <3>1. CASE x = w
      BY <1>15, <3>1 DEF Alone
    <3>2. CASE x # w
      BY <1>14, <2>1, <3>2
    <3>. QED  BY <3>1, <3>2
  <2>. QED  BY <2>1, <2>2
<1>16. CASE Down
  <2>1. NoCall.pc # "panicked"
    BY DEF NoCall
  <2>. QED  BY <1>16, <2>1 DEF Down, Moves
<1>17. CASE Reply(w)
  BY <1>0, <1>14, <1>17 DEF Reply, Become
<1>. QED  BY <1>13, <1>15, <1>16, <1>17

-----------------------------------------------------------------------------
(* What a step of a handler does to the graph, the files and the maps.     *)

(* Any first step of a handler, whoever calls.                             *)
Starts(w) ==
  \/ \E v \in Volumes, src \in CloneSources \cup {None} : CreateVolume(w, v, src)
  \/ \E s \in Snapshots, v \in Volumes : CreateSnapshot(w, s, v) \/ DeleteSnapshot(w, s, v)
  \/ \E v \in Volumes : ExposeVhostUser(w, v) \/ DeleteExporter(w, v) \/ DeleteVolume(w, v)

LEMMA BeginStarts ==
  ASSUME NEW w \in Workers, Begin(w)
  PROVE  Starts(w)
  BY DEF Begin, Starts

LEMMA TypeStarts ==
  ASSUME TypeInv, NEW w \in Workers, Starts(w)
  PROVE  TypeInv'
  BY TypeCreateVolume, TypeCreateSnapshot, TypeExposeVhostUser, TypeDeleteVolume,
     TypeDeleteSnapshot DEF Starts

LEMMA TypeContinue ==
  ASSUME TypeInv, NEW w \in Workers, Continue(w)
  PROVE  TypeInv'
  BY TypeQemuImgCreate, TypeAddNode, TypeAppend, TypeStore, TypeExport,
     TypeRemoveSocketDir, TypeDelNode, TypeRelease, TypeRemoveDir, TypeReply DEF Continue

(* A node, an export, a file and a socket directory go, or come, with the  *)
(* one step of the code that removes or adds them.                         *)
LEMMA NodeChange ==
  ASSUME NEW w \in Workers, Continue(w)
  PROVE  /\ \A n \in DOMAIN nodes \ DOMAIN nodes' :
              call[w].pc = "blockdevDel" /\ n = QSDID[call[w].layer]
         /\ \A n \in DOMAIN nodes' \ DOMAIN nodes :
              call[w].pc \in DOMAIN AfterAdd /\ n = QSDID[call[w].id]
<1>1. CASE AddNode(w)
  BY <1>1 DEF AddNode, BlockdevAdd, Put, graphVars
<1>2. CASE Append(w)
  BY <1>2 DEF Append, BlockdevSnapshot, graphVars
<1>3. CASE DelNode(w)
  BY <1>3 DEF DelNode, BlockdevDel, Drop, graphVars
<1>4. CASE UNCHANGED nodes
  BY <1>4
<1>. QED
  BY <1>1, <1>2, <1>3, <1>4
  DEF Continue, QemuImgCreate, Store, Export, Unexport, RemoveSocketDir, RemoveFile, Release,
      RemoveDir, Reply, graphVars, BlockExportAdd, BlockExportDel

LEMMA ExportChange ==
  ASSUME NEW w \in Workers, Continue(w)
  PROVE  /\ \A e \in DOMAIN exports \ DOMAIN exports' :
              call[w].pc = "unexport" /\ e = QSDID[call[w].id]
         /\ \A e \in DOMAIN exports' \ DOMAIN exports :
              call[w].pc = "export" /\ e = QSDID[call[w].id]
<1>1. CASE Export(w)
  BY <1>1 DEF Export, BlockExportAdd, Put, graphVars
<1>2. CASE Append(w)
  BY <1>2 DEF Append, BlockdevSnapshot, graphVars
<1>3. CASE Unexport(w)
  BY <1>3 DEF Unexport, BlockExportDel, Drop, graphVars
<1>4. CASE UNCHANGED exports
  BY <1>4
<1>. QED
  BY <1>1, <1>2, <1>3, <1>4
  DEF Continue, QemuImgCreate, AddNode, Store, RemoveSocketDir, DelNode, RemoveFile, Release,
      RemoveDir, Reply, graphVars, BlockdevAdd, BlockdevDel

LEMMA FileChange ==
  ASSUME NEW w \in Workers, Continue(w)
  PROVE  /\ \A f \in files \ files' : call[w].pc = "remove" /\ f = call[w].ptr.File
         /\ \A v \in sockets \ sockets' : call[w].pc = "rmSocketDir" /\ v = call[w].id
  BY DEF Continue, QemuImgCreate, AddNode, Append, Store, Export, Unexport, RemoveSocketDir,
         DelNode, RemoveFile, Release, RemoveDir, Reply, fsVars

(* An image goes with Release and comes with Store; nothing else changes   *)
(* whose it is or where it is kept.                                        *)
KeepsOwner(i) ==
  /\ i \in DOMAIN images
  /\ images'[i].VolumeRef = images[i].VolumeRef
  /\ images'[i].File = images[i].File

LEMMA ImageChange ==
  ASSUME TypeInv, NEW w \in Workers, Continue(w)
  PROVE  /\ \A i \in DOMAIN images \ DOMAIN images' :
              call[w].pc = "release" /\ i = call[w].layer
         /\ \A i \in DOMAIN images' :
              \/ KeepsOwner(i)
              \/ /\ call[w].pc = "store" /\ i = call[w].id
                 /\ images'[i].VolumeRef = i /\ images'[i].File = FileOf(call[w])
<1>. DEFINE c == call[w]
<1>0. MemTypeOK
  BY DEF TypeInv, TypeOK
<1>1. CASE Store(w)
  <2>. DEFINE im == IF c.layer = None THEN images ELSE WithRef(images, c.layer)
  <2>1. images' = Put(im, c.id, NewImage(c)) /\ c.pc = "store"
    BY <1>1 DEF Store
  <2>2. /\ DOMAIN im = DOMAIN images
        /\ \A i \in DOMAIN images : im[i].VolumeRef = images[i].VolumeRef /\ im[i].File = images[i].File
    BY <1>0 DEF WithRef, MemTypeOK, QCOWImage
  <2>. HIDE DEF im
  <2>. QED  BY <2>1, <2>2 DEF Put, NewImage, KeepsOwner
<1>2. CASE Release(w)
  <2>. DEFINE b == c.ptr.BackingImageID
              im == IF b = None THEN images ELSE [images EXCEPT ![b].RefCount = @ - 1]
  <2>1. CASE UNCHANGED memVars
    BY <2>1 DEF memVars, KeepsOwner
  <2>2. CASE images' = Drop(im, c.layer)
    <3>1. /\ DOMAIN im = DOMAIN images
          /\ \A i \in DOMAIN images : im[i].VolumeRef = images[i].VolumeRef /\ im[i].File = images[i].File
      BY <1>0 DEF MemTypeOK, QCOWImage
    <3>. HIDE DEF im
    <3>. QED  BY <1>2, <2>2, <3>1 DEF Release, Drop, KeepsOwner
  <2>. QED  BY <1>2, <2>1, <2>2 DEF Release, WithoutImage
<1>3. CASE UNCHANGED images
  BY <1>3 DEF KeepsOwner
<1>. QED
  BY <1>1, <1>2, <1>3
  DEF Continue, QemuImgCreate, AddNode, Append, Export, Unexport, RemoveSocketDir, DelNode,
      RemoveFile, RemoveDir, Reply, memVars

(* A volume gets an active layer with Store, and loses it when it is       *)
(* deleted itself.                                                         *)
LEMMA ActiveChange ==
  ASSUME NEW w \in Workers, Continue(w)
  PROVE  /\ \A v \in DOMAIN activeLayers' \ DOMAIN activeLayers :
              call[w].pc = "store" /\ v = TopOf(call[w])
         /\ \A v \in DOMAIN activeLayers \ DOMAIN activeLayers' :
              call[w].pc = "release" /\ DeletesItself(call[w]) /\ v = call[w].id
<1>1. CASE Store(w)
  BY <1>1 DEF Store, Put
<1>2. CASE Release(w)
  BY <1>2 DEF Release, memVars, Forget, Drop
<1>3. CASE UNCHANGED activeLayers
  BY <1>3
<1>. QED
  BY <1>1, <1>2, <1>3
  DEF Continue, QemuImgCreate, AddNode, Append, Export, Unexport, RemoveSocketDir, DelNode,
      RemoveFile, RemoveDir, Reply, memVars

(* A first step only reads, but for the maps of a delete and the directory *)
(* of an export.                                                           *)
LEMMA StartKeeps ==
  ASSUME TypeInv, NEW w \in Workers, Starts(w)
  PROVE  /\ UNCHANGED <<nodes, exports, files, taken>> /\ sockets \subseteq sockets'
         /\ Idle(w) /\ \A x \in Workers \ {w} : call'[x] = call[x]
         /\ DOMAIN activeLayers' \subseteq DOMAIN activeLayers
         /\ DOMAIN images' = DOMAIN images
         /\ \A i \in DOMAIN images : images'[i].File = images[i].File
<1>1. \A id \in DOMAIN images : images' = DropVolumeRef(images, id) =>
        /\ DOMAIN images' = DOMAIN images
        /\ \A i \in DOMAIN images : images'[i].File = images[i].File
  BY DEF DropVolumeRef, TypeInv, TypeOK, MemTypeOK, QCOWImage
<1>2. DOMAIN activeLayers' \subseteq DOMAIN activeLayers
  BY DEF Starts, CreateVolume, CreateSnapshot, ExposeVhostUser, DeleteExporter, DeleteVolume,
         DeleteSnapshot, memVars, Forget, Drop
<1>3. /\ DOMAIN images' = DOMAIN images
      /\ \A i \in DOMAIN images : images'[i].File = images[i].File
  BY <1>1 DEF Starts, CreateVolume, CreateSnapshot, ExposeVhostUser, DeleteExporter, DeleteVolume,
              DeleteSnapshot, memVars
<1>4. UNCHANGED <<nodes, exports, files, taken>> /\ sockets \subseteq sockets'
  BY DEF Starts, CreateVolume, CreateSnapshot, ExposeVhostUser, DeleteExporter, DeleteVolume,
         DeleteSnapshot, graphVars, fsVars
<1>5. Idle(w) /\ \E d : Become(w, d)
  BY DEF Starts, CreateVolume, CreateSnapshot, ExposeVhostUser, DeleteExporter, DeleteVolume,
         DeleteSnapshot
<1>. QED  BY <1>2, <1>3, <1>4, <1>5 DEF Become, TypeInv, TypeOK

(* Where each handler stands after its first step.                         *)
Names(d, op, id, from) == d.op = op /\ d.id = id /\ d.from = from

LEMMA NewCallAt ==
  ASSUME TypeInv, NEW w \in Workers, NEW op \in Op, NEW id \in ImageID, NEW from \in ImageID \cup {None},
         NEW pc, NEW l, NEW p, Become(w, At(NewCall(op, id, from), pc, l, p))
  PROVE  Names(call'[w], op, id, from) /\ call'[w].pc = pc /\ call'[w].layer = l /\ call'[w].ptr = p
<1>. DEFINE c == NewCall(op, id, from)
<1>1. c \in Call /\ Names(c, op, id, from)
  BY NewCallFields DEF Names
<1>. HIDE DEF c
<1>2. call'[w] = At(c, pc, l, p)
  BY DEF Become, TypeInv, TypeOK, c
<1>. QED  BY <1>1, <1>2, AtKeeps DEF SameNames, Names

LEMMA StartCreateVolume ==
  ASSUME TypeInv, NEW w \in Workers, NEW id \in Volumes, NEW src \in CloneSources \cup {None},
         CreateVolume(w, id, src)
  PROVE  /\ Names(call'[w], "CreateVolume", id, src)
         /\ call'[w].pc \in {"createImage", "createBacked", "failed"}
         /\ UNCHANGED memVars
<1>1. "CreateVolume" \in Op /\ id \in ImageID /\ src \in ImageID \cup {None}
  BY ConstantsAssumption DEF Op, ImageID
<1>. QED  BY <1>1, NewCallAt DEF CreateVolume, Failed

LEMMA StartCreateSnapshot ==
  ASSUME TypeInv, NEW w \in Workers, NEW id \in Snapshots, NEW vol \in Volumes,
         CreateSnapshot(w, id, vol)
  PROVE  /\ Names(call'[w], "CreateSnapshot", id, vol)
         /\ call'[w].pc \in {"createOverlay", "createBacked", "failed"}
         /\ UNCHANGED memVars
<1>1. "CreateSnapshot" \in Op /\ id \in ImageID /\ vol \in ImageID \cup {None}
  BY DEF Op, ImageID
<1>. QED  BY <1>1, NewCallAt DEF CreateSnapshot, Failed

LEMMA StartExpose ==
  ASSUME TypeInv, NEW w \in Workers, NEW id \in Volumes, ExposeVhostUser(w, id)
  PROVE  /\ Names(call'[w], "ExposeVhostUser", id, None)
         /\ \/ call'[w].pc = "failed"
            \/ call'[w].pc = "export" /\ id \in DOMAIN images \cap sockets'
         /\ UNCHANGED memVars
<1>1. "ExposeVhostUser" \in Op /\ id \in ImageID
  BY DEF Op, ImageID
<1>. QED  BY <1>1, NewCallAt DEF ExposeVhostUser, Failed

LEMMA StartUnexpose ==
  ASSUME TypeInv, NEW w \in Workers, NEW id \in Volumes, DeleteExporter(w, id)
  PROVE  /\ Names(call'[w], "DeleteExporter", id, None)
         /\ call'[w].pc \in {"failed", "unexport"}
         /\ UNCHANGED memVars
<1>1. "DeleteExporter" \in Op /\ id \in ImageID
  BY DEF Op, ImageID
<1>. QED  BY <1>1, NewCallAt DEF DeleteExporter, Failed

(* A call that has just turned to a layer to delete.                       *)
TurnsTo(d, l) == d.pc = "blockdevDel" /\ d.layer = l /\ d.ptr = Deref(l)

LEMMA StartDeleteVolume ==
  ASSUME TypeInv, NEW w \in Workers, NEW id \in Volumes, DeleteVolume(w, id)
  PROVE  /\ Names(call'[w], "DeleteVolume", id, None)
         /\ \/ call'[w].pc = "failed" /\ UNCHANGED memVars
            \/ TurnsTo(call'[w], id) /\ id \in DOMAIN images /\ UNCHANGED memVars
            \/ call'[w].pc = "rmdir" /\ id \notin DOMAIN activeLayers'
         /\ \A i \in DOMAIN images \ {id} : images'[i].VolumeRef = images[i].VolumeRef
<1>1. "DeleteVolume" \in Op /\ id \in ImageID
  BY DEF Op, ImageID
<1>2. images' = images \/ images' = DropVolumeRef(images, id)
  BY DEF DeleteVolume, memVars
<1>3. \A i \in DOMAIN images \ {id} : images'[i].VolumeRef = images[i].VolumeRef
  BY <1>2 DEF DropVolumeRef
<1>4. CASE \/ id \notin DOMAIN activeLayers \/ activeLayers[id] \notin DOMAIN images
  BY <1>1, <1>3, <1>4, NewCallAt DEF DeleteVolume, Failed
<1>5. CASE /\ ~(id \notin DOMAIN activeLayers \/ activeLayers[id] \notin DOMAIN images)
           /\ DeletableVolume(id)
  BY <1>1, <1>3, <1>5, NewCallAt DEF DeleteVolume, TurnsTo, DeletableVolume
<1>6. CASE /\ ~(id \notin DOMAIN activeLayers \/ activeLayers[id] \notin DOMAIN images)
           /\ ~DeletableVolume(id)
  <2>1. \/ Become(w, At(NewCall("DeleteVolume", id, None), "rmdir", id, Deref(id)))
        \/ Become(w, At(NewCall("DeleteVolume", id, None), "rmdir", None, Nil))
    BY <1>6 DEF DeleteVolume
  <2>2. id \notin DOMAIN activeLayers'
    BY <1>6 DEF DeleteVolume, Forget, Drop
  <2>. QED  BY <1>1, <1>3, <2>1, <2>2, NewCallAt
<1>. QED  BY <1>4, <1>5, <1>6

LEMMA StartDeleteSnapshot ==
  ASSUME TypeInv, NEW w \in Workers, NEW id \in Snapshots, NEW vol \in Volumes,
         DeleteSnapshot(w, id, vol)
  PROVE  /\ Names(call'[w], "DeleteSnapshot", id, vol)
         /\ \/ call'[w].pc \in {"failed", "succeeded"}
            \/ TurnsTo(call'[w], id) /\ id \in DOMAIN images
            \/ \E l : TurnsTo(call'[w], l) /\ Collectable(images', l)
         /\ \A i \in DOMAIN images \ {id} : images'[i].VolumeRef = images[i].VolumeRef
<1>. DEFINE c == NewCall("DeleteSnapshot", id, vol)
<1>1. "DeleteSnapshot" \in Op /\ id \in ImageID /\ vol \in ImageID \cup {None}
  BY DEF Op, ImageID
<1>2. images' = images \/ images' = DropVolumeRef(images, id)
  BY DEF DeleteSnapshot
<1>3. \A i \in DOMAIN images \ {id} : images'[i].VolumeRef = images[i].VolumeRef
  BY <1>2 DEF DropVolumeRef
<1>4. CASE id \notin DOMAIN images
  BY <1>1, <1>3, <1>4, NewCallAt DEF DeleteSnapshot, Failed
<1>5. CASE id \in DOMAIN images /\ DeletableSnapshot(id, vol)
  BY <1>1, <1>3, <1>5, NewCallAt DEF DeleteSnapshot, TurnsTo
<1>6. CASE id \in DOMAIN images /\ ~DeletableSnapshot(id, vol)
  <2>1. Become(w, CleanUp(c, images', images[id].BackingImageID))
    BY <1>6 DEF DeleteSnapshot
  <2>. DEFINE b == images[id].BackingImageID
  <2>2. CASE Collectable(images', b)
    <3>1. Become(w, At(c, "blockdevDel", b, Deref(b)))
      BY <2>1, <2>2 DEF CleanUp
    <3>2. Names(call'[w], "DeleteSnapshot", id, vol) /\ TurnsTo(call'[w], b)
      BY <1>1, <3>1, NewCallAt DEF TurnsTo
    <3>. QED  BY <1>3, <2>2, <3>2
  <2>3. CASE ~Collectable(images', b)
    <3>1. Become(w, At(c, "succeeded", None, Nil))
      BY <2>1, <2>3 DEF CleanUp, Succeeded
    <3>2. Names(call'[w], "DeleteSnapshot", id, vol) /\ call'[w].pc = "succeeded"
      BY <1>1, <3>1, NewCallAt
    <3>. QED  BY <1>3, <3>2
  <2>. QED  BY <2>2, <2>3
<1>. QED  BY <1>4, <1>5, <1>6
-----------------------------------------------------------------------------
(* Which handler takes which steps, and whose a file is.  Files of two ids *)
(* differ where their QSDIDs do.                                           *)

DistinctQSDIDs == \A i, j \in ImageID : QSDID[i] = QSDID[j] => i = j

Belongs(f, i) == IF i \in Volumes THEN f = DiskFile(i) ELSE f[2] = QSDID[i]

StepsOf(c) ==
  /\ c.pc = "export" => c.op = "ExposeVhostUser"
  /\ c.pc \in {"unexport", "rmSocketDir"} => c.op = "DeleteExporter"
  /\ c.pc \in RemovePC => c.op \in Deleting
  /\ c.op \in {"CreateVolume", "ExposeVhostUser", "DeleteExporter", "DeleteVolume"} => c.id \in Volumes
  /\ c.op \in Deleting \cup {"CreateSnapshot"} => c.id \in ImageID

HandlerInv ==
  /\ \A w \in Workers : StepsOf(call[w])
  /\ \A i \in DOMAIN images : Belongs(images[i].File, i)
  /\ \A w \in Workers : call[w].pc \in DeletePC => Belongs(call[w].ptr.File, call[w].layer)

LEMMA BelongsApart ==
  ASSUME DistinctQSDIDs, NEW i \in ImageID, NEW j \in ImageID, i # j,
         NEW f, Belongs(f, i)
  PROVE  ~Belongs(f, j)
<1>1. QSDID[i] # None /\ QSDID[j] # None /\ QSDID[i] # QSDID[j]
  BY ConstantsAssumption DEF DistinctQSDIDs
<1>. QED  BY <1>1 DEF Belongs, DiskFile

LEMMA FileOfBelongs ==
  ASSUME NEW c, CallOK(c), c.pc \in CreatePC
  PROVE  Belongs(FileOf(c), c.id)
  BY ConstantsAssumption DEF CallOK, FileOf, Belongs, DiskFile, SnapFile

LEMMA HandlerInit == Init => HandlerInv
  BY DEF Init, Empty, HandlerInv, NoCall, StepsOf, Deleting

LEMMA HandlerStarts ==
  ASSUME TypeInv, HandlerInv, NEW w \in Workers, Starts(w)
  PROVE  HandlerInv'
<1>1. /\ \A x \in Workers \ {w} : call'[x] = call[x]
      /\ DOMAIN images' = DOMAIN images
      /\ \A i \in DOMAIN images : images'[i].File = images[i].File
  BY StartKeeps
<1>2. \A l \in DOMAIN images : Deref(l).File = images[l].File
  BY DEF Deref
<1>3. SUFFICES /\ StepsOf(call'[w])
               /\ call'[w].pc \in DeletePC => Belongs(call'[w].ptr.File, call'[w].layer)
  BY <1>1, <1>3 DEF HandlerInv
<1>4. \A l : TurnsTo(call'[w], l) /\ l \in DOMAIN images =>
              Belongs(call'[w].ptr.File, call'[w].layer)
  BY <1>2 DEF HandlerInv, TurnsTo
<1>5. Volumes \subseteq ImageID /\ Snapshots \subseteq ImageID
  BY DEF ImageID
<1>6. ASSUME NEW v \in Volumes, NEW src \in CloneSources \cup {None}, CreateVolume(w, v, src)
      PROVE  StepsOf(call'[w]) /\ call'[w].pc \notin DeletePC
  BY <1>6, StartCreateVolume DEF Names, StepsOf, Deleting
<1>7. ASSUME NEW s \in Snapshots, NEW v \in Volumes, CreateSnapshot(w, s, v)
      PROVE  StepsOf(call'[w]) /\ call'[w].pc \notin DeletePC
  BY <1>5, <1>7, StartCreateSnapshot DEF Names, StepsOf, Deleting
<1>8. ASSUME NEW v \in Volumes, ExposeVhostUser(w, v)
      PROVE  StepsOf(call'[w]) /\ call'[w].pc \notin DeletePC
  BY <1>8, StartExpose DEF Names, StepsOf, Deleting
<1>9. ASSUME NEW v \in Volumes, DeleteExporter(w, v)
      PROVE  StepsOf(call'[w]) /\ call'[w].pc \notin DeletePC
  BY <1>9, StartUnexpose DEF Names, StepsOf, Deleting
<1>10. ASSUME NEW v \in Volumes, DeleteVolume(w, v)
       PROVE  /\ StepsOf(call'[w])
              /\ call'[w].pc \in DeletePC => Belongs(call'[w].ptr.File, call'[w].layer)
  BY <1>4, <1>5, <1>10, StartDeleteVolume DEF Names, StepsOf, Deleting, TurnsTo
<1>11. ASSUME NEW s \in Snapshots, NEW v \in Volumes, DeleteSnapshot(w, s, v)
       PROVE  /\ StepsOf(call'[w])
              /\ call'[w].pc \in DeletePC => Belongs(call'[w].ptr.File, call'[w].layer)
  <2>1. \A l : Collectable(images', l) => l \in DOMAIN images
    BY <1>1 DEF Collectable
  <2>. QED  BY <1>4, <1>5, <1>11, <2>1, StartDeleteSnapshot DEF Names, StepsOf, Deleting, TurnsTo
<1>. QED  BY <1>6, <1>7, <1>8, <1>9, <1>10, <1>11 DEF Starts

LEMMA HandlerContinue ==
  ASSUME TypeInv, HandlerInv, NEW w \in Workers, Continue(w)
  PROVE  HandlerInv'
<1>1. ASSUME NEW x \in Workers
      PROVE  StepsOf(call'[x])
  <2>1. StepsOf(call[x])
    BY DEF HandlerInv
  <2>2. CASE call'[x] = call[x]
    BY <2>1, <2>2
  <2>3. CASE call'[x] = NoCall
    BY <2>3 DEF StepsOf, NoCall, Deleting
  <2>4. CASE SameNames(call'[x], call[x]) /\ call'[x].pc \in {"failed", "panicked"}
    BY <2>1, <2>4 DEF StepsOf, SameNames
  <2>5. CASE /\ SameNames(call'[x], call[x])
             /\ call[x].pc \in DOMAIN Follows /\ call'[x].pc \in Follows[call[x].pc]
    <3>1. /\ call'[x].pc # "export" /\ call'[x].pc # "unexport"
          /\ call'[x].pc = "rmSocketDir" => call[x].pc = "unexport"
          /\ call'[x].pc \in RemovePC => call[x].pc \in RemovePC
      BY <2>5 DEF Follows
    <3>. QED  BY <2>1, <2>5, <3>1 DEF StepsOf, SameNames
  <2>6. x = w /\ Reply(w) => call'[x] = NoCall
    BY DEF Reply, Become, TypeInv, TypeOK
  <2>. QED  BY <2>2, <2>3, <2>4, <2>5, <2>6, ContinueMoves DEF Moves
<1>2. call[w] \in Call /\ CallOK(call[w])
  BY DEF TypeInv, CallTypeInv
<1>3. ASSUME NEW i \in DOMAIN images'
      PROVE  Belongs(images'[i].File, i)
  <2>1. CASE KeepsOwner(i)
    BY <2>1 DEF KeepsOwner, HandlerInv
  <2>2. CASE call[w].pc = "store" /\ i = call[w].id /\ images'[i].File = FileOf(call[w])
    BY <1>2, <2>2, FileOfBelongs
  <2>. QED  BY <2>1, <2>2, ImageChange
<1>4. ASSUME NEW x \in Workers, call'[x].pc \in DeletePC
      PROVE  Belongs(call'[x].ptr.File, call'[x].layer)
  <2>1. CASE call[x].pc \in DeletePC /\ call'[x].layer = call[x].layer /\ call'[x].ptr = call[x].ptr
    BY <2>1 DEF HandlerInv
  <2>2. CASE Collectable(images', call'[x].layer) /\ call'[x].ptr = Deref(call'[x].layer)
    <3>1. call'[x].layer \in DOMAIN images'
      BY <2>2 DEF Collectable
    <3>2. CASE call'[x].layer \in DOMAIN images
      BY <2>2, <3>2 DEF Deref, HandlerInv
    <3>3. CASE call'[x].layer \notin DOMAIN images
      <4>1. call[w].pc = "store"
        BY <3>1, <3>3, ImageChange DEF KeepsOwner
      <4>2. call'[x] = call[x]
        BY <1>4, <4>1, ContinueMoves DEF Moves, Follows, Reply
      <4>. QED  BY <1>4, <4>2 DEF HandlerInv
    <3>. QED  BY <3>2, <3>3
  <2>. QED  BY <1>4, <2>1, <2>2, ContinueProceeds DEF Proceeds
<1>. QED  BY <1>1, <1>3, <1>4 DEF HandlerInv

LEMMA HandlerRestart ==
  ASSUME HandlerInv, Restart
  PROVE  HandlerInv'
  BY DEF Restart, Empty, HandlerInv, NoCall, StepsOf, Deleting
-----------------------------------------------------------------------------
(* One call at a time.  The layers are then safe from one another, whatever*)
(* fails and however often the server restarts, as long as no two ids are  *)
(* cut down to the same QSDID.  The inductive invariant SafeInv joins what *)
(* the map of images promises (BackingChain, RefCountCovers,               *)
(* ReferencedHasNode) to what the call in progress relies on (CallsHold).  *)

OneCall == \A w, x \in Workers : w = x

(* What the call in progress found when it looked a layer up: the base of  *)
(* a new layer is there, a layer it has put into the graph has nothing on  *)
(* top before it is recorded, and a layer it deletes has no references.    *)
BaseHeld(c) ==
  c.pc \in OverlayPC /\ c.layer # None =>
    c.layer \in DOMAIN images /\ c.ptr = Deref(c.layer)
NewUnused(c) ==
  /\ c.pc \in {"append", "store"} =>
       /\ QSDID[c.id] \in DOMAIN nodes
       /\ c.id \in DOMAIN images => images[c.id].RefCount < 1
  /\ c.pc = "store" /\ c.layer # None =>
       /\ QSDID[c.layer] \in DOMAIN nodes
       /\ c.layer # c.id
VictimUnused(c) ==
  c.pc \in DeletePC =>
    /\ c.layer \in DOMAIN images
    /\ images[c.layer].RefCount < 1
    /\ c.ptr = Deref(c.layer)
CallsHold == \A w \in Workers : BaseHeld(call[w]) /\ NewUnused(call[w]) /\ VictimUnused(call[w])

MapInv  == BackingChain /\ RefCountCovers
SafeInv == TypeInv /\ MapInv /\ ReferencedHasNode /\ CallsHold

CallHolds(w) == BaseHeld(call[w]) /\ NewUnused(call[w]) /\ VictimUnused(call[w])

-----------------------------------------------------------------------------
(* Overlays and their number.                                              *)

LEMMA OverlaysFinite ==
  ASSUME MemTypeOK, NEW i
  PROVE  IsFiniteSet(Overlays(i)) /\ Cardinality(Overlays(i)) \in Nat
<1>1. Overlays(i) \in SUBSET ImageID
  BY DEF MemTypeOK, Overlays
<1>2. IsFiniteSet(Overlays(i))
  BY <1>1, FiniteIDs, FS_Subset
<1>. QED  BY <1>2, FS_CardinalityType

(* A set that grew by at most one element.                                 *)
LEMMA OneMore ==
  ASSUME NEW S, IsFiniteSet(S), NEW x, NEW T, T \subseteq S \cup {x}
  PROVE  Cardinality(T) <= Cardinality(S) + 1
<1>1. IsFiniteSet(S \cup {x}) /\ Cardinality(S \cup {x}) \in {Cardinality(S), Cardinality(S) + 1}
  <2>. DEFINE U == S \cup {x}
  <2>1. IsFiniteSet(U) /\ Cardinality(U) = IF x \in S THEN Cardinality(S) ELSE Cardinality(S) + 1
    BY FS_AddElement
  <2>. HIDE DEF U
  <2>2. IsFiniteSet(U) /\ Cardinality(U) \in {Cardinality(S), Cardinality(S) + 1}
    BY <2>1
  <2>. QED  BY <2>2 DEF U
<1>2. IsFiniteSet(T) /\ Cardinality(T) <= Cardinality(S \cup {x})
  BY <1>1, FS_Subset
<1>3. Cardinality(S) \in Nat /\ Cardinality(T) \in Nat
  BY <1>2, FS_CardinalityType
<1>. QED  BY <1>1, <1>2, <1>3

(* A set that lost an element, or lost nothing.                            *)
LEMMA OneLess ==
  ASSUME NEW S, IsFiniteSet(S), NEW x
  PROVE  Cardinality(S \ {x}) = Cardinality(S) - (IF x \in S THEN 1 ELSE 0)
<1>1. Cardinality(S \ {x}) = IF x \in S THEN Cardinality(S) - 1 ELSE Cardinality(S)
  BY FS_RemoveElement
<1>2. Cardinality(S) \in Nat
  BY FS_CardinalityType
<1>. QED  BY <1>1, <1>2

(* An image without references has nothing on top of it.                   *)
LEMMA UnreferencedIsLeaf ==
  ASSUME MemTypeOK, RefCountCovers, NEW i \in DOMAIN images, images[i].RefCount < 1
  PROVE  Overlays(i) = {}
<1>1. Cardinality(Overlays(i)) <= images[i].RefCount /\ images[i].RefCount \in Int
  BY DEF RefCountCovers, MemTypeOK, QCOWImage
<1>2. Cardinality(Overlays(i)) = 0
  BY <1>1, OverlaysFinite
<1>. QED  BY <1>2, OverlaysFinite, FS_EmptySet

(* Nor has an id that is not in the map.                                   *)
LEMMA UnknownIsLeaf ==
  ASSUME MemTypeOK, BackingChain, NEW i \in ImageID, i \notin DOMAIN images
  PROVE  Overlays(i) = {}
  BY ConstantsAssumption DEF BackingChain, Overlays

(* A step that leaves the links and the counts of the images alone.        *)
LEMMA ShapeKept ==
  ASSUME MapInv, DOMAIN images' = DOMAIN images,
         \A i \in DOMAIN images :
           /\ images'[i].BackingImageID = images[i].BackingImageID
           /\ images'[i].RefCount = images[i].RefCount
           /\ images'[i].Depth = images[i].Depth
  PROVE  MapInv'
<1>1. \A i : Overlays(i)' = Overlays(i)
  BY DEF Overlays
<1>. QED  BY <1>1 DEF MapInv, BackingChain, RefCountCovers

LEMMA DropRefKept ==
  ASSUME SafeInv, NEW id \in DOMAIN images, images' = DropVolumeRef(images, id)
  PROVE  /\ MapInv'
         /\ DOMAIN images' = DOMAIN images
         /\ \A i \in DOMAIN images : Deref(i)' = Deref(i) /\ images'[i].RefCount = images[i].RefCount
<1>1. /\ DOMAIN images' = DOMAIN images
      /\ \A i \in DOMAIN images :
           /\ images'[i].BackingImageID = images[i].BackingImageID
           /\ images'[i].File = images[i].File
           /\ images'[i].RefCount = images[i].RefCount
           /\ images'[i].Depth = images[i].Depth
  BY DEF SafeInv, TypeInv, TypeOK, MemTypeOK, QCOWImage, DropVolumeRef
<1>. QED  BY <1>1, ShapeKept DEF SafeInv, Deref

(* With one call at a time only the acting worker's call needs a look.     *)
LEMMA OnlyCall ==
  ASSUME OneCall, NEW w \in Workers, CallHolds(w)'
  PROVE  CallsHold'
  BY DEF OneCall, CallsHold, CallHolds

(* Hence what is left to show of a step, its types being known.            *)
LEMMA StepSafe ==
  ASSUME OneCall, TypeInv', MapInv', ReferencedHasNode', NEW w \in Workers, CallHolds(w)'
  PROVE  SafeInv'
  BY OnlyCall DEF SafeInv

(* A step that leaves the images alone and takes no node away.             *)
LEMMA ImagesKept ==
  ASSUME SafeInv, UNCHANGED images, DOMAIN nodes \subseteq DOMAIN nodes'
  PROVE  MapInv' /\ ReferencedHasNode'
<1>1. MapInv'
  BY ShapeKept DEF SafeInv
<1>. QED  BY <1>1 DEF SafeInv, ReferencedHasNode

(* A call that has returned, or that is at a step without obligations.     *)
LEMMA NothingHeld ==
  ASSUME NEW w \in Workers, call'[w].pc \notin OverlayPC \cup DeletePC
  PROVE  CallHolds(w)'
  BY DEF CallHolds, BaseHeld, NewUnused, VictimUnused, OverlayPC, DeletePC

LEMMA CallIs ==
  ASSUME TypeInv, NEW w \in Workers
  PROVE  /\ call[w] \in Call /\ CallOK(call[w])
         /\ \A c : Become(w, c) => call'[w] = c
  BY DEF TypeInv, CallTypeInv, Become

LEMMA GotoIs ==
  ASSUME TypeInv, NEW w \in Workers, NEW pc, Goto(w, pc)
  PROVE  /\ call'[w].pc = pc /\ call'[w].op = call[w].op /\ call'[w].id = call[w].id
         /\ call'[w].layer = call[w].layer /\ call'[w].ptr = call[w].ptr
<1>1. call[w] \in Call /\ call'[w] = [call[w] EXCEPT !.pc = pc]
  BY DEF TypeInv, CallTypeInv, Goto
<1>. QED  BY <1>1 DEF Call

LEMMA DoneHolds ==
  ASSUME TypeInv, NEW w \in Workers, NEW c \in Call,
         Become(w, Succeeded(c)) \/ Become(w, Failed(c))
  PROVE  CallHolds(w)'
<1>1. /\ "succeeded" \in PC /\ Succeeded(c).pc = "succeeded"
      /\ "failed" \in PC /\ Failed(c).pc = "failed"
  BY AtFields DEF PC, Succeeded, Failed
<1>2. call'[w].pc \in {"succeeded", "failed"}
  BY <1>1, CallIs
<1>. QED  BY <1>2, NothingHeld DEF OverlayPC, DeletePC

(* A handler that starts on an overlay of a layer it has just looked up.   *)
LEMMA BaseFound ==
  ASSUME TypeInv, UNCHANGED images, NEW w \in Workers, NEW c \in Call, NEW l \in DOMAIN images,
         NEW pc \in {"createBacked", "createOverlay"}, Become(w, At(c, pc, l, Deref(l)))
  PROVE  CallHolds(w)'
<1>1. l \in ImageID \cup {None} /\ Deref(l) \in Pointee \cup {Nil} /\ pc \in PC
  BY DerefType DEF TypeInv, TypeOK, MemTypeOK, PC
<1>2. call'[w].pc = pc /\ call'[w].layer = l /\ call'[w].ptr = Deref(l)
  BY <1>1, AtFields, CallIs
<1>3. Deref(l)' = Deref(l)
  BY DEF Deref
<1>. QED  BY <1>2, <1>3 DEF CallHolds, BaseHeld, NewUnused, VictimUnused, OverlayPC, DeletePC

(* A handler that starts to delete a layer without references.             *)
LEMMA VictimFound ==
  ASSUME TypeInv, NEW w \in Workers, NEW c \in Call, NEW l \in DOMAIN images,
         l \in DOMAIN images', images'[l].RefCount < 1, Deref(l)' = Deref(l),
         Become(w, At(c, "blockdevDel", l, Deref(l)))
  PROVE  CallHolds(w)'
<1>1. l \in ImageID \cup {None} /\ Deref(l) \in Pointee \cup {Nil} /\ "blockdevDel" \in PC
  BY DerefType DEF TypeInv, TypeOK, MemTypeOK, PC
<1>2. call'[w].pc = "blockdevDel" /\ call'[w].layer = l /\ call'[w].ptr = Deref(l)
  BY <1>1, AtFields, CallIs
<1>. QED  BY <1>2 DEF CallHolds, BaseHeld, NewUnused, VictimUnused, OverlayPC, DeletePC

LEMMA CleanUpHolds ==
  ASSUME TypeInv, TypeInv', NEW w \in Workers, NEW c \in Call, NEW b,
         b \in DOMAIN images' => b \in DOMAIN images /\ Deref(b)' = Deref(b),
         Become(w, CleanUp(c, images', b))
  PROVE  CallHolds(w)'
<1>1. CASE Collectable(images', b)
  <2>1. b \in DOMAIN images' /\ images'[b].RefCount < 1
    BY <1>1 DEF Collectable, TypeInv, TypeOK, MemTypeOK, QCOWImage
  <2>. QED  BY <1>1, <2>1, VictimFound DEF CleanUp
<1>2. CASE ~Collectable(images', b)
  BY <1>2, DoneHolds DEF CleanUp
<1>. QED  BY <1>1, <1>2

-----------------------------------------------------------------------------
(* Every step of a handler is safe.                                        *)

LEMMA SafeCreateVolume ==
  ASSUME OneCall, SafeInv, NEW w \in Workers, NEW id \in Volumes,
         NEW src \in CloneSources \cup {None}, CreateVolume(w, id, src)
  PROVE  SafeInv'
<1>. DEFINE c == NewCall("CreateVolume", id, src)
<1>1. c \in Call
  BY NewCallFields, ConstantsAssumption DEF Op, ImageID
<1>. HIDE DEF c
<1>2. TypeInv' /\ MapInv' /\ ReferencedHasNode'
  BY TypeCreateVolume, ImagesKept DEF SafeInv, CreateVolume, memVars, graphVars
<1>3. CallHolds(w)'
  <2>1. CASE src = None
    <3>1. "createImage" \in PC
      BY DEF PC
    <3>2. At(c, "createImage", None, Nil).pc = "createImage"
      BY <1>1, <3>1, AtFields
    <3>3. call'[w].pc = "createImage"
      BY <2>1, <3>2, CallIs DEF CreateVolume, SafeInv, c
    <3>. QED  BY <3>3, NothingHeld DEF OverlayPC, DeletePC
  <2>2. CASE src # None /\ src \in DOMAIN images
    BY <1>1, <2>2, BaseFound DEF CreateVolume, memVars, SafeInv, c
  <2>3. CASE src # None /\ src \notin DOMAIN images
    BY <1>1, <2>3, DoneHolds DEF CreateVolume, SafeInv, c
  <2>. QED  BY <2>1, <2>2, <2>3
<1>. QED  BY <1>2, <1>3, StepSafe

LEMMA SafeCreateSnapshot ==
  ASSUME OneCall, SafeInv, NEW w \in Workers, NEW id \in Snapshots, NEW vol \in Volumes,
         CreateSnapshot(w, id, vol)
  PROVE  SafeInv'
<1>. DEFINE c == NewCall("CreateSnapshot", id, vol)
            layer == activeLayers[vol]
<1>1. c \in Call
  BY NewCallFields DEF Op, ImageID
<1>. HIDE DEF c
<1>2. TypeInv' /\ MapInv' /\ ReferencedHasNode'
  BY TypeCreateSnapshot, ImagesKept DEF SafeInv, CreateSnapshot, memVars, graphVars
<1>3. CallHolds(w)'
  <2>1. CASE vol \in DOMAIN activeLayers /\ layer \in DOMAIN images /\ vol \in dirs
    <3>1. PICK pc \in {"createBacked", "createOverlay"} : Become(w, At(c, pc, layer, Deref(layer)))
      BY <2>1 DEF CreateSnapshot, c
    <3>. QED  BY <1>1, <2>1, <3>1, BaseFound DEF CreateSnapshot, memVars, SafeInv
  <2>2. CASE ~(vol \in DOMAIN activeLayers /\ layer \in DOMAIN images /\ vol \in dirs)
    BY <1>1, <2>2, DoneHolds DEF CreateSnapshot, SafeInv, c
  <2>. QED  BY <2>1, <2>2
<1>. QED  BY <1>2, <1>3, StepSafe

LEMMA SafeQemuImgCreate ==
  ASSUME OneCall, SafeInv, NEW w \in Workers, QemuImgCreate(w)
  PROVE  SafeInv'
<1>. DEFINE c == call[w]
<1>1. c \in Call /\ CallHolds(w) /\ TypeInv
  BY CallIs DEF SafeInv, CallsHold, CallHolds
<1>2. TypeInv' /\ MapInv' /\ ReferencedHasNode'
  BY TypeQemuImgCreate, ImagesKept DEF SafeInv, QemuImgCreate, memVars, graphVars
<1>3. CallHolds(w)'
  <2>1. CASE Goto(w, AfterQemuImg[c.pc])
    <3>1. /\ call'[w].pc = AfterQemuImg[c.pc]
          /\ call'[w].layer = c.layer /\ call'[w].ptr = c.ptr
      BY <1>1, <2>1, GotoIs
    <3>2. UNCHANGED images /\ c.pc \in DOMAIN AfterQemuImg
      BY DEF QemuImgCreate, memVars
    <3>. QED
      BY <1>1, <3>1, <3>2 DEF CallHolds, BaseHeld, NewUnused, VictimUnused, OverlayPC, DeletePC,
                              AfterQemuImg, Deref
  <2>2. CASE Fail(w)
    BY <1>1, <2>2, DoneHolds DEF Fail
  <2>. QED  BY <2>1, <2>2 DEF QemuImgCreate
<1>. QED  BY <1>2, <1>3, StepSafe

(* A name that is free in the daemon is not that of a referenced layer.    *)
LEMMA SafeAddNode ==
  ASSUME OneCall, SafeInv, NEW w \in Workers, AddNode(w)
  PROVE  SafeInv'
<1>. DEFINE c == call[w]
            backing == IF c.pc = "addBacked" THEN QSDID[c.layer] ELSE None
<1>1. c \in Call /\ CallOK(c) /\ CallHolds(w) /\ TypeInv /\ c.pc \in DOMAIN AfterAdd
  BY CallIs DEF SafeInv, CallsHold, CallHolds, AddNode
<1>2. UNCHANGED images /\ DOMAIN nodes \subseteq DOMAIN nodes'
  BY DEF AddNode, memVars, graphVars, BlockdevAdd, Put
<1>3. TypeInv' /\ MapInv' /\ ReferencedHasNode'
  BY <1>2, TypeAddNode, ImagesKept DEF SafeInv
<1>4. CallHolds(w)'
  <2>1. CASE /\ CanBlockdevAdd(QSDID[c.id], backing)
             /\ BlockdevAdd(QSDID[c.id], backing)
             /\ Goto(w, AfterAdd[c.pc])
    <3>1. /\ call'[w].pc = AfterAdd[c.pc] /\ call'[w].id = c.id
          /\ call'[w].layer = c.layer /\ call'[w].ptr = c.ptr
      BY <1>1, <2>1, GotoIs
    <3>2. BaseHeld(call[w])'
      <4>1. c.layer # None => c.pc \in OverlayPC
        BY <1>1 DEF AfterAdd, CallOK, OverlayPC
      <4>2. c.layer # None => c.layer \in DOMAIN images /\ c.ptr = Deref(c.layer)
        BY <1>1, <4>1 DEF CallHolds, BaseHeld
      <4>. QED  BY <1>2, <3>1, <4>2 DEF BaseHeld, Deref
    <3>3. /\ QSDID[c.id] \in DOMAIN nodes'
          /\ c.id \in DOMAIN images => images[c.id].RefCount < 1
      <4>1. QSDID[c.id] \notin DOMAIN nodes
        BY <2>1 DEF CanBlockdevAdd
      <4>2. c.id \in DOMAIN images => images[c.id].RefCount \in Int
        BY <1>1 DEF TypeInv, TypeOK, MemTypeOK, QCOWImage
      <4>. QED  BY <2>1, <4>1, <4>2 DEF SafeInv, ReferencedHasNode, BlockdevAdd, Put
    <3>4. ASSUME c.pc = "addBacked"
          PROVE  QSDID[c.layer] \in DOMAIN nodes' /\ c.layer # c.id
      <4>1. QSDID[c.layer] \in NodeName
        BY <1>1, <3>4, ConstantsAssumption DEF CallOK, LayerPC, OverlayPC
      <4>2. QSDID[c.layer] \in DOMAIN nodes /\ QSDID[c.id] \notin DOMAIN nodes
        BY <2>1, <3>4, <4>1, ConstantsAssumption DEF CanBlockdevAdd
      <4>. QED  BY <1>2, <4>2
    <3>5. NewUnused(call[w])'
      BY <1>1, <1>2, <3>1, <3>3, <3>4 DEF NewUnused, AfterAdd, CallOK
    <3>6. VictimUnused(call[w])'
      BY <1>1, <3>1 DEF VictimUnused, AfterAdd, DeletePC
    <3>. QED  BY <3>2, <3>5, <3>6 DEF CallHolds
  <2>2. CASE Fail(w)
    BY <1>1, <2>2, DoneHolds DEF Fail
  <2>. QED  BY <2>1, <2>2 DEF AddNode, Granted, CanAddNode
<1>. QED  BY <1>3, <1>4, StepSafe

LEMMA SafeAppend ==
  ASSUME OneCall, SafeInv, NEW w \in Workers, Append(w)
  PROVE  SafeInv'
<1>. DEFINE c == call[w]
<1>1. c \in Call /\ CallHolds(w) /\ TypeInv /\ c.pc = "append"
  BY CallIs DEF SafeInv, CallsHold, CallHolds, Append
<1>2. UNCHANGED images /\ DOMAIN nodes' = DOMAIN nodes
  BY DEF Append, memVars, graphVars, BlockdevSnapshot
<1>3. TypeInv' /\ MapInv' /\ ReferencedHasNode'
  BY <1>2, TypeAppend, ImagesKept DEF SafeInv
<1>4. CallHolds(w)'
  <2>1. CASE CanBlockdevSnapshot(QSDID[c.layer], QSDID[c.id]) /\ Goto(w, "store")
    <3>1. /\ call'[w].pc = "store" /\ call'[w].id = c.id
          /\ call'[w].layer = c.layer /\ call'[w].ptr = c.ptr
      BY <1>1, <2>1, GotoIs
    <3>2. QSDID[c.layer] \in DOMAIN nodes /\ c.layer # c.id
      BY <2>1 DEF CanBlockdevSnapshot
    <3>. QED
      BY <1>1, <1>2, <3>1, <3>2 DEF CallHolds, BaseHeld, NewUnused, VictimUnused, OverlayPC,
                                    DeletePC, Deref
  <2>2. CASE Fail(w)
    BY <1>1, <2>2, DoneHolds DEF Fail
  <2>. QED  BY <2>1, <2>2 DEF Append, Granted
<1>. QED  BY <1>3, <1>4, StepSafe

(* What recording layer id on top of b does to the map of images.          *)
Adds(id, b) ==
  /\ id \in ImageID /\ id # None /\ b \in ImageID \cup {None}
  /\ Overlays(id) = {}
  /\ b # None => b \in DOMAIN images /\ b # id /\ QSDID[b] \in DOMAIN nodes
  /\ DOMAIN images' = DOMAIN images \cup {id}
  /\ images'[id].BackingImageID = b
  /\ images'[id].RefCount = 0
  /\ images'[id].Depth = IF b = None THEN 0 ELSE images[b].Depth + 1
  /\ \A i \in DOMAIN images \ {id} :
       /\ images'[i].BackingImageID = images[i].BackingImageID
       /\ images'[i].Depth = images[i].Depth
       /\ images'[i].RefCount = images[i].RefCount + (IF i = b THEN 1 ELSE 0)
       /\ images[i].RefCount \in Int

(* The recorded layer is a leaf, and its base gets one reference more.     *)
LEMMA StoreEffect ==
  ASSUME SafeInv, NEW w \in Workers, Store(w)
  PROVE  \E id, b : Adds(id, b)
<1>. PICK id, b : id = call[w].id /\ b = call[w].layer
  OBVIOUS
<1>. DEFINE c == call[w]
            im == IF b = None THEN images ELSE WithRef(images, b)
<1>1. c \in Call /\ CallOK(c) /\ CallHolds(w) /\ MemTypeOK /\ c.pc = "store"
  BY CallIs DEF SafeInv, CallsHold, CallHolds, Store, TypeInv, TypeOK
<1>2. images' = Put(im, id, NewImage(c))
  BY DEF Store
<1>3. id \in ImageID /\ id # None /\ b \in ImageID \cup {None}
  BY <1>1, ConstantsAssumption DEF CallOK, CreatePC, ImageID, Call
<1>4. b # None => /\ b \in DOMAIN images /\ c.ptr = Deref(b) /\ b # id
                  /\ QSDID[b] \in DOMAIN nodes
  BY <1>1 DEF CallHolds, BaseHeld, NewUnused, OverlayPC
<1>5. Overlays(id) = {}
  <2>1. CASE id \in DOMAIN images
    <3>1. images[id].RefCount < 1
      BY <1>1, <2>1 DEF CallHolds, NewUnused
    <3>. QED  BY <1>1, <2>1, <3>1, UnreferencedIsLeaf DEF SafeInv, MapInv
  <2>2. CASE id \notin DOMAIN images
    BY <1>1, <1>3, <2>2, UnknownIsLeaf DEF SafeInv, MapInv
  <2>. QED  BY <2>1, <2>2
<1>6. /\ DOMAIN images' = DOMAIN images \cup {id}
      /\ images'[id] = NewImage(c)
      /\ \A i \in DOMAIN images \ {id} :
           /\ images'[i].BackingImageID = images[i].BackingImageID
           /\ images'[i].Depth = images[i].Depth
           /\ images'[i].RefCount = images[i].RefCount + (IF i = b THEN 1 ELSE 0)
           /\ images[i].RefCount \in Int
  <2>1. CASE b = None
    BY <1>1, <1>2, <2>1, ConstantsAssumption DEF Put, MemTypeOK, QCOWImage
  <2>2. CASE b # None
    <3>1. im = [images EXCEPT ![b].RefCount = @ + 1]
      BY <2>2 DEF WithRef
    <3>. QED  BY <1>1, <1>2, <1>4, <2>2, <3>1 DEF Put, MemTypeOK, QCOWImage
  <2>. QED  BY <2>1, <2>2
<1>7. /\ images'[id].BackingImageID = b
      /\ images'[id].RefCount = 0
      /\ images'[id].Depth = IF b = None THEN 0 ELSE images[b].Depth + 1
  BY <1>4, <1>6 DEF NewImage, Deref
<1>. HIDE DEF im
<1>. QED  BY <1>3, <1>4, <1>5, <1>6, <1>7 DEF Adds

LEMMA SafeStore ==
  ASSUME OneCall, SafeInv, NEW w \in Workers, Store(w)
  PROVE  SafeInv'
<1>1. call[w] \in Call /\ TypeInv /\ MemTypeOK /\ UNCHANGED nodes /\ Become(w, Succeeded(call[w]))
  BY CallIs DEF SafeInv, TypeInv, TypeOK, Store, graphVars, Succeed
<1>2. PICK id, b : Adds(id, b)
  BY StoreEffect
<1>3. CallHolds(w)'
  BY <1>1, DoneHolds
<1>4. BackingChain'
  <2>. SUFFICES ASSUME NEW i \in DOMAIN images'
                PROVE  LET x == images'[i].BackingImageID IN
                       IF x = None THEN images'[i].Depth = 0
                       ELSE x \in DOMAIN images' /\ images'[i].Depth = images'[x].Depth + 1
    BY DEF BackingChain
  <2>1. CASE i = id
    BY <1>2, <2>1 DEF Adds
  <2>2. CASE i # id
    <3>1. i \in DOMAIN images /\ images[i].BackingImageID # id
      BY <1>2, <2>2 DEF Overlays, Adds
    <3>. QED  BY <1>2, <2>2, <3>1 DEF SafeInv, MapInv, BackingChain, Adds
  <2>. QED  BY <2>1, <2>2
<1>5. RefCountCovers'
  <2>. SUFFICES ASSUME NEW i \in DOMAIN images'
                PROVE  Cardinality(Overlays(i)') <= images'[i].RefCount
    BY DEF RefCountCovers
  <2>1. CASE i = id
    <3>1. Overlays(i)' = {}
      BY <1>2, <2>1 DEF Overlays, Adds
    <3>. QED  BY <1>2, <2>1, <3>1, FS_EmptySet DEF Adds
  <2>2. CASE i # id
    <3>1. /\ i \in DOMAIN images /\ Cardinality(Overlays(i)) <= images[i].RefCount
          /\ IsFiniteSet(Overlays(i)) /\ Cardinality(Overlays(i)) \in Nat
      BY <1>1, <1>2, <2>2, OverlaysFinite DEF SafeInv, MapInv, RefCountCovers, Adds
    <3>2. CASE i = b
      <4>1. Overlays(i)' \subseteq Overlays(i) \cup {id}
        BY <1>2 DEF Overlays, Adds
      <4>2. Cardinality(Overlays(i)') <= Cardinality(Overlays(i)) + 1
        BY <3>1, <4>1, OneMore
      <4>3. Cardinality(Overlays(i)') \in Nat
        BY <3>1, <4>1, FS_AddElement, FS_Subset, FS_CardinalityType
      <4>. QED  BY <1>2, <2>2, <3>1, <3>2, <4>2, <4>3 DEF Adds
    <3>3. CASE i # b
      <4>1. Overlays(i)' \subseteq Overlays(i)
        BY <1>2, <3>3 DEF Overlays, Adds
      <4>2. Cardinality(Overlays(i)') <= Cardinality(Overlays(i)) /\ Cardinality(Overlays(i)') \in Nat
        BY <3>1, <4>1, FS_Subset, FS_CardinalityType
      <4>. QED  BY <1>2, <2>2, <3>1, <3>3, <4>2 DEF Adds
    <3>. QED  BY <3>2, <3>3
  <2>. QED  BY <2>1, <2>2
<1>6. ReferencedHasNode'
  <2>. SUFFICES ASSUME NEW i \in DOMAIN images', images'[i].RefCount > 0
                PROVE  QSDID[i] \in DOMAIN nodes
    BY <1>1 DEF ReferencedHasNode
  <2>1. i \in DOMAIN images \ {id}
    BY <1>2 DEF Adds
  <2>2. CASE i = b
    BY <1>1, <1>2, <2>1, <2>2, ConstantsAssumption DEF MemTypeOK, Adds
  <2>3. CASE i # b
    BY <1>2, <2>1, <2>3 DEF SafeInv, ReferencedHasNode, Adds
  <2>. QED  BY <2>2, <2>3
<1>. QED  BY <1>3, <1>4, <1>5, <1>6, TypeStore, StepSafe DEF MapInv, SafeInv

LEMMA SafeExposeVhostUser ==
  ASSUME OneCall, SafeInv, NEW w \in Workers, NEW id \in Volumes,
         ExposeVhostUser(w, id) \/ DeleteExporter(w, id)
  PROVE  SafeInv'
<1>1. TypeInv' /\ MapInv' /\ ReferencedHasNode'
  BY TypeExposeVhostUser, ImagesKept
  DEF SafeInv, ExposeVhostUser, DeleteExporter, memVars, graphVars
<1>2. ASSUME NEW op \in {"ExposeVhostUser", "DeleteExporter"}, NEW pc \in {"export", "unexport"},
             NEW c, c = NewCall(op, id, None),
             Become(w, At(c, pc, id, Nil)) \/ Become(w, Failed(c))
      PROVE  CallHolds(w)'
  <2>1. c \in Call /\ id \in ImageID \cup {None} /\ pc \in PC
    BY <1>2, NewCallFields DEF Op, ImageID, PC
  <2>2. CASE Become(w, At(c, pc, id, Nil))
    <3>1. At(c, pc, id, Nil).pc = pc
      BY <2>1, AtFields
    <3>2. call'[w].pc = pc
      BY <2>2, <3>1, CallIs DEF SafeInv
    <3>. QED  BY <3>2, NothingHeld DEF OverlayPC, DeletePC
  <2>3. CASE Become(w, Failed(c))
    BY <2>1, <2>3, DoneHolds DEF SafeInv
  <2>. QED  BY <1>2, <2>2, <2>3
<1>3. CallHolds(w)'
  BY <1>2 DEF ExposeVhostUser, DeleteExporter
<1>. QED  BY <1>1, <1>3, StepSafe

LEMMA SafeExport ==
  ASSUME OneCall, SafeInv, NEW w \in Workers, Export(w) \/ Unexport(w) \/ RemoveSocketDir(w)
  PROVE  SafeInv'
<1>1. TypeInv' /\ MapInv' /\ ReferencedHasNode'
  BY TypeExport, TypeRemoveSocketDir, ImagesKept
  DEF SafeInv, Export, Unexport, RemoveSocketDir, memVars, graphVars, BlockExportAdd, BlockExportDel
<1>2. CallHolds(w)'
  <2>1. CASE Succeed(w) \/ Fail(w)
    BY <2>1, DoneHolds, CallIs DEF Succeed, Fail, SafeInv
  <2>2. CASE Goto(w, "rmSocketDir")
    <3>1. call'[w].pc = "rmSocketDir"
      BY <2>2, GotoIs DEF SafeInv
    <3>. QED  BY <3>1, NothingHeld DEF OverlayPC, DeletePC
  <2>. QED  BY <2>1, <2>2 DEF Export, Unexport, RemoveSocketDir
<1>. QED  BY <1>1, <1>2, StepSafe

LEMMA SafeDeleteVolume ==
  ASSUME OneCall, SafeInv, NEW w \in Workers, NEW id \in Volumes, DeleteVolume(w, id)
  PROVE  SafeInv'
<1>. DEFINE c == NewCall("DeleteVolume", id, None)
            Known == id \in DOMAIN activeLayers /\ activeLayers[id] \in DOMAIN images
<1>1. c \in Call /\ TypeInv
  BY NewCallFields DEF Op, ImageID, SafeInv
<1>. HIDE DEF c
<1>2. TypeInv'
  BY TypeDeleteVolume DEF SafeInv
<1>3. UNCHANGED nodes /\ (UNCHANGED images \/ (id \in DOMAIN images /\ images' = DropVolumeRef(images, id)))
  BY DEF DeleteVolume, graphVars, memVars
<1>4. /\ MapInv' /\ DOMAIN images' = DOMAIN images
      /\ \A i \in DOMAIN images : Deref(i)' = Deref(i) /\ images'[i].RefCount = images[i].RefCount
  BY <1>3, DropRefKept, ShapeKept DEF SafeInv, Deref
<1>5. ReferencedHasNode'
  BY <1>3, <1>4 DEF SafeInv, ReferencedHasNode
<1>6. CallHolds(w)'
  <2>1. CASE ~Known
    BY <1>1, <2>1, DoneHolds DEF DeleteVolume, c
  <2>2. CASE Known /\ DeletableVolume(id)
    <3>1. id \in DOMAIN images /\ images[id].RefCount < 1
      BY <2>2 DEF DeletableVolume
    <3>2. Become(w, At(c, "blockdevDel", id, Deref(id)))
      BY <2>2 DEF DeleteVolume, c
    <3>. QED  BY <1>1, <1>4, <3>1, <3>2, VictimFound
  <2>3. CASE Known /\ ~DeletableVolume(id)
    <3>1. \/ id \in DOMAIN images /\ Become(w, At(c, "rmdir", id, Deref(id)))
          \/ Become(w, At(c, "rmdir", None, Nil))
      BY <2>3 DEF DeleteVolume, c
    <3>2. \A l \in ImageID \cup {None}, p \in Pointee \cup {Nil} : At(c, "rmdir", l, p).pc = "rmdir"
      BY <1>1, AtFields DEF PC
    <3>3. id \in DOMAIN images => Deref(id) \in Pointee
      BY <1>1, DerefType DEF TypeInv, TypeOK
    <3>4. call'[w].pc = "rmdir"
      BY <1>1, <3>1, <3>2, <3>3, CallIs DEF ImageID
    <3>. QED  BY <3>4, NothingHeld DEF OverlayPC, DeletePC
  <2>. QED  BY <2>1, <2>2, <2>3
<1>. QED  BY <1>2, <1>4, <1>5, <1>6, StepSafe

LEMMA SafeDeleteSnapshot ==
  ASSUME OneCall, SafeInv, NEW w \in Workers, NEW id \in Snapshots, NEW vol \in Volumes,
         DeleteSnapshot(w, id, vol)
  PROVE  SafeInv'
<1>. DEFINE c == NewCall("DeleteSnapshot", id, vol)
<1>1. c \in Call /\ TypeInv
  BY NewCallFields DEF Op, ImageID, SafeInv
<1>. HIDE DEF c
<1>2. TypeInv'
  BY TypeDeleteSnapshot DEF SafeInv
<1>3. UNCHANGED nodes /\ (UNCHANGED images \/ (id \in DOMAIN images /\ images' = DropVolumeRef(images, id)))
  BY DEF DeleteSnapshot, graphVars
<1>4. /\ MapInv' /\ DOMAIN images' = DOMAIN images
      /\ \A i \in DOMAIN images : Deref(i)' = Deref(i) /\ images'[i].RefCount = images[i].RefCount
  BY <1>3, DropRefKept, ShapeKept DEF SafeInv, Deref
<1>5. ReferencedHasNode'
  BY <1>3, <1>4 DEF SafeInv, ReferencedHasNode
<1>6. CallHolds(w)'
  <2>1. CASE id \notin DOMAIN images
    BY <1>1, <2>1, DoneHolds DEF DeleteSnapshot, c
  <2>2. CASE id \in DOMAIN images /\ DeletableSnapshot(id, vol)
    <3>1. images[id].RefCount < 1 /\ Become(w, At(c, "blockdevDel", id, Deref(id)))
      BY <2>2 DEF DeletableSnapshot, DeleteSnapshot, c
    <3>. QED  BY <1>1, <1>4, <2>2, <3>1, VictimFound
  <2>3. CASE id \in DOMAIN images /\ ~DeletableSnapshot(id, vol)
    <3>1. Become(w, CleanUp(c, images', images[id].BackingImageID))
      BY <2>3 DEF DeleteSnapshot, c
    <3>. QED  BY <1>1, <1>2, <1>4, <3>1, CleanUpHolds
  <2>. QED  BY <2>1, <2>2, <2>3
<1>. QED  BY <1>2, <1>4, <1>5, <1>6, StepSafe

(* The node that goes is that of an unreferenced layer, and only of that.  *)
LEMMA SafeDelNode ==
  ASSUME OneCall, DistinctQSDIDs, SafeInv, NEW w \in Workers, DelNode(w) \/ RemoveFile(w)
  PROVE  SafeInv'
<1>. DEFINE c == call[w]
<1>1. c \in Call /\ CallHolds(w) /\ TypeInv /\ MemTypeOK
      /\ c.pc \in {"blockdevDel", "remove"} /\ UNCHANGED images
  BY CallIs DEF SafeInv, CallsHold, CallHolds, DelNode, RemoveFile, TypeInv, TypeOK, memVars
<1>2. TypeInv' /\ MapInv'
  BY <1>1, TypeDelNode, ShapeKept DEF SafeInv
<1>3. c.layer \in DOMAIN images /\ images[c.layer].RefCount < 1 /\ c.ptr = Deref(c.layer)
  BY <1>1 DEF CallHolds, VictimUnused, DeletePC
<1>4. ReferencedHasNode'
  <2>. SUFFICES ASSUME NEW i \in DOMAIN images, images[i].RefCount > 0
                PROVE  QSDID[i] \in DOMAIN nodes'
    BY <1>1 DEF ReferencedHasNode
  <2>1. QSDID[i] \in DOMAIN nodes
    BY DEF SafeInv, ReferencedHasNode
  <2>2. i # c.layer
    BY <1>1, <1>3 DEF MemTypeOK, QCOWImage
  <2>3. QSDID[i] # QSDID[c.layer]
    BY <1>1, <1>3, <2>2 DEF MemTypeOK, DistinctQSDIDs
  <2>. QED  BY <2>1, <2>3 DEF DelNode, RemoveFile, BlockdevDel, Drop, graphVars
<1>5. CallHolds(w)'
  <2>1. CASE Fail(w)
    BY <1>1, <2>1, DoneHolds DEF Fail
  <2>2. ASSUME NEW pc \in {"remove", "release"}, Goto(w, pc)
        PROVE  CallHolds(w)'
    <3>1. call'[w].pc = pc /\ call'[w].layer = c.layer /\ call'[w].ptr = c.ptr
      BY <1>1, <2>2, GotoIs
    <3>. QED
      BY <1>1, <1>3, <3>1 DEF CallHolds, BaseHeld, NewUnused, VictimUnused, OverlayPC, DeletePC, Deref
  <2>. QED  BY <2>1, <2>2 DEF DelNode, RemoveFile
<1>. QED  BY <1>2, <1>4, <1>5, StepSafe

(* What releasing layer l, backed by b, does to the map of images.         *)
Removes(l, b) ==
  /\ l \in DOMAIN images /\ b = images[l].BackingImageID
  /\ Overlays(l) = {}
  /\ DOMAIN images' = DOMAIN images \ {l}
  /\ \A i \in DOMAIN images' :
       /\ images'[i].BackingImageID = images[i].BackingImageID
       /\ images'[i].File = images[i].File
       /\ images'[i].Depth = images[i].Depth
       /\ images'[i].RefCount = images[i].RefCount - (IF i = b THEN 1 ELSE 0)
       /\ images[i].RefCount \in Int

(* The entry that goes is a leaf, so its backing image has one overlay and *)
(* one reference less, and no other image changes.                         *)
LEMMA ReleaseEffect ==
  ASSUME SafeInv, NEW w \in Workers, Release(w)
  PROVE  \E l, b : /\ Removes(l, b)
                   /\ \/ Goto(w, "rmdir")
                      \/ Become(w, CleanUp(call[w], images', b))
<1>. DEFINE c == call[w]
<1>. PICK l, b : l = c.layer /\ b = c.ptr.BackingImageID
  OBVIOUS
<1>1. c \in Call /\ CallHolds(w) /\ TypeInv /\ MemTypeOK /\ c.pc = "release"
  BY CallIs DEF SafeInv, CallsHold, CallHolds, Release, TypeInv, TypeOK
<1>2. l \in DOMAIN images /\ images[l].RefCount < 1 /\ b = images[l].BackingImageID
  BY <1>1 DEF CallHolds, VictimUnused, DeletePC, Deref
<1>3. Overlays(l) = {}
  BY <1>1, <1>2, UnreferencedIsLeaf DEF SafeInv, MapInv
<1>4. b # None => b \in DOMAIN images /\ b # l
  BY <1>2, <1>3 DEF SafeInv, MapInv, BackingChain, Overlays
<1>5. /\ images' = WithoutImage(images, l, b)
      /\ Goto(w, "rmdir") \/ Become(w, CleanUp(call[w], images', b))
  BY <1>4 DEF Release
<1>6. Removes(l, b)
  <2>1. CASE b = None
    <3>1. images' = Drop(images, l)
      BY <1>5, <2>1 DEF WithoutImage
    <3>. QED
      BY <1>1, <1>2, <1>3, <2>1, <3>1, ConstantsAssumption DEF Removes, Drop, MemTypeOK, QCOWImage
  <2>2. CASE b # None
    <3>1. images' = Drop([images EXCEPT ![b].RefCount = @ - 1], l)
      BY <1>5, <2>2 DEF WithoutImage
    <3>. QED
      BY <1>1, <1>2, <1>3, <1>4, <2>2, <3>1 DEF Removes, Drop, MemTypeOK, QCOWImage
  <2>. QED  BY <2>1, <2>2
<1>. QED  BY <1>5, <1>6

LEMMA SafeRelease ==
  ASSUME OneCall, SafeInv, NEW w \in Workers, Release(w)
  PROVE  SafeInv'
<1>1. call[w] \in Call /\ TypeInv /\ MemTypeOK /\ UNCHANGED nodes
  BY CallIs DEF SafeInv, Release, TypeInv, TypeOK, graphVars
<1>2. TypeInv'
  BY TypeRelease DEF SafeInv
<1>3. PICK l, b : /\ Removes(l, b)
                  /\ Goto(w, "rmdir") \/ Become(w, CleanUp(call[w], images', b))
  BY ReleaseEffect
<1>4. BackingChain'
  <2>. SUFFICES ASSUME NEW i \in DOMAIN images'
                PROVE  LET x == images'[i].BackingImageID IN
                       IF x = None THEN images'[i].Depth = 0
                       ELSE x \in DOMAIN images' /\ images'[i].Depth = images'[x].Depth + 1
    BY DEF BackingChain
  <2>1. i \in DOMAIN images /\ images[i].BackingImageID # l
    BY <1>3 DEF Removes, Overlays
  <2>. QED  BY <1>3, <2>1 DEF SafeInv, MapInv, BackingChain, Removes
<1>5. RefCountCovers'
  <2>. SUFFICES ASSUME NEW i \in DOMAIN images'
                PROVE  Cardinality(Overlays(i)') <= images'[i].RefCount
    BY DEF RefCountCovers
  <2>1. /\ i \in DOMAIN images /\ Cardinality(Overlays(i)) <= images[i].RefCount
        /\ IsFiniteSet(Overlays(i)) /\ Cardinality(Overlays(i)) \in Nat
    BY <1>1, <1>3, OverlaysFinite DEF SafeInv, MapInv, RefCountCovers, Removes
  <2>2. Overlays(i)' = Overlays(i) \ {l}
    BY <1>3 DEF Overlays, Removes
  <2>3. l \in Overlays(i) <=> i = b
    BY <1>3 DEF Overlays, Removes
  <2>4. Cardinality(Overlays(i)') = Cardinality(Overlays(i)) - (IF i = b THEN 1 ELSE 0)
    BY <2>1, <2>2, <2>3, OneLess
  <2>. QED  BY <1>3, <2>1, <2>4 DEF Removes
<1>6. ReferencedHasNode'
  <2>. SUFFICES ASSUME NEW i \in DOMAIN images', images'[i].RefCount > 0
                PROVE  QSDID[i] \in DOMAIN nodes
    BY <1>1 DEF ReferencedHasNode
  <2>1. i \in DOMAIN images /\ images[i].RefCount > 0
    BY <1>3 DEF Removes
  <2>. QED  BY <2>1 DEF SafeInv, ReferencedHasNode
<1>7. CallHolds(w)'
  <2>1. CASE Goto(w, "rmdir")
    <3>1. call'[w].pc = "rmdir"
      BY <1>1, <2>1, GotoIs
    <3>. QED  BY <3>1, NothingHeld DEF OverlayPC, DeletePC
  <2>2. CASE Become(w, CleanUp(call[w], images', b))
    <3>1. b \in DOMAIN images' => b \in DOMAIN images /\ Deref(b)' = Deref(b)
      BY <1>3 DEF Removes, Deref
    <3>. QED  BY <1>1, <1>2, <2>2, <3>1, CleanUpHolds
  <2>. QED  BY <1>3, <2>1, <2>2
<1>. QED  BY <1>2, <1>4, <1>5, <1>6, <1>7, StepSafe DEF MapInv

LEMMA SafeRemoveDir ==
  ASSUME OneCall, SafeInv, NEW w \in Workers, RemoveDir(w)
  PROVE  SafeInv'
<1>. DEFINE c == call[w]
            b == c.ptr.BackingImageID
<1>1. c \in Call /\ TypeInv /\ UNCHANGED images
  BY CallIs DEF SafeInv, RemoveDir, memVars
<1>2. TypeInv' /\ MapInv' /\ ReferencedHasNode'
  BY TypeRemoveDir, ImagesKept DEF SafeInv, RemoveDir, memVars, graphVars
<1>3. CallHolds(w)'
  <2>1. CASE call' = [x \in Workers |-> At(call[x], "panicked", None, Nil)]
    <3>1. call'[w].pc = "panicked"
      <4>1. "panicked" \in PC
        BY DEF PC
      <4>2. At(c, "panicked", None, Nil).pc = "panicked"
        BY <1>1, <4>1, AtFields
      <4>. QED  BY <2>1, <4>2
    <3>. QED  BY <3>1, NothingHeld DEF OverlayPC, DeletePC
  <2>2. CASE Become(w, CleanUp(c, images, b))
    <3>1. Become(w, CleanUp(c, images', b))
      BY <1>1, <2>2
    <3>2. \A x : x \in DOMAIN images' => x \in DOMAIN images /\ Deref(x)' = Deref(x)
      BY <1>1 DEF Deref
    <3>. QED  BY <1>1, <1>2, <3>1, <3>2, CleanUpHolds
  <2>3. CASE Fail(w)
    BY <1>1, <2>3, DoneHolds DEF Fail
  <2>. QED  BY <2>1, <2>2, <2>3 DEF RemoveDir
<1>. QED  BY <1>2, <1>3, StepSafe

LEMMA SafeReply ==
  ASSUME OneCall, SafeInv, NEW w \in Workers, Reply(w)
  PROVE  SafeInv'
<1>1. TypeInv' /\ MapInv' /\ ReferencedHasNode'
  BY TypeReply, ImagesKept DEF SafeInv, Reply, memVars, graphVars
<1>2. call'[w].pc = "idle"
  BY CallIs DEF SafeInv, Reply, NoCall
<1>3. CallHolds(w)'
  BY <1>2, NothingHeld DEF OverlayPC, DeletePC
<1>. QED  BY <1>1, <1>3, StepSafe

(* Without images and calls there is nothing to keep.                      *)
LEMMA NothingIsSafe ==
  ASSUME images = Empty, call = [w \in Workers |-> NoCall]
  PROVE  MapInv /\ ReferencedHasNode /\ CallsHold
<1>1. DOMAIN images = {}
  BY DEF Empty
<1>2. \A w \in Workers : call[w].pc = "idle"
  BY DEF NoCall
<1>. QED
  BY <1>1, <1>2 DEF MapInv, BackingChain, RefCountCovers, ReferencedHasNode, CallsHold,
                    BaseHeld, NewUnused, VictimUnused, OverlayPC, DeletePC

LEMMA SafeRestart ==
  ASSUME SafeInv, Restart
  PROVE  SafeInv'
<1>1. TypeInv'
  BY TypeRestart DEF SafeInv
<1>2. images' = Empty /\ call' = [w \in Workers |-> NoCall]
  BY DEF Restart
<1>3. DOMAIN images' = {}
  BY <1>2 DEF Empty
<1>4. \A w \in Workers : call'[w].pc = "idle"
  BY <1>2 DEF NoCall
<1>. QED
  BY <1>1, <1>3, <1>4
  DEF SafeInv, MapInv, BackingChain, RefCountCovers, ReferencedHasNode, CallsHold,
      BaseHeld, NewUnused, VictimUnused, OverlayPC, DeletePC

LEMMA SafeInductive ==
  ASSUME OneCall, DistinctQSDIDs
  PROVE  Spec => []SafeInv
<1>1. Init => SafeInv
  <2>1. Init => TypeInv
    BY ConstantsAssumption, NoCallType
    DEF Init, GraphInit, Empty, TypeInv, TypeOK, GraphTypeOK, MemTypeOK, FsTypeOK, CallTypeInv
  <2>. QED  BY <2>1, NothingIsSafe DEF Init, SafeInv
<1>2. SafeInv /\ [Next]_vars => SafeInv'
  <2>. SUFFICES ASSUME SafeInv, [Next]_vars
                PROVE  SafeInv'
    OBVIOUS
  <2>1. CASE Restart
    BY <2>1, SafeRestart
  <2>2. ASSUME NEW w \in Workers, Begin(w)
        PROVE  SafeInv'
    BY <2>2, SafeCreateVolume, SafeCreateSnapshot, SafeExposeVhostUser, SafeDeleteVolume,
       SafeDeleteSnapshot DEF Begin
  <2>3. ASSUME NEW w \in Workers, Continue(w)
        PROVE  SafeInv'
    BY <2>3, SafeQemuImgCreate, SafeAddNode, SafeAppend, SafeStore, SafeExport,
       SafeDelNode, SafeRelease, SafeRemoveDir, SafeReply DEF Continue
  <2>4. CASE UNCHANGED vars
    BY <2>4 DEF vars, graphVars, memVars, fsVars, SafeInv, TypeInv, CallTypeInv, TypeOK,
               GraphTypeOK, MemTypeOK, FsTypeOK, MapInv, BackingChain, RefCountCovers, Overlays,
               ReferencedHasNode, CallsHold, BaseHeld, NewUnused, VictimUnused, Deref
  <2>. QED  BY <2>1, <2>2, <2>3, <2>4 DEF Next
<1>. QED  BY <1>1, <1>2, PTL DEF Spec

(* One call at a time, whatever command fails and whenever the server      *)
(* restarts: the backing image that deleteImage and CreateVolume look up   *)
(* is there, and Depth counts the layers below.                            *)
THEOREM ChainsWhole ==
  ASSUME OneCall, DistinctQSDIDs
  PROVE  Spec => []BackingChain
<1>1. SafeInv => BackingChain
  BY DEF SafeInv, MapInv
<1>. QED  BY <1>1, SafeInductive, PTL

(* Under the same hypotheses no image with a reference has lost its node   *)
(* in the daemon, so that a clone or snapshot can be put on top of it.     *)
THEOREM ReferencedStayInGraph ==
  ASSUME OneCall, DistinctQSDIDs
  PROVE  Spec => []ReferencedHasNode
<1>1. SafeInv => ReferencedHasNode
  BY DEF SafeInv
<1>. QED  BY <1>1, SafeInductive, PTL

-----------------------------------------------------------------------------
(* The backing chains end: of any layers one of least depth is backed by   *)
(* none of the others.                                                     *)
Deepens ==
  \A i \in DOMAIN images :
    images[i].BackingImageID \in DOMAIN images =>
      images[i].Depth = images[images[i].BackingImageID].Depth + 1

LEMMA ChainsEnd ==
  ASSUME MemTypeOK, Deepens
  PROVE  LayersAcyclic
<1>. SUFFICES ASSUME NEW S \in SUBSET DOMAIN images, S # {}
              PROVE  \E i \in S : ParentOf[i] \notin S
  BY DEF LayersAcyclic, Forest!Acyclic, ParentOf
<1>. DEFINE D == {images[i].Depth : i \in S}
<1>1. D \subseteq Nat /\ D # {}
  BY DEF MemTypeOK, QCOWImage
<1>2. PICK d \in D : \A e \in D : ~(<<e, d>> \in OpToRel(<, Nat))
  BY <1>1, NatLessThanWellFounded, WFMin
<1>3. \A e \in D : ~(e < d)
  BY <1>1, <1>2 DEF OpToRel
<1>4. PICK i \in S : images[i].Depth = d
  BY <1>2
<1>5. i \in DOMAIN images /\ ParentOf[i] = images[i].BackingImageID /\ None \notin S
  BY <1>4, ConstantsAssumption DEF ParentOf, MemTypeOK
<1>6. ASSUME images[i].BackingImageID \in S
      PROVE  FALSE
  <2>. DEFINE b == images[i].BackingImageID
  <2>1. b \in DOMAIN images /\ images[i].Depth = images[b].Depth + 1
    BY <1>5, <1>6 DEF Deepens
  <2>2. images[b].Depth \in D /\ images[b].Depth \in Nat
    BY <1>6, <2>1 DEF MemTypeOK, QCOWImage
  <2>3. ~(images[b].Depth < d)
    BY <1>3, <2>2
  <2>. QED  BY <1>4, <2>1, <2>2, <2>3
<1>. QED  BY <1>5, <1>6

-----------------------------------------------------------------------------
(* The server implements the forest of layers.                             *)

LEMMA AddsIsForestAdd ==
  ASSUME BackingChain, NEW id, NEW b, Adds(id, b)
  PROVE  Forest!Next
<1>1. /\ DOMAIN ParentOf = DOMAIN images /\ DOMAIN ParentOf' = DOMAIN images \cup {id}
      /\ \A i \in DOMAIN images : ParentOf[i] = images[i].BackingImageID
  BY DEF ParentOf, Adds
<1>2. ParentOf' = Forest!Put(ParentOf, id, b)
  BY <1>1 DEF ParentOf, Adds, Forest!Put
<1>3. Forest!IsLeaf(id)
  BY <1>1 DEF Adds, Overlays, Forest!IsLeaf
<1>4. b \in DOMAIN ParentOf \cup {None} /\ b # id
  BY <1>1 DEF Adds
<1>. QED  BY <1>2, <1>3, <1>4 DEF Forest!Next, Forest!Add, Adds

LEMMA RemovesIsForestRemove ==
  ASSUME MemTypeOK, NEW l, NEW b, Removes(l, b)
  PROVE  Forest!Next
<1>1. l \in ImageID /\ DOMAIN ParentOf = DOMAIN images
      /\ \A i \in DOMAIN images : ParentOf[i] = images[i].BackingImageID
  BY DEF MemTypeOK, ParentOf, Removes
<1>2. ParentOf' = Forest!Drop(ParentOf, l)
  BY <1>1 DEF ParentOf, Removes, Forest!Drop
<1>3. l \in DOMAIN ParentOf /\ Forest!IsLeaf(l)
  BY <1>1 DEF Removes, Overlays, Forest!IsLeaf
<1>. QED  BY <1>1, <1>2, <1>3 DEF Forest!Next, Forest!RemoveLeaf

LEMMA SameLinks ==
  ASSUME DOMAIN images' = DOMAIN images,
         \A i \in DOMAIN images : images'[i].BackingImageID = images[i].BackingImageID
  PROVE  UNCHANGED ParentOf
  BY DEF ParentOf

(* One call at a time, whatever fails: the images only ever grow and       *)
(* shrink at the leaves, so what is true of every forest is true of them.  *)
THEOREM ServerKeepsForest ==
  ASSUME OneCall, DistinctQSDIDs
  PROVE  Spec => ImplementsForest
<1>1. Init => Forest!Init
  BY DEF Init, Empty, ParentOf, Forest!Init
<1>2. SafeInv /\ [Next]_vars => [Forest!Next]_ParentOf
  <2>. SUFFICES ASSUME SafeInv, [Next]_vars
                PROVE  Forest!Next \/ UNCHANGED ParentOf
    OBVIOUS
  <2>0. MemTypeOK /\ BackingChain
    BY DEF SafeInv, TypeInv, TypeOK, MapInv
  <2>1. CASE UNCHANGED images
    BY <2>1, SameLinks
  <2>2. CASE Restart
    BY <2>2 DEF Restart, Empty, ParentOf, Forest!Next, Forest!Lose
  <2>3. ASSUME NEW id \in DOMAIN images, images' = DropVolumeRef(images, id)
        PROVE  UNCHANGED ParentOf
    <3>1. /\ DOMAIN images' = DOMAIN images
          /\ \A i \in DOMAIN images : images'[i].BackingImageID = images[i].BackingImageID
      BY <2>0, <2>3 DEF DropVolumeRef, MemTypeOK, QCOWImage
    <3>. QED  BY <3>1, SameLinks
  <2>4. ASSUME NEW w \in Workers, Begin(w)
        PROVE  Forest!Next \/ UNCHANGED ParentOf
    BY <2>1, <2>3, <2>4 DEF Begin, CreateVolume, CreateSnapshot, ExposeVhostUser, DeleteExporter,
                            DeleteVolume, DeleteSnapshot, memVars
  <2>5. ASSUME NEW w \in Workers, Continue(w)
        PROVE  Forest!Next \/ UNCHANGED ParentOf
    <3>1. CASE Store(w)
      BY <2>0, <3>1, StoreEffect, AddsIsForestAdd
    <3>2. CASE Release(w)
      BY <2>0, <3>2, ReleaseEffect, RemovesIsForestRemove
    <3>. QED
      BY <2>1, <2>5, <3>1, <3>2
      DEF Continue, QemuImgCreate, AddNode, Append, Export, Unexport, RemoveSocketDir, DelNode,
          RemoveFile, RemoveDir, Reply, memVars
  <2>. QED  BY <2>1, <2>2, <2>4, <2>5 DEF Next, vars, memVars
<1>. QED  BY <1>1, <1>2, SafeInductive, PTL DEF Spec, ImplementsForest, Forest!Spec
=============================================================================
