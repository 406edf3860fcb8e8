------------------------ MODULE QSDServerConcurrent ------------------------
(***************************************************************************)
(* QSDServer with any number of handlers in progress and whatever fails:   *)
(* for callers that keep to MayCall and MayCreate, or make one call at a   *)
(* time (ConstantsAssumption).                                             *)
(*                                                                         *)
(* Who owns an image: the inductive invariant OwnInv joins ActiveHasVolume *)
(* to what the calls in progress may rely on because no other call names   *)
(* their ids: a snapshot's volume keeps its active layer, a new id has not *)
(* been used, and a layer that is being deleted is the call's own or has   *)
(* no owner.                                                               *)
(*                                                                         *)
(* What holds an image in place: GraphInv joins StoreHasBase and           *)
(* ExportHasVolume to the daemon's graph, which refuses to delete a node   *)
(* that something is stacked on; FilesInv adds the files.                  *)
(*                                                                         *)
(* What the counts say: CountInv and DepthInv, for handlers that read a    *)
(* RefCount in one step and act on it in another.                          *)
(*                                                                         *)
(* The last part is about one call at a time, without failing commands:    *)
(* MirrorInv, that the daemon's graph is the one the server has recorded.  *)
(***************************************************************************)
EXTENDS QSDServerProofs

NamesApart ==
  \A w, x \in Workers : w # x => Named(call[w]) \cap Named(call[x]) = {}

(* Disciplined callers do not use an id again: what is in the map has been *)
(* taken, and what a call creates has not.                                 *)
IdsTaken ==
  Disciplined => /\ DOMAIN images \subseteq taken
                 /\ \A w \in Workers : call[w].pc \in CreatePC => call[w].id \notin taken

SourceActive(c, al) ==
  c.pc \in CreatePC /\ c.op = "CreateSnapshot" => c.from \in DOMAIN al

(* A layer without an owner: its volume or snapshot has been deleted.      *)
Orphan(im, i) == i \in DOMAIN im => im[i].VolumeRef = None

VictimOwned(c, im, ids) ==
  /\ c.pc \in RemovePC => c.op \in Deleting /\ (c.op = "DeleteSnapshot" => c.id \in Snapshots)
  /\ c.pc \in DeletePC => /\ c.layer = c.id \/ Orphan(im, c.layer)
                          /\ Disciplined => c.layer \in ids

Owned(c, im, al, ids) == SourceActive(c, al) /\ VictimOwned(c, im, ids)
OwnInv ==
  /\ TypeInv /\ NamesApart /\ IdsTaken /\ ActiveHasVolume
  /\ \A w \in Workers : Owned(call[w], images, activeLayers, taken)

USE DEF CreatePC, OverlayPC, DeletePC, RemovePC

-----------------------------------------------------------------------------
(* What a call relies on lasts while the maps keep it.                     *)

LEMMA OwnedNext ==
  ASSUME NEW c, NEW im, NEW al, NEW ids, Owned(c, im, al, ids),
         NEW d, NEW jm, NEW bl, NEW jds, Proceeds(c, d, jm),
         ids \subseteq jds, Disciplined => DOMAIN jm \subseteq jds,
         d.pc \in CreatePC /\ c.op = "CreateSnapshot" /\ c.from \in DOMAIN al => c.from \in DOMAIN bl,
         d.pc \in DeletePC /\ c.pc \in DeletePC /\ Orphan(im, c.layer) => Orphan(jm, c.layer)
  PROVE  Owned(d, jm, bl, jds)
<1>1. CASE d = NoCall
  BY <1>1 DEF Owned, SourceActive, VictimOwned, NoCall
<1>2. CASE SameNames(d, c)
  <2>1. SourceActive(d, bl)
    BY <1>2 DEF Owned, SourceActive, Proceeds, SameNames
  <2>2. d.pc \in RemovePC => d.op \in Deleting /\ (d.op = "DeleteSnapshot" => d.id \in Snapshots)
    BY <1>2 DEF Owned, VictimOwned, Proceeds, SameNames
  <2>3. ASSUME d.pc \in DeletePC
        PROVE  /\ d.layer = d.id \/ Orphan(jm, d.layer)
               /\ Disciplined => d.layer \in jds
    <3>1. CASE c.pc \in DeletePC /\ d.layer = c.layer
      BY <1>2, <2>3, <3>1 DEF Owned, VictimOwned, SameNames
    <3>2. CASE Collectable(jm, d.layer)
      BY <3>2 DEF Collectable, Orphan
    <3>. QED  BY <2>3, <3>1, <3>2 DEF Proceeds
  <2>. QED  BY <2>1, <2>2, <2>3 DEF Owned, VictimOwned
<1>. QED  BY <1>1, <1>2 DEF Proceeds

(* A call that has just begun, or is done, relies on nothing yet.          *)
LEMMA OwnedIdle ==
  ASSUME NEW c, c.pc \notin CreatePC \cup RemovePC, NEW im, NEW al, NEW ids
  PROVE  Owned(c, im, al, ids)
  BY DEF Owned, SourceActive, VictimOwned

-----------------------------------------------------------------------------
(* Names stay apart: a step forgets names, or takes those MayCall allows.  *)

LEMMA ContinueNames ==
  ASSUME OwnInv, NEW w \in Workers, Continue(w)
  PROVE  NamesApart'
<1>1. ASSUME NEW x \in Workers
      PROVE  Named(call'[x]) \subseteq Named(call[x])
  <2>1. SameNames(call'[x], call[x]) \/ call'[x] = NoCall
    BY ContinueProceeds DEF OwnInv, Proceeds
  <2>. QED  BY <2>1 DEF SameNames, Named, NoCall
<1>. QED  BY <1>1 DEF OwnInv, NamesApart

LEMMA BeginNames ==
  ASSUME OwnInv, NEW w \in Workers, NEW c, Become(w, c),
         NEW ids, Named(c) \subseteq ids, MayCall(w, ids)
  PROVE  /\ NamesApart'
         /\ \A x \in Workers \ {w} : call'[x] = call[x] /\ Named(call[x]) \cap ids = {}
<1>1. call'[w] = c /\ \A x \in Workers \ {w} : call'[x] = call[x]
  BY DEF OwnInv, TypeInv, TypeOK, Become
<1>2. \A x \in Workers \ {w} : Disciplined
  BY ConstantsAssumption
<1>3. \A x \in Workers \ {w} : Named(call[x]) \cap ids = {}
  BY <1>2 DEF MayCall
<1>. QED  BY <1>1, <1>3 DEF OwnInv, NamesApart

-----------------------------------------------------------------------------
(* The steps of a handler.                                                 *)

(* Whatever the calls rely on after a step, if the maps keep it.           *)
LEMMA ContinueOwned ==
  ASSUME OwnInv, NEW w \in Workers, Continue(w),
         taken \subseteq taken', (Disciplined => DOMAIN images \subseteq taken)',
         \A x \in Workers :
           /\ /\ call'[x].pc \in CreatePC /\ call[x].op = "CreateSnapshot"
              /\ call[x].from \in DOMAIN activeLayers
              => call[x].from \in DOMAIN activeLayers'
           /\ /\ call'[x].pc \in DeletePC /\ call[x].pc \in DeletePC
              /\ Orphan(images, call[x].layer)
              => Orphan(images', call[x].layer)
  PROVE  \A x \in Workers : Owned(call'[x], images', activeLayers', taken')
<1>1. ASSUME NEW x \in Workers
      PROVE  Owned(call'[x], images', activeLayers', taken')
  <2>1. Owned(call[x], images, activeLayers, taken) /\ Proceeds(call[x], call'[x], images')
    BY ContinueProceeds DEF OwnInv
  <2>. QED  BY <2>1, OwnedNext
<1>. QED  BY <1>1

LEMMA OwnQuiet ==
  ASSUME OwnInv, TypeInv', NEW w \in Workers, Continue(w), UNCHANGED <<memVars, taken>>
  PROVE  OwnInv'
<1>1. NamesApart'
  BY ContinueNames
<1>2. IdsTaken'
  <2>1. \A x \in Workers : Proceeds(call[x], call'[x], images')
    BY ContinueProceeds DEF OwnInv
  <2>2. \A x \in Workers : call'[x].pc \in CreatePC =>
          call[x].pc \in CreatePC /\ call'[x].id = call[x].id
    BY <2>1 DEF Proceeds, SameNames, NoCall
  <2>. QED  BY <2>2 DEF OwnInv, IdsTaken, memVars
<1>3. \A x \in Workers : Owned(call'[x], images', activeLayers', taken')
  BY ContinueOwned DEF OwnInv, IdsTaken, memVars
<1>4. ActiveHasVolume'
  BY DEF OwnInv, ActiveHasVolume, memVars
<1>. QED  BY <1>1, <1>2, <1>3, <1>4 DEF OwnInv

LEMMA OwnStore ==
  ASSUME OwnInv, TypeInv', NEW w \in Workers, Store(w)
  PROVE  OwnInv'
<1>. DEFINE c == call[w]
            im == IF c.layer = None THEN images ELSE WithRef(images, c.layer)
<1>1. /\ c \in Call /\ CallOK(c) /\ c.pc = "store"
      /\ images' = Put(im, c.id, NewImage(c))
      /\ activeLayers' = Put(activeLayers, TopOf(c), c.id)
      /\ taken' = (IF Disciplined THEN taken \cup {c.id} ELSE taken)
      /\ Continue(w)
  BY DEF OwnInv, TypeInv, CallTypeInv, Store, Continue
<1>2. /\ DOMAIN im = DOMAIN images
      /\ \A i \in DOMAIN images : im[i].VolumeRef = images[i].VolumeRef
  BY DEF WithRef, OwnInv, TypeInv, TypeOK, MemTypeOK, QCOWImage
<1>3. /\ DOMAIN images' = DOMAIN images \cup {c.id}
      /\ images'[c.id].VolumeRef = c.id
      /\ \A i \in DOMAIN images \ {c.id} : images'[i].VolumeRef = images[i].VolumeRef
  BY <1>1, <1>2 DEF Put, NewImage
<1>4. /\ DOMAIN activeLayers' = DOMAIN activeLayers \cup {TopOf(c)}
      /\ TopOf(c) \in Volumes
  BY <1>1, FileOfType DEF Put
<1>5. call'[w].pc = "succeeded" /\ \A x \in Workers \ {w} : call'[x] = call[x]
  BY <1>1, AtKeeps DEF OwnInv, TypeInv, TypeOK, Store, Succeed, Become, Succeeded
<1>6. NamesApart'
  BY <1>1, ContinueNames
<1>7. IdsTaken'
  <2>1. ASSUME Disciplined, NEW x \in Workers, call'[x].pc \in CreatePC
        PROVE  call'[x].id \notin taken'
    <3>1. x # w /\ call'[x] = call[x]
      BY <1>5, <2>1
    <3>2. call[x].id # c.id
      <4>1. c.id \in ImageID /\ c.id # None
        BY <1>1, FileOfType, ConstantsAssumption
      <4>. QED  BY <3>1, <4>1 DEF OwnInv, NamesApart, Named
    <3>. QED  BY <1>1, <2>1, <3>1, <3>2 DEF OwnInv, IdsTaken
  <2>. QED  BY <1>1, <1>3, <2>1 DEF OwnInv, IdsTaken
<1>8. \A x \in Workers : Owned(call'[x], images', activeLayers', taken')
  <2>1. ASSUME NEW x \in Workers, call'[x].pc \in DeletePC, call[x].pc \in DeletePC,
               Orphan(images, call[x].layer)
        PROVE  Orphan(images', call[x].layer)
    <3>1. x # w
      BY <1>5, <2>1
    <3>2. Disciplined
      BY <3>1, ConstantsAssumption
    <3>3. call[x].layer # c.id
      BY <1>1, <2>1, <3>2 DEF OwnInv, Owned, VictimOwned, IdsTaken
    <3>. QED  BY <1>3, <2>1, <3>3 DEF Orphan
  <2>. QED  BY <1>1, <1>4, <1>7, <2>1, ContinueOwned DEF IdsTaken
<1>9. ActiveHasVolume'
  <2>. SUFFICES ASSUME NEW v \in DOMAIN activeLayers'
                PROVE  v \in DOMAIN images' /\ images'[v].VolumeRef = v
    BY DEF ActiveHasVolume
  <2>1. CASE v = c.id
    BY <1>3, <2>1
  <2>2. CASE v # c.id
    <3>1. v \in DOMAIN activeLayers
      <4>1. CASE v = TopOf(c)
        BY <1>1, <2>2, <4>1 DEF TopOf, CallOK, OwnInv, Owned, SourceActive
      <4>. QED  BY <1>4, <4>1
    <3>. QED  BY <1>3, <2>2, <3>1 DEF OwnInv, ActiveHasVolume
  <2>. QED  BY <2>1, <2>2
<1>. QED  BY <1>6, <1>7, <1>8, <1>9 DEF OwnInv

(* What Release does to the maps.                                          *)
LEMMA ReleaseMaps ==
  ASSUME OwnInv, NEW w \in Workers, Release(w)
  PROVE  /\ \/ UNCHANGED images
            \/ DOMAIN images' = DOMAIN images \ {call[w].layer}
         /\ \A i \in DOMAIN images' : i \in DOMAIN images /\ images'[i].VolumeRef = images[i].VolumeRef
         /\ DOMAIN images' # DOMAIN images /\ DeletesItself(call[w]) =>
               DOMAIN activeLayers' = DOMAIN activeLayers \ {call[w].id}
         /\ DOMAIN activeLayers \ {call[w].id} \subseteq DOMAIN activeLayers'
         /\ DOMAIN activeLayers' \subseteq DOMAIN activeLayers
         /\ taken' = taken
<1>. DEFINE b == call[w].ptr.BackingImageID
<1>1. CASE UNCHANGED memVars
  BY <1>1 DEF memVars, Release
<1>2. CASE images' = WithoutImage(images, call[w].layer, b)
  <2>1. /\ DOMAIN images' = DOMAIN images \ {call[w].layer}
        /\ \A i \in DOMAIN images' : images'[i].VolumeRef = images[i].VolumeRef
    BY <1>2 DEF WithoutImage, Drop, OwnInv, TypeInv, TypeOK, MemTypeOK, QCOWImage
  <2>. QED  BY <2>1 DEF Release, memVars, Forget, Drop
<1>. QED  BY <1>1, <1>2 DEF Release

LEMMA OwnRelease ==
  ASSUME OwnInv, TypeInv', NEW w \in Workers, Release(w)
  PROVE  OwnInv'
<1>. DEFINE c == call[w]
<1>1. c \in Call /\ CallOK(c) /\ c.pc = "release" /\ Continue(w)
  BY DEF OwnInv, TypeInv, CallTypeInv, Release, Continue
<1>2. NamesApart'
  BY <1>1, ContinueNames
<1>3. \A x \in Workers : Proceeds(call[x], call'[x], images')
  BY <1>1, ContinueProceeds DEF OwnInv
<1>4. IdsTaken'
  <2>1. \A x \in Workers : call'[x].pc \in CreatePC =>
          call[x].pc \in CreatePC /\ call'[x].id = call[x].id
    BY <1>3 DEF Proceeds, SameNames, NoCall
  <2>. QED  BY <2>1, ReleaseMaps DEF OwnInv, IdsTaken
<1>5. \A x \in Workers : Owned(call'[x], images', activeLayers', taken')
  <2>1. ASSUME NEW x \in Workers, call'[x].pc \in CreatePC, call[x].op = "CreateSnapshot",
               call[x].from \in DOMAIN activeLayers
        PROVE  call[x].from \in DOMAIN activeLayers'
    <3>1. x # w
      BY <1>1, <1>3, <2>1 DEF Proceeds
    <3>2. call[x].from # None
      BY <2>1, ConstantsAssumption DEF OwnInv, TypeInv, TypeOK, MemTypeOK, ImageID
    <3>3. call[x].from # c.id
      BY <3>1, <3>2 DEF OwnInv, NamesApart, Named
    <3>. QED  BY <2>1, <3>3, ReleaseMaps
  <2>2. ASSUME NEW x \in Workers, Orphan(images, call[x].layer)
        PROVE  Orphan(images', call[x].layer)
    BY <2>2, ReleaseMaps DEF Orphan
  <2>. QED  BY <1>1, <1>4, <2>1, <2>2, ReleaseMaps, ContinueOwned DEF IdsTaken
<1>6. ActiveHasVolume'
  <2>. SUFFICES ASSUME NEW v \in DOMAIN activeLayers'
                PROVE  v \in DOMAIN images'
    BY ReleaseMaps DEF OwnInv, ActiveHasVolume
  <2>0. v \in DOMAIN activeLayers
    BY ReleaseMaps
  <2>1. v \in DOMAIN images /\ images[v].VolumeRef = v /\ v \in Volumes /\ v # None
    <3>1. v \in DOMAIN images /\ images[v].VolumeRef = v
      BY <2>0 DEF OwnInv, ActiveHasVolume
    <3>2. v \in Volumes
      BY <2>0 DEF OwnInv, TypeInv, TypeOK, MemTypeOK
    <3>. QED  BY <3>1, <3>2, ConstantsAssumption DEF ImageID
  <2>2. SUFFICES ASSUME v = c.layer, DOMAIN images' # DOMAIN images
                 PROVE  FALSE
    BY <2>1, ReleaseMaps
  <2>3. c.layer = c.id
    BY <1>1, <2>1, <2>2 DEF OwnInv, Owned, VictimOwned, Orphan
  <2>4. c.op = "DeleteVolume"
    BY <1>1, <2>1, <2>2, <2>3, ConstantsAssumption DEF OwnInv, Owned, VictimOwned, Deleting
  <2>. QED  BY <2>2, <2>3, <2>4, ReleaseMaps DEF DeletesItself
<1>. QED  BY <1>2, <1>4, <1>5, <1>6 DEF OwnInv

-----------------------------------------------------------------------------
(* The first step of a handler.                                            *)

(* A handler that starts on c leaves the other calls what they rely on, if *)
(* it touches no volume and no image but those MayCall lets it name.       *)
LEMMA BeginOwned ==
  ASSUME OwnInv, TypeInv', NEW w \in Workers, NEW c, Become(w, c),
         NEW ids, Named(c) \subseteq ids, MayCall(w, ids),
         DOMAIN images' = DOMAIN images, taken' = taken,
         \A i \in DOMAIN images : images'[i].VolumeRef \in {images[i].VolumeRef, None},
         DOMAIN activeLayers \ ids \subseteq DOMAIN activeLayers',
         Disciplined /\ c.pc \in CreatePC => c.id \notin taken,
         Owned(c, images', activeLayers', taken'), ActiveHasVolume'
  PROVE  OwnInv'
<1>1. /\ NamesApart' /\ call'[w] = c
      /\ \A x \in Workers \ {w} : call'[x] = call[x] /\ Named(call[x]) \cap ids = {}
  BY BeginNames DEF OwnInv, TypeInv, TypeOK, Become
<1>2. IdsTaken'
  BY <1>1 DEF OwnInv, IdsTaken
<1>3. ASSUME NEW x \in Workers, x # w
      PROVE  Owned(call'[x], images', activeLayers', taken')
  <2>1. call'[x] = call[x] /\ Named(call[x]) \cap ids = {}
    BY <1>1, <1>3
  <2>2. ASSUME call[x].from \in DOMAIN activeLayers
        PROVE  call[x].from \in DOMAIN activeLayers'
    <3>1. call[x].from # None
      BY <2>2, ConstantsAssumption DEF OwnInv, TypeInv, TypeOK, MemTypeOK, ImageID
    <3>2. call[x].from \notin ids
      BY <2>1, <3>1 DEF Named
    <3>. QED  BY <2>2, <3>2
  <2>3. Orphan(images, call[x].layer) => Orphan(images', call[x].layer)
    BY DEF Orphan
  <2>4. Owned(call[x], images, activeLayers, taken) /\ Proceeds(call[x], call'[x], images')
    BY <2>1 DEF OwnInv, Proceeds, SameNames
  <2>. QED  BY <1>2, <2>2, <2>3, <2>4, OwnedNext DEF IdsTaken
<1>. QED  BY <1>1, <1>2, <1>3 DEF OwnInv

LEMMA OwnCreateVolume ==
  ASSUME OwnInv, TypeInv', NEW w \in Workers, NEW id \in Volumes, NEW src \in CloneSources \cup {None},
         MayCall(w, {id, src}), MayCreate(id), CreateVolume(w, id, src)
  PROVE  OwnInv'
<1>. DEFINE c == NewCall("CreateVolume", id, src)
<1>1. c \in Call /\ c.op = "CreateVolume" /\ c.id = id /\ c.from = src
  BY NewCallFields, ConstantsAssumption DEF Op, ImageID
<1>. HIDE DEF c
<1>2. ASSUME NEW d, SameNames(d, c), Become(w, d), d.pc \notin RemovePC
      PROVE  OwnInv'
  <2>1. Named(d) \subseteq {id, src} /\ d.op = "CreateVolume" /\ d.id = id
    BY <1>1, <1>2 DEF SameNames, Named
  <2>2. Owned(d, images', activeLayers', taken')
    BY <1>2, <2>1 DEF Owned, SourceActive, VictimOwned
  <2>3. UNCHANGED <<images, activeLayers, taken>>
    BY DEF CreateVolume, memVars
  <2>4. ActiveHasVolume'
    BY <2>3 DEF OwnInv, ActiveHasVolume
  <2>5. Disciplined => d.id \notin taken
    BY <2>1 DEF MayCreate
  <2>. QED  BY <1>2, <2>1, <2>2, <2>3, <2>4, <2>5, BeginOwned
<1>3. CASE Become(w, At(c, "createImage", None, Nil))
  <2>1. SameNames(At(c, "createImage", None, Nil), c) /\ At(c, "createImage", None, Nil).pc = "createImage"
    BY <1>1, AtKeeps
  <2>. QED  BY <1>2, <1>3, <2>1
<1>4. CASE Become(w, At(c, "createBacked", src, Deref(src)))
  <2>1. /\ SameNames(At(c, "createBacked", src, Deref(src)), c)
        /\ At(c, "createBacked", src, Deref(src)).pc = "createBacked"
    BY <1>1, AtKeeps
  <2>. QED  BY <1>2, <1>4, <2>1
<1>5. CASE Become(w, Failed(c))
  <2>1. SameNames(Failed(c), c) /\ Failed(c).pc = "failed"
    BY <1>1, AtKeeps DEF Failed
  <2>. QED  BY <1>2, <1>5, <2>1
<1>. QED  BY <1>3, <1>4, <1>5 DEF CreateVolume, c

LEMMA OwnCreateSnapshot ==
  ASSUME OwnInv, TypeInv', NEW w \in Workers, NEW id \in Snapshots, NEW vol \in Volumes,
         MayCall(w, {id, vol}), MayCreate(id), CreateSnapshot(w, id, vol)
  PROVE  OwnInv'
<1>. DEFINE c == NewCall("CreateSnapshot", id, vol)
            layer == activeLayers[vol]
<1>1. c \in Call /\ c.op = "CreateSnapshot" /\ c.id = id /\ c.from = vol
  BY NewCallFields DEF Op, ImageID
<1>. HIDE DEF c
<1>2. ASSUME NEW d, SameNames(d, c), Become(w, d), d.pc \notin RemovePC,
             d.pc \in CreatePC => vol \in DOMAIN activeLayers
      PROVE  OwnInv'
  <2>1. Named(d) \subseteq {id, vol} /\ d.id = id /\ d.from = vol
    BY <1>1, <1>2 DEF SameNames, Named
  <2>2. UNCHANGED <<images, activeLayers, taken>>
    BY DEF CreateSnapshot, memVars
  <2>3. Owned(d, images', activeLayers', taken')
    BY <1>2, <2>1, <2>2 DEF Owned, SourceActive, VictimOwned
  <2>4. ActiveHasVolume'
    BY <2>2 DEF OwnInv, ActiveHasVolume
  <2>5. Disciplined => d.id \notin taken
    BY <2>1 DEF MayCreate
  <2>. QED  BY <1>2, <2>1, <2>2, <2>3, <2>4, <2>5, BeginOwned
<1>3. ASSUME NEW pc \in {"createOverlay", "createBacked"},
             Become(w, At(c, pc, layer, Deref(layer))), vol \in DOMAIN activeLayers
      PROVE  OwnInv'
  <2>1. SameNames(At(c, pc, layer, Deref(layer)), c) /\ At(c, pc, layer, Deref(layer)).pc = pc
    BY <1>1, AtKeeps
  <2>. QED  BY <1>2, <1>3, <2>1
<1>4. CASE Become(w, Failed(c))
  <2>1. SameNames(Failed(c), c) /\ Failed(c).pc = "failed"
    BY <1>1, AtKeeps DEF Failed
  <2>. QED  BY <1>2, <1>4, <2>1
<1>. QED  BY <1>3, <1>4 DEF CreateSnapshot, c

LEMMA OwnExposeVhostUser ==
  ASSUME OwnInv, TypeInv', NEW w \in Workers, NEW id \in Volumes, MayCall(w, {id}),
         ExposeVhostUser(w, id) \/ DeleteExporter(w, id)
  PROVE  OwnInv'
<1>1. ASSUME NEW op \in {"ExposeVhostUser", "DeleteExporter"}, NEW pc \in {"export", "unexport", "failed"},
             NEW l, Become(w, At(NewCall(op, id, None), pc, l, Nil))
      PROVE  OwnInv'
  <2>. DEFINE d == At(NewCall(op, id, None), pc, l, Nil)
  <2>1. d.pc = pc /\ Named(d) \subseteq {id}
    <3>1. /\ NewCall(op, id, None) \in Call
          /\ NewCall(op, id, None).id = id /\ NewCall(op, id, None).from = None
      BY NewCallFields DEF Op, ImageID
    <3>2. SameNames(d, NewCall(op, id, None)) /\ d.pc = pc
      BY <3>1, AtKeeps
    <3>. HIDE DEF d
    <3>. QED  BY <3>1, <3>2 DEF SameNames, Named
  <2>2. Become(w, d)
    BY <1>1
  <2>. HIDE DEF d
  <2>3. Owned(d, images', activeLayers', taken')
    BY <2>1, OwnedIdle
  <2>4. UNCHANGED <<images, activeLayers, taken>>
    BY DEF ExposeVhostUser, DeleteExporter, memVars
  <2>5. ActiveHasVolume'
    BY <2>4 DEF OwnInv, ActiveHasVolume
  <2>. QED  BY <2>1, <2>2, <2>3, <2>4, <2>5, BeginOwned
<1>. QED  BY <1>1 DEF ExposeVhostUser, DeleteExporter, Failed

LEMMA DropRefKeeps ==
  ASSUME NEW id, NEW i \in DOMAIN images, TypeInv
  PROVE  /\ DOMAIN DropVolumeRef(images, id) = DOMAIN images
         /\ i # id => DropVolumeRef(images, id)[i].VolumeRef = images[i].VolumeRef
         /\ i = id => DropVolumeRef(images, id)[i].VolumeRef = None
  BY DEF DropVolumeRef, TypeInv, TypeOK, MemTypeOK, QCOWImage

LEMMA OwnDeleteVolume ==
  ASSUME OwnInv, TypeInv', NEW w \in Workers, NEW id \in Volumes,
         MayCall(w, {id}), DeleteVolume(w, id)
  PROVE  OwnInv'
<1>. DEFINE c == NewCall("DeleteVolume", id, None)
<1>1. c \in Call /\ c.op = "DeleteVolume" /\ c.id = id /\ c.from = None
  BY NewCallFields DEF Op, ImageID
<1>. HIDE DEF c
<1>2. /\ DOMAIN images' = DOMAIN images /\ taken' = taken
      /\ \A i \in DOMAIN images : /\ images'[i].VolumeRef \in {images[i].VolumeRef, None}
                                  /\ i # id => images'[i].VolumeRef = images[i].VolumeRef
      /\ DOMAIN activeLayers \ {id} \subseteq DOMAIN activeLayers'
      /\ DOMAIN activeLayers' \subseteq DOMAIN activeLayers
  <2>1. CASE UNCHANGED memVars
    BY <2>1 DEF DeleteVolume, memVars
  <2>2. CASE activeLayers' = Forget(id) /\ UNCHANGED images
    BY <2>2 DEF DeleteVolume, Forget, Drop
  <2>3. CASE activeLayers' = Forget(id) /\ id \in DOMAIN images /\ images' = DropVolumeRef(images, id)
    BY <2>3, DropRefKeeps DEF DeleteVolume, Forget, Drop, OwnInv
  <2>. QED  BY <2>1, <2>2, <2>3 DEF DeleteVolume
<1>3. UNCHANGED memVars \/ activeLayers' = Forget(id)
  BY DEF DeleteVolume
<1>4. ActiveHasVolume'
  <2>1. CASE UNCHANGED memVars
    BY <2>1 DEF OwnInv, ActiveHasVolume, memVars
  <2>2. CASE activeLayers' = Forget(id)
    <3>1. DOMAIN activeLayers' = DOMAIN activeLayers \ {id}
      BY <2>2 DEF Forget, Drop
    <3>. QED  BY <1>2, <3>1 DEF OwnInv, ActiveHasVolume
  <2>. QED  BY <1>3, <2>1, <2>2
<1>5. ASSUME NEW d, SameNames(d, c), Become(w, d),
             \/ d.pc = "failed" \/ d.pc = "rmdir"
             \/ d.pc = "blockdevDel" /\ d.layer = id /\ id \in DOMAIN images
      PROVE  OwnInv'
  <2>1. Named(d) \subseteq {id} /\ d.id = id /\ d.op = "DeleteVolume"
    BY <1>1, <1>5 DEF SameNames, Named
  <2>2. Disciplined => DOMAIN images \subseteq taken'
    BY <1>2 DEF OwnInv, IdsTaken
  <2>3. Owned(d, images', activeLayers', taken')
    BY <1>5, <2>1, <2>2 DEF Owned, SourceActive, VictimOwned, Deleting
  <2>4. d.pc \notin CreatePC
    BY <1>5
  <2>. QED  BY <1>2, <1>4, <1>5, <2>1, <2>3, <2>4, BeginOwned
<1>6. CASE Become(w, Failed(c))
  <2>1. SameNames(Failed(c), c) /\ Failed(c).pc = "failed"
    BY <1>1, AtKeeps DEF Failed
  <2>. QED  BY <1>5, <1>6, <2>1
<1>7. \A pc, l, p : /\ SameNames(At(c, pc, l, p), c)
                   /\ At(c, pc, l, p).pc = pc /\ At(c, pc, l, p).layer = l
  BY <1>1, AtKeeps
<1>8. CASE id \notin DOMAIN activeLayers \/ activeLayers[id] \notin DOMAIN images
  BY <1>6, <1>8 DEF DeleteVolume, c
<1>9. CASE /\ ~(id \notin DOMAIN activeLayers \/ activeLayers[id] \notin DOMAIN images)
           /\ DeletableVolume(id)
  <2>1. Become(w, At(c, "blockdevDel", id, Deref(id))) /\ id \in DOMAIN images
    BY <1>9 DEF DeleteVolume, DeletableVolume, c
  <2>. QED  BY <1>5, <1>7, <2>1
<1>10. CASE /\ ~(id \notin DOMAIN activeLayers \/ activeLayers[id] \notin DOMAIN images)
            /\ ~DeletableVolume(id)
  <2>1. Become(w, At(c, "rmdir", id, Deref(id))) \/ Become(w, At(c, "rmdir", None, Nil))
    BY <1>10 DEF DeleteVolume, c
  <2>2. CASE Become(w, At(c, "rmdir", id, Deref(id)))
    BY <1>5, <1>7, <2>2
  <2>3. CASE Become(w, At(c, "rmdir", None, Nil))
    BY <1>5, <1>7, <2>3
  <2>. QED  BY <2>1, <2>2, <2>3
<1>. QED  BY <1>8, <1>9, <1>10

LEMMA OwnDeleteSnapshot ==
  ASSUME OwnInv, TypeInv', NEW w \in Workers, NEW id \in Snapshots, NEW vol \in Volumes,
         MayCall(w, {id, vol}), DeleteSnapshot(w, id, vol)
  PROVE  OwnInv'
<1>. DEFINE c == NewCall("DeleteSnapshot", id, vol)
<1>1. c \in Call /\ c.op = "DeleteSnapshot" /\ c.id = id /\ c.from = vol
  BY NewCallFields DEF Op, ImageID
<1>. HIDE DEF c
<1>2. /\ DOMAIN images' = DOMAIN images /\ taken' = taken /\ activeLayers' = activeLayers
      /\ \A i \in DOMAIN images : /\ images'[i].VolumeRef \in {images[i].VolumeRef, None}
                                  /\ i # id => images'[i].VolumeRef = images[i].VolumeRef
  <2>1. CASE UNCHANGED images
    BY <2>1 DEF DeleteSnapshot
  <2>2. CASE id \in DOMAIN images /\ images' = DropVolumeRef(images, id)
    BY <2>2, DropRefKeeps DEF DeleteSnapshot, OwnInv
  <2>. QED  BY <2>1, <2>2 DEF DeleteSnapshot
<1>3. ActiveHasVolume'
  <2>1. \A v \in DOMAIN activeLayers : v # id
    BY ConstantsAssumption DEF OwnInv, TypeInv, TypeOK, MemTypeOK
  <2>. QED  BY <1>2, <2>1 DEF OwnInv, ActiveHasVolume
<1>4. Disciplined => DOMAIN images \subseteq taken'
  BY <1>2 DEF OwnInv, IdsTaken
<1>5. ASSUME NEW d, SameNames(d, c), Become(w, d),
             \/ d.pc \in {"failed", "succeeded"}
             \/ d.pc = "blockdevDel" /\ d.layer = id /\ id \in DOMAIN images
             \/ d.pc = "blockdevDel" /\ Collectable(images', d.layer)
      PROVE  OwnInv'
  <2>1. Named(d) \subseteq {id, vol} /\ d.id = id /\ d.op = "DeleteSnapshot"
    BY <1>1, <1>5 DEF SameNames, Named
  <2>2. Owned(d, images', activeLayers', taken')
    BY <1>2, <1>4, <1>5, <2>1 DEF Owned, SourceActive, VictimOwned, Deleting, Collectable, Orphan
  <2>3. d.pc \notin CreatePC
    BY <1>5
  <2>. QED  BY <1>2, <1>3, <1>5, <2>1, <2>2, <2>3, BeginOwned
<1>6. \A l, p : /\ SameNames(At(c, "blockdevDel", l, p), c)
               /\ At(c, "blockdevDel", l, p).pc = "blockdevDel"
               /\ At(c, "blockdevDel", l, p).layer = l
  BY <1>1, AtKeeps
<1>7. /\ SameNames(Failed(c), c) /\ Failed(c).pc = "failed"
      /\ SameNames(Succeeded(c), c) /\ Succeeded(c).pc = "succeeded"
  BY <1>1, AtKeeps DEF Failed, Succeeded
<1>8. CASE Become(w, Failed(c))
  BY <1>5, <1>7, <1>8
<1>9. CASE Become(w, At(c, "blockdevDel", id, Deref(id))) /\ id \in DOMAIN images
  BY <1>5, <1>6, <1>9
<1>10. CASE Become(w, CleanUp(c, images', images[id].BackingImageID))
  <2>. DEFINE b == images[id].BackingImageID
  <2>1. CASE Collectable(images', b)
    <3>1. Become(w, At(c, "blockdevDel", b, Deref(b)))
      BY <1>10, <2>1 DEF CleanUp
    <3>. QED  BY <1>5, <1>6, <2>1, <3>1
  <2>2. CASE ~Collectable(images', b)
    <3>1. Become(w, Succeeded(c))
      BY <1>10, <2>2 DEF CleanUp
    <3>. QED  BY <1>5, <1>7, <3>1
  <2>. QED  BY <2>1, <2>2
<1>. QED  BY <1>8, <1>9, <1>10 DEF DeleteSnapshot, c

LEMMA OwnRestart ==
  ASSUME OwnInv, TypeInv', Restart
  PROVE  OwnInv'
<1>1. \A w \in Workers : call'[w] = NoCall
  BY DEF Restart
<1>2. NoCall.pc = "idle" /\ Named(NoCall) = {}
  BY DEF NoCall, Named
<1>3. DOMAIN images' = {} /\ DOMAIN activeLayers' = {}
  BY DEF Restart, Empty
<1>4. \A w \in Workers : Owned(call'[w], images', activeLayers', taken')
  BY <1>1, <1>2, OwnedIdle
<1>. QED  BY <1>1, <1>2, <1>3, <1>4 DEF OwnInv, NamesApart, IdsTaken, ActiveHasVolume

-----------------------------------------------------------------------------
LEMMA OwnInductive ==
  ASSUME OwnInv, TypeInv', [Next]_vars
  PROVE  OwnInv'
<1>1. CASE Restart
  BY <1>1, OwnRestart
<1>2. ASSUME NEW w \in Workers, Begin(w)
      PROVE  OwnInv'
  BY <1>2, OwnCreateVolume, OwnCreateSnapshot, OwnExposeVhostUser, OwnDeleteVolume,
     OwnDeleteSnapshot DEF Begin
<1>3. ASSUME NEW w \in Workers, Continue(w)
      PROVE  OwnInv'
  <2>1. CASE Store(w)
    BY <2>1, OwnStore
  <2>2. CASE Release(w)
    BY <2>2, OwnRelease
  <2>3. CASE ~Store(w) /\ ~Release(w)
    <3>1. UNCHANGED <<memVars, taken>>
      BY <1>3, <2>3 DEF Continue, QemuImgCreate, AddNode, Append, Export, Unexport, RemoveSocketDir,
                        DelNode, RemoveFile, RemoveDir, Reply
    <3>. QED  BY <1>3, <3>1, OwnQuiet
  <2>. QED  BY <2>1, <2>2, <2>3
<1>4. CASE UNCHANGED vars
  BY <1>4 DEF vars, memVars, OwnInv, NamesApart, IdsTaken, ActiveHasVolume
<1>. QED  BY <1>1, <1>2, <1>3, <1>4 DEF Next

LEMMA OwnInit ==
  ASSUME Init, TypeInv
  PROVE  OwnInv
<1>1. \A w \in Workers : call[w] = NoCall
  BY DEF Init
<1>2. NoCall.pc = "idle" /\ Named(NoCall) = {}
  BY DEF NoCall, Named
<1>3. DOMAIN images = {} /\ DOMAIN activeLayers = {}
  BY DEF Init, Empty
<1>4. \A w \in Workers : Owned(call[w], images, activeLayers, taken)
  BY <1>1, <1>2, OwnedIdle
<1>. QED  BY <1>1, <1>2, <1>3, <1>4 DEF OwnInv, NamesApart, IdsTaken, ActiveHasVolume

(* With any number of handlers and whatever fails: the volume of an active *)
(* layer is known and still its owner's, so that DeleteVolume never goes   *)
(* on with a nil image, which would end the server.                        *)
THEOREM ActiveLayersHaveVolume == Spec => []ActiveHasVolume
<1>1. Init => TypeInv /\ OwnInv
  BY TypeInit, OwnInit
<1>2. TypeInv /\ OwnInv /\ [Next]_vars => (TypeInv /\ OwnInv)'
  BY TypeInductive, OwnInductive
<1>3. OwnInv => ActiveHasVolume
  BY DEF OwnInv
<1>. QED  BY <1>1, <1>2, <1>3, PTL DEF Spec

(* With any number of handlers and whatever fails: the walk of one delete  *)
(* down the backing chain takes no image that another volume or snapshot   *)
(* still refers to; only its own call, or a restart, does.                 *)
THEOREM OnlyOwnersDelete == Spec => OwnerDeletes
<1>. DEFINE Deleted ==
       \A i \in DOMAIN images \ DOMAIN images' :
         \/ images[i].VolumeRef = None
         \/ \E w \in Workers : call[w].id = i /\ call[w].op \in {"DeleteVolume", "DeleteSnapshot"}
         \/ Restart
<1>1. Init => TypeInv /\ OwnInv
  BY TypeInit, OwnInit
<1>2. TypeInv /\ OwnInv /\ [Next]_vars => (TypeInv /\ OwnInv)'
  BY TypeInductive, OwnInductive
<1>3. OwnInv /\ [Next]_vars => [Deleted]_vars
  <2>. SUFFICES ASSUME OwnInv, [Next]_vars
                PROVE  Deleted \/ UNCHANGED vars
    OBVIOUS
  <2>1. CASE Restart
    BY <2>1
  <2>2. ASSUME NEW w \in Workers, Release(w)
        PROVE  Deleted
    <3>1. call[w].pc \in DeletePC
      BY <2>2 DEF Release
    <3>2. \A i \in DOMAIN images \ DOMAIN images' : i = call[w].layer
      BY <2>2, ReleaseMaps
    <3>3. /\ call[w].op \in {"DeleteVolume", "DeleteSnapshot"}
          /\ call[w].layer = call[w].id \/ Orphan(images, call[w].layer)
      BY <3>1 DEF OwnInv, Owned, VictimOwned, Deleting
    <3>. QED  BY <3>2, <3>3 DEF Orphan
  <2>3. CASE DOMAIN images \subseteq DOMAIN images'
    BY <2>3
  <2>4. \A id : DOMAIN DropVolumeRef(images, id) = DOMAIN images
    BY DEF DropVolumeRef
  <2>5. ASSUME NEW w \in Workers, Begin(w)
        PROVE  DOMAIN images \subseteq DOMAIN images'
    BY <2>4, <2>5 DEF Begin, CreateVolume, CreateSnapshot, ExposeVhostUser, DeleteExporter,
                      DeleteVolume, DeleteSnapshot, memVars
  <2>6. ASSUME NEW w \in Workers, Store(w)
        PROVE  DOMAIN images \subseteq DOMAIN images'
    BY <2>6 DEF Store, Put, WithRef
  <2>7. ASSUME NEW w \in Workers, Continue(w), ~Release(w), ~Store(w)
        PROVE  UNCHANGED images
    BY <2>7 DEF Continue, QemuImgCreate, AddNode, Append, Export, Unexport, RemoveSocketDir,
                DelNode, RemoveFile, RemoveDir, Reply, memVars
  <2>. QED  BY <2>1, <2>2, <2>3, <2>5, <2>6, <2>7 DEF Next
<1>. QED  BY <1>1, <1>2, <1>3, PTL DEF Spec, OwnerDeletes

-----------------------------------------------------------------------------
(* What stands on what in the daemon's graph (Above), and that no link of   *)
(* it is dangling.                                                         *)
Whole(g) == Closed(g, DOMAIN g)

LEMMA AboveSelf ==
  ASSUME NEW g, NEW n
  PROVE  Above(g, n, n)
  BY DEF Above

(* In a graph that is whole, what a node stands on is a node.              *)
LEMMA AboveIsNode ==
  ASSUME GraphTypeOK, Whole(nodes), NEW n \in DOMAIN nodes, NEW m, Above(nodes, n, m)
  PROVE  m \in DOMAIN nodes
  BY DEF GraphTypeOK, Whole, Above

LEMMA AboveAdd ==
  ASSUME NEW k \in NodeName, k \notin DOMAIN nodes, NEW b \in NodeName \cup {None}, BlockdevAdd(k, b)
  PROVE  /\ \A n, m : Above(nodes, n, m) => Above(nodes', n, m)
         /\ b # None => Above(nodes', k, b)
<1>1. \A S : Closed(nodes', S) => Closed(nodes, S)
  BY DEF BlockdevAdd, Put, Closed
<1>2. \A S : k \in S /\ Closed(nodes', S) => b = None \/ b \in S
  BY DEF BlockdevAdd, Put, Closed
<1>. QED  BY <1>1, <1>2 DEF Above

(* blockdev-snapshot puts the overlay between a node and what stood on it. *)
LEMMA AboveSnapshot ==
  ASSUME NEW k \in DOMAIN nodes, NEW o \in DOMAIN nodes, None \notin DOMAIN nodes,
         CanBlockdevSnapshot(k, o), BlockdevSnapshot(k, o)
  PROVE  /\ \A n, m : Above(nodes, n, m) => Above(nodes', n, m)
         /\ \A m : Above(nodes, k, m) => Above(nodes', o, m)
         /\ Above(nodes', o, k)
<1>0. /\ k # o /\ nodes[o] = None /\ DOMAIN nodes' = DOMAIN nodes
      /\ \A n \in DOMAIN nodes : nodes'[n] = IF n = o THEN k ELSE IF nodes[n] = k THEN o ELSE nodes[n]
  BY DEF CanBlockdevSnapshot, BlockdevSnapshot
<1>1. ASSUME NEW S, Closed(nodes', S), o \in S
      PROVE  k \in S
  BY <1>0, <1>1 DEF Closed
<1>2. ASSUME NEW S, Closed(nodes', S)
      PROVE  Closed(nodes, S)
  <2>. SUFFICES ASSUME NEW n \in S \cap DOMAIN nodes, nodes[n] # None
                PROVE  nodes[n] \in S
    BY DEF Closed
  <2>1. nodes'[n] \in S \/ nodes'[n] = None
    BY <1>0, <1>2 DEF Closed
  <2>2. CASE nodes[n] = k
    BY <1>0, <1>1, <1>2, <2>1, <2>2
  <2>3. CASE nodes[n] # k
    BY <1>0, <2>1, <2>3
  <2>. QED  BY <2>2, <2>3
<1>. QED  BY <1>1, <1>2 DEF Above

(* blockdev-del takes a node that nothing stands on.                       *)
LEMMA AboveDel ==
  ASSUME GraphTypeOK, NEW k, CanBlockdevDel(k), BlockdevDel(k), NEW n, n # k, NEW m, Above(nodes, n, m)
  PROVE  Above(nodes', n, m)
<1>. SUFFICES ASSUME NEW S \in SUBSET NodeName, n \in S, Closed(nodes', S)
              PROVE  m \in S
  BY DEF Above
<1>1. Closed(nodes, S \ {k})
  BY DEF Closed, CanBlockdevDel, InUse, BlockdevDel, Drop
<1>. QED  BY <1>1 DEF Above

LEMMA StaysWhole ==
  ASSUME Whole(nodes), None \notin DOMAIN nodes
  PROVE  /\ \A k, b : (b = None \/ b \in DOMAIN nodes) /\ BlockdevAdd(k, b) => Whole(nodes')
         /\ \A k, o : CanBlockdevSnapshot(k, o) /\ BlockdevSnapshot(k, o) => Whole(nodes')
         /\ \A k : CanBlockdevDel(k) /\ BlockdevDel(k) => Whole(nodes')
<1>1. ASSUME NEW k, NEW b, b = None \/ b \in DOMAIN nodes, BlockdevAdd(k, b)
      PROVE  Whole(nodes')
  BY <1>1 DEF BlockdevAdd, Put, Whole, Closed
<1>2. ASSUME NEW k, NEW o, CanBlockdevSnapshot(k, o), BlockdevSnapshot(k, o)
      PROVE  Whole(nodes')
  BY <1>2 DEF CanBlockdevSnapshot, BlockdevSnapshot, Whole, Closed
<1>3. ASSUME NEW k, CanBlockdevDel(k), BlockdevDel(k)
      PROVE  Whole(nodes')
  BY <1>3 DEF CanBlockdevDel, InUse, BlockdevDel, Drop, Whole, Closed
<1>. QED  BY <1>1, <1>2, <1>3

-----------------------------------------------------------------------------
(* What holds an image that a call works on: it is known, or its node has  *)
(* gone, and then nothing more can be put on top.                          *)
Known(i, g, im) == i \in DOMAIN im \/ QSDID[i] \notin DOMAIN g

(* The new overlay of a call that is about to store it stands on its base, *)
(* so that no other handler's blockdev-del of the base succeeds.           *)
Placed(c, g, im, ids) ==
  /\ c.pc \in OverlayPC /\ c.layer # None =>
       /\ Known(c.layer, g, im)
       /\ IF Disciplined THEN c.layer \in ids ELSE c.layer \in DOMAIN im
  /\ c.pc = "export" => Known(c.id, g, im)
  /\ c.pc \in {"remove", "release"} => QSDID[c.layer] \notin DOMAIN g
  /\ c.pc \in {"append", "store"} => QSDID[c.id] \in DOMAIN g
  /\ c.pc = "store" /\ c.layer # None => Above(g, QSDID[c.id], QSDID[c.layer])

(* An export follows the snapshots put on its volume, and what it serves   *)
(* still stands on the node of the volume's own image.                     *)
ExportPlaced(e, g, im) ==
  /\ exports[e] \in DOMAIN g
  /\ Above(g, exports[e], e)
  /\ \E v \in Volumes \cap DOMAIN im : QSDID[v] = e

GraphInv ==
  /\ Whole(nodes)
  /\ \A w \in Workers : Placed(call[w], nodes, images, taken)
  /\ \A e \in DOMAIN exports : ExportPlaced(e, nodes, images)

LEMMA PlacedElsewhere ==
  ASSUME NEW c, c.pc \notin OverlayPC \cup {"export", "remove", "release"}, NEW g, NEW im, NEW ids
  PROVE  Placed(c, g, im, ids)
  BY DEF Placed

LEMMA NewNames ==
  ASSUME NEW c, CallOK(c), c.pc \in CreatePC
  PROVE  c.id \in ImageID /\ c.id # None /\ QSDID[c.id] \in NodeName
<1>1. c.id \in ImageID
  BY DEF CallOK, ImageID
<1>. QED  BY <1>1, ConstantsAssumption

(* Two calls: the layer that one works on is not the id that another is    *)
(* creating.                                                               *)
LEMMA CreatesAnother ==
  ASSUME OwnInv, GraphInv, NEW w \in Workers, NEW x \in Workers, w # x, call[w].pc \in CreatePC
  PROVE  /\ call[x].pc \in OverlayPC /\ call[x].layer # None => call[x].layer # call[w].id
         /\ call[x].pc \in DeletePC => call[x].layer # call[w].id
         /\ call[x].pc = "export" => call[x].id # call[w].id
<1>1. Disciplined
  BY ConstantsAssumption
<1>2. call[w].id \notin taken /\ call[w].id # None
  <2>1. CallOK(call[w])
    BY DEF OwnInv, TypeInv, CallTypeInv
  <2>. QED  BY <1>1, <2>1, NewNames DEF OwnInv, IdsTaken
<1>3. call[x].pc \in OverlayPC /\ call[x].layer # None => call[x].layer \in taken
  BY <1>1 DEF GraphInv, Placed
<1>4. call[x].pc \in DeletePC => call[x].layer \in taken
  BY <1>1 DEF OwnInv, Owned, VictimOwned
<1>5. call[x].id # call[w].id
  BY <1>2 DEF OwnInv, NamesApart, Named
<1>. QED  BY <1>2, <1>3, <1>4, <1>5

(* No step removes what a node stands on while it is there itself.         *)
LEMMA AboveKept ==
  ASSUME TypeInv, NEW w \in Workers, Continue(w), NEW n, NEW m, Above(nodes, n, m),
         ~(call[w].pc = "blockdevDel" /\ n = QSDID[call[w].layer])
  PROVE  Above(nodes', n, m)
<1>0. GraphTypeOK /\ None \notin DOMAIN nodes /\ call[w] \in Call /\ CallOK(call[w])
  BY ConstantsAssumption DEF TypeInv, TypeOK, CallTypeInv, GraphTypeOK
<1>1. CASE UNCHANGED nodes
  BY <1>1
<1>2. CASE AddNode(w)
  <2>. DEFINE b == IF call[w].pc = "addBacked" THEN QSDID[call[w].layer] ELSE None
  <2>1. \/ UNCHANGED nodes
        \/ QSDID[call[w].id] \notin DOMAIN nodes /\ BlockdevAdd(QSDID[call[w].id], b)
    BY <1>2 DEF AddNode, Granted, CanAddNode, CanBlockdevAdd, graphVars
  <2>2. QSDID[call[w].id] \in NodeName /\ b \in NodeName \cup {None}
    <3>1. call[w].pc \in {"addImage", "addBacked", "addOverlay"}
      BY <1>2 DEF AddNode, AfterAdd
    <3>. QED  BY <1>0, <3>1, NewNames, ConstantsAssumption DEF CallOK, LayerPC
  <2>. QED  BY <2>1, <2>2, AboveAdd
<1>3. CASE Append(w)
  <2>. DEFINE k == QSDID[call[w].layer]
              o == QSDID[call[w].id]
  <2>1. \/ UNCHANGED nodes
        \/ CanBlockdevSnapshot(k, o) /\ BlockdevSnapshot(k, o)
    BY <1>3 DEF Append, Granted, graphVars
  <2>2. CanBlockdevSnapshot(k, o) => k \in DOMAIN nodes /\ o \in DOMAIN nodes
    BY DEF CanBlockdevSnapshot
  <2>. QED  BY <1>0, <2>1, <2>2, AboveSnapshot
<1>4. CASE DelNode(w)
  <2>. DEFINE k == QSDID[call[w].layer]
  <2>1. \/ UNCHANGED nodes
        \/ CanBlockdevDel(k) /\ BlockdevDel(k) /\ n # k
    BY <1>4 DEF DelNode, Granted, graphVars
  <2>. QED  BY <1>0, <2>1, AboveDel
<1>. QED
  BY <1>1, <1>2, <1>3, <1>4
  DEF Continue, QemuImgCreate, Store, Export, Unexport, RemoveSocketDir, RemoveFile, Release,
      RemoveDir, Reply, graphVars, BlockExportAdd, BlockExportDel

(* An image stays known, but for the id that the step is creating.         *)
LEMMA NodeStaysAway ==
  ASSUME DistinctQSDIDs, TypeInv, NEW w \in Workers, Continue(w),
         NEW i \in ImageID, i # call[w].id \/ call[w].pc \notin CreatePC, QSDID[i] \notin DOMAIN nodes
  PROVE  QSDID[i] \notin DOMAIN nodes'
<1>. SUFFICES ASSUME QSDID[i] \in DOMAIN nodes'
              PROVE  FALSE
  OBVIOUS
<1>1. call[w].pc \in CreatePC /\ QSDID[i] = QSDID[call[w].id] /\ CallOK(call[w])
  BY NodeChange DEF AfterAdd, TypeInv, CallTypeInv
<1>. QED  BY <1>1, NewNames DEF DistinctQSDIDs

LEMMA KnownLasts ==
  ASSUME DistinctQSDIDs, TypeInv, GraphInv, NEW w \in Workers, Continue(w),
         NEW i \in ImageID, i # call[w].id \/ call[w].pc \notin CreatePC, Known(i, nodes, images)
  PROVE  Known(i, nodes', images')
<1>1. CASE i \in DOMAIN images'
  BY <1>1 DEF Known
<1>2. CASE i \in DOMAIN images \ DOMAIN images'
  <2>1. call[w].pc = "release" /\ i = call[w].layer
    BY <1>2, ImageChange
  <2>. QED  BY <2>1, NodeStaysAway DEF GraphInv, Placed, Known
<1>3. CASE i \notin DOMAIN images
  BY <1>3, NodeStaysAway DEF Known
<1>. QED  BY <1>1, <1>2, <1>3

(* Another handler's step leaves a call what it relies on.                 *)
LEMMA OthersPlaced ==
  ASSUME DistinctQSDIDs, OwnInv, GraphInv, NEW w \in Workers, Continue(w), taken \subseteq taken',
         NEW x \in Workers, x # w, call'[x] = call[x]
  PROVE  Placed(call'[x], nodes', images', taken')
<1>. DEFINE c == call[x]
<1>1. Disciplined /\ CallOK(c) /\ CallOK(call[w]) /\ TypeInv
  BY ConstantsAssumption DEF OwnInv, TypeInv, CallTypeInv
<1>2. Placed(c, nodes, images, taken) /\ Placed(call[w], nodes, images, taken)
  BY DEF GraphInv
<1>3. call[w].pc \in CreatePC => c.id # call[w].id \/ c.pc # "export"
  BY CreatesAnother
<1>4. ASSUME c.pc \in {"append", "store"}
      PROVE  ~(call[w].pc = "blockdevDel" /\ QSDID[c.id] = QSDID[call[w].layer])
  BY <1>1, <1>4, NewNames, CreatesAnother DEF DistinctQSDIDs, CallOK
<1>5. c.pc \in OverlayPC /\ c.layer # None =>
        Known(c.layer, nodes', images') /\ c.layer \in taken'
  <2>1. c.pc \in OverlayPC /\ c.layer # None => c.layer \in ImageID
    BY DEF OwnInv, TypeInv, CallTypeInv, Call
  <2>. QED  BY <1>1, <1>2, <2>1, KnownLasts, CreatesAnother DEF Placed
<1>6. c.pc = "export" => Known(c.id, nodes', images')
  BY <1>1, <1>2, <1>3, KnownLasts DEF Placed, CallOK, ImageID
<1>7. c.pc \in {"remove", "release"} => QSDID[c.layer] \notin DOMAIN nodes'
  BY <1>1, <1>2, NodeStaysAway, CreatesAnother DEF Placed, CallOK
<1>8. c.pc \in {"append", "store"} => QSDID[c.id] \in DOMAIN nodes'
  BY <1>2, <1>4, NodeChange DEF Placed
<1>9. c.pc = "store" /\ c.layer # None => Above(nodes', QSDID[c.id], QSDID[c.layer])
  BY <1>1, <1>2, <1>4, AboveKept DEF Placed
<1>. QED  BY <1>1, <1>5, <1>6, <1>7, <1>8, <1>9 DEF Placed

(* The handler's own step.                                                 *)
LEMMA GotoFields ==
  ASSUME TypeInv, NEW w \in Workers, NEW pc, Goto(w, pc)
  PROVE  /\ call'[w].pc = pc /\ call'[w].id = call[w].id /\ call'[w].layer = call[w].layer
         /\ call'[w].ptr = call[w].ptr /\ call'[w].op = call[w].op /\ call'[w].from = call[w].from
  BY DEF Goto, TypeInv, TypeOK, Call

LEMMA EndsPlaced ==
  ASSUME TypeInv, NEW w \in Workers, Succeed(w) \/ Fail(w), NEW g, NEW im, NEW ids
  PROVE  Placed(call'[w], g, im, ids)
<1>1. call'[w].pc \in {"succeeded", "failed"}
  BY AtKeeps DEF TypeInv, TypeOK, Succeed, Fail, Become, Succeeded, Failed
<1>. QED  BY <1>1, PlacedElsewhere

LEMMA PlacedCreates ==
  ASSUME DistinctQSDIDs, OwnInv, GraphInv, NEW w \in Workers,
         QemuImgCreate(w) \/ AddNode(w) \/ Append(w)
  PROVE  Placed(call'[w], nodes', images', taken')
<1>. DEFINE c == call[w]
            i == QSDID[c.id]
            k == QSDID[c.layer]
<1>1. /\ TypeInv /\ GraphTypeOK /\ c \in Call /\ CallOK(c) /\ c.pc \in CreatePC
      /\ None \notin DOMAIN nodes
  BY ConstantsAssumption
  DEF OwnInv, TypeInv, TypeOK, CallTypeInv, GraphTypeOK, QemuImgCreate, AfterQemuImg, AddNode,
      AfterAdd, Append
<1>2. UNCHANGED <<images, taken>>
  BY DEF QemuImgCreate, AddNode, Append, memVars
<1>3. Placed(c, nodes, images, taken) /\ i \in NodeName
  BY <1>1, NewNames DEF GraphInv
<1>4. CASE Fail(w)
  BY <1>1, <1>4, EndsPlaced
<1>5. CASE QemuImgCreate(w) /\ ~Fail(w)
  <2>1. Goto(w, AfterQemuImg[c.pc]) /\ UNCHANGED nodes /\ c.pc \in DOMAIN AfterQemuImg
    BY <1>5 DEF QemuImgCreate, graphVars
  <2>2. \/ c.pc = "createImage" /\ call'[w].pc = "addImage"
        \/ /\ c.pc \in OverlayPC /\ call'[w].pc \in {"addBacked", "addOverlay"}
           /\ call'[w].layer = c.layer
    BY <1>1, <2>1, GotoFields DEF AfterQemuImg
  <2>. QED  BY <1>2, <1>3, <2>1, <2>2 DEF Placed
<1>6. CASE AddNode(w) /\ ~Fail(w)
  <2>. DEFINE b == IF c.pc = "addBacked" THEN k ELSE None
  <2>1. /\ c.pc \in DOMAIN AfterAdd /\ Goto(w, AfterAdd[c.pc])
        /\ i \notin DOMAIN nodes /\ BlockdevAdd(i, b)
    BY <1>6 DEF AddNode, Granted, CanAddNode, CanBlockdevAdd
  <2>2. /\ call'[w].id = c.id /\ call'[w].layer = c.layer
        /\ \/ c.pc = "addImage" /\ c.layer = None /\ call'[w].pc = "store"
           \/ c.pc = "addBacked" /\ c.layer \in ImageID /\ call'[w].pc = "store"
           \/ c.pc = "addOverlay" /\ c.layer \in ImageID /\ call'[w].pc = "append"
    BY <1>1, <2>1, GotoFields DEF AfterAdd, CallOK, LayerPC
  <2>3. DOMAIN nodes' = DOMAIN nodes \cup {i}
    BY <2>1 DEF BlockdevAdd, Put
  <2>4. c.pc = "addBacked" => Above(nodes', i, k)
    <3>1. (k \in NodeName /\ k # None) \/ c.pc # "addBacked"
      BY <2>2, ConstantsAssumption
    <3>. QED  BY <1>3, <2>1, <3>1, AboveAdd
  <2>5. ASSUME c.layer # None
        PROVE  Known(c.layer, nodes', images)
    <3>1. /\ Known(c.layer, nodes, images) /\ c.layer \in ImageID /\ c.id \in ImageID
          /\ IF Disciplined THEN c.layer \in taken ELSE c.layer \in DOMAIN images
      BY <1>1, <1>3, <2>2, <2>5, NewNames DEF Placed
    <3>2. Disciplined => c.layer # c.id
      BY <1>1, <3>1 DEF OwnInv, IdsTaken
    <3>. QED  BY <2>3, <3>1, <3>2 DEF Known, DistinctQSDIDs
  <2>6. c.layer # None => IF Disciplined THEN c.layer \in taken ELSE c.layer \in DOMAIN images
    BY <1>3, <2>2 DEF Placed
  <2>. QED  BY <1>2, <2>2, <2>3, <2>4, <2>5, <2>6 DEF Placed
<1>7. CASE Append(w) /\ ~Fail(w)
  <2>1. /\ Goto(w, "store") /\ c.pc = "append"
        /\ CanBlockdevSnapshot(k, i) /\ BlockdevSnapshot(k, i)
    BY <1>7 DEF Append, Granted
  <2>2. /\ call'[w].pc = "store" /\ call'[w].id = c.id /\ call'[w].layer = c.layer
    BY <1>1, <2>1, GotoFields
  <2>3. DOMAIN nodes' = DOMAIN nodes /\ k \in DOMAIN nodes /\ i \in DOMAIN nodes
    BY <2>1 DEF CanBlockdevSnapshot, BlockdevSnapshot
  <2>4. Above(nodes', i, k)
    BY <1>1, <2>1, <2>3, AboveSnapshot
  <2>. QED  BY <1>2, <1>3, <2>1, <2>2, <2>3, <2>4 DEF Placed, Known
<1>. QED  BY <1>4, <1>5, <1>6, <1>7

LEMMA PlacedOtherSteps ==
  ASSUME TypeInv, NEW w \in Workers,
         \/ Store(w) \/ Export(w) \/ Unexport(w) \/ RemoveSocketDir(w) \/ DelNode(w)
         \/ RemoveFile(w) \/ Release(w) \/ RemoveDir(w) \/ Reply(w),
         Placed(call[w], nodes, images, taken)
  PROVE  Placed(call'[w], nodes', images', taken')
<1>0. call \in [Workers -> Call]
  BY DEF TypeInv, TypeOK
<1>1. CASE Succeed(w) \/ Fail(w)
  BY <1>1, EndsPlaced
<1>2. ASSUME NEW pc, Goto(w, pc), pc \in {"rmSocketDir", "rmdir"}
      PROVE  Placed(call'[w], nodes', images', taken')
  BY <1>2, GotoFields, PlacedElsewhere
<1>3. ASSUME NEW im, NEW b, Become(w, CleanUp(call[w], im, b))
      PROVE  Placed(call'[w], nodes', images', taken')
  <2>1. call'[w].pc \in {"blockdevDel", "succeeded"}
    BY <1>0, <1>3, AtKeeps DEF Become, CleanUp, Succeeded
  <2>. QED  BY <2>1, PlacedElsewhere
<1>4. CASE DelNode(w) /\ ~Fail(w)
  <2>1. /\ Goto(w, "remove") /\ BlockdevDel(QSDID[call[w].layer])
    BY <1>4 DEF DelNode
  <2>2. call'[w].pc = "remove" /\ call'[w].layer = call[w].layer
    BY <2>1, GotoFields
  <2>3. QSDID[call[w].layer] \notin DOMAIN nodes'
    BY <2>1 DEF BlockdevDel, Drop
  <2>. QED  BY <2>2, <2>3 DEF Placed
<1>5. CASE RemoveFile(w) /\ ~Fail(w)
  <2>1. Goto(w, "release") /\ call[w].pc = "remove" /\ UNCHANGED nodes
    BY <1>5 DEF RemoveFile, graphVars
  <2>2. call'[w].pc = "release" /\ call'[w].layer = call[w].layer
    BY <2>1, GotoFields
  <2>. QED  BY <2>1, <2>2 DEF Placed
<1>6. CASE call' = [x \in Workers |-> At(call[x], "panicked", None, Nil)]
  <2>1. call'[w].pc = "panicked"
    BY <1>0, <1>6, AtKeeps
  <2>. QED  BY <2>1, PlacedElsewhere
<1>7. CASE Reply(w)
  <2>1. call'[w].pc = "idle"
    BY <1>0, <1>7 DEF Reply, Become, NoCall
  <2>. QED  BY <2>1, PlacedElsewhere
<1>. QED
  BY <1>1, <1>2, <1>3, <1>4, <1>5, <1>6, <1>7
  DEF Store, Export, Unexport, RemoveSocketDir, DelNode, RemoveFile, Release, RemoveDir

(* A first step finds the layer it works on in the map.                    *)
LEMMA PlacedStarts ==
  ASSUME OwnInv, NEW w \in Workers, Starts(w)
  PROVE  Placed(call'[w], nodes', images', taken')
<1>0. TypeInv /\ DOMAIN images' = DOMAIN images /\ UNCHANGED <<nodes, taken>>
  BY StartKeeps DEF OwnInv
<1>1. \A id \in DOMAIN images : Disciplined => id \in taken
  BY DEF OwnInv, IdsTaken
<1>2. ASSUME call'[w].pc \in {"createBacked", "createOverlay"}, call'[w].layer \in DOMAIN images
      PROVE  Placed(call'[w], nodes', images', taken')
  BY <1>0, <1>1, <1>2 DEF Placed, Known
<1>3. ASSUME NEW v \in Volumes, NEW src \in CloneSources \cup {None}, CreateVolume(w, v, src)
      PROVE  Placed(call'[w], nodes', images', taken')
  <2>1. "CreateVolume" \in Op /\ v \in ImageID /\ src \in ImageID \cup {None}
    BY ConstantsAssumption DEF Op, ImageID
  <2>2. \/ call'[w].pc \in {"createImage", "failed"}
        \/ call'[w].pc = "createBacked" /\ call'[w].layer \in DOMAIN images
    BY <1>0, <1>3, <2>1, NewCallAt DEF CreateVolume, Failed
  <2>. QED  BY <1>2, <2>2, PlacedElsewhere
<1>4. ASSUME NEW s \in Snapshots, NEW v \in Volumes, CreateSnapshot(w, s, v)
      PROVE  Placed(call'[w], nodes', images', taken')
  <2>1. "CreateSnapshot" \in Op /\ s \in ImageID /\ v \in ImageID \cup {None}
    BY DEF Op, ImageID
  <2>2. \/ call'[w].pc = "failed"
        \/ call'[w].pc \in {"createBacked", "createOverlay"} /\ call'[w].layer \in DOMAIN images
    BY <1>0, <1>4, <2>1, NewCallAt DEF CreateSnapshot, Failed
  <2>. QED  BY <1>2, <2>2, PlacedElsewhere
<1>5. ASSUME NEW v \in Volumes, ExposeVhostUser(w, v)
      PROVE  Placed(call'[w], nodes', images', taken')
  <2>1. \/ call'[w].pc = "failed"
        \/ call'[w].pc = "export" /\ call'[w].id \in DOMAIN images
    BY <1>0, <1>5, StartExpose DEF Names
  <2>. QED  BY <1>0, <2>1, PlacedElsewhere DEF Placed, Known
<1>6. ASSUME NEW v \in Volumes, DeleteExporter(w, v)
      PROVE  Placed(call'[w], nodes', images', taken')
  BY <1>0, <1>6, StartUnexpose, PlacedElsewhere
<1>7. ASSUME NEW v \in Volumes, DeleteVolume(w, v)
      PROVE  Placed(call'[w], nodes', images', taken')
  <2>1. call'[w].pc \in {"failed", "blockdevDel", "rmdir"}
    BY <1>0, <1>7, StartDeleteVolume DEF TurnsTo
  <2>. QED  BY <2>1, PlacedElsewhere
<1>8. ASSUME NEW s \in Snapshots, NEW v \in Volumes, DeleteSnapshot(w, s, v)
      PROVE  Placed(call'[w], nodes', images', taken')
  <2>1. call'[w].pc \in {"failed", "succeeded", "blockdevDel"}
    BY <1>0, <1>8, StartDeleteSnapshot DEF TurnsTo
  <2>. QED  BY <2>1, PlacedElsewhere
<1>. QED  BY <1>3, <1>4, <1>5, <1>6, <1>7, <1>8 DEF Starts

LEMMA GraphStarts ==
  ASSUME OwnInv, GraphInv, NEW w \in Workers, Starts(w)
  PROVE  GraphInv'
<1>1. /\ \A x \in Workers \ {w} : call'[x] = call[x]
      /\ DOMAIN images' = DOMAIN images /\ UNCHANGED <<nodes, exports, taken>>
  BY StartKeeps DEF OwnInv
<1>2. \A x \in Workers \ {w} : Placed(call'[x], nodes', images', taken')
  BY <1>1 DEF GraphInv, Placed, Known
<1>3. \A e \in DOMAIN exports' : ExportPlaced(e, nodes, images)'
  BY <1>1 DEF GraphInv, ExportPlaced
<1>. QED  BY <1>1, <1>2, <1>3, PlacedStarts DEF GraphInv

(* The graph stays whole, and an export keeps the image it was made for.   *)
LEMMA WholeContinue ==
  ASSUME TypeInv, Whole(nodes), NEW w \in Workers, Continue(w)
  PROVE  Whole(nodes')
<1>0. None \notin DOMAIN nodes
  BY ConstantsAssumption DEF TypeInv, TypeOK, GraphTypeOK
<1>1. CASE UNCHANGED nodes
  BY <1>1
<1>2. CASE AddNode(w) /\ ~UNCHANGED nodes
  <2>. DEFINE b == IF call[w].pc = "addBacked" THEN QSDID[call[w].layer] ELSE None
  <2>1. CanBlockdevAdd(QSDID[call[w].id], b) /\ BlockdevAdd(QSDID[call[w].id], b)
    BY <1>2 DEF AddNode, Granted, CanAddNode, graphVars
  <2>2. b = None \/ b \in DOMAIN nodes
    BY <2>1 DEF CanBlockdevAdd
  <2>. QED  BY <1>0, <2>1, <2>2, StaysWhole
<1>3. CASE (Append(w) \/ DelNode(w)) /\ ~UNCHANGED nodes
  BY <1>0, <1>3, StaysWhole DEF Append, DelNode, Granted, graphVars
<1>. QED
  BY <1>1, <1>2, <1>3
  DEF Continue, QemuImgCreate, Store, Export, Unexport, RemoveSocketDir, RemoveFile, Release,
      RemoveDir, Reply, graphVars, BlockExportAdd, BlockExportDel

(* What an export serves changes when a snapshot is put on top of it.      *)
LEMMA ServesHigher ==
  ASSUME TypeInv, NEW w \in Workers, Continue(w), NEW e \in DOMAIN exports, e \in DOMAIN exports',
         exports[e] \in DOMAIN nodes, Above(nodes, exports[e], e)
  PROVE  exports'[e] \in DOMAIN nodes' /\ Above(nodes', exports'[e], e)
<1>0. None \notin DOMAIN nodes
  BY ConstantsAssumption DEF TypeInv, TypeOK, GraphTypeOK
<1>1. CASE Append(w)
  <2>. DEFINE k == QSDID[call[w].layer]
              o == QSDID[call[w].id]
  <2>1. CASE UNCHANGED graphVars
    BY <2>1 DEF graphVars
  <2>2. CASE CanBlockdevSnapshot(k, o) /\ BlockdevSnapshot(k, o)
    <3>1. k \in DOMAIN nodes /\ o \in DOMAIN nodes /\ DOMAIN nodes' = DOMAIN nodes
      BY <2>2 DEF CanBlockdevSnapshot, BlockdevSnapshot
    <3>2. exports'[e] = IF exports[e] = k THEN o ELSE exports[e]
      BY <2>2 DEF BlockdevSnapshot
    <3>. QED  BY <1>0, <2>2, <3>1, <3>2, AboveSnapshot
  <2>. QED  BY <1>1, <2>1, <2>2 DEF Append, Granted
<1>2. CASE ~Append(w)
  <2>1. exports'[e] = exports[e]
    <3>1. CASE Export(w)
      BY <3>1 DEF Export, Granted, CanBlockExportAdd, BlockExportAdd, Put, graphVars
    <3>2. CASE Unexport(w)
      BY <3>2 DEF Unexport, BlockExportDel, Drop, graphVars
    <3>3. CASE ~Export(w) /\ ~Unexport(w)
      BY <1>2, <3>3
      DEF Continue, QemuImgCreate, AddNode, Store, RemoveSocketDir, DelNode, RemoveFile, Release,
          RemoveDir, Reply, graphVars, BlockdevAdd, BlockdevDel
    <3>. QED  BY <3>1, <3>2, <3>3
  <2>2. ASSUME UNCHANGED nodes
        PROVE  exports'[e] \in DOMAIN nodes' /\ Above(nodes', exports'[e], e)
    BY <2>1, <2>2
  <2>3. ASSUME ~UNCHANGED nodes
        PROVE  ~(call[w].pc = "blockdevDel" /\ exports[e] = QSDID[call[w].layer])
    <3>. SUFFICES ASSUME call[w].pc = "blockdevDel", exports[e] = QSDID[call[w].layer]
                  PROVE  FALSE
      OBVIOUS
    <3>1. DelNode(w)
      BY DEF Continue, QemuImgCreate, AfterQemuImg, AddNode, AfterAdd, Append, Store, Export, Unexport,
             RemoveSocketDir, DelNode, RemoveFile, Release, RemoveDir, Reply
    <3>2. CanBlockdevDel(QSDID[call[w].layer])
      BY <2>3, <3>1 DEF DelNode, Granted, graphVars
    <3>. QED  BY <3>2 DEF CanBlockdevDel, InUse
  <2>4. ASSUME ~UNCHANGED nodes
        PROVE  exports'[e] \in DOMAIN nodes' /\ Above(nodes', exports'[e], e)
    BY <2>1, <2>3, <2>4, NodeChange, AboveKept
  <2>. QED  BY <2>2, <2>4
<1>. QED  BY <1>1, <1>2

LEMMA ExportsContinue ==
  ASSUME OwnInv, GraphInv, NEW w \in Workers, Continue(w), NEW e \in DOMAIN exports'
  PROVE  ExportPlaced(e, nodes, images)'
<1>0. /\ TypeInv /\ GraphTypeOK /\ CallOK(call[w]) /\ Placed(call[w], nodes, images, taken)
      /\ Whole(nodes)
  BY DEF OwnInv, TypeInv, TypeOK, CallTypeInv, GraphInv
<1>1. ASSUME NEW v \in Volumes \cap DOMAIN images, QSDID[v] \in DOMAIN nodes
      PROVE  v \in DOMAIN images'
  BY <1>0, <1>1, ImageChange DEF Placed
<1>2. CASE e \in DOMAIN exports
  <2>1. ExportPlaced(e, nodes, images)
    BY <1>2 DEF GraphInv
  <2>2. e \in DOMAIN nodes
    BY <1>0, <2>1, AboveIsNode DEF ExportPlaced
  <2>3. exports'[e] \in DOMAIN nodes' /\ Above(nodes', exports'[e], e)
    BY <1>0, <1>2, <2>1, ServesHigher DEF ExportPlaced
  <2>. QED  BY <1>1, <2>1, <2>2, <2>3 DEF ExportPlaced
<1>3. CASE e \notin DOMAIN exports
  <2>1. call[w].pc = "export" /\ e = QSDID[call[w].id]
    BY <1>3, ExportChange
  <2>2. Export(w)
    BY <2>1 DEF Continue, QemuImgCreate, AfterQemuImg, AddNode, AfterAdd, Append, Store, Export,
                Unexport, RemoveSocketDir, DelNode, RemoveFile, Release, RemoveDir, Reply
  <2>3. /\ e \in DOMAIN nodes /\ exports'[e] = e
        /\ UNCHANGED <<nodes, images>>
    BY <1>3, <2>1, <2>2 DEF Export, Granted, CanBlockExportAdd, BlockExportAdd, Put, graphVars, memVars
  <2>4. call[w].id \in Volumes /\ call[w].id \in DOMAIN images
    BY <1>0, <2>1, <2>3 DEF CallOK, Placed, Known
  <2>. QED  BY <2>1, <2>3, <2>4, AboveSelf DEF ExportPlaced
<1>. QED  BY <1>2, <1>3

LEMMA GraphContinue ==
  ASSUME DistinctQSDIDs, OwnInv, GraphInv, NEW w \in Workers, Continue(w)
  PROVE  GraphInv'
<1>1. TypeInv /\ \A x \in Workers \ {w} : call'[x] = call[x] \/ call'[x].pc = "panicked"
  BY ContinueMoves DEF OwnInv
<1>2. taken \subseteq taken'
  BY DEF Continue, QemuImgCreate, AddNode, Append, Store, Export, Unexport, RemoveSocketDir, DelNode,
         RemoveFile, Release, RemoveDir, Reply
<1>3. ASSUME NEW x \in Workers, x # w
      PROVE  Placed(call'[x], nodes', images', taken')
  <2>1. CASE call'[x] = call[x]
    BY <1>2, <1>3, <2>1, OthersPlaced
  <2>2. CASE call'[x].pc = "panicked"
    BY <2>2, PlacedElsewhere
  <2>. QED  BY <1>1, <1>3, <2>1, <2>2
<1>4. Placed(call'[w], nodes', images', taken')
  BY <1>1, PlacedCreates, PlacedOtherSteps DEF Continue, GraphInv
<1>5. Whole(nodes')
  BY <1>1, WholeContinue DEF GraphInv
<1>. QED  BY <1>3, <1>4, <1>5, ExportsContinue DEF GraphInv

LEMMA GraphInductive ==
  ASSUME DistinctQSDIDs
  PROVE  /\ Init => GraphInv
         /\ OwnInv /\ GraphInv /\ [Next]_vars => GraphInv'
<1>0. ASSUME NEW g, NEW im, NEW ids
      PROVE  Placed(NoCall, g, im, ids)
  BY PlacedElsewhere DEF NoCall
<1>1. Init => GraphInv
  BY <1>0 DEF Init, GraphInit, Empty, GraphInv, Whole, Closed
<1>2. ASSUME OwnInv, GraphInv, Restart
      PROVE  GraphInv'
  BY <1>0, <1>2 DEF Restart, GraphReset, Empty, GraphInv, Whole, Closed
<1>3. ASSUME OwnInv, GraphInv, UNCHANGED vars
      PROVE  GraphInv'
  BY <1>3 DEF vars, graphVars, memVars, GraphInv, ExportPlaced
<1>. QED  BY <1>1, <1>2, <1>3, BeginStarts, GraphStarts, GraphContinue DEF Next

(* With any number of handlers, whatever fails and whenever the server     *)
(* restarts: the image that a new overlay has been built on is still in    *)
(* the map when Store adds a reference to it.                              *)
THEOREM BasesStay ==
  ASSUME DistinctQSDIDs
  PROVE  Spec => []StoreHasBase
<1>1. OwnInv /\ GraphInv => StoreHasBase
  <2>. SUFFICES ASSUME OwnInv, GraphInv, NEW w \in Workers, call[w].pc = "store", call[w].layer # None
                PROVE  call[w].layer \in DOMAIN images
    BY DEF StoreHasBase
  <2>1. Placed(call[w], nodes, images, taken) /\ Whole(nodes) /\ GraphTypeOK
    BY DEF OwnInv, TypeInv, TypeOK, GraphInv
  <2>. QED  BY <2>1, AboveIsNode DEF Placed, Known
<1>2. Init => OwnInv
  BY TypeInit, OwnInit
<1>3. OwnInv /\ [Next]_vars => OwnInv'
  BY TypeInductive, OwnInductive DEF OwnInv
<1>. QED  BY <1>1, <1>2, <1>3, GraphInductive, PTL DEF Spec

(* Under the same hypothesis an export can be removed by the id of its     *)
(* volume: the image that was exported stays in the map as long, however   *)
(* many snapshots the export has been moved to since.                      *)
THEOREM ExportsKeepVolume ==
  ASSUME DistinctQSDIDs
  PROVE  Spec => []ExportHasVolume
<1>1. GraphInv => ExportHasVolume
  BY DEF GraphInv, ExportPlaced, ExportHasVolume
<1>2. Init => OwnInv
  BY TypeInit, OwnInit
<1>3. OwnInv /\ [Next]_vars => OwnInv'
  BY TypeInductive, OwnInductive DEF OwnInv
<1>. QED  BY <1>1, <1>2, <1>3, GraphInductive, PTL DEF Spec

-----------------------------------------------------------------------------
(* The files.  One is missing only while its image is being deleted, or    *)
(* when a delete has lost the image's backing image to another and left    *)
(* the entry behind; either way the node has gone.                         *)
FileKept(i) ==
  \/ images[i].File \in files
  \/ /\ QSDID[i] \notin DOMAIN nodes
     /\ Disciplined \/ \E w \in Workers : call[w].pc = "release" /\ call[w].layer = i

NewFileKept(c) == c.pc \in {"append", "store"} => FileOf(c) \in files

FilesInv ==
  /\ \A i \in DOMAIN images : FileKept(i)
  /\ \A w \in Workers : NewFileKept(call[w])

LEMMA FilesStarts ==
  ASSUME TypeInv, FilesInv, NEW w \in Workers, Starts(w)
  PROVE  FilesInv'
<1>1. /\ \A x \in Workers \ {w} : call'[x] = call[x]
      /\ DOMAIN images' = DOMAIN images /\ UNCHANGED <<nodes, files>> /\ call[w].pc = "idle"
      /\ \A i \in DOMAIN images : images'[i].File = images[i].File
  BY StartKeeps DEF Idle
<1>2. ASSUME NEW i \in DOMAIN images
      PROVE  FileKept(i)'
  <2>1. ASSUME NEW x \in Workers, call[x].pc = "release", call[x].layer = i
        PROVE  \E y \in Workers : call'[y].pc = "release" /\ call'[y].layer = i
    BY <1>1, <2>1
  <2>. QED  BY <1>1, <2>1 DEF FilesInv, FileKept
<1>3. call'[w].pc \notin {"append", "store"}
  BY StartCreateVolume, StartCreateSnapshot, StartExpose, StartUnexpose, StartDeleteVolume,
     StartDeleteSnapshot DEF Starts, TurnsTo
<1>4. \A x \in Workers : NewFileKept(call[x])'
  BY <1>1, <1>3 DEF FilesInv, NewFileKept, FileOf
<1>. QED  BY <1>1, <1>2, <1>4 DEF FilesInv

(* The walk of a single handler finds the backing image it goes on to.     *)
LEMMA ReleaseRemoves ==
  ASSUME OwnInv, SafeInv, NEW w \in Workers, Release(w)
  PROVE  call[w].layer \notin DOMAIN images'
<1>. DEFINE c == call[w]
            b == c.ptr.BackingImageID
<1>1. c.layer \in DOMAIN images /\ c.ptr = Deref(c.layer)
  BY DEF SafeInv, CallsHold, VictimUnused, Release
<1>2. b = images[c.layer].BackingImageID
  BY <1>1 DEF Deref
<1>3. b = None \/ b \in DOMAIN images
  BY <1>1, <1>2 DEF SafeInv, MapInv, BackingChain
<1>4. images' = WithoutImage(images, c.layer, b)
  BY <1>3 DEF Release
<1>. QED  BY <1>4 DEF WithoutImage, Drop

LEMMA FileKeptContinue ==
  ASSUME DistinctQSDIDs, OwnInv, HandlerInv, GraphInv, FilesInv, ~Disciplined => SafeInv,
         NEW w \in Workers, Continue(w), NEW i \in DOMAIN images'
  PROVE  FileKept(i)'
<1>. DEFINE c == call[w]
<1>0. /\ TypeInv /\ call \in [Workers -> Call] /\ c \in Call /\ CallOK(c)
      /\ Placed(c, nodes, images, taken)
      /\ i \in DOMAIN images => i \in ImageID
  BY DEF OwnInv, TypeInv, TypeOK, MemTypeOK, CallTypeInv, GraphInv
<1>1. CASE c.pc = "store" /\ i = c.id /\ images'[i].File = FileOf(c)
  <2>1. FileOf(c) \in files
    BY <1>1 DEF FilesInv, NewFileKept
  <2>. QED  BY <1>1, <2>1, FileChange DEF FileKept
<1>2. CASE KeepsOwner(i) /\ images[i].File \in files
  <2>1. i \in DOMAIN images /\ images'[i].File = images[i].File
    BY <1>2 DEF KeepsOwner
  <2>. SUFFICES ASSUME images[i].File \notin files'
                PROVE  FileKept(i)'
    BY <2>1 DEF FileKept
  <2>2. c.pc = "remove" /\ images[i].File = c.ptr.File
    BY <1>2, FileChange
  <2>3. Belongs(images[i].File, i) /\ Belongs(c.ptr.File, c.layer)
    BY <2>1, <2>2 DEF HandlerInv
  <2>4. i = c.layer
    BY <1>0, <2>1, <2>2, <2>3, BelongsApart DEF CallOK
  <2>5. RemoveFile(w)
    BY <2>2 DEF Continue, QemuImgCreate, AfterQemuImg, AddNode, AfterAdd, Append, Store, Export,
                Unexport, RemoveSocketDir, DelNode, RemoveFile, Release, RemoveDir, Reply
  <2>6. Goto(w, "release") /\ UNCHANGED nodes
    BY <1>2, <2>5 DEF RemoveFile, graphVars
  <2>7. call'[w].pc = "release" /\ call'[w].layer = i
    BY <1>0, <2>4, <2>6, GotoFields
  <2>. QED  BY <1>0, <2>2, <2>4, <2>6, <2>7 DEF FileKept, Placed
<1>3. CASE KeepsOwner(i) /\ images[i].File \notin files
  <2>1. i \in DOMAIN images /\ images'[i].File = images[i].File
    BY <1>3 DEF KeepsOwner
  <2>2. /\ QSDID[i] \notin DOMAIN nodes
        /\ Disciplined \/ \E x \in Workers : call[x].pc = "release" /\ call[x].layer = i
    BY <1>3, <2>1 DEF FilesInv, FileKept
  <2>3. Disciplined
    <3>. SUFFICES ASSUME ~Disciplined, NEW x \in Workers, call[x].pc = "release", call[x].layer = i
                  PROVE  FALSE
      BY <2>2
    <3>1. x = w
      BY ConstantsAssumption
    <3>2. Release(w)
      BY <3>1 DEF Continue, QemuImgCreate, AfterQemuImg, AddNode, AfterAdd, Append, Store, Export,
                  Unexport, RemoveSocketDir, DelNode, RemoveFile, Release, RemoveDir, Reply
    <3>. QED  BY <3>1, <3>2, ReleaseRemoves
  <2>4. QSDID[i] \notin DOMAIN nodes'
    <3>. SUFFICES ASSUME QSDID[i] \in DOMAIN nodes'
                  PROVE  FALSE
      OBVIOUS
    <3>1. c.pc \in CreatePC /\ QSDID[i] = QSDID[c.id]
      BY <2>2, NodeChange DEF AfterAdd
    <3>2. i = c.id
      BY <1>0, <2>1, <3>1, NewNames DEF DistinctQSDIDs
    <3>. QED  BY <2>1, <2>3, <3>1, <3>2 DEF OwnInv, IdsTaken
  <2>. QED  BY <2>3, <2>4 DEF FileKept
<1>. QED  BY <1>0, <1>1, <1>2, <1>3, ImageChange

(* No other handler removes the file of an overlay that is being made.     *)
LEMMA NewFileContinue ==
  ASSUME DistinctQSDIDs, OwnInv, HandlerInv, GraphInv, FilesInv, NEW w \in Workers, Continue(w),
         NEW x \in Workers
  PROVE  NewFileKept(call[x])'
<1>0. TypeInv /\ CallOK(call[x]) /\ CallOK(call[w])
  BY DEF OwnInv, TypeInv, CallTypeInv
<1>. SUFFICES ASSUME call'[x].pc \in {"append", "store"}
              PROVE  FileOf(call'[x]) \in files'
  BY DEF NewFileKept, FileOf
<1>1. CASE call'[x] = call[x]
  <2>1. FileOf(call[x]) \in files
    BY <1>1 DEF FilesInv, NewFileKept
  <2>. SUFFICES ASSUME FileOf(call[x]) \notin files'
                PROVE  FALSE
    BY <1>1
  <2>2. call[w].pc = "remove" /\ FileOf(call[x]) = call[w].ptr.File
    BY <2>1, FileChange
  <2>3. Belongs(call[w].ptr.File, call[w].layer) /\ call[w].layer \in ImageID
    BY <1>0, <2>2 DEF HandlerInv, CallOK
  <2>4. Belongs(FileOf(call[x]), call[x].id) /\ call[x].id \in ImageID
    BY <1>0, <1>1, FileOfBelongs, NewNames
  <2>5. call[w].layer = call[x].id
    BY <2>2, <2>3, <2>4, BelongsApart
  <2>. QED  BY <1>1, <2>2, <2>5, CreatesAnother
<1>2. CASE call'[x] # call[x]
  <2>1. x = w /\ ~Reply(w)
    <3>1. Reply(w) => call'[w].pc = "idle"
      BY <1>0 DEF Reply, Become, NoCall, TypeInv, TypeOK
    <3>. QED  BY <1>0, <1>2, <3>1, ContinueMoves
  <2>2. SameNames(call'[w], call[w])
    BY <1>0, <1>2, <2>1, ContinueMoves DEF Moves
  <2>3. FileOf(call'[w]) = FileOf(call[w])
    BY <2>2 DEF SameNames, FileOf
  <2>4. call[w].pc \in {"addImage", "addBacked", "addOverlay", "append"}
    BY <1>0, <1>2, <2>1, ContinueMoves DEF Moves, Follows
  <2>5. FileOf(call[w]) \in files /\ files' = files
    <3>1. CASE call[w].pc = "append"
      <4>1. Append(w)
        BY <3>1 DEF Continue, QemuImgCreate, AfterQemuImg, AddNode, AfterAdd, Append, Store, Export,
                    Unexport, RemoveSocketDir, DelNode, RemoveFile, Release, RemoveDir, Reply
      <4>. QED  BY <3>1, <4>1 DEF Append, fsVars, FilesInv, NewFileKept
    <3>2. CASE call[w].pc # "append"
      <4>1. AddNode(w)
        BY <2>4, <3>2 DEF Continue, QemuImgCreate, AfterQemuImg, AddNode, AfterAdd, Append, Store,
                          Export, Unexport, RemoveSocketDir, DelNode, RemoveFile, Release, RemoveDir, Reply
      <4>2. ~Fail(w)
        BY <1>0, <2>1, AtKeeps DEF Fail, Failed, Become, TypeInv, TypeOK
      <4>. QED  BY <4>1, <4>2 DEF AddNode, Granted, CanAddNode, fsVars
    <3>. QED  BY <3>1, <3>2
  <2>. QED  BY <2>1, <2>3, <2>5
<1>. QED  BY <1>1, <1>2

LEMMA FilesInductive ==
  ASSUME DistinctQSDIDs
  PROVE  /\ Init => HandlerInv /\ FilesInv
         /\ OwnInv /\ HandlerInv /\ GraphInv /\ FilesInv /\ (~Disciplined => SafeInv) /\ [Next]_vars
            => HandlerInv' /\ FilesInv'
<1>1. Init => HandlerInv /\ FilesInv
  BY HandlerInit DEF Init, Empty, FilesInv, NewFileKept, NoCall
<1>. SUFFICES ASSUME OwnInv, HandlerInv, GraphInv, FilesInv, ~Disciplined => SafeInv, [Next]_vars
              PROVE  HandlerInv' /\ FilesInv'
  BY <1>1
<1>2. CASE Restart
  BY <1>2, HandlerRestart DEF Restart, Empty, FilesInv, NewFileKept, NoCall
<1>3. ASSUME NEW w \in Workers, Begin(w)
      PROVE  HandlerInv' /\ FilesInv'
  BY <1>3, BeginStarts, HandlerStarts, FilesStarts DEF OwnInv
<1>4. ASSUME NEW w \in Workers, Continue(w)
      PROVE  HandlerInv' /\ FilesInv'
  BY <1>4, HandlerContinue, FileKeptContinue, NewFileContinue DEF OwnInv, FilesInv
<1>5. CASE UNCHANGED vars
  BY <1>5 DEF vars, graphVars, memVars, fsVars, HandlerInv, FilesInv, FileKept, NewFileKept, FileOf
<1>. QED  BY <1>2, <1>3, <1>4, <1>5 DEF Next

(* With any number of handlers and whatever fails: while the daemon has    *)
(* the node of an image, the image's file is there.                        *)
THEOREM FilesStay ==
  ASSUME DistinctQSDIDs
  PROVE  Spec => []FilesPresent
<1>1. FilesInv => FilesPresent
  BY DEF FilesInv, FileKept, FilesPresent
<1>2. Init => OwnInv /\ GraphInv
  BY TypeInit, OwnInit, GraphInductive
<1>3. OwnInv /\ GraphInv /\ [Next]_vars => OwnInv' /\ GraphInv'
  BY TypeInductive, OwnInductive, GraphInductive DEF OwnInv
<1>4. Spec => [](OwnInv /\ GraphInv)
  BY <1>2, <1>3, PTL DEF Spec
<1>5. CASE Disciplined
  <2>1. Init => HandlerInv /\ FilesInv
    BY FilesInductive
  <2>2. OwnInv /\ HandlerInv /\ GraphInv /\ FilesInv /\ [Next]_vars => HandlerInv' /\ FilesInv'
    BY <1>5, FilesInductive
  <2>. QED  BY <1>1, <1>4, <2>1, <2>2, PTL DEF Spec
<1>6. CASE ~Disciplined
  <2>1. OneCall
    BY <1>6, ConstantsAssumption DEF OneCall
  <2>2. Spec => []SafeInv
    BY <2>1, SafeInductive
  <2>3. Init => HandlerInv /\ FilesInv
    BY FilesInductive
  <2>4. OwnInv /\ HandlerInv /\ GraphInv /\ FilesInv /\ SafeInv /\ [Next]_vars => HandlerInv' /\ FilesInv'
    BY FilesInductive
  <2>. QED  BY <1>1, <1>4, <2>2, <2>3, <2>4, PTL DEF Spec
<1>. QED  BY <1>5, <1>6

-----------------------------------------------------------------------------
(* The counts.  RefCount is read and written in different steps of         *)
(* handlers that overtake one another, and deletes fail half-way; it is    *)
(* exact because an entry goes once, by the one handler whose blockdev-del *)
(* took its node, and takes along the reference it came with.              *)

(* What a delete relies on: its layer is known until its node is removed,  *)
(* then it is in the map, and what it is backed by has not changed.        *)
Held(c, g, im) ==
  /\ c.pc = "blockdevDel" => Known(c.layer, g, im)
  /\ c.pc \in {"remove", "release"} => c.layer \in DOMAIN im
  /\ c.pc \in DeletePC /\ c.layer \in DOMAIN im => c.ptr.BackingImageID = im[c.layer].BackingImageID

OneRemoves ==
  \A w, x \in Workers :
    /\ call[w].pc \in {"remove", "release"} /\ call[x].pc \in {"remove", "release"}
    /\ call[w].layer = call[x].layer
    => w = x

BackedByTaken == \A i \in DOMAIN images : images[i].BackingImageID \in taken \cup {None}

CountInv ==
  /\ RefCountExact /\ BackedByTaken /\ OneRemoves
  /\ \A w \in Workers : Held(call[w], nodes, images)

LEMMA HeldElsewhere ==
  ASSUME NEW c, c.pc \notin DeletePC, NEW g, NEW im
  PROVE  Held(c, g, im)
  BY DEF Held

(* A step that changes neither links nor counts.                           *)
LEMMA CountsKept ==
  ASSUME RefCountExact, BackedByTaken, taken \subseteq taken', DOMAIN images' = DOMAIN images,
         \A i \in DOMAIN images :
           /\ images'[i].BackingImageID = images[i].BackingImageID
           /\ images'[i].RefCount = images[i].RefCount
  PROVE  RefCountExact' /\ BackedByTaken'
<1>1. \A i : Overlays(i)' = Overlays(i)
  BY DEF Overlays
<1>. QED  BY <1>1 DEF RefCountExact, BackedByTaken

(* What Store does to links and counts: the new image is on nothing that   *)
(* has been created before, and its base counts it.                        *)
LEMMA StoreCounts ==
  ASSUME Disciplined, OwnInv, GraphInv, NEW w \in Workers, Store(w)
  PROVE  LET id == call[w].id
             b  == call[w].layer IN
         /\ id \in ImageID /\ id \notin DOMAIN images /\ id \notin taken /\ id # None
         /\ b # None => b \in DOMAIN images /\ b \in taken
         /\ DOMAIN images' = DOMAIN images \cup {id}
         /\ images'[id].BackingImageID = b /\ images'[id].RefCount = 0
         /\ \A i \in DOMAIN images :
              /\ images'[i].BackingImageID = images[i].BackingImageID
              /\ images'[i].RefCount = images[i].RefCount + (IF i = b THEN 1 ELSE 0)
<1>. DEFINE c  == call[w]
            id == c.id
            b  == c.layer
            im == IF b = None THEN images ELSE WithRef(images, b)
<1>1. /\ CallOK(c) /\ c.pc = "store" /\ MemTypeOK /\ GraphTypeOK /\ Whole(nodes)
      /\ Placed(c, nodes, images, taken)
  BY DEF OwnInv, TypeInv, TypeOK, CallTypeInv, GraphInv, Store
<1>2. id \in ImageID /\ id # None /\ id \notin taken /\ id \notin DOMAIN images
  BY <1>1, NewNames DEF OwnInv, IdsTaken
<1>3. b # None => b \in DOMAIN images /\ b \in taken
  BY <1>1, AboveIsNode DEF Placed, Known
<1>4. images' = Put(im, id, NewImage(c))
  BY DEF Store
<1>5. /\ DOMAIN im = DOMAIN images
      /\ \A i \in DOMAIN images :
           /\ im[i].BackingImageID = images[i].BackingImageID
           /\ im[i].RefCount = images[i].RefCount + (IF i = b THEN 1 ELSE 0)
  <2>1. CASE b = None
    BY <1>1, <2>1, ConstantsAssumption DEF MemTypeOK, QCOWImage
  <2>2. CASE b # None
    <3>1. im = [images EXCEPT ![b].RefCount = @ + 1]
      BY <2>2 DEF WithRef
    <3>. QED  BY <1>1, <1>3, <2>2, <3>1 DEF MemTypeOK, QCOWImage
  <2>. QED  BY <2>1, <2>2
<1>. HIDE DEF im
<1>6. /\ DOMAIN images' = DOMAIN images \cup {id}
      /\ images'[id] = NewImage(c)
      /\ \A i \in DOMAIN images : images'[i] = im[i]
  BY <1>2, <1>4, <1>5 DEF Put
<1>. QED  BY <1>2, <1>3, <1>5, <1>6 DEF NewImage

LEMMA CountStore ==
  ASSUME Disciplined, OwnInv, GraphInv, CountInv, NEW w \in Workers, Store(w)
  PROVE  RefCountExact' /\ BackedByTaken'
<1>. DEFINE id == call[w].id
            b  == call[w].layer
<1>0. MemTypeOK
  BY DEF OwnInv, TypeInv, TypeOK
<1>1. /\ id \in ImageID /\ id \notin DOMAIN images /\ id \notin taken /\ id # None
      /\ b # None => b \in DOMAIN images /\ b \in taken
      /\ DOMAIN images' = DOMAIN images \cup {id}
      /\ images'[id].BackingImageID = b /\ images'[id].RefCount = 0
      /\ \A i \in DOMAIN images :
           /\ images'[i].BackingImageID = images[i].BackingImageID
           /\ images'[i].RefCount = images[i].RefCount + (IF i = b THEN 1 ELSE 0)
  BY StoreCounts
<1>2. taken \subseteq taken'
  BY DEF Store
<1>. HIDE DEF id, b
<1>3. BackedByTaken'
  BY <1>1, <1>2 DEF CountInv, BackedByTaken
<1>4. ASSUME NEW i \in DOMAIN images'
      PROVE  images'[i].RefCount = Cardinality(Overlays(i)')
  <2>1. CASE i = id
    <3>1. b # id
      BY <1>1
    <3>2. \A j \in DOMAIN images : images[j].BackingImageID # id
      BY <1>1 DEF CountInv, BackedByTaken
    <3>3. Overlays(i)' = {}
      BY <1>1, <2>1, <3>1, <3>2 DEF Overlays
    <3>. QED  BY <1>1, <2>1, <3>3, FS_EmptySet
  <2>2. CASE i # id /\ i # b
    <3>1. Overlays(i)' = Overlays(i) /\ i \in DOMAIN images
      BY <1>1, <2>2 DEF Overlays
    <3>2. images'[i].RefCount = images[i].RefCount + 0 /\ images[i].RefCount \in Int
      BY <1>0, <1>1, <2>2, <3>1 DEF MemTypeOK, QCOWImage
    <3>. QED  BY <3>1, <3>2 DEF CountInv, RefCountExact
  <2>3. CASE i # id /\ i = b
    <3>1. Overlays(i)' = Overlays(i) \cup {id} /\ id \notin Overlays(i) /\ i \in DOMAIN images
      BY <1>1, <2>3 DEF Overlays
    <3>2. Cardinality(Overlays(i) \cup {id}) = Cardinality(Overlays(i)) + 1
      BY <1>0, <3>1, OverlaysFinite, FS_AddElement
    <3>3. images[i].RefCount = Cardinality(Overlays(i))
      BY <3>1 DEF CountInv, RefCountExact
    <3>. QED  BY <1>1, <2>3, <3>1, <3>2, <3>3
  <2>. QED  BY <2>1, <2>2, <2>3
<1>. QED  BY <1>3, <1>4 DEF RefCountExact

LEMMA CountRelease ==
  ASSUME OwnInv, CountInv, NEW w \in Workers, Release(w)
  PROVE  /\ RefCountExact' /\ BackedByTaken'
         /\ \A i \in DOMAIN images' :
              i \in DOMAIN images /\ images'[i].BackingImageID = images[i].BackingImageID
<1>. DEFINE c == call[w]
            l == c.layer
            b == c.ptr.BackingImageID
            im == IF b = None THEN images ELSE [images EXCEPT ![b].RefCount = @ - 1]
<1>0. MemTypeOK
  BY DEF OwnInv, TypeInv, TypeOK
<1>1. CASE UNCHANGED images
  <2>1. UNCHANGED taken
    BY DEF Release
  <2>. QED  BY <1>1, <2>1, CountsKept DEF CountInv
<1>2. CASE ~UNCHANGED images
  <2>1. l \in DOMAIN images /\ b = images[l].BackingImageID
    BY DEF CountInv, Held, Release
  <2>2. /\ b # None => b \in DOMAIN images
        /\ images' = Drop(im, l) /\ UNCHANGED taken
    BY <1>2 DEF Release, WithoutImage, memVars
  <2>3. /\ DOMAIN im = DOMAIN images
        /\ \A i \in DOMAIN images :
             /\ im[i].BackingImageID = images[i].BackingImageID
             /\ im[i].RefCount = images[i].RefCount - (IF i = b THEN 1 ELSE 0)
    <3>1. CASE b = None
      BY <1>0, <3>1, ConstantsAssumption DEF MemTypeOK, QCOWImage
    <3>2. CASE b # None
      BY <1>0, <2>2, <3>2 DEF MemTypeOK, QCOWImage
    <3>. QED  BY <3>1, <3>2
  <2>. HIDE DEF im
  <2>4. /\ DOMAIN images' = DOMAIN images \ {l}
        /\ \A i \in DOMAIN images' :
             /\ images'[i].BackingImageID = images[i].BackingImageID
             /\ images'[i].RefCount = images[i].RefCount - (IF i = b THEN 1 ELSE 0)
    BY <2>2, <2>3 DEF Drop
  <2>. HIDE DEF l, b
  <2>5. ASSUME NEW i \in DOMAIN images'
        PROVE  images'[i].RefCount = Cardinality(Overlays(i)')
    <3>1. Overlays(i)' = Overlays(i) \ {l} /\ (l \in Overlays(i) <=> i = b)
      BY <2>1, <2>4 DEF Overlays
    <3>2. Cardinality(Overlays(i) \ {l}) = Cardinality(Overlays(i)) - (IF i = b THEN 1 ELSE 0)
      BY <1>0, <3>1, OverlaysFinite, OneLess
    <3>3. images[i].RefCount = Cardinality(Overlays(i))
      BY <2>4, <2>5 DEF CountInv, RefCountExact
    <3>. QED  BY <2>4, <3>1, <3>2, <3>3
  <2>6. BackedByTaken'
    BY <2>2, <2>4 DEF CountInv, BackedByTaken
  <2>. QED  BY <2>4, <2>5, <2>6 DEF RefCountExact
<1>. QED  BY <1>1, <1>2

LEMMA CountsContinue ==
  ASSUME Disciplined, OwnInv, GraphInv, CountInv, NEW w \in Workers, Continue(w)
  PROVE  /\ RefCountExact' /\ BackedByTaken'
         /\ \A i \in DOMAIN images \cap DOMAIN images' :
              images'[i].BackingImageID = images[i].BackingImageID
<1>1. CASE Store(w)
  BY <1>1, StoreCounts, CountStore
<1>2. CASE Release(w)
  BY <1>2, CountRelease
<1>3. CASE ~Store(w) /\ ~Release(w)
  <2>1. UNCHANGED <<images, taken>>
    BY <1>3 DEF Continue, QemuImgCreate, AddNode, Append, Export, Unexport, RemoveSocketDir,
                DelNode, RemoveFile, RemoveDir, Reply, memVars
  <2>. QED  BY <2>1, CountsKept DEF CountInv
<1>. QED  BY <1>1, <1>2, <1>3

(* The handler that goes on from blockdev-del has found the node there.    *)
LEMMA DelNodeGranted ==
  ASSUME TypeInv, NEW w \in Workers, Continue(w), call'[w].pc \in {"remove", "release"}
  PROVE  /\ call'[w].layer = call[w].layer /\ call'[w].ptr = call[w].ptr
         /\ \/ call[w].pc = "remove" /\ call'[w].pc = "release"
            \/ /\ call[w].pc = "blockdevDel" /\ QSDID[call[w].layer] \in DOMAIN nodes
               /\ call'[w].pc = "remove"
         /\ UNCHANGED images
<1>1. call'[w].pc # call[w].pc \/ call'[w] = call[w]
  <2>1. Reply(w) => call'[w].pc = "idle"
    BY DEF Reply, Become, NoCall, TypeInv, TypeOK
  <2>. QED  BY <2>1, ContinueMoves DEF Moves, Follows
<1>2. ~Fail(w) /\ ~Succeed(w)
  BY AtKeeps DEF Fail, Failed, Succeed, Succeeded, Become, TypeInv, TypeOK
<1>3. CASE DelNode(w)
  <2>1. Goto(w, "remove") /\ CanBlockdevDel(QSDID[call[w].layer]) /\ call[w].pc = "blockdevDel"
        /\ UNCHANGED images
    BY <1>2, <1>3 DEF DelNode, Granted, memVars
  <2>. QED  BY <2>1, GotoFields DEF CanBlockdevDel
<1>4. CASE RemoveFile(w)
  <2>1. Goto(w, "release") /\ call[w].pc = "remove" /\ UNCHANGED images
    BY <1>2, <1>4 DEF RemoveFile, memVars
  <2>. QED  BY <2>1, GotoFields
<1>5. CASE ~DelNode(w) /\ ~RemoveFile(w)
  <2>1. call[w].pc \notin {"blockdevDel", "remove"}
    BY <1>5 DEF Continue, QemuImgCreate, AfterQemuImg, AddNode, AfterAdd, Append, Store, Export, Unexport,
                RemoveSocketDir, Release, RemoveDir, Reply
  <2>2. call'[w] = call[w] /\ call[w].pc = "release"
    <3>1. Reply(w) => call'[w].pc = "idle"
      BY DEF Reply, Become, NoCall, TypeInv, TypeOK
    <3>. QED  BY <1>1, <2>1, <3>1, ContinueMoves DEF Moves, Follows
  <2>3. Release(w)
    BY <2>2 DEF Continue, QemuImgCreate, AfterQemuImg, AddNode, AfterAdd, Append, Store, Export, Unexport,
                RemoveSocketDir, DelNode, RemoveFile, Release, RemoveDir, Reply
  <2>4. call'[w].pc \in {"rmdir", "blockdevDel", "succeeded"}
    <3>1. call[w] \in Call
      BY DEF TypeInv, TypeOK
    <3>. QED  BY <1>2, <2>3, <3>1, GotoFields, AtKeeps
              DEF Release, CleanUp, Succeeded, Become, TypeInv, TypeOK
  <2>. QED  BY <2>4
<1>. QED  BY <1>3, <1>4, <1>5

LEMMA HeldContinue ==
  ASSUME Disciplined, DistinctQSDIDs, OwnInv, GraphInv, CountInv, NEW w \in Workers, Continue(w),
         NEW x \in Workers
  PROVE  Held(call'[x], nodes', images')
<1>. DEFINE c == call[x]
            d == call'[x]
<1>. SUFFICES ASSUME d.pc \in DeletePC
              PROVE  Held(d, nodes', images')
  BY HeldElsewhere
<1>0. /\ TypeInv /\ TypeInv' /\ CallOK(call[w]) /\ CallOK(c) /\ Held(c, nodes, images)
      /\ d.pc = c.pc => d.layer = c.layer /\ d.ptr = c.ptr
  <2>1. TypeInv'
    BY TypeContinue DEF OwnInv
  <2>2. \/ c.pc \in DeletePC /\ d.layer = c.layer /\ d.ptr = c.ptr
        \/ Collectable(images', d.layer) /\ d.ptr = Deref(d.layer)
    BY ContinueProceeds DEF OwnInv, Proceeds
  <2>3. d.pc = c.pc => d = c
    <3>1. Reply(w) => call[w].pc \in {"succeeded", "failed"}
      BY DEF Reply
    <3>. QED  BY <3>1, ContinueMoves DEF OwnInv, Moves, Follows
  <2>. QED  BY <2>1, <2>3 DEF OwnInv, TypeInv, CallTypeInv, CountInv
<1>1. \A i \in DOMAIN images \cap DOMAIN images' : images'[i].BackingImageID = images[i].BackingImageID
  BY CountsContinue
<1>2. CASE Collectable(images', d.layer) /\ d.ptr = Deref(d.layer) /\ d.pc = "blockdevDel"
  <2>1. d.layer \in DOMAIN images'
    BY <1>2 DEF Collectable
  <2>2. CASE d = c
    <3>1. d.layer \in taken
      BY <2>2 DEF OwnInv, Owned, VictimOwned
    <3>2. d.layer \in DOMAIN images
      <4>. SUFFICES ASSUME d.layer \notin DOMAIN images
                    PROVE  FALSE
        OBVIOUS
      <4>1. call[w].pc = "store" /\ d.layer = call[w].id
        BY <1>0, <2>1, ImageChange DEF KeepsOwner
      <4>. QED  BY <3>1, <4>1 DEF OwnInv, IdsTaken
    <3>. QED  BY <1>1, <1>2, <2>1, <3>2 DEF Held, Known, Deref
  <2>3. CASE d # c
    <3>1. x = w /\ call[w].pc \in {"release", "rmdir"}
      <4>1. Reply(w) => call'[w].pc = "idle"
        BY <1>0 DEF Reply, Become, NoCall, TypeInv, TypeOK
      <4>. QED  BY <1>0, <1>2, <2>3, <4>1, ContinueMoves DEF Moves, Follows
    <3>2. d.layer \in DOMAIN images
      BY <1>0, <2>1, <3>1, ImageChange DEF KeepsOwner
    <3>. QED  BY <1>1, <1>2, <2>1, <3>2 DEF Held, Known, Deref
  <2>. QED  BY <2>2, <2>3
<1>3. CASE c.pc \in DeletePC /\ d.layer = c.layer /\ d.ptr = c.ptr
  <2>1. c.layer \in taken /\ c.layer \in ImageID
    BY <1>0, <1>3 DEF OwnInv, Owned, VictimOwned, CallOK
  <2>2. call[w].pc \in CreatePC => c.layer # call[w].id
    BY <2>1 DEF OwnInv, IdsTaken
  <2>3. c.layer \in DOMAIN images' => c.layer \in DOMAIN images
    BY <1>0, <2>2, ImageChange DEF KeepsOwner
  <2>4. d.layer \in DOMAIN images' => d.ptr.BackingImageID = images'[d.layer].BackingImageID
    BY <1>0, <1>1, <1>3, <2>3 DEF Held
  <2>5. ASSUME d.pc = "blockdevDel"
        PROVE  Known(d.layer, nodes', images')
    <3>1. CASE d = c
      BY <1>0, <2>1, <2>2, <2>5, <3>1, KnownLasts DEF Held
    <3>2. CASE d # c
      <4>1. x = w /\ call[w].pc \in {"release", "rmdir"}
        <5>1. Reply(w) => call'[w].pc = "idle"
          BY <1>0 DEF Reply, Become, NoCall, TypeInv, TypeOK
        <5>. QED  BY <1>0, <2>5, <3>2, <5>1, ContinueMoves DEF Moves, Follows
      <4>2. QSDID[c.layer] \notin DOMAIN nodes
        BY <1>3, <4>1 DEF GraphInv, Placed
      <4>3. QSDID[c.layer] \notin DOMAIN nodes'
        BY <1>0, <2>1, <2>2, <4>2, NodeStaysAway
      <4>. QED  BY <1>3, <4>3 DEF Known
    <3>. QED  BY <3>1, <3>2
  <2>6. ASSUME d.pc \in {"remove", "release"}
        PROVE  d.layer \in DOMAIN images'
    <3>1. CASE x = w
      <4>1. /\ \/ c.pc = "remove"
               \/ c.pc = "blockdevDel" /\ QSDID[c.layer] \in DOMAIN nodes
            /\ UNCHANGED images
        BY <1>0, <2>6, <3>1, DelNodeGranted
      <4>. QED  BY <1>0, <1>3, <4>1 DEF Held, Known
    <3>2. CASE x # w
      <4>1. d = c
        BY <1>0, <2>6, <3>2, ContinueMoves
      <4>2. c.layer \in DOMAIN images
        BY <1>0, <2>6, <4>1 DEF Held
      <4>3. ~(call[w].pc = "release" /\ c.layer = call[w].layer)
        BY <2>6, <3>2, <4>1 DEF CountInv, OneRemoves
      <4>. QED  BY <1>0, <1>3, <4>2, <4>3, ImageChange
    <3>. QED  BY <3>1, <3>2
  <2>. QED  BY <2>4, <2>5, <2>6 DEF Held
<1>4. Collectable(images', d.layer) /\ d.ptr = Deref(d.layer) /\ d.pc # "blockdevDel" =>
        c.pc \in DeletePC /\ d.layer = c.layer /\ d.ptr = c.ptr
  <2>1. CASE x = w
    BY <1>0, <2>1, DelNodeGranted
  <2>2. CASE x # w
    BY <1>0, <2>2, ContinueMoves
  <2>. QED  BY <2>1, <2>2
<1>. QED  BY <1>0, <1>2, <1>3, <1>4, ContinueProceeds DEF Proceeds

LEMMA OneRemovesContinue ==
  ASSUME OwnInv, GraphInv, CountInv, NEW w \in Workers, Continue(w)
  PROVE  OneRemoves'
<1>0. TypeInv /\ \A x \in Workers : Placed(call[x], nodes, images, taken)
  BY DEF OwnInv, GraphInv
<1>1. ASSUME NEW x \in Workers, x # w, call'[x].pc \in {"remove", "release"},
             call'[w].pc \in {"remove", "release"}, call'[x].layer = call'[w].layer
      PROVE  FALSE
  <2>1. call'[x] = call[x]
    BY <1>0, <1>1, ContinueMoves
  <2>2. CASE call[w].pc = "remove"
    <3>1. call'[w].layer = call[w].layer
      BY <1>0, <1>1, DelNodeGranted
    <3>. QED  BY <1>1, <2>1, <2>2, <3>1 DEF CountInv, OneRemoves
  <2>3. CASE QSDID[call[w].layer] \in DOMAIN nodes
    <3>1. call'[w].layer = call[w].layer
      BY <1>0, <1>1, DelNodeGranted
    <3>. QED  BY <1>0, <1>1, <2>1, <2>3, <3>1 DEF Placed
  <2>. QED  BY <1>0, <1>1, <2>2, <2>3, DelNodeGranted
<1>2. ASSUME NEW x \in Workers, NEW y \in Workers, x # w, y # w,
             call'[x].pc \in {"remove", "release"}, call'[y].pc \in {"remove", "release"},
             call'[x].layer = call'[y].layer
      PROVE  x = y
  <2>1. call'[x] = call[x] /\ call'[y] = call[y]
    BY <1>0, <1>2, ContinueMoves
  <2>. QED  BY <1>2, <2>1 DEF CountInv, OneRemoves
<1>. QED  BY <1>1, <1>2 DEF OneRemoves

(* A handler that begins changes no link and no count.                     *)
LEMMA StartLinks ==
  ASSUME TypeInv, NEW w \in Workers, Starts(w)
  PROVE  \A i \in DOMAIN images : /\ images'[i].BackingImageID = images[i].BackingImageID
                                  /\ images'[i].RefCount = images[i].RefCount
<1>1. \A id \in DOMAIN images : images' = DropVolumeRef(images, id) =>
        \A i \in DOMAIN images : /\ images'[i].BackingImageID = images[i].BackingImageID
                                 /\ images'[i].RefCount = images[i].RefCount
  BY DEF DropVolumeRef, TypeInv, TypeOK, MemTypeOK, QCOWImage
<1>. QED  BY <1>1 DEF Starts, CreateVolume, CreateSnapshot, ExposeVhostUser, DeleteExporter,
                      DeleteVolume, DeleteSnapshot, memVars

LEMMA CountStarts ==
  ASSUME OwnInv, CountInv, NEW w \in Workers, Starts(w)
  PROVE  CountInv'
<1>0. TypeInv
  BY DEF OwnInv
<1>1. /\ \A x \in Workers \ {w} : call'[x] = call[x]
      /\ DOMAIN images' = DOMAIN images /\ UNCHANGED <<nodes, taken>>
  BY <1>0, StartKeeps
<1>2. \A i \in DOMAIN images : /\ images'[i].BackingImageID = images[i].BackingImageID
                               /\ images'[i].RefCount = images[i].RefCount
  BY <1>0, StartLinks
<1>3. \/ call'[w].pc \notin DeletePC
      \/ \E l \in DOMAIN images : TurnsTo(call'[w], l)
  BY <1>0, <1>1, StartCreateVolume, StartCreateSnapshot, StartExpose, StartUnexpose, StartDeleteVolume,
     StartDeleteSnapshot DEF Starts, Collectable, TurnsTo
<1>4. Held(call'[w], nodes', images')
  <2>1. CASE call'[w].pc \notin DeletePC
    BY <2>1, HeldElsewhere
  <2>2. ASSUME NEW l \in DOMAIN images, TurnsTo(call'[w], l)
        PROVE  Held(call'[w], nodes', images')
    BY <1>1, <1>2, <2>2 DEF Held, Known, TurnsTo, Deref
  <2>. QED  BY <1>3, <2>1, <2>2
<1>5. \A x \in Workers \ {w} : Held(call'[x], nodes', images')
  BY <1>1, <1>2 DEF CountInv, Held, Known
<1>6. OneRemoves'
  <2>1. call'[w].pc \notin {"remove", "release"}
    BY <1>3 DEF TurnsTo
  <2>. QED  BY <1>1, <2>1 DEF CountInv, OneRemoves
<1>7. RefCountExact' /\ BackedByTaken'
  BY <1>1, <1>2, CountsKept DEF CountInv
<1>. QED  BY <1>4, <1>5, <1>6, <1>7 DEF CountInv

LEMMA CountInductive ==
  ASSUME Disciplined, DistinctQSDIDs
  PROVE  /\ Init => CountInv
         /\ OwnInv /\ GraphInv /\ CountInv /\ [Next]_vars => CountInv'
<1>0. ASSUME NEW g, NEW im
      PROVE  Held(NoCall, g, im)
  BY HeldElsewhere DEF NoCall
<1>1. Init => CountInv
  BY <1>0 DEF Init, Empty, CountInv, RefCountExact, BackedByTaken, OneRemoves, NoCall
<1>2. ASSUME CountInv, Restart
      PROVE  CountInv'
  BY <1>0, <1>2 DEF Restart, Empty, CountInv, RefCountExact, BackedByTaken, OneRemoves, NoCall
<1>3. ASSUME CountInv, UNCHANGED vars
      PROVE  CountInv'
  BY <1>3 DEF vars, graphVars, memVars, CountInv, RefCountExact, BackedByTaken, OneRemoves, Overlays
<1>4. ASSUME OwnInv, GraphInv, CountInv, NEW w \in Workers, Continue(w)
      PROVE  CountInv'
  BY <1>4, CountsContinue, HeldContinue, OneRemovesContinue DEF CountInv
<1>. QED  BY <1>1, <1>2, <1>3, <1>4, BeginStarts, CountStarts DEF Next

(* For callers that name no id twice at a time and use none again, however *)
(* many handlers run, whatever fails and whenever the server restarts:     *)
(* RefCount is the number of overlays, at every step.                      *)
THEOREM RefCountsExact ==
  ASSUME Disciplined, DistinctQSDIDs
  PROVE  Spec => []RefCountExact
<1>1. CountInv => RefCountExact
  BY DEF CountInv
<1>2. Init => OwnInv /\ GraphInv
  BY TypeInit, OwnInit, GraphInductive
<1>3. OwnInv /\ GraphInv /\ [Next]_vars => OwnInv' /\ GraphInv'
  BY TypeInductive, OwnInductive, GraphInductive DEF OwnInv
<1>4. Init => CountInv
  BY CountInductive
<1>5. OwnInv /\ GraphInv /\ CountInv /\ [Next]_vars => CountInv'
  BY CountInductive
<1>. QED  BY <1>1, <1>2, <1>3, <1>4, <1>5, PTL DEF Spec

(* Every overlay is counted, in all settings: an image that DeleteVolume   *)
(* or deleteNodeWithZeroReference takes for unused is unused.              *)
THEOREM OverlaysCounted ==
  ASSUME DistinctQSDIDs
  PROVE  Spec => []RefCountCovers
<1>1. CASE Disciplined
  <2>1. TypeOK /\ RefCountExact => RefCountCovers
    BY DEF TypeOK, MemTypeOK, QCOWImage, RefCountExact, RefCountCovers
  <2>. QED  BY <1>1, <2>1, TypeCorrect, RefCountsExact, PTL
<1>2. CASE ~Disciplined
  <2>1. OneCall
    BY <1>2, ConstantsAssumption DEF OneCall
  <2>2. SafeInv => RefCountCovers
    BY DEF SafeInv, MapInv
  <2>. QED  BY <2>1, <2>2, SafeInductive, PTL
<1>. QED  BY <1>1, <1>2

-----------------------------------------------------------------------------
(* What is recorded and what the daemon has.  A delete goes by a count, and *)
(* a snapshot by a choice, that other handlers have overtaken; still an    *)
(* image with a node stands on the image it was made from, because the     *)
(* daemon refuses the blockdev-del and only puts nodes in between.         *)

(* An image that stays in the map, and has its node after the step.        *)
LEMMA HoldKept ==
  ASSUME Disciplined, DistinctQSDIDs, OwnInv, GraphInv, BasesHoldImages, NEW w \in Workers, Continue(w),
         NEW i \in DOMAIN images, NEW b, b = images[i].BackingImageID, b # None,
         QSDID[i] \in DOMAIN nodes', TypeInv', GraphInv'
  PROVE  StandsOnBase(i, b)'
<1>0. /\ TypeInv /\ Whole(nodes') /\ GraphTypeOK' /\ i \in ImageID /\ call[w] \in Call
      /\ Placed(call[w], nodes, images, taken) /\ CallOK(call[w])
  BY DEF OwnInv, TypeInv, TypeOK, MemTypeOK, CallTypeInv, GraphInv
<1>1. QSDID[i] \in DOMAIN nodes
  <2>1. CASE QSDID[i] \notin DOMAIN nodes
    <3>1. call[w].pc \in CreatePC /\ QSDID[i] = QSDID[call[w].id]
      BY <2>1, NodeChange DEF AfterAdd
    <3>2. i = call[w].id
      BY <1>0, <3>1, NewNames DEF DistinctQSDIDs
    <3>. QED  BY <3>1, <3>2 DEF OwnInv, IdsTaken
  <2>. QED  BY <2>1
<1>2. StandsOnBase(i, b)
  BY <1>1 DEF BasesHoldImages
<1>3. Above(nodes', QSDID[i], QSDID[b])
  <2>1. CASE call[w].pc = "blockdevDel" /\ QSDID[i] = QSDID[call[w].layer]
    <3>1. DelNode(w)
      BY <2>1 DEF Continue, QemuImgCreate, AfterQemuImg, AddNode, AfterAdd, Append, Store, Export,
                  Unexport, RemoveSocketDir, RemoveFile, Release, RemoveDir, Reply
    <3>2. UNCHANGED nodes
      BY <2>1, <3>1 DEF DelNode, BlockdevDel, Drop, graphVars
    <3>. QED  BY <1>2, <3>2 DEF StandsOnBase
  <2>2. CASE ~(call[w].pc = "blockdevDel" /\ QSDID[i] = QSDID[call[w].layer])
    BY <1>0, <1>2, <2>2, AboveKept DEF StandsOnBase
  <2>. QED  BY <2>1, <2>2
<1>4. QSDID[b] \in DOMAIN nodes'
  BY <1>0, <1>3 DEF GraphTypeOK, Whole, Above
<1>5. b \in DOMAIN images'
  <2>1. CASE b \notin DOMAIN images'
    <3>1. call[w].pc = "release" /\ b = call[w].layer
      BY <1>0, <1>2, <2>1, ImageChange DEF StandsOnBase
    <3>. QED  BY <1>0, <1>2, <3>1 DEF Placed, StandsOnBase
  <2>. QED  BY <2>1
<1>. QED  BY <1>3, <1>4, <1>5 DEF StandsOnBase

(* The image that is recorded: it was put on its base when its node came.  *)
LEMMA HoldStore ==
  ASSUME Disciplined, OwnInv, GraphInv, NEW w \in Workers, Store(w),
         NEW i, i = call[w].id, NEW b, b = call[w].layer, b # None
  PROVE  StandsOnBase(i, b)'
<1>1. /\ Above(nodes, QSDID[i], QSDID[b])
      /\ QSDID[i] \in DOMAIN nodes /\ Whole(nodes) /\ GraphTypeOK
  BY DEF Store, GraphInv, Placed, OwnInv, TypeInv, TypeOK
<1>2. UNCHANGED nodes
  BY DEF Store, graphVars
<1>3. b \in DOMAIN images'
  BY StoreCounts
<1>. QED  BY <1>1, <1>2, <1>3, AboveIsNode DEF StandsOnBase

LEMMA HoldInductive ==
  ASSUME Disciplined, DistinctQSDIDs
  PROVE  /\ Init => BasesHoldImages
         /\ OwnInv /\ GraphInv /\ CountInv /\ BasesHoldImages /\ [Next]_vars /\ TypeInv' /\ GraphInv'
              => BasesHoldImages'
<1>1. Init => BasesHoldImages
  BY DEF Init, Empty, BasesHoldImages
<1>2. Restart => BasesHoldImages'
  BY DEF Restart, Empty, BasesHoldImages
<1>3. BasesHoldImages /\ UNCHANGED vars => BasesHoldImages'
  BY DEF vars, graphVars, memVars, BasesHoldImages, StandsOnBase
<1>4. ASSUME OwnInv, BasesHoldImages, NEW w \in Workers, Starts(w)
      PROVE  BasesHoldImages'
  <2>1. DOMAIN images' = DOMAIN images /\ UNCHANGED nodes
    BY <1>4, StartKeeps DEF OwnInv
  <2>2. \A i \in DOMAIN images : images'[i].BackingImageID = images[i].BackingImageID
    BY <1>4, StartLinks DEF OwnInv
  <2>. QED  BY <1>4, <2>1, <2>2 DEF BasesHoldImages, StandsOnBase
<1>5. ASSUME OwnInv, GraphInv, CountInv, BasesHoldImages, NEW w \in Workers, Continue(w), TypeInv', GraphInv'
      PROVE  BasesHoldImages'
  <2>. SUFFICES ASSUME NEW i \in DOMAIN images', NEW b, b = images'[i].BackingImageID,
                       QSDID[i] \in DOMAIN nodes', b # None
                PROVE  StandsOnBase(i, b)'
    BY DEF BasesHoldImages
  <2>1. CASE i \in DOMAIN images
    <3>1. b = images[i].BackingImageID
      BY <1>5, <2>1, CountsContinue
    <3>. QED  BY <1>5, <2>1, <3>1, HoldKept
  <2>2. CASE i \notin DOMAIN images
    <3>1. call[w].pc = "store" /\ i = call[w].id
      BY <1>5, <2>2, ImageChange DEF OwnInv, KeepsOwner
    <3>2. Store(w)
      BY <1>5, <3>1 DEF Continue, QemuImgCreate, AfterQemuImg, AddNode, AfterAdd, Append, DelNode, Export,
                        Unexport, RemoveSocketDir, RemoveFile, Release, RemoveDir, Reply
    <3>3. b = call[w].layer
      BY <1>5, <3>1, <3>2, StoreCounts
    <3>. QED  BY <1>5, <3>1, <3>2, <3>3, HoldStore
  <2>. QED  BY <2>1, <2>2
<1>. QED  BY <1>1, <1>2, <1>3, <1>4, <1>5, BeginStarts DEF Next, OwnInv

(* For disciplined callers, however many handlers run, whatever fails and  *)
(* whenever the server restarts: as long as an image has its node, the one *)
(* it was made from is in the map, has its node and is below it.           *)
THEOREM BasesHold ==
  ASSUME Disciplined, DistinctQSDIDs
  PROVE  Spec => []BasesHoldImages
<1>1. Init => OwnInv /\ GraphInv
  BY TypeInit, OwnInit, GraphInductive
<1>2. OwnInv /\ GraphInv /\ [Next]_vars => OwnInv' /\ GraphInv'
  BY TypeInductive, OwnInductive, GraphInductive DEF OwnInv
<1>3. Init => CountInv
  BY CountInductive
<1>4. OwnInv /\ GraphInv /\ CountInv /\ [Next]_vars => CountInv'
  BY CountInductive
<1>5. Init => BasesHoldImages
  BY HoldInductive
<1>6. OwnInv /\ GraphInv /\ CountInv /\ BasesHoldImages /\ [Next]_vars /\ OwnInv' /\ GraphInv'
        => BasesHoldImages'
  BY HoldInductive DEF OwnInv
<1>. QED  BY <1>1, <1>2, <1>3, <1>4, <1>5, <1>6, PTL DEF Spec

-----------------------------------------------------------------------------
(* The backing chains.  A layer can lose the one it is on to a delete that *)
(* was decided before it was stored; but the depths of those that are in   *)
(* the map still tell which is on which.                                   *)
DepthHeld(c, im) ==
  c.pc \in OverlayPC /\ c.layer \in DOMAIN im => c.ptr.Depth = im[c.layer].Depth

DepthInv == Deepens /\ \A w \in Workers : DepthHeld(call[w], images)

(* A step that removes images at most.                                     *)
LEMMA DeepensKept ==
  ASSUME Deepens,
         \A i \in DOMAIN images' :
           /\ i \in DOMAIN images
           /\ images'[i].BackingImageID = images[i].BackingImageID
           /\ images'[i].Depth = images[i].Depth
  PROVE  Deepens'
  BY DEF Deepens

LEMMA DepthStarts ==
  ASSUME OwnInv, DepthInv, NEW w \in Workers, Starts(w)
  PROVE  DepthInv'
<1>0. TypeInv
  BY DEF OwnInv
<1>1. (\A x \in Workers \ {w} : call'[x] = call[x]) /\ DOMAIN images' = DOMAIN images
  BY <1>0, StartKeeps
<1>2. \A i \in DOMAIN images : /\ images'[i].BackingImageID = images[i].BackingImageID
                               /\ images'[i].Depth = images[i].Depth
  <2>1. \A id \in DOMAIN images : images' = DropVolumeRef(images, id) =>
          \A i \in DOMAIN images : /\ images'[i].BackingImageID = images[i].BackingImageID
                                   /\ images'[i].Depth = images[i].Depth
    BY <1>0 DEF DropVolumeRef, TypeInv, TypeOK, MemTypeOK, QCOWImage
  <2>. QED  BY <2>1 DEF Starts, CreateVolume, CreateSnapshot, ExposeVhostUser, DeleteExporter,
                        DeleteVolume, DeleteSnapshot, memVars
<1>3. Deepens'
  BY <1>1, <1>2, DeepensKept DEF DepthInv
<1>4. \/ call'[w].pc \notin OverlayPC
      \/ call'[w].layer \in DOMAIN images /\ call'[w].ptr = Deref(call'[w].layer)
  <2>1. ASSUME NEW v \in Volumes, NEW src \in CloneSources \cup {None}, CreateVolume(w, v, src),
               call'[w].pc \in OverlayPC
        PROVE  call'[w].layer \in DOMAIN images /\ call'[w].ptr = Deref(call'[w].layer)
    <3>1. "CreateVolume" \in Op /\ v \in ImageID /\ src \in ImageID \cup {None}
      BY ConstantsAssumption DEF Op, ImageID
    <3>. QED  BY <1>0, <2>1, <3>1, NewCallAt DEF CreateVolume, Failed
  <2>2. ASSUME NEW s \in Snapshots, NEW v \in Volumes, CreateSnapshot(w, s, v), call'[w].pc \in OverlayPC
        PROVE  call'[w].layer \in DOMAIN images /\ call'[w].ptr = Deref(call'[w].layer)
    <3>1. "CreateSnapshot" \in Op /\ s \in ImageID /\ v \in ImageID \cup {None}
      BY DEF Op, ImageID
    <3>. QED  BY <1>0, <2>2, <3>1, NewCallAt DEF CreateSnapshot, Failed
  <2>3. ASSUME \/ \E v \in Volumes : ExposeVhostUser(w, v) \/ DeleteExporter(w, v) \/ DeleteVolume(w, v)
               \/ \E s \in Snapshots, v \in Volumes : DeleteSnapshot(w, s, v)
        PROVE  call'[w].pc \notin OverlayPC
    BY <1>0, <2>3, StartExpose, StartUnexpose, StartDeleteVolume, StartDeleteSnapshot DEF TurnsTo
  <2>. QED  BY <2>1, <2>2, <2>3 DEF Starts
<1>5. DepthHeld(call'[w], images')
  BY <1>1, <1>2, <1>4 DEF DepthHeld, Deref
<1>6. \A x \in Workers \ {w} : DepthHeld(call'[x], images')
  BY <1>1, <1>2 DEF DepthInv, DepthHeld
<1>. QED  BY <1>3, <1>5, <1>6 DEF DepthInv

LEMMA DepthKept ==
  ASSUME Disciplined, OwnInv, GraphInv, CountInv, DepthInv, NEW w \in Workers, Continue(w)
  PROVE  /\ Deepens'
         /\ \A i \in DOMAIN images' :
              \/ i \in DOMAIN images /\ images'[i].Depth = images[i].Depth
              \/ call[w].pc = "store" /\ i = call[w].id
<1>0. MemTypeOK
  BY DEF OwnInv, TypeInv, TypeOK
<1>1. CASE Store(w)
  <2>. DEFINE id == call[w].id
              b  == call[w].layer
              im == IF b = None THEN images ELSE WithRef(images, b)
  <2>1. /\ id \in ImageID /\ id \notin DOMAIN images /\ id \notin taken /\ id # None
        /\ b # None => b \in DOMAIN images
        /\ DOMAIN images' = DOMAIN images \cup {id}
        /\ images'[id].BackingImageID = b
        /\ \A i \in DOMAIN images : images'[i].BackingImageID = images[i].BackingImageID
    BY <1>1, StoreCounts
  <2>2. call[w].pc = "store" /\ images' = Put(im, id, NewImage(call[w]))
    BY <1>1 DEF Store
  <2>3. DOMAIN im = DOMAIN images /\ \A i \in DOMAIN images : im[i].Depth = images[i].Depth
    BY <1>0 DEF WithRef, MemTypeOK, QCOWImage
  <2>. HIDE DEF im
  <2>4. /\ \A i \in DOMAIN images : images'[i].Depth = images[i].Depth
        /\ images'[id] = NewImage(call[w])
    BY <2>1, <2>2, <2>3 DEF Put
  <2>5. b # None => images'[id].Depth = images[b].Depth + 1
    BY <2>1, <2>2, <2>4 DEF NewImage, DepthInv, DepthHeld
  <2>6. \A i \in DOMAIN images : images[i].BackingImageID # id
    BY <2>1 DEF CountInv, BackedByTaken
  <2>7. Deepens'
    <3>. SUFFICES ASSUME NEW i \in DOMAIN images', images'[i].BackingImageID \in DOMAIN images'
                  PROVE  images'[i].Depth = images'[images'[i].BackingImageID].Depth + 1
      BY DEF Deepens
    <3>1. CASE i = id
      <4>1. b # id /\ b \in DOMAIN images'
        BY <2>1, <3>1
      <4>2. b \in DOMAIN images /\ b # None
        BY <1>0, <2>1, <4>1, ConstantsAssumption DEF MemTypeOK
      <4>. QED  BY <2>1, <2>4, <2>5, <3>1, <4>2
    <3>2. CASE i # id
      BY <2>1, <2>4, <2>6, <3>2 DEF DepthInv, Deepens
    <3>. QED  BY <3>1, <3>2
  <2>. QED  BY <2>1, <2>2, <2>4, <2>7
<1>2. CASE Release(w)
  <2>1. \A i \in DOMAIN images' :
          i \in DOMAIN images /\ images'[i].BackingImageID = images[i].BackingImageID
    BY <1>2, CountRelease
  <2>2. \A i \in DOMAIN images' : images'[i].Depth = images[i].Depth
    BY <1>0, <1>2, <2>1 DEF Release, memVars, WithoutImage, Drop, MemTypeOK, QCOWImage
  <2>. QED  BY <2>1, <2>2, DeepensKept DEF DepthInv
<1>3. CASE ~Store(w) /\ ~Release(w)
  <2>1. UNCHANGED images
    BY <1>3 DEF Continue, QemuImgCreate, AddNode, Append, Export, Unexport, RemoveSocketDir,
                DelNode, RemoveFile, RemoveDir, Reply, memVars
  <2>. QED  BY <2>1, DeepensKept DEF DepthInv
<1>. QED  BY <1>1, <1>2, <1>3

LEMMA OverlayGoes ==
  ASSUME TypeInv, NEW w \in Workers, Continue(w), NEW x \in Workers, call'[x].pc \in OverlayPC,
         call'[x].layer \in DOMAIN images
  PROVE  call[x].pc \in OverlayPC /\ call'[x].layer = call[x].layer /\ call'[x].ptr = call[x].ptr
<1>1. CASE call'[x] = call[x]
  BY <1>1
<1>2. CASE call'[x] # call[x]
  <2>0. Reply(w) => call'[w].pc = "idle"
    BY DEF Reply, Become, NoCall, TypeInv, TypeOK
  <2>1. x = w /\ ~Reply(w) /\ Moves(call[w], call'[w]) /\ call'[w] # call[w]
    BY <1>2, <2>0, ContinueMoves
  <2>2. call[w].pc \in {"createBacked", "createOverlay", "addImage", "addBacked", "addOverlay", "append"}
    BY <2>1 DEF Moves, Follows
  <2>3. ~Fail(w)
    BY <2>1, AtKeeps DEF Fail, Failed, Become, TypeInv, TypeOK
  <2>4. \E pc : Goto(w, pc)
    BY <2>2, <2>3
    DEF Continue, QemuImgCreate, AfterQemuImg, AddNode, AfterAdd, Append, Store, Export, Unexport,
        RemoveSocketDir, DelNode, RemoveFile, Release, RemoveDir, Reply
  <2>5. call'[w].layer = call[w].layer /\ call'[w].ptr = call[w].ptr
    BY <2>4, GotoFields
  <2>6. call[w].pc # "addImage"
    <3>1. call[w].pc = "addImage" => call[w].layer = None
      BY DEF TypeInv, CallTypeInv, CallOK
    <3>. QED  BY <2>1, <2>5, <3>1, ConstantsAssumption DEF TypeInv, TypeOK, MemTypeOK
  <2>. QED  BY <2>1, <2>2, <2>5, <2>6
<1>. QED  BY <1>1, <1>2

LEMMA DepthContinue ==
  ASSUME Disciplined, OwnInv, GraphInv, CountInv, DepthInv, NEW w \in Workers, Continue(w)
  PROVE  DepthInv'
<1>0. TypeInv
  BY DEF OwnInv
<1>1. ASSUME NEW x \in Workers, call'[x].pc \in OverlayPC, call'[x].layer \in DOMAIN images'
      PROVE  call'[x].ptr.Depth = images'[call'[x].layer].Depth
  <2>1. CASE call'[x].layer \in DOMAIN images
    <3>1. call[x].pc \in OverlayPC /\ call'[x].layer = call[x].layer /\ call'[x].ptr = call[x].ptr
      BY <1>0, <1>1, <2>1, OverlayGoes
    <3>2. call[x].layer \in taken
      BY <2>1, <3>1, ConstantsAssumption DEF OwnInv, TypeInv, TypeOK, MemTypeOK, GraphInv, Placed
    <3>3. ~(call[w].pc = "store" /\ call[x].layer = call[w].id)
      BY <3>2 DEF OwnInv, IdsTaken
    <3>4. images'[call[x].layer].Depth = images[call[x].layer].Depth
      BY <1>1, <3>1, <3>3, DepthKept
    <3>. QED  BY <2>1, <3>1, <3>4 DEF DepthInv, DepthHeld
  <2>2. CASE call'[x].layer \notin DOMAIN images
    <3>1. call[w].pc = "store" /\ call'[x].layer = call[w].id
      BY <1>1, <2>2, DepthKept
    <3>2. call'[x] = call[x]
      <4>1. Reply(w) => call[w].pc # "store"
        BY DEF Reply
      <4>. QED  BY <1>0, <1>1, <3>1, <4>1, ContinueMoves DEF Moves, Follows
    <3>3. call[x].layer # None
      BY <1>0, <3>1, <3>2, NewNames DEF TypeInv, CallTypeInv
    <3>. QED  BY <1>1, <3>1, <3>2, <3>3 DEF GraphInv, Placed, OwnInv, IdsTaken
  <2>. QED  BY <2>1, <2>2
<1>. QED  BY <1>1, DepthKept DEF DepthInv, DepthHeld

LEMMA DepthInductive ==
  ASSUME Disciplined
  PROVE  /\ Init => DepthInv
         /\ OwnInv /\ GraphInv /\ CountInv /\ DepthInv /\ [Next]_vars => DepthInv'
<1>1. Init => DepthInv
  BY DEF Init, Empty, DepthInv, Deepens, DepthHeld
<1>2. ASSUME DepthInv, Restart
      PROVE  DepthInv'
  BY <1>2 DEF Restart, Empty, DepthInv, Deepens, DepthHeld
<1>3. ASSUME DepthInv, UNCHANGED vars
      PROVE  DepthInv'
  BY <1>3 DEF vars, memVars, DepthInv, Deepens, DepthHeld
<1>. QED  BY <1>1, <1>2, <1>3, BeginStarts, DepthStarts, DepthContinue DEF Next

(* In all settings, with any number of handlers and whatever fails: no set *)
(* of layers is backed in a circle, so the clean-up of DeleteVolume that   *)
(* follows them comes to an end.                                           *)
THEOREM LayersNeverCircular ==
  ASSUME DistinctQSDIDs
  PROVE  Spec => []LayersAcyclic
<1>0. MemTypeOK /\ Deepens => LayersAcyclic
  BY ChainsEnd
<1>1. CASE Disciplined
  <2>1. Init => OwnInv /\ GraphInv /\ CountInv /\ DepthInv
    BY <1>1, TypeInit, OwnInit, GraphInductive, CountInductive, DepthInductive
  <2>2. OwnInv /\ GraphInv /\ CountInv /\ DepthInv /\ [Next]_vars
          => (OwnInv /\ GraphInv /\ CountInv /\ DepthInv)'
    <3>1. OwnInv /\ [Next]_vars => OwnInv'
      BY TypeInductive, OwnInductive DEF OwnInv
    <3>. QED  BY <1>1, <3>1, GraphInductive, CountInductive, DepthInductive
  <2>3. OwnInv /\ DepthInv => LayersAcyclic
    BY <1>0 DEF OwnInv, TypeInv, TypeOK, DepthInv
  <2>. QED  BY <2>1, <2>2, <2>3, PTL DEF Spec
<1>2. CASE ~Disciplined
  <2>1. OneCall
    BY <1>2, ConstantsAssumption DEF OneCall
  <2>2. SafeInv => LayersAcyclic
    <3>1. TypeInv /\ BackingChain => Deepens
      BY ConstantsAssumption DEF TypeInv, TypeOK, MemTypeOK, BackingChain, Deepens
    <3>. QED  BY <1>0, <3>1 DEF SafeInv, MapInv, TypeInv, TypeOK
  <2>. QED  BY <2>1, <2>2, SafeInductive, PTL
<1>. QED  BY <1>1, <1>2
-----------------------------------------------------------------------------
(* One call at a time again, and no command fails but for a reason: then   *)
(* the daemon's graph is the map of images, but for the one layer that is  *)
(* on its way in or out.                                                   *)

Gone(i)   == \E w \in Workers : call[w].pc \in {"remove", "release"} /\ call[w].layer = i
Fresh(n)  == \E w \in Workers : call[w].pc \in {"append", "store"} /\ QSDID[call[w].id] = n
Linked(i) == QSDID[i] \in DOMAIN nodes /\ nodes[QSDID[i]] = NodeOf(images[i].BackingImageID)
HasFile(i) ==
  \/ images[i].File \in files
  \/ \E w \in Workers : call[w].pc = "release" /\ call[w].layer = i

OnItsWay(c) ==
  /\ c.pc \in {"append", "store"} => c.id \notin DOMAIN images
  /\ c.pc = "append" => nodes[QSDID[c.id]] = None
  /\ c.pc = "store" => nodes[QSDID[c.id]] = NodeOf(c.layer)
  /\ c.pc \in {"createOverlay", "addOverlay", "append"} => images[c.layer].RefCount < 1

MirrorInv ==
  /\ \A i \in DOMAIN images : (Gone(i) \/ Linked(i)) /\ HasFile(i)
  /\ \A n \in DOMAIN nodes : Fresh(n) \/ \E i \in DOMAIN images : QSDID[i] = n
  /\ \A w \in Workers : OnItsWay(call[w])

LEMMA OnlyOne ==
  ASSUME OneCall, NEW w \in Workers
  PROVE  /\ \A i : Gone(i) <=> call[w].pc \in {"remove", "release"} /\ call[w].layer = i
         /\ \A n : Fresh(n) <=> call[w].pc \in {"append", "store"} /\ QSDID[call[w].id] = n
         /\ \A i : HasFile(i) <=> \/ images[i].File \in files
                                  \/ call[w].pc = "release" /\ call[w].layer = i
         /\ (\A x \in Workers : OnItsWay(call[x])) <=> OnItsWay(call[w])
  BY DEF OneCall, Gone, Fresh, HasFile

(* The same of the state after the step.                                   *)
LEMMA OnlyOneNext ==
  ASSUME OneCall, NEW w \in Workers
  PROVE  /\ \A i : Gone(i)' <=> call'[w].pc \in {"remove", "release"} /\ call'[w].layer = i
         /\ \A n : Fresh(n)' <=> call'[w].pc \in {"append", "store"} /\ QSDID[call'[w].id] = n
         /\ \A i : HasFile(i)' <=> \/ images'[i].File \in files'
                                   \/ call'[w].pc = "release" /\ call'[w].layer = i
         /\ (\A x \in Workers : OnItsWay(call[x])') <=> OnItsWay(call[w])'
  BY DEF OneCall, Gone, Fresh, HasFile

(* A step away from the layers on their way, which leaves the graph alone. *)
LEMMA MirrorKept ==
  ASSUME OneCall, MirrorInv, NEW w \in Workers, UNCHANGED nodes, files \subseteq files',
         DOMAIN images' = DOMAIN images,
         \A i \in DOMAIN images : /\ images'[i].BackingImageID = images[i].BackingImageID
                                  /\ images'[i].File = images[i].File,
         call[w].pc \notin {"append", "store", "remove", "release"},
         call'[w].pc \notin {"append", "store", "remove", "release"},
         call'[w].pc \in {"createOverlay", "addOverlay"} => images'[call'[w].layer].RefCount < 1
  PROVE  MirrorInv'
<1>1. OnItsWay(call[w])'
  BY DEF OnItsWay
<1>2. ASSUME NEW i \in DOMAIN images
      PROVE  Linked(i)' /\ HasFile(i)'
  BY OnlyOne, OnlyOneNext DEF MirrorInv, Linked
<1>3. \A n \in DOMAIN nodes : \E i \in DOMAIN images : QSDID[i] = n
  BY OnlyOne DEF MirrorInv
<1>. QED  BY <1>1, <1>2, <1>3, OnlyOneNext DEF MirrorInv

LEMMA MirrorStarts ==
  ASSUME OneCall, TypeInv, MirrorInv, NEW w \in Workers, Starts(w)
  PROVE  MirrorInv'
<1>1. /\ UNCHANGED <<nodes, files>> /\ DOMAIN images' = DOMAIN images /\ call[w].pc = "idle"
      /\ \A i \in DOMAIN images : images'[i].File = images[i].File
  BY StartKeeps DEF Idle
<1>2. \A id \in DOMAIN images : images' = DropVolumeRef(images, id) =>
         \A i \in DOMAIN images : images'[i].BackingImageID = images[i].BackingImageID
  BY DEF DropVolumeRef, TypeInv, TypeOK, MemTypeOK, QCOWImage
<1>3. \A i \in DOMAIN images : images'[i].BackingImageID = images[i].BackingImageID
  BY <1>2 DEF Starts, CreateVolume, CreateSnapshot, ExposeVhostUser, DeleteExporter, DeleteVolume,
              DeleteSnapshot, memVars
<1>4. call'[w].pc \notin {"append", "store", "remove", "release", "addOverlay"}
  BY StartCreateVolume, StartCreateSnapshot, StartExpose, StartUnexpose, StartDeleteVolume,
     StartDeleteSnapshot DEF Starts, TurnsTo
<1>5. ASSUME call'[w].pc = "createOverlay"
      PROVE  images'[call'[w].layer].RefCount < 1
  <2>1. PICK s \in Snapshots, v \in Volumes : CreateSnapshot(w, s, v)
    BY <1>5, StartCreateVolume, StartExpose, StartUnexpose, StartDeleteVolume,
       StartDeleteSnapshot DEF Starts, TurnsTo
  <2>2. "CreateSnapshot" \in Op /\ s \in ImageID /\ v \in ImageID \cup {None} /\ UNCHANGED images
    BY <2>1 DEF Op, ImageID, CreateSnapshot, memVars
  <2>3. CASE Become(w, Failed(NewCall("CreateSnapshot", s, v)))
    BY <1>5, <2>2, <2>3, NewCallAt DEF Failed
  <2>4. CASE Become(w, At(NewCall("CreateSnapshot", s, v),
                          IF TakesOnTop(activeLayers[v]) THEN "createOverlay" ELSE "createBacked",
                          activeLayers[v], Deref(activeLayers[v])))
    BY <1>5, <2>2, <2>4, NewCallAt DEF TakesOnTop
  <2>. QED  BY <2>1, <2>3, <2>4 DEF CreateSnapshot
<1>. QED  BY <1>1, <1>3, <1>4, <1>5, MirrorKept

(* What a handler is told no to, without failures, is what cannot be done. *)
LEMMA RefusedOnly ==
  ASSUME ~Failures, NEW can, Refused(can)
  PROVE  ~can
  BY DEF Refused

(* The node that blockdev-add makes was not there, so its image was not    *)
(* known either.                                                           *)
LEMMA MirrorAddNode ==
  ASSUME OneCall, ~Failures, DistinctQSDIDs, OwnInv, MirrorInv, NEW w \in Workers, AddNode(w)
  PROVE  MirrorInv'
<1>. DEFINE c == call[w]
            k == QSDID[c.id]
            b == IF c.pc = "addBacked" THEN QSDID[c.layer] ELSE None
<1>0. /\ TypeInv /\ MemTypeOK /\ c \in Call /\ CallOK(c) /\ c.pc \in DOMAIN AfterAdd
      /\ UNCHANGED images /\ UNCHANGED files
  BY DEF OwnInv, TypeInv, TypeOK, CallTypeInv, AddNode, memVars, fsVars
<1>1. c.pc \in {"addImage", "addBacked", "addOverlay"} /\ c.pc \in CreatePC
  BY <1>0 DEF AfterAdd
<1>2. CASE UNCHANGED graphVars /\ Fail(w)
  <2>1. call'[w].pc = "failed"
    BY <1>0, <1>2, AtKeeps DEF Fail, Failed, Become, TypeInv, TypeOK
  <2>. QED  BY <1>0, <1>1, <1>2, <2>1, MirrorKept DEF graphVars
<1>3. CASE CanAddNode(c, b) /\ BlockdevAdd(k, b) /\ Goto(w, AfterAdd[c.pc])
  <2>1. /\ k \notin DOMAIN nodes /\ DOMAIN nodes' = DOMAIN nodes \cup {k} /\ nodes'[k] = b
        /\ \A n \in DOMAIN nodes : nodes'[n] = nodes[n]
    BY <1>3 DEF CanAddNode, CanBlockdevAdd, BlockdevAdd, Put
  <2>2. /\ call'[w].pc = (IF c.pc = "addOverlay" THEN "append" ELSE "store")
        /\ call'[w].id = c.id /\ call'[w].layer = c.layer
    BY <1>0, <1>1, <1>3, GotoFields DEF AfterAdd
  <2>3. ASSUME NEW i \in DOMAIN images
        PROVE  Linked(i)' /\ HasFile(i)' /\ QSDID[i] # k
    <3>1. Linked(i) /\ images[i].File \in files
      BY <1>1, OnlyOne DEF MirrorInv
    <3>. QED  BY <1>0, <2>1, <3>1 DEF Linked, HasFile
  <2>4. \A n \in DOMAIN nodes' : Fresh(n)' \/ \E i \in DOMAIN images' : QSDID[i] = n
    <3>1. \A n \in DOMAIN nodes : \E i \in DOMAIN images : QSDID[i] = n
      BY <1>1, OnlyOne DEF MirrorInv
    <3>2. \A n : n = k => Fresh(n)'
      BY <1>1, <2>2, OnlyOneNext
    <3>. QED  BY <1>0, <2>1, <3>1, <3>2
  <2>5. c.id \notin DOMAIN images
    BY <2>3
  <2>6. b = NodeOf(c.layer) \/ c.pc = "addOverlay"
    BY <1>0, <1>1, ConstantsAssumption DEF CallOK, LayerPC, NodeOf
  <2>7. c.pc = "addOverlay" => b = None /\ images[c.layer].RefCount < 1
    BY DEF MirrorInv, OnItsWay
  <2>8. OnItsWay(call[w])'
    BY <1>0, <1>1, <2>1, <2>2, <2>5, <2>6, <2>7 DEF OnItsWay, NodeOf
  <2>. QED  BY <1>0, <2>3, <2>4, <2>8, OnlyOneNext DEF MirrorInv
<1>. QED  BY <1>2, <1>3 DEF AddNode, Granted

(* blockdev-snapshot is never refused: the overlay is fresh, and the layer *)
(* that the snapshot was decided on has had no overlay since.              *)
LEMMA CanAppend ==
  ASSUME OneCall, DistinctQSDIDs, SafeInv, GraphInv, MirrorInv, NEW w \in Workers, call[w].pc = "append"
  PROVE  /\ CanBlockdevSnapshot(QSDID[call[w].layer], QSDID[call[w].id])
         /\ Overlays(call[w].layer) = {}
         /\ call[w].layer \in DOMAIN images /\ call[w].id \in ImageID \ DOMAIN images
<1>. DEFINE c == call[w]
            n == QSDID[c.layer]
            o == QSDID[c.id]
<1>0. /\ TypeInv /\ MemTypeOK /\ GraphTypeOK /\ CallOK(c)
      /\ BaseHeld(c) /\ NewUnused(c)
  BY DEF SafeInv, TypeInv, TypeOK, CallTypeInv, CallsHold
<1>1. c.layer \in ImageID /\ c.layer \in DOMAIN images /\ images[c.layer].RefCount < 1
  BY <1>0, ConstantsAssumption DEF CallOK, LayerPC, BaseHeld, MirrorInv, OnItsWay
<1>2. c.id \in ImageID /\ c.id \notin DOMAIN images /\ nodes[o] = None /\ o \in DOMAIN nodes
  BY <1>0, NewNames DEF NewUnused, MirrorInv, OnItsWay
<1>3. \A i \in DOMAIN images : i \in ImageID /\ Linked(i) /\ QSDID[i] # o /\ QSDID[i] # None
  BY <1>0, <1>2, OnlyOne, ConstantsAssumption DEF MirrorInv, MemTypeOK, DistinctQSDIDs
<1>4. Overlays(c.layer) = {}
  BY <1>0, <1>1, UnreferencedIsLeaf DEF SafeInv, MapInv
<1>5. ASSUME NEW m \in DOMAIN nodes
      PROVE  nodes[m] # o
  <2>1. o # None
    BY <1>2, ConstantsAssumption
  <2>2. CASE m = o
    BY <1>2, <2>1, <2>2
  <2>3. CASE m # o
    <3>1. PICK i \in DOMAIN images : QSDID[i] = m
      BY <2>3, OnlyOne DEF MirrorInv
    <3>2. nodes[m] = NodeOf(images[i].BackingImageID)
      BY <1>3, <3>1 DEF Linked
    <3>3. images[i].BackingImageID = None \/ images[i].BackingImageID \in DOMAIN images
      BY DEF SafeInv, MapInv, BackingChain
    <3>. QED  BY <1>3, <2>1, <3>2, <3>3 DEF NodeOf
  <2>. QED  BY <2>2, <2>3
<1>6. ASSUME NEW e \in DOMAIN exports
      PROVE  exports[e] # o
  <2>. SUFFICES ASSUME exports[e] = o
                PROVE  FALSE
    OBVIOUS
  <2>1. Above(nodes, o, e)
    BY DEF GraphInv, ExportPlaced
  <2>2. {o} \in SUBSET NodeName /\ Closed(nodes, {o})
    BY <1>0, <1>2 DEF Closed, GraphTypeOK
  <2>3. e = o
    BY <2>1, <2>2 DEF Above
  <2>4. PICK v \in Volumes \cap DOMAIN images : QSDID[v] = e
    BY DEF GraphInv, ExportPlaced
  <2>. QED  BY <1>3, <2>3, <2>4
<1>7. n # o /\ n \in DOMAIN nodes
  BY <1>1, <1>3 DEF Linked
<1>. QED  BY <1>1, <1>2, <1>4, <1>5, <1>6, <1>7 DEF CanBlockdevSnapshot, InUse

LEMMA MirrorAppend ==
  ASSUME OneCall, ~Failures, DistinctQSDIDs, SafeInv, GraphInv, MirrorInv, NEW w \in Workers, Append(w)
  PROVE  MirrorInv'
<1>. DEFINE c == call[w]
<1>0. /\ TypeInv /\ MemTypeOK /\ c.pc = "append" /\ UNCHANGED images /\ UNCHANGED files
  BY DEF SafeInv, TypeInv, TypeOK, Append, memVars, fsVars
<1>. PICK n, o : n = QSDID[c.layer] /\ o = QSDID[c.id]
  OBVIOUS
<1>1. /\ CanBlockdevSnapshot(n, o) /\ Overlays(c.layer) = {}
      /\ c.layer \in DOMAIN images /\ c.id \in ImageID \ DOMAIN images
  BY <1>0, CanAppend
<1>2. BlockdevSnapshot(n, o) /\ Goto(w, "store")
  BY <1>1, RefusedOnly DEF Append
<1>3. /\ DOMAIN nodes' = DOMAIN nodes /\ o \in DOMAIN nodes /\ nodes'[o] = n
      /\ \A m \in DOMAIN nodes : m # o /\ nodes[m] # n => nodes'[m] = nodes[m]
  BY <1>1, <1>2 DEF CanBlockdevSnapshot, BlockdevSnapshot
<1>4. call'[w].pc = "store" /\ call'[w].id = c.id /\ call'[w].layer = c.layer
  BY <1>0, <1>2, GotoFields
<1>5. ASSUME NEW i \in DOMAIN images
      PROVE  Linked(i)' /\ HasFile(i)'
  <2>1. Linked(i) /\ images[i].File \in files
    BY <1>0, OnlyOne DEF MirrorInv
  <2>2. i \in ImageID /\ QSDID[i] # o
    BY <1>0, <1>1 DEF MemTypeOK, DistinctQSDIDs
  <2>3. images[i].BackingImageID # c.layer
    BY <1>1 DEF Overlays
  <2>4. NodeOf(images[i].BackingImageID) # n
    <3>1. images[i].BackingImageID = None \/ images[i].BackingImageID \in ImageID
      BY <1>0 DEF MemTypeOK, QCOWImage
    <3>2. c.layer \in ImageID
      BY <1>0, <1>1 DEF MemTypeOK
    <3>. QED  BY <2>3, <3>1, <3>2, ConstantsAssumption DEF NodeOf, DistinctQSDIDs
  <2>. QED  BY <1>0, <1>3, <2>1, <2>2, <2>4 DEF Linked, HasFile
<1>6. \A m \in DOMAIN nodes' : Fresh(m)' \/ \E i \in DOMAIN images' : QSDID[i] = m
  BY <1>0, <1>3, <1>4, OnlyOne, OnlyOneNext DEF MirrorInv
<1>7. OnItsWay(call[w])'
  <2>1. c.layer # None
    BY <1>0, <1>1, ConstantsAssumption DEF MemTypeOK
  <2>. QED  BY <1>0, <1>1, <1>3, <1>4, <2>1 DEF OnItsWay, NodeOf
<1>. QED  BY <1>0, <1>5, <1>6, <1>7, OnlyOneNext DEF MirrorInv

LEMMA MirrorStore ==
  ASSUME OneCall, SafeInv, FilesInv, MirrorInv, NEW w \in Workers, Store(w)
  PROVE  MirrorInv'
<1>. DEFINE c == call[w]
            im == IF c.layer = None THEN images ELSE WithRef(images, c.layer)
<1>0. /\ TypeInv /\ MemTypeOK /\ c \in Call /\ c.pc = "store" /\ UNCHANGED <<nodes, files>>
      /\ images' = Put(im, c.id, NewImage(c))
  BY DEF SafeInv, TypeInv, TypeOK, CallTypeInv, Store, graphVars, fsVars
<1>1. /\ DOMAIN im = DOMAIN images
      /\ \A i \in DOMAIN images : /\ im[i].BackingImageID = images[i].BackingImageID
                                  /\ im[i].File = images[i].File
  BY <1>0 DEF WithRef, MemTypeOK, QCOWImage
<1>2. c.id \notin DOMAIN images
  BY <1>0 DEF MirrorInv, OnItsWay
<1>. HIDE DEF im
<1>3. /\ DOMAIN images' = DOMAIN images \cup {c.id}
      /\ images'[c.id].BackingImageID = c.layer /\ images'[c.id].File = FileOf(c)
      /\ \A i \in DOMAIN images : /\ images'[i].BackingImageID = images[i].BackingImageID
                                  /\ images'[i].File = images[i].File
  BY <1>0, <1>1, <1>2 DEF Put, NewImage
<1>4. call'[w].pc = "succeeded"
  BY <1>0, AtKeeps DEF Store, Succeed, Succeeded, Become, TypeInv, TypeOK
<1>5. ASSUME NEW i \in DOMAIN images'
      PROVE  Linked(i)' /\ HasFile(i)'
  <2>1. CASE i = c.id
    <3>1. QSDID[i] \in DOMAIN nodes /\ nodes[QSDID[i]] = NodeOf(c.layer)
      BY <1>0, <2>1 DEF SafeInv, CallsHold, NewUnused, MirrorInv, OnItsWay
    <3>2. FileOf(c) \in files
      BY <1>0 DEF FilesInv, NewFileKept
    <3>. QED  BY <1>0, <1>3, <2>1, <3>1, <3>2 DEF Linked, HasFile
  <2>2. CASE i # c.id
    BY <1>0, <1>3, <2>2, OnlyOne DEF MirrorInv, Linked, HasFile
  <2>. QED  BY <2>1, <2>2
<1>6. \A n \in DOMAIN nodes' : \E i \in DOMAIN images' : QSDID[i] = n
  <2>1. \A n \in DOMAIN nodes : n = QSDID[c.id] \/ \E i \in DOMAIN images : QSDID[i] = n
    BY OnlyOne DEF MirrorInv
  <2>. QED  BY <1>0, <1>3, <2>1
<1>7. OnItsWay(call[w])'
  BY <1>4 DEF OnItsWay
<1>. QED  BY <1>5, <1>6, <1>7, OnlyOneNext DEF MirrorInv

LEMMA MirrorDelNode ==
  ASSUME OneCall, DistinctQSDIDs, SafeInv, MirrorInv, NEW w \in Workers, DelNode(w)
  PROVE  MirrorInv'
<1>. DEFINE c == call[w]
<1>. PICK k : k = QSDID[c.layer]
  OBVIOUS
<1>0. /\ TypeInv /\ MemTypeOK /\ c.pc = "blockdevDel" /\ UNCHANGED images /\ UNCHANGED files
      /\ c.layer \in DOMAIN images
  BY DEF SafeInv, TypeInv, TypeOK, DelNode, memVars, fsVars, CallsHold, VictimUnused
<1>1. CASE UNCHANGED graphVars /\ Fail(w)
  <2>1. call'[w].pc = "failed"
    BY <1>0, <1>1, AtKeeps DEF Fail, Failed, Become, TypeInv, TypeOK
  <2>. QED  BY <1>0, <1>1, <2>1, MirrorKept DEF graphVars
<1>2. CASE BlockdevDel(k) /\ Goto(w, "remove")
  <2>1. /\ DOMAIN nodes' = DOMAIN nodes \ {k}
        /\ \A n \in DOMAIN nodes \ {k} : nodes'[n] = nodes[n]
    BY <1>2 DEF BlockdevDel, Drop
  <2>2. call'[w].pc = "remove" /\ call'[w].layer = c.layer
    BY <1>0, <1>2, GotoFields
  <2>3. ASSUME NEW i \in DOMAIN images
        PROVE  (Gone(i)' \/ Linked(i)') /\ HasFile(i)'
    <3>1. Linked(i) /\ images[i].File \in files
      BY <1>0, OnlyOne DEF MirrorInv
    <3>2. CASE i = c.layer
      BY <1>0, <2>2, <3>1, <3>2, OnlyOneNext
    <3>3. CASE i # c.layer
      <4>1. QSDID[i] # k
        BY <1>0, <3>3 DEF MemTypeOK, DistinctQSDIDs
      <4>. QED  BY <1>0, <2>1, <3>1, <4>1 DEF Linked, HasFile
    <3>. QED  BY <3>2, <3>3
  <2>4. \A n \in DOMAIN nodes' : \E i \in DOMAIN images' : QSDID[i] = n
    BY <1>0, <2>1, OnlyOne DEF MirrorInv
  <2>5. OnItsWay(call[w])'
    BY <2>2 DEF OnItsWay
  <2>. QED  BY <1>0, <2>3, <2>4, <2>5, OnlyOneNext DEF MirrorInv
<1>. QED  BY <1>1, <1>2 DEF DelNode

(* os.Remove finds the file, and no other image's file is the same.        *)
LEMMA MirrorRemoveFile ==
  ASSUME OneCall, ~Failures, DistinctQSDIDs, SafeInv, HandlerInv, MirrorInv,
         NEW w \in Workers, RemoveFile(w)
  PROVE  MirrorInv'
<1>. DEFINE c == call[w]
<1>. PICK f : f = c.ptr.File
  OBVIOUS
<1>0. /\ TypeInv /\ MemTypeOK /\ c.pc = "remove" /\ UNCHANGED images /\ UNCHANGED nodes
      /\ c.layer \in DOMAIN images /\ c.ptr = Deref(c.layer)
  BY DEF SafeInv, TypeInv, TypeOK, RemoveFile, memVars, graphVars, CallsHold, VictimUnused
<1>1. f = images[c.layer].File /\ f \in files
  <2>1. f = images[c.layer].File
    BY <1>0 DEF Deref
  <2>. QED  BY <1>0, <2>1, OnlyOne DEF MirrorInv
<1>2. files' = files \ {f} /\ Goto(w, "release")
  BY <1>1, RefusedOnly DEF RemoveFile
<1>3. call'[w].pc = "release" /\ call'[w].layer = c.layer
  BY <1>0, <1>2, GotoFields
<1>4. ASSUME NEW i \in DOMAIN images
      PROVE  (Gone(i)' \/ Linked(i)') /\ HasFile(i)'
  <2>1. (i = c.layer \/ Linked(i)) /\ images[i].File \in files
    BY <1>0, OnlyOne DEF MirrorInv
  <2>2. CASE i = c.layer
    BY <1>3, <2>2, OnlyOneNext
  <2>3. CASE i # c.layer
    <3>1. Belongs(images[i].File, i) /\ Belongs(f, c.layer) /\ i \in ImageID /\ c.layer \in ImageID
      BY <1>0, <1>1 DEF HandlerInv, MemTypeOK
    <3>2. images[i].File # f
      BY <2>3, <3>1, BelongsApart
    <3>. QED  BY <1>0, <1>2, <2>1, <2>3, <3>2 DEF Linked, HasFile
  <2>. QED  BY <2>2, <2>3
<1>5. OnItsWay(call[w])'
  BY <1>3 DEF OnItsWay
<1>. QED  BY <1>0, <1>4, <1>5, OnlyOne, OnlyOneNext DEF MirrorInv

(* Release finds the backing image, so the entry always goes.              *)
LEMMA MirrorRelease ==
  ASSUME OneCall, OwnInv, SafeInv, GraphInv, MirrorInv, NEW w \in Workers, Release(w)
  PROVE  MirrorInv'
<1>. DEFINE c == call[w]
<1>0. TypeInv /\ c \in Call /\ c.pc = "release" /\ UNCHANGED <<nodes, files>>
  BY DEF SafeInv, TypeInv, CallTypeInv, Release, graphVars, fsVars
<1>1. PICK l, b : /\ Removes(l, b)
                  /\ Goto(w, "rmdir") \/ Become(w, CleanUp(c, images', b))
  BY ReleaseEffect
<1>2. /\ DOMAIN images' = DOMAIN images \ {l}
      /\ \A i \in DOMAIN images' : /\ images'[i].BackingImageID = images[i].BackingImageID
                                   /\ images'[i].File = images[i].File
  BY <1>1 DEF Removes
<1>3. c.layer = l
  BY <1>0, <1>2, ReleaseRemoves DEF SafeInv, CallsHold, VictimUnused
<1>4. QSDID[l] \notin DOMAIN nodes
  BY <1>0, <1>3 DEF GraphInv, Placed
<1>5. call'[w].pc \in {"rmdir", "blockdevDel", "succeeded"}
  <2>1. CASE Goto(w, "rmdir")
    BY <1>0, <2>1, GotoFields
  <2>2. CASE Become(w, CleanUp(c, images', b))
    <3>1. call'[w] = CleanUp(c, images', b)
      BY <1>0, <2>2 DEF Become, TypeInv, TypeOK
    <3>. QED  BY <1>0, <3>1, AtKeeps DEF CleanUp, Succeeded
  <2>. QED  BY <1>1, <2>1, <2>2
<1>6. ASSUME NEW i \in DOMAIN images'
      PROVE  Linked(i)' /\ HasFile(i)'
  <2>1. Linked(i) /\ images[i].File \in files
    BY <1>2, <1>3, OnlyOne DEF MirrorInv
  <2>. QED  BY <1>0, <1>2, <2>1 DEF Linked, HasFile
<1>7. \A n \in DOMAIN nodes' : \E i \in DOMAIN images' : QSDID[i] = n
  BY <1>0, <1>2, <1>4, OnlyOne DEF MirrorInv
<1>8. OnItsWay(call[w])'
  BY <1>5 DEF OnItsWay
<1>. QED  BY <1>6, <1>7, <1>8, OnlyOneNext DEF MirrorInv

(* The other steps of a handler touch neither graph nor map.               *)
LEMMA MirrorOther ==
  ASSUME OneCall, TypeInv, MirrorInv, NEW w \in Workers,
         \/ QemuImgCreate(w) \/ Export(w) \/ Unexport(w) \/ RemoveSocketDir(w)
         \/ RemoveDir(w) \/ Reply(w)
  PROVE  MirrorInv'
<1>. DEFINE c == call[w]
<1>1. UNCHANGED <<nodes, images>> /\ files \subseteq files'
  BY DEF QemuImgCreate, Export, Unexport, RemoveSocketDir, RemoveDir, Reply, graphVars, memVars, fsVars,
         BlockExportAdd, BlockExportDel
<1>2. c.pc \notin {"append", "store", "remove", "release", "blockdevDel"}
  BY DEF QemuImgCreate, AfterQemuImg, Export, Unexport, RemoveSocketDir, RemoveDir, Reply
<1>3. /\ call'[w].pc \notin {"append", "store", "remove", "release", "createOverlay"}
      /\ call'[w].pc = "addOverlay" => c.pc = "createOverlay" /\ call'[w].layer = c.layer
  <2>1. \A pc : Goto(w, pc) => call'[w].pc = pc /\ call'[w].layer = c.layer
    BY GotoFields
  <2>2. (Fail(w) => call'[w].pc = "failed") /\ (Succeed(w) => call'[w].pc = "succeeded")
    BY AtKeeps DEF Fail, Failed, Succeed, Succeeded, Become, TypeInv, TypeOK
  <2>3. \A im, b : Become(w, CleanUp(c, im, b)) => call'[w].pc \in {"blockdevDel", "succeeded"}
    BY AtKeeps DEF CleanUp, Succeeded, Become, TypeInv, TypeOK
  <2>4. RemoveDir(w) => call'[w].pc \in {"failed", "panicked", "blockdevDel", "succeeded"}
    <3>1. call' = [x \in Workers |-> At(call[x], "panicked", None, Nil)] => call'[w].pc = "panicked"
      BY AtKeeps DEF TypeInv, TypeOK
    <3>. QED  BY <2>2, <2>3, <3>1 DEF RemoveDir
  <2>5. Reply(w) => call'[w].pc = "idle"
    BY DEF Reply, Become, NoCall, TypeInv, TypeOK
  <2>6. QemuImgCreate(w) => \/ call'[w].pc = "failed"
                            \/ call'[w].pc = AfterQemuImg[c.pc] /\ call'[w].layer = c.layer
                               /\ c.pc \in DOMAIN AfterQemuImg
    BY <2>1, <2>2 DEF QemuImgCreate
  <2>7. ASSUME QemuImgCreate(w)
        PROVE  /\ call'[w].pc \in {"failed", "addImage", "addBacked", "addOverlay"}
               /\ call'[w].pc = "addOverlay" => c.pc = "createOverlay" /\ call'[w].layer = c.layer
    BY <2>6, <2>7 DEF AfterQemuImg
  <2>8. ASSUME Export(w) \/ Unexport(w) \/ RemoveSocketDir(w)
        PROVE  call'[w].pc \in {"failed", "succeeded", "rmSocketDir"}
    BY <2>1, <2>2, <2>8 DEF Export, Unexport, RemoveSocketDir
  <2>. QED  BY <2>4, <2>5, <2>7, <2>8
<1>4. call'[w].pc \in {"createOverlay", "addOverlay"} => images'[call'[w].layer].RefCount < 1
  BY <1>1, <1>3 DEF MirrorInv, OnItsWay
<1>. QED  BY <1>1, <1>2, <1>3, <1>4, MirrorKept

LEMMA MirrorInductive ==
  ASSUME OneCall, ~Failures, DistinctQSDIDs
  PROVE  /\ Init => MirrorInv
         /\ OwnInv /\ SafeInv /\ HandlerInv /\ GraphInv /\ FilesInv /\ MirrorInv /\ [Next]_vars => MirrorInv'
<1>1. Init => MirrorInv
  BY DEF Init, GraphInit, Empty, MirrorInv, OnItsWay, NoCall
<1>. SUFFICES ASSUME OwnInv, SafeInv, HandlerInv, GraphInv, FilesInv, MirrorInv, [Next]_vars
              PROVE  MirrorInv'
  BY <1>1
<1>2. CASE Restart
  BY <1>2 DEF Restart, GraphReset, Empty, MirrorInv, OnItsWay, NoCall
<1>3. ASSUME NEW w \in Workers, Begin(w)
      PROVE  MirrorInv'
  BY <1>3, BeginStarts, MirrorStarts DEF OwnInv
<1>4. ASSUME NEW w \in Workers, Continue(w)
      PROVE  MirrorInv'
  BY <1>4, MirrorAddNode, MirrorAppend, MirrorStore, MirrorDelNode, MirrorRemoveFile, MirrorRelease,
     MirrorOther DEF Continue, OwnInv
<1>5. CASE UNCHANGED vars
  BY <1>5 DEF vars, graphVars, memVars, fsVars, MirrorInv, Gone, Fresh, Linked, HasFile, OnItsWay
<1>. QED  BY <1>2, <1>3, <1>4, <1>5 DEF Next

LEMMA MirrorAlways ==
  ASSUME OneCall, ~Failures, DistinctQSDIDs
  PROVE  Spec => [](TypeInv /\ GraphInv /\ MirrorInv)
<1>1. Init => OwnInv /\ GraphInv /\ HandlerInv /\ FilesInv /\ MirrorInv
  BY TypeInit, OwnInit, GraphInductive, FilesInductive, MirrorInductive
<1>2. OwnInv /\ GraphInv /\ [Next]_vars => OwnInv' /\ GraphInv'
  BY TypeInductive, OwnInductive, GraphInductive DEF OwnInv
<1>3. OwnInv /\ HandlerInv /\ GraphInv /\ FilesInv /\ SafeInv /\ [Next]_vars => HandlerInv' /\ FilesInv'
  BY FilesInductive
<1>4. OwnInv /\ SafeInv /\ HandlerInv /\ GraphInv /\ FilesInv /\ MirrorInv /\ [Next]_vars => MirrorInv'
  BY MirrorInductive
<1>5. Spec => []SafeInv
  BY SafeInductive
<1>6. OwnInv => TypeInv
  BY DEF OwnInv
<1>. QED  BY <1>1, <1>2, <1>3, <1>4, <1>5, <1>6, PTL DEF Spec

(* One call at a time and no failing command: the daemon's backing links   *)
(* are the backing ids the server has recorded, also while a snapshot is   *)
(* put under an export, a clean-up walks down a chain and after a restart. *)
THEOREM GraphMirrored ==
  ASSUME OneCall, ~Failures, DistinctQSDIDs
  PROVE  Spec => []GraphMirrorsImages
<1>1. GraphInv /\ MirrorInv => GraphMirrorsImages
  BY DEF GraphInv, Placed, MirrorInv, Gone, Linked, GraphMirrorsImages
<1>. QED  BY <1>1, MirrorAlways, PTL

(* Between calls the daemon then has a node for each image and no other:   *)
(* no step of a handler is refused with half of its work done.             *)
THEOREM NodesMatched ==
  ASSUME OneCall, ~Failures, DistinctQSDIDs
  PROVE  Spec => []NodesMatchImages
<1>1. ASSUME MirrorInv, AllIdle
      PROVE  DOMAIN nodes = {QSDID[i] : i \in DOMAIN images}
  <2>1. (\A i : ~Gone(i)) /\ (\A n : ~Fresh(n))
    BY <1>1 DEF AllIdle, Idle, Gone, Fresh
  <2>. QED  BY <1>1, <2>1 DEF MirrorInv, Linked
<1>2. MirrorInv => NodesMatchImages
  BY <1>1 DEF NodesMatchImages
<1>. QED  BY <1>2, MirrorAlways, PTL
=============================================================================
