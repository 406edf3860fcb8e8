---------------------------- MODULE ClientProofs ----------------------------
(***************************************************************************)
(* Theorems about Client, and so about Disk: one call of the server at a   *)
(* time (~Disciplined, by ConstantsAssumption), for every set of ids,      *)
(* terminals, writes and faults.  The users' steps are reduced to those of *)
(* the server (ClientSteps); then come types, active layers, exports, new  *)
(* disks, the tree, what is read, what is read back, what is left behind.  *)
(***************************************************************************)
EXTENDS Client, QSDServerConcurrent

USE DEF CreatePC, LayerPC, OverlayPC, DeletePC, RemovePC

-----------------------------------------------------------------------------
(* The server's own invariants, under the steps of its users.  A step of a *)
(* user or of the server starts a handler, takes one further, is a guest's *)
(* write or a restart, or changes at most the number of faults.            *)

ServerInv == OwnInv /\ SafeInv /\ HandlerInv /\ GraphInv /\ FilesInv

Quiet == UNCHANGED <<graphVars, memVars, fsVars, call, taken, diskVars>> /\ faults' \in 0..MaxFaults
Works(w) == DiskContinue(w) \/ (Reply(w) /\ UNCHANGED diskVars)

OfVolume == {"CreateVolume", "ExposeVhostUser", "DeleteExporter", "DeleteVolume"}
CmdType ==
  /\ cmd \in [Terminals -> Command]
  /\ \A t \in Terminals : cmd[t].pc \in OfVolume => cmd[t].id \in Volumes

(* A terminal whose second call is next.                                   *)
Goes(pc, v) == \E t \in Terminals : cmd[t].pc = pc /\ cmd[t].id = v /\ ~Waiting(t)

(* How a user's call starts a handler, and what the user undercuts.        *)
Undercuts(s) == undercut' = IF s \notin DOMAIN images THEN undercut
                            ELSE undercut \cup {x \in Volumes : IsActiveLayer(s, x)}
Started(w) ==
  /\ \/ /\ \/ \E v \in Volumes, src \in CloneSources \cup {None} : CreateVolume(w, v, src)
           \/ \E s \in Snapshots, v \in Volumes : CreateSnapshot(w, s, v)
           \/ \E v \in Volumes : \/ DeleteExporter(w, v)
                                 \/ Goes("ExposeVhostUser", v) /\ ExposeVhostUser(w, v)
                                 \/ Goes("DeleteVolume", v) /\ DeleteVolume(w, v)
        /\ UNCHANGED undercut
     \/ \E s \in Snapshots, v \in Volumes : DeleteSnapshot(w, s, v) /\ Undercuts(s)
  /\ UNCHANGED diskVars

LEMMA StartedStarts ==
  ASSUME NEW w, Started(w)
  PROVE  Starts(w) /\ UNCHANGED diskVars
  BY DEF Started, Starts

LEMMA WorksContinue ==
  ASSUME NEW w, Works(w)
  PROVE  Continue(w)
  BY DEF Works, DiskContinue, Continue

LEMMA ClientSteps ==
  ASSUME TypeOK, CmdType, [ClientNext]_allVars
  PROVE  \/ DiskRestart
         \/ \E w \in Workers : Started(w)
         \/ \E w \in Workers : Works(w) /\ UNCHANGED undercut
         \/ \E v \in Volumes : GuestWrite(v) /\ UNCHANGED undercut
         \/ Quiet /\ UNCHANGED undercut
<1>1. ASSUME NEW t \in Terminals, Answer(t)
      PROVE  \E w \in Workers : Works(w) /\ UNCHANGED undercut
  <2>1. cmd[t].worker \in Workers /\ Reply(cmd[t].worker) /\ UNCHANGED <<diskVars, undercut>>
    BY <1>1 DEF Answer, Waiting, CmdType, Command
  <2>. QED  BY <2>1 DEF Works
<1>2. ASSUME NEW t \in Terminals, Interrupt(t)
      PROVE  Quiet /\ UNCHANGED undercut
  BY <1>2, ConstantsAssumption DEF Interrupt, Fault, Quiet, TypeOK
<1>3. ASSUME NEW t \in Terminals, NEW w \in Workers, Start(t, w)
      PROVE  Started(w)
  BY <1>3 DEF Start, Create, Delete, SnapshotCreate, SnapshotDelete, Started, Undercuts
<1>4. ASSUME NEW t \in Terminals, NEW w \in Workers, SecondCall(t, w)
      PROVE  Started(w)
  <2>1. cmd[t].id \in Volumes
    BY <1>4 DEF SecondCall, CmdType, OfVolume
  <2>. QED  BY <1>4, <2>1 DEF SecondCall, Started, Goes
<1>5. ASSUME NEW w \in Workers, ServerStep(w)
      PROVE  Works(w) /\ UNCHANGED undercut
  BY <1>5 DEF ServerStep, Works, clientVars
<1>6. CASE UNCHANGED allVars
  BY <1>6 DEF allVars, vars, clientVars, Quiet, TypeOK
<1>. QED
  BY <1>1, <1>2, <1>3, <1>4, <1>5, <1>6 DEF ClientNext, ServerRestart, clientVars

LEMMA CmdTypeInit == ClientInit => CmdType
  BY DEF ClientInit, CmdType, Command, NoCommand, Step, OfVolume

LEMMA CmdTypeStep ==
  ASSUME CmdType, [ClientNext]_allVars
  PROVE  CmdType'
<1>1. NoCommand \in Command /\ NoCommand.pc = "idle"
  BY DEF NoCommand, Command, Step
<1>2. ASSUME NEW t \in Terminals, NEW c \in Command, Run(t, c), c.pc \in OfVolume => c.id \in Volumes
      PROVE  CmdType'
  BY <1>2 DEF Run, CmdType
<1>3. \A pc \in Step, id \in ImageID, w \in Workers \cup {None} :
        Calling(pc, id, w) \in Command /\ Calling(pc, id, w).pc = pc /\ Calling(pc, id, w).id = id
  BY DEF Calling, Command
<1>4. Volumes \subseteq ImageID /\ Snapshots \subseteq ImageID
  BY DEF ImageID
<1>5. ASSUME NEW t \in Terminals, NEW w \in Workers, Start(t, w)
      PROVE  CmdType'
  <2>1. PICK pc \in {"CreateVolume", "DeleteExporter", "CreateSnapshot", "DeleteSnapshot"}, id \in ImageID :
          Run(t, Calling(pc, id, w)) /\ (pc \in OfVolume => id \in Volumes)
    BY <1>4, <1>5 DEF Start, Create, Delete, SnapshotCreate, SnapshotDelete, OfVolume
  <2>. QED  BY <1>2, <1>3, <2>1 DEF Step
<1>6. ASSUME NEW t \in Terminals, Answer(t)
      PROVE  CmdType'
  <2>. DEFINE c == cmd[t]
  <2>1. CASE Run(t, NoCommand)
    BY <1>1, <1>2, <2>1 DEF OfVolume
  <2>2. CASE GoesOn(c) /\ Run(t, Calling(Then[c.pc], c.id, None))
    <3>1. c.pc \in OfVolume /\ c.id \in Volumes /\ Then[c.pc] \in Step
      BY <2>2 DEF GoesOn, Then, OfVolume, Step, CmdType
    <3>. QED  BY <1>2, <1>3, <1>4, <2>2, <3>1
  <2>. QED  BY <1>6, <2>1, <2>2 DEF Answer
<1>7. ASSUME NEW t \in Terminals, NEW w \in Workers, SecondCall(t, w)
      PROVE  CmdType'
  <2>1. cmd[t].pc \in OfVolume /\ cmd[t].pc \in Step /\ cmd[t].id \in Volumes
    BY <1>7 DEF SecondCall, OfVolume, Step, CmdType
  <2>. QED  BY <1>2, <1>3, <1>4, <1>7, <2>1 DEF SecondCall
<1>8. ASSUME NEW t \in Terminals, Interrupt(t)
      PROVE  CmdType'
  BY <1>1, <1>2, <1>8 DEF Interrupt, OfVolume
<1>9. CASE ServerRestart
  BY <1>1, <1>9 DEF ServerRestart, CmdType, OfVolume
<1>10. CASE UNCHANGED clientVars \/ UNCHANGED allVars
  BY <1>10 DEF clientVars, allVars, CmdType
<1>. QED
  BY <1>5, <1>6, <1>7, <1>8, <1>9, <1>10 DEF ClientNext, ServerStep

LEMMA ServerStarts ==
  ASSUME ~Disciplined, ServerInv, NEW w \in Workers, Starts(w)
  PROVE  ServerInv'
<1>0. OneCall
  BY ConstantsAssumption DEF OneCall
<1>1. TypeInv /\ TypeInv'
  BY TypeStarts DEF ServerInv, OwnInv
<1>2. (\A ids : MayCall(w, ids)) /\ (\A id : MayCreate(id))
  BY DEF MayCall, MayCreate
<1>3. OwnInv'
  BY <1>1, <1>2, OwnCreateVolume, OwnCreateSnapshot, OwnExposeVhostUser, OwnDeleteVolume,
     OwnDeleteSnapshot DEF Starts, ServerInv
<1>4. SafeInv'
  BY <1>0, SafeCreateVolume, SafeCreateSnapshot, SafeExposeVhostUser, SafeDeleteVolume,
     SafeDeleteSnapshot DEF Starts, ServerInv
<1>. QED  BY <1>1, <1>3, <1>4, HandlerStarts, GraphStarts, FilesStarts DEF ServerInv

LEMMA ServerContinue ==
  ASSUME ~Disciplined, DistinctQSDIDs, ServerInv, NEW w \in Workers, Continue(w)
  PROVE  ServerInv'
<1>0. OneCall
  BY ConstantsAssumption DEF OneCall
<1>1. TypeInv /\ TypeInv'
  BY TypeContinue DEF ServerInv, OwnInv
<1>2. OwnInv'
  <2>1. CASE ~Store(w) /\ ~Release(w)
    <3>1. UNCHANGED <<memVars, taken>>
      BY <2>1 DEF Continue, QemuImgCreate, AddNode, Append, Export, Unexport, RemoveSocketDir,
                  DelNode, RemoveFile, RemoveDir, Reply
    <3>. QED  BY <1>1, <3>1, OwnQuiet DEF ServerInv
  <2>. QED  BY <1>1, <2>1, OwnStore, OwnRelease DEF ServerInv
<1>3. SafeInv'
  BY <1>0, SafeQemuImgCreate, SafeAddNode, SafeAppend, SafeStore, SafeExport,
     SafeDelNode, SafeRelease, SafeRemoveDir, SafeReply DEF Continue, ServerInv
<1>4. HandlerInv' /\ GraphInv'
  BY <1>1, HandlerContinue, GraphContinue DEF ServerInv
<1>5. FilesInv'
  BY FileKeptContinue, NewFileContinue DEF ServerInv, FilesInv
<1>. QED  BY <1>2, <1>3, <1>4, <1>5 DEF ServerInv

LEMMA ServerRestarts ==
  ASSUME ServerInv, Restart
  PROVE  ServerInv'
<1>1. TypeInv'
  BY TypeRestart DEF ServerInv, OwnInv
<1>2. OwnInv' /\ SafeInv' /\ HandlerInv'
  BY <1>1, OwnRestart, SafeRestart, HandlerRestart DEF ServerInv
<1>3. ASSUME NEW g, NEW im, NEW ids
      PROVE  Placed(NoCall, g, im, ids)
  BY PlacedElsewhere DEF NoCall
<1>4. GraphInv' /\ FilesInv'
  BY <1>3 DEF Restart, GraphReset, Empty, GraphInv, Whole, Closed, FilesInv, NewFileKept, NoCall
<1>. QED  BY <1>2, <1>4 DEF ServerInv

LEMMA ServerQuiet ==
  ASSUME ServerInv, UNCHANGED <<graphVars, memVars, fsVars, call, taken>>, faults' \in 0..MaxFaults
  PROVE  ServerInv'
<1>1. OwnInv'
  BY DEF ServerInv, graphVars, memVars, fsVars, OwnInv, TypeInv, CallTypeInv, TypeOK, GraphTypeOK,
         MemTypeOK, FsTypeOK, NamesApart, IdsTaken, ActiveHasVolume
<1>2. SafeInv'
  BY <1>1 DEF ServerInv, graphVars, memVars, fsVars, OwnInv, SafeInv, MapInv, BackingChain,
              RefCountCovers, Overlays, ReferencedHasNode, CallsHold, BaseHeld, NewUnused,
              VictimUnused, Deref
<1>3. HandlerInv' /\ GraphInv' /\ FilesInv'
  BY DEF ServerInv, graphVars, memVars, fsVars, HandlerInv, GraphInv, ExportPlaced, FilesInv, FileKept,
         NewFileKept, FileOf
<1>. QED  BY <1>1, <1>2, <1>3 DEF ServerInv

LEMMA ServerInductive ==
  ASSUME ~Disciplined, DistinctQSDIDs
  PROVE  /\ ClientInit => ServerInv /\ CmdType
         /\ ServerInv /\ CmdType /\ [ClientNext]_allVars => ServerInv' /\ CmdType'
<1>1. ASSUME Init
      PROVE  ServerInv
  <2>1. OwnInv /\ GraphInv /\ HandlerInv /\ FilesInv
    BY <1>1, TypeInit, OwnInit, GraphInductive, FilesInductive
  <2>2. SafeInv
    BY <1>1, TypeInit, NothingIsSafe DEF Init, SafeInv
  <2>. QED  BY <2>1, <2>2 DEF ServerInv
<1>2. ASSUME ServerInv, CmdType, [ClientNext]_allVars
      PROVE  ServerInv'
  <2>1. TypeInv /\ TypeOK
    BY <1>2 DEF ServerInv, OwnInv, TypeInv
  <2>2. CASE DiskRestart
    BY <1>2, <2>2, ServerRestarts DEF DiskRestart
  <2>3. ASSUME NEW v \in Volumes, GuestWrite(v)
        PROVE  ServerInv'
    BY <1>2, <2>1, <2>3, ServerQuiet DEF GuestWrite, vars, TypeOK
  <2>4. CASE Quiet
    BY <1>2, <2>4, ServerQuiet DEF Quiet
  <2>. QED
    BY <1>2, <2>1, <2>2, <2>3, <2>4, ClientSteps, StartedStarts, ServerStarts, ServerContinue,
     WorksContinue
<1>. QED  BY <1>1, <1>2, CmdTypeInit, CmdTypeStep DEF ClientInit, DiskInit

-----------------------------------------------------------------------------
(* Type correctness of the disks.  A node has a file of its own image open,*)
(* so os.Remove, which comes after blockdev-del, takes no open file away.  *)

Written == [value : Value \cup {Hole}, file : FileName \cup {DiskFile(None)}]
OpensOwn == \A n \in DOMAIN nodes : \E i \in ImageID : QSDID[i] = n /\ Belongs(opened[n], i)
OverwrittenEmpty ==
  overwritten \subseteq files /\ \A f \in overwritten : disk[f] = Hole /\ f[2] = None

DiskInv ==
  /\ DOMAIN disk = files /\ \A f \in files : disk[f] \in Value \cup {Hole}
  /\ DOMAIN opened = DOMAIN nodes /\ \A n \in DOMAIN nodes : opened[n] \in files
  /\ sealed \subseteq DOMAIN nodes
  /\ written \in [Volumes -> Written]
  /\ writes \in [Volumes -> 0..MaxWrites]
  /\ survivors \subseteq files
  /\ OpensOwn
  /\ OverwrittenEmpty

LEMMA UnwrittenType == Unwritten \in Written
  BY DEF Unwritten, Written

LEMMA DiskInvKept ==
  ASSUME DiskInv, UNCHANGED <<diskVars, files>>, DOMAIN nodes' = DOMAIN nodes
  PROVE  DiskInv'
  BY DEF DiskInv, diskVars, OpensOwn, OverwrittenEmpty

LEMMA FailIs ==
  ASSUME TypeInv, NEW w \in Workers, Fail(w)
  PROVE  call'[w].pc = "failed" /\ SameNames(call'[w], call[w])
  BY AtKeeps DEF Fail, Failed, Become, TypeInv, TypeOK

(* qemu-img create makes an empty file, keeps the one that is there, or    *)
(* is refused.                                                             *)
LEMMA FormatEffect ==
  ASSUME TypeInv, NEW w \in Workers, QemuImgCreate(w), Format(w)
  PROVE  \/ files' = files /\ UNCHANGED diskVars
         \/ LET c == call[w] IN
            /\ ~Keeps(c) /\ call'[w].pc = AfterQemuImg[c.pc] /\ c.pc \in DOMAIN AfterQemuImg
            /\ CanCreateFile(c) /\ files' = files \cup {FileOf(c)}
            /\ disk' = Put(disk, FileOf(c), Hole)
            /\ overwritten' = IF Recreates(c) THEN overwritten \cup {FileOf(c)} ELSE overwritten
            /\ UNCHANGED <<opened, sealed, written, writes, survivors>>
<1>. DEFINE c == call[w]
<1>1. CASE UNCHANGED files /\ Fail(w)
  BY <1>1, FailIs DEF Format
<1>2. CASE CanCreateFile(c) /\ files' = files \cup {FileOf(c)} /\ Goto(w, AfterQemuImg[c.pc])
  <2>1. call'[w].pc = AfterQemuImg[c.pc] /\ c.pc \in DOMAIN AfterQemuImg
    BY <1>2, GotoFields DEF QemuImgCreate
  <2>2. call'[w].pc # "failed"
    BY <2>1 DEF AfterQemuImg
  <2>. QED  BY <1>2, <2>1, <2>2 DEF Format, Keeps
<1>. QED  BY <1>1, <1>2 DEF QemuImgCreate, Granted

LEMMA DiskFormat ==
  ASSUME ServerInv, DiskInv, NEW w \in Workers, QemuImgCreate(w), Format(w)
  PROVE  DiskInv'
<1>. DEFINE c == call[w]
<1>0. TypeInv /\ c \in Call /\ CallOK(c) /\ c.pc \in CreatePC
  BY DEF ServerInv, OwnInv, TypeInv, CallTypeInv, QemuImgCreate, AfterQemuImg
<1>1. UNCHANGED nodes /\ FileOf(c) \in FileName
  BY <1>0, FileOfType DEF QemuImgCreate, graphVars
<1>2. CASE UNCHANGED diskVars /\ UNCHANGED files
  BY <1>1, <1>2, DiskInvKept
<1>3. CASE /\ files' = files \cup {FileOf(c)}
           /\ disk' = Put(disk, FileOf(c), Hole)
           /\ overwritten' = IF Recreates(c) THEN overwritten \cup {FileOf(c)} ELSE overwritten
           /\ UNCHANGED <<opened, sealed, written, writes, survivors>>
  <2>1. OverwrittenEmpty'
    BY <1>3 DEF DiskInv, Put, OverwrittenEmpty, Recreates, FileOf, DiskFile
  <2>. QED  BY <1>1, <1>3, <2>1 DEF DiskInv, Put, OpensOwn
<1>. QED  BY <1>0, <1>2, <1>3, FormatEffect

(* blockdev-add opens the file of the new image.                           *)
LEMMA OpenEffect ==
  ASSUME NEW w \in Workers, AddNode(w), Open(w)
  PROVE  LET c == call[w]
             b == IF c.pc = "addBacked" THEN QSDID[c.layer] ELSE None IN
         /\ c.pc \in DOMAIN AfterAdd /\ UNCHANGED <<disk, sealed, written, writes, survivors, overwritten>>
         /\ \/ UNCHANGED <<graphVars, opened>> /\ Refused(CanAddNode(c, b)) /\ Fail(w)
            \/ /\ CanAddNode(c, b) /\ BlockdevAdd(QSDID[c.id], b) /\ Goto(w, AfterAdd[c.pc])
               /\ opened' = Put(opened, QSDID[c.id], FileOf(c))
<1>. DEFINE c == call[w]
            b == IF c.pc = "addBacked" THEN QSDID[c.layer] ELSE None
<1>1. CASE UNCHANGED graphVars /\ Refused(CanAddNode(c, b)) /\ Fail(w)
  BY <1>1 DEF Open, graphVars, AddNode
<1>2. CASE CanAddNode(c, b) /\ BlockdevAdd(QSDID[c.id], b) /\ Goto(w, AfterAdd[c.pc])
  <2>1. QSDID[c.id] \in DOMAIN nodes' /\ QSDID[c.id] \notin DOMAIN nodes
    BY <1>2 DEF CanAddNode, CanBlockdevAdd, BlockdevAdd, Put
  <2>. QED  BY <1>2, <2>1 DEF Open, AddNode
<1>. QED  BY <1>1, <1>2 DEF AddNode, Granted

LEMMA DiskOpen ==
  ASSUME ServerInv, DiskInv, NEW w \in Workers, AddNode(w), Open(w)
  PROVE  DiskInv'
<1>. DEFINE c == call[w]
<1>0. TypeInv /\ CallOK(c) /\ c.pc \in CreatePC /\ UNCHANGED files
  BY DEF ServerInv, OwnInv, TypeInv, CallTypeInv, AddNode, AfterAdd, fsVars
<1>1. c.id \in ImageID /\ Belongs(FileOf(c), c.id)
  BY <1>0, FileOfBelongs, NewNames
<1>2. UNCHANGED <<disk, sealed, written, writes, survivors, overwritten>>
  BY DEF Open
<1>3. CASE UNCHANGED <<graphVars, opened>>
  BY <1>0, <1>2, <1>3, DiskInvKept DEF graphVars, diskVars
<1>4. ASSUME NEW b, CanAddNode(c, b), BlockdevAdd(QSDID[c.id], b),
             opened' = Put(opened, QSDID[c.id], FileOf(c))
      PROVE  DiskInv'
  <2>1. DOMAIN nodes' = DOMAIN nodes \cup {QSDID[c.id]} /\ FileOf(c) \in files
    BY <1>4 DEF BlockdevAdd, Put, CanAddNode
  <2>2. /\ DOMAIN opened' = DOMAIN nodes' /\ opened'[QSDID[c.id]] = FileOf(c)
        /\ \A n \in DOMAIN nodes : n # QSDID[c.id] => opened'[n] = opened[n]
    BY <1>4, <2>1 DEF Put, DiskInv
  <2>3. OpensOwn'
    BY <1>1, <2>1, <2>2 DEF DiskInv, OpensOwn
  <2>. QED  BY <1>0, <1>2, <2>1, <2>2, <2>3 DEF DiskInv, OverwrittenEmpty
<1>. QED  BY <1>3, <1>4, OpenEffect

LEMMA DiskClose ==
  ASSUME ServerInv, DiskInv, NEW w \in Workers,
         (DelNode(w) /\ Close(w)) \/ (Append(w) /\ Seal(w))
  PROVE  DiskInv'
<1>1. CASE DelNode(w) /\ Close(w)
  <2>1. DOMAIN nodes' \subseteq DOMAIN nodes /\ UNCHANGED files
    BY <1>1 DEF DelNode, graphVars, BlockdevDel, Drop, fsVars
  <2>. QED  BY <1>1, <2>1 DEF Close, DiskInv, OpensOwn, OverwrittenEmpty
<1>2. CASE Append(w) /\ Seal(w)
  <2>1. /\ DOMAIN nodes' = DOMAIN nodes /\ UNCHANGED files
        /\ nodes' = nodes \/ QSDID[call[w].layer] \in DOMAIN nodes
    BY <1>2 DEF Append, graphVars, BlockdevSnapshot, Granted, CanBlockdevSnapshot, fsVars
  <2>. QED  BY <1>2, <2>1 DEF Seal, DiskInv, OpensOwn, OverwrittenEmpty
<1>. QED  BY <1>1, <1>2

LEMMA RemovesUnopened ==
  ASSUME DistinctQSDIDs, ServerInv, DiskInv, NEW w \in Workers, call[w].pc = "remove",
         NEW n \in DOMAIN nodes
  PROVE  opened[n] # call[w].ptr.File
<1>1. /\ Belongs(call[w].ptr.File, call[w].layer) /\ QSDID[call[w].layer] \notin DOMAIN nodes
      /\ call[w].layer \in ImageID
  BY DEF ServerInv, HandlerInv, GraphInv, Placed, OwnInv, TypeInv, CallTypeInv, CallOK
<1>2. PICK i \in ImageID : QSDID[i] = n /\ Belongs(opened[n], i)
  BY DEF DiskInv, OpensOwn
<1>. QED  BY <1>1, <1>2, BelongsApart

LEMMA DiskErase ==
  ASSUME DistinctQSDIDs, ServerInv, DiskInv, NEW w \in Workers, RemoveFile(w), Erase(w)
  PROVE  DiskInv'
<1>1. UNCHANGED nodes /\ files' \subseteq files
  BY DEF RemoveFile, graphVars
<1>2. \A n \in DOMAIN nodes : opened[n] \in files'
  <2>1. call[w].pc = "remove"
    BY DEF RemoveFile
  <2>. QED  BY <2>1, RemovesUnopened DEF RemoveFile, DiskInv
<1>3. written' \in [Volumes -> Written]
  BY UnwrittenType DEF Erase, Without, DiskInv
<1>. QED  BY <1>1, <1>2, <1>3 DEF Erase, DiskInv, OpensOwn, OverwrittenEmpty

LEMMA DiskWrite ==
  ASSUME ServerInv, DiskInv, NEW v \in Volumes, GuestWrite(v)
  PROVE  DiskInv'
<1>. DEFINE f == opened[exports[QSDID[v]]]
            value == <<v, writes[v] + 1>>
<1>1. exports[QSDID[v]] \in DOMAIN nodes
  BY DEF GuestWrite, ServerInv, GraphInv, ExportPlaced
<1>2. f \in files /\ f \in FileName
  BY <1>1 DEF DiskInv, ServerInv, OwnInv, TypeInv, TypeOK, FsTypeOK
<1>3. value \in Value /\ writes[v] + 1 \in 0..MaxWrites
  BY DiskAssumption DEF GuestWrite, DiskInv, Value
<1>4. [value |-> value, file |-> f] \in Written
  BY <1>2, <1>3 DEF Written
<1>. HIDE DEF f, value
<1>5. OverwrittenEmpty'
  BY <1>2 DEF GuestWrite, DiskInv, OverwrittenEmpty, vars, fsVars, f
<1>. QED
  BY <1>2, <1>3, <1>4, <1>5 DEF GuestWrite, DiskInv, OpensOwn, vars, graphVars, fsVars, f, value

LEMMA DiskRestarts ==
  ASSUME DiskInv, DiskRestart
  PROVE  DiskInv'
<1>1. written' \in [Volumes -> Written]
  BY UnwrittenType DEF DiskRestart, DiskInv
<1>2. DOMAIN nodes' = {} /\ DOMAIN opened' = {} /\ UNCHANGED files
  BY DEF DiskRestart, Restart, GraphReset, Empty, fsVars
<1>. QED  BY <1>1, <1>2 DEF DiskRestart, DiskInv, OpensOwn, OverwrittenEmpty

LEMMA DiskWorks ==
  ASSUME DistinctQSDIDs, ServerInv, DiskInv, NEW w \in Workers, Works(w)
  PROVE  DiskInv'
<1>1. CASE /\ \/ Store(w) \/ Export(w) \/ Unexport(w) \/ RemoveSocketDir(w)
              \/ Release(w) \/ RemoveDir(w) \/ Reply(w)
           /\ UNCHANGED diskVars
  <2>1. UNCHANGED <<files, nodes>>
    BY <1>1 DEF Store, Export, Unexport, RemoveSocketDir, Release, RemoveDir, Reply, graphVars, fsVars,
                BlockExportAdd, BlockExportDel
  <2>. QED  BY <1>1, <2>1, DiskInvKept
<1>. QED
  BY <1>1, DiskFormat, DiskOpen, DiskClose, DiskErase DEF Works, DiskContinue

LEMMA DiskStep ==
  ASSUME DistinctQSDIDs, ServerInv, DiskInv, CmdType, [ClientNext]_allVars
  PROVE  DiskInv'
<1>1. TypeInv /\ TypeOK
  BY DEF ServerInv, OwnInv, TypeInv
<1>2. ASSUME NEW w \in Workers, Started(w)
      PROVE  DiskInv'
  BY <1>1, <1>2, StartedStarts, StartKeeps, DiskInvKept
<1>3. CASE Quiet
  BY <1>3, DiskInvKept DEF Quiet, graphVars, fsVars
<1>. QED
  BY <1>1, <1>2, <1>3, ClientSteps, DiskRestarts, DiskWorks, DiskWrite

LEMMA DiskInductive ==
  ASSUME ~Disciplined, DistinctQSDIDs
  PROVE  ClientSpec => [](ServerInv /\ CmdType /\ DiskInv)
<1>1. ClientInit => DiskInv
  BY UnwrittenType, DiskAssumption
  DEF ClientInit, DiskInit, Init, GraphInit, Empty, DiskInv, OpensOwn, OverwrittenEmpty
<1>. QED  BY <1>1, ServerInductive, DiskStep, PTL DEF ClientSpec

UndercutType == undercut \subseteq Volumes

(* One call at a time: every variable of the server, of the disks and of   *)
(* the users keeps its type, whatever fails and whenever the server        *)
(* restarts.  In particular every open file is there.                      *)
THEOREM ClientTypeCorrect ==
  ASSUME ~Disciplined, DistinctQSDIDs
  PROVE  ClientSpec => []ClientTypeOK
<1>1. UndercutType /\ [ClientNext]_allVars => UndercutType'
  BY DEF UndercutType, ClientNext, ServerRestart, ServerStep, Answer, Interrupt, Start, Create, Delete,
         SnapshotCreate, SnapshotDelete, SecondCall, clientVars, allVars
<1>2. ClientInit => UndercutType
  BY DEF ClientInit, UndercutType
<1>3. ServerInv /\ CmdType /\ DiskInv /\ UndercutType => ClientTypeOK
  BY DEF UndercutType, ServerInv, OwnInv, TypeInv, CmdType, DiskInv, OverwrittenEmpty, Written, ClientTypeOK,
         DiskTypeOK
<1>4. ClientSpec => [](ServerInv /\ CmdType /\ DiskInv)
  BY DiskInductive
<1>. QED  BY <1>1, <1>2, <1>3, <1>4, PTL DEF ClientSpec

-----------------------------------------------------------------------------
(* The active layers.  A volume's active layer is its own image or a       *)
(* snapshot.  Its owner holds it, so only a delete of the volume itself    *)
(* takes it, unless a user asked to delete the snapshot.                   *)

ActiveHeld(v) ==
  LET a == activeLayers[v] IN
  /\ a \in DOMAIN images /\ images[a].VolumeRef # None
  /\ \A w \in Workers : call[w].pc \in DeletePC /\ call[w].layer = a =>
       DeletesItself(call[w]) /\ call[w].id = v
OwnLayer(v) == activeLayers[v] \in Snapshots \cup {v}
ActiveInv ==
  \A v \in DOMAIN activeLayers : OwnLayer(v) /\ (v \in undercut \/ ActiveHeld(v))

LEMMA ActiveKept ==
  ASSUME ActiveInv, UNCHANGED activeLayers, undercut \subseteq undercut',
         \A i \in DOMAIN images : i \in DOMAIN images' /\ images'[i].VolumeRef = images[i].VolumeRef,
         \A w \in Workers : call'[w].pc \in DeletePC =>
           \/ /\ call[w].pc \in DeletePC /\ call'[w].layer = call[w].layer
              /\ call'[w].op = call[w].op /\ call'[w].id = call[w].id
           \/ images'[call'[w].layer].VolumeRef = None
  PROVE  ActiveInv'
<1>. SUFFICES ASSUME NEW v \in DOMAIN activeLayers', v \notin undercut'
              PROVE  ActiveHeld(v)'
  BY DEF ActiveInv, OwnLayer
<1>1. ActiveHeld(v)
  BY DEF ActiveInv
<1>. QED  BY <1>1 DEF ActiveHeld, DeletesItself

LEMMA ActiveStarted ==
  ASSUME OneCall, TypeInv, ActiveInv, NEW w \in Workers, Started(w)
  PROVE  ActiveInv'
<1>0. \A x \in Workers : x = w
  BY DEF OneCall
<1>1. MemTypeOK /\ Volumes \cap Snapshots = {} /\ undercut \subseteq undercut'
  BY ConstantsAssumption DEF TypeInv, TypeOK, Started, Undercuts
<1>2. CASE UNCHANGED memVars /\ call'[w].pc \notin DeletePC
  BY <1>0, <1>1, <1>2, ActiveKept DEF memVars
<1>3. ASSUME NEW id \in Volumes, DeleteVolume(w, id), UNCHANGED undercut
      PROVE  ActiveInv'
  <2>. SUFFICES ASSUME NEW v \in DOMAIN activeLayers'
                PROVE  OwnLayer(v)' /\ (v \in undercut \/ ActiveHeld(v)')
    BY <1>3 DEF ActiveInv
  <2>1. v \in Volumes /\ v \in DOMAIN activeLayers /\ activeLayers'[v] = activeLayers[v]
    BY <1>1, <1>3 DEF DeleteVolume, Forget, Drop, memVars, MemTypeOK
  <2>2. OwnLayer(v)'
    BY <2>1 DEF ActiveInv, OwnLayer
  <2>3. CASE activeLayers[v] = id
    <3>1. v = id
      BY <1>1, <2>1, <2>3 DEF ActiveInv, OwnLayer
    <3>2. \/ call'[w].pc = "failed" /\ UNCHANGED memVars
          \/ TurnsTo(call'[w], id) /\ UNCHANGED memVars /\ Names(call'[w], "DeleteVolume", id, None)
      BY <1>3, <2>1, <3>1, StartDeleteVolume
    <3>. QED
      BY <1>0, <2>1, <2>2, <2>3, <3>1, <3>2
      DEF memVars, ActiveInv, ActiveHeld, TurnsTo, Names, DeletesItself
  <2>4. CASE activeLayers[v] # id
    <3>1. /\ \A i \in DOMAIN images \ {id} : i \in DOMAIN images' /\ images'[i].VolumeRef = images[i].VolumeRef
          /\ call'[w].pc \in DeletePC => call'[w].layer = id
      BY <1>3, StartDeleteVolume, StartKeeps DEF Starts, TurnsTo
    <3>2. v \in undercut \/ ActiveHeld(v)
      BY <2>1 DEF ActiveInv
    <3>. QED
      BY <1>0, <2>1, <2>2, <2>4, <3>1, <3>2 DEF ActiveHeld
  <2>. QED  BY <2>3, <2>4
<1>4. ASSUME NEW s \in Snapshots, NEW vol \in Volumes, DeleteSnapshot(w, s, vol), Undercuts(s)
      PROVE  ActiveInv'
  <2>. SUFFICES ASSUME NEW v \in DOMAIN activeLayers, v \notin undercut'
                PROVE  ActiveHeld(v)'
    BY <1>4 DEF ActiveInv, OwnLayer, DeleteSnapshot
  <2>1. ActiveHeld(v) /\ v \in Volumes /\ UNCHANGED activeLayers
    BY <1>1, <1>4 DEF ActiveInv, MemTypeOK, DeleteSnapshot
  <2>2. activeLayers[v] # s
    BY <1>4, <2>1 DEF Undercuts, IsActiveLayer, ActiveHeld
  <2>3. /\ \A i \in DOMAIN images \ {s} : i \in DOMAIN images' /\ images'[i].VolumeRef = images[i].VolumeRef
        /\ call'[w].pc \in DeletePC =>
             call'[w].layer = s \/ images'[call'[w].layer].VolumeRef = None
    BY <1>4, StartDeleteSnapshot, StartKeeps DEF Starts, TurnsTo, Collectable
  <2>. QED  BY <1>0, <2>1, <2>2, <2>3 DEF ActiveHeld
<1>5. \A v \in Volumes, src \in CloneSources \cup {None} : CreateVolume(w, v, src) =>
        UNCHANGED memVars /\ call'[w].pc \notin DeletePC
  BY StartCreateVolume
<1>6. \A s \in Snapshots, v \in Volumes : CreateSnapshot(w, s, v) =>
        UNCHANGED memVars /\ call'[w].pc \notin DeletePC
  BY StartCreateSnapshot
<1>7. \A v \in Volumes : ExposeVhostUser(w, v) \/ DeleteExporter(w, v) =>
        UNCHANGED memVars /\ call'[w].pc \notin DeletePC
  BY StartExpose, StartUnexpose
<1>. QED  BY <1>2, <1>3, <1>4, <1>5, <1>6, <1>7 DEF Started

(* What a step of a handler turns to is what it was at, or has no owner.   *)
LEMMA TurnsToOrphan ==
  ASSUME TypeInv, NEW w \in Workers, Continue(w), NEW x \in Workers, call'[x].pc \in DeletePC
  PROVE  \/ /\ call[x].pc \in DeletePC /\ call'[x].layer = call[x].layer
            /\ call'[x].op = call[x].op /\ call'[x].id = call[x].id
         \/ call'[x].layer \in DOMAIN images' /\ images'[call'[x].layer].VolumeRef = None
<1>1. call'[x] # NoCall
  BY DEF NoCall
<1>. QED  BY <1>1, ContinueProceeds DEF Proceeds, SameNames, Collectable

LEMMA ActiveStore ==
  ASSUME OneCall, TypeInv, ActiveInv, NEW w \in Workers, Store(w), UNCHANGED undercut
  PROVE  ActiveInv'
<1>. DEFINE c == call[w]
<1>1. Continue(w) /\ MemTypeOK /\ CallOK(c) /\ c.pc = "store"
  BY DEF Continue, Store, TypeInv, TypeOK, CallTypeInv
<1>2. /\ activeLayers' = Put(activeLayers, TopOf(c), c.id) /\ c.id \in DOMAIN images'
      /\ images'[c.id].VolumeRef = c.id /\ c.id # None
  <2>1. images'[c.id].VolumeRef = c.id /\ c.id \in DOMAIN images'
    BY DEF Store, Put, NewImage
  <2>. QED  BY <1>1, <2>1, NewNames DEF Store
<1>. SUFFICES ASSUME NEW v \in DOMAIN activeLayers'
              PROVE  OwnLayer(v)' /\ (v \in undercut \/ ActiveHeld(v)')
  BY DEF ActiveInv
<1>3. \A x \in Workers : call'[x].pc \in DeletePC => call[x].pc \in DeletePC /\ call'[x] = call[x]
  BY <1>1, ContinueMoves DEF Moves, Follows, Store, Reply
<1>4. CASE v = TopOf(c)
  <2>1. activeLayers'[v] = c.id /\ (c.id = v \/ c.id \in Snapshots)
    BY <1>1, <1>2, <1>4 DEF Put, TopOf, CallOK
  <2>2. \A x \in Workers : call'[x].pc \notin DeletePC
    BY <1>1, <1>3 DEF OneCall
  <2>. QED  BY <1>2, <2>1, <2>2 DEF OwnLayer, ActiveHeld
<1>5. CASE v # TopOf(c)
  <2>1. v \in DOMAIN activeLayers /\ activeLayers'[v] = activeLayers[v]
    BY <1>2, <1>5 DEF Put
  <2>2. CASE ActiveHeld(v)
    <3>1. /\ activeLayers[v] \in DOMAIN images'
          /\ images'[activeLayers[v]].VolumeRef # None
      BY <1>1, <1>2, <2>2, ImageChange DEF ActiveHeld, KeepsOwner
    <3>. QED  BY <1>3, <2>1, <2>2, <3>1 DEF ActiveHeld, ActiveInv, OwnLayer
  <2>. QED  BY <2>1, <2>2 DEF ActiveInv, OwnLayer
<1>. QED  BY <1>4, <1>5

LEMMA ActiveRelease ==
  ASSUME OneCall, ServerInv, ActiveInv, NEW w \in Workers, Release(w), UNCHANGED undercut
  PROVE  ActiveInv'
<1>. DEFINE c == call[w]
<1>0. TypeInv /\ Continue(w) /\ c.pc = "release" /\ \A x \in Workers : x = w
  BY DEF ServerInv, OwnInv, Continue, Release, OneCall
<1>1. /\ DeletesItself(c) => c.id \notin DOMAIN activeLayers'
      /\ \A v \in DOMAIN activeLayers' : v \in DOMAIN activeLayers /\ activeLayers'[v] = activeLayers[v]
  <2>1. c.layer \notin DOMAIN images' /\ c.layer \in DOMAIN images
    BY <1>0, ReleaseRemoves DEF ServerInv, SafeInv, CallsHold, VictimUnused
  <2>2. images' # images
    BY <2>1
  <2>. QED  BY <2>2 DEF Release, memVars, Forget, Drop
<1>. SUFFICES ASSUME NEW v \in DOMAIN activeLayers', v \notin undercut
              PROVE  ActiveHeld(v)'
  BY <1>1 DEF ActiveInv, OwnLayer
<1>. DEFINE a == activeLayers[v]
<1>2. ActiveHeld(v)
  BY <1>1 DEF ActiveInv
<1>3. a # c.layer
  BY <1>0, <1>1, <1>2 DEF ActiveHeld
<1>4. a \in DOMAIN images' /\ images'[a].VolumeRef = images[a].VolumeRef
  BY <1>0, <1>2, <1>3, ImageChange DEF ActiveHeld, KeepsOwner
<1>5. \A x \in Workers : call'[x].pc \in DeletePC => call'[x].layer # a
  BY <1>0, <1>2, <1>3, <1>4, TurnsToOrphan DEF ActiveHeld
<1>. QED  BY <1>1, <1>2, <1>4, <1>5 DEF ActiveHeld

LEMMA ActiveStep ==
  ASSUME OneCall, ServerInv, CmdType, ActiveInv, [ClientNext]_allVars
  PROVE  ActiveInv'
<1>0. TypeInv /\ TypeOK
  BY DEF ServerInv, OwnInv, TypeInv
<1>1. CASE DiskRestart
  BY <1>1 DEF DiskRestart, Restart, Empty, ActiveInv
<1>2. ASSUME NEW w \in Workers, Continue(w), UNCHANGED undercut
      PROVE  ActiveInv'
  <2>1. CASE ~Store(w) /\ ~Release(w)
    <3>1. UNCHANGED memVars
      BY <1>2, <2>1 DEF Continue, QemuImgCreate, AddNode, Append, Export, Unexport, RemoveSocketDir,
                        DelNode, RemoveFile, RemoveDir, Reply
    <3>. QED  BY <1>0, <1>2, <3>1, TurnsToOrphan, ActiveKept DEF memVars
  <2>. QED  BY <1>0, <1>2, <2>1, ActiveStore, ActiveRelease
<1>3. CASE UNCHANGED <<call, images, activeLayers, undercut>>
  BY <1>3, ActiveKept
<1>4. (Quiet => UNCHANGED <<call, images, activeLayers>>) /\ \A v : GuestWrite(v) => UNCHANGED <<call, images, activeLayers>>
  BY DEF Quiet, GuestWrite, vars, memVars
<1>. QED
  BY <1>0, <1>1, <1>2, <1>3, <1>4, ClientSteps, ActiveStarted, WorksContinue

LEMMA ActiveInductive ==
  ASSUME ~Disciplined, DistinctQSDIDs
  PROVE  ClientSpec => []ActiveInv
<1>1. ClientInit => ActiveInv
  BY DEF ClientInit, DiskInit, Init, Empty, ActiveInv
<1>2. OneCall
  BY ConstantsAssumption DEF OneCall
<1>3. ServerInv /\ CmdType /\ ActiveInv /\ [ClientNext]_allVars => ActiveInv'
  BY <1>2, ActiveStep
<1>. QED  BY <1>1, <1>3, ServerInductive, PTL DEF ClientSpec

(* One call at a time: the image that DeleteVolume and CreateSnapshot look *)
(* up as the active layer is there, whatever fails and whenever the server *)
(* restarts, unless a user deleted the snapshot that was the active layer. *)
THEOREM ActiveLayersThere ==
  ASSUME ~Disciplined, DistinctQSDIDs
  PROVE  ClientSpec => []ActiveLayerThere
<1>1. ActiveInv => ActiveLayerThere
  BY DEF ActiveInv, ActiveHeld, ActiveLayerThere
<1>2. ClientSpec => []ActiveInv
  BY ActiveInductive
<1>. QED  BY <1>1, <1>2, PTL

-----------------------------------------------------------------------------
(* One user at a time.  What a command waits for is the call in progress,  *)
(* and between its two calls nothing else goes on in the server.           *)

OneUser == \A t, u \in Terminals : t = u

CmdInv ==
  \A t \in Terminals :
    /\ Waiting(t) => LET c == call[cmd[t].worker] IN
                     c.op = cmd[t].pc /\ c.id = cmd[t].id /\ c.pc # "idle"
    /\ ~Waiting(t) /\ ~Ready(t) => AllIdle

LEMMA StartedNames ==
  ASSUME TypeInv, NEW w \in Workers
  PROVE  /\ \A v \in Volumes, src \in CloneSources \cup {None} : CreateVolume(w, v, src) =>
              call'[w].op = "CreateVolume" /\ call'[w].id = v /\ call'[w].pc # "idle"
         /\ \A s \in Snapshots, v \in Volumes : CreateSnapshot(w, s, v) =>
              call'[w].op = "CreateSnapshot" /\ call'[w].id = s /\ call'[w].pc # "idle"
         /\ \A v \in Volumes : ExposeVhostUser(w, v) =>
              call'[w].op = "ExposeVhostUser" /\ call'[w].id = v /\ call'[w].pc # "idle"
         /\ \A v \in Volumes : DeleteExporter(w, v) =>
              call'[w].op = "DeleteExporter" /\ call'[w].id = v /\ call'[w].pc # "idle"
         /\ \A v \in Volumes : DeleteVolume(w, v) =>
              call'[w].op = "DeleteVolume" /\ call'[w].id = v /\ call'[w].pc # "idle"
         /\ \A s \in Snapshots, v \in Volumes : DeleteSnapshot(w, s, v) =>
              call'[w].op = "DeleteSnapshot" /\ call'[w].id = s /\ call'[w].pc # "idle"
<1>1. ASSUME NEW v \in Volumes, NEW src \in CloneSources \cup {None}, CreateVolume(w, v, src)
      PROVE  call'[w].op = "CreateVolume" /\ call'[w].id = v /\ call'[w].pc # "idle"
  BY <1>1, StartCreateVolume DEF Names
<1>2. ASSUME NEW s \in Snapshots, NEW v \in Volumes, CreateSnapshot(w, s, v)
      PROVE  call'[w].op = "CreateSnapshot" /\ call'[w].id = s /\ call'[w].pc # "idle"
  BY <1>2, StartCreateSnapshot DEF Names
<1>3. ASSUME NEW v \in Volumes, ExposeVhostUser(w, v)
      PROVE  call'[w].op = "ExposeVhostUser" /\ call'[w].id = v /\ call'[w].pc # "idle"
  BY <1>3, StartExpose DEF Names
<1>4. ASSUME NEW v \in Volumes, DeleteExporter(w, v)
      PROVE  call'[w].op = "DeleteExporter" /\ call'[w].id = v /\ call'[w].pc # "idle"
  BY <1>4, StartUnexpose DEF Names
<1>5. ASSUME NEW v \in Volumes, DeleteVolume(w, v)
      PROVE  call'[w].op = "DeleteVolume" /\ call'[w].id = v /\ call'[w].pc # "idle"
  BY <1>5, StartDeleteVolume DEF Names, TurnsTo
<1>6. ASSUME NEW s \in Snapshots, NEW v \in Volumes, DeleteSnapshot(w, s, v)
      PROVE  call'[w].op = "DeleteSnapshot" /\ call'[w].id = s /\ call'[w].pc # "idle"
  BY <1>6, StartDeleteSnapshot DEF Names, TurnsTo
<1>. QED  BY <1>1, <1>2, <1>3, <1>4, <1>5, <1>6

LEMMA CmdCalled ==
  ASSUME OneUser, CmdType, NEW t \in Terminals, NEW w \in Workers, NEW pc \in Step, NEW id \in ImageID,
         Run(t, Calling(pc, id, w)), call'[w].op = pc, call'[w].id = id, call'[w].pc # "idle"
  PROVE  CmdInv'
<1>1. cmd'[t] = Calling(pc, id, w)
  BY DEF Run, CmdType
<1>2. cmd'[t].pc = pc /\ cmd'[t].id = id /\ cmd'[t].worker = w
  BY <1>1 DEF Calling
<1>. QED  BY <1>2, ClientAssumption DEF OneUser, CmdInv, Waiting

LEMMA CmdStep ==
  ASSUME OneCall, OneUser, TypeInv, CmdType, CmdInv, [ClientNext]_allVars
  PROVE  CmdInv'
<1>0. Volumes \subseteq ImageID /\ Snapshots \subseteq ImageID
  BY DEF ImageID
<1>1. ASSUME NEW t \in Terminals, NEW w \in Workers, Start(t, w)
      PROVE  CmdInv'
  <2>1. PICK pc \in {"CreateVolume", "DeleteExporter", "CreateSnapshot", "DeleteSnapshot"}, id \in ImageID :
          /\ Run(t, Calling(pc, id, w))
          /\ call'[w].op = pc /\ call'[w].id = id /\ call'[w].pc # "idle"
    BY <1>0, <1>1, StartedNames DEF Start, Create, Delete, SnapshotCreate, SnapshotDelete
  <2>. QED  BY <2>1, CmdCalled DEF Step
<1>2. ASSUME NEW t \in Terminals, NEW w \in Workers, SecondCall(t, w)
      PROVE  CmdInv'
  <2>1. cmd[t].id \in Volumes /\ cmd[t].id \in ImageID /\ cmd[t].pc \in Step
    BY <1>0, <1>2 DEF SecondCall, CmdType, OfVolume, Step
  <2>2. call'[w].op = cmd[t].pc /\ call'[w].id = cmd[t].id /\ call'[w].pc # "idle"
    BY <1>2, <2>1, StartedNames DEF SecondCall
  <2>. QED  BY <1>2, <2>1, <2>2, CmdCalled DEF SecondCall
<1>3. ASSUME NEW t \in Terminals, Answer(t)
      PROVE  CmdInv'
  <2>1. cmd[t].worker \in Workers /\ Reply(cmd[t].worker)
    BY <1>3 DEF Answer, Waiting, CmdType, Command
  <2>2. AllIdle'
    BY <2>1 DEF Reply, Become, NoCall, OneCall, AllIdle, Idle, TypeInv, TypeOK
  <2>3. \E pc, id : cmd'[t] = Calling(pc, id, None) \/ cmd'[t] = NoCommand
    BY <1>3 DEF Answer, Run, CmdType
  <2>4. ~Waiting(t)'
    BY <2>3 DEF Calling, NoCommand, Waiting
  <2>. QED  BY <2>2, <2>4 DEF CmdInv, OneUser
<1>4. ASSUME NEW t \in Terminals, Interrupt(t)
      PROVE  CmdInv'
  <2>1. cmd'[t].pc = "idle" /\ cmd'[t].worker = None
    BY <1>4 DEF Interrupt, Run, NoCommand, CmdType
  <2>. QED  BY <2>1 DEF OneUser, CmdInv, Waiting, Ready
<1>5. ASSUME NEW w \in Workers, ServerStep(w)
      PROVE  CmdInv'
  <2>. SUFFICES ASSUME NEW t \in Terminals
                PROVE  /\ Waiting(t) => LET c == call'[cmd[t].worker] IN
                                        c.op = cmd[t].pc /\ c.id = cmd[t].id /\ c.pc # "idle"
                       /\ Waiting(t) \/ Ready(t)
    BY <1>5 DEF CmdInv, Waiting, Ready, ServerStep, clientVars
  <2>1. Continue(w) /\ Works(w)
    BY <1>5, WorksContinue DEF ServerStep, Works
  <2>2. call[w].pc # "idle"
    BY <2>1 DEF Continue, QemuImgCreate, AfterQemuImg, AddNode, AfterAdd, Append, Store, Export, Unexport,
                RemoveSocketDir, DelNode, RemoveFile, Release, RemoveDir, Reply
  <2>3. Waiting(t) \/ Ready(t)
    BY <2>2 DEF CmdInv, AllIdle, Idle
  <2>4. ASSUME Waiting(t)
        PROVE  LET c == call'[cmd[t].worker] IN
               c.op = cmd[t].pc /\ c.id = cmd[t].id /\ c.pc # "idle"
    <3>1. cmd[t].worker = w
      BY <2>4 DEF Waiting, CmdType, Command, OneCall
    <3>2. ~Reply(w)
      <4>1. call[w].pc \in {"succeeded", "failed"} => ~DiskContinue(w)
        BY DEF DiskContinue, QemuImgCreate, AfterQemuImg, AddNode, AfterAdd, Append, Store, Export, Unexport,
               RemoveSocketDir, DelNode, RemoveFile, Release, RemoveDir
      <4>. QED  BY <1>5, <3>1, <4>1 DEF ServerStep, Awaited, Reply
    <3>3. Moves(call[w], call'[w])
      BY <2>1, <3>2, ContinueMoves
    <3>4. SameNames(call'[w], call[w]) /\ call'[w].pc # "idle"
      BY <2>2, <3>3 DEF Moves, Follows, SameNames
    <3>. QED  BY <2>4, <3>1, <3>4 DEF CmdInv, SameNames
  <2>. QED  BY <2>3, <2>4
<1>6. CASE ServerRestart
  <2>1. AllIdle'
    BY <1>6 DEF ServerRestart, DiskRestart, Restart, NoCall, AllIdle, Idle
  <2>2. \A t \in Terminals : ~Waiting(t)'
    BY <1>6 DEF ServerRestart, NoCommand, Waiting
  <2>. QED  BY <2>1, <2>2 DEF CmdInv
<1>7. CASE UNCHANGED <<cmd, call>>
  BY <1>7 DEF CmdInv, Waiting, Ready, AllIdle, Idle
<1>8. UNCHANGED allVars \/ (UNCHANGED clientVars /\ \E v \in Volumes : GuestWrite(v)) => UNCHANGED <<cmd, call>>
  BY DEF allVars, clientVars, GuestWrite, vars
<1>. QED
  BY <1>1, <1>2, <1>3, <1>4, <1>5, <1>6, <1>7, <1>8 DEF ClientNext

(* The second call is next where it was, or where the first has succeeded. *)
LEMMA GoesComes ==
  ASSUME CmdType, CmdInv, [ClientNext]_allVars, ~DiskRestart, NEW v, NEW pc, pc # "idle", Goes(pc, v)'
  PROVE  \/ Goes(pc, v)
         \/ \E w \in Workers : /\ call[w].pc = "succeeded" /\ call[w].id = v
                               /\ call[w].op \in DOMAIN Then /\ pc = Then[call[w].op]
<1>1. PICK t \in Terminals : cmd'[t].pc = pc /\ cmd'[t].id = v /\ ~Waiting(t)'
  BY DEF Goes
<1>2. CASE cmd'[t] = cmd[t]
  BY <1>1, <1>2 DEF Goes, Waiting
<1>3. ASSUME NEW u \in Terminals, Answer(u)
      PROVE  \/ Goes(pc, v)
             \/ \E w \in Workers : /\ call[w].pc = "succeeded" /\ call[w].id = v
                                   /\ call[w].op \in DOMAIN Then /\ pc = Then[call[w].op]
  <2>1. CASE t # u
    BY <1>2, <1>3, <2>1 DEF Answer, Run, CmdType
  <2>2. CASE t = u
    <3>1. cmd'[t] = IF GoesOn(cmd[t]) THEN Calling(Then[cmd[t].pc], cmd[t].id, None) ELSE NoCommand
      BY <1>3, <2>2 DEF Answer, Run, CmdType
    <3>2. GoesOn(cmd[t]) /\ pc = Then[cmd[t].pc] /\ v = cmd[t].id
      BY <1>1, <3>1 DEF NoCommand, Calling
    <3>3. cmd[t].worker \in Workers /\ Waiting(t)
      BY <1>3, <2>2 DEF Answer, Waiting, CmdType, Command
    <3>. QED  BY <3>2, <3>3 DEF CmdInv, GoesOn
  <2>. QED  BY <2>1, <2>2
<1>4. ASSUME NEW u \in Terminals, NEW w \in Workers, Start(u, w) \/ SecondCall(u, w)
      PROVE  cmd'[t] = cmd[t]
  <2>1. PICK p, id : Run(u, Calling(p, id, w))
    BY <1>4 DEF Start, Create, Delete, SnapshotCreate, SnapshotDelete, SecondCall
  <2>2. CASE t = u
    <3>1. cmd'[t] = Calling(p, id, w)
      BY <2>1, <2>2 DEF Run, CmdType
    <3>. QED  BY <1>1, <3>1, ClientAssumption DEF Calling, Waiting
  <2>. QED  BY <2>1, <2>2 DEF Run, CmdType
<1>5. ASSUME NEW u \in Terminals, Interrupt(u)
      PROVE  cmd'[t] = cmd[t]
  BY <1>1, <1>5 DEF Interrupt, Run, NoCommand, CmdType
<1>6. UNCHANGED clientVars \/ UNCHANGED allVars => cmd'[t] = cmd[t]
  BY DEF clientVars, allVars
<1>. QED
  BY <1>2, <1>3, <1>4, <1>5, <1>6 DEF ClientNext, ServerStep, ServerRestart

(* A volume that was just created and is going to be exposed.              *)
InCreate(c) == c.op = "CreateVolume" /\ c.pc \in {"store", "succeeded"}
Pending(v) ==
  \/ \E w \in Workers : call[w].id = v /\ (InCreate(call[w]) \/ call[w].pc = "export")
  \/ Goes("ExposeVhostUser", v)

(* It became so with the blockdev-add that made its node.                  *)
NodeMade(w, v) ==
  /\ call[w].id = v /\ call[w].op = "CreateVolume" /\ call[w].pc \in {"addImage", "addBacked", "append"}
  /\ call'[w].pc = "store" /\ Works(w)

LEMMA PendingStarted ==
  ASSUME OneCall, TypeInv, NEW w \in Workers, Started(w), InCreate(call'[w]) \/ call'[w].pc = "export"
  PROVE  Goes("ExposeVhostUser", call'[w].id)
<1>1. ASSUME NEW v \in Volumes, NEW src \in CloneSources \cup {None}, CreateVolume(w, v, src)
      PROVE  FALSE
  BY <1>1, StartCreateVolume DEF InCreate
<1>2. ASSUME NEW s \in Snapshots, NEW v \in Volumes, CreateSnapshot(w, s, v)
      PROVE  FALSE
  BY <1>2, StartCreateSnapshot DEF InCreate
<1>3. ASSUME NEW v \in Volumes, DeleteExporter(w, v)
      PROVE  FALSE
  BY <1>3, StartUnexpose DEF InCreate
<1>4. ASSUME NEW v \in Volumes, DeleteVolume(w, v)
      PROVE  FALSE
  BY <1>4, StartDeleteVolume DEF InCreate, Names, TurnsTo
<1>5. ASSUME NEW s \in Snapshots, NEW v \in Volumes, DeleteSnapshot(w, s, v)
      PROVE  FALSE
  BY <1>5, StartDeleteSnapshot DEF InCreate, Names, TurnsTo
<1>6. ASSUME NEW v \in Volumes, Goes("ExposeVhostUser", v), ExposeVhostUser(w, v)
      PROVE  Goes("ExposeVhostUser", call'[w].id)
  BY <1>6, StartedNames
<1>. QED  BY <1>1, <1>2, <1>3, <1>4, <1>5, <1>6 DEF Started

LEMMA PendingComes ==
  ASSUME OneCall, TypeInv, HandlerInv, CmdType, CmdInv, [ClientNext]_allVars, ~DiskRestart,
         NEW v \in Volumes, Pending(v)'
  PROVE  Pending(v) \/ \E w \in Workers : NodeMade(w, v)
<1>1. CASE Goes("ExposeVhostUser", v)'
  <2>1. \A op \in DOMAIN Then : Then[op] = "ExposeVhostUser" => op = "CreateVolume"
    BY DEF Then
  <2>. QED  BY <1>1, <2>1, GoesComes DEF Pending, InCreate
<1>2. ASSUME NEW w \in Workers, call'[w].id = v, InCreate(call'[w]) \/ call'[w].pc = "export"
      PROVE  Pending(v) \/ NodeMade(w, v)
  <2>1. CASE call' = call
    BY <1>2, <2>1 DEF Pending
  <2>2. ASSUME Started(w)
        PROVE  Pending(v)
    BY <1>2, <2>2, PendingStarted DEF Pending
  <2>3. ASSUME Works(w)
        PROVE  Pending(v) \/ NodeMade(w, v)
    <3>1. Continue(w)
      BY <2>3, WorksContinue
    <3>2. ~Reply(w)
      BY <1>2, ConstantsAssumption DEF Reply, Become, TypeInv, TypeOK, NoCall, ImageID
    <3>3. Moves(call[w], call'[w])
      BY <3>1, <3>2, ContinueMoves
    <3>4. CASE call'[w] = call[w]
      BY <1>2, <3>4 DEF Pending
    <3>5. CASE SameNames(call'[w], call[w]) /\ call[w].pc \in DOMAIN Follows /\ call'[w].pc \in Follows[call[w].pc]
      <4>1. call'[w].pc \in {"store", "succeeded"} /\ call[w].op = "CreateVolume" /\ call[w].id = v
        BY <1>2, <3>5 DEF InCreate, Follows, SameNames
      <4>2. call[w].pc \in {"addImage", "addBacked", "append"} \/ call[w].pc = "store"
        BY <3>5, <4>1 DEF Follows, HandlerInv, StepsOf, Deleting
      <4>3. call[w].pc \in {"addImage", "addBacked", "append"} => call'[w].pc = "store"
        BY <3>5 DEF Follows
      <4>. QED  BY <2>3, <4>1, <4>2, <4>3 DEF Pending, InCreate, NodeMade
    <3>. QED  BY <1>2, <3>3, <3>4, <3>5 DEF Moves, InCreate
  <2>4. (Quiet => UNCHANGED call) /\ \A u : GuestWrite(u) => UNCHANGED call
    BY DEF Quiet, GuestWrite, vars
  <2>5. \A x \in Workers : x = w
    BY DEF OneCall
  <2>6. TypeOK
    BY DEF TypeInv
  <2>. QED  BY <2>1, <2>2, <2>3, <2>4, <2>5, <2>6, ClientSteps
<1>. QED  BY <1>1, <1>2 DEF Pending

-----------------------------------------------------------------------------
(* No guest can write to a layer that a snapshot froze: a volume is        *)
(* exposed before anybody can take a snapshot of it, and the overlay that  *)
(* takes over an export has nothing on top.                                *)

SealInv ==
  /\ SealedNotExported
  /\ \A w \in Workers : call[w].pc \in {"append", "store"} => QSDID[call[w].id] \notin sealed
  /\ \A v \in Volumes : Pending(v) => QSDID[v] \notin sealed

(* Where a handler about to append or to store comes from.                 *)
LEMMA NewNodeComes ==
  ASSUME TypeInv, NEW w \in Workers, Continue(w), NEW x \in Workers, call'[x].pc \in {"append", "store"}
  PROVE  \/ call'[x] = call[x]
         \/ /\ call'[x].id = call[x].id
            /\ call[x].pc \in {"addImage", "addBacked", "addOverlay", "append"}
<1>1. ~(x = w /\ Reply(w))
  BY DEF Reply, Become, TypeInv, TypeOK, NoCall
<1>. QED  BY <1>1, ContinueMoves DEF Moves, Follows, SameNames

LEMMA SealKept ==
  ASSUME OneCall, TypeInv, HandlerInv, CmdType, CmdInv, SealInv, [ClientNext]_allVars, ~DiskRestart,
         sealed' \subseteq sealed, \A e \in DOMAIN exports' : exports'[e] \notin sealed',
         \A w \in Workers : call'[w].pc \in {"append", "store"} =>
           call[w].pc \in {"append", "store"} /\ call'[w].id = call[w].id
  PROVE  SealInv'
<1>1. ASSUME NEW v \in Volumes, Pending(v)'
      PROVE  QSDID[v] \notin sealed
  <2>1. \A w \in Workers : NodeMade(w, v) => QSDID[v] \notin sealed
    BY DEF NodeMade, SealInv
  <2>. QED  BY <1>1, <2>1, PendingComes DEF SealInv
<1>. QED  BY <1>1 DEF SealInv, SealedNotExported

LEMMA SealAddNode ==
  ASSUME OneCall, ServerInv, DiskInv, CmdType, CmdInv, SealInv, [ClientNext]_allVars, ~DiskRestart,
         NEW w \in Workers, AddNode(w), Open(w)
  PROVE  SealInv'
<1>. DEFINE k == QSDID[call[w].id]
<1>0. TypeInv /\ HandlerInv /\ UNCHANGED <<sealed, exports>> /\ \A x \in Workers : x = w
  BY DEF ServerInv, OwnInv, OneCall, Open, AddNode, BlockdevAdd, graphVars
<1>1. CASE Fail(w)
  BY <1>0, <1>1, FailIs, SealKept DEF SealInv, SealedNotExported
<1>2. CASE k \notin DOMAIN nodes /\ \E pc : Goto(w, pc)
  <2>1. k \notin sealed /\ call'[w].id = call[w].id
    BY <1>0, <1>2, GotoFields DEF DiskInv
  <2>2. ASSUME NEW v \in Volumes, Pending(v)'
        PROVE  QSDID[v] \notin sealed
    BY <1>0, <2>1, <2>2, PendingComes DEF SealInv, NodeMade
  <2>. QED  BY <1>0, <2>1, <2>2 DEF SealInv, SealedNotExported
<1>. QED  BY <1>1, <1>2, OpenEffect DEF CanAddNode, CanBlockdevAdd

LEMMA SealAppend ==
  ASSUME DistinctQSDIDs, OneCall, ServerInv, CmdType, CmdInv, CmdInv', SealInv, [ClientNext]_allVars,
         ~DiskRestart, NEW w \in Workers, Append(w), Seal(w)
  PROVE  SealInv'
<1>. DEFINE n == QSDID[call[w].layer]
            o == QSDID[call[w].id]
<1>0. TypeInv /\ HandlerInv /\ call[w].pc = "append" /\ \A x \in Workers : x = w
  BY DEF ServerInv, OwnInv, OneCall, Append
<1>1. CASE UNCHANGED graphVars /\ Fail(w)
  BY <1>0, <1>1, FailIs, SealKept DEF SealInv, SealedNotExported, Seal, graphVars
<1>2. CASE CanBlockdevSnapshot(n, o) /\ BlockdevSnapshot(n, o) /\ Goto(w, "store")
  <2>1. n # o /\ sealed' \subseteq sealed \cup {n} /\ o \notin sealed
    BY <1>0, <1>2 DEF CanBlockdevSnapshot, Seal, SealInv
  <2>2. call'[w].pc = "store" /\ call'[w].id = call[w].id
    BY <1>0, <1>2, GotoFields
  <2>3. \A e \in DOMAIN exports' : exports'[e] \notin sealed'
    BY <1>2, <2>1 DEF BlockdevSnapshot, SealInv, SealedNotExported
  <2>4. ASSUME NEW v \in Volumes, Pending(v)'
        PROVE  QSDID[v] \notin sealed'
    <3>1. ~Goes("ExposeVhostUser", v)'
      BY <2>2 DEF CmdInv, Goes, Waiting, Ready, AllIdle, Idle
    <3>2. call'[w].id = v
      BY <1>0, <2>4, <3>1 DEF Pending
    <3>. QED  BY <2>1, <2>2, <3>2
  <2>. QED  BY <1>0, <2>1, <2>2, <2>3, <2>4 DEF SealInv, SealedNotExported
<1>. QED  BY <1>1, <1>2 DEF Append, Granted

LEMMA SealStep ==
  ASSUME DistinctQSDIDs, OneCall, ServerInv, DiskInv, CmdType, CmdInv, CmdInv', SealInv, [ClientNext]_allVars
  PROVE  SealInv'
<1>0. TypeInv /\ HandlerInv /\ TypeOK /\ \A x, y \in Workers : x = y
  BY DEF ServerInv, OwnInv, TypeInv, OneCall
<1>1. CASE DiskRestart
  BY <1>1 DEF DiskRestart, Restart, GraphReset, Empty, SealInv, SealedNotExported
<1>. SUFFICES ASSUME ~DiskRestart
              PROVE  SealInv'
  BY <1>1
<1>2. ASSUME UNCHANGED <<call, exports, sealed>>
      PROVE  SealInv'
  BY <1>0, <1>2, SealKept DEF SealInv, SealedNotExported
<1>3. ASSUME NEW w \in Workers, Started(w)
      PROVE  SealInv'
  <2>1. UNCHANGED <<exports, sealed>>
    BY <1>0, <1>3, StartedStarts, StartKeeps DEF diskVars
  <2>2. call'[w].pc \notin {"append", "store"}
    BY <1>0, <1>3, StartedStarts, StartCreateVolume, StartCreateSnapshot, StartExpose, StartUnexpose,
       StartDeleteVolume, StartDeleteSnapshot DEF Starts, TurnsTo
  <2>. QED  BY <1>0, <2>1, <2>2, SealKept DEF SealInv, SealedNotExported
<1>4. ASSUME NEW w \in Workers, Works(w), ~AddNode(w), ~Append(w)
      PROVE  SealInv'
  <2>1. Continue(w)
    BY <1>4, WorksContinue
  <2>2. sealed' \subseteq sealed
    BY <1>4 DEF Works, DiskContinue, Format, Close, Erase, diskVars
  <2>3. call[w].pc \notin {"addImage", "addBacked", "addOverlay", "append"}
    BY <1>4, <2>1 DEF Continue, QemuImgCreate, AfterQemuImg, Store, Export, Unexport, RemoveSocketDir, DelNode,
                      RemoveFile, Release, RemoveDir, Reply
  <2>4. call'[w].pc \in {"append", "store"} => call[w].pc \in {"append", "store"} /\ call'[w].id = call[w].id
    BY <1>0, <2>1, <2>3, NewNodeComes
  <2>5. ASSUME NEW e \in DOMAIN exports'
        PROVE  exports'[e] \notin sealed
    <3>1. CASE Export(w)
      <4>1. \/ UNCHANGED exports
            \/ exports' = Put(exports, QSDID[call[w].id], QSDID[call[w].id])
        BY <3>1 DEF Export, graphVars, BlockExportAdd
      <4>2. call[w].pc = "export" /\ call[w].id \in Volumes
        BY <1>0, <3>1 DEF Export, TypeInv, CallTypeInv, CallOK
      <4>3. QSDID[call[w].id] \notin sealed
        BY <4>2 DEF SealInv, Pending
      <4>. QED  BY <4>1, <4>3 DEF Put, SealInv, SealedNotExported
    <3>2. CASE ~Export(w)
      <4>1. e \in DOMAIN exports /\ exports'[e] = exports[e]
        BY <1>4, <2>1, <3>2 DEF Continue, QemuImgCreate, Store, Unexport, RemoveSocketDir, DelNode,
           RemoveFile, Release, RemoveDir, Reply, graphVars, BlockExportDel, Drop, BlockdevDel
      <4>. QED  BY <4>1 DEF SealInv, SealedNotExported
    <3>. QED  BY <3>1, <3>2
  <2>. QED  BY <1>0, <2>2, <2>4, <2>5, SealKept
<1>5. ASSUME NEW w \in Workers, Works(w), AddNode(w) \/ Append(w)
      PROVE  SealInv'
  <2>1. (AddNode(w) /\ Open(w)) \/ (Append(w) /\ Seal(w))
    BY <1>5 DEF Works, DiskContinue, QemuImgCreate, AfterQemuImg, AddNode, AfterAdd, Append, Store, Export, Unexport,
                RemoveSocketDir, DelNode, RemoveFile, Release, RemoveDir, Reply
  <2>. QED  BY <2>1, SealAddNode, SealAppend
<1>6. (Quiet => UNCHANGED <<call, exports, sealed>>) /\ \A v : GuestWrite(v) => UNCHANGED <<call, exports, sealed>>
  BY DEF Quiet, GuestWrite, vars, diskVars, graphVars
<1>. QED  BY <1>0, <1>2, <1>3, <1>4, <1>5, <1>6, ClientSteps

LEMMA UserInductive ==
  ASSUME ~Disciplined, DistinctQSDIDs, OneUser
  PROVE  ClientSpec => [](CmdInv /\ SealInv)
<1>0. OneCall
  BY ConstantsAssumption DEF OneCall
<1>1. ClientInit => CmdInv /\ SealInv
  BY DEF ClientInit, DiskInit, Init, GraphInit, Empty, CmdInv, NoCommand, NoCall, Waiting, Ready, SealInv,
         SealedNotExported
<1>2. ServerInv /\ CmdType /\ CmdInv /\ [ClientNext]_allVars => CmdInv'
  BY <1>0, CmdStep DEF ServerInv, OwnInv
<1>3. ServerInv /\ CmdType /\ DiskInv /\ CmdInv /\ CmdInv' /\ SealInv /\ [ClientNext]_allVars => SealInv'
  BY <1>0, SealStep
<1>4. ClientSpec => [](ServerInv /\ CmdType /\ DiskInv)
  BY DiskInductive
<1>. QED  BY <1>1, <1>2, <1>3, <1>4, PTL DEF ClientSpec

(* One user and one call at a time: once a snapshot was put on top of a    *)
(* layer no guest writes to it any more, whatever fails, wherever the user *)
(* breaks off and whenever the server restarts.                            *)
THEOREM SealedNeverExported ==
  ASSUME ~Disciplined, DistinctQSDIDs, OneUser
  PROVE  ClientSpec => []SealedNotExported
<1>1. SealInv => SealedNotExported
  BY DEF SealInv
<1>2. ClientSpec => [](CmdInv /\ SealInv)
  BY UserInductive
<1>. QED  BY <1>1, <1>2, PTL

-----------------------------------------------------------------------------
(* No command fails but for a reason: the daemon's graph is the one the    *)
(* server has recorded.                                                    *)

LEMMA MirrorStep ==
  ASSUME ~Disciplined, ~Failures, DistinctQSDIDs, ServerInv, CmdType, MirrorInv, [ClientNext]_allVars
  PROVE  MirrorInv'
<1>0. OneCall /\ OwnInv /\ TypeInv /\ TypeOK
  BY ConstantsAssumption DEF OneCall, ServerInv, OwnInv, TypeInv
<1>1. CASE DiskRestart
  BY <1>1 DEF DiskRestart, Restart, GraphReset, Empty, MirrorInv, OnItsWay, NoCall
<1>2. ASSUME NEW w \in Workers, Started(w)
      PROVE  MirrorInv'
  BY <1>0, <1>2, StartedStarts, MirrorStarts
<1>3. ASSUME NEW w \in Workers, Continue(w)
      PROVE  MirrorInv'
  BY <1>0, <1>3, MirrorAddNode, MirrorAppend, MirrorStore, MirrorDelNode, MirrorRemoveFile, MirrorRelease,
     MirrorOther DEF Continue, ServerInv
<1>4. CASE UNCHANGED <<nodes, images, files, call>>
  BY <1>4 DEF MirrorInv, Gone, Fresh, Linked, HasFile, OnItsWay
<1>5. (Quiet => UNCHANGED <<nodes, images, files, call>>)
      /\ \A v : GuestWrite(v) => UNCHANGED <<nodes, images, files, call>>
  BY DEF Quiet, GuestWrite, vars, graphVars, memVars, fsVars
<1>. QED  BY <1>0, <1>1, <1>2, <1>3, <1>4, <1>5, ClientSteps, WorksContinue

LEMMA MirrorClient ==
  ASSUME ~Disciplined, ~Failures, DistinctQSDIDs
  PROVE  ClientSpec => []MirrorInv
<1>1. ClientInit => MirrorInv
  BY DEF ClientInit, DiskInit, Init, GraphInit, Empty, MirrorInv, OnItsWay, NoCall
<1>2. ServerInv /\ CmdType /\ MirrorInv /\ [ClientNext]_allVars => MirrorInv'
  BY MirrorStep
<1>. QED  BY <1>1, <1>2, ServerInductive, PTL DEF ClientSpec

(* Who creates a first image, and who puts one on top.                     *)
CreatesInv ==
  \A w \in Workers :
    /\ call[w].pc \in {"createImage", "addImage"} => call[w].op = "CreateVolume"
    /\ call[w].pc \in {"createOverlay", "addOverlay", "append"} => call[w].op = "CreateSnapshot"

LEMMA CreatesClient ==
  ASSUME ~Disciplined, DistinctQSDIDs
  PROVE  ClientSpec => []CreatesInv
<1>1. ClientInit => CreatesInv
  BY DEF ClientInit, DiskInit, Init, CreatesInv, NoCall
<1>2. ASSUME ServerInv, CmdType, CreatesInv, [ClientNext]_allVars
      PROVE  CreatesInv'
  <2>0. TypeInv /\ TypeOK
    BY <1>2 DEF ServerInv, OwnInv, TypeInv
  <2>1. CASE DiskRestart
    BY <2>1 DEF DiskRestart, Restart, CreatesInv, NoCall
  <2>2. ASSUME NEW w \in Workers, Starts(w)
        PROVE  CreatesInv'
    <3>1. \A x \in Workers \ {w} : call'[x] = call[x]
      BY <2>0, <2>2, StartKeeps
    <3>2. /\ call'[w].pc \notin {"addImage", "addOverlay", "append"}
          /\ call'[w].pc = "createImage" => call'[w].op = "CreateVolume"
          /\ call'[w].pc = "createOverlay" => call'[w].op = "CreateSnapshot"
      BY <2>0, <2>2, StartCreateVolume, StartCreateSnapshot, StartExpose, StartUnexpose, StartDeleteVolume,
         StartDeleteSnapshot DEF Starts, TurnsTo, Names
    <3>. QED  BY <1>2, <3>1, <3>2 DEF CreatesInv
  <2>3. ASSUME NEW w \in Workers, Continue(w)
        PROVE  CreatesInv'
    <3>1. Reply(w) => call'[w] = NoCall
      BY <2>0 DEF Reply, Become, TypeOK
    <3>. QED  BY <1>2, <2>0, <2>3, <3>1, ContinueMoves DEF Moves, Follows, SameNames, CreatesInv, NoCall
  <2>4. UNCHANGED call => CreatesInv'
    BY <1>2 DEF CreatesInv
  <2>5. (Quiet => UNCHANGED call) /\ \A v : GuestWrite(v) => UNCHANGED call
    BY DEF Quiet, GuestWrite, vars
  <2>. QED  BY <1>2, <2>0, <2>1, <2>2, <2>3, <2>4, <2>5, ClientSteps, StartedStarts, WorksContinue
<1>. QED  BY <1>1, <1>2, ServerInductive, PTL DEF ClientSpec

(* No export serves the node of a new volume before it is recorded.        *)
LEMMA FreshUnexported ==
  ASSUME OneCall, DistinctQSDIDs, TypeInv, GraphInv, MirrorInv, NEW w \in Workers, call[w].pc \in {"append", "store"},
         call[w].pc = "store" => call[w].layer = None, NEW e \in DOMAIN exports
  PROVE  exports[e] # QSDID[call[w].id]
<1>. DEFINE o == QSDID[call[w].id]
<1>. SUFFICES ASSUME exports[e] = o
              PROVE  FALSE
  OBVIOUS
<1>1. CallOK(call[w]) /\ MemTypeOK /\ GraphTypeOK
  BY DEF TypeInv, TypeOK, CallTypeInv
<1>2. call[w].id \in ImageID /\ call[w].id \notin DOMAIN images /\ nodes[o] = None /\ o \in DOMAIN nodes
  BY <1>1, NewNames DEF MirrorInv, OnItsWay, NodeOf, GraphInv, Placed
<1>3. Above(nodes, o, e) /\ {o} \in SUBSET NodeName /\ Closed(nodes, {o})
  BY <1>1, <1>2 DEF GraphInv, ExportPlaced, Closed, GraphTypeOK
<1>4. e = o
  BY <1>3 DEF Above
<1>5. PICK v \in Volumes \cap DOMAIN images : QSDID[v] = e
  BY DEF GraphInv, ExportPlaced
<1>. QED  BY <1>1, <1>2, <1>4, <1>5 DEF DistinctQSDIDs, ImageID

-----------------------------------------------------------------------------
(* A new volume is blank.  What a volume's own file holds was written      *)
(* while its node was there, and os.Remove comes right after blockdev-del: *)
(* a file of this run that is not empty has its node, or is about to go.   *)

Dirty(v) == DiskFile(v) \in files \ survivors /\ disk[DiskFile(v)] # Hole
Erased(v) == \E w \in Workers : call[w].pc = "remove" /\ call[w].layer = v
BlankInv ==
  /\ NewVolumeBlank
  /\ \A v \in Volumes : Dirty(v) => QSDID[v] \in DOMAIN nodes \/ Erased(v)

(* A step that leaves the files, or empties one, and the nodes.            *)
LEMMA BlankKept ==
  ASSUME BlankInv, DOMAIN nodes \subseteq DOMAIN nodes', survivors' = survivors,
         \A f \in files' : (f \in files /\ disk'[f] = disk[f]) \/ disk'[f] = Hole,
         \A w \in Workers : /\ call[w].pc # "remove"
                            /\ call'[w].pc = "store" /\ call'[w].layer = None =>
                                 call'[w] = call[w] /\ disk'[FileOf(call[w])] = disk[FileOf(call[w])]
  PROVE  BlankInv'
<1>1. NewVolumeBlank'
  BY DEF BlankInv, NewVolumeBlank, FileOf
<1>2. ASSUME NEW v \in Volumes, Dirty(v)'
      PROVE  QSDID[v] \in DOMAIN nodes'
  BY <1>2 DEF BlankInv, Dirty, Erased
<1>. QED  BY <1>1, <1>2 DEF BlankInv

LEMMA BlankAddNode ==
  ASSUME OneCall, ServerInv, DiskInv, CreatesInv, BlankInv, NEW w \in Workers, AddNode(w), Open(w)
  PROVE  BlankInv'
<1>. DEFINE c == call[w]
            b == IF c.pc = "addBacked" THEN QSDID[c.layer] ELSE None
<1>0. TypeInv /\ Continue(w) /\ CallOK(c) /\ UNCHANGED files /\ \A x \in Workers : x = w
  BY DEF ServerInv, OwnInv, TypeInv, CallTypeInv, Continue, AddNode, fsVars, OneCall
<1>1. c.pc \in DOMAIN AfterAdd /\ UNCHANGED <<disk, survivors>>
  BY OpenEffect
<1>2. c.pc # "remove"
  BY <1>1 DEF AfterAdd
<1>3. CASE UNCHANGED graphVars /\ Fail(w)
  BY <1>0, <1>1, <1>2, <1>3, FailIs, BlankKept DEF graphVars
<1>4. CASE CanAddNode(c, b) /\ BlockdevAdd(QSDID[c.id], b) /\ Goto(w, AfterAdd[c.pc])
  <2>1. DOMAIN nodes \subseteq DOMAIN nodes' /\ QSDID[c.id] \notin DOMAIN nodes /\ FileOf(c) \in files
    BY <1>4 DEF BlockdevAdd, Put, CanAddNode, CanBlockdevAdd
  <2>2. call'[w].pc = AfterAdd[c.pc] /\ call'[w].layer = c.layer /\ FileOf(call'[w]) = FileOf(c)
    BY <1>0, <1>4, GotoFields DEF FileOf
  <2>3. ASSUME call'[w].pc = "store", c.layer = None
        PROVE  disk[FileOf(c)] = Hole \/ FileOf(c) \in survivors
    <3>1. c.pc = "addImage"
      BY <1>0, <1>1, <2>2, <2>3, ConstantsAssumption DEF AfterAdd, CallOK, LayerPC
    <3>2. c.op = "CreateVolume" /\ c.id \in Volumes
      BY <1>0, <3>1 DEF CreatesInv, CallOK
    <3>. QED  BY <1>0, <1>2, <2>1, <3>2 DEF FileOf, BlankInv, Dirty, Erased
  <2>4. NewVolumeBlank'
    BY <1>0, <1>1, <2>2, <2>3 DEF NewVolumeBlank, FileOf
  <2>5. \A v \in Volumes : Dirty(v)' => QSDID[v] \in DOMAIN nodes'
    BY <1>0, <1>1, <1>2, <2>1 DEF BlankInv, Dirty, Erased
  <2>. QED  BY <2>4, <2>5 DEF BlankInv
<1>. QED  BY <1>3, <1>4, OpenEffect

LEMMA BlankDelNode ==
  ASSUME OneCall, DistinctQSDIDs, ServerInv, BlankInv, NEW w \in Workers, DelNode(w), Close(w)
  PROVE  BlankInv'
<1>0. TypeInv /\ Continue(w) /\ UNCHANGED <<files, disk, survivors>> /\ call[w].pc = "blockdevDel"
      /\ call[w].layer \in ImageID /\ \A x \in Workers : x = w
  BY DEF ServerInv, OwnInv, Continue, DelNode, fsVars, Close, TypeInv, CallTypeInv, CallOK, OneCall
<1>1. /\ call'[w].pc \in {"remove", "failed"}
      /\ DOMAIN nodes \ DOMAIN nodes' # {} => call'[w].pc = "remove" /\ call'[w].layer = call[w].layer
  <2>1. CASE UNCHANGED graphVars /\ Fail(w)
    BY <1>0, <2>1, FailIs DEF graphVars
  <2>2. CASE Goto(w, "remove")
    BY <1>0, <2>2, GotoFields
  <2>. QED  BY <2>1, <2>2 DEF DelNode
<1>2. ASSUME NEW v \in Volumes, Dirty(v)'
      PROVE  QSDID[v] \in DOMAIN nodes' \/ Erased(v)'
  <2>1. QSDID[v] \in DOMAIN nodes
    BY <1>0, <1>2 DEF BlankInv, Dirty, Erased
  <2>2. CASE QSDID[v] \notin DOMAIN nodes'
    <3>1. QSDID[v] = QSDID[call[w].layer]
      BY <1>0, <2>1, <2>2, NodeChange
    <3>2. v = call[w].layer
      BY <1>0, <3>1 DEF DistinctQSDIDs, ImageID
    <3>. QED  BY <1>1, <2>1, <2>2, <3>2 DEF Erased
  <2>. QED  BY <2>2
<1>. QED  BY <1>0, <1>1, <1>2 DEF BlankInv, NewVolumeBlank

LEMMA BlankRemoveFile ==
  ASSUME OneCall, ~Failures, ServerInv, BlankInv, NEW w \in Workers, RemoveFile(w), Erase(w)
  PROVE  BlankInv'
<1>. DEFINE c == call[w]
<1>0. TypeInv /\ Continue(w) /\ UNCHANGED nodes /\ c.pc = "remove" /\ \A x \in Workers : x = w
  BY DEF ServerInv, OwnInv, Continue, RemoveFile, graphVars, OneCall
<1>1. Belongs(c.ptr.File, c.layer)
  BY <1>0 DEF ServerInv, HandlerInv
<1>2. c.ptr.File \notin files' /\ files' \subseteq files
  BY RefusedOnly DEF RemoveFile, Granted
<1>3. call'[w].pc \in {"failed", "release"}
  BY <1>0, FailIs, GotoFields DEF RemoveFile
<1>4. ASSUME NEW v \in Volumes, Dirty(v)'
      PROVE  QSDID[v] \in DOMAIN nodes'
  <2>1. Dirty(v)
    BY <1>2, <1>4 DEF Dirty, Erase
  <2>2. c.layer # v
    BY <1>1, <1>2, <1>4 DEF Belongs, Dirty
  <2>. QED  BY <1>0, <2>1, <2>2 DEF BlankInv, Erased
<1>. QED  BY <1>0, <1>3, <1>4 DEF BlankInv, NewVolumeBlank

LEMMA BlankWorks ==
  ASSUME OneCall, ~Failures, DistinctQSDIDs, ServerInv, DiskInv, CreatesInv, BlankInv, NEW w \in Workers, Works(w)
  PROVE  BlankInv'
<1>. DEFINE c == call[w]
<1>0. TypeInv /\ Continue(w) /\ \A x \in Workers : x = w
  BY WorksContinue DEF ServerInv, OwnInv, OneCall
<1>1. CASE QemuImgCreate(w) /\ Format(w)
  <2>1. c.pc \in DOMAIN AfterQemuImg /\ UNCHANGED nodes
    BY <1>1 DEF QemuImgCreate, graphVars
  <2>2. call'[w].pc # "store" /\ c.pc # "remove"
    BY <1>0, <2>1, FailIs, GotoFields, <1>1 DEF AfterQemuImg, QemuImgCreate
  <2>3. /\ survivors' = survivors
        /\ \A f \in files' : (f \in files /\ disk'[f] = disk[f]) \/ disk'[f] = Hole
    <3>1. \/ files' = files /\ UNCHANGED <<disk, survivors>>
          \/ /\ files' = files \cup {FileOf(c)} /\ disk' = Put(disk, FileOf(c), Hole)
             /\ UNCHANGED survivors
      BY <1>0, <1>1, FormatEffect DEF diskVars
    <3>. QED  BY <3>1 DEF Put, DiskInv
  <2>. QED  BY <1>0, <2>1, <2>2, <2>3, BlankKept
<1>2. CASE Append(w) /\ Seal(w)
  <2>1. UNCHANGED <<disk, survivors, files>> /\ DOMAIN nodes \subseteq DOMAIN nodes'
    BY <1>2 DEF Seal, Append, fsVars, graphVars, BlockdevSnapshot
  <2>2. c.layer # None /\ c.pc = "append"
    BY <1>0, <1>2, ConstantsAssumption DEF Append, TypeInv, CallTypeInv, CallOK, LayerPC
  <2>3. call'[w].pc = "failed" \/ (call'[w].pc = "store" /\ call'[w].layer = c.layer)
    BY <1>0, <1>2, FailIs, GotoFields DEF Append
  <2>. QED  BY <1>0, <2>1, <2>2, <2>3, BlankKept
<1>3. CASE /\ \/ Store(w) \/ Export(w) \/ Unexport(w) \/ RemoveSocketDir(w)
              \/ Release(w) \/ RemoveDir(w) \/ Reply(w)
           /\ UNCHANGED diskVars
  <2>1. UNCHANGED <<files, nodes>> /\ c.pc \notin {"remove", "addImage", "addBacked", "addOverlay", "append"}
    BY <1>3 DEF Store, Export, Unexport, RemoveSocketDir, Release, RemoveDir, Reply, graphVars, fsVars,
                BlockExportAdd, BlockExportDel
  <2>2. call'[w].pc = "store" => call'[w] = c
    BY <1>0, <2>1, NewNodeComes
  <2>. QED  BY <1>0, <1>3, <2>1, <2>2, BlankKept DEF diskVars
<1>. QED
  BY <1>1, <1>2, <1>3, BlankAddNode, BlankDelNode, BlankRemoveFile DEF Works, DiskContinue

LEMMA BlankWrite ==
  ASSUME OneCall, DistinctQSDIDs, ServerInv, DiskInv, MirrorInv, BlankInv, NEW v \in Volumes, GuestWrite(v)
  PROVE  BlankInv'
<1>. DEFINE n == exports[QSDID[v]]
<1>0. /\ TypeInv /\ GraphInv /\ n \in DOMAIN nodes /\ QSDID[v] \in DOMAIN exports
      /\ UNCHANGED <<files, nodes, call, survivors>>
  BY DEF ServerInv, OwnInv, GraphInv, ExportPlaced, GuestWrite, vars, graphVars, fsVars
<1>1. PICK i \in ImageID : QSDID[i] = n /\ Belongs(opened[n], i)
  BY <1>0 DEF DiskInv, OpensOwn
<1>2. \A f \in files : f # opened[n] => disk'[f] = disk[f]
  BY DEF GuestWrite, DiskInv
<1>3. ASSUME NEW u \in Volumes, Dirty(u)'
      PROVE  QSDID[u] \in DOMAIN nodes' \/ Erased(u)'
  <2>1. CASE DiskFile(u) = opened[n]
    <3>1. u \in ImageID /\ Belongs(opened[n], u)
      BY <2>1 DEF ImageID, Belongs
    <3>. QED  BY <1>0, <1>1, <3>1, BelongsApart
  <2>2. CASE DiskFile(u) # opened[n]
    <3>1. Dirty(u)
      BY <1>0, <1>2, <1>3, <2>2 DEF Dirty
    <3>. QED  BY <1>0, <3>1 DEF BlankInv, Erased
  <2>. QED  BY <2>1, <2>2
<1>4. ASSUME NEW w \in Workers, call[w].pc = "store", call[w].layer = None
      PROVE  disk'[FileOf(call[w])] = Hole \/ FileOf(call[w]) \in survivors
  <2>1. Belongs(FileOf(call[w]), call[w].id) /\ call[w].id \in ImageID /\ FileOf(call[w]) \in files
    BY <1>0, <1>4, FileOfBelongs, NewNames DEF TypeInv, CallTypeInv, ServerInv, FilesInv, NewFileKept
  <2>2. n # QSDID[call[w].id]
    BY <1>0, <1>4, FreshUnexported
  <2>3. FileOf(call[w]) # opened[n]
    BY <1>1, <2>1, <2>2, BelongsApart
  <2>. QED  BY <1>2, <1>4, <2>1, <2>3 DEF BlankInv, NewVolumeBlank
<1>. QED  BY <1>0, <1>3, <1>4 DEF BlankInv, NewVolumeBlank, FileOf

LEMMA BlankStep ==
  ASSUME ~Disciplined, ~Failures, DistinctQSDIDs, ServerInv, CmdType, DiskInv, MirrorInv, CreatesInv, BlankInv,
         [ClientNext]_allVars
  PROVE  BlankInv'
<1>0. OneCall /\ TypeInv /\ TypeOK
  BY ConstantsAssumption DEF OneCall, ServerInv, OwnInv, TypeInv
<1>1. CASE DiskRestart
  BY <1>1 DEF DiskRestart, Restart, NoCall, fsVars, BlankInv, NewVolumeBlank, Dirty
<1>2. ASSUME NEW w \in Workers, Started(w)
      PROVE  BlankInv'
  <2>1. UNCHANGED <<nodes, files, disk, survivors>> /\ call[w].pc = "idle" /\ \A x \in Workers : x = w
    BY <1>0, <1>2, StartedStarts, StartKeeps DEF diskVars, Idle, OneCall
  <2>2. call'[w].pc # "store"
    BY <1>0, <1>2, StartedStarts, StartCreateVolume, StartCreateSnapshot, StartExpose, StartUnexpose,
       StartDeleteVolume, StartDeleteSnapshot DEF Starts, TurnsTo
  <2>. QED  BY <2>1, <2>2 DEF BlankInv, NewVolumeBlank, Dirty, Erased
<1>3. CASE UNCHANGED <<nodes, files, call, disk, survivors>>
  BY <1>3 DEF BlankInv, NewVolumeBlank, FileOf, Dirty, Erased
<1>4. Quiet => UNCHANGED <<nodes, files, call, disk, survivors>>
  BY DEF Quiet, graphVars, fsVars, diskVars
<1>. QED  BY <1>0, <1>1, <1>2, <1>3, <1>4, ClientSteps, BlankWorks, BlankWrite

(* One call at a time and no failing command: a volume made from no source *)
(* holds nothing of a volume that had its id before, however that one was  *)
(* deleted, unless its file is left over from before a restart.            *)
THEOREM NewVolumesBlank ==
  ASSUME ~Disciplined, ~Failures, DistinctQSDIDs
  PROVE  ClientSpec => []NewVolumeBlank
<1>1. ClientInit => BlankInv
  BY DEF ClientInit, DiskInit, Init, BlankInv, NewVolumeBlank, Dirty, NoCall
<1>2. ServerInv /\ CmdType /\ DiskInv /\ MirrorInv /\ CreatesInv /\ BlankInv /\ [ClientNext]_allVars
      => BlankInv'
  BY BlankStep
<1>3. BlankInv => NewVolumeBlank
  BY DEF BlankInv
<1>4. ClientSpec => [](ServerInv /\ CmdType /\ DiskInv)
  BY DiskInductive
<1>5. ClientSpec => []MirrorInv
  BY MirrorClient
<1>6. ClientSpec => []CreatesInv
  BY CreatesClient
<1>. QED  BY <1>1, <1>2, <1>3, <1>4, <1>5, <1>6, PTL DEF ClientSpec

-----------------------------------------------------------------------------
(* The tree that list --tree prints.  The equation of Shown has a solution,*)
(* what lies no deeper than d, and no other, because the depths count the  *)
(* layers below; and no image lies deeper than there are images.           *)

LEMMA LeastNat ==
  ASSUME NEW S, S \subseteq Nat, S # {}
  PROVE  \E m \in S : \A n \in S : m <= n
<1>1. PICK m \in S : \A n \in S : ~(<<n, m>> \in OpToRel(<, Nat))
  BY NatLessThanWellFounded, WFMin
<1>2. \A n \in S : ~(n < m)
  BY <1>1 DEF OpToRel
<1>. QED  BY <1>2

Within(d) == {i \in DOMAIN images : images[i].Depth <= d}

LEMMA ShownIs ==
  ASSUME MemTypeOK, BackingChain, NEW d \in Nat
  PROVE  Shown[d] = Within(d)
<1>. DEFINE Next0(f) == [n \in Nat |->
              IF n = 0 THEN {i \in DOMAIN images : images[i].Depth = 0}
              ELSE f[n - 1] \cup {i \in DOMAIN images :
                                   images[i].Depth = n /\ images[i].BackingImageID \in f[n - 1]}]
            F == [n \in Nat |-> Within(n)]
<1>0. \A i \in DOMAIN images : images[i].Depth \in Nat
  BY DEF MemTypeOK, QCOWImage
<1>1. ASSUME NEW n \in Nat
      PROVE  F[n] = Next0(F)[n]
  <2>1. CASE n = 0
    BY <1>0, <2>1 DEF Within
  <2>2. CASE n # 0
    <3>1. n - 1 \in Nat /\ F[n - 1] = Within(n - 1) /\ F[n] = Within(n)
      BY <2>2
    <3>2. ASSUME NEW i \in DOMAIN images, images[i].Depth = n
          PROVE  images[i].BackingImageID \in Within(n - 1)
      BY <1>0, <2>2, <3>2 DEF BackingChain, Within
    <3>3. Within(n) = Within(n - 1) \cup {i \in DOMAIN images :
                         images[i].Depth = n /\ images[i].BackingImageID \in Within(n - 1)}
      BY <1>0, <3>1, <3>2 DEF Within
    <3>. QED  BY <2>2, <3>1, <3>3
  <2>. QED  BY <2>1, <2>2
<1>2. F = Next0(F)
  <2>1. F = [n \in Nat |-> F[n]] /\ Next0(F) = [n \in Nat |-> Next0(F)[n]]
    OBVIOUS
  <2>. QED  BY <1>1, <2>1
<1>3. Shown = Next0(Shown)
  BY <1>2 DEF Shown
<1>. DEFINE Bad == {n \in Nat : Shown[n] # Within(n)}
<1>4. ASSUME Bad # {}
      PROVE  FALSE
  <2>1. PICK m \in Bad : \A n \in Bad : m <= n
    BY <1>4, LeastNat
  <2>2. CASE m = 0
    BY <1>0, <1>1, <1>3, <2>1, <2>2 DEF Within
  <2>3. CASE m # 0
    <3>1. m - 1 \in Nat /\ Shown[m - 1] = F[m - 1]
      BY <2>1, <2>3
    <3>2. Shown[m] = Next0(F)[m]
      BY <1>3, <2>1, <2>3, <3>1
    <3>. QED  BY <1>1, <2>1, <3>2
  <2>. QED  BY <2>2, <2>3
<1>. QED  BY <1>4

LEMMA NoDeeperThanMany ==
  ASSUME MemTypeOK, BackingChain, NEW i \in DOMAIN images
  PROVE  images[i].Depth <= Cardinality(DOMAIN images) /\ Cardinality(DOMAIN images) \in Nat
<1>. DEFINE depth == [j \in DOMAIN images |-> images[j].Depth]
            D == {images[j].Depth : j \in DOMAIN images}
            m == images[i].Depth
<1>0. /\ \A j \in DOMAIN images : images[j].Depth \in Nat
      /\ IsFiniteSet(DOMAIN images)
  BY FiniteIDs, FS_Subset DEF MemTypeOK, QCOWImage
<1>1. ASSUME NEW k \in 0..m, k \notin D
      PROVE  FALSE
  <2>. DEFINE E == {d \in D : d >= k}
  <2>1. E \subseteq Nat /\ m \in E
    BY <1>0
  <2>2. PICK d \in E : \A e \in E : d <= e
    BY <2>1, LeastNat
  <2>3. PICK j \in DOMAIN images : images[j].Depth = d
    BY <2>2
  <2>4. d > k /\ d \in Nat /\ k \in Nat
    BY <1>0, <1>1, <2>2
  <2>5. images[j].BackingImageID \in DOMAIN images /\ images[images[j].BackingImageID].Depth = d - 1
    BY <1>0, <2>3, <2>4 DEF BackingChain
  <2>6. d - 1 \in E
    BY <2>4, <2>5
  <2>. QED  BY <2>2, <2>4, <2>6
<1>2. depth \in Surjection(DOMAIN images, D)
  BY DEF Surjection
<1>3. IsFiniteSet(D) /\ Cardinality(D) <= Cardinality(DOMAIN images)
  BY <1>0, <1>2, FS_Surjection
<1>4. Cardinality(0..m) = m + 1 /\ Cardinality(0..m) <= Cardinality(D)
  <2>1. 0..m \in SUBSET D
    BY <1>1
  <2>2. \A k \in Nat : Cardinality(0..k) = k + 1
    BY FS_Interval
  <2>. QED  BY <1>0, <1>3, <2>1, <2>2, FS_Subset
<1>. QED  BY <1>0, <1>3, <1>4, FS_CardinalityType

(* One call at a time: list --tree shows every image the server has, also  *)
(* the layers kept only for others, and whatever was deleted or failed.    *)
THEOREM TreeShowsEverything ==
  ASSUME ~Disciplined, DistinctQSDIDs
  PROVE  ClientSpec => []TreeShowsAll
<1>1. ASSUME ServerInv
      PROVE  TreeShowsAll
  <2>1. MemTypeOK /\ BackingChain
    BY <1>1 DEF ServerInv, SafeInv, MapInv, TypeInv, TypeOK
  <2>2. CASE DOMAIN images = {}
    <3>1. Cardinality(DOMAIN images) = 0
      BY <2>2, FS_EmptySet
    <3>. QED  BY <2>1, <2>2, <3>1, ShownIs DEF TreeShowsAll, PrintTree, ListVolumes, Within
  <2>3. CASE DOMAIN images # {}
    BY <2>1, <2>3, ShownIs, NoDeeperThanMany DEF TreeShowsAll, PrintTree, ListVolumes, Within
  <2>. QED  BY <2>2, <2>3
<1>2. ServerInv => TreeShowsAll
  BY <1>1
<1>3. ClientSpec => [](ServerInv /\ CmdType /\ DiskInv)
  BY DiskInductive
<1>. QED  BY <1>2, <1>3, PTL

-----------------------------------------------------------------------------
(* What is read through a node.  The daemon's backing links never form a   *)
(* cycle, whatever fails and however many handlers there are.              *)

NodesAcyclic == \A S \in SUBSET DOMAIN nodes : S # {} => \E n \in S : nodes[n] \notin S

LEMMA AddAcyclic ==
  ASSUME NodesAcyclic, Whole(nodes), NEW k, k # None, NEW b, CanBlockdevAdd(k, b), BlockdevAdd(k, b)
  PROVE  NodesAcyclic'
<1>. SUFFICES ASSUME NEW S \in SUBSET DOMAIN nodes', S # {}
              PROVE  \E n \in S : nodes'[n] \notin S
  BY DEF NodesAcyclic
<1>1. /\ DOMAIN nodes' = DOMAIN nodes \cup {k} /\ k \notin DOMAIN nodes /\ nodes'[k] = b /\ b # k
      /\ \A n \in DOMAIN nodes : nodes'[n] = nodes[n] /\ nodes[n] # k
  BY DEF CanBlockdevAdd, BlockdevAdd, Put, Whole, Closed
<1>2. CASE S = {k}
  BY <1>1, <1>2
<1>3. CASE S # {k}
  <2>1. S \ {k} \in SUBSET DOMAIN nodes /\ S \ {k} # {}
    BY <1>1, <1>3
  <2>2. PICK n \in S \ {k} : nodes[n] \notin S \ {k}
    BY <2>1 DEF NodesAcyclic
  <2>. QED  BY <1>1, <2>1, <2>2
<1>. QED  BY <1>2, <1>3

LEMMA SnapshotAcyclic ==
  ASSUME NodesAcyclic, NEW k, NEW o, CanBlockdevSnapshot(k, o), BlockdevSnapshot(k, o)
  PROVE  NodesAcyclic'
<1>. SUFFICES ASSUME NEW S \in SUBSET DOMAIN nodes', S # {}
              PROVE  \E n \in S : nodes'[n] \notin S
  BY DEF NodesAcyclic
<1>1. /\ DOMAIN nodes' = DOMAIN nodes /\ k # o /\ o \in DOMAIN nodes /\ nodes'[o] = k
      /\ \A n \in DOMAIN nodes : nodes[n] # o /\ (n # o => nodes'[n] = IF nodes[n] = k THEN o ELSE nodes[n])
  BY DEF CanBlockdevSnapshot, InUse, BlockdevSnapshot
<1>2. CASE o \in S /\ k \notin S
  BY <1>1, <1>2
<1>3. CASE o \notin S
  <2>1. PICK n \in S : nodes[n] \notin S
    BY <1>1 DEF NodesAcyclic
  <2>. QED  BY <1>1, <1>3, <2>1
<1>4. CASE o \in S /\ k \in S
  <2>1. S \ {o} \in SUBSET DOMAIN nodes /\ S \ {o} # {}
    BY <1>1, <1>4
  <2>2. PICK n \in S \ {o} : nodes[n] \notin S \ {o}
    BY <2>1 DEF NodesAcyclic
  <2>. QED  BY <1>1, <1>4, <2>1, <2>2
<1>. QED  BY <1>2, <1>3, <1>4

LEMMA AcyclicContinue ==
  ASSUME NodesAcyclic, TypeInv, Whole(nodes), NEW w \in Workers, Continue(w)
  PROVE  NodesAcyclic'
<1>1. CASE UNCHANGED nodes
  BY <1>1 DEF NodesAcyclic
<1>2. ASSUME AddNode(w), nodes' # nodes
      PROVE  NodesAcyclic'
  <2>1. QSDID[call[w].id] # None
    BY <1>2, NewNames, ConstantsAssumption DEF AddNode, AfterAdd, TypeInv, CallTypeInv
  <2>. QED  BY <1>2, <2>1, AddAcyclic DEF AddNode, Granted, CanAddNode, graphVars
<1>3. ASSUME Append(w), nodes' # nodes
      PROVE  NodesAcyclic'
  BY <1>3, SnapshotAcyclic DEF Append, Granted, graphVars
<1>4. ASSUME DelNode(w), nodes' # nodes
      PROVE  NodesAcyclic'
  BY <1>4 DEF DelNode, graphVars, BlockdevDel, Drop, NodesAcyclic
<1>. QED
  BY <1>1, <1>2, <1>3, <1>4
  DEF Continue, QemuImgCreate, Store, Export, Unexport, RemoveSocketDir, RemoveFile, Release,
      RemoveDir, Reply, graphVars, BlockExportAdd, BlockExportDel

LEMMA AcyclicClient ==
  ASSUME ~Disciplined, DistinctQSDIDs
  PROVE  ClientSpec => []NodesAcyclic
<1>1. ClientInit => NodesAcyclic
  BY DEF ClientInit, DiskInit, Init, GraphInit, Empty, NodesAcyclic
<1>2. ASSUME ServerInv, CmdType, NodesAcyclic, [ClientNext]_allVars
      PROVE  NodesAcyclic'
  <2>0. TypeInv /\ TypeOK /\ Whole(nodes)
    BY <1>2 DEF ServerInv, OwnInv, TypeInv, GraphInv
  <2>1. CASE DiskRestart
    BY <2>1 DEF DiskRestart, Restart, GraphReset, Empty, NodesAcyclic
  <2>2. ASSUME NEW w \in Workers, Started(w)
        PROVE  UNCHANGED nodes
    BY <2>0, <2>2, StartedStarts, StartKeeps
  <2>3. ASSUME NEW w \in Workers, Works(w)
        PROVE  NodesAcyclic'
    BY <1>2, <2>0, <2>3, WorksContinue, AcyclicContinue
  <2>4. (Quiet => UNCHANGED nodes) /\ \A v : GuestWrite(v) => UNCHANGED nodes
    BY DEF Quiet, GuestWrite, vars, graphVars
  <2>5. UNCHANGED nodes => NodesAcyclic'
    BY <1>2 DEF NodesAcyclic
  <2>. QED  BY <1>2, <2>0, <2>1, <2>2, <2>3, <2>4, <2>5, ClientSteps
<1>. QED  BY <1>1, <1>2, ServerInductive, PTL DEF ClientSpec

(* Contents obeys its equation: n reads x when it lies in every set that   *)
(* has the nodes whose own block is x and those that look through to them. *)
Ends(n) == disk[opened[n]] # Hole \/ nodes[n] = None
Reaches(S, x) ==
  \A n \in DOMAIN nodes : IF Ends(n) THEN disk[opened[n]] = x => n \in S
                                     ELSE nodes[n] \in S => n \in S
Reading(x) == {n \in DOMAIN nodes : \A S \in SUBSET DOMAIN nodes : Reaches(S, x) => n \in S}

LEMMA ReadingIs ==
  ASSUME NEW n \in DOMAIN nodes, NEW x
  PROVE  IF Ends(n) THEN n \in Reading(x) <=> disk[opened[n]] = x
                    ELSE nodes[n] \in DOMAIN nodes => (n \in Reading(x) <=> nodes[n] \in Reading(x))
<1>1. Reaches(Reading(x), x)
  BY DEF Reaches, Reading
<1>2. CASE Ends(n)
  <2>1. ASSUME disk[opened[n]] # x
        PROVE  Reaches(DOMAIN nodes \ {n}, x)
    BY <1>2, <2>1 DEF Reaches
  <2>. QED  BY <1>1, <1>2, <2>1 DEF Reaches, Reading
<1>3. CASE ~Ends(n)
  <2>1. ASSUME nodes[n] \in DOMAIN nodes, nodes[n] \notin Reading(x)
        PROVE  Reaches(Reading(x) \ {n}, x)
    BY <1>1, <1>3, <2>1 DEF Reaches
  <2>2. Reading(x) \ {n} \in SUBSET DOMAIN nodes
    BY DEF Reading
  <2>3. nodes[n] \in DOMAIN nodes /\ n \in Reading(x) => nodes[n] \in Reading(x)
    BY <2>1, <2>2 DEF Reading
  <2>. QED  BY <1>1, <1>3, <2>3 DEF Reaches
<1>. QED  BY <1>2, <1>3

ReadsDown ==
  \A n \in DOMAIN nodes : Contents[n] = IF Ends(n) THEN disk[opened[n]] ELSE Contents[nodes[n]]

LEMMA ContentsReadsDown == Whole(nodes) /\ DiskInv => ReadsDown
<1>. SUFFICES ASSUME Whole(nodes), DiskInv
              PROVE  ReadsDown
  OBVIOUS
<1>. DEFINE Reads(n) == {x \in Value \cup {Hole} : n \in Reading(x)}
            F == [n \in DOMAIN nodes |-> CHOOSE x : x \in Reads(n)]
            Step0(f) == [n \in DOMAIN nodes |->
               IF disk[opened[n]] # Hole \/ nodes[n] = None THEN disk[opened[n]] ELSE f[nodes[n]]]
<1>1. ASSUME NEW n \in DOMAIN nodes
      PROVE  F[n] = Step0(F)[n]
  <2>1. CASE Ends(n)
    <3>1. disk[opened[n]] \in Value \cup {Hole}
      BY DEF DiskInv
    <3>2. Reads(n) = {disk[opened[n]]}
      BY <2>1, <3>1, ReadingIs
    <3>3. (CHOOSE x : x \in Reads(n)) = disk[opened[n]]
      BY <3>2
    <3>. QED  BY <2>1, <3>3 DEF Ends
  <2>2. CASE ~Ends(n)
    <3>1. nodes[n] \in DOMAIN nodes
      BY <2>2 DEF Whole, Closed, Ends
    <3>2. Reads(n) = Reads(nodes[n])
      BY <2>2, <3>1, ReadingIs
    <3>. QED  BY <2>2, <3>1, <3>2 DEF Ends
  <2>. QED  BY <2>1, <2>2
<1>2. F = Step0(F)
  <2>1. F = [n \in DOMAIN nodes |-> F[n]] /\ Step0(F) = [n \in DOMAIN nodes |-> Step0(F)[n]]
    OBVIOUS
  <2>. QED  BY <1>1, <2>1
<1>3. Contents = Step0(Contents)
  BY <1>2 DEF Contents
<1>4. \A n \in DOMAIN nodes : Contents[n] = Step0(Contents)[n]
  BY <1>3
<1>. HIDE DEF Step0
<1>. QED  BY <1>4 DEF ReadsDown, Ends, Step0

(* A node's file was overwritten, and the node reads nothing else: every   *)
(* node that came down to it reads nothing now.                            *)
SameBlock(n)  == disk'[opened'[n]] = disk[opened[n]]
Wiped(n)      == /\ nodes[n] = None /\ disk'[opened'[n]] = Hole
                 /\ opened[n] \in overwritten' \ overwritten
NodeEmptied(n) == /\ Contents'[n] = Hole
                  /\ \E f \in overwritten' \ overwritten : Contents[n] = disk[f]

(* Among nodes that are there before and after, that stand on each other   *)
(* as before and whose files hold what they held, nothing reads otherwise, *)
(* but for the files that are overwritten.                                 *)
LEMMA ContentsKept ==
  ASSUME NodesAcyclic, ReadsDown, ReadsDown', NEW C, C \subseteq DOMAIN nodes, C \subseteq DOMAIN nodes',
         \A n \in C : /\ SameBlock(n) \/ Wiped(n)
                      /\ nodes'[n] = nodes[n] /\ (nodes[n] = None \/ nodes[n] \in C),
         NEW n \in C
  PROVE  Contents'[n] = Contents[n] \/ NodeEmptied(n)
<1>. DEFINE Bad == {m \in C : Contents'[m] # Contents[m] /\ ~NodeEmptied(m)}
<1>1. ASSUME Bad # {}
      PROVE  FALSE
  <2>1. Bad \in SUBSET DOMAIN nodes
    OBVIOUS
  <2>2. PICK m \in Bad : nodes[m] \notin Bad
    BY <1>1, <2>1 DEF NodesAcyclic
  <2>3. m \in DOMAIN nodes /\ m \in DOMAIN nodes' /\ nodes'[m] = nodes[m]
    BY <2>2
  <2>4. CASE Wiped(m)
    <3>1. Ends(m) /\ Ends(m)'
      BY <2>3, <2>4 DEF Wiped, Ends
    <3>2. Contents[m] = disk[opened[m]] /\ Contents'[m] = Hole
      BY <2>3, <2>4, <3>1 DEF Wiped, ReadsDown
    <3>. QED  BY <2>2, <2>4, <3>2 DEF Wiped, NodeEmptied
  <2>5. CASE SameBlock(m) /\ Ends(m)
    <3>1. Ends(m)'
      BY <2>3, <2>5 DEF SameBlock, Ends
    <3>2. Contents[m] = disk[opened[m]] /\ Contents'[m] = disk'[opened'[m]]
      BY <2>3, <2>5, <3>1 DEF ReadsDown
    <3>. QED  BY <2>2, <2>5, <3>2 DEF SameBlock
  <2>6. CASE SameBlock(m) /\ ~Ends(m)
    <3>1. ~Ends(m)'
      BY <2>3, <2>6 DEF SameBlock, Ends
    <3>2. Contents[m] = Contents[nodes[m]] /\ Contents'[m] = Contents'[nodes[m]]
      BY <2>3, <2>6, <3>1 DEF ReadsDown
    <3>3. nodes[m] \in C
      BY <2>2, <2>6 DEF Ends
    <3>4. Contents'[nodes[m]] = Contents[nodes[m]] \/ NodeEmptied(nodes[m])
      BY <2>2, <3>3
    <3>. QED  BY <2>2, <3>2, <3>4 DEF NodeEmptied
  <2>. QED  BY <2>2, <2>4, <2>5, <2>6
<1>. QED  BY <1>1

-----------------------------------------------------------------------------
(* Only guests write, and CreateVolume from a source over what is there.   *)
(* The nodes of the images that the server has recorded stand on each      *)
(* other, and no other handler writes to a file that one has open:         *)
(* qemu-img empties no file that is locked, a snapshot's is, and           *)
(* blockdev-snapshot puts its overlay under none of those nodes.           *)

Recorded == {QSDID[i] : i \in DOMAIN images}

LEMMA RecordedClosed ==
  ASSUME ServerInv, MirrorInv, NEW n \in Recorded \cap DOMAIN nodes
  PROVE  nodes[n] = None \/ nodes[n] \in Recorded \cap DOMAIN nodes
<1>1. PICK i \in DOMAIN images : QSDID[i] = n
  BY DEF Recorded
<1>2. Linked(i)
  BY <1>1 DEF MirrorInv, Gone, ServerInv, GraphInv, Placed
<1>3. images[i].BackingImageID = None \/ images[i].BackingImageID \in DOMAIN images
  BY DEF ServerInv, SafeInv, MapInv, BackingChain
<1>4. nodes[n] = None \/ nodes[n] \in DOMAIN nodes
  BY DEF ServerInv, GraphInv, Whole, Closed
<1>. QED  BY <1>1, <1>2, <1>3, <1>4 DEF Linked, NodeOf, Recorded

(* What a step of a handler leaves as it is for a recorded node.           *)
Same(n) == n \in DOMAIN nodes' => SameBlock(n) /\ nodes'[n] = nodes[n]
SameOrWiped(n) == Same(n) \/ (Wiped(n) /\ nodes'[n] = nodes[n])

LEMMA AppendBeside ==
  ASSUME OneCall, DistinctQSDIDs, SafeInv, GraphInv, MirrorInv, NEW w \in Workers, Append(w),
         NEW n \in Recorded \cap DOMAIN nodes
  PROVE  nodes'[n] = nodes[n]
<1>. DEFINE c == call[w]
<1>0. TypeInv /\ MemTypeOK /\ c.pc = "append"
  BY DEF SafeInv, TypeInv, TypeOK, Append
<1>1. Overlays(c.layer) = {} /\ c.layer \in DOMAIN images /\ c.id \in ImageID \ DOMAIN images
  BY <1>0, CanAppend
<1>2. PICK i \in DOMAIN images : QSDID[i] = n
  BY DEF Recorded
<1>3. i \in ImageID /\ n # QSDID[c.id] /\ Linked(i)
  BY <1>0, <1>1, <1>2, OnlyOne DEF MemTypeOK, DistinctQSDIDs, MirrorInv
<1>4. nodes[n] # QSDID[c.layer]
  <2>1. images[i].BackingImageID \in ImageID \cup {None} /\ images[i].BackingImageID # c.layer
    BY <1>0, <1>1 DEF Overlays, MemTypeOK, QCOWImage
  <2>2. c.layer \in ImageID
    BY <1>0, <1>1 DEF MemTypeOK
  <2>. QED  BY <1>2, <1>3, <2>1, <2>2, ConstantsAssumption DEF Linked, NodeOf, DistinctQSDIDs
<1>. QED  BY <1>3, <1>4 DEF Append, graphVars, BlockdevSnapshot

(* What qemu-img empties under an open node is a volume's own file, and    *)
(* the command comes from a CreateVolume with a source.                    *)
LEMMA EmptiesOpen ==
  ASSUME TypeInv, DiskInv, NEW w \in Workers, call[w].pc \in CreatePC, ~Keeps(call[w]),
         disk' = Put(disk, FileOf(call[w]), Hole), UNCHANGED <<nodes, opened>>,
         overwritten' = IF Recreates(call[w]) THEN overwritten \cup {FileOf(call[w])} ELSE overwritten,
         NEW n \in DOMAIN nodes
  PROVE  SameOrWiped(n)
<1>. DEFINE c == call[w]
            f == FileOf(c)
<1>1. CASE opened[n] # f
  BY <1>1 DEF DiskInv, Put, SameOrWiped, Same, SameBlock
<1>2. CASE opened[n] = f
  <2>1. f \in files /\ c.layer # None /\ Raw(n) /\ disk'[f] = Hole
    BY <1>2 DEF DiskInv, Keeps, Locked, Put
  <2>2. c.op = "CreateVolume"
    <3>1. c.id \in ImageID
      BY NewNames DEF TypeInv, CallTypeInv
    <3>2. QSDID[c.id] # None
      BY <3>1, ConstantsAssumption
    <3>. QED  BY <1>2, <2>1, <3>2 DEF Raw, FileOf, SnapFile
  <2>3. f \in overwritten'
    BY <2>1, <2>2 DEF Recreates
  <2>4. CASE f \in overwritten
    BY <1>2, <2>1, <2>4 DEF DiskInv, OverwrittenEmpty, SameOrWiped, Same, SameBlock
  <2>5. CASE f \notin overwritten
    BY <1>2, <2>1, <2>3, <2>5 DEF Raw, SameOrWiped, Wiped
  <2>. QED  BY <2>4, <2>5
<1>. QED  BY <1>1, <1>2

LEMMA WorksBeside ==
  ASSUME OneCall, DistinctQSDIDs, ServerInv, DiskInv, MirrorInv, NEW w \in Workers, Works(w),
         NEW n \in Recorded \cap DOMAIN nodes
  PROVE  SameOrWiped(n)
<1>. DEFINE c == call[w]
<1>0. TypeInv
  BY DEF ServerInv, OwnInv
<1>1. CASE QemuImgCreate(w) /\ Format(w)
  <2>1. UNCHANGED <<nodes, opened>>
    BY <1>0, <1>1, FormatEffect DEF QemuImgCreate, graphVars, diskVars
  <2>2. CASE UNCHANGED disk
    BY <2>1, <2>2 DEF SameOrWiped, Same, SameBlock
  <2>3. CASE ~Keeps(c) /\ disk' = Put(disk, FileOf(c), Hole)
             /\ overwritten' = IF Recreates(c) THEN overwritten \cup {FileOf(c)} ELSE overwritten
    BY <1>0, <1>1, <2>1, <2>3, EmptiesOpen DEF QemuImgCreate, AfterQemuImg
  <2>. QED  BY <1>0, <1>1, <2>2, <2>3, FormatEffect DEF diskVars
<1>2. CASE AddNode(w) /\ Open(w)
  <2>1. disk' = disk /\ \/ UNCHANGED <<nodes, opened>>
                        \/ \E k, b : /\ k \notin DOMAIN nodes /\ nodes' = Put(nodes, k, b)
                                     /\ \E f : opened' = Put(opened, k, f)
    BY <1>2, OpenEffect DEF graphVars, CanAddNode, CanBlockdevAdd, BlockdevAdd
  <2>. QED  BY <2>1 DEF SameOrWiped, Same, SameBlock, Put, DiskInv
<1>3. CASE Append(w) /\ Seal(w)
  BY <1>3, AppendBeside DEF Seal, SameOrWiped, Same, SameBlock, ServerInv
<1>4. CASE DelNode(w) /\ Close(w)
  BY <1>4 DEF DelNode, graphVars, BlockdevDel, Drop, Close, SameOrWiped, Same, SameBlock
<1>5. CASE RemoveFile(w) /\ Erase(w)
  <2>1. UNCHANGED <<nodes, opened>> /\ c.pc = "remove"
    BY <1>5 DEF RemoveFile, graphVars, Erase
  <2>2. opened[n] \in files'
    BY <1>5, <2>1, RemovesUnopened DEF RemoveFile, DiskInv
  <2>. QED  BY <1>5, <2>1, <2>2 DEF Erase, SameOrWiped, Same, SameBlock
<1>6. CASE /\ \/ Store(w) \/ Export(w) \/ Unexport(w) \/ RemoveSocketDir(w)
              \/ Release(w) \/ RemoveDir(w) \/ Reply(w)
           /\ UNCHANGED diskVars
  BY <1>6 DEF Store, Export, Unexport, RemoveSocketDir, Release, RemoveDir, Reply, graphVars,
              BlockExportAdd, BlockExportDel, diskVars, SameOrWiped, Same, SameBlock
<1>. QED  BY <1>1, <1>2, <1>3, <1>4, <1>5, <1>6 DEF Works, DiskContinue

LEMMA StepsBeside ==
  ASSUME ~Disciplined, DistinctQSDIDs, ServerInv, CmdType, DiskInv, MirrorInv,
         [ClientNext]_allVars, writes' = writes, NEW n \in Recorded \cap DOMAIN nodes
  PROVE  SameOrWiped(n)
<1>0. OneCall /\ TypeInv /\ TypeOK
  BY ConstantsAssumption DEF OneCall, ServerInv, OwnInv, TypeInv
<1>1. CASE DiskRestart
  BY <1>1 DEF DiskRestart, Restart, GraphReset, Empty, SameOrWiped, Same
<1>2. ASSUME NEW w \in Workers, Started(w)
      PROVE  SameOrWiped(n)
  BY <1>0, <1>2, StartedStarts, StartKeeps DEF diskVars, SameOrWiped, Same, SameBlock
<1>3. ASSUME NEW v \in Volumes, GuestWrite(v)
      PROVE  FALSE
  <2>1. writes'[v] = writes[v] + 1 /\ writes[v] \in Nat
    BY <1>3 DEF GuestWrite, DiskInv
  <2>. QED  BY <2>1
<1>4. CASE Quiet
  BY <1>4 DEF Quiet, graphVars, diskVars, SameOrWiped, Same, SameBlock
<1>. QED  BY <1>0, <1>1, <1>2, <1>3, <1>4, ClientSteps, WorksBeside

LEMMA OthersReadTheSame ==
  ASSUME ~Disciplined, DistinctQSDIDs, ServerInv, ServerInv', CmdType, DiskInv, MirrorInv,
         NodesAcyclic, ReadsDown, ReadsDown', [ClientNext]_allVars, writes' = writes,
         NEW i \in ImageID, Readable(i), Readable(i)'
  PROVE  Contents'[QSDID[i]] = Contents[QSDID[i]] \/ Emptied(i)
<1>. DEFINE C == Recorded \cap DOMAIN nodes \cap DOMAIN nodes'
<1>1. ASSUME NEW n \in C
      PROVE  /\ SameBlock(n) \/ Wiped(n)
             /\ nodes'[n] = nodes[n] /\ (nodes[n] = None \/ nodes[n] \in C)
  <2>1. (SameBlock(n) \/ Wiped(n)) /\ nodes'[n] = nodes[n]
    BY StepsBeside DEF SameOrWiped, Same
  <2>2. nodes'[n] = None \/ nodes'[n] \in DOMAIN nodes'
    BY DEF ServerInv, GraphInv, Whole, Closed
  <2>. QED  BY <2>1, <2>2, RecordedClosed
<1>2. QSDID[i] \in C
  BY DEF Readable, Recorded
<1>. QED  BY <1>1, <1>2, ContentsKept DEF NodeEmptied, Emptied

(* One call at a time and no failing command: whatever is created, cloned, *)
(* snapshotted, deleted or cleaned up, at every step every image of which  *)
(* the daemon has a node goes on to read what it read.  Only a guest's     *)
(* write changes that, and CreateVolume from a source of a volume that is  *)
(* already there: it empties the volume's disk.img (commands.go:290), and  *)
(* the images that read their block from that file then read nothing.      *)
THEOREM GuestsAloneWrite ==
  ASSUME ~Disciplined, ~Failures, DistinctQSDIDs
  PROVE  ClientSpec => OnlyGuestsWriteUnlessOverwritten
<1>. DEFINE Quietly == \A i \in ImageID :
              Readable(i) /\ Readable(i)' /\ Contents'[QSDID[i]] # Contents[QSDID[i]]
                => writes' # writes \/ Emptied(i)
<1>1. ServerInv /\ ServerInv' /\ CmdType /\ DiskInv /\ MirrorInv /\ NodesAcyclic /\ ReadsDown /\ ReadsDown'
      /\ [ClientNext]_allVars => [Quietly]_<<vars, diskVars>>
  BY OthersReadTheSame
<1>2. ServerInv /\ DiskInv => ReadsDown
  BY ContentsReadsDown DEF ServerInv, GraphInv
<1>3. ClientSpec => [](ServerInv /\ CmdType /\ DiskInv)
  BY DiskInductive
<1>4. ClientSpec => []MirrorInv
  BY MirrorClient
<1>5. ClientSpec => []NodesAcyclic
  BY AcyclicClient
<1>. HIDE DEF Quietly
<1>6. ClientSpec => [][Quietly]_<<vars, diskVars>>
  BY <1>1, <1>2, <1>3, <1>4, <1>5, PTL DEF ClientSpec
<1>. QED  BY <1>6 DEF OnlyGuestsWriteUnlessOverwritten, Quietly

-----------------------------------------------------------------------------
(* What one step of a handler does to the graph and to the disks.          *)

Alike(w) == /\ call'[w].id = call[w].id /\ call'[w].op = call[w].op /\ call'[w].layer = call[w].layer
            /\ call'[w].ptr = call[w].ptr /\ FileOf(call'[w]) = FileOf(call[w])
Empties(w) ==
  LET c == call[w] IN
  /\ c.pc \in {"createImage", "createBacked", "createOverlay"} /\ call'[w].pc = AfterQemuImg[c.pc]
  /\ Alike(w) /\ ~Keeps(c)
  /\ files' = files \cup {FileOf(c)} /\ disk' = Put(disk, FileOf(c), Hole)
  /\ overwritten' = IF Recreates(c) THEN overwritten \cup {FileOf(c)} ELSE overwritten
  /\ UNCHANGED <<graphVars, images, opened, written, writes>>
Opens(w) ==
  LET c == call[w]
      k == QSDID[c.id]
      b == IF c.pc = "addBacked" THEN QSDID[c.layer] ELSE None IN
  /\ c.pc \in {"addImage", "addBacked", "addOverlay"} /\ call'[w].pc \in {"append", "store"} /\ Alike(w)
  /\ call'[w].pc = "append" => c.pc = "addOverlay"
  /\ CanAddNode(c, b) /\ BlockdevAdd(k, b) /\ opened' = Put(opened, k, FileOf(c))
  /\ UNCHANGED <<files, images, disk, written, writes, overwritten>>
GoesOnTop(w) ==
  LET n == QSDID[call[w].layer]
      o == QSDID[call[w].id] IN
  /\ call[w].pc = "append" /\ call'[w].pc = "store" /\ Alike(w)
  /\ CanBlockdevSnapshot(n, o) /\ BlockdevSnapshot(n, o)
  /\ UNCHANGED <<files, images, disk, opened, written, writes, overwritten>>
Closes(w) ==
  LET n == QSDID[call[w].layer] IN
  /\ call[w].pc = "blockdevDel" /\ call'[w].pc = "remove" /\ Alike(w)
  /\ CanBlockdevDel(n) /\ BlockdevDel(n)
  /\ opened' = [m \in DOMAIN nodes' |-> opened[m]]
  /\ UNCHANGED <<files, images, disk, written, writes, overwritten>>
Erases(w) ==
  LET f == call[w].ptr.File IN
  /\ call[w].pc = "remove" /\ call'[w].pc = "release" /\ files' = files \ {f}
  /\ disk' = [g \in files' |-> disk[g]]
  /\ \A v \in Volumes : written'[v] = IF written[v].file = f THEN Unwritten ELSE written[v]
  /\ overwritten' = overwritten \cap files'
  /\ UNCHANGED <<graphVars, images, opened, writes>>
Exports(w) ==
  LET n == QSDID[call[w].id] IN
  /\ call[w].pc = "export" /\ call'[w].pc = "succeeded" /\ call'[w].op = call[w].op
  /\ call[w].id \in Volumes /\ CanBlockExportAdd(n, n) /\ BlockExportAdd(n, n)
  /\ UNCHANGED <<files, images, disk, opened, written, writes, overwritten>>
Unexports(w) ==
  /\ call[w].pc = "unexport" /\ call'[w].pc = "rmSocketDir" /\ Alike(w)
  /\ BlockExportDel(QSDID[call[w].id])
  /\ UNCHANGED <<files, images, disk, opened, written, writes, overwritten>>

(* All else: only the maps, the directories and the call change.           *)
Steady ==
  /\ UNCHANGED <<graphVars, files, written, writes, overwritten>>
  /\ \A f \in files : disk'[f] = disk[f]
  /\ \A n \in DOMAIN nodes : opened'[n] = opened[n]
Unmoved(w) ==
  /\ call'[w].pc \in {"append", "store"} => call'[w] = call[w]
  /\ call'[w].pc = "addOverlay" =>
       call'[w] = call[w] \/ (call[w].pc = "createOverlay" /\ Alike(w) /\ Keeps(call[w]))
  /\ call[w].pc = "remove" => call'[w] = call[w] \/ call[w].ptr.File \notin files
FileFrom(i) ==
  \/ i \in DOMAIN images /\ images'[i].File = images[i].File
  \/ \E w \in Workers : call[w].pc = "store" /\ i = call[w].id /\ images'[i].File = FileOf(call[w])
Else == Steady /\ (\A w \in Workers : Unmoved(w)) /\ \A i \in DOMAIN images' : FileFrom(i)

LEMMA GotoAlike ==
  ASSUME TypeInv, NEW w \in Workers, NEW pc, Goto(w, pc)
  PROVE  Alike(w) /\ call'[w].pc = pc
  BY GotoFields DEF Alike, FileOf

LEMMA ElseBy ==
  ASSUME OneCall, TypeInv, NEW w \in Workers, Continue(w), Steady, Unmoved(w)
  PROVE  Else
<1>1. \A i \in DOMAIN images' : FileFrom(i)
  BY ImageChange DEF KeepsOwner, FileFrom
<1>. QED  BY <1>1 DEF Else, OneCall

LEMMA FailElse ==
  ASSUME OneCall, TypeInv, NEW w \in Workers, Fail(w), Continue(w), Steady,
         call[w].pc = "remove" => call[w].ptr.File \notin files
  PROVE  Else
<1>1. call'[w].pc = "failed"
  BY FailIs
<1>2. Unmoved(w)
  BY <1>1 DEF Unmoved
<1>. QED  BY <1>2, ElseBy

LEMMA EffectsCreate ==
  ASSUME OneCall, TypeInv, NEW w \in Workers, QemuImgCreate(w), Format(w)
  PROVE  Empties(w) \/ Else
<1>. DEFINE c == call[w]
<1>0. Continue(w) /\ c.pc \in {"createImage", "createBacked", "createOverlay"} /\ UNCHANGED <<graphVars, images>>
  BY DEF Continue, QemuImgCreate, AfterQemuImg, memVars
<1>1. CASE Fail(w) /\ UNCHANGED files
  <2>1. UNCHANGED diskVars
    BY <1>1, FailIs DEF Format
  <2>. QED  BY <1>0, <1>1, <2>1, FailElse DEF diskVars, Steady
<1>2. CASE Goto(w, AfterQemuImg[c.pc]) /\ files' = files \cup {FileOf(c)}
  <2>1. Alike(w) /\ call'[w].pc = AfterQemuImg[c.pc]
    BY <1>2, GotoAlike
  <2>2. call'[w].pc \in {"addImage", "addBacked", "addOverlay"} /\ (call'[w].pc = "addOverlay" => c.pc = "createOverlay")
    BY <1>0, <2>1 DEF AfterQemuImg
  <2>3. CASE Keeps(c)
    <3>1. UNCHANGED <<diskVars, files>>
      BY <1>2, <2>3 DEF Format, Keeps
    <3>2. Steady
      BY <1>0, <3>1 DEF Steady, diskVars
    <3>3. Unmoved(w)
      BY <1>0, <2>1, <2>2, <2>3 DEF Unmoved
    <3>. QED  BY <1>0, <3>2, <3>3, ElseBy
  <2>4. CASE ~Keeps(c)
    <3>1. /\ disk' = Put(disk, FileOf(c), Hole) /\ UNCHANGED <<opened, written, writes>>
          /\ overwritten' = IF Recreates(c) THEN overwritten \cup {FileOf(c)} ELSE overwritten
      BY <2>2, <2>4 DEF Format
    <3>. QED  BY <1>0, <1>2, <2>1, <2>4, <3>1 DEF Empties
  <2>. QED  BY <2>3, <2>4
<1>. QED  BY <1>1, <1>2 DEF QemuImgCreate

LEMMA EffectsAdd ==
  ASSUME OneCall, TypeInv, NEW w \in Workers, AddNode(w), Open(w)
  PROVE  Opens(w) \/ Else
<1>. DEFINE c == call[w]
            b == IF c.pc = "addBacked" THEN QSDID[c.layer] ELSE None
<1>0. /\ Continue(w) /\ c.pc \in {"addImage", "addBacked", "addOverlay"} /\ UNCHANGED <<images, files>>
      /\ UNCHANGED <<disk, written, writes, overwritten>>
  BY DEF Continue, AddNode, AfterAdd, memVars, fsVars, Open
<1>1. CASE UNCHANGED <<graphVars, opened>> /\ Fail(w)
  BY <1>0, <1>1, FailElse DEF Steady
<1>2. CASE /\ CanAddNode(c, b) /\ BlockdevAdd(QSDID[c.id], b) /\ Goto(w, AfterAdd[c.pc])
           /\ opened' = Put(opened, QSDID[c.id], FileOf(c))
  <2>1. Alike(w) /\ call'[w].pc = AfterAdd[c.pc]
    BY <1>2, GotoAlike
  <2>2. call'[w].pc \in {"append", "store"} /\ (call'[w].pc = "append" => c.pc = "addOverlay")
    BY <1>0, <2>1 DEF AfterAdd
  <2>. QED  BY <1>0, <1>2, <2>1, <2>2 DEF Opens
<1>. QED  BY <1>1, <1>2, OpenEffect

LEMMA EffectsAppend ==
  ASSUME OneCall, TypeInv, NEW w \in Workers, Append(w), Seal(w)
  PROVE  GoesOnTop(w) \/ Else
<1>0. /\ Continue(w) /\ call[w].pc = "append"
      /\ UNCHANGED <<images, files, disk, opened, written, writes, overwritten>>
  BY DEF Continue, Append, memVars, fsVars, Seal
<1>1. CASE UNCHANGED graphVars /\ Fail(w)
  BY <1>0, <1>1, FailElse DEF Steady
<1>2. CASE /\ CanBlockdevSnapshot(QSDID[call[w].layer], QSDID[call[w].id])
           /\ BlockdevSnapshot(QSDID[call[w].layer], QSDID[call[w].id]) /\ Goto(w, "store")
  <2>1. Alike(w) /\ call'[w].pc = "store"
    BY <1>2, GotoAlike
  <2>. QED  BY <1>0, <1>2, <2>1 DEF GoesOnTop
<1>. QED  BY <1>1, <1>2 DEF Append, Granted

LEMMA EffectsClose ==
  ASSUME OneCall, TypeInv, DiskInv, NEW w \in Workers, DelNode(w), Close(w)
  PROVE  Closes(w) \/ Else
<1>0. /\ Continue(w) /\ call[w].pc = "blockdevDel"
      /\ UNCHANGED <<images, files, disk, written, writes, overwritten>>
      /\ opened' = [m \in DOMAIN nodes' |-> opened[m]]
  BY DEF Continue, DelNode, memVars, fsVars, Close
<1>1. CASE UNCHANGED graphVars /\ Fail(w)
  <2>1. Steady
    BY <1>0, <1>1 DEF Steady, graphVars
  <2>. QED  BY <1>0, <1>1, <2>1, FailElse
<1>2. CASE CanBlockdevDel(QSDID[call[w].layer]) /\ BlockdevDel(QSDID[call[w].layer]) /\ Goto(w, "remove")
  <2>1. Alike(w) /\ call'[w].pc = "remove"
    BY <1>2, GotoAlike
  <2>. QED  BY <1>0, <1>2, <2>1 DEF Closes
<1>. QED  BY <1>1, <1>2 DEF DelNode, Granted

LEMMA EffectsRemove ==
  ASSUME OneCall, ~Failures, TypeInv, DiskInv, NEW w \in Workers, RemoveFile(w), Erase(w)
  PROVE  Erases(w) \/ Else
<1>. DEFINE f == call[w].ptr.File
<1>0. /\ Continue(w) /\ call[w].pc = "remove" /\ UNCHANGED <<graphVars, images, opened, writes>>
      /\ disk' = [g \in files' |-> disk[g]] /\ overwritten' = overwritten \cap files'
  BY DEF Continue, RemoveFile, memVars, Erase
<1>1. CASE f \notin files /\ UNCHANGED files /\ Fail(w)
  <2>1. Steady
    BY <1>0, <1>1 DEF Erase, Steady, DiskInv, OverwrittenEmpty
  <2>. QED  BY <1>0, <1>1, <2>1, FailElse
<1>2. CASE f \in files /\ files' = files \ {f} /\ Goto(w, "release")
  <2>1. \A v \in Volumes : written'[v] = IF written[v].file = f THEN Unwritten ELSE written[v]
    BY <1>2 DEF Erase, Without
  <2>2. call'[w].pc = "release"
    BY <1>2, GotoAlike
  <2>. QED  BY <1>0, <1>2, <2>1, <2>2 DEF Erases
<1>. QED  BY <1>1, <1>2, RefusedOnly DEF RemoveFile, Granted

LEMMA EffectsOther ==
  ASSUME OneCall, TypeInv, NEW w \in Workers, UNCHANGED diskVars,
         \/ Store(w) \/ Export(w) \/ Unexport(w) \/ RemoveSocketDir(w)
         \/ Release(w) \/ RemoveDir(w) \/ Reply(w)
  PROVE  Exports(w) \/ Unexports(w) \/ Else
<1>0. Continue(w) /\ UNCHANGED <<files, disk, opened, written, writes, overwritten>>
  BY DEF Continue, Store, Export, Unexport, RemoveSocketDir, Release, RemoveDir, Reply, fsVars, diskVars
<1>1. call[w].pc \notin {"remove", "addImage", "addBacked", "addOverlay", "append", "createOverlay"}
  BY DEF Store, Export, Unexport, RemoveSocketDir, Release, RemoveDir, Reply
<1>2. ASSUME UNCHANGED graphVars
      PROVE  Else
  <2>1. call'[w].pc \in {"append", "store"} => call'[w] = call[w]
    BY <1>0, <1>1, NewNodeComes
  <2>2. call'[w].pc # "addOverlay"
    <3>1. Reply(w) => call'[w].pc = "idle"
      BY DEF Reply, Become, NoCall, TypeInv, TypeOK
    <3>. QED  BY <1>0, <1>1, <3>1, ContinueMoves DEF Moves, Follows
  <2>3. Unmoved(w)
    BY <1>1, <2>1, <2>2 DEF Unmoved
  <2>4. Steady
    BY <1>0, <1>2 DEF Steady
  <2>. QED  BY <1>0, <2>3, <2>4, ElseBy
<1>3. CASE Export(w)
  <2>1. call[w].pc = "export" /\ call[w].id \in Volumes /\ UNCHANGED images
    BY <1>3 DEF Export, memVars, TypeInv, CallTypeInv, CallOK
  <2>2. Succeed(w) => call'[w].pc = "succeeded" /\ call'[w].op = call[w].op
    BY AtKeeps DEF Succeed, Succeeded, Become, TypeInv, TypeOK, SameNames
  <2>. QED  BY <1>0, <1>2, <1>3, <2>1, <2>2 DEF Export, Granted, Exports
<1>4. CASE Unexport(w)
  <2>1. call[w].pc = "unexport" /\ UNCHANGED images
    BY <1>4 DEF Unexport, memVars
  <2>2. Goto(w, "rmSocketDir") => Alike(w) /\ call'[w].pc = "rmSocketDir"
    BY GotoAlike
  <2>. QED  BY <1>0, <1>2, <1>4, <2>1, <2>2 DEF Unexport, Granted, Unexports
<1>. QED
  BY <1>2, <1>3, <1>4 DEF Store, RemoveSocketDir, Release, RemoveDir, Reply

LEMMA Effects ==
  ASSUME OneCall, ~Failures, TypeInv, DiskInv, NEW w \in Workers, Works(w)
  PROVE  \/ Empties(w) \/ Opens(w) \/ GoesOnTop(w) \/ Closes(w) \/ Erases(w)
         \/ Exports(w) \/ Unexports(w) \/ Else
  BY EffectsCreate, EffectsAdd, EffectsAppend, EffectsClose, EffectsRemove, EffectsOther DEF Works, DiskContinue

LEMMA StartedElse ==
  ASSUME OneCall, TypeInv, NEW w \in Workers, Started(w)
  PROVE  Else
<1>1. Starts(w) /\ UNCHANGED diskVars
  BY StartedStarts
<1>2. Idle(w) /\ UNCHANGED <<nodes, exports, files>> /\ \A i \in DOMAIN images' : FileFrom(i)
  BY <1>1, StartKeeps DEF FileFrom
<1>3. call'[w].pc \notin {"append", "store", "addOverlay"}
  BY StartCreateVolume, StartCreateSnapshot, StartExpose, StartUnexpose, StartDeleteVolume,
     StartDeleteSnapshot DEF Started, TurnsTo
<1>4. Unmoved(w)
  BY <1>2, <1>3 DEF Unmoved, Idle
<1>. QED  BY <1>1, <1>2, <1>4 DEF Else, Steady, graphVars, diskVars, OneCall

(* Every step of the users and of the server, by what it does to a disk.   *)
LEMMA StepEffects ==
  ASSUME OneCall, ~Failures, TypeInv, DiskInv, CmdType, [ClientNext]_allVars
  PROVE  \/ DiskRestart
         \/ Else
         \/ \E w \in Workers : \/ Empties(w) \/ Opens(w) \/ GoesOnTop(w) \/ Closes(w) \/ Erases(w)
                               \/ Exports(w) \/ Unexports(w)
         \/ \E v \in Volumes : GuestWrite(v)
<1>1. TypeOK
  BY DEF TypeInv
<1>2. ASSUME Quiet
      PROVE  Else
  <2>1. Steady /\ UNCHANGED <<call, images>>
    BY <1>2 DEF Quiet, Steady, diskVars, memVars, fsVars
  <2>2. ASSUME NEW w \in Workers
        PROVE  Unmoved(w)
    <3>1. call'[w] = call[w]
      BY <2>1
    <3>. QED  BY <3>1 DEF Unmoved
  <2>3. \A i \in DOMAIN images' : FileFrom(i)
    BY <2>1 DEF FileFrom
  <2>. QED  BY <2>1, <2>2, <2>3 DEF Else
<1>. QED  BY <1>1, <1>2, ClientSteps, Effects, StartedElse

-----------------------------------------------------------------------------
(* A guest reads back what it wrote.  The file a guest wrote last holds    *)
(* its value still, unless a CreateVolume overwrote it, and its export     *)
(* stands on that file with nothing but empty overlays between.  No other  *)
(* guest can write to that file or to those overlays, and no other call    *)
(* empties or removes the file.                                            *)

Ground ==
  /\ OneCall /\ ~Failures /\ DistinctQSDIDs
  /\ ServerInv /\ CmdType /\ DiskInv /\ MirrorInv /\ CreatesInv

ExportsOwn   == \A e \in DOMAIN exports : exports[e] = e \/ \E s \in Snapshots : exports[e] = QSDID[s]
ExportsApart == \A d, e \in DOMAIN exports : exports[d] = exports[e] => d = e
OpenedInv ==
  /\ \A i \in DOMAIN images : QSDID[i] \in DOMAIN nodes => opened[QSDID[i]] = images[i].File
  /\ \A w \in Workers : call[w].pc \in {"append", "store"} => opened[QSDID[call[w].id]] = FileOf(call[w])
FreshBlank ==
  \A w \in Workers : LET f == FileOf(call[w]) IN
    /\ call[w].pc = "addOverlay" => QSDID[call[w].id] \in DOMAIN nodes \/ (f \in files => disk[f] = Hole)
    /\ call[w].pc = "append" => disk[f] = Hole

(* The writes of v in a file a snapshot took over.                         *)
InSnapshot(v) == \E n \in DOMAIN nodes : opened[n] = written[v].file /\ Above(nodes, n, QSDID[v])
GoesAway(f)   == \E w \in Workers : call[w].pc = "remove" /\ call[w].ptr.File = f
Kept(v) ==
  LET f == written[v].file IN
  /\ f \in files
  /\ f \in overwritten \/ (disk[f] = written[v].value /\ disk[f] # Hole)
  /\ \/ f = DiskFile(v)
     \/ f[2] # None /\ (InSnapshot(v) \/ GoesAway(f))
WrittenInv == \A v \in Volumes : written[v] # Unwritten => Kept(v)

OwnFile(v) == written[v] = Unwritten \/ written[v].file = DiskFile(v)
PendingWritten == \A v \in Volumes : Pending(v) => QSDID[v] \notin DOMAIN exports /\ OwnFile(v)

(* The nodes a read of v's guest may come to.                              *)
OwnNode(v, n) ==
  /\ n = QSDID[v] \/ \E s \in Snapshots : n = QSDID[s]
  /\ \A e \in DOMAIN exports : exports[e] = n => e = QSDID[v]
ReadThrough(v, C) ==
  /\ C \subseteq DOMAIN nodes /\ exports[QSDID[v]] \in C
  /\ \A n \in C : opened[n] = written[v].file \/ (disk[opened[n]] = Hole /\ nodes[n] \in C)
  /\ \A n \in C : OwnNode(v, n)
Exposed(v) == QSDID[v] \in DOMAIN exports /\ written[v] # Unwritten
ReadInv    == \A v \in Volumes : Exposed(v) => \E C : ReadThrough(v, C)
Writes(u, v) == QSDID[u] \in DOMAIN exports /\ written[v] # Unwritten
                /\ opened[exports[QSDID[u]]] = written[v].file
SoleWriter == \A u, v \in Volumes : Writes(u, v) => u = v

LEMMA GroundIs ==
  ASSUME Ground
  PROVE  /\ TypeInv /\ TypeOK /\ GraphTypeOK /\ MemTypeOK /\ GraphInv /\ SafeInv /\ OwnInv /\ Whole(nodes)
         /\ None \notin DOMAIN nodes /\ DOMAIN opened = DOMAIN nodes /\ DOMAIN disk = files
         /\ Volumes \subseteq ImageID /\ Snapshots \subseteq ImageID
         /\ \A v \in Volumes, s \in Snapshots : QSDID[v] # QSDID[s]
         /\ \A u, v \in Volumes : QSDID[u] = QSDID[v] => u = v
         /\ \A i \in ImageID : QSDID[i] \in NodeName /\ QSDID[i] # None
         /\ \A n \in DOMAIN nodes : opened[n] \in files
         /\ \A e \in DOMAIN exports : exports[e] \in DOMAIN nodes
         /\ \A w \in Workers : call[w] \in Call /\ CallOK(call[w])
<1>1. TypeInv /\ TypeOK /\ GraphTypeOK /\ MemTypeOK
  BY DEF Ground, ServerInv, OwnInv, TypeInv, TypeOK
<1>2. Volumes \subseteq ImageID /\ Snapshots \subseteq ImageID
  BY DEF ImageID
<1>3. Volumes \cap Snapshots = {} /\ None \notin NodeName /\ QSDID \in [ImageID -> NodeName]
  BY ConstantsAssumption
<1>4. \A v \in Volumes, s \in Snapshots : QSDID[v] # QSDID[s]
  BY <1>2, <1>3 DEF Ground, DistinctQSDIDs
<1>5. \A u, v \in Volumes : QSDID[u] = QSDID[v] => u = v
  BY <1>2 DEF Ground, DistinctQSDIDs
<1>6. None \notin DOMAIN nodes
  BY <1>1, <1>3 DEF GraphTypeOK
<1>7. \A e \in DOMAIN exports : exports[e] \in DOMAIN nodes
  BY DEF Ground, ServerInv, GraphInv, ExportPlaced
<1>. QED
  BY <1>1, <1>2, <1>3, <1>4, <1>5, <1>6, <1>7
  DEF Ground, ServerInv, GraphInv, DiskInv, TypeInv, TypeOK, CallTypeInv

(* A file is open in one node, the one of the image it belongs to.         *)
LEMMA OpenedApart ==
  ASSUME Ground
  PROVE  /\ \A i \in ImageID, n \in DOMAIN nodes : Belongs(opened[n], i) => n = QSDID[i]
         /\ \A m, n \in DOMAIN nodes : opened[m] = opened[n] => m = n
         /\ \A v \in Volumes : QSDID[v] \in DOMAIN nodes => opened[QSDID[v]] = DiskFile(v)
         /\ \A s \in Snapshots : QSDID[s] \in DOMAIN nodes => opened[QSDID[s]][2] # None
<1>1. \A n \in DOMAIN nodes : \E i \in ImageID : QSDID[i] = n /\ Belongs(opened[n], i)
  BY DEF Ground, DiskInv, OpensOwn
<1>2. \A i \in ImageID, n \in DOMAIN nodes : Belongs(opened[n], i) => n = QSDID[i]
  BY <1>1, BelongsApart DEF Ground
<1>3. \A i \in ImageID : QSDID[i] \in DOMAIN nodes => Belongs(opened[QSDID[i]], i)
  BY <1>1 DEF Ground, DistinctQSDIDs
<1>4. \A v \in Volumes : QSDID[v] \in DOMAIN nodes => opened[QSDID[v]] = DiskFile(v)
  BY <1>3, GroundIs DEF Belongs
<1>5. \A s \in Snapshots : s \notin Volumes
  BY ConstantsAssumption
<1>6. \A s \in Snapshots : QSDID[s] \in DOMAIN nodes => opened[QSDID[s]][2] # None
  BY <1>3, <1>5, GroundIs DEF Belongs
<1>. QED  BY <1>1, <1>2, <1>4, <1>6

LEMMA OwnExports ==
  ASSUME Ground, ExportsOwn, [ClientNext]_allVars
  PROVE  ExportsOwn'
<1>1. CASE UNCHANGED exports
  BY <1>1 DEF ExportsOwn
<1>2. CASE DiskRestart
  BY <1>2 DEF DiskRestart, Restart, GraphReset, Empty, ExportsOwn
<1>3. ASSUME NEW w \in Workers, GoesOnTop(w)
      PROVE  ExportsOwn'
  <2>1. call[w].id \in Snapshots
    BY <1>3, GroundIs, ConstantsAssumption DEF GoesOnTop, Ground, CreatesInv, CallOK
  <2>. QED  BY <1>3, <2>1 DEF GoesOnTop, BlockdevSnapshot, ExportsOwn
<1>4. ASSUME NEW w \in Workers, Exports(w) \/ Unexports(w)
      PROVE  ExportsOwn'
  BY <1>4 DEF Exports, Unexports, BlockExportAdd, BlockExportDel, Put, Drop, ExportsOwn
<1>. QED
  BY <1>1, <1>2, <1>3, <1>4, StepEffects, GroundIs
  DEF Ground, Else, Steady, Empties, Opens, Closes, Erases, GuestWrite, vars, graphVars, BlockdevAdd, BlockdevDel

LEMMA ApartExports ==
  ASSUME Ground, ExportsOwn, ExportsApart, [ClientNext]_allVars
  PROVE  ExportsApart'
<1>1. CASE UNCHANGED exports
  BY <1>1 DEF ExportsApart
<1>2. CASE DiskRestart
  BY <1>2 DEF DiskRestart, Restart, GraphReset, Empty, ExportsApart
<1>3. ASSUME NEW w \in Workers, GoesOnTop(w)
      PROVE  ExportsApart'
  BY <1>3 DEF GoesOnTop, BlockdevSnapshot, CanBlockdevSnapshot, InUse, ExportsApart
<1>4. ASSUME NEW w \in Workers, Exports(w)
      PROVE  ExportsApart'
  <2>. DEFINE n == QSDID[call[w].id]
  <2>1. \A d \in DOMAIN exports : d # n /\ exports[d] # n
    BY <1>4, GroundIs DEF Exports, CanBlockExportAdd, ExportsOwn
  <2>. QED  BY <1>4, <2>1 DEF Exports, BlockExportAdd, Put, ExportsApart
<1>5. ASSUME NEW w \in Workers, Unexports(w)
      PROVE  ExportsApart'
  BY <1>5 DEF Unexports, BlockExportDel, Drop, ExportsApart
<1>. QED
  BY <1>1, <1>2, <1>3, <1>4, <1>5, StepEffects, GroundIs
  DEF Ground, Else, Steady, Empties, Opens, Closes, Erases, GuestWrite, vars, graphVars, BlockdevAdd, BlockdevDel

(* Every image's node has the image's own file open.                       *)
LEMMA OpenedStep ==
  ASSUME Ground, OpenedInv, [ClientNext]_allVars
  PROVE  OpenedInv'
<1>0. /\ \A i \in DOMAIN images : i \in ImageID
      /\ \A i, j \in ImageID : QSDID[i] = QSDID[j] => i = j
  BY GroundIs DEF Ground, MemTypeOK, DistinctQSDIDs
<1>1. CASE DiskRestart
  <2>1. DOMAIN images' = {} /\ \A w \in Workers : call'[w].pc = "idle"
    BY <1>1 DEF DiskRestart, Restart, Empty, NoCall
  <2>. QED  BY <2>1 DEF OpenedInv
<1>2. CASE Else
  <2>1. ASSUME NEW i \in DOMAIN images', QSDID[i] \in DOMAIN nodes
        PROVE  opened'[QSDID[i]] = images'[i].File
    BY <1>2, <2>1 DEF Else, Steady, FileFrom, OpenedInv
  <2>2. ASSUME NEW w \in Workers, call'[w].pc \in {"append", "store"}
        PROVE  opened'[QSDID[call'[w].id]] = FileOf(call'[w])
    <3>1. call'[w] = call[w] /\ QSDID[call[w].id] \in DOMAIN nodes
      BY <1>2, <2>2 DEF Else, Unmoved, Ground, ServerInv, GraphInv, Placed
    <3>. QED  BY <1>2, <2>2, <3>1 DEF Else, Steady, OpenedInv
  <2>. QED  BY <1>2, <2>1, <2>2 DEF OpenedInv, Else, Steady, graphVars
<1>3. ASSUME NEW w \in Workers, Opens(w)
      PROVE  OpenedInv'
  <2>. DEFINE c == call[w]
              k == QSDID[c.id]
  <2>1. /\ k \notin DOMAIN nodes /\ DOMAIN nodes' = DOMAIN nodes \cup {k} /\ opened'[k] = FileOf(c)
        /\ \A n \in DOMAIN nodes : opened'[n] = opened[n]
    BY <1>3, GroundIs DEF Opens, CanAddNode, CanBlockdevAdd, BlockdevAdd, Put
  <2>2. \A i \in DOMAIN images : QSDID[i] \in DOMAIN nodes
    BY <1>3, OnlyOne DEF Opens, Ground, MirrorInv, Linked
  <2>3. \A x \in Workers : x = w
    BY DEF Ground, OneCall
  <2>. QED  BY <1>3, <2>1, <2>2, <2>3 DEF Opens, Alike, OpenedInv
<1>4. ASSUME NEW w \in Workers, Empties(w) \/ Erases(w) \/ Exports(w) \/ Unexports(w) \/ Closes(w)
      PROVE  OpenedInv'
  <2>1. \A x \in Workers : call'[x].pc \notin {"append", "store"}
    BY <1>4 DEF Ground, OneCall, Empties, AfterQemuImg, Erases, Exports, Unexports, Closes
  <2>2. /\ UNCHANGED images /\ DOMAIN nodes' \subseteq DOMAIN nodes
        /\ \A n \in DOMAIN nodes' : opened'[n] = opened[n]
    BY <1>4 DEF Empties, Erases, Exports, Unexports, Closes, graphVars, BlockExportAdd, BlockExportDel,
                BlockdevDel, Drop
  <2>. QED  BY <2>1, <2>2 DEF OpenedInv
<1>5. ASSUME NEW w \in Workers, GoesOnTop(w)
      PROVE  OpenedInv'
  <2>1. \A x \in Workers : x = w
    BY DEF Ground, OneCall
  <2>2. DOMAIN nodes' = DOMAIN nodes
    BY <1>5 DEF GoesOnTop, BlockdevSnapshot
  <2>. QED  BY <1>5, <2>1, <2>2 DEF GoesOnTop, Alike, OpenedInv
<1>6. ASSUME NEW v \in Volumes, GuestWrite(v)
      PROVE  OpenedInv'
  BY <1>6 DEF GuestWrite, vars, graphVars, memVars, OpenedInv, FileOf
<1>. QED
  BY <1>1, <1>2, <1>3, <1>4, <1>5, <1>6, StepEffects, GroundIs DEF Ground

(* A file that is going to be opened as a new overlay is empty.            *)
LEMMA KeepsOpen ==
  ASSUME Ground, NEW w \in Workers, call[w].pc = "createOverlay", Keeps(call[w])
  PROVE  QSDID[call[w].id] \in DOMAIN nodes
<1>1. /\ call[w].layer # None /\ call[w].id \in ImageID /\ Belongs(FileOf(call[w]), call[w].id)
  BY GroundIs, FileOfBelongs, NewNames, ConstantsAssumption DEF CallOK
<1>2. PICK n \in DOMAIN nodes : opened[n] = FileOf(call[w])
  BY <1>1, GroundIs DEF Keeps, Locked
<1>. QED  BY <1>1, <1>2, OpenedApart

LEMMA FreshStep ==
  ASSUME Ground, OpenedInv, FreshBlank, [ClientNext]_allVars
  PROVE  FreshBlank'
<1>1. CASE DiskRestart
  <2>1. \A w \in Workers : call'[w].pc = "idle"
    BY <1>1 DEF DiskRestart, Restart, NoCall
  <2>. QED  BY <2>1 DEF FreshBlank
<1>2. CASE Else
  <2>. SUFFICES ASSUME NEW w \in Workers, call'[w].pc \in {"addOverlay", "append"}
                PROVE  LET f == FileOf(call'[w]) IN
                       /\ call'[w].pc = "addOverlay" =>
                            QSDID[call'[w].id] \in DOMAIN nodes \/ (f \in files => disk'[f] = Hole)
                       /\ call'[w].pc = "append" => disk'[f] = Hole
    BY <1>2 DEF FreshBlank, Else, Steady, graphVars
  <2>1. CASE call'[w] = call[w]
    <3>1. call[w].pc = "append" => FileOf(call[w]) \in files
      BY DEF Ground, ServerInv, FilesInv, NewFileKept
    <3>. QED  BY <1>2, <2>1, <3>1 DEF FreshBlank, Else, Steady
  <2>2. CASE call[w].pc = "createOverlay" /\ Alike(w) /\ Keeps(call[w]) /\ call'[w].pc = "addOverlay"
    BY <2>2, KeepsOpen DEF Alike
  <2>. QED  BY <1>2, <2>1, <2>2 DEF Else, Unmoved
<1>3. ASSUME NEW w \in Workers, Opens(w)
      PROVE  FreshBlank'
  <2>1. \A x \in Workers : x = w
    BY DEF Ground, OneCall
  <2>2. call'[w].pc = "append" => disk[FileOf(call[w])] = Hole
    BY <1>3 DEF Opens, CanAddNode, CanBlockdevAdd, FreshBlank
  <2>. QED  BY <1>3, <2>1, <2>2 DEF Opens, Alike, FreshBlank
<1>4. ASSUME NEW w \in Workers, Erases(w) \/ Exports(w) \/ Unexports(w) \/ Closes(w) \/ GoesOnTop(w)
      PROVE  FreshBlank'
  <2>1. \A x \in Workers : call'[x].pc \notin {"addOverlay", "append"}
    BY <1>4 DEF Ground, OneCall, Erases, Exports, Unexports, Closes, GoesOnTop
  <2>. QED  BY <2>1 DEF FreshBlank
<1>5. ASSUME NEW w \in Workers, Empties(w)
      PROVE  FreshBlank'
  <2>1. \A x \in Workers : x = w
    BY DEF Ground, OneCall
  <2>2. call'[w].pc # "append" /\ disk'[FileOf(call'[w])] = Hole
    BY <1>5 DEF Empties, AfterQemuImg, Alike, Put
  <2>. QED  BY <2>1, <2>2 DEF FreshBlank
<1>6. ASSUME NEW v \in Volumes, GuestWrite(v)
      PROVE  FreshBlank'
  <2>. DEFINE n == exports[QSDID[v]]
  <2>0. /\ n \in DOMAIN nodes /\ UNCHANGED <<call, nodes, files>>
        /\ \A f \in files : f # opened[n] => disk'[f] = disk[f]
    BY <1>6, GroundIs DEF GuestWrite, vars, graphVars, fsVars
  <2>1. ASSUME NEW w \in Workers, call[w].pc \in {"addOverlay", "append"}, FileOf(call[w]) = opened[n]
        PROVE  n = QSDID[call[w].id]
    BY <2>0, <2>1, GroundIs, OpenedApart, FileOfBelongs, NewNames
  <2>2. ASSUME NEW w \in Workers, call[w].pc = "append"
        PROVE  FileOf(call[w]) \in files /\ FileOf(call[w]) # opened[n]
    <3>1. FileOf(call[w]) \in files
      BY <2>2 DEF Ground, ServerInv, FilesInv, NewFileKept
    <3>2. QSDID[v] \in DOMAIN exports
      BY <1>6 DEF GuestWrite
    <3>3. n # QSDID[call[w].id]
      BY <2>2, <3>2, FreshUnexported, GroundIs DEF Ground
    <3>. QED  BY <2>1, <2>2, <3>1, <3>3
  <2>3. \A w \in Workers : FileOf(call'[w]) = FileOf(call[w]) /\ call'[w] = call[w]
    BY <2>0
  <2>. HIDE DEF n
  <2>. QED  BY <2>0, <2>1, <2>2, <2>3 DEF FreshBlank
<1>. QED
  BY <1>1, <1>2, <1>3, <1>4, <1>5, <1>6, StepEffects, GroundIs DEF Ground

(* What a guest wrote last stays where it was written, or is forgotten with*)
(* its file.                                                               *)
LEMMA SnapshotKept ==
  ASSUME NEW v \in Volumes, written'[v] = written[v], InSnapshot(v),
         \A n \in DOMAIN nodes : n \in DOMAIN nodes' /\ opened'[n] = opened[n],
         \A n, m : Above(nodes, n, m) => Above(nodes', n, m)
  PROVE  InSnapshot(v)'
  BY DEF InSnapshot

LEMMA WrittenElse ==
  ASSUME Ground, WrittenInv, Else
  PROVE  WrittenInv'
<1>. SUFFICES ASSUME NEW v \in Volumes, written[v] # Unwritten
              PROVE  Kept(v)'
  BY DEF WrittenInv, Else, Steady
<1>1. Kept(v) /\ written'[v] = written[v] /\ UNCHANGED <<nodes, files, overwritten>>
  BY DEF WrittenInv, Else, Steady, graphVars
<1>2. InSnapshot(v) => InSnapshot(v)'
  BY <1>1, SnapshotKept DEF Else, Steady
<1>3. GoesAway(written[v].file) => GoesAway(written[v].file)'
  BY <1>1 DEF GoesAway, Else, Unmoved, Kept
<1>4. disk'[written[v].file] = disk[written[v].file]
  BY <1>1 DEF Kept, Else, Steady
<1>. QED  BY <1>1, <1>2, <1>3, <1>4 DEF Kept

LEMMA WrittenEmpties ==
  ASSUME Ground, WrittenInv, NEW w \in Workers, Empties(w)
  PROVE  WrittenInv'
<1>. DEFINE c == call[w]
            f0 == FileOf(c)
<1>. SUFFICES ASSUME NEW v \in Volumes, written'[v] # Unwritten
              PROVE  Kept(v)'
  BY DEF WrittenInv
<1>0. CallOK(c) /\ c.pc \in CreatePC /\ \A x \in Workers : x = w
  BY GroundIs DEF Empties, Ground, OneCall
<1>1. written'[v] = written[v]
  BY DEF Empties
<1>2. Kept(v)
  BY <1>1 DEF WrittenInv
<1>3. ~GoesAway(written[v].file) /\ UNCHANGED <<nodes, opened>>
  BY <1>0 DEF GoesAway, Empties, graphVars
<1>4. InSnapshot(v) => InSnapshot(v)'
  BY <1>1, <1>3, SnapshotKept
<1>5. CASE f0 = written[v].file
  <2>1. f0 \in files /\ c.layer # None /\ ~Locked(f0)
    BY <1>2, <1>5 DEF Kept, Empties, Keeps
  <2>2. f0 = DiskFile(v)
    BY <1>2, <1>3, <1>5, <2>1, GroundIs DEF Kept, InSnapshot, Locked, Raw
  <2>3. Recreates(c)
    BY <1>0, <2>1, <2>2, GroundIs DEF CallOK, FileOf, DiskFile, SnapFile, Recreates
  <2>4. written[v].file \in files' /\ written[v].file \in overwritten'
    BY <1>5, <2>1, <2>3 DEF Empties
  <2>. QED  BY <1>1, <1>2, <1>3, <1>4, <2>4 DEF Kept
<1>6. CASE f0 # written[v].file
  <2>1. written[v].file \in files' /\ disk'[written[v].file] = disk[written[v].file]
    BY <1>2, <1>6, GroundIs DEF Empties, Kept, Put
  <2>2. written[v].file \in overwritten => written[v].file \in overwritten'
    BY DEF Empties
  <2>. QED  BY <1>1, <1>2, <1>3, <1>4, <2>1, <2>2 DEF Kept
<1>. QED  BY <1>5, <1>6

LEMMA WrittenGraph ==
  ASSUME Ground, OpenedInv, WrittenInv, NEW w \in Workers,
         Opens(w) \/ GoesOnTop(w) \/ Closes(w) \/ Exports(w) \/ Unexports(w)
  PROVE  WrittenInv'
<1>. SUFFICES ASSUME NEW v \in Volumes, written[v] # Unwritten
              PROVE  Kept(v)'
  BY DEF WrittenInv, Opens, GoesOnTop, Closes, Exports, Unexports
<1>. DEFINE f == written[v].file
<1>1. Kept(v) /\ UNCHANGED <<written, disk, files, overwritten>>
  BY DEF WrittenInv, Opens, GoesOnTop, Closes, Exports, Unexports
<1>2. ~GoesAway(f)
  BY DEF GoesAway, Opens, GoesOnTop, Closes, Exports, Unexports, Ground, OneCall
<1>3. InSnapshot(v) => InSnapshot(v)' \/ GoesAway(f)'
  <2>1. CASE Opens(w)
    <3>. DEFINE c == call[w]
                k == QSDID[c.id]
                b == IF c.pc = "addBacked" THEN QSDID[c.layer] ELSE None
    <3>1. /\ c.pc \in {"addImage", "addBacked", "addOverlay"} /\ k \notin DOMAIN nodes /\ BlockdevAdd(k, b)
          /\ opened' = Put(opened, k, FileOf(c))
      BY <2>1 DEF Opens, CanAddNode, CanBlockdevAdd
    <3>2. k \in NodeName /\ b \in NodeName \cup {None}
      BY <3>1, GroundIs, NewNames DEF CallOK
    <3>3. \A n, m : Above(nodes, n, m) => Above(nodes', n, m)
      BY <3>1, <3>2, AboveAdd
    <3>4. \A n \in DOMAIN nodes : n \in DOMAIN nodes' /\ opened'[n] = opened[n]
      BY <3>1, GroundIs DEF BlockdevAdd, Put
    <3>. QED  BY <1>1, <3>3, <3>4, SnapshotKept
  <2>2. CASE GoesOnTop(w)
    <3>1. \A n, m : Above(nodes, n, m) => Above(nodes', n, m)
      BY <2>2, GroundIs, AboveSnapshot DEF GoesOnTop, CanBlockdevSnapshot
    <3>2. \A n \in DOMAIN nodes : n \in DOMAIN nodes' /\ opened'[n] = opened[n]
      BY <2>2 DEF GoesOnTop, BlockdevSnapshot
    <3>. QED  BY <1>1, <3>1, <3>2, SnapshotKept
  <2>3. ASSUME Closes(w), InSnapshot(v)
        PROVE  InSnapshot(v)' \/ GoesAway(f)'
    <3>. DEFINE k == QSDID[call[w].layer]
    <3>1. PICK n \in DOMAIN nodes : opened[n] = f /\ Above(nodes, n, QSDID[v])
      BY <2>3 DEF InSnapshot
    <3>2. CASE n = k
      <4>1. call[w].layer \in DOMAIN images /\ call[w].ptr.File = images[call[w].layer].File
        <5>1. call[w].pc = "blockdevDel" /\ VictimUnused(call[w])
          BY <2>3, GroundIs DEF Closes, SafeInv, CallsHold
        <5>. QED  BY <5>1 DEF VictimUnused, Deref
      <4>2. call'[w].pc = "remove" /\ call'[w].ptr.File = f
        BY <2>3, <3>1, <3>2, <4>1 DEF OpenedInv, Closes, Alike
      <4>. QED  BY <1>1, <4>2 DEF GoesAway
    <3>3. CASE n # k
      <4>1. Above(nodes', n, QSDID[v])
        BY <2>3, <3>1, <3>3, AboveDel, GroundIs DEF Closes
      <4>2. n \in DOMAIN nodes' /\ opened'[n] = opened[n]
        BY <2>3, <3>3 DEF Closes, BlockdevDel, Drop
      <4>. QED  BY <1>1, <3>1, <4>1, <4>2 DEF InSnapshot
    <3>. QED  BY <3>2, <3>3
  <2>4. CASE Exports(w) \/ Unexports(w)
    <3>1. UNCHANGED <<nodes, opened>>
      BY <2>4 DEF Exports, Unexports, BlockExportAdd, BlockExportDel
    <3>. QED  BY <1>1, <3>1, SnapshotKept
  <2>. QED  BY <2>1, <2>2, <2>3, <2>4
<1>. QED  BY <1>1, <1>2, <1>3 DEF Kept

LEMMA WrittenErases ==
  ASSUME Ground, WrittenInv, NEW w \in Workers, Erases(w)
  PROVE  WrittenInv'
<1>. SUFFICES ASSUME NEW v \in Volumes, written'[v] # Unwritten
              PROVE  Kept(v)'
  BY DEF WrittenInv
<1>1. written'[v] = written[v] /\ written[v].file # call[w].ptr.File
  BY DEF Erases
<1>2. Kept(v)
  BY <1>1 DEF WrittenInv
<1>3. ~GoesAway(written[v].file) /\ UNCHANGED <<nodes, opened>>
  BY <1>1 DEF GoesAway, Erases, graphVars, Ground, OneCall
<1>4. InSnapshot(v) => InSnapshot(v)'
  BY <1>1, <1>3, SnapshotKept
<1>5. /\ written[v].file \in files' /\ disk'[written[v].file] = disk[written[v].file]
      /\ written[v].file \in overwritten => written[v].file \in overwritten'
  BY <1>1, <1>2 DEF Erases, Kept
<1>. QED  BY <1>1, <1>2, <1>3, <1>4, <1>5 DEF Kept

LEMMA WrittenWrite ==
  ASSUME Ground, ExportsOwn, WrittenInv, SoleWriter, NEW u \in Volumes, GuestWrite(u)
  PROVE  WrittenInv'
<1>. DEFINE n == exports[QSDID[u]]
            f0 == opened[n]
            value == <<u, writes[u] + 1>>
<1>0. QSDID[u] \in DOMAIN exports /\ n \in DOMAIN nodes /\ f0 \in files
  BY GroundIs DEF GuestWrite
<1>1. /\ UNCHANGED <<nodes, files, opened, call>> /\ disk'[f0] = value
      /\ overwritten' = overwritten \ {f0}
      /\ \A f \in files : f # f0 => disk'[f] = disk[f]
      /\ written'[u] = [value |-> value, file |-> f0]
      /\ \A v \in Volumes : v # u => written'[v] = written[v]
  BY <1>0, GroundIs DEF GuestWrite, vars, graphVars, fsVars, Ground, DiskInv
<1>2. value # Hole
  BY ConstantsAssumption DEF Hole, ImageID
<1>3. Kept(u)'
  <2>1. CASE n = QSDID[u]
    <3>1. f0 = DiskFile(u)
      BY <1>0, <2>1, OpenedApart
    <3>. QED  BY <1>0, <1>1, <1>2, <3>1 DEF Kept
  <2>2. ASSUME NEW s \in Snapshots, n = QSDID[s]
        PROVE  Kept(u)'
    <3>1. f0[2] # None
      BY <1>0, <2>2, OpenedApart
    <3>2. Above(nodes, n, QSDID[u])
      BY <1>0 DEF Ground, ServerInv, GraphInv, ExportPlaced
    <3>3. InSnapshot(u)'
      BY <1>0, <1>1, <3>2 DEF InSnapshot
    <3>. QED  BY <1>0, <1>1, <1>2, <3>1, <3>3 DEF Kept
  <2>. QED  BY <1>0, <2>1, <2>2 DEF ExportsOwn
<1>4. ASSUME NEW v \in Volumes, v # u, written'[v] # Unwritten
      PROVE  Kept(v)'
  <2>1. Kept(v) /\ written'[v] = written[v]
    BY <1>1, <1>4 DEF WrittenInv
  <2>2. written[v].file # f0
    BY <1>0, <1>1, <1>4 DEF SoleWriter, Writes
  <2>3. InSnapshot(v) => InSnapshot(v)'
    BY <1>1, <2>1, SnapshotKept
  <2>4. GoesAway(written[v].file) => GoesAway(written[v].file)'
    BY <1>1, <2>1 DEF GoesAway
  <2>. HIDE DEF n, f0, value
  <2>. QED  BY <1>1, <2>1, <2>2, <2>3, <2>4 DEF Kept
<1>. QED  BY <1>3, <1>4 DEF WrittenInv

LEMMA WrittenStep ==
  ASSUME Ground, ExportsOwn, OpenedInv, WrittenInv, SoleWriter, [ClientNext]_allVars
  PROVE  WrittenInv'
<1>1. CASE DiskRestart
  <2>. SUFFICES ASSUME NEW v \in Volumes, written'[v] # Unwritten
                PROVE  Kept(v)'
    BY DEF WrittenInv
  <2>1. /\ written'[v] = written[v] /\ written[v].file = DiskFile(v)
        /\ UNCHANGED <<disk, files, overwritten>>
    BY <1>1 DEF DiskRestart, Restart, fsVars
  <2>. QED  BY <2>1 DEF WrittenInv, Kept
<1>. QED
  BY <1>1, WrittenElse, WrittenEmpties, WrittenGraph, WrittenErases, WrittenWrite, StepEffects, GroundIs
  DEF Ground

(* A volume that is made and not exposed yet has no other file.            *)
LEMMA NodeMadeFresh ==
  ASSUME Ground, WrittenInv, NEW v \in Volumes, NEW w \in Workers, NodeMade(w, v)
  PROVE  /\ QSDID[v] \notin DOMAIN exports' /\ OwnFile(v)'
<1>1. Continue(w) /\ call[w].pc \in {"addImage", "addBacked", "append"} /\ call[w].op = "CreateVolume"
      /\ call[w].id = v
  BY WorksContinue DEF NodeMade
<1>2. AddNode(w) /\ Open(w) /\ call'[w].pc = "store"
  BY <1>1 DEF NodeMade, Works, DiskContinue, Ground, CreatesInv, QemuImgCreate, AfterQemuImg, Append,
              DelNode, RemoveFile, Store, Export, Unexport, RemoveSocketDir, Release, RemoveDir, Reply
<1>3. Opens(w)
  <2>1. ~Fail(w)
    BY <1>2, GroundIs, FailIs
  <2>2. ~Else
    <3>1. call'[w] # call[w]
      BY <1>1, <1>2
    <3>. QED  BY <1>2, <3>1 DEF Else, Unmoved
  <2>. QED  BY <1>2, <2>2, EffectsAdd, GroundIs DEF Ground
<1>4. QSDID[v] \notin DOMAIN nodes /\ UNCHANGED <<exports, written>>
  BY <1>1, <1>3 DEF Opens, CanAddNode, CanBlockdevAdd, BlockdevAdd
<1>5. QSDID[v] \notin DOMAIN exports
  <2>. SUFFICES ASSUME QSDID[v] \in DOMAIN exports
                PROVE  FALSE
    OBVIOUS
  <2>1. exports[QSDID[v]] \in DOMAIN nodes /\ Above(nodes, exports[QSDID[v]], QSDID[v])
    BY DEF Ground, ServerInv, GraphInv, ExportPlaced
  <2>. QED  BY <1>4, <2>1, AboveIsNode, GroundIs
<1>6. ~InSnapshot(v)
  BY <1>4, AboveIsNode, GroundIs DEF InSnapshot
<1>7. ~GoesAway(written[v].file)
  BY <1>1 DEF GoesAway, Ground, OneCall
<1>8. OwnFile(v)
  BY <1>6, <1>7 DEF WrittenInv, Kept, OwnFile
<1>. QED  BY <1>4, <1>5, <1>8 DEF OwnFile

LEMMA OwnFileKept ==
  ASSUME Ground, [ClientNext]_allVars, NEW v \in Volumes, QSDID[v] \notin DOMAIN exports, OwnFile(v)
  PROVE  OwnFile(v)'
<1>1. CASE DiskRestart
  BY <1>1 DEF DiskRestart, OwnFile
<1>2. CASE Else
  BY <1>2 DEF Else, Steady, OwnFile
<1>3. ASSUME NEW w \in Workers, Empties(w)
      PROVE  OwnFile(v)'
  BY <1>3 DEF Empties, OwnFile
<1>4. ASSUME NEW w \in Workers, Erases(w)
      PROVE  OwnFile(v)'
  BY <1>4 DEF Erases, OwnFile
<1>5. ASSUME NEW w \in Workers, Opens(w) \/ GoesOnTop(w) \/ Closes(w) \/ Exports(w) \/ Unexports(w)
      PROVE  OwnFile(v)'
  BY <1>5 DEF Opens, GoesOnTop, Closes, Exports, Unexports, OwnFile
<1>6. ASSUME NEW u \in Volumes, GuestWrite(u)
      PROVE  OwnFile(v)'
  <2>1. written'[v] = written[v]
    BY <1>6 DEF GuestWrite, Ground, DiskInv
  <2>. QED  BY <2>1 DEF OwnFile
<1>. QED
  BY <1>1, <1>2, <1>3, <1>4, <1>5, <1>6, StepEffects, GroundIs DEF Ground

LEMMA StaysUnexported ==
  ASSUME Ground, [ClientNext]_allVars, NEW v \in Volumes, QSDID[v] \notin DOMAIN exports,
         \A w \in Workers : ~(Exports(w) /\ call[w].id = v)
  PROVE  QSDID[v] \notin DOMAIN exports'
<1>1. CASE DiskRestart
  BY <1>1 DEF DiskRestart, Restart, GraphReset, Empty
<1>2. CASE UNCHANGED exports
  BY <1>2
<1>3. ASSUME NEW w \in Workers, Exports(w)
      PROVE  QSDID[v] \notin DOMAIN exports'
  BY <1>3, GroundIs DEF Exports, BlockExportAdd, Put
<1>4. ASSUME NEW w \in Workers, GoesOnTop(w) \/ Unexports(w)
      PROVE  QSDID[v] \notin DOMAIN exports'
  BY <1>4 DEF GoesOnTop, BlockdevSnapshot, Unexports, BlockExportDel, Drop
<1>. QED
  BY <1>1, <1>2, <1>3, <1>4, StepEffects, GroundIs
  DEF Ground, Else, Steady, Empties, Opens, Closes, Erases, GuestWrite, vars, graphVars, BlockdevAdd, BlockdevDel

LEMMA PendingWrittenStep ==
  ASSUME Ground, CmdInv, CmdInv', WrittenInv, PendingWritten, [ClientNext]_allVars
  PROVE  PendingWritten'
<1>. SUFFICES ASSUME NEW v \in Volumes, Pending(v)'
              PROVE  QSDID[v] \notin DOMAIN exports' /\ OwnFile(v)'
  BY DEF PendingWritten
<1>1. CASE Pending(v)
  <2>1. QSDID[v] \notin DOMAIN exports /\ OwnFile(v)
    BY <1>1 DEF PendingWritten
  <2>2. ASSUME NEW w \in Workers, Exports(w), call[w].id = v
        PROVE  FALSE
    <3>1. call[w].pc = "export" /\ call'[w].pc = "succeeded" /\ call'[w].op = call[w].op /\ \A x \in Workers : x = w
      BY <2>2 DEF Exports, Ground, OneCall
    <3>2. call[w].op = "ExposeVhostUser"
      BY <3>1 DEF Ground, ServerInv, HandlerInv, StepsOf
    <3>3. ~AllIdle'
      BY <3>1 DEF AllIdle, Idle
    <3>4. ~Goes("ExposeVhostUser", v)'
      BY <3>3 DEF Goes, CmdInv, Ready
    <3>. QED  BY <3>1, <3>2, <3>4 DEF Pending, InCreate
  <2>. QED  BY <2>1, <2>2, OwnFileKept, StaysUnexported
<1>2. CASE DiskRestart
  <2>1. QSDID[v] \notin DOMAIN exports'
    BY <1>2 DEF DiskRestart, Restart, GraphReset, Empty
  <2>2. OwnFile(v)'
    BY <1>2 DEF DiskRestart, OwnFile
  <2>. QED  BY <2>1, <2>2
<1>3. ASSUME ~DiskRestart, ~Pending(v)
      PROVE  \E w \in Workers : NodeMade(w, v)
  BY <1>3, PendingComes, GroundIs DEF Ground, ServerInv
<1>. QED  BY <1>1, <1>2, <1>3, NodeMadeFresh

(* A file that holds what a guest wrote is not open as a new overlay.      *)
LEMMA FreshIsApart ==
  ASSUME Ground, OpenedInv, FreshBlank, WrittenInv, NEW w \in Workers, call[w].pc = "append",
         NEW v \in Volumes, written[v] # Unwritten
  PROVE  /\ disk[opened[QSDID[call[w].id]]] = Hole
         /\ opened[QSDID[call[w].id]] # written[v].file
<1>1. opened[QSDID[call[w].id]] = FileOf(call[w]) /\ disk[FileOf(call[w])] = Hole
  BY DEF OpenedInv, FreshBlank
<1>2. call[w].id \in Snapshots /\ Belongs(FileOf(call[w]), call[w].id)
  BY GroundIs, ConstantsAssumption, FileOfBelongs, NewNames DEF Ground, CreatesInv, CallOK
<1>3. FileOf(call[w])[2] # None
  BY <1>2, GroundIs, ConstantsAssumption DEF Belongs
<1>4. written[v].file \in overwritten => written[v].file[2] = None
  BY DEF Ground, DiskInv, OverwrittenEmpty
<1>. QED  BY <1>1, <1>3, <1>4 DEF WrittenInv, Kept

(* No other guest writes to the file a guest wrote to last.                *)
LEMMA SoleStep ==
  ASSUME Ground, ExportsOwn, ExportsApart, OpenedInv, FreshBlank, WrittenInv, SoleWriter, [ClientNext]_allVars
  PROVE  SoleWriter'
<1>. SUFFICES ASSUME NEW u \in Volumes, NEW v \in Volumes, Writes(u, v)'
              PROVE  u = v
  BY DEF SoleWriter
<1>0. Writes(u, v) => u = v
  BY DEF SoleWriter
<1>. DEFINE e == QSDID[u]
<1>1. CASE DiskRestart
  BY <1>1 DEF DiskRestart, Restart, GraphReset, Empty, Writes
<1>2. CASE Else
  BY <1>0, <1>2, GroundIs DEF Else, Steady, graphVars, Writes
<1>3. ASSUME NEW w \in Workers, Empties(w) \/ Erases(w) \/ Unexports(w)
      PROVE  u = v
  <2>1. /\ DOMAIN exports' \subseteq DOMAIN exports /\ \A d \in DOMAIN exports' : exports'[d] = exports[d]
        /\ UNCHANGED opened
    BY <1>3 DEF Empties, Erases, Unexports, graphVars, BlockExportDel, Drop
  <2>2. written'[v] \in {written[v], Unwritten}
    BY <1>3 DEF Empties, Erases, Unexports, Ground, DiskInv
  <2>. QED  BY <1>0, <2>1, <2>2 DEF Writes
<1>4. ASSUME NEW w \in Workers, Opens(w)
      PROVE  u = v
  <2>1. /\ UNCHANGED <<exports, written>> /\ \A n \in DOMAIN nodes : opened'[n] = opened[n]
    BY <1>4, GroundIs DEF Opens, BlockdevAdd, Put, CanAddNode, CanBlockdevAdd
  <2>. QED  BY <1>0, <2>1, GroundIs DEF Writes
<1>5. ASSUME NEW w \in Workers, GoesOnTop(w)
      PROVE  u = v
  <2>1. /\ UNCHANGED <<written, opened>> /\ DOMAIN exports' = DOMAIN exports /\ call[w].pc = "append"
        /\ \A d \in DOMAIN exports : exports'[d] \in {exports[d], QSDID[call[w].id]}
    BY <1>5 DEF GoesOnTop, BlockdevSnapshot
  <2>. QED  BY <1>0, <2>1, FreshIsApart DEF Writes
<1>6. ASSUME NEW w \in Workers, Closes(w)
      PROVE  u = v
  <2>1. /\ UNCHANGED <<written, exports>> /\ \A n \in DOMAIN nodes' : opened'[n] = opened[n]
        /\ \A d \in DOMAIN exports : exports[d] \in DOMAIN nodes'
    BY <1>6, GroundIs DEF Closes, CanBlockdevDel, BlockdevDel, Drop, InUse
  <2>. QED  BY <1>0, <2>1 DEF Writes
<1>7. ASSUME NEW w \in Workers, Exports(w)
      PROVE  u = v
  <2>. DEFINE n == QSDID[call[w].id]
  <2>1. /\ UNCHANGED <<written, opened>> /\ DOMAIN exports' = DOMAIN exports \cup {n} /\ exports'[n] = n
        /\ \A d \in DOMAIN exports : exports'[d] = exports[d]
        /\ n \in DOMAIN nodes
    BY <1>7 DEF Exports, CanBlockExportAdd, BlockExportAdd, Put
  <2>2. CASE e = n
    <3>1. written[v].file = DiskFile(u) /\ written[v] # Unwritten
      BY <2>1, <2>2, OpenedApart DEF Writes
    <3>2. written[v].file = DiskFile(v)
      BY <3>1 DEF WrittenInv, Kept, DiskFile
    <3>. QED  BY <3>1, <3>2 DEF DiskFile
  <2>3. CASE e # n
    BY <1>0, <2>1, <2>3 DEF Writes
  <2>. QED  BY <2>2, <2>3
<1>8. ASSUME NEW x \in Volumes, GuestWrite(x)
      PROVE  u = v
  <2>1. /\ UNCHANGED <<exports, opened>> /\ QSDID[x] \in DOMAIN exports
        /\ written'[x].file = opened[exports[QSDID[x]]] /\ (v # x => written'[v] = written[v])
    BY <1>8 DEF GuestWrite, vars, graphVars, Ground, DiskInv
  <2>2. CASE v = x
    <3>1. e \in DOMAIN exports /\ opened[exports[e]] = opened[exports[QSDID[x]]]
      BY <2>1, <2>2 DEF Writes
    <3>2. exports[e] = exports[QSDID[x]]
      BY <2>1, <3>1, OpenedApart, GroundIs
    <3>. QED  BY <2>1, <2>2, <3>1, <3>2, GroundIs DEF ExportsApart
  <2>3. CASE v # x
    BY <1>0, <2>1, <2>3 DEF Writes
  <2>. QED  BY <2>2, <2>3
<1>. QED
  BY <1>1, <1>2, <1>3, <1>4, <1>5, <1>6, <1>7, <1>8, StepEffects, GroundIs DEF Ground

(* The nodes a guest's read comes to lead it to what it wrote.             *)
LEMMA ReadQuiet ==
  ASSUME Ground, ReadInv, [ClientNext]_allVars, NEW v \in Volumes, Exposed(v)',
         Else \/ \E w \in Workers : Empties(w) \/ Erases(w) \/ Opens(w) \/ Unexports(w)
  PROVE  \E C : ReadThrough(v, C)'
<1>1. CASE Else
  <2>1. Exposed(v) /\ UNCHANGED <<exports, nodes, written>>
    BY <1>1 DEF Else, Steady, graphVars, Exposed
  <2>2. PICK C : ReadThrough(v, C)
    BY <2>1 DEF ReadInv
  <2>3. ReadThrough(v, C)'
    BY <1>1, <2>1, <2>2, GroundIs DEF Else, Steady, ReadThrough, OwnNode, Exposed
  <2>. QED  BY <2>3
<1>2. ASSUME NEW w \in Workers, Empties(w)
      PROVE  \E C : ReadThrough(v, C)'
  <2>1. written'[v] = written[v] /\ UNCHANGED <<exports, nodes, opened>>
        /\ \A f \in files : disk[f] = Hole => disk'[f] = Hole
    BY <1>2, GroundIs DEF Empties, graphVars, Exposed, Ground, DiskInv, Put
  <2>2. PICK C : ReadThrough(v, C)
    BY <2>1 DEF ReadInv, Exposed
  <2>3. ReadThrough(v, C)'
    BY <2>1, <2>2, GroundIs DEF ReadThrough, OwnNode
  <2>. QED  BY <2>3
<1>3. ASSUME NEW w \in Workers, Erases(w)
      PROVE  \E C : ReadThrough(v, C)'
  <2>1. written'[v] = written[v] /\ UNCHANGED <<exports, nodes, opened>>
    BY <1>3 DEF Erases, graphVars, Exposed
  <2>2. \A n \in DOMAIN nodes : disk'[opened[n]] = disk[opened[n]]
    <3>1. \A n \in DOMAIN nodes : opened[n] # call[w].ptr.File
      BY <1>3, RemovesUnopened DEF Erases, Ground
    <3>. QED  BY <1>3, <3>1, GroundIs DEF Erases
  <2>3. PICK C : ReadThrough(v, C)
    BY <2>1 DEF ReadInv, Exposed
  <2>4. ReadThrough(v, C)'
    BY <2>1, <2>2, <2>3 DEF ReadThrough, OwnNode
  <2>. QED  BY <2>4
<1>4. ASSUME NEW w \in Workers, Opens(w)
      PROVE  \E C : ReadThrough(v, C)'
  <2>1. /\ UNCHANGED <<exports, written, disk>>
        /\ \A n \in DOMAIN nodes : n \in DOMAIN nodes' /\ nodes'[n] = nodes[n] /\ opened'[n] = opened[n]
    BY <1>4, GroundIs DEF Opens, BlockdevAdd, Put, CanAddNode, CanBlockdevAdd
  <2>2. PICK C : ReadThrough(v, C)
    BY <2>1 DEF ReadInv, Exposed
  <2>3. ReadThrough(v, C)'
    BY <2>1, <2>2 DEF ReadThrough, OwnNode
  <2>. QED  BY <2>3
<1>5. ASSUME NEW w \in Workers, Unexports(w)
      PROVE  \E C : ReadThrough(v, C)'
  <2>1. /\ UNCHANGED <<nodes, opened, written, disk>> /\ DOMAIN exports' \subseteq DOMAIN exports
        /\ \A e \in DOMAIN exports' : exports'[e] = exports[e]
    BY <1>5 DEF Unexports, BlockExportDel, Drop
  <2>2. PICK C : ReadThrough(v, C)
    BY <2>1 DEF ReadInv, Exposed
  <2>3. ReadThrough(v, C)'
    BY <2>1, <2>2 DEF ReadThrough, OwnNode, Exposed
  <2>. QED  BY <2>3
<1>. QED  BY <1>1, <1>2, <1>3, <1>4, <1>5

LEMMA ReadOnTop ==
  ASSUME Ground, OpenedInv, FreshBlank, WrittenInv, ReadInv, NEW v \in Volumes, Exposed(v)',
         NEW w \in Workers, GoesOnTop(w)
  PROVE  \E C : ReadThrough(v, C)'
<1>0. PICK n, o : n = QSDID[call[w].layer] /\ o = QSDID[call[w].id]
  OBVIOUS
<1>1. /\ UNCHANGED <<written, disk, opened>> /\ call[w].pc = "append"
      /\ DOMAIN nodes' = DOMAIN nodes /\ DOMAIN exports' = DOMAIN exports
      /\ n # o /\ n \in DOMAIN nodes /\ o \in DOMAIN nodes /\ nodes[o] = None
      /\ (\A m \in DOMAIN nodes : nodes[m] # o) /\ \A e \in DOMAIN exports : exports[e] # o
      /\ nodes'[o] = n
      /\ \A m \in DOMAIN nodes : m # o => nodes'[m] = IF nodes[m] = n THEN o ELSE nodes[m]
      /\ \A e \in DOMAIN exports : exports'[e] = IF exports[e] = n THEN o ELSE exports[e]
  BY <1>0 DEF GoesOnTop, CanBlockdevSnapshot, BlockdevSnapshot, InUse
<1>2. PICK C : ReadThrough(v, C)
  BY <1>1 DEF ReadInv, Exposed
<1>3. disk[opened[o]] = Hole /\ opened[o] # written[v].file
  BY <1>0, <1>1, FreshIsApart DEF Exposed
<1>4. o \notin C
  BY <1>1, <1>2, <1>3, GroundIs DEF ReadThrough
<1>5. \E s \in Snapshots : o = QSDID[s]
  BY <1>0, <1>1, GroundIs, ConstantsAssumption DEF Ground, CreatesInv, CallOK
<1>6. CASE n \in C
  <2>. DEFINE D == C \cup {o}
  <2>1. D \subseteq DOMAIN nodes' /\ exports'[QSDID[v]] \in D
    BY <1>1, <1>2, <1>6 DEF ReadThrough, Exposed
  <2>2. \A m \in C : opened'[m] = written'[v].file \/ (disk'[opened'[m]] = Hole /\ nodes'[m] \in D)
    BY <1>1, <1>2, <1>4, <1>6 DEF ReadThrough
  <2>3. disk'[opened'[o]] = Hole /\ nodes'[o] \in D
    BY <1>1, <1>3, <1>6
  <2>4. \A m \in C : OwnNode(v, m)'
    BY <1>1, <1>2, <1>4 DEF ReadThrough, OwnNode
  <2>5. OwnNode(v, o)'
    BY <1>1, <1>2, <1>5, <1>6 DEF ReadThrough, OwnNode
  <2>6. ReadThrough(v, D)'
    BY <2>1, <2>2, <2>3, <2>4, <2>5 DEF ReadThrough
  <2>. QED  BY <2>6
<1>7. CASE n \notin C
  <2>1. C \subseteq DOMAIN nodes' /\ exports'[QSDID[v]] \in C
    BY <1>1, <1>2, <1>7 DEF ReadThrough, Exposed
  <2>2. \A m \in C : opened'[m] = written'[v].file \/ (disk'[opened'[m]] = Hole /\ nodes'[m] \in C)
    BY <1>1, <1>2, <1>4, <1>7 DEF ReadThrough
  <2>3. \A m \in C : OwnNode(v, m)'
    BY <1>1, <1>2, <1>4 DEF ReadThrough, OwnNode
  <2>. QED  BY <2>1, <2>2, <2>3 DEF ReadThrough
<1>. QED  BY <1>6, <1>7

LEMMA ReadCloses ==
  ASSUME Ground, ReadInv, NEW v \in Volumes, Exposed(v)', NEW w \in Workers, Closes(w)
  PROVE  \E C : ReadThrough(v, C)'
<1>0. PICK k : k = QSDID[call[w].layer]
  OBVIOUS
<1>1. /\ UNCHANGED <<written, disk, exports>> /\ DOMAIN nodes' = DOMAIN nodes \ {k}
      /\ \A n \in DOMAIN nodes' : nodes'[n] = nodes[n] /\ opened'[n] = opened[n]
      /\ (\A m \in DOMAIN nodes : nodes[m] # k) /\ \A e \in DOMAIN exports : exports[e] # k
  BY <1>0 DEF Closes, CanBlockdevDel, BlockdevDel, Drop, InUse
<1>2. PICK C : ReadThrough(v, C)
  BY <1>1 DEF ReadInv, Exposed
<1>3. ReadThrough(v, C \ {k})'
  BY <1>1, <1>2 DEF ReadThrough, OwnNode, Exposed
<1>. QED  BY <1>3

LEMMA ReadExports ==
  ASSUME Ground, ExportsOwn, ExportsApart', PendingWritten, ReadInv, NEW v \in Volumes, Exposed(v)',
         NEW w \in Workers, Exports(w)
  PROVE  \E C : ReadThrough(v, C)'
<1>0. PICK u, n : u = call[w].id /\ n = QSDID[u]
  OBVIOUS
<1>1. /\ UNCHANGED <<written, disk, opened, nodes>> /\ DOMAIN exports' = DOMAIN exports \cup {n}
      /\ exports'[n] = n /\ (\A e \in DOMAIN exports : exports'[e] = exports[e])
      /\ n \in DOMAIN nodes /\ n \notin DOMAIN exports /\ u \in Volumes /\ Pending(u)
  BY <1>0 DEF Exports, CanBlockExportAdd, BlockExportAdd, Put, Pending
<1>2. CASE v = u
  <2>1. written[v].file = DiskFile(v)
    BY <1>0, <1>1, <1>2 DEF PendingWritten, OwnFile, Exposed
  <2>2. opened[n] = DiskFile(v)
    BY <1>0, <1>1, <1>2, OpenedApart
  <2>3. OwnNode(v, n)'
    BY <1>0, <1>1, <1>2 DEF OwnNode, ExportsApart
  <2>4. ReadThrough(v, {n})'
    BY <1>0, <1>1, <1>2, <2>1, <2>2, <2>3 DEF ReadThrough
  <2>. QED  BY <2>4
<1>3. CASE v # u
  <2>1. QSDID[v] # n
    BY <1>0, <1>1, <1>3, GroundIs
  <2>2. PICK C : ReadThrough(v, C)
    BY <1>1, <2>1 DEF ReadInv, Exposed
  <2>3. n \notin C
    BY <1>0, <1>1, <2>1, <2>2, GroundIs DEF ReadThrough, OwnNode
  <2>4. ReadThrough(v, C)'
    BY <1>1, <2>1, <2>2, <2>3 DEF ReadThrough, OwnNode, Exposed
  <2>. QED  BY <2>4
<1>. QED  BY <1>2, <1>3

LEMMA ReadWrite ==
  ASSUME Ground, ExportsOwn, ExportsApart, ReadInv, NEW v \in Volumes, Exposed(v)',
         NEW u \in Volumes, GuestWrite(u)
  PROVE  \E C : ReadThrough(v, C)'
<1>0. PICK n : n = exports[QSDID[u]]
  OBVIOUS
<1>1. /\ UNCHANGED <<nodes, exports, opened, files>> /\ QSDID[u] \in DOMAIN exports /\ n \in DOMAIN nodes
      /\ (\A f \in files : f # opened[n] => disk'[f] = disk[f])
      /\ written'[u].file = opened[n] /\ (v # u => written'[v] = written[v])
  BY <1>0, GroundIs DEF GuestWrite, vars, graphVars, fsVars, Ground, DiskInv
<1>2. CASE v = u
  <2>1. OwnNode(u, n)
    BY <1>0, <1>1 DEF OwnNode, ExportsOwn, ExportsApart
  <2>2. OwnNode(v, n)'
    BY <1>1, <1>2, <2>1 DEF OwnNode
  <2>3. exports'[QSDID[v]] = n /\ opened'[n] = written'[v].file /\ n \in DOMAIN nodes'
    BY <1>0, <1>1, <1>2
  <2>4. ReadThrough(v, {n})'
    BY <2>2, <2>3 DEF ReadThrough
  <2>. QED  BY <2>4
<1>3. CASE v # u
  <2>1. PICK C : ReadThrough(v, C)
    BY <1>1, <1>3 DEF ReadInv, Exposed
  <2>2. n \notin C
    BY <1>0, <1>1, <1>3, <2>1, GroundIs DEF ReadThrough, OwnNode
  <2>3. \A m \in C : disk'[opened[m]] = disk[opened[m]]
    BY <1>1, <2>1, <2>2, OpenedApart, GroundIs DEF ReadThrough
  <2>4. ReadThrough(v, C)'
    BY <1>1, <1>3, <2>1, <2>3 DEF ReadThrough, OwnNode
  <2>. QED  BY <2>4
<1>. QED  BY <1>2, <1>3

LEMMA ReadStep ==
  ASSUME Ground, ExportsOwn, ExportsApart, OpenedInv, FreshBlank, WrittenInv, PendingWritten, ReadInv,
         [ClientNext]_allVars
  PROVE  ReadInv'
<1>. SUFFICES ASSUME NEW v \in Volumes, Exposed(v)'
              PROVE  \E C : ReadThrough(v, C)'
  BY DEF ReadInv
<1>1. ~DiskRestart
  BY DEF DiskRestart, Restart, GraphReset, Empty, Exposed
<1>2. ExportsApart'
  BY ApartExports
<1>. QED
  BY <1>1, <1>2, ReadQuiet, ReadOnTop, ReadCloses, ReadExports, ReadWrite, StepEffects, GroundIs DEF Ground

BackInv ==
  /\ ExportsOwn /\ ExportsApart /\ OpenedInv /\ FreshBlank
  /\ WrittenInv /\ PendingWritten /\ ReadInv /\ SoleWriter

LEMMA BackStep ==
  ASSUME Ground, CmdInv, CmdInv', BackInv, [ClientNext]_allVars
  PROVE  BackInv'
<1>1. ExportsOwn' /\ ExportsApart' /\ OpenedInv' /\ FreshBlank'
  BY OwnExports, ApartExports, OpenedStep, FreshStep DEF BackInv
<1>2. WrittenInv' /\ PendingWritten' /\ ReadInv' /\ SoleWriter'
  BY WrittenStep, PendingWrittenStep, ReadStep, SoleStep DEF BackInv
<1>. QED  BY <1>1, <1>2 DEF BackInv

LEMMA BackInit == ClientInit => BackInv
<1>. SUFFICES ASSUME ClientInit
              PROVE  BackInv
  OBVIOUS
<1>1. /\ DOMAIN exports = {} /\ DOMAIN images = {} /\ \A w \in Workers : call[w].pc = "idle"
      /\ \A v \in Volumes : written[v] = Unwritten
  BY DEF ClientInit, DiskInit, Init, GraphInit, Empty, NoCall
<1>2. ExportsOwn /\ ExportsApart /\ OpenedInv /\ FreshBlank
  BY <1>1 DEF ExportsOwn, ExportsApart, OpenedInv, FreshBlank
<1>3. WrittenInv /\ PendingWritten /\ ReadInv /\ SoleWriter
  BY <1>1 DEF WrittenInv, PendingWritten, OwnFile, ReadInv, Exposed, SoleWriter, Writes
<1>. QED  BY <1>2, <1>3 DEF BackInv

(* Down the nodes a read comes to there is one that holds the value, since *)
(* the nodes below one another come to an end.                             *)
LEMMA ReadsBack ==
  ASSUME Ground, NodesAcyclic, ReadsDown, WrittenInv, ReadInv
  PROVE  WritesReadBack
<1>. SUFFICES ASSUME NEW v \in Volumes, Exposed(v), written[v].file \notin overwritten
              PROVE  Contents[exports[QSDID[v]]] = written[v].value
  BY DEF WritesReadBack, Exposed
<1>1. PICK C : ReadThrough(v, C)
  BY DEF ReadInv
<1>. DEFINE Wrong == {n \in C : Contents[n] # written[v].value}
<1>2. C \subseteq DOMAIN nodes /\ exports[QSDID[v]] \in C /\ None \notin C
  BY <1>1, GroundIs DEF ReadThrough
<1>3. Wrong = {}
  <2>. SUFFICES ASSUME Wrong # {}
                PROVE  FALSE
    OBVIOUS
  <2>1. PICK n \in Wrong : nodes[n] \notin Wrong
    BY <1>2 DEF NodesAcyclic
  <2>2. Contents[n] = IF Ends(n) THEN disk[opened[n]] ELSE Contents[nodes[n]]
    BY <1>2, <2>1 DEF ReadsDown
  <2>3. CASE opened[n] = written[v].file
    BY <2>1, <2>2, <2>3 DEF WrittenInv, Kept, Exposed, Ends
  <2>4. CASE disk[opened[n]] = Hole /\ nodes[n] \in C
    BY <1>2, <2>1, <2>2, <2>4 DEF Ends
  <2>. QED  BY <1>1, <2>1, <2>3, <2>4 DEF ReadThrough
<1>. QED  BY <1>2, <1>3

(* A guest reads back what it wrote last, whatever snapshots are taken of  *)
(* its volume, whatever is made and deleted around it, and after a restart *)
(* of the server if the volume was made from no source: for one user whose *)
(* commands do not fail.  A CreateVolume from a source that empties the    *)
(* file the guest wrote to (commands.go:290) is all that undoes it.        *)
THEOREM GuestsReadBack ==
  ASSUME ~Disciplined, ~Failures, DistinctQSDIDs, OneUser
  PROVE  ClientSpec => []WritesReadBack
<1>0. OneCall
  BY ConstantsAssumption DEF OneCall
<1>1. ServerInv /\ CmdType /\ DiskInv /\ MirrorInv /\ CreatesInv => Ground
  BY <1>0 DEF Ground
<1>2. Ground /\ CmdInv /\ CmdInv' /\ BackInv /\ [ClientNext]_allVars => BackInv'
  BY BackStep
<1>3. ClientInit => BackInv
  BY BackInit
<1>4. ServerInv /\ DiskInv => ReadsDown
  BY ContentsReadsDown DEF ServerInv, GraphInv
<1>5. Ground /\ NodesAcyclic /\ ReadsDown /\ BackInv => WritesReadBack
  BY ReadsBack DEF BackInv
<1>6. ClientSpec => [](ServerInv /\ CmdType /\ DiskInv)
  BY DiskInductive
<1>7. ClientSpec => []MirrorInv
  BY MirrorClient
<1>8. ClientSpec => []CreatesInv
  BY CreatesClient
<1>9. ClientSpec => [](CmdInv /\ SealInv)
  BY UserInductive
<1>10. ClientSpec => []NodesAcyclic
  BY AcyclicClient
<1>. QED
  BY <1>1, <1>2, <1>3, <1>4, <1>5, <1>6, <1>7, <1>8, <1>9, <1>10, PTL DEF ClientSpec

-----------------------------------------------------------------------------
(* Nothing is left behind.  An image without references and owner is being *)
(* deleted by the call in progress, or is the backing image that the call  *)
(* turns to next, and without failing commands it does not stop before.    *)
Idles == UNCHANGED <<graphVars, memVars, fsVars, call>>
LEMMA StepKinds ==
  ASSUME Ground, [ClientNext]_allVars
  PROVE  /\ \/ DiskRestart \/ Idles
            \/ \E w \in Workers : Started(w) \/ (Works(w) /\ UNCHANGED undercut)
         /\ ~DiskRestart /\ undercut' = {} => undercut = {}
<1>1. TypeOK /\ CmdType
  BY GroundIs DEF Ground
<1>2. \A v \in Volumes : GuestWrite(v) => Idles
  BY DEF GuestWrite, Idles, vars
<1>3. Quiet => Idles
  BY DEF Quiet, Idles
<1>4. \A w \in Workers : Started(w) /\ undercut' = {} => undercut = {}
  BY DEF Started, Undercuts
<1>. QED  BY <1>1, <1>2, <1>3, <1>4, ClientSteps

LEMMA AboveTrans ==
  ASSUME NEW g, NEW k, NEW n, NEW m, Above(g, k, n), Above(g, n, m)
  PROVE  Above(g, k, m)
  BY DEF Above

(* While no overlay is between blockdev-add and Store, nothing in the graph*)
(* stands on an image that has no overlays.                                *)
LEMMA GraphLeaf ==
  ASSUME Ground, NEW i \in ImageID, Overlays(i) = {}, \A w \in Workers : call[w].pc # "store"
  PROVE  /\ \A m \in DOMAIN nodes : nodes[m] # QSDID[i]
         /\ \A n \in NodeName : Above(nodes, n, QSDID[i]) => n = QSDID[i]
<1>. DEFINE k == QSDID[i]
<1>1. ASSUME NEW m \in DOMAIN nodes
      PROVE  nodes[m] # k
  <2>0. k # None
    BY GroundIs
  <2>1. CASE Fresh(m)
    BY <2>0, <2>1 DEF Ground, MirrorInv, Fresh, OnItsWay
  <2>2. ASSUME NEW j \in DOMAIN images, QSDID[j] = m
        PROVE  nodes[m] # k
    <3>1. ~Gone(j)
      BY <2>2 DEF Gone, Ground, ServerInv, GraphInv, Placed
    <3>2. nodes[m] = NodeOf(images[j].BackingImageID)
      BY <2>2, <3>1 DEF Ground, MirrorInv, Linked
    <3>3. images[j].BackingImageID \in ImageID \cup {None} /\ images[j].BackingImageID # i
      BY GroundIs DEF MemTypeOK, QCOWImage, Overlays
    <3>. QED  BY <2>0, <3>2, <3>3, ConstantsAssumption DEF NodeOf, Ground, DistinctQSDIDs
  <2>. QED  BY <2>1, <2>2 DEF Ground, MirrorInv
<1>2. ASSUME NEW n \in NodeName, Above(nodes, n, k), n # k
      PROVE  FALSE
  <2>1. Closed(nodes, NodeName \ {k})
    BY <1>1, GroundIs DEF Closed, GraphTypeOK
  <2>. QED  BY <1>2, <2>1 DEF Above
<1>. QED  BY <1>1, <1>2

(* What CreateSnapshot works on stays the active layer of its volume.      *)
SourceInv ==
  \A w \in Workers : LET c == call[w] IN
    c.op = "CreateSnapshot" /\ c.pc \in CreatePC => c.layer = activeLayers[c.from]

LEMMA SourceStarted ==
  ASSUME Ground, NEW w \in Workers, Started(w)
  PROVE  SourceInv'
<1>0. TypeInv /\ (\A x \in Workers : x = w)
  BY GroundIs DEF Ground, OneCall
<1>1. ASSUME NEW s \in Snapshots, NEW v \in Volumes, CreateSnapshot(w, s, v)
      PROVE  SourceInv'
  <2>. DEFINE layer == activeLayers[v]
  <2>0. s \in ImageID /\ v \in ImageID
    BY DEF ImageID
  <2>1. CASE call'[w].pc \in CreatePC
    <3>1. PICK pc : Become(w, At(NewCall("CreateSnapshot", s, v), pc, layer, Deref(layer)))
      <4>1. ~Become(w, Failed(NewCall("CreateSnapshot", s, v)))
        BY <1>0, <2>0, <2>1, NewCallAt DEF Failed, Op
      <4>. QED  BY <1>1, <4>1 DEF CreateSnapshot
    <3>2. call'[w].layer = layer /\ call'[w].from = v
      BY <1>0, <2>0, <3>1, NewCallAt DEF Names, Op
    <3>3. UNCHANGED activeLayers
      BY <1>1 DEF CreateSnapshot, memVars
    <3>. QED  BY <1>0, <3>2, <3>3 DEF SourceInv
  <2>. QED  BY <1>0, <2>1 DEF SourceInv
<1>2. CASE call'[w].op # "CreateSnapshot"
  BY <1>0, <1>2 DEF SourceInv
<1>. QED
  BY <1>0, <1>1, <1>2, StartedNames DEF Started

LEMMA SourceStep ==
  ASSUME Ground, SourceInv, [ClientNext]_allVars
  PROVE  SourceInv'
<1>0. TypeInv
  BY GroundIs
<1>1. CASE DiskRestart
  BY <1>1 DEF DiskRestart, Restart, SourceInv, NoCall
<1>2. CASE Idles
  BY <1>2 DEF Idles, SourceInv, memVars
<1>3. ASSUME NEW w \in Workers, Works(w)
      PROVE  SourceInv'
  <2>0. Continue(w) /\ \A x \in Workers : x = w
    BY <1>3, WorksContinue DEF Ground, OneCall
  <2>1. CASE call'[w].pc \in CreatePC
    <3>1. call[w].pc \in CreatePC \ {"store"} \/ (call[w].pc = "store" /\ call'[w] = call[w])
      <4>1. Moves(call[w], call'[w])
        BY <1>0, <2>0, <2>1, ContinueMoves, CallIs DEF Reply, NoCall
      <4>. QED  BY <2>1, <4>1 DEF Moves, Follows
    <3>2. ~Store(w) /\ ~Fail(w) /\ ~Succeed(w)
      <4>1. \A c : Become(w, c) => c.pc \in CreatePC
        BY <1>0, <2>1, CallIs
      <4>2. Failed(call[w]).pc = "failed" /\ Succeeded(call[w]).pc = "succeeded"
        BY <1>0, CallIs, AtKeeps DEF Failed, Succeeded
      <4>. QED  BY <4>1, <4>2 DEF Store, Fail, Succeed
    <3>3. QemuImgCreate(w) \/ AddNode(w) \/ Append(w)
      BY <2>0, <3>1, <3>2 DEF Continue, Export, Unexport, RemoveSocketDir, DelNode, RemoveFile,
         Release, RemoveDir, Reply
    <3>4. UNCHANGED activeLayers /\ \E pc : Goto(w, pc)
      BY <3>2, <3>3 DEF QemuImgCreate, AddNode, Append, memVars
    <3>5. /\ call'[w].layer = call[w].layer /\ call'[w].op = call[w].op
          /\ call'[w].from = call[w].from /\ call[w].pc \in CreatePC
      BY <1>0, <3>1, <3>4, GotoFields
    <3>. QED  BY <2>0, <3>4, <3>5 DEF SourceInv
  <2>. QED  BY <2>0, <2>1 DEF SourceInv
<1>. QED  BY <1>1, <1>2, <1>3, SourceStarted, StepKinds

(* A volume that is being deleted has no export any more: DeleteVolume is  *)
(* called after DeleteExporter has returned without an error.              *)
Unserved(v) ==
  \/ \E w \in Workers :
       /\ call[w].id = v /\ call[w].pc # "idle"
       /\ \/ call[w].op = "DeleteVolume"
          \/ call[w].op = "DeleteExporter" /\ call[w].pc \in {"rmSocketDir", "succeeded"}
  \/ Goes("DeleteVolume", v)
UnservedInv == \A v \in Volumes : Unserved(v) => QSDID[v] \notin DOMAIN exports

LEMMA UnservedComes ==
  ASSUME Ground, CmdInv, [ClientNext]_allVars, ~DiskRestart, NEW v \in Volumes, Unserved(v)'
  PROVE  \/ Unserved(v)
         \/ \E w \in Workers : Unexport(w) /\ call[w].id = v /\ call'[w].pc = "rmSocketDir"
<1>0. TypeInv /\ CmdType /\ \A w \in Workers : StepsOf(call[w])
  BY GroundIs DEF Ground, ServerInv, HandlerInv
<1>1. CASE Goes("DeleteVolume", v)'
  BY <1>0, <1>1, GoesComes DEF Then, Unserved
<1>. DEFINE Out(c) == c.op = "DeleteVolume" \/ (c.op = "DeleteExporter" /\ c.pc \in {"rmSocketDir", "succeeded"})
<1>2. ASSUME NEW x \in Workers, call'[x].id = v, call'[x].pc # "idle", Out(call'[x])
      PROVE  \/ Unserved(v)
             \/ \E w \in Workers : Unexport(w) /\ call[w].id = v /\ call'[w].pc = "rmSocketDir"
  <2>1. CASE Idles
    BY <1>2, <2>1 DEF Idles, Unserved
  <2>2. ASSUME NEW w \in Workers, Started(w)
        PROVE  Unserved(v)
    <3>1. x = w
      BY DEF Ground, OneCall
    <3>2. \A u \in Volumes : DeleteExporter(w, u) => ~Out(call'[w])
      BY <1>0, StartUnexpose, StartedNames DEF Names
    <3>3. PICK u \in Volumes : Goes("DeleteVolume", u) /\ DeleteVolume(w, u)
      BY <1>0, <1>2, <2>2, <3>1, <3>2, StartedNames DEF Started
    <3>4. u = v
      BY <1>0, <1>2, <3>1, <3>3, StartedNames
    <3>. QED  BY <3>3, <3>4 DEF Unserved
  <2>3. ASSUME NEW w \in Workers, Works(w)
        PROVE  \/ Unserved(v)
               \/ Unexport(w) /\ call[w].id = v /\ call'[w].pc = "rmSocketDir"
    <3>1. x = w /\ Continue(w)
      BY <2>3, WorksContinue DEF Ground, OneCall
    <3>2. Moves(call[w], call'[w])
      BY <1>0, <1>2, <3>1, ContinueMoves, CallIs DEF Reply, NoCall
    <3>3. call[w].op = call'[w].op /\ call[w].id = v
      BY <1>2, <3>1, <3>2 DEF Moves, SameNames
    <3>6. call[w].pc # "idle"
      BY <3>1 DEF Continue, QemuImgCreate, AddNode, Append, Store, Export, Unexport, RemoveSocketDir,
         DelNode, RemoveFile, Release, RemoveDir, Reply, AfterQemuImg, AfterAdd
    <3>4. CASE call'[w].op = "DeleteVolume"
      BY <3>3, <3>4, <3>6 DEF Unserved
    <3>5. CASE call'[w].op = "DeleteExporter" /\ call'[w].pc \in {"rmSocketDir", "succeeded"}
      <4>1. call[w].pc \in {"unexport", "rmSocketDir", "succeeded"}
        BY <1>0, <3>2, <3>3, <3>5, CallIs DEF Moves, Follows, StepsOf, Deleting, CallOK
      <4>2. CASE call[w].pc = "unexport"
        <5>1. call'[w].pc = "rmSocketDir"
          BY <3>2, <3>5, <4>2 DEF Moves, Follows
        <5>2. Unexport(w)
          BY <3>1, <4>2 DEF Continue, QemuImgCreate, AddNode, Append, Store, Export, RemoveSocketDir,
             DelNode, RemoveFile, Release, RemoveDir, Reply, AfterQemuImg, AfterAdd
        <5>. QED  BY <3>3, <5>1, <5>2
      <4>. QED  BY <3>3, <3>5, <3>6, <4>1, <4>2 DEF Unserved
    <3>. QED  BY <1>2, <3>1, <3>4, <3>5
  <2>. QED  BY <2>1, <2>2, <2>3, StepKinds
<1>. QED  BY <1>1, <1>2 DEF Unserved

(* The call that exposes a volume is not made while one of these is.       *)
LEMMA UnservedUnexposed ==
  ASSUME Ground, CmdInv, NEW v \in Volumes, Unserved(v), NEW w \in Workers
  PROVE  ~(call[w].pc = "export" /\ call[w].id = v)
<1>1. \A x \in Workers : x = w /\ StepsOf(call[w])
  BY DEF Ground, OneCall, ServerInv, HandlerInv
<1>2. Goes("DeleteVolume", v) => Idle(w)
  BY DEF Goes, CmdInv, AllIdle, Ready
<1>. QED  BY <1>1, <1>2 DEF Unserved, StepsOf, Idle

LEMMA UnservedStep ==
  ASSUME Ground, CmdInv, UnservedInv, [ClientNext]_allVars
  PROVE  UnservedInv'
<1>1. CASE DiskRestart
  BY <1>1 DEF DiskRestart, Restart, GraphReset, Empty, UnservedInv
<1>2. ASSUME ~DiskRestart, NEW v \in Volumes, Unserved(v)'
      PROVE  QSDID[v] \notin DOMAIN exports'
  <2>1. CASE Unserved(v)
    <3>1. QSDID[v] \notin DOMAIN exports
      BY <2>1 DEF UnservedInv
    <3>. QED  BY <2>1, <3>1, UnservedUnexposed, StaysUnexported DEF Exports
  <2>2. ASSUME NEW w \in Workers, Unexport(w), call[w].id = v, call'[w].pc = "rmSocketDir"
        PROVE  QSDID[v] \notin DOMAIN exports'
    <3>1. ~Fail(w)
      BY <2>2, GroundIs, FailIs
    <3>. QED  BY <2>2, <3>1 DEF Unexport, BlockExportDel, Drop
  <2>. QED  BY <1>2, <2>1, <2>2, UnservedComes
<1>. QED  BY <1>1, <1>2 DEF UnservedInv

(* How the active layers change: Store sets one, and a volume loses its    *)
(* active layer to its own DeleteVolume.                                   *)
Sets(w, v) == Store(w) /\ v = TopOf(call[w])
LEMMA ActiveMoves ==
  ASSUME Ground, [ClientNext]_allVars, ~DiskRestart
  PROVE  /\ \A v \in DOMAIN activeLayers' :
              \/ v \in DOMAIN activeLayers /\ activeLayers'[v] = activeLayers[v]
              \/ \E w \in Workers : Sets(w, v) /\ activeLayers'[v] = call[w].id
         /\ \A v \in DOMAIN activeLayers \ DOMAIN activeLayers' : Unserved(v)'
<1>0. TypeInv /\ \A w, x \in Workers : w = x
  BY GroundIs DEF Ground, OneCall
<1>1. CASE Idles
  BY <1>1 DEF Idles, memVars
<1>2. ASSUME NEW w \in Workers, Started(w)
      PROVE  /\ \A v \in DOMAIN activeLayers' : v \in DOMAIN activeLayers /\ activeLayers'[v] = activeLayers[v]
             /\ \A v \in DOMAIN activeLayers \ DOMAIN activeLayers' : Unserved(v)'
  <2>1. CASE UNCHANGED activeLayers
    BY <2>1
  <2>2. ASSUME NEW u \in Volumes, DeleteVolume(w, u)
        PROVE  /\ \A v \in DOMAIN activeLayers' : v \in DOMAIN activeLayers /\ activeLayers'[v] = activeLayers[v]
               /\ \A v \in DOMAIN activeLayers \ DOMAIN activeLayers' : v = u
    BY <2>2 DEF DeleteVolume, Forget, Drop, memVars
  <2>3. \A u \in Volumes : DeleteVolume(w, u) => Unserved(u)'
    BY <1>0, StartedNames DEF Unserved
  <2>4. UNCHANGED activeLayers \/ \E u \in Volumes : DeleteVolume(w, u)
    BY <1>2 DEF Started, CreateVolume, CreateSnapshot, ExposeVhostUser, DeleteExporter, DeleteSnapshot, memVars
  <2>. QED  BY <2>1, <2>2, <2>3, <2>4
<1>3. ASSUME NEW w \in Workers, Works(w)
      PROVE  /\ \A v \in DOMAIN activeLayers' :
                  \/ v \in DOMAIN activeLayers /\ activeLayers'[v] = activeLayers[v]
                  \/ Sets(w, v) /\ activeLayers'[v] = call[w].id
             /\ \A v \in DOMAIN activeLayers \ DOMAIN activeLayers' : Unserved(v)'
  <2>0. Continue(w)
    BY <1>3, WorksContinue
  <2>1. CASE Store(w)
    BY <2>1 DEF Store, Put, Sets
  <2>2. CASE Release(w)
    <3>1. \A v \in DOMAIN activeLayers' : v \in DOMAIN activeLayers /\ activeLayers'[v] = activeLayers[v]
      BY <2>2 DEF Release, memVars, Forget, Drop
    <3>2. ASSUME NEW v \in DOMAIN activeLayers \ DOMAIN activeLayers'
          PROVE  Unserved(v)'
      <4>1. call[w].pc = "release" /\ DeletesItself(call[w]) /\ v = call[w].id
        BY <2>0, ActiveChange
      <4>2. Goto(w, "rmdir")
        BY <2>2, <3>2 DEF Release, memVars
      <4>3. call'[w].id = v /\ call'[w].op = "DeleteVolume" /\ call'[w].pc = "rmdir"
        BY <1>0, <4>1, <4>2, GotoFields DEF DeletesItself
      <4>. QED  BY <4>3 DEF Unserved
    <3>. QED  BY <3>1, <3>2
  <2>3. CASE ~Store(w) /\ ~Release(w)
    BY <2>0, <2>3 DEF Continue, QemuImgCreate, AddNode, Append, Export, Unexport, RemoveSocketDir, DelNode,
       RemoveFile, RemoveDir, Reply, memVars
  <2>. QED  BY <2>1, <2>2, <2>3
<1>. QED  BY <1>1, <1>2, <1>3, StepKinds

(* What Store records, and on what.                                        *)
LEMMA StoreIs ==
  ASSUME Ground, NEW w \in Workers, Store(w)
  PROVE  LET c == call[w] IN
         /\ c.pc = "store" /\ c.id \in ImageID \ DOMAIN images /\ TopOf(c) \in Volumes
         /\ c.op = "CreateVolume" \/ (c.op = "CreateSnapshot" /\ c.from \in DOMAIN activeLayers)
         /\ QSDID[c.id] \in NodeName
         /\ c.layer # None => Above(nodes, QSDID[c.id], QSDID[c.layer])
         /\ activeLayers' = Put(activeLayers, TopOf(c), c.id)
         /\ call'[w].pc = "succeeded" /\ UNCHANGED graphVars
<1>. DEFINE c == call[w]
<1>1. c.pc = "store" /\ CallOK(c) /\ c \in Call /\ Become(w, Succeeded(c))
  BY GroundIs DEF Store, Succeed
<1>2. c.id \in ImageID \ DOMAIN images /\ QSDID[c.id] \in NodeName /\ TopOf(c) \in Volumes
  BY <1>1, NewNames, FileOfType DEF Ground, MirrorInv, OnItsWay
<1>3. Placed(c, nodes, images, taken) /\ SourceActive(c, activeLayers)
  BY DEF Ground, ServerInv, GraphInv, OwnInv, Owned
<1>4. c.op = "CreateVolume" \/ (c.op = "CreateSnapshot" /\ c.from \in DOMAIN activeLayers)
  BY <1>1, <1>3 DEF CallOK, SourceActive
<1>5. call'[w].pc = "succeeded"
  BY <1>1, GroundIs, CallIs, AtKeeps DEF Succeeded
<1>. QED  BY <1>1, <1>2, <1>3, <1>4, <1>5 DEF Store, Placed

(* A volume that is going to be exposed has an active layer.               *)
PendingActive == \A v \in Volumes : Pending(v) /\ v \in DOMAIN images => v \in DOMAIN activeLayers

(* What is pending is not being deleted by its user.                       *)
LEMMA PendingServed ==
  ASSUME Ground, OneUser, CmdInv, NEW v \in Volumes, Pending(v)
  PROVE  ~Unserved(v)
<1>1. \A w, x \in Workers : w = x /\ StepsOf(call[w])
  BY DEF Ground, OneCall, ServerInv, HandlerInv
<1>2. \A pc : pc # "idle" /\ Goes(pc, v) => AllIdle
  BY DEF Goes, CmdInv, Ready
<1>3. ~(Goes("ExposeVhostUser", v) /\ Goes("DeleteVolume", v))
  BY DEF Goes, OneUser
<1>4. ASSUME NEW w \in Workers, call[w].id = v, InCreate(call[w]) \/ call[w].pc = "export", Unserved(v)
      PROVE  FALSE
  BY <1>1, <1>2, <1>4 DEF InCreate, Unserved, StepsOf, AllIdle, Idle
<1>5. Goes("ExposeVhostUser", v) => ~Unserved(v)
  BY <1>2, <1>3 DEF AllIdle, Idle, Unserved
<1>. QED  BY <1>4, <1>5 DEF Pending

LEMMA PendingActiveStep ==
  ASSUME Ground, Ground', OneUser, CmdInv, CmdInv', PendingActive, [ClientNext]_allVars
  PROVE  PendingActive'
<1>. SUFFICES ASSUME NEW v \in Volumes, Pending(v)', v \in DOMAIN images'
              PROVE  v \in DOMAIN activeLayers'
  BY DEF PendingActive
<1>0. TypeInv /\ HandlerInv /\ CmdType /\ OneCall /\ \A w, x \in Workers : w = x
  BY GroundIs DEF Ground, OneCall, ServerInv
<1>1. ~DiskRestart
  BY DEF DiskRestart, Restart, Empty
<1>2. ASSUME NEW w \in Workers, NodeMade(w, v)
      PROVE  FALSE
  <2>1. call'[w].id = v /\ call'[w].pc = "store"
    <3>1. Continue(w) /\ ~Reply(w)
      BY <1>2, WorksContinue DEF NodeMade, Reply
    <3>2. Moves(call[w], call'[w])
      BY <1>0, <3>1, ContinueMoves
    <3>. QED  BY <1>2, <3>2 DEF NodeMade, Moves, SameNames
  <2>. QED  BY <2>1 DEF Ground, MirrorInv, OnItsWay
<1>3. Pending(v)
  BY <1>0, <1>1, <1>2, PendingComes
<1>4. CASE v \in DOMAIN images
  <2>1. v \in DOMAIN activeLayers
    BY <1>3, <1>4 DEF PendingActive
  <2>2. ~Unserved(v)'
    <3>1. (Ground /\ OneUser /\ CmdInv /\ Pending(v) => ~Unserved(v))'
      BY PendingServed, PTL
    <3>. QED  BY <3>1 DEF OneUser
  <2>. QED  BY <1>1, <2>1, <2>2, ActiveMoves
<1>5. CASE v \notin DOMAIN images
  <2>1. PICK w \in Workers : Works(w) /\ Continue(w)
    <3>1. Idles => UNCHANGED images
      BY DEF Idles, memVars
    <3>2. \A w \in Workers : Started(w) => DOMAIN images' = DOMAIN images
      BY <1>0, StartedStarts, StartKeeps
    <3>. QED  BY <1>1, <1>5, <3>1, <3>2, StepKinds, WorksContinue
  <2>2. call[w].pc = "store" /\ v = call[w].id
    BY <1>0, <1>5, <2>1, ImageChange DEF KeepsOwner
  <2>3. Store(w)
    BY <2>1, <2>2 DEF Continue, QemuImgCreate, AddNode, Append, Export, Unexport, RemoveSocketDir, DelNode,
       RemoveFile, Release, RemoveDir, Reply, AfterQemuImg, AfterAdd
  <2>4. ~Goes("ExposeVhostUser", v)
    BY <2>2 DEF Goes, CmdInv, Ready, AllIdle, Idle
  <2>5. call[w].op = "CreateVolume"
    BY <1>0, <1>3, <2>2, <2>4 DEF Pending, InCreate
  <2>. QED  BY <2>2, <2>3, <2>5 DEF Store, TopOf, Put
<1>. QED  BY <1>4, <1>5

(* Nobody has undercut a volume: no two volumes have the same active layer,*)
(* and a volume's active layer stands on the volume's own image.           *)
ApartInv == undercut = {} => \A u, v \in DOMAIN activeLayers : activeLayers[u] = activeLayers[v] => u = v
ChainInv == undercut = {} => \A v \in DOMAIN activeLayers : Above(nodes, QSDID[activeLayers[v]], QSDID[v])

LEMMA ApartStep ==
  ASSUME Ground, ActiveInv, ApartInv, [ClientNext]_allVars
  PROVE  ApartInv'
<1>1. CASE DiskRestart
  BY <1>1 DEF DiskRestart, Restart, Empty, ApartInv
<1>2. CASE ~DiskRestart
  <2>. SUFFICES ASSUME undercut' = {}, NEW u \in DOMAIN activeLayers', NEW v \in DOMAIN activeLayers',
                       activeLayers'[u] = activeLayers'[v]
                PROVE  u = v
    BY DEF ApartInv
  <2>0. undercut = {} /\ \A w, x \in Workers : w = x
    BY <1>2, StepKinds DEF Ground, OneCall
  <2>1. ASSUME NEW w \in Workers, Store(w), NEW x \in DOMAIN activeLayers
        PROVE  activeLayers[x] # call[w].id
    BY <2>0, <2>1, StoreIs DEF ActiveInv, ActiveHeld
  <2>. QED  BY <1>2, <2>0, <2>1, ActiveMoves DEF ApartInv, Sets
<1>. QED  BY <1>1, <1>2

(* A layer that a volume stands on keeps standing where it does, until the *)
(* volume itself is deleted.                                               *)
LEMMA StandsOn ==
  ASSUME Ground, ActiveInv, [ClientNext]_allVars, ~DiskRestart, undercut = {},
         NEW v \in DOMAIN activeLayers, NEW m, Above(nodes, QSDID[activeLayers[v]], m)
  PROVE  \/ Above(nodes', QSDID[activeLayers[v]], m)
         \/ activeLayers[v] = v /\ Unserved(v)
<1>. DEFINE a == activeLayers[v]
<1>0. TypeInv /\ a \in ImageID
  BY GroundIs DEF MemTypeOK
<1>1. CASE Idles
  BY <1>1 DEF Idles, graphVars
<1>2. ASSUME NEW w \in Workers, Started(w)
      PROVE  UNCHANGED nodes
  BY <1>0, <1>2, StartedStarts, StartKeeps
<1>3. ASSUME NEW w \in Workers, Works(w)
      PROVE  Above(nodes', QSDID[a], m) \/ (a = v /\ Unserved(v))
  <2>1. CASE ~(call[w].pc = "blockdevDel" /\ QSDID[a] = QSDID[call[w].layer])
    BY <1>0, <1>3, <2>1, WorksContinue, AboveKept
  <2>2. CASE call[w].pc = "blockdevDel" /\ QSDID[a] = QSDID[call[w].layer]
    <3>1. a = call[w].layer
      BY <1>0, <2>2, GroundIs DEF Ground, DistinctQSDIDs, CallOK
    <3>2. DeletesItself(call[w]) /\ call[w].id = v
      BY <2>2, <3>1 DEF ActiveInv, ActiveHeld
    <3>. QED  BY <2>2, <3>1, <3>2 DEF DeletesItself, Unserved
  <2>. QED  BY <2>1, <2>2
<1>. QED  BY <1>1, <1>2, <1>3, StepKinds

LEMMA ChainStep ==
  ASSUME Ground, ActiveInv, SourceInv, ChainInv, [ClientNext]_allVars
  PROVE  ChainInv'
<1>1. CASE DiskRestart
  BY <1>1 DEF DiskRestart, Restart, Empty, ChainInv
<1>2. CASE ~DiskRestart
  <2>. SUFFICES ASSUME undercut' = {}, NEW v \in DOMAIN activeLayers'
                PROVE  Above(nodes', QSDID[activeLayers'[v]], QSDID[v])
    BY DEF ChainInv
  <2>0. undercut = {}
    BY <1>2, StepKinds
  <2>1. CASE v \in DOMAIN activeLayers /\ activeLayers'[v] = activeLayers[v]
    BY <1>2, <2>0, <2>1, StandsOn, AboveSelf DEF ChainInv
  <2>2. ASSUME NEW w \in Workers, Store(w), v = TopOf(call[w]), activeLayers'[v] = call[w].id
        PROVE  Above(nodes', QSDID[activeLayers'[v]], QSDID[v])
    <3>0. UNCHANGED nodes
      BY <2>2, StoreIs DEF graphVars
    <3>1. CASE call[w].op = "CreateVolume"
      BY <2>2, <3>1, AboveSelf DEF TopOf
    <3>2. CASE call[w].op = "CreateSnapshot" /\ call[w].from \in DOMAIN activeLayers
      <4>1. v = call[w].from /\ call[w].layer = activeLayers[v] /\ call[w].layer # None
        BY <2>2, <3>2, StoreIs, GroundIs, ConstantsAssumption DEF SourceInv, TopOf, MemTypeOK
      <4>2. Above(nodes, QSDID[call[w].id], QSDID[call[w].layer])
        BY <2>2, <4>1, StoreIs
      <4>3. Above(nodes, QSDID[call[w].layer], QSDID[v])
        BY <2>0, <3>2, <4>1 DEF ChainInv
      <4>. QED  BY <2>2, <3>0, <4>2, <4>3, AboveTrans
    <3>. QED  BY <2>2, <3>1, <3>2, StoreIs
  <2>. QED  BY <1>2, <2>1, <2>2, ActiveMoves DEF Sets
<1>. QED  BY <1>1, <1>2

(* And the volume's export serves its active layer, what stands under it,  *)
(* or the snapshot that is just taking the active layer's place.           *)
TakesOver(w, u) == call[w].pc = "store" /\ call[w].op = "CreateSnapshot" /\ call[w].from = u
Served(u) ==
  LET n == exports[QSDID[u]] IN
  \/ Above(nodes, QSDID[activeLayers[u]], n)
  \/ \E w \in Workers : TakesOver(w, u) /\ Above(nodes, QSDID[call[w].id], n)
ServedInv ==
  undercut = {} =>
    \A u \in Volumes : QSDID[u] \in DOMAIN exports => u \in DOMAIN activeLayers /\ Served(u)

LEMMA ServedStore ==
  ASSUME Ground, ActiveInv, SourceInv, NEW w \in Workers, Store(w),
         NEW u \in DOMAIN activeLayers, Served(u)
  PROVE  Served(u)'
<1>. DEFINE n == exports[QSDID[u]]
            c == call[w]
<1>0. UNCHANGED graphVars /\ \A x \in Workers : x = w
  BY StoreIs DEF Ground, OneCall
<1>1. CASE u = TopOf(c)
  <2>1. activeLayers'[u] = c.id
    BY <1>1, StoreIs DEF Put
  <2>2. c.op = "CreateSnapshot" /\ c.from = u /\ c.pc = "store"
    <3>1. u \in DOMAIN images
      BY DEF Ground, ServerInv, OwnInv, ActiveHasVolume
    <3>. QED  BY <1>1, <3>1, StoreIs DEF TopOf
  <2>3. c.layer = activeLayers[u] /\ c.layer # None
    BY <2>2, GroundIs, ConstantsAssumption DEF SourceInv, MemTypeOK
  <2>4. Above(nodes, QSDID[c.id], n)
    BY <1>0, <2>3, StoreIs, AboveTrans DEF Served
  <2>. QED  BY <1>0, <2>1, <2>4 DEF Served, graphVars
<1>2. CASE u # TopOf(c)
  <2>1. activeLayers'[u] = activeLayers[u]
    BY <1>2, StoreIs DEF Put
  <2>2. ~TakesOver(w, u)
    BY <1>2 DEF TakesOver, TopOf
  <2>. QED  BY <1>0, <2>1, <2>2 DEF Served, graphVars
<1>. QED  BY <1>1, <1>2

(* blockdev-snapshot moves the export that serves the layer, and that is   *)
(* the export of the volume that the snapshot is taken of.                 *)
LEMMA ServedOnTop ==
  ASSUME Ground, SourceInv, ApartInv, undercut = {}, NEW w \in Workers, Works(w), GoesOnTop(w),
         NEW u \in Volumes, QSDID[u] \in DOMAIN exports, u \in DOMAIN activeLayers, Served(u)
  PROVE  Served(u)'
<1>. DEFINE c == call[w]
            k == QSDID[c.layer]
            o == QSDID[c.id]
            e == QSDID[u]
<1>0. /\ TypeInv /\ Continue(w) /\ c.pc = "append" /\ c.layer \in DOMAIN images /\ Overlays(c.layer) = {}
      /\ \A x \in Workers : x = w
  <2>1. c.pc = "append"
    BY DEF GoesOnTop
  <2>. QED  BY <2>1, GroundIs, WorksContinue, CanAppend DEF Ground, ServerInv, OneCall
<1>1. call'[w].pc = "store" /\ call'[w].id = c.id /\ call'[w].from = c.from /\ call'[w].op = "CreateSnapshot"
      /\ c.op = "CreateSnapshot"
  <2>1. Moves(c, call'[w])
    BY <1>0, ContinueMoves DEF Reply
  <2>. QED  BY <1>0, <2>1 DEF GoesOnTop, Moves, SameNames, Ground, CreatesInv
<1>2. c.layer = activeLayers[c.from] /\ c.from \in DOMAIN activeLayers
  BY <1>0, <1>1 DEF SourceInv, Ground, ServerInv, OwnInv, Owned, SourceActive
<1>3. UNCHANGED activeLayers
  BY <1>0 DEF Continue, QemuImgCreate, AddNode, Append, Store, Export, Unexport, RemoveSocketDir, DelNode,
     RemoveFile, Release, RemoveDir, Reply, memVars, AfterQemuImg, AfterAdd
<1>4. Above(nodes, QSDID[activeLayers[u]], exports[e])
  BY <1>0 DEF Served, TakesOver
<1>5. CASE exports[e] = k
  <2>1. c.layer \in ImageID /\ activeLayers[u] \in ImageID /\ QSDID[activeLayers[u]] \in NodeName
    BY <1>0, GroundIs DEF MemTypeOK
  <2>2. QSDID[activeLayers[u]] = k
    BY <1>0, <1>4, <1>5, <2>1, GraphLeaf
  <2>3. u = c.from
    BY <1>2, <2>1, <2>2 DEF Ground, DistinctQSDIDs, ApartInv
  <2>4. exports'[e] = o
    BY <1>5 DEF GoesOnTop, BlockdevSnapshot
  <2>. QED  BY <1>1, <2>3, <2>4, AboveSelf DEF Served, TakesOver
<1>6. CASE exports[e] # k
  <2>1. exports'[e] = exports[e]
    BY <1>6 DEF GoesOnTop, BlockdevSnapshot
  <2>2. Above(nodes', QSDID[activeLayers[u]], exports[e])
    BY <1>4, GroundIs, AboveSnapshot DEF GoesOnTop, CanBlockdevSnapshot
  <2>. QED  BY <1>3, <2>1, <2>2 DEF Served
<1>. QED  BY <1>5, <1>6

(* Any other step that leaves the export where it is.                      *)
LEMMA ServedKept ==
  ASSUME Ground, ActiveInv, UnservedInv, [ClientNext]_allVars, ~DiskRestart, undercut = {},
         \A w \in Workers : ~Store(w),
         NEW u \in Volumes, QSDID[u] \in DOMAIN exports, exports'[QSDID[u]] = exports[QSDID[u]],
         u \in DOMAIN activeLayers, u \in DOMAIN activeLayers', Served(u)
  PROVE  Served(u)'
<1>. DEFINE n == exports[QSDID[u]]
<1>0. TypeInv /\ ~Unserved(u) /\ \A w, x \in Workers : w = x
  BY GroundIs DEF UnservedInv, Ground, OneCall
<1>1. activeLayers'[u] = activeLayers[u]
  BY ActiveMoves DEF Sets
<1>2. CASE Above(nodes, QSDID[activeLayers[u]], n)
  BY <1>0, <1>1, <1>2, StandsOn DEF Served
<1>3. ASSUME NEW w \in Workers, TakesOver(w, u), Above(nodes, QSDID[call[w].id], n)
      PROVE  Served(u)'
  <2>1. call[w].pc = "store"
    BY <1>3 DEF TakesOver
  <2>2. ~Started(w)
    BY <1>0, <2>1, StartedStarts, StartKeeps DEF Idle
  <2>3. ~Works(w)
    BY <2>1, WorksContinue DEF Continue, QemuImgCreate, AddNode, Append, Export, Unexport, RemoveSocketDir,
       DelNode, RemoveFile, Release, RemoveDir, Reply, AfterQemuImg, AfterAdd
  <2>4. Idles
    BY <1>0, <2>2, <2>3, StepKinds
  <2>. QED  BY <1>3, <2>4 DEF Idles, Served, TakesOver, graphVars, memVars
<1>. QED  BY <1>2, <1>3 DEF Served

LEMMA ServedStep ==
  ASSUME Ground, Ground', ActiveInv, CmdInv, SourceInv, UnservedInv, UnservedInv', PendingActive,
         ApartInv, ChainInv, ServedInv, [ClientNext]_allVars
  PROVE  ServedInv'
<1>. SUFFICES ASSUME undercut' = {}, NEW u \in Volumes, QSDID[u] \in DOMAIN exports'
              PROVE  u \in DOMAIN activeLayers' /\ Served(u)'
  BY DEF ServedInv
<1>. DEFINE e == QSDID[u]
<1>0. ~DiskRestart
  BY DEF DiskRestart, Restart, GraphReset, Empty
<1>1. undercut = {} /\ TypeInv /\ DiskInv /\ CmdType /\ OneCall /\ ~Failures /\ ~Unserved(u)'
  BY <1>0, StepKinds, GroundIs DEF Ground, UnservedInv
<1>2. ASSUME NEW w \in Workers, Works(w), Exports(w), call[w].id = u
      PROVE  u \in DOMAIN activeLayers' /\ Served(u)'
  <2>1. u \in DOMAIN activeLayers
    <3>1. u \in DOMAIN images
      BY <1>2 DEF Exports, CanBlockExportAdd, Ground, ServerInv, GraphInv, Placed, Known
    <3>2. Pending(u)
      BY <1>2 DEF Exports, Pending
    <3>. QED  BY <3>1, <3>2 DEF PendingActive
  <2>2. exports'[e] = e /\ UNCHANGED nodes
    BY <1>2 DEF Exports, BlockExportAdd, Put
  <2>3. ~Store(w)
    BY <1>2 DEF Exports, Store
  <2>4. u \in DOMAIN activeLayers' /\ activeLayers'[u] = activeLayers[u]
    BY <1>0, <1>1, <1>2, <2>1, <2>3, ActiveMoves DEF OneCall, Sets
  <2>. QED  BY <1>1, <2>1, <2>2, <2>4 DEF ChainInv, Served
<1>3. ASSUME \A w \in Workers : ~(Works(w) /\ Exports(w) /\ call[w].id = u)
      PROVE  u \in DOMAIN activeLayers' /\ Served(u)'
  <2>1. e \in DOMAIN exports
    <3>1. \A w \in Workers : ~(Exports(w) /\ call[w].id = u)
      <4>1. ASSUME NEW w \in Workers, Exports(w), call[w].id = u
            PROVE  Works(w)
        <5>1. exports' # exports
          BY <4>1 DEF Exports, CanBlockExportAdd, BlockExportAdd, Put
        <5>2. ~Idles /\ ~Started(w)
          BY <1>1, <5>1, StartedStarts, StartKeeps DEF Idles, graphVars
        <5>. QED  BY <1>0, <1>1, <5>2, StepKinds DEF OneCall
      <4>. QED  BY <1>3, <4>1
    <3>. QED  BY <3>1, StaysUnexported
  <2>2. u \in DOMAIN activeLayers /\ Served(u)
    BY <1>1, <2>1 DEF ServedInv
  <2>3. u \in DOMAIN activeLayers'
    BY <1>0, <1>1, <2>2, ActiveMoves
  <2>4. ASSUME NEW w \in Workers, Store(w)
        PROVE  Served(u)'
    BY <2>2, <2>4, ServedStore
  <2>5. ASSUME NEW w \in Workers, Works(w), GoesOnTop(w)
        PROVE  Served(u)'
    BY <1>1, <2>1, <2>2, <2>5, ServedOnTop
  <2>6. ASSUME \A w \in Workers : ~Store(w) /\ ~(Works(w) /\ GoesOnTop(w))
        PROVE  Served(u)'
    <3>1. exports'[e] = exports[e]
      <4>1. Idles \/ (\E w \in Workers : Started(w)) => UNCHANGED exports
        BY <1>1, StartedStarts, StartKeeps DEF Idles, graphVars
      <4>2. ASSUME NEW w \in Workers, Works(w)
            PROVE  exports'[e] = exports[e]
        <5>1. \/ Empties(w) \/ Opens(w) \/ Closes(w) \/ Erases(w) \/ Exports(w) \/ Unexports(w) \/ Else
          BY <1>1, <2>6, <4>2, Effects
        <5>. QED
          BY <2>1, <5>1 DEF Empties, Opens, Closes, Erases, Exports, Unexports, Else, Steady, graphVars,
             BlockdevAdd, BlockdevDel, BlockExportAdd, BlockExportDel, CanBlockExportAdd, Put, Drop
      <4>. QED  BY <1>0, <4>1, <4>2, StepKinds
    <3>. QED  BY <1>0, <1>1, <2>1, <2>2, <2>3, <2>6, <3>1, ServedKept
  <2>. QED  BY <2>3, <2>4, <2>5, <2>6
<1>. QED  BY <1>2, <1>3

(* The directories: deleteIfEmptyDir finds the one of the volume it is     *)
(* called for, which has held the volume's own disk.img to the last.       *)
FilesInDirs == \A f \in files : f[1] \in dirs
DirHeld(c) ==
  /\ c.pc = "rmdir" => c.layer # None /\ c.id \in dirs
  /\ c.pc = "release" /\ DeletesItself(c) => c.id \in dirs
DirsInv == FilesInDirs /\ \A w \in Workers : DirHeld(call[w])

LEMMA OwnDir ==
  ASSUME Ground, FilesInDirs, NEW v \in Volumes, v \in DOMAIN images,
         \A w \in Workers : ~(call[w].pc = "release" /\ call[w].layer = v)
  PROVE  v \in dirs
<1>1. images[v].File \in files
  BY DEF Ground, MirrorInv, HasFile
<1>2. images[v].File = DiskFile(v)
  BY DEF Ground, ServerInv, HandlerInv, Belongs
<1>. QED  BY <1>1, <1>2 DEF FilesInDirs, DiskFile

LEMMA DirsStarted ==
  ASSUME Ground, DirsInv, NEW w \in Workers, Started(w)
  PROVE  DirsInv'
<1>0. TypeInv /\ Starts(w) /\ Idle(w) /\ \A x \in Workers : x = w
  BY GroundIs, StartedStarts, StartKeeps DEF Ground, OneCall
<1>1. dirs \subseteq dirs' /\ UNCHANGED files
  BY <1>0, StartKeeps DEF Starts, CreateVolume, CreateSnapshot, ExposeVhostUser, DeleteExporter, DeleteVolume,
     DeleteSnapshot, fsVars
<1>2. ASSUME NEW v \in Volumes, DeleteVolume(w, v)
      PROVE  DirHeld(call[w])'
  <2>. DEFINE c == NewCall("DeleteVolume", v, None)
  <2>0. v \in ImageID /\ v # None /\ None \in ImageID \cup {None} /\ "DeleteVolume" \in Op
    BY ConstantsAssumption DEF ImageID, Op
  <2>1. CASE v \notin DOMAIN activeLayers
    <3>1. Become(w, At(c, "failed", None, Nil))
      BY <1>2, <2>1 DEF DeleteVolume, Failed
    <3>2. call'[w].pc = "failed"
      BY <1>0, <2>0, <3>1, NewCallAt
    <3>. QED  BY <3>2 DEF DirHeld
  <2>2. CASE v \in DOMAIN activeLayers
    <3>1. v \in DOMAIN images
      BY <2>2 DEF Ground, ServerInv, OwnInv, ActiveHasVolume
    <3>2. v \in dirs
      BY <1>0, <3>1, OwnDir DEF DirsInv, Idle
    <3>3. \/ Become(w, At(c, "failed", None, Nil)) \/ Become(w, At(c, "blockdevDel", v, Deref(v)))
          \/ Become(w, At(c, "rmdir", v, Deref(v)))
      BY <1>2, <3>1 DEF DeleteVolume, Failed
    <3>4. \/ call'[w].pc \in {"failed", "blockdevDel"}
          \/ call'[w].pc = "rmdir" /\ call'[w].layer = v /\ call'[w].id = v
      BY <1>0, <2>0, <3>3, NewCallAt DEF Names
    <3>. QED  BY <1>1, <2>0, <3>2, <3>4 DEF DirHeld
  <2>. QED  BY <2>1, <2>2
<1>3. ASSUME ~\E v \in Volumes : DeleteVolume(w, v)
      PROVE  call'[w].pc \notin {"rmdir", "release"}
  BY <1>0, <1>3, StartCreateVolume, StartCreateSnapshot, StartExpose, StartUnexpose, StartDeleteSnapshot
     DEF Starts, TurnsTo
<1>4. DirHeld(call[w])'
  BY <1>2, <1>3 DEF DirHeld
<1>. QED  BY <1>0, <1>1, <1>4 DEF DirsInv, FilesInDirs

LEMMA DirsWorks ==
  ASSUME Ground, Ground', DirsInv, NEW w \in Workers, Works(w)
  PROVE  DirsInv'
<1>. DEFINE c == call[w]
<1>0. TypeInv /\ Continue(w) /\ c \in Call /\ CallOK(c) /\ \A x \in Workers : x = w
  BY GroundIs, WorksContinue DEF Ground, OneCall
<1>1. FilesInDirs'
  <2>1. CASE QemuImgCreate(w)
    BY <2>1 DEF QemuImgCreate, Granted, CanCreateFile, DirsInv, FilesInDirs
  <2>2. CASE RemoveDir(w)
    BY <2>2 DEF RemoveDir, IsEmptyDir, DirsInv, FilesInDirs
  <2>3. CASE RemoveFile(w)
    BY <2>3 DEF RemoveFile, DirsInv, FilesInDirs
  <2>4. CASE ~QemuImgCreate(w) /\ ~RemoveDir(w) /\ ~RemoveFile(w)
    BY <1>0, <2>4 DEF Continue, AddNode, Append, Store, Export, Unexport, RemoveSocketDir, DelNode, Release, Reply,
       fsVars, DirsInv, FilesInDirs
  <2>. QED  BY <2>1, <2>2, <2>3, <2>4
<1>2. CASE Reply(w)
  <2>1. call'[w].pc = "idle"
    BY <1>0, <1>2, CallIs DEF Reply, NoCall
  <2>. QED  BY <1>0, <1>1, <2>1 DEF DirsInv, DirHeld
<1>3. CASE ~Reply(w)
  <2>0. Moves(c, call'[w])
    BY <1>0, <1>3, ContinueMoves
  <2>1. CASE RemoveDir(w)
    <3>1. \/ call'[w] = CleanUp(c, images, c.ptr.BackingImageID)
          \/ call'[w] = At(c, "panicked", None, Nil) \/ call'[w] = Failed(c)
      BY <1>0, <2>1, CallIs DEF RemoveDir, Fail, TypeInv, TypeOK
    <3>2. call'[w].pc \notin {"rmdir", "release"}
      BY <1>0, <3>1, AtKeeps DEF CleanUp, Failed, Succeeded
    <3>. QED  BY <1>0, <1>1, <3>2 DEF DirsInv, DirHeld
  <2>2. CASE Release(w)
    <3>1. call'[w].pc # "release"
      <4>1. \/ call'[w] = CleanUp(c, images', c.ptr.BackingImageID) \/ call'[w] = Failed(c)
            \/ Goto(w, "rmdir")
        BY <1>0, <2>2, CallIs DEF Release, Fail
      <4>. QED  BY <1>0, <4>1, AtKeeps, GotoFields DEF CleanUp, Failed, Succeeded
    <3>2. CASE call'[w].pc = "rmdir"
      <4>1. DeletesItself(c) /\ Goto(w, "rmdir")
        <5>1. CleanUp(c, images', c.ptr.BackingImageID).pc # "rmdir" /\ Failed(c).pc # "rmdir"
          BY <1>0, AtKeeps DEF CleanUp, Failed, Succeeded
        <5>. QED  BY <1>0, <2>2, <3>2, <5>1, CallIs DEF Release, Fail
      <4>2. call'[w].layer = c.layer /\ call'[w].id = c.id
        BY <1>0, <4>1, GotoFields
      <4>3. c.pc = "release" /\ c.layer # None /\ UNCHANGED dirs
        BY <1>0, <2>2, ConstantsAssumption DEF Release, CallOK, fsVars
      <4>. QED  BY <1>0, <1>1, <3>2, <4>1, <4>2, <4>3 DEF DirsInv, DirHeld
    <3>. QED  BY <1>0, <1>1, <3>1, <3>2 DEF DirsInv, DirHeld
  <2>3. CASE RemoveFile(w)
    <3>1. c.pc = "remove" /\ call'[w].pc # "rmdir" /\ UNCHANGED <<images, dirs>>
      BY <2>0, <2>3 DEF RemoveFile, Moves, Follows, memVars
    <3>2. CASE DeletesItself(call[w])' /\ call'[w].pc = "release"
      <4>1. c.layer = c.id /\ call'[w].id = c.id /\ c.op = "DeleteVolume"
        <5>1. ~Fail(w)
          BY <1>0, <3>2, FailIs
        <5>. QED  BY <1>0, <2>3, <3>2, <5>1, GotoFields DEF RemoveFile, DeletesItself
      <4>2. c.id \in Volumes /\ c.layer \in DOMAIN images
        BY <1>0, <3>1, <4>1 DEF CallOK, Ground, ServerInv, SafeInv, CallsHold, VictimUnused
      <4>3. c.id \in dirs
        BY <1>0, <3>1, <4>1, <4>2, OwnDir DEF DirsInv
      <4>. QED  BY <1>0, <1>1, <3>1, <4>1, <4>3 DEF DirsInv, DirHeld
    <3>. QED  BY <1>0, <1>1, <3>1, <3>2 DEF DirsInv, DirHeld
  <2>4. CASE ~RemoveDir(w) /\ ~Release(w) /\ ~RemoveFile(w)
    <3>1. UNCHANGED dirs
      BY <1>0, <2>4 DEF Continue, QemuImgCreate, AddNode, Append, Store, Export, Unexport, RemoveSocketDir, DelNode,
         Reply, fsVars
    <3>2. c.pc \notin {"rmdir", "release", "remove"}
      BY <1>0, <2>4 DEF Continue, QemuImgCreate, AddNode, Append, Store, Export, Unexport, RemoveSocketDir, DelNode,
         Reply, AfterQemuImg, AfterAdd
    <3>3. call'[w].pc \notin {"rmdir", "release"}
      BY <2>0, <3>2 DEF Moves, Follows
    <3>. QED  BY <1>0, <1>1, <3>3 DEF DirsInv, DirHeld
  <2>. QED  BY <2>1, <2>2, <2>3, <2>4
<1>. QED  BY <1>2, <1>3

LEMMA DirsStep ==
  ASSUME Ground, Ground', DirsInv, [ClientNext]_allVars
  PROVE  DirsInv'
<1>1. CASE DiskRestart
  BY <1>1 DEF DiskRestart, Restart, fsVars, DirsInv, FilesInDirs, DirHeld, NoCall
<1>2. CASE Idles
  BY <1>2 DEF Idles, fsVars, DirsInv, FilesInDirs, DirHeld, DeletesItself
<1>. QED  BY <1>1, <1>2, StepKinds, DirsStarted, DirsWorks

(* An image that nobody refers to is being deleted, or is next.            *)
Being(i) ==
  \E w \in Workers : \/ call[w].pc \in DeletePC /\ call[w].layer = i
                     \/ call[w].pc = "rmdir" /\ call[w].ptr.BackingImageID = i
GarbageInv == undercut = {} => \A i \in DOMAIN images : Collectable(images, i) => Being(i)

(* Deleting a volume or a snapshot leaves it without an owner only where   *)
(* it has references.                                                      *)
LEMMA GarbageStarted ==
  ASSUME Ground, ActiveInv, ChainInv, GarbageInv, undercut = {}, undercut' = {},
         NEW w \in Workers, Started(w), NEW i \in DOMAIN images'
  PROVE  ~Collectable(images', i)
<1>0. /\ TypeInv /\ MemTypeOK /\ Starts(w) /\ Idle(w) /\ DOMAIN images' = DOMAIN images
      /\ \A x \in Workers : x = w
  BY GroundIs, StartedStarts, StartKeeps DEF Ground, OneCall
<1>1. ~Collectable(images, i) /\ images[i].RefCount \in Int
  BY <1>0 DEF GarbageInv, Being, Idle, MemTypeOK, QCOWImage
<1>2. CASE UNCHANGED images
  BY <1>1, <1>2
<1>3. ASSUME NEW id, images' = DropVolumeRef(images, id), id = i => images[i].RefCount > 0
      PROVE  ~Collectable(images', i)
  <2>1. images'[i].RefCount = images[i].RefCount /\ (i # id => images'[i].VolumeRef = images[i].VolumeRef)
    BY <1>0, <1>3 DEF DropVolumeRef, MemTypeOK, QCOWImage
  <2>. QED  BY <1>0, <1>1, <1>3, <2>1 DEF Collectable
<1>4. ASSUME NEW v \in Volumes, DeleteVolume(w, v), images' # images
      PROVE  ~Collectable(images', i)
  <2>1. /\ v \in DOMAIN activeLayers /\ activeLayers[v] \in DOMAIN images /\ ~DeletableVolume(v)
        /\ images' = DropVolumeRef(images, v) /\ v \in DOMAIN images
    BY <1>4 DEF DeleteVolume, memVars
  <2>2. ASSUME images[v].RefCount < 1
        PROVE  FALSE
    <3>1. activeLayers[v] # v
      BY <2>1, <2>2 DEF DeletableVolume
    <3>2. Overlays(v) = {}
      BY <1>0, <2>1, <2>2, UnreferencedIsLeaf DEF Ground, ServerInv, SafeInv, MapInv
    <3>3. activeLayers[v] \in ImageID /\ v \in ImageID /\ QSDID[activeLayers[v]] \in NodeName
      BY <1>0, <2>1, GroundIs DEF MemTypeOK
    <3>4. QSDID[activeLayers[v]] = QSDID[v]
      BY <1>0, <2>1, <3>2, <3>3, GraphLeaf DEF ChainInv, Idle
    <3>. QED  BY <3>1, <3>3, <3>4 DEF Ground, DistinctQSDIDs
  <2>3. images[v].RefCount \in Int
    BY <1>0, <2>1 DEF MemTypeOK, QCOWImage
  <2>. QED  BY <1>3, <2>1, <2>2, <2>3
<1>5. ASSUME NEW s \in Snapshots, NEW v \in Volumes, DeleteSnapshot(w, s, v), Undercuts(s), images' # images
      PROVE  ~Collectable(images', i)
  <2>1. s \in DOMAIN images /\ ~DeletableSnapshot(s, v) /\ images' = DropVolumeRef(images, s)
    BY <1>5 DEF DeleteSnapshot
  <2>2. ~IsActiveLayer(s, v)
    BY <1>5, <2>1 DEF Undercuts
  <2>3. images[s].RefCount \in Int
    BY <1>0, <2>1 DEF MemTypeOK, QCOWImage
  <2>. QED  BY <1>3, <2>1, <2>2, <2>3 DEF DeletableSnapshot
<1>6. UNCHANGED images \/ (\E v \in Volumes : DeleteVolume(w, v))
        \/ \E s \in Snapshots, v \in Volumes : DeleteSnapshot(w, s, v) /\ Undercuts(s)
  BY DEF Started, CreateVolume, CreateSnapshot, ExposeVhostUser, DeleteExporter, memVars
<1>. QED  BY <1>2, <1>4, <1>5, <1>6

(* A new layer has an owner, and the others have not lost a reference.     *)
LEMMA GarbageStore ==
  ASSUME Ground, GarbageInv, undercut = {}, NEW w \in Workers, Store(w), NEW i \in DOMAIN images'
  PROVE  ~Collectable(images', i)
<1>0. TypeInv /\ MemTypeOK /\ SafeInv /\ Continue(w) /\ call[w].pc = "store" /\ \A x \in Workers : x = w
  BY GroundIs DEF Ground, OneCall, Continue, Store
<1>1. \A j \in DOMAIN images : ~Collectable(images, j)
  BY <1>0 DEF GarbageInv, Being
<1>2. CASE ~KeepsOwner(i)
  <2>1. images'[i].VolumeRef = call[w].id /\ i = call[w].id
    BY <1>0, <1>2, ImageChange
  <2>2. call[w].id # None
    BY <2>1, StoreIs, ConstantsAssumption
  <2>. QED  BY <2>1, <2>2 DEF Collectable
<1>3. CASE KeepsOwner(i)
  <2>1. PICK id, b : Adds(id, b)
    BY <1>0, StoreEffect
  <2>2. CASE i = id
    <3>1. call[w].id \in DOMAIN images'
      BY DEF Store, Put
    <3>2. id = call[w].id
      BY <1>3, <2>1, <2>2, <3>1, StoreIs DEF Adds, KeepsOwner
    <3>. QED  BY <1>3, <2>2, <3>2, StoreIs DEF KeepsOwner
  <2>3. CASE i # id
    <3>1. images'[i].RefCount >= images[i].RefCount /\ images[i].RefCount \in Int
      BY <1>3, <2>1, <2>3 DEF Adds, KeepsOwner
    <3>2. images'[i].RefCount \in Int
      BY <1>3, <2>1, <2>3 DEF Adds, KeepsOwner
    <3>. QED  BY <1>1, <1>3, <3>1, <3>2 DEF Collectable, KeepsOwner
  <2>. QED  BY <2>2, <2>3
<1>. QED  BY <1>2, <1>3

(* The backing image that loses a reference is the next, or next but one.  *)
LEMMA GarbageRelease ==
  ASSUME Ground, GarbageInv, undercut = {}, NEW w \in Workers, Release(w), NEW i \in DOMAIN images',
         Collectable(images', i)
  PROVE  Being(i)'
<1>. DEFINE c == call[w]
<1>0. /\ TypeInv /\ MemTypeOK /\ SafeInv /\ OwnInv /\ Continue(w) /\ c.pc = "release" /\ c \in Call
      /\ \A x \in Workers : x = w
  BY GroundIs DEF Ground, OneCall, Continue, Release
<1>1. PICK l, b : /\ Removes(l, b)
                  /\ Goto(w, "rmdir") \/ Become(w, CleanUp(c, images', b))
  BY <1>0, ReleaseEffect
<1>2. c.layer \in DOMAIN images /\ c.layer \notin DOMAIN images' /\ c.ptr = Deref(c.layer)
  BY <1>0, ReleaseRemoves DEF SafeInv, CallsHold, VictimUnused
<1>3. l = c.layer /\ b = c.ptr.BackingImageID
  BY <1>1, <1>2 DEF Removes, Deref
<1>4. i \in DOMAIN images /\ i # c.layer /\ images'[i].VolumeRef = images[i].VolumeRef
  BY <1>0, <1>2, ReleaseMaps
<1>5. CASE i # b
  <2>1. images'[i].RefCount = images[i].RefCount
    BY <1>1, <1>5 DEF Removes
  <2>2. Collectable(images, i)
    BY <1>4, <2>1 DEF Collectable
  <2>. QED  BY <1>0, <1>4, <2>2 DEF GarbageInv, Being
<1>6. CASE i = b
  <2>1. CASE Goto(w, "rmdir")
    <3>1. call'[w].pc = "rmdir" /\ call'[w].ptr.BackingImageID = i
      BY <1>0, <1>3, <1>6, <2>1, GotoFields
    <3>. QED  BY <3>1 DEF Being
  <2>2. CASE Become(w, CleanUp(c, images', b))
    <3>1. call'[w] = At(c, "blockdevDel", i, Deref(i))
      BY <1>0, <1>6, <2>2, CallIs DEF CleanUp
    <3>2. call'[w].pc = "blockdevDel" /\ call'[w].layer = i
      BY <1>0, <3>1, AtKeeps
    <3>. QED  BY <3>2 DEF Being
  <2>. QED  BY <1>1, <2>1, <2>2
<1>. QED  BY <1>5, <1>6

(* blockdev-del of an image that nobody refers to is granted: nothing is   *)
(* stacked on it, and no volume's export serves it.                        *)
LEMMA GarbageUnused ==
  ASSUME Ground, ActiveInv, ServedInv, undercut = {}, NEW i \in DOMAIN images, Collectable(images, i),
         \A w \in Workers : call[w].pc \notin {"store", "remove", "release"}
  PROVE  CanBlockdevDel(QSDID[i])
<1>0. MemTypeOK /\ i \in ImageID
  BY GroundIs DEF MemTypeOK
<1>1. images[i].RefCount < 1 /\ images[i].VolumeRef = None
  BY <1>0 DEF Collectable, MemTypeOK, QCOWImage
<1>2. Overlays(i) = {}
  BY <1>0, <1>1, UnreferencedIsLeaf DEF Ground, ServerInv, SafeInv, MapInv
<1>3. QSDID[i] \in DOMAIN nodes
  BY DEF Ground, MirrorInv, Gone, Linked
<1>4. ASSUME NEW e \in DOMAIN exports, exports[e] = QSDID[i]
      PROVE  FALSE
  <2>1. PICK u \in Volumes : QSDID[u] = e
    BY DEF Ground, ServerInv, GraphInv, ExportPlaced
  <2>2. u \in DOMAIN activeLayers /\ Above(nodes, QSDID[activeLayers[u]], QSDID[i])
    BY <1>4, <2>1 DEF ServedInv, Served, TakesOver
  <2>3. activeLayers[u] \in ImageID /\ QSDID[activeLayers[u]] \in NodeName
    BY <1>0, <2>2, GroundIs DEF MemTypeOK
  <2>4. activeLayers[u] = i
    BY <1>0, <1>2, <2>2, <2>3, GraphLeaf DEF Ground, DistinctQSDIDs
  <2>. QED  BY <1>1, <2>2, <2>4 DEF ActiveInv, ActiveHeld
<1>. QED  BY <1>0, <1>2, <1>3, <1>4, GraphLeaf DEF CanBlockdevDel, InUse

(* The steps of a walk that leave the map alone go on to the next one.     *)
LEMMA GarbageWalk ==
  ASSUME Ground, ActiveInv, DirsInv, ServedInv, GarbageInv, undercut = {}, NEW w \in Workers,
         DelNode(w) \/ RemoveFile(w) \/ RemoveDir(w), NEW i \in DOMAIN images, Collectable(images, i)
  PROVE  Being(i)'
<1>. DEFINE c == call[w]
<1>a. /\ TypeInv /\ c \in Call /\ ~Failures /\ OneCall
  BY GroundIs DEF Ground
<1>b. \A x \in Workers : x = w
  BY <1>a DEF OneCall
<1>c. PICK y \in Workers : \/ call[y].pc \in DeletePC /\ call[y].layer = i
                           \/ call[y].pc = "rmdir" /\ call[y].ptr.BackingImageID = i
  BY DEF GarbageInv, Being
<1>d. y = w
  BY <1>b
<1>0. /\ TypeInv /\ c \in Call /\ ~Failures
      /\ (c.pc \in DeletePC /\ c.layer = i) \/ (c.pc = "rmdir" /\ c.ptr.BackingImageID = i)
  BY <1>a, <1>c, <1>d
<1>1. ASSUME NEW pc \in DeletePC, Goto(w, pc), c.pc \in DeletePC
      PROVE  Being(i)'
  BY <1>0, <1>1, GotoFields DEF Being
<1>2. CASE DelNode(w)
  <2>1. c.pc = "blockdevDel" /\ c.layer = i
    BY <1>0, <1>2 DEF DelNode
  <2>2. \A x \in Workers : call[x].pc \notin {"store", "remove", "release"}
    BY <1>b, <2>1
  <2>3. CanBlockdevDel(QSDID[c.layer])
    BY <2>1, <2>2, GarbageUnused
  <2>4. Goto(w, "remove")
    BY <1>0, <1>2, <2>3, RefusedOnly DEF DelNode
  <2>. QED  BY <1>1, <1>2, <2>4 DEF DelNode
<1>3. CASE RemoveFile(w)
  <2>1. c.pc = "remove" /\ c.layer \in DOMAIN images /\ c.ptr.File = images[c.layer].File
    <3>1. c.pc = "remove"
      BY <1>3 DEF RemoveFile
    <3>2. VictimUnused(c)
      BY DEF Ground, ServerInv, SafeInv, CallsHold
    <3>3. c.layer \in DOMAIN images /\ c.ptr = Deref(c.layer)
      BY <3>1, <3>2 DEF VictimUnused, DeletePC
    <3>. QED  BY <3>1, <3>3 DEF Deref
  <2>2. c.ptr.File \in files
    <3>1. HasFile(c.layer)
      BY <2>1 DEF Ground, MirrorInv
    <3>2. ~\E x \in Workers : call[x].pc = "release" /\ call[x].layer = c.layer
      BY <1>b, <2>1
    <3>. QED  BY <2>1, <3>1, <3>2 DEF HasFile
  <2>3. Goto(w, "release")
    BY <1>0, <1>3, <2>2, RefusedOnly DEF RemoveFile
  <2>. QED  BY <1>1, <2>1, <2>3
<1>4. CASE RemoveDir(w)
  <2>1. c.id \in dirs /\ c.layer # None /\ c.ptr.BackingImageID = i
    BY <1>0, <1>4 DEF RemoveDir, DirsInv, DirHeld
  <2>2. Become(w, At(c, "blockdevDel", i, Deref(i)))
    BY <1>0, <1>4, <2>1, RefusedOnly DEF RemoveDir, CleanUp
  <2>3. call'[w].pc = "blockdevDel" /\ call'[w].layer = i
    BY <1>0, <2>2, CallIs, AtKeeps
  <2>. QED  BY <2>3 DEF Being
<1>. QED  BY <1>2, <1>3, <1>4

LEMMA GarbageStep ==
  ASSUME Ground, ActiveInv, DirsInv, ChainInv, ServedInv, GarbageInv, [ClientNext]_allVars
  PROVE  GarbageInv'
<1>. SUFFICES ASSUME undercut' = {}, NEW i \in DOMAIN images', Collectable(images', i)
              PROVE  Being(i)'
  BY DEF GarbageInv
<1>0. ~DiskRestart /\ undercut = {}
  <2>1. ~DiskRestart
    BY DEF DiskRestart, Restart, Empty
  <2>. QED  BY <2>1, StepKinds
<1>1. CASE Idles
  BY <1>0, <1>1 DEF Idles, memVars, GarbageInv, Being
<1>2. ASSUME NEW w \in Workers, Started(w)
      PROVE  FALSE
  BY <1>0, <1>2, GarbageStarted
<1>3. ASSUME NEW w \in Workers, Works(w)
      PROVE  Being(i)'
  <2>0. Continue(w) /\ \A x \in Workers : x = w
    BY <1>3, WorksContinue DEF Ground, OneCall
  <2>1. CASE Store(w)
    BY <1>0, <2>1, GarbageStore
  <2>2. CASE Release(w)
    BY <1>0, <2>2, GarbageRelease
  <2>3. CASE DelNode(w) \/ RemoveFile(w) \/ RemoveDir(w)
    <3>1. UNCHANGED images
      BY <2>3 DEF DelNode, RemoveFile, RemoveDir, memVars
    <3>. QED  BY <1>0, <2>3, <3>1, GarbageWalk
  <2>4. CASE /\ ~Store(w) /\ ~Release(w) /\ ~DelNode(w) /\ ~RemoveFile(w) /\ ~RemoveDir(w)
    <3>1. UNCHANGED images /\ call[w].pc \notin RemovePC
      BY <2>0, <2>4 DEF Continue, QemuImgCreate, AddNode, Append, Export, Unexport, RemoveSocketDir, Reply,
         memVars, AfterQemuImg, AfterAdd
    <3>2. ~Being(i)
      BY <2>0, <3>1 DEF Being
    <3>. QED  BY <1>0, <3>1, <3>2 DEF GarbageInv
  <2>. QED  BY <2>1, <2>2, <2>3, <2>4
<1>. QED  BY <1>0, <1>1, <1>2, <1>3, StepKinds

LeftInv ==
  /\ SourceInv /\ UnservedInv /\ PendingActive /\ DirsInv
  /\ ApartInv /\ ChainInv /\ ServedInv /\ GarbageInv

LEMMA LeftInit == ClientInit => LeftInv
<1>. SUFFICES ASSUME ClientInit
              PROVE  LeftInv
  OBVIOUS
<1>1. /\ DOMAIN exports = {} /\ DOMAIN images = {} /\ DOMAIN activeLayers = {} /\ files = {}
      /\ \A w \in Workers : call[w].pc = "idle"
  BY DEF ClientInit, DiskInit, Init, GraphInit, Empty, NoCall
<1>2. SourceInv /\ UnservedInv /\ PendingActive /\ DirsInv
  BY <1>1 DEF SourceInv, UnservedInv, PendingActive, DirsInv, FilesInDirs, DirHeld
<1>3. ApartInv /\ ChainInv /\ ServedInv /\ GarbageInv
  BY <1>1 DEF ApartInv, ChainInv, ServedInv, GarbageInv
<1>. QED  BY <1>2, <1>3 DEF LeftInv

LEMMA LeftStep ==
  ASSUME Ground, Ground', OneUser, CmdInv, CmdInv', ActiveInv, LeftInv, [ClientNext]_allVars
  PROVE  LeftInv'
<1>1. SourceInv' /\ UnservedInv' /\ PendingActive' /\ DirsInv'
  BY SourceStep, UnservedStep, PendingActiveStep, DirsStep DEF LeftInv
<1>2. ApartInv' /\ ChainInv' /\ ServedInv' /\ GarbageInv'
  BY <1>1, ApartStep, ChainStep, ServedStep, GarbageStep DEF LeftInv
<1>. QED  BY <1>1, <1>2 DEF LeftInv

(* One user whose commands do not fail, who may break off at any time: as  *)
(* long as no snapshot is deleted that is a volume's active layer, between *)
(* calls the server holds no image without references and owner.  The      *)
(* clean-up that DeleteVolume starts at the volume's own image             *)
(* (server.go:263) comes to all that it leaves behind.                     *)
THEOREM NothingLeftBehind ==
  ASSUME ~Disciplined, ~Failures, DistinctQSDIDs, OneUser
  PROVE  ClientSpec => []NoGarbageUnlessUndercut
<1>0. OneCall
  BY ConstantsAssumption DEF OneCall
<1>1. ServerInv /\ CmdType /\ DiskInv /\ MirrorInv /\ CreatesInv => Ground
  BY <1>0 DEF Ground
<1>2. Ground /\ Ground' /\ CmdInv /\ CmdInv' /\ ActiveInv /\ LeftInv /\ [ClientNext]_allVars => LeftInv'
  BY LeftStep
<1>3. ClientInit => LeftInv
  BY LeftInit
<1>4. Ground /\ LeftInv => NoGarbageUnlessUndercut
  <2>. SUFFICES ASSUME Ground, GarbageInv, undercut = {}, AllIdle, NEW i \in DOMAIN images
                PROVE  images[i].RefCount > 0 \/ images[i].VolumeRef # None
    BY DEF LeftInv, NoGarbageUnlessUndercut, NoGarbage
  <2>1. ~Collectable(images, i)
    BY DEF GarbageInv, Being, AllIdle, Idle
  <2>. QED  BY <2>1, GroundIs DEF Collectable, MemTypeOK, QCOWImage
<1>5. ClientSpec => [](ServerInv /\ CmdType /\ DiskInv)
  BY DiskInductive
<1>6. ClientSpec => []MirrorInv
  BY MirrorClient
<1>7. ClientSpec => []CreatesInv
  BY CreatesClient
<1>8. ClientSpec => [](CmdInv /\ SealInv)
  BY UserInductive
<1>9. ClientSpec => []ActiveInv
  BY ActiveInductive
<1>. QED
  BY <1>1, <1>2, <1>3, <1>4, <1>5, <1>6, <1>7, <1>8, <1>9, PTL DEF ClientSpec
=============================================================================
