-------------------------------- MODULE Disk --------------------------------
(***************************************************************************)
(* What the image files hold, and who changes it: the server of QSDServer  *)
(* with one block per disk, written by guests through the vhost-user       *)
(* exports.  A disk is one block because every block goes the same way     *)
(* down the backing chain; it is not the block of the qcow2 header, which  *)
(* a guest of a plain volume would overwrite (commands.go:219 opens the    *)
(* file raw).  Sizes are left out.                                         *)
(***************************************************************************)
EXTENDS QSDServer

CONSTANT MaxWrites  \* bound: writes of each guest

ASSUME DiskAssumption == MaxWrites \in Nat

VARIABLES disk,        \* file -> the value its block holds, or Hole
          opened,      \* node -> the file it has open
          sealed,      \* nodes that a snapshot was put on top of
          written,     \* volume -> what its guest wrote last, and where
          writes,      \* volume -> number of writes of its guest so far
          survivors,   \* files that were there when the server last restarted
          overwritten  \* files a CreateVolume from a source emptied, not written since

diskVars == <<disk, opened, sealed, written, writes, survivors, overwritten>>

(* The k-th write of the guest of volume v writes <<v, k>>.                *)
Value == Volumes \X (1..MaxWrites)
Hole  == <<None, 0>>
Unwritten == [value |-> Hole, file |-> DiskFile(None)]

DiskTypeOK ==
  /\ TypeOK
  /\ DOMAIN disk = files /\ \A f \in files : disk[f] \in Value \cup {Hole}
  /\ DOMAIN opened = DOMAIN nodes /\ \A n \in DOMAIN nodes : opened[n] \in files
  /\ sealed \subseteq DOMAIN nodes
  /\ \A v \in Volumes : written[v].value \in Value \cup {Hole}
  /\ writes \in [Volumes -> 0..MaxWrites]
  /\ survivors \subseteq files /\ overwritten \subseteq files

DiskInit ==
  /\ Init
  /\ disk = Empty /\ opened = Empty /\ sealed = {}
  /\ written = [v \in Volumes |-> Unwritten]
  /\ writes = [v \in Volumes |-> 0] /\ survivors = {} /\ overwritten = {}

(* What is read through a node: the first block on its chain that is there.*)
Contents[n \in DOMAIN nodes] ==
  IF disk[opened[n]] # Hole \/ nodes[n] = None THEN disk[opened[n]]
  ELSE Contents[nodes[n]]

-----------------------------------------------------------------------------
(* The steps of the server.                                                *)

(* A plain volume's disk.img is opened raw (commands.go:219): the daemon's *)
(* lock on it keeps nobody from emptying it.  An overlay is opened as      *)
(* qcow2, with a lock that qemu-img meets before it touches the file.      *)
Raw(n)    == nodes[n] = None /\ opened[n][2] = None
Locked(f) == \E n \in DOMAIN opened : opened[n] = f /\ ~Raw(n)

(* qemu-img create empties the file it is told.  createImage does not run  *)
(* it on one that is there (commands.go:207); CreateSnapshot and           *)
(* CreateSnapshotWithBackingNode do, and only the lock of an overlay stops *)
(* it there.  The blockdev-add that follows is refused in both cases: the  *)
(* node of that file is still open.                                        *)
BadKeeps(c) == FileOf(c) \in files /\ c.layer # None /\ Locked(FileOf(c))
Keeps(c)    == FileOf(c) \in files /\ (c.layer # None => Locked(FileOf(c)))
Recreates(c) == c.op = "CreateVolume" /\ c.layer # None /\ FileOf(c) \in files
Format(w) ==
  LET c == call[w] IN
  IF call'[w].pc = "failed" \/ Keeps(c) THEN UNCHANGED diskVars
  ELSE /\ disk' = Put(disk, FileOf(c), Hole)
       /\ overwritten' = IF Recreates(c) THEN overwritten \cup {FileOf(c)} ELSE overwritten
       /\ UNCHANGED <<opened, sealed, written, writes, survivors>>

(* blockdev-add opens the file.                                            *)
Open(w) ==
  /\ opened' = IF nodes' = nodes THEN opened
               ELSE Put(opened, QSDID[call[w].id], FileOf(call[w]))
  /\ UNCHANGED <<disk, sealed, written, writes, survivors, overwritten>>

(* blockdev-snapshot: from now on the layer is to be read only.            *)
Seal(w) ==
  /\ sealed' = IF nodes' = nodes THEN sealed ELSE sealed \cup {QSDID[call[w].layer]}
  /\ UNCHANGED <<disk, opened, written, writes, survivors, overwritten>>

Close(w) ==
  /\ opened' = [n \in DOMAIN nodes' |-> opened[n]]
  /\ sealed' = sealed \cap DOMAIN nodes'
  /\ UNCHANGED <<disk, written, writes, survivors, overwritten>>

Without(f) == [v \in Volumes |-> IF written[v].file = f THEN Unwritten ELSE written[v]]
Erase(w) ==
  /\ disk' = [f \in files' |-> disk[f]]
  /\ written' = IF files' = files THEN written ELSE Without(call[w].ptr.File)
  /\ survivors' = survivors \cap files'
  /\ overwritten' = overwritten \cap files'
  /\ UNCHANGED <<opened, sealed, writes>>

DiskContinue(w) ==
  \/ QemuImgCreate(w) /\ Format(w)
  \/ AddNode(w) /\ Open(w)
  \/ Append(w) /\ Seal(w)
  \/ DelNode(w) /\ Close(w)
  \/ RemoveFile(w) /\ Erase(w)
  \/ /\ \/ Store(w) \/ Export(w) \/ Unexport(w) \/ RemoveSocketDir(w)
        \/ Release(w) \/ RemoveDir(w)
     /\ UNCHANGED diskVars

(* A guest writes to its disk, that is to the node its volume's export     *)
(* serves at that time.                                                    *)
GuestWrite(v) ==
  LET f == opened[exports[QSDID[v]]]
      value == <<v, writes[v] + 1>> IN
  /\ QSDID[v] \in DOMAIN exports
  /\ writes[v] < MaxWrites
  /\ writes' = [writes EXCEPT ![v] = @ + 1]
  /\ disk' = [disk EXCEPT ![f] = value]
  /\ written' = [written EXCEPT ![v] = [value |-> value, file |-> f]]
  /\ overwritten' = overwritten \ {f}
  /\ UNCHANGED <<vars, opened, sealed, survivors>>

(* The files outlive the server, but not what it knew of them: a volume    *)
(* that is created again, from no source, opens its own disk.img as raw.   *)
(* That gives back what was written raw, not what an overlay held.         *)
Plain(v) == v \in DOMAIN images => images[v].BackingImageID = None
DiskRestart ==
  /\ Restart
  /\ opened' = Empty /\ sealed' = {}
  /\ written' = [v \in Volumes |->
                   IF written[v].file = DiskFile(v) /\ Plain(v) THEN written[v] ELSE Unwritten]
  /\ survivors' = files
  /\ UNCHANGED <<disk, writes, overwritten>>

-----------------------------------------------------------------------------
(* A guest reads back what it wrote last, whatever is done to its volume   *)
(* and to the volumes and snapshots around it, and after a restart too for *)
(* a volume made from no source, unless a snapshot had taken its writes    *)
(* away from disk.img.  The exception is a file that a CreateVolume with a *)
(* source emptied since: commands.go:290 runs qemu-img without a look at   *)
(* what is there.                                                          *)
WritesReadBack ==
  \A v \in Volumes :
    QSDID[v] \in DOMAIN exports /\ written[v] # Unwritten
                                /\ written[v].file \notin overwritten =>
      Contents[exports[QSDID[v]]] = written[v].value

(* No operation on volumes and snapshots changes what an image reads: only *)
(* a guest's write does, or a CreateVolume with a source that empties the  *)
(* very file the image has read from.                                      *)
Readable(i) == i \in DOMAIN images /\ QSDID[i] \in DOMAIN nodes
Emptied(i) ==
  /\ Contents'[QSDID[i]] = Hole
  /\ \E f \in overwritten' \ overwritten : Contents[QSDID[i]] = disk[f]
OnlyGuestsWriteUnlessOverwritten ==
  [][\A i \in ImageID :
       Readable(i) /\ Readable(i)' /\ Contents'[QSDID[i]] # Contents[QSDID[i]]
         => writes' # writes \/ Emptied(i)]_<<vars, diskVars>>

(* A volume made from no source reads no data of an earlier one, unless    *)
(* its file was left over from a server that restarted.                    *)
NewVolumeBlank ==
  \A w \in Workers :
    call[w].pc = "store" /\ call[w].layer = None =>
      disk[FileOf(call[w])] = Hole \/ FileOf(call[w]) \in survivors

(* Once a snapshot was put on top of a layer no guest can write to that    *)
(* layer any more: the layer is what the snapshot froze.  ExposeVhostUser  *)
(* exports a volume's own node (server.go:151), so this holds because the  *)
(* callers expose a volume once, before anybody takes a snapshot of it.    *)
SealedNotExported == \A e \in DOMAIN exports : exports[e] \notin sealed
=============================================================================
