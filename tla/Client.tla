------------------------------- MODULE Client -------------------------------
(***************************************************************************)
(* The command line client, cmd/qsd-client, over the server: a user at a   *)
(* terminal creates, deletes and snapshots volumes by hand.  A command is  *)
(* one or two calls of the server.  It ends with the first error, at its   *)
(* deadline or when the user interrupts it; the server's handler goes on.  *)
(* Users keep the names of volumes and snapshots apart.                    *)
(***************************************************************************)
EXTENDS Disk

CONSTANT Terminals

ASSUME ClientAssumption == None \notin Workers

VARIABLES cmd,       \* terminal -> the command it runs
          undercut   \* volumes whose active layer a user asked to delete

clientVars == <<cmd, undercut>>
allVars    == <<vars, diskVars, clientVars>>

(* A command: the call it has to make or waits for, the id it is about and *)
(* the handler it waits for.                                               *)
Step == {"idle", "CreateVolume", "ExposeVhostUser", "DeleteExporter", "DeleteVolume",
         "CreateSnapshot", "DeleteSnapshot"}
Command == [pc : Step, id : ImageID \cup {None}, worker : Workers \cup {None}]
NoCommand == [pc |-> "idle", id |-> None, worker |-> None]
Calling(pc, id, w) == [pc |-> pc, id |-> id, worker |-> w]

ClientTypeOK ==
  /\ DiskTypeOK
  /\ cmd \in [Terminals -> Command]
  /\ undercut \subseteq Volumes

ClientInit ==
  /\ DiskInit
  /\ cmd = [t \in Terminals |-> NoCommand]
  /\ undercut = {}

Ready(t)   == cmd[t].pc = "idle"
Waiting(t) == cmd[t].worker # None
Awaited(w) == \E t \in Terminals : cmd[t].worker = w
Run(t, c)  == cmd' = [cmd EXCEPT ![t] = c]

-----------------------------------------------------------------------------
(* A command begins with its first call.  --from and --source are whatever *)
(* the user types.                                                         *)

Create(t, w, v, src) ==
  /\ Ready(t) /\ CreateVolume(w, v, src)
  /\ Run(t, Calling("CreateVolume", v, w))
  /\ UNCHANGED undercut

Delete(t, w, v) ==
  /\ Ready(t) /\ DeleteExporter(w, v)
  /\ Run(t, Calling("DeleteExporter", v, w))
  /\ UNCHANGED undercut

SnapshotCreate(t, w, s, v) ==
  /\ Ready(t) /\ CreateSnapshot(w, s, v)
  /\ Run(t, Calling("CreateSnapshot", s, w))
  /\ UNCHANGED undercut

SnapshotDelete(t, w, s, v) ==
  /\ Ready(t) /\ DeleteSnapshot(w, s, v)
  /\ Run(t, Calling("DeleteSnapshot", s, w))
  /\ undercut' = IF s \notin DOMAIN images THEN undercut
                 ELSE undercut \cup {x \in Volumes : IsActiveLayer(s, x)}

Start(t, w) ==
  /\ \/ \E v \in Volumes, src \in CloneSources \cup {None} : Create(t, w, v, src)
     \/ \E v \in Volumes : Delete(t, w, v)
     \/ \E s \in Snapshots, v \in Volumes : SnapshotCreate(t, w, s, v) \/ SnapshotDelete(t, w, s, v)
  /\ UNCHANGED diskVars

(* A call that succeeded is followed by the second one; Response.Success   *)
(* is not looked at.  An error ends the command.                           *)
Then == [CreateVolume |-> "ExposeVhostUser", DeleteExporter |-> "DeleteVolume"]
BadGoesOn(c) == c.pc \in DOMAIN Then
GoesOn(c)    == c.pc \in DOMAIN Then /\ call[c.worker].pc = "succeeded"
Answer(t) ==
  LET c == cmd[t] IN
  /\ Waiting(t) /\ Reply(c.worker)
  /\ Run(t, IF GoesOn(c) THEN Calling(Then[c.pc], c.id, None) ELSE NoCommand)
  /\ UNCHANGED <<diskVars, undercut>>

SecondCall(t, w) ==
  LET c == cmd[t] IN
  /\ \/ c.pc = "ExposeVhostUser" /\ ExposeVhostUser(w, c.id)
     \/ c.pc = "DeleteVolume" /\ DeleteVolume(w, c.id)
  /\ ~Waiting(t)
  /\ Run(t, Calling(c.pc, c.id, w))
  /\ UNCHANGED <<diskVars, undercut>>

(* The deadline of the call, 60 s or 30 s, or the user, ends the command;  *)
(* the handler goes on.                                                    *)
Interrupt(t) ==
  /\ Waiting(t)
  /\ Fault
  /\ Run(t, NoCommand)
  /\ UNCHANGED <<graphVars, memVars, fsVars, call, taken, diskVars, undercut>>

(* The server goes on; an answer nobody waits for is dropped.             *)
ServerStep(w) ==
  /\ \/ DiskContinue(w)
     \/ ~Awaited(w) /\ Reply(w) /\ UNCHANGED diskVars
  /\ UNCHANGED clientVars

ServerRestart ==
  /\ DiskRestart
  /\ cmd' = [t \in Terminals |-> IF Waiting(t) THEN NoCommand ELSE cmd[t]]
  /\ undercut' = {}

ClientNext ==
  \/ ServerRestart
  \/ \E w \in Workers : ServerStep(w)
  \/ UNCHANGED clientVars /\ \E v \in Volumes : GuestWrite(v)
  \/ \E t \in Terminals : \/ Answer(t) \/ Interrupt(t)
                          \/ \E w \in Workers : Start(t, w) \/ SecondCall(t, w)

ClientSpec == ClientInit /\ [][ClientNext]_allVars

-----------------------------------------------------------------------------
(* qsd-client list --tree: images in the order of their Depth, each put    *)
(* under its backing image if that is in the tree.  Shown[d] is what is in *)
(* the tree after the images of depth d.                                   *)
Shown[d \in Nat] ==
  IF d = 0 THEN {i \in DOMAIN images : images[i].Depth = 0}
  ELSE Shown[d - 1] \cup {i \in DOMAIN images :
                            images[i].Depth = d /\ images[i].BackingImageID \in Shown[d - 1]}
ListVolumes == DOMAIN images
PrintTree   == Shown[Cardinality(ListVolumes)]

(* The tree shows every image the server has, also those of volumes and    *)
(* snapshots that were deleted and are kept for others.                    *)
TreeShowsAll == PrintTree = ListVolumes

(* server.go:263 starts the clean-up of a volume at its own image.  It     *)
(* leaves nothing behind, without references and without an owner, as long *)
(* as nobody deletes a snapshot that is a volume's active layer.           *)
NoGarbageUnlessUndercut == undercut = {} => NoGarbage

(* DeleteVolume and CreateSnapshot need the image of the active layer.  It *)
(* is there unless a user deleted the snapshot that was the active layer.  *)
ActiveLayerThere ==
  \A v \in DOMAIN activeLayers : activeLayers[v] \in DOMAIN images \/ v \in undercut
=============================================================================
