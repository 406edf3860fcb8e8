------------------------------- MODULE Driver -------------------------------
(***************************************************************************)
(* The controller service of pkg/driver over the server of pkg/qsd.  The   *)
(* driver answers an orchestrator: it keeps two tables in memory and turns *)
(* a request into one or two calls of the server, giving each 30 seconds.  *)
(* The server's handlers ignore that deadline, and the driver's handlers   *)
(* ignore the orchestrator's: whoever gives up leaves the other at work.   *)
(***************************************************************************)
EXTENDS QSDServer

CONSTANT Requests  \* driver handlers that can be in progress at a time

ASSUME DriverAssumption == None \notin Workers

VARIABLES storage,    \* Driver.storage: the volumes in the table
          snapshots,  \* Driver.snapshots: snapshot -> its source volume
          csi,        \* request -> the driver's handler serving it
          co,         \* id -> what the orchestrator was told of it
          origin,     \* id -> the source it is created from
          lost,       \* ids asked for before the server last restarted
          forgotten,  \* ids asked for before the driver last restarted
          hasty       \* ids asked for while a late handler was at work on them

tableVars  == <<storage, snapshots>>
coVars     == <<co, origin>>
histVars   == <<lost, forgotten, hasty>>
driverVars == <<tableVars, csi, coVars, histVars>>
allVars    == <<vars, driverVars>>

(* A request: the call of the server it has to make or is waiting for (pc),*)
(* the handler it is waiting for, if any, and whether the orchestrator     *)
(* still waits for the answer.                                             *)
Request == [op : {"none", "CreateVolume", "DeleteVolume", "CreateSnapshot", "DeleteSnapshot"},
            pc : {"idle", "create", "expose", "unexport", "delete", "snapshot", "unsnapshot"},
            id : ImageID \cup {None}, from : ImageID \cup {None},
            worker : Workers \cup {None}, heard : BOOLEAN]

NoRequest == [op |-> "none", pc |-> "idle", id |-> None, from |-> None,
              worker |-> None, heard |-> TRUE]
NewRequest(op, pc, id, from) ==
  [NoRequest EXCEPT !.op = op, !.pc = pc, !.id = id, !.from = from]

Life == {"unborn", "creating", "ready", "deleting", "deleted"}

DriverTypeOK ==
  /\ TypeOK
  /\ storage \subseteq Volumes
  /\ DOMAIN snapshots \subseteq Snapshots
  /\ \A s \in DOMAIN snapshots : snapshots[s] \in Volumes
  /\ csi \in [Requests -> Request]
  /\ co \in [ImageID -> Life]
  /\ origin \in [ImageID -> ImageID \cup {None}]
  /\ lost \subseteq ImageID /\ forgotten \subseteq ImageID /\ hasty \subseteq ImageID

DriverInit ==
  /\ Init
  /\ storage = {} /\ snapshots = Empty
  /\ csi = [r \in Requests |-> NoRequest]
  /\ co = [i \in ImageID |-> "unborn"]
  /\ origin = [i \in ImageID |-> None]
  /\ lost = {} /\ forgotten = {} /\ hasty = {}

-----------------------------------------------------------------------------
(* The orchestrator asks for one thing of an id at a time, as far as it    *)
(* knows; it may repeat a request, whose answer it may have missed, with   *)
(* the same arguments; and it does not use a name again it asked to delete.*)
(* It does not know of the handlers left at work, here and in the server,  *)
(* by a request that it or the driver gave up on.                          *)
Free(r)    == csi[r].op = "none"
Waiting(r) == csi[r].worker # None
Awaited(w) == \E r \in Requests : csi[r].worker = w

InHand(q) == {csi[q].id, csi[q].from} \ {None}
LateOn(i) ==
  \/ \E q \in Requests : ~csi[q].heard /\ i \in InHand(q)
  \/ \E w \in Workers : ~Awaited(w) /\ i \in Named(call[w])
AskFor(ids) ==
  /\ \A q \in Requests : csi[q].heard => InHand(q) \cap ids = {}
  /\ hasty' = hasty \cup {i \in ids : LateOn(i)}
MayAskToCreate(id, from) ==
  /\ from # None => co[from] = "ready"
  /\ \/ co[id] = "unborn"
     \/ co[id] \in {"creating", "ready"} /\ origin[id] = from
MayAskToDelete(id) == co[id] # "unborn"

Serve(r, q) == csi' = [csi EXCEPT ![r] = q]
Tell(id, life) == co' = [co EXCEPT ![id] = life]
(* Asking again does not take back what was answered before.               *)
AskToCreate(id, from) ==
  /\ IF co[id] = "unborn" THEN Tell(id, "creating") ELSE UNCHANGED co
  /\ origin' = [origin EXCEPT ![id] = from]
AskToDelete(id) ==
  /\ IF co[id] = "deleted" THEN UNCHANGED co ELSE Tell(id, "deleting")
  /\ UNCHANGED origin

(* The entry is made before the server is called, and stays if that fails. *)
BadEntered(v) == storage
Entered(v)    == storage \cup {v}
ControllerCreateVolume(r, v, src) ==
  /\ Free(r) /\ AskFor({v, src} \ {None}) /\ MayAskToCreate(v, src)
  /\ storage' = Entered(v)
  /\ Serve(r, NewRequest("CreateVolume", "create", v, src))
  /\ AskToCreate(v, src)
  /\ UNCHANGED <<vars, snapshots, lost, forgotten>>

ControllerDeleteVolume(r, v) ==
  /\ Free(r) /\ AskFor({v}) /\ MayAskToDelete(v)
  /\ IF v \in storage
     THEN Serve(r, NewRequest("DeleteVolume", "unexport", v, None)) /\ AskToDelete(v)
     ELSE UNCHANGED <<csi, origin>> /\ Tell(v, "deleted")
  /\ UNCHANGED <<vars, tableVars, lost, forgotten>>

ControllerCreateSnapshot(r, s, v) ==
  /\ Free(r) /\ AskFor({s, v}) /\ MayAskToCreate(s, v)
  /\ IF s \in DOMAIN snapshots
     THEN UNCHANGED <<csi, origin>> /\ Tell(s, "ready")
     ELSE /\ AskToCreate(s, v)
          /\ IF v \in storage
             THEN Serve(r, NewRequest("CreateSnapshot", "snapshot", s, v))
             ELSE UNCHANGED csi
  /\ UNCHANGED <<vars, tableVars, lost, forgotten>>

ControllerDeleteSnapshot(r, s) ==
  /\ Free(r) /\ AskFor({s}) /\ MayAskToDelete(s)
  /\ IF s \in DOMAIN snapshots
     THEN /\ Serve(r, NewRequest("DeleteSnapshot", "unsnapshot", s, snapshots[s]))
          /\ AskToDelete(s)
     ELSE UNCHANGED <<csi, origin>> /\ Tell(s, "deleted")
  /\ UNCHANGED <<vars, tableVars, lost, forgotten>>

-----------------------------------------------------------------------------
(* A request and the server.                                               *)

CallServer(r, w) ==
  LET q == csi[r] IN
  /\ ~Free(r) /\ ~Waiting(r)
  /\ \/ q.pc = "create" /\ CreateVolume(w, q.id, q.from)
     \/ q.pc = "expose" /\ ExposeVhostUser(w, q.id)
     \/ q.pc = "unexport" /\ DeleteExporter(w, q.id)
     \/ q.pc = "delete" /\ DeleteVolume(w, q.id)
     \/ q.pc = "snapshot" /\ CreateSnapshot(w, q.id, q.from)
     \/ q.pc = "unsnapshot" /\ DeleteSnapshot(w, q.id, q.from)
  /\ Serve(r, [q EXCEPT !.worker = w])
  /\ UNCHANGED <<tableVars, coVars, histVars>>

(* What follows a call that succeeded: a second call, or the answer.       *)
NoExpose == [unexport |-> "delete"]
NoDelete == [create |-> "expose"]
Then     == [create |-> "expose", unexport |-> "delete"]

BadRecorded(q) ==
  IF q.op = "CreateSnapshot" THEN Put(snapshots, q.from, q.id)
  ELSE IF q.op = "DeleteSnapshot" THEN Drop(snapshots, q.from)
  ELSE snapshots
Recorded(q) ==
  IF q.op = "CreateSnapshot" THEN Put(snapshots, q.id, q.from)
  ELSE IF q.op = "DeleteSnapshot" THEN Drop(snapshots, q.id)
  ELSE snapshots

Outcome(q) == IF q.op \in {"CreateVolume", "CreateSnapshot"} THEN "ready" ELSE "deleted"

(* deleteVolume: the entry goes when the server has deleted the volume.    *)
Remaining(q) == IF q.op = "DeleteVolume" THEN storage \ {q.id} ELSE storage

AnswerSucceeded(r) ==
  LET q == csi[r] IN
  /\ Waiting(r) /\ call[q.worker].pc = "succeeded"
  /\ Reply(q.worker)
  /\ IF q.pc \in DOMAIN Then
     THEN /\ Serve(r, [q EXCEPT !.pc = Then[q.pc], !.worker = None])
          /\ UNCHANGED <<tableVars, coVars>>
     ELSE /\ Serve(r, NoRequest)
          /\ storage' = Remaining(q)
          /\ snapshots' = Recorded(q)
          /\ IF q.heard THEN Tell(q.id, Outcome(q)) ELSE UNCHANGED co
          /\ UNCHANGED origin
  /\ UNCHANGED histVars

(* Any error of the server, or Success not set, ends the request with an   *)
(* error and leaves the tables as they are.                                *)
BadAfterError(q) == [q EXCEPT !.worker = None]
AfterError(q)    == NoRequest
AnswerFailed(r) ==
  /\ Waiting(r) /\ call[csi[r].worker].pc = "failed"
  /\ Reply(csi[r].worker)
  /\ Serve(r, AfterError(csi[r]))
  /\ UNCHANGED <<tableVars, coVars, histVars>>

(* context.WithTimeout(context.Background(), 30s) runs out, before the call*)
(* has reached the server or while its handler goes on.                    *)
Timeout(r) ==
  /\ ~Free(r)
  /\ Fault
  /\ Serve(r, NoRequest)
  /\ UNCHANGED <<graphVars, memVars, fsVars, call, taken, tableVars, coVars, histVars>>

(* The orchestrator stops waiting.  The driver does not look at the request*)
(* context, so its handler goes on.                                        *)
GiveUp(r) ==
  /\ ~Free(r) /\ csi[r].heard
  /\ Fault
  /\ Serve(r, [csi[r] EXCEPT !.heard = FALSE])
  /\ UNCHANGED <<graphVars, memVars, fsVars, call, taken, tableVars, coVars, histVars>>

-----------------------------------------------------------------------------
(* Steps of the server that no request takes part in; an answer that is    *)
(* not awaited any more is dropped.                                        *)
Answered(w) == call[w].pc \in {"succeeded", "failed"}
ServerStep(w) ==
  /\ Continue(w) /\ ~(Awaited(w) /\ Answered(w))
  /\ UNCHANGED driverVars

Asked == {i \in ImageID : co[i] # "unborn"}

ServerRestart ==
  /\ Restart
  /\ csi' = [r \in Requests |-> IF Waiting(r) THEN NoRequest ELSE csi[r]]
  /\ lost' = Asked
  /\ UNCHANGED <<tableVars, coVars, forgotten, hasty>>

DriverRestart ==
  /\ Fault
  /\ storage' = {} /\ snapshots' = Empty
  /\ csi' = [r \in Requests |-> NoRequest]
  /\ forgotten' = Asked
  /\ UNCHANGED <<graphVars, memVars, fsVars, call, taken, coVars, lost, hasty>>

Ask(r) ==
  \/ \E v \in Volumes, src \in CloneSources \cup {None} : ControllerCreateVolume(r, v, src)
  \/ \E v \in Volumes : ControllerDeleteVolume(r, v)
  \/ \E s \in Snapshots, v \in Volumes : ControllerCreateSnapshot(r, s, v)
  \/ \E s \in Snapshots : ControllerDeleteSnapshot(r, s)

Proceed(r) ==
  \/ \E w \in Workers : CallServer(r, w)
  \/ AnswerSucceeded(r) \/ AnswerFailed(r)

DriverNext ==
  \/ ServerRestart \/ DriverRestart
  \/ \E w \in Workers : ServerStep(w)
  \/ \E r \in Requests : Ask(r) \/ Proceed(r) \/ Timeout(r) \/ GiveUp(r)

DriverSpec == DriverInit /\ [][DriverNext]_allVars

(* Go runs every handler, of the driver and of the server, and a server    *)
(* that panicked is started again.                                         *)
FairDriverSpec ==
  /\ DriverSpec
  /\ \A w \in Workers : WF_allVars(ServerStep(w))
  /\ \A r \in Requests : WF_allVars(Proceed(r))
  /\ WF_allVars(Panicked /\ ServerRestart)

(* And an orchestrator repeats its DeleteVolume until it is told success.  *)
RetryDelete(v) == co[v] = "deleting" /\ \E r \in Requests : ControllerDeleteVolume(r, v)
RetryingSpec == FairDriverSpec /\ \A v \in Volumes : SF_allVars(RetryDelete(v))

-----------------------------------------------------------------------------
(* A volume the orchestrator holds is there, is its own, and is exported   *)
(* in a directory NodePublishVolume can mount, whatever requests were      *)
(* repeated, given up or timed out since.                                  *)
ReadyVolumeServed ==
  \A v \in Volumes \ lost :
    co[v] = "ready" =>
      /\ v \in DOMAIN images /\ images[v].VolumeRef = v
      /\ QSDID[v] \in DOMAIN nodes \cap DOMAIN exports
      /\ v \in sockets

(* A snapshot the orchestrator holds is there and still its own, also after*)
(* its source volume is gone: it can be cloned.                            *)
ReadySnapshotHeld ==
  \A s \in Snapshots \ lost :
    co[s] = "ready" =>
      /\ s \in DOMAIN images /\ images[s].VolumeRef = s
      /\ QSDID[s] \in DOMAIN nodes
      /\ images[s].File \in files

(* A volume the server serves can be deleted through the driver: it is in  *)
(* its table, unless a late handler of its own overtook later requests.    *)
ServedVolumeInTable ==
  \A v \in DOMAIN activeLayers : v \in storage \cup forgotten \cup hasty

(* A volume the driver reported deleted is neither active nor exported,    *)
(* with the same exceptions.                                               *)
DeletedVolumeGone ==
  \A v \in Volumes \ (forgotten \cup hasty) :
    co[v] = "deleted" => v \notin DOMAIN activeLayers /\ QSDID[v] \notin DOMAIN exports

(* Every request is answered.                                              *)
RequestsEnd == \A r \in Requests : ~Free(r) ~> Free(r)

-----------------------------------------------------------------------------
(* What comments of controller.go say, and the code does not keep.         *)

(* controller.go:28: CreateVolume is idempotent.  Repeated for a volume    *)
(* that was created, it is not answered with an error.                     *)
CreateIdempotent ==
  [][\A r \in Requests :
       csi[r].pc = "create" /\ AnswerFailed(r) => csi[r].id \notin DOMAIN images]_allVars

(* controller.go:136: DeleteVolume is idempotent.  Repeated until it       *)
(* succeeds, it succeeds.                                                  *)
DeleteSettles == \A v \in Volumes : co[v] = "deleting" ~> co[v] = "deleted"
=============================================================================
