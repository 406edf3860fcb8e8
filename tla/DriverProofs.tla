---------------------------- MODULE DriverProofs ----------------------------
(***************************************************************************)
(* Theorems about Driver, for every set of ids, handlers and requests and  *)
(* whatever fails, times out or restarts.                                  *)
(*                                                                         *)
(* AliveInv: while the orchestrator has not asked for an id's deletion, no *)
(* call of the server that is about it deletes, late ones included, so     *)
(* nothing but a restart takes away what was made for it.  TidyInv: calls  *)
(* about a volume follow one another unless the volume is hasty, so each   *)
(* step of a delete finds what the step before it left.                    *)
(***************************************************************************)
EXTENDS Driver, QSDServerProofs

USE DEF CreatePC, LayerPC, OverlayPC, DeletePC, RemovePC

-----------------------------------------------------------------------------
(* Type correctness.  A request's argument fits the call it makes.         *)

RequestOK(q) ==
  /\ q.op = "none" => q = NoRequest
  /\ q.pc = "idle" => q.op = "none"
  /\ q.pc \in {"create", "expose"} => q.op = "CreateVolume"
  /\ q.pc \in {"unexport", "delete"} => q.op = "DeleteVolume"
  /\ q.pc = "snapshot" => q.op = "CreateSnapshot"
  /\ q.pc = "unsnapshot" => q.op = "DeleteSnapshot"
  /\ q.op \in {"CreateVolume", "DeleteVolume"} => q.id \in Volumes
  /\ q.op = "CreateVolume" => q.from \in CloneSources \cup {None}
  /\ q.op = "DeleteVolume" => q.from = None
  /\ q.op \in {"CreateSnapshot", "DeleteSnapshot"} => q.id \in Snapshots /\ q.from \in Volumes

RequestTypeInv == csi \in [Requests -> Request] /\ \A r \in Requests : RequestOK(csi[r])
DriverTypeInv  == TypeInv /\ DriverTypeOK /\ RequestTypeInv

LEMMA NewRequestFields ==
  ASSUME NEW op \in {"CreateVolume", "DeleteVolume", "CreateSnapshot", "DeleteSnapshot"},
         NEW pc \in {"create", "unexport", "snapshot", "unsnapshot"},
         NEW id \in ImageID, NEW from \in ImageID \cup {None}
  PROVE  LET q == NewRequest(op, pc, id, from) IN
         /\ q \in Request
         /\ q.op = op /\ q.pc = pc /\ q.id = id /\ q.from = from
         /\ q.worker = None /\ q.heard
  BY DEF NewRequest, NoRequest, Request

LEMMA NoRequestOK == NoRequest \in Request /\ RequestOK(NoRequest)
  BY DEF NoRequest, Request, RequestOK

(* One request moves.                                                      *)
LEMMA ServeIs ==
  ASSUME RequestTypeInv, NEW r \in Requests, NEW q, Serve(r, q)
  PROVE  /\ csi'[r] = q /\ \A x \in Requests \ {r} : csi'[x] = csi[x]
         /\ q \in Request /\ RequestOK(q) => RequestTypeInv'
  BY DEF RequestTypeInv, Serve

LEMMA TellType ==
  ASSUME co \in [ImageID -> Life], NEW id \in ImageID, NEW life \in Life, Tell(id, life)
  PROVE  co' \in [ImageID -> Life]
  BY DEF Tell

(* A new request, and where its handler begins.                            *)
LEMMA FreshCreateVolume ==
  ASSUME NEW v \in Volumes, NEW src \in CloneSources \cup {None}
  PROVE  LET q == NewRequest("CreateVolume", "create", v, src) IN
         q \in Request /\ RequestOK(q)
<1>. DEFINE q == NewRequest("CreateVolume", "create", v, src)
<1>1. v \in ImageID /\ src \in ImageID \cup {None}
  BY ConstantsAssumption DEF ImageID
<1>2. q \in Request /\ q.op = "CreateVolume" /\ q.pc = "create" /\ q.id = v /\ q.from = src
  BY <1>1, NewRequestFields
<1>. HIDE DEF q
<1>. QED  BY <1>2 DEF RequestOK, q

LEMMA FreshDeleteVolume ==
  ASSUME NEW v \in Volumes
  PROVE  LET q == NewRequest("DeleteVolume", "unexport", v, None) IN
         q \in Request /\ RequestOK(q)
<1>. DEFINE q == NewRequest("DeleteVolume", "unexport", v, None)
<1>1. v \in ImageID
  BY DEF ImageID
<1>2. q \in Request /\ q.op = "DeleteVolume" /\ q.pc = "unexport" /\ q.id = v /\ q.from = None
  BY <1>1, NewRequestFields
<1>. HIDE DEF q
<1>. QED  BY <1>2 DEF RequestOK, q

LEMMA FreshSnapshotRequest ==
  ASSUME NEW s \in Snapshots, NEW v \in Volumes
  PROVE  /\ NewRequest("CreateSnapshot", "snapshot", s, v) \in Request
         /\ RequestOK(NewRequest("CreateSnapshot", "snapshot", s, v))
         /\ NewRequest("DeleteSnapshot", "unsnapshot", s, v) \in Request
         /\ RequestOK(NewRequest("DeleteSnapshot", "unsnapshot", s, v))
<1>. DEFINE p == NewRequest("CreateSnapshot", "snapshot", s, v)
            q == NewRequest("DeleteSnapshot", "unsnapshot", s, v)
<1>1. s \in ImageID /\ v \in ImageID
  BY DEF ImageID
<1>2. /\ p \in Request /\ p.op = "CreateSnapshot" /\ p.pc = "snapshot" /\ p.id = s /\ p.from = v
      /\ q \in Request /\ q.op = "DeleteSnapshot" /\ q.pc = "unsnapshot" /\ q.id = s /\ q.from = v
  BY <1>1, NewRequestFields
<1>. HIDE DEF p, q
<1>. QED  BY <1>2 DEF RequestOK, p, q

LEMMA TypeAsk ==
  ASSUME DriverTypeInv, NEW r \in Requests, Ask(r)
  PROVE  DriverTypeInv'
<1>. USE DEF DriverTypeInv
<1>1. TypeInv' /\ TypeOK'
  BY DEF Ask, ControllerCreateVolume, ControllerDeleteVolume, ControllerCreateSnapshot,
         ControllerDeleteSnapshot, vars, graphVars, memVars, fsVars, TypeInv, CallTypeInv, TypeOK,
         GraphTypeOK, MemTypeOK, FsTypeOK
<1>2. RequestTypeInv'
  <2>1. UNCHANGED csi => RequestTypeInv'
    BY DEF RequestTypeInv
  <2>2. ASSUME NEW v \in Volumes, NEW src \in CloneSources \cup {None}, ControllerCreateVolume(r, v, src)
        PROVE  RequestTypeInv'
    BY <2>2, FreshCreateVolume, ServeIs DEF ControllerCreateVolume
  <2>3. ASSUME NEW v \in Volumes, ControllerDeleteVolume(r, v)
        PROVE  RequestTypeInv'
    BY <2>1, <2>3, FreshDeleteVolume, ServeIs DEF ControllerDeleteVolume
  <2>4. ASSUME NEW s \in Snapshots, NEW v \in Volumes, ControllerCreateSnapshot(r, s, v)
        PROVE  RequestTypeInv'
    BY <2>1, <2>4, FreshSnapshotRequest, ServeIs DEF ControllerCreateSnapshot
  <2>5. ASSUME NEW s \in Snapshots, ControllerDeleteSnapshot(r, s)
        PROVE  RequestTypeInv'
    <3>1. s \in DOMAIN snapshots => snapshots[s] \in Volumes
      BY DEF DriverTypeOK
    <3>. QED  BY <2>1, <2>5, <3>1, FreshSnapshotRequest, ServeIs DEF ControllerDeleteSnapshot
  <2>. QED  BY <2>2, <2>3, <2>4, <2>5 DEF Ask
<1>3. co' \in [ImageID -> Life] /\ origin' \in [ImageID -> ImageID \cup {None}]
  <2>1. \A id \in ImageID, life \in {"creating", "deleting", "deleted", "ready"} :
           Tell(id, life) => co' \in [ImageID -> Life]
    BY TellType DEF DriverTypeOK, Life
  <2>2. CloneSources \subseteq ImageID /\ Volumes \subseteq ImageID /\ Snapshots \subseteq ImageID
    BY ConstantsAssumption DEF ImageID
  <2>3. ASSUME NEW id \in ImageID, NEW from \in ImageID \cup {None}, AskToCreate(id, from)
        PROVE  co' \in [ImageID -> Life] /\ origin' \in [ImageID -> ImageID \cup {None}]
    BY <2>1, <2>3 DEF AskToCreate, DriverTypeOK
  <2>4. ASSUME NEW id \in ImageID, AskToDelete(id)
        PROVE  co' \in [ImageID -> Life] /\ origin' \in [ImageID -> ImageID \cup {None}]
    BY <2>1, <2>4 DEF AskToDelete, DriverTypeOK
  <2>. QED
    BY <2>1, <2>2, <2>3, <2>4
    DEF Ask, ControllerCreateVolume, ControllerDeleteVolume, ControllerCreateSnapshot,
        ControllerDeleteSnapshot, DriverTypeOK
<1>4. /\ storage' \subseteq Volumes /\ UNCHANGED <<snapshots, lost, forgotten>>
      /\ hasty' \subseteq ImageID
  BY ConstantsAssumption
  DEF Ask, ControllerCreateVolume, ControllerDeleteVolume, ControllerCreateSnapshot,
      ControllerDeleteSnapshot, DriverTypeOK, tableVars, Entered, AskFor, ImageID
<1>. QED  BY <1>1, <1>2, <1>3, <1>4 DEF DriverTypeOK, RequestTypeInv

(* A request that calls the server starts the handler its pc stands for.   *)
LEMMA CallServerStarts ==
  ASSUME DriverTypeInv, NEW r \in Requests, NEW w \in Workers, CallServer(r, w)
  PROVE  Starts(w)
<1>1. RequestOK(csi[r])
  BY DEF DriverTypeInv, RequestTypeInv
<1>. QED  BY <1>1 DEF CallServer, RequestOK, Starts

LEMMA WithWorker ==
  ASSUME NEW q \in Request, RequestOK(q), NEW w \in Workers \cup {None}, q.op # "none"
  PROVE  LET d == [q EXCEPT !.worker = w] IN
         /\ d \in Request /\ RequestOK(d)
         /\ d.op = q.op /\ d.pc = q.pc /\ d.id = q.id /\ d.from = q.from
         /\ d.worker = w /\ d.heard = q.heard
  BY DEF Request, RequestOK

LEMMA NextCallRequest ==
  ASSUME NEW q \in Request, RequestOK(q), q.pc \in DOMAIN Then
  PROVE  LET d == [q EXCEPT !.pc = Then[q.pc], !.worker = None] IN
         /\ d \in Request /\ RequestOK(d)
         /\ d.op = q.op /\ d.pc = Then[q.pc] /\ d.id = q.id /\ d.from = q.from
         /\ d.worker = None /\ d.heard = q.heard
<1>. DEFINE d == [q EXCEPT !.pc = Then[q.pc], !.worker = None]
<1>1. \/ q.pc = "create" /\ Then[q.pc] = "expose" /\ q.op = "CreateVolume"
      \/ q.pc = "unexport" /\ Then[q.pc] = "delete" /\ q.op = "DeleteVolume"
  BY DEF RequestOK, Then
<1>2. /\ d \in Request
      /\ d.op = q.op /\ d.pc = Then[q.pc] /\ d.id = q.id /\ d.from = q.from
      /\ d.worker = None /\ d.heard = q.heard
  BY <1>1 DEF Request
<1>. HIDE DEF d
<1>3. RequestOK(d)
  BY <1>1, <1>2 DEF RequestOK
<1>. QED  BY <1>2, <1>3 DEF d

LEMMA Unheard ==
  ASSUME NEW q \in Request, RequestOK(q), q.op # "none"
  PROVE  LET d == [q EXCEPT !.heard = FALSE] IN
         /\ d \in Request /\ RequestOK(d)
         /\ d.op = q.op /\ d.pc = q.pc /\ d.id = q.id /\ d.from = q.from
         /\ d.worker = q.worker /\ ~d.heard
  BY DEF Request, RequestOK

LEMMA TypeCallServer ==
  ASSUME DriverTypeInv, NEW r \in Requests, NEW w \in Workers, CallServer(r, w)
  PROVE  DriverTypeInv'
<1>1. TypeInv'
  BY CallServerStarts, TypeStarts DEF DriverTypeInv
<1>2. csi[r] \in Request /\ RequestOK(csi[r]) /\ csi[r].op # "none"
  BY DEF DriverTypeInv, RequestTypeInv, CallServer, Free
<1>3. RequestTypeInv'
  BY <1>2, WithWorker, ServeIs DEF CallServer, DriverTypeInv
<1>. QED
  BY <1>1, <1>3 DEF CallServer, DriverTypeInv, DriverTypeOK, RequestTypeInv, TypeInv, tableVars,
                    coVars, histVars

LEMMA TypeAnswer ==
  ASSUME DriverTypeInv, NEW r \in Requests, AnswerSucceeded(r) \/ AnswerFailed(r)
  PROVE  DriverTypeInv' /\ csi[r].worker \in Workers /\ Reply(csi[r].worker)
<1>. DEFINE q == csi[r]
<1>1. q \in Request /\ RequestOK(q) /\ q.worker # None
  BY DEF DriverTypeInv, RequestTypeInv, AnswerSucceeded, AnswerFailed, Waiting
<1>2. q.worker \in Workers /\ Reply(q.worker)
  BY <1>1 DEF Request, AnswerSucceeded, AnswerFailed
<1>3. TypeInv'
  BY <1>2, TypeReply DEF DriverTypeInv
<1>4. RequestTypeInv'
  BY <1>1, NextCallRequest, NoRequestOK, ServeIs DEF AnswerSucceeded, AnswerFailed, AfterError, DriverTypeInv
<1>5. q.op # "none"
  BY <1>1 DEF RequestOK, NoRequest
<1>6. q.id \in ImageID /\ Outcome(q) \in Life
  BY <1>1, <1>5 DEF RequestOK, Request, ImageID, Outcome, Life
<1>7. DriverTypeOK'
  <2>1. CASE UNCHANGED <<tableVars, coVars>>
    BY <1>3, <1>4, <2>1 DEF AnswerSucceeded, AnswerFailed, DriverTypeInv, DriverTypeOK, TypeInv,
                        RequestTypeInv, tableVars, coVars, histVars
  <2>2. CASE /\ storage' = Remaining(q) /\ snapshots' = Recorded(q)
             /\ IF q.heard THEN Tell(q.id, Outcome(q)) ELSE UNCHANGED co
             /\ UNCHANGED origin
    <3>1. co' \in [ImageID -> Life]
      BY <1>6, <2>2, TellType DEF DriverTypeInv, DriverTypeOK
    <3>2. storage' \subseteq Volumes
      BY <2>2 DEF Remaining, DriverTypeInv, DriverTypeOK
    <3>3. DOMAIN snapshots' \subseteq Snapshots /\ \A s \in DOMAIN snapshots' : snapshots'[s] \in Volumes
      BY <1>1, <2>2 DEF Recorded, Put, Drop, RequestOK, DriverTypeInv, DriverTypeOK
    <3>. QED
      BY <1>3, <1>4, <2>2, <3>1, <3>2, <3>3 DEF AnswerSucceeded, AnswerFailed, DriverTypeInv,
          DriverTypeOK, TypeInv, RequestTypeInv, tableVars, coVars, histVars
  <2>. QED  BY <2>1, <2>2 DEF AnswerSucceeded, AnswerFailed
<1>. QED  BY <1>2, <1>3, <1>4, <1>7 DEF DriverTypeInv

(* Whoever gives up: the server does not notice.                           *)
Abandon ==
  \/ DriverRestart
  \/ \E r \in Requests : Timeout(r) \/ GiveUp(r)

LEMMA TypeAbandon ==
  ASSUME DriverTypeInv, Abandon
  PROVE  DriverTypeInv'
<1>1. TypeInv'
  <2>1. faults' \in 0..MaxFaults
    <3>1. Fault
      BY DEF Abandon, DriverRestart, Timeout, GiveUp
    <3>2. faults \in 0..MaxFaults
      BY DEF DriverTypeInv, TypeInv, TypeOK
    <3>. QED  BY <3>1, <3>2, ConstantsAssumption DEF Fault
  <2>. QED
    BY <2>1 DEF Abandon, DriverRestart, Timeout, GiveUp, DriverTypeInv, TypeInv, TypeOK, CallTypeInv,
                graphVars, memVars, fsVars, GraphTypeOK, MemTypeOK, FsTypeOK
<1>2. RequestTypeInv'
  <2>1. CASE DriverRestart
    BY <2>1, NoRequestOK DEF DriverRestart, RequestTypeInv
  <2>2. ASSUME NEW r \in Requests, Timeout(r) \/ GiveUp(r)
        PROVE  RequestTypeInv'
    <3>1. csi[r] \in Request /\ RequestOK(csi[r]) /\ csi[r].op # "none"
      BY <2>2 DEF DriverTypeInv, RequestTypeInv, Timeout, GiveUp, Free
    <3>. QED  BY <2>2, <3>1, Unheard, NoRequestOK, ServeIs DEF Timeout, GiveUp, DriverTypeInv
  <2>. QED  BY <2>1, <2>2 DEF Abandon
<1>3. /\ storage' \subseteq Volumes /\ DOMAIN snapshots' \subseteq Snapshots
      /\ \A s \in DOMAIN snapshots' : snapshots'[s] \in Volumes
      /\ UNCHANGED <<co, origin, lost, hasty>> /\ forgotten' \subseteq ImageID
  BY DEF Abandon, DriverRestart, Timeout, GiveUp, DriverTypeInv, DriverTypeOK, tableVars, coVars,
         histVars, Empty, Asked
<1>. QED
  BY <1>1, <1>2, <1>3 DEF DriverTypeInv, DriverTypeOK, TypeInv, RequestTypeInv

LEMMA TypeServerStep ==
  ASSUME DriverTypeInv, NEW w \in Workers, ServerStep(w)
  PROVE  DriverTypeInv'
<1>1. TypeInv'
  BY TypeContinue DEF ServerStep, DriverTypeInv
<1>. QED
  BY <1>1 DEF ServerStep, DriverTypeInv, DriverTypeOK, TypeInv, RequestTypeInv, driverVars,
              tableVars, coVars, histVars

LEMMA TypeServerRestart ==
  ASSUME DriverTypeInv, ServerRestart
  PROVE  DriverTypeInv'
<1>1. TypeInv'
  BY TypeRestart DEF ServerRestart, DriverTypeInv
<1>2. RequestTypeInv'
  BY NoRequestOK DEF ServerRestart, DriverTypeInv, RequestTypeInv
<1>. QED
  BY <1>1, <1>2 DEF ServerRestart, DriverTypeInv, DriverTypeOK, TypeInv, RequestTypeInv,
                    tableVars, coVars, Asked

LEMMA DriverTypeInit == DriverInit => DriverTypeInv
<1>. SUFFICES ASSUME DriverInit
              PROVE  DriverTypeInv
  OBVIOUS
<1>1. TypeInv
  BY TypeInit DEF DriverInit
<1>. QED
  BY <1>1, NoRequestOK DEF DriverInit, DriverTypeInv, DriverTypeOK, TypeInv, RequestTypeInv, Empty, Life

(* The six kinds of steps.                                                 *)
LEMMA DriverSteps ==
  ASSUME DriverNext
  PROVE  \/ \E r \in Requests : Ask(r) \/ AnswerSucceeded(r) \/ AnswerFailed(r)
         \/ \E r \in Requests, w \in Workers : CallServer(r, w)
         \/ Abandon
         \/ \E w \in Workers : ServerStep(w)
         \/ ServerRestart
  BY DEF DriverNext, Proceed, Abandon

LEMMA DriverTypeInductive == DriverTypeInv /\ [DriverNext]_allVars => DriverTypeInv'
<1>. SUFFICES ASSUME DriverTypeInv, [DriverNext]_allVars
              PROVE  DriverTypeInv'
  OBVIOUS
<1>1. CASE DriverNext
  BY <1>1, DriverSteps, TypeAsk, TypeAnswer, TypeCallServer, TypeAbandon, TypeServerStep, TypeServerRestart
<1>2. CASE UNCHANGED allVars
  BY <1>2 DEF allVars, vars, graphVars, memVars, fsVars, driverVars, tableVars, coVars, histVars,
              DriverTypeInv, DriverTypeOK, RequestTypeInv, TypeInv, CallTypeInv, TypeOK,
              GraphTypeOK, MemTypeOK, FsTypeOK
<1>. QED  BY <1>1, <1>2

(* In every reachable state of driver and server together every variable   *)
(* has its type: in particular the driver never passes a volume's id where *)
(* the server takes a snapshot's, and reads no table entry that is missing.*)
THEOREM DriverTypeCorrect == DriverSpec => []DriverTypeOK
<1>1. DriverTypeInv => DriverTypeOK
  BY DEF DriverTypeInv
<1>. QED  BY <1>1, DriverTypeInit, DriverTypeInductive, PTL DEF DriverSpec
-----------------------------------------------------------------------------
(* Who waits for whom.  A request that waits has a handler of its own, and *)
(* that handler serves just this request.                                  *)

CallOf == [create   |-> "CreateVolume",   expose     |-> "ExposeVhostUser",
           unexport |-> "DeleteExporter", delete     |-> "DeleteVolume",
           snapshot |-> "CreateSnapshot", unsnapshot |-> "DeleteSnapshot"]

ServedBy(q, c) ==
  /\ q.pc \in DOMAIN CallOf /\ c.pc # "idle"
  /\ c.op = CallOf[q.pc] /\ c.id = q.id
  /\ q.pc \in {"create", "snapshot", "unsnapshot"} => c.from = q.from

LinkInv ==
  /\ \A r \in Requests : Waiting(r) => ServedBy(csi[r], call[csi[r].worker])
  /\ \A r, x \in Requests : Waiting(r) /\ csi[r].worker = csi[x].worker => r = x

BaseInv == DriverTypeInv /\ LinkInv /\ HandlerInv

LEMMA RequestAt ==
  ASSUME DriverTypeInv, NEW r \in Requests
  PROVE  /\ csi[r] \in Request /\ RequestOK(csi[r])
         /\ ~Free(r) => csi[r].id \in ImageID /\ csi[r].id # None /\ csi[r].id \in InHand(r)
         /\ Waiting(r) => ~Free(r) /\ csi[r].worker \in Workers
<1>1. csi[r] \in Request /\ RequestOK(csi[r])
  BY DEF DriverTypeInv, RequestTypeInv
<1>2. ~Free(r) => csi[r].id \in ImageID
  BY <1>1 DEF Free, Request, RequestOK, ImageID
<1>3. Waiting(r) => ~Free(r) /\ csi[r].worker \in Workers
  BY <1>1 DEF Waiting, Free, Request, RequestOK, NoRequest
<1>. QED  BY <1>1, <1>2, <1>3, ConstantsAssumption DEF InHand

LEMMA CallServed ==
  ASSUME DriverTypeInv, NEW r \in Requests, NEW w \in Workers, CallServer(r, w)
  PROVE  /\ Idle(w) /\ \A x \in Workers \ {w} : call'[x] = call[x]
         /\ \A x \in Requests \ {r} : csi'[x] = csi[x]
         /\ csi'[r].op = csi[r].op /\ csi'[r].pc = csi[r].pc /\ csi'[r].id = csi[r].id
         /\ csi'[r].from = csi[r].from /\ csi'[r].heard = csi[r].heard /\ csi'[r].worker = w
         /\ ServedBy(csi[r], call'[w])
<1>. DEFINE q == csi[r]
<1>1. q \in Request /\ RequestOK(q) /\ q.op # "none" /\ q.pc \in DOMAIN CallOf
  BY RequestAt DEF CallServer, Free, CallOf
<1>2. Idle(w) /\ \A x \in Workers \ {w} : call'[x] = call[x]
  BY CallServerStarts, StartKeeps DEF DriverTypeInv
<1>3. /\ \A x \in Requests \ {r} : csi'[x] = csi[x]
      /\ csi'[r].op = q.op /\ csi'[r].pc = q.pc /\ csi'[r].id = q.id
      /\ csi'[r].from = q.from /\ csi'[r].heard = q.heard /\ csi'[r].worker = w
  <2>. DEFINE d == [q EXCEPT !.worker = w]
  <2>1. d.op = q.op /\ d.pc = q.pc /\ d.id = q.id /\ d.from = q.from /\ d.heard = q.heard /\ d.worker = w
    BY <1>1 DEF Request
  <2>2. Serve(r, d) /\ RequestTypeInv
    BY DEF CallServer, DriverTypeInv
  <2>. HIDE DEF d
  <2>. QED  BY <2>1, <2>2, ServeIs
<1>4. ServedBy(q, call'[w])
  <2>1. CASE q.pc = "create"
    BY <1>1, <2>1, StartCreateVolume DEF CallServer, RequestOK, DriverTypeInv, ServedBy, CallOf, Names
  <2>2. CASE q.pc = "expose"
    BY <1>1, <2>2, StartExpose DEF CallServer, RequestOK, DriverTypeInv, ServedBy, CallOf, Names
  <2>3. CASE q.pc = "unexport"
    BY <1>1, <2>3, StartUnexpose DEF CallServer, RequestOK, DriverTypeInv, ServedBy, CallOf, Names
  <2>4. CASE q.pc = "delete"
    BY <1>1, <2>4, StartDeleteVolume DEF CallServer, RequestOK, DriverTypeInv, ServedBy, CallOf, Names, TurnsTo
  <2>5. CASE q.pc = "snapshot"
    BY <1>1, <2>5, StartCreateSnapshot DEF CallServer, RequestOK, DriverTypeInv, ServedBy, CallOf, Names
  <2>6. CASE q.pc = "unsnapshot"
    BY <1>1, <2>6, StartDeleteSnapshot DEF CallServer, RequestOK, DriverTypeInv, ServedBy, CallOf, Names, TurnsTo
  <2>. QED  BY <2>1, <2>2, <2>3, <2>4, <2>5, <2>6 DEF CallServer
<1>. QED  BY <1>2, <1>3, <1>4

(* A handler that is awaited and has not answered goes on serving.         *)
LEMMA GoesOnServing ==
  ASSUME TypeInv, NEW w \in Workers, Continue(w), NEW x \in Workers, ~(x = w /\ Reply(w)),
         NEW q, ServedBy(q, call[x])
  PROVE  ServedBy(q, call'[x])
<1>1. Moves(call[x], call'[x])
  BY ContinueMoves
<1>2. SameNames(call'[x], call[x]) /\ call'[x].pc # "idle"
  BY <1>1 DEF Moves, Follows, ServedBy, SameNames
<1>. QED  BY <1>2 DEF ServedBy, SameNames

LEMMA AskFrame ==
  ASSUME DriverTypeInv, NEW r \in Requests, Ask(r)
  PROVE  /\ UNCHANGED vars /\ \A x \in Requests \ {r} : csi'[x] = csi[x]
         /\ csi[r].worker = None /\ csi'[r].worker = None
<1>1. csi[r] = NoRequest /\ NoRequest.worker = None
  BY RequestAt DEF Ask, ControllerCreateVolume, ControllerDeleteVolume, ControllerCreateSnapshot,
                   ControllerDeleteSnapshot, Free, RequestOK, NoRequest
<1>2. ASSUME NEW op, NEW pc, NEW id, NEW from, Serve(r, NewRequest(op, pc, id, from))
      PROVE  csi'[r].worker = None /\ \A x \in Requests \ {r} : csi'[x] = csi[x]
  BY <1>2 DEF Serve, NewRequest, NoRequest, DriverTypeInv, RequestTypeInv
<1>. QED
  BY <1>1, <1>2 DEF Ask, ControllerCreateVolume, ControllerDeleteVolume, ControllerCreateSnapshot,
                    ControllerDeleteSnapshot

LEMMA AnswerFrame ==
  ASSUME BaseInv, NEW r \in Requests, AnswerSucceeded(r) \/ AnswerFailed(r)
  PROVE  /\ \A x \in Requests \ {r} : csi'[x] = csi[x]
         /\ csi'[r].worker = None
         /\ \A x \in Workers \ {csi[r].worker} : call'[x] = call[x]
<1>1. csi[r] \in Request /\ RequestOK(csi[r]) /\ csi[r].worker \in Workers /\ Reply(csi[r].worker)
  BY RequestAt, TypeAnswer DEF BaseInv
<1>2. PICK d : Serve(r, d) /\ d.worker = None
  <2>1. NoRequest.worker = None
    BY DEF NoRequest
  <2>2. csi[r].pc \in DOMAIN Then => [csi[r] EXCEPT !.pc = Then[csi[r].pc], !.worker = None].worker = None
    BY <1>1, NextCallRequest
  <2>. QED  BY <2>1, <2>2 DEF AnswerSucceeded, AnswerFailed, AfterError
<1>3. csi'[r].worker = None /\ \A x \in Requests \ {r} : csi'[x] = csi[x]
  BY <1>2, ServeIs DEF BaseInv, DriverTypeInv
<1>5. \A x \in Workers \ {csi[r].worker} : call'[x] = call[x]
  BY <1>1 DEF Reply, Become, BaseInv, DriverTypeInv, TypeInv, TypeOK
<1>. QED  BY <1>3, <1>5

LEMMA AbandonFrame ==
  ASSUME DriverTypeInv, Abandon
  PROVE  /\ UNCHANGED <<graphVars, memVars, fsVars, call, co, origin, lost, hasty>>
         /\ \A r \in Requests :
              \/ csi'[r] = NoRequest
              \/ csi'[r] = csi[r]
              \/ /\ csi'[r].op = csi[r].op /\ csi'[r].pc = csi[r].pc /\ csi'[r].id = csi[r].id
                 /\ csi'[r].from = csi[r].from /\ csi'[r].worker = csi[r].worker /\ ~csi'[r].heard
<1>1. UNCHANGED <<graphVars, memVars, fsVars, call, co, origin, lost, hasty>>
  BY DEF Abandon, DriverRestart, Timeout, GiveUp, coVars, histVars
<1>2. CASE DriverRestart
  BY <1>1, <1>2 DEF DriverRestart
<1>3. ASSUME NEW r \in Requests, Timeout(r)
      PROVE  \A x \in Requests : csi'[x] = NoRequest \/ csi'[x] = csi[x]
  BY <1>3 DEF Timeout, Serve, DriverTypeInv, RequestTypeInv
<1>4. ASSUME NEW r \in Requests, GiveUp(r)
      PROVE  \A x \in Requests :
               \/ csi'[x] = csi[x]
               \/ /\ csi'[x].op = csi[x].op /\ csi'[x].pc = csi[x].pc /\ csi'[x].id = csi[x].id
                  /\ csi'[x].from = csi[x].from /\ csi'[x].worker = csi[x].worker /\ ~csi'[x].heard
  <2>1. csi[r] \in Request
    BY RequestAt
  <2>. QED  BY <1>4, <2>1 DEF GiveUp, Serve, DriverTypeInv, RequestTypeInv, Request
<1>. QED  BY <1>1, <1>2, <1>3, <1>4 DEF Abandon

LEMMA LinkKept ==
  ASSUME BaseInv, DriverNext
  PROVE  LinkInv'
<1>. USE DEF BaseInv
<1>1. ASSUME NEW r \in Requests, Ask(r)
      PROVE  LinkInv'
  BY <1>1, AskFrame DEF LinkInv, Waiting, vars
<1>2. ASSUME NEW r \in Requests, NEW w \in Workers, CallServer(r, w)
      PROVE  LinkInv'
  <2>1. ASSUME NEW x \in Requests, Waiting(x)
        PROVE  csi[x].worker # w /\ x # r
    BY <1>2, <2>1, CallServed DEF LinkInv, ServedBy, Idle, CallServer
  <2>2. csi'[r].worker = w /\ ServedBy(csi'[r], call'[w])
    BY <1>2, CallServed DEF ServedBy
  <2>3. ASSUME NEW x \in Requests, Waiting(x)'
        PROVE  ServedBy(csi'[x], call'[csi'[x].worker])
    <3>1. CASE x = r
      BY <2>2, <3>1
    <3>2. CASE x # r
      <4>1. csi'[x] = csi[x]
        BY <1>2, <3>2, CallServed
      <4>2. Waiting(x) /\ csi[x].worker # w
        BY <2>1, <2>3, <4>1 DEF Waiting
      <4>3. call'[csi[x].worker] = call[csi[x].worker]
        BY <1>2, <4>2, CallServed, RequestAt
      <4>. QED  BY <4>1, <4>2, <4>3 DEF LinkInv
    <3>. QED  BY <3>1, <3>2
  <2>4. ASSUME NEW x \in Requests, NEW y \in Requests, Waiting(x)', csi'[x].worker = csi'[y].worker
        PROVE  x = y
    <3>1. \A z \in Requests \ {r} : csi'[z] = csi[z]
      BY <1>2, CallServed
    <3>. QED  BY <2>1, <2>2, <2>4, <3>1 DEF LinkInv, Waiting
  <2>. QED  BY <2>3, <2>4 DEF LinkInv
<1>3. ASSUME NEW r \in Requests, AnswerSucceeded(r) \/ AnswerFailed(r)
      PROVE  LinkInv'
  <2>1. /\ \A x \in Requests \ {r} : csi'[x] = csi[x]
        /\ csi'[r].worker = None /\ Waiting(r)
        /\ \A x \in Workers \ {csi[r].worker} : call'[x] = call[x]
    BY <1>3, AnswerFrame DEF AnswerSucceeded, AnswerFailed
  <2>2. ASSUME NEW x \in Requests, Waiting(x)'
        PROVE  x # r /\ csi'[x] = csi[x] /\ Waiting(x) /\ csi[x].worker # csi[r].worker
    BY <2>1, <2>2 DEF LinkInv, Waiting
  <2>3. \A x \in Requests : Waiting(x) => csi[x].worker \in Workers
    BY RequestAt
  <2>. QED  BY <2>1, <2>2, <2>3 DEF LinkInv, Waiting
<1>4. CASE Abandon
  <2>1. \A r \in Requests : csi'[r] = NoRequest \/
           (csi'[r].worker = csi[r].worker /\ csi'[r].pc = csi[r].pc /\ csi'[r].id = csi[r].id
            /\ csi'[r].from = csi[r].from)
    BY <1>4, AbandonFrame
  <2>2. UNCHANGED call
    BY <1>4, AbandonFrame
  <2>3. NoRequest.worker = None
    BY DEF NoRequest
  <2>. QED  BY <2>1, <2>2, <2>3 DEF LinkInv, Waiting, ServedBy
<1>5. ASSUME NEW w \in Workers, ServerStep(w)
      PROVE  LinkInv'
  <2>1. UNCHANGED csi /\ Continue(w)
    BY <1>5 DEF ServerStep, driverVars
  <2>2. ASSUME NEW r \in Requests, Waiting(r)
        PROVE  ServedBy(csi[r], call'[csi[r].worker])
    <3>1. csi[r].worker \in Workers
      BY <2>2, RequestAt
    <3>2. ~(csi[r].worker = w /\ Reply(w))
      BY <1>5 DEF ServerStep, Awaited, Answered, Reply
    <3>. QED  BY <2>1, <2>2, <3>1, <3>2, GoesOnServing DEF LinkInv, DriverTypeInv
  <2>. QED  BY <2>1, <2>2 DEF LinkInv, Waiting
<1>6. CASE ServerRestart
  BY <1>6 DEF ServerRestart, LinkInv, Waiting, NoRequest
<1>. QED  BY <1>1, <1>2, <1>3, <1>4, <1>5, <1>6, DriverSteps

(* A step of the driver and the server, as the server sees it.             *)
LEMMA ServerView ==
  ASSUME BaseInv, DriverNext
  PROVE  \/ UNCHANGED <<graphVars, memVars, fsVars, call>>
         \/ \E w \in Workers : Starts(w) \/ Continue(w)
         \/ Restart
<1>1. \A r \in Requests : Ask(r) => UNCHANGED <<graphVars, memVars, fsVars, call>>
  BY DEF Ask, ControllerCreateVolume, ControllerDeleteVolume, ControllerCreateSnapshot,
         ControllerDeleteSnapshot, vars
<1>2. \A r \in Requests : AnswerSucceeded(r) \/ AnswerFailed(r) => \E w \in Workers : Continue(w)
  BY TypeAnswer DEF BaseInv, Continue
<1>. QED
  BY <1>1, <1>2, DriverSteps, CallServerStarts, AbandonFrame DEF BaseInv, ServerStep, ServerRestart

LEMMA HandlersKept ==
  ASSUME BaseInv, DriverNext
  PROVE  HandlerInv'
<1>1. UNCHANGED <<graphVars, memVars, fsVars, call>> => HandlerInv'
  BY DEF BaseInv, HandlerInv, memVars
<1>. QED
  BY <1>1, ServerView, HandlerStarts, HandlerContinue, HandlerRestart DEF BaseInv, DriverTypeInv

LEMMA BaseInit == DriverInit => BaseInv
<1>. SUFFICES ASSUME DriverInit
              PROVE  BaseInv
  OBVIOUS
<1>1. DriverTypeInv /\ HandlerInv
  BY DriverTypeInit, HandlerInit DEF DriverInit
<1>2. LinkInv
  BY DEF DriverInit, LinkInv, Waiting, NoRequest
<1>. QED  BY <1>1, <1>2 DEF BaseInv

LEMMA BaseStep ==
  ASSUME BaseInv, DriverNext
  PROVE  BaseInv'
  BY DriverTypeInductive, LinkKept, HandlersKept DEF BaseInv

LEMMA BaseStutter ==
  ASSUME BaseInv, UNCHANGED allVars
  PROVE  BaseInv'
<1>1. DriverTypeInv'
  BY DriverTypeInductive DEF BaseInv
<1>. QED
  BY <1>1 DEF BaseInv, LinkInv, Waiting, HandlerInv, allVars, vars, graphVars, memVars, fsVars,
              driverVars
-----------------------------------------------------------------------------
(* What the orchestrator may still count on.  An id it has not asked to    *)
(* delete is alive; no delete call is about it, so none of what the server *)
(* keeps for it is taken away, except in a restart.                        *)

Creating == {"CreateVolume", "CreateSnapshot"}
Alive(i) == co[i] \in {"unborn", "creating", "ready"}

RequestTimely(q) ==
  /\ q.op # "none" => co[q.id] # "unborn"
  /\ q.op \in Deleting => ~Alive(q.id)
  /\ q.heard /\ q.op \in Creating => co[q.id] \in {"creating", "ready"}
RequestsTimely == \A r \in Requests : RequestTimely(csi[r])

CallTimely(c) ==
  /\ c.op \in Deleting \cup {"DeleteExporter"} => ~Alive(c.id)
  /\ c.pc \in DeletePC => ~Alive(c.layer)
CallsTimely == \A w \in Workers : CallTimely(call[w])

ImagesHeld ==
  \A i \in DOMAIN images :
    Alive(i) => images[i].VolumeRef = i /\ QSDID[i] \in DOMAIN nodes /\ images[i].File \in files

(* What a call that creates or exposes has reached so far.                 *)
CallHeld(c) ==
  c.op \in Creating \cup {"ExposeVhostUser"} /\ Alive(c.id) =>
    /\ c.pc \in {"append", "store"} => QSDID[c.id] \in DOMAIN nodes /\ FileOf(c) \in files
    /\ c.op \in Creating /\ c.pc = "succeeded" => c.id \in DOMAIN images
    /\ c.pc = "export" => c.id \in DOMAIN images \cap sockets
    /\ c.op = "ExposeVhostUser" /\ c.pc = "succeeded" =>
         c.id \in DOMAIN images \cap sockets /\ QSDID[c.id] \in DOMAIN exports
ServerHeld == ImagesHeld /\ \A w \in Workers : CallHeld(call[w])

TableHeld ==
  \A s \in DOMAIN snapshots :
    co[s] # "unborn" /\ (s \notin lost /\ Alive(s) => s \in DOMAIN images)
ToldHeld ==
  \A i \in ImageID \ lost :
    co[i] = "ready" =>
      /\ i \in DOMAIN images
      /\ i \in Volumes => QSDID[i] \in DOMAIN exports /\ i \in sockets

AliveInv == BaseInv /\ RequestsTimely /\ CallsTimely /\ ServerHeld /\ TableHeld /\ ToldHeld

(* Nothing comes back to life, and nothing asked for becomes unborn.       *)
NoNewLife ==
  \A i \in ImageID : /\ Alive(i)' => Alive(i)
                     /\ co[i] # "unborn" => co'[i] # "unborn"

(* A step that takes nothing of i away.                                    *)
Spares(i) ==
  /\ i \in DOMAIN images => i \in DOMAIN images'
  /\ QSDID[i] \in DOMAIN nodes => QSDID[i] \in DOMAIN nodes'
  /\ QSDID[i] \in DOMAIN exports => QSDID[i] \in DOMAIN exports'
  /\ i \in sockets => i \in sockets'
  /\ \A f \in files : Belongs(f, i) => f \in files'

LEMMA QuietSpares ==
  ASSUME UNCHANGED <<graphVars, memVars, fsVars>>, NEW i
  PROVE  Spares(i)
  BY DEF graphVars, memVars, fsVars, Spares

LEMMA StartSpares ==
  ASSUME TypeInv, NEW w \in Workers, Starts(w), NEW i
  PROVE  Spares(i)
  BY StartKeeps DEF Spares

(* A handler takes away only what belongs to the id it deletes.            *)
LEMMA ContinueSpares ==
  ASSUME DistinctQSDIDs, BaseInv, CallsTimely, NEW w \in Workers, Continue(w),
         NEW i \in ImageID, Alive(i)
  PROVE  Spares(i)
<1>. DEFINE c == call[w]
<1>1. TypeInv /\ c \in Call /\ CallOK(c) /\ StepsOf(c) /\ CallTimely(c)
  BY DEF BaseInv, DriverTypeInv, TypeInv, CallTypeInv, HandlerInv, CallsTimely
<1>2. i \in DOMAIN images => i \in DOMAIN images'
  BY <1>1, ImageChange DEF CallTimely
<1>3. QSDID[i] \in DOMAIN nodes => QSDID[i] \in DOMAIN nodes'
  BY <1>1, NodeChange DEF CallTimely, CallOK, DistinctQSDIDs
<1>4. QSDID[i] \in DOMAIN exports => QSDID[i] \in DOMAIN exports'
  <2>1. c.pc = "unexport" => c.id \in ImageID /\ c.id # i
    BY <1>1 DEF CallTimely, StepsOf, ImageID
  <2>. QED  BY <2>1, ExportChange DEF DistinctQSDIDs
<1>5. i \in sockets => i \in sockets'
  BY <1>1, FileChange DEF CallTimely, StepsOf
<1>6. \A f \in files : Belongs(f, i) => f \in files'
  <2>1. c.pc = "remove" => c.layer \in ImageID /\ c.layer # i /\ Belongs(c.ptr.File, c.layer)
    BY <1>1 DEF CallTimely, CallOK, BaseInv, HandlerInv
  <2>. QED  BY <2>1, FileChange, BelongsApart
<1>. QED  BY <1>2, <1>3, <1>4, <1>5, <1>6 DEF Spares

(* What was established for a living id lasts with it.                     *)
LEMMA ImageHeldLasts ==
  ASSUME ImagesHeld, HandlerInv, NEW i \in DOMAIN images, KeepsOwner(i), Spares(i), Alive(i)
  PROVE  images'[i].VolumeRef = i /\ QSDID[i] \in DOMAIN nodes' /\ images'[i].File \in files'
  BY DEF ImagesHeld, HandlerInv, KeepsOwner, Spares

LEMMA CallHeldLasts ==
  ASSUME NEW c, CallOK(c), CallHeld(c), Alive(c.id)' => Alive(c.id) /\ Spares(c.id)
  PROVE  CallHeld(c)'
<1>1. c.pc \in {"append", "store"} => Belongs(FileOf(c), c.id) /\ FileOf(c)' = FileOf(c)
  BY FileOfBelongs DEF FileOf, DiskFile, SnapFile
<1>. QED  BY <1>1 DEF CallHeld, Spares, FileOf, DiskFile, SnapFile
(* What asking does: to one id, which no request the orchestrator still    *)
(* waits for is about.                                                     *)
AsksOf(r, id) ==
  /\ \A i \in ImageID \ {id} : co'[i] = co[i]
  /\ \A x \in Requests : csi[x].heard => id \notin InHand(x)
  /\ \/ /\ Alive(id) /\ co'[id] \in {"creating", "ready"}
        /\ co'[id] = "ready" => co[id] = "ready" \/ id \in DOMAIN snapshots
        /\ csi'[r] = csi[r] \/ (csi'[r].op \in Creating /\ csi'[r].id = id)
     \/ /\ co[id] # "unborn" /\ co'[id] \in {"deleting", "deleted"}
        /\ csi'[r] = csi[r] \/ (csi'[r].op \in Deleting /\ csi'[r].id = id)

LEMMA AskEffect ==
  ASSUME DriverTypeInv, NEW r \in Requests, Ask(r)
  PROVE  \E id \in ImageID : AsksOf(r, id)
<1>0. /\ co \in [ImageID -> Life]
      /\ Volumes \subseteq ImageID /\ Snapshots \subseteq ImageID /\ None \notin ImageID
      /\ CloneSources \subseteq ImageID
  BY ConstantsAssumption DEF DriverTypeInv, DriverTypeOK, ImageID
<1>1. ASSUME NEW id \in ImageID, NEW from \in ImageID \cup {None}, MayAskToCreate(id, from),
             AskToCreate(id, from)
      PROVE  /\ \A i \in ImageID \ {id} : co'[i] = co[i]
             /\ Alive(id) /\ co'[id] \in {"creating", "ready"}
             /\ co'[id] = "ready" => co[id] = "ready"
  BY <1>0, <1>1 DEF MayAskToCreate, AskToCreate, Tell, Alive
<1>2. ASSUME NEW id \in ImageID, MayAskToDelete(id), AskToDelete(id) \/ Tell(id, "deleted")
      PROVE  /\ \A i \in ImageID \ {id} : co'[i] = co[i]
             /\ co[id] # "unborn" /\ co'[id] \in {"deleting", "deleted"}
  BY <1>0, <1>2 DEF MayAskToDelete, AskToDelete, Tell
<1>3. ASSUME NEW op \in Creating \cup Deleting, NEW pc \in {"create", "unexport", "snapshot", "unsnapshot"},
             NEW id \in ImageID, NEW from \in ImageID \cup {None}, Serve(r, NewRequest(op, pc, id, from))
      PROVE  csi'[r].op = op /\ csi'[r].id = id
  <2>. DEFINE q == NewRequest(op, pc, id, from)
  <2>1. q.op = op /\ q.id = id
    BY <1>3, NewRequestFields DEF Creating, Deleting
  <2>. HIDE DEF q
  <2>2. Serve(r, q)
    BY <1>3 DEF q
  <2>. QED  BY <2>1, <2>2, ServeIs DEF DriverTypeInv
<1>4. ASSUME NEW v \in Volumes, NEW src \in CloneSources \cup {None}, ControllerCreateVolume(r, v, src)
      PROVE  AsksOf(r, v)
  <2>1. "CreateVolume" \in Creating /\ v \in ImageID /\ src \in ImageID \cup {None}
    BY <1>0 DEF Creating
  <2>2. csi'[r].op = "CreateVolume" /\ csi'[r].id = v
    BY <1>3, <1>4, <2>1 DEF ControllerCreateVolume
  <2>3. \A x \in Requests : csi[x].heard => v \notin InHand(x)
    BY <1>0, <1>4 DEF ControllerCreateVolume, AskFor
  <2>. QED  BY <1>1, <1>4, <2>1, <2>2, <2>3 DEF ControllerCreateVolume, AsksOf
<1>5. ASSUME NEW v \in Volumes, ControllerDeleteVolume(r, v)
      PROVE  AsksOf(r, v)
  <2>1. "DeleteVolume" \in Deleting /\ v \in ImageID
    BY <1>0 DEF Deleting
  <2>2. csi'[r] = csi[r] \/ (csi'[r].op = "DeleteVolume" /\ csi'[r].id = v)
    BY <1>3, <1>5, <2>1 DEF ControllerDeleteVolume
  <2>3. \A x \in Requests : csi[x].heard => v \notin InHand(x)
    BY <1>5 DEF ControllerDeleteVolume, AskFor
  <2>. QED  BY <1>2, <1>5, <2>1, <2>2, <2>3 DEF ControllerDeleteVolume, AsksOf
<1>6. ASSUME NEW s \in Snapshots, NEW v \in Volumes, ControllerCreateSnapshot(r, s, v)
      PROVE  AsksOf(r, s)
  <2>1. "CreateSnapshot" \in Creating /\ s \in ImageID /\ v \in ImageID \cup {None}
    BY <1>0 DEF Creating
  <2>2. csi'[r] = csi[r] \/ (csi'[r].op = "CreateSnapshot" /\ csi'[r].id = s)
    BY <1>3, <1>6, <2>1 DEF ControllerCreateSnapshot
  <2>3. \A x \in Requests : csi[x].heard => s \notin InHand(x)
    BY <1>6 DEF ControllerCreateSnapshot, AskFor
  <2>4. /\ \A i \in ImageID \ {s} : co'[i] = co[i]
        /\ Alive(s) /\ co'[s] \in {"creating", "ready"}
        /\ co'[s] = "ready" => co[s] = "ready" \/ s \in DOMAIN snapshots
    <3>1. CASE s \in DOMAIN snapshots
      BY <1>0, <1>6, <2>1, <3>1 DEF ControllerCreateSnapshot, Tell, MayAskToCreate, Alive
    <3>2. CASE s \notin DOMAIN snapshots
      BY <1>1, <1>6, <2>1, <3>2 DEF ControllerCreateSnapshot
    <3>. QED  BY <3>1, <3>2
  <2>. QED  BY <2>1, <2>2, <2>3, <2>4 DEF AsksOf
<1>7. ASSUME NEW s \in Snapshots, ControllerDeleteSnapshot(r, s)
      PROVE  AsksOf(r, s)
  <2>1. "DeleteSnapshot" \in Deleting /\ s \in ImageID
    BY <1>0 DEF Deleting
  <2>2. s \in DOMAIN snapshots => snapshots[s] \in ImageID \cup {None}
    BY <1>0 DEF DriverTypeInv, DriverTypeOK
  <2>3. csi'[r] = csi[r] \/ (csi'[r].op = "DeleteSnapshot" /\ csi'[r].id = s)
    BY <1>3, <1>7, <2>1, <2>2 DEF ControllerDeleteSnapshot
  <2>4. \A x \in Requests : csi[x].heard => s \notin InHand(x)
    BY <1>7 DEF ControllerDeleteSnapshot, AskFor
  <2>. QED  BY <1>2, <1>7, <2>1, <2>3, <2>4 DEF ControllerDeleteSnapshot, AsksOf
<1>. QED  BY <1>0, <1>4, <1>5, <1>6, <1>7 DEF Ask

(* What an answer tells: that a create request is done, or a delete.       *)
LEMMA AnswerTells ==
  ASSUME DriverTypeInv, NEW r \in Requests, AnswerSucceeded(r) \/ AnswerFailed(r)
  PROVE  /\ \/ UNCHANGED co
            \/ /\ csi[r].heard /\ call[csi[r].worker].pc = "succeeded"
               /\ csi[r].pc \in {"expose", "delete", "snapshot", "unsnapshot"}
               /\ \A i \in ImageID \ {csi[r].id} : co'[i] = co[i]
               /\ co'[csi[r].id] = Outcome(csi[r])
         /\ \/ csi'[r] = NoRequest
            \/ /\ csi'[r].op = csi[r].op /\ csi'[r].id = csi[r].id /\ csi'[r].from = csi[r].from
               /\ csi'[r].heard = csi[r].heard /\ csi[r].pc \in DOMAIN Then
               /\ csi'[r].pc = Then[csi[r].pc] /\ UNCHANGED <<co, tableVars>>
               /\ call[csi[r].worker].pc = "succeeded"
<1>. DEFINE q == csi[r]
<1>1. q \in Request /\ RequestOK(q) /\ q.id \in ImageID /\ q.op # "none" /\ RequestTypeInv
  BY RequestAt DEF AnswerSucceeded, AnswerFailed, Free, DriverTypeInv
<1>2. CASE AnswerFailed(r)
  BY <1>1, <1>2, ServeIs DEF AnswerFailed, AfterError, coVars
<1>3. CASE AnswerSucceeded(r) /\ q.pc \in DOMAIN Then
  <2>. DEFINE d == [q EXCEPT !.pc = Then[q.pc], !.worker = None]
  <2>1. d.op = q.op /\ d.pc = Then[q.pc] /\ d.id = q.id /\ d.from = q.from /\ d.heard = q.heard
    BY <1>1, <1>3, NextCallRequest
  <2>2. Serve(r, d) /\ UNCHANGED <<tableVars, coVars>> /\ call[q.worker].pc = "succeeded"
    BY <1>3 DEF AnswerSucceeded
  <2>. HIDE DEF d
  <2>3. csi'[r] = d
    BY <1>1, <2>2, ServeIs
  <2>. QED  BY <1>3, <2>1, <2>2, <2>3 DEF coVars
<1>4. CASE AnswerSucceeded(r) /\ q.pc \notin DOMAIN Then
  <2>1. q.pc \in {"expose", "delete", "snapshot", "unsnapshot"}
    BY <1>1, <1>4 DEF Request, RequestOK, Then
  <2>2. co \in [ImageID -> Life]
    BY DEF DriverTypeInv, DriverTypeOK
  <2>3. csi'[r] = NoRequest
    BY <1>1, <1>4, ServeIs DEF AnswerSucceeded
  <2>. QED  BY <1>1, <1>4, <2>1, <2>2, <2>3 DEF AnswerSucceeded, Tell
<1>. QED  BY <1>2, <1>3, <1>4

LEMMA LivesOn ==
  ASSUME BaseInv, RequestsTimely, DriverNext
  PROVE  NoNewLife
<1>1. UNCHANGED co => NoNewLife
  BY DEF NoNewLife, Alive
<1>2. ASSUME NEW r \in Requests, Ask(r)
      PROVE  NoNewLife
  <2>1. PICK id \in ImageID : AsksOf(r, id)
    BY <1>2, AskEffect DEF BaseInv
  <2>. QED  BY <2>1 DEF AsksOf, NoNewLife, Alive
<1>3. ASSUME NEW r \in Requests, AnswerSucceeded(r) \/ AnswerFailed(r)
      PROVE  NoNewLife
  <2>1. RequestTimely(csi[r]) /\ csi[r] \in Request
    BY RequestAt DEF RequestsTimely, BaseInv
  <2>2. Outcome(csi[r]) \in {"ready", "deleted"} /\ (Outcome(csi[r]) = "ready" => csi[r].op \in Creating)
    BY DEF Outcome, Creating
  <2>. QED  BY <1>1, <1>3, <2>1, <2>2, AnswerTells DEF BaseInv, RequestTimely, NoNewLife, Alive
<1>4. CASE Abandon
  BY <1>1, <1>4, AbandonFrame DEF BaseInv
<1>5. CASE (\E w \in Workers : ServerStep(w)) \/ ServerRestart
  BY <1>1, <1>5 DEF ServerStep, ServerRestart, driverVars, coVars
<1>6. CASE \E r \in Requests, w \in Workers : CallServer(r, w)
  BY <1>1, <1>6 DEF CallServer, coVars
<1>. QED  BY <1>2, <1>3, <1>4, <1>5, <1>6, DriverSteps
LEMMA RequestsTimelyKept ==
  ASSUME BaseInv, RequestsTimely, DriverNext
  PROVE  RequestsTimely'
<1>0. NoNewLife /\ DriverTypeInv
  BY LivesOn DEF BaseInv
<1>1. RequestTimely(NoRequest)'
  BY DEF NoRequest, RequestTimely, Deleting, Creating
<1>2. ASSUME NEW r \in Requests, Ask(r)
      PROVE  RequestsTimely'
  <2>1. PICK id \in ImageID : AsksOf(r, id)
    BY <1>0, <1>2, AskEffect
  <2>2. \A x \in Requests \ {r} : csi'[x] = csi[x]
    BY <1>0, <1>2, AskFrame
  <2>3. ASSUME NEW x \in Requests, csi'[x] = csi[x]
        PROVE  RequestTimely(csi[x])'
    <3>1. csi[x].op # "none" => csi[x].id \in ImageID /\ (csi[x].heard => csi[x].id # id)
      BY <1>0, <2>1, RequestAt DEF Free, AsksOf
    <3>2. RequestTimely(csi[x]) /\ csi[x] \in Request
      BY <1>0, RequestAt DEF RequestsTimely
    <3>. QED
      BY <1>0, <2>1, <2>3, <3>1, <3>2
      DEF RequestTimely, AsksOf, NoNewLife, Creating, Deleting
  <2>4. CASE csi'[r] # csi[r]
    <3>1. RequestTimely(csi[r])'
      BY <2>1, <2>4 DEF AsksOf, RequestTimely, Alive, Creating, Deleting
    <3>. QED  BY <2>2, <2>3, <3>1 DEF RequestsTimely
  <2>. QED  BY <2>2, <2>3, <2>4 DEF RequestsTimely
<1>3. ASSUME NEW r \in Requests, NEW w \in Workers, CallServer(r, w)
      PROVE  RequestsTimely'
  BY <1>0, <1>3, CallServed DEF RequestsTimely, RequestTimely, CallServer, coVars, Alive
<1>4. ASSUME NEW r \in Requests, AnswerSucceeded(r) \/ AnswerFailed(r)
      PROVE  RequestsTimely'
  <2>1. \A x \in Requests \ {r} : csi'[x] = csi[x]
    BY <1>4, AnswerFrame
  <2>2. ASSUME NEW x \in Requests, csi'[x] = csi[x]
        PROVE  RequestTimely(csi[x])'
    <3>1. RequestTimely(csi[x]) /\ RequestTimely(csi[r])
      BY DEF RequestsTimely
    <3>2. csi[x].op # "none" => csi[x].id \in ImageID
      BY <1>0, RequestAt DEF Free
    <3>3. Outcome(csi[r]) = IF csi[r].op \in Creating THEN "ready" ELSE "deleted"
      BY DEF Outcome, Creating
    <3>4. csi[r].op \in Creating \cup Deleting
      BY <1>0, <1>4, RequestAt DEF Request, RequestOK, Free, AnswerSucceeded, AnswerFailed, Creating, Deleting
    <3>5. ASSUME csi[x].heard, csi[x].op \in Creating
          PROVE  co'[csi[x].id] \in {"creating", "ready"}
      <4>1. csi[x].op # "none" /\ co[csi[x].id] \in {"creating", "ready"}
        BY <3>1, <3>5 DEF RequestTimely, Creating
      <4>2. CASE csi[x].id # csi[r].id
        BY <1>0, <1>4, <3>2, <4>1, <4>2, AnswerTells
      <4>3. CASE csi[x].id = csi[r].id
        <5>1. csi[r].op \notin Deleting
          BY <3>1, <4>1, <4>3 DEF RequestTimely, Alive
        <5>. QED  BY <1>0, <1>4, <3>3, <3>4, <4>1, <4>3, <5>1, AnswerTells
      <4>. QED  BY <4>2, <4>3
    <3>. QED  BY <1>0, <2>2, <3>1, <3>2, <3>5 DEF RequestTimely, NoNewLife, Deleting
  <2>3. RequestTimely(csi[r])'
    <3>1. CASE csi'[r] = NoRequest
      BY <1>1, <3>1 DEF RequestTimely, Alive
    <3>2. CASE csi'[r] # NoRequest
      BY <1>0, <1>4, <3>2, AnswerTells DEF RequestsTimely, RequestTimely, Alive
    <3>. QED  BY <3>1, <3>2
  <2>. QED  BY <2>1, <2>2, <2>3 DEF RequestsTimely
<1>5. CASE Abandon
  <2>1. UNCHANGED co
    BY <1>0, <1>5, AbandonFrame
  <2>2. ASSUME NEW x \in Requests
        PROVE  RequestTimely(csi[x])'
    <3>1. CASE csi'[x] = NoRequest
      BY <1>1, <3>1 DEF RequestTimely, Alive
    <3>2. CASE csi'[x] # NoRequest
      BY <1>0, <1>5, <2>1, <3>2, AbandonFrame DEF RequestsTimely, RequestTimely, Alive
    <3>. QED  BY <3>1, <3>2
  <2>. QED  BY <2>2 DEF RequestsTimely
<1>6. ASSUME NEW w \in Workers, ServerStep(w)
      PROVE  RequestsTimely'
  BY <1>6 DEF ServerStep, driverVars, coVars, RequestsTimely, RequestTimely, Alive
<1>7. CASE ServerRestart
  <2>1. UNCHANGED co /\ \A x \in Requests : csi'[x] = NoRequest \/ csi'[x] = csi[x]
    BY <1>7 DEF ServerRestart, coVars
  <2>2. ASSUME NEW x \in Requests
        PROVE  RequestTimely(csi[x])'
    <3>1. CASE csi'[x] = NoRequest
      BY <1>1, <3>1 DEF RequestTimely, Alive
    <3>2. CASE csi'[x] = csi[x]
      BY <2>1, <3>2 DEF RequestsTimely, RequestTimely, Alive
    <3>. QED  BY <2>1, <3>1, <3>2
  <2>. QED  BY <2>2 DEF RequestsTimely
<1>. QED  BY <1>2, <1>3, <1>4, <1>5, <1>6, <1>7, DriverSteps

(* A layer that can be collected has no owner, and a living id owns its    *)
(* image.                                                                  *)
LEMMA OrphanDead ==
  ASSUME ImagesHeld, NEW l \in DOMAIN images, images[l].VolumeRef = None, l # None
  PROVE  ~Alive(l)
  BY DEF ImagesHeld

LEMMA CallsTimelyContinue ==
  ASSUME BaseInv, NoNewLife, CallsTimely, ImagesHeld, NEW w \in Workers, Continue(w)
  PROVE  CallsTimely'
<1>0. TypeInv /\ HandlerInv /\ MemTypeOK
  BY DEF BaseInv, DriverTypeInv, TypeInv, TypeOK
<1>1. SUFFICES ASSUME NEW x \in Workers
               PROVE  CallTimely(call[x])'
  BY DEF CallsTimely
<1>2. Proceeds(call[x], call'[x], images') /\ CallTimely(call[x]) /\ StepsOf(call[x])
  BY <1>0, ContinueProceeds DEF CallsTimely, HandlerInv
<1>3. ASSUME call'[x].op \in Deleting \cup {"DeleteExporter"}
      PROVE  ~Alive(call[x].id)'
  <2>1. SameNames(call'[x], call[x])
    BY <1>2, <1>3 DEF Proceeds, NoCall, Deleting
  <2>2. call[x].id \in ImageID
    BY <1>2, <1>3, <2>1 DEF StepsOf, SameNames, Deleting, ImageID
  <2>. QED  BY <1>2, <1>3, <2>1, <2>2 DEF CallTimely, SameNames, NoNewLife, Alive
<1>4. ASSUME call'[x].pc \in DeletePC
      PROVE  ~Alive(call[x].layer)'
  <2>. DEFINE l == call'[x].layer
  <2>1. CASE call[x].pc \in DeletePC /\ l = call[x].layer
    <3>1. l \in ImageID
      BY <1>0, <2>1 DEF TypeInv, CallTypeInv, CallOK
    <3>. QED  BY <1>2, <2>1, <3>1 DEF CallTimely, NoNewLife, Alive
  <2>2. CASE Collectable(images', l)
    <3>1. l \in DOMAIN images' /\ images'[l].VolumeRef = None
      BY <2>2 DEF Collectable
    <3>2. l \in ImageID /\ l # None
      BY <1>0, <3>1, TypeContinue, ConstantsAssumption DEF TypeInv, TypeOK, MemTypeOK
    <3>3. KeepsOwner(l)
      BY <1>0, <3>1, <3>2, ImageChange
    <3>4. ~Alive(l)
      BY <3>1, <3>2, <3>3, OrphanDead DEF KeepsOwner
    <3>. QED  BY <3>2, <3>4 DEF NoNewLife, Alive
  <2>. QED  BY <1>2, <1>4, <2>1, <2>2 DEF Proceeds
<1>. QED  BY <1>3, <1>4 DEF CallTimely, Alive

LEMMA CallsTimelyCall ==
  ASSUME BaseInv, RequestsTimely, CallsTimely, ImagesHeld,
         NEW r \in Requests, NEW w \in Workers, CallServer(r, w)
  PROVE  CallsTimely'
<1>. DEFINE q == csi[r]
<1>0. TypeInv /\ DriverTypeInv /\ RequestOK(q) /\ ~Free(r) /\ RequestTimely(q) /\ UNCHANGED co
  BY RequestAt DEF BaseInv, DriverTypeInv, CallServer, RequestsTimely, coVars
<1>1. ServedBy(q, call'[w]) /\ \A x \in Workers \ {w} : call'[x] = call[x]
  BY <1>0, CallServed
<1>2. SUFFICES CallTimely(call[w])'
  BY <1>0, <1>1, <1>2 DEF CallsTimely, CallTimely, Alive
<1>3. ASSUME call'[w].op \in Deleting \cup {"DeleteExporter"}
      PROVE  ~Alive(q.id)
  <2>1. q.pc \in {"unexport", "delete", "unsnapshot"}
    BY <1>1, <1>3 DEF ServedBy, CallOf, Deleting
  <2>. QED  BY <1>0, <2>1 DEF RequestOK, RequestTimely, Deleting
<1>4. ASSUME call'[w].pc \in DeletePC
      PROVE  ~Alive(call'[w].layer)
  <2>1. CASE q.pc = "delete"
    <3>1. DeleteVolume(w, q.id) /\ q.id \in Volumes
      BY <1>0, <2>1 DEF CallServer, RequestOK
    <3>2. call'[w].layer = q.id /\ call'[w].op = "DeleteVolume"
      BY <1>0, <1>4, <3>1, StartDeleteVolume DEF TurnsTo, Names
    <3>. QED  BY <1>3, <3>2 DEF Deleting
  <2>2. CASE q.pc = "unsnapshot"
    <3>1. DeleteSnapshot(w, q.id, q.from) /\ q.id \in Snapshots /\ q.from \in Volumes
      BY <1>0, <2>2 DEF CallServer, RequestOK
    <3>2. /\ call'[w].op = "DeleteSnapshot"
          /\ \/ call'[w].layer = q.id
             \/ Collectable(images', call'[w].layer)
          /\ \A i \in DOMAIN images \ {q.id} : images'[i].VolumeRef = images[i].VolumeRef
      BY <1>0, <1>4, <3>1, StartDeleteSnapshot DEF TurnsTo, Names
    <3>3. ~Alive(q.id)
      BY <1>3, <3>2 DEF Deleting
    <3>4. DOMAIN images' = DOMAIN images /\ DOMAIN images \subseteq ImageID
      BY <1>0, StartKeeps, CallServerStarts DEF TypeInv, TypeOK, MemTypeOK
    <3>. QED  BY <3>2, <3>3, <3>4, OrphanDead, ConstantsAssumption DEF Collectable
  <2>3. CASE q.pc \notin {"delete", "unsnapshot"}
    <3>1. call'[w].op \notin Deleting
      BY <1>1, <2>3 DEF ServedBy, CallOf, Deleting
    <3>2. StepsOf(call'[w])
      BY HandlerStarts, CallServerStarts, <1>0 DEF BaseInv, HandlerInv
    <3>. QED  BY <1>4, <3>1, <3>2 DEF StepsOf
  <2>. QED  BY <2>1, <2>2, <2>3
<1>. QED  BY <1>0, <1>1, <1>3, <1>4 DEF CallTimely, Alive, ServedBy

LEMMA CallsTimelyKept ==
  ASSUME BaseInv, RequestsTimely, CallsTimely, ImagesHeld, DriverNext
  PROVE  CallsTimely'
<1>1. NoNewLife
  BY LivesOn
<1>2. ASSUME UNCHANGED call
      PROVE  CallsTimely'
  <2>1. \A x \in Workers : /\ call[x].op \in Deleting \cup {"DeleteExporter"} => call[x].id \in ImageID
                           /\ call[x].pc \in DeletePC => call[x].layer \in ImageID
    BY DEF BaseInv, HandlerInv, StepsOf, ImageID, DriverTypeInv, TypeInv, CallTypeInv, CallOK
  <2>. QED  BY <1>1, <1>2, <2>1 DEF CallsTimely, CallTimely, NoNewLife, Alive
<1>3. ASSUME NEW r \in Requests, Ask(r)
      PROVE  CallsTimely'
  BY <1>2, <1>3, AskFrame DEF BaseInv, vars
<1>4. ASSUME NEW r \in Requests, AnswerSucceeded(r) \/ AnswerFailed(r)
      PROVE  CallsTimely'
  BY <1>1, <1>4, TypeAnswer, CallsTimelyContinue DEF BaseInv, Continue
<1>5. CASE Abandon
  BY <1>2, <1>5, AbandonFrame DEF BaseInv
<1>6. CASE \E w \in Workers : ServerStep(w)
  BY <1>1, <1>6, CallsTimelyContinue DEF ServerStep
<1>7. CASE ServerRestart
  BY <1>7 DEF ServerRestart, Restart, CallsTimely, CallTimely, NoCall, Deleting
<1>. QED  BY <1>3, <1>4, <1>5, <1>6, <1>7, CallsTimelyCall, DriverSteps
(* The step a handler takes is the one its pc stands for.                  *)
LEMMA StepAt ==
  ASSUME NEW w \in Workers, Continue(w)
  PROVE  /\ call[w].pc \in DOMAIN AfterAdd => AddNode(w)
         /\ call[w].pc = "store" => Store(w)
         /\ call[w].pc = "export" => Export(w)
         /\ call[w].pc = "unexport" => Unexport(w)
         /\ call[w].pc = "release" => Release(w)
  BY DEF Continue, QemuImgCreate, AddNode, Append, Store, Export, Unexport, RemoveSocketDir, DelNode,
         RemoveFile, Release, RemoveDir, Reply, AfterQemuImg, AfterAdd

LEMMA FailedPC ==
  ASSUME TypeInv, NEW w \in Workers, Fail(w)
  PROVE  call'[w].pc = "failed"
  BY AtKeeps DEF Fail, Failed, Become, TypeInv, TypeOK

(* The steps that build: a node with its file, an image, an export.        *)
LEMMA BuildStep ==
  ASSUME TypeInv, NEW w \in Workers, Continue(w), call'[w].pc # "failed"
  PROVE  LET c == call[w] IN
         /\ c.pc \in DOMAIN AfterAdd => QSDID[c.id] \in DOMAIN nodes' /\ FileOf(c) \in files'
         /\ c.pc = "store" => c.id \in DOMAIN images'
         /\ c.pc = "export" => QSDID[c.id] \in DOMAIN exports'
<1>1. ~Fail(w)
  BY FailedPC
<1>2. AddNode(w) => QSDID[call[w].id] \in DOMAIN nodes' /\ FileOf(call[w]) \in files'
  BY <1>1 DEF AddNode, Granted, CanAddNode, BlockdevAdd, Put, fsVars
<1>3. Store(w) => call[w].id \in DOMAIN images'
  BY DEF Store, Put
<1>4. Export(w) => QSDID[call[w].id] \in DOMAIN exports'
  BY <1>1 DEF Export, BlockExportAdd, Put
<1>. QED  BY <1>2, <1>3, <1>4, StepAt

LEMMA CallsHeldContinue ==
  ASSUME DistinctQSDIDs, BaseInv, CallsTimely, ServerHeld, NoNewLife,
         NEW w \in Workers, Continue(w), NEW x \in Workers
  PROVE  CallHeld(call[x])'
<1>. DEFINE c == call[x]
<1>0. TypeInv /\ CallOK(c) /\ StepsOf(c) /\ CallHeld(c)
  BY DEF BaseInv, DriverTypeInv, TypeInv, CallTypeInv, HandlerInv, ServerHeld
<1>1. c.op \in Creating \cup {"ExposeVhostUser"} => c.id \in ImageID
  BY <1>0 DEF StepsOf, Creating, ImageID
<1>2. /\ c.op \in Creating \cup {"ExposeVhostUser"}
      /\ co'[c.id] \in {"unborn", "creating", "ready"}
      => Alive(c.id) /\ Spares(c.id)
  BY <1>1, ContinueSpares DEF NoNewLife, Alive
<1>3. FileOf(c)' = FileOf(call'[x])
  BY DEF FileOf, DiskFile, SnapFile
<1>4. PICK d : d = call'[x]
  OBVIOUS
<1>5. SUFFICES ASSUME d.op \in Creating \cup {"ExposeVhostUser"}, co'[d.id] \in {"unborn", "creating", "ready"}
               PROVE  /\ d.pc \in {"append", "store"} => QSDID[d.id] \in DOMAIN nodes' /\ FileOf(d) \in files'
                      /\ d.op \in Creating /\ d.pc = "succeeded" => d.id \in DOMAIN images'
                      /\ d.pc = "export" => d.id \in DOMAIN images' \cap sockets'
                      /\ d.op = "ExposeVhostUser" /\ d.pc = "succeeded" =>
                           d.id \in DOMAIN images' \cap sockets' /\ QSDID[d.id] \in DOMAIN exports'
  BY <1>3, <1>4 DEF CallHeld, Alive
<1>6. Moves(c, d) /\ SameNames(d, c)
  <2>1. d # NoCall
    BY <1>5 DEF NoCall, Creating
  <2>2. ~(x = w /\ Reply(w))
    BY <1>0, <1>4, <2>1 DEF Reply, Become, TypeInv, TypeOK
  <2>. QED  BY <1>0, <1>4, <2>2, ContinueMoves DEF Moves, SameNames
<1>7. Alive(c.id) /\ Spares(c.id) /\ d.id = c.id /\ d.op = c.op /\ FileOf(d) = FileOf(c)
  BY <1>2, <1>5, <1>6 DEF SameNames, Alive, FileOf, DiskFile, SnapFile
<1>8. CASE d = c
  <2>1. c.pc \in {"append", "store"} => Belongs(FileOf(c), c.id)
    BY <1>0, FileOfBelongs
  <2>. QED  BY <1>0, <1>5, <1>7, <1>8, <2>1 DEF CallHeld, Spares
<1>9. CASE d # c
  <2>1. d.pc \notin {"failed", "panicked"} =>
           x = w /\ c.pc \in DOMAIN Follows /\ d.pc \in Follows[c.pc]
    BY <1>0, <1>4, <1>6, <1>9, ContinueMoves DEF Moves
  <2>2. d.pc \in {"append", "store"} => QSDID[c.id] \in DOMAIN nodes' /\ FileOf(c) \in files'
    <3>1. d.pc \in {"append", "store"} => x = w /\ c.pc \in DOMAIN AfterAdd \cup {"append"}
      BY <2>1 DEF Follows, AfterAdd
    <3>2. c.pc = "append" => Belongs(FileOf(c), c.id) /\ QSDID[c.id] \in DOMAIN nodes /\ FileOf(c) \in files
      BY <1>0, <1>5, <1>7, FileOfBelongs DEF CallHeld
    <3>3. c.pc = "append" => QSDID[c.id] \in DOMAIN nodes' /\ FileOf(c) \in files'
      BY <1>7, <3>2 DEF Spares
    <3>. QED  BY <1>0, <1>4, <3>1, <3>3, BuildStep
  <2>3. d.pc # "export"
    BY <2>1 DEF Follows
  <2>4. ASSUME d.op \in Creating, d.pc = "succeeded"
        PROVE  d.id \in DOMAIN images'
    <3>1. x = w /\ c.pc \in {"store", "export", "rmSocketDir", "release", "rmdir"}
      BY <2>1, <2>4 DEF Follows
    <3>2. c.pc = "store"
      BY <1>0, <1>7, <2>4, <3>1 DEF StepsOf, Creating, Deleting
    <3>. QED  BY <1>0, <1>4, <1>7, <2>4, <3>1, <3>2, BuildStep
  <2>5. ASSUME d.op = "ExposeVhostUser", d.pc = "succeeded"
        PROVE  d.id \in DOMAIN images' \cap sockets' /\ QSDID[d.id] \in DOMAIN exports'
    <3>1. x = w /\ c.pc \in {"store", "export", "rmSocketDir", "release", "rmdir"}
      BY <2>1, <2>5 DEF Follows
    <3>2. c.pc = "export"
      BY <1>0, <1>7, <2>5, <3>1 DEF StepsOf, CallOK, Deleting
    <3>3. c.id \in DOMAIN images \cap sockets
      BY <1>0, <1>5, <1>7, <3>2 DEF CallHeld
    <3>. QED  BY <1>0, <1>4, <1>7, <2>5, <3>1, <3>2, <3>3, BuildStep DEF Spares
  <2>. QED  BY <1>7, <2>2, <2>3, <2>4, <2>5
<1>. QED  BY <1>8, <1>9

LEMMA ServerHeldContinue ==
  ASSUME DistinctQSDIDs, BaseInv, CallsTimely, ServerHeld, NoNewLife, NEW w \in Workers, Continue(w)
  PROVE  ServerHeld'
<1>0. TypeInv /\ HandlerInv /\ ImagesHeld
  BY DEF BaseInv, DriverTypeInv, ServerHeld
<1>1. DOMAIN images' \subseteq ImageID
  BY <1>0, TypeContinue DEF TypeInv, TypeOK, MemTypeOK
<1>2. ASSUME NEW i \in DOMAIN images', Alive(i)'
      PROVE  images'[i].VolumeRef = i /\ QSDID[i] \in DOMAIN nodes' /\ images'[i].File \in files'
  <2>1. i \in ImageID /\ Alive(i) /\ Spares(i)
    BY <1>1, <1>2, ContinueSpares DEF NoNewLife
  <2>2. CASE KeepsOwner(i)
    BY <1>0, <2>1, <2>2, ImageHeldLasts DEF KeepsOwner
  <2>3. CASE /\ call[w].pc = "store" /\ i = call[w].id
             /\ images'[i].VolumeRef = i /\ images'[i].File = FileOf(call[w])
    <3>1. CallOK(call[w]) /\ CallHeld(call[w])
      BY <1>0 DEF TypeInv, CallTypeInv, ServerHeld
    <3>2. QSDID[i] \in DOMAIN nodes /\ FileOf(call[w]) \in files /\ Belongs(FileOf(call[w]), i)
      BY <2>1, <2>3, <3>1, FileOfBelongs DEF CallHeld, CallOK, Creating
    <3>. QED  BY <2>1, <2>3, <3>2 DEF Spares
  <2>. QED  BY <1>0, <2>2, <2>3, ImageChange
<1>3. ImagesHeld'
  BY <1>2 DEF ImagesHeld
<1>. QED  BY <1>3, CallsHeldContinue DEF ServerHeld
(* A first step has built nothing yet, but an export's directory.          *)
LEMMA StartAt ==
  ASSUME TypeInv, NEW w \in Workers, Starts(w)
  PROVE  /\ call'[w].pc \notin {"append", "store"}
         /\ call'[w].pc = "succeeded" => call'[w].op \in Deleting
         /\ call'[w].pc = "export" => call'[w].id \in DOMAIN images \cap sockets'
<1>1. ASSUME NEW v \in Volumes, NEW src \in CloneSources \cup {None}, CreateVolume(w, v, src)
      PROVE  call'[w].pc \notin {"append", "store", "succeeded", "export"}
  BY <1>1, StartCreateVolume
<1>2. ASSUME NEW s \in Snapshots, NEW v \in Volumes, CreateSnapshot(w, s, v)
      PROVE  call'[w].pc \notin {"append", "store", "succeeded", "export"}
  BY <1>2, StartCreateSnapshot
<1>3. ASSUME NEW v \in Volumes, ExposeVhostUser(w, v)
      PROVE  /\ call'[w].pc \notin {"append", "store", "succeeded"}
             /\ call'[w].pc = "export" => call'[w].id \in DOMAIN images \cap sockets'
  BY <1>3, StartExpose DEF Names
<1>4. ASSUME NEW v \in Volumes, DeleteExporter(w, v)
      PROVE  call'[w].pc \notin {"append", "store", "succeeded", "export"}
  BY <1>4, StartUnexpose
<1>5. ASSUME NEW v \in Volumes, DeleteVolume(w, v)
      PROVE  call'[w].pc \notin {"append", "store", "succeeded", "export"}
  BY <1>5, StartDeleteVolume DEF TurnsTo
<1>6. ASSUME NEW s \in Snapshots, NEW v \in Volumes, DeleteSnapshot(w, s, v)
      PROVE  call'[w].pc \notin {"append", "store", "export"} /\ call'[w].op \in Deleting
  BY <1>6, StartDeleteSnapshot DEF TurnsTo, Names, Deleting
<1>. QED  BY <1>1, <1>2, <1>3, <1>4, <1>5, <1>6 DEF Starts

LEMMA ServerHeldCall ==
  ASSUME BaseInv, RequestsTimely, ServerHeld, NEW r \in Requests, NEW w \in Workers, CallServer(r, w)
  PROVE  ServerHeld'
<1>. DEFINE q == csi[r]
<1>0. TypeInv /\ DriverTypeInv /\ RequestOK(q) /\ ~Free(r) /\ RequestTimely(q) /\ UNCHANGED co /\ Starts(w)
  BY RequestAt, CallServerStarts DEF BaseInv, DriverTypeInv, CallServer, RequestsTimely, coVars
<1>1. /\ UNCHANGED <<nodes, exports, files>> /\ sockets \subseteq sockets' /\ DOMAIN images' = DOMAIN images
      /\ \A i \in DOMAIN images : images'[i].File = images[i].File
      /\ \A x \in Workers \ {w} : call'[x] = call[x]
  BY <1>0, StartKeeps
<1>2. ASSUME NEW i \in DOMAIN images, images'[i].VolumeRef # images[i].VolumeRef
      PROVE  ~Alive(i)
  <2>1. CASE q.pc = "delete"
    <3>1. DeleteVolume(w, q.id) /\ q.id \in Volumes /\ q.op = "DeleteVolume"
      BY <1>0, <2>1 DEF CallServer, RequestOK
    <3>2. i = q.id
      BY <1>0, <1>2, <3>1, StartDeleteVolume
    <3>. QED  BY <1>0, <3>1, <3>2 DEF RequestTimely, Deleting
  <2>2. CASE q.pc = "unsnapshot"
    <3>1. DeleteSnapshot(w, q.id, q.from) /\ q.id \in Snapshots /\ q.from \in Volumes /\ q.op = "DeleteSnapshot"
      BY <1>0, <2>2 DEF CallServer, RequestOK
    <3>2. i = q.id
      BY <1>0, <1>2, <3>1, StartDeleteSnapshot
    <3>. QED  BY <1>0, <3>1, <3>2 DEF RequestTimely, Deleting
  <2>3. CASE q.pc \notin {"delete", "unsnapshot"}
    BY <1>2, <2>3 DEF CallServer, CreateVolume, CreateSnapshot, ExposeVhostUser, DeleteExporter, memVars
  <2>. QED  BY <2>1, <2>2, <2>3
<1>3. ImagesHeld'
  BY <1>0, <1>1, <1>2 DEF ServerHeld, ImagesHeld, Alive
<1>4. ASSUME NEW x \in Workers
      PROVE  CallHeld(call[x])'
  <2>1. CASE x = w
    BY <1>0, <1>1, <2>1, StartAt DEF CallHeld, Creating, Deleting
  <2>2. CASE x # w
    <3>1. CallHeld(call[x]) /\ call'[x] = call[x]
      BY <1>1, <2>2 DEF ServerHeld
    <3>2. FileOf(call[x])' = FileOf(call[x])
      BY <3>1 DEF FileOf, DiskFile, SnapFile
    <3>. QED  BY <1>0, <1>1, <3>1, <3>2 DEF CallHeld, Alive
  <2>. QED  BY <2>1, <2>2
<1>. QED  BY <1>3, <1>4 DEF ServerHeld

LEMMA ServerHeldKept ==
  ASSUME DistinctQSDIDs, BaseInv, RequestsTimely, CallsTimely, ServerHeld, DriverNext
  PROVE  ServerHeld'
<1>1. NoNewLife
  BY LivesOn
<1>2. ASSUME UNCHANGED <<graphVars, memVars, fsVars, call>>
      PROVE  ServerHeld'
  <2>1. DOMAIN images \subseteq ImageID
    BY DEF BaseInv, DriverTypeInv, TypeInv, TypeOK, MemTypeOK
  <2>2. ImagesHeld'
    BY <1>1, <1>2, <2>1 DEF ServerHeld, ImagesHeld, NoNewLife, Alive, graphVars, memVars, fsVars
  <2>3. ASSUME NEW x \in Workers
        PROVE  CallHeld(call[x])'
    <3>1. CallHeld(call[x]) /\ StepsOf(call[x]) /\ FileOf(call[x])' = FileOf(call[x])
      BY <1>2 DEF ServerHeld, BaseInv, HandlerInv, FileOf, DiskFile, SnapFile
    <3>2. call[x].op \in Creating \cup {"ExposeVhostUser"} => call[x].id \in ImageID
      BY <3>1 DEF StepsOf, Creating, ImageID
    <3>. QED
      BY <1>1, <1>2, <3>1, <3>2 DEF CallHeld, NoNewLife, Alive, graphVars, memVars, fsVars
  <2>. QED  BY <2>2, <2>3 DEF ServerHeld
<1>3. ASSUME NEW r \in Requests, Ask(r)
      PROVE  ServerHeld'
  BY <1>2, <1>3, AskFrame DEF BaseInv, vars
<1>4. ASSUME NEW r \in Requests, AnswerSucceeded(r) \/ AnswerFailed(r)
      PROVE  ServerHeld'
  BY <1>1, <1>4, TypeAnswer, ServerHeldContinue DEF BaseInv, Continue
<1>5. CASE Abandon
  BY <1>2, <1>5, AbandonFrame DEF BaseInv
<1>6. CASE \E w \in Workers : ServerStep(w)
  BY <1>1, <1>6, ServerHeldContinue DEF ServerStep
<1>7. CASE ServerRestart
  BY <1>7 DEF ServerRestart, Restart, Empty, ServerHeld, ImagesHeld, CallHeld, NoCall, Creating
<1>. QED  BY <1>3, <1>4, <1>5, <1>6, <1>7, ServerHeldCall, DriverSteps

(* A living id loses nothing in a step without a restart of the server.    *)
LEMMA StepSpares ==
  ASSUME DistinctQSDIDs, BaseInv, CallsTimely, DriverNext, ~ServerRestart, NEW i \in ImageID, Alive(i)
  PROVE  Spares(i)
<1>1. \A r \in Requests : Ask(r) => UNCHANGED <<graphVars, memVars, fsVars>>
  BY AskFrame DEF BaseInv, vars
<1>2. \A r \in Requests : AnswerSucceeded(r) \/ AnswerFailed(r) => UNCHANGED <<graphVars, memVars, fsVars>>
  BY TypeAnswer DEF BaseInv, Reply
<1>3. Abandon => UNCHANGED <<graphVars, memVars, fsVars>>
  BY AbandonFrame DEF BaseInv
<1>4. ASSUME NEW r \in Requests, NEW w \in Workers, CallServer(r, w)
      PROVE  Spares(i)
  BY <1>4, CallServerStarts, StartSpares DEF BaseInv, DriverTypeInv
<1>5. ASSUME NEW w \in Workers, ServerStep(w)
      PROVE  Spares(i)
  BY <1>5, ContinueSpares DEF ServerStep
<1>. QED  BY <1>1, <1>2, <1>3, <1>4, <1>5, QuietSpares, DriverSteps

LEMMA TablesFrame ==
  ASSUME BaseInv, DriverNext
  PROVE  \/ \E r \in Requests :
              /\ AnswerSucceeded(r) /\ csi[r].pc \notin DOMAIN Then
              /\ storage' = Remaining(csi[r]) /\ snapshots' = Recorded(csi[r])
         \/ snapshots' = snapshots
         \/ snapshots' = Empty
  BY DriverSteps DEF Ask, ControllerCreateVolume, ControllerDeleteVolume, ControllerCreateSnapshot,
     ControllerDeleteSnapshot, CallServer, AnswerSucceeded, AnswerFailed, Abandon, DriverRestart,
     Timeout, GiveUp, ServerStep, ServerRestart, driverVars, tableVars

LEMMA LostFrame ==
  ASSUME DriverNext
  PROVE  lost' = IF ServerRestart THEN Asked ELSE lost
  BY DriverSteps DEF Ask, ControllerCreateVolume, ControllerDeleteVolume, ControllerCreateSnapshot,
     ControllerDeleteSnapshot, CallServer, AnswerSucceeded, AnswerFailed, Abandon, DriverRestart,
     Timeout, GiveUp, ServerStep, ServerRestart, driverVars, histVars

(* A request answered with success was served by its own handler.          *)
LEMMA AnsweredCall ==
  ASSUME BaseInv, NEW r \in Requests, AnswerSucceeded(r)
  PROVE  /\ csi[r].worker \in Workers /\ call[csi[r].worker].pc = "succeeded"
         /\ call[csi[r].worker].op = CallOf[csi[r].pc] /\ call[csi[r].worker].id = csi[r].id
         /\ csi[r].pc \in DOMAIN CallOf
         /\ UNCHANGED <<graphVars, memVars, fsVars>>
<1>1. Waiting(r) /\ Reply(csi[r].worker) /\ call[csi[r].worker].pc = "succeeded"
  BY DEF AnswerSucceeded
<1>. QED  BY <1>1, RequestAt DEF BaseInv, LinkInv, ServedBy, Reply

LEMMA TableHeldKept ==
  ASSUME DistinctQSDIDs, BaseInv, RequestsTimely, CallsTimely, ServerHeld, TableHeld, DriverNext
  PROVE  TableHeld'
<1>1. NoNewLife /\ DOMAIN snapshots \subseteq ImageID
  BY LivesOn DEF BaseInv, DriverTypeInv, DriverTypeOK, ImageID
<1>2. ASSUME NEW s \in DOMAIN snapshots
      PROVE  co'[s] # "unborn" /\ (s \notin lost' /\ Alive(s)' => s \in DOMAIN images')
  <2>1. co[s] # "unborn" /\ s \in ImageID /\ (s \notin lost /\ Alive(s) => s \in DOMAIN images)
    BY <1>1 DEF TableHeld
  <2>2. CASE ServerRestart
    BY <1>1, <2>1, <2>2, LostFrame DEF Asked, NoNewLife
  <2>3. CASE ~ServerRestart
    BY <1>1, <2>1, <2>3, LostFrame, StepSpares DEF NoNewLife, Spares
  <2>. QED  BY <2>2, <2>3
<1>3. CASE \E r \in Requests :
             /\ AnswerSucceeded(r) /\ csi[r].pc \notin DOMAIN Then
             /\ storage' = Remaining(csi[r]) /\ snapshots' = Recorded(csi[r])
  <2>1. PICK r \in Requests : /\ AnswerSucceeded(r)
                              /\ snapshots' = Recorded(csi[r])
    BY <1>3
  <2>. DEFINE q == csi[r]
  <2>2. RequestOK(q) /\ q \in Request /\ RequestTimely(q) /\ q.op # "none" /\ q.id \in ImageID
    BY <2>1, RequestAt DEF BaseInv, RequestsTimely, AnswerSucceeded, Free
  <2>3. ASSUME q.op = "CreateSnapshot"
        PROVE  co'[q.id] # "unborn" /\ (Alive(q.id) => q.id \in DOMAIN images')
    <3>1. q.pc = "snapshot"
      BY <2>2, <2>3 DEF RequestOK, Request
    <3>2. CallHeld(call[q.worker]) /\ call[q.worker].op = "CreateSnapshot"
      BY <2>1, <3>1, AnsweredCall DEF ServerHeld, CallOf
    <3>. QED
      BY <1>1, <2>1, <2>2, <3>2, AnsweredCall DEF CallHeld, Creating, NoNewLife, RequestTimely, memVars
  <2>4. \A s \in DOMAIN snapshots' : s \in DOMAIN snapshots \/ (q.op = "CreateSnapshot" /\ s = q.id)
    BY <2>1 DEF Recorded, Put, Drop
  <2>5. ASSUME NEW s \in DOMAIN snapshots'
        PROVE  co'[s] # "unborn" /\ (s \notin lost' /\ co'[s] \in {"unborn", "creating", "ready"} => s \in DOMAIN images')
    <3>1. CASE s \in DOMAIN snapshots
      BY <1>2, <3>1 DEF Alive
    <3>2. CASE q.op = "CreateSnapshot" /\ s = q.id
      BY <1>1, <2>2, <2>3, <3>2 DEF NoNewLife, Alive
    <3>. QED  BY <2>4, <3>1, <3>2
  <2>. QED  BY <2>5 DEF TableHeld, Alive
<1>4. CASE snapshots' = snapshots
  BY <1>2, <1>4 DEF TableHeld
<1>5. CASE snapshots' = Empty
  BY <1>5 DEF TableHeld, Empty
<1>. QED  BY <1>3, <1>4, <1>5, TablesFrame

LEMMA ToldHeldKept ==
  ASSUME DistinctQSDIDs, BaseInv, RequestsTimely, CallsTimely, ServerHeld, TableHeld, ToldHeld, DriverNext
  PROVE  ToldHeld'
<1>1. NoNewLife
  BY LivesOn
<1>. DEFINE Told(i) == i \in DOMAIN images /\ (i \in Volumes => QSDID[i] \in DOMAIN exports /\ i \in sockets)
<1>2. ASSUME NEW i \in ImageID, i \notin lost', co'[i] = "ready"
      PROVE  Told(i)'
  <2>1. ~ServerRestart
    BY <1>2, LostFrame DEF ServerRestart, Asked, coVars
  <2>2. i \notin lost /\ Alive(i) /\ Spares(i)
    BY <1>1, <1>2, <2>1, LostFrame, StepSpares DEF NoNewLife, Alive
  <2>3. SUFFICES Told(i)
    BY <2>2, <2>3 DEF Spares
  <2>4. CASE co[i] = "ready"
    BY <2>2, <2>4 DEF ToldHeld
  <2>5. ASSUME NEW r \in Requests, Ask(r), co[i] # "ready"
        PROVE  Told(i)
    <3>1. PICK id \in ImageID : AsksOf(r, id)
      BY <2>5, AskEffect DEF BaseInv
    <3>2. i \in DOMAIN snapshots
      BY <1>2, <2>5, <3>1 DEF AsksOf
    <3>3. i \in Snapshots
      BY <3>2 DEF BaseInv, DriverTypeInv, DriverTypeOK
    <3>. QED  BY <2>2, <3>2, <3>3, ConstantsAssumption DEF TableHeld
  <2>6. ASSUME NEW r \in Requests, AnswerSucceeded(r) \/ AnswerFailed(r), co[i] # "ready"
        PROVE  Told(i)
    <3>. DEFINE q == csi[r]
    <3>1. /\ call[q.worker].pc = "succeeded" /\ q.pc \in {"expose", "delete", "snapshot", "unsnapshot"}
          /\ i = q.id /\ Outcome(q) = "ready"
      BY <1>2, <2>6, AnswerTells DEF BaseInv
    <3>2. q.op \in Creating /\ RequestOK(q)
      BY <3>1, RequestAt DEF Outcome, Creating, BaseInv
    <3>3. AnswerSucceeded(r)
      BY <2>6, <3>1 DEF AnswerFailed
    <3>4. CallHeld(call[q.worker]) /\ call[q.worker].op = CallOf[q.pc] /\ call[q.worker].id = i
      BY <3>1, <3>3, AnsweredCall DEF ServerHeld
    <3>5. CASE q.pc = "expose"
      BY <2>2, <3>1, <3>4, <3>5 DEF CallHeld, CallOf, Creating
    <3>6. CASE q.pc = "snapshot"
      <4>1. i \in Snapshots
        BY <3>1, <3>2, <3>6 DEF RequestOK
      <4>. QED  BY <2>2, <3>1, <3>4, <3>6, <4>1, ConstantsAssumption DEF CallHeld, CallOf, Creating
    <3>. QED  BY <3>1, <3>2, <3>5, <3>6 DEF RequestOK, Creating
  <2>7. \/ \E r \in Requests : Ask(r) \/ AnswerSucceeded(r) \/ AnswerFailed(r)
        \/ UNCHANGED co
    BY DriverSteps, AbandonFrame DEF BaseInv, CallServer, ServerStep, ServerRestart, driverVars, coVars
  <2>. QED  BY <1>2, <2>4, <2>5, <2>6, <2>7
<1>. QED  BY <1>2 DEF ToldHeld
LEMMA AliveInit == DriverInit => AliveInv
<1>. SUFFICES ASSUME DriverInit
              PROVE  AliveInv
  OBVIOUS
<1>1. BaseInv
  BY BaseInit
<1>2. RequestsTimely /\ TableHeld /\ ToldHeld
  BY DEF DriverInit, RequestsTimely, RequestTimely, NoRequest, Deleting, Creating, TableHeld, Empty, ToldHeld
<1>3. CallsTimely /\ ServerHeld
  BY DEF DriverInit, Init, NoCall, CallsTimely, CallTimely, Deleting, Creating, ServerHeld, ImagesHeld,
         CallHeld, Empty
<1>. QED  BY <1>1, <1>2, <1>3 DEF AliveInv

LEMMA AliveInductive ==
  ASSUME DistinctQSDIDs, AliveInv, [DriverNext]_allVars
  PROVE  AliveInv'
<1>1. CASE DriverNext
  BY <1>1, BaseStep, RequestsTimelyKept, CallsTimelyKept, ServerHeldKept, TableHeldKept, ToldHeldKept
  DEF AliveInv, ServerHeld
<1>2. CASE UNCHANGED allVars
  <2>1. BaseInv'
    BY <1>2, BaseStutter DEF AliveInv
  <2>2. UNCHANGED <<graphVars, memVars, fsVars, call, csi, co, snapshots, lost>>
    BY <1>2 DEF allVars, vars, driverVars, coVars, tableVars, histVars
  <2>3. RequestsTimely' /\ CallsTimely' /\ TableHeld' /\ ToldHeld' /\ ImagesHeld'
    BY <2>2 DEF AliveInv, RequestsTimely, RequestTimely, CallsTimely, CallTimely, TableHeld, ToldHeld,
                ServerHeld, ImagesHeld, Alive, graphVars, memVars, fsVars
  <2>4. ASSUME NEW x \in Workers
        PROVE  CallHeld(call[x])'
    <3>1. CallHeld(call[x]) /\ FileOf(call[x])' = FileOf(call[x])
      BY <2>2 DEF AliveInv, ServerHeld, FileOf, DiskFile, SnapFile
    <3>. QED  BY <2>2, <3>1 DEF CallHeld, Alive, graphVars, memVars, fsVars
  <2>. QED  BY <2>1, <2>3, <2>4 DEF AliveInv, ServerHeld
<1>. QED  BY <1>1, <1>2

LEMMA AliveAlways ==
  ASSUME DistinctQSDIDs
  PROVE  DriverSpec => []AliveInv
<1>1. AliveInv /\ [DriverNext]_allVars => AliveInv'
  BY AliveInductive
<1>. QED  BY <1>1, AliveInit, PTL DEF DriverSpec

(* The volumes an orchestrator was told of and has not asked to delete are *)
(* there and exported, whatever was repeated, given up or late, as long as *)
(* no two ids are cut down to the same QSDID.                              *)
THEOREM ReadyVolumesServed ==
  ASSUME DistinctQSDIDs
  PROVE  DriverSpec => []ReadyVolumeServed
<1>1. AliveInv => ReadyVolumeServed
  BY DEF AliveInv, ServerHeld, ImagesHeld, ToldHeld, ReadyVolumeServed, Alive, ImageID
<1>. QED  BY <1>1, AliveAlways, PTL

(* And the snapshots: each is there, with its file, to be cloned.          *)
THEOREM ReadySnapshotsHeld ==
  ASSUME DistinctQSDIDs
  PROVE  DriverSpec => []ReadySnapshotHeld
<1>1. AliveInv => ReadySnapshotHeld
  BY DEF AliveInv, ServerHeld, ImagesHeld, ToldHeld, ReadySnapshotHeld, Alive, ImageID
<1>. QED  BY <1>1, AliveAlways, PTL
-----------------------------------------------------------------------------
(* What is under way for a volume.  Where no request overtook a late       *)
(* handler, a volume is served by one request and one call at a time, so a *)
(* DeleteVolume finds it as the calls before it left it, and leaves it     *)
(* without an active layer and without an export.  Exports can be told     *)
(* apart only where QSDIDs can.                                            *)

Builds == {"CreateVolume", "CreateSnapshot", "ExposeVhostUser"}
VolumeOf(c) ==
  IF c.op = "CreateSnapshot" THEN c.from ELSE IF c.op = "DeleteSnapshot" THEN None ELSE c.id

Active(v)   == v \in DOMAIN activeLayers
Exported(v) == DistinctQSDIDs /\ QSDID[v] \in DOMAIN exports
Building(v) ==
  \/ \E r \in Requests : csi[r].op \in Builds /\ VolumeOf(csi[r]) = v
  \/ \E w \in Workers : call[w].op \in Builds /\ VolumeOf(call[w]) = v
Occupied(v) == Active(v) \/ Exported(v) \/ Building(v)
Touched(v)  ==
  \/ \E r \in Requests : VolumeOf(csi[r]) = v
  \/ \E w \in Workers : VolumeOf(call[w]) = v

OneAtATime(v) ==
  /\ \A r, q \in Requests : VolumeOf(csi[r]) = v /\ VolumeOf(csi[q]) = v => r = q
  /\ \A w, x \in Workers : VolumeOf(call[w]) = v /\ VolumeOf(call[x]) = v => w = x
  /\ \A r \in Requests, w \in Workers :
        VolumeOf(csi[r]) = v /\ VolumeOf(call[w]) = v => csi[r].worker = w

(* What the delete calls of a volume have undone so far.                   *)
Forgot(c) == c.pc \in {"rmdir", "succeeded"} \/ (c.pc \in DeletePC /\ c.layer # c.id)
Undone(v) ==
  /\ \A w \in Workers :
       /\ call[w].op = "DeleteVolume" /\ call[w].id = v /\ Forgot(call[w]) => ~Active(v)
       /\ call[w].op = "DeleteExporter" /\ call[w].id = v /\ call[w].pc \in {"rmSocketDir", "succeeded"} =>
            ~Exported(v)
  /\ \A r \in Requests : csi[r].pc = "delete" /\ csi[r].id = v => ~Exported(v)

Unasked(v)   == co[v] = "unborn" => ~Occupied(v) /\ ~Touched(v)
InTable(v)   == Occupied(v) => v \in storage
LeftAlone(v) == co[v] = "deleted" => ~Occupied(v)

Tidy(v) ==
  /\ Unasked(v)
  /\ v \notin hasty => OneAtATime(v) /\ Undone(v)
  /\ v \notin hasty \cup forgotten => InTable(v) /\ LeftAlone(v)
TidyInv == BaseInv /\ RequestsTimely /\ \A v \in Volumes : Tidy(v)

(* A handler is about the volume of the request it serves.                 *)
LEMMA ServedVolume ==
  ASSUME NEW q, RequestOK(q), NEW c, ServedBy(q, c)
  PROVE  /\ VolumeOf(c) = VolumeOf(q)
         /\ c.op \in Builds <=> q.op \in Builds
         /\ c.op = "DeleteExporter" <=> q.pc = "unexport"
         /\ c.op = "DeleteVolume" <=> q.pc = "delete"
  BY DEF ServedBy, CallOf, RequestOK, VolumeOf, Builds

LEMMA VolumeOfNone ==
  ASSUME NEW v \in Volumes
  PROVE  VolumeOf(NoRequest) # v /\ VolumeOf(NoCall) # v
  BY ConstantsAssumption DEF VolumeOf, NoRequest, NoCall, ImageID

(* What touches a volume is in hand, or late.                              *)
LEMMA TouchedInHand ==
  ASSUME BaseInv, NEW v \in Volumes, Touched(v), \A q \in Requests : v \notin InHand(q)
  PROVE  LateOn(v)
<1>1. v # None
  BY ConstantsAssumption DEF ImageID
<1>2. \A q \in Requests : VolumeOf(csi[q]) # v
  BY <1>1 DEF VolumeOf, InHand
<1>3. PICK w \in Workers : VolumeOf(call[w]) = v
  BY <1>2 DEF Touched
<1>4. ~Awaited(w)
  <2>1. ASSUME NEW r \in Requests, csi[r].worker = w
        PROVE  FALSE
    <3>1. w # None
      BY DriverAssumption
    <3>2. ServedBy(csi[r], call[w]) /\ RequestOK(csi[r])
      BY <2>1, <3>1, RequestAt DEF BaseInv, LinkInv, Waiting
    <3>. QED  BY <1>2, <1>3, <3>2, ServedVolume
  <2>. QED  BY <2>1 DEF Awaited
<1>5. v \in Named(call[w])
  BY <1>1, <1>3 DEF VolumeOf, Named
<1>. QED  BY <1>4, <1>5 DEF LateOn

LEMMA AskedAlone ==
  ASSUME BaseInv, NEW v \in Volumes, NEW ids, v \in ids, AskFor(ids), v \notin hasty'
  PROVE  ~Touched(v)
<1>1. ~LateOn(v)
  BY DEF AskFor
<1>2. \A q \in Requests : v \notin InHand(q)
  BY <1>1 DEF AskFor, LateOn
<1>. QED  BY <1>1, <1>2, TouchedInHand

(* What asking means for a volume.                                         *)
AsksFor(r, v) ==
  /\ storage \subseteq storage' /\ hasty \subseteq hasty' /\ forgotten' = forgotten
  /\ co'[v] = "deleted" => co[v] = "deleted" \/ v \notin storage
  /\ VolumeOf(csi'[r]) = v =>
       /\ co'[v] # "unborn" /\ csi'[r].pc # "delete"
       /\ csi'[r].op \in Builds => v \in storage' /\ co'[v] # "deleted"
       /\ v \notin hasty' => ~Touched(v)

LEMMA AskForVolume ==
  ASSUME BaseInv, NEW v \in Volumes, NEW r \in Requests, Ask(r)
  PROVE  AsksFor(r, v)
<1>0. /\ co \in [ImageID -> Life]
      /\ Volumes \subseteq ImageID /\ Snapshots \subseteq ImageID /\ None \notin ImageID
      /\ CloneSources \subseteq ImageID /\ v \notin Snapshots
  BY ConstantsAssumption DEF BaseInv, DriverTypeInv, DriverTypeOK, ImageID
<1>1. ASSUME NEW op \in Creating \cup Deleting, NEW pc \in {"create", "unexport", "snapshot", "unsnapshot"},
             NEW id \in ImageID, NEW from \in ImageID \cup {None}, Serve(r, NewRequest(op, pc, id, from))
      PROVE  csi'[r].op = op /\ csi'[r].pc = pc /\ csi'[r].id = id /\ csi'[r].from = from
  <2>. DEFINE q == NewRequest(op, pc, id, from)
  <2>1. q.op = op /\ q.pc = pc /\ q.id = id /\ q.from = from
    BY <1>1, NewRequestFields DEF Creating, Deleting
  <2>. HIDE DEF q
  <2>2. Serve(r, q)
    BY <1>1 DEF q
  <2>. QED  BY <2>1, <2>2, ServeIs DEF BaseInv, DriverTypeInv
<1>2. Ask(r) => VolumeOf(csi[r]) # v
  <2>1. csi[r] = NoRequest
    BY RequestAt DEF Ask, ControllerCreateVolume, ControllerDeleteVolume, ControllerCreateSnapshot,
                     ControllerDeleteSnapshot, Free, RequestOK, BaseInv
  <2>. QED  BY <2>1, VolumeOfNone
<1>3. ASSUME NEW u \in Volumes, NEW src \in CloneSources \cup {None}, ControllerCreateVolume(r, u, src)
      PROVE  AsksFor(r, v)
  <2>1. "CreateVolume" \in Creating \cup Deleting /\ u \in ImageID /\ src \in ImageID \cup {None}
    BY <1>0 DEF Creating
  <2>2. csi'[r].op = "CreateVolume" /\ csi'[r].pc = "create" /\ csi'[r].id = u
    BY <1>1, <1>3, <2>1 DEF ControllerCreateVolume
  <2>3. /\ storage' = storage \cup {u} /\ hasty \subseteq hasty' /\ forgotten' = forgotten
        /\ AskFor({u, src} \ {None}) /\ MayAskToCreate(u, src) /\ AskToCreate(u, src)
    BY <1>3 DEF ControllerCreateVolume, Entered, AskFor
  <2>4. co'[u] \in {"creating", "ready"} /\ \A i \in ImageID \ {u} : co'[i] = co[i]
    BY <1>0, <2>1, <2>3 DEF MayAskToCreate, AskToCreate, Tell
  <2>5. u = v /\ v \notin hasty' => ~Touched(v)
    <3>. SUFFICES ASSUME u = v, v \notin hasty'
                  PROVE  ~Touched(v)
      OBVIOUS
    <3>1. v \in {u, src} \ {None}
      BY <1>0
    <3>. QED  BY <2>3, <3>1, AskedAlone
  <2>. QED  BY <1>0, <2>2, <2>3, <2>4, <2>5 DEF AsksFor, VolumeOf
<1>4. ASSUME NEW u \in Volumes, ControllerDeleteVolume(r, u)
      PROVE  AsksFor(r, v)
  <2>1. "DeleteVolume" \in Creating \cup Deleting /\ u \in ImageID
    BY <1>0 DEF Deleting
  <2>2. /\ storage' = storage /\ hasty \subseteq hasty' /\ forgotten' = forgotten
        /\ AskFor({u}) /\ co[u] # "unborn"
    BY <1>4 DEF ControllerDeleteVolume, tableVars, AskFor, MayAskToDelete
  <2>3. u = v /\ v \notin hasty' => ~Touched(v)
    BY <2>2, AskedAlone
  <2>4. CASE u \in storage
    <3>1. csi'[r].op = "DeleteVolume" /\ csi'[r].pc = "unexport" /\ csi'[r].id = u
      BY <1>1, <1>4, <2>1, <2>4 DEF ControllerDeleteVolume
    <3>2. /\ co'[u] \in {"deleting", "deleted"} /\ (co'[u] = "deleted" => co[u] = "deleted")
          /\ \A i \in ImageID \ {u} : co'[i] = co[i]
      BY <1>0, <1>4, <2>1, <2>4 DEF ControllerDeleteVolume, AskToDelete, Tell
    <3>. QED  BY <1>0, <2>2, <2>3, <3>1, <3>2 DEF AsksFor, VolumeOf, Builds
  <2>5. CASE u \notin storage
    <3>1. csi' = csi /\ \A i \in ImageID \ {u} : co'[i] = co[i]
      BY <1>0, <1>4, <2>1, <2>5 DEF ControllerDeleteVolume, Tell
    <3>. QED  BY <1>0, <1>2, <1>4, <2>2, <2>5, <3>1 DEF AsksFor, Ask
  <2>. QED  BY <2>4, <2>5
<1>5. ASSUME NEW s \in Snapshots, NEW u \in Volumes, ControllerCreateSnapshot(r, s, u)
      PROVE  AsksFor(r, v)
  <2>1. "CreateSnapshot" \in Creating \cup Deleting /\ s \in ImageID /\ u \in ImageID
    BY <1>0 DEF Creating
  <2>2. /\ storage' = storage /\ hasty \subseteq hasty' /\ forgotten' = forgotten
        /\ AskFor({s, u}) /\ co[u] = "ready" /\ UNCHANGED storage
    BY <1>0, <1>5 DEF ControllerCreateSnapshot, tableVars, AskFor, MayAskToCreate
  <2>3. u = v /\ v \notin hasty' => ~Touched(v)
    BY <2>2, AskedAlone
  <2>4. co'[v] = co[v]
    BY <1>0, <1>5 DEF ControllerCreateSnapshot, AskToCreate, Tell
  <2>5. CASE s \notin DOMAIN snapshots /\ u \in storage
    <3>1. csi'[r].op = "CreateSnapshot" /\ csi'[r].pc = "snapshot" /\ csi'[r].from = u
      BY <1>1, <1>5, <2>1, <2>5 DEF ControllerCreateSnapshot
    <3>. QED  BY <2>2, <2>3, <2>4, <2>5, <3>1 DEF AsksFor, VolumeOf
  <2>6. CASE csi' = csi
    BY <1>2, <1>5, <2>2, <2>4, <2>6 DEF AsksFor, Ask
  <2>. QED  BY <1>5, <2>5, <2>6 DEF ControllerCreateSnapshot
<1>6. ASSUME NEW s \in Snapshots, ControllerDeleteSnapshot(r, s)
      PROVE  AsksFor(r, v)
  <2>1. "DeleteSnapshot" \in Creating \cup Deleting /\ s \in ImageID
    BY <1>0 DEF Deleting
  <2>2. storage' = storage /\ hasty \subseteq hasty' /\ forgotten' = forgotten
    BY <1>6 DEF ControllerDeleteSnapshot, tableVars, AskFor
  <2>3. co'[v] = co[v]
    BY <1>0, <1>6 DEF ControllerDeleteSnapshot, AskToDelete, Tell
  <2>4. VolumeOf(csi'[r]) # v
    <3>1. CASE s \in DOMAIN snapshots
      <4>1. snapshots[s] \in ImageID \cup {None}
        BY <1>0, <3>1 DEF BaseInv, DriverTypeInv, DriverTypeOK
      <4>2. csi'[r].op = "DeleteSnapshot"
        BY <1>1, <1>6, <2>1, <3>1, <4>1 DEF ControllerDeleteSnapshot
      <4>. QED  BY <1>0, <4>2 DEF VolumeOf
    <3>2. CASE s \notin DOMAIN snapshots
      BY <1>2, <1>6, <3>2 DEF ControllerDeleteSnapshot, Ask
    <3>. QED  BY <3>1, <3>2
  <2>. QED  BY <2>2, <2>3, <2>4 DEF AsksFor
<1>. QED  BY <1>3, <1>4, <1>5, <1>6 DEF Ask

(* A request and a call stay about what they are about.                    *)
LEMMA RequestStays ==
  ASSUME BaseInv, NEW v \in Volumes, DriverNext, NEW r \in Requests, VolumeOf(csi'[r]) = v
  PROVE  \/ /\ VolumeOf(csi[r]) = v /\ csi'[r].op = csi[r].op
            /\ \/ csi'[r].worker = csi[r].worker /\ csi'[r].pc = csi[r].pc
               \/ AnswerSucceeded(r) \/ AnswerFailed(r)
               \/ \E w \in Workers :
                    CallServer(r, w) /\ csi'[r].worker = w /\ csi'[r].pc = csi[r].pc
         \/ Ask(r)
<1>1. ASSUME NEW x \in Requests, Ask(x) \/ AnswerSucceeded(x) \/ AnswerFailed(x), x # r
      PROVE  csi'[r] = csi[r]
  BY <1>1, AskFrame, AnswerFrame DEF BaseInv
<1>2. ASSUME AnswerSucceeded(r) \/ AnswerFailed(r)
      PROVE  VolumeOf(csi[r]) = v /\ csi'[r].op = csi[r].op
  BY <1>2, AnswerTells, VolumeOfNone DEF BaseInv, VolumeOf
<1>3. ASSUME NEW x \in Requests, NEW w \in Workers, CallServer(x, w)
      PROVE  /\ VolumeOf(csi[r]) = v /\ csi'[r].op = csi[r].op
             /\ csi'[r].pc = csi[r].pc
             /\ csi'[r].worker = csi[r].worker \/ (CallServer(r, w) /\ csi'[r].worker = w)
  <2>1. CASE r = x
    BY <1>3, <2>1, CallServed DEF BaseInv, VolumeOf
  <2>2. CASE r # x
    BY <1>3, <2>2, CallServed DEF BaseInv
  <2>. QED  BY <2>1, <2>2
<1>4. CASE Abandon
  BY <1>4, AbandonFrame, VolumeOfNone DEF BaseInv, VolumeOf
<1>5. ASSUME NEW w \in Workers, ServerStep(w)
      PROVE  csi'[r] = csi[r]
  BY <1>5 DEF ServerStep, driverVars
<1>6. CASE ServerRestart
  BY <1>6, VolumeOfNone DEF ServerRestart
<1>. QED  BY <1>1, <1>2, <1>3, <1>4, <1>5, <1>6, DriverSteps

LEMMA CallStays ==
  ASSUME BaseInv, NEW v \in Volumes, DriverNext, NEW w \in Workers, VolumeOf(call'[w]) = v
  PROVE  \/ VolumeOf(call[w]) = v /\ call'[w].op = call[w].op /\ call'[w].id = call[w].id
         \/ \E r \in Requests :
              /\ CallServer(r, w) /\ VolumeOf(csi[r]) = v
              /\ call'[w].op \in Builds <=> csi[r].op \in Builds
<1>0. TypeInv
  BY DEF BaseInv, DriverTypeInv
<1>1. ASSUME NEW x \in Workers, Continue(x)
      PROVE  VolumeOf(call[w]) = v /\ call'[w].op = call[w].op /\ call'[w].id = call[w].id
  <2>1. SameNames(call'[w], call[w])
    BY <1>0, <1>1, ContinueProceeds, VolumeOfNone DEF Proceeds
  <2>. QED  BY <2>1 DEF SameNames, VolumeOf
<1>2. ASSUME NEW r \in Requests, NEW x \in Workers, CallServer(r, x)
      PROVE  \/ call'[w] = call[w]
             \/ /\ CallServer(r, w) /\ VolumeOf(csi[r]) = v
                /\ call'[w].op \in Builds <=> csi[r].op \in Builds
  BY <1>2, CallServed, RequestAt, ServedVolume DEF BaseInv
<1>3. ASSUME NEW r \in Requests, Ask(r)
      PROVE  call' = call
  BY <1>3, AskFrame DEF BaseInv, vars
<1>4. ASSUME NEW r \in Requests, AnswerSucceeded(r) \/ AnswerFailed(r)
      PROVE  \E x \in Workers : Continue(x)
  BY <1>4, TypeAnswer DEF BaseInv, Continue
<1>5. CASE ServerRestart
  BY <1>5, VolumeOfNone DEF ServerRestart, Restart
<1>. QED  BY <1>1, <1>2, <1>3, <1>4, <1>5, DriverSteps, AbandonFrame DEF BaseInv, ServerStep

(* Only a call that builds for a volume gives it an active layer or an     *)
(* export.                                                                 *)
Builder(w, v) ==
  /\ Continue(w) /\ call[w].op \in Builds /\ VolumeOf(call[w]) = v
  /\ call[w].pc \in {"store", "export"}

LEMMA Built ==
  ASSUME BaseInv, NEW v \in Volumes, DriverNext,
         (Active(v)' /\ ~Active(v)) \/ (Exported(v)' /\ ~Exported(v))
  PROVE  \E w \in Workers : Builder(w, v)
<1>0. TypeInv /\ v \in ImageID
  BY DEF BaseInv, DriverTypeInv, ImageID
<1>1. ASSUME NEW w \in Workers, Continue(w)
      PROVE  Builder(w, v)
  <2>. DEFINE c == call[w]
  <2>1. CallOK(c) /\ StepsOf(c)
    BY <1>0 DEF TypeInv, CallTypeInv, BaseInv, HandlerInv
  <2>2. CASE Active(v)' /\ ~Active(v)
    <3>1. c.pc = "store" /\ v = TopOf(c)
      BY <1>1, <2>2, ActiveChange DEF Active
    <3>. QED  BY <1>1, <2>1, <3>1 DEF CallOK, TopOf, VolumeOf, Builds, Builder
  <2>3. CASE Exported(v)' /\ ~Exported(v)
    <3>1. DistinctQSDIDs /\ c.pc = "export" /\ QSDID[v] = QSDID[c.id]
      BY <1>1, <2>3, ExportChange DEF Exported
    <3>2. c.op = "ExposeVhostUser" /\ c.id \in ImageID
      BY <2>1, <3>1 DEF StepsOf, ImageID
    <3>. QED  BY <1>0, <1>1, <3>1, <3>2 DEF DistinctQSDIDs, VolumeOf, Builds, Builder
  <2>. QED  BY <2>2, <2>3
<1>2. ~UNCHANGED <<activeLayers, exports>>
  BY DEF Active, Exported, DistinctQSDIDs
<1>3. ASSUME NEW w \in Workers, Starts(w)
      PROVE  FALSE
  BY <1>0, <1>3, StartKeeps DEF Active, Exported, DistinctQSDIDs
<1>4. ~Restart
  BY DEF Restart, GraphReset, Empty, Active, Exported, DistinctQSDIDs
<1>. QED  BY <1>1, <1>2, <1>3, <1>4, ServerView DEF graphVars, memVars

LEMMA OccupiedStays ==
  ASSUME BaseInv, NEW v \in Volumes, DriverNext, Occupied(v)'
  PROVE  \/ Occupied(v)
         \/ v \in storage' /\ co'[v] \notin {"unborn", "deleted"}
<1>1. CASE (Active(v)' /\ ~Active(v)) \/ (Exported(v)' /\ ~Exported(v))
  BY <1>1, Built DEF Builder, Occupied, Building
<1>2. ASSUME NEW r \in Requests, csi'[r].op \in Builds, VolumeOf(csi'[r]) = v
      PROVE  Occupied(v) \/ (v \in storage' /\ co'[v] \notin {"unborn", "deleted"})
  BY <1>2, RequestStays, AskForVolume DEF AsksFor, Occupied, Building
<1>3. ASSUME NEW w \in Workers, call'[w].op \in Builds, VolumeOf(call'[w]) = v
      PROVE  Occupied(v)
  BY <1>3, CallStays DEF Occupied, Building
<1>4. CASE Building(v)'
  BY <1>2, <1>3, <1>4 DEF Building, VolumeOf
<1>. QED  BY <1>1, <1>4 DEF Occupied

LEMMA TouchedStays ==
  ASSUME BaseInv, NEW v \in Volumes, DriverNext, Touched(v)'
  PROVE  Touched(v) \/ co'[v] # "unborn"
<1>1. ASSUME NEW r \in Requests, VolumeOf(csi'[r]) = v
      PROVE  Touched(v) \/ co'[v] # "unborn"
  BY <1>1, RequestStays, AskForVolume DEF AsksFor, Touched
<1>2. ASSUME NEW w \in Workers, VolumeOf(call'[w]) = v
      PROVE  Touched(v)
  BY <1>2, CallStays DEF Touched
<1>. QED  BY <1>1, <1>2 DEF Touched, VolumeOf

LEMMA UnaskedKept ==
  ASSUME BaseInv, NoNewLife, DriverNext, NEW v \in Volumes, Unasked(v)
  PROVE  Unasked(v)'
<1>1. co'[v] = "unborn" => co[v] = "unborn"
  BY DEF NoNewLife, ImageID
<1>. QED  BY <1>1, OccupiedStays, TouchedStays DEF Unasked

LEMMA OneAtATimeKept ==
  ASSUME BaseInv, DriverNext, NEW v \in Volumes, OneAtATime(v), v \notin hasty'
  PROVE  OneAtATime(v)'
<1>0. None \notin Workers
  BY DriverAssumption
<1>1. CASE \E r \in Requests : Ask(r) /\ VolumeOf(csi'[r]) = v
  <2>1. PICK r \in Requests : Ask(r) /\ VolumeOf(csi'[r]) = v
    BY <1>1
  <2>2. ~Touched(v)
    BY <2>1, AskForVolume DEF AsksFor
  <2>3. call' = call /\ \A x \in Requests \ {r} : csi'[x] = csi[x]
    BY <2>1, AskFrame DEF BaseInv, vars
  <2>4. /\ \A x \in Requests : VolumeOf(csi'[x]) = v => x = r
        /\ \A w \in Workers : VolumeOf(call'[w]) # v
    BY <2>2, <2>3 DEF Touched
  <2>. QED  BY <2>4 DEF OneAtATime, VolumeOf
<1>2. CASE ~\E r \in Requests : Ask(r) /\ VolumeOf(csi'[r]) = v
  <2>1. ASSUME NEW r \in Requests, VolumeOf(csi'[r]) = v
        PROVE  /\ VolumeOf(csi[r]) = v
               /\ \/ csi'[r].worker = csi[r].worker
                  \/ AnswerSucceeded(r) \/ AnswerFailed(r)
                  \/ \E w \in Workers : CallServer(r, w)
    BY <1>2, <2>1, RequestStays
  <2>2. ASSUME NEW r \in Requests, NEW w \in Workers, CallServer(r, w), VolumeOf(csi[r]) = v
        PROVE  /\ csi'[r].worker = w /\ VolumeOf(csi'[r]) = v
               /\ \A x \in Workers : VolumeOf(call[x]) # v
    <3>1. csi[r].worker = None
      BY <2>2 DEF CallServer, Waiting
    <3>2. csi'[r].worker = w /\ VolumeOf(csi'[r]) = v
      BY <2>2, CallServed DEF BaseInv, VolumeOf
    <3>. QED  BY <1>0, <2>2, <3>1, <3>2 DEF OneAtATime
  <2>3. ASSUME NEW w \in Workers, VolumeOf(call'[w]) = v
        PROVE  \/ VolumeOf(call[w]) = v
               \/ \E r \in Requests : CallServer(r, w) /\ VolumeOf(csi[r]) = v
    BY <2>3, CallStays
  <2>4. \A r, q \in Requests : VolumeOf(csi'[r]) = v /\ VolumeOf(csi'[q]) = v => r = q
    BY <2>1 DEF OneAtATime
  <2>5. \A w, x \in Workers : VolumeOf(call'[w]) = v /\ VolumeOf(call'[x]) = v => w = x
    BY <2>2, <2>3 DEF OneAtATime
  <2>6. ASSUME NEW r \in Requests, NEW w \in Workers, VolumeOf(csi'[r]) = v, VolumeOf(call'[w]) = v
        PROVE  csi'[r].worker = w
    <3>1. CASE \E q \in Requests : CallServer(q, w) /\ VolumeOf(csi[q]) = v
      BY <2>1, <2>2, <2>6, <3>1 DEF OneAtATime
    <3>2. CASE VolumeOf(call[w]) = v
      <4>1. csi[r].worker = w
        BY <2>1, <2>6, <3>2 DEF OneAtATime
      <4>2. ASSUME AnswerSucceeded(r) \/ AnswerFailed(r)
            PROVE  FALSE
        <5>1. Reply(w)
          BY <4>1, <4>2, TypeAnswer DEF BaseInv
        <5>2. call'[w] = NoCall
          BY <5>1 DEF Reply, Become, BaseInv, DriverTypeInv, TypeInv, TypeOK
        <5>. QED  BY <2>6, <5>2, VolumeOfNone
      <4>3. ASSUME NEW x \in Workers, CallServer(r, x)
            PROVE  FALSE
        BY <2>1, <2>2, <2>6, <3>2, <4>3
      <4>. QED  BY <2>1, <2>6, <4>1, <4>2, <4>3
    <3>. QED  BY <2>3, <2>6, <3>1, <3>2
  <2>. QED  BY <2>4, <2>5, <2>6 DEF OneAtATime, VolumeOf
<1>. QED  BY <1>1, <1>2

(* Nothing turns v active or exported behind the back of a call or request *)
(* that deletes it.                                                        *)
LEMMA NotBuiltBehind ==
  ASSUME BaseInv, DriverNext, NEW v \in Volumes, OneAtATime(v),
         \/ \E w \in Workers : VolumeOf(call[w]) = v /\ call[w].op \notin Builds
         \/ \E r \in Requests : VolumeOf(csi[r]) = v /\ csi[r].op \notin Builds
  PROVE  (Active(v)' => Active(v)) /\ (Exported(v)' => Exported(v))
<1>1. ASSUME NEW x \in Workers, Builder(x, v)
      PROVE  FALSE
  <2>1. call[x].op \in Builds /\ VolumeOf(call[x]) = v
    BY <1>1 DEF Builder
  <2>2. PICK r \in Requests : VolumeOf(csi[r]) = v /\ csi[r].op \notin Builds
    BY <2>1 DEF OneAtATime
  <2>3. csi[r].worker = x /\ x # None
    BY <2>1, <2>2, DriverAssumption DEF OneAtATime
  <2>4. ServedBy(csi[r], call[x]) /\ RequestOK(csi[r])
    BY <2>3, RequestAt DEF BaseInv, LinkInv, Waiting
  <2>. QED  BY <2>1, <2>2, <2>4, ServedVolume
<1>. QED  BY <1>1, Built

(* How a call that deletes comes to have undone something.                 *)
LEMMA Undoes ==
  ASSUME TypeInv, HandlerInv, NEW w \in Workers, Continue(w), NEW x \in Workers,
         NEW v, call[x].id = v
  PROVE  /\ call[x].op = "DeleteVolume" /\ Forgot(call'[x]) =>
              Forgot(call[x]) \/ ~Active(v)'
         /\ call[x].op = "DeleteExporter" /\ call'[x].pc \in {"rmSocketDir", "succeeded"} =>
              call[x].pc \in {"rmSocketDir", "succeeded"} \/ ~Exported(v)'
<1>. DEFINE c == call[x]
<1>0. CallOK(c) /\ StepsOf(c) /\ call \in [Workers -> Call]
  BY DEF TypeInv, CallTypeInv, TypeOK, HandlerInv
<1>1. \/ call'[x] = c
      \/ call'[x].pc \in {"failed", "panicked", "idle"}
      \/ x = w /\ c.pc \in DOMAIN Follows /\ call'[x].pc \in Follows[c.pc]
  <2>1. x = w /\ Reply(w) => call'[x].pc = "idle"
    BY <1>0 DEF Reply, Become, NoCall
  <2>. QED  BY <2>1, ContinueMoves DEF Moves
<1>2. ASSUME c.op = "DeleteVolume", Forgot(call'[x]), ~Forgot(c)
      PROVE  ~Active(v)'
  <2>1. x = w /\ c.pc \in DOMAIN Follows /\ call'[x].pc \in Follows[c.pc]
    BY <1>1, <1>2 DEF Forgot
  <2>2. c.pc \in DeletePC /\ c.layer = c.id
    BY <1>0, <1>2, <2>1 DEF CallOK, StepsOf, Forgot, Follows, Deleting
  <2>3. CASE c.pc \in {"blockdevDel", "remove"}
    <3>1. call'[x].pc \in {"remove", "release"}
      BY <2>1, <2>3 DEF Follows
    <3>2. Fail(w) \/ \E pc : Goto(w, pc)
      BY <2>1, <2>3 DEF Continue, QemuImgCreate, AddNode, Append, Store, Export, Unexport,
         RemoveSocketDir, DelNode, RemoveFile, Release, RemoveDir, Reply, AfterQemuImg, AfterAdd
    <3>3. ~Fail(w)
      BY <2>1, <3>1, FailedPC
    <3>4. call'[x].layer = c.layer /\ call'[x].id = c.id
      BY <1>0, <2>1, <3>2, <3>3 DEF Goto, Call
    <3>. QED  BY <1>2, <2>2, <3>1, <3>4 DEF Forgot
  <2>4. CASE c.pc = "release"
    <3>1. Release(w) /\ ~Fail(w)
      BY <1>2, <2>1, <2>4, StepAt, FailedPC DEF Forgot
    <3>. QED  BY <1>2, <2>1, <2>2, <3>1 DEF Release, DeletesItself, Forget, Drop, Active
  <2>. QED  BY <2>2, <2>3, <2>4
<1>3. ASSUME c.op = "DeleteExporter", call'[x].pc \in {"rmSocketDir", "succeeded"},
             c.pc \notin {"rmSocketDir", "succeeded"}
      PROVE  ~Exported(v)'
  <2>1. x = w /\ c.pc \in DOMAIN Follows /\ call'[x].pc \in Follows[c.pc]
    BY <1>1, <1>3
  <2>2. c.pc = "unexport"
    BY <1>0, <1>3, <2>1 DEF CallOK, StepsOf, Follows, Deleting
  <2>3. Unexport(w) /\ ~Fail(w)
    BY <1>3, <2>1, <2>2, StepAt, FailedPC
  <2>. QED  BY <2>1, <2>3 DEF Unexport, BlockExportDel, Drop, Exported
<1>. QED  BY <1>2, <1>3

LEMMA CallMoves ==
  ASSUME BaseInv, DriverNext, NEW w \in Workers
  PROVE  \/ call'[w] = call[w] \/ call'[w] = NoCall
         \/ \E x \in Workers : Continue(x)
         \/ \E r \in Requests : CallServer(r, w)
<1>1. \A r \in Requests : Ask(r) => call' = call
  BY AskFrame DEF BaseInv, vars
<1>2. \A r \in Requests : AnswerSucceeded(r) \/ AnswerFailed(r) => \E x \in Workers : Continue(x)
  BY TypeAnswer DEF BaseInv, Continue
<1>3. \A r \in Requests, x \in Workers : CallServer(r, x) => x = w \/ call'[w] = call[w]
  BY CallServed DEF BaseInv
<1>4. ServerRestart => call'[w] = NoCall
  BY DEF ServerRestart, Restart
<1>. QED  BY <1>1, <1>2, <1>3, <1>4, DriverSteps, AbandonFrame DEF BaseInv, ServerStep

LEMMA UndoneKept ==
  ASSUME BaseInv, BaseInv', DriverNext, NEW v \in Volumes, OneAtATime(v), Undone(v)
  PROVE  Undone(v)'
<1>0. TypeInv /\ HandlerInv /\ v \in ImageID /\ DriverTypeInv
  BY DEF BaseInv, DriverTypeInv, ImageID
<1>1. ASSUME NEW w \in Workers, call'[w].op = "DeleteVolume", call'[w].id = v, Forgot(call'[w])
      PROVE  ~Active(v)'
  <2>1. VolumeOf(call'[w]) = v /\ call'[w] # NoCall
    BY <1>1 DEF VolumeOf, NoCall
  <2>2. ASSUME NEW r \in Requests, CallServer(r, w)
        PROVE  ~Active(v)'
    <3>. DEFINE q == csi[r]
    <3>1. RequestOK(q) /\ q \in Request /\ ServedBy(q, call'[w])
      BY <1>0, <2>2, RequestAt, CallServed
    <3>2. q.pc = "delete" /\ q.id = v
      BY <1>1, <3>1, ServedVolume DEF ServedBy
    <3>3. DeleteVolume(w, v)
      BY <2>2, <3>2 DEF CallServer
    <3>. QED  BY <1>0, <1>1, <3>3, StartDeleteVolume DEF TurnsTo, Forgot, Active
  <2>3. CASE ~\E r \in Requests : CallServer(r, w)
    <3>1. VolumeOf(call[w]) = v /\ call[w].op = "DeleteVolume" /\ call[w].id = v
      BY <1>1, <2>1, <2>3, CallStays
    <3>2. Active(v)' => Active(v)
      BY <3>1, NotBuiltBehind DEF Builds
    <3>3. CASE Forgot(call[w])
      BY <3>1, <3>2, <3>3 DEF Undone
    <3>4. CASE ~Forgot(call[w])
      BY <1>0, <1>1, <2>1, <2>3, <3>1, <3>4, CallMoves, Undoes
    <3>. QED  BY <3>3, <3>4
  <2>. QED  BY <2>2, <2>3
<1>2. ASSUME NEW w \in Workers, call'[w].op = "DeleteExporter", call'[w].id = v,
             call'[w].pc \in {"rmSocketDir", "succeeded"}
      PROVE  ~Exported(v)'
  <2>1. VolumeOf(call'[w]) = v /\ call'[w] # NoCall
    BY <1>2 DEF VolumeOf, NoCall
  <2>2. ASSUME NEW r \in Requests, CallServer(r, w)
        PROVE  FALSE
    <3>. DEFINE q == csi[r]
    <3>1. RequestOK(q) /\ q \in Request /\ ServedBy(q, call'[w])
      BY <1>0, <2>2, RequestAt, CallServed
    <3>2. q.pc = "unexport" /\ q.id = v
      BY <1>2, <3>1, ServedVolume DEF ServedBy
    <3>3. DeleteExporter(w, v)
      BY <2>2, <3>2 DEF CallServer
    <3>. QED  BY <1>0, <1>2, <3>3, StartUnexpose
  <2>3. CASE ~\E r \in Requests : CallServer(r, w)
    <3>1. VolumeOf(call[w]) = v /\ call[w].op = "DeleteExporter" /\ call[w].id = v
      BY <1>2, <2>1, <2>3, CallStays
    <3>2. Exported(v)' => Exported(v)
      BY <3>1, NotBuiltBehind DEF Builds
    <3>3. CASE call[w].pc \in {"rmSocketDir", "succeeded"}
      BY <3>1, <3>2, <3>3 DEF Undone
    <3>4. CASE call[w].pc \notin {"rmSocketDir", "succeeded"}
      BY <1>0, <1>2, <2>1, <2>3, <3>1, <3>4, CallMoves, Undoes
    <3>. QED  BY <3>3, <3>4
  <2>. QED  BY <2>2, <2>3
<1>3. ASSUME NEW r \in Requests, csi'[r].pc = "delete", csi'[r].id = v
      PROVE  ~Exported(v)'
  <2>1. csi'[r].op = "DeleteVolume" /\ VolumeOf(csi'[r]) = v
    BY <1>3 DEF BaseInv, DriverTypeInv, RequestTypeInv, RequestOK, VolumeOf
  <2>2. ~Ask(r)
    BY <1>3, <2>1, AskForVolume DEF AsksFor
  <2>3. VolumeOf(csi[r]) = v /\ csi[r].op = "DeleteVolume" /\ csi[r].id = v
    BY <2>1, <2>2, RequestStays DEF VolumeOf
  <2>4. Exported(v)' => Exported(v)
    BY <2>3, NotBuiltBehind DEF Builds
  <2>5. CASE csi[r].pc = "delete"
    BY <2>3, <2>4, <2>5 DEF Undone
  <2>6. CASE csi[r].pc # "delete"
    <3>1. AnswerSucceeded(r) \/ AnswerFailed(r)
      BY <1>3, <2>1, <2>2, <2>6, RequestStays
    <3>2. csi'[r] # NoRequest
      BY <1>3 DEF NoRequest
    <3>3. call[csi[r].worker].pc = "succeeded" /\ csi[r].pc = "unexport"
      BY <1>0, <1>3, <3>1, <3>2, AnswerTells DEF Then
    <3>4. AnswerSucceeded(r)
      BY <3>1, <3>3 DEF AnswerFailed
    <3>5. csi[r].worker \in Workers /\ call[csi[r].worker].op = "DeleteExporter" /\ call[csi[r].worker].id = v
      BY <2>3, <3>3, <3>4, AnsweredCall DEF CallOf
    <3>. QED  BY <2>4, <3>3, <3>5 DEF Undone
  <2>. QED  BY <2>5, <2>6
<1>. QED  BY <1>1, <1>2, <1>3 DEF Undone

(* A DeleteVolume that is answered with success leaves nothing.            *)
LEMMA DeleteDone ==
  ASSUME BaseInv, NEW v \in Volumes, OneAtATime(v), Undone(v),
         NEW r \in Requests, AnswerSucceeded(r), csi[r].pc = "delete", csi[r].id = v
  PROVE  ~Occupied(v)'
<1>. DEFINE w == csi[r].worker
<1>1. /\ w \in Workers /\ call[w].pc = "succeeded" /\ call[w].op = "DeleteVolume" /\ call[w].id = v
      /\ UNCHANGED <<graphVars, memVars, fsVars>>
  BY AnsweredCall DEF CallOf
<1>2. VolumeOf(csi[r]) = v /\ VolumeOf(call[w]) = v
  BY <1>1, RequestAt DEF BaseInv, RequestOK, VolumeOf
<1>3. ~Active(v)' /\ ~Exported(v)'
  BY <1>1 DEF Undone, Forgot, Active, Exported, graphVars, memVars
<1>4. ASSUME NEW x \in Requests
      PROVE  VolumeOf(csi'[x]) # v
  <2>1. CASE x = r
    <3>1. csi'[r] = NoRequest
      BY AnswerTells DEF BaseInv, Then
    <3>. QED  BY <2>1, <3>1, VolumeOfNone
  <2>2. CASE x # r
    BY <1>2, <2>2, AnswerFrame DEF OneAtATime
  <2>. QED  BY <2>1, <2>2
<1>5. ASSUME NEW x \in Workers
      PROVE  VolumeOf(call'[x]) # v
  <2>1. CASE x = w
    <3>1. Reply(w)
      BY DEF AnswerSucceeded
    <3>2. call'[w] = NoCall
      BY <1>1, <3>1 DEF Reply, Become, BaseInv, DriverTypeInv, TypeInv, TypeOK
    <3>. QED  BY <2>1, <3>2, VolumeOfNone
  <2>2. CASE x # w
    BY <1>1, <1>2, <2>2, AnswerFrame DEF OneAtATime
  <2>. QED  BY <2>1, <2>2
<1>. QED  BY <1>3, <1>4, <1>5 DEF Occupied, Building, VolumeOf

(* What happens to the driver's table, and to what is remembered of it.    *)
LEMMA StorageFrame ==
  ASSUME BaseInv, DriverNext
  PROVE  \/ storage \subseteq storage'
         \/ DriverRestart
         \/ \E r \in Requests : AnswerSucceeded(r) /\ csi[r].pc \notin DOMAIN Then /\ storage' = Remaining(csi[r])
  BY DriverSteps DEF Ask, ControllerCreateVolume, ControllerDeleteVolume, ControllerCreateSnapshot,
     ControllerDeleteSnapshot, CallServer, AnswerSucceeded, AnswerFailed, Abandon, Timeout, GiveUp,
     ServerStep, ServerRestart, driverVars, tableVars, Entered

LEMMA HistoryFrame ==
  ASSUME BaseInv, DriverNext
  PROVE  /\ hasty \subseteq hasty'
         /\ forgotten' = IF DriverRestart THEN Asked ELSE forgotten
         /\ DriverRestart => UNCHANGED co
  BY DriverSteps DEF Ask, ControllerCreateVolume, ControllerDeleteVolume, ControllerCreateSnapshot,
     ControllerDeleteSnapshot, CallServer, AnswerSucceeded, AnswerFailed, Abandon, DriverRestart,
     Timeout, GiveUp, ServerStep, ServerRestart, driverVars, histVars, coVars, AskFor

LEMMA DeleteAnswered ==
  ASSUME BaseInv, NEW r \in Requests, AnswerSucceeded(r), csi[r].pc \notin DOMAIN Then
  PROVE  csi[r].op = "DeleteVolume" <=> csi[r].pc = "delete"
<1>1. RequestOK(csi[r]) /\ csi[r] \in Request /\ csi[r].op # "none"
  BY RequestAt DEF BaseInv, AnswerSucceeded, Free
<1>. QED  BY <1>1 DEF RequestOK, Request, Then

LEMMA InTableKept ==
  ASSUME BaseInv, DriverNext, NEW v \in Volumes, Unasked(v), OneAtATime(v), Undone(v),
         v \notin forgotten => InTable(v), v \notin forgotten'
  PROVE  InTable(v)'
<1>1. SUFFICES ASSUME Occupied(v)', v \notin storage'
               PROVE  FALSE
  BY DEF InTable
<1>2. Occupied(v)
  BY <1>1, OccupiedStays
<1>3. ~DriverRestart
  BY <1>2, HistoryFrame DEF Asked, Unasked, ImageID
<1>4. v \in storage
  BY <1>2, <1>3, HistoryFrame DEF InTable
<1>5. PICK r \in Requests :
         AnswerSucceeded(r) /\ csi[r].pc \notin DOMAIN Then /\ storage' = Remaining(csi[r])
  BY <1>1, <1>3, <1>4, StorageFrame
<1>6. csi[r].op = "DeleteVolume" /\ csi[r].id = v
  BY <1>1, <1>4, <1>5 DEF Remaining
<1>. QED  BY <1>1, <1>5, <1>6, DeleteAnswered, DeleteDone

LEMMA ToldDeleted ==
  ASSUME BaseInv, DriverNext, NEW v \in Volumes, co'[v] = "deleted", co[v] # "deleted"
  PROVE  \/ v \notin storage
         \/ \E r \in Requests : AnswerSucceeded(r) /\ csi[r].pc = "delete" /\ csi[r].id = v
<1>0. v \in ImageID /\ v \notin Snapshots
  BY ConstantsAssumption DEF ImageID
<1>1. \A r \in Requests : Ask(r) => v \notin storage
  BY AskForVolume DEF AsksFor
<1>2. ASSUME NEW r \in Requests, AnswerSucceeded(r) \/ AnswerFailed(r)
      PROVE  AnswerSucceeded(r) /\ csi[r].pc = "delete" /\ csi[r].id = v
  <2>1. /\ call[csi[r].worker].pc = "succeeded" /\ csi[r].pc \in {"expose", "delete", "snapshot", "unsnapshot"}
        /\ csi[r].id = v /\ Outcome(csi[r]) = "deleted"
    BY <1>0, <1>2, AnswerTells DEF BaseInv
  <2>2. RequestOK(csi[r])
    BY RequestAt DEF BaseInv
  <2>3. AnswerSucceeded(r)
    BY <1>2, <2>1 DEF AnswerFailed
  <2>. QED  BY <1>0, <2>1, <2>2, <2>3 DEF RequestOK, Outcome
<1>3. \/ \E r \in Requests : Ask(r) \/ AnswerSucceeded(r) \/ AnswerFailed(r)
      \/ UNCHANGED co
  BY DriverSteps, AbandonFrame DEF BaseInv, CallServer, ServerStep, ServerRestart, driverVars, coVars
<1>. QED  BY <1>1, <1>2, <1>3

LEMMA LeftAloneKept ==
  ASSUME BaseInv, DriverNext, NEW v \in Volumes, OneAtATime(v), Undone(v),
         v \notin forgotten => InTable(v) /\ LeftAlone(v), v \notin forgotten'
  PROVE  LeftAlone(v)'
<1>1. SUFFICES ASSUME co'[v] = "deleted", Occupied(v)'
               PROVE  FALSE
  BY DEF LeftAlone
<1>2. Occupied(v)
  BY <1>1, OccupiedStays
<1>3. ~DriverRestart
  BY <1>1, HistoryFrame DEF Asked, ImageID
<1>4. InTable(v) /\ LeftAlone(v)
  BY <1>3, HistoryFrame
<1>. QED  BY <1>1, <1>2, <1>4, ToldDeleted, DeleteDone DEF InTable, LeftAlone

LEMMA TidyInit == DriverInit => TidyInv
<1>. SUFFICES ASSUME DriverInit
              PROVE  TidyInv
  OBVIOUS
<1>1. BaseInv /\ RequestsTimely
  BY BaseInit, AliveInit DEF AliveInv
<1>2. ASSUME NEW v \in Volumes
      PROVE  Tidy(v)
  <2>1. \A r \in Requests : csi[r] = NoRequest /\ VolumeOf(csi[r]) # v
    BY VolumeOfNone DEF DriverInit
  <2>2. \A w \in Workers : call[w] = NoCall /\ VolumeOf(call[w]) # v
    BY VolumeOfNone DEF DriverInit, Init
  <2>3. ~Active(v) /\ ~Exported(v)
    BY DEF DriverInit, Init, GraphInit, Empty, Active, Exported
  <2>4. ~Occupied(v) /\ ~Touched(v)
    BY <2>1, <2>2, <2>3 DEF Occupied, Building, Touched
  <2>5. Undone(v)
    BY <2>1, <2>2 DEF Undone, NoRequest, NoCall
  <2>. QED  BY <2>1, <2>2, <2>4, <2>5 DEF Tidy, Unasked, InTable, LeftAlone, OneAtATime
<1>. QED  BY <1>1, <1>2 DEF TidyInv

LEMMA TidyInductive == TidyInv /\ [DriverNext]_allVars => TidyInv'
<1>. SUFFICES ASSUME TidyInv, [DriverNext]_allVars
              PROVE  TidyInv'
  OBVIOUS
<1>. USE DEF TidyInv
<1>1. CASE DriverNext
  <2>1. BaseInv' /\ RequestsTimely' /\ NoNewLife
    BY <1>1, BaseStep, RequestsTimelyKept, LivesOn
  <2>2. ASSUME NEW v \in Volumes
        PROVE  Tidy(v)'
    <3>1. Tidy(v) /\ (v \notin hasty' => v \notin hasty)
      BY <1>1, HistoryFrame
    <3>2. Unasked(v)'
      BY <1>1, <2>1, <3>1, UnaskedKept DEF Tidy
    <3>3. v \notin hasty' => OneAtATime(v)' /\ Undone(v)'
      BY <1>1, <2>1, <3>1, OneAtATimeKept, UndoneKept DEF Tidy
    <3>4. v \notin hasty' \cup forgotten' => InTable(v)' /\ LeftAlone(v)'
      BY <1>1, <3>1, InTableKept, LeftAloneKept DEF Tidy
    <3>. QED  BY <3>2, <3>3, <3>4 DEF Tidy
  <2>. QED  BY <2>1, <2>2
<1>2. CASE UNCHANGED allVars
  <2>1. BaseInv'
    BY <1>2, BaseStutter
  <2>2. UNCHANGED <<nodes, exports, activeLayers, call, csi, co, storage, forgotten, hasty>>
    BY <1>2 DEF allVars, vars, graphVars, memVars, driverVars, coVars, tableVars, histVars
  <2>3. RequestsTimely'
    BY <2>2 DEF RequestsTimely, RequestTimely, Alive
  <2>4. ASSUME NEW v \in Volumes
        PROVE  Tidy(v)'
    <3>1. /\ Occupied(v)' = Occupied(v) /\ Touched(v)' = Touched(v)
          /\ OneAtATime(v)' = OneAtATime(v) /\ Undone(v)' = Undone(v)
      BY <2>2 DEF Occupied, Active, Exported, Building, Touched, OneAtATime, Undone, Forgot, VolumeOf
    <3>. QED  BY <2>2, <3>1 DEF Tidy, Unasked, InTable, LeftAlone
  <2>. QED  BY <2>1, <2>3, <2>4
<1>. QED  BY <1>1, <1>2

LEMMA TidyAlways == DriverSpec => []TidyInv
  BY TidyInit, TidyInductive, PTL DEF DriverSpec

(* A volume the server serves can be deleted through the driver, unless the*)
(* driver lost its tables or a late handler overtook later requests: its   *)
(* entry in the table outlives every failure, timeout and restart of the   *)
(* server.                                                                 *)
THEOREM ServedVolumesInTable == DriverSpec => []ServedVolumeInTable
<1>1. TidyInv => ServedVolumeInTable
  <2>. SUFFICES ASSUME TidyInv, NEW v \in DOMAIN activeLayers
                PROVE  v \in storage \cup forgotten \cup hasty
    BY DEF ServedVolumeInTable
  <2>1. v \in Volumes
    BY DEF TidyInv, BaseInv, DriverTypeInv, TypeInv, TypeOK, MemTypeOK
  <2>. QED  BY <2>1 DEF TidyInv, Tidy, InTable, Occupied, Active
<1>. QED  BY <1>1, TidyAlways, PTL

(* A volume reported deleted has no active layer and no export, with the   *)
(* same exceptions and as long as no two ids have the same QSDID.          *)
THEOREM DeletedVolumesGone ==
  ASSUME DistinctQSDIDs
  PROVE  DriverSpec => []DeletedVolumeGone
<1>1. TidyInv => DeletedVolumeGone
  BY DEF TidyInv, Tidy, LeftAlone, Occupied, Active, Exported, DeletedVolumeGone
<1>. QED  BY <1>1, TidyAlways, PTL
=============================================================================
