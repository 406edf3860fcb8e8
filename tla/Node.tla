-------------------------------- MODULE Node --------------------------------
(***************************************************************************)
(* The node service of pkg/driver and the plugin process it runs in.  A    *)
(* kubelet asks it to bind-mount the socket directory of a volume on a     *)
(* target directory of a pod, and to take that back.  Its handlers have no *)
(* lock and keep nothing in memory: what is mounted is in the kernel, the  *)
(* directories are on the host, and both outlive the plugin.               *)
(***************************************************************************)
EXTENDS Integers, FiniteSets

CONSTANTS Targets,       \* target paths
          TargetVolume,  \* target -> the volume it is for
          Handlers,      \* node handlers that can be in progress at a time
          MaxStack,      \* bound: mounts on a target, with those under way
          MaxFaults      \* bound: crashes, lost answers, unprovoked failures

TargetVolumes == {TargetVolume[t] : t \in Targets}

ASSUME NodeAssumption ==
  /\ TargetVolume \in [Targets -> TargetVolumes]
  /\ MaxStack \in Nat \ {0}
  /\ MaxFaults \in Nat

VARIABLES targetDirs,  \* target directories that exist
          depth,       \* target -> number of bind mounts stacked on it
          socketDirs,  \* volumes that have a socket directory
          vhostSocks,  \* volumes whose vhost.sock is in that directory
          handler,     \* the handlers' calls
          plugin,      \* the plugin process
          csiSock,     \* is there a csi.sock
          kubelet,     \* target -> what the kubelet was told of it
          born,        \* volumes that were exposed
          stacked,     \* volumes that had two mounts on one target
          hasty,       \* targets unpublished while a publish went on unheard
          lost,        \* volumes whose socket directory a reboot took
          faults

hostVars == <<targetDirs, depth, socketDirs, vhostSocks>>
histVars == <<stacked, hasty, lost>>
nodeVars == <<hostVars, handler, plugin, csiSock, kubelet, born, histVars, faults>>

Call == [pc : {"idle", "mkdir", "mount", "unmount", "removeAll"},
         target : Targets \cup {"none"}, heard : BOOLEAN]
NoCall == [pc |-> "idle", target |-> "none", heard |-> TRUE]
Life == {"unborn", "publishing", "published", "unpublishing", "unpublished"}

NodeTypeOK ==
  /\ targetDirs \subseteq Targets
  /\ depth \in [Targets -> Nat]
  /\ vhostSocks \subseteq socketDirs /\ socketDirs \subseteq born
  /\ handler \in [Handlers -> Call]
  /\ \A h \in Handlers : handler[h].pc # "idle" => handler[h].target \in Targets
  /\ plugin \in {"down", "listening", "serving"} /\ csiSock \in BOOLEAN
  /\ kubelet \in [Targets -> Life]
  /\ born \subseteq TargetVolumes /\ stacked \subseteq TargetVolumes /\ lost \subseteq TargetVolumes
  /\ hasty \subseteq Targets
  /\ faults \in 0..MaxFaults

NodeInit ==
  /\ targetDirs = {} /\ depth = [t \in Targets |-> 0]
  /\ socketDirs = {} /\ vhostSocks = {}
  /\ handler = [h \in Handlers |-> NoCall]
  /\ plugin = "down" /\ csiSock = FALSE
  /\ kubelet = [t \in Targets |-> "unborn"]
  /\ born = {} /\ stacked = {} /\ hasty = {} /\ lost = {}
  /\ faults = 0

Fault == faults < MaxFaults /\ faults' = faults + 1
Granted(can) == can /\ UNCHANGED faults
Refused(can) == IF can THEN Fault ELSE UNCHANGED faults

-----------------------------------------------------------------------------
(* The kubelet has one request for a target at a time, as far as it knows. *)
(* It repeats them, and does not use a target again it asked to unpublish. *)

On(t)   == {h \in Handlers : handler[h].target = t}
Late(t) == {h \in On(t) : ~handler[h].heard}
Publishing(t) == {h \in On(t) : handler[h].pc \in {"mkdir", "mount"}}
Goto(h, pc)   == handler' = [handler EXCEPT ![h].pc = pc]
Begin(h, t, pc, life) ==
  /\ plugin = "serving" /\ handler[h] = NoCall
  /\ \A g \in On(t) : ~handler[g].heard
  /\ handler' = [handler EXCEPT ![h] = [pc |-> pc, target |-> t, heard |-> TRUE]]
  /\ kubelet' = [kubelet EXCEPT ![t] = life]
  /\ UNCHANGED <<hostVars, plugin, csiSock, born, stacked, lost, faults>>

NodePublishVolume(h, t) ==
  /\ TargetVolume[t] \in born
  /\ kubelet[t] \in {"unborn", "publishing", "published"}
  /\ depth[t] + Cardinality(Publishing(t)) < MaxStack
  /\ Begin(h, t, "mkdir", IF kubelet[t] = "published" THEN "published" ELSE "publishing")
  /\ UNCHANGED hasty

BadUnpublishFrom == "removeAll"
UnpublishFrom    == "unmount"
NodeUnpublishVolume(h, t) ==
  /\ kubelet[t] # "unborn"
  /\ Begin(h, t, UnpublishFrom, IF kubelet[t] = "unpublished" THEN "unpublished" ELSE "unpublishing")
  /\ hasty' = IF Late(t) \cap Publishing(t) = {} THEN hasty ELSE hasty \cup {t}

(* The handler returns; an error leaves the kubelet to ask again.          *)
Return(h, told) ==
  LET t == handler[h].target IN
  /\ handler' = [handler EXCEPT ![h] = NoCall]
  /\ kubelet' = IF /\ told = "published" => kubelet[t] = "publishing"
                   /\ told # "error" /\ handler[h].heard
                THEN [kubelet EXCEPT ![t] = told] ELSE kubelet
ReturnError(h) == Return(h, "error")

-----------------------------------------------------------------------------
(* NodePublishVolume: MkdirAll, then a bind mount of the socket directory  *)
(* on top of whatever is mounted there.                                    *)

MkdirAll(h) ==
  LET t == handler[h].target IN
  /\ handler[h].pc = "mkdir"
  /\ \/ Granted(TRUE) /\ targetDirs' = targetDirs \cup {t} /\ Goto(h, "mount") /\ UNCHANGED kubelet
     \/ Refused(TRUE) /\ UNCHANGED targetDirs /\ ReturnError(h)
  /\ UNCHANGED <<depth, socketDirs, vhostSocks, plugin, csiSock, born, histVars>>

CanMount(t) == t \in targetDirs /\ TargetVolume[t] \in socketDirs
Mount(h) ==
  LET t == handler[h].target IN
  /\ handler[h].pc = "mount"
  /\ \/ /\ Granted(CanMount(t))
        /\ depth' = [depth EXCEPT ![t] = @ + 1]
        /\ stacked' = IF depth[t] = 0 THEN stacked ELSE stacked \cup {TargetVolume[t]}
        /\ Return(h, "published")
     \/ Refused(CanMount(t)) /\ UNCHANGED <<depth, stacked>> /\ ReturnError(h)
  /\ UNCHANGED <<targetDirs, socketDirs, vhostSocks, plugin, csiSock, born, hasty, lost>>

(* NodeUnpublishVolume: the topmost mount goes.  A target that is not there*)
(* is passed over; one that is there and not mounted is an error (EINVAL). *)
BadCanUnmount(t) == depth[t] > 0
CanUnmount(t)    == depth[t] > 0 \/ t \notin targetDirs
Popped(t) == [depth EXCEPT ![t] = IF @ = 0 THEN 0 ELSE @ - 1]
Unmount(h) ==
  LET t == handler[h].target IN
  /\ handler[h].pc = "unmount"
  /\ \/ /\ Granted(CanUnmount(t))
        /\ depth' = Popped(t)
        /\ Goto(h, "removeAll") /\ UNCHANGED kubelet
     \/ Refused(CanUnmount(t)) /\ UNCHANGED depth /\ ReturnError(h)
  /\ UNCHANGED <<targetDirs, socketDirs, vhostSocks, plugin, csiSock, born, histVars>>

(* os.RemoveAll empties the directory, also through a mount, and then fails*)
(* on the mount point itself (EBUSY).                                      *)
BadRemovable(t) == TRUE
Removable(t)    == depth[t] = 0
RemoveAll(h) ==
  LET t == handler[h].target IN
  /\ handler[h].pc = "removeAll"
  /\ \/ /\ Granted(Removable(t))
        /\ targetDirs' = targetDirs \ {t}
        /\ UNCHANGED vhostSocks
        /\ Return(h, "unpublished")
     \/ /\ Refused(Removable(t))
        /\ vhostSocks' = IF Removable(t) THEN vhostSocks ELSE vhostSocks \ {TargetVolume[t]}
        /\ UNCHANGED targetDirs
        /\ ReturnError(h)
  /\ UNCHANGED <<depth, socketDirs, plugin, csiSock, born, histVars>>

HandlerStep(h) == MkdirAll(h) \/ Mount(h) \/ Unmount(h) \/ RemoveAll(h)

(* The kubelet stops waiting; the handler does not look at its context.    *)
GiveUp(h) ==
  /\ handler[h] # NoCall /\ handler[h].heard
  /\ Fault
  /\ handler' = [handler EXCEPT ![h].heard = FALSE]
  /\ UNCHANGED <<hostVars, plugin, csiSock, kubelet, born, histVars>>

-----------------------------------------------------------------------------
(* Driver.Run: a csi.sock left by an earlier plugin is removed, then the   *)
(* plugin listens and serves.  It leaves csi.sock when it ends: SIGTERM    *)
(* only cancels a context that Run does not look at.                       *)
BadFreesSocket == csiSock
FreesSocket    == FALSE
RunPlugin ==
  /\ plugin = "down"
  /\ plugin' = "listening" /\ csiSock' = FreesSocket
  /\ UNCHANGED <<hostVars, handler, kubelet, born, histVars, faults>>
Listen ==
  /\ plugin = "listening"
  /\ plugin' = IF csiSock THEN "down" ELSE "serving"
  /\ csiSock' = TRUE
  /\ UNCHANGED <<hostVars, handler, kubelet, born, histVars, faults>>

(* The plugin's container ends, with its handlers.  Its mounts stay: they  *)
(* are propagated to the host.                                             *)
PluginCrash ==
  /\ plugin # "down" /\ Fault
  /\ plugin' = "down"
  /\ handler' = [h \in Handlers |-> NoCall]
  /\ UNCHANGED <<hostVars, csiSock, kubelet, born, histVars>>

(* The node reboots: mounts and /var/run go, the directories of the kubelet*)
(* stay.                                                                   *)
Reboot ==
  /\ Fault
  /\ plugin' = "down"
  /\ handler' = [h \in Handlers |-> NoCall]
  /\ depth' = [t \in Targets |-> 0]
  /\ socketDirs' = {} /\ vhostSocks' = {}
  /\ lost' = born
  /\ UNCHANGED <<targetDirs, csiSock, kubelet, born, stacked, hasty>>

(* The server: a volume is exposed before it is published, and withdrawn   *)
(* when the kubelet has none of its targets any more.                      *)
ExposeVhostUser(v) ==
  /\ v \notin born
  /\ born' = born \cup {v}
  /\ socketDirs' = socketDirs \cup {v} /\ vhostSocks' = vhostSocks \cup {v}
  /\ UNCHANGED <<targetDirs, depth, handler, plugin, csiSock, kubelet, histVars, faults>>
DeleteExporter(v) ==
  /\ v \in socketDirs
  /\ \A t \in Targets : TargetVolume[t] = v => kubelet[t] = "unpublished"
  /\ socketDirs' = socketDirs \ {v} /\ vhostSocks' = vhostSocks \ {v}
  /\ UNCHANGED <<targetDirs, depth, handler, plugin, csiSock, kubelet, born, histVars, faults>>

NodeNext ==
  \/ RunPlugin \/ Listen \/ PluginCrash \/ Reboot
  \/ \E v \in TargetVolumes : ExposeVhostUser(v) \/ DeleteExporter(v)
  \/ \E h \in Handlers : \/ HandlerStep(h) \/ GiveUp(h)
                         \/ \E t \in Targets : NodePublishVolume(h, t) \/ NodeUnpublishVolume(h, t)

(* Go runs every handler, the kubelet starts the plugin again and repeats  *)
(* NodeUnpublishVolume until it is told success.                           *)
RetryUnpublish(t) == kubelet[t] = "unpublishing" /\ \E h \in Handlers : NodeUnpublishVolume(h, t)
NodeSpec ==
  /\ NodeInit /\ [][NodeNext]_nodeVars
  /\ WF_nodeVars(RunPlugin \/ Listen)
  /\ \A h \in Handlers : WF_nodeVars(HandlerStep(h))
  /\ \A t \in Targets : SF_nodeVars(RetryUnpublish(t))

-----------------------------------------------------------------------------
(* A pod whose target was published finds the vhost socket of its volume   *)
(* in it, whatever happens to the other targets of the volume, unless a    *)
(* second mount was stacked on one of them: to unpublish that one deletes  *)
(* the socket through the mount that is left.                              *)
Disturbed == stacked \cup lost \cup {TargetVolume[t] : t \in hasty}
PublishedReachable ==
  \A t \in Targets :
    kubelet[t] = "published" /\ TargetVolume[t] \notin Disturbed =>
      t \in targetDirs /\ depth[t] > 0 /\ TargetVolume[t] \in vhostSocks

(* A target reported unpublished has no mount and no directory left,       *)
(* however many mounts were stacked on it, unless a late NodePublishVolume *)
(* overtook its NodeUnpublishVolume.                                       *)
UnpublishedClean ==
  \A t \in Targets \ hasty : kubelet[t] = "unpublished" => t \notin targetDirs /\ depth[t] = 0

(* A target is unpublished at last if that is repeated, unless it is left  *)
(* as a directory without a mount: umount then fails for ever.  A mount or *)
(* RemoveAll that failed, a crash before the mount and a reboot leave one. *)
Bare(t) == t \in targetDirs /\ depth[t] = 0
UnpublishSettles ==
  \A t \in Targets :
    <>[]Bare(t) \/ (kubelet[t] = "unpublishing" ~> kubelet[t] = "unpublished")

(* The plugin serves again after every crash, also with a csi.sock left.   *)
PluginServes == <>[](plugin = "serving")
=============================================================================
