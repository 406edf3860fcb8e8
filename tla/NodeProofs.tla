----------------------------- MODULE NodeProofs -----------------------------
(***************************************************************************)
(* Theorems about Node, for every set of targets and handlers and any      *)
(* number of stacked mounts, crashes and reboots.                          *)
(*                                                                         *)
(* The inductive invariant NodeInv follows what the kubelet knows into the *)
(* handlers it has forgotten: a publish under way on a target it asked to  *)
(* unpublish makes the target hasty (PublishTimely), an unpublish under way*)
(* means that it asked for one (UnpublishAsked), and one that is about to  *)
(* empty a directory with a mount left has a disturbed volume (EmptiesOwn).*)
(***************************************************************************)
EXTENDS Node, TLAPS

Vol(t) == TargetVolume[t]

PublishTimely ==
  \A h \in Handlers :
    handler[h].pc \in {"mkdir", "mount"} =>
      kubelet[handler[h].target] \in {"publishing", "published"} \/ handler[h].target \in hasty
UnpublishAsked ==
  \A h \in Handlers :
    handler[h].pc \in {"unmount", "removeAll"} =>
      kubelet[handler[h].target] \in {"unpublishing", "unpublished"}
EmptiesOwn ==
  \A h \in Handlers :
    handler[h].pc = "removeAll" /\ depth[handler[h].target] > 0 =>
      Vol(handler[h].target) \in Disturbed
StackNoted  == \A t \in Targets : depth[t] > 1 => Vol(t) \in stacked
AskedIsBorn == \A t \in Targets : kubelet[t] # "unborn" => Vol(t) \in born
SocketThere == socketDirs \subseteq vhostSocks \cup Disturbed

NodeInv ==
  /\ NodeTypeOK
  /\ PublishTimely /\ UnpublishAsked /\ EmptiesOwn
  /\ StackNoted /\ AskedIsBorn /\ SocketThere
  /\ PublishedReachable /\ UnpublishedClean

LEMMA VolType == \A t \in Targets : Vol(t) \in TargetVolumes
  BY NodeAssumption DEF Vol, TargetVolumes

LEMMA FaultsType ==
  ASSUME NodeTypeOK, NEW can, Granted(can) \/ Refused(can) \/ Fault
  PROVE  faults' \in 0..MaxFaults
  BY NodeAssumption DEF NodeTypeOK, Granted, Refused, Fault

(* Nothing is forgotten of what disturbed a volume.                        *)
LEMMA DisturbedStays ==
  ASSUME stacked \subseteq stacked', hasty \subseteq hasty', lost \subseteq lost'
  PROVE  Disturbed \subseteq Disturbed'
  BY DEF Disturbed

USE DEF Vol, NodeInv

LEMMA InvPublish ==
  ASSUME NodeInv, NEW h \in Handlers, NEW t \in Targets, NodePublishVolume(h, t)
  PROVE  NodeInv'
<1>1. /\ handler' = [handler EXCEPT ![h] = [pc |-> "mkdir", target |-> t, heard |-> TRUE]]
      /\ kubelet[t] \in {"unborn", "publishing", "published"}
      /\ \/ kubelet' = [kubelet EXCEPT ![t] = "publishing"] /\ kubelet[t] # "published"
         \/ kubelet[t] = "published" /\ kubelet' = [kubelet EXCEPT ![t] = "published"]
      /\ TargetVolume[t] \in born
      /\ UNCHANGED <<hostVars, plugin, csiSock, born, histVars, faults>>
  BY DEF NodePublishVolume, Begin, histVars
<1>2. [pc |-> "mkdir", target |-> t, heard |-> TRUE] \in Call
  BY DEF Call
<1>3. NodeTypeOK'
  BY <1>1, <1>2 DEF NodeTypeOK, hostVars, histVars, Life
<1>4. PublishTimely' /\ UnpublishAsked' /\ EmptiesOwn' /\ UnpublishedClean'
  BY <1>1 DEF NodeTypeOK, hostVars, histVars, PublishTimely, UnpublishAsked, EmptiesOwn,
              UnpublishedClean, Disturbed
<1>5. StackNoted' /\ AskedIsBorn' /\ SocketThere' /\ PublishedReachable'
  BY <1>1 DEF NodeTypeOK, hostVars, histVars, StackNoted, AskedIsBorn, SocketThere,
              PublishedReachable, Disturbed
<1>. QED  BY <1>3, <1>4, <1>5

LEMMA InvUnpublish ==
  ASSUME NodeInv, NEW h \in Handlers, NEW t \in Targets, NodeUnpublishVolume(h, t)
  PROVE  NodeInv'
<1>1. /\ handler' = [handler EXCEPT ![h] = [pc |-> "unmount", target |-> t, heard |-> TRUE]]
      /\ kubelet[t] # "unborn"
      /\ \/ kubelet' = [kubelet EXCEPT ![t] = "unpublishing"] /\ kubelet[t] # "unpublished"
         \/ kubelet[t] = "unpublished" /\ kubelet' = [kubelet EXCEPT ![t] = "unpublished"]
      /\ hasty' = IF Late(t) \cap Publishing(t) = {} THEN hasty ELSE hasty \cup {t}
      /\ handler[h] = NoCall /\ \A g \in On(t) : ~handler[g].heard
      /\ UNCHANGED <<hostVars, plugin, csiSock, born, stacked, lost, faults>>
  BY DEF NodeUnpublishVolume, UnpublishFrom, Begin
<1>2. [pc |-> "unmount", target |-> t, heard |-> TRUE] \in Call
  BY DEF Call
<1>3. NodeTypeOK'
  BY <1>1, <1>2 DEF NodeTypeOK, hostVars, Life
<1>4. ASSUME NEW g \in Handlers, handler[g].pc \in {"mkdir", "mount"}, handler[g].target = t
      PROVE  t \in hasty'
  BY <1>1, <1>4 DEF Late, Publishing, On
<1>5. PublishTimely' /\ UnpublishAsked' /\ UnpublishedClean'
  BY <1>1, <1>4 DEF NodeTypeOK, hostVars, PublishTimely, UnpublishAsked, UnpublishedClean
<1>6. Disturbed \subseteq Disturbed'
  BY <1>1, DisturbedStays
<1>7. EmptiesOwn' /\ SocketThere'
  BY <1>1, <1>6 DEF NodeTypeOK, hostVars, EmptiesOwn, SocketThere
<1>8. StackNoted' /\ AskedIsBorn' /\ PublishedReachable'
  BY <1>1, <1>6 DEF NodeTypeOK, hostVars, StackNoted, AskedIsBorn, PublishedReachable
<1>. QED  BY <1>3, <1>5, <1>7, <1>8

-----------------------------------------------------------------------------
(* A handler that returns, with an error or what it tells the kubelet.     *)
LEMMA ReturnEffect ==
  ASSUME NodeInv, NEW h \in Handlers, NEW told \in {"error", "published", "unpublished"},
         Return(h, told)
  PROVE  /\ handler' = [handler EXCEPT ![h] = NoCall]
         /\ \/ kubelet' = kubelet
            \/ /\ told # "error"
               /\ kubelet' = [kubelet EXCEPT ![handler[h].target] = told]
               /\ told = "published" => kubelet[handler[h].target] = "publishing"
  BY DEF Return

LEMMA HandlersKept ==
  ASSUME NodeInv, NEW h \in Handlers, handler' = [handler EXCEPT ![h] = NoCall]
  PROVE  /\ handler' \in [Handlers -> Call]
         /\ \A g \in Handlers : handler'[g].pc # "idle" => g # h /\ handler'[g] = handler[g]
  BY DEF NodeTypeOK, NoCall, Call

LEMMA GotoEffect ==
  ASSUME NodeInv, NEW h \in Handlers, NEW pc \in {"mount", "removeAll"}, Goto(h, pc)
  PROVE  /\ handler' \in [Handlers -> Call]
         /\ handler'[h].pc = pc /\ handler'[h].target = handler[h].target
         /\ \A g \in Handlers \ {h} : handler'[g] = handler[g]
  BY DEF Goto, NodeTypeOK, Call

(* A handler that ends with an error and has changed nothing.              *)
LEMMA InvFailed ==
  ASSUME NodeInv, NEW h \in Handlers, ReturnError(h), faults' \in 0..MaxFaults,
         UNCHANGED <<hostVars, plugin, csiSock, born, histVars>>
  PROVE  NodeInv'
<1>1. handler' = [handler EXCEPT ![h] = NoCall] /\ kubelet' = kubelet
  BY DEF ReturnError, Return
<1>2. /\ handler' \in [Handlers -> Call]
      /\ \A g \in Handlers : handler'[g].pc # "idle" => g # h /\ handler'[g] = handler[g]
  BY <1>1, HandlersKept
<1>3. NodeTypeOK'
  BY <1>1, <1>2 DEF NodeTypeOK, hostVars, histVars
<1>4. PublishTimely' /\ UnpublishAsked' /\ EmptiesOwn'
  BY <1>1, <1>2 DEF PublishTimely, UnpublishAsked, EmptiesOwn, Disturbed, hostVars, histVars
<1>5. StackNoted' /\ AskedIsBorn' /\ SocketThere' /\ PublishedReachable' /\ UnpublishedClean'
  BY <1>1 DEF hostVars, histVars, StackNoted, AskedIsBorn, SocketThere,
              PublishedReachable, UnpublishedClean, Disturbed
<1>. QED  BY <1>3, <1>4, <1>5

LEMMA InvMkdirAll ==
  ASSUME NodeInv, NEW h \in Handlers, MkdirAll(h)
  PROVE  NodeInv'
<1>. DEFINE t == handler[h].target
<1>1. faults' \in 0..MaxFaults
  BY FaultsType DEF MkdirAll
<1>2. CASE ReturnError(h) /\ UNCHANGED targetDirs
  BY <1>1, <1>2, InvFailed DEF MkdirAll, hostVars
<1>3. CASE targetDirs' = targetDirs \cup {t} /\ Goto(h, "mount") /\ UNCHANGED kubelet
  <2>1. /\ t \in Targets /\ handler[h].pc = "mkdir"
        /\ UNCHANGED <<depth, socketDirs, vhostSocks, plugin, csiSock, born, histVars>>
    BY DEF MkdirAll, NodeTypeOK
  <2>2. /\ handler' \in [Handlers -> Call]
        /\ handler'[h].pc = "mount" /\ handler'[h].target = t
        /\ \A g \in Handlers \ {h} : handler'[g] = handler[g]
    BY <1>3, GotoEffect
  <2>3. NodeTypeOK'
    BY <1>1, <1>3, <2>1, <2>2 DEF NodeTypeOK, histVars
  <2>4. PublishTimely' /\ UnpublishAsked' /\ EmptiesOwn'
    BY <1>3, <2>1, <2>2 DEF PublishTimely, UnpublishAsked, EmptiesOwn, Disturbed, histVars
  <2>5. StackNoted' /\ AskedIsBorn' /\ SocketThere' /\ PublishedReachable'
    BY <1>3, <2>1 DEF StackNoted, AskedIsBorn, SocketThere, PublishedReachable, Disturbed, histVars
  <2>6. UnpublishedClean'
    BY <1>3, <2>1 DEF UnpublishedClean, PublishTimely, histVars
  <2>. QED  BY <2>3, <2>4, <2>5, <2>6
<1>. QED  BY <1>2, <1>3 DEF MkdirAll

LEMMA InvMount ==
  ASSUME NodeInv, NEW h \in Handlers, Mount(h)
  PROVE  NodeInv'
<1>1. faults' \in 0..MaxFaults
  BY FaultsType DEF Mount
<1>2. CASE ReturnError(h) /\ UNCHANGED <<depth, stacked>>
  BY <1>1, <1>2, InvFailed DEF Mount, hostVars, histVars
<1>. PICK t \in Targets : t = handler[h].target
  BY DEF Mount, NodeTypeOK
<1>3. CASE /\ CanMount(t) /\ Return(h, "published")
           /\ depth' = [depth EXCEPT ![t] = @ + 1]
           /\ stacked' = IF depth[t] = 0 THEN stacked ELSE stacked \cup {TargetVolume[t]}
  <2>1. /\ handler[h].pc = "mount"
        /\ UNCHANGED <<targetDirs, socketDirs, vhostSocks, plugin, csiSock, born, hasty, lost>>
    BY DEF Mount
  <2>2. /\ handler' = [handler EXCEPT ![h] = NoCall]
        /\ \/ kubelet' = kubelet
           \/ kubelet[t] = "publishing" /\ kubelet' = [kubelet EXCEPT ![t] = "published"]
    BY <1>3, ReturnEffect
  <2>3. /\ handler' \in [Handlers -> Call]
        /\ \A g \in Handlers : handler'[g].pc # "idle" => g # h /\ handler'[g] = handler[g]
    BY <2>2, HandlersKept
  <2>4. /\ depth' \in [Targets -> Nat] /\ depth'[t] > 0 /\ depth'[t] = depth[t] + 1
        /\ \A u \in Targets \ {t} : depth'[u] = depth[u]
    BY <1>3 DEF NodeTypeOK
  <2>5. Disturbed \subseteq Disturbed'
    BY <1>3, <2>1, DisturbedStays
  <2>6. NodeTypeOK'
    BY <1>1, <1>3, <2>1, <2>2, <2>3, <2>4, VolType DEF NodeTypeOK, Life
  <2>7. PublishTimely' /\ UnpublishAsked'
    BY <1>3, <2>1, <2>2, <2>3 DEF NodeTypeOK, PublishTimely, UnpublishAsked
  <2>8. EmptiesOwn'
    <3>1. ASSUME NEW g \in Handlers, handler[g].pc = "removeAll", handler[g].target = t
          PROVE  Vol(t) \in Disturbed'
      BY <1>3, <2>1, <3>1 DEF PublishTimely, UnpublishAsked, Disturbed
    <3>. QED  BY <1>3, <2>3, <2>4, <2>5, <3>1 DEF NodeTypeOK, EmptiesOwn
  <2>9. StackNoted' /\ AskedIsBorn' /\ SocketThere'
    BY <1>3, <2>1, <2>2, <2>4, <2>5 DEF NodeTypeOK, StackNoted, AskedIsBorn, SocketThere
  <2>10. PublishedReachable'
    BY <1>3, <2>1, <2>2, <2>4, <2>5 DEF NodeTypeOK, PublishedReachable, SocketThere, CanMount
  <2>11. UnpublishedClean'
    BY <1>3, <2>1, <2>2, <2>4 DEF NodeTypeOK, UnpublishedClean, PublishTimely
  <2>. QED  BY <2>6, <2>7, <2>8, <2>9, <2>10, <2>11
<1>. QED  BY <1>2, <1>3 DEF Mount, Granted

LEMMA InvUnmount ==
  ASSUME NodeInv, NEW h \in Handlers, Unmount(h)
  PROVE  NodeInv'
<1>1. faults' \in 0..MaxFaults
  BY FaultsType DEF Unmount
<1>2. CASE ReturnError(h) /\ UNCHANGED depth
  BY <1>1, <1>2, InvFailed DEF Unmount, hostVars
<1>. PICK t \in Targets : t = handler[h].target
  BY DEF Unmount, NodeTypeOK
<1>3. CASE depth' = Popped(t) /\ Goto(h, "removeAll") /\ UNCHANGED kubelet
  <2>1. /\ handler[h].pc = "unmount" /\ kubelet[t] \in {"unpublishing", "unpublished"}
        /\ UNCHANGED <<targetDirs, socketDirs, vhostSocks, plugin, csiSock, born, histVars>>
    BY DEF Unmount, UnpublishAsked
  <2>2. /\ handler' \in [Handlers -> Call]
        /\ handler'[h].pc = "removeAll" /\ handler'[h].target = t
        /\ \A g \in Handlers \ {h} : handler'[g] = handler[g]
    BY <1>3, GotoEffect
  <2>3. /\ depth' \in [Targets -> Nat]
        /\ depth'[t] > 0 => depth[t] > 1
        /\ depth[t] = 0 => depth'[t] = 0
        /\ \A u \in Targets : depth'[u] > 0 => depth[u] > 0
        /\ \A u \in Targets : depth'[u] > 1 => depth[u] > 1
        /\ \A u \in Targets \ {t} : depth'[u] = depth[u]
    BY <1>3 DEF NodeTypeOK, Popped
  <2>4. NodeTypeOK'
    BY <1>1, <1>3, <2>1, <2>2, <2>3 DEF NodeTypeOK, histVars
  <2>5. PublishTimely' /\ UnpublishAsked'
    BY <1>3, <2>1, <2>2 DEF PublishTimely, UnpublishAsked, histVars
  <2>6. EmptiesOwn'
    BY <2>1, <2>2, <2>3 DEF NodeTypeOK, EmptiesOwn, StackNoted, Disturbed, histVars
  <2>7. StackNoted' /\ AskedIsBorn' /\ SocketThere'
    BY <1>3, <2>1, <2>3 DEF StackNoted, AskedIsBorn, SocketThere, Disturbed, histVars
  <2>8. PublishedReachable' /\ UnpublishedClean'
    BY <1>3, <2>1, <2>3 DEF PublishedReachable, UnpublishedClean, Disturbed, histVars
  <2>. QED  BY <2>4, <2>5, <2>6, <2>7, <2>8
<1>. QED  BY <1>2, <1>3 DEF Unmount

LEMMA InvRemoveAll ==
  ASSUME NodeInv, NEW h \in Handlers, RemoveAll(h)
  PROVE  NodeInv'
<1>1. faults' \in 0..MaxFaults
  BY FaultsType DEF RemoveAll
<1>. PICK t \in Targets : t = handler[h].target
  BY DEF RemoveAll, NodeTypeOK
<1>2. /\ handler[h].pc = "removeAll" /\ kubelet[t] \in {"unpublishing", "unpublished"}
      /\ UNCHANGED <<depth, socketDirs, plugin, csiSock, born, histVars>>
  BY DEF RemoveAll, UnpublishAsked
<1>3. /\ handler' = [handler EXCEPT ![h] = NoCall]
      /\ handler' \in [Handlers -> Call]
      /\ \A g \in Handlers : handler'[g].pc # "idle" => g # h /\ handler'[g] = handler[g]
  BY HandlersKept DEF RemoveAll, Return, ReturnError
<1>4. PublishTimely /\ UnpublishAsked /\ EmptiesOwn
  OBVIOUS
<1>5. CASE depth[t] = 0 /\ targetDirs' = targetDirs \ {t} /\ UNCHANGED vhostSocks /\ Return(h, "unpublished")
  <2>1. kubelet' = kubelet \/ kubelet' = [kubelet EXCEPT ![t] = "unpublished"]
    BY <1>5, ReturnEffect
  <2>2. NodeTypeOK'
    BY <1>1, <1>2, <1>3, <1>5, <2>1 DEF NodeTypeOK, Life, histVars
  <2>3. PublishTimely' /\ UnpublishAsked' /\ EmptiesOwn'
    <3>1. ASSUME NEW g \in Handlers, handler[g].pc \in {"mkdir", "mount"}, handler[g].target = t
          PROVE  t \in hasty
      BY <1>2, <3>1 DEF PublishTimely
    <3>. QED
      BY <1>2, <1>3, <1>4, <2>1, <3>1
      DEF NodeTypeOK, PublishTimely, UnpublishAsked, EmptiesOwn, Disturbed, histVars
  <2>4. StackNoted' /\ AskedIsBorn' /\ SocketThere'
    BY <1>2, <1>5, <2>1 DEF NodeTypeOK, StackNoted, AskedIsBorn, SocketThere, Disturbed, histVars
  <2>5. PublishedReachable' /\ UnpublishedClean'
    BY <1>2, <1>5, <2>1 DEF NodeTypeOK, PublishedReachable, UnpublishedClean, Disturbed, histVars
  <2>. QED  BY <2>2, <2>3, <2>4, <2>5
<1>6. CASE /\ ReturnError(h) /\ UNCHANGED targetDirs
           /\ vhostSocks' = IF depth[t] = 0 THEN vhostSocks ELSE vhostSocks \ {TargetVolume[t]}
  <2>1. kubelet' = kubelet
    BY <1>6 DEF ReturnError, Return
  <2>2. NodeTypeOK'
    BY <1>1, <1>2, <1>3, <1>6, <2>1 DEF NodeTypeOK, histVars
  <2>3. PublishTimely' /\ UnpublishAsked' /\ EmptiesOwn'
    BY <1>2, <1>3, <1>4, <2>1 DEF PublishTimely, UnpublishAsked, EmptiesOwn, Disturbed, histVars
  <2>4. vhostSocks \subseteq vhostSocks' \cup Disturbed
    BY <1>2, <1>6 DEF NodeTypeOK, EmptiesOwn
  <2>5. Disturbed' = Disturbed
    BY <1>2 DEF Disturbed, histVars
  <2>6. StackNoted' /\ AskedIsBorn' /\ SocketThere' /\ PublishedReachable' /\ UnpublishedClean'
    BY <1>2, <1>6, <2>1, <2>4, <2>5
    DEF StackNoted, AskedIsBorn, SocketThere, PublishedReachable, UnpublishedClean, histVars
  <2>. QED  BY <2>2, <2>3, <2>6
<1>. QED  BY <1>5, <1>6 DEF RemoveAll, Removable, Granted

LEMMA InvGiveUp ==
  ASSUME NodeInv, NEW h \in Handlers, GiveUp(h)
  PROVE  NodeInv'
<1>1. faults' \in 0..MaxFaults
  BY FaultsType DEF GiveUp
<1>2. /\ handler' \in [Handlers -> Call]
      /\ \A g \in Handlers : handler'[g].pc = handler[g].pc /\ handler'[g].target = handler[g].target
      /\ UNCHANGED <<hostVars, plugin, csiSock, kubelet, born, histVars>>
  BY DEF GiveUp, NodeTypeOK, Call
<1>3. NodeTypeOK'
  BY <1>1, <1>2 DEF NodeTypeOK, hostVars, histVars
<1>4. PublishTimely' /\ UnpublishAsked' /\ EmptiesOwn'
  BY <1>2 DEF PublishTimely, UnpublishAsked, EmptiesOwn, Disturbed, hostVars, histVars
<1>. QED
  BY <1>2, <1>3, <1>4 DEF StackNoted, AskedIsBorn, SocketThere, PublishedReachable, UnpublishedClean,
                          Disturbed, hostVars, histVars

-----------------------------------------------------------------------------
(* The plugin process, the node and the server.                            *)

LEMMA NothingRuns ==
  ASSUME handler' = [h \in Handlers |-> NoCall]
  PROVE  /\ handler' \in [Handlers -> Call]
         /\ \A h \in Handlers : handler'[h].pc = "idle"
         /\ PublishTimely' /\ UnpublishAsked' /\ EmptiesOwn'
  BY DEF NoCall, Call, PublishTimely, UnpublishAsked, EmptiesOwn

LEMMA InvPlugin ==
  ASSUME NodeInv, RunPlugin \/ Listen \/ PluginCrash
  PROVE  NodeInv'
<1>1. /\ faults' \in 0..MaxFaults
      /\ plugin' \in {"down", "listening", "serving"} /\ csiSock' \in BOOLEAN
      /\ UNCHANGED <<hostVars, kubelet, born, histVars>>
  <2>1. CASE PluginCrash
    BY <2>1, FaultsType DEF PluginCrash, NodeTypeOK
  <2>2. CASE RunPlugin
    BY <2>2 DEF RunPlugin, NodeTypeOK, FreesSocket
  <2>3. CASE Listen
    BY <2>3 DEF Listen, NodeTypeOK
  <2>. QED  BY <2>1, <2>2, <2>3
<1>2. /\ handler' \in [Handlers -> Call]
      /\ \A h \in Handlers : handler'[h].pc # "idle" => handler'[h] = handler[h]
  BY NothingRuns DEF RunPlugin, Listen, PluginCrash, NodeTypeOK
<1>3. NodeTypeOK'
  BY <1>1, <1>2 DEF NodeTypeOK, hostVars, histVars
<1>4. PublishTimely' /\ UnpublishAsked' /\ EmptiesOwn'
  BY <1>1, <1>2 DEF PublishTimely, UnpublishAsked, EmptiesOwn, Disturbed, hostVars, histVars
<1>. QED
  BY <1>1, <1>3, <1>4 DEF StackNoted, AskedIsBorn, SocketThere, PublishedReachable, UnpublishedClean,
                          Disturbed, hostVars, histVars

LEMMA InvReboot ==
  ASSUME NodeInv, Reboot
  PROVE  NodeInv'
<1>1. faults' \in 0..MaxFaults
  BY FaultsType DEF Reboot
<1>2. /\ handler' = [h \in Handlers |-> NoCall]
      /\ depth' = [t \in Targets |-> 0] /\ plugin' = "down"
      /\ socketDirs' = {} /\ vhostSocks' = {} /\ lost' = born
      /\ UNCHANGED <<targetDirs, csiSock, kubelet, born, stacked, hasty>>
  BY DEF Reboot
<1>3. NodeTypeOK'
  BY <1>1, <1>2, NothingRuns DEF NodeTypeOK
<1>4. PublishTimely' /\ UnpublishAsked' /\ EmptiesOwn'
  BY <1>2, NothingRuns
<1>5. StackNoted' /\ AskedIsBorn' /\ SocketThere' /\ PublishedReachable' /\ UnpublishedClean'
  BY <1>2 DEF StackNoted, AskedIsBorn, SocketThere, PublishedReachable, UnpublishedClean, Disturbed
<1>. QED  BY <1>3, <1>4, <1>5

LEMMA InvExpose ==
  ASSUME NodeInv, NEW v \in TargetVolumes, ExposeVhostUser(v) \/ DeleteExporter(v)
  PROVE  NodeInv'
<1>1. /\ UNCHANGED <<targetDirs, depth, handler, plugin, csiSock, kubelet, histVars, faults>>
      /\ \/ /\ born' = born \cup {v}
            /\ socketDirs' = socketDirs \cup {v} /\ vhostSocks' = vhostSocks \cup {v}
         \/ /\ \A t \in Targets : TargetVolume[t] = v => kubelet[t] = "unpublished"
            /\ born' = born
            /\ socketDirs' = socketDirs \ {v} /\ vhostSocks' = vhostSocks \ {v}
  BY DEF ExposeVhostUser, DeleteExporter
<1>2. NodeTypeOK'
  BY <1>1 DEF NodeTypeOK, histVars
<1>3. PublishTimely' /\ UnpublishAsked' /\ EmptiesOwn' /\ StackNoted' /\ UnpublishedClean'
  BY <1>1 DEF PublishTimely, UnpublishAsked, EmptiesOwn, StackNoted, UnpublishedClean, Disturbed, histVars
<1>4. AskedIsBorn' /\ SocketThere' /\ PublishedReachable'
  BY <1>1 DEF AskedIsBorn, SocketThere, PublishedReachable, Disturbed, histVars
<1>. QED  BY <1>2, <1>3, <1>4

LEMMA NodeInductive == NodeSpec => []NodeInv
<1>1. NodeInit => NodeInv
  <2>. SUFFICES ASSUME NodeInit PROVE NodeInv
    OBVIOUS
  <2>1. NodeTypeOK
    <3>1. csiSock \in BOOLEAN
      BY Zenon DEF NodeInit
    <3>2. faults \in 0..MaxFaults /\ depth \in [Targets -> Nat]
      BY NodeAssumption DEF NodeInit
    <3>3. NoCall \in Call
      BY DEF NoCall, Call
    <3>. QED  BY <3>1, <3>2, <3>3 DEF NodeInit, NodeTypeOK, NoCall, Life
  <2>2. PublishTimely /\ UnpublishAsked /\ EmptiesOwn
    BY DEF NodeInit, NoCall, PublishTimely, UnpublishAsked, EmptiesOwn
  <2>. QED
    BY <2>1, <2>2 DEF NodeInit, StackNoted, AskedIsBorn, SocketThere, PublishedReachable, UnpublishedClean
<1>2. NodeInv /\ [NodeNext]_nodeVars => NodeInv'
  <2>. SUFFICES ASSUME NodeInv, [NodeNext]_nodeVars PROVE NodeInv'
    OBVIOUS
  <2>1. CASE UNCHANGED nodeVars
    BY <2>1 DEF nodeVars, hostVars, histVars, NodeTypeOK, PublishTimely, UnpublishAsked, EmptiesOwn,
               StackNoted, AskedIsBorn, SocketThere, PublishedReachable, UnpublishedClean, Disturbed
  <2>. HIDE DEF NodeInv
  <2>2. CASE NodeNext
    BY <2>2, InvPublish, InvUnpublish, InvMkdirAll, InvMount, InvUnmount, InvRemoveAll, InvGiveUp,
       InvPlugin, InvReboot, InvExpose
    DEF NodeNext, HandlerStep
  <2>. QED  BY <2>1, <2>2
<1>. QED  BY <1>1, <1>2, PTL DEF NodeSpec

(* However publishes and unpublishes of its volume's targets overlap, are  *)
(* given up or fail half-way, a pod keeps its socket, unless a mount was   *)
(* stacked, a publish overtaken by its unpublish, or the node rebooted.    *)
THEOREM PodsKeepTheirSocket == NodeSpec => []PublishedReachable
<1>1. NodeInv => PublishedReachable
  OBVIOUS
<1>. QED  BY <1>1, NodeInductive, PTL

(* What is reported unpublished is gone from the node.                     *)
THEOREM UnpublishedIsGone == NodeSpec => []UnpublishedClean
<1>1. NodeInv => UnpublishedClean
  OBVIOUS
<1>. QED  BY <1>1, NodeInductive, PTL

(* Types.                                                                  *)
THEOREM NodeTypeCorrect == NodeSpec => []NodeTypeOK
<1>1. NodeInv => NodeTypeOK
  OBVIOUS
<1>. QED  BY <1>1, NodeInductive, PTL
=============================================================================
