------------------------------ MODULE Metadata ------------------------------
(***************************************************************************)
(* The metadata server of pkg/metadata: it records on which node a volume  *)
(* is, and its place among the layers, in the labels and annotations of    *)
(* the volume's PersistentVolume.  The API server is outside: it stores    *)
(* the objects, gives each update a new version and refuses one that was   *)
(* made from an older version.                                             *)
(***************************************************************************)
EXTENDS Naturals, FiniteSets

CONSTANTS IDs,         \* volumes, and the names of their PersistentVolumes
          Bases,       \* images a volume may be backed by
          Nodes,
          Callers,     \* AddMetadata handlers that can be in progress
          RefCounts,   \* reference counts a caller may record
          MaxParsed,   \* the largest that strconv.ParseInt(_, 10, 32) takes
          None,
          MaxVersion,  \* bound: updates of the API server's objects
          MaxFaults    \* bound: API calls that fail, or whose answer is lost

ASSUME MetadataAssumption ==
  /\ RefCounts \subseteq Nat /\ MaxParsed \in Nat
  /\ MaxVersion \in Nat /\ MaxFaults \in Nat

VARIABLES pvs,       \* id -> its PersistentVolume, or None
          version,   \* the last version the API server gave
          handler,   \* caller -> the AddMetadata it runs
          known,     \* id -> the metadata its callers may believe recorded
          faults
metaVars == <<pvs, version, handler, known, faults>>

Meta == [ID : IDs, Node : Nodes, BackingImageID : Bases \cup {None}, RefCount : RefCounts]

(* A PersistentVolume: its version, the label "node", whether it has labels*)
(* of others, and the annotations, from which the node is left out.        *)
Annotations == [ID : IDs, BackingImageID : Bases \cup {None}, RefCount : RefCounts]
PV == [version : 1..MaxVersion, node : Nodes \cup {None}, foreign : BOOLEAN,
       annotations : Annotations \cup {None}]

ASSUME NoneAssumption ==
  /\ None \notin IDs \cup Bases \cup Nodes
  /\ None \notin Meta \cup Annotations \cup PV

NoCall == [m |-> None, pv |-> None]

MetadataTypeOK ==
  /\ pvs \in [IDs -> PV \cup {None}]
  /\ version \in 0..MaxVersion
  /\ handler \in [Callers -> {NoCall} \cup [m : Meta, pv : PV]]
  /\ known \in [IDs -> SUBSET Meta]
  /\ \A i \in IDs : known[i] # {} => pvs[i] # None /\ pvs[i].node # None
  /\ faults \in 0..MaxFaults

MetadataInit ==
  /\ pvs = [i \in IDs |-> None] /\ version = 0
  /\ handler = [c \in Callers |-> NoCall]
  /\ known = [i \in IDs |-> {}]
  /\ faults = 0

Fault == faults < MaxFaults /\ faults' = faults + 1
Write(i, pv) ==
  /\ version < MaxVersion
  /\ version' = version + 1
  /\ pvs' = [pvs EXCEPT ![i] = [pv EXCEPT !.version = version + 1]]

-----------------------------------------------------------------------------
(* AddMetadata.                                                            *)

(* The object as the handler has changed its copy.  An update replaces the *)
(* whole object.                                                           *)
BadLabelled(pv, m) == [pv EXCEPT !.node = m.Node, !.foreign = FALSE]
Labelled(pv, m)    == IF pv.node = None THEN [pv EXCEPT !.node = m.Node] ELSE pv
Annotated(pv, m) ==
  [pv EXCEPT !.annotations = [ID |-> m.ID, BackingImageID |-> m.BackingImageID,
                              RefCount |-> m.RefCount]]

(* Get the object.  One labelled with another node ends the call with an   *)
(* error.                                                                  *)
BadMayRecord(pv, m) == TRUE
MayRecord(pv, m)    == pv.node \in {None, m.Node}
AddMetadata(c, m) ==
  /\ handler[c] = NoCall
  /\ IF pvs[m.ID] # None /\ MayRecord(pvs[m.ID], m)
     THEN handler' = [handler EXCEPT ![c] = [m |-> m, pv |-> pvs[m.ID]]]
     ELSE UNCHANGED handler
  /\ UNCHANGED <<pvs, version, known, faults>>

(* Update it, if it is still the one read.                                 *)
UpdateSucceeds(c) ==
  LET m == handler[c].m
      pv == handler[c].pv IN
  /\ handler[c] # NoCall /\ pvs[m.ID] = pv
  /\ Write(m.ID, Annotated(Labelled(pv, m), m))
  /\ \/ known' = [known EXCEPT ![m.ID] = {m}] /\ UNCHANGED faults
     \/ known' = [known EXCEPT ![m.ID] = @ \cup {m}] /\ Fault
  /\ handler' = [handler EXCEPT ![c] = NoCall]
UpdateFails(c) ==
  /\ handler[c] # NoCall
  /\ IF pvs[handler[c].m.ID] # handler[c].pv THEN UNCHANGED faults ELSE Fault
  /\ handler' = [handler EXCEPT ![c] = NoCall]
  /\ UNCHANGED <<pvs, version, known>>

-----------------------------------------------------------------------------
(* Others create and delete the object and put labels on it, one of which  *)
(* may be "node": anybody's notion of a node.                              *)

CreatePV(i, n) ==
  /\ pvs[i] = None
  /\ Write(i, [version |-> 1, node |-> n, foreign |-> FALSE, annotations |-> None])
  /\ UNCHANGED <<handler, known, faults>>
LabelPV(i) ==
  /\ pvs[i] # None /\ ~pvs[i].foreign
  /\ Write(i, [pvs[i] EXCEPT !.foreign = TRUE])
  /\ UNCHANGED <<handler, known, faults>>
DeletePV(i) ==
  /\ pvs[i] # None
  /\ pvs' = [pvs EXCEPT ![i] = None]
  /\ known' = [known EXCEPT ![i] = {}]
  /\ UNCHANGED <<version, handler, faults>>

MetadataNext ==
  \/ \E c \in Callers : \/ \E m \in Meta : AddMetadata(c, m)
                        \/ UpdateSucceeds(c) \/ UpdateFails(c)
  \/ \E i \in IDs : \/ \E n \in Nodes \cup {None} : CreatePV(i, n)
                    \/ LabelPV(i) \/ DeletePV(i)

MetadataSpec == MetadataInit /\ [][MetadataNext]_metaVars

-----------------------------------------------------------------------------
(* GetVolumes: the objects with the label of the node, parsed.  One without*)
(* the annotations, or with a count that does not parse, is passed over.   *)
BadParses(a) == a # None /\ a.BackingImageID # None /\ a.RefCount <= MaxParsed
Parses(a)    == a # None /\ a.RefCount <= MaxParsed
Volume(a, n) == [ID |-> a.ID, Node |-> n, BackingImageID |-> a.BackingImageID,
                 RefCount |-> a.RefCount]
GetVolumes(n) ==
  {Volume(pvs[i].annotations, n) :
     i \in {j \in IDs : pvs[j] # None /\ pvs[j].node = n /\ Parses(pvs[j].annotations)}}

Listed(i) == {m \in UNION {GetVolumes(n) : n \in Nodes} : m.ID = i}

(* A volume whose metadata was recorded is listed once, for its node, as it*)
(* was recorded last; the callers race, and answers get lost.  Only a count*)
(* beyond 32 bits is recorded and then not listed.                         *)
ListedAsRecorded ==
  \A i \in IDs :
    (\A m \in known[i] : m.RefCount <= MaxParsed) /\ known[i] # {} =>
      Cardinality(Listed(i)) = 1 /\ Listed(i) \subseteq known[i]

(* A PersistentVolume keeps its node, and no two callers record the volume *)
(* on two nodes, however their calls overlap.                              *)
NodeStays ==
  [][\A i \in IDs :
       pvs[i] # None /\ pvs'[i] # None =>
         /\ pvs[i].node # None => pvs'[i].node = pvs[i].node
         /\ \A m \in known[i], n \in known'[i] : m.Node = n.Node]_metaVars

(* The labels others put on the object survive the server's updates, also  *)
(* one that was put there after the server had read the object.            *)
LabelsOfOthersStay ==
  [][\A i \in IDs :
       pvs[i] # None /\ pvs'[i] # None /\ pvs[i].foreign => pvs'[i].foreign]_metaVars
=============================================================================
