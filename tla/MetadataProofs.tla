--------------------------- MODULE MetadataProofs ---------------------------
(***************************************************************************)
(* Theorems about Metadata, for every set of volumes, nodes and callers    *)
(* and any number of updates and failures.                                 *)
(*                                                                         *)
(* The inductive invariant MetaInv joins three things: what a caller may   *)
(* believe of a volume is for the node its object is labelled with; what   *)
(* the object says is one of the things a caller may believe; and an update*)
(* under way was checked against the label of the object it was made from. *)
(***************************************************************************)
EXTENDS Metadata, FiniteSetTheorems, TLAPS

Stored(i) == Volume(pvs[i].annotations, pvs[i].node)

Believed(i) ==
  /\ pvs[i] # None => (pvs[i].annotations = None) = (known[i] = {})
  /\ known[i] # {} => pvs[i].annotations.ID = i /\ Stored(i) \in known[i]
  /\ \A m \in known[i] : m.ID = i /\ m.Node = pvs[i].node

Checked(c) == handler[c] # NoCall => MayRecord(handler[c].pv, handler[c].m)

MetaInv ==
  /\ MetadataTypeOK
  /\ \A i \in IDs : Believed(i)
  /\ \A c \in Callers : Checked(c)

(* The fields of an object that an update has changed.                     *)
LEMMA Recorded ==
  ASSUME NEW m \in Meta, NEW pv \in PV, MayRecord(pv, m)
  PROVE  LET q == Annotated(Labelled(pv, m), m) IN
         /\ q \in PV
         /\ q.node = m.Node /\ q.foreign = pv.foreign
         /\ q.annotations # None /\ q.annotations.ID = m.ID
         /\ Volume(q.annotations, q.node) = m
<1>. DEFINE a == [ID |-> m.ID, BackingImageID |-> m.BackingImageID, RefCount |-> m.RefCount]
            l == Labelled(pv, m)
<1>1. a \in Annotations /\ a # None
  BY NoneAssumption DEF Meta, Annotations
<1>2. l \in PV /\ l.node = m.Node /\ l.foreign = pv.foreign /\ l.version = pv.version
  BY DEF Labelled, MayRecord, PV, Meta
<1>3. Volume(a, m.Node) = m
  BY DEF Volume, Meta
<1>. HIDE DEF l, a
<1>4. Annotated(l, m) = [l EXCEPT !.annotations = a]
  BY DEF Annotated, a
<1>5. /\ Annotated(l, m) \in PV
      /\ Annotated(l, m).node = m.Node
      /\ Annotated(l, m).foreign = pv.foreign
      /\ Annotated(l, m).annotations = a
  BY <1>1, <1>2, <1>4 DEF PV
<1>. QED  BY <1>1, <1>3, <1>5 DEF a, l

(* What an update of the API server stores.                                *)
LEMMA WriteEffect ==
  ASSUME MetadataTypeOK, NEW i \in IDs, NEW pv \in PV, Write(i, pv)
  PROVE  /\ version' \in 0..MaxVersion
         /\ pvs' \in [IDs -> PV \cup {None}]
         /\ \A j \in IDs \ {i} : pvs'[j] = pvs[j]
         /\ pvs'[i] \in PV /\ pvs'[i] # None
         /\ pvs'[i].node = pv.node /\ pvs'[i].foreign = pv.foreign
         /\ pvs'[i].annotations = pv.annotations
<1>. DEFINE q == [pv EXCEPT !.version = version + 1]
<1>1. version + 1 \in 1..MaxVersion
  BY MetadataAssumption DEF Write, MetadataTypeOK
<1>2. /\ q \in PV /\ q # None
      /\ q.node = pv.node /\ q.foreign = pv.foreign /\ q.annotations = pv.annotations
  BY <1>1, NoneAssumption DEF PV
<1>. HIDE DEF q
<1>3. pvs' = [pvs EXCEPT ![i] = q]
  BY DEF Write, q
<1>. QED  BY <1>1, <1>2, <1>3 DEF Write, MetadataTypeOK

LEMMA InvAddMetadata ==
  ASSUME MetaInv, NEW c \in Callers, NEW m \in Meta, AddMetadata(c, m)
  PROVE  MetaInv'
<1>1. m.ID \in IDs
  BY DEF Meta
<1>2. CASE UNCHANGED handler
  BY <1>2 DEF AddMetadata, MetaInv, MetadataTypeOK, Believed, Stored, Checked
<1>3. CASE /\ pvs[m.ID] # None /\ MayRecord(pvs[m.ID], m)
           /\ handler' = [handler EXCEPT ![c] = [m |-> m, pv |-> pvs[m.ID]]]
  <2>1. pvs[m.ID] \in PV
    BY <1>1, <1>3 DEF MetaInv, MetadataTypeOK
  <2>2. MetadataTypeOK'
    BY <1>3, <2>1 DEF AddMetadata, MetaInv, MetadataTypeOK
  <2>3. \A d \in Callers : Checked(d)'
    BY <1>3 DEF MetaInv, MetadataTypeOK, Checked
  <2>. QED  BY <2>2, <2>3 DEF AddMetadata, MetaInv, Believed, Stored
<1>. QED  BY <1>2, <1>3 DEF AddMetadata

LEMMA InvUpdateSucceeds ==
  ASSUME MetaInv, NEW c \in Callers, UpdateSucceeds(c)
  PROVE  MetaInv'
<1>1. PICK m \in Meta, pv \in PV :
        /\ m = handler[c].m /\ pv = handler[c].pv
        /\ pvs[m.ID] = pv /\ MayRecord(pv, m) /\ m.ID \in IDs
  BY DEF UpdateSucceeds, MetaInv, MetadataTypeOK, Checked, Meta
<1>. DEFINE q == Annotated(Labelled(pv, m), m)
<1>2. /\ q \in PV /\ q.node = m.Node
      /\ q.annotations # None /\ q.annotations.ID = m.ID /\ Volume(q.annotations, q.node) = m
  BY <1>1, Recorded
<1>3. Write(m.ID, q) /\ handler' = [handler EXCEPT ![c] = NoCall]
  BY <1>1 DEF UpdateSucceeds
<1>4. faults' \in 0..MaxFaults
  BY MetadataAssumption DEF UpdateSucceeds, Fault, MetaInv, MetadataTypeOK
<1>5. \E K : known' = [known EXCEPT ![m.ID] = K] /\ (K = {m} \/ K = known[m.ID] \cup {m})
  BY <1>1 DEF UpdateSucceeds
<1>. HIDE DEF q
<1>6. PICK K : known' = [known EXCEPT ![m.ID] = K] /\ (K = {m} \/ K = known[m.ID] \cup {m})
  BY <1>5
<1>7. \A n \in known[m.ID] : n \in Meta /\ n.ID = m.ID /\ n.Node = m.Node
  <2>1. MetadataTypeOK /\ Believed(m.ID)
    BY <1>1 DEF MetaInv
  <2>. QED  BY <1>1, <2>1 DEF MetadataTypeOK, Believed, MayRecord
<1>8. /\ version' \in 0..MaxVersion
      /\ pvs' \in [IDs -> PV \cup {None}]
      /\ \A j \in IDs \ {m.ID} : pvs'[j] = pvs[j]
      /\ pvs'[m.ID] # None /\ pvs'[m.ID].node = m.Node
      /\ pvs'[m.ID].annotations = q.annotations
  BY <1>1, <1>2, <1>3, WriteEffect DEF MetaInv
<1>9. /\ known' \in [IDs -> SUBSET Meta]
      /\ \A i \in IDs : (known'[i] # {} => pvs'[i] # None /\ pvs'[i].node # None) /\ Believed(i)'
  <2>1. K \subseteq Meta /\ m \in K /\ \A n \in K : n.ID = m.ID /\ n.Node = m.Node
    BY <1>1, <1>6, <1>7 DEF MetaInv, MetadataTypeOK
  <2>2. known' \in [IDs -> SUBSET Meta] /\ known'[m.ID] = K /\ \A i \in IDs \ {m.ID} : known'[i] = known[i]
    BY <1>1, <1>6, <2>1 DEF MetaInv, MetadataTypeOK
  <2>3. Believed(m.ID)' /\ m.Node # None
    <3>1. pvs'[m.ID].annotations # None /\ pvs'[m.ID].annotations.ID = m.ID
      BY <1>2, <1>8
    <3>2. Volume(pvs'[m.ID].annotations, pvs'[m.ID].node) = m
      BY <1>2, <1>8
    <3>3. m.Node # None
      BY <1>1, NoneAssumption DEF Meta
    <3>. QED  BY <1>8, <2>1, <2>2, <3>1, <3>2, <3>3 DEF Believed, Stored
  <2>4. \A i \in IDs \ {m.ID} : (known'[i] # {} => pvs'[i] # None /\ pvs'[i].node # None) /\ Believed(i)'
    BY <1>8, <2>2 DEF MetaInv, MetadataTypeOK, Believed, Stored
  <2>5. known'[m.ID] # {} => pvs'[m.ID] # None /\ pvs'[m.ID].node # None
    BY <1>8, <2>3
  <2>. QED  BY <2>2, <2>3, <2>4, <2>5
<1>10. handler' \in [Callers -> {NoCall} \cup [m : Meta, pv : PV]] /\ \A d \in Callers : Checked(d)'
  BY <1>3 DEF MetaInv, MetadataTypeOK, Checked
<1>. QED  BY <1>4, <1>8, <1>9, <1>10 DEF MetaInv, MetadataTypeOK

LEMMA InvUpdateFails ==
  ASSUME MetaInv, NEW c \in Callers, UpdateFails(c)
  PROVE  MetaInv'
<1>1. faults' \in 0..MaxFaults
  BY MetadataAssumption DEF UpdateFails, Fault, MetaInv, MetadataTypeOK
<1>2. handler' \in [Callers -> {NoCall} \cup [m : Meta, pv : PV]] /\ \A d \in Callers : Checked(d)'
  BY DEF UpdateFails, MetaInv, MetadataTypeOK, Checked
<1>. QED  BY <1>1, <1>2 DEF UpdateFails, MetaInv, MetadataTypeOK, Believed, Stored

(* The steps of others leave what is believed of every object true.        *)
LEMMA InvCreatePV ==
  ASSUME MetaInv, NEW i \in IDs, NEW n \in Nodes \cup {None}, CreatePV(i, n)
  PROVE  MetaInv'
<1>. DEFINE pv == [version |-> 1, node |-> n, foreign |-> FALSE, annotations |-> None]
<1>1. 1 \in 1..MaxVersion
  BY MetadataAssumption DEF CreatePV, Write, MetaInv, MetadataTypeOK
<1>2. pv \in PV /\ pv.annotations = None
  BY <1>1 DEF PV
<1>3. Write(i, pv) /\ pvs[i] = None /\ UNCHANGED <<handler, known, faults>>
  BY DEF CreatePV
<1>. HIDE DEF pv
<1>4. /\ version' \in 0..MaxVersion
      /\ pvs' \in [IDs -> PV \cup {None}]
      /\ \A j \in IDs \ {i} : pvs'[j] = pvs[j]
      /\ pvs'[i] # None /\ pvs'[i].annotations = None
  BY <1>2, <1>3, WriteEffect DEF MetaInv
<1>5. known[i] = {}
  BY <1>3 DEF MetaInv, MetadataTypeOK
<1>6. \A j \in IDs : (known'[j] # {} => pvs'[j] # None /\ pvs'[j].node # None) /\ Believed(j)'
  BY <1>3, <1>4, <1>5 DEF MetaInv, MetadataTypeOK, Believed, Stored
<1>. QED  BY <1>3, <1>4, <1>6 DEF MetaInv, MetadataTypeOK, Checked

LEMMA InvLabelPV ==
  ASSUME MetaInv, NEW i \in IDs, LabelPV(i)
  PROVE  MetaInv'
<1>. DEFINE pv == [pvs[i] EXCEPT !.foreign = TRUE]
<1>1. pv \in PV /\ pv.annotations = pvs[i].annotations /\ pv.node = pvs[i].node
  BY DEF PV, LabelPV, MetaInv, MetadataTypeOK
<1>2. Write(i, pv) /\ pvs[i] # None /\ UNCHANGED <<handler, known, faults>>
  BY DEF LabelPV
<1>. HIDE DEF pv
<1>3. /\ version' \in 0..MaxVersion
      /\ pvs' \in [IDs -> PV \cup {None}]
      /\ \A j \in IDs \ {i} : pvs'[j] = pvs[j]
      /\ pvs'[i] # None /\ pvs'[i].annotations = pvs[i].annotations /\ pvs'[i].node = pvs[i].node
  BY <1>1, <1>2, WriteEffect DEF MetaInv
<1>4. \A j \in IDs : (known'[j] # {} => pvs'[j] # None /\ pvs'[j].node # None) /\ Believed(j)'
  BY <1>2, <1>3 DEF MetaInv, MetadataTypeOK, Believed, Stored
<1>. QED  BY <1>2, <1>3, <1>4 DEF MetaInv, MetadataTypeOK, Checked

LEMMA InvDeletePV ==
  ASSUME MetaInv, NEW i \in IDs, DeletePV(i)
  PROVE  MetaInv'
<1>1. \A j \in IDs : (known'[j] # {} => pvs'[j] # None /\ pvs'[j].node # None) /\ Believed(j)'
  BY DEF DeletePV, MetaInv, MetadataTypeOK, Believed, Stored
<1>. QED  BY <1>1 DEF DeletePV, MetaInv, MetadataTypeOK, Checked

LEMMA MetaInductive == MetadataSpec => []MetaInv
<1>1. MetadataInit => MetaInv
  BY MetadataAssumption DEF MetadataInit, MetaInv, MetadataTypeOK, Believed, Checked
<1>2. MetaInv /\ [MetadataNext]_metaVars => MetaInv'
  <2>1. CASE MetadataNext
    BY <2>1, InvAddMetadata, InvUpdateSucceeds, InvUpdateFails, InvCreatePV, InvLabelPV, InvDeletePV
    DEF MetadataNext
  <2>2. CASE UNCHANGED metaVars
    BY <2>2 DEF metaVars, MetaInv, MetadataTypeOK, Believed, Stored, Checked
  <2>. QED  BY <2>1, <2>2
<1>. QED  BY <1>1, <1>2, PTL DEF MetadataSpec

(* In every reachable state every variable has its type: what a caller may *)
(* believe recorded has an object that is labelled with a node.            *)
THEOREM MetadataTypeCorrect == MetadataSpec => []MetadataTypeOK
<1>1. MetaInv => MetadataTypeOK
  BY DEF MetaInv
<1>. QED  BY <1>1, MetaInductive, PTL

-----------------------------------------------------------------------------
(* Whatever callers race and whatever answers are lost: GetVolumes lists a *)
(* recorded volume exactly once, on its node, with metadata a caller may   *)
(* believe, provided their counts fit 32 bits.                             *)
THEOREM RecordedIsListed == MetadataSpec => []ListedAsRecorded
<1>1. MetaInv => ListedAsRecorded
  <2>. SUFFICES ASSUME MetaInv, NEW i \in IDs, known[i] # {},
                       \A m \in known[i] : m.RefCount <= MaxParsed
                PROVE  Cardinality(Listed(i)) = 1 /\ Listed(i) \subseteq known[i]
    BY DEF ListedAsRecorded
  <2>1. /\ pvs[i] # None /\ pvs[i].node \in Nodes
        /\ pvs[i].annotations # None /\ pvs[i].annotations.ID = i
        /\ Stored(i) \in known[i]
    BY NoneAssumption DEF MetaInv, MetadataTypeOK, Believed, PV
  <2>2. Stored(i).ID = i /\ Stored(i).RefCount = pvs[i].annotations.RefCount
    BY <2>1 DEF Stored, Volume
  <2>3. Stored(i) \in GetVolumes(pvs[i].node)
    BY <2>1, <2>2 DEF GetVolumes, Parses, Stored
  <2>4. ASSUME NEW n \in Nodes, NEW m \in GetVolumes(n), m.ID = i
        PROVE  m = Stored(i)
    <3>1. PICK j \in IDs : /\ pvs[j] # None /\ pvs[j].node = n /\ pvs[j].annotations # None
                          /\ m = Volume(pvs[j].annotations, n)
      BY DEF GetVolumes, Parses
    <3>2. pvs[j].annotations.ID = j
      BY <3>1 DEF MetaInv, Believed
    <3>. QED  BY <2>4, <3>1, <3>2 DEF Volume, Stored
  <2>5. Listed(i) = {Stored(i)}
    BY <2>1, <2>2, <2>3, <2>4 DEF Listed
  <2>. QED  BY <2>1, <2>5, FS_Singleton
<1>. QED  BY <1>1, MetaInductive, PTL

(* A volume stays on the node it was recorded on, whoever records it again.*)
THEOREM VolumesStayOnTheirNode == MetadataSpec => NodeStays
<1>1. MetaInv /\ MetaInv' /\ MetadataNext =>
        \A i \in IDs :
          pvs[i] # None /\ pvs'[i] # None =>
            /\ pvs[i].node # None => pvs'[i].node = pvs[i].node
            /\ \A m \in known[i], n \in known'[i] : m.Node = n.Node
  <2>. SUFFICES ASSUME MetaInv, MetaInv', MetadataNext, NEW i \in IDs,
                       pvs[i] # None, pvs'[i] # None
                PROVE  /\ pvs[i].node # None => pvs'[i].node = pvs[i].node
                       /\ \A m \in known[i], n \in known'[i] : m.Node = n.Node
    OBVIOUS
  <2>1. pvs[i].node # None => pvs'[i].node = pvs[i].node
    <3>1. ASSUME NEW j \in IDs, NEW pv \in PV, Write(j, pv),
                 pvs[j] = None \/ pvs[j].node = None \/ pv.node = pvs[j].node
          PROVE  pvs[i].node # None => pvs'[i].node = pvs[i].node
      BY <3>1, WriteEffect DEF MetaInv
    <3>2. ASSUME NEW c \in Callers, UpdateSucceeds(c)
          PROVE  pvs[i].node # None => pvs'[i].node = pvs[i].node
      <4>. DEFINE m == handler[c].m
                  pv == handler[c].pv
      <4>1. m \in Meta /\ pv \in PV /\ pvs[m.ID] = pv /\ MayRecord(pv, m) /\ m.ID \in IDs
        BY <3>2 DEF UpdateSucceeds, MetaInv, MetadataTypeOK, Checked, Meta
      <4>2. Write(m.ID, Annotated(Labelled(pv, m), m))
        BY <3>2 DEF UpdateSucceeds
      <4>. HIDE DEF m, pv
      <4>3. /\ Annotated(Labelled(pv, m), m) \in PV
            /\ Annotated(Labelled(pv, m), m).node = m.Node
        BY <4>1, Recorded
      <4>. QED  BY <3>1, <4>1, <4>2, <4>3 DEF MayRecord
    <3>3. ASSUME NEW j \in IDs, NEW n \in Nodes \cup {None}, CreatePV(j, n)
          PROVE  UNCHANGED pvs[i]
      BY <3>3 DEF CreatePV, Write, MetaInv, MetadataTypeOK
    <3>4. ASSUME NEW j \in IDs, LabelPV(j)
          PROVE  pvs[i].node # None => pvs'[i].node = pvs[i].node
      <4>1. [pvs[j] EXCEPT !.foreign = TRUE] \in PV /\ [pvs[j] EXCEPT !.foreign = TRUE].node = pvs[j].node
        BY <3>4 DEF LabelPV, MetaInv, MetadataTypeOK, PV
      <4>. QED  BY <3>1, <3>4, <4>1 DEF LabelPV
    <3>. QED
      BY <3>2, <3>3, <3>4 DEF MetadataNext, AddMetadata, UpdateFails, DeletePV, MetaInv, MetadataTypeOK
  <2>2. ASSUME NEW m \in known[i], NEW n \in known'[i]
        PROVE  m.Node = n.Node
    BY <2>1 DEF MetaInv, MetadataTypeOK, Believed
  <2>. QED  BY <2>1, <2>2
<1>. QED  BY <1>1, MetaInductive, PTL DEF MetadataSpec, NodeStays

(* An update never takes back a label that others have put on the object,  *)
(* before or after the server read it.                                     *)
THEOREM LabelsSurvive == MetadataSpec => LabelsOfOthersStay
<1>1. MetaInv /\ MetadataNext =>
        \A i \in IDs : pvs[i] # None /\ pvs'[i] # None /\ pvs[i].foreign => pvs'[i].foreign
  <2>. SUFFICES ASSUME MetaInv, MetadataNext, NEW i \in IDs,
                       pvs[i] # None, pvs'[i] # None, pvs[i].foreign
                PROVE  pvs'[i].foreign
    OBVIOUS
  <2>1. ASSUME NEW j \in IDs, NEW pv \in PV, Write(j, pv),
               pvs[j] = None \/ (pvs[j].foreign => pv.foreign)
        PROVE  pvs'[i].foreign
    BY <2>1, WriteEffect DEF MetaInv
  <2>2. ASSUME NEW c \in Callers, UpdateSucceeds(c)
        PROVE  pvs'[i].foreign
    <3>1. PICK m \in Meta, pv \in PV :
            /\ pvs[m.ID] = pv /\ MayRecord(pv, m) /\ m.ID \in IDs
            /\ Write(m.ID, Annotated(Labelled(pv, m), m))
      BY <2>2 DEF UpdateSucceeds, MetaInv, MetadataTypeOK, Checked, Meta
    <3>2. /\ Annotated(Labelled(pv, m), m) \in PV
          /\ Annotated(Labelled(pv, m), m).foreign = pv.foreign
      BY <3>1, Recorded
    <3>. QED  BY <2>1, <3>1, <3>2
  <2>3. ASSUME NEW j \in IDs, NEW n \in Nodes \cup {None}, CreatePV(j, n)
        PROVE  UNCHANGED pvs[i]
    BY <2>3 DEF CreatePV, Write, MetaInv, MetadataTypeOK
  <2>4. ASSUME NEW j \in IDs, LabelPV(j)
        PROVE  pvs'[i].foreign
    <3>1. [pvs[j] EXCEPT !.foreign = TRUE] \in PV /\ [pvs[j] EXCEPT !.foreign = TRUE].foreign
      BY <2>4 DEF LabelPV, MetaInv, MetadataTypeOK, PV
    <3>. QED  BY <2>1, <2>4, <3>1 DEF LabelPV
  <2>. QED
    BY <2>2, <2>3, <2>4 DEF MetadataNext, AddMetadata, UpdateFails, DeletePV, MetaInv, MetadataTypeOK
<1>. QED  BY <1>1, MetaInductive, PTL DEF MetadataSpec, LabelsOfOthersStay
=============================================================================
