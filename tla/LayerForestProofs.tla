------------------------- MODULE LayerForestProofs -------------------------
(***************************************************************************)
(* Adding and removing at the leaves keeps a forest a forest.              *)
(***************************************************************************)
EXTENDS LayerForest, TLAPS

LEMMA AddKeeps ==
  ASSUME Grounded, Acyclic, NEW l \in Layer, NEW p \in Layer \cup {None}, Add(l, p)
  PROVE  Grounded' /\ Acyclic'
<1>1. /\ DOMAIN parent' = DOMAIN parent \cup {l}
      /\ parent'[l] = p
      /\ p \in DOMAIN parent \cup {None} /\ p # l
      /\ \A m \in DOMAIN parent \ {l} : parent'[m] = parent[m]
      /\ \A m \in DOMAIN parent : parent[m] # l
  BY DEF Add, Put, IsLeaf
<1>2. Grounded'
  BY <1>1 DEF Grounded
<1>3. Acyclic'
  <2>. SUFFICES ASSUME NEW S \in SUBSET DOMAIN parent', S # {}
                PROVE  \E m \in S : parent'[m] \notin S
    BY DEF Acyclic
  <2>1. CASE S = {l}
    BY <1>1, <2>1
  <2>2. CASE S # {l}
    <3>1. S \ {l} \in SUBSET DOMAIN parent /\ S \ {l} # {}
      BY <1>1, <2>2
    <3>2. PICK m \in S \ {l} : parent[m] \notin S \ {l}
      BY <3>1 DEF Acyclic
    <3>3. m \in DOMAIN parent /\ parent[m] # l
      BY <1>1, <3>1
    <3>4. parent'[m] = parent[m] /\ parent[m] \notin S
      BY <1>1, <3>2, <3>3
    <3>. QED  BY <3>4
  <2>. QED  BY <2>1, <2>2
<1>. QED  BY <1>2, <1>3

LEMMA RemoveKeeps ==
  ASSUME Grounded, Acyclic, NEW l \in Layer, RemoveLeaf(l)
  PROVE  Grounded' /\ Acyclic'
<1>1. /\ DOMAIN parent' = DOMAIN parent \ {l}
      /\ \A m \in DOMAIN parent' : parent'[m] = parent[m]
      /\ \A m \in DOMAIN parent : parent[m] # l
  BY DEF RemoveLeaf, Drop, IsLeaf
<1>2. Grounded'
  BY <1>1 DEF Grounded
<1>3. Acyclic'
  <2>. SUFFICES ASSUME NEW S \in SUBSET DOMAIN parent', S # {}
                PROVE  \E m \in S : parent'[m] \notin S
    BY DEF Acyclic
  <2>1. PICK m \in S : parent[m] \notin S
    BY <1>1 DEF Acyclic
  <2>. QED  BY <1>1, <2>1
<1>. QED  BY <1>2, <1>3

(* Whatever is created and deleted, in any order: no layer loses the layer *)
(* it reads through, and no chain of backing layers closes on itself.      *)
THEOREM ForestStaysForest == Spec => [](Grounded /\ Acyclic)
<1>1. Init => Grounded /\ Acyclic
  BY DEF Init, Grounded, Acyclic
<1>2. Grounded /\ Acyclic /\ [Next]_parent => (Grounded /\ Acyclic)'
  <2>. SUFFICES ASSUME Grounded, Acyclic, [Next]_parent
                PROVE  Grounded' /\ Acyclic'
    OBVIOUS
  <2>1. CASE Lose
    BY <2>1 DEF Lose, Grounded, Acyclic
  <2>2. CASE UNCHANGED parent
    BY <2>2 DEF Grounded, Acyclic
  <2>. QED  BY <2>1, <2>2, AddKeeps, RemoveKeeps DEF Next
<1>. QED  BY <1>1, <1>2, PTL DEF Spec
=============================================================================
