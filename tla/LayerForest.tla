---------------------------- MODULE LayerForest ----------------------------
(***************************************************************************)
(* What the server of pkg/qsd promises about the layers it keeps: a        *)
(* forest of copy-on-write layers in which a layer is added on top of one  *)
(* that is there, and goes only when nothing is on top of it.              *)
(***************************************************************************)
CONSTANTS Layer, None

VARIABLE parent  \* layer -> the layer below it, or None

Put(f, k, v) == [x \in DOMAIN f \cup {k} |-> IF x = k THEN v ELSE f[x]]
Drop(f, k)   == [x \in DOMAIN f \ {k} |-> f[x]]

IsLeaf(l)    == \A m \in DOMAIN parent : parent[m] # l

Init == parent = [l \in {} |-> None]

(* CreateVolume, CreateSnapshot.  An id whose delete failed half-way is    *)
(* taken over, as long as nothing is on top of it.                         *)
Add(l, p) ==
  /\ IsLeaf(l)
  /\ p \in DOMAIN parent \cup {None}
  /\ p # l
  /\ parent' = Put(parent, l, p)

(* One layer of a DeleteVolume, DeleteSnapshot or clean-up.                *)
RemoveLeaf(l) ==
  /\ l \in DOMAIN parent
  /\ IsLeaf(l)
  /\ parent' = Drop(parent, l)

(* The server restarted.                                                   *)
Lose == parent' = [l \in {} |-> None]

Next == \/ \E l \in Layer : RemoveLeaf(l) \/ \E p \in Layer \cup {None} : Add(l, p)
        \/ Lose

Spec == Init /\ [][Next]_parent

(* No overlay outlives the layer it reads through: every layer's parent is *)
(* in the forest (deleteImage, "Backing image not found").                 *)
Grounded == \A l \in DOMAIN parent : parent[l] \in DOMAIN parent \cup {None}

(* Every chain of backing layers ends: among any layers one is backed by   *)
(* none of the others.  The recursion of deleteNodeWithZeroReference stops.*)
Acyclic == \A S \in SUBSET DOMAIN parent : S # {} => \E l \in S : parent[l] \notin S
=============================================================================
