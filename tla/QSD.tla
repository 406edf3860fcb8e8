-------------------------------- MODULE QSD --------------------------------
(***************************************************************************)
(* The block graph of the qemu-storage-daemon, as pkg/qsd drives it over   *)
(* QMP.  The daemon is not part of the repository: each operator below is  *)
(* the effect that the command issued in pkg/qsd/commands.go has on the    *)
(* graph, and Can... is the condition without which the daemon answers     *)
(* with an error and changes nothing.                                      *)
(***************************************************************************)

CONSTANTS NodeName,  \* the node names in use: "node-<QSDID>"
          None       \* no backing node

VARIABLES nodes,     \* node name -> the node it is backed by, or None
          exports    \* vhost-user export id -> the node it serves

graphVars == <<nodes, exports>>

(* A Go map, or the daemon's name table, with key k set, or dropped.       *)
Put(f, k, v) == [x \in DOMAIN f \cup {k} |-> IF x = k THEN v ELSE f[x]]
Drop(f, k)   == [x \in DOMAIN f \ {k} |-> f[x]]
Empty        == [x \in {} |-> x]

GraphTypeOK ==
  /\ DOMAIN nodes \subseteq NodeName
  /\ \A n \in DOMAIN nodes : nodes[n] \in NodeName \cup {None}
  /\ DOMAIN exports \subseteq NodeName
  /\ \A e \in DOMAIN exports : exports[e] \in NodeName

GraphInit ==
  /\ nodes = Empty
  /\ exports = Empty

(* A node is in use while another node is backed by it or it is exported.  *)
InUse(n) ==
  \/ \E m \in DOMAIN nodes : nodes[m] = n
  \/ \E e \in DOMAIN exports : exports[e] = n

(* blockdev-add: "Duplicate nodes with node-name=..." / "Cannot find       *)
(* device=... nor node-name=...".                                          *)
CanBlockdevAdd(n, b) ==
  /\ n \notin DOMAIN nodes
  /\ b # None => b \in DOMAIN nodes
BlockdevAdd(n, b) ==
  /\ nodes' = Put(nodes, n, b)
  /\ UNCHANGED exports

(* blockdev-snapshot: the overlay is put on top of the node, and whatever  *)
(* used the node, other overlays and exports alike, uses the overlay from  *)
(* then on.  Refused when the overlay is in use or already has a backing.  *)
CanBlockdevSnapshot(n, o) ==
  /\ n # o
  /\ {n, o} \subseteq DOMAIN nodes
  /\ nodes[o] = None
  /\ ~InUse(o)
BlockdevSnapshot(n, o) ==
  /\ nodes' = [m \in DOMAIN nodes |->
                 IF m = o THEN n ELSE IF nodes[m] = n THEN o ELSE nodes[m]]
  /\ exports' = [e \in DOMAIN exports |->
                   IF exports[e] = n THEN o ELSE exports[e]]

(* blockdev-del: "Node ... is in use".                                     *)
CanBlockdevDel(n) ==
  /\ n \in DOMAIN nodes
  /\ ~InUse(n)
BlockdevDel(n) ==
  /\ nodes' = Drop(nodes, n)
  /\ UNCHANGED exports

(* block-export-add: export ids are unique, the node must exist.           *)
CanBlockExportAdd(e, n) ==
  /\ e \notin DOMAIN exports
  /\ n \in DOMAIN nodes
BlockExportAdd(e, n) ==
  /\ exports' = Put(exports, e, n)
  /\ UNCHANGED nodes

CanBlockExportDel(e) == e \in DOMAIN exports
BlockExportDel(e) ==
  /\ exports' = Drop(exports, e)
  /\ UNCHANGED nodes

(* The daemon was restarted: it keeps nothing.                             *)
GraphReset ==
  /\ nodes' = Empty
  /\ exports' = Empty
=============================================================================
