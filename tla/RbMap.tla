-------------------------------- MODULE RbMap --------------------------------
(***************************************************************************)
(* win_lisk/src/lisk_map.c: an ordered map in a red-black tree that keeps  *)
(* its smallest and largest node.                                          *)
(*                                                                         *)
(* There is one node per key, so a node is named by its key.  The two      *)
(* mirror images of every case are one definition with the side as its     *)
(* parameter.  An action is the linking or unlinking of a node, or one     *)
(* iteration of a rebalancing loop.  Calls that find, or that fail for     *)
(* want of memory, change nothing.                                         *)
(***************************************************************************)
EXTENDS Integers, FiniteSets, FiniteSetsExt

CONSTANTS Keys, Values, nil      \* Keys are numbers; cmp orders them

Sides == {"left", "right"}
Other == [left |-> "right", right |-> "left"]

VARIABLES
  root,           \* root->node
  kid,            \* kid[s][n]: node->left and node->right
  parent, color,
  value,
  min, max, size,
  pc,             \* "idle", or the loop that is running
  key, node, up   \* the key inserted; node and parent of the loop
tree == <<root, kid, parent, color>>
vars == <<tree, value, min, max, size, pc, key, node, up>>

Tree == [root |-> root, kid |-> kid, parent |-> parent, color |-> color]
SetTree(t) == root' = t.root /\ kid' = t.kid /\ parent' = t.parent /\ color' = t.color

Empty == [root |-> nil, kid |-> [s \in Sides |-> [k \in Keys |-> nil]],
          parent |-> [k \in Keys |-> nil], color |-> [k \in Keys |-> "RED"]]

Init ==
  /\ root = Empty.root /\ kid = Empty.kid /\ parent = Empty.parent /\ color = Empty.color
  /\ value = [k \in Keys |-> nil] /\ min = nil /\ max = nil /\ size = 0
  /\ pc = "idle" /\ key = nil /\ node = nil /\ up = nil

(***************************************************************************)
(* Links                                                                   *)
(***************************************************************************)
rb_set_parent(t, n, p) == IF n = nil THEN t ELSE [t EXCEPT !.parent[n] = p]
Paint(t, n, c) == IF n = nil THEN t ELSE [t EXCEPT !.color[n] = c]
IsRed(t, n) == n # nil /\ t.color[n] = "RED"

\* Whatever pointed down to n points to m.
Replace(t, p, n, m) ==
  IF p = nil THEN [t EXCEPT !.root = m]
  ELSE [t EXCEPT !.kid[IF t.kid["left"][p] = n THEN "left" ELSE "right"][p] = m]

\* Mutant: the subtree that changes sides keeps its parent.
rb_rotate_orphan(t, n, s) ==
  LET r == t.kid[Other[s]][n]
      p == t.parent[n]
  IN IF r = nil THEN t
     ELSE Replace([t EXCEPT !.kid[Other[s]][n] = t.kid[s][r], !.kid[s][r] = n,
                            !.parent[r] = p, !.parent[n] = r], p, n, r)

\* rb_rotate_left for s = "left", rb_rotate_right for s = "right"
rb_rotate(t, n, s) ==
  LET r == t.kid[Other[s]][n]
      p == t.parent[n]
      b == t.kid[s][r]
  IN IF r = nil THEN t
     ELSE Replace([rb_set_parent(t, b, n) EXCEPT
                     !.kid[Other[s]][n] = b, !.kid[s][r] = n,
                     !.parent[r] = p, !.parent[n] = r], p, n, r)

Side(k, n) == IF k < n THEN "left" ELSE "right"

\* The last node on the way to k: k itself if it is there, else its parent to be.
rb_search(t, k) ==
  LET go[n \in Keys] == IF n = k \/ t.kid[Side(k, n)][n] = nil THEN n
                        ELSE go[t.kid[Side(k, n)][n]]
  IN IF t.root = nil THEN nil ELSE go[t.root]

Outermost(t, n, s) == LET go[x \in Keys] == IF t.kid[s][x] = nil THEN x ELSE go[t.kid[s][x]]
                      IN IF n = nil THEN nil ELSE go[n]

Present == {k \in Keys : rb_search(Tree, k) = k}

(***************************************************************************)
(* Insertion                                                               *)
(***************************************************************************)
rb_insert(k, v) ==
  LET p == rb_search(Tree, k)
      t == [Tree EXCEPT !.parent[k] = p, !.color[k] = "RED",
                        !.kid = [s \in Sides |-> [@[s] EXCEPT ![k] = nil]]]
  IN /\ pc = "idle" /\ p # k
     /\ SetTree(IF p = nil THEN [t EXCEPT !.root = k] ELSE [t EXCEPT !.kid[Side(k, p)][p] = k])
     /\ value' = [value EXCEPT ![k] = v] /\ size' = size + 1
     /\ pc' = "rb_insert_rebalance" /\ key' = k /\ node' = k
     /\ UNCHANGED <<min, max, up>>

\* The uncle is red.
Recolour(p, g, uncle) ==
  SetTree(Paint(Paint(Paint(Tree, uncle, "BLACK"), p, "BLACK"), g, "RED")) /\ node' = g

\* The uncle is black: p is the child of g on side s.
Restructure(p, g, s) ==
  LET inner == node = kid[Other[s]][p]
      t == IF inner THEN rb_rotate(Tree, p, s) ELSE Tree
      q == IF inner THEN node ELSE p
  IN /\ SetTree(rb_rotate(Paint(Paint(t, q, "BLACK"), g, "RED"), g, Other[s]))
     /\ node' = IF inner THEN p ELSE node

rb_insert_rebalance ==
  /\ pc = "rb_insert_rebalance" /\ IsRed(Tree, parent[node])
  /\ LET p == parent[node]
         g == parent[p]
         s == IF p = kid["left"][g] THEN "left" ELSE "right"
         uncle == kid[Other[s]][g]
     IN IF IsRed(Tree, uncle) THEN Recolour(p, g, uncle) ELSE Restructure(p, g, s)
  /\ UNCHANGED <<value, min, max, size, pc, key, up>>

\* The root is painted, and the ends are updated.
rb_insert_end ==
  /\ pc = "rb_insert_rebalance" /\ ~IsRed(Tree, parent[node])
  /\ SetTree(Paint(Tree, root, "BLACK"))
  /\ min' = IF min = nil \/ key < min THEN key ELSE min
  /\ max' = IF max = nil \/ key > max THEN key ELSE max
  /\ pc' = "idle" /\ key' = nil /\ node' = nil
  /\ UNCHANGED <<value, size, up>>

rb_update(k, v) ==
  /\ pc = "idle" /\ rb_search(Tree, k) = k
  /\ value' = [value EXCEPT ![k] = v]
  /\ UNCHANGED <<tree, min, max, size, pc, key, node, up>>

(***************************************************************************)
(* Erasure                                                                 *)
(***************************************************************************)
\* A node with at most one child: the child takes its place.
Splice(k) ==
  LET child == IF kid["left"][k] # nil THEN kid["left"][k] ELSE kid["right"][k]
      p == parent[k]
  IN [t |-> Replace(rb_set_parent(Tree, child, p), p, k, child),
      node |-> child, up |-> p, black |-> color[k] = "BLACK"]

\* A node with two children: the scapedog, its successor, takes its place and colour.
Substitute(k) ==
  LET sd == Outermost(Tree, kid["right"][k], "left")
      child == kid["right"][sd]
      below == kid["right"][k]
      p == parent[sd]
      t == Replace(Tree, parent[k], k, sd)
      moved == IF p = k THEN t
               ELSE [rb_set_parent(t, child, p) EXCEPT
                       !.kid["left"][p] = child,
                       !.kid["right"][sd] = below, !.parent[below] = sd]
  IN [t |-> [moved EXCEPT !.parent[sd] = parent[k], !.color[sd] = color[k],
                          !.kid["left"][sd] = kid["left"][k], !.parent[kid["left"][k]] = sd],
      node |-> child, up |-> IF p = k THEN sd ELSE p, black |-> color[sd] = "BLACK"]

\* rb_free_node
Free(t, k) == [t EXCEPT !.kid = [s \in Sides |-> [@[s] EXCEPT ![k] = nil]],
                        !.parent[k] = nil, !.color[k] = "RED"]

rb_erase(k) ==
  /\ pc = "idle" /\ rb_search(Tree, k) = k
  /\ LET e == IF kid["left"][k] # nil /\ kid["right"][k] # nil THEN Substitute(k) ELSE Splice(k)
     IN /\ SetTree(Free(e.t, k))
        /\ IF e.black THEN pc' = "rb_erase_rebalance" /\ node' = e.node /\ up' = e.up
                      ELSE pc' = "rb_erase_end" /\ UNCHANGED <<node, up>>
  /\ value' = [value EXCEPT ![k] = nil] /\ size' = size - 1 /\ key' = k
  /\ UNCHANGED <<min, max>>

IsBlack(t, n) == ~IsRed(t, n)
DoubleBlack == IsBlack(Tree, node) /\ root # node

\* A red sibling is rotated away first.
RedSibling(t, s) ==
  LET sb == t.kid[Other[s]][up]
  IN IF IsRed(t, sb) THEN rb_rotate(Paint(Paint(t, sb, "BLACK"), up, "RED"), up, s) ELSE t

\* The sibling's outer child is made red, if only the inner one is.
OuterRed(t, s) ==
  LET sb == t.kid[Other[s]][up]
  IN IF IsBlack(t, t.kid[Other[s]][sb])
     THEN rb_rotate(Paint(Paint(t, t.kid[s][sb], "BLACK"), sb, "RED"), sb, Other[s])
     ELSE t

\* Mutant: the sibling does not take the colour of the parent.
Absorb_colour(t, s) ==
  LET sb == t.kid[Other[s]][up]
  IN rb_rotate(Paint(Paint(t, up, "BLACK"), t.kid[Other[s]][sb], "BLACK"), up, s)

Absorb(t, s) ==
  LET sb == t.kid[Other[s]][up]
  IN rb_rotate(Paint(Paint(Paint(t, sb, t.color[up]), up, "BLACK"),
                     t.kid[Other[s]][sb], "BLACK"), up, s)

\* One round of the loop; where it breaks, node is the root, which is painted black.
rb_erase_rebalance ==
  /\ pc = "rb_erase_rebalance" /\ DoubleBlack
  /\ LET s == IF node = kid["left"][up] THEN "left" ELSE "right"
         t == RedSibling(Tree, s)
         sb == t.kid[Other[s]][up]
     IN IF \A d \in Sides : IsBlack(t, t.kid[d][sb])
        THEN /\ SetTree(Paint(t, sb, "RED"))
             /\ node' = up /\ up' = t.parent[up] /\ UNCHANGED pc
        ELSE /\ LET a == Absorb(OuterRed(t, s), s) IN SetTree(Paint(a, a.root, "BLACK"))
             /\ node' = nil /\ up' = nil /\ pc' = "rb_erase_end"
  /\ UNCHANGED <<value, min, max, size, key>>

\* The loop ends at a red node or at the root, which is painted black as well.
rb_erase_paint ==
  /\ pc = "rb_erase_rebalance" /\ ~DoubleBlack
  /\ SetTree(Paint(Tree, node, "BLACK"))
  /\ node' = nil /\ up' = nil /\ pc' = "rb_erase_end"
  /\ UNCHANGED <<value, min, max, size, key>>

\* rb_update_min and rb_update_max, if the end was erased
rb_erase_end ==
  /\ pc = "rb_erase_end"
  /\ min' = IF min = key THEN Outermost(Tree, root, "left") ELSE min
  /\ max' = IF max = key THEN Outermost(Tree, root, "right") ELSE max
  /\ pc' = "idle" /\ key' = nil
  /\ UNCHANGED <<tree, value, size, node, up>>

\* map_uninit, and map_init again
map_uninit ==
  /\ pc = "idle"
  /\ SetTree(Empty) /\ value' = [k \in Keys |-> nil]
  /\ min' = nil /\ max' = nil /\ size' = 0
  /\ UNCHANGED <<pc, key, node, up>>

Next == \/ rb_insert_rebalance \/ rb_insert_end
        \/ rb_erase_rebalance \/ rb_erase_paint \/ rb_erase_end \/ map_uninit
        \/ \E k \in Keys : rb_erase(k) \/ \E v \in Values : rb_insert(k, v) \/ rb_update(k, v)

Spec == Init /\ [][Next]_vars

(***************************************************************************)
(* Iteration                                                               *)
(***************************************************************************)
\* rb_node_next for s = "right", rb_node_rnext for s = "left"; end is the last node.
rb_node_next(n, s, end) ==
  LET climb[x \in Keys] == IF parent[x] # nil /\ x = kid[s][parent[x]] THEN climb[parent[x]]
                           ELSE parent[x]
  IN IF n = end THEN nil
     ELSE IF kid[s][n] # nil THEN Outermost(Tree, kid[s][n], Other[s])
     ELSE climb[n]

(***************************************************************************)
(* Properties                                                              *)
(***************************************************************************)
\* The number of black nodes on every path down from n, or -1 if paths differ.
BlackHeight ==
  LET bh[n \in Keys] ==
        LET down(s) == IF kid[s][n] = nil THEN 0 ELSE bh[kid[s][n]]
        IN IF down("left") # down("right") \/ down("left") = -1 THEN -1
           ELSE down("left") + IF color[n] = "BLACK" THEN 1 ELSE 0
  IN bh

\* Between two calls the tree is a red-black tree: black root, no red node with a red
\* child, the same number of black nodes on all paths; this bounds every search.
Balanced ==
  pc = "idle" /\ root # nil =>
    /\ color[root] = "BLACK" /\ BlackHeight[root] # -1
    /\ \A n \in Present, s \in Sides : ~(IsRed(Tree, n) /\ IsRed(Tree, kid[s][n]))

After(n, s) == IF s = "right" THEN {k \in Present : k > n} ELSE {k \in Present : k < n}
Nearest(S, s) == IF S = {} THEN nil ELSE IF s = "right" THEN Min(S) ELSE Max(S)

\* From map_begin to the end, and from map_rbegin back, iteration visits every element
\* once in the order of the keys, although rotations move the nodes and min and max are
\* not searched for; map_size is their number.
IteratesInOrder ==
  pc = "idle" =>
    /\ min = Nearest(Present, "right") /\ max = Nearest(Present, "left")
    /\ size = Cardinality(Present)
    /\ \A n \in Present :
         /\ rb_node_next(n, "right", max) = Nearest(After(n, "right"), "right")
         /\ rb_node_next(n, "left", min) = Nearest(After(n, "left"), "left")

D == INSTANCE Dictionary WITH content <- [k \in Present |-> value[k]]

\* What rb_search finds is a dictionary, at every rotation in between as well.
ImplementsDictionary == D!Spec
=============================================================================
