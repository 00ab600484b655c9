------------------------------- MODULE RbTree -------------------------------
(***************************************************************************)
(* The red-black tree of data_structure/rbtree/rbtree.c as operators on    *)
(* trees.  A tree is its root, the parent of each node, the two children   *)
(* of each node, and the set of its red nodes; Null is no node.  Where the *)
(* code says everything twice, once for left and once for right, the side  *)
(* is a parameter.                                                         *)
(***************************************************************************)
EXTENDS Integers, Sequences

CONSTANTS Nodes, Null

Sides == {"left", "right"}
Opp(s) == IF s = "left" THEN "right" ELSE "left"

EmptyTree ==
  [root |-> Null, parent |-> [n \in Nodes |-> Null],
   kid |-> [n \in Nodes |-> [s \in Sides |-> Null]], red |-> {}]

Red(t, n) == n # Null /\ n \in t.red

(* The side of p on which its child n is; NULL children count. *)
Side(t, p, n) == IF t.kid[p]["left"] = n THEN "left" ELSE "right"

SetParent(t, n, p) == IF n = Null THEN t ELSE [t EXCEPT !.parent[n] = p]

(* What points to old, its parent p or the root, points to new. *)
Relink(t, p, old, new) ==
  IF p = Null THEN [t EXCEPT !.root = new] ELSE [t EXCEPT !.kid[p][Side(t, p, old)] = new]

(* n goes down on side s; its child on the other side takes its place. *)
Rotate(t, n, s) ==
  LET top == t.kid[n][Opp(s)]
      p   == t.parent[n]
      u1  == SetParent([t EXCEPT !.kid[n][Opp(s)] = t.kid[top][s]], t.kid[top][s], n)
      u2  == Relink([u1 EXCEPT !.kid[top][s] = n, !.parent[top] = p], p, n, top)
  IN  SetParent(u2, n, top)

RECURSIVE InsertColor(_, _)
InsertColor(t, n) ==
  LET p == t.parent[n]
      g == t.parent[p]
      s == Side(t, g, p)
      u == t.kid[g][Opp(s)]
      inner == t.kid[p][Opp(s)] = n
      top   == IF inner THEN n ELSE p
      below == IF inner THEN Rotate(t, p, s) ELSE t
  IN  CASE p = Null \/ ~Red(t, p) -> [t EXCEPT !.red = @ \ {t.root}]
        [] Red(t, p) /\ Red(t, u) -> InsertColor([t EXCEPT !.red = (@ \ {u, p}) \cup {g}], g)
        [] OTHER ->
             InsertColor(Rotate([below EXCEPT !.red = (@ \ {top}) \cup {g}], g, Opp(s)),
                         IF inner THEN p ELSE n)

(* Broken: the sibling does not take the colour of the parent it replaces. *)
EraseLastKeep(t, p, s) ==
  LET done == Rotate([t EXCEPT !.red = @ \ {p, t.kid[t.kid[p][Opp(s)]][Opp(s)]}], p, s)
  IN  [done EXCEPT !.red = @ \ {done.root}]

(* The last case of __rb_erase_color(): the sibling's far child is red. *)
EraseLast(t, p, s) ==
  LET o == t.kid[p][Opp(s)]
      r == (IF Red(t, p) THEN t.red \cup {o} ELSE t.red \ {o}) \ {p, t.kid[o][Opp(s)]}
      done == Rotate([t EXCEPT !.red = r], p, s)
  IN  [done EXCEPT !.red = @ \ {done.root}]

RECURSIVE EraseColor(_, _, _)
EraseColor(t, n, p) ==
  IF Red(t, n) \/ n = t.root THEN [t EXCEPT !.red = @ \ {n}]
  ELSE LET s  == Side(t, p, n)
           o  == t.kid[p][Opp(s)]
           u1 == IF Red(t, o) THEN Rotate([t EXCEPT !.red = (@ \ {o}) \cup {p}], p, s) ELSE t
           o1 == u1.kid[p][Opp(s)]
           near == u1.kid[o1][s]
           far  == u1.kid[o1][Opp(s)]
       IN  CASE ~Red(u1, near) /\ ~Red(u1, far) ->
                  EraseColor([u1 EXCEPT !.red = @ \cup {o1}], p, u1.parent[p])
             [] ~Red(u1, far) /\ Red(u1, near) ->
                  EraseLast(Rotate([u1 EXCEPT !.red = (@ \ {near}) \cup {o1}], o1, Opp(s)), p, s)
             [] OTHER -> EraseLast(u1, p, s)

RECURSIVE Least(_, _)
Least(t, n) == IF t.kid[n]["left"] = Null THEN n ELSE Least(t, t.kid[n]["left"])

(* Forgets a node that was taken out, as rb_link_node() would before the next use. *)
Clear(t, n) ==
  [t EXCEPT !.parent[n] = Null, !.kid[n] = [s \in Sides |-> Null], !.red = @ \ {n}]

(* rb_erase() of a node with at most one child *)
EraseOne(t, n) ==
  LET child == IF t.kid[n]["left"] = Null THEN t.kid[n]["right"] ELSE t.kid[n]["left"]
      p     == t.parent[n]
      out   == Clear(Relink(SetParent(t, child, p), p, n, child), n)
  IN  IF Red(t, n) THEN out ELSE EraseColor(out, child, p)

(* The successor m of n takes n's place and colour; what rose into m's place is
   child, below p. *)
Successor(t, n) ==
  LET m     == Least(t, t.kid[n]["right"])
      child == t.kid[m]["right"]
      p     == t.parent[m]
      u1    == IF p = n THEN t
               ELSE LET u2 == [SetParent(t, child, p) EXCEPT !.kid[p]["left"] = child]
                    IN  SetParent([u2 EXCEPT !.kid[m]["right"] = t.kid[n]["right"]],
                                  t.kid[n]["right"], m)
      u3    == Relink([u1 EXCEPT !.parent[m] = t.parent[n], !.kid[m]["left"] = t.kid[n]["left"],
                                 !.red = IF Red(t, n) THEN @ \cup {m} ELSE @ \ {m}],
                      t.parent[n], n, m)
  IN  Clear(SetParent(u3, t.kid[n]["left"], m), n)

(* rb_erase() of a node with two children *)
EraseTwo(t, n) ==
  LET m == Least(t, t.kid[n]["right"])
  IN  IF Red(t, m) THEN Successor(t, n)
      ELSE EraseColor(Successor(t, n), t.kid[m]["right"],
                      IF t.parent[m] = n THEN m ELSE t.parent[m])

Erase(t, n) ==
  IF \E s \in Sides : t.kid[n][s] = Null THEN EraseOne(t, n) ELSE EraseTwo(t, n)

(* rb_link_node() *)
Link(t, n, p, s) ==
  IF p = Null
  THEN [Clear(t, n) EXCEPT !.root = n, !.red = @ \cup {n}]
  ELSE [Clear(t, n) EXCEPT !.parent[n] = p, !.kid[p][s] = n, !.red = @ \cup {n}]

RECURSIVE NextUp(_, _)
NextUp(t, n) ==
  IF t.parent[n] = Null \/ Side(t, t.parent[n], n) = "left" THEN t.parent[n]
  ELSE NextUp(t, t.parent[n])

(* rb_next() *)
RbNext(t, n) ==
  IF t.kid[n]["right"] = Null THEN NextUp(t, n) ELSE Least(t, t.kid[n]["right"])

-----------------------------------------------------------------------------
\* What a tree means

RECURSIVE InOrder(_, _)
InOrder(t, n) ==
  IF n = Null THEN <<>>
  ELSE InOrder(t, t.kid[n]["left"]) \o <<n>> \o InOrder(t, t.kid[n]["right"])

(* The number of black nodes on every path down from n, or 0. *)
RECURSIVE BlackHeight(_, _)
BlackHeight(t, n) ==
  IF n = Null THEN 1
  ELSE LET l == BlackHeight(t, t.kid[n]["left"])
           r == BlackHeight(t, t.kid[n]["right"])
       IN  IF l # r \/ l = 0 THEN 0 ELSE IF Red(t, n) THEN l ELSE l + 1

IsRedBlack(t) ==
  /\ ~Red(t, t.root)
  /\ \A n \in t.red : \A s \in Sides : ~Red(t, t.kid[n][s])
  /\ BlackHeight(t, t.root) > 0
=============================================================================
