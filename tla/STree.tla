-------------------------------- MODULE STree --------------------------------
(***************************************************************************)
(* The S-tree of linux-2023-summer/quiz1/problem1.c: a search tree whose   *)
(* nodes carry a hint of their height, rotated when an update finds the    *)
(* hints of two children too far apart.  A node is identified with its     *)
(* key.  Left and right are treated alike: each operator that the program  *)
(* has twice takes a direction.  st_update calls itself on the parent, and *)
(* each call is a step, so that the tree is also seen between them.        *)
(***************************************************************************)
EXTENDS Integers, FiniteSets

CONSTANTS Keys,     \* a finite set of integers
          Nil

Dirs == {"left", "right"}
Other(d) == IF d = "left" THEN "right" ELSE "left"

VARIABLES root, kid, parent, hint,  \* the tree; kid[n][d] is st_left or st_right
          updating                  \* the argument of st_update, Nil between operations

vars == <<root, kid, parent, hint, updating>>

Init ==
  /\ root = Nil
  /\ kid = [n \in Keys |-> [d \in Dirs |-> Nil]]
  /\ parent = [n \in Keys |-> Nil]
  /\ hint = [n \in Keys |-> 0]
  /\ updating = Nil

-----------------------------------------------------------------------------
(* Searching *)

Side(a, n) == IF a < n THEN "left" ELSE "right"

\* The nodes that a search for a visits, in this order; it ends with Nil or a.
Visit(a) ==
  LET At[i \in 0 .. Cardinality(Keys)] ==
        IF i = 0 THEN root
        ELSE LET n == At[i - 1] IN IF n \in {Nil, a} THEN n ELSE kid[n][Side(a, n)]
  IN At

\* treeint_find
Find(a) == Visit(a)[Cardinality(Keys)] = a

\* st_first or st_last: the last node in direction d.
Outermost(m, d) ==
  LET At[i \in 0 .. Cardinality(Keys)] ==
        IF i = 0 THEN m
        ELSE LET l == At[i - 1] IN IF kid[l][d] = Nil THEN l ELSE kid[l][d]
  IN At[Cardinality(Keys)]

-----------------------------------------------------------------------------
(* Updating *)

\* kids with the link of p to n redirected to m.
Relink(kids, p, n, m) ==
  [x \in Keys |-> [d \in Dirs |-> IF x = p /\ kids[x][d] = n THEN m ELSE kids[x][d]]]

\* parents with the parent of n, if there is such a node, set to p.
Adopt(parents, n, p) == [x \in Keys |-> IF x = n THEN p ELSE parents[x]]

\* Mutant: the subtree that changes sides keeps its old parent.
RotateMutant(n, d) ==
  LET m == kid[n][d]
  IN /\ root' = IF root = n THEN m ELSE root
     /\ kid' = [Relink(kid, parent[n], n, m) EXCEPT ![n][d] = kid[m][Other(d)], ![m][Other(d)] = n]
     /\ parent' = [parent EXCEPT ![m] = parent[n], ![n] = m]

\* st_rotate_left or st_rotate_right: n's child in direction d takes its place.
Rotate(n, d) ==
  LET m == kid[n][d]
  IN /\ root' = IF root = n THEN m ELSE root
     /\ kid' = [Relink(kid, parent[n], n, m) EXCEPT ![n][d] = kid[m][Other(d)], ![m][Other(d)] = n]
     /\ parent' = [Adopt(parent, kid[m][Other(d)], n) EXCEPT ![m] = parent[n], ![n] = m]

\* How high n's subtree in direction d is, going by the hints.
Height(kids, n, d) == IF kids[n][d] = Nil THEN 0 ELSE hint[kids[n][d]] + 1

MaxHint(kids, n) ==
  LET l == Height(kids, n, "left")
      r == Height(kids, n, "right")
  IN IF l > r THEN l ELSE r

\* st_update(root, n); the next one, if any, is on the parent n had before.
Update(n) ==
  /\ updating = n
  /\ LET balance == Height(kid, n, "left") - Height(kid, n, "right")
     IN \/ balance < -1 /\ Rotate(n, "right")
        \/ balance > 1 /\ Rotate(n, "left")
        \/ balance \in -1 .. 1 /\ UNCHANGED <<root, kid, parent>>
  /\ hint' = [hint EXCEPT ![n] = MaxHint(kid', n)]
  /\ updating' = IF hint'[n] = 0 \/ hint'[n] # hint[n] THEN parent[n] ELSE Nil

-----------------------------------------------------------------------------
(* Insertion and removal *)

\* st_insert
Attach(p, n, d) ==
  /\ kid' = [kid EXCEPT ![p][d] = n]
  /\ parent' = [parent EXCEPT ![n] = p]
  /\ updating' = n
  /\ UNCHANGED <<root, hint>>

\* treeint_insert; the first node of a tree is not updated.
Insert(a) ==
  /\ updating = Nil /\ ~Find(a)
  /\ \/ root = Nil /\ root' = a /\ UNCHANGED <<kid, parent, hint, updating>>
     \/ \E i \in 1 .. Cardinality(Keys), p \in Keys :
          /\ Visit(a)[i - 1] = p /\ Visit(a)[i] = Nil
          /\ Attach(p, a, Side(a, p))

\* The node n is freed.
Freed(kids, n) == [kids EXCEPT ![n] = [d \in Dirs |-> Nil]]

\* Mutant: what was behind the replacement is forgotten.
ReplaceMutant(n, d) ==
  LET r == Outermost(kid[n][d], Other(d))
      rp == parent[r]
      kids == Relink(IF rp = n THEN kid ELSE [kid EXCEPT ![rp][Other(d)] = Nil], parent[n], n, r)
      adopted == Adopt(Adopt(parent, kid[n]["left"], r), kid[n]["right"], r)
  IN /\ root' = IF root = n THEN r ELSE root
     /\ kid' = Freed([kids EXCEPT ![r][Other(d)] = kid[n][Other(d)],
                                  ![r][d] = IF rp = n THEN kid[r][d] ELSE kid[n][d]], n)
     /\ parent' = [adopted EXCEPT ![r] = parent[n], ![n] = Nil]
     /\ updating' = kid'[r][d]

\* st_replace_right or st_replace_left: the node next to n in direction d, r,
\* takes n's place, and its own is taken by its only subtree.
Replace(n, d) ==
  LET r == Outermost(kid[n][d], Other(d))
      rp == parent[r]
      kids == Relink(IF rp = n THEN kid ELSE [kid EXCEPT ![rp][Other(d)] = kid[r][d]], parent[n], n, r)
      moved == IF rp = n THEN parent ELSE Adopt(parent, kid[r][d], rp)
      adopted == Adopt(Adopt(moved, kid[n]["left"], r), kid[n]["right"], r)
  IN /\ root' = IF root = n THEN r ELSE root
     /\ kid' = Freed([kids EXCEPT ![r][Other(d)] = kid[n][Other(d)],
                                  ![r][d] = IF rp = n THEN kid[r][d] ELSE kid[n][d]], n)
     /\ parent' = [adopted EXCEPT ![r] = parent[n], ![n] = Nil]
     /\ updating' = kid'[r][d]

\* treeint_remove and st_remove
Remove(a) ==
  /\ updating = Nil /\ Find(a)
  /\ \/ kid[a]["right"] # Nil /\ Replace(a, "right")
     \/ kid[a]["right"] = Nil /\ kid[a]["left"] # Nil /\ Replace(a, "left")
     \/ /\ \A d \in Dirs : kid[a][d] = Nil
        /\ root' = IF root = a THEN Nil ELSE root
        /\ kid' = Relink(kid, parent[a], a, Nil)
        /\ parent' = [parent EXCEPT ![a] = Nil]
        /\ updating' = parent[a]
  /\ hint' = [hint EXCEPT ![a] = 0]

Next == \/ \E n \in Keys : Update(n)
        \/ \E a \in Keys : Insert(a) \/ Remove(a)

Spec == Init /\ [][Next]_vars

-----------------------------------------------------------------------------
(* Properties *)

Linked == ({root} \cup {kid[n][d] : n \in Keys, d \in Dirs}) \ {Nil}

\* Also between two calls of st_update: parents and children agree, no node is
\* linked twice, and a search finds exactly the nodes that are linked, so that
\* they are in order.
SearchTree ==
  /\ root # Nil => parent[root] = Nil
  /\ \A n \in Keys, d \in Dirs : kid[n][d] # Nil => parent[kid[n][d]] = n
  /\ \A n \in Keys : kid[n]["left"] # Nil => kid[n]["left"] # kid[n]["right"]
  /\ \A n \in Keys : Find(n) <=> n \in Linked

\* The tree is a set: insertion and removal change it by their key, and what
\* st_update does to the shape of the tree changes nothing.
Members == {n \in Keys : Find(n)}
S == INSTANCE KeySet WITH keys <- Members
ImplementsSet == S!Spec
=============================================================================
