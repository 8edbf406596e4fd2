---------------------------- MODULE CircularList ----------------------------
(***************************************************************************)
(* The circular doubly linked list of linux-2022/include/list.h.  A value  *)
(* r is a pair of functions, the next and prev pointers of all heads and   *)
(* nodes; an operation returns the pointers as it leaves them.  The list   *)
(* of a head is the sequence of nodes from head.next on.                   *)
(***************************************************************************)
EXTENDS Integers, FiniteSets, SequencesExt

\* next = n and prev = p, as one assignment to each of several pointers.
Set(r, n, p) == [next |-> n @@ r.next, prev |-> p @@ r.prev]

INIT_LIST_HEAD(r, head) == Set(r, head :> head, head :> head)

list_add(r, node, head) ==
  LET first == r.next[head]
  IN  Set(r, head :> node @@ node :> first, node :> head @@ first :> node)

list_add_tail(r, node, head) ==
  LET final == r.prev[head]
  IN  Set(r, final :> node @@ node :> head, head :> node @@ node :> final)

\* The pointers of the node itself stay, as they do unless LIST_POISONING is defined.
list_del(r, node) == Set(r, r.prev[node] :> r.next[node], r.next[node] :> r.prev[node])

list_del_init(r, node) == INIT_LIST_HEAD(list_del(r, node), node)

list_empty(r, head) == r.next[head] = head

list_is_singular(r, head) == ~list_empty(r, head) /\ r.prev[head] = r.next[head]

list_splice(r, list, head) ==
  IF list_empty(r, list) THEN r
  ELSE Set(r, head :> r.next[list] @@ r.prev[list] :> r.next[head],
              r.next[head] :> r.prev[list] @@ r.next[list] :> head)

list_splice_tail(r, list, head) ==
  IF list_empty(r, list) THEN r
  ELSE Set(r, r.prev[head] :> r.next[list] @@ r.prev[list] :> head,
              head :> r.prev[list] @@ r.next[list] :> r.prev[head])

list_splice_init(r, list, head) == INIT_LIST_HEAD(list_splice(r, list, head), list)

list_splice_tail_init(r, list, head) == INIT_LIST_HEAD(list_splice_tail(r, list, head), list)

list_cut_position(r, head_to, head_from, node) ==
  IF list_empty(r, head_from) THEN r
  ELSE IF head_from = node THEN INIT_LIST_HEAD(r, head_to)
  ELSE Set(r, head_from :> r.next[node] @@ node :> head_to @@ head_to :> r.next[head_from],
              r.next[node] :> head_from @@ head_to :> node @@ r.next[head_from] :> head_to)

\* Mutant: the node is left where it was.
list_move_mutant(r, node, head) == r

list_move(r, node, head) == list_add(list_del(r, node), node, head)

list_move_tail(r, node, head) == list_add_tail(list_del(r, node), node, head)

\* The nodes from head on along the pointers f, until it is head's turn again
\* (or as many pointers were followed as there are, if it never is).
Along(f, head) ==
  LET size == Cardinality(DOMAIN f)
      at[i \in 0 .. size] == IF i = 0 THEN head ELSE f[at[i - 1]]
      end == CHOOSE i \in 1 .. size : (at[i] = head \/ i = size) /\ \A j \in 1 .. i - 1 : at[j] # head
  IN  [i \in 1 .. end - 1 |-> at[i]]

list_for_each(r, head) == Along(r.next, head)

\* The list of head has been walked with list_for_each_entry_safe, and every
\* node deleted and freed on the way: what its pointers held is lost, but the
\* node after it has been loaded before.  Returns the pointers and the freed nodes.
FreeEach(r, head) ==
  LET Lost(s, node) == Set(s, node :> "freed", node :> "freed")
      walk[i \in 0 .. Cardinality(DOMAIN r.next)] ==
        IF i = 0 THEN [ring |-> r, entry |-> r.next[head], safe |-> r.next[r.next[head]], freed |-> <<>>]
        ELSE LET w == walk[i - 1]
                 deleted == Lost(list_del(w.ring, w.entry), w.entry)
             IN  IF w.entry = head THEN w
                 ELSE [ring |-> deleted, entry |-> w.safe, safe |-> deleted.next[w.safe],
                       freed |-> Append(w.freed, w.entry)]
  IN  walk[Cardinality(DOMAIN r.next)]

-----------------------------------------------------------------------------
(* Properties *)

\* The list of head is s, forwards along next and backwards along prev.
Holds(r, head, s) == list_for_each(r, head) = s /\ Along(r.prev, head) = Reverse(s)

\* Two heads; nodes are positive.
A == 0
B == -1

\* The pointers of two lists a and b, made with list_add_tail.
Pointers(a, b) ==
  LET Unlinked == [c \in {A, B} \cup Range(a) \cup Range(b) |-> c]
      WithA == FoldLeft(LAMBDA r, node : list_add_tail(r, node, A), [next |-> Unlinked, prev |-> Unlinked], a)
  IN  FoldLeft(LAMBDA r, node : list_add_tail(r, node, B), WithA, b)

\* Every operation on two lists does to the sequences of their nodes what its
\* comment in list.h says, keeps next and prev each other's inverse and leaves the other
\* list alone: moving a node within its list, splicing to and from empty lists and
\* cutting at the head, at the last node and of an empty list included.
RingsRight(x, y) ==
  LET a == [i \in 1 .. x |-> i]
      b == [i \in 1 .. y |-> x + i]
      r == Pointers(a, b)
      Hold(s, onA, onB) == Holds(s, A, onA) /\ Holds(s, B, onB)
      node == x + y + 1
  IN  /\ Hold(r, a, b)
      /\ Hold(list_add(r, node, A), <<node>> \o a, b)
      /\ list_empty(r, A) = (x = 0)
      /\ list_is_singular(r, A) = (x = 1)
      /\ Holds(list_splice(r, A, B), B, a \o b)
      /\ Holds(list_splice_tail(r, A, B), B, b \o a)
      /\ Hold(list_splice_init(r, A, B), <<>>, a \o b)
      /\ Hold(list_splice_tail_init(r, A, B), <<>>, b \o a)
      /\ Hold(list_cut_position(r, B, A, A), a, IF x = 0 THEN b ELSE <<>>)
      /\ FreeEach(r, A).freed = a /\ Hold(FreeEach(r, A).ring, <<>>, b)
      /\ \A i \in 1 .. x :
           LET others == RemoveAt(a, i)
           IN  /\ Hold(list_del(r, i), others, b)
               /\ Hold(list_del_init(r, i), others, b) /\ list_empty(list_del_init(r, i), i)
               /\ Hold(list_move(r, i, A), <<i>> \o others, b)
               /\ Hold(list_move(r, i, B), others, <<i>> \o b)
               /\ Hold(list_move_tail(r, i, A), Append(others, i), b)
               /\ Hold(list_move_tail(r, i, B), others, Append(b, i))
               /\ Hold(list_cut_position(r, B, A, i), SubSeq(a, i + 1, x), SubSeq(a, 1, i))
=============================================================================
