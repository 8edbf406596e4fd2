-------------------------- MODULE NonBlockingList --------------------------
(***************************************************************************)
(* The non-blocking list of linux-2022/quiz11/problem2 (nblist.c).  The    *)
(* low bits of a next word say that the node itself is dead (mark), or     *)
(* that the node it points to is about to die (flag).  A deletion flags    *)
(* the parent, sets the back link, marks the node and cuts it off; whoever *)
(* meets a deletion on the way completes it.                               *)
(*                                                                         *)
(* Each load, exchange or compare-and-swap of a word is a step, except     *)
(* that a load which only prepares a compare-and-swap of the same word,    *)
(* repeated until it succeeds, is part of it, and that the back link of a  *)
(* marked node, which never changes (AssertionsHold), is read together     *)
(* with the next word of the node it leads to.  Accesses are interleaved        *)
(* sequentially.  A removed node is not used again.  A false assertion,    *)
(* or the NULL pointer it guards, ends the program.                        *)
(***************************************************************************)
EXTENDS Naturals, Sequences, FiniteSets

CONSTANTS Threads, Nodes,
          List,             \* list->n, the node before the first one
          Null,
          Listed,           \* the list when the threads start, a sequence
          Jobs              \* the calls of each thread: "push", "pop", "del", "sweep"

ASSUME NodesAssumption == List \notin Nodes /\ Null \notin Nodes \cup {List} /\ IsFiniteSet(Nodes)
ASSUME ListedAssumption ==
  /\ Listed \in Seq(Nodes)
  /\ \A i, j \in DOMAIN Listed : Listed[i] = Listed[j] => i = j
ASSUME JobsAssumption == Jobs \in [Threads -> Seq({"push", "pop", "del", "sweep"})]

VARIABLES next, backlink,   \* the two words of each node
          pc, todo,
          p, pval,          \* p and p_val; old of nblist_push
          n, nval,          \* the node to remove or to push; n_val, nextval
          top,              \* the argument of nblist_push
          got,              \* whether this call set the flag
          prev, cur,        \* the iterator
          stack,            \* the calls of clear_flag, the innermost one first
          claims,           \* history: how often the removal of a node was reported
          found             \* history: the nodes that were there when the pop began

shared == <<next, backlink>>
locals == <<p, pval, n, nval, top, got>>
iter == <<prev, cur>>
history == <<claims, found>>
vars == <<shared, pc, todo, locals, iter, stack, history>>

Word(x, flag, mark) == [ptr |-> x, flag |-> flag, mark |-> mark]
Plain(x) == Word(x, FALSE, FALSE)
Flagged(x) == Word(x, TRUE, FALSE)
Bits(w) == w.flag \/ w.mark

\* The chain of the nodes from the head to the end.
Chain ==
  LET At[i \in 0 .. Cardinality(Nodes)] ==
        IF i = 0 THEN next[List].ptr ELSE IF At[i - 1] = Null THEN Null ELSE next[At[i - 1]].ptr
      End == CHOOSE i \in 0 .. Cardinality(Nodes) : At[i] = Null /\ \A j \in 0 .. i - 1 : At[j] # Null
  IN [i \in 1 .. End |-> At[i - 1]]

Linked == {Chain[i] : i \in DOMAIN Chain}
Pushed == {x \in Nodes : next[x].mark} \cup Linked \* the nodes that are, or were, in the list

Init ==
  /\ next = [x \in Nodes \cup {List} |->
       Plain(IF x = List THEN (IF Listed = << >> THEN Null ELSE Listed[1])
             ELSE LET after == {i \in DOMAIN Listed : i > 1 /\ Listed[i - 1] = x}
                  IN IF after = {} THEN Null ELSE Listed[CHOOSE i \in after : TRUE])]
  /\ backlink = [x \in Nodes \cup {List} |-> Null]
  /\ pc = [t \in Threads |-> "idle"] /\ todo = Jobs
  /\ p = [t \in Threads |-> Null] /\ pval = [t \in Threads |-> Plain(Null)]
  /\ n = [t \in Threads |-> Null] /\ nval = [t \in Threads |-> Plain(Null)]
  /\ top = [t \in Threads |-> Null] /\ got = [t \in Threads |-> FALSE]
  /\ prev = [t \in Threads |-> Null] /\ cur = [t \in Threads |-> Null]
  /\ stack = [t \in Threads |-> << >>]
  /\ claims = [x \in Nodes |-> 0]
  /\ found = [t \in Threads |-> {}]

Goto(t, label) == pc' = [pc EXCEPT ![t] = label]
Set(f, t, value) == [f EXCEPT ![t] = value]
Job(t, job) == todo[t] # << >> /\ todo[t][1] = job

\* Nothing is kept of a call but the iterator of a sweep, which goes on.
Forget(t) ==
  /\ p' = Set(p, t, Null) /\ pval' = Set(pval, t, Plain(Null))
  /\ n' = Set(n, t, Null) /\ nval' = Set(nval, t, Plain(Null))
  /\ top' = Set(top, t, Null) /\ got' = Set(got, t, FALSE)
  /\ stack' = Set(stack, t, << >>)
  /\ found' = Set(found, t, {})

Return(t) ==
  /\ Forget(t)
  /\ IF Job(t, "sweep")
     THEN Goto(t, "at") /\ prev' = Set(prev, t, Null) /\ UNCHANGED <<todo, cur>>
     ELSE Goto(t, "idle") /\ todo' = Set(todo, t, Tail(todo[t])) /\ UNCHANGED iter

-----------------------------------------------------------------------------
(* try_flag: p and pval are *pp and p_val. *)

\* Where the search for n's parent goes on, with value w of node q's next.
SearchFrom(t, q, w) ==
  /\ p' = Set(p, t, q) /\ pval' = Set(pval, t, w)
  /\ Goto(t, CASE w.mark       -> "back"
               [] w.ptr = Null -> "abort"         \* assert(n_ptr(p_val))
               [] w.ptr = n[t] -> "flag"
               [] OTHER        -> "forward")
  /\ UNCHANGED <<n, nval, top, got>>

CallClearFlag(t, q, x) ==
  Goto(t, "clear") /\ stack' = Set(stack, t, <<[prev |-> q, n |-> x]>> \o stack[t])

\* Mutant: whoever finds the flag set takes it for its own.
TryFlagMutant(t) ==
  /\ pc[t] = "flag"
  /\ \/ /\ Flagged(n[t]) \in {pval[t], next[p[t]]}
        /\ CallClearFlag(t, p[t], n[t])
        /\ got' = Set(got, t, TRUE)
        /\ UNCHANGED <<shared, p, pval, n, nval, top>>
     \/ /\ pval[t] # Flagged(n[t]) /\ next[p[t]] = Plain(n[t])
        /\ next' = Set(next, p[t], Flagged(n[t]))
        /\ CallClearFlag(t, p[t], n[t])
        /\ got' = Set(got, t, TRUE)
        /\ UNCHANGED <<backlink, p, pval, n, nval, top>>
     \/ /\ pval[t] # Flagged(n[t]) /\ next[p[t]] \notin {Plain(n[t]), Flagged(n[t])}
        /\ SearchFrom(t, p[t], next[p[t]])
        /\ UNCHANGED <<shared, stack>>
  /\ UNCHANGED <<todo, iter, history>>

TryFlag(t) ==
  /\ pc[t] = "flag"
  /\ \/ /\ Flagged(n[t]) \in {pval[t], next[p[t]]}
        /\ CallClearFlag(t, p[t], n[t])
        /\ UNCHANGED <<shared, locals>>
     \/ /\ pval[t] # Flagged(n[t]) /\ next[p[t]] = Plain(n[t])
        /\ next' = Set(next, p[t], Flagged(n[t]))
        /\ CallClearFlag(t, p[t], n[t])
        /\ got' = Set(got, t, TRUE)
        /\ UNCHANGED <<backlink, p, pval, n, nval, top>>
     \/ /\ pval[t] # Flagged(n[t]) /\ next[p[t]] \notin {Plain(n[t]), Flagged(n[t])}
        /\ SearchFrom(t, p[t], next[p[t]])
        /\ UNCHANGED <<shared, stack>>
  /\ UNCHANGED <<todo, iter, history>>

FollowBacklink(t) ==
  /\ pc[t] = "back"
  /\ SearchFrom(t, backlink[p[t]], next[backlink[p[t]]])
  /\ UNCHANGED <<shared, todo, stack, iter, history>>

WalkForward(t) ==
  /\ pc[t] = "forward"
  /\ LET q == pval[t].ptr
         w == next[q]
     IN IF w.ptr = Null
        THEN Return(t)
        ELSE /\ p' = Set(p, t, q) /\ pval' = Set(pval, t, w)
             /\ Goto(t, IF w.ptr = n[t] THEN "flag" ELSE "forward")
             /\ UNCHANGED <<todo, n, nval, top, got, iter, stack, found>>
  /\ UNCHANGED <<shared, claims>>

-----------------------------------------------------------------------------
(* clear_flag and rend_the_marked *)


ClearBegins(t) ==
  /\ pc[t] = "clear"
  /\ backlink' = Set(backlink, stack[t][1].n, stack[t][1].prev)
  /\ Goto(t, "mark")
  /\ UNCHANGED <<next, todo, locals, iter, stack, history>>

\* Mutant: the node is marked although the one behind it is being removed.
MarkMutant(t) ==
  /\ pc[t] = "mark"
  /\ LET x == stack[t][1].n
     IN /\ nval' = Set(nval, t, [next[x] EXCEPT !.mark = TRUE])
        /\ next' = Set(next, x, [next[x] EXCEPT !.mark = TRUE])
  /\ Goto(t, "rend")
  /\ UNCHANGED <<backlink, todo, p, pval, n, top, got, iter, stack, history>>

\* One round of the loop; a flagged node has to lose its successor first.
Mark(t) ==
  /\ pc[t] = "mark"
  /\ LET x == stack[t][1].n
         w == next[x]
     IN \/ /\ ~w.mark /\ w.flag
           /\ CallClearFlag(t, x, w.ptr)
           /\ UNCHANGED <<next, nval>>
        \/ /\ w.mark \/ ~w.flag
           /\ nval' = Set(nval, t, [w EXCEPT !.mark = TRUE])
           /\ next' = Set(next, x, [w EXCEPT !.mark = TRUE])
           /\ Goto(t, "rend") /\ UNCHANGED stack
  /\ UNCHANGED <<backlink, todo, p, pval, n, top, got, iter, history>>

\* Mutant: a plain store.
RendMutant(q, x, w) == next' = Set(next, q, Plain(w.ptr))

\* Links q to what follows x, if it still is x's parent.
Rend(q, x, w) ==
  next' = IF next[q] = Flagged(x) THEN Set(next, q, Plain(w.ptr)) ELSE next

\* What the caller of the outermost clear_flag does next: push loads the head
\* again, pop returns the node, and the deletions return got.
ClearReturns(t) ==
  \/ /\ Job(t, "push")
     /\ Goto(t, "load") /\ stack' = Set(stack, t, << >>)
     /\ UNCHANGED <<todo, locals, iter, history>>
  \/ /\ ~Job(t, "push")
     /\ Return(t)
     /\ claims' = IF got[t] THEN Set(claims, n[t], claims[n[t]] + 1) ELSE claims

CutOff(t) ==
  /\ pc[t] = "rend"
  /\ Rend(stack[t][1].prev, stack[t][1].n, nval[t])
  /\ IF Len(stack[t]) = 1
     THEN ClearReturns(t)
     ELSE /\ stack' = Set(stack, t, Tail(stack[t])) /\ Goto(t, "mark")
          /\ UNCHANGED <<todo, locals, iter, history>>
  /\ UNCHANGED backlink

-----------------------------------------------------------------------------
(* nblist_push, called until it succeeds, with the result of nblist_top *)

\* The caller has a node of its own and looks at the top.
LookAtTop(t) ==
  /\ \/ /\ pc[t] = "idle" /\ Job(t, "push")
        /\ \E x \in Nodes \ (Pushed \cup {n[u] : u \in {u \in Threads : Job(u, "push")}}) :
             n' = Set(n, t, x)
     \/ pc[t] = "again" /\ UNCHANGED n
  /\ top' = Set(top, t, next[List].ptr)
  /\ Goto(t, "load")
  /\ UNCHANGED <<shared, todo, p, pval, nval, got, iter, stack, history>>

\* The word is loaded again after each deletion that had to be completed.
PushLoad(t) ==
  /\ pc[t] = "load"
  /\ LET old == next[List]
     IN \/ old.flag /\ CallClearFlag(t, List, old.ptr) /\ UNCHANGED <<shared, pval>>
        \/ /\ ~old.flag
           /\ pval' = Set(pval, t, old)
           /\ next' = Set(next, n[t], old) /\ backlink' = Set(backlink, n[t], Null)
           /\ Goto(t, IF old.ptr = top[t] THEN "push" ELSE "again")
           /\ UNCHANGED stack
  /\ UNCHANGED <<todo, p, n, nval, top, got, iter, history>>

Push(t) ==
  /\ pc[t] = "push"
  /\ \/ /\ next[List] = pval[t]
        /\ next' = Set(next, List, Plain(n[t])) /\ Return(t)
     \/ /\ next[List] # pval[t]
        /\ Goto(t, "again")
        /\ UNCHANGED <<next, todo, locals, iter, stack, found>>
  /\ UNCHANGED <<backlink, claims>>

-----------------------------------------------------------------------------
(* nblist_pop; its n always is n_ptr(p_val) *)

PopBegins(t) ==
  /\ pc[t] = "idle" /\ Job(t, "pop")
  /\ p' = Set(p, t, List) /\ pval' = Set(pval, t, next[List])
  /\ found' = Set(found, t, Linked)
  /\ Goto(t, "pop")
  /\ UNCHANGED <<shared, todo, n, nval, top, got, iter, stack, claims>>

\* Mutant: a dead node is passed, but a flagged one ends the walk.
PopEmptyMutant(t) ==
  /\ pc[t] = "pop" /\ (pval[t].ptr = Null \/ pval[t].flag)
  /\ Return(t)
  /\ UNCHANGED <<shared, claims>>

\* NULL is returned.
PopEmpty(t) ==
  /\ pc[t] = "pop" /\ pval[t].ptr = Null
  /\ Return(t)
  /\ UNCHANGED <<shared, claims>>

PopSkips(t) ==
  /\ pc[t] = "pop" /\ pval[t].ptr # Null /\ Bits(pval[t])
  /\ p' = Set(p, t, pval[t].ptr) /\ pval' = Set(pval, t, next[pval[t].ptr])
  /\ UNCHANGED <<shared, pc, todo, n, nval, top, got, iter, stack, history>>

PopFlags(t) ==
  /\ pc[t] = "pop" /\ pval[t].ptr # Null /\ ~Bits(pval[t])
  /\ \/ /\ next[p[t]] = pval[t]
        /\ next' = Set(next, p[t], Flagged(pval[t].ptr))
        /\ n' = Set(n, t, pval[t].ptr) /\ got' = Set(got, t, TRUE)
        /\ CallClearFlag(t, p[t], pval[t].ptr)
        /\ UNCHANGED pval
     \/ /\ next[p[t]] # pval[t]
        /\ pval' = Set(pval, t, next[p[t]])
        /\ UNCHANGED <<next, pc, n, got, stack>>
  /\ UNCHANGED <<backlink, todo, p, nval, top, iter, history>>

-----------------------------------------------------------------------------
(* nblist_del; its own n is pval[t].ptr, and n[t] is target *)

DelBegins(t) ==
  /\ pc[t] = "idle" /\ Job(t, "del")
  /\ \E x \in Pushed : n' = Set(n, t, x)
  /\ p' = Set(p, t, List) /\ pval' = Set(pval, t, next[List])
  /\ Goto(t, "del")
  /\ UNCHANGED <<shared, todo, nval, top, got, iter, stack, history>>

DelNotFound(t) ==
  /\ pc[t] = "del" /\ pval[t].ptr = Null
  /\ Return(t)
  /\ UNCHANGED <<shared, claims>>

\* On to the next node, from one whose next word is w.
DelGoesOn(t, w) ==
  /\ p' = Set(p, t, pval[t].ptr) /\ pval' = Set(pval, t, w)
  /\ Goto(t, "del")

DelLooks(t) ==
  /\ pc[t] = "del" /\ pval[t].ptr # Null
  /\ LET w == next[pval[t].ptr]
     IN IF w.mark /\ pval[t].flag
        THEN nval' = Set(nval, t, w) /\ Goto(t, "help") /\ UNCHANGED <<p, pval>>
        ELSE /\ IF pval[t].ptr = n[t] THEN Goto(t, "flag") /\ UNCHANGED <<p, pval>> ELSE DelGoesOn(t, w)
             /\ UNCHANGED nval
  /\ UNCHANGED <<shared, todo, n, top, got, iter, stack, history>>

\* Mutant: the walk goes on where it was, without loading p_val again.
DelHelpsMutant(t) ==
  /\ pc[t] = "help"
  /\ Rend(p[t], pval[t].ptr, nval[t])
  /\ IF pval[t].ptr = n[t]
     THEN Return(t)
     ELSE Goto(t, "del") /\ UNCHANGED <<todo, locals, iter, stack, found>>
  /\ UNCHANGED <<backlink, claims>>

\* The p_val loaded after rend_the_marked is overwritten at once.
DelHelps(t) ==
  /\ pc[t] = "help"
  /\ Rend(p[t], pval[t].ptr, nval[t])
  /\ IF pval[t].ptr = n[t]
     THEN Return(t)
     ELSE /\ DelGoesOn(t, nval[t])
          /\ nval' = Set(nval, t, Plain(Null))
          /\ UNCHANGED <<todo, n, top, got, iter, stack, found>>
  /\ UNCHANGED <<backlink, claims>>

-----------------------------------------------------------------------------
(* A sweep: nblist_first, nblist_next and nblist_del_at on one iterator *)

SweepBegins(t) ==
  /\ pc[t] = "idle" /\ Job(t, "sweep")
  /\ prev' = Set(prev, t, List) /\ cur' = Set(cur, t, next[List].ptr)
  /\ Goto(t, "skip")
  /\ UNCHANGED <<shared, todo, locals, stack, history>>

\* skip_dead_nodes; a sweep that gets to the end is over.
SkipDead(t) ==
  /\ pc[t] = "skip"
  /\ \/ /\ cur[t] = Null
        /\ Goto(t, "idle") /\ todo' = Set(todo, t, Tail(todo[t]))
        /\ prev' = Set(prev, t, Null) /\ UNCHANGED cur
     \/ /\ cur[t] # Null
        /\ IF next[cur[t]].mark THEN cur' = Set(cur, t, next[cur[t]].ptr) /\ UNCHANGED pc
                                ELSE Goto(t, "at") /\ UNCHANGED cur
        /\ UNCHANGED <<todo, prev>>
  /\ UNCHANGED <<shared, locals, stack, history>>

IterNext(t) ==
  /\ pc[t] = "at"
  /\ prev' = Set(prev, t, cur[t]) /\ cur' = Set(cur, t, next[cur[t]].ptr)
  /\ Goto(t, "skip")
  /\ UNCHANGED <<shared, todo, locals, stack, history>>

\* A call with prev = NULL, after another one, does nothing.
DelAt(t) ==
  /\ pc[t] = "at" /\ prev[t] # Null
  /\ ~next[cur[t]].mark
  /\ n' = Set(n, t, cur[t]) /\ p' = Set(p, t, prev[t])
  /\ Goto(t, "parent")
  /\ UNCHANGED <<shared, todo, pval, nval, top, got, iter, stack, history>>

DelAtParent(t) ==
  /\ pc[t] = "parent"
  /\ pval' = Set(pval, t, next[p[t]])
  /\ Goto(t, "flag")
  /\ UNCHANGED <<shared, todo, p, n, nval, top, got, iter, stack, history>>

-----------------------------------------------------------------------------
Running == \A t \in Threads : pc[t] # "abort"

Step(t) ==
  /\ Running
  /\ \/ TryFlag(t) \/ FollowBacklink(t) \/ WalkForward(t)
     \/ ClearBegins(t) \/ Mark(t) \/ CutOff(t)
     \/ LookAtTop(t) \/ PushLoad(t) \/ Push(t)
     \/ PopBegins(t) \/ PopEmpty(t) \/ PopSkips(t) \/ PopFlags(t)
     \/ DelBegins(t) \/ DelNotFound(t) \/ DelLooks(t) \/ DelHelps(t)
     \/ SweepBegins(t) \/ SkipDead(t) \/ IterNext(t) \/ DelAt(t) \/ DelAtParent(t)

Next == \E t \in Threads : Step(t)

Spec == Init /\ [][Next]_vars

\* A runnable thread gets to run.
FairSpec == Spec /\ \A t \in Threads : WF_vars(Step(t))

-----------------------------------------------------------------------------
(* Properties *)

\* The assertions of nblist.c: a node gets one back link only and has it before
\* it is marked, a marked node is never flagged, and the head is never marked
\* (lines 50, 80, 81, 95, 118, 131).  The one of line 59 may fail and end the
\* program, but only when the node that try_flag looks for has gone.
AssertionsHold ==
  /\ ~next[List].mark
  /\ \A x \in Nodes : next[x].mark => ~next[x].flag /\ backlink[x] # Null
  /\ \A t \in Threads :
       /\ pc[t] = "clear" => backlink[stack[t][1].n] \in {Null, stack[t][1].prev}
       /\ pc[t] = "rend" => nval[t].mark /\ ~nval[t].flag
       /\ pc[t] = "abort" => n[t] \notin Linked

\* The node is being removed or was.
Doomed(x) == next[x].mark \/ \E q \in Nodes \cup {List} : next[q] = Flagged(x)

\* nblist.h, nblist_del: a removal is reported to one caller only, and by then
\* the node has gone away; a deferred one is over when no call is in progress.
RemovedIsGone ==
  /\ \A x \in Nodes : claims[x] = 0 \/ (claims[x] = 1 /\ next[x].mark /\ x \notin Linked)
  /\ (\A t \in Threads : pc[t] \in {"idle", "at"}) => \A x \in Linked : ~Doomed(x)

\* A deletion answers false only if its node is being removed by somebody.
\* nblist_pop passes over what follows a dead node; it returns NULL only if
\* each node that was in the list when it began is such a one or is doomed.
FailuresAreHonest ==
  [][\A t \in Threads :
       /\ pc[t] = "pop" /\ pc'[t] = "idle" =>
            \A x \in found[t] : Doomed(x) \/ \E y \in Nodes : next[y] = Word(x, FALSE, TRUE)
       /\ pc[t] \in {"del", "help", "forward"} /\ pc'[t] \in {"idle", "at"} => Doomed(n[t])]_vars

\* The abstract list: the nodes of the chain that are not marked, and their order.
Alive == {x \in Linked : ~next[x].mark}
Before ==
  LET chain == Chain
  IN {pair \in Alive \X Alive : \E i, j \in DOMAIN chain : i < j /\ pair = <<chain[i], chain[j]>>}
L == INSTANCE NodeList WITH held <- Alive, before <- Before

\* A push adds its node in front, the step that marks a node removes it (the
\* code's clear_flag, whoever runs it), and no other step of any thread loses a
\* node, brings one back or changes the order.
ImplementsList == L!Spec

\* Every call returns, unless the program aborts.
AllCallsReturn == <>(~Running \/ \A t \in Threads : todo[t] = << >>)
=============================================================================
