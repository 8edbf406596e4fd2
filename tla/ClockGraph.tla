----------------------------- MODULE ClockGraph -----------------------------
(***************************************************************************)
(* The program linux-2023-summer/quiz2/main.c over the mutex and condition *)
(* variable of FutexSync: a chain of nodes counts the ticks of a clock     *)
(* like the digits of a binary counter.  Every second round a node ticks   *)
(* the clock, and every other round it signals the node after it, which    *)
(* waits for its parent before each of its own rounds.  main ticks once,   *)
(* waits until the clock shows 2^N_NODES, and stops it.                    *)
(*                                                                         *)
(* What a thread does between two calls of the synchronisation functions   *)
(* touches data that a mutex protects and is one step with the next call.  *)
(***************************************************************************)
EXTENDS FutexSync

CONSTANTS N,              \* N_NODES; node i has the parent i - 1
          Clock, Main     \* the clock's object and the main thread

Nodes == 1 .. N

ASSUME GraphAssumption ==
  /\ N \in Nat \ {0}
  /\ Clock \notin Nodes /\ Main \notin Nodes
  /\ Threads = Nodes \cup {Main} /\ Objects = Nodes \cup {Clock}

\* Arithmetic that the proofs use: the provers know ^ of numerals only.
ASSUME PowersAssumption == \A k \in 0 .. N : 2 ^ k \in Nat \ {0} /\ 2 ^ (k + 1) = 2 * 2 ^ k

VARIABLES ticks,      \* clock->ticks
          ready,      \* node->ready
          at,         \* where the thread is in thread_func or main
          goal        \* the argument of clock_wait: i of thread_func

clientVars == <<ticks, ready, at, goal>>
vars == <<syncVars, clientVars>>

Init ==
  /\ SyncInit
  /\ ticks = 0
  /\ ready = [n \in Nodes |-> FALSE]
  /\ at = [t \in Threads |-> IF t = Main THEN "tick" ELSE "waitClock"]
  /\ goal = [t \in Threads |-> IF t = Main THEN 2 ^ N ELSE 1]

Bit(t) == goal[t] % 2 = 0     \* bit is false in the first round
HasParent(t) == t # Main /\ t > 1

\* Thread t, inside no call, goes from one place of its program to the next.
From(t, place) == step[t] = "run" /\ at[t] = place
To(t, place) == at' = [at EXCEPT ![t] = place]

-----------------------------------------------------------------------------
(* clock_wait *)

LockToWait(t) ==
  /\ From(t, "waitClock") /\ To(t, "clockWait")
  /\ CallLock(t, Clock)
  /\ UNCHANGED <<ticks, ready, goal>>

KeepWaiting(t) == ticks >= 0 /\ ticks < goal[t]

WaitForTick(t) ==
  /\ From(t, "clockWait") /\ KeepWaiting(t)
  /\ CallWait(t, Clock)
  /\ UNCHANGED clientVars

\* What follows clock_wait when it returns true, and when it returns false.
AfterTrue(t) == IF t = Main THEN "stop"
                ELSE IF HasParent(t) THEN "waitParent"
                ELSE IF Bit(t) THEN "signal" ELSE "tick"
AfterFalse(t) == IF t = Main THEN "stop" ELSE "lastSignal"

ClockReached(t) ==
  /\ From(t, "clockWait") /\ ~KeepWaiting(t)
  /\ To(t, IF ticks >= goal[t] THEN AfterTrue(t) ELSE AfterFalse(t))
  /\ CallUnlock(t, Clock)
  /\ UNCHANGED <<ticks, ready, goal>>

-----------------------------------------------------------------------------
(* node_wait, for the parent *)

LockParent(t) ==
  /\ From(t, "waitParent") /\ To(t, "nodeWait")
  /\ CallLock(t, t - 1)
  /\ UNCHANGED <<ticks, ready, goal>>

WaitForParent(t) ==
  /\ From(t, "nodeWait") /\ ~ready[t - 1]
  /\ CallWait(t, t - 1)
  /\ UNCHANGED clientVars

\* Mutant: ready is not reset.
TakeSignalMutant(t) ==
  /\ From(t, "nodeWait") /\ ready[t - 1]
  /\ To(t, IF Bit(t) THEN "signal" ELSE "tick")
  /\ CallUnlock(t, t - 1)
  /\ UNCHANGED <<ticks, ready, goal>>

TakeSignal(t) ==
  /\ From(t, "nodeWait") /\ ready[t - 1]
  /\ ready' = [ready EXCEPT ![t - 1] = FALSE]
  /\ To(t, IF Bit(t) THEN "signal" ELSE "tick")
  /\ CallUnlock(t, t - 1)
  /\ UNCHANGED <<ticks, goal>>

-----------------------------------------------------------------------------
(* node_signal *)

LockSelf(t) ==
  /\ \/ From(t, "signal") /\ To(t, "setReady")
     \/ From(t, "lastSignal") /\ To(t, "setLastReady")
  /\ CallLock(t, t)
  /\ UNCHANGED <<ticks, ready, goal>>

SetReady(t) ==
  /\ \/ From(t, "setReady") /\ To(t, "notify")
     \/ From(t, "setLastReady") /\ To(t, "lastNotify")
  /\ ready' = [ready EXCEPT ![t] = TRUE]
  /\ CallUnlock(t, t)
  /\ UNCHANGED <<ticks, goal>>

\* A round of thread_func ends.
NextRound(t) == To(t, "waitClock") /\ goal' = [goal EXCEPT ![t] = @ + 1]

SignalNode(t) ==
  /\ \/ From(t, "notify") /\ NextRound(t)
     \/ From(t, "lastNotify") /\ To(t, "done") /\ UNCHANGED goal
  /\ CallSignal(t, t)
  /\ UNCHANGED <<ticks, ready>>

-----------------------------------------------------------------------------
(* clock_tick and clock_stop *)

LockClock(t) ==
  /\ \/ From(t, "tick") /\ To(t, "addTick")
     \/ From(t, "stop") /\ To(t, "setStopped")
  /\ CallLock(t, Clock)
  /\ UNCHANGED <<ticks, ready, goal>>

SetTicks(t) ==
  /\ \/ /\ From(t, "addTick") /\ To(t, "broadcastTick")
        /\ ticks' = IF ticks >= 0 THEN ticks + 1 ELSE ticks
     \/ /\ From(t, "setStopped") /\ To(t, "broadcastStop")
        /\ ticks' = -1
  /\ CallUnlock(t, Clock)
  /\ UNCHANGED <<ready, goal>>

BroadcastClock(t) ==
  /\ \/ /\ From(t, "broadcastTick")
        /\ IF t = Main THEN To(t, "waitClock") /\ UNCHANGED goal ELSE NextRound(t)
     \/ From(t, "broadcastStop") /\ To(t, "done") /\ UNCHANGED goal
  /\ CallBroadcast(t, Clock)
  /\ UNCHANGED <<ticks, ready>>

-----------------------------------------------------------------------------
ClientStep(t) ==
  \/ LockToWait(t) \/ WaitForTick(t) \/ ClockReached(t)
  \/ LockParent(t) \/ WaitForParent(t) \/ TakeSignal(t)
  \/ LockSelf(t) \/ SetReady(t) \/ SignalNode(t)
  \/ LockClock(t) \/ SetTicks(t) \/ BroadcastClock(t)

InCall(t) == SyncStep(t) /\ UNCHANGED clientVars

Next == \E t \in Threads : ClientStep(t) \/ InCall(t)

Spec == Init /\ [][Next]_vars

\* The operating system runs every thread that is not asleep on a futex.
Fairness == \A t \in Threads : WF_vars(ClientStep(t) \/ InCall(t))

FairSpec == Spec /\ Fairness
-----------------------------------------------------------------------------
(* Properties; those of FutexSync are checked of this program too *)

\* ready is a single flag, yet no signal of a parent is lost by a second one:
\* the parent cannot come round again before the child has taken the first.
\* The counter never passes the value main waits for.
CounterExact ==
  /\ \A t \in Nodes : From(t, "setReady") /\ ticks # -1 => ~ready[t]
  /\ ticks <= 2 ^ N

\* clock_wait and node_wait return for good, and every thread ends.
AllThreadsFinish == <>(\A t \in Threads : at[t] = "done" /\ step[t] = "run")
-----------------------------------------------------------------------------
(* The inductive invariant behind the properties of FutexSync in this program *)

ClockPlaces == {"waitClock", "clockWait", "tick", "addTick", "broadcastTick", "stop",
                "setStopped", "broadcastStop", "done"}
ParentPlaces == {"waitParent", "nodeWait"}
SignalPlaces == {"signal", "setReady", "notify", "lastSignal", "setLastReady", "lastNotify"}

TypeOK ==
  /\ SyncTypeOK
  /\ at \in [Threads -> ClockPlaces \cup ParentPlaces \cup SignalPlaces]
  /\ \A t \in Threads : /\ at[t] \in ParentPlaces => t \in 2 .. N
                        /\ at[t] \in SignalPlaces => t \in Nodes

\* The places where a thread has called mutex_lock and not yet mutex_unlock,
\* and the object it called it for.
WaitPlaces == {"clockWait", "nodeWait"}
CriticalPlaces == WaitPlaces \cup {"addTick", "setStopped", "setReady", "setLastReady"}

ObjectOf(t) == IF at[t] \in ClockPlaces THEN Clock
               ELSE IF at[t] \in ParentPlaces THEN t - 1 ELSE t

\* The clients keep to the rules: they unlock what they hold, wait with the
\* mutex held, and do not signal while they hold it.
Disciplined(t) ==
  /\ at[t] \in CriticalPlaces =>
       /\ step[t] \notin {"wake", "signal", "broadcast"}
       /\ obj[t] = ObjectOf(t)
       /\ step[t] = "run" => t \in holders[obj[t]]
  /\ at[t] \notin CriticalPlaces => step[t] \in {"run", "wake", "signal", "broadcast"}
  /\ step[t] \in {"wakeThenSpin", "spin", "condFutexWait", "sleepCond"} => at[t] \in WaitPlaces
  /\ step[t] \in {"signal", "broadcast"} => (step[t] = "broadcast") = (obj[t] = Clock)

Discipline == \A t \in Threads : Disciplined(t)

IInv == TypeOK /\ Discipline /\ QueuesOK /\ RelockedHolds /\ MutualExclusion /\ NotifiedInTime
-----------------------------------------------------------------------------
(* The inductive invariant behind CounterExact, of the time before clock_stop. *)
(* One tick or signal is on its way: whoever has it passes it on, and nobody   *)
(* else can.                                                                   *)

Stopped == ticks = -1

\* Node t has what it waited for in this round, and has passed it on or not.
TurnPlaces == {"signal", "setReady", "tick", "addTick"}
InRound(t) == at[t] \in TurnPlaces \cup {"notify", "broadcastTick"}

MainTurn == at[Main] \in {"tick", "addTick"}
NodeTurn(t) == at[t] \in TurnPlaces

\* The rounds of node t that got what they waited for, and those in which it signalled.
Begun(t) == IF InRound(t) THEN goal[t] ELSE goal[t] - 1
Signalled(t) == IF at[t] = "notify" THEN goal[t] \div 2 ELSE (goal[t] - 1) \div 2
BegunByChild(t) == IF t < N THEN Begun(t + 1) ELSE 0

ClockTurn == ticks > Begun(1)

CounterTypeOK ==
  /\ ticks \in Nat \cup {-1}
  /\ ready \in [Nodes -> BOOLEAN]
  /\ goal \in [Threads -> Nat \ {0}]

EndPlaces == {"lastSignal", "setLastReady", "lastNotify", "stop", "setStopped", "broadcastStop", "done"}

\* Odd rounds tick and even ones signal; the last signal is for after the stop.
RoundsAlternate ==
  \A t \in Nodes : /\ at[t] \in {"signal", "setReady", "notify"} => Bit(t)
                   /\ at[t] \in {"tick", "addTick", "broadcastTick"} => ~Bit(t)
                   /\ at[t] \notin EndPlaces

OneTurn ==
  /\ MainTurn => ~ClockTurn /\ \A t \in Nodes : ~NodeTurn(t) /\ ~ready[t]
  /\ ClockTurn => \A t \in Nodes : ~NodeTurn(t) /\ ~ready[t]
  /\ \A t, u \in Nodes : /\ NodeTurn(t) => ~ready[u]
                         /\ NodeTurn(t) /\ NodeTurn(u) => t = u
                         /\ ready[t] /\ ready[u] => t = u

\* Every tick is for one round of node 1, every signal for one of the child.
NothingLost ==
  /\ Begun(1) <= ticks /\ ticks <= Begun(1) + 1
  /\ \A t \in Nodes : Signalled(t) = BegunByChild(t) + (IF ready[t] THEN 1 ELSE 0)

\* While the turn is with node t, the bits below are zero.
CarriesRipple ==
  \A t, u \in Nodes : (NodeTurn(t) /\ u < t) \/ (ready[t] /\ u <= t) => Begun(u) = 2 * Signalled(u)

CounterInv ==
  /\ CounterTypeOK
  /\ ~Stopped => RoundsAlternate /\ OneTurn /\ NothingLost /\ CarriesRipple
=============================================================================
