-------------------------- MODULE ClockGraphProofs --------------------------
(***************************************************************************)
(* First what the calls and steps of FutexSync preserve, for every client  *)
(* that unlocks and waits only with the mutex held: one lemma per          *)
(* invariant and kind of step.  Then that the program of ClockGraph is     *)
(* such a client, for every number of nodes, and so what its mutexes and   *)
(* its condition variable guarantee it.                                    *)
(***************************************************************************)
EXTENDS ClockGraph, FiniteSetTheorems, WellFoundedInduction, TLAPS

-----------------------------------------------------------------------------
(* The calls of the mutex and the condition variable *)

\* How a client enters a call: from outside any call, and with the mutex held
\* for mutex_unlock and cond_wait.
Enter(t, o) ==
  /\ step[t] = "run"
  /\ \/ CallLock(t, o) \/ CallSignal(t, o) \/ CallBroadcast(t, o)
     \/ t \in holders[o] /\ (CallUnlock(t, o) \/ CallWait(t, o))

\* futex_wake wakes somebody if it may and somebody sleeps.
LEMMA ChosenNonempty ==
  ASSUME NEW Q, NEW limit \in Nat, NEW ts \in Chosen(Q, limit)
  PROVE  ts \subseteq Q /\ (limit # 0 /\ Q # {} => ts # {})
BY FS_EmptySet DEF Chosen

-----------------------------------------------------------------------------
(* Types *)

LEMMA EnterTypes ==
  ASSUME SyncTypeOK, NEW t \in Threads, NEW o \in Objects, Enter(t, o)
  PROVE  SyncTypeOK'
<1> USE DEF SyncTypeOK, Goto, futexVars, Steps, Bits
<1>1. CASE CallLock(t, o)
  BY <1>1 DEF CallLock
<1>2. CASE CallUnlock(t, o)
  BY <1>2 DEF CallUnlock, Unlock
<1>3. CASE CallWait(t, o)
  BY <1>3 DEF CallWait, Unlock
<1>4. CASE CallSignal(t, o)
  BY <1>4 DEF CallSignal, CallNotify
<1>5. CASE CallBroadcast(t, o)
  BY <1>5 DEF CallBroadcast, CallNotify
<1> QED
  BY <1>1, <1>2, <1>3, <1>4, <1>5 DEF Enter

LEMMA StepTypes ==
  ASSUME SyncTypeOK, NEW t \in Threads, SyncStep(t)
  PROVE  SyncTypeOK'
<1> USE DEF SyncTypeOK, Goto, futexVars, Steps, Bits
<1>1. CASE TryLock(t)
  BY <1>1 DEF TryLock, Locked
<1>2. CASE StopSpinning(t)
  BY <1>2 DEF StopSpinning
<1>3. CASE Exchange(t)
  <2>1. CASE "LOCKED" \in state[obj[t]]
    BY <1>3, <2>1 DEF Exchange
  <2>2. CASE "LOCKED" \notin state[obj[t]]
    BY <1>3, <2>2 DEF Exchange, Locked
  <2> QED
    BY <2>1, <2>2
<1>4. CASE MutexFutexWait(t)
  BY <1>4 DEF MutexFutexWait
<1>5. CASE Wake(t)
  BY <1>5 DEF Wake, GotoAndWake, Chosen
<1>6. CASE Spin(t)
  BY <1>6 DEF Spin
<1>7. CASE CondFutexWait(t)
  <2>1. CASE seq[obj[t]] = seen[t]
    BY <1>7, <2>1 DEF CondFutexWait
  <2>2. CASE seq[obj[t]] # seen[t]
    BY <1>7, <2>2 DEF CondFutexWait
  <2> QED
    BY <2>1, <2>2
<1>8. CASE Relocked(t)
  BY <1>8, FlagsAssumption DEF Relocked
<1>9. CASE Notify(t)
  <2>1. PICK ts : GotoAndWake(t, "run", ts)
    BY <1>9 DEF Notify
  <2>2. step' \in [Threads -> Steps] /\ relock' \in [Threads -> BOOLEAN]
    BY <2>1 DEF GotoAndWake
  <2>3. mutexQueue' \in [Objects -> SUBSET Threads] /\ condQueue' \in [Objects -> SUBSET Threads]
    BY <1>9 DEF Notify
  <2> QED
    BY <1>9, <2>2, <2>3 DEF Notify
<1> QED
  BY <1>1, <1>2, <1>3, <1>4, <1>5, <1>6, <1>7, <1>8, <1>9 DEF SyncStep
-----------------------------------------------------------------------------
(* The queues *)

\* Entering a call leaves the queues alone and moves no sleeper.
LEMMA EnterQueues ==
  ASSUME SyncTypeOK, QueuesOK, NEW t \in Threads, NEW o \in Objects, Enter(t, o)
  PROVE  QueuesOK'
<1>1. UNCHANGED <<mutexQueue, condQueue>>
  BY DEF Enter, CallLock, CallSignal, CallBroadcast, CallNotify, CallUnlock, CallWait, Unlock, futexVars
<1>2. \A u \in Threads \ {t} : step'[u] = step[u] /\ obj'[u] = obj[u]
  BY DEF SyncTypeOK, Enter, CallLock, CallSignal, CallBroadcast, CallNotify, CallUnlock, CallWait, Unlock, Goto
<1>3. \A p \in Objects : t \notin mutexQueue[p] /\ t \notin condQueue[p]
  BY DEF Enter, QueuesOK
<1>4. \A p \in Objects : mutexQueue[p] \subseteq Threads /\ condQueue[p] \subseteq Threads
  BY DEF SyncTypeOK
<1> QED
  BY <1>1, <1>2, <1>3, <1>4 DEF QueuesOK

LEMMA StepQueues ==
  ASSUME SyncTypeOK, QueuesOK, NEW t \in Threads, SyncStep(t)
  PROVE  QueuesOK'
<1> USE DEF SyncTypeOK
<1>1. CASE TryLock(t) \/ StopSpinning(t) \/ Exchange(t) \/ Spin(t) \/ Relocked(t)
  <2>1. UNCHANGED <<mutexQueue, condQueue, obj>>
    BY <1>1 DEF TryLock, StopSpinning, Exchange, Spin, Relocked, futexVars
  <2>2. \A u \in Threads \ {t} : step'[u] = step[u]
    BY <1>1 DEF TryLock, StopSpinning, Exchange, Spin, Relocked, Locked, Goto
  <2>3. \A p \in Objects : t \notin mutexQueue[p] /\ t \notin condQueue[p]
    BY <1>1 DEF QueuesOK, TryLock, StopSpinning, Exchange, Spin, Relocked
  <2> QED
    BY <2>1, <2>2, <2>3 DEF QueuesOK
<1>2. CASE MutexFutexWait(t)
  <2>1. \A p \in Objects : t \notin mutexQueue[p] /\ t \notin condQueue[p]
    BY <1>2 DEF QueuesOK, MutexFutexWait
  <2>2. UNCHANGED <<condQueue, obj>> /\ \A u \in Threads \ {t} : step'[u] = step[u]
    BY <1>2 DEF MutexFutexWait, Goto
  <2>3. CASE state[obj[t]] = Bits
    <3>1. step'[t] = "sleepMutex"
      BY <1>2, <2>3 DEF MutexFutexWait, Goto
    <3> QED
      BY <1>2, <2>1, <2>2, <2>3, <3>1 DEF QueuesOK, MutexFutexWait
  <2>4. CASE state[obj[t]] # Bits
    BY <1>2, <2>1, <2>2, <2>4 DEF QueuesOK, MutexFutexWait
  <2> QED
    BY <2>3, <2>4
<1>3. CASE CondFutexWait(t)
  <2>1. \A p \in Objects : t \notin mutexQueue[p] /\ t \notin condQueue[p]
    BY <1>3 DEF QueuesOK, CondFutexWait
  <2>2. UNCHANGED <<mutexQueue, obj>> /\ \A u \in Threads \ {t} : step'[u] = step[u]
    BY <1>3 DEF CondFutexWait, Goto
  <2>3. CASE seq[obj[t]] = seen[t]
    <3>1. step'[t] = "sleepCond"
      BY <1>3, <2>3 DEF CondFutexWait, Goto
    <3> QED
      BY <1>3, <2>1, <2>2, <2>3, <3>1 DEF QueuesOK, CondFutexWait
  <2>4. CASE seq[obj[t]] # seen[t]
    BY <1>3, <2>1, <2>2, <2>4 DEF QueuesOK, CondFutexWait
  <2> QED
    BY <2>3, <2>4
<1>4. CASE Wake(t)
  <2>1. PICK ts \in Chosen(mutexQueue[obj[t]], 1) :
           /\ mutexQueue' = [mutexQueue EXCEPT ![obj[t]] = @ \ ts]
           /\ GotoAndWake(t, IF step[t] = "wake" THEN "run" ELSE "spin", ts)
    BY <1>4 DEF Wake
  <2>2. /\ UNCHANGED <<condQueue, obj>> /\ ts \subseteq mutexQueue[obj[t]]
        /\ \A u \in Threads \ (ts \cup {t}) : step'[u] = step[u]
    BY <1>4, <2>1 DEF Wake, Chosen, GotoAndWake
  <2>3. \A p \in Objects : t \notin mutexQueue[p] /\ t \notin condQueue[p]
    BY <1>4 DEF QueuesOK, Wake
  <2>4. \A p \in Objects : ts \cap mutexQueue'[p] = {} /\ ts \cap condQueue'[p] = {}
    BY <2>1, <2>2 DEF QueuesOK
  <2> QED
    BY <2>1, <2>2, <2>3, <2>4 DEF QueuesOK
<1>5. CASE Notify(t)
  <2> DEFINE o == obj[t]
  <2>1. PICK limit, ts :
           /\ ts \in Chosen(condQueue[o], limit)
           /\ \/ /\ condQueue' = [condQueue EXCEPT ![o] = @ \ ts] /\ UNCHANGED mutexQueue
              \/ /\ condQueue' = [condQueue EXCEPT ![o] = {}]
                 /\ mutexQueue' = [mutexQueue EXCEPT ![o] = @ \cup (condQueue[o] \ ts)]
           /\ \A u \in Threads \ (ts \cup {t}) : step'[u] = step[u]
    BY <1>5 DEF Notify, GotoAndWake
  <2>2. UNCHANGED obj /\ ts \subseteq condQueue[o]
    BY <1>5, <2>1 DEF Notify, Chosen
  <2>3. \A p \in Objects : t \notin mutexQueue[p] /\ t \notin condQueue[p]
    BY <1>5 DEF QueuesOK, Notify
  <2>4. \A p \in Objects : ts \cap mutexQueue'[p] = {} /\ ts \cap condQueue'[p] = {}
    BY <2>1, <2>2 DEF QueuesOK
  <2>5. \A p \in Objects : /\ condQueue'[p] \subseteq condQueue[p]
                           /\ mutexQueue'[p] \subseteq mutexQueue[p] \cup condQueue[p]
                           /\ mutexQueue'[p] \cap condQueue'[p] = {}
    BY <2>1, <2>2, o \in Objects DEF QueuesOK
  <2>6. \A p \in Objects : \A u \in mutexQueue'[p] \cup condQueue'[p] : step'[u] = step[u]
    BY <2>1, <2>3, <2>4, <2>5
  <2> QED
    BY <2>2, <2>5, <2>6 DEF QueuesOK
<1> QED
  BY <1>1, <1>2, <1>3, <1>4, <1>5 DEF SyncStep
-----------------------------------------------------------------------------
(* Mutual exclusion *)

LEMMA EnterExclusion ==
  ASSUME SyncTypeOK, RelockedHolds, MutualExclusion,
         NEW t \in Threads, NEW o \in Objects, Enter(t, o)
  PROVE  RelockedHolds' /\ MutualExclusion'
<1> USE DEF SyncTypeOK
<1>1. \A u \in Threads \ {t} : step'[u] = step[u] /\ obj'[u] = obj[u]
  BY DEF Enter, CallLock, CallSignal, CallBroadcast, CallNotify, CallUnlock, CallWait, Unlock, Goto
<1>2. step'[t] # "relocked"
  BY DEF Enter, CallLock, CallSignal, CallBroadcast, CallNotify, CallUnlock, CallWait, Unlock, Goto
<1>3. CASE CallLock(t, o) \/ CallSignal(t, o) \/ CallBroadcast(t, o)
  <2>1. UNCHANGED <<state, holders>>
    BY <1>3 DEF CallLock, CallSignal, CallBroadcast, CallNotify, futexVars
  <2> QED
    BY <1>1, <1>2, <2>1 DEF RelockedHolds, MutualExclusion
<1>4. CASE t \in holders[o] /\ (CallUnlock(t, o) \/ CallWait(t, o))
  <2>1. /\ state' = [state EXCEPT ![o] = {}]
        /\ holders' = [holders EXCEPT ![o] = @ \ {t}]
    BY <1>4 DEF CallUnlock, CallWait, Unlock
  <2>2. holders'[o] = {}
    BY <1>4, <2>1 DEF MutualExclusion
  <2>3. \A p \in Objects \ {o} : holders'[p] = holders[p] /\ state'[p] = state[p]
    BY <2>1
  <2>4. \A u \in Threads \ {t}, p \in Objects : u \in holders[p] => u \in holders'[p]
    BY <2>1
  <2>5. MutualExclusion'
    BY <2>2, <2>3 DEF MutualExclusion
  <2>6. RelockedHolds'
    BY <1>1, <1>2, <2>4 DEF RelockedHolds
  <2> QED
    BY <2>5, <2>6
<1> QED
  BY <1>3, <1>4 DEF Enter

LEMMA StepExclusion ==
  ASSUME SyncTypeOK, QueuesOK, RelockedHolds, MutualExclusion, NEW t \in Threads, SyncStep(t)
  PROVE  RelockedHolds' /\ MutualExclusion'
<1> USE DEF SyncTypeOK
<1>1. UNCHANGED obj
  BY DEF SyncStep, TryLock, StopSpinning, Exchange, MutexFutexWait, Wake, Spin, CondFutexWait, Relocked, Notify
<1>2. CASE TryLock(t) \/ (Exchange(t) /\ "LOCKED" \notin state[obj[t]])
  <2>1. /\ Locked(t) /\ "LOCKED" \in state'[obj[t]] /\ "LOCKED" \notin state[obj[t]]
        /\ \A p \in Objects \ {obj[t]} : state'[p] = state[p]
    BY <1>2 DEF TryLock, Exchange, Bits
  <2>2. holders[obj[t]] = {}
    BY <2>1 DEF MutualExclusion
  <2>3. holders'[obj[t]] = {t} /\ \A p \in Objects \ {obj[t]} : holders'[p] = holders[p]
    BY <2>1, <2>2 DEF Locked
  <2>4. \A u \in Threads \ {t} : step'[u] = step[u]
    BY <2>1 DEF Locked, Goto
  <2>5. MutualExclusion'
    BY <2>1, <2>3 DEF MutualExclusion
  <2>6. RelockedHolds'
    BY <1>1, <2>2, <2>3, <2>4 DEF RelockedHolds
  <2> QED
    BY <2>5, <2>6
<1>3. CASE Exchange(t) /\ "LOCKED" \in state[obj[t]]
  <2>1. UNCHANGED holders /\ \A u \in Threads : step'[u] = "relocked" => step[u] = "relocked"
    BY <1>3 DEF Exchange, Goto
  <2>2. \A p \in Objects : "LOCKED" \in state[p] => "LOCKED" \in state'[p]
    BY <1>3 DEF Exchange, Bits
  <2> QED
    BY <1>1, <2>1, <2>2 DEF RelockedHolds, MutualExclusion
<1>4. CASE Relocked(t)
  <2>1. UNCHANGED holders /\ \A u \in Threads : step'[u] = "relocked" => step[u] = "relocked"
    BY <1>4 DEF Relocked, Goto
  <2>2. \A p \in Objects : "LOCKED" \in state[p] => "LOCKED" \in state'[p]
    BY <1>4 DEF Relocked
  <2> QED
    BY <1>1, <2>1, <2>2 DEF RelockedHolds, MutualExclusion
<1>5. CASE StopSpinning(t) \/ MutexFutexWait(t) \/ Spin(t) \/ CondFutexWait(t)
  <2>1. /\ UNCHANGED <<state, holders>>
        /\ \A u \in Threads : step'[u] = "relocked" => step[u] = "relocked"
    BY <1>5 DEF StopSpinning, MutexFutexWait, Spin, CondFutexWait, futexVars, Goto
  <2> QED
    BY <1>1, <2>1 DEF RelockedHolds, MutualExclusion
<1>6. CASE Wake(t) \/ Notify(t)
  <2>1. PICK label, ts : GotoAndWake(t, label, ts) /\ label # "relocked"
    BY <1>6 DEF Wake, Notify
  <2>2. /\ UNCHANGED <<state, holders>>
        /\ \A u \in Threads : step'[u] = "relocked" => step[u] = "relocked"
    BY <1>6, <2>1 DEF Wake, Notify, GotoAndWake
  <2> QED
    BY <1>1, <2>2 DEF RelockedHolds, MutualExclusion
<1> QED
  BY <1>2, <1>3, <1>4, <1>5, <1>6 DEF SyncStep

-----------------------------------------------------------------------------
(* Sleepers on a mutex *)

LEMMA EnterWaker ==
  ASSUME SyncTypeOK, SleeperHasWaker, NEW t \in Threads, NEW o \in Objects, Enter(t, o)
  PROVE  SleeperHasWaker'
<1> USE DEF SyncTypeOK
<1>1. UNCHANGED <<mutexQueue, relock>>
  BY DEF Enter, CallLock, CallSignal, CallBroadcast, CallNotify, CallUnlock, CallWait, Unlock, futexVars
<1>2. \A u \in Threads \ {t} : step'[u] = step[u] /\ obj'[u] = obj[u]
  BY DEF Enter, CallLock, CallSignal, CallBroadcast, CallNotify, CallUnlock, CallWait, Unlock, Goto
<1>3. \A u \in Threads \ {t} : WillWake(u) => WillWake(u)'
  BY <1>1, <1>2 DEF WillWake
<1>4. ~WillWake(t)
  BY DEF WillWake, Enter
<1>5. SUFFICES ASSUME NEW p \in Objects, mutexQueue[p] # {}
               PROVE  state'[p] = Bits \/ \E u \in Threads : obj'[u] = p /\ WillWake(u)'
  BY <1>1 DEF SleeperHasWaker, Bits
<1>6. CASE \E u \in Threads : obj[u] = p /\ WillWake(u)
  BY <1>2, <1>3, <1>4, <1>6
<1>7. CASE state[p] = Bits /\ state'[p] = state[p]
  BY <1>7
<1>8. CASE state[p] = Bits /\ state'[p] # state[p]
  <2>1. CallUnlock(t, o) \/ CallWait(t, o)
    BY <1>8 DEF Enter, CallLock, CallSignal, CallBroadcast, CallNotify, futexVars
  <2>2. p = o
    BY <1>8, <2>1 DEF CallUnlock, CallWait, Unlock
  <2>3. "SLEEPING" \in state[o]
    BY <1>8, <2>2 DEF Bits
  <2>4. obj'[t] = o /\ step'[t] \in {"wake", "wakeThenSpin"}
    BY <2>1, <2>3 DEF CallUnlock, CallWait, Unlock, Goto
  <2> QED
    BY <2>2, <2>4 DEF WillWake
<1> QED
  BY <1>5, <1>6, <1>7, <1>8 DEF SleeperHasWaker
\* The step of a thread that is about to wake a sleeper or set the bit does so
\* or leaves the duty to itself or to a thread it wakes.  AAAA must contain
\* MUTEX_SLEEPING, and cond_broadcast must wake a thread.
LEMMA StepWaker ==
  ASSUME "SLEEPING" \in RelockFlags, BroadcastWakes # 0,
         SyncTypeOK, QueuesOK, RelockedHolds, MutualExclusion, SleeperHasWaker,
         NEW t \in Threads, SyncStep(t)
  PROVE  SleeperHasWaker'
<1> USE DEF SyncTypeOK
<1> DEFINE o == obj[t]
<1>1. UNCHANGED obj
  BY DEF SyncStep, TryLock, StopSpinning, Exchange, MutexFutexWait, Wake, Spin, CondFutexWait, Relocked, Notify
<1>2. ASSUME UNCHANGED mutexQueue, \A p \in Objects : state[p] = Bits => state'[p] = Bits,
             \A u \in Threads : WillWake(u) => WillWake(u)' \/ state'[obj[u]] = Bits
      PROVE  SleeperHasWaker'
  BY <1>1, <1>2 DEF SleeperHasWaker, Bits
<1>3. CASE TryLock(t)
  <2>1. UNCHANGED <<mutexQueue, relock>> /\ \A u \in Threads \ {t} : step'[u] = step[u]
    BY <1>3 DEF TryLock, Locked, Goto
  <2>2. \A p \in Objects : state[p] = Bits => state'[p] = Bits
    BY <1>3 DEF TryLock, Bits
  <2>3. WillWake(t) => relock[t]
    BY <1>3 DEF TryLock, WillWake
  <2>4. relock[t] => step'[t] = "relocked"
    BY <1>3 DEF TryLock, Locked, Goto
  <2>5. WillWake(t) => WillWake(t)'
    BY <2>3, <2>4 DEF WillWake
  <2>6. \A u \in Threads \ {t} : WillWake(u) => WillWake(u)'
    BY <2>1 DEF WillWake
  <2> QED
    BY <1>2, <2>1, <2>2, <2>5, <2>6
<1>4. CASE StopSpinning(t)
  <2>1. /\ UNCHANGED <<mutexQueue, relock, state>> /\ \A u \in Threads \ {t} : step'[u] = step[u]
        /\ step'[t] = "exchange"
    BY <1>4 DEF StopSpinning, Goto, futexVars
  <2>2. \A u \in Threads : WillWake(u) => WillWake(u)'
    BY <2>1 DEF WillWake
  <2> QED
    BY <1>2, <2>1, <2>2
<1>5. CASE Exchange(t)
  <2>1. /\ UNCHANGED <<mutexQueue, relock>> /\ \A u \in Threads \ {t} : step'[u] = step[u]
        /\ state' = [state EXCEPT ![o] = Bits]
    BY <1>5 DEF Exchange, Locked, Goto
  <2>2. \A u \in Threads \ {t} : WillWake(u) => WillWake(u)'
    BY <2>1 DEF WillWake
  <2> QED
    BY <1>2, <2>1, <2>2
<1>6. CASE MutexFutexWait(t)
  <2>1. /\ UNCHANGED <<state, relock>> /\ \A u \in Threads \ {t} : step'[u] = step[u]
    BY <1>6 DEF MutexFutexWait, Goto
  <2>2. \A u \in Threads \ {t} : WillWake(u) => WillWake(u)'
    BY <2>1 DEF WillWake
  <2>3. CASE state[o] = Bits
    <3>1. \A p \in Objects \ {o} : mutexQueue'[p] = mutexQueue[p]
      BY <1>6, <2>3 DEF MutexFutexWait
    <3> QED
      BY <1>1, <2>1, <2>2, <2>3, <3>1 DEF SleeperHasWaker, Bits
  <2>4. CASE state[o] # Bits
    <3>1. UNCHANGED mutexQueue /\ step'[t] = "exchange"
      BY <1>6, <2>4 DEF MutexFutexWait, Goto
    <3> QED
      BY <1>2, <2>1, <2>2, <3>1 DEF WillWake
  <2> QED
    BY <2>3, <2>4
<1>7. CASE Wake(t)
  <2>1. PICK ts \in Chosen(mutexQueue[o], 1) :
           /\ mutexQueue' = [mutexQueue EXCEPT ![o] = @ \ ts]
           /\ GotoAndWake(t, IF step[t] = "wake" THEN "run" ELSE "spin", ts)
    BY <1>7 DEF Wake
  <2>2. UNCHANGED state /\ t \notin ts
    BY <1>7, <2>1, ChosenNonempty DEF Wake, QueuesOK
  <2>3. ASSUME NEW w \in ts PROVE obj[w] = o /\ WillWake(w)'
    <3>1. w \in Threads /\ obj[w] = o /\ step[w] \in {"sleepMutex", "sleepCond"}
      BY <2>1, ChosenNonempty DEF QueuesOK
    <3>2. CASE step[w] = "sleepMutex"
      <4>1. step'[w] = "exchange"
        BY <2>1, <2>2, <3>1, <3>2 DEF GotoAndWake
      <4> QED
        BY <3>1, <4>1 DEF WillWake
    <3>3. CASE step[w] = "sleepCond"
      <4>1. step'[w] = "lock"
        BY <2>1, <2>2, <3>1, <3>3 DEF GotoAndWake
      <4>2. relock'[w]
        BY <2>1, <3>1, <3>3 DEF GotoAndWake
      <4> QED
        BY <3>1, <4>1, <4>2 DEF WillWake
    <3> QED
      BY <3>1, <3>2, <3>3
  <2>4. ASSUME NEW u \in Threads \ {t}, WillWake(u) PROVE WillWake(u)'
    <3>1. step[u] \notin {"sleepMutex", "sleepCond"}
      BY <2>4 DEF WillWake
    <3>2. u \notin ts
      BY <2>1, <3>1, ChosenNonempty DEF QueuesOK
    <3>3. step'[u] = step[u]
      BY <2>1, <3>2 DEF GotoAndWake
    <3>4. relock'[u] <=> relock[u]
      BY <2>1, <3>2 DEF GotoAndWake
    <3> QED
      BY <2>4, <3>3, <3>4 DEF WillWake
  <2>5. mutexQueue'[o] # {} => ts # {}
    BY <2>1, ChosenNonempty
  <2>6. ts \subseteq Threads
    BY <2>1, ChosenNonempty
  <2>7. ASSUME NEW p \in Objects \ {o}, mutexQueue'[p] # {}
        PROVE  state'[p] = Bits \/ \E u \in Threads : obj'[u] = p /\ WillWake(u)'
    BY <1>1, <2>1, <2>2, <2>4, <2>7 DEF SleeperHasWaker
  <2>8. mutexQueue'[o] # {} => \E u \in Threads : obj'[u] = o /\ WillWake(u)'
    BY <1>1, <2>3, <2>5, <2>6
  <2> QED
    BY <2>7, <2>8 DEF SleeperHasWaker, Bits
<1>8. CASE Spin(t) \/ CondFutexWait(t)
  <2>1. UNCHANGED <<mutexQueue, state>> /\ \A u \in Threads \ {t} : step'[u] = step[u] /\ (relock'[u] <=> relock[u])
    BY <1>8 DEF Spin, CondFutexWait, Goto, futexVars
  <2>2. ~WillWake(t)
    BY <1>8 DEF Spin, CondFutexWait, WillWake
  <2>3. \A u \in Threads \ {t} : WillWake(u) => WillWake(u)'
    BY <2>1 DEF WillWake
  <2> QED
    BY <1>2, <2>1, <2>2, <2>3
<1>9. CASE Relocked(t)
  <2>1. UNCHANGED mutexQueue /\ \A u \in Threads \ {t} : step'[u] = step[u] /\ (relock'[u] <=> relock[u])
    BY <1>9 DEF Relocked, Goto
  <2>2. \A p \in Objects : state[p] = Bits => state'[p] = Bits
    BY <1>9, FlagsAssumption DEF Relocked, Bits
  <2>3. "LOCKED" \in state[o]
    BY <1>9 DEF Relocked, RelockedHolds, MutualExclusion
  <2>4. state'[o] = Bits
    BY <1>9, <2>3, FlagsAssumption DEF Relocked, Bits
  <2>5. \A u \in Threads \ {t} : WillWake(u) => WillWake(u)'
    BY <2>1 DEF WillWake
  <2> QED
    BY <1>2, <2>1, <2>2, <2>4, <2>5
<1>10. CASE Notify(t)
  <2> DEFINE limit == IF step[t] = "signal" THEN 1 ELSE BroadcastWakes
  <2>1. PICK ts \in Chosen(condQueue[o], limit) :
           /\ \/ UNCHANGED mutexQueue
              \/ mutexQueue' = [mutexQueue EXCEPT ![o] = @ \cup (condQueue[o] \ ts)]
           /\ GotoAndWake(t, "run", ts)
    BY <1>10 DEF Notify
  <2>2. limit \in Nat /\ limit # 0
    BY WakesAssumption
  <2>3. /\ ts \subseteq condQueue[o]
        /\ condQueue[o] # {} => ts # {}
    BY <2>1, <2>2, ChosenNonempty
  <2>4. UNCHANGED state /\ t \notin ts /\ ~WillWake(t)
    BY <1>10, <2>3 DEF Notify, QueuesOK, WillWake
  <2>5. ASSUME NEW w \in ts PROVE w \in Threads /\ obj[w] = o /\ WillWake(w)'
    <3>1. w \in Threads /\ obj[w] = o /\ step[w] = "sleepCond"
      BY <2>3 DEF QueuesOK
    <3>2. step'[w] = "lock"
      BY <2>1, <2>4, <3>1 DEF GotoAndWake
    <3>3. relock'[w]
      BY <2>1, <3>1 DEF GotoAndWake
    <3> QED
      BY <3>1, <3>2, <3>3 DEF WillWake
  <2>6. ASSUME NEW u \in Threads \ {t}, WillWake(u) PROVE WillWake(u)'
    <3>1. step[u] # "sleepCond"
      BY <2>6 DEF WillWake
    <3>2. u \notin ts
      BY <2>3, <3>1 DEF QueuesOK
    <3>3. step'[u] = step[u]
      BY <2>1, <3>2 DEF GotoAndWake
    <3>4. relock'[u] <=> relock[u]
      BY <2>1, <3>2 DEF GotoAndWake
    <3> QED
      BY <2>6, <3>3, <3>4 DEF WillWake
  <2>7. ASSUME NEW p \in Objects, mutexQueue'[p] # {}, mutexQueue[p] # {}
        PROVE  state'[p] = Bits \/ \E u \in Threads : obj'[u] = p /\ WillWake(u)'
    BY <1>1, <2>4, <2>6, <2>7 DEF SleeperHasWaker
  <2>8. ASSUME NEW p \in Objects, mutexQueue'[p] # {}, mutexQueue[p] = {}
        PROVE  p = o /\ ts # {}
    BY <2>1, <2>3, <2>8
  <2> QED
    BY <1>1, <2>5, <2>7, <2>8 DEF SleeperHasWaker, Bits
<1> QED
  BY <1>3, <1>4, <1>5, <1>6, <1>7, <1>8, <1>9, <1>10 DEF SyncStep
-----------------------------------------------------------------------------
(* Sleepers on a condition variable *)

LEMMA EnterNotified ==
  ASSUME SyncTypeOK, QueuesOK, NotifiedInTime, NEW t \in Threads, NEW o \in Objects, Enter(t, o)
  PROVE  NotifiedInTime'
<1> USE DEF SyncTypeOK
<1>1. \A u \in Threads \ {t} : step'[u] = step[u] /\ obj'[u] = obj[u] /\ seen'[u] = seen[u]
  BY DEF Enter, CallLock, CallSignal, CallBroadcast, CallNotify, CallUnlock, CallWait, Unlock, Goto
<1>2. UNCHANGED condQueue /\ step[t] = "run"
  BY DEF Enter, CallLock, CallSignal, CallBroadcast, CallNotify, CallUnlock, CallWait, Unlock, futexVars
<1>3. SUFFICES ASSUME NEW p \in Objects, NEW w \in condQueue[p]
               PROVE  \/ seen'[w] = seq'[p]
                      \/ \E u \in Threads : obj'[u] = p /\ step'[u] \in {"signal", "broadcast"}
  BY <1>2 DEF NotifiedInTime
<1>4. w \in Threads /\ w # t
  BY <1>2 DEF QueuesOK
<1>5. CASE \E u \in Threads : obj[u] = p /\ step[u] \in {"signal", "broadcast"}
  BY <1>1, <1>2, <1>5
<1>6. CASE seen[w] = seq[p] /\ seq'[p] = seq[p]
  BY <1>1, <1>4, <1>6
<1>7. CASE seq'[p] # seq[p]
  <2>1. CallSignal(t, o) \/ CallBroadcast(t, o)
    BY <1>7 DEF Enter, CallLock, CallUnlock, CallWait, Unlock, futexVars
  <2>2. p = o
    BY <1>7, <2>1 DEF CallSignal, CallBroadcast, CallNotify
  <2>3. obj'[t] = o /\ step'[t] \in {"signal", "broadcast"}
    BY <2>1 DEF CallSignal, CallBroadcast, CallNotify, Goto
  <2> QED
    BY <2>2, <2>3
<1> QED
  BY <1>5, <1>6, <1>7 DEF NotifiedInTime

\* cond_signal wakes one thread and tells the others nothing: it may be used
\* only where at most one thread waits.
LEMMA StepNotified ==
  ASSUME SyncTypeOK, QueuesOK, NotifiedInTime, NEW t \in Threads, SyncStep(t),
         step[t] = "signal" => \A u, v \in condQueue[obj[t]] : u = v
  PROVE  NotifiedInTime'
<1> USE DEF SyncTypeOK
<1> DEFINE o == obj[t]
           Notifier(u) == step[u] \in {"signal", "broadcast"}
<1>1. UNCHANGED <<obj, seen, seq>>
  BY DEF SyncStep, TryLock, StopSpinning, Exchange, MutexFutexWait, Wake, Spin, CondFutexWait, Relocked, Notify,
         futexVars
<1>2. ASSUME UNCHANGED condQueue, \A u \in Threads : Notifier(u) => Notifier(u)'
      PROVE  NotifiedInTime'
  BY <1>1, <1>2 DEF NotifiedInTime
<1>3. CASE TryLock(t) \/ StopSpinning(t) \/ Exchange(t) \/ MutexFutexWait(t) \/ Spin(t) \/ Relocked(t)
  <2>1. UNCHANGED condQueue /\ ~Notifier(t) /\ \A u \in Threads \ {t} : step'[u] = step[u]
    BY <1>3 DEF TryLock, StopSpinning, Exchange, MutexFutexWait, Spin, Relocked, Locked, Goto, futexVars
  <2> QED
    BY <1>2, <2>1
<1>4. CASE Wake(t)
  <2>1. PICK ts \in Chosen(mutexQueue[o], 1) :
           GotoAndWake(t, IF step[t] = "wake" THEN "run" ELSE "spin", ts)
    BY <1>4 DEF Wake
  <2>2. \A u \in ts : ~Notifier(u)
    BY <2>1, ChosenNonempty DEF QueuesOK
  <2>3. UNCHANGED condQueue /\ ~Notifier(t)
    BY <1>4 DEF Wake
  <2>4. \A u \in Threads \ {t} : u \notin ts => step'[u] = step[u]
    BY <2>1 DEF GotoAndWake
  <2> QED
    BY <1>2, <2>2, <2>3, <2>4
<1>5. CASE CondFutexWait(t)
  <2>1. ~Notifier(t) /\ \A u \in Threads \ {t} : step'[u] = step[u]
    BY <1>5 DEF CondFutexWait, Goto
  <2>2. \A p \in Objects : \A w \in condQueue'[p] : w \in condQueue[p] \/ (w = t /\ p = o /\ seen[t] = seq[o])
    BY <1>5 DEF CondFutexWait
  <2> QED
    BY <1>1, <2>1, <2>2 DEF NotifiedInTime
<1>6. CASE Notify(t)
  <2> DEFINE limit == IF step[t] = "signal" THEN 1 ELSE BroadcastWakes
  <2>1. PICK ts \in Chosen(condQueue[o], limit) :
           /\ condQueue' = [condQueue EXCEPT ![o] = IF step[t] = "signal" THEN @ \ ts ELSE {}]
           /\ GotoAndWake(t, "run", ts)
    BY <1>6 DEF Notify
  <2>2. ts \subseteq condQueue[o] /\ (step[t] = "signal" /\ condQueue[o] # {} => ts # {})
    BY <2>1, WakesAssumption, ChosenNonempty
  <2>3. condQueue'[o] = {} /\ \A p \in Objects \ {o} : condQueue'[p] = condQueue[p]
    BY <1>6, <2>1, <2>2 DEF Notify
  <2>4. \A u \in ts : ~Notifier(u)
    BY <2>2 DEF QueuesOK
  <2>5. \A u \in Threads \ {t} : Notifier(u) => Notifier(u)'
    BY <2>1, <2>4 DEF GotoAndWake
  <2> QED
    BY <1>1, <2>3, <2>5 DEF NotifiedInTime
<1> QED
  BY <1>3, <1>4, <1>5, <1>6 DEF SyncStep

-----------------------------------------------------------------------------
(* The program *)

\* Which objects a thread works on.
LEMMA ObjectsOfThreads ==
  /\ Clock \in Objects /\ Clock \notin Nodes
  /\ \A t \in Nodes : t \in Objects /\ t \in Threads /\ t # Clock
  /\ \A t \in 2 .. N : t - 1 \in Objects /\ t \in Nodes /\ t - 1 # Clock
  /\ \A t \in Threads : HasParent(t) => t \in 2 .. N
  /\ \A t \in Threads : t # Main => t \in Nodes
BY GraphAssumption DEF Nodes, HasParent

-----------------------------------------------------------------------------
(* The steps of the clients *)

\* Every client step enters a call as Enter demands: the thread holds
\* the mutex that it unlocks or waits with.
LEMMA ClientEnters ==
  ASSUME TypeOK, Discipline, NEW t \in Threads, ClientStep(t)
  PROVE  \E o \in Objects : Enter(t, o)
<1>1. /\ step[t] = "run" => t \in holders[obj[t]] \/ at[t] \notin CriticalPlaces
      /\ at[t] \in CriticalPlaces => obj[t] = ObjectOf(t)
  BY DEF Discipline, Disciplined
<1>2. CASE LockToWait(t) \/ LockClock(t) \/ BroadcastClock(t)
  <2>1. Enter(t, Clock)
    BY <1>2 DEF LockToWait, LockClock, BroadcastClock, From, Enter
  <2> QED
    BY <2>1, ObjectsOfThreads
<1>3. CASE WaitForTick(t) \/ ClockReached(t) \/ SetTicks(t)
  <2>1. at[t] \in {"clockWait", "addTick", "setStopped"} /\ step[t] = "run"
    BY <1>3 DEF WaitForTick, ClockReached, SetTicks, From
  <2>2. t \in holders[Clock]
    BY <1>1, <2>1 DEF CriticalPlaces, WaitPlaces, ObjectOf, ClockPlaces
  <2>3. Enter(t, Clock)
    BY <1>3, <2>1, <2>2 DEF WaitForTick, ClockReached, SetTicks, Enter
  <2> QED
    BY <2>3, ObjectsOfThreads
<1>4. CASE LockParent(t)
  <2>1. Enter(t, t - 1) /\ t \in 2 .. N
    BY <1>4 DEF LockParent, From, Enter, TypeOK, ParentPlaces
  <2> QED
    BY <2>1, ObjectsOfThreads
<1>5. CASE WaitForParent(t) \/ TakeSignal(t)
  <2>1. at[t] = "nodeWait" /\ step[t] = "run" /\ t \in 2 .. N
    BY <1>5 DEF WaitForParent, TakeSignal, From, TypeOK, ParentPlaces
  <2>2. t \in holders[t - 1]
    BY <1>1, <2>1 DEF CriticalPlaces, WaitPlaces, ObjectOf, ClockPlaces, ParentPlaces
  <2>3. Enter(t, t - 1)
    BY <1>5, <2>1, <2>2 DEF WaitForParent, TakeSignal, Enter
  <2> QED
    BY <2>1, <2>3, ObjectsOfThreads
<1>6. CASE LockSelf(t) \/ SignalNode(t)
  <2>1. Enter(t, t)
    BY <1>6 DEF LockSelf, SignalNode, From, Enter
  <2>2. t \in Nodes
    BY <1>6 DEF LockSelf, SignalNode, From, TypeOK, SignalPlaces
  <2> QED
    BY <2>1, <2>2, ObjectsOfThreads
<1>7. CASE SetReady(t)
  <2>1. at[t] \in {"setReady", "setLastReady"} /\ step[t] = "run" /\ t \in Nodes
    BY <1>7 DEF SetReady, From, TypeOK, SignalPlaces
  <2>2. t \in holders[t]
    BY <1>1, <2>1 DEF CriticalPlaces, WaitPlaces, ObjectOf, ClockPlaces, ParentPlaces
  <2>3. Enter(t, t)
    BY <1>7, <2>1, <2>2 DEF SetReady, Enter
  <2> QED
    BY <2>1, <2>3, ObjectsOfThreads
<1> QED
  BY <1>2, <1>3, <1>4, <1>5, <1>6, <1>7 DEF ClientStep

\* A thread goes to a place of the parent only if it has one, and signals only
\* if it is a node.
LEMMA ClientTypes ==
  ASSUME TypeOK, Discipline, NEW t \in Threads, ClientStep(t)
  PROVE  TypeOK'
<1> DEFINE Places == ClockPlaces \cup ParentPlaces \cup SignalPlaces
<1>1. SyncTypeOK'
  BY ClientEnters, EnterTypes DEF TypeOK
<1>2. SUFFICES ASSUME NEW place \in Places, To(t, place) \/ UNCHANGED at,
                      To(t, place) /\ place \in ParentPlaces => t \in 2 .. N,
                      To(t, place) /\ place \in SignalPlaces => t \in Nodes
               PROVE  TypeOK'
  <2> USE DEF ClockPlaces, ParentPlaces, SignalPlaces
  <2>1. /\ at[t] \in ParentPlaces => t \in 2 .. N
        /\ at[t] \in SignalPlaces => t \in Nodes
        /\ t # Main => t \in Nodes
        /\ HasParent(t) => t \in 2 .. N
        /\ t \in 2 .. N => t \in Nodes
    BY ObjectsOfThreads DEF TypeOK
  <2>2. CASE WaitForTick(t) \/ WaitForParent(t)
    BY <1>2, <2>2 DEF WaitForTick, WaitForParent, clientVars
  <2>3. CASE LockToWait(t) \/ LockParent(t) \/ LockClock(t) \/ SetTicks(t)
    BY <1>2, <2>1, <2>3 DEF LockToWait, LockParent, LockClock, SetTicks, From
  <2>4. CASE ClockReached(t)
    BY <1>2, <2>1, <2>4 DEF ClockReached, AfterTrue, AfterFalse
  <2>5. CASE TakeSignal(t)
    BY <1>2, <2>1, <2>5 DEF TakeSignal, From
  <2>6. CASE LockSelf(t) \/ SetReady(t) \/ SignalNode(t)
    BY <1>2, <2>1, <2>6 DEF LockSelf, SetReady, SignalNode, From, NextRound
  <2>7. CASE BroadcastClock(t)
    BY <1>2, <2>1, <2>7 DEF BroadcastClock, NextRound
  <2> QED
    BY <2>2, <2>3, <2>4, <2>5, <2>6, <2>7 DEF ClientStep
<1> QED
  BY <1>1, <1>2 DEF TypeOK, To
\* What a thread does between calls keeps it disciplined, and it takes no other
\* thread's mutex away.
LEMMA ClientDiscipline ==
  ASSUME TypeOK, Discipline, NEW t \in Threads, ClientStep(t)
  PROVE  Discipline'
<1>1. PICK o \in Objects : Enter(t, o)
  BY ClientEnters
<1>2. SyncTypeOK /\ step[t] = "run"
  BY <1>1 DEF Enter, TypeOK
<1>3. \A u \in Threads \ {t} : step'[u] = step[u] /\ obj'[u] = obj[u]
  BY <1>1, <1>2 DEF SyncTypeOK, Enter, CallLock, CallSignal, CallBroadcast, CallNotify, CallUnlock,
                    CallWait, Unlock, Goto
<1>4. \A u \in Threads \ {t} : at'[u] = at[u]
  BY DEF TypeOK, ClientStep, LockToWait, WaitForTick, ClockReached, LockParent, WaitForParent, TakeSignal,
         LockSelf, SetReady, SignalNode, LockClock, SetTicks, BroadcastClock, NextRound, To, clientVars
<1>5. \A u \in Threads \ {t}, p \in Objects : u \in holders[p] => u \in holders'[p]
  BY <1>1, <1>2 DEF SyncTypeOK, Enter, CallLock, CallSignal, CallBroadcast, CallNotify, CallUnlock,
                    CallWait, Unlock
<1>6. ASSUME NEW u \in Threads \ {t} PROVE Disciplined(u)'
  <2>1. Disciplined(u) /\ obj[u] \in Objects
    BY <1>2 DEF Discipline, SyncTypeOK
  <2> QED
    BY <1>3, <1>4, <1>5, <2>1 DEF Disciplined, ObjectOf
<1>7. Disciplined(t)'
  <2> USE DEF SyncTypeOK, Goto, To
  <2>1. at \in [Threads -> ClockPlaces \cup ParentPlaces \cup SignalPlaces]
    BY DEF TypeOK
  <2>2. Disciplined(t)
    BY DEF Discipline
  <2>3. CASE LockToWait(t) \/ LockClock(t)
    <3>1. at'[t] \in {"clockWait", "addTick", "setStopped"} /\ step'[t] = "lock" /\ obj'[t] = Clock
      BY <1>2, <2>1, <2>3 DEF LockToWait, LockClock, CallLock
    <3> QED
      BY <3>1 DEF Disciplined, ObjectOf, ClockPlaces, CriticalPlaces, WaitPlaces
  <2>4. CASE LockParent(t)
    <3>1. at'[t] = "nodeWait" /\ step'[t] = "lock" /\ obj'[t] = t - 1
      BY <1>2, <2>1, <2>4, ObjectsOfThreads DEF LockParent, CallLock, From, TypeOK, ParentPlaces
    <3> QED
      BY <3>1 DEF Disciplined, ObjectOf, ClockPlaces, ParentPlaces, CriticalPlaces, WaitPlaces
  <2>5. CASE LockSelf(t)
    <3>1. at'[t] \in {"setReady", "setLastReady"} /\ step'[t] = "lock" /\ obj'[t] = t
      BY <1>2, <2>1, <2>5, ObjectsOfThreads DEF LockSelf, CallLock, From, TypeOK, SignalPlaces
    <3> QED
      BY <3>1 DEF Disciplined, ObjectOf, ClockPlaces, ParentPlaces, CriticalPlaces, WaitPlaces
  <2>6. CASE WaitForTick(t)
    <3>1. at'[t] = "clockWait" /\ step'[t] \in {"spin", "wakeThenSpin"} /\ obj'[t] = Clock
      BY <1>2, <2>6, ObjectsOfThreads DEF WaitForTick, From, clientVars, CallWait, Unlock
    <3> QED
      BY <3>1 DEF Disciplined, ObjectOf, ClockPlaces, CriticalPlaces, WaitPlaces
  <2>7. CASE WaitForParent(t)
    <3>1. at'[t] = "nodeWait" /\ step'[t] \in {"spin", "wakeThenSpin"} /\ obj'[t] = t - 1
      BY <1>2, <2>7, ObjectsOfThreads DEF WaitForParent, From, clientVars, CallWait, Unlock, TypeOK, ParentPlaces
    <3> QED
      BY <3>1 DEF Disciplined, ObjectOf, ClockPlaces, ParentPlaces, CriticalPlaces, WaitPlaces
  <2>8. CASE ClockReached(t) \/ TakeSignal(t) \/ SetReady(t) \/ SetTicks(t)
    <3>1. step'[t] \in {"run", "wake"}
      BY <1>2, <2>8 DEF ClockReached, TakeSignal, SetReady, SetTicks, CallUnlock, Unlock
    <3>2. at'[t] \notin CriticalPlaces
      BY <2>1, <2>8 DEF ClockReached, TakeSignal, SetReady, SetTicks, AfterTrue, AfterFalse, CriticalPlaces, WaitPlaces
    <3> QED
      BY <3>1, <3>2 DEF Disciplined
  <2>9. CASE SignalNode(t)
    <3>1. at'[t] \in {"waitClock", "done"} /\ step'[t] = "signal" /\ obj'[t] # Clock
      BY <1>2, <2>1, <2>9, ObjectsOfThreads
      DEF SignalNode, NextRound, CallSignal, CallNotify, From, TypeOK, SignalPlaces
    <3> QED
      BY <3>1 DEF Disciplined, CriticalPlaces, WaitPlaces
  <2>10. CASE BroadcastClock(t)
    <3>1. at'[t] \in {"waitClock", "done"} /\ step'[t] = "broadcast" /\ obj'[t] = Clock
      BY <1>2, <2>1, <2>10 DEF BroadcastClock, NextRound, CallBroadcast, CallNotify
    <3> QED
      BY <3>1 DEF Disciplined, CriticalPlaces, WaitPlaces
  <2> QED
    BY <2>3, <2>4, <2>5, <2>6, <2>7, <2>8, <2>9, <2>10 DEF ClientStep
<1> QED
  BY <1>6, <1>7 DEF Discipline

-----------------------------------------------------------------------------
(* The steps inside the calls *)

LEMMA CallDiscipline ==
  ASSUME TypeOK, Discipline, QueuesOK, RelockedHolds, NEW t \in Threads, InCall(t)
  PROVE  Discipline'
<1> USE DEF SyncTypeOK
<1>1. SyncTypeOK /\ SyncStep(t) /\ UNCHANGED at
  BY DEF TypeOK, InCall, clientVars
<1>2. UNCHANGED obj
  BY <1>1 DEF SyncStep, TryLock, StopSpinning, Exchange, MutexFutexWait, Wake, Spin, CondFutexWait, Relocked, Notify
<1>3. \A u \in Threads, p \in Objects : u \in holders[p] => u \in holders'[p]
  BY <1>1 DEF SyncStep, TryLock, StopSpinning, Exchange, MutexFutexWait, Wake, Spin, CondFutexWait, Relocked, Notify, Locked
<1>4. ASSUME NEW u \in Threads,
             \/ step'[u] = step[u]
             \/ step[u] \in {"sleepMutex", "sleepCond"} /\ step'[u] \in {"exchange", "lock"}
             \/ step[u] \in {"lock", "exchange"} /\ step'[u] \in {"run", "relocked"} /\ u \in holders'[obj[u]]
             \/ step[u] \in {"lock", "exchange", "futexWait"} /\ step'[u] \in {"exchange", "futexWait", "sleepMutex"}
             \/ step[u] = "relocked" /\ step'[u] = "run"
             \/ step[u] \in {"wake", "signal", "broadcast"} /\ step'[u] = "run"
             \/ step[u] \in {"wakeThenSpin", "spin", "condFutexWait"}
                  /\ step'[u] \in {"spin", "lock", "condFutexWait", "sleepCond"}
      PROVE  Disciplined(u)'
  <2>1. Disciplined(u) /\ obj[u] \in Objects /\ (step[u] = "relocked" => u \in holders'[obj[u]])
    BY <1>1, <1>3 DEF Discipline, RelockedHolds
  <2>2. ObjectOf(u)' = ObjectOf(u) /\ at'[u] = at[u] /\ obj'[u] = obj[u]
    BY <1>1, <1>2 DEF ObjectOf
  <2>3. at[u] \in WaitPlaces => at[u] \in CriticalPlaces
    BY DEF CriticalPlaces
  <2>4. CASE at[u] \in CriticalPlaces
    BY <1>3, <1>4, <2>1, <2>2, <2>4 DEF Disciplined
  <2>5. CASE at[u] \notin CriticalPlaces
    BY <1>4, <2>1, <2>2, <2>3, <2>5 DEF Disciplined
  <2> QED
    BY <2>4, <2>5
<1>5. CASE TryLock(t) \/ StopSpinning(t) \/ Exchange(t) \/ MutexFutexWait(t)
           \/ Spin(t) \/ CondFutexWait(t) \/ Relocked(t)
  <2>1. \A u \in Threads \ {t} : step'[u] = step[u]
    BY <1>1, <1>5 DEF TryLock, StopSpinning, Exchange, MutexFutexWait, Spin, CondFutexWait, Relocked, Locked, Goto
  <2>2. \A u \in Threads \ {t} : Disciplined(u)'
    BY <1>4, <2>1
  <2>3. Disciplined(t)'
    <3>1. CASE TryLock(t)
      BY <1>1, <1>4, <3>1 DEF TryLock, Locked, Goto
    <3>2. CASE StopSpinning(t)
      BY <1>1, <1>4, <3>2 DEF StopSpinning, Goto
    <3>3. CASE Exchange(t)
      BY <1>1, <1>4, <3>3 DEF Exchange, Locked, Goto
    <3>4. CASE MutexFutexWait(t)
      BY <1>1, <1>4, <3>4 DEF MutexFutexWait, Goto
    <3>5. CASE Spin(t) \/ CondFutexWait(t)
      BY <1>1, <1>4, <3>5 DEF Spin, CondFutexWait, Goto
    <3>6. CASE Relocked(t)
      BY <1>1, <1>4, <3>6 DEF Relocked, Goto
    <3> QED
      BY <1>5, <3>1, <3>2, <3>3, <3>4, <3>5, <3>6
  <2> QED
    BY <2>2, <2>3 DEF Discipline
<1>6. CASE Wake(t)
  <2>1. PICK ts \in Chosen(mutexQueue[obj[t]], 1) :
           GotoAndWake(t, IF step[t] = "wake" THEN "run" ELSE "spin", ts)
    BY <1>6 DEF Wake
  <2>2. \A u \in ts : step[u] \in {"sleepMutex", "sleepCond"}
    BY <1>1, <2>1, ChosenNonempty DEF QueuesOK
  <2>3. \A u \in Threads \ {t} : \/ step'[u] = step[u]
                                 \/ step[u] \in {"sleepMutex", "sleepCond"} /\ step'[u] \in {"exchange", "lock"}
    BY <2>1, <2>2 DEF GotoAndWake
  <2>4. \/ step[t] = "wake" /\ step'[t] = "run"
        \/ step[t] = "wakeThenSpin" /\ step'[t] = "spin"
    BY <1>6, <2>1 DEF Wake, GotoAndWake
  <2> QED
    BY <1>4, <2>3, <2>4 DEF Discipline
<1>7. CASE Notify(t)
  <2>1. PICK limit \in Nat, ts \in SUBSET condQueue[obj[t]] : GotoAndWake(t, "run", ts)
    BY <1>7, WakesAssumption, ChosenNonempty DEF Notify, Chosen
  <2>2. \A u \in ts : step[u] = "sleepCond"
    BY <1>1, <2>1 DEF QueuesOK
  <2>3. \A u \in Threads \ {t} : \/ step'[u] = step[u]
                                 \/ step[u] \in {"sleepMutex", "sleepCond"} /\ step'[u] \in {"exchange", "lock"}
    BY <2>1, <2>2 DEF GotoAndWake
  <2>4. step[t] \in {"signal", "broadcast"} /\ step'[t] = "run"
    BY <1>7, <2>1 DEF Notify, GotoAndWake
  <2> QED
    BY <1>4, <2>3, <2>4 DEF Discipline
<1> QED
  BY <1>1, <1>5, <1>6, <1>7 DEF SyncStep
-----------------------------------------------------------------------------
(* The inductive invariant *)

\* Nodes use cond_signal, and only the child of a node waits for it.
LEMMA OneSleeperPerNode ==
  ASSUME TypeOK, Discipline, QueuesOK, NEW t \in Threads, step[t] = "signal"
  PROVE  \A u, v \in condQueue[obj[t]] : u = v
<1>1. obj[t] # Clock /\ obj[t] \in Objects
  BY DEF TypeOK, SyncTypeOK, Discipline, Disciplined
<1>2. ASSUME NEW u \in condQueue[obj[t]] PROVE u \in 2 .. N /\ obj[t] = u - 1
  <2>1. u \in Threads /\ obj[u] = obj[t] /\ step[u] = "sleepCond"
    BY <1>1 DEF TypeOK, SyncTypeOK, QueuesOK
  <2>2. at[u] \in WaitPlaces /\ obj[u] = ObjectOf(u)
    BY <2>1 DEF Discipline, Disciplined, CriticalPlaces
  <2>3. at[u] = "nodeWait"
    BY <1>1, <2>1, <2>2 DEF WaitPlaces, ObjectOf, ClockPlaces
  <2> QED
    BY <2>1, <2>2, <2>3 DEF TypeOK, ObjectOf, ClockPlaces, ParentPlaces
<1> QED
  BY <1>2

LEMMA InitIInv == Init => IInv /\ SleeperHasWaker
<1> SUFFICES ASSUME Init PROVE IInv /\ SleeperHasWaker
  OBVIOUS
<1> USE DEF Init, SyncInit
<1>1. SyncTypeOK
  <2>1. (CHOOSE o \in Objects : TRUE) \in Objects
    BY ObjectsOfThreads
  <2> QED
    BY <2>1 DEF SyncTypeOK, Steps, Bits
<1>2. TypeOK
  BY <1>1 DEF TypeOK, ClockPlaces, ParentPlaces, SignalPlaces
<1>3. Discipline
  BY DEF Discipline, Disciplined, CriticalPlaces, WaitPlaces
<1>4. QueuesOK /\ RelockedHolds /\ MutualExclusion /\ SleeperHasWaker /\ NotifiedInTime
  BY DEF QueuesOK, RelockedHolds, MutualExclusion, SleeperHasWaker, NotifiedInTime
<1> QED
  BY <1>2, <1>3, <1>4 DEF IInv

LEMMA NextIInv == IInv /\ [Next]_vars => IInv'
<1> SUFFICES ASSUME IInv, [Next]_vars PROVE IInv'
  OBVIOUS
<1> USE DEF IInv
<1>1. SyncTypeOK
  BY DEF TypeOK
<1>2. ASSUME NEW t \in Threads, ClientStep(t) PROVE IInv'
  <2>1. PICK o \in Objects : Enter(t, o)
    BY <1>2, ClientEnters
  <2>2. TypeOK' /\ Discipline'
    BY <1>2, ClientTypes, ClientDiscipline
  <2>3. QueuesOK' /\ RelockedHolds' /\ MutualExclusion' /\ NotifiedInTime'
    BY <1>1, <2>1, EnterQueues, EnterExclusion, EnterNotified
  <2> QED
    BY <2>2, <2>3
<1>3. ASSUME NEW t \in Threads, InCall(t) PROVE IInv'
  <2>1. SyncStep(t) /\ UNCHANGED at
    BY <1>3 DEF InCall, clientVars
  <2>2. TypeOK'
    BY <1>1, <2>1, StepTypes DEF TypeOK
  <2>3. Discipline'
    BY <1>3, CallDiscipline
  <2>4. QueuesOK' /\ RelockedHolds' /\ MutualExclusion'
    BY <1>1, <2>1, StepQueues, StepExclusion
  <2>5. NotifiedInTime'
    BY <1>1, <2>1, StepNotified, OneSleeperPerNode
  <2> QED
    BY <2>2, <2>3, <2>4, <2>5
<1>4. CASE UNCHANGED vars
  <2> USE <1>4 DEF vars, syncVars, futexVars, callVars, clientVars
  <2>1. TypeOK'
    BY DEF TypeOK, SyncTypeOK
  <2>2. Discipline'
    BY DEF Discipline, Disciplined, ObjectOf
  <2>3. QueuesOK' /\ RelockedHolds' /\ MutualExclusion' /\ NotifiedInTime'
    BY DEF QueuesOK, RelockedHolds, MutualExclusion, NotifiedInTime
  <2> QED
    BY <2>1, <2>2, <2>3
<1> QED
  BY <1>2, <1>3, <1>4 DEF Next

LEMMA InvariantIInv == Spec => []IInv
<1>1. Init => IInv
  BY InitIInv
<1>2. IInv /\ [Next]_vars => IInv'
  BY NextIInv
<1> QED
  BY <1>1, <1>2, PTL DEF Spec

-----------------------------------------------------------------------------
(* The counter.  A client step moves the turn, or leaves it where it is. *)

Same(n) == /\ Begun(n)' = Begun(n) /\ Signalled(n)' = Signalled(n)
           /\ NodeTurn(n)' <=> NodeTurn(n)
OthersSame(t) == \A n \in Nodes \ {t} : Same(n)

Quiet ==
  /\ \A n \in Nodes : Same(n)
  /\ ticks' = ticks /\ ready' = ready /\ (MainTurn' <=> MainTurn)

\* Main's tick, and that of node t.
MainTicks ==
  /\ MainTurn /\ ~MainTurn'
  /\ \A n \in Nodes : Same(n)
  /\ ticks' = ticks + 1 /\ ready' = ready

NodeTicks(t) ==
  /\ NodeTurn(t) /\ ~NodeTurn(t)'
  /\ Begun(t)' = Begun(t) /\ Signalled(t)' = Signalled(t) /\ OthersSame(t)
  /\ ticks' = ticks + 1 /\ ready' = ready /\ (MainTurn' <=> MainTurn)

\* Node t gets what it waited for: a tick if it is the first one, or its parent's signal.
Starts(t) ==
  /\ ~NodeTurn(t) /\ NodeTurn(t)'
  /\ Begun(t)' = Begun(t) + 1 /\ Signalled(t)' = Signalled(t) /\ OthersSame(t)
  /\ ticks' = ticks /\ (MainTurn' <=> MainTurn)
  /\ \/ t = 1 /\ ClockTurn /\ ready' = ready
     \/ t > 1 /\ ready[t - 1] /\ ready' = [ready EXCEPT ![t - 1] = FALSE]

Signals(t) ==
  /\ NodeTurn(t) /\ ~NodeTurn(t)'
  /\ Begun(t)' = Begun(t) /\ Signalled(t)' = Signalled(t) + 1 /\ Begun(t)' = 2 * Signalled(t)'
  /\ OthersSame(t)
  /\ ticks' = ticks /\ ready' = [ready EXCEPT ![t] = TRUE] /\ (MainTurn' <=> MainTurn)

Moves ==
  Quiet \/ MainTicks \/ \E t \in Nodes : NodeTicks(t) \/ Starts(t) \/ Signals(t)

LEMMA CounterTypes ==
  ASSUME GraphAssumption, NEW t \in Nodes, goal \in [Threads -> Nat \ {0}]
  PROVE  Begun(t) \in Nat /\ Signalled(t) \in Nat
<1>1. goal[t] \in Nat \ {0}
  BY GraphAssumption
<1>2. goal[t] \div 2 \in Nat /\ (goal[t] - 1) \div 2 \in Nat
  BY <1>1
<1> QED
  BY <1>1, <1>2 DEF Begun, Signalled

LEMMA ClientFrame ==
  ASSUME CounterTypeOK, NEW Places, at \in [Threads -> Places], NEW t \in Threads, ClientStep(t)
  PROVE  /\ \A u \in Threads \ {t} : at'[u] = at[u] /\ goal'[u] = goal[u]
         /\ CounterTypeOK'
<1> USE DEF CounterTypeOK, To
<1>1. CASE WaitForTick(t) \/ WaitForParent(t)
  BY <1>1 DEF WaitForTick, WaitForParent, clientVars
<1>2. CASE LockToWait(t) \/ LockParent(t) \/ LockSelf(t) \/ LockClock(t)
  BY <1>2 DEF LockToWait, LockParent, LockSelf, LockClock
<1>3. CASE ClockReached(t)
  BY <1>3 DEF ClockReached, AfterTrue, AfterFalse
<1>4. CASE TakeSignal(t) \/ SetReady(t)
  BY <1>4 DEF TakeSignal, SetReady
<1>5. CASE SignalNode(t)
  BY <1>5 DEF SignalNode, NextRound
<1>6. CASE SetTicks(t)
  BY <1>6 DEF SetTicks
<1>7. CASE BroadcastClock(t)
  BY <1>7 DEF BroadcastClock, NextRound
<1> QED
  BY <1>1, <1>2, <1>3, <1>4, <1>5, <1>6, <1>7 DEF ClientStep

\* What a node holds depends on its own place and round only.
LEMMA FrameSame ==
  ASSUME NEW n \in Nodes, at'[n] = at[n], goal'[n] = goal[n]
  PROVE  Same(n)
BY DEF Same, Begun, Signalled, NodeTurn, InRound

LEMMA ClientMoves ==
  ASSUME TypeOK, CounterInv, NEW t \in Threads, ClientStep(t), ~Stopped'
  PROVE  ~Stopped /\ RoundsAlternate' /\ Moves
<1> USE DEF CounterTypeOK, From, To, EndPlaces
<1>1. at \in [Threads -> ClockPlaces \cup ParentPlaces \cup SignalPlaces]
  BY DEF TypeOK
<1>2. /\ \A u \in Threads \ {t} : at'[u] = at[u] /\ goal'[u] = goal[u]
      /\ CounterTypeOK /\ CounterTypeOK'
  BY <1>1, ClientFrame DEF CounterInv
<1>3. ~Stopped
  BY <1>2 DEF Stopped, ClientStep, LockToWait, WaitForTick, ClockReached, LockParent, WaitForParent, TakeSignal,
         LockSelf, SetReady, SignalNode, LockClock, SetTicks, BroadcastClock, clientVars
<1>4. RoundsAlternate /\ OneTurn /\ NothingLost /\ CarriesRipple
  BY <1>3 DEF CounterInv
<1>5. Main \notin Nodes /\ Main \in Threads /\ Nodes \subseteq Threads /\ (t # Main => t \in Nodes)
  BY GraphAssumption
<1>6. \A n \in Nodes \ {t} : Same(n)
  BY <1>2, <1>5, FrameSame
<1>7. t # Main => (MainTurn' <=> MainTurn)
  BY <1>2, <1>5 DEF MainTurn
<1>8. t \in Nodes => goal[t] \in Nat \ {0} /\ goal'[t] \in Nat \ {0}
  BY <1>2, <1>5
<1>9. RoundsAlternate' /\ Moves
  <2>1. t = Main => RoundsAlternate' /\ \A n \in Nodes : Same(n)
    BY <1>2, <1>4, <1>5, <1>6 DEF RoundsAlternate, Bit
  <2>2. (t \in Nodes =>
            /\ at'[t] \in {"signal", "setReady", "notify"} => goal'[t] % 2 = 0
            /\ at'[t] \in {"tick", "addTick", "broadcastTick"} => goal'[t] % 2 # 0
            /\ at'[t] \notin EndPlaces)
          => RoundsAlternate'
    BY <1>2, <1>4, <1>5 DEF RoundsAlternate, Bit
  <2>3. t \in Nodes =>
            /\ at[t] \in {"signal", "setReady", "notify"} => goal[t] % 2 = 0
            /\ at[t] \in {"tick", "addTick", "broadcastTick"} => goal[t] % 2 # 0
            /\ at[t] \notin EndPlaces
    BY <1>4 DEF RoundsAlternate, Bit
  <2>4. t \in Nodes /\ Same(t) => \A n \in Nodes : Same(n)
    BY <1>6
  <2>5. CASE UNCHANGED clientVars
    BY <1>5, <2>1, <2>2, <2>3, <2>4, <2>5, FrameSame DEF clientVars, Moves, Quiet, MainTurn
  <2>6. CASE LockToWait(t) \/ LockParent(t)
    <3>1. at'[t] \in {"clockWait", "nodeWait"} /\ at[t] \in {"waitClock", "waitParent"}
      BY <1>1, <2>6 DEF LockToWait, LockParent
    <3>2. UNCHANGED <<ticks, ready, goal>>
      BY <2>6 DEF LockToWait, LockParent
    <3>3. t \in Nodes => Same(t)
      BY <3>1, <3>2 DEF Same, Begun, Signalled, NodeTurn, InRound, TurnPlaces
    <3>4. MainTurn' <=> MainTurn
      BY <1>7, <3>1 DEF MainTurn
    <3> QED
      BY <1>5, <2>1, <2>2, <2>4, <3>1, <3>2, <3>3, <3>4 DEF Moves, Quiet
  <2>7. CASE LockSelf(t)
    <3>1. (at[t] = "signal" /\ at'[t] = "setReady") \/ (at[t] = "lastSignal" /\ at'[t] = "setLastReady")
      BY <1>1, <2>7 DEF LockSelf
    <3>2. UNCHANGED <<ticks, ready, goal>>
      BY <2>7 DEF LockSelf
    <3>3. t \in Nodes => Same(t)
      BY <3>1, <3>2 DEF Same, Begun, Signalled, NodeTurn, InRound, TurnPlaces
    <3>4. MainTurn' <=> MainTurn
      BY <1>7, <3>1 DEF MainTurn
    <3> QED
      BY <1>5, <2>1, <2>2, <2>3, <2>4, <3>1, <3>2, <3>3, <3>4 DEF Moves, Quiet
  <2>8. CASE LockClock(t)
    <3>1. (at[t] = "tick" /\ at'[t] = "addTick") \/ (at[t] = "stop" /\ at'[t] = "setStopped")
      BY <1>1, <2>8 DEF LockClock
    <3>2. UNCHANGED <<ticks, ready, goal>>
      BY <2>8 DEF LockClock
    <3>3. t \in Nodes => Same(t)
      BY <3>1, <3>2 DEF Same, Begun, Signalled, NodeTurn, InRound, TurnPlaces
    <3>4. MainTurn' <=> MainTurn
      BY <1>7, <3>1 DEF MainTurn
    <3> QED
      BY <1>5, <2>1, <2>2, <2>3, <2>4, <3>1, <3>2, <3>3, <3>4 DEF Moves, Quiet
  <2>9. CASE ClockReached(t)
    <3>1. UNCHANGED <<ticks, ready, goal>> /\ ticks >= goal[t]
      BY <1>2, <1>3, <1>5, <2>9 DEF ClockReached, KeepWaiting, Stopped
    <3>2. at[t] = "clockWait" /\ at'[t] = AfterTrue(t)
      BY <1>1, <2>9, <3>1 DEF ClockReached
    <3>3. CASE t = Main
      BY <1>5, <2>1, <3>1, <3>2, <3>3 DEF AfterTrue, Moves, Quiet, MainTurn
    <3>4. CASE t # Main /\ HasParent(t)
      <4>1. at'[t] = "waitParent"
        BY <3>2, <3>4 DEF AfterTrue
      <4>2. Same(t)
        BY <3>1, <3>2, <4>1 DEF Same, Begun, Signalled, NodeTurn, InRound, TurnPlaces
      <4> QED
        BY <1>5, <1>7, <2>2, <2>4, <3>1, <3>4, <4>1, <4>2 DEF Moves, Quiet
    <3>5. CASE t # Main /\ ~HasParent(t)
      <4>1. t = 1
        BY <1>5, <3>5, GraphAssumption DEF HasParent, Nodes
      <4>2. at'[t] = IF Bit(t) THEN "signal" ELSE "tick"
        BY <3>2, <3>5 DEF AfterTrue
      <4>3. /\ ~NodeTurn(t) /\ NodeTurn(t)' /\ ClockTurn
            /\ Begun(t)' = Begun(t) + 1 /\ Signalled(t)' = Signalled(t)
        <5>1. at'[t] \in {"signal", "tick"} /\ goal'[t] = goal[t] /\ goal[t] \in Nat
          BY <1>5, <1>8, <3>1, <3>5, <4>2
        <5>2. Begun(t) = goal[t] - 1 /\ Begun(t)' = goal[t] /\ Signalled(t)' = Signalled(t)
          BY <3>2, <5>1 DEF Begun, Signalled, InRound, TurnPlaces
        <5>3. ~NodeTurn(t) /\ NodeTurn(t)'
          BY <3>2, <5>1 DEF NodeTurn, TurnPlaces
        <5> QED
          BY <1>2, <3>1, <4>1, <5>1, <5>2, <5>3 DEF ClockTurn
      <4>4. Starts(t)
        BY <1>6, <1>7, <3>1, <3>5, <4>1, <4>3 DEF Starts, OthersSame
      <4>5. RoundsAlternate'
        BY <2>2, <3>1, <4>2 DEF Bit
      <4> QED
        BY <1>5, <3>5, <4>4, <4>5 DEF Moves
    <3> QED
      BY <3>3, <3>4, <3>5
  <2>10. CASE TakeSignal(t)
    <3>1. at[t] = "nodeWait" /\ at'[t] = IF Bit(t) THEN "signal" ELSE "tick"
      BY <1>1, <2>10 DEF TakeSignal
    <3>2. ready[t - 1] /\ ready' = [ready EXCEPT ![t - 1] = FALSE] /\ UNCHANGED <<ticks, goal>>
      BY <2>10 DEF TakeSignal
    <3>3. t \in 2 .. N /\ t \in Nodes /\ t # Main /\ t > 1
      BY <3>1, ObjectsOfThreads, GraphAssumption DEF TypeOK, ParentPlaces
    <3>4. /\ ~NodeTurn(t) /\ NodeTurn(t)'
          /\ Begun(t)' = Begun(t) + 1 /\ Signalled(t)' = Signalled(t)
      BY <1>8, <3>1, <3>2, <3>3 DEF Begun, Signalled, NodeTurn, InRound, TurnPlaces
    <3>5. Starts(t)
      BY <1>6, <1>7, <3>2, <3>3, <3>4 DEF Starts, OthersSame
    <3>6. RoundsAlternate'
      BY <2>2, <3>1, <3>2 DEF Bit
    <3> QED
      BY <3>3, <3>5, <3>6 DEF Moves
  <2>11. CASE SetReady(t)
    <3>1. t \in Nodes /\ t # Main
      BY <1>5, <2>11 DEF SetReady, TypeOK, SignalPlaces
    <3>2. at[t] = "setReady" /\ at'[t] = "notify"
      BY <1>1, <2>3, <2>11, <3>1 DEF SetReady
    <3>3. ready' = [ready EXCEPT ![t] = TRUE] /\ UNCHANGED <<ticks, goal>>
      BY <2>11 DEF SetReady
    <3>4. /\ NodeTurn(t) /\ ~NodeTurn(t)'
          /\ Begun(t)' = Begun(t) /\ Begun(t) = goal[t]
          /\ Signalled(t)' = goal[t] \div 2 /\ Signalled(t) = (goal[t] - 1) \div 2
      BY <3>2, <3>3 DEF Begun, Signalled, NodeTurn, InRound, TurnPlaces
    <3>5. goal[t] \div 2 = (goal[t] - 1) \div 2 + 1 /\ goal[t] = 2 * (goal[t] \div 2)
      BY <1>8, <2>3, <3>1, <3>2
    <3>6. Signals(t)
      BY <1>6, <1>7, <3>1, <3>3, <3>4, <3>5 DEF Signals, OthersSame
    <3>7. RoundsAlternate'
      BY <2>2, <2>3, <3>1, <3>2, <3>3
    <3> QED
      BY <3>1, <3>6, <3>7 DEF Moves
  <2>12. CASE SignalNode(t) \/ (t \in Nodes /\ BroadcastClock(t) /\ at[t] = "broadcastTick")
    <3>1. t \in Nodes /\ t # Main
      BY <1>5, <2>12 DEF SignalNode, TypeOK, SignalPlaces
    <3>2. at[t] \in {"notify", "broadcastTick"} /\ at'[t] = "waitClock" /\ goal'[t] = goal[t] + 1
      <4>1. CASE SignalNode(t)
        BY <1>1, <1>2, <1>5, <2>3, <3>1, <4>1 DEF SignalNode, NextRound
      <4>2. CASE BroadcastClock(t) /\ at[t] = "broadcastTick"
        BY <1>1, <1>2, <1>5, <3>1, <4>2 DEF BroadcastClock, NextRound
      <4> QED
        BY <2>12, <4>1, <4>2
    <3>3. UNCHANGED <<ticks, ready>>
      BY <2>12 DEF SignalNode, BroadcastClock
    <3>4. (goal[t] + 1) - 1 = goal[t] /\ (goal[t] % 2 # 0 => goal[t] \div 2 = (goal[t] - 1) \div 2)
      BY <1>8, <3>1
    <3>5. Same(t)
      BY <1>8, <2>3, <3>1, <3>2, <3>4 DEF Same, Begun, Signalled, NodeTurn, InRound, TurnPlaces
    <3> QED
      BY <1>7, <2>2, <2>4, <3>1, <3>2, <3>3, <3>5 DEF Moves, Quiet
  <2>13. CASE SetTicks(t)
    <3>1. at[t] = "addTick" /\ at'[t] = "broadcastTick" /\ ticks' = ticks + 1
      BY <1>1, <1>2, <1>3, <2>13 DEF SetTicks, Stopped
    <3>2. UNCHANGED <<ready, goal>>
      BY <2>13 DEF SetTicks
    <3>3. CASE t = Main
      BY <1>5, <2>1, <3>1, <3>2, <3>3 DEF Moves, MainTicks, MainTurn
    <3>4. CASE t # Main
      <4>1. /\ NodeTurn(t) /\ ~NodeTurn(t)'
            /\ Begun(t)' = Begun(t) /\ Signalled(t)' = Signalled(t)
        BY <3>1, <3>2 DEF Begun, Signalled, NodeTurn, InRound, TurnPlaces
      <4>2. NodeTicks(t)
        BY <1>6, <1>7, <3>1, <3>2, <3>4, <4>1 DEF NodeTicks, OthersSame
      <4>3. RoundsAlternate'
        BY <1>5, <2>2, <2>3, <3>1, <3>2, <3>4
      <4> QED
        BY <1>5, <3>4, <4>2, <4>3 DEF Moves
    <3> QED
      BY <3>3, <3>4
  <2>14. CASE BroadcastClock(t) /\ ~(t \in Nodes /\ at[t] = "broadcastTick")
    <3>1. UNCHANGED <<ticks, ready>>
      BY <2>14 DEF BroadcastClock
    <3>2. CASE t = Main
      <4>1. at[t] \in {"broadcastTick", "broadcastStop"} /\ at'[t] \in {"waitClock", "done"}
        BY <1>1, <2>14, <3>2 DEF BroadcastClock
      <4> QED
        BY <2>1, <3>1, <3>2, <4>1 DEF Moves, Quiet, MainTurn
    <3>3. CASE t \in Nodes
      BY <2>3, <2>14, <3>3 DEF BroadcastClock
    <3> QED
      BY <1>5, <3>2, <3>3
  <2> QED
    BY <2>5, <2>6, <2>7, <2>8, <2>9, <2>10, <2>11, <2>12, <2>13, <2>14 DEF ClientStep, WaitForTick, WaitForParent, BroadcastClock
<1> QED
  BY <1>3, <1>9

-----------------------------------------------------------------------------
(* The moves keep the invariant *)

LEMMA MovesKeepOneTurn ==
  ASSUME CounterTypeOK, OneTurn, NothingLost, Moves
  PROVE  OneTurn'
<1> USE DEF CounterTypeOK, OneTurn
<1>1. 1 \in Nodes /\ \A n \in Nodes : n > 1 => n - 1 \in Nodes
  BY GraphAssumption DEF Nodes
<1>2. Begun(1) \in Int /\ ticks \in Int /\ Begun(1) <= ticks /\ ticks <= Begun(1) + 1
  BY <1>1, CounterTypes, GraphAssumption DEF NothingLost
<1>3. CASE Quiet
  BY <1>1, <1>3 DEF Quiet, Same, ClockTurn
<1>4. CASE MainTicks
  BY <1>1, <1>4 DEF MainTicks, Same, ClockTurn
<1>5. ASSUME NEW t \in Nodes, NodeTicks(t) PROVE OneTurn'
  <2>1. \A n \in Nodes : NodeTurn(n)' => NodeTurn(n) /\ n # t
    BY <1>5 DEF NodeTicks, OthersSame, Same
  <2>2. \A n \in Nodes : ~NodeTurn(n)' /\ ~ready'[n]
    BY <1>5, <2>1 DEF NodeTicks
  <2>3. ~MainTurn'
    BY <1>5 DEF NodeTicks
  <2> QED
    BY <2>2, <2>3
<1>6. ASSUME NEW t \in Nodes, Starts(t) PROVE OneTurn'
  <2>1. ~MainTurn' /\ \A n \in Nodes \ {t} : ~NodeTurn(n)'
    BY <1>1, <1>6 DEF Starts, OthersSame, Same
  <2>2. \A n \in Nodes : ~ready'[n]
    BY <1>1, <1>6 DEF Starts
  <2>3. ~ClockTurn'
    <3>1. CASE t = 1
      BY <1>1, <1>2, <1>6, <3>1 DEF Starts, ClockTurn
    <3>2. CASE t # 1
      <4>1. Begun(1)' = Begun(1) /\ ticks' = ticks
        BY <1>1, <1>6, <3>2 DEF Starts, OthersSame, Same
      <4>2. t - 1 \in Nodes /\ ready[t - 1]
        BY <1>1, <1>6, <3>2 DEF Starts
      <4> QED
        BY <4>1, <4>2 DEF ClockTurn
    <3> QED
      BY <3>1, <3>2
  <2> QED
    BY <2>1, <2>2, <2>3
<1>7. ASSUME NEW t \in Nodes, Signals(t) PROVE OneTurn'
  <2>1. ~MainTurn' /\ \A n \in Nodes : ~NodeTurn(n)'
    BY <1>7 DEF Signals, OthersSame, Same
  <2>2. \A n \in Nodes : ready'[n] => n = t
    BY <1>7 DEF Signals
  <2>3. ~ClockTurn'
    <3>1. Begun(1)' = Begun(1) /\ ticks' = ticks
      BY <1>1, <1>7 DEF Signals, OthersSame, Same
    <3> QED
      BY <1>7, <3>1 DEF ClockTurn, Signals
  <2> QED
    BY <2>1, <2>2, <2>3
<1> QED
  BY <1>3, <1>4, <1>5, <1>6, <1>7 DEF Moves

LEMMA MovesKeepCounts ==
  ASSUME CounterTypeOK, CounterTypeOK', OneTurn, NothingLost, Moves
  PROVE  NothingLost'
<1> DEFINE Flag(t) == IF ready[t] THEN 1 ELSE 0
<1> USE DEF CounterTypeOK
<1>1. 1 \in Nodes /\ N \in Nat /\ Nodes = 1 .. N
  BY GraphAssumption DEF Nodes
<1>2. \A n \in Nodes : Begun(n) \in Nat /\ Signalled(n) \in Nat
  BY CounterTypes, GraphAssumption
<1>3. ticks \in Int /\ Begun(1) <= ticks /\ ticks <= Begun(1) + 1
  BY DEF NothingLost
<1>4. \A n \in Nodes : Signalled(n) = BegunByChild(n) + Flag(n)
  BY DEF NothingLost
<1>5. SUFFICES /\ Begun(1)' <= ticks' /\ ticks' <= Begun(1)' + 1
               /\ \A n \in Nodes : Signalled(n)' = BegunByChild(n)' + Flag(n)'
  BY DEF NothingLost
<1>6. \A n \in Nodes : n < N => n + 1 \in Nodes
  BY <1>1
<1>7. CASE Quiet
  BY <1>1, <1>3, <1>4, <1>6, <1>7 DEF Quiet, Same, BegunByChild
<1>8. CASE MainTicks
  <2>1. ticks = Begun(1)
    BY <1>1, <1>2, <1>3, <1>8 DEF OneTurn, MainTicks, ClockTurn
  <2> QED
    BY <1>1, <1>2, <1>4, <1>6, <1>8, <2>1 DEF MainTicks, Same, BegunByChild
<1>9. ASSUME NEW t \in Nodes, NodeTicks(t)
      PROVE  /\ Begun(1)' <= ticks' /\ ticks' <= Begun(1)' + 1
             /\ \A n \in Nodes : Signalled(n)' = BegunByChild(n)' + Flag(n)'
  <2>1. ticks = Begun(1)
    BY <1>1, <1>2, <1>3, <1>9 DEF OneTurn, NodeTicks, ClockTurn
  <2>2. \A n \in Nodes : Begun(n)' = Begun(n) /\ Signalled(n)' = Signalled(n)
    BY <1>9 DEF NodeTicks, OthersSame, Same
  <2> QED
    BY <1>1, <1>2, <1>4, <1>6, <1>9, <2>1, <2>2 DEF NodeTicks, BegunByChild
<1>10. ASSUME NEW t \in Nodes, Starts(t)
       PROVE  /\ Begun(1)' <= ticks' /\ ticks' <= Begun(1)' + 1
              /\ \A n \in Nodes : Signalled(n)' = BegunByChild(n)' + Flag(n)'
  <2>1. \A n \in Nodes : Signalled(n)' = Signalled(n) /\ Begun(n)' = IF n = t THEN Begun(n) + 1 ELSE Begun(n)
    BY <1>10 DEF Starts, OthersSame, Same
  <2>2. ticks' = ticks
    BY <1>10 DEF Starts
  <2>3. CASE t = 1
    <3>1. ClockTurn /\ ready' = ready
      BY <1>10, <2>3 DEF Starts
    <3>2. \A n \in Nodes : BegunByChild(n)' = BegunByChild(n)
      BY <1>1, <1>6, <2>1, <2>3 DEF BegunByChild
    <3> QED
      BY <1>1, <1>2, <1>3, <1>4, <2>1, <2>2, <2>3, <3>1, <3>2 DEF ClockTurn
  <2>4. CASE t # 1
    <3>1. t - 1 \in Nodes /\ ready[t - 1] /\ ready' = [ready EXCEPT ![t - 1] = FALSE] /\ t > 1
      BY <1>1, <1>10, <2>4 DEF Starts
    <3>2. \A n \in Nodes : BegunByChild(n)' = IF n = t - 1 THEN BegunByChild(n) + 1 ELSE BegunByChild(n)
      BY <1>1, <1>6, <2>1, <3>1 DEF BegunByChild
    <3>3. \A n \in Nodes : Flag(n)' = IF n = t - 1 THEN 0 ELSE Flag(n)
      BY <3>1
    <3>4. \A n \in Nodes : BegunByChild(n) \in Nat
      BY <1>2, <1>6 DEF BegunByChild
    <3>5. Flag(t - 1) = 1
      BY <3>1
    <3>6. ASSUME NEW n \in Nodes PROVE Signalled(n)' = BegunByChild(n)' + Flag(n)'
      <4>1. CASE n = t - 1
        BY <1>4, <2>1, <3>1, <3>2, <3>3, <3>4, <3>5, <4>1
      <4>2. CASE n # t - 1
        BY <1>4, <2>1, <3>2, <3>3, <3>4, <4>2
      <4> QED
        BY <4>1, <4>2
    <3> QED
      BY <1>1, <1>3, <2>1, <2>2, <2>4, <3>6
  <2> QED
    BY <2>3, <2>4
<1>11. ASSUME NEW t \in Nodes, Signals(t)
       PROVE  /\ Begun(1)' <= ticks' /\ ticks' <= Begun(1)' + 1
              /\ \A n \in Nodes : Signalled(n)' = BegunByChild(n)' + Flag(n)'
  <2>1. \A n \in Nodes : Begun(n)' = Begun(n) /\ Signalled(n)' = IF n = t THEN Signalled(n) + 1 ELSE Signalled(n)
    BY <1>11 DEF Signals, OthersSame, Same
  <2>2. ticks' = ticks /\ ready' = [ready EXCEPT ![t] = TRUE]
    BY <1>11 DEF Signals
  <2>3. ~ready[t]
    BY <1>11 DEF OneTurn, Signals
  <2>4. \A n \in Nodes : BegunByChild(n)' = BegunByChild(n) /\ BegunByChild(n) \in Nat
    BY <1>2, <1>6, <2>1 DEF BegunByChild
  <2>5. \A n \in Nodes : Flag(n)' = IF n = t THEN 1 ELSE Flag(n)
    BY <2>2
  <2>6. Flag(t) = 0
    BY <2>3
  <2>7. \A n \in Nodes : Signalled(n)' = BegunByChild(n)' + Flag(n)'
    BY <1>4, <2>1, <2>4, <2>5, <2>6
  <2> QED
    BY <1>1, <1>3, <2>1, <2>2, <2>7
<1> QED
  BY <1>5, <1>7, <1>8, <1>9, <1>10, <1>11 DEF Moves

LEMMA MovesKeepCarries ==
  ASSUME CounterTypeOK, OneTurn, CarriesRipple, Moves
  PROVE  CarriesRipple'
<1> USE DEF CounterTypeOK, CarriesRipple
<1>1. Nodes \subseteq Int /\ \A n \in Nodes : n > 1 => n - 1 \in Nodes
  BY GraphAssumption DEF Nodes
<1>2. CASE Quiet \/ MainTicks
  BY <1>2 DEF Quiet, MainTicks, Same
<1>3. ASSUME NEW t \in Nodes, NodeTicks(t) PROVE CarriesRipple'
  <2>1. \A n \in Nodes : ~NodeTurn(n)' /\ ~ready'[n]
    BY <1>3 DEF NodeTicks, OthersSame, Same, OneTurn
  <2> QED
    BY <2>1
<1>4. ASSUME NEW t \in Nodes, Starts(t) PROVE CarriesRipple'
  <2>1. \A n \in Nodes : (NodeTurn(n)' => n = t) /\ ~ready'[n]
    BY <1>1, <1>4 DEF Starts, OthersSame, Same, OneTurn
  <2>2. ASSUME NEW n \in Nodes, n < t PROVE Begun(n)' = 2 * Signalled(n)'
    <3>1. t > 1 /\ ready[t - 1] /\ t - 1 \in Nodes /\ n <= t - 1
      BY <1>1, <1>4, <2>2, GraphAssumption DEF Starts, Nodes
    <3>2. Begun(n)' = Begun(n) /\ Signalled(n)' = Signalled(n)
      BY <1>1, <1>4, <2>2 DEF Starts, OthersSame, Same
    <3> QED
      BY <3>1, <3>2
  <2> QED
    BY <2>1, <2>2
<1>5. ASSUME NEW t \in Nodes, Signals(t) PROVE CarriesRipple'
  <2>1. \A n \in Nodes : ~NodeTurn(n)' /\ (ready'[n] => n = t)
    BY <1>5 DEF Signals, OthersSame, Same, OneTurn
  <2>2. \A n \in Nodes : n < t => Begun(n)' = 2 * Signalled(n)'
    BY <1>1, <1>5 DEF Signals, OthersSame, Same
  <2>3. Begun(t)' = 2 * Signalled(t)'
    BY <1>5 DEF Signals
  <2> QED
    BY <1>1, <2>1, <2>2, <2>3
<1> QED
  BY <1>2, <1>3, <1>4, <1>5 DEF Moves
-----------------------------------------------------------------------------
(* The bound of the counter *)

LEMMA LeastElement == \A T \in SUBSET Nat : T # {} => \E k \in T : \A m \in T : k <= m
<1> SUFFICES ASSUME NEW T \in SUBSET Nat, T # {} PROVE \E k \in T : \A m \in T : k <= m
  OBVIOUS
<1> DEFINE Less == {pair \in Nat \X Nat : pair[1] < pair[2]}
<1>1. IsWellFoundedOn(Less, Nat)
  BY NatLessThanWellFounded DEF OpToRel
<1>2. PICK k \in T : \A m \in T : ~(<<m, k>> \in Less)
  <2> HIDE DEF Less
  <2> QED
    BY <1>1, WFMin
<1>3. \A m \in T : ~(m < k)
  BY <1>2
<1> QED
  BY <1>3

\* Of its rounds a node spends at most one more on a tick than on signals, and
\* the one it is in.
LEMMA BegunBound ==
  ASSUME CounterTypeOK, RoundsAlternate, NEW n \in Nodes
  PROVE  Begun(n) <= 2 * Signalled(n) + 1 + (IF NodeTurn(n) THEN 1 ELSE 0)
<1>1. goal[n] \in Nat \ {0}
  BY GraphAssumption DEF CounterTypeOK
<1>2. /\ at[n] \in {"signal", "setReady", "notify"} => goal[n] % 2 = 0
      /\ at[n] \in {"tick", "addTick", "broadcastTick"} => goal[n] % 2 # 0
  BY DEF RoundsAlternate, Bit
<1>3. \A g \in Nat \ {0} :
        /\ g - 1 <= 2 * ((g - 1) \div 2) + 1
        /\ g % 2 = 0 => g <= 2 * (g \div 2)
  OBVIOUS
<1>4. CASE at[n] = "notify"
  BY <1>1, <1>2, <1>3, <1>4 DEF Begun, Signalled, NodeTurn, InRound, TurnPlaces
<1>5. CASE at[n] = "broadcastTick"
  <2>1. goal[n] % 2 # 0
    BY <1>2, <1>5
  <2>2. goal[n] <= 2 * ((goal[n] - 1) \div 2) + 1
    BY <1>1, <2>1
  <2> QED
    BY <1>1, <1>5, <2>2 DEF Begun, Signalled, NodeTurn, InRound, TurnPlaces
<1>6. CASE at[n] \in TurnPlaces
  <2>1. Begun(n) = goal[n] /\ Signalled(n) = (goal[n] - 1) \div 2 /\ NodeTurn(n)
    BY <1>6 DEF Begun, Signalled, NodeTurn, InRound, TurnPlaces
  <2> QED
    BY <1>1, <1>3, <2>1
<1>7. CASE ~InRound(n)
  <2>1. Begun(n) = goal[n] - 1 /\ Signalled(n) = (goal[n] - 1) \div 2 /\ ~NodeTurn(n)
    BY <1>7 DEF Begun, Signalled, NodeTurn, InRound
  <2> QED
    BY <1>1, <1>3, <2>1
<1> QED
  BY <1>4, <1>5, <1>6, <1>7 DEF InRound

\* Node n begins at most 2^(N - n + 1) rounds, and the last of them only while
\* the turn is with it or above it.
LEMMA TicksBounded ==
  ASSUME CounterTypeOK, RoundsAlternate, OneTurn, NothingLost, CarriesRipple
  PROVE  ticks <= 2 ^ N
<1> DEFINE Rounds(n) == IF n <= N THEN Begun(n) ELSE 0
           Above(n) == \E m \in Nodes : m >= n /\ (NodeTurn(m) \/ ready[m])
           Good(k) == /\ Rounds(N + 1 - k) <= 2 ^ k
                      /\ ~Above(N + 1 - k) => Rounds(N + 1 - k) <= 2 ^ k - 1
           Bad == {k \in 0 .. N : ~Good(k)}
<1>1. N \in Nat \ {0} /\ Nodes = 1 .. N
  BY GraphAssumption DEF Nodes
<1>2. \A n \in Nodes : Begun(n) \in Nat /\ Signalled(n) \in Nat
  BY CounterTypes, GraphAssumption DEF CounterTypeOK
<1>3. Bad = {}
  <2> SUFFICES ASSUME Bad # {} PROVE FALSE
    OBVIOUS
  <2>1. PICK k \in Bad : \A m \in Bad : k <= m
    <3>1. Bad \in SUBSET Nat
      OBVIOUS
    <3> HIDE DEF Bad
    <3> QED
      BY <3>1, LeastElement
  <2>2. k \in 0 .. N /\ ~Good(k)
    OBVIOUS
  <2>3. CASE k = 0
    <3>1. Rounds(N + 1 - k) = 0 /\ 2 ^ k = 1
      BY <1>1, <2>3
    <3> QED
      BY <2>2, <3>1
  <2>4. CASE k # 0
    <3> DEFINE n == N + 1 - k
    <3>1. n \in Nodes /\ n <= N /\ k - 1 \in 0 .. N /\ N + 1 - (k - 1) = n + 1 /\ n \in Nat
      BY <1>1, <2>2, <2>4
    <3>2. Good(k - 1)
      <4>1. k - 1 \notin Bad
        BY <2>1, <2>2, <3>1
      <4> QED
        BY <3>1, <4>1
    <3>3. 2 ^ k = 2 * 2 ^ (k - 1) /\ 2 ^ (k - 1) \in Nat
      <4>1. (k - 1) + 1 = k
        BY <2>2
      <4> QED
        BY <3>1, <4>1, PowersAssumption
    <3>4. /\ Rounds(n + 1) <= 2 ^ (k - 1)
          /\ ~Above(n + 1) => Rounds(n + 1) <= 2 ^ (k - 1) - 1
      BY <3>1, <3>2
    <3>5. Rounds(n) = Begun(n) /\ Rounds(n + 1) = BegunByChild(n) /\ Rounds(n + 1) \in Nat
      <4>1. n < N <=> n + 1 <= N
        BY <1>1, <3>1
      <4>2. n < N => n + 1 \in Nodes
        BY <1>1, <3>1
      <4> HIDE DEF n
      <4>3. Rounds(n + 1) = BegunByChild(n)
        BY <4>1 DEF BegunByChild
      <4>4. Rounds(n + 1) \in Nat
        BY <1>2, <4>1, <4>2
      <4> QED
        BY <3>1, <4>3, <4>4
    <3>6. Signalled(n) = Rounds(n + 1) + (IF ready[n] THEN 1 ELSE 0)
      BY <3>1, <3>5 DEF NothingLost
    <3>7. Begun(n) <= 2 * Signalled(n) + 1 + (IF NodeTurn(n) THEN 1 ELSE 0)
      BY <3>1, BegunBound
    <3>8. Begun(n) \in Nat /\ Signalled(n) \in Nat
      BY <1>2, <3>1
    <3>9. (NodeTurn(n) \/ ready[n]) => Above(n) /\ ~Above(n + 1)
      <4>1. \A m \in Nodes : m >= n + 1 => m # n
        BY <1>1, <3>1
      <4> QED
        BY <3>1, <4>1 DEF OneTurn
    <3>10. Above(n + 1) => Above(n) /\ Begun(n) = 2 * Signalled(n)
      <4>1. \A m \in Nodes : m >= n + 1 => m >= n /\ n < m /\ n <= m
        BY <1>1, <3>1
      <4> QED
        BY <3>1, <4>1 DEF CarriesRipple
    <3>11. ready[n] => Begun(n) = 2 * Signalled(n) /\ ~NodeTurn(n)
      BY <3>1 DEF CarriesRipple, OneTurn
    <3>12. Begun(n) <= 2 ^ k /\ (~Above(n) => Begun(n) <= 2 ^ k - 1)
      <4> HIDE DEF Rounds, Above, Good, Bad, n
      <4>1. CASE NodeTurn(n)
        BY <3>3, <3>4, <3>5, <3>6, <3>7, <3>8, <3>9, <3>11, <4>1
      <4>2. CASE ready[n]
        BY <3>3, <3>4, <3>5, <3>6, <3>8, <3>9, <3>11, <4>2
      <4>3. CASE ~NodeTurn(n) /\ ~ready[n] /\ Above(n + 1)
        BY <3>3, <3>4, <3>5, <3>6, <3>8, <3>10, <4>3
      <4>4. CASE ~NodeTurn(n) /\ ~ready[n] /\ ~Above(n + 1)
        BY <3>3, <3>4, <3>5, <3>6, <3>7, <3>8, <4>4
      <4> QED
        BY <4>1, <4>2, <4>3, <4>4
    <3> QED
      BY <2>2, <3>5, <3>12
  <2> QED
    BY <2>3, <2>4
<1>4. Good(N)
  <2>1. N \in 0 .. N
    BY <1>1
  <2> HIDE DEF Good
  <2> QED
    BY <1>3, <2>1
<1>5. N + 1 - N = 1 /\ 1 \in Nodes /\ 2 ^ N \in Nat
  BY <1>1, PowersAssumption
<1>6. Begun(1) <= 2 ^ N /\ (~Above(1) => Begun(1) <= 2 ^ N - 1)
  BY <1>1, <1>4, <1>5
<1>7. ticks <= Begun(1) + 1 /\ (ticks > Begun(1) => ~Above(1))
  BY DEF NothingLost, OneTurn, ClockTurn
<1>8. ticks \in Int /\ Begun(1) \in Nat
  BY <1>2, <1>5 DEF CounterTypeOK
<1> QED
  <2> HIDE DEF Above
  <2> QED
    BY <1>5, <1>6, <1>7, <1>8

-----------------------------------------------------------------------------
(* The invariant of the counter *)

LEMMA InitCounter == Init => CounterInv
<1> SUFFICES ASSUME Init PROVE CounterInv
  OBVIOUS
<1> USE DEF Init, CounterInv
<1>1. N \in Nat \ {0} /\ Nodes = 1 .. N /\ Main \notin Nodes /\ Main \in Threads /\ Nodes \subseteq Threads
  BY GraphAssumption DEF Nodes
<1>2. 2 ^ N \in Nat \ {0}
  BY <1>1, PowersAssumption
<1>3. CounterTypeOK
  BY <1>1, <1>2 DEF CounterTypeOK
<1>4. \A t \in Nodes : at[t] = "waitClock" /\ goal[t] = 1 /\ ~ready[t]
  BY <1>1
<1>5. \A t \in Nodes : ~NodeTurn(t) /\ Begun(t) = 0 /\ Signalled(t) = 0
  BY <1>4 DEF NodeTurn, Begun, Signalled, InRound, TurnPlaces
<1>6. RoundsAlternate
  BY <1>4 DEF RoundsAlternate, EndPlaces
<1>7. OneTurn
  BY <1>1, <1>4, <1>5 DEF OneTurn, ClockTurn
<1>8. \A t \in Nodes : BegunByChild(t) = 0
  BY <1>1, <1>5 DEF BegunByChild
<1>9. NothingLost
  BY <1>1, <1>4, <1>5, <1>8 DEF NothingLost
<1>10. CarriesRipple
  BY <1>4, <1>5 DEF CarriesRipple
<1> QED
  BY <1>3, <1>6, <1>7, <1>9, <1>10

LEMMA NextCounter == TypeOK /\ CounterInv /\ [Next]_vars => CounterInv'
<1> SUFFICES ASSUME TypeOK, CounterInv, [Next]_vars PROVE CounterInv'
  OBVIOUS
<1>1. ASSUME NEW t \in Threads, ClientStep(t) PROVE CounterInv'
  <2>1. CounterTypeOK'
    BY <1>1, ClientFrame DEF CounterInv, TypeOK
  <2>2. ASSUME ~Stopped' PROVE CounterInv'
    <3>1. ~Stopped /\ RoundsAlternate' /\ Moves
      BY <1>1, <2>2, ClientMoves
    <3>2. CounterTypeOK /\ OneTurn /\ NothingLost /\ CarriesRipple
      BY <3>1 DEF CounterInv
    <3> QED
      BY <2>1, <3>1, <3>2, MovesKeepOneTurn, MovesKeepCounts, MovesKeepCarries DEF CounterInv
  <2> QED
    BY <2>1, <2>2 DEF CounterInv
<1>2. CASE UNCHANGED clientVars
  BY <1>2 DEF clientVars, CounterInv, CounterTypeOK, Stopped, RoundsAlternate, Bit, OneTurn, NothingLost, CarriesRipple,
              MainTurn, ClockTurn, NodeTurn, Begun, BegunByChild, Signalled, InRound
<1> QED
  BY <1>1, <1>2 DEF Next, InCall, vars

-----------------------------------------------------------------------------
(* The theorems, for every number of nodes *)

\* mutex_lock and mutex_unlock give mutual exclusion, also to the threads that
\* come back from cond_wait.  This holds for every value of the open macros.
THEOREM MutexExcludes == Spec => []MutualExclusion
<1>1. IInv => MutualExclusion
  BY DEF IInv
<1> QED
  BY <1>1, InvariantIInv, PTL

\* No thread that sleeps in cond_wait has missed a cond_signal or
\* cond_broadcast after it read the sequence number.
THEOREM NotificationsArrive == Spec => []NotifiedInTime
<1>1. IInv => NotifiedInTime
  BY DEF IInv
<1> QED
  BY <1>1, InvariantIInv, PTL

\* No sleeper on a mutex is forgotten, if the open macros are chosen so that
\* cond_wait sets MUTEX_SLEEPING and cond_broadcast wakes at least one thread.
THEOREM SleepersAreWoken ==
  ASSUME "SLEEPING" \in RelockFlags, BroadcastWakes # 0
  PROVE  Spec => []SleeperHasWaker
<1>1. Init => SleeperHasWaker
  BY InitIInv
<1>2. IInv /\ SleeperHasWaker /\ [Next]_vars => SleeperHasWaker'
  <2> SUFFICES ASSUME IInv, SleeperHasWaker, [Next]_vars PROVE SleeperHasWaker'
    OBVIOUS
  <2>1. SyncTypeOK /\ TypeOK /\ Discipline /\ QueuesOK /\ RelockedHolds /\ MutualExclusion
    BY DEF IInv, TypeOK
  <2>2. ASSUME NEW t \in Threads, ClientStep(t) PROVE SleeperHasWaker'
    <3>1. PICK o \in Objects : Enter(t, o)
      BY <2>1, <2>2, ClientEnters
    <3> QED
      BY <2>1, <3>1, EnterWaker
  <2>3. ASSUME NEW t \in Threads, InCall(t) PROVE SleeperHasWaker'
    BY <2>1, <2>3, StepWaker DEF InCall
  <2>4. CASE UNCHANGED vars
    BY <2>4 DEF vars, syncVars, futexVars, callVars, SleeperHasWaker, WillWake, Bits
  <2> QED
    BY <2>2, <2>3, <2>4 DEF Next
<1> QED
  BY <1>1, <1>2, InvariantIInv, PTL DEF Spec

\* No signal of a node is lost, though ready is one flag: the parent cannot
\* come round again before the child has taken the one before.  And the clock
\* never passes the value that main waits for.
THEOREM CountsExactly == Spec => []CounterExact
<1>1. IInv => TypeOK
  BY DEF IInv
<1>2. CounterInv => CounterExact
  <2> SUFFICES ASSUME CounterInv PROVE CounterExact
    OBVIOUS
  <2>1. ASSUME NEW t \in Nodes, From(t, "setReady"), ticks # -1 PROVE ~ready[t]
    BY <2>1 DEF CounterInv, Stopped, OneTurn, NodeTurn, TurnPlaces, From
  <2>2. ticks <= 2 ^ N
    <3>1. CASE Stopped
      BY <3>1, PowersAssumption, GraphAssumption DEF Stopped
    <3>2. CASE ~Stopped
      BY <3>2, TicksBounded DEF CounterInv
    <3> QED
      BY <3>1, <3>2
  <2> QED
    BY <2>1, <2>2 DEF CounterExact
<1> QED
  BY <1>1, <1>2, InvariantIInv, InitCounter, NextCounter, PTL DEF Spec
=============================================================================
