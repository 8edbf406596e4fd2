------------------------------ MODULE FutexSync ------------------------------
(***************************************************************************)
(* The mutex and the condition variable of linux-2023-summer/quiz2         *)
(* (mutex.h, cond.h) over the futex system call (futex.h).  A mutex and    *)
(* the condition variable used with it belong to one object, as they do in *)
(* the structures of main.c.                                               *)
(*                                                                         *)
(* A client calls one of the operators Call...; the steps of the call then *)
(* follow as actions of their own, one per atomic access or system call,   *)
(* until the thread is back at "run".  The 128 rounds of the spin loops    *)
(* are any number of rounds here: a thread leaves a loop when it succeeds, *)
(* or, at any moment, because a round failed.                              *)
(*                                                                         *)
(* The header files leave macros open.  AAAA is RelockFlags, DDDD is       *)
(* BroadcastWakes; BBBB and CCCC, added to the sequence number, are one;   *)
(* EEEE and FFFF are futex_wake, the only function of futex.h that fits.   *)
(***************************************************************************)
EXTENDS Integers, FiniteSets

CONSTANTS Threads, Objects,
          RelockFlags,        \* AAAA: bits cond_wait sets when it has the mutex again
          BroadcastWakes      \* DDDD: how many cond_broadcast wakes and does not requeue

Bits == {"LOCKED", "SLEEPING"}

ASSUME FlagsAssumption == RelockFlags \subseteq Bits
ASSUME WakesAssumption == BroadcastWakes \in Nat

VARIABLES state,      \* mutex->state, a set of bits
          seq,        \* cond->seq
          mutexQueue, \* the threads the kernel keeps on the futex &mutex->state
          condQueue,  \* the threads it keeps on the futex &cond->seq
          step,       \* where thread t is inside a call
          obj,        \* the object of its call
          seen,       \* cond_wait: the sequence number it read
          relock,     \* it is locking the mutex again after futex_wait in cond_wait
          holders     \* history: the threads between mutex_lock and mutex_unlock

futexVars == <<state, seq, mutexQueue, condQueue>>
callVars == <<step, obj, seen, relock>>
syncVars == <<futexVars, callVars, holders>>

SyncInit ==
  /\ state = [o \in Objects |-> {}]
  /\ seq = [o \in Objects |-> 0]
  /\ mutexQueue = [o \in Objects |-> {}] /\ condQueue = [o \in Objects |-> {}]
  /\ step = [t \in Threads |-> "run"]
  /\ obj = [t \in Threads |-> CHOOSE o \in Objects : TRUE]
  /\ seen = [t \in Threads |-> 0]
  /\ relock = [t \in Threads |-> FALSE]
  /\ holders = [o \in Objects |-> {}]

Goto(t, label) == step' = [step EXCEPT ![t] = label]

\* Thread t goes to label and the threads ts return from futex_wait: those of
\* mutex_lock try the exchange again, those of cond_wait lock the mutex.
GotoAndWake(t, label, ts) ==
  /\ step' = [u \in Threads |-> CASE u = t -> label
                                  [] u \in ts \ {t} /\ step[u] = "sleepMutex" -> "exchange"
                                  [] u \in ts \ {t} /\ step[u] # "sleepMutex" -> "lock"
                                  [] OTHER -> step[u]]
  /\ relock' = [u \in Threads |-> relock[u] \/ (u \in ts /\ step[u] = "sleepCond")]

\* The threads a futex_wake with this limit may wake.
Chosen(queue, limit) ==
  {ts \in SUBSET queue : /\ Cardinality(ts) <= limit
                         /\ Cardinality(ts) = limit \/ ts = queue}

-----------------------------------------------------------------------------
(* mutex_lock *)

CallLock(t, o) ==
  /\ Goto(t, "lock") /\ obj' = [obj EXCEPT ![t] = o]
  /\ UNCHANGED <<futexVars, seen, relock, holders>>

\* The thread has the mutex; inside cond_wait there is one more step after a
\* futex_wait.
Locked(t) ==
  /\ holders' = [holders EXCEPT ![obj[t]] = @ \cup {t}]
  /\ Goto(t, IF relock[t] THEN "relocked" ELSE "run")

\* Mutant: the result of the fetch_or is not looked at.
TryLockMutant(t) ==
  /\ step[t] = "lock"
  /\ state' = [state EXCEPT ![obj[t]] = @ \cup {"LOCKED"}]
  /\ Locked(t)
  /\ UNCHANGED <<seq, mutexQueue, condQueue, obj, seen, relock>>

\* mutex_trylock that finds the bit clear in its fetch_or.
TryLock(t) ==
  /\ step[t] = "lock" /\ "LOCKED" \notin state[obj[t]]
  /\ state' = [state EXCEPT ![obj[t]] = @ \cup {"LOCKED"}]
  /\ Locked(t)
  /\ UNCHANGED <<seq, mutexQueue, condQueue, obj, seen, relock>>

\* The last round of the spin loop failed.
StopSpinning(t) ==
  /\ step[t] = "lock" /\ "LOCKED" \in state[obj[t]]
  /\ Goto(t, "exchange")
  /\ UNCHANGED <<futexVars, obj, seen, relock, holders>>

Exchange(t) ==
  /\ step[t] = "exchange"
  /\ state' = [state EXCEPT ![obj[t]] = Bits]
  /\ IF "LOCKED" \in state[obj[t]] THEN Goto(t, "futexWait") /\ UNCHANGED holders
                                   ELSE Locked(t)
  /\ UNCHANGED <<seq, mutexQueue, condQueue, obj, seen, relock>>

\* futex_wait returns at once if the word has changed.
MutexFutexWait(t) ==
  /\ step[t] = "futexWait"
  /\ IF state[obj[t]] = Bits
     THEN /\ mutexQueue' = [mutexQueue EXCEPT ![obj[t]] = @ \cup {t}]
          /\ Goto(t, "sleepMutex")
     ELSE Goto(t, "exchange") /\ UNCHANGED mutexQueue
  /\ UNCHANGED <<state, seq, condQueue, obj, seen, relock, holders>>

-----------------------------------------------------------------------------
(* mutex_unlock *)

\* The exchange; then futex_wake if somebody may sleep, then "next".
Unlock(t, o, next) ==
  /\ state' = [state EXCEPT ![o] = {}]
  /\ holders' = [holders EXCEPT ![o] = @ \ {t}]
  /\ Goto(t, IF "SLEEPING" \notin state[o] THEN next
             ELSE IF next = "run" THEN "wake" ELSE "wakeThenSpin")
  /\ obj' = [obj EXCEPT ![t] = o]
  /\ UNCHANGED <<seq, mutexQueue, condQueue, relock>>

CallUnlock(t, o) == Unlock(t, o, "run") /\ UNCHANGED seen

Wake(t) ==
  /\ step[t] \in {"wake", "wakeThenSpin"}
  /\ \E ts \in Chosen(mutexQueue[obj[t]], 1) :
       /\ mutexQueue' = [mutexQueue EXCEPT ![obj[t]] = @ \ ts]
       /\ GotoAndWake(t, IF step[t] = "wake" THEN "run" ELSE "spin", ts)
  /\ UNCHANGED <<state, seq, condQueue, obj, seen, holders>>

-----------------------------------------------------------------------------
(* cond_wait *)

CallWait(t, o) ==
  /\ seen' = [seen EXCEPT ![t] = seq[o]]
  /\ Unlock(t, o, "spin")

\* The spin loop sees a new sequence number, or ends.
Spin(t) ==
  /\ step[t] = "spin"
  /\ Goto(t, IF seq[obj[t]] # seen[t] THEN "lock" ELSE "condFutexWait")
  /\ UNCHANGED <<futexVars, obj, seen, relock, holders>>

\* Mutant: the sequence number is read again for futex_wait.
CondFutexWaitMutant(t) ==
  /\ step[t] = "condFutexWait"
  /\ condQueue' = [condQueue EXCEPT ![obj[t]] = @ \cup {t}]
  /\ Goto(t, "sleepCond")
  /\ UNCHANGED <<state, seq, mutexQueue, obj, seen, relock, holders>>

CondFutexWait(t) ==
  /\ step[t] = "condFutexWait"
  /\ IF seq[obj[t]] = seen[t]
     THEN /\ condQueue' = [condQueue EXCEPT ![obj[t]] = @ \cup {t}]
          /\ Goto(t, "sleepCond") /\ UNCHANGED relock
     ELSE /\ Goto(t, "lock") /\ relock' = [relock EXCEPT ![t] = TRUE]
          /\ UNCHANGED condQueue
  /\ UNCHANGED <<state, seq, mutexQueue, obj, seen, holders>>

\* Mutant: no bit is set, AAAA is MUTEX_LOCKED.
RelockedMutant(t) ==
  /\ step[t] = "relocked"
  /\ relock' = [relock EXCEPT ![t] = FALSE]
  /\ Goto(t, "run")
  /\ UNCHANGED <<futexVars, obj, seen, holders>>

\* The fetch_or after mutex_lock.
Relocked(t) ==
  /\ step[t] = "relocked"
  /\ state' = [state EXCEPT ![obj[t]] = @ \cup RelockFlags]
  /\ relock' = [relock EXCEPT ![t] = FALSE]
  /\ Goto(t, "run")
  /\ UNCHANGED <<seq, mutexQueue, condQueue, obj, seen, holders>>

-----------------------------------------------------------------------------
(* cond_signal and cond_broadcast *)

\* Mutant: the sequence number is not increased.
CallNotifyMutant(t, o, label) ==
  /\ Goto(t, label) /\ obj' = [obj EXCEPT ![t] = o]
  /\ UNCHANGED <<futexVars, seen, relock, holders>>

CallNotify(t, o, label) ==
  /\ seq' = [seq EXCEPT ![o] = @ + 1]
  /\ Goto(t, label) /\ obj' = [obj EXCEPT ![t] = o]
  /\ UNCHANGED <<state, mutexQueue, condQueue, seen, relock, holders>>

CallSignal(t, o) == CallNotify(t, o, "signal")
CallBroadcast(t, o) == CallNotify(t, o, "broadcast")

\* futex_wake for one sleeper, or futex_requeue: some wake up, all others now
\* sleep on the mutex.
Notify(t) ==
  /\ step[t] \in {"signal", "broadcast"}
  /\ LET o == obj[t]
         limit == IF step[t] = "signal" THEN 1 ELSE BroadcastWakes
     IN \E ts \in Chosen(condQueue[o], limit) :
          /\ IF step[t] = "signal"
             THEN /\ condQueue' = [condQueue EXCEPT ![o] = @ \ ts]
                  /\ UNCHANGED mutexQueue
             ELSE /\ condQueue' = [condQueue EXCEPT ![o] = {}]
                  /\ mutexQueue' = [mutexQueue EXCEPT ![o] = @ \cup (condQueue[o] \ ts)]
          /\ GotoAndWake(t, "run", ts)
  /\ UNCHANGED <<state, seq, obj, seen, holders>>

-----------------------------------------------------------------------------
SyncStep(t) ==
  \/ TryLock(t) \/ StopSpinning(t) \/ Exchange(t) \/ MutexFutexWait(t) \/ Wake(t)
  \/ Spin(t) \/ CondFutexWait(t) \/ Relocked(t) \/ Notify(t)
-----------------------------------------------------------------------------
(* Properties, of clients that unlock and wait only with the mutex held *)

\* At most one thread is between mutex_lock and mutex_unlock of an object, and
\* the mutex has its bit set while there is one.
MutualExclusion ==
  \A o \in Objects : /\ \A t, u \in holders[o] : t = u
                     /\ holders[o] # {} => "LOCKED" \in state[o]

\* Thread t is awake and will wake a sleeper of its mutex or set MUTEX_SLEEPING.
WillWake(t) == \/ step[t] \in {"wake", "wakeThenSpin", "exchange", "futexWait", "relocked"}
               \/ (step[t] = "lock" /\ relock[t])

\* No sleeper on a mutex is forgotten, though cond_broadcast puts threads to
\* sleep there that never set MUTEX_SLEEPING: the owner will see the bit when
\* it unlocks, or a thread is awake that will wake a sleeper or set the bit.
SleeperHasWaker ==
  \A o \in Objects : mutexQueue[o] # {} =>
    state[o] = Bits \/ \E t \in Threads : obj[t] = o /\ WillWake(t)

\* No notification is missed between reading the sequence number and falling
\* asleep: whoever sleeps on a condition variable has seen its present number,
\* or the thread that changed it is about to wake the sleepers.
NotifiedInTime ==
  \A o \in Objects : \A t \in condQueue[o] :
    seen[t] = seq[o] \/ \E u \in Threads : obj[u] = o /\ step[u] \in {"signal", "broadcast"}

-----------------------------------------------------------------------------
(* The types, and what the proofs need to know of the queues *)

Steps == {"run", "lock", "exchange", "futexWait", "sleepMutex", "relocked", "wake",
          "wakeThenSpin", "spin", "condFutexWait", "sleepCond", "signal", "broadcast"}

SyncTypeOK ==
  /\ state \in [Objects -> SUBSET Bits]
  /\ seq \in [Objects -> Nat]
  /\ mutexQueue \in [Objects -> SUBSET Threads]
  /\ condQueue \in [Objects -> SUBSET Threads]
  /\ step \in [Threads -> Steps]
  /\ obj \in [Threads -> Objects]
  /\ seen \in [Threads -> Nat]
  /\ relock \in [Threads -> BOOLEAN]
  /\ holders \in [Objects -> SUBSET Threads]

\* Who is in a queue of the kernel sleeps, and on that object.
QueuesOK ==
  \A o \in Objects :
    /\ \A t \in mutexQueue[o] : obj[t] = o /\ step[t] \in {"sleepMutex", "sleepCond"}
    /\ \A t \in condQueue[o] : obj[t] = o /\ step[t] = "sleepCond"
    /\ mutexQueue[o] \cap condQueue[o] = {}

\* A thread back from cond_wait's futex_wait sets the bits with the mutex held.
RelockedHolds == \A t \in Threads : step[t] = "relocked" => t \in holders[obj[t]]
=============================================================================
