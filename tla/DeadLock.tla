------------------------------ MODULE DeadLock ------------------------------
(***************************************************************************)
(* pthread_dead_lock.c: two threads take two mutexes in opposite order, a  *)
(* third locks and unlocks each mutex in turn and counts, a fourth takes a *)
(* count that stands still for five seconds for a dead lock and lets the   *)
(* operator unlock one of the mutexes, whoever holds it.                   *)
(*                                                                         *)
(* A mutex has the name of its player.  It is a default mutex of glibc:    *)
(* pthread_mutex_unlock frees it no matter who calls.                      *)
(***************************************************************************)
EXTENDS Naturals

Player == {"A", "B"}

Other(p) == IF p = "A" THEN "B" ELSE "A"

VARIABLES
  pc,               \* of thread_fun_A and thread_fun_B
  share, loaded,    \* shareA, shareB; the value read of the other's share
  locked,           \* the state of each mutex
  mute_status,      \* what the report goes by
  detect, index,    \* loop_detect_deadlock_thread, and its i
  moved,            \* has count changed since loop_detect_count_thread read it?
  monitor, chosen,  \* loop_detect_count_thread, and the index the operator gave
  main,
  cancelled,        \* the threads pthread_cancel was called for
  forced            \* observation: the operator has unlocked a mutex

workVars  == <<pc, share, loaded>>
mutexVars == <<locked, mute_status>>
otherVars == <<detect, index, moved, monitor, chosen, main, cancelled, forced>>
lockVars  == <<workVars, mutexVars, otherVars>>

DeadLockInit ==
  /\ pc = [p \in Player |-> "lock1"]
  /\ share = [p \in Player |-> 0] /\ loaded = [p \in Player |-> 0]
  /\ locked = [m \in Player |-> FALSE] /\ mute_status = [m \in Player |-> FALSE]
  /\ detect = "lock" /\ index = "A" /\ moved = FALSE
  /\ monitor = "load" /\ chosen = "A"
  /\ main = "join A" /\ cancelled = {}
  /\ forced = FALSE

-----------------------------------------------------------------------------

(***************************************************************************)
(* thread_fun_A and thread_fun_B.  PLAYER_MUXTEX_LOCK sets mute_status     *)
(* after the lock, PLAYER_MUXTEX_UNLOCK clears it before the unlock.       *)
(***************************************************************************)
goes(p, from, to) == pc[p] = from /\ pc' = [pc EXCEPT ![p] = to]

lock(p, m, from, to) ==
  /\ goes(p, from, to)
  /\ ~locked[m] /\ locked' = [locked EXCEPT ![m] = TRUE]
  /\ UNCHANGED <<share, loaded, mute_status, otherVars>>

set_status(p, m, s, from, to) ==
  /\ goes(p, from, to)
  /\ mute_status' = [mute_status EXCEPT ![m] = s]
  /\ UNCHANGED <<share, loaded, locked, otherVars>>

unlock(p, m, from, to) ==
  /\ goes(p, from, to)
  /\ locked' = [locked EXCEPT ![m] = FALSE]
  /\ UNCHANGED <<share, loaded, mute_status, otherVars>>

Step == [p \in Player |-> IF p = "A" THEN 2 ELSE 3]

add(p) ==
  /\ goes(p, "add", "lock2")
  /\ share' = [share EXCEPT ![p] = @ + Step[p]]
  /\ UNCHANGED <<loaded, mutexVars, otherVars>>

load_other(p) ==
  /\ goes(p, "load", "store")
  /\ loaded' = [loaded EXCEPT ![p] = share[Other(p)]]
  /\ UNCHANGED <<share, mutexVars, otherVars>>

store(p) ==
  /\ goes(p, "store", "clear2")
  /\ share' = [share EXCEPT ![p] = loaded[p] + Step[p]]
  /\ UNCHANGED <<loaded, mutexVars, otherVars>>

\* Variant with a bug: the thread takes its second mutex without the first.
FirstLock_Skipped(p) ==
  goes(p, "lock1", "add") /\ UNCHANGED <<share, loaded, mutexVars, otherVars>>

FirstLock(p) == lock(p, p, "lock1", "mark1")

thread_fun(p) ==
  \/ FirstLock(p)
  \/ set_status(p, p, TRUE, "mark1", "add")
  \/ add(p)
  \/ lock(p, Other(p), "lock2", "mark2")
  \/ set_status(p, Other(p), TRUE, "mark2", "load")
  \/ load_other(p)
  \/ store(p)
  \/ set_status(p, Other(p), FALSE, "clear2", "unlock2")
  \/ unlock(p, Other(p), "unlock2", "clear1")
  \/ set_status(p, p, FALSE, "clear1", "unlock1")
  \/ unlock(p, p, "unlock1", "done")

-----------------------------------------------------------------------------

(***************************************************************************)
(* loop_detect_deadlock_thread.  Its cancellation is deferred: it takes    *)
(* effect at pthread_testcancel and in sleep, where nothing is locked;     *)
(* pthread_mutex_lock is no cancellation point.                            *)
(***************************************************************************)
detects(from, to) ==
  /\ detect = from /\ detect' = to
  /\ UNCHANGED <<workVars, mute_status, monitor, chosen, main, cancelled, forced>>

\* Variant with a bug: i runs past list_count.
NextIndex_NoWrap(i) == IF i = "A" THEN "B" ELSE "past the end"

NextIndex(i) == IF i = "A" THEN "B" ELSE "A"

\* Variant with a bug: the mutex is kept.
AfterUnlock_Kept(m) == locked

AfterUnlock(m) == [locked EXCEPT ![m] = FALSE]

\* Variant with a bug: the thread may be cancelled with the mutex in its hands.
CancelPoint_Asynchronous == {"count", "test"}

CancelPoint == {"test"}

loop_detect_deadlock_thread ==
  \/ /\ detects("lock", "count")
     /\ ~locked[index] /\ locked' = [locked EXCEPT ![index] = TRUE]
     /\ UNCHANGED <<index, moved>>
  \/ detects("count", "unlock") /\ moved' = TRUE /\ UNCHANGED <<locked, index>>
  \/ detects("unlock", "test") /\ locked' = AfterUnlock(index)
     /\ index' = NextIndex(index) /\ UNCHANGED moved
  \/ /\ "detect" \notin cancelled
     /\ detects("test", "lock") /\ UNCHANGED <<locked, index, moved>>
  \/ /\ "detect" \in cancelled /\ detect \in CancelPoint
     /\ detects(detect, "gone") /\ UNCHANGED <<locked, index, moved>>

(***************************************************************************)
(* loop_detect_count_thread.  The five seconds of its sleep are long: the  *)
(* other threads sleep for one second at a time, so a thread that can run  *)
(* has run.  The thread finds count where it was only if the other three   *)
(* can do nothing.                                                         *)
(***************************************************************************)
monitors(from, to) ==
  /\ monitor = from /\ monitor' = to
  /\ UNCHANGED <<workVars, detect, index, main, cancelled>>

Waiting(p) ==
  \/ pc[p] = "lock1" /\ locked[p]
  \/ pc[p] = "lock2" /\ locked[Other(p)]
  \/ pc[p] = "done"

NobodyRuns ==
  /\ \A p \in Player : Waiting(p)
  /\ detect = "lock" /\ locked[index]

\* Variant with a bug: the status is cleared and the mutex left as it is.
OperatorUnlocks_Nothing(m) == locked

OperatorUnlocks(m) == [locked EXCEPT ![m] = FALSE]

loop_detect_count_thread ==
  \/ /\ monitors("load", "compare") /\ moved' = FALSE
     /\ UNCHANGED <<mutexVars, chosen, forced>>
  \/ /\ monitors("compare", "load") /\ moved
     /\ UNCHANGED <<mutexVars, moved, chosen, forced>>
  \/ /\ monitors("compare", "report") /\ ~moved /\ NobodyRuns
     /\ UNCHANGED <<mutexVars, moved, chosen, forced>>

handle_dead_lock ==
  \/ \E m \in Player :
       /\ monitors("report", "unlock") /\ chosen' = m
       /\ mute_status' = [mute_status EXCEPT ![m] = FALSE]
       /\ UNCHANGED <<locked, moved, forced>>
  \/ /\ monitors("unlock", "load") /\ locked' = OperatorUnlocks(chosen)
     /\ forced' = TRUE /\ UNCHANGED <<mute_status, moved, chosen>>

\* Its cancellation is asynchronous: it takes effect wherever the thread is.
count_thread_cancelled ==
  /\ "monitor" \in cancelled /\ monitor # "gone"
  /\ monitors(monitor, "gone") /\ UNCHANGED <<mutexVars, moved, chosen, forced>>

-----------------------------------------------------------------------------

(***************************************************************************)
(* main: the joins, the cancellations, the end.  pthread_join waits.       *)
(***************************************************************************)
mains(from, to) ==
  /\ main = from /\ main' = to
  /\ UNCHANGED <<workVars, mutexVars, detect, index, moved, monitor, chosen, forced>>

join(from, to, gone) == mains(from, to) /\ gone /\ UNCHANGED cancelled

cancel(from, to, t) == mains(from, to) /\ cancelled' = cancelled \cup {t}

main_thread ==
  \/ join("join A", "join B", pc["A"] = "done")
  \/ join("join B", "cancel count", pc["B"] = "done")
  \/ cancel("cancel count", "cancel detect", "monitor")
  \/ cancel("cancel detect", "join count", "detect")
  \/ join("join count", "join detect", monitor = "gone")
  \/ join("join detect", "destroy", detect = "gone")
  \/ join("destroy", "done", TRUE)

Ended == main = "done" /\ UNCHANGED lockVars

DeadLockNext ==
  \/ \E p \in Player : thread_fun(p)
  \/ loop_detect_deadlock_thread
  \/ loop_detect_count_thread
  \/ handle_dead_lock
  \/ count_thread_cancelled
  \/ main_thread
  \/ Ended

DeadLockSpec == DeadLockInit /\ [][DeadLockNext]_lockVars

(***************************************************************************)
(* Every thread is scheduled, the operator answers, and a thread that      *)
(* waits for a mutex gets it if it becomes free again and again: the       *)
(* detector sleeps a second between two locks.                             *)
(***************************************************************************)
DeadLockFairSpec ==
  /\ DeadLockSpec
  /\ \A p \in Player : SF_lockVars(thread_fun(p))
  /\ WF_lockVars(loop_detect_deadlock_thread)
  /\ WF_lockVars(loop_detect_count_thread) /\ WF_lockVars(handle_dead_lock)
  /\ WF_lockVars(count_thread_cancelled) /\ WF_lockVars(main_thread)

-----------------------------------------------------------------------------

\* Every variable keeps its type: i stays inside the list and the players stay
\* at a step of their thread (lines 97 to 104).
DeadLockTypeOK ==
  /\ pc \in [Player -> {"lock1", "mark1", "add", "lock2", "mark2", "load", "store",
                        "clear2", "unlock2", "clear1", "unlock1", "done"}]
  /\ share \in [Player -> 0..8] /\ loaded \in [Player -> 0..8]
  /\ locked \in [Player -> BOOLEAN] /\ mute_status \in [Player -> BOOLEAN]
  /\ detect \in {"lock", "count", "unlock", "test", "gone"}
  /\ index \in Player /\ moved \in BOOLEAN
  /\ monitor \in {"load", "compare", "report", "unlock", "gone"}
  /\ chosen \in Player
  /\ main \in {"join A", "join B", "cancel count", "cancel detect", "join count",
               "join detect", "destroy", "done"}
  /\ cancelled \subseteq {"detect", "monitor"}
  /\ forced \in BOOLEAN

\* The shares end as if one thread had run its second half after the other,
\* and as if one had run wholly after the other unless the operator had to
\* unlock a mutex: even the mutex that is unlocked under its holder never lets
\* the two assignments of lines 151 and 177 overlap.
SharesAreSerial ==
  main = "done" =>
    <<share["A"], share["B"]>> \in IF forced THEN {<<7, 5>>, <<5, 8>>}
                                             ELSE {<<2, 5>>, <<5, 3>>}

\* "dead lock!" (line 122) is printed only when each player waits for the mutex
\* the other one holds, and the report that follows lists both mutexes.
AlarmOnlyOnDeadlock ==
  monitor = "report" =>
    \A p \in Player : pc[p] = "lock2" /\ locked[p] /\ mute_status[p]

\* PLAYER_MUXTEX_DESTROY (line 256) finds no mutex locked and no thread that
\* could still use one.
NothingLockedAtDestroy ==
  main = "destroy" =>
    /\ \A m \in Player : ~locked[m]
    /\ \A p \in Player : pc[p] = "done"
    /\ detect = "gone" /\ monitor = "gone"

\* In every state of the five threads each variable has its type, and main
\* destroys the mutexes (line 256) only when no thread holds or could still
\* take one.
DeadLockStateOK ==
  /\ DeadLockTypeOK
  /\ NothingLockedAtDestroy

\* The program ends, through a dead lock or without one, if the operator
\* answers the prompt of handle_dead_lock.
MainEnds == <>(main = "done")
=============================================================================
