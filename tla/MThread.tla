------------------------------ MODULE MThread ------------------------------
(***************************************************************************)
(* The stop-the-world protocol of Ming: thread registration, m_thread_leave*)
(* / m_thread_enter / m_thread_check (src/m_thread.c) and the collector's  *)
(* side of it in gc_collect_objs (src/m_gc_obj.c).                         *)
(*                                                                         *)
(* Every critical section of m_gc_lock is one action: nothing outside the  *)
(* lock reads what it protects, with two exceptions the model keeps apart. *)
(* A signal sent after the unlock is a step of its own, and the collection *)
(* itself runs with the lock released, so the walk over m_thread_list is a *)
(* sequence of steps.  A condition variable is the set of threads blocked  *)
(* on it; a thread outside the set that is still in its wait loop has been *)
(* woken and re-tests the loop condition.                                  *)
(***************************************************************************)
EXTENDS Naturals, FiniteSets, MList

CONSTANTS
  Thread,      \* operating system threads
  Main,        \* the thread that ran m_thread_startup
  Head,        \* the head node of m_thread_list
  None,        \* the NULL pointer
  ExitNative,  \* threads that may terminate after m_thread_leave
  ExitInside   \* threads that may terminate without calling m_thread_leave

ASSUME ThreadAssumption ==
  /\ IsFiniteSet(Thread)
  /\ Main \in Thread
  /\ Head \notin Thread /\ None \notin Thread /\ Head # None
  /\ ExitNative \subseteq Thread \ {Main}
  /\ ExitInside \subseteq Thread \ {Main}

VARIABLES
  pc,                   \* where each thread is
  key,                  \* threads whose thread-specific data is set
  paused,               \* threads with M_THREAD_FL_PAUSED
  m_thread_num,
  m_paused_thread_num,
  m_thread_list,        \* links of the registered threads
  freed,                \* threads whose M_Thread has been freed
  thread_pause_flag,
  pause_waiters,        \* blocked on thread_pause_cond
  resume_waiters,       \* blocked on thread_resume_cond
  gc_thread,
  cursor,               \* the node gc_mark_nb_stacks stands on
  marked,               \* threads whose stack this collection has marked
  late                  \* threads registered since the world stopped

regVars   == <<key, m_thread_num, m_thread_list, freed>>
pauseVars == <<paused, m_paused_thread_num>>
condVars  == <<pause_waiters, resume_waiters>>
gcVars    == <<gc_thread, thread_pause_flag>>
walkVars  == <<cursor, marked, late>>
vars == <<pc, regVars, pauseVars, condVars, gcVars, walkVars>>

Node == Thread \cup {Head}

\* Where a thread can be.  "native": running native code, not registered or
\* left; "inside": running in the Ming environment.
PC == {"native", "enter_wait", "registering", "inside", "leaving", "check_wait",
       "pause_wait", "stopped", "walk", "sweep", "unlinked", "exited"}

\* The world is stopped: m_thread_pause_all has returned, m_gc_lock is free
\* and gc_do_collect is running.
Collecting == gc_thread # None /\ pc[gc_thread] \in {"stopped", "walk", "sweep"}

Goto(t, where) == pc' = [pc EXCEPT ![t] = where]
-----------------------------------------------------------------------------
(***************************************************************************)
(* pthread condition variables.  A signal wakes one blocked thread if there*)
(* is one, a broadcast all of them.                                        *)
(***************************************************************************)
Signalled(W) == IF W = {} THEN {{}} ELSE {W \ {w} : w \in W}

\* A wait may return without a signal.
SpuriousWakeup(t) ==
  /\ t \in pause_waiters \cup resume_waiters
  /\ pause_waiters' = pause_waiters \ {t}
  /\ resume_waiters' = resume_waiters \ {t}
  /\ UNCHANGED <<pc, regVars, pauseVars, gcVars, walkVars>>
-----------------------------------------------------------------------------
\* Mutant: the flag is set, the thread is not counted.
SetPausedForgetCount(t) ==
  /\ m_paused_thread_num' = m_paused_thread_num
  /\ paused' = paused \cup {t}

\* A thread counts itself as paused; it holds m_gc_lock.
SetPaused(t) ==
  /\ m_paused_thread_num' = m_paused_thread_num + 1
  /\ paused' = paused \cup {t}

\* Mutant: the flag is cleared, the counter is not taken back.
ClearPausedForgetCount(t) ==
  /\ m_paused_thread_num' = m_paused_thread_num
  /\ paused' = paused \ {t}

\* Mutant: the counter is taken back, the flag stays set.
ClearPausedForgetFlag(t) ==
  /\ m_paused_thread_num' = m_paused_thread_num - 1
  /\ paused' = paused

ClearPaused(t) ==
  /\ m_paused_thread_num' = m_paused_thread_num - 1
  /\ paused' = paused \ {t}

\* m_thread_enter, first call or woken from its wait loop.  A thread with no
\* data yet drops the lock before it registers.
m_thread_enter(t) ==
  /\ pc[t] \in {"native", "enter_wait"}
  /\ t \notin resume_waiters
  /\ UNCHANGED <<regVars, pause_waiters, gcVars, walkVars>>
  /\ \/ /\ thread_pause_flag
        /\ resume_waiters' = resume_waiters \cup {t}
        /\ Goto(t, "enter_wait")
        /\ UNCHANGED pauseVars
     \/ /\ ~thread_pause_flag /\ t \notin key
        /\ Goto(t, "registering")
        /\ UNCHANGED <<pauseVars, resume_waiters>>
     \/ /\ ~thread_pause_flag /\ t \in key
        /\ ClearPaused(t)
        /\ Goto(t, "inside")
        /\ UNCHANGED resume_waiters

\* thread_register: takes the lock again and does not look at
\* thread_pause_flag.
thread_register(t) ==
  /\ pc[t] = "registering"
  /\ m_thread_num' = m_thread_num + 1
  /\ key' = key \cup {t}
  /\ m_thread_list' = m_list_append(m_thread_list, Head, t)
  /\ late' = IF Collecting THEN late \cup {t} ELSE late
  /\ Goto(t, "inside")
  /\ UNCHANGED <<freed, pauseVars, condVars, gcVars, cursor, marked>>

\* m_thread_leave up to its unlock ...
m_thread_leave(t) ==
  /\ pc[t] = "inside"
  /\ SetPaused(t)
  /\ Goto(t, "leaving")
  /\ UNCHANGED <<regVars, condVars, gcVars, walkVars>>

\* ... and its signal, sent with the lock released.
leave_signal(t) ==
  /\ pc[t] = "leaving"
  /\ pause_waiters' \in Signalled(pause_waiters)
  /\ Goto(t, "native")
  /\ UNCHANGED <<regVars, pauseVars, resume_waiters, gcVars, walkVars>>

\* Mutant: the waiting collector is not signalled.
m_thread_check_nl_silent(t) ==
  /\ pc[t] = "inside" /\ thread_pause_flag
  /\ SetPaused(t)
  /\ resume_waiters' = resume_waiters \cup {t}
  /\ Goto(t, "check_wait")
  /\ UNCHANGED <<regVars, pause_waiters, gcVars, walkVars>>

\* m_thread_check_nl, reached from m_thread_check and from gc_collect_objs
\* when another thread collects: pause, wake the collector, wait.  With
\* thread_pause_flag clear it changes nothing.
m_thread_check_nl(t) ==
  /\ pc[t] = "inside" /\ thread_pause_flag
  /\ SetPaused(t)
  /\ pause_waiters' \in Signalled(pause_waiters)
  /\ resume_waiters' = resume_waiters \cup {t}
  /\ Goto(t, "check_wait")
  /\ UNCHANGED <<regVars, gcVars, walkVars>>

\* The wait loop of m_thread_check_nl and what follows it.
check_wake(t) ==
  /\ pc[t] = "check_wait" /\ t \notin resume_waiters
  /\ UNCHANGED <<regVars, pause_waiters, gcVars, walkVars>>
  /\ \/ /\ thread_pause_flag
        /\ resume_waiters' = resume_waiters \cup {t}
        /\ UNCHANGED <<pc, pauseVars>>
     \/ /\ ~thread_pause_flag
        /\ ClearPaused(t)
        /\ Goto(t, "inside")
        /\ UNCHANGED resume_waiters
-----------------------------------------------------------------------------
(***************************************************************************)
(* The collector.                                                          *)
(***************************************************************************)

\* gc_collect_objs and m_thread_pause_all when no collection is running,
\* called from m_gc_run or from an allocation that crossed the threshold.
gc_collect_objs(t) ==
  /\ pc[t] = "inside" /\ gc_thread = None
  /\ gc_thread' = t
  /\ thread_pause_flag' = TRUE
  /\ SetPaused(t)
  /\ IF m_thread_num # m_paused_thread_num + 1
       THEN pause_waiters' = pause_waiters \cup {t} /\ Goto(t, "pause_wait")
       ELSE UNCHANGED pause_waiters /\ Goto(t, "stopped")
  /\ UNCHANGED <<regVars, resume_waiters, walkVars>>

\* Mutant: the counters are compared once, before the wait only.
pause_wake_if(t) ==
  /\ pc[t] = "pause_wait" /\ t \notin pause_waiters
  /\ Goto(t, "stopped")
  /\ UNCHANGED <<regVars, pauseVars, condVars, gcVars, walkVars>>

\* The wait loop of m_thread_pause_all.
pause_wake(t) ==
  /\ pc[t] = "pause_wait" /\ t \notin pause_waiters
  /\ IF m_thread_num # m_paused_thread_num
       THEN pause_waiters' = pause_waiters \cup {t} /\ UNCHANGED pc
       ELSE UNCHANGED pause_waiters /\ Goto(t, "stopped")
  /\ UNCHANGED <<regVars, pauseVars, resume_waiters, gcVars, walkVars>>

\* gc_mark_nb_stacks, with m_gc_lock released: the first node of the list ...
walk_begin(t) ==
  /\ pc[t] = "stopped"
  /\ cursor' = m_thread_list.next[Head]
  /\ marked' = {}
  /\ Goto(t, "walk")
  /\ UNCHANGED <<regVars, pauseVars, condVars, gcVars, late>>

\* Mutant: the walk stops in front of the last thread.
walk_step_short(t) ==
  /\ pc[t] = "walk" /\ cursor # Head
  /\ marked' = marked \cup {cursor}
  /\ cursor' = LET n == m_thread_list.next[cursor]
               IN  IF n # Head /\ m_thread_list.next[n] = Head THEN Head ELSE n
  /\ UNCHANGED <<pc, regVars, pauseVars, condVars, gcVars, late>>

\* ... then each one: its stack is marked and its next pointer followed.
\* Once the node is freed the pointer read is whatever the memory holds.
walk_step(t) ==
  /\ pc[t] = "walk" /\ cursor # Head
  /\ marked' = marked \cup {cursor}
  /\ cursor' \in IF cursor \in freed THEN Node ELSE {m_thread_list.next[cursor]}
  /\ UNCHANGED <<pc, regVars, pauseVars, condVars, gcVars, late>>

\* The list is exhausted: root hash, gc_mark_objs and gc_sweep follow.
walk_end(t) ==
  /\ pc[t] = "walk" /\ cursor = Head
  /\ Goto(t, "sweep")
  /\ UNCHANGED <<regVars, pauseVars, condVars, gcVars, walkVars>>

\* Mutant: the resume wakes a single thread.
m_thread_resume_all_signal(t) ==
  /\ pc[t] = "sweep"
  /\ thread_pause_flag' = FALSE
  /\ ClearPaused(t)
  /\ resume_waiters' \in Signalled(resume_waiters)
  /\ gc_thread' = None
  /\ cursor' = Head /\ marked' = {} /\ late' = {}
  /\ Goto(t, "inside")
  /\ UNCHANGED <<regVars, pause_waiters>>

\* The collection is over: relock, m_thread_resume_all, gc_thread = NULL, in
\* one critical section.
m_thread_resume_all(t) ==
  /\ pc[t] = "sweep"
  /\ thread_pause_flag' = FALSE
  /\ ClearPaused(t)
  /\ resume_waiters' = {}
  /\ gc_thread' = None
  /\ cursor' = Head /\ marked' = {} /\ late' = {}
  /\ Goto(t, "inside")
  /\ UNCHANGED <<regVars, pause_waiters>>
-----------------------------------------------------------------------------
(***************************************************************************)
(* Thread exit: thread_key_destructor takes the thread off the list under  *)
(* the lock, signals nobody, and frees its data after the unlock.          *)
(***************************************************************************)
thread_key_destructor(t) ==
  /\ t \in key
  /\ \/ t \in ExitNative /\ pc[t] = "native"
     \/ t \in ExitInside /\ pc[t] = "inside"
  /\ m_thread_list' = m_list_remove(m_thread_list, t)
  /\ m_thread_num' = m_thread_num - 1
  /\ key' = key \ {t}
  /\ IF t \in paused THEN ClearPaused(t) ELSE UNCHANGED pauseVars
  /\ Goto(t, "unlinked")
  /\ UNCHANGED <<freed, condVars, gcVars, walkVars>>

free_thread(t) ==
  /\ pc[t] = "unlinked"
  /\ freed' = freed \cup {t}
  /\ Goto(t, "exited")
  /\ UNCHANGED <<key, m_thread_num, m_thread_list, pauseVars, condVars, gcVars, walkVars>>
-----------------------------------------------------------------------------
\* m_thread_startup: the main thread is registered and inside, every other
\* thread runs native code and has not entered.
Init ==
  /\ pc = [t \in Thread |-> IF t = Main THEN "inside" ELSE "native"]
  /\ key = {Main} /\ m_thread_num = 1
  /\ m_thread_list = m_list_append(m_list_init(Node, Head, Head), Head, Main)
  /\ freed = {}
  /\ paused = {} /\ m_paused_thread_num = 0
  /\ pause_waiters = {} /\ resume_waiters = {}
  /\ gc_thread = None /\ thread_pause_flag = FALSE
  /\ cursor = Head /\ marked = {} /\ late = {}

\* What a thread does once it is in the middle of a call.
Continue(t) ==
  \/ thread_register(t) \/ leave_signal(t) \/ check_wake(t)
  \/ pause_wake(t) \/ walk_begin(t) \/ walk_step(t) \/ walk_end(t)
  \/ m_thread_resume_all(t) \/ free_thread(t)

Next ==
  \E t \in Thread :
    \/ m_thread_enter(t) \/ m_thread_leave(t) \/ m_thread_check_nl(t)
    \/ gc_collect_objs(t) \/ thread_key_destructor(t)
    \/ Continue(t) \/ SpuriousWakeup(t)

Spec == Init /\ [][Next]_vars

\* The scheduler runs every thread that is inside a call, and a thread that is
\* inside the environment calls m_thread_check again and again.
Fairness ==
  \A t \in Thread :
    /\ WF_vars(Continue(t))
    /\ WF_vars(m_thread_check_nl(t))
    /\ WF_vars(pc[t] = "enter_wait" /\ m_thread_enter(t))

FairSpec == Spec /\ Fairness
-----------------------------------------------------------------------------
TypeOK ==
  /\ pc \in [Thread -> PC]
  /\ key \subseteq Thread /\ paused \subseteq Thread
  /\ m_thread_num \in Nat /\ m_paused_thread_num \in Nat
  /\ m_thread_list \in [prev : [Node -> Node], next : [Node -> Node]]
  /\ freed \subseteq Thread
  /\ pause_waiters \subseteq Thread /\ resume_waiters \subseteq Thread
  /\ gc_thread \in Thread \cup {None}
  /\ thread_pause_flag \in BOOLEAN
  /\ cursor \in Node /\ marked \subseteq Node /\ late \subseteq Thread

\* The two counters m_thread_pause_all compares say what they stand for: one
\* counts the registered threads, the other those of them with the paused flag.
CountersExact ==
  /\ paused \subseteq key
  /\ m_thread_num = Cardinality(key)
  /\ m_paused_thread_num = Cardinality(paused)

\* What the assertions of m_thread.c test at the entry of each call: a thread
\* in the environment is registered and not paused (m_thread_leave,
\* m_thread_check_nl, m_thread_pause_all), one that left or waits is paused
\* (m_thread_enter, m_thread_resume_all).
AssertionsHold ==
  \A t \in Thread :
    /\ pc[t] = "inside" => t \in key \ paused
    /\ pc[t] \in {"native", "enter_wait"} => (t \in key <=> t \in paused)
    /\ pc[t] \in {"leaving", "check_wait", "pause_wait", "stopped", "walk", "sweep"}
         => t \in key \cap paused
    /\ pc[t] \in {"registering", "unlinked", "exited"} => t \notin key \cup paused

\* While the collector runs without the lock, every thread that was registered
\* when m_thread_pause_all returned stays paused; only a thread that registered
\* afterwards (thread_register does not test thread_pause_flag) may be running.
StoppedExceptLate == Collecting => key \ paused \subseteq late

\* m_thread_list and the registered threads agree, in both directions of the
\* links, whatever the order of registrations and exits.
ListMatchesRegistration == Linked(m_thread_list, key \cup {Head})

\* src/src/m_gc_obj.c: "It is safe because only one thread is running."
OnlyOneThreadRuns == Collecting => \A t \in Thread : pc[t] # "inside"

\* gc_mark_nb_stacks only visits thread data that still exists.
WalkReadsLiveThreads ==
  (gc_thread # None /\ pc[gc_thread] = "walk") => cursor \notin freed

\* A collection that has been started is finished.
CollectionCompletes == gc_thread # None ~> gc_thread = None
-----------------------------------------------------------------------------
(***************************************************************************)
(* What a collection does when none of the accidents above happens to it:  *)
(* no thread of ExitInside terminates, and the walk meets no freed thread. *)
(* Threads of ExitNative may still leave and terminate at any time.        *)
(***************************************************************************)
InsideExit == \E t \in ExitInside : pc[t] \in {"unlinked", "exited"}

\* When sweeping begins the new-born stack of every thread of the stopped world
\* has been marked: none of their objects is swept for want of a visit, although
\* threads are appended to the list and taken off it during the walk.
StacksMarked ==
  (gc_thread # None /\ pc[gc_thread] = "sweep") => key \ late \subseteq marked
StacksMarkedBeforeSweep == []WalkReadsLiveThreads => []StacksMarked

\* Every collection ends: m_thread_pause_all gets its signals, whichever threads
\* leave, enter, register or terminate natively while it waits.
CollectionCompletesUnlessInsideExit ==
  ([]~InsideExit /\ []WalkReadsLiveThreads) => CollectionCompletes

\* From some point on nobody starts a collection.
CollectionsStop == <>[][\A t \in Thread : ~gc_collect_objs(t)]_vars

\* A thread that paused itself for a collection runs again, if collections stop.
\* While they keep coming it may wait for ever: m_thread_resume_all wakes it, but
\* m_thread_pause_all may set thread_pause_flag again before it takes the lock
\* and tests the flag.
PausedThreadResumes ==
  ([]~InsideExit /\ []WalkReadsLiveThreads /\ CollectionsStop) =>
    \A t \in Thread :
      (pc[t] \in {"check_wait", "enter_wait"}) ~> (pc[t] \in {"inside", "registering"})
=============================================================================
