--------------------------- MODULE MThreadProofs ---------------------------
(***************************************************************************)
(* The stop-the-world protocol for any number of threads.                  *)
(***************************************************************************)
EXTENDS MThread, FiniteSetTheorems, TLAPS

\* The places of the collecting thread.
CollectorAt(t) == pc[t] \in {"pause_wait", "stopped", "walk", "sweep"}

\* gc_thread names the one thread that is collecting, the pause flag is up
\* exactly while it does, and nobody is late before the world has stopped.
CollectorInv ==
  /\ \A t \in Thread : CollectorAt(t) <=> gc_thread = t
  /\ thread_pause_flag <=> gc_thread # None
  /\ ~Collecting => late = {}

\* The inductive invariant.
IInv ==
  /\ TypeOK
  /\ AssertionsHold
  /\ CountersExact
  /\ CollectorInv
  /\ StoppedExceptLate
-----------------------------------------------------------------------------
\* The links of the list operations stay inside the set of nodes.
LEMMA AppendType ==
  ASSUME NEW l \in [prev : [Node -> Node], next : [Node -> Node]], NEW n \in Node
  PROVE  m_list_append(l, Head, n) \in [prev : [Node -> Node], next : [Node -> Node]]
  BY ThreadAssumption DEF m_list_append, Node

LEMMA RemoveType ==
  ASSUME NEW l \in [prev : [Node -> Node], next : [Node -> Node]], NEW n \in Node
  PROVE  m_list_remove(l, n) \in [prev : [Node -> Node], next : [Node -> Node]]
  BY ThreadAssumption DEF m_list_remove, Node

\* A signal only takes threads out of a wait set.
LEMMA SignalType ==
  ASSUME NEW W \in SUBSET Thread, NEW V \in Signalled(W)
  PROVE  V \subseteq W
  BY DEF Signalled

\* Counting a thread that joins a set of threads, or leaves it.
LEMMA CountThreads ==
  ASSUME NEW S \in SUBSET Thread, NEW t \in Thread
  PROVE  /\ Cardinality(S) \in Nat
         /\ t \notin S => Cardinality(S \cup {t}) = Cardinality(S) + 1
         /\ t \in S => Cardinality(S \ {t}) = Cardinality(S) - 1
  <1>1. IsFiniteSet(S)
    BY ThreadAssumption, FS_Subset
  <1>2. QED
    BY <1>1, FS_CardinalityType, FS_AddElement, FS_RemoveElement

\* When the two counters agree every registered thread is paused: what
\* m_thread_pause_all waits for is what the collector needs.
LEMMA EqualCountsMeanStopped ==
  ASSUME NEW K \in SUBSET Thread, NEW P \in SUBSET K, Cardinality(K) = Cardinality(P)
  PROVE  K = P
  <1>1. IsFiniteSet(K)
    BY ThreadAssumption, FS_Subset
  <1>2. QED
    BY <1>1, FS_Subset
-----------------------------------------------------------------------------
LEMMA InitIInv == Init => IInv
  <1> SUFFICES ASSUME Init PROVE IInv
    OBVIOUS
  <1> USE ThreadAssumption DEF Init
  <1>1. TypeOK
    <2>1. m_list_init(Node, Head, Head) \in [prev : [Node -> Node], next : [Node -> Node]]
      BY DEF m_list_init, Node
    <2>2. QED
      BY <2>1, AppendType DEF TypeOK, PC, Node
  <1>2. AssertionsHold
    BY DEF AssertionsHold
  <1>3. CountersExact
    BY FS_EmptySet, FS_Singleton DEF CountersExact
  <1>4. CollectorInv /\ StoppedExceptLate
    BY DEF CollectorInv, CollectorAt, Collecting, StoppedExceptLate
  <1>5. QED
    BY <1>1, <1>2, <1>3, <1>4 DEF IInv

\* Every step of every thread keeps the invariant.
LEMMA NextIInv == IInv /\ [Next]_vars => IInv'
  <1> SUFFICES ASSUME IInv, [Next]_vars PROVE IInv'
    OBVIOUS
  <1> USE ThreadAssumption DEF IInv
  <1>1. ASSUME NEW t \in Thread, m_thread_enter(t) PROVE IInv'
    <2> USE <1>1 DEF m_thread_enter, ClearPaused, Goto, regVars, pauseVars, condVars, gcVars, walkVars
    <2>1. AssertionsHold'
      BY DEF AssertionsHold, TypeOK
    <2>2. CountersExact'
      BY CountThreads DEF CountersExact, AssertionsHold, TypeOK
    <2>3. TypeOK'
      <3>1. key' \subseteq Thread /\ paused' \subseteq Thread
        BY DEF TypeOK
      <3>2. m_thread_num' \in Nat /\ m_paused_thread_num' \in Nat
        BY <2>2, <3>1, CountThreads DEF CountersExact
      <3>3. QED
        BY <3>1, <3>2 DEF TypeOK, PC, Node
    <2>4. CollectorInv'
      BY DEF CollectorInv, CollectorAt, Collecting, TypeOK
    <2>5. StoppedExceptLate'
      BY DEF StoppedExceptLate, Collecting, CollectorInv, CollectorAt, TypeOK
    <2>6. QED
      BY <2>1, <2>2, <2>3, <2>4, <2>5
  <1>2. ASSUME NEW t \in Thread, m_thread_leave(t) PROVE IInv'
    <2> USE <1>2 DEF m_thread_leave, SetPaused, Goto, regVars, pauseVars, condVars, gcVars, walkVars
    <2>1. AssertionsHold'
      BY DEF AssertionsHold, TypeOK
    <2>2. CountersExact'
      BY CountThreads DEF CountersExact, AssertionsHold, TypeOK
    <2>3. TypeOK'
      BY <2>2, CountThreads DEF TypeOK, PC, Node, CountersExact
    <2>4. CollectorInv'
      BY DEF CollectorInv, CollectorAt, Collecting, TypeOK
    <2>5. StoppedExceptLate'
      BY DEF StoppedExceptLate, Collecting, CollectorInv, CollectorAt, TypeOK
    <2>6. QED
      BY <2>1, <2>2, <2>3, <2>4, <2>5
  <1>3. ASSUME NEW t \in Thread, m_thread_check_nl(t) PROVE IInv'
    <2> USE <1>3 DEF m_thread_check_nl, SetPaused, Goto, regVars, pauseVars, condVars, gcVars, walkVars
    <2>1. AssertionsHold'
      BY DEF AssertionsHold, TypeOK
    <2>2. CountersExact'
      BY CountThreads DEF CountersExact, AssertionsHold, TypeOK
    <2>3. TypeOK'
      BY <2>2, SignalType, CountThreads DEF TypeOK, PC, Node, CountersExact
    <2>4. CollectorInv'
      BY DEF CollectorInv, CollectorAt, Collecting, TypeOK
    <2>5. StoppedExceptLate'
      BY DEF StoppedExceptLate, Collecting, CollectorInv, CollectorAt, TypeOK
    <2>6. QED
      BY <2>1, <2>2, <2>3, <2>4, <2>5
  <1>4. ASSUME NEW t \in Thread, gc_collect_objs(t) PROVE IInv'
    <2> USE <1>4 DEF gc_collect_objs, SetPaused, Goto, regVars, pauseVars, condVars, gcVars, walkVars
    <2>1. AssertionsHold'
      BY DEF AssertionsHold, TypeOK
    <2>2. CountersExact'
      BY CountThreads DEF CountersExact, AssertionsHold, TypeOK
    <2>3. TypeOK'
      BY <2>2, CountThreads DEF TypeOK, PC, Node, CountersExact
    <2>4. CollectorInv'
      BY DEF CollectorInv, CollectorAt, Collecting, TypeOK
    <2>5. StoppedExceptLate'
      <3>1. CASE m_thread_num # m_paused_thread_num + 1
        BY <3>1 DEF StoppedExceptLate, Collecting, TypeOK
      <3>2. CASE m_thread_num = m_paused_thread_num + 1
        <4>1. Cardinality(key') = Cardinality(paused')
          BY <2>2, <3>2 DEF CountersExact
        <4>2. key' \in SUBSET Thread /\ paused' \in SUBSET key'
          BY <2>2, <2>3 DEF TypeOK, CountersExact
        <4>3. key' = paused'
          BY <4>1, <4>2, EqualCountsMeanStopped
        <4>4. QED
          BY <4>3 DEF StoppedExceptLate
      <3>3. QED
        BY <3>1, <3>2
    <2>6. QED
      BY <2>1, <2>2, <2>3, <2>4, <2>5
  <1>5. ASSUME NEW t \in Thread, thread_key_destructor(t) PROVE IInv'
    <2> USE <1>5 DEF thread_key_destructor, ClearPaused, Goto, regVars, pauseVars, condVars, gcVars, walkVars
    <2>1. AssertionsHold'
      BY DEF AssertionsHold, TypeOK
    <2>2. CountersExact'
      BY CountThreads DEF CountersExact, AssertionsHold, TypeOK
    <2>3. TypeOK'
      <3>1. key' \subseteq Thread /\ paused' \subseteq Thread
        BY DEF TypeOK
      <3>2. m_thread_num' \in Nat /\ m_paused_thread_num' \in Nat
        BY <2>2, <3>1, CountThreads DEF CountersExact
      <3>3. QED
        BY <3>1, <3>2, RemoveType DEF TypeOK, PC, Node
    <2>4. CollectorInv'
      BY DEF CollectorInv, CollectorAt, Collecting, TypeOK
    <2>5. StoppedExceptLate'
      BY DEF StoppedExceptLate, Collecting, CollectorInv, CollectorAt, TypeOK
    <2>6. QED
      BY <2>1, <2>2, <2>3, <2>4, <2>5
  <1>6. ASSUME NEW t \in Thread, thread_register(t) PROVE IInv'
    <2> USE <1>6 DEF thread_register, Goto, regVars, pauseVars, condVars, gcVars, walkVars
    <2>1. AssertionsHold'
      BY DEF AssertionsHold, TypeOK
    <2>2. CountersExact'
      BY CountThreads DEF CountersExact, AssertionsHold, TypeOK
    <2>3. TypeOK'
      <3>1. key' \subseteq Thread /\ paused' \subseteq Thread
        BY DEF TypeOK
      <3>2. m_thread_num' \in Nat /\ m_paused_thread_num' \in Nat
        BY <2>2, <3>1, CountThreads DEF CountersExact
      <3>3. QED
        BY <3>1, <3>2, AppendType DEF TypeOK, PC, Node
    <2>4. CollectorInv'
      BY DEF CollectorInv, CollectorAt, Collecting, TypeOK
    <2>5. StoppedExceptLate'
      BY DEF StoppedExceptLate, Collecting, CollectorInv, CollectorAt, TypeOK
    <2>6. QED
      BY <2>1, <2>2, <2>3, <2>4, <2>5
  <1>7. ASSUME NEW t \in Thread, leave_signal(t) PROVE IInv'
    <2> USE <1>7 DEF leave_signal, Goto, regVars, pauseVars, condVars, gcVars, walkVars
    <2>1. AssertionsHold'
      BY DEF AssertionsHold, TypeOK
    <2>2. CountersExact'
      BY CountThreads DEF CountersExact, AssertionsHold, TypeOK
    <2>3. TypeOK'
      BY <2>2, SignalType DEF TypeOK, PC, Node, CountersExact
    <2>4. CollectorInv'
      BY DEF CollectorInv, CollectorAt, Collecting, TypeOK
    <2>5. StoppedExceptLate'
      BY DEF StoppedExceptLate, Collecting, CollectorInv, CollectorAt, TypeOK
    <2>6. QED
      BY <2>1, <2>2, <2>3, <2>4, <2>5
  <1>8. ASSUME NEW t \in Thread, check_wake(t) PROVE IInv'
    <2> USE <1>8 DEF check_wake, ClearPaused, Goto, regVars, pauseVars, condVars, gcVars, walkVars
    <2>1. AssertionsHold'
      BY DEF AssertionsHold, TypeOK
    <2>2. CountersExact'
      BY CountThreads DEF CountersExact, AssertionsHold, TypeOK
    <2>3. TypeOK'
      <3>1. key' \subseteq Thread /\ paused' \subseteq Thread
        BY DEF TypeOK
      <3>2. m_thread_num' \in Nat /\ m_paused_thread_num' \in Nat
        BY <2>2, <3>1, CountThreads DEF CountersExact
      <3>3. QED
        BY <3>1, <3>2 DEF TypeOK, PC, Node
    <2>4. CollectorInv'
      BY DEF CollectorInv, CollectorAt, Collecting, TypeOK
    <2>5. StoppedExceptLate'
      BY DEF StoppedExceptLate, Collecting, CollectorInv, CollectorAt, TypeOK
    <2>6. QED
      BY <2>1, <2>2, <2>3, <2>4, <2>5
  <1>9. ASSUME NEW t \in Thread, pause_wake(t) PROVE IInv'
    <2> USE <1>9 DEF pause_wake, Goto, regVars, pauseVars, condVars, gcVars, walkVars
    <2>1. AssertionsHold'
      BY DEF AssertionsHold, TypeOK
    <2>2. CountersExact'
      BY CountThreads DEF CountersExact, AssertionsHold, TypeOK
    <2>3. TypeOK'
      BY <2>2 DEF TypeOK, PC, Node, CountersExact
    <2>4. CollectorInv'
      BY DEF CollectorInv, CollectorAt, Collecting, TypeOK
    <2>5. StoppedExceptLate'
      BY EqualCountsMeanStopped DEF StoppedExceptLate, Collecting, CollectorInv, CollectorAt, TypeOK, CountersExact
    <2>6. QED
      BY <2>1, <2>2, <2>3, <2>4, <2>5
  <1>10. ASSUME NEW t \in Thread, walk_begin(t) PROVE IInv'
    <2> USE <1>10 DEF walk_begin, Goto, regVars, pauseVars, condVars, gcVars, walkVars
    <2>1. AssertionsHold'
      BY DEF AssertionsHold, TypeOK
    <2>2. CountersExact'
      BY CountThreads DEF CountersExact, AssertionsHold, TypeOK
    <2>3. TypeOK'
      BY <2>2 DEF TypeOK, PC, Node, CountersExact
    <2>4. CollectorInv'
      BY DEF CollectorInv, CollectorAt, Collecting, TypeOK
    <2>5. StoppedExceptLate'
      BY DEF StoppedExceptLate, Collecting, CollectorInv, CollectorAt, TypeOK
    <2>6. QED
      BY <2>1, <2>2, <2>3, <2>4, <2>5
  <1>11. ASSUME NEW t \in Thread, walk_step(t) PROVE IInv'
    <2> USE <1>11 DEF walk_step, Goto, regVars, pauseVars, condVars, gcVars, walkVars
    <2>1. AssertionsHold'
      BY DEF AssertionsHold, TypeOK
    <2>2. CountersExact'
      BY CountThreads DEF CountersExact, AssertionsHold, TypeOK
    <2>3. TypeOK'
      BY <2>2 DEF TypeOK, PC, Node, CountersExact
    <2>4. CollectorInv'
      BY DEF CollectorInv, CollectorAt, Collecting, TypeOK
    <2>5. StoppedExceptLate'
      BY DEF StoppedExceptLate, Collecting, CollectorInv, CollectorAt, TypeOK
    <2>6. QED
      BY <2>1, <2>2, <2>3, <2>4, <2>5
  <1>12. ASSUME NEW t \in Thread, walk_end(t) PROVE IInv'
    <2> USE <1>12 DEF walk_end, Goto, regVars, pauseVars, condVars, gcVars, walkVars
    <2>1. AssertionsHold'
      BY DEF AssertionsHold, TypeOK
    <2>2. CountersExact'
      BY CountThreads DEF CountersExact, AssertionsHold, TypeOK
    <2>3. TypeOK'
      BY <2>2 DEF TypeOK, PC, Node, CountersExact
    <2>4. CollectorInv'
      BY DEF CollectorInv, CollectorAt, Collecting, TypeOK
    <2>5. StoppedExceptLate'
      BY DEF StoppedExceptLate, Collecting, CollectorInv, CollectorAt, TypeOK
    <2>6. QED
      BY <2>1, <2>2, <2>3, <2>4, <2>5
  <1>13. ASSUME NEW t \in Thread, m_thread_resume_all(t) PROVE IInv'
    <2> USE <1>13 DEF m_thread_resume_all, ClearPaused, Goto, regVars, pauseVars, condVars, gcVars, walkVars
    <2>1. AssertionsHold'
      BY DEF AssertionsHold, TypeOK
    <2>2. CountersExact'
      BY CountThreads DEF CountersExact, AssertionsHold, TypeOK
    <2>3. TypeOK'
      <3>1. key' \subseteq Thread /\ paused' \subseteq Thread
        BY DEF TypeOK
      <3>2. m_thread_num' \in Nat /\ m_paused_thread_num' \in Nat
        BY <2>2, <3>1, CountThreads DEF CountersExact
      <3>3. QED
        BY <3>1, <3>2 DEF TypeOK, PC, Node
    <2>4. CollectorInv'
      BY DEF CollectorInv, CollectorAt, Collecting, TypeOK
    <2>5. StoppedExceptLate'
      BY DEF StoppedExceptLate, Collecting, CollectorInv, CollectorAt, TypeOK
    <2>6. QED
      BY <2>1, <2>2, <2>3, <2>4, <2>5
  <1>14. ASSUME NEW t \in Thread, free_thread(t) PROVE IInv'
    <2> USE <1>14 DEF free_thread, Goto, regVars, pauseVars, condVars, gcVars, walkVars
    <2>1. AssertionsHold'
      BY DEF AssertionsHold, TypeOK
    <2>2. CountersExact'
      BY CountThreads DEF CountersExact, AssertionsHold, TypeOK
    <2>3. TypeOK'
      BY <2>2 DEF TypeOK, PC, Node, CountersExact
    <2>4. CollectorInv'
      BY DEF CollectorInv, CollectorAt, Collecting, TypeOK
    <2>5. StoppedExceptLate'
      BY DEF StoppedExceptLate, Collecting, CollectorInv, CollectorAt, TypeOK
    <2>6. QED
      BY <2>1, <2>2, <2>3, <2>4, <2>5
  <1>15. ASSUME NEW t \in Thread, SpuriousWakeup(t) PROVE IInv'
    <2> USE <1>15 DEF SpuriousWakeup, Goto, regVars, pauseVars, condVars, gcVars, walkVars
    <2>1. AssertionsHold'
      BY DEF AssertionsHold, TypeOK
    <2>2. CountersExact'
      BY CountThreads DEF CountersExact, AssertionsHold, TypeOK
    <2>3. TypeOK'
      BY <2>2 DEF TypeOK, PC, Node, CountersExact
    <2>4. CollectorInv'
      BY DEF CollectorInv, CollectorAt, Collecting, TypeOK
    <2>5. StoppedExceptLate'
      BY DEF StoppedExceptLate, Collecting, CollectorInv, CollectorAt, TypeOK
    <2>6. QED
      BY <2>1, <2>2, <2>3, <2>4, <2>5
  <1>16. CASE UNCHANGED vars
    BY <1>16 DEF vars, regVars, pauseVars, condVars, gcVars, walkVars, TypeOK, AssertionsHold, CountersExact,
       CollectorInv, CollectorAt, Collecting, StoppedExceptLate
  <1>17. QED
    BY <1>1, <1>2, <1>3, <1>4, <1>5, <1>6, <1>7, <1>8, <1>9, <1>10, <1>11, <1>12, <1>13, <1>14, <1>15, <1>16 DEF Next, Continue
-----------------------------------------------------------------------------
\* The invariant holds in every reachable state.
LEMMA Invariance == Spec => []IInv
  BY InitIInv, NextIInv, PTL DEF Spec

\* TypeOK holds in every reachable state, for any finite set of threads: in
\* particular neither counter of m_thread.c is ever taken below zero.
THEOREM TypeCorrect == Spec => []TypeOK
  <1>1. IInv => TypeOK
    BY DEF IInv
  <1>2. QED
    BY <1>1, Invariance, PTL

\* The counters m_thread_pause_all compares are exact, for any set of threads
\* and any interleaving of registrations, pauses and exits.
THEOREM CountersAreExact == Spec => []CountersExact
  <1>1. IInv => CountersExact
    BY DEF IInv
  <1>2. QED
    BY <1>1, Invariance, PTL

\* The assertions of m_thread.c on the paused flag never fail.
THEOREM AssertionsNeverFail == Spec => []AssertionsHold
  <1>1. IInv => AssertionsHold
    BY DEF IInv
  <1>2. QED
    BY <1>1, Invariance, PTL

\* While the collector runs without the lock, only threads that registered
\* after the world was stopped can be running.
THEOREM WorldIsStopped == Spec => []StoppedExceptLate
  <1>1. IInv => StoppedExceptLate
    BY DEF IInv
  <1>2. QED
    BY <1>1, Invariance, PTL
-----------------------------------------------------------------------------
\* m_list_append keeps both directions of the links inverse to each other.
LEMMA AppendLinked ==
  ASSUME NEW l \in [prev : [Node -> Node], next : [Node -> Node]],
         NEW S \in SUBSET Node, Head \in S, Linked(l, S),
         NEW n \in Node, n \notin S
  PROVE  Linked(m_list_append(l, Head, n), S \cup {n})
  <1> DEFINE tail == l.prev[Head]
             m == m_list_append(l, Head, n)
  <1>1. tail \in S /\ l.next[tail] = Head /\ tail # n
    BY DEF Linked
  <1>2. \A k \in Node :
          /\ m.prev[k] = IF k = Head THEN n ELSE IF k = n THEN tail ELSE l.prev[k]
          /\ m.next[k] = IF k = tail THEN n ELSE IF k = n THEN Head ELSE l.next[k]
    BY <1>1 DEF m_list_append
  <1> HIDE DEF m
  <1>3. ASSUME NEW k \in S
        PROVE  /\ m.next[k] \in S \cup {n} /\ m.prev[k] \in S \cup {n}
               /\ m.prev[m.next[k]] = k
               /\ m.next[m.prev[k]] = k
    <2>1. /\ l.next[k] \in S /\ l.prev[k] \in S
          /\ l.prev[l.next[k]] = k /\ l.next[l.prev[k]] = k
      BY DEF Linked
    <2>2. QED
      BY <1>1, <1>2, <2>1
  <1>4. m.next[n] = Head /\ m.prev[n] = tail /\ m.prev[Head] = n /\ m.next[tail] = n
    BY <1>1, <1>2
  <1>5. QED
    BY <1>1, <1>3, <1>4 DEF Linked, m

\* m_list_remove joins the neighbours of the node it takes out.
LEMMA RemoveLinked ==
  ASSUME NEW l \in [prev : [Node -> Node], next : [Node -> Node]],
         NEW S \in SUBSET Node, Linked(l, S),
         NEW n \in S
  PROVE  Linked(m_list_remove(l, n), S \ {n})
  <1> DEFINE m == m_list_remove(l, n)
  <1>1. \A k \in Node :
          /\ m.prev[k] = IF k = l.next[n] THEN l.prev[n] ELSE l.prev[k]
          /\ m.next[k] = IF k = l.prev[n] THEN l.next[n] ELSE l.next[k]
    BY DEF m_list_remove
  <1> HIDE DEF m
  <1>2. /\ l.next[n] \in S /\ l.prev[n] \in S
        /\ l.prev[l.next[n]] = n /\ l.next[l.prev[n]] = n
    BY DEF Linked
  <1>3. ASSUME NEW k \in S \ {n}
        PROVE  /\ m.next[k] \in S \ {n} /\ m.prev[k] \in S \ {n}
               /\ m.prev[m.next[k]] = k
               /\ m.next[m.prev[k]] = k
    <2>1. /\ l.next[k] \in S /\ l.prev[k] \in S
          /\ l.prev[l.next[k]] = k /\ l.next[l.prev[k]] = k
      BY DEF Linked
    <2>2. QED
      BY <1>1, <1>2, <2>1
  <1>4. QED
    BY <1>3 DEF Linked, m

\* Only registration and exit touch the list, each together with the key.
LEMMA NextListed ==
  IInv /\ ListMatchesRegistration /\ [Next]_vars => ListMatchesRegistration'
  <1> SUFFICES ASSUME IInv, ListMatchesRegistration, [Next]_vars
               PROVE  ListMatchesRegistration'
    OBVIOUS
  <1> USE ThreadAssumption
  <1> DEFINE S == key \cup {Head}
  <1>1. /\ m_thread_list \in [prev : [Node -> Node], next : [Node -> Node]]
        /\ S \in SUBSET Node
    BY DEF IInv, TypeOK, Node
  <1>2. ASSUME NEW t \in Thread, thread_register(t) PROVE ListMatchesRegistration'
    <2>1. t \in Node /\ t \notin S
      BY <1>2 DEF thread_register, IInv, AssertionsHold, Node
    <2>2. m_thread_list' = m_list_append(m_thread_list, Head, t) /\ (key \cup {Head})' = S \cup {t}
      BY <1>2 DEF thread_register
    <2>3. QED
      BY <1>1, <2>1, <2>2, AppendLinked DEF ListMatchesRegistration
  <1>3. ASSUME NEW t \in Thread, thread_key_destructor(t) PROVE ListMatchesRegistration'
    <2>1. t \in S /\ t # Head
      BY <1>3 DEF thread_key_destructor
    <2>2. m_thread_list' = m_list_remove(m_thread_list, t) /\ (key \cup {Head})' = S \ {t}
      BY <1>3, <2>1 DEF thread_key_destructor
    <2>3. QED
      BY <1>1, <2>1, <2>2, RemoveLinked DEF ListMatchesRegistration
  <1>4. ASSUME UNCHANGED <<key, m_thread_list>> PROVE ListMatchesRegistration'
    BY <1>4 DEF ListMatchesRegistration
  <1>5. QED
    BY <1>2, <1>3, <1>4 DEF Next, Continue, vars, regVars, m_thread_enter, m_thread_leave,
       m_thread_check_nl, gc_collect_objs, leave_signal, check_wake, pause_wake, walk_begin,
       walk_step, walk_end, m_thread_resume_all, free_thread, SpuriousWakeup

\* m_thread_list holds exactly the registered threads, doubly linked, after any
\* interleaving of first entries and exits.
THEOREM ListIsRegistration == Spec => []ListMatchesRegistration
  <1>1. Init => ListMatchesRegistration
    BY ThreadAssumption DEF Init, ListMatchesRegistration, Linked, m_list_append, m_list_init, Node
  <1>2. QED
    BY <1>1, NextListed, Invariance, PTL DEF Spec
-----------------------------------------------------------------------------
(***************************************************************************)
(* The walk of gc_mark_nb_stacks, which follows the links of m_thread_list *)
(* while threads are appended to the list and taken off it.                *)
(***************************************************************************)

\* Whoever follows next from a node of S stays in S until the head is reached.
Closed(l, S) == \A n \in S \ {Head} : l.next[n] \in S

\* Whoever follows next from the node from meets all of K before the head.
Meets(l, from, K) == \A S \in SUBSET Node : (from \in S /\ Closed(l, S)) => K \subseteq S

\* Threads that have been taken off the list.
Gone == {t \in Thread : pc[t] \in {"unlinked", "exited"}}
Known == key \cup Gone \cup {Head}

\* From the head the walk meets every registered thread; from where it stands
\* every one of the stopped world that is not marked yet, also when it stands on
\* a thread that has been taken off the list since and keeps its old pointer.
WalkInv ==
  /\ \A n \in Node : m_thread_list.next[n] \in Known
  /\ Meets(m_thread_list, m_thread_list.next[Head], key)
  /\ \A t \in Thread : pc[t] = "walk" =>
       cursor \in Known /\ Meets(m_thread_list, cursor, (key \ late) \ marked)
  /\ \A t \in Thread : pc[t] = "sweep" => key \ late \subseteq marked

\* A node appended to the list does not divert a walk that is under way.
LEMMA AppendMeets ==
  ASSUME NEW l \in [prev : [Node -> Node], next : [Node -> Node]],
         l.next[l.prev[Head]] = Head,
         NEW n \in Node, n # Head, \A k \in Node : l.next[k] # n,
         NEW from \in Node \ {n}, NEW K \in SUBSET (Node \ {n, Head}), Meets(l, from, K)
  PROVE  Meets(m_list_append(l, Head, n), from, K)
  <1> DEFINE tail == l.prev[Head]
             m == m_list_append(l, Head, n)
  <1>1. tail \in Node /\ l.next[tail] = Head
    BY DEF Node
  <1>2. \A k \in Node : m.next[k] = IF k = tail THEN n ELSE IF k = n THEN Head ELSE l.next[k]
    BY <1>1 DEF m_list_append
  <1> HIDE DEF m
  <1>3. SUFFICES ASSUME NEW S \in SUBSET Node, from \in S, Closed(m, S) PROVE K \subseteq S
    BY DEF Meets, m
  <1> DEFINE R == (S \ {n}) \cup {Head}
  <1>4. R \in SUBSET Node /\ from \in R
    BY <1>3 DEF Node
  <1>5. ASSUME NEW k \in R \ {Head} PROVE l.next[k] \in R
    <2>1. k \in S /\ k # n /\ k # Head /\ m.next[k] \in S
      BY <1>3 DEF Closed
    <2>2. QED
      BY <1>1, <1>2, <2>1
  <1>6. K \subseteq R
    BY <1>4, <1>5 DEF Meets, Closed
  <1>7. QED
    BY <1>6

\* A node taken off the list keeps its pointer: a walk that stands on it, or was
\* about to, meets the others all the same.
LEMMA RemoveMeets ==
  ASSUME NEW l \in [prev : [Node -> Node], next : [Node -> Node]],
         NEW n \in Node, l.next[l.prev[n]] = n,
         NEW from \in Node, NEW start \in Node, start = from \/ (from = n /\ start = l.next[n]),
         NEW K, Meets(l, from, K)
  PROVE  Meets(m_list_remove(l, n), start, K \ {n})
  <1> DEFINE p == l.prev[n]
             m == m_list_remove(l, n)
  <1>1. p \in Node /\ l.next[p] = n /\ l.next[n] \in Node
    OBVIOUS
  <1>2. \A k \in Node : m.next[k] = IF k = p THEN l.next[n] ELSE l.next[k]
    BY DEF m_list_remove
  <1> HIDE DEF m, p
  <1>3. SUFFICES ASSUME NEW S \in SUBSET Node, start \in S, Closed(m, S) PROVE K \ {n} \subseteq S
    BY DEF Meets, m
  <1>4. CASE l.next[n] \in S
    <2> DEFINE R == S \cup {n}
    <2>1. R \in SUBSET Node /\ from \in R
      BY <1>3
    <2>2. ASSUME NEW k \in R \ {Head} PROVE l.next[k] \in R
      <3>1. k = n \/ (k \in S /\ m.next[k] \in S)
        BY <1>3 DEF Closed
      <3>2. QED
        BY <1>1, <1>2, <1>4, <3>1
    <2>3. K \subseteq R
      BY <2>1, <2>2 DEF Meets, Closed
    <2>4. QED
      BY <2>3
  <1>5. CASE l.next[n] \notin S
    <2>1. from \in S
      BY <1>3, <1>5
    <2>2. ASSUME NEW k \in S \ {Head} PROVE l.next[k] \in S
      BY <1>2, <1>3, <1>5 DEF Closed
    <2>3. QED
      BY <2>1, <2>2 DEF Meets, Closed
  <1>6. QED
    BY <1>4, <1>5

LEMMA WalkInit == Init => WalkInv
  <1> SUFFICES ASSUME Init PROVE WalkInv
    OBVIOUS
  <1> USE ThreadAssumption
  <1>1. \A n \in Node : m_thread_list.next[n] = IF n = Head THEN Main ELSE Head
    BY DEF Init, Node, m_list_append, m_list_init
  <1>2. Meets(m_thread_list, m_thread_list.next[Head], key)
    BY <1>1 DEF Init, Meets, Node
  <1>3. \A n \in Node : m_thread_list.next[n] \in Known
    BY <1>1 DEF Init, Known
  <1>4. \A t \in Thread : pc[t] \notin {"walk", "sweep"}
    BY DEF Init
  <1>5. QED
    BY <1>2, <1>3, <1>4 DEF WalkInv

\* Every step keeps the walk on its way, as long as it meets no freed node.
LEMMA WalkNext ==
  IInv /\ ListMatchesRegistration /\ WalkReadsLiveThreads /\ WalkInv /\ [Next]_vars => WalkInv'
  <1> SUFFICES ASSUME IInv, ListMatchesRegistration, WalkReadsLiveThreads, WalkInv, [Next]_vars
               PROVE  WalkInv'
    OBVIOUS
  <1> USE ThreadAssumption
  <1> DEFINE l == m_thread_list
  <1>1. /\ l \in [prev : [Node -> Node], next : [Node -> Node]]
        /\ pc \in [Thread -> PC] /\ key \subseteq Thread /\ cursor \in Node
        /\ \A t \in Thread : CollectorAt(t) <=> gc_thread = t
        /\ \A t \in Thread : pc[t] \in {"registering", "unlinked", "exited"} => t \notin key
        /\ Linked(l, key \cup {Head})
    BY DEF IInv, TypeOK, AssertionsHold, CollectorInv, ListMatchesRegistration
  <1>2. /\ \A n \in Node : l.next[n] \in Known
        /\ Meets(l, l.next[Head], key)
        /\ \A t \in Thread : pc[t] = "walk" => cursor \in Known /\ Meets(l, cursor, (key \ late) \ marked)
        /\ \A t \in Thread : pc[t] = "sweep" => key \ late \subseteq marked
    BY DEF WalkInv
  <1>3. ASSUME NEW t \in Thread, thread_register(t) PROVE WalkInv'
    <2>1. /\ pc[t] = "registering" /\ pc' = [pc EXCEPT ![t] = "inside"]
          /\ l' = m_list_append(l, Head, t) /\ key' = key \cup {t}
          /\ late' = IF Collecting THEN late \cup {t} ELSE late
          /\ cursor' = cursor /\ marked' = marked
      BY <1>3 DEF thread_register, Goto
    <2>2. t \notin Known /\ t # Head /\ t \in Node /\ Known' = Known \cup {t}
      BY <1>1, <2>1 DEF Known, Gone, Node
    <2>3. l.prev[Head] \in key \cup {Head} /\ l.next[l.prev[Head]] = Head
      BY <1>1 DEF Linked
    <2>4. \A k \in Node : l.next[k] # t
      BY <1>2, <2>2
    <2>5. \A k \in Node : l'.next[k] = IF k = l.prev[Head] THEN t ELSE IF k = t THEN Head ELSE l.next[k]
      BY <1>1, <2>1, <2>3 DEF m_list_append, Node
    <2> HIDE DEF l
    <2>6. \A n \in Node : l'.next[n] \in Known'
      BY <1>2, <2>2, <2>5 DEF Known
    <2>7. Meets(l', l'.next[Head], key')
      <3>1. SUFFICES ASSUME NEW S \in SUBSET Node, l'.next[Head] \in S, Closed(l', S) PROVE key \cup {t} \subseteq S
        BY <2>1 DEF Meets
      <3>2. CASE l.prev[Head] = Head
        <4>1. Closed(l, {Head}) /\ l.next[Head] = Head /\ Head \in Node
          BY <2>3, <3>2 DEF Closed, Node
        <4>2. key \subseteq {Head}
          BY <1>2, <4>1 DEF Meets
        <4>3. t \in S
          BY <2>5, <3>1, <3>2, <4>1
        <4>4. QED
          BY <1>1, <4>2, <4>3
      <3>3. CASE l.prev[Head] # Head
        <4>1. l'.next[Head] = l.next[Head] /\ l.next[Head] \in Node \ {t}
          BY <1>1, <2>2, <2>4, <2>5, <3>3 DEF Node
        <4>2. Meets(l', l.next[Head], key)
          <5>1. key \in SUBSET (Node \ {t, Head})
            BY <1>1, <2>2 DEF Known, Node
          <5>2. QED
            BY <1>1, <1>2, <2>1, <2>2, <2>3, <2>4, <4>1, <5>1, AppendMeets
        <4>3. key \subseteq S
          BY <3>1, <4>1, <4>2 DEF Meets
        <4>4. l'.next[l.prev[Head]] = t /\ l.prev[Head] \in S \ {Head}
          BY <2>3, <2>5, <3>3, <4>3, <1>1 DEF Node
        <4>5. QED
          BY <3>1, <4>3, <4>4 DEF Closed
      <3>4. QED
        BY <3>2, <3>3
    <2>8. ASSUME NEW w \in Thread, pc'[w] = "walk"
          PROVE  cursor' \in Known' /\ Meets(l', cursor', (key' \ late') \ marked')
      <3>1. w # t /\ pc[w] = "walk" /\ gc_thread = w
        BY <1>1, <2>1, <2>8 DEF CollectorAt
      <3>2. Collecting
        BY <3>1 DEF Collecting
      <3>3. (key' \ late') \ marked' = (key \ late) \ marked
        BY <2>1, <2>2, <3>2 DEF Known
      <3>4. Meets(l', cursor, (key \ late) \ marked)
        <4>1. (key \ late) \ marked \in SUBSET (Node \ {t, Head}) /\ cursor \in Node \ {t}
          BY <1>1, <1>2, <2>2, <3>1 DEF Known, Node
        <4>2. QED
          BY <1>1, <1>2, <2>1, <2>2, <2>3, <2>4, <3>1, <4>1, AppendMeets
      <3>5. QED
        BY <1>2, <2>1, <2>2, <3>1, <3>3, <3>4
    <2>9. ASSUME NEW w \in Thread, pc'[w] = "sweep" PROVE key' \ late' \subseteq marked'
      <3>1. w # t /\ pc[w] = "sweep" /\ gc_thread = w
        BY <1>1, <2>1, <2>9 DEF CollectorAt
      <3>2. Collecting
        BY <3>1 DEF Collecting
      <3>3. QED
        BY <1>2, <2>1, <3>1, <3>2
    <2>10. QED
      BY <2>6, <2>7, <2>8, <2>9 DEF WalkInv, l
  <1>4. ASSUME NEW t \in Thread, thread_key_destructor(t) PROVE WalkInv'
    <2>1. /\ t \in key /\ pc' = [pc EXCEPT ![t] = "unlinked"]
          /\ l' = m_list_remove(l, t) /\ key' = key \ {t}
          /\ late' = late /\ cursor' = cursor /\ marked' = marked
      BY <1>4 DEF thread_key_destructor, Goto, walkVars
    <2>2. Known' = Known /\ t \in Node /\ t # Head
      BY <1>1, <1>4, <2>1 DEF Known, Gone, Node, thread_key_destructor
    <2>3. l.prev[t] \in Node /\ l.next[t] \in Node /\ l.next[l.prev[t]] = t
      BY <1>1, <2>1, <2>2 DEF Linked
    <2>4. \A k \in Node : l'.next[k] = IF k = l.prev[t] THEN l.next[t] ELSE l.next[k]
      BY <1>1, <2>1 DEF m_list_remove
    <2> HIDE DEF l
    <2>5. \A n \in Node : l'.next[n] \in Known'
      BY <1>2, <2>2, <2>4
    <2>6. Meets(l', l'.next[Head], key')
      <3>1. Head \in Node /\ l.next[Head] \in Node /\ l'.next[Head] \in Node
        BY <1>1, <2>3, <2>4 DEF Node
      <3>2. l'.next[Head] = l.next[Head] \/ (l.next[Head] = t /\ l'.next[Head] = l.next[t])
        BY <2>3, <2>4, <3>1
      <3>3. QED
        BY <1>1, <1>2, <2>1, <2>2, <2>3, <3>1, <3>2, RemoveMeets
    <2>7. ASSUME NEW w \in Thread, pc'[w] = "walk"
          PROVE  cursor' \in Known' /\ Meets(l', cursor', (key' \ late') \ marked')
      <3>1. pc[w] = "walk"
        BY <1>1, <2>1, <2>7
      <3>2. (key' \ late') \ marked' = ((key \ late) \ marked) \ {t}
        BY <2>1
      <3>3. Meets(l', cursor, ((key \ late) \ marked) \ {t})
        BY <1>1, <1>2, <2>1, <2>2, <2>3, <3>1, RemoveMeets
      <3>4. QED
        BY <1>2, <2>1, <2>2, <3>1, <3>2, <3>3
    <2>8. ASSUME NEW w \in Thread, pc'[w] = "sweep" PROVE key' \ late' \subseteq marked'
      BY <1>1, <1>2, <2>1, <2>8
    <2>9. QED
      BY <2>5, <2>6, <2>7, <2>8 DEF WalkInv, l
  <1>5. ASSUME NEW t \in Thread, walk_begin(t) PROVE WalkInv'
    <2>1. /\ pc[t] = "stopped" /\ pc' = [pc EXCEPT ![t] = "walk"] /\ cursor' = l.next[Head]
          /\ key' = key /\ l' = l
      BY <1>5 DEF walk_begin, Goto, regVars
    <2>2. Known' = Known /\ Head \in Node
      BY <1>1, <2>1 DEF Known, Gone, Node
    <2>3. \A w \in Thread : pc'[w] # "sweep"
      BY <1>1, <2>1 DEF CollectorAt
    <2>4. Meets(l, l.next[Head], (key' \ late') \ marked')
      BY <1>2, <2>1 DEF Meets
    <2>5. QED
      BY <1>2, <2>1, <2>2, <2>3, <2>4 DEF WalkInv
  <1>6. ASSUME NEW t \in Thread, walk_step(t) PROVE WalkInv'
    <2>1. /\ pc[t] = "walk" /\ pc' = pc /\ cursor # Head /\ marked' = marked \cup {cursor}
          /\ key' = key /\ l' = l /\ late' = late
      BY <1>6 DEF walk_step, regVars
    <2>2. gc_thread = t
      BY <1>1, <2>1 DEF CollectorAt
    <2>3. cursor \notin freed
      BY <2>1, <2>2 DEF WalkReadsLiveThreads
    <2>4. cursor' = l.next[cursor]
      BY <1>6, <2>3 DEF walk_step
    <2>5. Known' = Known
      BY <2>1 DEF Known, Gone
    <2>6. Meets(l, l.next[cursor], ((key \ late) \ marked) \ {cursor})
      <3>1. SUFFICES ASSUME NEW S \in SUBSET Node, l.next[cursor] \in S, Closed(l, S)
                     PROVE  ((key \ late) \ marked) \ {cursor} \subseteq S
        BY DEF Meets
      <3> DEFINE R == S \cup {cursor}
      <3>2. R \in SUBSET Node /\ cursor \in R /\ Closed(l, R)
        BY <1>1, <3>1 DEF Closed
      <3>3. (key \ late) \ marked \subseteq R
        BY <1>2, <2>1, <3>2 DEF Meets
      <3>4. QED
        BY <3>3
    <2>7. (key' \ late') \ marked' = ((key \ late) \ marked) \ {cursor}
      BY <2>1
    <2>8. \A w \in Thread : pc'[w] # "sweep"
      BY <1>1, <2>1 DEF CollectorAt
    <2>9. QED
      BY <1>1, <1>2, <2>1, <2>4, <2>5, <2>6, <2>7, <2>8 DEF WalkInv
  <1>7. ASSUME NEW t \in Thread, walk_end(t) PROVE WalkInv'
    <2>1. /\ pc[t] = "walk" /\ pc' = [pc EXCEPT ![t] = "sweep"] /\ cursor = Head
          /\ key' = key /\ l' = l /\ late' = late /\ marked' = marked
      BY <1>7 DEF walk_end, Goto, regVars, walkVars
    <2>2. Known' = Known
      BY <1>1, <2>1 DEF Known, Gone
    <2>3. Closed(l, {Head}) /\ {Head} \in SUBSET Node
      BY DEF Closed, Node
    <2>4. (key \ late) \ marked \subseteq {Head}
      BY <1>2, <2>1, <2>3 DEF Meets
    <2>5. key \ late \subseteq marked
      BY <1>1, <2>4
    <2>6. \A w \in Thread : pc'[w] # "walk"
      BY <1>1, <2>1 DEF CollectorAt
    <2>7. QED
      BY <1>2, <2>1, <2>2, <2>5, <2>6 DEF WalkInv
  <1>8. ASSUME NEW t \in Thread, m_thread_resume_all(t) PROVE WalkInv'
    <2>1. pc[t] = "sweep" /\ pc' = [pc EXCEPT ![t] = "inside"] /\ key' = key /\ l' = l
      BY <1>8 DEF m_thread_resume_all, Goto, regVars
    <2>2. Known' = Known
      BY <1>1, <2>1 DEF Known, Gone
    <2>3. \A w \in Thread : pc'[w] \notin {"walk", "sweep"}
      BY <1>1, <2>1 DEF CollectorAt
    <2>4. QED
      BY <1>2, <2>1, <2>2, <2>3 DEF WalkInv
  <1>9. ASSUME UNCHANGED <<key, m_thread_list, walkVars>>, Known' = Known,
               \A w \in Thread : pc'[w] \in {"walk", "sweep"} => pc'[w] = pc[w]
        PROVE  WalkInv'
    BY <1>2, <1>9 DEF WalkInv, walkVars
  <1>10. ASSUME NEW t \in Thread, NEW where \in PC \ {"unlinked", "exited", "walk", "sweep"}, Goto(t, where),
                pc[t] \notin {"unlinked", "exited"}, UNCHANGED <<key, m_thread_list, walkVars>>
         PROVE  WalkInv'
    <2>1. Gone' = Gone /\ \A w \in Thread : pc'[w] \in {"walk", "sweep"} => pc'[w] = pc[w]
      BY <1>1, <1>10 DEF Gone, Goto, PC
    <2>2. QED
      BY <1>9, <1>10, <2>1 DEF Known
  <1>11. ASSUME UNCHANGED <<pc, key, m_thread_list, walkVars>> PROVE WalkInv'
    BY <1>9, <1>11 DEF Known, Gone
  <1>12. ASSUME NEW t \in Thread, m_thread_enter(t) PROVE WalkInv'
    BY <1>10, <1>12 DEF m_thread_enter, regVars, PC
  <1>13. ASSUME NEW t \in Thread, m_thread_leave(t) PROVE WalkInv'
    BY <1>10, <1>13 DEF m_thread_leave, regVars, PC
  <1>14. ASSUME NEW t \in Thread, leave_signal(t) PROVE WalkInv'
    BY <1>10, <1>14 DEF leave_signal, regVars, PC
  <1>15. ASSUME NEW t \in Thread, m_thread_check_nl(t) PROVE WalkInv'
    BY <1>10, <1>15 DEF m_thread_check_nl, regVars, PC
  <1>16. ASSUME NEW t \in Thread, check_wake(t) PROVE WalkInv'
    BY <1>10, <1>11, <1>16 DEF check_wake, regVars, PC
  <1>17. ASSUME NEW t \in Thread, gc_collect_objs(t) PROVE WalkInv'
    BY <1>10, <1>17 DEF gc_collect_objs, regVars, PC
  <1>18. ASSUME NEW t \in Thread, pause_wake(t) PROVE WalkInv'
    BY <1>10, <1>11, <1>18 DEF pause_wake, regVars, PC
  <1>19. ASSUME NEW t \in Thread, free_thread(t) PROVE WalkInv'
    <2>1. Gone' = Gone /\ \A w \in Thread : pc'[w] \in {"walk", "sweep"} => pc'[w] = pc[w]
      BY <1>1, <1>19 DEF free_thread, Gone, Goto
    <2>2. QED
      BY <1>9, <1>19, <2>1 DEF Known, free_thread
  <1>20. ASSUME NEW t \in Thread, SpuriousWakeup(t) PROVE WalkInv'
    BY <1>11, <1>20 DEF SpuriousWakeup, regVars
  <1>21. CASE UNCHANGED vars
    BY <1>11, <1>21 DEF vars, regVars
  <1>22. QED
    BY <1>3, <1>4, <1>5, <1>6, <1>7, <1>8, <1>12, <1>13, <1>14, <1>15, <1>16, <1>17, <1>18, <1>19, <1>20, <1>21
       DEF Next, Continue

\* As long as gc_mark_nb_stacks reads no freed M_Thread, every thread of the
\* stopped world has had its stack marked when the sweep begins, for any threads
\* and any registrations and exits during the walk.
THEOREM WalkMarksAll == Spec => StacksMarkedBeforeSweep
  <1>1. IInv /\ WalkInv => StacksMarked
    BY DEF IInv, TypeOK, WalkInv, StacksMarked
  <1>2. Spec => []ListMatchesRegistration
    BY ListIsRegistration
  <1>3. QED
    BY <1>1, <1>2, WalkInit, WalkNext, Invariance, PTL DEF Spec, StacksMarkedBeforeSweep
=============================================================================
