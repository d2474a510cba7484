-------------------------- MODULE LifecycleProofs --------------------------
(***************************************************************************)
(* The order of startup and shutdown for any number of workers and actors, *)
(* when Main alone creates actors and every worker ends before Main        *)
(* returns from main (what the runs and the tests of the repository do;    *)
(* the run actors_unjoined shows what happens otherwise).                  *)
(***************************************************************************)
EXTENDS Lifecycle, TLAPS

Link == Actor \cup {Null}

\* The nodes q[1], ..., q[k] are linked by l in this order from first on, and
\* are the members of S, each once.
IsChain(l, first, S, k, q) ==
  /\ \A i \in 1 .. k : q[i] \in S
  /\ \A n \in S : \E i \in 1 .. k : q[i] = n
  /\ \A i, j \in 1 .. k : q[i] = q[j] => i = j
  /\ first = IF k = 0 THEN Null ELSE q[1]
  /\ \A i \in 1 .. k : l[q[i]] = IF i = k THEN Null ELSE q[i + 1]

Chained(l, first, S) == \E k \in Nat : \E q \in [1 .. k -> Actor] : IsChain(l, first, S, k, q)

\* NULL is the chain of no nodes.
LEMMA ChainEmpty ==
  ASSUME NEW l PROVE Chained(l, Null, {})
  <1> DEFINE q == [i \in 1 .. 0 |-> Null]
  <1>1. q \in [1 .. 0 -> Actor] /\ IsChain(l, Null, {}, 0, q)
    BY DEF IsChain
  <1>2. QED
    BY <1>1 DEF Chained

\* A link that does not belong to a node of the chain may change.
LEMMA ChainFrame ==
  ASSUME NEW l, NEW m, NEW first, NEW S, Chained(l, first, S), \A n \in S : m[n] = l[n]
  PROVE  Chained(m, first, S)
  BY DEF Chained, IsChain

\* What is left when the first node is taken.
LEMMA ChainPop ==
  ASSUME NEW l, NEW first, NEW S, Chained(l, first, S), first # Null
  PROVE  /\ first \in S /\ first \in Actor
         /\ Chained(l, l[first], S \ {first})
         /\ l[first] \in (S \ {first}) \cup {Null}
  <1>1. PICK k \in Nat : \E q \in [1 .. k -> Actor] : IsChain(l, first, S, k, q)
    BY DEF Chained
  <1>2. PICK q \in [1 .. k -> Actor] : IsChain(l, first, S, k, q)
    BY <1>1
  <1>3. k # 0 /\ first = q[1] /\ 1 \in 1 .. k
    BY <1>2 DEF IsChain
  <1> DEFINE r == [i \in 1 .. (k - 1) |-> q[i + 1]]
  <1>4. k - 1 \in Nat /\ r \in [1 .. (k - 1) -> Actor]
    BY <1>3
  <1>5. \A i \in 1 .. (k - 1) : r[i] = q[i + 1] /\ i + 1 \in 1 .. k
    BY <1>3
  <1> HIDE DEF r
  <1>6. first \in S /\ first \in Actor
    BY <1>2, <1>3 DEF IsChain
  <1>7. l[first] = IF k = 1 THEN Null ELSE q[2]
    BY <1>2, <1>3 DEF IsChain
  <1>8. \A i \in 1 .. (k - 1) : r[i] \in S \ {first}
    BY <1>2, <1>3, <1>5 DEF IsChain
  <1>9. ASSUME NEW n \in S \ {first} PROVE \E i \in 1 .. (k - 1) : r[i] = n
    <2>1. PICK j \in 1 .. k : q[j] = n
      BY <1>2 DEF IsChain
    <2>2. j # 1
      BY <1>3, <2>1
    <2>3. j - 1 \in 1 .. (k - 1) /\ (j - 1) + 1 = j
      BY <2>2
    <2>4. r[j - 1] = n
      BY <1>5, <2>1, <2>3
    <2>5. QED
      BY <2>3, <2>4
  <1>10. ASSUME NEW i \in 1 .. (k - 1), NEW j \in 1 .. (k - 1), r[i] = r[j] PROVE i = j
    <2>1. q[i + 1] = q[j + 1] /\ i + 1 \in 1 .. k /\ j + 1 \in 1 .. k
      BY <1>5, <1>10
    <2>2. i + 1 = j + 1
      BY <1>2, <2>1 DEF IsChain
    <2>3. QED
      BY <2>2
  <1>11. l[first] = IF k - 1 = 0 THEN Null ELSE r[1]
    BY <1>3, <1>5, <1>7
  <1>12. ASSUME NEW i \in 1 .. (k - 1)
         PROVE  l[r[i]] = IF i = k - 1 THEN Null ELSE r[i + 1]
    <2>1. r[i] = q[i + 1] /\ i + 1 \in 1 .. k
      BY <1>5
    <2>2. l[q[i + 1]] = IF i + 1 = k THEN Null ELSE q[i + 2]
      BY <1>2, <2>1 DEF IsChain
    <2>3. i # k - 1 => i + 1 \in 1 .. (k - 1)
      OBVIOUS
    <2>4. i # k - 1 => r[i + 1] = q[i + 2]
      BY <1>5, <2>3
    <2>5. QED
      BY <2>1, <2>2, <2>4
  <1>13. IsChain(l, l[first], S \ {first}, k - 1, r)
    BY <1>8, <1>9, <1>10, <1>11, <1>12 DEF IsChain
  <1>14. l[first] \in (S \ {first}) \cup {Null}
    BY <1>3, <1>8, <1>11
  <1>15. QED
    BY <1>4, <1>6, <1>13, <1>14 DEF Chained

\* A chain that starts with NULL has no nodes.
LEMMA ChainNone ==
  ASSUME NEW l, NEW S, Chained(l, Null, S), Null \notin S PROVE S = {}
  <1>1. PICK k \in Nat : \E q \in [1 .. k -> Actor] : IsChain(l, Null, S, k, q)
    BY DEF Chained
  <1>2. PICK q \in [1 .. k -> Actor] : IsChain(l, Null, S, k, q)
    BY <1>1
  <1>3. k = 0
    <2>1. k # 0 => 1 \in 1 .. k
      OBVIOUS
    <2>2. QED
      BY <1>2, <2>1 DEF IsChain
  <1>4. QED
    BY <1>2, <1>3 DEF IsChain

\* A new node before the first.
LEMMA ChainPush ==
  ASSUME NEW l, NEW first, NEW S, Chained(l, first, S), NEW n \in Actor, n \notin S, l[n] = first
  PROVE  Chained(l, n, S \cup {n})
  <1>1. PICK k \in Nat : \E q \in [1 .. k -> Actor] : IsChain(l, first, S, k, q)
    BY DEF Chained
  <1>2. PICK q \in [1 .. k -> Actor] : IsChain(l, first, S, k, q)
    BY <1>1
  <1> DEFINE r == [i \in 1 .. (k + 1) |-> IF i = 1 THEN n ELSE q[i - 1]]
  <1>3. k + 1 \in Nat /\ r \in [1 .. (k + 1) -> Actor] /\ 1 \in 1 .. (k + 1) /\ r[1] = n
    OBVIOUS
  <1>4. \A i \in 1 .. (k + 1) : i # 1 => r[i] = q[i - 1] /\ i - 1 \in 1 .. k
    OBVIOUS
  <1> HIDE DEF r
  <1>5. \A i \in 1 .. (k + 1) : r[i] \in S \cup {n}
    BY <1>2, <1>3, <1>4 DEF IsChain
  <1>6. ASSUME NEW m \in S \cup {n} PROVE \E i \in 1 .. (k + 1) : r[i] = m
    <2>1. CASE m = n
      BY <1>3, <2>1
    <2>2. CASE m \in S
      <3>1. PICK j \in 1 .. k : q[j] = m
        BY <1>2, <2>2 DEF IsChain
      <3>2. j + 1 \in 1 .. (k + 1) /\ j + 1 # 1 /\ (j + 1) - 1 = j
        OBVIOUS
      <3>3. r[j + 1] = m
        BY <1>4, <3>1, <3>2
      <3>4. QED
        BY <3>2, <3>3
    <2>3. QED
      BY <2>1, <2>2
  <1>7. ASSUME NEW i \in 1 .. (k + 1), NEW j \in 1 .. (k + 1), r[i] = r[j] PROVE i = j
    <2>1. \A x \in 1 .. (k + 1) : x # 1 => r[x] \in S /\ r[x] # n
      BY <1>2, <1>4 DEF IsChain
    <2>2. CASE i = 1 \/ j = 1
      BY <1>3, <1>7, <2>1, <2>2
    <2>3. CASE i # 1 /\ j # 1
      <3>1. q[i - 1] = q[j - 1] /\ i - 1 \in 1 .. k /\ j - 1 \in 1 .. k
        BY <1>4, <1>7, <2>3
      <3>2. i - 1 = j - 1
        BY <1>2, <3>1 DEF IsChain
      <3>3. QED
        BY <3>2
    <2>4. QED
      BY <2>2, <2>3
  <1>8. ASSUME NEW i \in 1 .. (k + 1)
        PROVE  l[r[i]] = IF i = k + 1 THEN Null ELSE r[i + 1]
    <2>1. CASE i = 1
      <3>1. first = IF k = 0 THEN Null ELSE q[1]
        BY <1>2 DEF IsChain
      <3>2. k # 0 => 2 \in 1 .. (k + 1) /\ r[2] = q[1]
        BY <1>4
      <3>3. QED
        BY <1>3, <2>1, <3>1, <3>2
    <2>2. CASE i # 1
      <3>1. r[i] = q[i - 1] /\ i - 1 \in 1 .. k
        BY <1>4, <2>2
      <3>2. l[q[i - 1]] = IF i - 1 = k THEN Null ELSE q[(i - 1) + 1]
        BY <1>2, <3>1 DEF IsChain
      <3>3. i # k + 1 => i + 1 \in 1 .. (k + 1) /\ i + 1 # 1 /\ (i + 1) - 1 = i /\ (i - 1) + 1 = i
        OBVIOUS
      <3>4. i # k + 1 => r[i + 1] = q[i]
        BY <1>4, <3>3
      <3>5. QED
        BY <3>1, <3>2, <3>3, <3>4
    <2>3. QED
      BY <2>1, <2>2
  <1>9. k + 1 # 0
    OBVIOUS
  <1>10. IsChain(l, n, S \cup {n}, k + 1, r)
    BY <1>3, <1>5, <1>6, <1>7, <1>8, <1>9 DEF IsChain
  <1>11. QED
    BY <1>3, <1>10 DEF Chained
-----------------------------------------------------------------------------
(***************************************************************************)
(* The invariant.  Main's place decides which resources are up, whether    *)
(* workers and actors may still run, and which nodes the list links.       *)
(***************************************************************************)
Starting == {"log_startup", "gc_startup", "thread_startup", "atexit"}
Running  == {"run", "push", "push_head"}
Stopping == {"set_flag", "broadcast", "join"}
Stopped  == {"gc_shutdown", "gc_release", "log_shutdown", "exit", "exited"}
Joined   == {"join"} \cup Stopped

LifeType ==
  /\ pc \in [Thread -> {"begin", "done"} \cup Starting \cup Running \cup Stopping \cup Stopped]
  /\ once \in {"init", "running", "done"}
  /\ res \in [Resource -> {"none", "up", "down"}]
  /\ logging \in [Thread -> {"no", "call", "locked"}]
  /\ log_holder \in Thread \cup {Null}
  /\ waiters \subseteq Actor
  /\ actor \in [Actor -> {"none", "start", "wait", "exited"}]
  /\ actor_thread_list \in [Actor \cup {Head} -> Link]
  /\ freed \subseteq Actor
  /\ new \in [Thread -> Link]

\* The resources that Main's place needs: startup brings them up in the order
\* log, heap, threads, and shutdown takes them down in the reverse order.
Needed(where) ==
  (IF where \in {"begin", "log_startup", "exit", "exited"} THEN {} ELSE {"lock", "log_fp"})
  \cup (IF where \in {"thread_startup", "atexit", "gc_shutdown", "gc_release"} \cup Running \cup Stopping
          THEN {"m_gc_lock", "heap"} ELSE {})
  \cup (IF where \in {"atexit"} \cup Running \cup Stopping
          THEN {"m_thread_key", "m_thread_lock", "thread_active_cond"} ELSE {})

ResInv == \A r \in Needed(pc[Main]) : res[r] = "up"

\* Workers run only between the end of startup and Main's return from main.
OrderInv ==
  /\ pc[Main] # "done"
  /\ pc[Main] = "begin" => once = "init"
  /\ pc[Main] \in Starting => once = "running"
  /\ once = "done" => pc[Main] \in Running \cup Stopping \cup Stopped
  /\ \A w \in Worker : pc[w] \in {"begin", "run", "done"} /\ (pc[w] # "begin" => once = "done")
  /\ pc[Main] \in Stopping \cup Stopped => \A w \in Worker : pc[w] = "done"

\* Who is inside m_log.
LogInv ==
  /\ \A w \in Worker : logging[w] # "no" => pc[w] = "run"
  /\ logging[Main] # "no" => pc[Main] \notin {"begin", "log_startup", "exit", "exited"}
  /\ log_holder # Null => logging[log_holder] = "locked"

\* Actors sleep only until the broadcast.
FlagInv ==
  /\ thread_exit_flag => pc[Main] \in {"broadcast"} \cup Joined
  /\ pc[Main] \in {"broadcast"} \cup Joined => thread_exit_flag
  /\ pc[Main] \in Joined => waiters = {}

\* The actors whose nodes the list must hold.
Created == {n \in Actor : actor[n] # "none"}
Pushed  == {n \in Actor : actor[n] # "none" /\ n # new[Main]}
Unjoined == {n \in Actor : actor[n] # "none" /\ n \notin freed}

ListInv ==
  /\ pc[Main] \in {"begin"} \cup Starting => Created = {}
  /\ IF pc[Main] \in {"push", "push_head"}
       THEN new[Main] \in Actor /\ actor[new[Main]] # "none"
       ELSE new[Main] = Null
  /\ pc[Main] = "push_head" => actor_thread_list[new[Main]] = actor_thread_list[Head]
  /\ \A n \in freed : actor[n] = "none" \/ (actor[n] = "exited" /\ pc[Main] \in Joined)
  /\ pc[Main] \notin Joined => Chained(actor_thread_list, actor_thread_list[Head], Pushed)
  /\ pc[Main] = "join" =>
       /\ Chained(actor_thread_list, node, Unjoined)
       /\ nnode = IF node = Null THEN Null ELSE actor_thread_list[node]
  /\ pc[Main] \in Stopped => Unjoined = {}

LifeInv ==
  /\ LifeType /\ ResInv /\ OrderInv /\ LogInv /\ FlagInv /\ ListInv
  /\ misused = {}

\* The invariant of the lifecycle holds at the start.
LEMMA InitLife == Init => LifeInv
  <1> SUFFICES ASSUME Init PROVE LifeInv
    OBVIOUS
  <1> USE LifecycleAssumption
  <1>1. LifeType
    BY DEF Init, LifeType, Link, Thread
  <1>2. pc[Main] = "begin" /\ logging[Main] = "no" /\ new[Main] = Null
    BY DEF Init, Thread
  <1>3. ResInv /\ OrderInv /\ LogInv /\ FlagInv
    BY <1>2 DEF Init, ResInv, Needed, OrderInv, LogInv, FlagInv, Starting, Running, Stopping, Stopped,
       Joined, Thread
  <1>4. Created = {} /\ Pushed = {} /\ actor_thread_list[Head] = Null
    BY DEF Init, Created, Pushed
  <1>5. Chained(actor_thread_list, actor_thread_list[Head], Pushed)
    BY <1>4, ChainEmpty
  <1>6. ListInv
    BY <1>2, <1>4, <1>5 DEF Init, ListInv, Stopped, Joined
  <1>7. QED
    BY <1>1, <1>3, <1>6 DEF LifeInv, Init
\* Which thread takes which step.
LEMMA WhoActs ==
  ASSUME LifeType, OrderInv, NEW t \in Thread
  PROVE  /\ pc[t] \in Starting \cup {"push", "push_head"} \cup Stopping \cup Stopped => t = Main
         /\ t # Main => t \in Worker
         /\ Main \in Thread /\ Main \notin Worker
         /\ Head \notin Actor /\ Null \notin Actor \cup {Head} \cup Thread
  BY LifecycleAssumption DEF OrderInv, Thread, Starting, Stopping, Stopped

\* The types of the variables.
LEMMA NextLifeType ==
  ASSUME Creators = {Main}, Stragglers = {}, LifeType, OrderInv, ListInv, [Next]_vars
  PROVE  LifeType'
  <1> USE LifecycleAssumption DEF LifeType, Starting, Running, Stopping, Stopped
  <1>1. ASSUME NEW t \in Thread, m_startup(t) PROVE LifeType'
    BY <1>1, WhoActs
       DEF m_startup, At, Goto, logVars, actorVars, listVars
  <1>2. ASSUME NEW t \in Thread, m_log_startup(t) PROVE LifeType'
    BY <1>2, WhoActs
       DEF m_log_startup, At, Goto, SetRes, Called, actorVars, listVars
  <1>3. ASSUME NEW t \in Thread, m_gc_startup(t) PROVE LifeType'
    BY <1>3, WhoActs
       DEF m_gc_startup, At, Goto, SetRes, m_log, Called, actorVars, listVars
  <1>4. ASSUME NEW t \in Thread, m_thread_startup(t) PROVE LifeType'
    <2>1. Null \in Link
      BY DEF Link
    <2>2. QED
      BY <1>4, <2>1 DEF m_thread_startup, Goto, SetRes, logVars
  <1>5. ASSUME NEW t \in Thread, startup_end(t) PROVE LifeType'
    BY <1>5, WhoActs
       DEF startup_end, At, Goto, logVars, actorVars, listVars
  <1>6. ASSUME NEW t \in Thread, log_begin(t) PROVE LifeType'
    BY <1>6, WhoActs
       DEF log_begin, actorVars, listVars
  <1>7. ASSUME NEW t \in Thread, log_end(t) PROVE LifeType'
    BY <1>7, WhoActs
       DEF log_end, actorVars, listVars
  <1>8. ASSUME NEW t \in Thread, app_log(t) PROVE LifeType'
    BY <1>8, WhoActs
       DEF app_log, m_log, Called, actorVars, listVars
  <1>9. ASSUME NEW t \in Thread, app_gc(t) PROVE LifeType'
    BY <1>9, WhoActs
       DEF app_gc, logVars, actorVars, listVars
  <1>10. ASSUME NEW t \in Thread, app_end(t) PROVE LifeType'
    BY <1>10, WhoActs
       DEF app_end, At, Goto, logVars, actorVars, listVars
  <1>11. ASSUME NEW t \in Thread, m_thread_create(t) PROVE LifeType'
    <2>1. PICK n \in Actor :
            /\ actor[n] = "none" /\ n \notin freed
            /\ \/ /\ actor' = [actor EXCEPT ![n] = "start"]
                  /\ new' = [new EXCEPT ![t] = n]
                  /\ pc' = [pc EXCEPT ![t] = "push"]
                  /\ UNCHANGED freed
               \/ /\ freed' = freed \cup {n}
                  /\ UNCHANGED <<actor, new, pc>>
      BY <1>11 DEF m_thread_create, Goto
    <2>2. UNCHANGED <<once, res, logging, log_holder, waiters, actor_thread_list>> /\ n \in Link
      BY <1>11 DEF m_thread_create, logVars, Link
    <2>3. QED
      BY <2>1, <2>2
  <1>12. ASSUME NEW t \in Thread, push_next(t) PROVE LifeType'
    <2>1. t = Main /\ actor_thread_list' = [actor_thread_list EXCEPT ![new[t]] = actor_thread_list[Head]]
          /\ pc' = [pc EXCEPT ![t] = "push_head"]
          /\ UNCHANGED <<once, res, logging, log_holder, waiters, actor, freed, new>>
      BY <1>12, WhoActs DEF push_next, At, Goto, logVars, actorVars
    <2>2. actor_thread_list[Head] \in Link
      BY DEF Link
    <2>3. QED
      BY <2>1, <2>2
  <1>13. ASSUME NEW t \in Thread, push_head(t) PROVE LifeType'
    <2>1. /\ t = Main /\ pc[t] = "push_head"
          /\ actor_thread_list' = [actor_thread_list EXCEPT ![Head] = new[t]]
          /\ pc' = [pc EXCEPT ![t] = "run"]
          /\ new' = [new EXCEPT ![t] = Null]
          /\ UNCHANGED <<once, res, logging, log_holder, waiters, actor, freed>>
      BY <1>13, WhoActs DEF push_head, At, Goto, logVars, actorVars
    <2>2. new[t] \in Link /\ Null \in Link
      BY DEF Link
    <2>3. QED
      BY <2>1, <2>2
  <1>14. ASSUME NEW n \in Actor, thread_entry(n) PROVE LifeType'
    BY <1>14
       DEF thread_entry, logVars, listVars
  <1>15. ASSUME NEW n \in Actor, SpuriousWakeup(n) PROVE LifeType'
    BY <1>15
       DEF SpuriousWakeup, logVars, listVars
  <1>16. CASE set_exit_flag
    BY <1>16
       DEF set_exit_flag, Goto, logVars, listVars
  <1>17. CASE shutdown_broadcast
    BY <1>17
       DEF shutdown_broadcast, Goto, logVars
  <1>18. CASE join_actor
    <2>1. /\ pc[Main] = "join" /\ node # Null /\ freed' = freed \cup {node}
          /\ UNCHANGED <<pc, once, res, logging, log_holder, waiters, actor, actor_thread_list, new>>
      BY <1>18 DEF join_actor, At, logVars, actorVars
    <2>2. node \in Actor
      BY <2>1, ChainPop DEF ListInv
    <2>3. QED
      BY <2>1, <2>2
  <1>19. CASE thread_release
    BY <1>19
       DEF thread_release, Goto, SetRes, logVars, actorVars, listVars
  <1>20. CASE gc_obj_shutdown
    BY <1>20
       DEF gc_obj_shutdown, Goto, m_log, Called, actorVars, listVars
  <1>21. CASE gc_release
    BY <1>21
       DEF gc_release, Goto, SetRes, m_log, Called, actorVars, listVars
  <1>22. CASE m_log_shutdown
    BY <1>22
       DEF m_log_shutdown, Goto, SetRes, logVars, actorVars, listVars
  <1>23. CASE process_exit
    BY <1>23
       DEF process_exit, Goto, logVars, actorVars, listVars
  <1>24. CASE UNCHANGED vars
    BY <1>24 DEF vars, logVars, actorVars, listVars
  <1>25. QED
    BY <1>1, <1>2, <1>3, <1>4, <1>5, <1>6, <1>7, <1>8, <1>9, <1>10, <1>11, <1>12, <1>13,
       <1>14, <1>15, <1>16, <1>17, <1>18, <1>19, <1>20, <1>21, <1>22, <1>23, <1>24
       DEF Next, Startup, Shutdown

\* Startup, run and shutdown follow each other, and the workers are in between.
LEMMA NextOrder ==
  ASSUME Creators = {Main}, Stragglers = {}, LifeType, OrderInv, [Next]_vars
  PROVE  OrderInv'
  <1> USE LifecycleAssumption DEF LifeType, OrderInv, Starting, Running, Stopping, Stopped
  <1>0. Main \in Thread /\ Main \notin Worker /\ Thread = Worker \cup {Main} /\ Null \notin Thread
    BY DEF Thread
  <1>1. ASSUME NEW t \in Thread, m_startup(t) PROVE OrderInv'
    <2>1. CASE once = "init" /\ t = Main /\ once' = "running" /\ pc' = [pc EXCEPT ![t] = "log_startup"]
      BY <2>1, WhoActs
    <2>2. CASE once = "done" /\ pc[t] = "begin" /\ pc' = [pc EXCEPT ![t] = "run"] /\ UNCHANGED once
      BY <2>2, WhoActs
    <2>3. QED
      BY <1>1, <2>1, <2>2 DEF m_startup, At, Goto
  <1>2. ASSUME NEW t \in Thread, m_log_startup(t) PROVE OrderInv'
    BY <1>2, WhoActs
       DEF m_log_startup, At, Goto
  <1>3. ASSUME NEW t \in Thread, m_gc_startup(t) PROVE OrderInv'
    BY <1>3, WhoActs
       DEF m_gc_startup, At, Goto
  <1>4. ASSUME NEW t \in Thread, m_thread_startup(t) PROVE OrderInv'
    BY <1>4, WhoActs
       DEF m_thread_startup, At, Goto
  <1>5. ASSUME NEW t \in Thread, startup_end(t) PROVE OrderInv'
    BY <1>5, WhoActs
       DEF startup_end, At, Goto
  <1>6. ASSUME NEW t \in Thread, log_begin(t) PROVE OrderInv'
    BY <1>6, WhoActs
       DEF log_begin
  <1>7. ASSUME NEW t \in Thread, log_end(t) PROVE OrderInv'
    BY <1>7, WhoActs
       DEF log_end
  <1>8. ASSUME NEW t \in Thread, app_log(t) PROVE OrderInv'
    BY <1>8, WhoActs
       DEF app_log
  <1>9. ASSUME NEW t \in Thread, app_gc(t) PROVE OrderInv'
    BY <1>9, WhoActs
       DEF app_gc
  <1>10. ASSUME NEW t \in Thread, app_end(t) PROVE OrderInv'
    <2>1. CASE t = Main
      <3>1. pc[t] = "run" /\ pc' = [pc EXCEPT ![t] = "set_flag"] /\ (\A w \in Worker : pc[w] = "done") /\ once' = once
        BY <1>10, <2>1 DEF app_end, At, Goto
      <3>2. QED
        BY <2>1, <3>1, WhoActs
    <2>2. CASE t # Main
      <3>1. pc[t] = "run" /\ pc' = [pc EXCEPT ![t] = "done"] /\ once' = once
        BY <1>10, <2>2 DEF app_end, At, Goto
      <3>2. QED
        BY <2>2, <3>1, WhoActs
    <2>3. QED
      BY <2>1, <2>2
  <1>11. ASSUME NEW t \in Thread, m_thread_create(t) PROVE OrderInv'
    <2>1. t = Main /\ pc[t] = "run" /\ pc' \in {pc, [pc EXCEPT ![t] = "push"]} /\ UNCHANGED <<once, logging, log_holder>>
      BY <1>11 DEF m_thread_create, At, Goto, logVars
    <2>2. CASE pc' = pc
      BY <2>1, <2>2
    <2>3. CASE pc' = [pc EXCEPT ![t] = "push"]
      BY <1>0, <2>1, <2>3
    <2>4. QED
      BY <2>1, <2>2, <2>3
  <1>12. ASSUME NEW t \in Thread, push_next(t) PROVE OrderInv'
    BY <1>12, WhoActs
       DEF push_next, At, Goto
  <1>13. ASSUME NEW t \in Thread, push_head(t) PROVE OrderInv'
    BY <1>13, WhoActs
       DEF push_head, At, Goto
  <1>14. ASSUME NEW n \in Actor, thread_entry(n) PROVE OrderInv'
    BY <1>14
       DEF thread_entry
  <1>15. ASSUME NEW n \in Actor, SpuriousWakeup(n) PROVE OrderInv'
    BY <1>15
       DEF SpuriousWakeup
  <1>16. CASE set_exit_flag
    BY <1>16
       DEF set_exit_flag, At, Goto
  <1>17. CASE shutdown_broadcast
    BY <1>17
       DEF shutdown_broadcast, At, Goto
  <1>18. CASE join_actor
    BY <1>18
       DEF join_actor
  <1>19. CASE thread_release
    BY <1>19
       DEF thread_release, At, Goto
  <1>20. CASE gc_obj_shutdown
    BY <1>20
       DEF gc_obj_shutdown, At, Goto
  <1>21. CASE gc_release
    BY <1>21
       DEF gc_release, At, Goto
  <1>22. CASE m_log_shutdown
    BY <1>22
       DEF m_log_shutdown, At, Goto
  <1>23. CASE process_exit
    BY <1>23
       DEF process_exit, At, Goto
  <1>24. CASE UNCHANGED vars
    BY <1>24 DEF vars, logVars, actorVars, listVars
  <1>25. QED
    BY <1>1, <1>2, <1>3, <1>4, <1>5, <1>6, <1>7, <1>8, <1>9, <1>10, <1>11, <1>12, <1>13,
       <1>14, <1>15, <1>16, <1>17, <1>18, <1>19, <1>20, <1>21, <1>22, <1>23, <1>24
       DEF Next, Startup, Shutdown

\* Main reaches a place only with what it needs there.
LEMMA NextRes ==
  ASSUME Creators = {Main}, Stragglers = {}, LifeType, OrderInv, ResInv, [Next]_vars
  PROVE  ResInv'
  <1> USE LifecycleAssumption DEF LifeType, OrderInv, ResInv, Needed, Resource, Starting, Running, Stopping, Stopped
  <1>0. Main \in Thread /\ Main \notin Worker /\ Thread = Worker \cup {Main} /\ Null \notin Thread
    BY DEF Thread
  <1>1. ASSUME NEW t \in Thread, m_startup(t) PROVE ResInv'
    BY <1>1, WhoActs
       DEF m_startup, At, Goto
  <1>2. ASSUME NEW t \in Thread, m_log_startup(t) PROVE ResInv'
    BY <1>2, WhoActs
       DEF m_log_startup, At, Goto, SetRes
  <1>3. ASSUME NEW t \in Thread, m_gc_startup(t) PROVE ResInv'
    BY <1>3, WhoActs
       DEF m_gc_startup, At, Goto, SetRes
  <1>4. ASSUME NEW t \in Thread, m_thread_startup(t) PROVE ResInv'
    BY <1>4, WhoActs
       DEF m_thread_startup, At, Goto, SetRes
  <1>5. ASSUME NEW t \in Thread, startup_end(t) PROVE ResInv'
    BY <1>5, WhoActs
       DEF startup_end, At, Goto
  <1>6. ASSUME NEW t \in Thread, log_begin(t) PROVE ResInv'
    BY <1>6, WhoActs
       DEF log_begin
  <1>7. ASSUME NEW t \in Thread, log_end(t) PROVE ResInv'
    BY <1>7, WhoActs
       DEF log_end
  <1>8. ASSUME NEW t \in Thread, app_log(t) PROVE ResInv'
    BY <1>8, WhoActs
       DEF app_log
  <1>9. ASSUME NEW t \in Thread, app_gc(t) PROVE ResInv'
    BY <1>9, WhoActs
       DEF app_gc
  <1>10. ASSUME NEW t \in Thread, app_end(t) PROVE ResInv'
    BY <1>10, WhoActs
       DEF app_end, At, Goto
  <1>11. ASSUME NEW t \in Thread, m_thread_create(t) PROVE ResInv'
    BY <1>11, WhoActs
       DEF m_thread_create, At, Goto
  <1>12. ASSUME NEW t \in Thread, push_next(t) PROVE ResInv'
    BY <1>12, WhoActs
       DEF push_next, At, Goto
  <1>13. ASSUME NEW t \in Thread, push_head(t) PROVE ResInv'
    BY <1>13, WhoActs
       DEF push_head, At, Goto
  <1>14. ASSUME NEW n \in Actor, thread_entry(n) PROVE ResInv'
    BY <1>14
       DEF thread_entry
  <1>15. ASSUME NEW n \in Actor, SpuriousWakeup(n) PROVE ResInv'
    BY <1>15
       DEF SpuriousWakeup
  <1>16. CASE set_exit_flag
    BY <1>16
       DEF set_exit_flag, At, Goto
  <1>17. CASE shutdown_broadcast
    BY <1>17
       DEF shutdown_broadcast, At, Goto
  <1>18. CASE join_actor
    BY <1>18
       DEF join_actor
  <1>19. CASE thread_release
    <2>1. /\ pc[Main] = "join" /\ pc'[Main] = "gc_shutdown"
          /\ res' = [r \in Resource |-> IF r \in {"m_thread_key", "m_thread_lock", "thread_active_cond"} THEN "down" ELSE res[r]]
      BY <1>0, <1>19 DEF thread_release, At, Goto, SetRes
    <2>2. QED
      BY <2>1
  <1>20. CASE gc_obj_shutdown
    BY <1>20
       DEF gc_obj_shutdown, At, Goto
  <1>21. CASE gc_release
    <2>1. /\ pc[Main] = "gc_release" /\ pc'[Main] = "log_shutdown"
          /\ res' = [r \in Resource |-> IF r \in {"heap", "m_gc_lock"} THEN "down" ELSE res[r]]
      BY <1>0, <1>21 DEF gc_release, At, Goto, SetRes
    <2>2. QED
      BY <2>1
  <1>22. CASE m_log_shutdown
    <2>1. pc'[Main] = "exit"
      BY <1>0, <1>22 DEF m_log_shutdown, At, Goto
    <2>2. QED
      BY <2>1
  <1>23. CASE process_exit
    BY <1>23
       DEF process_exit, At, Goto
  <1>24. CASE UNCHANGED vars
    BY <1>24 DEF vars, logVars, actorVars, listVars
  <1>25. QED
    BY <1>1, <1>2, <1>3, <1>4, <1>5, <1>6, <1>7, <1>8, <1>9, <1>10, <1>11, <1>12, <1>13,
       <1>14, <1>15, <1>16, <1>17, <1>18, <1>19, <1>20, <1>21, <1>22, <1>23, <1>24
       DEF Next, Startup, Shutdown

\* A worker that has ended is not inside m_log.
LEMMA NextLog ==
  ASSUME Creators = {Main}, Stragglers = {}, LifeType, OrderInv, LogInv, [Next]_vars
  PROVE  LogInv'
  <1> USE LifecycleAssumption DEF LifeType, OrderInv, LogInv, Starting, Running, Stopping, Stopped
  <1>0. Main \in Thread /\ Main \notin Worker /\ Thread = Worker \cup {Main} /\ Null \notin Thread
    BY DEF Thread
  <1>1. ASSUME NEW t \in Thread, m_startup(t) PROVE LogInv'
    <2>1. logging[t] = "no" /\ UNCHANGED <<logging, log_holder>>
      BY <1>1 DEF m_startup, At, logVars
    <2>2. \A u \in Thread : u # t => pc'[u] = pc[u]
      BY <1>1 DEF m_startup, Goto
    <2>3. QED
      BY <1>0, <2>1, <2>2
  <1>2. ASSUME NEW t \in Thread, m_log_startup(t) PROVE LogInv'
    BY <1>2, WhoActs
       DEF m_log_startup, At, Goto, Called
  <1>3. ASSUME NEW t \in Thread, m_gc_startup(t) PROVE LogInv'
    BY <1>3, WhoActs
       DEF m_gc_startup, At, Goto, m_log, Called
  <1>4. ASSUME NEW t \in Thread, m_thread_startup(t) PROVE LogInv'
    BY <1>4, WhoActs
       DEF m_thread_startup, At, Goto, logVars
  <1>5. ASSUME NEW t \in Thread, startup_end(t) PROVE LogInv'
    BY <1>5, WhoActs
       DEF startup_end, At, Goto, logVars
  <1>6. ASSUME NEW t \in Thread, log_begin(t) PROVE LogInv'
    BY <1>6, WhoActs
       DEF log_begin
  <1>7. ASSUME NEW t \in Thread, log_end(t) PROVE LogInv'
    BY <1>7, WhoActs
       DEF log_end
  <1>8. ASSUME NEW t \in Thread, app_log(t) PROVE LogInv'
    BY <1>8, WhoActs
       DEF app_log, At, Goto, m_log, Called
  <1>9. ASSUME NEW t \in Thread, app_gc(t) PROVE LogInv'
    BY <1>9, WhoActs
       DEF app_gc, At, Goto, logVars
  <1>10. ASSUME NEW t \in Thread, app_end(t) PROVE LogInv'
    <2>1. logging[t] = "no" /\ pc[t] = "run" /\ (t = Main => pc'[t] = "set_flag")
      BY <1>10 DEF app_end, At, Goto
    <2>2. UNCHANGED <<logging, log_holder>> /\ \A u \in Thread : u # t => pc'[u] = pc[u]
      BY <1>10 DEF app_end, Goto, logVars
    <2>3. QED
      BY <1>0, <2>1, <2>2
  <1>11. ASSUME NEW t \in Thread, m_thread_create(t) PROVE LogInv'
    <2>1. t = Main /\ pc[t] = "run" /\ pc' \in {pc, [pc EXCEPT ![t] = "push"]} /\ UNCHANGED <<once, logging, log_holder>>
      BY <1>11 DEF m_thread_create, At, Goto, logVars
    <2>2. CASE pc' = pc
      BY <2>1, <2>2
    <2>3. CASE pc' = [pc EXCEPT ![t] = "push"]
      BY <1>0, <2>1, <2>3
    <2>4. QED
      BY <2>1, <2>2, <2>3
  <1>12. ASSUME NEW t \in Thread, push_next(t) PROVE LogInv'
    BY <1>12, WhoActs
       DEF push_next, At, Goto, logVars
  <1>13. ASSUME NEW t \in Thread, push_head(t) PROVE LogInv'
    BY <1>13, WhoActs
       DEF push_head, At, Goto, logVars
  <1>14. ASSUME NEW n \in Actor, thread_entry(n) PROVE LogInv'
    BY <1>14
       DEF thread_entry, logVars
  <1>15. ASSUME NEW n \in Actor, SpuriousWakeup(n) PROVE LogInv'
    BY <1>15
       DEF SpuriousWakeup, logVars
  <1>16. CASE set_exit_flag
    BY <1>16
       DEF set_exit_flag, At, Goto, logVars
  <1>17. CASE shutdown_broadcast
    BY <1>17
       DEF shutdown_broadcast, At, Goto, logVars
  <1>18. CASE join_actor
    BY <1>18
       DEF join_actor, At, Goto, logVars
  <1>19. CASE thread_release
    BY <1>19
       DEF thread_release, At, Goto, logVars
  <1>20. CASE gc_obj_shutdown
    BY <1>20
       DEF gc_obj_shutdown, At, Goto, m_log, Called
  <1>21. CASE gc_release
    BY <1>21
       DEF gc_release, At, Goto, m_log, Called
  <1>22. CASE m_log_shutdown
    BY <1>22
       DEF m_log_shutdown, At, Goto, logVars
  <1>23. CASE process_exit
    BY <1>23
       DEF process_exit, At, Goto, logVars
  <1>24. CASE UNCHANGED vars
    BY <1>24 DEF vars, logVars, actorVars, listVars
  <1>25. QED
    BY <1>1, <1>2, <1>3, <1>4, <1>5, <1>6, <1>7, <1>8, <1>9, <1>10, <1>11, <1>12, <1>13,
       <1>14, <1>15, <1>16, <1>17, <1>18, <1>19, <1>20, <1>21, <1>22, <1>23, <1>24
       DEF Next, Startup, Shutdown

\* Nobody sleeps after the broadcast.
LEMMA NextFlag ==
  ASSUME Creators = {Main}, Stragglers = {}, LifeType, OrderInv, FlagInv, [Next]_vars
  PROVE  FlagInv'
  <1> USE LifecycleAssumption DEF LifeType, OrderInv, FlagInv, Starting, Running, Stopping, Stopped, Joined
  <1>0. Main \in Thread /\ Main \notin Worker /\ Thread = Worker \cup {Main} /\ Null \notin Thread
    BY DEF Thread
  <1>1. ASSUME NEW t \in Thread, m_startup(t) PROVE FlagInv'
    BY <1>1, WhoActs
       DEF m_startup, At, Goto, actorVars
  <1>2. ASSUME NEW t \in Thread, m_log_startup(t) PROVE FlagInv'
    BY <1>2, WhoActs
       DEF m_log_startup, At, Goto, actorVars
  <1>3. ASSUME NEW t \in Thread, m_gc_startup(t) PROVE FlagInv'
    BY <1>3, WhoActs
       DEF m_gc_startup, At, Goto, actorVars
  <1>4. ASSUME NEW t \in Thread, m_thread_startup(t) PROVE FlagInv'
    BY <1>4, WhoActs
       DEF m_thread_startup, At, Goto
  <1>5. ASSUME NEW t \in Thread, startup_end(t) PROVE FlagInv'
    BY <1>5, WhoActs
       DEF startup_end, At, Goto, actorVars
  <1>6. ASSUME NEW t \in Thread, log_begin(t) PROVE FlagInv'
    BY <1>6, WhoActs
       DEF log_begin, actorVars
  <1>7. ASSUME NEW t \in Thread, log_end(t) PROVE FlagInv'
    BY <1>7, WhoActs
       DEF log_end, actorVars
  <1>8. ASSUME NEW t \in Thread, app_log(t) PROVE FlagInv'
    BY <1>8, WhoActs
       DEF app_log, At, Goto, actorVars
  <1>9. ASSUME NEW t \in Thread, app_gc(t) PROVE FlagInv'
    BY <1>9, WhoActs
       DEF app_gc, At, Goto, actorVars
  <1>10. ASSUME NEW t \in Thread, app_end(t) PROVE FlagInv'
    BY <1>10, WhoActs
       DEF app_end, At, Goto, actorVars
  <1>11. ASSUME NEW t \in Thread, m_thread_create(t) PROVE FlagInv'
    BY <1>11, WhoActs
       DEF m_thread_create, At, Goto
  <1>12. ASSUME NEW t \in Thread, push_next(t) PROVE FlagInv'
    BY <1>12, WhoActs
       DEF push_next, At, Goto, actorVars
  <1>13. ASSUME NEW t \in Thread, push_head(t) PROVE FlagInv'
    BY <1>13, WhoActs
       DEF push_head, At, Goto, actorVars
  <1>14. ASSUME NEW n \in Actor, thread_entry(n) PROVE FlagInv'
    BY <1>14
       DEF thread_entry
  <1>15. ASSUME NEW n \in Actor, SpuriousWakeup(n) PROVE FlagInv'
    BY <1>15
       DEF SpuriousWakeup
  <1>16. CASE set_exit_flag
    <2>1. thread_exit_flag' = TRUE /\ pc'[Main] = "broadcast"
      BY <1>0, <1>16 DEF set_exit_flag, At, Goto
    <2>2. QED
      BY <2>1
  <1>17. CASE shutdown_broadcast
    BY <1>17
       DEF shutdown_broadcast, At, Goto
  <1>18. CASE join_actor
    BY <1>18
       DEF join_actor, At, Goto, actorVars
  <1>19. CASE thread_release
    BY <1>19
       DEF thread_release, At, Goto, actorVars
  <1>20. CASE gc_obj_shutdown
    BY <1>20
       DEF gc_obj_shutdown, At, Goto, actorVars
  <1>21. CASE gc_release
    BY <1>21
       DEF gc_release, At, Goto, actorVars
  <1>22. CASE m_log_shutdown
    BY <1>22
       DEF m_log_shutdown, At, Goto, actorVars
  <1>23. CASE process_exit
    BY <1>23
       DEF process_exit, At, Goto, actorVars
  <1>24. CASE UNCHANGED vars
    BY <1>24 DEF vars, logVars, actorVars, listVars
  <1>25. QED
    BY <1>1, <1>2, <1>3, <1>4, <1>5, <1>6, <1>7, <1>8, <1>9, <1>10, <1>11, <1>12, <1>13,
       <1>14, <1>15, <1>16, <1>17, <1>18, <1>19, <1>20, <1>21, <1>22, <1>23, <1>24
       DEF Next, Startup, Shutdown

-----------------------------------------------------------------------------
\* The list links the actors that have been pushed, and the loop of
\* m_thread_shutdown walks over the ones that have not been joined.
LEMMA NextList ==
  ASSUME Creators = {Main}, Stragglers = {}, LifeType, OrderInv, FlagInv, ListInv, [Next]_vars
  PROVE  ListInv'
  <1> USE LifecycleAssumption
  <1>0. /\ Main \in Thread /\ Thread = Worker \cup {Main} /\ Null \notin Actor \cup {Head} /\ Head \notin Actor
        /\ Main \notin Worker
    BY DEF Thread
  <1> DEFINE l == actor_thread_list
  <1>1. ASSUME UNCHANGED <<actor, listVars>>,
               \/ pc'[Main] = pc[Main]
               \/ /\ pc[Main] \in {"begin"} \cup Starting
                  /\ pc'[Main] \in Starting \cup {"run"}
               \/ pc[Main] = "run" /\ pc'[Main] = "set_flag"
               \/ pc[Main] = "set_flag" /\ pc'[Main] = "broadcast"
               \/ pc[Main] \in Stopped /\ pc'[Main] \in Stopped
        PROVE  ListInv'
    <2>1. Created' = Created /\ Pushed' = Pushed /\ Unjoined' = Unjoined
      BY <1>1 DEF Created, Pushed, Unjoined, listVars
    <2>2. QED
      BY <1>1, <2>1 DEF ListInv, listVars, Starting, Stopped, Joined
  <1>2. ASSUME NEW t \in Thread, m_startup(t) PROVE ListInv'
    <2>1. UNCHANGED <<actor, listVars>>
      BY <1>2 DEF m_startup, actorVars
    <2>2. pc'[Main] = pc[Main] \/ (pc[Main] = "begin" /\ pc'[Main] = "log_startup")
      BY <1>0, <1>2 DEF m_startup, At, Goto, OrderInv, LifeType
    <2>3. QED
      BY <1>1, <2>1, <2>2 DEF Starting
  <1>3. ASSUME NEW t \in Thread, m_log_startup(t) \/ m_gc_startup(t) \/ startup_end(t) PROVE ListInv'
    <2>1. UNCHANGED <<actor, listVars>>
      BY <1>3 DEF m_log_startup, m_gc_startup, startup_end, actorVars
    <2>2. t = Main /\ pc[Main] \in Starting /\ pc'[Main] \in Starting \cup {"run"}
      BY <1>0, <1>3, WhoActs DEF m_log_startup, m_gc_startup, startup_end, At, Goto, Starting, LifeType
    <2>3. QED
      BY <1>1, <2>1, <2>2
  <1>4. ASSUME NEW t \in Thread, m_thread_startup(t) PROVE ListInv'
    <2>1. /\ t = Main /\ pc[Main] = "thread_startup" /\ pc'[Main] = "atexit"
          /\ l' = [l EXCEPT ![Head] = Null]
          /\ UNCHANGED <<actor, freed, new, node, nnode>>
      BY <1>0, <1>4, WhoActs DEF m_thread_startup, At, Goto, LifeType, Starting
    <2>2. Created = {}
      BY <2>1 DEF ListInv, Starting
    <2>3. Created' = {} /\ Pushed' = {} /\ l'[Head] = Null
      BY <2>1, <2>2 DEF Created, Pushed, LifeType
    <2>4. Chained(l', l'[Head], Pushed')
      BY <2>3, ChainEmpty
    <2>5. QED
      BY <2>1, <2>3, <2>4 DEF ListInv, Starting, Stopped, Joined
  <1>5. ASSUME NEW t \in Thread, log_begin(t) \/ log_end(t) \/ app_log(t) \/ app_gc(t) PROVE ListInv'
    BY <1>1, <1>5 DEF log_begin, log_end, app_log, app_gc, actorVars
  <1>6. ASSUME NEW t \in Thread, app_end(t) PROVE ListInv'
    <2>1. UNCHANGED <<actor, listVars>>
      BY <1>6 DEF app_end, actorVars
    <2>2. pc'[Main] = pc[Main] \/ (pc[Main] = "run" /\ pc'[Main] = "set_flag")
      BY <1>0, <1>6 DEF app_end, At, Goto, LifeType
    <2>3. QED
      BY <1>1, <2>1, <2>2
  <1>7. ASSUME NEW t \in Thread, m_thread_create(t) PROVE ListInv'
    <2>1. PICK n \in Actor :
            /\ actor[n] = "none" /\ n \notin freed
            /\ \/ /\ actor' = [actor EXCEPT ![n] = "start"]
                  /\ new' = [new EXCEPT ![t] = n]
                  /\ pc' = [pc EXCEPT ![t] = "push"]
                  /\ UNCHANGED freed
               \/ /\ freed' = freed \cup {n}
                  /\ UNCHANGED <<actor, new, pc>>
      BY <1>7 DEF m_thread_create, Goto
    <2>2. t = Main /\ pc[Main] = "run" /\ UNCHANGED <<l, node, nnode>>
      BY <1>7 DEF m_thread_create, At
    <2>3. new[Main] = Null /\ Chained(l, l[Head], Pushed) /\ Main \in Thread
      BY <1>0, <2>2 DEF ListInv, Stopped, Joined
    <2>4. CASE UNCHANGED freed /\ actor' = [actor EXCEPT ![n] = "start"]
               /\ new' = [new EXCEPT ![t] = n] /\ pc' = [pc EXCEPT ![t] = "push"]
      <3>1. pc'[Main] = "push" /\ new'[Main] = n /\ actor'[n] = "start"
        BY <1>0, <2>2, <2>4 DEF LifeType
      <3>2. Pushed' = Pushed
        BY <1>0, <2>1, <2>3, <2>4, <3>1 DEF Pushed, LifeType
      <3>3. \A m \in freed' : actor'[m] = "none" \/ (actor'[m] = "exited" /\ pc'[Main] \in Joined)
        BY <2>1, <2>2, <2>4 DEF ListInv, LifeType, Stopped, Joined
      <3>4. QED
        BY <2>2, <2>3, <3>1, <3>2, <3>3 DEF ListInv, Starting, Stopped, Joined
    <2>5. CASE freed' = freed \cup {n} /\ UNCHANGED <<actor, new, pc>>
      <3>1. Pushed' = Pushed /\ Created' = Created
        BY <2>5 DEF Pushed, Created
      <3>2. \A m \in freed' : actor'[m] = "none" \/ (actor'[m] = "exited" /\ pc'[Main] \in Joined)
        BY <2>1, <2>5 DEF ListInv
      <3>3. QED
        BY <2>2, <2>3, <2>5, <3>1, <3>2 DEF ListInv, Starting, Stopped, Joined
    <2>6. QED
      BY <2>1, <2>4, <2>5
  <1>8. ASSUME NEW t \in Thread, push_next(t) PROVE ListInv'
    <2>1. /\ t = Main /\ pc[Main] = "push" /\ pc'[Main] = "push_head"
          /\ l' = [l EXCEPT ![new[Main]] = l[Head]]
          /\ UNCHANGED <<actor, freed, new, node, nnode>>
      BY <1>0, <1>8, WhoActs DEF push_next, At, Goto, LifeType, actorVars
    <2>2. new[Main] \in Actor /\ new[Main] \notin Pushed /\ Pushed' = Pushed
      BY <2>1 DEF ListInv, Pushed
    <2>3. Chained(l, l[Head], Pushed)
      BY <2>1 DEF ListInv, Stopped, Joined
    <2>4. l'[new[Main]] = l[Head] /\ l'[Head] = l[Head] /\ \A n \in Pushed : l'[n] = l[n]
      BY <1>0, <2>1, <2>2 DEF LifeType, Pushed
    <2>5. Chained(l', l[Head], Pushed)
      BY <2>3, <2>4, ChainFrame
    <2>6. QED
      BY <2>1, <2>2, <2>4, <2>5 DEF ListInv, Starting, Stopped, Joined
  <1>9. ASSUME NEW t \in Thread, push_head(t) PROVE ListInv'
    <2>1. /\ t = Main /\ pc[Main] = "push_head" /\ pc'[Main] = "run"
          /\ l' = [l EXCEPT ![Head] = new[Main]]
          /\ new'[Main] = Null
          /\ UNCHANGED <<actor, freed, node, nnode>>
      BY <1>0, <1>9, WhoActs DEF push_head, At, Goto, LifeType, actorVars
    <2>2. PICK n \in Actor : n = new[Main]
      BY <2>1 DEF ListInv
    <2>3. n \notin Pushed /\ actor[n] # "none" /\ l[n] = l[Head] /\ Chained(l, l[Head], Pushed)
      BY <2>1, <2>2 DEF ListInv, Pushed, Stopped, Joined
    <2>4. Pushed' = Pushed \cup {n}
      BY <1>0, <2>1, <2>2, <2>3 DEF Pushed
    <2>5. Chained(l, n, Pushed \cup {n})
      BY <2>2, <2>3, ChainPush
    <2>6. l'[Head] = n /\ \A m \in Pushed \cup {n} : l'[m] = l[m]
      BY <1>0, <2>1, <2>2 DEF LifeType, Pushed
    <2>7. Chained(l', n, Pushed \cup {n})
      BY <2>5, <2>6, ChainFrame
    <2>8. QED
      BY <2>1, <2>4, <2>6, <2>7 DEF ListInv, Starting, Stopped, Joined
  <1>10. ASSUME NEW n \in Actor, thread_entry(n) PROVE ListInv'
    <2>1. /\ actor[n] \in {"start", "wait"} /\ UNCHANGED <<pc, listVars>>
          /\ actor' = [actor EXCEPT ![n] = IF thread_exit_flag THEN "exited" ELSE "wait"]
      BY <1>10 DEF thread_entry
    <2>2. \A m \in Actor : (actor'[m] = "none" <=> actor[m] = "none") /\ (m # n => actor'[m] = actor[m])
      BY <2>1 DEF LifeType
    <2>3. Created' = Created /\ Pushed' = Pushed /\ Unjoined' = Unjoined
      BY <2>1, <2>2 DEF Created, Pushed, Unjoined, listVars
    <2>4. n \notin freed
      BY <2>1 DEF ListInv
    <2>5. \A m \in freed' : actor'[m] = "none" \/ (actor'[m] = "exited" /\ pc'[Main] \in Joined)
      BY <2>1, <2>2, <2>4 DEF ListInv, listVars, LifeType
    <2>6. pc'[Main] \in {"push", "push_head"} => actor'[new'[Main]] # "none"
      BY <2>1, <2>2 DEF ListInv, listVars
    <2>7. QED
      BY <2>1, <2>3, <2>5, <2>6 DEF ListInv, listVars
  <1>11. ASSUME NEW n \in Actor, SpuriousWakeup(n) PROVE ListInv'
    BY <1>1, <1>11 DEF SpuriousWakeup
  <1>12. CASE set_exit_flag
    BY <1>0, <1>1, <1>12 DEF set_exit_flag, At, Goto, LifeType
  <1>13. CASE shutdown_broadcast
    <2>1. /\ pc[Main] = "broadcast" /\ pc'[Main] = "join"
          /\ node' = l[Head] /\ nnode' = IF node' = Null THEN Null ELSE l[node']
          /\ UNCHANGED <<actor, l, freed, new>>
      BY <1>0, <1>13 DEF shutdown_broadcast, At, Goto, LifeType
    <2>2. new[Main] = Null /\ Chained(l, l[Head], Pushed) /\ \A n \in freed : actor[n] = "none"
      BY <2>1 DEF ListInv, Stopped, Joined
    <2>3. Unjoined' = Pushed
      BY <1>0, <2>1, <2>2 DEF Unjoined, Pushed
    <2>4. QED
      BY <2>1, <2>2, <2>3 DEF ListInv, Starting, Stopped, Joined
  <1>14. CASE join_actor
    <2>1. /\ pc[Main] = "join" /\ pc'[Main] = "join" /\ node # Null /\ actor[node] = "exited"
          /\ freed' = freed \cup {node}
          /\ node' = nnode
          /\ nnode' = IF nnode = Null THEN Null ELSE l[nnode]
          /\ UNCHANGED <<actor, l, new>>
      BY <1>14 DEF join_actor, At, actorVars
    <2>2. Chained(l, node, Unjoined) /\ nnode = l[node]
      BY <2>1 DEF ListInv
    <2>3. Chained(l, nnode, Unjoined \ {node})
      BY <2>1, <2>2, ChainPop
    <2>4. Unjoined' = Unjoined \ {node}
      BY <2>1 DEF Unjoined
    <2>5. \A n \in freed' : actor'[n] = "none" \/ (actor'[n] = "exited" /\ pc'[Main] \in Joined)
      BY <2>1 DEF ListInv, Joined
    <2>6. QED
      BY <2>1, <2>3, <2>4, <2>5 DEF ListInv, Starting, Stopped, Joined
  <1>15. CASE thread_release
    <2>1. /\ pc[Main] = "join" /\ pc'[Main] = "gc_shutdown" /\ node = Null
          /\ UNCHANGED <<actor, listVars>>
      BY <1>0, <1>15 DEF thread_release, At, Goto, LifeType, actorVars
    <2>2. Chained(l, Null, Unjoined) /\ Null \notin Unjoined
      BY <1>0, <2>1 DEF ListInv, Unjoined
    <2>3. Unjoined = {}
      BY <2>2, ChainNone
    <2>4. Unjoined' = {}
      BY <2>1, <2>3 DEF Unjoined, listVars
    <2>5. QED
      BY <2>1, <2>4 DEF ListInv, listVars, Starting, Stopped, Joined
  <1>16. CASE gc_obj_shutdown \/ gc_release \/ m_log_shutdown \/ process_exit
    <2>1. UNCHANGED <<actor, listVars>>
      BY <1>16 DEF gc_obj_shutdown, gc_release, m_log_shutdown, process_exit, actorVars
    <2>2. pc[Main] \in Stopped /\ pc'[Main] \in Stopped
      BY <1>0, <1>16 DEF gc_obj_shutdown, gc_release, m_log_shutdown, process_exit, At, Goto, LifeType, Stopped
    <2>3. QED
      BY <1>1, <2>1, <2>2
  <1>17. CASE UNCHANGED vars
    BY <1>1, <1>17 DEF vars, actorVars
  <1>18. QED
    BY <1>2, <1>3, <1>4, <1>5, <1>6, <1>7, <1>8, <1>9, <1>10, <1>11, <1>12, <1>13, <1>14, <1>15,
       <1>16, <1>17 DEF Next, Startup, Shutdown

\* Nothing is used that is not up.
LEMMA NextMisused ==
  ASSUME Creators = {Main}, Stragglers = {}, LifeInv, [Next]_vars
  PROVE  misused' = {}
  <1> USE LifecycleAssumption
  <1>0. /\ Main \in Thread /\ Thread = Worker \cup {Main} /\ Null \notin Thread /\ misused = {}
        /\ LifeType /\ ResInv /\ OrderInv /\ LogInv /\ FlagInv /\ ListInv
    BY DEF Thread, LifeInv
  <1>1. ASSUME misused' = misused PROVE misused' = {}
    BY <1>0, <1>1
  <1>2. ASSUME NEW used, Use(used), used \subseteq Needed(pc[Main]) PROVE misused' = {}
    BY <1>0, <1>2 DEF Use, ResInv
  <1>3. ASSUME NEW t \in Thread, log_begin(t) \/ log_end(t) PROVE misused' = {}
    <2>1. logging[t] # "no" /\ Use({"lock", "log_fp"})
      BY <1>3 DEF log_begin, log_end
    <2>2. pc[Main] \notin {"begin", "log_startup", "exit", "exited"}
      <3>1. CASE t = Main
        BY <1>0, <2>1, <3>1 DEF LogInv
      <3>2. CASE t \in Worker
        BY <1>0, <2>1, <3>2 DEF LogInv, OrderInv, Running, Stopping, Stopped
      <3>3. QED
        BY <1>0, <3>1, <3>2
    <2>3. {"lock", "log_fp"} \subseteq Needed(pc[Main])
      BY <2>2 DEF Needed
    <2>4. QED
      BY <1>2, <2>1, <2>3
  <1>4. ASSUME NEW t \in Thread, m_thread_startup(t) PROVE misused' = {}
    <2>1. t = Main /\ pc[Main] = "thread_startup"
      BY <1>0, <1>4, WhoActs DEF m_thread_startup, At, Starting
    <2>2. res["m_gc_lock"] = "up"
      BY <1>0, <2>1 DEF ResInv, Needed
    <2>3. QED
      BY <1>0, <1>4, <2>2 DEF m_thread_startup
  <1>5. ASSUME NEW t \in Thread, app_gc(t) PROVE misused' = {}
    <2>1. pc[t] = "run" /\ Use({"m_thread_key", "m_gc_lock", "heap"})
      BY <1>5 DEF app_gc, At
    <2>2. pc[Main] \in Running \cup Stopping
      <3>1. CASE t = Main
        BY <2>1, <3>1 DEF Running
      <3>2. CASE t \in Worker
        BY <1>0, <2>1, <3>2 DEF OrderInv
      <3>3. QED
        BY <1>0, <3>1, <3>2
    <2>3. {"m_thread_key", "m_gc_lock", "heap"} \subseteq Needed(pc[Main])
      BY <2>2 DEF Needed
    <2>4. QED
      BY <1>2, <2>1, <2>3
  <1>6. ASSUME NEW n \in Actor, thread_entry(n) PROVE misused' = {}
    <2> DEFINE used == {"m_thread_lock"} \cup (IF thread_exit_flag THEN {} ELSE {"thread_active_cond"})
    <2>1. Use(used) /\ actor[n] \in {"start", "wait"}
      BY <1>6 DEF thread_entry
    <2>2. n \in Created /\ n \in Unjoined
      BY <1>0, <2>1 DEF Created, Unjoined, ListInv
    <2>3. pc[Main] \in Running \cup Stopping
      BY <1>0, <2>2 DEF ListInv, LifeType, OrderInv
    <2>4. used \subseteq Needed(pc[Main])
      BY <2>3 DEF Needed
    <2> HIDE DEF used
    <2>5. QED
      BY <1>2, <2>1, <2>4
  <1>7. CASE set_exit_flag \/ shutdown_broadcast
    <2>1. pc[Main] \in Stopping /\ (Use({"m_thread_lock"}) \/ Use({"thread_active_cond"}))
      BY <1>7 DEF set_exit_flag, shutdown_broadcast, At, Stopping
    <2>2. {"m_thread_lock", "thread_active_cond"} \subseteq Needed(pc[Main])
      BY <2>1 DEF Needed
    <2>3. QED
      BY <1>2, <2>1, <2>2
  <1>8. CASE join_actor
    <2>1. /\ pc[Main] = "join" /\ node # Null
          /\ misused' = misused \cup (IF nnode \in freed \cup {node} THEN {"node"} ELSE {})
      BY <1>8 DEF join_actor, At
    <2>2. Chained(actor_thread_list, node, Unjoined) /\ nnode = actor_thread_list[node]
      BY <1>0, <2>1 DEF ListInv
    <2>3. nnode \in (Unjoined \ {node}) \cup {Null}
      BY <2>1, <2>2, ChainPop
    <2>4. nnode \notin freed \cup {node}
      BY <1>0, <2>1, <2>3 DEF Unjoined, LifeType
    <2>5. QED
      BY <1>0, <2>1, <2>4
  <1>9. CASE thread_release
    <2>1. pc[Main] = "join"
      BY <1>9 DEF thread_release, At
    <2>2. waiters = {} /\ res["m_thread_key"] = "up" /\ res["m_gc_lock"] = "up"
      BY <1>0, <2>1 DEF FlagInv, Joined, ResInv, Needed, Stopping
    <2>3. QED
      BY <1>0, <1>9, <2>2 DEF thread_release
  <1>10. CASE gc_release
    <2>1. pc[Main] = "gc_release" /\ Use({"heap", "m_gc_lock"})
      BY <1>10 DEF gc_release, At
    <2>2. {"heap", "m_gc_lock"} \subseteq Needed(pc[Main])
      BY <2>1 DEF Needed
    <2>3. QED
      BY <1>2, <2>1, <2>2
  <1>11. CASE m_log_shutdown
    <2>1. pc[Main] = "log_shutdown" /\ logging[Main] = "no"
      BY <1>11 DEF m_log_shutdown, At
    <2>2. \A t \in Thread : logging[t] = "no"
      BY <1>0, <2>1 DEF OrderInv, LogInv, Stopped
    <2>3. log_holder = Null
      BY <1>0, <2>2 DEF LogInv, LifeType
    <2>4. QED
      BY <1>0, <1>11, <2>3 DEF m_log_shutdown
  <1>12. ASSUME NEW t \in Thread,
                \/ m_startup(t) \/ m_log_startup(t) \/ m_gc_startup(t) \/ startup_end(t)
                \/ app_log(t) \/ app_end(t) \/ m_thread_create(t) \/ push_next(t) \/ push_head(t)
         PROVE  misused' = {}
    BY <1>1, <1>12 DEF m_startup, m_log_startup, m_gc_startup, startup_end, app_log, app_end,
       m_thread_create, push_next, push_head
  <1>13. CASE gc_obj_shutdown \/ process_exit \/ UNCHANGED vars
    BY <1>1, <1>13 DEF gc_obj_shutdown, process_exit, vars
  <1>14. ASSUME NEW n \in Actor, SpuriousWakeup(n) PROVE misused' = {}
    BY <1>1, <1>14 DEF SpuriousWakeup
  <1>15. QED
    BY <1>3, <1>4, <1>5, <1>6, <1>7, <1>8, <1>9, <1>10, <1>11, <1>12, <1>13, <1>14
       DEF Next, Startup, Shutdown

\* Every step of startup, work and shutdown keeps it.
LEMMA NextLife ==
  ASSUME Creators = {Main}, Stragglers = {}
  PROVE  LifeInv /\ [Next]_vars => LifeInv'
  <1> SUFFICES ASSUME LifeInv, [Next]_vars PROVE LifeInv'
    OBVIOUS
  <1>1. LifeType /\ ResInv /\ OrderInv /\ LogInv /\ FlagInv /\ ListInv
    BY DEF LifeInv
  <1>2. LifeType'
    BY <1>1, NextLifeType
  <1>3. OrderInv' /\ ResInv' /\ LogInv' /\ FlagInv'
    BY <1>1, NextOrder, NextRes, NextLog, NextFlag
  <1>4. ListInv'
    BY <1>1, NextList
  <1>5. QED
    BY <1>2, <1>3, <1>4, NextMisused DEF LifeInv

\* No lock, condition variable, log file, key, heap or list node is used before
\* it is created or after it is destroyed, with any number of workers and
\* actors, when Main alone creates actors and outlives the workers.
THEOREM NothingUsedDead ==
  ASSUME Creators = {Main}, Stragglers = {}
  PROVE  Spec => []NoDeadObjectUsed
  <1>1. LifeInv => NoDeadObjectUsed
    BY DEF LifeInv, NoDeadObjectUsed
  <1>2. LifeInv /\ [Next]_vars => LifeInv'
    BY NextLife
  <1>3. QED
    BY <1>1, <1>2, InitLife, PTL DEF Spec

\* Under the same conditions m_thread_shutdown has joined every actor and freed
\* its node before it destroys what the actors use.
THEOREM ActorsJoined ==
  ASSUME Creators = {Main}, Stragglers = {}
  PROVE  Spec => []AllThreadsStopped
  <1>1. LifeInv => AllThreadsStopped
    BY DEF LifeInv, ListInv, AllThreadsStopped, Stopped, Unjoined
  <1>2. LifeInv /\ [Next]_vars => LifeInv'
    BY NextLife
  <1>3. QED
    BY <1>1, <1>2, InitLife, PTL DEF Spec
=============================================================================
