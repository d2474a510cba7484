----------------------------- MODULE Lifecycle -----------------------------
(***************************************************************************)
(* The life of the library in a process: m_startup and the shutdown it     *)
(* registers with atexit (src/m_startup.c, src/m_gc.c), the log            *)
(* (src/m_log.c), and the actor threads (m_thread_create, thread_entry and *)
(* m_thread_shutdown of src/m_thread.c).                                   *)
(*                                                                         *)
(* Main calls m_startup first and later returns from main, which runs the  *)
(* shutdown.  Workers are threads of the application.  An actor is named   *)
(* by its ActorThread node.  The locks, the condition variable, the log    *)
(* file, the key and the heap are resources that are none, up or down;     *)
(* misused collects those a call used while they were not up.              *)
(***************************************************************************)
EXTENDS Naturals, FiniteSets

CONSTANTS
  Main,
  Worker,       \* application threads
  Creators,     \* threads that call m_thread_create
  Stragglers,   \* workers still running when Main returns from main
  Actor,        \* the ActorThread nodes that may be allocated, each once
  Head,         \* the head actor_thread_list
  Null,
  LogOpens,     \* outcomes of opening M_LOG_FILE: a subset of {"file", "stdout"}
  LogEnv        \* values of M_LOG_LEVEL: names of levels, "unset", "other"

\* M_LogLevel, and what m_log_startup makes of M_LOG_LEVEL.
LevelOf == [ALL |-> 0, DEBUG |-> 1, INFO |-> 2, WARNING |-> 3, ERROR |-> 4, FATAL |-> 5,
            NONE |-> 6, unset |-> 6, other |-> 0]

ASSUME LifecycleAssumption ==
  /\ Main \notin Worker
  /\ Creators \subseteq Worker \cup {Main} /\ Stragglers \subseteq Worker
  /\ Head \notin Actor /\ Null \notin Actor \cup {Head} \cup Worker \cup {Main}
  /\ LogOpens \subseteq {"file", "stdout"} /\ LogOpens # {}
  /\ LogEnv \subseteq DOMAIN LevelOf /\ LogEnv # {}

Thread == Worker \cup {Main}
Resource == {"lock", "log_fp", "m_gc_lock", "heap", "m_thread_key", "m_thread_lock",
             "thread_active_cond"}

VARIABLES
  pc,                 \* where each thread is
  once,               \* pthread_once: "init", "running", "done"
  res,                \* status of the resources
  log_file,           \* what log_fp refers to: "file", "stdout"
  log_level,
  misused,            \* resources used while they were not up, "node" if freed
  logging,            \* the m_log call of each thread: "no", "call", "locked"
  log_holder,         \* owner of the log's lock
  thread_exit_flag,
  waiters,            \* actors blocked on thread_active_cond
  actor,              \* actor threads: "none", "start", "wait", "exited"
  actor_thread_list,  \* links
  freed,              \* ActorThread nodes that were freed
  new,                \* the node each thread is about to push, or Null
  node, nnode         \* m_thread_shutdown's loop variables

logVars   == <<logging, log_holder, log_file, log_level>>
actorVars == <<thread_exit_flag, waiters, actor>>
listVars  == <<actor_thread_list, freed, new, node, nnode>>
vars == <<pc, once, res, misused, logVars, actorVars, listVars>>

Goto(t, where) == pc' = [pc EXCEPT ![t] = where]

\* The resources a call needs; the process ends with Main's last step.
Use(used) == misused' = misused \cup {r \in used : res[r] # "up"}
SetRes(rs, status) == res' = [r \in Resource |-> IF r \in rs THEN status ELSE res[r]]
Alive == pc[Main] # "exited"

\* A thread that is in the middle of m_log finishes it first.
At(t, where) == Alive /\ pc[t] = where /\ logging[t] = "no"
-----------------------------------------------------------------------------
(***************************************************************************)
(* m_log.                                                                  *)
(***************************************************************************)
\* A call of m_log, which returns at once when level < log_level.
Called(t, level, threshold) ==
  [logging EXCEPT ![t] = IF LevelOf[level] < threshold THEN "no" ELSE "call"]

m_log(t, level) ==
  /\ logging' = Called(t, level, log_level)
  /\ UNCHANGED <<log_holder, log_file, log_level>>

\* The lock is taken and the fields before the message are written, ...
log_begin(t) ==
  /\ Alive /\ logging[t] = "call" /\ log_holder = Null
  /\ Use({"lock", "log_fp"})
  /\ logging' = [logging EXCEPT ![t] = "locked"]
  /\ log_holder' = t
  /\ UNCHANGED <<pc, once, res, log_file, log_level, actorVars, listVars>>

\* ... then the message and the newline, and the lock is released.
log_end(t) ==
  /\ Alive /\ logging[t] = "locked"
  /\ Use({"lock", "log_fp"})
  /\ logging' = [logging EXCEPT ![t] = "no"]
  /\ log_holder' = Null
  /\ UNCHANGED <<pc, once, res, log_file, log_level, actorVars, listVars>>
-----------------------------------------------------------------------------
(***************************************************************************)
(* Startup, by the thread that pthread_once selects.                       *)
(***************************************************************************)
\* Only Main makes the first call; a call that finds startup running waits.
m_startup(t) ==
  /\ At(t, "begin")
  /\ \/ /\ once = "init" /\ t = Main
        /\ once' = "running" /\ Goto(t, "log_startup")
     \/ /\ once = "done"
        /\ Goto(t, "run") /\ UNCHANGED once
  /\ UNCHANGED <<res, misused, logVars, actorVars, listVars>>

\* m_log_startup: stdout when there is no M_LOG_FILE or it cannot be opened;
\* then "ming startup".
m_log_startup(t) ==
  /\ At(t, "log_startup")
  /\ SetRes({"lock", "log_fp"}, "up")
  /\ log_file' \in LogOpens
  /\ \E env \in LogEnv : log_level' = LevelOf[env]
  /\ logging' = Called(t, "INFO", log_level')
  /\ Goto(t, "gc_startup")
  /\ UNCHANGED <<once, misused, log_holder, actorVars, listVars>>

\* m_gc_startup with gc_obj_startup, which logs its parameters, and
\* gc_root_hash_startup.
m_gc_startup(t) ==
  /\ At(t, "gc_startup")
  /\ SetRes({"m_gc_lock", "heap"}, "up")
  /\ m_log(t, "INFO")
  /\ Goto(t, "thread_startup")
  /\ UNCHANGED <<once, misused, actorVars, listVars>>

\* m_thread_startup: thread_register needs the key and m_gc_lock.
m_thread_startup(t) ==
  /\ At(t, "thread_startup")
  /\ SetRes({"m_thread_key", "m_thread_lock", "thread_active_cond"}, "up")
  /\ misused' = misused \cup {r \in {"m_gc_lock"} : res[r] # "up"}
  /\ thread_exit_flag' = FALSE
  /\ actor_thread_list' = [actor_thread_list EXCEPT ![Head] = Null]
  /\ Goto(t, "atexit")
  /\ UNCHANGED <<once, logVars, waiters, actor, freed, new, node, nnode>>

\* atexit(shutdown); the other callers of m_startup may go on.
startup_end(t) ==
  /\ At(t, "atexit")
  /\ once' = "done" /\ Goto(t, "run")
  /\ UNCHANGED <<res, misused, logVars, actorVars, listVars>>
-----------------------------------------------------------------------------
(***************************************************************************)
(* The application: logging, operations under m_gc_lock, actors.           *)
(***************************************************************************)
app_log(t) ==
  /\ At(t, "run") /\ log_level <= LevelOf["ERROR"]
  /\ m_log(t, "ERROR")
  /\ UNCHANGED <<pc, once, res, misused, actorVars, listVars>>

\* Any call that works on the heap: m_thread_self and m_gc_lock.
app_gc(t) ==
  /\ At(t, "run")
  /\ Use({"m_thread_key", "m_gc_lock", "heap"})
  /\ UNCHANGED <<pc, once, res, logVars, actorVars, listVars>>

\* m_thread_create reads thread_exit_flag without the lock, allocates the node
\* and creates the thread.  When pthread_create fails the node is freed.
m_thread_create(t) ==
  /\ At(t, "run") /\ t \in Creators /\ ~thread_exit_flag
  /\ \E n \in Actor :
       /\ actor[n] = "none" /\ n \notin freed
       /\ \/ /\ actor' = [actor EXCEPT ![n] = "start"]
             /\ new' = [new EXCEPT ![t] = n]
             /\ Goto(t, "push")
             /\ UNCHANGED freed
          \/ /\ freed' = freed \cup {n}
             /\ UNCHANGED <<actor, new, pc>>
  /\ UNCHANGED <<once, res, misused, logVars, thread_exit_flag, waiters,
                 actor_thread_list, node, nnode>>

\* m_slist_push in its two assignments, for no lock protects it.
push_next(t) ==
  /\ At(t, "push")
  /\ actor_thread_list' = [actor_thread_list EXCEPT ![new[t]] = actor_thread_list[Head]]
  /\ Goto(t, "push_head")
  /\ UNCHANGED <<once, res, misused, logVars, actorVars, freed, new, node, nnode>>

push_head(t) ==
  /\ At(t, "push_head")
  /\ actor_thread_list' = [actor_thread_list EXCEPT ![Head] = new[t]]
  /\ new' = [new EXCEPT ![t] = Null]
  /\ Goto(t, "run")
  /\ UNCHANGED <<once, res, misused, logVars, actorVars, freed, node, nnode>>

\* A worker ends; Main returns from main once the others have ended.
app_end(t) ==
  /\ At(t, "run")
  /\ IF t = Main
       THEN (\A w \in Worker \ Stragglers : pc[w] = "done") /\ Goto(t, "set_flag")
       ELSE Goto(t, "done")
  /\ UNCHANGED <<once, res, misused, logVars, actorVars, listVars>>
-----------------------------------------------------------------------------
(***************************************************************************)
(* thread_entry: under m_thread_lock the actor waits for thread_exit_flag. *)
(***************************************************************************)
thread_entry(n) ==
  /\ Alive /\ actor[n] \in {"start", "wait"} /\ n \notin waiters
  /\ Use({"m_thread_lock"} \cup (IF thread_exit_flag THEN {} ELSE {"thread_active_cond"}))
  /\ actor' = [actor EXCEPT ![n] = IF thread_exit_flag THEN "exited" ELSE "wait"]
  /\ waiters' = IF thread_exit_flag THEN waiters ELSE waiters \cup {n}
  /\ UNCHANGED <<pc, once, res, logVars, thread_exit_flag, listVars>>

\* A wait may return without a signal.
SpuriousWakeup(n) ==
  /\ Alive /\ n \in waiters
  /\ waiters' = waiters \ {n}
  /\ UNCHANGED <<pc, once, res, misused, logVars, thread_exit_flag, actor, listVars>>
-----------------------------------------------------------------------------
(***************************************************************************)
(* shutdown.                                                               *)
(***************************************************************************)
\* m_thread_shutdown: the flag, under m_thread_lock ...
set_exit_flag ==
  /\ At(Main, "set_flag")
  /\ Use({"m_thread_lock"})
  /\ thread_exit_flag' = TRUE
  /\ Goto(Main, "broadcast")
  /\ UNCHANGED <<once, res, logVars, waiters, actor, listVars>>

\* Mutant: a single waiter is woken.
shutdown_signal ==
  /\ At(Main, "broadcast")
  /\ Use({"thread_active_cond"})
  /\ waiters' \in IF waiters = {} THEN {{}} ELSE {waiters \ {n} : n \in waiters}
  /\ node' = actor_thread_list[Head]
  /\ nnode' = IF node' = Null THEN Null ELSE actor_thread_list[node']
  /\ Goto(Main, "join")
  /\ UNCHANGED <<once, res, logVars, thread_exit_flag, actor, actor_thread_list, freed, new>>

\* ... the broadcast after it, and the head of the loop over the list.
shutdown_broadcast ==
  /\ At(Main, "broadcast")
  /\ Use({"thread_active_cond"})
  /\ waiters' = {}
  /\ node' = actor_thread_list[Head]
  /\ nnode' = IF node' = Null THEN Null ELSE actor_thread_list[node']
  /\ Goto(Main, "join")
  /\ UNCHANGED <<once, res, logVars, thread_exit_flag, actor, actor_thread_list, freed, new>>

\* Mutant: the actor is detached instead of joined.
join_actor_detach ==
  /\ At(Main, "join") /\ node # Null
  /\ freed' = freed \cup {node}
  /\ node' = nnode
  /\ nnode' = IF nnode = Null THEN Null ELSE actor_thread_list[nnode]
  /\ misused' = misused
  /\ UNCHANGED <<pc, once, res, logVars, actorVars, actor_thread_list, new>>

\* m_slist_foreach_value_safe: join the actor, free its node, go on with the
\* node saved before, whose next pointer is read.
join_actor ==
  /\ At(Main, "join") /\ node # Null /\ actor[node] = "exited"
  /\ freed' = freed \cup {node}
  /\ node' = nnode
  /\ nnode' = IF nnode = Null THEN Null ELSE actor_thread_list[nnode]
  /\ misused' = misused \cup (IF nnode \in freed' THEN {"node"} ELSE {})
  /\ UNCHANGED <<pc, once, res, logVars, actorVars, actor_thread_list, new>>

\* The rest of m_thread_shutdown: thread_key_destructor of Main's data, which
\* takes m_gc_lock, then the key, the lock and the condition variables go.
\* Destroying a condition variable somebody waits on misuses it.
thread_release ==
  /\ At(Main, "join") /\ node = Null
  /\ misused' = misused
       \cup {r \in {"m_thread_key", "m_gc_lock"} : res[r] # "up"}
       \cup (IF waiters # {} THEN {"thread_active_cond"} ELSE {})
  /\ SetRes({"m_thread_key", "m_thread_lock", "thread_active_cond"}, "down")
  /\ Goto(Main, "gc_shutdown")
  /\ UNCHANGED <<once, logVars, actorVars, listVars>>

\* m_gc_shutdown: gc_obj_shutdown announces itself ...
gc_obj_shutdown ==
  /\ At(Main, "gc_shutdown")
  /\ m_log(Main, "DEBUG")
  /\ Goto(Main, "gc_release")
  /\ UNCHANGED <<once, res, misused, actorVars, listVars>>

\* ... and clears the heap; the root table and m_gc_lock follow, and shutdown
\* logs its last line.
gc_release ==
  /\ At(Main, "gc_release")
  /\ Use({"heap", "m_gc_lock"})
  /\ SetRes({"heap", "m_gc_lock"}, "down")
  /\ m_log(Main, "INFO")
  /\ Goto(Main, "log_shutdown")
  /\ UNCHANGED <<once, actorVars, listVars>>

\* m_log_shutdown: stdout stays open; the lock must be free.
m_log_shutdown ==
  /\ At(Main, "log_shutdown")
  /\ SetRes({"lock"} \cup (IF log_file = "file" THEN {"log_fp"} ELSE {}), "down")
  /\ misused' = misused \cup (IF log_holder # Null THEN {"lock"} ELSE {})
  /\ Goto(Main, "exit")
  /\ UNCHANGED <<once, logVars, actorVars, listVars>>

\* The handlers have run; the process ends and all its threads with it.
process_exit ==
  /\ At(Main, "exit")
  /\ Goto(Main, "exited")
  /\ UNCHANGED <<once, res, misused, logVars, actorVars, listVars>>
-----------------------------------------------------------------------------
Init ==
  /\ pc = [t \in Thread |-> "begin"]
  /\ once = "init"
  /\ res = [r \in Resource |-> "none"]
  /\ log_file = "stdout" /\ log_level = 0 /\ misused = {}
  /\ logging = [t \in Thread |-> "no"] /\ log_holder = Null
  /\ thread_exit_flag = FALSE /\ waiters = {} /\ actor = [n \in Actor |-> "none"]
  /\ actor_thread_list = [n \in Actor \cup {Head} |-> Null]
  /\ freed = {} /\ new = [t \in Thread |-> Null] /\ node = Null /\ nnode = Null

Startup(t) ==
  \/ m_startup(t) \/ m_log_startup(t) \/ m_gc_startup(t) \/ m_thread_startup(t) \/ startup_end(t)

Shutdown ==
  \/ set_exit_flag \/ shutdown_broadcast \/ join_actor \/ thread_release
  \/ gc_obj_shutdown \/ gc_release \/ m_log_shutdown \/ process_exit

Next ==
  \/ \E t \in Thread :
       \/ Startup(t) \/ log_begin(t) \/ log_end(t)
       \/ app_log(t) \/ app_gc(t) \/ app_end(t)
       \/ m_thread_create(t) \/ push_next(t) \/ push_head(t)
  \/ \E n \in Actor : thread_entry(n) \/ SpuriousWakeup(n)
  \/ Shutdown
  \/ ~Alive /\ UNCHANGED vars

Spec == Init /\ [][Next]_vars

\* Every thread inside a call of the library is scheduled, and actors run.
FairSpec ==
  /\ Spec
  /\ WF_vars(Shutdown)
  /\ \A t \in Thread : WF_vars(log_begin(t)) /\ WF_vars(log_end(t))
  /\ \A n \in Actor : WF_vars(thread_entry(n))
-----------------------------------------------------------------------------
\* No lock, condition variable, file, key, heap or list node is used before it
\* is created or after it is destroyed: startup and shutdown run in the order
\* their dependencies ask for, and whoever might use a resource has ended.
NoDeadObjectUsed == misused = {}

\* src/src/m_thread.c: "Stop all the threads."  When m_thread_shutdown destroys
\* what actors use, every actor that was created has ended and its node is freed.
AllThreadsStopped ==
  pc[Main] \in {"gc_shutdown", "gc_release", "log_shutdown", "exit", "exited"} =>
    \A n \in Actor : (actor[n] = "exited" /\ n \in freed) \/ actor[n] = "none"

\* The shutdown ends the process: actors that sleep are woken, those that have
\* not looked at the flag yet do not sleep, and the join of each returns.
ShutdownCompletes == pc[Main] = "set_flag" ~> pc[Main] = "exited"
=============================================================================
