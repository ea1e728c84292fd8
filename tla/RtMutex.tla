------------------------------ MODULE RtMutex ------------------------------
(***************************************************************************)
(* One mutex of the RT-Thread kernel and the threads that contend for it:  *)
(* rtthread/src/ipc.c (rt_mutex_take, rt_mutex_release) with the parts of  *)
(* scheduler.c and thread.c they rest on.  Both mutexes of the remote,     *)
(* transmit_mutex and remote_mutex, are created with RT_IPC_FLAG_PRIO and  *)
(* are never held together, so one mutex is all there is to a wait.        *)
(*                                                                         *)
(* Every kernel call runs with interrupts disabled and is one action.  A   *)
(* smaller number is a higher priority.  Which of several ready threads of *)
(* the same priority runs is left open: they share the processor in time   *)
(* slices.                                                                 *)
(***************************************************************************)
EXTENDS Integers, Sequences

CONSTANTS
  Thread,         \* the threads that use the mutex
  init_priority,  \* the priority each thread was created with
  NoThread,       \* RT_NULL
  HoldMax         \* RT_MUTEX_HOLD_MAX: 255

ASSUME ThreadAssumption == NoThread \notin Thread
ASSUME PriorityAssumption == init_priority \in [Thread -> 0..254]
ASSUME HoldAssumption == HoldMax \in Nat /\ HoldMax >= 1

VARIABLES
  value, owner, original_priority, hold,  \* struct rt_mutex
  suspend_thread,    \* its list of suspended threads, first to be resumed first
  timed,             \* the suspended threads whose take has a time limit
  current_priority,  \* per thread: the priority it is scheduled at
  asleep,            \* the threads suspended in rt_thread_mdelay
  ret                \* per thread: the result of its last call of the mutex

mutexVars == <<value, owner, original_priority, hold, suspend_thread, timed>>
kernelVars == <<mutexVars, current_priority, asleep, ret>>

Result == {"RT_EOK", "RT_EFULL", "RT_ETIMEOUT", "RT_ERROR"}

Waiting == {suspend_thread[i] : i \in DOMAIN suspend_thread}

\* RT_THREAD_READY: neither suspended on the mutex nor on its own timer.
Ready(t) == t \notin asleep /\ t \notin Waiting

\* rt_schedule: the processor is given to a ready thread of the best priority.
Runs(t) ==
  /\ Ready(t)
  /\ \A u \in Thread : Ready(u) => current_priority[t] <= current_priority[u]

rt_mutex_init ==
  /\ value = 1
  /\ owner = NoThread
  /\ original_priority = 255
  /\ hold = 0
  /\ suspend_thread = <<>>
  /\ timed = {}
  /\ current_priority = init_priority
  /\ asleep = {}
  /\ ret = [t \in Thread |-> "RT_EOK"]

-----------------------------------------------------------------------------
\* Mutant of PlaceFor: RT_IPC_FLAG_FIFO.
PlaceFor_Fifo(t, n) == n = Len(suspend_thread) + 1

\* Mutant of PlaceFor: a tie goes to the newcomer.
PlaceFor_AheadOfEqual(t, n) ==
  /\ \A m \in 1 .. n - 1 : current_priority[suspend_thread[m]] < current_priority[t]
  /\ n <= Len(suspend_thread) =>
       current_priority[t] <= current_priority[suspend_thread[n]]

\* rt_ipc_list_suspend, RT_IPC_FLAG_PRIO: the loop stops before the first
\* thread of a worse priority, so behind those of the newcomer's own.
PlaceFor(t, n) ==
  /\ \A m \in 1 .. n - 1 : current_priority[suspend_thread[m]] <= current_priority[t]
  /\ n <= Len(suspend_thread) =>
       current_priority[t] < current_priority[suspend_thread[n]]

InsertAt(list, n, t) ==
  [k \in 1 .. Len(list) + 1 |->
     IF k < n THEN list[k] ELSE IF k = n THEN t ELSE list[k - 1]]

RemoveAt(list, n) ==
  [k \in 1 .. Len(list) - 1 |-> IF k < n THEN list[k] ELSE list[k + 1]]

\* The owner takes the mutex again.
TakeAgain(t) ==
  /\ owner = t
  /\ hold < HoldMax
  /\ hold' = hold + 1
  /\ ret' = [ret EXCEPT ![t] = "RT_EOK"]
  /\ UNCHANGED <<value, owner, original_priority, suspend_thread, timed,
                 current_priority, asleep>>

\* The owner takes it once too often for the 8-bit hold count.
TakeFull(t) ==
  /\ owner = t
  /\ hold >= HoldMax
  /\ ret' = [ret EXCEPT ![t] = "RT_EFULL"]
  /\ UNCHANGED <<mutexVars, current_priority, asleep>>

TakeFree(t) ==
  /\ owner # t
  /\ value > 0
  /\ value' = value - 1
  /\ owner' = t
  /\ original_priority' = current_priority[t]
  /\ hold' = hold + 1
  /\ ret' = [ret EXCEPT ![t] = "RT_EOK"]
  /\ UNCHANGED <<suspend_thread, timed, current_priority, asleep>>

\* RT_WAITING_NO: the caller is told at once.
TakeRefused(t) ==
  /\ owner # t
  /\ value = 0
  /\ ret' = [ret EXCEPT ![t] = "RT_ETIMEOUT"]
  /\ UNCHANGED <<mutexVars, current_priority, asleep>>

\* The owner inherits the priority of a better thread that waits for it.
Inherit(t) ==
  IF current_priority[t] < current_priority[owner]
  THEN [current_priority EXCEPT ![owner] = current_priority[t]]
  ELSE current_priority

\* The caller is suspended; it goes on once it owns the mutex, or, with a time
\* limit, when that passes.
TakeWait(t, limit) ==
  /\ owner # t
  /\ value = 0
  /\ current_priority' = Inherit(t)
  /\ \E n \in 1 .. Len(suspend_thread) + 1 :
       /\ PlaceFor(t, n)
       /\ suspend_thread' = InsertAt(suspend_thread, n, t)
  /\ timed' = IF limit THEN timed \cup {t} ELSE timed
  /\ ret' = [ret EXCEPT ![t] = "RT_EOK"]
  /\ UNCHANGED <<value, owner, original_priority, hold, asleep>>

\* rt_mutex_take(mutex, RT_WAITING_FOREVER), rt_mutex_take(mutex, time > 0)
\* and rt_mutex_take(mutex, RT_WAITING_NO).
TakeForever(t) == TakeAgain(t) \/ TakeFull(t) \/ TakeFree(t) \/ TakeWait(t, FALSE)
TakeTimed(t) == TakeAgain(t) \/ TakeFull(t) \/ TakeFree(t) \/ TakeWait(t, TRUE)
TakeNoWait(t) == TakeAgain(t) \/ TakeFull(t) \/ TakeFree(t) \/ TakeRefused(t)

\* rt_thread_timeout: the time limit of a suspended take passes.
rt_thread_timeout(t) ==
  /\ t \in timed
  /\ \E n \in DOMAIN suspend_thread :
       /\ suspend_thread[n] = t
       /\ suspend_thread' = RemoveAt(suspend_thread, n)
  /\ timed' = timed \ {t}
  /\ ret' = [ret EXCEPT ![t] = "RT_ETIMEOUT"]
  /\ UNCHANGED <<value, owner, original_priority, hold, current_priority, asleep>>

-----------------------------------------------------------------------------
ReleaseNotOwner(t) ==
  /\ owner # t
  /\ ret' = [ret EXCEPT ![t] = "RT_ERROR"]
  /\ UNCHANGED <<mutexVars, current_priority, asleep>>

ReleaseNested(t) ==
  /\ owner = t
  /\ hold > 1
  /\ hold' = hold - 1
  /\ ret' = [ret EXCEPT ![t] = "RT_EOK"]
  /\ UNCHANGED <<value, owner, original_priority, suspend_thread, timed,
                 current_priority, asleep>>

\* Mutant of ReleaseFree: the inherited priority is kept.
ReleaseFree_KeepsPriority(t) ==
  /\ owner = t
  /\ hold = 1
  /\ suspend_thread = <<>>
  /\ value' = value + 1
  /\ owner' = NoThread
  /\ original_priority' = 255
  /\ hold' = 0
  /\ ret' = [ret EXCEPT ![t] = "RT_EOK"]
  /\ UNCHANGED <<suspend_thread, timed, current_priority, asleep>>

\* The last release with nobody waiting.
ReleaseFree(t) ==
  /\ owner = t
  /\ hold = 1
  /\ suspend_thread = <<>>
  /\ current_priority' = [current_priority EXCEPT ![t] = original_priority]
  /\ value' = value + 1
  /\ owner' = NoThread
  /\ original_priority' = 255
  /\ hold' = 0
  /\ ret' = [ret EXCEPT ![t] = "RT_EOK"]
  /\ UNCHANGED <<suspend_thread, timed, asleep>>

\* Mutant of ReleaseHandOver: the mutex is also marked available.
ReleaseHandOver_Available(t) ==
  /\ owner = t
  /\ hold = 1
  /\ suspend_thread # <<>>
  /\ LET w == suspend_thread[1]
     IN /\ current_priority' = [current_priority EXCEPT ![t] = original_priority]
        /\ owner' = w
        /\ original_priority' = current_priority[w]
        /\ timed' = timed \ {w}
  /\ value' = value + 1
  /\ suspend_thread' = RemoveAt(suspend_thread, 1)
  /\ ret' = [ret EXCEPT ![t] = "RT_EOK"]
  /\ UNCHANGED <<hold, asleep>>

\* The last release with threads waiting: the mutex goes to the first of them
\* and is never free in between; rt_ipc_list_resume stops that thread's timer.
ReleaseHandOver(t) ==
  /\ owner = t
  /\ hold = 1
  /\ suspend_thread # <<>>
  /\ LET w == suspend_thread[1]
     IN /\ current_priority' = [current_priority EXCEPT ![t] = original_priority]
        /\ owner' = w
        /\ original_priority' = current_priority[w]
        /\ timed' = timed \ {w}
  /\ suspend_thread' = RemoveAt(suspend_thread, 1)
  /\ ret' = [ret EXCEPT ![t] = "RT_EOK"]
  /\ UNCHANGED <<value, hold, asleep>>

Release(t) ==
  \/ ReleaseNotOwner(t)
  \/ ReleaseNested(t)
  \/ ReleaseFree(t)
  \/ ReleaseHandOver(t)

-----------------------------------------------------------------------------
\* rt_thread_mdelay: the thread suspends itself on its timer.
Sleep(t) ==
  /\ asleep' = asleep \cup {t}
  /\ UNCHANGED <<mutexVars, current_priority, ret>>

\* rt_thread_timeout for a thread that sleeps.
Wake(t) ==
  /\ t \in asleep
  /\ asleep' = asleep \ {t}
  /\ UNCHANGED <<mutexVars, current_priority, ret>>

\* Mutant of ThreadStep: the scheduler takes any ready thread.
ThreadStep_AnyReady(t) ==
  /\ Ready(t)
  /\ \/ TakeForever(t)
     \/ TakeTimed(t)
     \/ TakeNoWait(t)
     \/ Release(t)
     \/ Sleep(t)

\* What the running thread can do.
ThreadStep(t) ==
  /\ Runs(t)
  /\ \/ TakeForever(t)
     \/ TakeTimed(t)
     \/ TakeNoWait(t)
     \/ Release(t)
     \/ Sleep(t)

\* What the timer interrupt does for a thread.
TimerStep(t) == Wake(t) \/ rt_thread_timeout(t)

KernelNext == \E t \in Thread : ThreadStep(t) \/ TimerStep(t)

KernelSpec == rt_mutex_init /\ [][KernelNext]_kernelVars

-----------------------------------------------------------------------------
Priority == 0..255

\* Type correctness: every variable keeps the type of its field; the list and
\* the set of timed waits name threads, and a hold count fits its field.
KernelTypeOK ==
  /\ value \in 0..1
  /\ owner \in Thread \cup {NoThread}
  /\ original_priority \in Priority
  /\ hold \in 0..HoldMax
  /\ suspend_thread \in Seq(Thread)
  /\ timed \subseteq Thread
  /\ current_priority \in [Thread -> Priority]
  /\ asleep \subseteq Thread
  /\ ret \in [Thread -> Result]

\* Ownership: the four fields of the mutex and the list agree whatever calls,
\* time-outs and hand-overs came before.  The mutex is available exactly when
\* it has no owner and is not held; threads wait only for an owned mutex; the
\* owner does not wait for itself, nor a thread twice, nor one that sleeps; a
\* time limit runs only for a thread that still waits.
OwnershipConsistent ==
  /\ value = 1 <=> owner = NoThread
  /\ hold = 0 <=> owner = NoThread
  /\ suspend_thread # <<>> => owner # NoThread
  /\ owner \notin Waiting
  /\ \A i, j \in DOMAIN suspend_thread :
       suspend_thread[i] = suspend_thread[j] => i = j
  /\ asleep \cap Waiting = {}
  /\ timed \subseteq Waiting

\* Priorities after use: only the owner is ever scheduled at another priority
\* than its own; it is never lowered, and the mutex remembers what to restore.
\* A release or a hand-over that lost the saved priority would leave a thread
\* boosted for ever.
PriorityRestored ==
  \A t \in Thread :
    IF t = owner
    THEN /\ current_priority[t] <= init_priority[t]
         /\ original_priority = init_priority[t]
    ELSE current_priority[t] = init_priority[t]

\* The list is in priority order, the best first.
OrderedWaiters ==
  \A i, j \in DOMAIN suspend_thread :
    i < j => current_priority[suspend_thread[i]] <=
             current_priority[suspend_thread[j]]

\* Priority inheritance: the owner is scheduled at least as well as every
\* thread that waits for it, also after a hand-over to a thread that others
\* still wait behind.
NoInversion ==
  \A w \in Waiting : current_priority[owner] <= current_priority[w]

\* Hand-over goes to a waiting thread none of the others outranks.
HandoverToHighest ==
  [][owner' # owner /\ owner # NoThread /\ owner' # NoThread =>
       /\ owner' \in Waiting
       /\ \A w \in Waiting : current_priority[owner'] <= current_priority[w]]_kernelVars

\* No overtaking: a thread that starts to wait is put behind every waiting
\* thread of its own or a better priority, so equals are served in order.
NoOvertaking ==
  [][\A w \in Waiting, t \in Waiting' \ Waiting :
       current_priority[w] <= current_priority[t] =>
         \E i, j \in DOMAIN suspend_thread' :
           i < j /\ suspend_thread'[i] = w /\ suspend_thread'[j] = t]_kernelVars

\* No unbounded inversion: while a thread waits for an owner that is ready, no
\* thread of a priority between the two runs.
NoMediumRuns ==
  [][\A w \in Waiting, t \in Thread :
       ThreadStep(t) /\ owner \notin asleep =>
         t = owner \/ current_priority[t] <= current_priority[w]]_kernelVars
=============================================================================
