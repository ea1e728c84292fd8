--------------------------- MODULE RtMutexProofs ---------------------------
(***************************************************************************)
(* Proofs about the kernel mutex for any number of threads, any priorities *)
(* and any ceiling of the hold count.                                      *)
(***************************************************************************)
EXTENDS RtMutex, TLAPS

\* What rt_ipc_list_suspend builds: the list with one more entry at n.
LEMMA InsertFacts ==
  ASSUME NEW list \in Seq(Thread), NEW t \in Thread, NEW n \in 1 .. Len(list) + 1
  PROVE  /\ InsertAt(list, n, t) \in Seq(Thread)
         /\ Len(InsertAt(list, n, t)) = Len(list) + 1
         /\ DOMAIN InsertAt(list, n, t) = 1 .. Len(list) + 1
         /\ \A k \in 1 .. Len(list) + 1 :
              InsertAt(list, n, t)[k] =
                IF k < n THEN list[k] ELSE IF k = n THEN t ELSE list[k - 1]
<1> DEFINE f == InsertAt(list, n, t)
           m == Len(list) + 1
<1>1. m \in Nat /\ f \in [1..m -> Thread]
  BY DEF InsertAt
<1>2. f \in Seq(Thread) /\ Len(f) = m /\ DOMAIN f = 1..m
  BY <1>1
<1>3. QED
  BY <1>2 DEF InsertAt

\* What taking entry n off the list leaves.
LEMMA RemoveFacts ==
  ASSUME NEW list \in Seq(Thread), NEW n \in 1 .. Len(list)
  PROVE  /\ RemoveAt(list, n) \in Seq(Thread)
         /\ Len(RemoveAt(list, n)) = Len(list) - 1
         /\ DOMAIN RemoveAt(list, n) = 1 .. Len(list) - 1
         /\ \A k \in 1 .. Len(list) - 1 :
              RemoveAt(list, n)[k] = IF k < n THEN list[k] ELSE list[k + 1]
<1> DEFINE f == RemoveAt(list, n)
           m == Len(list) - 1
<1>1. m \in Nat /\ f \in [1..m -> Thread]
  BY DEF RemoveAt
<1>2. f \in Seq(Thread) /\ Len(f) = m /\ DOMAIN f = 1..m
  BY <1>1
<1>3. QED
  BY <1>2 DEF RemoveAt

\* Inserting x where the loop of rt_ipc_list_suspend stops keeps the order.
LEMMA InsertOrdered ==
  ASSUME NEW m \in Nat, NEW n \in 1 .. m + 1, NEW x \in Int,
         NEW f \in [1..m -> Int], NEW g \in [1 .. m + 1 -> Int],
         \A i, j \in 1..m : i < j => f[i] <= f[j],
         \A k \in 1 .. n - 1 : f[k] <= x,
         n <= m => x < f[n],
         \A k \in 1 .. m + 1 :
           g[k] = IF k < n THEN f[k] ELSE IF k = n THEN x ELSE f[k - 1]
  PROVE  \A i, j \in 1 .. m + 1 : i < j => g[i] <= g[j]
<1>1. ASSUME NEW k \in n..m PROVE x <= f[k]
  <2>1. k \in 1..m /\ n \in 1..m /\ n <= m /\ (n < k \/ n = k)
    OBVIOUS
  <2>2. f[k] \in Int /\ f[n] \in Int /\ f[n] <= f[k] /\ x < f[n]
    BY <2>1
  <2> QED
    BY <2>2
<1> SUFFICES ASSUME NEW i \in 1 .. m + 1, NEW j \in 1 .. m + 1, i < j
             PROVE  g[i] <= g[j]
  OBVIOUS
<1>2. CASE j <= n
  <2>1. i \in 1 .. n - 1 /\ g[i] = f[i] /\ f[i] <= x
    BY <1>2
  <2>2. CASE j = n
    BY <2>1, <2>2
  <2>3. CASE j < n
    <3>1. i \in 1..m /\ j \in 1..m /\ g[j] = f[j]
      BY <1>2, <2>3
    <3> QED
      BY <2>1, <3>1
  <2> QED
    BY <1>2, <2>2, <2>3
<1>3. CASE n <= i
  <2>1. n <= m /\ j - 1 \in n..m /\ g[j] = f[j - 1]
    BY <1>3
  <2>2. CASE i = n
    BY <1>1, <2>1, <2>2
  <2>3. CASE n < i
    <3>1. i - 1 \in 1..m /\ j - 1 \in 1..m /\ i - 1 < j - 1 /\ g[i] = f[i - 1]
      BY <1>3, <2>1, <2>3
    <3> QED
      BY <2>1, <3>1
  <2> QED
    BY <1>3, <2>2, <2>3
<1>4. CASE i < n /\ n < j
  <2>1. g[i] <= x /\ x <= g[j] /\ g[i] \in Int /\ g[j] \in Int
    BY <1>1, <1>4
  <2> QED
    BY <2>1
<1> QED
  BY <1>2, <1>3, <1>4

\* The inductive invariant: the four invariants depend on each other.  The
\* hand-over keeps NoInversion because the list is ordered; the list stays
\* ordered because only the owner's priority moves and the owner is not on it;
\* the priority restored is the right one because what was saved was.
KernelInv ==
  /\ KernelTypeOK
  /\ OwnershipConsistent
  /\ PriorityRestored
  /\ OrderedWaiters
  /\ NoInversion

\* Priorities are numbers that can be compared.
LEMMA PriorityFacts ==
  ASSUME KernelTypeOK
  PROVE  /\ current_priority \in [Thread -> 0..255]
         /\ \A t \in Thread : current_priority[t] \in 0..255
         /\ \A t \in Thread : init_priority[t] \in 0..254
<1>1. current_priority \in [Thread -> 0..255]
  BY DEF KernelTypeOK, Priority
<1> QED
  BY <1>1, PriorityAssumption

LEMMA PriorityInt ==
  KernelTypeOK => \A t \in Thread : current_priority[t] \in Int
<1> SUFFICES ASSUME KernelTypeOK, NEW t \in Thread PROVE current_priority[t] \in Int
  OBVIOUS
<1>1. current_priority[t] \in 0..255
  BY PriorityFacts
<1> QED
  BY <1>1

LEMMA KernelInitInv == rt_mutex_init => KernelInv
<1> SUFFICES ASSUME rt_mutex_init PROVE KernelInv
  OBVIOUS
<1> USE DEF rt_mutex_init
<1>1. KernelTypeOK
  BY HoldAssumption, PriorityAssumption DEF KernelTypeOK, Priority, Result
<1>2. OwnershipConsistent
  BY ThreadAssumption DEF OwnershipConsistent, Waiting
<1>3. PriorityRestored
  BY ThreadAssumption, PriorityAssumption DEF PriorityRestored
<1>4. OrderedWaiters /\ NoInversion
  BY DEF OrderedWaiters, NoInversion, Waiting
<1> QED
  BY <1>1, <1>2, <1>3, <1>4 DEF KernelInv

\* Steps that move only the hold count, between 1 and its ceiling, the result
\* of a call or the set of sleepers.
LEMMA OwnStep ==
  ASSUME KernelInv, NEW t \in Thread, Ready(t),
         TakeAgain(t) \/ TakeFull(t) \/ TakeRefused(t)
           \/ ReleaseNotOwner(t) \/ ReleaseNested(t) \/ Sleep(t)
  PROVE  KernelInv'
<1> USE HoldAssumption, ThreadAssumption
<1>1. /\ UNCHANGED <<value, owner, original_priority, suspend_thread, timed,
                     current_priority>>
      /\ hold' \in 0..HoldMax /\ (hold' = 0 <=> hold = 0)
      /\ asleep' \in {asleep, asleep \cup {t}}
      /\ ret' \in [Thread -> Result]
  BY DEF KernelInv, KernelTypeOK, OwnershipConsistent, TakeAgain, TakeFull, TakeRefused,
         ReleaseNotOwner, ReleaseNested, Sleep, mutexVars, Result
<1>2. Waiting' = Waiting
  BY <1>1 DEF Waiting
<1>3. KernelTypeOK'
  BY <1>1 DEF KernelInv, KernelTypeOK
<1>4. OwnershipConsistent'
  BY <1>1, <1>2 DEF KernelInv, OwnershipConsistent, Ready
<1>5. PriorityRestored' /\ OrderedWaiters' /\ NoInversion'
  BY <1>1, <1>2 DEF KernelInv, PriorityRestored, OrderedWaiters, NoInversion
<1> QED
  BY <1>3, <1>4, <1>5 DEF KernelInv

LEMMA TakeFreeStep ==
  ASSUME KernelInv, NEW t \in Thread, TakeFree(t)
  PROVE  KernelInv'
<1> USE HoldAssumption, ThreadAssumption DEF TakeFree
<1>1. owner = NoThread /\ hold = 0 /\ suspend_thread = <<>> /\ value = 1
  BY DEF KernelInv, OwnershipConsistent, KernelTypeOK
<1> KernelTypeOK
  BY DEF KernelInv
<1>0. current_priority[t] \in 0..255
  BY PriorityFacts
<1>2. KernelTypeOK'
  BY <1>0, <1>1 DEF KernelTypeOK, Result, Priority
<1>3. OwnershipConsistent'
  BY <1>1 DEF KernelInv, OwnershipConsistent, Waiting
<1>4. PriorityRestored'
  <2>1. \A u \in Thread : current_priority[u] = init_priority[u]
    BY <1>1 DEF KernelInv, PriorityRestored
  <2>2. UNCHANGED current_priority /\ original_priority' = init_priority[t] /\ owner' = t
    BY <2>1
  <2> QED
    BY <2>1, <2>2, PriorityFacts DEF PriorityRestored
<1>5. OrderedWaiters' /\ NoInversion'
  BY <1>1 DEF OrderedWaiters, NoInversion, Waiting
<1> QED
  BY <1>2, <1>3, <1>4, <1>5 DEF KernelInv

\* A list with t inserted names the same threads and t.
LEMMA InsertWaiter ==
  ASSUME KernelTypeOK, NEW t \in Thread,
         NEW n \in 1 .. Len(suspend_thread) + 1,
         suspend_thread' = InsertAt(suspend_thread, n, t)
  PROVE  Waiting' = Waiting \cup {t}
<1> DEFINE s == suspend_thread
<1>1. s \in Seq(Thread) /\ Len(s) \in Nat /\ DOMAIN s = 1..Len(s)
  BY DEF KernelTypeOK
<1>2. /\ DOMAIN s' = 1 .. Len(s) + 1
      /\ \A k \in 1 .. Len(s) + 1 :
           s'[k] = IF k < n THEN s[k] ELSE IF k = n THEN t ELSE s[k - 1]
  <2>1. s' = InsertAt(s, n, t)
    OBVIOUS
  <2> HIDE DEF s
  <2>2. /\ DOMAIN InsertAt(s, n, t) = 1 .. Len(s) + 1
        /\ \A k \in 1 .. Len(s) + 1 :
             InsertAt(s, n, t)[k] =
               IF k < n THEN s[k] ELSE IF k = n THEN t ELSE s[k - 1]
    <3>1. n \in 1 .. Len(s) + 1
      BY DEF s
    <3> QED
      BY <1>1, <3>1, InsertFacts
  <2> QED
    BY <2>1, <2>2
<1>3. Waiting' = Waiting \cup {t}
  <2>1. ASSUME NEW w \in Waiting' PROVE w \in Waiting \cup {t}
    <3>1. PICK k \in 1 .. Len(s) + 1 : w = s'[k]
      BY <1>2 DEF Waiting
    <3>2. CASE k < n
      BY <1>1, <1>2, <3>1, <3>2 DEF Waiting
    <3>3. CASE k > n
      <4>1. k - 1 \in DOMAIN s /\ w = s[k - 1]
        BY <1>1, <1>2, <3>1, <3>3
      <4> QED
        BY <4>1 DEF Waiting
    <3> QED
      BY <1>2, <3>1, <3>2, <3>3
  <2>2. ASSUME NEW w \in Waiting PROVE w \in Waiting'
    <3>1. PICK i \in 1..Len(s) : w = s[i]
      BY <1>1 DEF Waiting
    <3>2. CASE i < n
      <4>1. i \in DOMAIN s' /\ s'[i] = s[i]
        BY <1>1, <1>2, <3>2
      <4> QED
        BY <3>1, <4>1 DEF Waiting
    <3>3. CASE i >= n
      <4>1. i + 1 \in DOMAIN s' /\ s'[i + 1] = s[i]
        BY <1>1, <1>2, <3>3
      <4> QED
        BY <3>1, <4>1 DEF Waiting
    <3> QED
      BY <3>2, <3>3
  <2>3. t \in Waiting'
    BY <1>2 DEF Waiting
  <2> QED
    BY <2>1, <2>2, <2>3
<1> QED
  BY <1>3

LEMMA TakeWaitStep ==
  ASSUME KernelInv, NEW t \in Thread, NEW limit \in BOOLEAN, Ready(t), TakeWait(t, limit)
  PROVE  KernelInv'
<1> DEFINE s == suspend_thread
<1> KernelTypeOK
  BY DEF KernelInv
<1>1. /\ owner \in Thread /\ owner # t /\ owner # NoThread
      /\ s \in Seq(Thread) /\ t \notin Waiting /\ t \notin asleep
  BY ThreadAssumption
     DEF KernelInv, OwnershipConsistent, KernelTypeOK, TakeWait, Ready
<1>2. /\ \A u \in Thread : current_priority[u] \in Int
      /\ \A u \in Thread : init_priority[u] \in Int
  BY PriorityFacts
<1>3. /\ current_priority' \in [Thread -> 0..255]
      /\ \A u \in Thread : u # owner => current_priority'[u] = current_priority[u]
      /\ current_priority'[owner] <= current_priority[owner]
      /\ current_priority'[owner] <= current_priority[t]
  <2>1. current_priority' = Inherit(t)
    BY DEF TakeWait
  <2>2. current_priority \in [Thread -> 0..255] /\ current_priority[t] \in 0..255
    BY PriorityFacts
  <2>3. CASE current_priority[t] < current_priority[owner]
    <3>1. current_priority' = [current_priority EXCEPT ![owner] = current_priority[t]]
      BY <2>1, <2>3 DEF Inherit
    <3> QED
      BY <1>1, <1>2, <2>2, <2>3, <3>1
  <2>4. CASE ~(current_priority[t] < current_priority[owner])
    <3>1. current_priority' = current_priority
      BY <2>1, <2>4 DEF Inherit
    <3> QED
      BY <1>1, <1>2, <2>2, <2>4, <3>1
  <2> QED
    BY <2>3, <2>4
<1>4. \A u \in Thread : current_priority'[u] \in Int
  BY <1>3
<1>5. PriorityRestored'
  <2>1. /\ current_priority[t] = init_priority[t]
        /\ original_priority = init_priority[owner]
        /\ current_priority[owner] <= init_priority[owner]
        /\ \A u \in Thread : u # owner => current_priority[u] = init_priority[u]
    BY <1>1 DEF KernelInv, PriorityRestored
  <2>2. current_priority'[owner] <= init_priority[owner]
    BY <1>1, <1>2, <1>3, <1>4, <2>1
  <2>3. UNCHANGED <<owner, original_priority>>
    BY DEF TakeWait
  <2> QED
    BY <1>3, <2>1, <2>2, <2>3 DEF PriorityRestored
<1>6. PICK n \in 1 .. Len(s) + 1 : PlaceFor(t, n) /\ s' = InsertAt(s, n, t)
  BY DEF TakeWait
<1>7. /\ Len(s) \in Nat /\ DOMAIN s = 1..Len(s)
      /\ \A k \in 1..Len(s) : s[k] \in Thread
  BY <1>1
<1>8. /\ s' \in Seq(Thread) /\ Len(s') = Len(s) + 1
      /\ DOMAIN s' = 1 .. Len(s) + 1
      /\ \A k \in 1 .. Len(s) + 1 :
           s'[k] = IF k < n THEN s[k] ELSE IF k = n THEN t ELSE s[k - 1]
  <2>1. /\ InsertAt(s, n, t) \in Seq(Thread)
        /\ Len(InsertAt(s, n, t)) = Len(s) + 1
        /\ DOMAIN InsertAt(s, n, t) = 1 .. Len(s) + 1
        /\ \A k \in 1 .. Len(s) + 1 :
              InsertAt(s, n, t)[k] =
                IF k < n THEN s[k] ELSE IF k = n THEN t ELSE s[k - 1]
    BY <1>1, InsertFacts
  <2> QED
    BY <1>6, <2>1
<1>9. Waiting' = Waiting \cup {t}
  BY <1>6, InsertWaiter
<1>10. /\ UNCHANGED <<value, owner, original_priority, hold, asleep>>
       /\ timed' \subseteq timed \cup {t} /\ ret' \in [Thread -> Result]
  BY DEF TakeWait, KernelInv, KernelTypeOK, Result
<1>11. KernelTypeOK'
  <2>1. current_priority' \in [Thread -> Priority]
    BY <1>3 DEF Priority
  <2> QED
    BY <1>8, <1>10, <2>1 DEF KernelTypeOK
<1>12. OwnershipConsistent'
  <2>1. ASSUME NEW i \in DOMAIN s', NEW j \in DOMAIN s', s'[i] = s'[j]
        PROVE  i = j
    <3>1. \A k \in 1..Len(s) : s[k] # t
      BY <1>1, <1>7 DEF Waiting
    <3>2. \A k, l \in 1..Len(s) : s[k] = s[l] => k = l
      BY <1>7 DEF KernelInv, OwnershipConsistent
    <3> QED
      BY <1>7, <1>8, <2>1, <3>1, <3>2
  <2>2. owner' \notin Waiting' /\ asleep' \cap Waiting' = {} /\ timed' \subseteq Waiting'
    BY <1>1, <1>9, <1>10 DEF KernelInv, OwnershipConsistent
  <2>3. owner # NoThread /\ (value = 1 <=> owner = NoThread) /\ (hold = 0 <=> owner = NoThread)
    BY <1>1 DEF KernelInv, OwnershipConsistent
  <2> QED
    BY <1>10, <2>1, <2>2, <2>3 DEF OwnershipConsistent
<1>13. \A i \in DOMAIN s' : s'[i] \in Thread /\ s'[i] # owner
  <2>1. \A i \in DOMAIN s' : s'[i] \in Waiting'
    BY DEF Waiting
  <2>2. owner \notin Waiting'
    BY <1>1, <1>9 DEF KernelInv, OwnershipConsistent
  <2> QED
    BY <1>8, <2>1, <2>2
<1>14. OrderedWaiters'
  <2> DEFINE f == [k \in 1..Len(s) |-> current_priority[s[k]]]
             g == [k \in 1 .. Len(s) + 1 |-> current_priority[s'[k]]]
  <2>1. f \in [1..Len(s) -> Int]
    BY <1>2, <1>7
  <2>2. g \in [1 .. Len(s) + 1 -> Int]
    BY <1>2, <1>8, <1>13
  <2>3. \A i, j \in 1..Len(s) : i < j => f[i] <= f[j]
    BY <1>7 DEF KernelInv, OrderedWaiters
  <2>4. /\ \A k \in 1 .. n - 1 : f[k] <= current_priority[t]
        /\ n <= Len(s) => current_priority[t] < f[n]
    BY <1>6, <1>7 DEF PlaceFor
  <2>5. \A k \in 1 .. Len(s) + 1 :
          g[k] = IF k < n THEN f[k]
                 ELSE IF k = n THEN current_priority[t] ELSE f[k - 1]
    BY <1>7, <1>8
  <2> HIDE DEF f, g
  <2>6. \A i, j \in 1 .. Len(s) + 1 : i < j => g[i] <= g[j]
    BY <1>2, <1>7, <2>1, <2>2, <2>3, <2>4, <2>5, InsertOrdered
  <2>7. \A i \in 1 .. Len(s) + 1 : g[i] = current_priority'[s'[i]]
    BY <1>3, <1>8, <1>13 DEF g
  <2> QED
    BY <1>8, <2>6, <2>7 DEF OrderedWaiters
<1>15. NoInversion'
  <2> SUFFICES ASSUME NEW w \in Waiting'
               PROVE  current_priority'[owner] <= current_priority'[w]
    BY <1>10 DEF NoInversion
  <2>1. w \in Thread /\ w # owner
    BY <1>13 DEF Waiting
  <2>2. CASE w = t
    BY <1>1, <1>3, <2>2
  <2>3. CASE w \in Waiting
    <3>1. current_priority[owner] <= current_priority[w]
      BY <2>3 DEF KernelInv, NoInversion
    <3>2. current_priority'[w] = current_priority[w]
      BY <1>3, <2>1
    <3> QED
      BY <1>1, <1>2, <1>3, <1>4, <2>1, <3>1, <3>2
  <2> QED
    BY <1>9, <2>2, <2>3
<1> QED
  BY <1>5, <1>11, <1>12, <1>14, <1>15 DEF KernelInv

\* The owner's last release: nobody else's priority moves, and the owner's
\* goes back to its own.
LEMMA PriorityGivenBack ==
  ASSUME KernelInv, owner \in Thread,
         current_priority' = [current_priority EXCEPT ![owner] = original_priority]
  PROVE  /\ current_priority' \in [Thread -> 0..255]
         /\ \A u \in Thread : current_priority'[u] = init_priority[u]
         /\ \A u \in Thread : u # owner => current_priority'[u] = current_priority[u]
<1> KernelTypeOK
  BY DEF KernelInv
<1>1. current_priority \in [Thread -> 0..255] /\ init_priority \in [Thread -> 0..254]
  BY PriorityFacts, PriorityAssumption
<1>2. /\ original_priority = init_priority[owner]
      /\ \A u \in Thread : u # owner => current_priority[u] = init_priority[u]
  BY ThreadAssumption DEF KernelInv, PriorityRestored
<1>3. original_priority \in 0..255
  BY DEF KernelTypeOK, Priority
<1> QED
  BY <1>1, <1>2, <1>3

LEMMA ReleaseFreeStep ==
  ASSUME KernelInv, NEW t \in Thread, ReleaseFree(t)
  PROVE  KernelInv'
<1> KernelTypeOK
  BY DEF KernelInv
<1> USE DEF ReleaseFree
<1>1. t # NoThread /\ owner = t /\ suspend_thread = <<>> /\ value = 0
  BY ThreadAssumption DEF KernelInv, OwnershipConsistent, KernelTypeOK
<1>2. /\ current_priority' \in [Thread -> 0..255]
      /\ \A u \in Thread : current_priority'[u] = init_priority[u]
  BY PriorityGivenBack
<1>3. Waiting = {} /\ Waiting' = {}
  BY <1>1 DEF Waiting
<1>4. KernelTypeOK'
  <2>1. current_priority' \in [Thread -> Priority]
    BY <1>2 DEF Priority
  <2>2. value' = 1 /\ hold' \in 0..HoldMax /\ original_priority' \in Priority
    BY <1>1, HoldAssumption DEF Priority
  <2>3. ret' \in [Thread -> Result]
    BY DEF KernelTypeOK, Result
  <2> QED
    BY <2>1, <2>2, <2>3 DEF KernelTypeOK
<1>5. OwnershipConsistent'
  <2>1. value' = 1 /\ owner' = NoThread /\ hold' = 0 /\ suspend_thread' = <<>>
    BY <1>1
  <2>2. timed' = {} /\ owner' \notin Waiting' /\ asleep' \cap Waiting' = {}
    BY <1>3 DEF KernelInv, OwnershipConsistent
  <2> QED
    BY <2>1, <2>2 DEF OwnershipConsistent
<1>6. PriorityRestored'
  BY <1>2, ThreadAssumption DEF PriorityRestored
<1>7. OrderedWaiters' /\ NoInversion'
  BY <1>1, <1>3 DEF OrderedWaiters, NoInversion
<1> QED
  BY <1>4, <1>5, <1>6, <1>7 DEF KernelInv

\* A list without its entry n names the same threads but that one.
LEMMA RemoveWaiter ==
  ASSUME KernelTypeOK, OwnershipConsistent, NEW n \in DOMAIN suspend_thread,
         suspend_thread' = RemoveAt(suspend_thread, n)
  PROVE  /\ Waiting' = Waiting \ {suspend_thread[n]}
         /\ suspend_thread' \in Seq(Thread)
         /\ \A i, j \in DOMAIN suspend_thread' : i < j =>
              \E k, l \in DOMAIN suspend_thread :
                /\ k < l
                /\ suspend_thread'[i] = suspend_thread[k]
                /\ suspend_thread'[j] = suspend_thread[l]
         /\ \A i, j \in DOMAIN suspend_thread' :
              suspend_thread'[i] = suspend_thread'[j] => i = j
<1> DEFINE s == suspend_thread
<1>1. s \in Seq(Thread) /\ Len(s) \in Nat /\ DOMAIN s = 1..Len(s)
  BY DEF KernelTypeOK
<1>2. /\ s' \in Seq(Thread) /\ DOMAIN s' = 1 .. Len(s) - 1
      /\ \A k \in 1 .. Len(s) - 1 : s'[k] = IF k < n THEN s[k] ELSE s[k + 1]
  BY <1>1, RemoveFacts
<1>3. \A k, l \in 1..Len(s) : s[k] = s[l] => k = l
  BY <1>1 DEF OwnershipConsistent
<1> DEFINE from(k) == IF k < n THEN k ELSE k + 1
<1>4. \A k \in DOMAIN s' : from(k) \in DOMAIN s /\ from(k) # n /\ s'[k] = s[from(k)]
  BY <1>1, <1>2
<1>5. \A i, j \in DOMAIN s' : i < j => from(i) < from(j)
  BY <1>1, <1>2
<1>6. \A i, j \in DOMAIN s' : from(i) = from(j) => i = j
  BY <1>1, <1>2
<1>7. \A l \in DOMAIN s : l # n => \E k \in DOMAIN s' : from(k) = l
  <2> TAKE l \in DOMAIN s
  <2> HAVE l # n
  <2>1. CASE l < n
    <3>1. l \in DOMAIN s' /\ from(l) = l
      BY <1>1, <1>2, <2>1
    <3> QED
      BY <3>1
  <2>2. CASE l > n
    <3>1. l - 1 \in DOMAIN s' /\ from(l - 1) = l
      BY <1>1, <1>2, <2>2
    <3> QED
      BY <3>1
  <2> QED
    BY <1>1, <2>1, <2>2
<1> HIDE DEF from
<1>8. Waiting' = Waiting \ {s[n]}
  <2>1. ASSUME NEW w \in Waiting' PROVE w \in Waiting /\ w # s[n]
    <3>1. PICK k \in DOMAIN s' : w = s'[k]
      BY DEF Waiting
    <3>2. from(k) \in DOMAIN s /\ from(k) # n /\ w = s[from(k)]
      BY <1>4, <3>1
    <3> QED
      BY <1>1, <1>3, <3>2 DEF Waiting
  <2>2. ASSUME NEW w \in Waiting, w # s[n] PROVE w \in Waiting'
    <3>1. PICK l \in DOMAIN s : w = s[l]
      BY DEF Waiting
    <3>2. PICK k \in DOMAIN s' : from(k) = l
      BY <1>7, <2>2, <3>1
    <3> QED
      BY <1>4, <3>1, <3>2 DEF Waiting
  <2> QED
    BY <2>1, <2>2
<1>9. \A i, j \in DOMAIN s' : i < j =>
        \E k, l \in DOMAIN s : k < l /\ s'[i] = s[k] /\ s'[j] = s[l]
  BY <1>4, <1>5
<1>10. \A i, j \in DOMAIN s' : s'[i] = s'[j] => i = j
  BY <1>1, <1>3, <1>4, <1>6
<1> QED
  BY <1>2, <1>8, <1>9, <1>10

\* The first of an ordered list outranks the rest.
LEMMA FirstIsBest ==
  ASSUME KernelTypeOK, OrderedWaiters, suspend_thread # <<>>
  PROVE  /\ 1 \in DOMAIN suspend_thread
         /\ suspend_thread[1] \in Thread /\ suspend_thread[1] \in Waiting
         /\ \A w \in Waiting :
              current_priority[suspend_thread[1]] <= current_priority[w]
<1> DEFINE s == suspend_thread
<1>1. s \in Seq(Thread) /\ DOMAIN s = 1..Len(s) /\ Len(s) \in Nat
  BY DEF KernelTypeOK
<1>2. 1 \in DOMAIN s /\ s[1] \in Thread /\ s[1] \in Waiting
  <2>1. Len(s) # 0
    BY <1>1
  <2>2. 1 \in DOMAIN s
    BY <1>1, <2>1
  <2> QED
    BY <1>1, <2>2 DEF Waiting
<1>3. current_priority[s[1]] \in Int
  <2>1. \A u \in Thread : current_priority[u] \in Int
    BY PriorityInt
  <2> QED
    BY <1>2, <2>1
<1>4. ASSUME NEW w \in Waiting PROVE current_priority[s[1]] <= current_priority[w]
  <2>1. PICK k \in DOMAIN s : w = s[k]
    BY DEF Waiting
  <2>2. CASE k = 1
    BY <1>3, <2>1, <2>2
  <2>3. CASE 1 < k
    BY <1>2, <2>1, <2>3 DEF OrderedWaiters
  <2> QED
    BY <1>1, <2>2, <2>3
<1> QED
  BY <1>2, <1>4

LEMMA ReleaseHandOverStep ==
  ASSUME KernelInv, NEW t \in Thread, ReleaseHandOver(t)
  PROVE  KernelInv'
<1> DEFINE w == suspend_thread[1]
<1> KernelTypeOK /\ OrderedWaiters /\ OwnershipConsistent
  BY DEF KernelInv
<1>1. /\ t = owner /\ owner \in Thread /\ suspend_thread # <<>>
      /\ current_priority' = [current_priority EXCEPT ![owner] = original_priority]
      /\ owner' = w /\ original_priority' = current_priority[w]
      /\ suspend_thread' = RemoveAt(suspend_thread, 1)
      /\ timed' = timed \ {w} /\ UNCHANGED <<value, hold, asleep>>
  BY DEF ReleaseHandOver
<1>2. 1 \in DOMAIN suspend_thread /\ w \in Thread /\ w \in Waiting /\ w # owner
  BY <1>1, FirstIsBest DEF OwnershipConsistent
<1>3. \A u \in Waiting : current_priority[w] <= current_priority[u]
  BY <1>1, FirstIsBest
<1>4. /\ current_priority' \in [Thread -> 0..255]
      /\ \A u \in Thread : current_priority'[u] = init_priority[u]
      /\ \A u \in Thread : u # owner => current_priority'[u] = current_priority[u]
  BY <1>1, PriorityGivenBack
<1>5. /\ Waiting' = Waiting \ {w}
      /\ suspend_thread' \in Seq(Thread)
      /\ \A i, j \in DOMAIN suspend_thread' : i < j =>
              \E k, l \in DOMAIN suspend_thread :
                /\ k < l
                /\ suspend_thread'[i] = suspend_thread[k]
                /\ suspend_thread'[j] = suspend_thread[l]
      /\ \A i, j \in DOMAIN suspend_thread' :
              suspend_thread'[i] = suspend_thread'[j] => i = j
  BY <1>1, <1>2, RemoveWaiter
<1>6. \A i \in DOMAIN suspend_thread : /\ suspend_thread[i] \in Thread
                                       /\ suspend_thread[i] # owner
  <2>1. \A i \in DOMAIN suspend_thread : suspend_thread[i] \in Waiting
    BY DEF Waiting
  <2>2. suspend_thread \in Seq(Thread)
    BY DEF KernelTypeOK
  <2> QED
    BY <2>1, <2>2 DEF OwnershipConsistent
<1>7. KernelTypeOK'
  <2>1. current_priority' \in [Thread -> Priority]
    BY <1>4 DEF Priority
  <2>2. original_priority' \in Priority
    <3>1. \A u \in Thread : current_priority[u] \in Priority
      BY PriorityFacts DEF Priority
    <3> HIDE DEF w
    <3>2. current_priority[w] \in Priority
      BY <1>2, <3>1
    <3> QED
      BY <1>1, <3>2
  <2>3. ret' \in [Thread -> Result] /\ timed' \subseteq Thread
    BY <1>1 DEF ReleaseHandOver, KernelTypeOK, Result
  <2> QED
    BY <1>1, <1>2, <1>5, <2>1, <2>2, <2>3 DEF KernelTypeOK
<1>8. OwnershipConsistent'
  <2>1. owner # NoThread /\ owner' # NoThread
    BY <1>1, <1>2, ThreadAssumption
  <2>2. owner' \notin Waiting' /\ asleep' \cap Waiting' = {} /\ timed' \subseteq Waiting'
    BY <1>1, <1>5 DEF OwnershipConsistent
  <2>3. (value' = 1 <=> owner' = NoThread) /\ (hold' = 0 <=> owner' = NoThread)
    BY <1>1, <2>1 DEF OwnershipConsistent
  <2> QED
    BY <1>5, <2>1, <2>2, <2>3 DEF OwnershipConsistent
<1>9. PriorityRestored'
  <2>1. current_priority[w] = init_priority[w]
    BY <1>2 DEF KernelInv, PriorityRestored
  <2>2. current_priority'[w] <= init_priority[w]
    BY <1>2, <1>4, PriorityFacts
  <2> QED
    BY <1>1, <1>4, <2>1, <2>2 DEF PriorityRestored
<1>10. OrderedWaiters'
  <2> SUFFICES ASSUME NEW i \in DOMAIN suspend_thread', NEW j \in DOMAIN suspend_thread',
                      i < j
               PROVE  current_priority'[suspend_thread'[i]] <=
                      current_priority'[suspend_thread'[j]]
    BY DEF OrderedWaiters
  <2>1. PICK k \in DOMAIN suspend_thread, l \in DOMAIN suspend_thread :
             /\ k < l
             /\ suspend_thread'[i] = suspend_thread[k]
             /\ suspend_thread'[j] = suspend_thread[l]
    BY <1>5
  <2>2. current_priority[suspend_thread[k]] <= current_priority[suspend_thread[l]]
    BY <2>1 DEF OrderedWaiters
  <2> QED
    BY <1>4, <1>6, <2>1, <2>2
<1>11. NoInversion'
  <2> SUFFICES ASSUME NEW u \in Waiting'
               PROVE  current_priority'[w] <= current_priority'[u]
    BY <1>1 DEF NoInversion
  <2>1. u \in Thread /\ u \in Waiting /\ u # owner
    BY <1>5, <1>6 DEF Waiting
  <2> QED
    BY <1>2, <1>3, <1>4, <2>1
<1> QED
  BY <1>7, <1>8, <1>9, <1>10, <1>11 DEF KernelInv

LEMMA TimeoutStep ==
  ASSUME KernelInv, NEW t \in Thread, rt_thread_timeout(t)
  PROVE  KernelInv'
<1> KernelTypeOK /\ OwnershipConsistent
  BY DEF KernelInv
<1>1. PICK n \in DOMAIN suspend_thread :
           suspend_thread[n] = t /\ suspend_thread' = RemoveAt(suspend_thread, n)
  BY DEF rt_thread_timeout
<1>2. /\ Waiting' = Waiting \ {t}
      /\ suspend_thread' \in Seq(Thread)
      /\ \A i, j \in DOMAIN suspend_thread' : i < j =>
              \E k, l \in DOMAIN suspend_thread :
                /\ k < l
                /\ suspend_thread'[i] = suspend_thread[k]
                /\ suspend_thread'[j] = suspend_thread[l]
      /\ \A i, j \in DOMAIN suspend_thread' :
              suspend_thread'[i] = suspend_thread'[j] => i = j
  BY <1>1, RemoveWaiter
<1>3. /\ UNCHANGED <<value, owner, original_priority, hold, current_priority, asleep>>
      /\ timed' = timed \ {t} /\ ret' \in [Thread -> Result]
  BY DEF rt_thread_timeout, KernelTypeOK, Result
<1>4. KernelTypeOK'
  BY <1>2, <1>3 DEF KernelTypeOK
<1>5. OwnershipConsistent'
  <2>1. suspend_thread # <<>>
    BY <1>1
  <2>2. owner' # NoThread
    BY <1>3, <2>1 DEF OwnershipConsistent
  <2>3. owner' \notin Waiting' /\ asleep' \cap Waiting' = {} /\ timed' \subseteq Waiting'
    BY <1>2, <1>3 DEF OwnershipConsistent
  <2>4. (value' = 1 <=> owner' = NoThread) /\ (hold' = 0 <=> owner' = NoThread)
    BY <1>3 DEF OwnershipConsistent
  <2> QED
    BY <1>2, <2>2, <2>3, <2>4 DEF OwnershipConsistent
<1>6. PriorityRestored'
  BY <1>3 DEF KernelInv, PriorityRestored
<1>7. OrderedWaiters' /\ NoInversion'
  <2>1. OrderedWaiters'
    BY <1>2, <1>3 DEF KernelInv, OrderedWaiters
  <2>2. NoInversion'
    BY <1>2, <1>3 DEF KernelInv, NoInversion
  <2> QED
    BY <2>1, <2>2
<1> QED
  BY <1>4, <1>5, <1>6, <1>7 DEF KernelInv

LEMMA WakeStep ==
  ASSUME KernelInv, (\E t \in Thread : Wake(t)) \/ UNCHANGED kernelVars
  PROVE  KernelInv'
<1>1. UNCHANGED <<mutexVars, current_priority, ret>> /\ asleep' \subseteq asleep
  BY DEF Wake, kernelVars
<1>2. Waiting' = Waiting
  BY <1>1 DEF Waiting, mutexVars
<1>3. KernelTypeOK'
  BY <1>1 DEF KernelInv, KernelTypeOK, mutexVars
<1>4. OwnershipConsistent'
  BY <1>1, <1>2 DEF KernelInv, OwnershipConsistent, mutexVars
<1>5. PriorityRestored' /\ OrderedWaiters' /\ NoInversion'
  BY <1>1, <1>2 DEF KernelInv, PriorityRestored, OrderedWaiters, NoInversion, mutexVars
<1> QED
  BY <1>3, <1>4, <1>5 DEF KernelInv

\* Every call of a thread that is ready preserves the inductive invariant;
\* which ready thread the scheduler picks does not matter to it.
LEMMA CallStep ==
  ASSUME KernelInv, NEW t \in Thread, Ready(t),
         TakeForever(t) \/ TakeTimed(t) \/ TakeNoWait(t) \/ Release(t) \/ Sleep(t)
  PROVE  KernelInv'
<1>1. CASE TakeAgain(t) \/ TakeFull(t) \/ TakeRefused(t)
             \/ ReleaseNotOwner(t) \/ ReleaseNested(t) \/ Sleep(t)
  BY <1>1, OwnStep
<1>2. CASE TakeFree(t)
  BY <1>2, TakeFreeStep
<1>3. CASE TakeWait(t, FALSE)
  BY <1>3, TakeWaitStep
<1>4. CASE TakeWait(t, TRUE)
  BY <1>4, TakeWaitStep
<1>5. CASE ReleaseFree(t)
  BY <1>5, ReleaseFreeStep
<1>6. CASE ReleaseHandOver(t)
  BY <1>6, ReleaseHandOverStep
<1> QED
  BY <1>1, <1>2, <1>3, <1>4, <1>5, <1>6
     DEF TakeForever, TakeTimed, TakeNoWait, Release

LEMMA KernelNextInv ==
  ASSUME KernelInv, [KernelNext]_kernelVars
  PROVE  KernelInv'
<1>1. CASE UNCHANGED kernelVars
  BY <1>1, WakeStep
<1>2. ASSUME NEW t \in Thread, ThreadStep(t) PROVE KernelInv'
  BY <1>2, CallStep DEF ThreadStep, Runs
<1>3. ASSUME NEW t \in Thread, TimerStep(t) PROVE KernelInv'
  BY <1>3, WakeStep, TimeoutStep DEF TimerStep
<1> QED
  BY <1>1, <1>2, <1>3 DEF KernelNext

LEMMA KernelInvariance == KernelSpec => []KernelInv
<1>1. rt_mutex_init => KernelInv
  BY KernelInitInv
<1>2. KernelInv /\ [KernelNext]_kernelVars => KernelInv'
  BY KernelNextInv
<1> QED
  BY <1>1, <1>2, PTL DEF KernelSpec

\* No sequence of nested takes carries the hold count past its ceiling, and every field and the
\* list of suspended threads keep to their types (rtthread/src/ipc.c:685-697).
THEOREM KernelTypes == KernelSpec => []KernelTypeOK
<1>1. KernelInv => KernelTypeOK
  BY DEF KernelInv
<1> QED
  BY <1>1, KernelInvariance, PTL

\* The ownership fields of the mutex always agree with each other and with
\* the list of suspended threads.
THEOREM OwnershipIsConsistent == KernelSpec => [](KernelTypeOK /\ OwnershipConsistent)
<1>1. KernelInv => KernelTypeOK /\ OwnershipConsistent
  BY DEF KernelInv
<1> QED
  BY <1>1, KernelInvariance, PTL

\* A thread that does not own the mutex runs at the priority it was created
\* with, however often it owned the mutex and inherited another before.
THEOREM PriorityIsRestored == KernelSpec => []PriorityRestored
<1>1. KernelInv => PriorityRestored
  BY DEF KernelInv
<1> QED
  BY <1>1, KernelInvariance, PTL

\* The owner is never scheduled behind a thread that waits for it.
THEOREM OwnerInherits == KernelSpec => [](OrderedWaiters /\ NoInversion)
<1>1. KernelInv => OrderedWaiters /\ NoInversion
  BY DEF KernelInv
<1> QED
  BY <1>1, KernelInvariance, PTL

\* While a thread waits for an owner that is ready to run, no thread of a
\* priority in between gets the processor: inheritance bounds the wait.
THEOREM InheritanceBoundsWait == KernelSpec => NoMediumRuns
<1> DEFINE A == \A w \in Waiting, t \in Thread :
                  ThreadStep(t) /\ owner \notin asleep =>
                    t = owner \/ current_priority[t] <= current_priority[w]
<1>1. ASSUME KernelInv PROVE A
  <2> SUFFICES ASSUME NEW w \in Waiting, NEW t \in Thread, ThreadStep(t),
                      owner \notin asleep
               PROVE  current_priority[t] <= current_priority[w]
    OBVIOUS
  <2> KernelTypeOK
    BY <1>1 DEF KernelInv
  <2>0. \A u \in Thread : current_priority[u] \in Int
    BY PriorityFacts
  <2>1. suspend_thread # <<>> /\ w \in Thread
    BY DEF Waiting, KernelTypeOK
  <2>2. owner \in Thread /\ owner \notin Waiting
    BY <1>1, <2>1 DEF KernelInv, OwnershipConsistent, KernelTypeOK
  <2>3. current_priority[t] <= current_priority[owner]
    BY <2>2 DEF ThreadStep, Runs, Ready
  <2>4. current_priority[owner] <= current_priority[w]
    BY <1>1 DEF KernelInv, NoInversion
  <2>5. /\ current_priority[t] \in Int /\ current_priority[owner] \in Int
        /\ current_priority[w] \in Int
    BY <2>0, <2>1, <2>2
  <2> QED
    BY <2>3, <2>4, <2>5
<1>2. KernelInv => [A]_kernelVars
  BY <1>1
<1> QED
  BY <1>2, KernelInvariance, PTL DEF NoMediumRuns

\* A step that gives the mutex to another thread is a hand-over.
LEMMA OnlyHandOver ==
  ASSUME KernelInv, [KernelNext]_kernelVars, owner' # owner, owner # NoThread, owner' # NoThread
  PROVE  \E t \in Thread : ReleaseHandOver(t)
<1>1. CASE UNCHANGED kernelVars
  BY <1>1 DEF kernelVars, mutexVars
<1>2. ASSUME NEW t \in Thread, TimerStep(t) PROVE FALSE
  BY <1>2 DEF TimerStep, Wake, rt_thread_timeout, mutexVars
<1>3. ASSUME NEW t \in Thread, ThreadStep(t) PROVE ReleaseHandOver(t)
  <2>1. ~TakeFree(t)
    BY DEF KernelInv, OwnershipConsistent, KernelTypeOK, TakeFree
  <2>2. ~ReleaseFree(t)
    BY DEF ReleaseFree
  <2>3. CASE \/ TakeAgain(t) \/ TakeFull(t) \/ TakeRefused(t)
             \/ TakeWait(t, FALSE) \/ TakeWait(t, TRUE)
             \/ ReleaseNotOwner(t) \/ ReleaseNested(t) \/ Sleep(t)
    BY <2>3 DEF TakeAgain, TakeFull, TakeRefused, TakeWait, ReleaseNotOwner,
                ReleaseNested, Sleep, mutexVars
  <2> QED
    BY <1>3, <2>1, <2>2, <2>3
       DEF ThreadStep, TakeForever, TakeTimed, TakeNoWait, Release
<1> QED
  BY <1>1, <1>2, <1>3 DEF KernelNext

\* The mutex is handed to a waiting thread none of the others outranks.
THEOREM HandedToHighest == KernelSpec => HandoverToHighest
<1> DEFINE A == owner' # owner /\ owner # NoThread /\ owner' # NoThread =>
                  /\ owner' \in Waiting
                  /\ \A w \in Waiting :
                       current_priority[owner'] <= current_priority[w]
<1>1. ASSUME KernelInv, [KernelNext]_kernelVars PROVE A
  <2> SUFFICES ASSUME owner' # owner, owner # NoThread, owner' # NoThread
               PROVE  A
    OBVIOUS
  <2>1. PICK t \in Thread : ReleaseHandOver(t)
    BY <1>1, OnlyHandOver
  <2>2. suspend_thread # <<>> /\ owner' = suspend_thread[1]
    BY <2>1 DEF ReleaseHandOver
  <2> QED
    BY <1>1, <2>2, FirstIsBest DEF KernelInv
<1>2. KernelInv /\ [KernelNext]_kernelVars => [A]_kernelVars
  BY <1>1
<1> QED
  BY <1>2, KernelInvariance, PTL DEF KernelSpec, HandoverToHighest


-----------------------------------------------------------------------------
\* A thread is on the list only after a take of its own had to wait.
LEMMA NewWaiter ==
  ASSUME KernelInv, [KernelNext]_kernelVars, NEW u \in Waiting' \ Waiting
  PROVE  \E limit \in BOOLEAN : u \in Thread /\ TakeWait(u, limit)
<1> KernelTypeOK /\ OwnershipConsistent
  BY DEF KernelInv
<1>1. suspend_thread' # suspend_thread
  BY DEF Waiting
<1>2. ~UNCHANGED kernelVars
  BY <1>1 DEF kernelVars, mutexVars
<1>3. ASSUME NEW n \in DOMAIN suspend_thread,
             suspend_thread' = RemoveAt(suspend_thread, n)
      PROVE  FALSE
  BY <1>3, RemoveWaiter
<1>4. ASSUME NEW t \in Thread, TimerStep(t) PROVE FALSE
  <2>1. rt_thread_timeout(t)
    BY <1>1, <1>4 DEF TimerStep, Wake, mutexVars
  <2> QED
    BY <1>3, <2>1 DEF rt_thread_timeout
<1>5. ASSUME NEW t \in Thread, ThreadStep(t)
      PROVE  \E limit \in BOOLEAN : TakeWait(t, limit)
  <2>1. ~ReleaseHandOver(t)
    <3> SUFFICES ASSUME ReleaseHandOver(t) PROVE FALSE
      OBVIOUS
    <3>1. suspend_thread # <<>> /\ suspend_thread' = RemoveAt(suspend_thread, 1)
      BY DEF ReleaseHandOver
    <3>2. 1 \in DOMAIN suspend_thread
      BY <3>1 DEF KernelTypeOK
    <3> QED
      BY <1>3, <3>1, <3>2
  <2>2. CASE \/ TakeAgain(t) \/ TakeFull(t) \/ TakeFree(t) \/ TakeRefused(t)
             \/ ReleaseNotOwner(t) \/ ReleaseNested(t) \/ ReleaseFree(t) \/ Sleep(t)
    BY <1>1, <2>2 DEF TakeAgain, TakeFull, TakeFree, TakeRefused, ReleaseNotOwner,
                      ReleaseNested, ReleaseFree, Sleep, mutexVars
  <2> QED
    BY <1>5, <2>1, <2>2
       DEF ThreadStep, TakeForever, TakeTimed, TakeNoWait, Release
<1>6. PICK t \in Thread : \E limit \in BOOLEAN : TakeWait(t, limit)
  BY <1>2, <1>4, <1>5 DEF KernelNext
<1>7. PICK limit \in BOOLEAN : TakeWait(t, limit)
  BY <1>6
<1>8. PICK n \in 1 .. Len(suspend_thread) + 1 :
        suspend_thread' = InsertAt(suspend_thread, n, t)
  BY <1>7 DEF TakeWait
<1>9. u = t
  BY <1>8, InsertWaiter
<1> QED
  BY <1>7, <1>9

\* A newcomer to the list is behind every thread of its own or a better
\* priority, because the list is ordered and the loop that places it stops only
\* before a worse one: equals are served in the order they came.
THEOREM NobodyIsOvertaken == KernelSpec => NoOvertaking
<1> DEFINE A == \A w \in Waiting, t \in Waiting' \ Waiting :
                  current_priority[w] <= current_priority[t] =>
                    \E i, j \in DOMAIN suspend_thread' :
                      i < j /\ suspend_thread'[i] = w /\ suspend_thread'[j] = t
<1>1. ASSUME KernelInv, [KernelNext]_kernelVars PROVE A
  <2> SUFFICES ASSUME NEW w \in Waiting, NEW t \in Waiting' \ Waiting,
                      current_priority[w] <= current_priority[t]
               PROVE  \E i, j \in DOMAIN suspend_thread' :
                        i < j /\ suspend_thread'[i] = w /\ suspend_thread'[j] = t
    OBVIOUS
  <2> KernelTypeOK
    BY <1>1 DEF KernelInv
  <2>0. \A u \in Thread : current_priority[u] \in Int
    BY PriorityFacts
  <2> DEFINE s == suspend_thread
  <2>1. s \in Seq(Thread) /\ Len(s) \in Nat /\ DOMAIN s = 1..Len(s)
    BY DEF KernelTypeOK
  <2>2. t \in Thread /\ \E limit \in BOOLEAN : TakeWait(t, limit)
    BY <1>1, NewWaiter
  <2>3. PICK n \in 1 .. Len(s) + 1 : PlaceFor(t, n) /\ s' = InsertAt(s, n, t)
    BY <2>2 DEF TakeWait
  <2>4. PICK m \in 1..Len(s) : s[m] = w
    BY <2>1 DEF Waiting
  <2>5. /\ DOMAIN s' = 1 .. Len(s) + 1
        /\ \A k \in 1 .. Len(s) + 1 :
             s'[k] = IF k < n THEN s[k] ELSE IF k = n THEN t ELSE s[k - 1]
    <3>1. s' = InsertAt(s, n, t) /\ n \in 1 .. Len(s) + 1
      BY <2>3
    <3> HIDE DEF s
    <3>2. /\ DOMAIN InsertAt(s, n, t) = 1 .. Len(s) + 1
          /\ \A k \in 1 .. Len(s) + 1 :
               InsertAt(s, n, t)[k] =
                 IF k < n THEN s[k] ELSE IF k = n THEN t ELSE s[k - 1]
      BY <2>1, <2>2, <3>1, InsertFacts
    <3> QED
      BY <3>1, <3>2
  <2>6. m < n
    <3> SUFFICES ASSUME n <= m PROVE FALSE
      BY <2>1
    <3>1. n \in DOMAIN s /\ m \in DOMAIN s /\ n <= Len(s)
      BY <2>1
    <3>2. current_priority[t] < current_priority[s[n]]
      BY <2>3, <3>1 DEF PlaceFor
    <3>3. current_priority[s[n]] <= current_priority[w]
      <4>1. CASE n = m
        <5>1. current_priority[w] \in Int
          BY <2>0, <2>1, <2>4
        <5> QED
          BY <2>4, <4>1, <5>1
      <4>2. CASE n < m
        BY <1>1, <2>4, <3>1, <4>2 DEF KernelInv, OrderedWaiters
      <4> QED
        BY <4>1, <4>2
    <3>4. /\ current_priority[t] \in Int /\ current_priority[w] \in Int
          /\ current_priority[s[n]] \in Int
      <4>1. w \in Thread /\ s[n] \in Thread
        BY <2>1, <2>4, <3>1
      <4> QED
        BY <2>0, <2>2, <4>1
    <3> QED
      BY <3>2, <3>3, <3>4
  <2>7. /\ m \in DOMAIN s' /\ n \in DOMAIN s' /\ m < n
        /\ s'[m] = w /\ s'[n] = t
    BY <2>1, <2>4, <2>5, <2>6
  <2> QED
    BY <2>7
<1>2. KernelInv /\ [KernelNext]_kernelVars => [A]_kernelVars
  BY <1>1
<1> QED
  BY <1>2, KernelInvariance, PTL DEF KernelSpec, NoOvertaking
=============================================================================
