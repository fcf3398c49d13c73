--------------------------- MODULE BatchSumProofs ---------------------------
(***************************************************************************)
(* Theorems about BatchSum, for every number of threads, every batch size  *)
(* and every file.  The inductive invariant says who holds which mutex,    *)
(* that the buffer holds the numbers read last, how far the count of the   *)
(* numbers processed is from the number read, and that every number read   *)
(* is in one place.                                                        *)
(***************************************************************************)
EXTENDS BatchSum, TLAPS

\* A mutex is held exactly from its lock to its unlock.
LocksOf(t) ==
  /\ file_mutex = t <=> pc[t] \in {"check", "lock_memory", "read"}
  /\ memory_mutex = t <=> pc[t] \in {"read", "sum"}
  /\ sum_mutex = t <=> pc[t] \in {"load", "store"}

Locks == \A t \in Threads : LocksOf(t)

\* The threads in the order in which main creates and joins them.
Life ==
  /\ \A t \in Threads : pc[t] = "not_created" <=> t > created
  /\ \A t \in Threads : t <= joined => pc[t] = "done"
  /\ result # <<>> => joined = ThreadCount

\* Nobody reads: the count is the number read, or the file ended early.
Counted ==
  \/ total_processed_count = next /\ next <= TotalCount
  \/ total_processed_count >= TotalCount /\ next = length /\ next < TotalCount

\* How the count and the numbers read go together.
ProgressOf(t) ==
  /\ pc[t] = "lock_memory" =>
       /\ total_processed_count + current_batch_size[t] <= TotalCount
       /\ i[t] = 0
  /\ pc[t] = "read" =>
       /\ i[t] <= current_batch_size[t]
       /\ \/ /\ total_processed_count + current_batch_size[t] <= TotalCount
             /\ total_processed_count + i[t] = next
          \/ /\ total_processed_count = TotalCount
             /\ next = length /\ next < TotalCount
             /\ i[t] = current_batch_size[t]
  /\ pc[t] = "done" =>
       /\ total_processed_count >= TotalCount
       /\ \A u \in Threads : pc[u] \notin {"lock_memory", "read"}

Progress ==
  /\ (\A t \in Threads : pc[t] # "read") => Counted
  /\ \A t \in Threads : ProgressOf(t)

\* How many slots of the buffer hold a number that was read and not yet added.
Filled(t) == IF pc[t] = "read" THEN i[t]
             ELSE IF pc[t] = "sum" THEN current_batch_size[t] ELSE 0

\* The buffer holds the numbers read last.
BufferOf(t) ==
  /\ Filled(t) <= next
  /\ \A s \in 1 .. Filled(t) : memory[s] = next - Filled(t) + s

Buffer == \A t \in Threads : BufferOf(t)

\* Every number read is in the sum or in one thread's hands.
Placed ==
  /\ \A n \in 1 .. next : n \in total_sum \/ \E t \in Threads : n \in Held(t)
  /\ \A t \in Threads : Held(t) \subseteq 1 .. next
  /\ total_sum \subseteq 1 .. next
  /\ \A t \in Threads : Held(t) \cap total_sum = {}
  /\ \A t, u \in Threads : t # u => Held(t) \cap Held(u) = {}

IInv == TypeOK /\ Locks /\ Life /\ Progress /\ Buffer /\ NoLostUpdate /\ Placed

-----------------------------------------------------------------------------
Places == {"not_created", "lock_file", "check", "lock_memory", "read", "sum", "lock_sum",
           "load", "store", "done"}

\* No thread is the value of a free mutex.
LEMMA ThreadsLemma == \A t \in Threads : t \in Nat /\ t # Free /\ 1 <= t /\ t <= ThreadCount
  BY BatchSumAssumption DEF Threads, Free

\* A thread goes from one place to another.
LEMMA Goes ==
  ASSUME pc \in [Threads -> Places], NEW t \in Threads, NEW from, NEW to \in Places,
         Goto(t, from, to)
  PROVE  /\ pc' \in [Threads -> Places]
         /\ pc[t] = from /\ pc'[t] = to
         /\ \A u \in Threads : u # t => pc'[u] = pc[u]
  BY DEF Goto

\* What the types say of the numbers.
LEMMA Numbers ==
  ASSUME TypeOK
  PROVE  /\ length \in Nat /\ next \in Nat /\ next <= length
         /\ total_processed_count \in Nat
         /\ \A t \in Threads : /\ i[t] \in Nat /\ i[t] <= BatchSize
                               /\ current_batch_size[t] \in Nat
                               /\ current_batch_size[t] <= BatchSize
         /\ BatchSize \in Nat /\ BatchSize >= 1
         /\ TotalCount \in Nat /\ TotalCount >= 1
         /\ ThreadCount \in Nat /\ ThreadCount >= 1
         /\ NumSize \in Nat
  BY BatchSumAssumption DEF TypeOK

LEMMA TypeStep ==
  ASSUME TypeOK, [Next]_vars
  PROVE  TypeOK'
<1> USE DEF shared, mutexes, locals, main
<1>0. /\ pc \in [Threads -> Places]
      /\ \A p : p \in Places <=> p \in {"not_created", "lock_file", "check", "lock_memory",
                                  "read", "sum", "lock_sum", "load", "store", "done"}
  BY DEF TypeOK, Places
<1>1. CASE UNCHANGED vars
  BY <1>1 DEF vars, TypeOK
<1>2. CASE CreateThread
  <2>1. created + 1 \in 0 .. ThreadCount
    BY <1>2, Numbers DEF CreateThread, TypeOK
  <2> QED
    BY <1>2, <2>1 DEF CreateThread, TypeOK
<1>3. CASE JoinThread
  <2>1. joined + 1 \in 0 .. ThreadCount
    BY <1>3, Numbers DEF JoinThread, TypeOK
  <2> QED
    BY <1>3, <2>1 DEF JoinThread, TypeOK
<1>4. CASE PrintSum
  <2>1. result' = <<total_sum>> /\ total_sum \in SUBSET Nat
    BY <1>4 DEF PrintSum, TypeOK
  <2>2. result' \in Seq(SUBSET Nat)
    BY <2>1
  <2> QED
    BY <1>4, <2>2 DEF PrintSum, TypeOK
<1>5. ASSUME NEW t \in Threads, LockFile(t) PROVE TypeOK'
  <2>1. pc' \in [Threads -> Places]
    BY <1>0, <1>5, Goes DEF LockFile, Places
  <2> QED
    BY <1>5, <2>1 DEF LockFile, TypeOK, Places
<1>6. ASSUME NEW t \in Threads, Leave(t) PROVE TypeOK'
  <2>1. pc' \in [Threads -> Places]
    BY <1>0, <1>6, Goes DEF Leave, Places
  <2> QED
    BY <1>6, <2>1 DEF Leave, TypeOK, Places
<1>7. ASSUME NEW t \in Threads, TakeBatch(t) PROVE TypeOK'
  <2>1. pc' \in [Threads -> Places]
    BY <1>0, <1>7, Goes DEF TakeBatch, Places
  <2>2. batchToRead \in 0 .. BatchSize
    BY <1>7, Numbers DEF TakeBatch, batchToRead
  <2>3. 0 \in 0 .. BatchSize
    BY Numbers
  <2>4. /\ current_batch_size' \in [Threads -> 0 .. BatchSize]
        /\ i' \in [Threads -> 0 .. BatchSize]
    BY <1>7, <2>2, <2>3 DEF TakeBatch, TypeOK
  <2> QED
    BY <1>7, <2>1, <2>4 DEF TakeBatch, TypeOK, Places
<1>8. ASSUME NEW t \in Threads, LockMemory(t) PROVE TypeOK'
  <2>1. pc' \in [Threads -> Places]
    BY <1>0, <1>8, Goes DEF LockMemory, Places
  <2> QED
    BY <1>8, <2>1 DEF LockMemory, TypeOK, Places
<1>9. ASSUME NEW t \in Threads, ReadNumber(t) PROVE TypeOK'
  <2>1. next + 1 \in 0 .. length /\ next + 1 \in Nat /\ i[t] + 1 \in 0 .. BatchSize
    BY <1>9, Numbers DEF ReadNumber
  <2>2. next' \in 0 .. length'
    BY <1>9, <2>1 DEF ReadNumber
  <2>3. memory' \in [1 .. BatchSize -> Nat]
    BY <1>9, <2>1 DEF ReadNumber, TypeOK
  <2>4. i' \in [Threads -> 0 .. BatchSize]
    BY <1>9, <2>1 DEF ReadNumber, TypeOK
  <2> QED
    BY <1>9, <2>2, <2>3, <2>4 DEF ReadNumber, TypeOK
<1>10. ASSUME NEW t \in Threads, EndOfFile(t) PROVE TypeOK'
  <2>1. /\ current_batch_size' \in [Threads -> 0 .. BatchSize]
        /\ total_processed_count' \in Nat
    BY <1>10, Numbers DEF EndOfFile, TypeOK
  <2> QED
    BY <1>10, <2>1 DEF EndOfFile, TypeOK
<1>11. ASSUME NEW t \in Threads, FinishReading(t) PROVE TypeOK'
  <2>1. pc' \in [Threads -> Places]
    BY <1>0, <1>11, Goes DEF FinishReading, Places
  <2>2. total_processed_count' \in Nat
    BY <1>11, Numbers DEF FinishReading
  <2> QED
    BY <1>11, <2>1, <2>2 DEF FinishReading, TypeOK, Places
<1>12. ASSUME NEW t \in Threads, SumBatch(t) PROVE TypeOK'
  <2>1. pc' \in [Threads -> Places]
    BY <1>0, <1>12, Goes DEF SumBatch, Places
  <2>2. clearedMemory \in [1 .. BatchSize -> Nat]
    <3>1. \A s \in 1 .. BatchSize :
            (IF (s - 1) * NumSize < BatchSize THEN 0 ELSE memory[s]) \in Nat
      BY DEF TypeOK
    <3> QED
      BY <3>1 DEF clearedMemory
  <2>3. {memory[s] : s \in 1 .. current_batch_size[t]} \ {0} \subseteq Nat
    <3>1. \A s \in 1 .. current_batch_size[t] : memory[s] \in Nat
      <4>1. \A s \in 1 .. current_batch_size[t] : s \in 1 .. BatchSize
        BY Numbers
      <4>2. memory \in [1 .. BatchSize -> Nat]
        BY DEF TypeOK
      <4> QED
        BY <4>1, <4>2
    <3>2. \A x \in {memory[s] : s \in 1 .. current_batch_size[t]} : x \in Nat
      BY <3>1, Zenon
    <3> QED
      BY <3>2
  <2>4. local_sum' \in [Threads -> SUBSET Nat]
    BY <1>12, <2>3 DEF SumBatch, TypeOK
  <2> QED
    BY <1>12, <2>1, <2>2, <2>4 DEF SumBatch, TypeOK, Places
<1>13. ASSUME NEW t \in Threads, LockSum(t) PROVE TypeOK'
  <2>1. pc' \in [Threads -> Places]
    BY <1>0, <1>13, Goes DEF LockSum, Places
  <2> QED
    BY <1>13, <2>1 DEF LockSum, TypeOK, Places
<1>14. ASSUME NEW t \in Threads, LoadSum(t) PROVE TypeOK'
  <2>1. pc' \in [Threads -> Places]
    BY <1>0, <1>14, Goes DEF LoadSum, Places
  <2>2. loaded' \in [Threads -> SUBSET Nat]
    BY <1>14 DEF LoadSum, TypeOK
  <2> QED
    BY <1>14, <2>1, <2>2 DEF LoadSum, TypeOK, Places
<1>15. ASSUME NEW t \in Threads, StoreSum(t) PROVE TypeOK'
  <2>1. pc' \in [Threads -> Places]
    BY <1>0, <1>15, Goes DEF StoreSum, Places
  <2>2. total_sum' \subseteq Nat
    BY <1>15 DEF StoreSum, TypeOK
  <2> QED
    BY <1>15, <2>1, <2>2 DEF StoreSum, TypeOK, Places
<1> QED
  BY <1>1, <1>2, <1>3, <1>4, <1>5, <1>6, <1>7, <1>8, <1>9, <1>10, <1>11, <1>12, <1>13,
     <1>14, <1>15
  DEF Next, Main, Worker, Finished

LEMMA LocksStep ==
  ASSUME TypeOK, Locks, Life, [Next]_vars
  PROVE  Locks'
<1> USE DEF shared, mutexes, locals, main
<1>0. pc \in [Threads -> Places]
  BY DEF TypeOK, Places
<1> SUFFICES ASSUME NEW u \in Threads
             PROVE  LocksOf(u)'
  BY DEF Locks
<1>1. u # Free /\ LocksOf(u)
  BY ThreadsLemma DEF Locks
<1>2. CASE UNCHANGED vars
  BY <1>1, <1>2 DEF vars, LocksOf
<1>3. CASE CreateThread
  <2>1. created \in Nat /\ created + 1 \in Threads /\ created + 1 > created
    BY <1>3, BatchSumAssumption DEF CreateThread, TypeOK, Threads
  <2>2. pc[created + 1] = "not_created"
    BY <2>1 DEF Life
  <2> QED
    BY <1>0, <1>1, <1>3, <2>1, <2>2 DEF CreateThread, LocksOf
<1>4. CASE JoinThread \/ PrintSum
  BY <1>1, <1>4 DEF JoinThread, PrintSum, LocksOf
<1>5. ASSUME NEW t \in Threads, LockFile(t) PROVE LocksOf(u)'
  BY <1>0, <1>1, <1>5 DEF LockFile, Goto, Locks, LocksOf
<1>6. ASSUME NEW t \in Threads, Leave(t) PROVE LocksOf(u)'
  BY <1>0, <1>1, <1>6 DEF Leave, Goto, Locks, LocksOf
<1>7. ASSUME NEW t \in Threads, TakeBatch(t) PROVE LocksOf(u)'
  BY <1>0, <1>1, <1>7 DEF TakeBatch, Goto, Locks, LocksOf
<1>8. ASSUME NEW t \in Threads, LockMemory(t) PROVE LocksOf(u)'
  BY <1>0, <1>1, <1>8 DEF LockMemory, Goto, Locks, LocksOf
<1>9. ASSUME NEW t \in Threads, ReadNumber(t) PROVE LocksOf(u)'
  BY <1>0, <1>1, <1>9 DEF ReadNumber, Goto, Locks, LocksOf
<1>10. ASSUME NEW t \in Threads, EndOfFile(t) PROVE LocksOf(u)'
  BY <1>0, <1>1, <1>10 DEF EndOfFile, Goto, Locks, LocksOf
<1>11. ASSUME NEW t \in Threads, FinishReading(t) PROVE LocksOf(u)'
  BY <1>0, <1>1, <1>11 DEF FinishReading, Goto, Locks, LocksOf
<1>12. ASSUME NEW t \in Threads, SumBatch(t) PROVE LocksOf(u)'
  BY <1>0, <1>1, <1>12 DEF SumBatch, Goto, Locks, LocksOf
<1>13. ASSUME NEW t \in Threads, LockSum(t) PROVE LocksOf(u)'
  BY <1>0, <1>1, <1>13 DEF LockSum, Goto, Locks, LocksOf
<1>14. ASSUME NEW t \in Threads, LoadSum(t) PROVE LocksOf(u)'
  BY <1>0, <1>1, <1>14 DEF LoadSum, Goto, Locks, LocksOf
<1>15. ASSUME NEW t \in Threads, StoreSum(t) PROVE LocksOf(u)'
  BY <1>0, <1>1, <1>15 DEF StoreSum, Goto, Locks, LocksOf
<1> QED
  BY <1>2, <1>3, <1>4, <1>5, <1>6, <1>7, <1>8, <1>9,
     <1>10, <1>11, <1>12, <1>13, <1>14, <1>15
  DEF Next, Main, Worker, Finished

LEMMA LifeStep ==
  ASSUME TypeOK, Life, [Next]_vars
  PROVE  Life'
<1> USE DEF shared, mutexes, locals, main
<1>0. pc \in [Threads -> Places]
  BY DEF TypeOK, Places
<1>1. CASE UNCHANGED vars
  BY <1>1 DEF vars, Life
<1>2. CASE CreateThread
  <2>1. /\ created \in Nat /\ created + 1 \in Threads /\ created + 1 > created
        /\ \A t \in Threads : t > created + 1 <=> t > created /\ t # created + 1
    BY <1>2, BatchSumAssumption DEF CreateThread, TypeOK, Threads
  <2>2. pc[created + 1] = "not_created"
    BY <2>1 DEF Life
  <2> QED
    BY <1>0, <1>2, <2>1, <2>2 DEF CreateThread, Life
<1>3. CASE JoinThread
  <2>1. \A t \in Threads : t <= joined + 1 <=> t <= joined \/ t = joined + 1
    BY <1>3, BatchSumAssumption DEF JoinThread, TypeOK, Threads
  <2>2. joined # ThreadCount
    BY <1>3, BatchSumAssumption DEF JoinThread, TypeOK
  <2> QED
    BY <1>3, <2>1, <2>2 DEF JoinThread, Life
<1>4. CASE PrintSum
  BY <1>4 DEF PrintSum, Life
<1>5. ASSUME NEW t \in Threads, Worker(t) PROVE Life'
  <2>1. /\ UNCHANGED main
        /\ \A u \in Threads : u # t => pc'[u] = pc[u]
        /\ pc[t] # "not_created" /\ pc'[t] # "not_created"
        /\ pc[t] # "done"
    BY <1>0, <1>5, Goes DEF Worker, LockFile, Leave, TakeBatch, LockMemory, ReadNumber,
       EndOfFile, FinishReading, SumBatch, LockSum, LoadSum, StoreSum, Goto
  <2> QED
    BY <2>1 DEF Life
<1> QED
  BY <1>1, <1>2, <1>3, <1>4, <1>5 DEF Next, Main, Finished


\* One thread at a time is between the lock and the unlock of the file.
LEMMA OneReader ==
  ASSUME Locks, NEW t \in Threads, pc[t] \in {"check", "lock_memory", "read"}
  PROVE  \A u \in Threads : u # t => pc[u] \notin {"check", "lock_memory", "read"}
  BY DEF Locks, LocksOf

\* What a step of the threads that leaves the file alone leaves alone.
LEMMA ProgressKept ==
  ASSUME Progress,
         UNCHANGED <<length, next, total_processed_count, current_batch_size, i>>,
         \A u \in Threads : \/ pc'[u] = pc[u]
                            \/ pc[u] # "read" /\ pc'[u] \notin {"lock_memory", "read", "done"}
  PROVE  Progress'
<1>1. ASSUME NEW u \in Threads PROVE ProgressOf(u)'
  BY DEF Progress, ProgressOf
<1> QED
  BY <1>1 DEF Progress, Counted

LEMMA ProgressStep ==
  ASSUME TypeOK, Locks, Life, Progress, [Next]_vars
  PROVE  Progress'
<1> USE DEF shared, mutexes, locals, main
<1>0. pc \in [Threads -> Places]
  BY DEF TypeOK, Places
<1>1. CASE UNCHANGED vars
  BY <1>1, ProgressKept DEF vars
<1>2. CASE CreateThread
  <2>1. created + 1 \in Threads /\ created + 1 > created
    BY <1>2, BatchSumAssumption DEF CreateThread, TypeOK, Threads
  <2>2. pc[created + 1] = "not_created"
    BY <2>1 DEF Life
  <2> QED
    BY <1>0, <1>2, <2>1, <2>2, ProgressKept DEF CreateThread
<1>3. CASE JoinThread \/ PrintSum
  BY <1>3, ProgressKept DEF JoinThread, PrintSum
<1>4. ASSUME NEW t \in Threads,
             \/ LockFile(t) \/ SumBatch(t) \/ LockSum(t) \/ LoadSum(t) \/ StoreSum(t)
      PROVE  Progress'
  <2>1. \A u \in Threads : \/ pc'[u] = pc[u]
                           \/ pc[u] # "read" /\ pc'[u] \notin {"lock_memory", "read", "done"}
    BY <1>0, <1>4 DEF LockFile, SumBatch, LockSum, LoadSum, StoreSum, Goto
  <2>2. UNCHANGED <<length, next, total_processed_count, current_batch_size, i>>
    BY <1>4 DEF LockFile, SumBatch, LockSum, LoadSum, StoreSum
  <2> QED
    BY <2>1, <2>2, ProgressKept
<1>5. ASSUME NEW t \in Threads, Leave(t) PROVE Progress'
  <2>1. /\ pc[t] = "check" /\ pc'[t] = "done"
        /\ \A u \in Threads : u # t => pc'[u] = pc[u]
        /\ \A u \in Threads : u # t => pc[u] \notin {"lock_memory", "read"}
    BY <1>0, <1>5, OneReader DEF Leave, Goto
  <2> QED
    BY <1>5, <2>1 DEF Leave, Progress, ProgressOf, Counted
<1>6. ASSUME NEW t \in Threads, TakeBatch(t) PROVE Progress'
  <2>1. /\ pc[t] = "check" /\ pc'[t] = "lock_memory"
        /\ \A u \in Threads : u # t => /\ pc'[u] = pc[u]
                                       /\ current_batch_size'[u] = current_batch_size[u]
                                       /\ i'[u] = i[u]
    BY <1>0, <1>6 DEF TakeBatch, Goto, TypeOK
  <2>2. /\ current_batch_size'[t] = batchToRead /\ i'[t] = 0
        /\ UNCHANGED <<length, next, total_processed_count>>
    BY <1>6 DEF TakeBatch, TypeOK
  <2>3. total_processed_count + batchToRead <= TotalCount
    BY <1>6, Numbers DEF TakeBatch, batchToRead
  <2>4. \A u \in Threads : pc'[u] # "done"
    BY <1>6, <2>1, Numbers DEF TakeBatch, Progress, ProgressOf
  <2>5. ASSUME NEW u \in Threads PROVE ProgressOf(u)'
    BY <2>1, <2>2, <2>3, <2>4 DEF Progress, ProgressOf
  <2>6. (\A u \in Threads : pc'[u] # "read") => Counted'
    BY <2>1, <2>2 DEF Progress, Counted
  <2> QED
    BY <2>5, <2>6 DEF Progress
<1>7. ASSUME NEW t \in Threads, LockMemory(t) PROVE Progress'
  <2>1. /\ pc[t] = "lock_memory" /\ pc'[t] = "read"
        /\ \A u \in Threads : u # t => pc'[u] = pc[u]
        /\ \A u \in Threads : u # t => pc[u] \notin {"lock_memory", "read"}
    BY <1>0, <1>7, OneReader DEF LockMemory, Goto
  <2>2. UNCHANGED <<length, next, total_processed_count, current_batch_size, i>>
    BY <1>7 DEF LockMemory
  <2>3. Counted /\ ProgressOf(t)
    BY <2>1 DEF Progress
  <2>4. ProgressOf(t)'
    BY <2>1, <2>2, <2>3, Numbers DEF Counted, ProgressOf
  <2>5. \A u \in Threads : pc'[u] # "done"
    BY <2>1 DEF Progress, ProgressOf
  <2>6. ASSUME NEW u \in Threads, u # t PROVE ProgressOf(u)'
    BY <2>1, <2>5, <2>6 DEF ProgressOf
  <2> QED
    BY <2>1, <2>4, <2>6 DEF Progress
<1>8. ASSUME NEW t \in Threads, ReadNumber(t) PROVE Progress'
  <2>1. /\ pc[t] = "read" /\ pc' = pc
        /\ \A u \in Threads : u # t => pc[u] \notin {"lock_memory", "read", "done"}
    BY <1>8, OneReader DEF ReadNumber, Progress, ProgressOf
  <2>2. /\ i'[t] = i[t] + 1 /\ next' = next + 1
        /\ UNCHANGED <<length, total_processed_count, current_batch_size>>
        /\ i[t] < current_batch_size[t] /\ next < length
    BY <1>8 DEF ReadNumber, TypeOK
  <2>3. ProgressOf(t)'
    BY <2>1, <2>2, Numbers DEF Progress, ProgressOf
  <2>4. ASSUME NEW u \in Threads, u # t PROVE ProgressOf(u)'
    BY <2>1, <2>4 DEF ProgressOf
  <2> QED
    BY <2>1, <2>3, <2>4 DEF Progress
<1>9. ASSUME NEW t \in Threads, EndOfFile(t) PROVE Progress'
  <2>1. /\ pc[t] = "read" /\ pc' = pc
        /\ \A u \in Threads : u # t => pc[u] \notin {"lock_memory", "read", "done"}
    BY <1>9, OneReader DEF EndOfFile, Progress, ProgressOf
  <2>2. /\ current_batch_size'[t] = i[t] /\ total_processed_count' = TotalCount
        /\ UNCHANGED <<length, next, i>>
        /\ i[t] < current_batch_size[t] /\ next = length
    BY <1>9 DEF EndOfFile, TypeOK
  <2>3. ProgressOf(t)'
    BY <2>1, <2>2, Numbers DEF Progress, ProgressOf
  <2>4. ASSUME NEW u \in Threads, u # t PROVE ProgressOf(u)'
    BY <2>1, <2>4 DEF ProgressOf
  <2> QED
    BY <2>1, <2>3, <2>4 DEF Progress
<1>10. ASSUME NEW t \in Threads, FinishReading(t) PROVE Progress'
  <2>1. /\ pc[t] = "read" /\ pc'[t] = "sum"
        /\ \A u \in Threads : u # t => pc'[u] = pc[u]
        /\ \A u \in Threads : u # t => pc[u] \notin {"lock_memory", "read", "done"}
    BY <1>0, <1>10, OneReader DEF FinishReading, Goto, Progress, ProgressOf
  <2>2. /\ total_processed_count' = total_processed_count + current_batch_size[t]
        /\ UNCHANGED <<length, next>>
        /\ i[t] = current_batch_size[t]
    BY <1>10 DEF FinishReading
  <2>3. Counted'
    BY <2>1, <2>2, Numbers DEF Progress, ProgressOf, Counted
  <2>4. ASSUME NEW u \in Threads PROVE ProgressOf(u)'
    BY <2>1 DEF ProgressOf
  <2> QED
    BY <2>3, <2>4 DEF Progress
<1> QED
  BY <1>1, <1>2, <1>3, <1>4, <1>5, <1>6, <1>7, <1>8, <1>9, <1>10
  DEF Next, Main, Worker, Finished


\* One thread at a time is between the lock and the unlock of the buffer.
LEMMA OneOwner ==
  ASSUME Locks, NEW t \in Threads, pc[t] \in {"read", "sum"}
  PROVE  \A u \in Threads : u # t => pc[u] \notin {"read", "sum"}
  BY DEF Locks, LocksOf

LEMMA BufferStep ==
  ASSUME TypeOK, Locks, Life, Progress, Buffer, [Next]_vars
  PROVE  Buffer'
<1> USE DEF shared, mutexes, locals, main
<1>0. pc \in [Threads -> Places]
  BY DEF TypeOK, Places
<1> SUFFICES ASSUME NEW u \in Threads
             PROVE  BufferOf(u)'
  BY DEF Buffer
<1>1. BufferOf(u)
  BY DEF Buffer
<1>2. CASE UNCHANGED vars
  BY <1>1, <1>2 DEF vars, BufferOf, Filled
<1>3. CASE CreateThread
  <2>1. created + 1 \in Threads /\ created + 1 > created
    BY <1>3, BatchSumAssumption DEF CreateThread, TypeOK, Threads
  <2>2. pc[created + 1] = "not_created"
    BY <2>1 DEF Life
  <2>3. Filled(u)' = Filled(u)
    BY <1>0, <1>3, <2>1, <2>2 DEF CreateThread, Filled
  <2> QED
    BY <1>1, <1>3, <2>3 DEF CreateThread, BufferOf
<1>4. CASE JoinThread \/ PrintSum
  BY <1>1, <1>4 DEF JoinThread, PrintSum, BufferOf, Filled
<1>5. ASSUME NEW t \in Threads,
             \/ LockFile(t) \/ Leave(t) \/ LockSum(t) \/ LoadSum(t) \/ StoreSum(t)
      PROVE  BufferOf(u)'
  <2>1. Filled(u)' = Filled(u)
    BY <1>0, <1>5 DEF LockFile, Leave, LockSum, LoadSum, StoreSum, Goto, Filled
  <2>2. UNCHANGED <<next, memory>>
    BY <1>5 DEF LockFile, Leave, LockSum, LoadSum, StoreSum
  <2> QED
    BY <1>1, <2>1, <2>2 DEF BufferOf
<1>6. ASSUME NEW t \in Threads, TakeBatch(t) PROVE BufferOf(u)'
  <2>1. Filled(u)' = Filled(u)
    BY <1>0, <1>6 DEF TakeBatch, Goto, Filled, TypeOK
  <2> QED
    BY <1>1, <1>6, <2>1 DEF TakeBatch, BufferOf
<1>7. ASSUME NEW t \in Threads, LockMemory(t) PROVE BufferOf(u)'
  <2>1. Filled(u)' = Filled(u)
    BY <1>0, <1>7 DEF LockMemory, Goto, Filled, Progress, ProgressOf
  <2> QED
    BY <1>1, <1>7, <2>1 DEF LockMemory, BufferOf
<1>8. ASSUME NEW t \in Threads, ReadNumber(t) PROVE BufferOf(u)'
  <2>1. pc' = pc /\ pc[t] = "read" /\ next' = next + 1 /\ i[t] < current_batch_size[t]
    BY <1>8 DEF ReadNumber
  <2>2. CASE u = t
    <3>1. /\ Filled(t) = i[t] /\ Filled(t)' = i[t] + 1
          /\ \A s \in 1 .. BatchSize :
               memory'[s] = IF s = i[t] + 1 THEN next + 1 ELSE memory[s]
      BY <1>8, <2>1 DEF ReadNumber, TypeOK, Filled
    <3>2. /\ \A s \in 1 .. i[t] + 1 : s \in 1 .. BatchSize
          /\ \A s \in 1 .. i[t] + 1 : s \in 1 .. i[t] \/ s = i[t] + 1
      BY <2>1, Numbers
    <3>3. ASSUME NEW s \in 1 .. i[t] + 1
          PROVE  memory'[s] = (next + 1) - (i[t] + 1) + s
      <4>1. CASE s = i[t] + 1
        BY <3>1, <3>2, <4>1, Numbers
      <4>2. CASE s \in 1 .. i[t]
        BY <1>1, <2>2, <3>1, <3>2, <4>2, Numbers DEF BufferOf
      <4> QED
        BY <3>2, <4>1, <4>2
    <3>4. i[t] + 1 <= next + 1
      BY <1>1, <2>2, <3>1, Numbers DEF BufferOf
    <3> QED
      BY <2>1, <2>2, <3>1, <3>3, <3>4 DEF BufferOf
  <2>3. CASE u # t
    <3>1. Filled(u)' = 0
      BY <2>1, <2>3, OneOwner DEF Filled
    <3> QED
      BY <2>1, <3>1, Numbers DEF BufferOf
  <2> QED
    BY <2>2, <2>3
<1>9. ASSUME NEW t \in Threads, EndOfFile(t) PROVE BufferOf(u)'
  <2>1. Filled(u)' = Filled(u)
    BY <1>9 DEF EndOfFile, Filled, TypeOK
  <2> QED
    BY <1>1, <1>9, <2>1 DEF EndOfFile, BufferOf
<1>10. ASSUME NEW t \in Threads, FinishReading(t) PROVE BufferOf(u)'
  <2>1. Filled(u)' = Filled(u)
    BY <1>0, <1>10 DEF FinishReading, Goto, Filled
  <2> QED
    BY <1>1, <1>10, <2>1 DEF FinishReading, BufferOf
<1>11. ASSUME NEW t \in Threads, SumBatch(t) PROVE BufferOf(u)'
  <2>1. Filled(u)' = 0
    BY <1>0, <1>11, OneOwner DEF SumBatch, Goto, Filled
  <2>2. next' = next
    BY <1>11 DEF SumBatch
  <2> QED
    BY <2>1, <2>2, Numbers DEF BufferOf
<1> QED
  BY <1>2, <1>3, <1>4, <1>5, <1>6, <1>7, <1>8, <1>9, <1>10, <1>11
  DEF Next, Main, Worker, Finished

LEMMA NoLostUpdateStep ==
  ASSUME TypeOK, Locks, Life, NoLostUpdate, [Next]_vars
  PROVE  NoLostUpdate'
<1> USE DEF shared, mutexes, locals, main
<1>0. pc \in [Threads -> Places]
  BY DEF TypeOK, Places
<1>1. CASE UNCHANGED vars
  BY <1>1 DEF vars, NoLostUpdate
<1>2. CASE Main
  BY <1>0, <1>2 DEF Main, CreateThread, JoinThread, PrintSum, NoLostUpdate
<1>3. ASSUME NEW t \in Threads, Worker(t), ~ LoadSum(t), ~ StoreSum(t)
      PROVE  NoLostUpdate'
  <2>1. UNCHANGED <<total_sum, loaded>>
    BY <1>3 DEF Worker, LockFile, Leave, TakeBatch, LockMemory, ReadNumber, EndOfFile,
       FinishReading, SumBatch, LockSum
  <2>2. \A u \in Threads : pc'[u] = "store" => pc[u] = "store"
    BY <1>0, <1>3 DEF Worker, LockFile, Leave, TakeBatch, LockMemory, ReadNumber, EndOfFile,
       FinishReading, SumBatch, LockSum, Goto
  <2> QED
    BY <2>1, <2>2 DEF NoLostUpdate
<1>4. ASSUME NEW t \in Threads, LoadSum(t) PROVE NoLostUpdate'
  BY <1>0, <1>4 DEF LoadSum, Goto, NoLostUpdate, TypeOK
<1>5. ASSUME NEW t \in Threads, StoreSum(t) PROVE NoLostUpdate'
  <2>1. \A u \in Threads : pc'[u] # "store"
    BY <1>0, <1>5 DEF StoreSum, Goto, Locks, LocksOf
  <2> QED
    BY <2>1 DEF NoLostUpdate
<1> QED
  BY <1>1, <1>2, <1>3, <1>4, <1>5 DEF Next, Finished


\* A batch in the buffer is the numbers read last.
LEMMA HeldRange ==
  ASSUME TypeOK, Buffer, NEW t \in Threads, pc[t] \in {"read", "sum"}
  PROVE  /\ Filled(t) \in Nat /\ Filled(t) <= next
         /\ Held(t) = {memory[s] : s \in 1 .. Filled(t)}
         /\ \A n \in Held(t) : n \in Nat /\ n > 0
<1>1. Filled(t) \in Nat /\ Filled(t) <= next
  BY Numbers DEF Buffer, BufferOf, Filled
<1>2. Held(t) = {memory[s] : s \in 1 .. Filled(t)}
  BY DEF Held, Filled
<1>3. ASSUME NEW s \in 1 .. Filled(t) PROVE memory[s] \in Nat /\ memory[s] > 0
  BY <1>1, Numbers DEF Buffer, BufferOf
<1> QED
  BY <1>1, <1>2, <1>3

\* What a step that moves no number leaves alone.
LEMMA PlacedKept ==
  ASSUME Placed, UNCHANGED <<next, total_sum>>,
         \A u \in Threads : Held(u)' = Held(u)
  PROVE  Placed'
  BY DEF Placed

LEMMA PlacedStep ==
  ASSUME TypeOK, Locks, Life, Progress, Buffer, NoLostUpdate, Placed, [Next]_vars
  PROVE  Placed'
<1> USE DEF shared, mutexes, locals, main
<1>0. pc \in [Threads -> Places]
  BY DEF TypeOK, Places
<1>1. CASE UNCHANGED vars
  BY <1>1, PlacedKept DEF vars, Held
<1>2. CASE CreateThread
  <2>1. created + 1 \in Threads /\ created + 1 > created
    BY <1>2, BatchSumAssumption DEF CreateThread, TypeOK, Threads
  <2>2. pc[created + 1] = "not_created"
    BY <2>1 DEF Life
  <2>3. ASSUME NEW u \in Threads PROVE Held(u)' = Held(u)
    BY <1>0, <1>2, <2>1, <2>2 DEF CreateThread, Held
  <2> QED
    BY <1>2, <2>3, PlacedKept DEF CreateThread
<1>3. CASE JoinThread \/ PrintSum
  BY <1>3, PlacedKept DEF JoinThread, PrintSum, Held
<1>4. ASSUME NEW t \in Threads,
             LockFile(t) \/ Leave(t) \/ TakeBatch(t) \/ LockSum(t) \/ LoadSum(t)
      PROVE  Placed'
  <2>1. /\ UNCHANGED <<next, memory, total_sum, local_sum>>
        /\ \A u \in Threads : u # t => /\ pc'[u] = pc[u]
                                       /\ i'[u] = i[u]
                                       /\ current_batch_size'[u] = current_batch_size[u]
    BY <1>0, <1>4 DEF LockFile, Leave, TakeBatch, LockSum, LoadSum, Goto, TypeOK
  <2>2. \/ /\ pc[t] \in {"lock_file", "check"}
           /\ pc'[t] \in {"check", "done", "lock_memory"}
        \/ /\ pc[t] \in {"lock_sum", "load"}
           /\ pc'[t] \in {"load", "store"}
    BY <1>0, <1>4 DEF LockFile, Leave, TakeBatch, LockSum, LoadSum, Goto
  <2>3. Held(t)' = Held(t)
    BY <2>1, <2>2 DEF Held
  <2>4. ASSUME NEW u \in Threads, u # t PROVE Held(u)' = Held(u)
    BY <2>1, <2>4 DEF Held
  <2> QED
    BY <2>1, <2>3, <2>4, PlacedKept
<1>5. ASSUME NEW t \in Threads, LockMemory(t) PROVE Placed'
  <2>1. /\ pc[t] = "lock_memory" /\ pc'[t] = "read" /\ i'[t] = 0
        /\ \A u \in Threads : u # t => pc'[u] = pc[u]
        /\ UNCHANGED <<next, memory, total_sum, i, current_batch_size, local_sum>>
    BY <1>0, <1>5 DEF LockMemory, Goto, Progress, ProgressOf
  <2>2. Held(t) = {} /\ Held(t)' = {}
    BY <2>1 DEF Held
  <2>3. ASSUME NEW u \in Threads, u # t PROVE Held(u)' = Held(u)
    BY <2>1, <2>3 DEF Held
  <2> QED
    BY <2>1, <2>2, <2>3, PlacedKept
<1>6. ASSUME NEW t \in Threads, ReadNumber(t) PROVE Placed'
  <2>1. /\ pc' = pc /\ pc[t] = "read" /\ next' = next + 1 /\ i'[t] = i[t] + 1
        /\ i[t] < current_batch_size[t]
        /\ UNCHANGED <<total_sum, current_batch_size, local_sum>>
    BY <1>6 DEF ReadNumber, TypeOK
  <2>2. ASSUME NEW u \in Threads, u # t PROVE Held(u)' = Held(u)
    BY <2>1, <2>2, OneOwner DEF Held
  <2>3. Held(t)' = Held(t) \cup {next + 1}
    <3>1. /\ Held(t) = {memory[s] : s \in 1 .. i[t]}
          /\ Held(t)' = {memory'[s] : s \in 1 .. i[t] + 1}
      BY <2>1 DEF Held
    <3>2. \A s : s \in 1 .. i[t] + 1 <=> s \in 1 .. i[t] \/ s = i[t] + 1
      BY Numbers
    <3>3. /\ \A s \in 1 .. i[t] : memory'[s] = memory[s]
          /\ memory'[i[t] + 1] = next + 1
      <4>1. i[t] + 1 \in 1 .. BatchSize
        BY <2>1, Numbers
      <4>2. \A s \in 1 .. i[t] : s \in 1 .. BatchSize /\ s # i[t] + 1
        BY Numbers
      <4> QED
        BY <1>6, <4>1, <4>2 DEF ReadNumber, TypeOK
    <3> QED
      BY <3>1, <3>2, <3>3
  <2>4. next + 1 \notin 1 .. next /\ 1 .. next + 1 = (1 .. next) \cup {next + 1}
    BY Numbers
  <2>5. next + 1 \notin total_sum /\ \A u \in Threads : next + 1 \notin Held(u)
    BY <2>4 DEF Placed
  <2>6. \A n \in 1 .. next' : n \in total_sum' \/ \E u \in Threads : n \in Held(u)'
    <3> SUFFICES ASSUME NEW n \in 1 .. next', n \notin total_sum'
                 PROVE  \E u \in Threads : n \in Held(u)'
      OBVIOUS
    <3>1. CASE n = next + 1
      BY <2>3, <3>1
    <3>2. CASE n \in 1 .. next
      <4>1. PICK u \in Threads : n \in Held(u)
        BY <2>1, <3>2 DEF Placed
      <4>2. n \in Held(u)'
        BY <2>2, <2>3, <4>1
      <4> QED
        BY <4>2
    <3> QED
      BY <2>1, <2>4, <3>1, <3>2
  <2>7. \A u \in Threads : Held(u)' \subseteq 1 .. next'
    BY <2>1, <2>2, <2>3, <2>4 DEF Placed
  <2>8. /\ total_sum' \subseteq 1 .. next'
        /\ \A u \in Threads : Held(u)' \cap total_sum' = {}
        /\ \A u, v \in Threads : u # v => Held(u)' \cap Held(v)' = {}
    BY <2>1, <2>2, <2>3, <2>4, <2>5 DEF Placed
  <2> QED
    BY <2>6, <2>7, <2>8 DEF Placed
<1>7. ASSUME NEW t \in Threads, EndOfFile(t) PROVE Placed'
  <2>1. /\ pc' = pc /\ pc[t] = "read"
        /\ \A u \in Threads : u # t => current_batch_size'[u] = current_batch_size[u]
        /\ UNCHANGED <<next, memory, total_sum, i, local_sum>>
    BY <1>7 DEF EndOfFile, TypeOK
  <2>2. ASSUME NEW u \in Threads PROVE Held(u)' = Held(u)
    BY <2>1 DEF Held
  <2> QED
    BY <2>1, <2>2, PlacedKept
<1>8. ASSUME NEW t \in Threads, FinishReading(t) PROVE Placed'
  <2>1. /\ pc[t] = "read" /\ pc'[t] = "sum" /\ i[t] = current_batch_size[t]
        /\ \A u \in Threads : u # t => pc'[u] = pc[u]
        /\ UNCHANGED <<next, memory, total_sum, i, current_batch_size, local_sum>>
    BY <1>0, <1>8 DEF FinishReading, Goto
  <2>2. ASSUME NEW u \in Threads PROVE Held(u)' = Held(u)
    BY <2>1 DEF Held
  <2> QED
    BY <2>1, <2>2, PlacedKept
<1>9. ASSUME NEW t \in Threads, SumBatch(t) PROVE Placed'
  <2>1. /\ pc[t] = "sum" /\ pc'[t] = "lock_sum"
        /\ \A u \in Threads : u # t => pc'[u] = pc[u] /\ local_sum'[u] = local_sum[u]
        /\ UNCHANGED <<next, total_sum, i, current_batch_size>>
    BY <1>0, <1>9 DEF SumBatch, Goto, TypeOK
  <2>2. Held(t)' = Held(t)
    <3>1. Held(t)' = local_sum'[t]
      BY <2>1 DEF Held
    <3>2. local_sum'[t] = {memory[s] : s \in 1 .. current_batch_size[t]} \ {0}
      BY <1>9 DEF SumBatch, TypeOK
    <3>3. Held(t) = {memory[s] : s \in 1 .. current_batch_size[t]}
      BY <2>1 DEF Held
    <3>4. 0 \notin Held(t)
      BY <2>1, HeldRange
    <3> QED
      BY <3>1, <3>2, <3>3, <3>4
  <2>3. ASSUME NEW u \in Threads, u # t PROVE Held(u)' = Held(u)
    <3>1. pc[u] \notin {"read", "sum"}
      BY <2>1, <2>3, OneOwner
    <3> QED
      BY <2>1, <2>3, <3>1 DEF Held
  <2> QED
    BY <2>1, <2>2, <2>3, PlacedKept
<1>10. ASSUME NEW t \in Threads, StoreSum(t) PROVE Placed'
  <2>1. /\ pc[t] = "store" /\ pc'[t] = "lock_file"
        /\ \A u \in Threads : u # t => pc'[u] = pc[u]
        /\ UNCHANGED <<next, memory, i, current_batch_size, local_sum>>
    BY <1>0, <1>10 DEF StoreSum, Goto
  <2>2. Held(t) = local_sum[t] /\ Held(t)' = {}
    BY <2>1 DEF Held
  <2>3. ASSUME NEW u \in Threads, u # t PROVE Held(u)' = Held(u)
    BY <2>1, <2>3 DEF Held
  <2>4. total_sum' = total_sum \cup Held(t)
    BY <1>10, <2>1, <2>2 DEF StoreSum, NoLostUpdate
  <2>5. \A n \in 1 .. next' : n \in total_sum' \/ \E u \in Threads : n \in Held(u)'
    <3> SUFFICES ASSUME NEW n \in 1 .. next, n \notin total_sum'
                 PROVE  \E u \in Threads : n \in Held(u)'
      BY <2>1
    <3>1. PICK u \in Threads : n \in Held(u)
      BY <2>4 DEF Placed
    <3> QED
      BY <2>3, <2>4, <3>1
  <2>6. total_sum' \subseteq 1 .. next'
    <3>1. total_sum \subseteq 1 .. next /\ Held(t) \subseteq 1 .. next
      BY DEF Placed
    <3> QED
      BY <2>1, <2>4, <3>1
  <2>7. ASSUME NEW u \in Threads
        PROVE  Held(u)' \subseteq 1 .. next' /\ Held(u)' \cap total_sum' = {}
    <3>1. CASE u = t
      BY <2>2, <3>1
    <3>2. CASE u # t
      <4>1. /\ Held(u) \subseteq 1 .. next
            /\ Held(u) \cap total_sum = {} /\ Held(u) \cap Held(t) = {}
        BY <3>2 DEF Placed
      <4> QED
        BY <2>1, <2>3, <2>4, <3>2, <4>1
    <3> QED
      BY <3>1, <3>2
  <2>8. ASSUME NEW u \in Threads, NEW v \in Threads, u # v
        PROVE  Held(u)' \cap Held(v)' = {}
    <3>1. CASE u = t \/ v = t
      BY <2>2, <3>1
    <3>2. CASE u # t /\ v # t
      BY <2>3, <2>8, <3>2 DEF Placed
    <3> QED
      BY <3>1, <3>2
  <2> QED
    BY <2>5, <2>6, <2>7, <2>8 DEF Placed
<1> QED
  BY <1>1, <1>2, <1>3, <1>4, <1>5, <1>6, <1>7, <1>8, <1>9, <1>10
  DEF Next, Main, Worker, Finished

-----------------------------------------------------------------------------
LEMMA InitIInv ==
  ASSUME Init
  PROVE  IInv
<1>1. /\ length \in Nat /\ 0 \in 0 .. length /\ 0 \in 0 .. BatchSize
      /\ 0 \in 0 .. ThreadCount /\ TotalCount >= 0 /\ ThreadCount # 0
  BY BatchSumAssumption DEF Init
<1>2. \A t \in Threads : Held(t) = {}
  BY DEF Init, Held
<1>3. TypeOK
  BY <1>1 DEF Init, TypeOK
<1>4. Locks
  BY ThreadsLemma DEF Init, Locks, LocksOf
<1>5. Life
  BY <1>1, ThreadsLemma DEF Init, Life
<1>6. Progress
  <2>1. Counted
    BY <1>1 DEF Init, Counted
  <2>2. ASSUME NEW t \in Threads PROVE ProgressOf(t)
    BY DEF Init, ProgressOf
  <2> QED
    BY <2>1, <2>2 DEF Progress
<1>7. Buffer
  BY DEF Init, Buffer, BufferOf, Filled
<1>8. NoLostUpdate
  BY DEF Init, NoLostUpdate
<1>9. Placed
  BY <1>2 DEF Init, Placed
<1> QED
  BY <1>3, <1>4, <1>5, <1>6, <1>7, <1>8, <1>9 DEF IInv

LEMMA NextIInv ==
  ASSUME IInv, [Next]_vars
  PROVE  IInv'
  BY TypeStep, LocksStep, LifeStep, ProgressStep, BufferStep, NoLostUpdateStep, PlacedStep
  DEF IInv

\* The inductive invariant holds in every behaviour of worker_func and main.
THEOREM Inductive == Spec => []IInv
  BY InitIInv, NextIInv, PTL DEF Spec

\* Every variable of worker_func and main keeps its type: i and current_batch_size
\* stay within the buffer.
THEOREM TypeCorrect == Spec => []TypeOK
<1>1. IInv => TypeOK
  BY DEF IInv
<1> QED
  BY <1>1, Inductive, PTL

\* A thread adds its batch to the sum that is there, however many threads there are:
\* sum_mutex is held from the load to the store of total_sum += local_sum.
THEOREM UpdatesKept == Spec => []NoLostUpdate
<1>1. IInv => NoLostUpdate
  BY DEF IInv
<1> QED
  BY <1>1, Inductive, PTL

\* Every number taken from the file is in exactly one place, for every number of
\* threads, every size of the buffer and every file.
THEOREM NumbersOnce == Spec => []EachNumberOnce
<1>1. ASSUME IInv PROVE EachNumberOnce
  <2>1. \A n : n \in 1 .. next <=> n \in total_sum \/ \E t \in Threads : n \in Held(t)
    BY <1>1 DEF IInv, Placed
  <2>2. \A n : n \in UNION {Held(t) : t \in Threads} <=> \E t \in Threads : n \in Held(t)
    OBVIOUS
  <2>3. 1 .. next = total_sum \cup UNION {Held(t) : t \in Threads}
    BY <2>1, <2>2
  <2> QED
    BY <1>1, <2>3 DEF IInv, Placed, EachNumberOnce
<1> QED
  BY <1>1, Inductive, PTL

-----------------------------------------------------------------------------
\* No thread reads beyond what the file declares.
LEMMA ReadNoMore ==
  ASSUME TypeOK, Progress
  PROVE  next <= TotalCount
<1>1. CASE \A t \in Threads : pc[t] # "read"
  BY <1>1, Numbers DEF Progress, Counted
<1>2. ASSUME NEW t \in Threads, pc[t] = "read" PROVE next <= TotalCount
  BY <1>2, Numbers DEF Progress, ProgressOf
<1> QED
  BY <1>1, <1>2

\* When main has joined every thread, the numbers wanted are in the sum.
LEMMA AllCounted ==
  ASSUME IInv, joined = ThreadCount
  PROVE  total_sum = Abstract!Wanted
<1>1. \A t \in Threads : pc[t] = "done"
  BY ThreadsLemma DEF IInv, Life
<1>2. \A t \in Threads : Held(t) = {}
  BY <1>1 DEF Held
<1>3. total_sum = 1 .. next
  BY <1>2 DEF IInv, Placed
<1>4. 1 \in Threads
  BY BatchSumAssumption DEF Threads
<1>5. Counted /\ total_processed_count >= TotalCount
  BY <1>1, <1>4 DEF IInv, Progress, ProgressOf
<1>6. next = IF length < TotalCount THEN length ELSE TotalCount
  BY <1>5, Numbers DEF IInv, Counted
<1> QED
  BY <1>3, <1>6 DEF Abstract!Wanted

\* A step of the threads and main is a step of SumOnce, or changes nothing of it.
LEMMA StepSumOnce ==
  ASSUME IInv, [Next]_vars
  PROVE  [Abstract!Count \/ Abstract!Report]_<<length, total_sum, result>>
<1> USE DEF shared, mutexes, locals, main
<1>1. CASE UNCHANGED vars
  BY <1>1 DEF vars
<1>2. CASE CreateThread \/ JoinThread
  BY <1>2 DEF CreateThread, JoinThread
<1>3. CASE PrintSum
  <2>1. total_sum = Abstract!Wanted
    BY <1>3, AllCounted DEF PrintSum
  <2> QED
    BY <1>3, <2>1 DEF PrintSum, Abstract!Report
<1>4. ASSUME NEW t \in Threads, Worker(t), ~ StoreSum(t)
      PROVE  UNCHANGED <<length, total_sum, result>>
  BY <1>4 DEF Worker, LockFile, Leave, TakeBatch, LockMemory, ReadNumber, EndOfFile,
     FinishReading, SumBatch, LockSum, LoadSum
<1>5. ASSUME NEW t \in Threads, StoreSum(t)
      PROVE  Abstract!Count
  <2>1. pc[t] = "store" /\ Held(t) = local_sum[t]
    BY <1>5 DEF StoreSum, Goto, Held
  <2>2. total_sum' = total_sum \cup Held(t) /\ UNCHANGED <<length, result>>
    BY <1>5, <2>1 DEF StoreSum, IInv, NoLostUpdate
  <2>3. 1 .. next \subseteq Abstract!Wanted
    BY Numbers, ReadNoMore DEF IInv, Abstract!Wanted
  <2>4. Held(t) \in SUBSET (Abstract!Wanted \ total_sum)
    BY <2>3 DEF IInv, Placed
  <2> QED
    BY <2>2, <2>4 DEF Abstract!Count
<1> QED
  BY <1>1, <1>2, <1>3, <1>4, <1>5 DEF Next, Main, Finished

\* Lab2 counts every number of its file exactly once, up to the count at its head,
\* before it prints: for every number of threads, every buffer and every file,
\* shorter or longer than it declares.
THEOREM SumsOnce == Spec => RefinesSumOnce
<1>1. Init => Abstract!Init
  BY BatchSumAssumption DEF Init, Abstract!Init
<1>2. IInv /\ [Next]_vars => [Abstract!Count \/ Abstract!Report]_<<length, total_sum, result>>
  BY StepSumOnce
<1> QED
  BY <1>1, <1>2, Inductive, PTL DEF Spec, RefinesSumOnce, Abstract!Spec
-----------------------------------------------------------------------------
(***************************************************************************)
(* The three mutexes are taken in sections that overlap; nobody waits for  *)
(* ever in a circle.                                                       *)
(***************************************************************************)

\* A thread whose next instruction can be executed: it is at no mutex that is held.
CanGo(t) ==
  \/ pc[t] = "lock_file" /\ file_mutex = Free
  \/ pc[t] = "lock_memory" /\ memory_mutex = Free
  \/ pc[t] = "lock_sum" /\ sum_mutex = Free
  \/ pc[t] = "read" /\ i[t] = current_batch_size[t]
  \/ pc[t] = "read" /\ i[t] < current_batch_size[t] /\ next <= length
  \/ pc[t] \in {"check", "sum", "load", "store"}

\* main creates a thread, joins one that is done, or prints.
MainCanGo ==
  \/ created < ThreadCount
  \/ created = ThreadCount /\ joined < ThreadCount /\ pc[joined + 1] = "done"
  \/ joined = ThreadCount /\ result = <<>>

\* While a thread is at work some thread can go on, whatever main does; and when none is
\* at work main can go on, unless it has printed the sum.
NeverStuck ==
  IF \E t \in Threads : pc[t] \notin {"not_created", "done"}
  THEN \E t \in Threads : CanGo(t)
  ELSE MainCanGo \/ result # <<>>

\* The thread that holds the sum or the buffer waits for nothing but the sum.
LEMMA HoldersGo ==
  ASSUME IInv, sum_mutex # Free \/ memory_mutex # Free
  PROVE  \E t \in Threads : CanGo(t)
<1>1. /\ file_mutex \in {Free} \cup Threads /\ memory_mutex \in {Free} \cup Threads
      /\ sum_mutex \in {Free} \cup Threads
  BY DEF IInv, TypeOK
<1>2. CASE sum_mutex # Free
  <2>1. sum_mutex \in Threads /\ pc[sum_mutex] \in {"load", "store"}
    BY <1>1, <1>2 DEF IInv, Locks, LocksOf
  <2> QED
    BY <2>1 DEF CanGo
<1>3. CASE memory_mutex # Free
  <2>1. PICK t \in Threads : t = memory_mutex
    BY <1>1, <1>3
  <2>2. pc[t] \in {"read", "sum"}
    BY <2>1 DEF IInv, Locks, LocksOf
  <2>3. pc[t] = "read" => i[t] <= current_batch_size[t]
    BY <2>1 DEF IInv, Progress, ProgressOf
  <2>4. /\ next \in Nat /\ length \in Nat /\ next <= length
        /\ i[t] \in Nat /\ current_batch_size[t] \in Nat
    BY <2>1, Numbers DEF IInv
  <2> QED
    BY <2>2, <2>3, <2>4 DEF CanGo
<1> QED
  BY <1>2, <1>3

\* There is no deadlock, for any number of threads: file_mutex is taken before
\* memory_mutex, never after it, and sum_mutex by a thread that holds neither.
THEOREM NoDeadlock == Spec => []NeverStuck
<1>1. ASSUME IInv, NEW t \in Threads, pc[t] \notin {"not_created", "done"}
      PROVE  \E u \in Threads : CanGo(u)
  <2>1. CASE sum_mutex # Free \/ memory_mutex # Free
    BY <1>1, <2>1, HoldersGo
  <2>2. CASE sum_mutex = Free /\ memory_mutex = Free
    <3>1. ASSUME NEW u \in Threads, pc[u] \in Places \ {"not_created", "done", "lock_file"}
          PROVE  CanGo(u)
      <4>1. pc[u] # "read"
        BY <1>1, <2>2, <3>1, ThreadsLemma DEF IInv, Locks, LocksOf
      <4> QED
        BY <2>2, <3>1, <4>1 DEF CanGo, Places
    <3>2. pc[t] \in Places
      BY <1>1 DEF IInv, TypeOK, Places
    <3>3. CASE file_mutex = Free
      BY <1>1, <3>1, <3>2, <3>3 DEF CanGo
    <3>4. CASE file_mutex # Free
      <4>1. file_mutex \in Threads /\ pc[file_mutex] \in {"check", "lock_memory", "read"}
        BY <1>1, <3>4 DEF IInv, TypeOK, Locks, LocksOf
      <4> QED
        BY <3>1, <4>1 DEF Places
    <3> QED
      BY <3>3, <3>4
  <2> QED
    BY <2>1, <2>2
<1>2. ASSUME IInv, \A t \in Threads : pc[t] \in {"not_created", "done"}, result = <<>>
      PROVE  MainCanGo
  <2>1. /\ created \in Nat /\ joined \in Nat /\ ThreadCount \in Nat
        /\ created <= ThreadCount /\ joined <= ThreadCount
    BY <1>2, Numbers DEF IInv, TypeOK
  <2>2. CASE created = ThreadCount /\ joined < ThreadCount
    <3>1. joined + 1 \in Threads /\ ~(joined + 1 > created)
      BY <2>1, <2>2 DEF Threads
    <3>2. pc[joined + 1] = "done"
      BY <1>2, <3>1 DEF IInv, Life
    <3> QED
      BY <2>2, <3>2 DEF MainCanGo
  <2> QED
    BY <1>2, <2>1, <2>2 DEF MainCanGo
<1>3. IInv => NeverStuck
  BY <1>1, <1>2 DEF NeverStuck
<1> QED
  BY <1>3, Inductive, PTL

\* A round with an empty batch is only that of a thread that met the end of the file.
Batches ==
  \A t \in Threads :
    /\ pc[t] = "lock_memory" => current_batch_size[t] >= 1
    /\ pc[t] = "read" => current_batch_size[t] >= 1 \/ total_processed_count >= TotalCount

\* The count never goes back, and a round raises it unless it is at the declared count, at
\* which every thread that comes back leaves: there are at most TotalCount rounds, and one
\* of each thread besides.
Counts ==
  /\ total_processed_count' >= total_processed_count
  /\ \A t \in Threads :
       /\ pc[t] = "read" /\ pc'[t] = "sum" =>
            \/ total_processed_count' > total_processed_count
            \/ total_processed_count >= TotalCount
       /\ pc[t] = "check" /\ pc'[t] # "check" =>
            (pc'[t] = "done" <=> total_processed_count >= TotalCount)

RoundsCount == [][Counts]_vars

\* What the threads do to the count and to their batches.
LEMMA RoundStep ==
  ASSUME IInv, NEW t \in Threads, Worker(t)
  PROVE  /\ total_processed_count' \in Nat
         /\ total_processed_count' >= total_processed_count
         /\ \A u \in Threads : u # t => /\ pc'[u] = pc[u]
                                        /\ current_batch_size'[u] = current_batch_size[u]
         /\ pc[t] = "check" => (pc'[t] = "done" <=> total_processed_count >= TotalCount)
         /\ pc[t] = "read" /\ pc'[t] = "sum" =>
              total_processed_count' = total_processed_count + current_batch_size[t]
         /\ pc'[t] = "lock_memory" => current_batch_size'[t] >= 1
         /\ pc'[t] = "read" =>
              \/ current_batch_size'[t] = current_batch_size[t]
                 /\ pc[t] \in {"lock_memory", "read"}
              \/ total_processed_count' >= TotalCount
<1>1. /\ total_processed_count \in Nat /\ TotalCount \in Nat /\ BatchSize \in Nat
      /\ BatchSize >= 1 /\ current_batch_size[t] \in Nat
      /\ pc \in [Threads -> Places] /\ DOMAIN current_batch_size = Threads
  BY Numbers DEF IInv, TypeOK, Places
<1>2. CASE LockFile(t) \/ Leave(t) \/ LockMemory(t) \/ ReadNumber(t) \/ SumBatch(t)
           \/ LockSum(t) \/ LoadSum(t) \/ StoreSum(t)
  BY <1>1, <1>2 DEF LockFile, Leave, LockMemory, ReadNumber, SumBatch, LockSum, LoadSum,
                    StoreSum, Goto, shared, mutexes, locals, main
<1>3. CASE TakeBatch(t)
  <2>1. batchToRead >= 1
    BY <1>1, <1>3 DEF TakeBatch, batchToRead
  <2> QED
    BY <1>1, <1>3, <2>1 DEF TakeBatch, Goto, shared, mutexes, locals, main
<1>4. CASE EndOfFile(t)
  <2>1. total_processed_count <= TotalCount
    BY <1>1, <1>4, Numbers DEF EndOfFile, IInv, Progress, ProgressOf
  <2> QED
    BY <1>1, <1>4, <2>1 DEF EndOfFile, mutexes, main
<1>5. CASE FinishReading(t)
  BY <1>1, <1>5 DEF FinishReading, Goto, locals, main
<1> QED
  BY <1>2, <1>3, <1>4, <1>5 DEF Worker

\* main touches neither.
LEMMA MainRound ==
  ASSUME IInv, Main
  PROVE  /\ UNCHANGED <<total_processed_count, current_batch_size>>
         /\ \A t \in Threads : pc'[t] = pc[t] \/ (pc[t] = "not_created" /\ pc'[t] = "lock_file")
<1>1. pc \in [Threads -> Places]
  BY DEF IInv, TypeOK, Places
<1>2. CASE CreateThread
  <2>1. created + 1 \in Threads /\ created + 1 > created
    BY <1>2, Numbers DEF CreateThread, IInv, TypeOK, Threads
  <2>2. pc[created + 1] = "not_created"
    BY <2>1 DEF IInv, Life
  <2> QED
    BY <1>1, <1>2, <2>1, <2>2 DEF CreateThread, shared, locals
<1>3. CASE JoinThread \/ PrintSum
  BY <1>3 DEF JoinThread, PrintSum, shared, locals
<1> QED
  BY <1>2, <1>3 DEF Main

LEMMA BatchesStep ==
  ASSUME IInv, Batches, [Next]_vars
  PROVE  Batches'
<1>1. /\ total_processed_count \in Nat /\ TotalCount \in Nat
      /\ \A t \in Threads : current_batch_size[t] \in Nat
  BY Numbers DEF IInv
<1>2. ASSUME NEW t \in Threads, Worker(t) PROVE Batches'
  <2>1. ASSUME NEW u \in Threads, u # t
        PROVE  /\ pc'[u] = "lock_memory" => current_batch_size'[u] >= 1
               /\ pc'[u] = "read" =>
                    current_batch_size'[u] >= 1 \/ total_processed_count' >= TotalCount
    BY <1>1, <1>2, <2>1, RoundStep DEF Batches
  <2>2. /\ pc'[t] = "lock_memory" => current_batch_size'[t] >= 1
        /\ pc'[t] = "read" =>
             current_batch_size'[t] >= 1 \/ total_processed_count' >= TotalCount
    BY <1>1, <1>2, RoundStep DEF Batches
  <2> QED
    BY <2>1, <2>2 DEF Batches
<1>3. CASE Main
  BY <1>3, MainRound DEF Batches
<1>4. CASE Finished \/ UNCHANGED vars
  BY <1>4 DEF Finished, vars, shared, locals, Batches
<1> QED
  BY <1>2, <1>3, <1>4 DEF Next

\* No thread goes round without getting on, for every number of threads, every batch size
\* and every file, also one that is shorter than it declares.
THEOREM EveryRoundCounts == Spec => RoundsCount
<1>1. Init => Batches
  BY DEF Init, Batches
<1>2. IInv /\ Batches /\ [Next]_vars => [Counts]_vars
  <2> SUFFICES ASSUME IInv, Batches, Next PROVE Counts \/ UNCHANGED vars
    OBVIOUS
  <2>1. /\ total_processed_count \in Nat /\ TotalCount \in Nat
        /\ \A t \in Threads : current_batch_size[t] \in Nat
    BY Numbers DEF IInv
  <2>2. ASSUME NEW t \in Threads, Worker(t) PROVE Counts
    <3>1. ASSUME NEW u \in Threads, u # t
          PROVE  /\ ~(pc[u] = "read" /\ pc'[u] = "sum")
                 /\ ~(pc[u] = "check" /\ pc'[u] # "check")
      BY <2>2, <3>1, RoundStep
    <3>2. total_processed_count' >= total_processed_count
      BY <2>2, RoundStep
    <3>3. pc[t] = "read" /\ pc'[t] = "sum" =>
            total_processed_count' > total_processed_count
              \/ total_processed_count >= TotalCount
      BY <2>1, <2>2, RoundStep DEF Batches
    <3>4. pc[t] = "check" => (pc'[t] = "done" <=> total_processed_count >= TotalCount)
      BY <2>2, RoundStep
    <3> QED
      BY <3>1, <3>2, <3>3, <3>4 DEF Counts
  <2>3. CASE Main
    BY <2>1, <2>3, MainRound DEF Counts
  <2>4. CASE Finished
    BY <2>4 DEF Finished
  <2> QED
    BY <2>2, <2>3, <2>4 DEF Next
<1> QED
  BY <1>1, <1>2, Inductive, BatchesStep, PTL DEF Spec, RoundsCount
=============================================================================
