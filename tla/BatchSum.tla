------------------------------ MODULE BatchSum ------------------------------
(***************************************************************************)
(* Lab2: threads read a file of numbers batch by batch into one buffer and *)
(* add the batches to one sum.  worker_func is cut at every lock, at every *)
(* number read, and between the load and the store of total_sum += ...;    *)
(* main creates the threads, joins them in order and prints the sum.       *)
(*                                                                         *)
(* A number is known by its position in the file, a sum is the set of the  *)
(* numbers added to it: adding a number twice shows as a batch that is not *)
(* disjoint from the sum.  What the sum amounts to is computed when main   *)
(* divides it.  The build is the one of the repository:                    *)
(* MEM_PER_THREAD is not defined (main.cpp:31).                            *)
(***************************************************************************)
EXTENDS Naturals, Sequences, FiniteSetsExt

CONSTANTS
  ThreadCount,  \* --threads
  BatchSize,    \* batch_size: --memory divided by the size of a number
  NumSize,      \* sizeof(uint512_t)
  TotalCount,   \* total_count: the number at the head of the file
  Lengths,      \* how many numbers may really follow it
  Value(_)      \* the number at a position in the file

ASSUME BatchSumAssumption ==
  /\ ThreadCount \in Nat \ {0}
  /\ BatchSize \in Nat \ {0}
  /\ NumSize \in Nat \ {0}
  /\ TotalCount \in Nat \ {0}
  /\ Lengths \subseteq Nat
  /\ \A len \in Lengths : \A n \in 1 .. len : Value(n) \in Nat

VARIABLES
  length,        \* the numbers in the file
  next,          \* the numbers taken from shared_input
  total_processed_count,
  file_mutex, memory_mutex, sum_mutex,   \* the owner, Free if there is none
  memory,        \* the buffer: the number in each slot, 0 for a cleared slot
  total_sum,
  pc, current_batch_size, i, local_sum,  \* of each thread
  loaded,        \* of each thread: total_sum as it was loaded to be added to
  created, joined, result,               \* of main; result is the sum that is printed
  average                                \* its mean as printed, none for a sum of zero

shared == <<length, next, total_processed_count, memory, total_sum>>
mutexes == <<file_mutex, memory_mutex, sum_mutex>>
locals == <<current_batch_size, i, local_sum, loaded>>
main == <<created, joined, result, average>>
vars == <<shared, mutexes, pc, locals, main>>

Threads == 1 .. ThreadCount
Free == 0

Init ==
  /\ length \in Lengths
  /\ next = 0
  /\ total_processed_count = 0
  /\ file_mutex = Free /\ memory_mutex = Free /\ sum_mutex = Free
  /\ memory = [s \in 1 .. BatchSize |-> 0]
  /\ total_sum = {}
  /\ pc = [t \in Threads |-> "not_created"]
  /\ current_batch_size = [t \in Threads |-> 0]
  /\ i = [t \in Threads |-> 0]
  /\ local_sum = [t \in Threads |-> {}]
  /\ loaded = [t \in Threads |-> {}]
  /\ created = 0 /\ joined = 0 /\ result = <<>> /\ average = {}
-----------------------------------------------------------------------------
Goto(t, from, to) == pc[t] = from /\ pc' = [pc EXCEPT ![t] = to]

\* file_mutex.lock() at the head of the loop.
LockFile(t) ==
  /\ Goto(t, "lock_file", "check")
  /\ file_mutex = Free
  /\ file_mutex' = t
  /\ UNCHANGED <<shared, memory_mutex, sum_mutex, locals, main>>

\* Nothing left: unlock and break.
Leave(t) ==
  /\ Goto(t, "check", "done")
  /\ total_processed_count >= TotalCount
  /\ file_mutex' = Free
  /\ UNCHANGED <<shared, memory_mutex, sum_mutex, locals, main>>

\* std::min(batch_size, total_count - total_processed_count)
batchToRead ==
  IF BatchSize <= TotalCount - total_processed_count
  THEN BatchSize ELSE TotalCount - total_processed_count

TakeBatch(t) ==
  /\ Goto(t, "check", "lock_memory")
  /\ total_processed_count < TotalCount
  /\ current_batch_size' = [current_batch_size EXCEPT ![t] = batchToRead]
  /\ i' = [i EXCEPT ![t] = 0]
  /\ UNCHANGED <<shared, mutexes, local_sum, loaded, main>>

\* memory_mutex.lock(), with file_mutex held.
LockMemory(t) ==
  /\ Goto(t, "lock_memory", "read")
  /\ memory_mutex = Free
  /\ memory_mutex' = t
  /\ UNCHANGED <<shared, file_mutex, sum_mutex, locals, main>>

ReadNumber(t) ==
  /\ pc[t] = "read"
  /\ i[t] < current_batch_size[t]
  /\ next < length
  /\ next' = next + 1
  /\ memory' = [memory EXCEPT ![i[t] + 1] = next + 1]
  /\ i' = [i EXCEPT ![t] = @ + 1]
  /\ UNCHANGED <<length, total_processed_count, total_sum, mutexes, pc,
                 current_batch_size, local_sum, loaded, main>>

\* Seeded fault: the end of the file ends the batch, not the work.
EndOfFile_NotCounted(t) ==
  /\ pc[t] = "read"
  /\ i[t] < current_batch_size[t]
  /\ next = length
  /\ current_batch_size' = [current_batch_size EXCEPT ![t] = i[t]]
  /\ UNCHANGED <<shared, mutexes, pc, i, local_sum, loaded, main>>

\* The file ends before the declared count is reached.
EndOfFile(t) ==
  /\ pc[t] = "read"
  /\ i[t] < current_batch_size[t]
  /\ next = length
  /\ current_batch_size' = [current_batch_size EXCEPT ![t] = i[t]]
  /\ total_processed_count' = TotalCount
  /\ UNCHANGED <<length, next, memory, total_sum, mutexes, pc, i, local_sum,
                 loaded, main>>

\* Seeded fault: the file is given back before the batch is accounted for.
FinishReading_NotCounted(t) ==
  /\ Goto(t, "read", "sum")
  /\ i[t] = current_batch_size[t]
  /\ file_mutex' = Free
  /\ UNCHANGED <<shared, memory_mutex, sum_mutex, locals, main>>

\* Seeded fault: the buffer is given back together with the file.
FinishReading_FreesMemory(t) ==
  /\ Goto(t, "read", "sum")
  /\ i[t] = current_batch_size[t]
  /\ total_processed_count' = total_processed_count + current_batch_size[t]
  /\ file_mutex' = Free
  /\ memory_mutex' = Free
  /\ UNCHANGED <<length, next, memory, total_sum, sum_mutex, locals, main>>

\* After the loop: total_processed_count += current_batch_size, also when the end
\* of the file has already set it to total_count.
FinishReading(t) ==
  /\ Goto(t, "read", "sum")
  /\ i[t] = current_batch_size[t]
  /\ total_processed_count' = total_processed_count + current_batch_size[t]
  /\ file_mutex' = Free
  /\ UNCHANGED <<length, next, memory, total_sum, memory_mutex, sum_mutex,
                 locals, main>>

\* memset(memory, 0, batch_size) clears batch_size bytes, not batch_size numbers:
\* the slots that these bytes reach.
clearedMemory ==
  [s \in 1 .. BatchSize |-> IF (s - 1) * NumSize < BatchSize THEN 0 ELSE memory[s]]

SumBatch(t) ==
  /\ Goto(t, "sum", "lock_sum")
  /\ local_sum' = [local_sum EXCEPT
                     ![t] = {memory[s] : s \in 1 .. current_batch_size[t]} \ {0}]
  /\ memory' = clearedMemory
  /\ memory_mutex' = Free
  /\ UNCHANGED <<length, next, total_processed_count, total_sum, file_mutex,
                 sum_mutex, current_batch_size, i, loaded, main>>

\* Seeded fault: total_sum is not guarded.
LockSum_NoLock(t) ==
  /\ Goto(t, "lock_sum", "load")
  /\ UNCHANGED <<shared, mutexes, locals, main>>

LockSum(t) ==
  /\ Goto(t, "lock_sum", "load")
  /\ sum_mutex = Free
  /\ sum_mutex' = t
  /\ UNCHANGED <<shared, file_mutex, memory_mutex, locals, main>>

\* total_sum += local_sum: the load and the store.
LoadSum(t) ==
  /\ Goto(t, "load", "store")
  /\ loaded' = [loaded EXCEPT ![t] = total_sum]
  /\ UNCHANGED <<shared, mutexes, current_batch_size, i, local_sum, main>>

StoreSum(t) ==
  /\ Goto(t, "store", "lock_file")
  /\ total_sum' = loaded[t] \cup local_sum[t]
  /\ sum_mutex' = Free
  /\ UNCHANGED <<length, next, total_processed_count, memory, file_mutex,
                 memory_mutex, locals, main>>

Worker(t) ==
  \/ LockFile(t) \/ Leave(t) \/ TakeBatch(t) \/ LockMemory(t)
  \/ ReadNumber(t) \/ EndOfFile(t) \/ FinishReading(t)
  \/ SumBatch(t) \/ LockSum(t) \/ LoadSum(t) \/ StoreSum(t)
-----------------------------------------------------------------------------
\* The loop of pthread_create.
CreateThread ==
  /\ created < ThreadCount
  /\ created' = created + 1
  /\ pc' = [pc EXCEPT ![created + 1] = "lock_file"]
  /\ UNCHANGED <<shared, mutexes, locals, joined, result, average>>

\* The loop of pthread_join.
JoinThread ==
  /\ created = ThreadCount
  /\ joined < ThreadCount
  /\ pc[joined + 1] = "done"
  /\ joined' = joined + 1
  /\ UNCHANGED <<shared, mutexes, pc, locals, created, result, average>>

sumOf(numbers) == MapThenSumSet(Value, numbers)

\* (total_sum + total_count / 2) / total_count
averageOf(numbers) ==
  IF sumOf(numbers) = 0 THEN {}
  ELSE {(sumOf(numbers) + TotalCount \div 2) \div TotalCount}

\* Seeded fault: the sum is printed as soon as the threads are created.
PrintSum_NoJoin ==
  /\ created = ThreadCount
  /\ result = <<>>
  /\ result' = <<total_sum>>
  /\ average' = averageOf(total_sum)
  /\ UNCHANGED <<shared, mutexes, pc, locals, created, joined>>

PrintSum ==
  /\ joined = ThreadCount
  /\ result = <<>>
  /\ result' = <<total_sum>>
  /\ average' = averageOf(total_sum)
  /\ UNCHANGED <<shared, mutexes, pc, locals, created, joined>>

Main == CreateThread \/ JoinThread \/ PrintSum

\* main has returned: nothing happens any more.
Finished == result # <<>> /\ UNCHANGED vars

Next == Main \/ (\E t \in Threads : Worker(t)) \/ Finished

\* The threads and main are scheduled fairly.  A mutex need not be: what a thread
\* waits for is given up for good once the numbers run out.
Fairness == WF_vars(Main) /\ \A t \in Threads : WF_vars(Worker(t))

Spec == Init /\ [][Next]_vars /\ Fairness
-----------------------------------------------------------------------------
(***************************************************************************)
(* Properties.                                                             *)
(***************************************************************************)

TypeOK ==
  /\ length \in Lengths
  /\ next \in 0 .. length
  /\ total_processed_count \in Nat
  /\ file_mutex \in {Free} \cup Threads
  /\ memory_mutex \in {Free} \cup Threads
  /\ sum_mutex \in {Free} \cup Threads
  /\ memory \in [1 .. BatchSize -> Nat]
  /\ total_sum \subseteq Nat
  /\ pc \in [Threads -> {"not_created", "lock_file", "check", "lock_memory", "read",
                         "sum", "lock_sum", "load", "store", "done"}]
  /\ current_batch_size \in [Threads -> 0 .. BatchSize]
  /\ i \in [Threads -> 0 .. BatchSize]
  /\ local_sum \in [Threads -> SUBSET Nat]
  /\ loaded \in [Threads -> SUBSET Nat]
  /\ created \in 0 .. ThreadCount
  /\ joined \in 0 .. ThreadCount
  /\ result \in Seq(SUBSET Nat)
  /\ result = <<>> => average = {}

\* The numbers that a thread has taken from the file and not yet added.
Held(t) ==
  CASE pc[t] = "read" -> {memory[s] : s \in 1 .. i[t]}
    [] pc[t] = "sum" -> {memory[s] : s \in 1 .. current_batch_size[t]}
    [] pc[t] \in {"lock_sum", "load", "store"} -> local_sum[t]
    [] OTHER -> {}

\* Every number taken from the file is in exactly one place: in the sum, or in the
\* hands of one thread.  None is lost in the buffer that the threads share, none is
\* counted twice.
EachNumberOnce ==
  /\ 1 .. next = total_sum \cup UNION {Held(t) : t \in Threads}
  /\ \A t \in Threads : Held(t) \cap total_sum = {}
  /\ \A t, u \in Threads : t # u => Held(t) \cap Held(u) = {}

\* A thread adds to the sum that is there: no update of total_sum is lost.
NoLostUpdate == \A t \in Threads : pc[t] = "store" => loaded[t] = total_sum

\* The program prints its sum: the mutexes never block the threads for ever, and a
\* file that is shorter than it says ends the work of every thread.
Terminates == <>(result # <<>>)

\* The threads together do what SumOnce says.
Abstract == INSTANCE SumOnce WITH Declared <- TotalCount, present <- length,
                                  counted <- total_sum
RefinesSumOnce == Abstract!Spec

\* "The arithmetic mean" (main.cpp:199): what is printed is the sum, divided, with rounding,
\* by how many numbers it is the sum of.
MeanOfTheNumbersRead ==
  \A mean \in average :
    LET numbers == result[1]
        n       == Cardinality(numbers)
    IN  mean = (sumOf(numbers) + n \div 2) \div n
=============================================================================
