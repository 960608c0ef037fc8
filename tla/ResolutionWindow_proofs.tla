------------------------ MODULE ResolutionWindow_proofs ------------------------
(***************************************************************************)
(* The resolution window, for every number of workers, every order and      *)
(* every buffer size: broker and workers never use an element of the        *)
(* lock-step channel at once, and no worker misses a batch; a worker never  *)
(* runs a task whose inputs are missing or whose outputs are there; and the *)
(* client is never told that something is resolved which is not.            *)
(***************************************************************************)
EXTENDS ResolutionWindow, SequenceTheorems, TLAPS


(* Where broker and workers can be.                                         *)
Resting == {"outside", "correlate", "executed", "reported",
            "kill_flag", "kill_unpark", "join", "exited"}
Killing == {"kill_flag", "kill_unpark", "join", "exited"}
Released == {"free", "unpark_flag", "unpark", "await", "writing", "clear"}
Looking == {"park_workers", "parked", "die_order", "correlation"}
Using == {"run_die_order", "run", "panicking", "panic_done"}

(* The types the argument needs.                                            *)
ChannelTypes ==
    /\ lock_correlation \in Nat /\ die_order \in BOOLEAN
    /\ done \in [Workers -> BOOLEAN]
    /\ bpc \in Resting \union Released /\ bix \in Workers
    /\ wpc \in [Workers -> Looking \union Using \union {"lock_state", "take", "exited"}]
    /\ correlation \in [Workers -> Nat]

(* Between two batches every worker has seen the last one and looks for the *)
(* next, is gone, or has seen the order to die.                             *)
Rested(w) ==
    /\ correlation[w] = lock_correlation /\ ~done[w]
    /\ wpc[w] \in Looking \union {"exited"} \/ (wpc[w] = "run_die_order" /\ die_order)

(* A batch that is released has not been taken by the worker, is being run  *)
(* by it, or is done.                                                       *)
NotTaken(w) ==
    /\ correlation[w] = lock_correlation - 1 /\ ~done[w]
    /\ wpc[w] \in Looking \union {"lock_state", "take", "exited"}

Running(w) ==
    /\ correlation[w] = lock_correlation /\ ~done[w]
    /\ wpc[w] \in Using

Finishing(w) ==
    /\ correlation[w] = lock_correlation /\ done[w]
    /\ wpc[w] \in Looking \union {"exited"}

(* The broker has found these workers done.                                 *)
Awaited(w) ==
    \/ bpc \in {"writing", "clear"}
    \/ bpc = "await" /\ w > bix

ChannelInv ==
    /\ ChannelTypes
    /\ die_order => bpc \in Killing
    /\ bpc \in Resting => \A w \in Workers : Rested(w)
    /\ bpc \in Released =>
        \A w \in Workers : /\ NotTaken(w) \/ Running(w) \/ Finishing(w)
                           /\ Awaited(w) => done[w]
---------------------------------------------------------------------------
(* The invariant holds at the start, and a step that leaves the channel     *)
(* alone keeps it.                                                          *)
LEMMA InitInv == ChannelInit => ChannelInv
  BY ChannelAssumption DEF ChannelInit, EmptyItems, NoneDone, ChannelInv,
                           ChannelTypes, Rested, NotTaken, Running, Finishing,
                           Awaited, Resting, Killing, Released, Looking, Using,
                           Workers

LEMMA StutterInv == ChannelInv /\ UNCHANGED channelVars => ChannelInv'
  BY DEF channelVars, ChannelInv, ChannelTypes, Rested, NotTaken, Running, Finishing,
         Awaited, Resting, Killing, Released, Looking, Using, Workers

(* The broker writes the elements while every worker rests.                 *)
LEMMA SendInv ==
    ASSUME NEW tasks, ChannelInv, Send(tasks)
    PROVE  ChannelInv'
  BY DEF Send, BrokerAt, shared, data, workerVars, ChannelInv, ChannelTypes, Rested,
         NotTaken, Running, Finishing, Awaited, Resting, Killing, Released, Looking,
         Using, Workers

(* Raising the correlation turns every resting worker into one that has not *)
(* taken the batch; clearing the elements turns them back.                  *)
LEMMA ExecuteInv ==
    ASSUME ChannelInv, ExecuteStep
    PROVE  ChannelInv'
<1> USE ChannelAssumption DEF BrokerAt, shared, data, workerVars, brokerVars,
                              ChannelInv, ChannelTypes, Rested, NotTaken, Running,
                              Finishing, Awaited, Resting, Killing, Released, Looking,
                              Using, Workers
<1>1. CASE RaiseCorrelation
  BY <1>1 DEF RaiseCorrelation
<1>2. CASE OpenLock
  BY <1>2 DEF OpenLock
<1>3. CASE StopParking
  BY <1>3 DEF StopParking
<1>4. CASE UnparkEach("unpark", "await")
  BY <1>4 DEF UnparkEach
<1>5. CASE AwaitDone
  BY <1>5 DEF AwaitDone, ElementDone
<1>6. CASE CloseLock
  BY <1>6 DEF CloseLock
<1>7. CASE ClearElements
  BY <1>7 DEF ClearElements, EmptyItems, NoneDone
<1>8. CASE GetPanic
  BY <1>8 DEF GetPanic
<1> QED
  BY <1>1, <1>2, <1>3, <1>4, <1>5, <1>6, <1>7, <1>8 DEF ExecuteStep

LEMMA ReportInv ==
    ASSUME ChannelInv, PanicReported
    PROVE  ChannelInv'
  BY DEF PanicReported, BrokerAt, shared, data, workerVars, ChannelInv, ChannelTypes,
         Rested, NotTaken, Running, Finishing, Awaited, Resting, Killing, Released,
         Looking, Using, Workers

(* The order to die is given while every worker rests, and for good.        *)
LEMMA KillInv ==
    ASSUME ChannelInv, OrderDeath \/ KillStep
    PROVE  ChannelInv'
<1> USE ChannelAssumption DEF BrokerAt, shared, data, workerVars, brokerVars,
                              ChannelInv, ChannelTypes, Rested, NotTaken, Running,
                              Finishing, Awaited, Resting, Killing, Released, Looking,
                              Using, Workers
<1>1. CASE OrderDeath
  BY <1>1 DEF OrderDeath
<1>2. CASE KillStopParking
  BY <1>2 DEF KillStopParking
<1>3. CASE UnparkEach("kill_unpark", "join")
  BY <1>3 DEF UnparkEach
<1>4. CASE JoinPool
  BY <1>4 DEF JoinPool
<1> QED
  BY <1>1, <1>2, <1>3, <1>4 DEF KillStep

(* A worker's step changes its own part of the invariant only; taking a     *)
(* slice makes it run the batch, done ends that.                            *)
LEMMA WaitInv ==
    ASSUME ChannelInv, NEW w \in Workers, WaitStep(w) \/ SpuriousUnpark(w)
    PROVE  ChannelInv'
<1> USE DEF Goes, shared, data, brokerVars, ChannelInv, ChannelTypes, Rested,
            NotTaken, Running, Finishing, Awaited, Resting, Killing, Released,
            Looking, Using, Workers
<1>1. CASE LoadPark(w)
  BY <1>1 DEF LoadPark
<1>2. CASE Unparked(w)
  BY <1>2 DEF Unparked
<1>3. CASE LoadDie(w)
  BY <1>3 DEF LoadDie
<1>4. CASE LoadCorrelation(w)
  BY <1>4 DEF LoadCorrelation
<1>5. CASE LoadLock(w)
  BY <1>5 DEF LoadLock
<1>6. CASE TakeTasks(w)
  BY <1>6 DEF TakeTasks
<1>7. CASE RunDieOrder(w)
  BY <1>7 DEF RunDieOrder
<1>8. CASE SpuriousUnpark(w)
  BY <1>8 DEF SpuriousUnpark
<1> QED
  BY <1>1, <1>2, <1>3, <1>4, <1>5, <1>6, <1>7, <1>8 DEF WaitStep

LEMMA RunInv ==
    ASSUME ChannelInv, NEW w \in Workers,
           RunTask(w) \/ TaskPanics(w) \/ Done(w) \/ StorePanic(w) \/ PanicDone(w)
    PROVE  ChannelInv'
<1> USE DEF Goes, shared, data, brokerVars, MarkDone, ChannelInv, ChannelTypes,
            Rested, NotTaken, Running, Finishing, Awaited, Resting, Killing, Released,
            Looking, Using, Workers
<1>1. CASE RunTask(w)
  BY <1>1 DEF RunTask
<1>2. CASE TaskPanics(w)
  BY <1>2 DEF TaskPanics
<1>3. CASE Done(w)
  BY <1>3 DEF Done
<1>4. CASE StorePanic(w)
  BY <1>4 DEF StorePanic
<1>5. CASE PanicDone(w)
  BY <1>5 DEF PanicDone
<1> QED
  BY <1>1, <1>2, <1>3, <1>4, <1>5

(* Every step of client, broker and workers is one of these on the channel, *)
(* or leaves it alone.                                                      *)
LEMMA NextInv == ChannelInv /\ [Next]_vars => ChannelInv'
<1> SUFFICES ASSUME ChannelInv, [Next]_vars
             PROVE  ChannelInv'
  OBVIOUS
<1>1. CASE BrokerNext
  <2>1. CASE SendBatch
    BY <2>1, SendInv DEF SendBatch
  <2>2. CASE Execute
    BY <2>2, ExecuteInv DEF Execute
  <2>3. CASE StoreRwPanic
    BY <2>3, ReportInv DEF StoreRwPanic
  <2>4. CASE Kill
    BY <2>4, KillInv DEF Kill
  <2>5. CASE \/ LoadComplete \/ ExtendBuffer \/ TakeHint \/ SeeComplete
             \/ BufferProcessed \/ Notify \/ StoreRwPanicked \/ CheckPanicked
    <3>1. UNCHANGED channelVars
      BY <2>5 DEF LoadComplete, ExtendBuffer, TakeHint, SeeComplete, BufferProcessed,
                  Notify, StoreRwPanicked, CheckPanicked
    <3> QED
      BY <3>1, StutterInv
  <2> QED
    BY <1>1, <2>1, <2>2, <2>3, <2>4, <2>5 DEF BrokerNext
<1>2. CASE ClientNext
  <2>1. UNCHANGED channelVars
    BY <1>2 DEF ClientNext, Publish, StoreHint, GetAwaiter, LoadMaxResolved,
                LoadPanicked,
                AwaitTakePanic, StartWait, FinalFlush, StoreComplete, Join
  <2> QED
    BY <2>1, StutterInv
<1>3. ASSUME NEW w \in Workers, WorkerNext(w) \/ Spurious(w)
      PROVE  ChannelInv'
  <2>1. CASE Invoke(w) \/ InvokePanics(w)
    BY <2>1, RunInv DEF Invoke, InvokePanics
  <2>2. CASE WorkerStep(w)
    BY <2>2, WaitInv, RunInv DEF WorkerStep
  <2>3. CASE Spurious(w)
    BY <2>3, WaitInv DEF Spurious
  <2> QED
    BY <1>3, <2>1, <2>2, <2>3 DEF WorkerNext
<1>4. CASE AllFinished \/ UNCHANGED vars
  BY <1>4, StutterInv DEF AllFinished, vars
<1> QED
  BY <1>1, <1>2, <1>3, <1>4 DEF Next

(* ChannelInv is an invariant of the window: whichever batch the broker is  *)
(* in, each worker has not taken it, is running it, or is done with it.     *)
THEOREM ChannelInvariant == Spec => []ChannelInv
<1>1. Init => ChannelInv
  BY InitInv DEF Init
<1> QED
  BY <1>1, NextInv, PTL DEF Spec

(* Broker and workers never use an element of the lock-step channel at once *)
(* and wait_for_tasks' assert never fails, for every number of workers,     *)
(* every order, and whatever panics.                                        *)
THEOREM Exclusion == Spec => []ChannelExclusive
<1>1. ChannelInv => ChannelExclusive
  BY DEF ChannelExclusive, ChannelInv, ChannelTypes, Rested, NotTaken, Running,
         Finishing,
         Awaited, Resting, Killing, Released, Looking, Using
<1> QED
  BY <1>1, ChannelInvariant, PTL

---------------------------------------------------------------------------
(* What the window does with the tasks.                                     *)

(* The broker is between writing a batch into the elements and clearing     *)
(* them; or has also not looked yet at whether a worker panicked.           *)
InBatch == {"correlate"} \union Released
Executing == InBatch \union {"executed", "reported"}

WindowTypes ==
    /\ order \in Orders
    /\ order_size \in Nat /\ range_start \in Nat /\ range_end \in Nat
    /\ range_start <= range_end /\ range_end <= order_size /\ order_size <= NumTasks
    /\ batch \in Nat /\ awaited \in Nat
    /\ max_resolved \in Nat /\ max_resolved <= range_start
    /\ resolved \subseteq Nat
    /\ items \in [Workers -> Seq(Nat)] /\ held \in [Workers -> Seq(Nat)]

(* Where the broker is in resolve while it is in the channel, and what a    *)
(* panic leaves it to do: it never sends another batch.                     *)
BrokerInv ==
    /\ bpc \in Executing => rpc = "process"
    /\ bpc \in Executing => batch \in 1..(range_end - range_start)
    /\ bpc \in Killing => rpc = "exit"
    /\ bpc = "correlate" => ~panicked
    /\ bpc = "reported" => panicked
    /\ bpc \in {"outside"} \union Killing /\ panicked =>
            \/ rpc = "rw_panicked"
            \/ rpc \in {"check", "exit"} /\ rw_panicked
    /\ bpc = "outside" /\ rpc = "notify" =>
            batch \in 1..range_start /\ max_resolved <= range_start - batch

(* A batch's tasks are dealt to the workers without repetition, and cover   *)
(* it; it is no wider than its first task allows.                           *)
Places == (range_start + 1)..(range_start + batch)

DealtOnce ==
    \A w, x \in Workers : \A i \in 1..Len(items[w]), j \in 1..Len(items[x]) :
        items[w][i] = items[x][j] => w = x /\ i = j

DealtAll == \A t \in Places : \E w \in Workers : \E i \in 1..Len(items[w]) : items[w][i] = t

Dealt ==
    /\ batch <= order.parallelism[range_start + 1]
    /\ \A w \in Workers : \A i \in 1..Len(items[w]) : items[w][i] \in Places
    /\ DealtOnce
    /\ DealtAll

BatchInv ==
    /\ bpc \in InBatch => Dealt
    /\ bpc \notin InBatch => \A w \in Workers : items[w] = <<>>

(* A worker has not touched its share, or has run it up to what it holds.   *)
Untouched(w) ==
    /\ held[w] = <<>>
    /\ \A i \in 1..Len(items[w]) : items[w][i] \notin resolved

RunUpTo(h, s, R) ==
    /\ Len(h) <= Len(s)
    /\ \A i \in 1..Len(h) : h[i] = s[i + (Len(s) - Len(h))] /\ h[i] \notin R
    /\ \A i \in 1..(Len(s) - Len(h)) : s[i] \in R

Begun(w) == RunUpTo(held[w], items[w], resolved)

(* Tasks are left with a worker only while it runs them, or because it has  *)
(* panicked.                                                                *)
HeldInv ==
    \A w \in Workers : held[w] # <<>> =>
        \/ bpc \in Released /\ wpc[w] \in {"run_die_order", "run", "panicking"}
        \/ panicked /\ wpc[w] \in {"panic_done", "exited"}

ShareInv ==
    bpc \in InBatch => \A w \in Workers :
        IF bpc = "correlate" \/ correlation[w] # lock_correlation
        THEN Untouched(w) ELSE Begun(w)

(* What is resolved: the order up to range_start, and of the batch what the *)
(* workers have run.                                                        *)
ResolvedInv ==
    /\ 1..range_start \subseteq resolved
    /\ bpc \in Released => resolved \subseteq 1..(range_start + batch)
    /\ bpc = "executed" /\ ~panicked => resolved = 1..(range_start + batch)
    /\ bpc \in {"outside", "correlate"} \union Killing /\ ~panicked =>
            resolved = 1..range_start

(* What the client and the broker know of each other.                       *)
ClientInv ==
    /\ registration_complete => cpc \in {"join", "finished"}
    /\ complete => registration_complete
    /\ rpc = "exit" => rw_panicked \/ (complete /\ order_size = range_start)
    /\ rw_panicked \/ (rpc = "rw_panicked") => rw_panic \/ delivered
    /\ cpc \in {"await_take"} => rw_panicked
    /\ cpc \in {"max_resolved", "await_panicked", "await_take"} => awaited > 0
    /\ ReturnsHonest

WindowInv ==
    /\ WindowTypes /\ BrokerInv /\ BatchInv /\ HeldInv /\ ShareInv /\ ResolvedInv
    /\ ClientInv
---------------------------------------------------------------------------
(* The arithmetic of dealing tasks to the workers in turn.                  *)
LEMMA TimesMonotone ==
    ASSUME NEW a \in Nat, NEW b \in Nat, NEW n \in Nat, a < b
    PROVE  a * n + n <= b * n
<1> DEFINE d == b - a - 1
<1>1. d \in Nat /\ b = a + 1 + d
  OBVIOUS
<1>2. d * n \in Nat
  BY <1>1
<1> HIDE DEF d
<1> QED
  BY <1>1, <1>2

LEMMA DealtDistinct ==
    ASSUME NEW w \in Workers, NEW x \in Workers, NEW a \in Nat, NEW b \in Nat,
           w + a * NumWorkers = x + b * NumWorkers
    PROVE  w = x /\ a = b
<1> USE ChannelAssumption DEF Workers
<1>1. ASSUME a < b PROVE FALSE
  <2>1. a * NumWorkers + NumWorkers <= b * NumWorkers
    BY <1>1, TimesMonotone
  <2>2. a * NumWorkers \in Nat /\ b * NumWorkers \in Nat
    OBVIOUS
  <2> QED
    BY <2>1, <2>2
<1>2. ASSUME b < a PROVE FALSE
  <2>1. b * NumWorkers + NumWorkers <= a * NumWorkers
    BY <1>2, TimesMonotone
  <2>2. a * NumWorkers \in Nat /\ b * NumWorkers \in Nat
    OBVIOUS
  <2> QED
    BY <2>1, <2>2
<1>3. a = b
  BY <1>1, <1>2
<1>4. a * NumWorkers \in Nat
  OBVIOUS
<1> QED
  BY <1>3, <1>4

LEMMA Quotient ==
    ASSUME NEW m \in Nat, NEW i \in Nat
    PROVE  i <= m \div NumWorkers <=> i * NumWorkers <= m
<1> USE ChannelAssumption
<1> DEFINE q == m \div NumWorkers
           r == m % NumWorkers
<1>1. q \in Nat /\ r \in 0..(NumWorkers - 1) /\ m = q * NumWorkers + r
  OBVIOUS
<1>2. q * NumWorkers \in Nat /\ i * NumWorkers \in Nat
  BY <1>1
<1> HIDE DEF q, r
<1>3. ASSUME i <= q PROVE i * NumWorkers <= m
  <2>1. CASE i = q
    BY <2>1, <1>1, <1>2
  <2>2. CASE i < q
    BY <2>2, <1>1, <1>2, TimesMonotone
  <2> QED
    BY <1>3, <2>1, <2>2, <1>1
<1>4. ASSUME q < i PROVE ~(i * NumWorkers <= m)
  BY <1>4, <1>1, <1>2, TimesMonotone
<1> QED
  BY <1>1, <1>3, <1>4 DEF q

(* The i-th task a worker gets of n lies among the n, and every one of them *)
(* is dealt to a worker.                                                    *)
LEMMA DealtWithin ==
    ASSUME NEW n \in Nat, NEW w \in Workers,
           NEW i \in 1..((n + NumWorkers - 1 - w) \div NumWorkers)
    PROVE  w + (i - 1) * NumWorkers \in 0..(n - 1)
<1> USE ChannelAssumption DEF Workers
<1>1. n + NumWorkers - 1 - w \in Nat /\ w \in Nat
  OBVIOUS
<1>2. (n + NumWorkers - 1 - w) \div NumWorkers \in Nat
  BY <1>1
<1>3. i \in Nat /\ i - 1 \in Nat
  BY <1>2
<1>4. i * NumWorkers <= n + NumWorkers - 1 - w
  BY <1>1, <1>2, <1>3, Quotient
<1>5. (i - 1) * NumWorkers = i * NumWorkers - NumWorkers
  BY <1>3
<1>6. (i - 1) * NumWorkers \in Nat /\ i * NumWorkers \in Nat
  BY <1>3
<1> QED
  BY <1>1, <1>3, <1>4, <1>5, <1>6

LEMMA DealtToSomeone ==
    ASSUME NEW n \in Nat, NEW p \in 0..(n - 1)
    PROVE  \E w \in Workers :
               \E i \in 1..((n + NumWorkers - 1 - w) \div NumWorkers) :
                   p = w + (i - 1) * NumWorkers
<1> USE ChannelAssumption DEF Workers
<1> DEFINE w == p % NumWorkers
           q == p \div NumWorkers
<1>1. q \in Nat /\ w \in Workers /\ p = q * NumWorkers + w
  OBVIOUS
<1> HIDE DEF w, q
<1>2. (q + 1) * NumWorkers = q * NumWorkers + NumWorkers /\ q * NumWorkers \in Nat
  BY <1>1
<1>3. n + NumWorkers - 1 - w \in Nat /\ (q + 1) * NumWorkers <= n + NumWorkers - 1 - w
  BY <1>1, <1>2
<1>4. q + 1 <= (n + NumWorkers - 1 - w) \div NumWorkers
  BY <1>1, <1>3, Quotient
<1>5. (n + NumWorkers - 1 - w) \div NumWorkers \in Nat
  BY <1>3
<1>6. q + 1 \in 1..((n + NumWorkers - 1 - w) \div NumWorkers)
  BY <1>1, <1>4, <1>5
<1>7. p = w + ((q + 1) - 1) * NumWorkers
  BY <1>1, <1>2
<1> QED
  BY <1>1, <1>6, <1>7

(* The least of three numbers.                                              *)
LEMMA LeastOfThree ==
    ASSUME NEW a \in Nat, NEW b \in Nat, NEW c \in Nat
    PROVE  /\ Least({a, b, c}) \in {a, b, c}
           /\ Least({a, b, c}) <= a /\ Least({a, b, c}) <= b /\ Least({a, b, c}) <= c
<1>1. \E x \in {a, b, c} : \A y \in {a, b, c} : x <= y
  OBVIOUS
<1> QED
  BY <1>1 DEF Least
---------------------------------------------------------------------------
LEMMA SuffixIndex ==
    ASSUME NEW n \in Nat, NEW m \in Nat, m <= n, NEW i \in 1..m
    PROVE  i + (n - m) \in 1..n
  OBVIOUS

(* Running the first task held.                                             *)
LEMMA RunFirst ==
    ASSUME NEW s \in Seq(Nat), NEW h \in Seq(Nat), NEW R, RunUpTo(h, s, R), h # <<>>,
           \A i, j \in 1..Len(s) : s[i] = s[j] => i = j
    PROVE  RunUpTo(Tail(h), s, R \union {Head(h)})
<1> DEFINE n == Len(s)
           m == Len(h)
<1>1. n \in Nat /\ m \in Nat /\ m > 0 /\ m <= n
  BY EmptySeq DEF RunUpTo
<1>2. Len(Tail(h)) = m - 1 /\ \A i \in 1..(m - 1) : Tail(h)[i] = h[i + 1]
  BY HeadTailProperties
<1>3. Head(h) = h[1]
  OBVIOUS
<1>4. /\ \A i \in 1..m : h[i] = s[i + (n - m)] /\ h[i] \notin R
      /\ \A i \in 1..(n - m) : s[i] \in R
  BY DEF RunUpTo
<1> HIDE DEF n, m
<1>5. h[1] = s[1 + (n - m)] /\ 1 + (n - m) \in 1..n
  BY <1>1, <1>4
<1>6. ASSUME NEW i \in 1..(m - 1)
      PROVE  /\ Tail(h)[i] = s[i + (n - (m - 1))]
             /\ Tail(h)[i] \notin R \union {Head(h)}
  <2>1. i + 1 \in 1..m /\ (i + 1) + (n - m) = i + (n - (m - 1))
    BY <1>1
  <2>2. i + (n - (m - 1)) \in 1..n /\ i + (n - (m - 1)) # 1 + (n - m)
    BY <1>1
  <2>3. Tail(h)[i] = s[i + (n - (m - 1))] /\ Tail(h)[i] \notin R
    BY <1>2, <1>4, <2>1
  <2>4. s[i + (n - (m - 1))] # s[1 + (n - m)]
    BY <1>5, <2>2 DEF n
  <2> QED
    BY <1>3, <1>5, <2>3, <2>4
<1>7. ASSUME NEW i \in 1..(n - (m - 1))
      PROVE  s[i] \in R \union {Head(h)}
  <2>1. i = 1 + (n - m) \/ i \in 1..(n - m)
    BY <1>1
  <2> QED
    BY <1>3, <1>4, <1>5, <2>1
<1> QED
  BY <1>1, <1>2, <1>6, <1>7 DEF RunUpTo, n

(* A batch is at least one task and no more than the buffer holds and its   *)
(* first task allows.                                                       *)
LEMMA OrderTypes ==
    ASSUME WindowTypes
    PROVE  /\ order.needs \in Seq(SUBSET Nat) /\ NumTasks \in Nat
           /\ \A k \in 1..NumTasks :
                /\ order.parallelism[k] \in Nat \ {0}
                /\ \A j \in order.needs[k] :
                      j \in 1..(k - 1) /\ \A i \in 1..j : i + order.parallelism[i] <= k
<1>1. IsOrder(order) /\ OrderIndependent(order)
  BY WindowAssumption DEF WindowTypes
<1>2. order.needs \in Seq(SUBSET Nat)
  BY <1>1 DEF IsOrder
<1>3. NumTasks \in Nat /\ DOMAIN order.needs = 1..NumTasks
  BY <1>2, LenProperties DEF NumTasks
<1>4. \A k \in 1..NumTasks : order.parallelism[k] \in Nat
  BY <1>1, <1>3 DEF IsOrder
<1>5. \A k \in 1..NumTasks :
        /\ order.parallelism[k] > 0
        /\ \A j \in order.needs[k] :
              j \in 1..(k - 1) /\ \A i \in 1..j : i + order.parallelism[i] <= k
  BY <1>1, <1>3, Zenon DEF OrderIndependent
<1>6. \A k \in 1..NumTasks : order.parallelism[k] \in Nat \ {0}
  BY <1>4, <1>5
<1> QED
  BY <1>2, <1>3, <1>5, <1>6, Zenon

LEMMA BatchCountBounds ==
    ASSUME WindowTypes, range_end > range_start
    PROVE  /\ BatchCount \in 1..(range_end - range_start)
           /\ BatchCount <= order.parallelism[range_start + 1]
<1>1. order.parallelism[range_start + 1] \in Nat \ {0}
  BY OrderTypes DEF WindowTypes
<1>2. NumWorkers * ElemSize \in Nat \ {0}
  <2>1. NumWorkers \in Nat \ {0} /\ ElemSize \in Nat \ {0}
    BY ChannelAssumption, WindowAssumption
  <2> QED
    BY <2>1
<1>3. range_end - range_start \in Nat \ {0}
  BY DEF WindowTypes
<1> QED
  BY <1>1, <1>2, <1>3, LeastOfThree DEF BatchCount

(* What SendBatch writes into the elements.                                 *)
LEMMA ShareDeals ==
    ASSUME WindowTypes, range_end > range_start, NEW w \in Workers
    PROVE  /\ Share(w) \in Seq(Nat)
           /\ Len(Share(w)) = (BatchCount + NumWorkers - 1 - w) \div NumWorkers
           /\ \A i \in 1..Len(Share(w)) :
                /\ Share(w)[i] = range_start + 1 + (w + (i - 1) * NumWorkers)
                /\ Share(w)[i] \in (range_start + 1)..(range_start + BatchCount)
<1> DEFINE n == (BatchCount + NumWorkers - 1 - w) \div NumWorkers
<1>1. BatchCount \in Nat /\ range_start \in Nat /\ w \in Nat
  BY BatchCountBounds DEF WindowTypes, Workers
<1>2. n \in Nat
  BY <1>1, ChannelAssumption DEF Workers
<1>3. \A i \in 1..n : w + (i - 1) * NumWorkers \in 0..(BatchCount - 1)
  BY <1>1, DealtWithin
<1>4. Share(w) = [i \in 1..n |-> range_start + 1 + w + (i - 1) * NumWorkers]
  BY DEF Share
<1> HIDE DEF n
<1>5. \A i \in 1..n :
        /\ range_start + 1 + w + (i - 1) * NumWorkers
                = range_start + 1 + (w + (i - 1) * NumWorkers)
        /\ range_start + 1 + (w + (i - 1) * NumWorkers)
                \in (range_start + 1)..(range_start + BatchCount)
  <2>1. \A i \in 1..n : (i - 1) * NumWorkers \in Int
    BY <1>2, ChannelAssumption
  <2> QED
    BY <1>1, <1>3, <2>1
<1>6. Share(w) \in [1..n -> Nat]
  BY <1>1, <1>4, <1>5
<1>7. Share(w) \in Seq(Nat) /\ Len(Share(w)) = n
  BY <1>2, <1>6, SeqDef
<1> QED
  BY <1>4, <1>5, <1>7 DEF n
LEMMA ShareOnce ==
    ASSUME WindowTypes, range_end > range_start,
           NEW w \in Workers, NEW x \in Workers,
           NEW i \in 1..Len(Share(w)), NEW j \in 1..Len(Share(x)),
           Share(w)[i] = Share(x)[j]
    PROVE  w = x /\ i = j
<1>1. range_start \in Nat /\ NumWorkers \in Nat /\ w \in Nat /\ x \in Nat
  BY ChannelAssumption DEF WindowTypes, Workers
<1>2. Len(Share(w)) \in Nat /\ Len(Share(x)) \in Nat
  BY ShareDeals
<1>3. i - 1 \in Nat /\ j - 1 \in Nat
  BY <1>2
<1>4. (i - 1) * NumWorkers \in Nat /\ (j - 1) * NumWorkers \in Nat
  BY <1>1, <1>3
<1>5. range_start + 1 + (w + (i - 1) * NumWorkers)
        = range_start + 1 + (x + (j - 1) * NumWorkers)
  BY ShareDeals
<1>6. w + (i - 1) * NumWorkers = x + (j - 1) * NumWorkers
  BY <1>1, <1>4, <1>5
<1>7. w = x /\ i - 1 = j - 1
  BY <1>3, <1>6, DealtDistinct
<1> QED
  BY <1>3, <1>7

LEMMA ShareAll ==
    ASSUME WindowTypes, range_end > range_start,
           NEW t \in (range_start + 1)..(range_start + BatchCount)
    PROVE  \E w \in Workers : \E i \in 1..Len(Share(w)) : Share(w)[i] = t
<1>1. range_start \in Nat /\ BatchCount \in Nat
  BY BatchCountBounds DEF WindowTypes
<1>2. t - range_start - 1 \in 0..(BatchCount - 1)
  BY <1>1
<1>3. PICK w \in Workers :
          \E i \in 1..((BatchCount + NumWorkers - 1 - w) \div NumWorkers) :
              t - range_start - 1 = w + (i - 1) * NumWorkers
  BY <1>1, <1>2, DealtToSomeone
<1>4. PICK i \in 1..Len(Share(w)) : t - range_start - 1 = w + (i - 1) * NumWorkers
  BY <1>3, ShareDeals
<1>5. Share(w)[i] = range_start + 1 + (t - range_start - 1)
  BY <1>4, ShareDeals
<1>6. Share(w)[i] = t
  BY <1>1, <1>5
<1> QED
  BY <1>6
---------------------------------------------------------------------------
LEMMA WindowInitInv == Init => WindowInv
<1> SUFFICES ASSUME Init PROVE WindowInv
  OBVIOUS
<1>1. order \in Orders /\ NumTasks \in Nat
  <2>1. order \in Orders /\ order.needs \in Seq(SUBSET Nat)
    BY WindowAssumption DEF Init, IsOrder
  <2> QED
    BY <2>1 DEF NumTasks
<1>2. WindowTypes
  <2>1. items \in [Workers -> Seq(Nat)] /\ held \in [Workers -> Seq(Nat)]
    BY DEF Init, ChannelInit, EmptyItems
  <2> QED
    BY <1>1, <2>1 DEF Init, ChannelInit, WindowTypes
<1>3. 1..0 = {}
  OBVIOUS
<1> QED
  BY <1>2, <1>3 DEF Init, ChannelInit, EmptyItems, WindowInv, BrokerInv, BatchInv,
                    HeldInv, ShareInv, ResolvedInv, ClientInv, ReturnsHonest, Executing,
                    InBatch, Released, Killing

(* A batch is sent when nothing is left of the one before and nobody has    *)
(* panicked: its tasks are the ones after what is resolved.                 *)
LEMMA SendBatchInv ==
    ASSUME WindowInv, ChannelInv, SendBatch
    PROVE  WindowInv'
<1> USE DEF WindowInv
<1>1. /\ bpc = "outside" /\ bpc' = "correlate" /\ rpc = "process" /\ rpc' = rpc
      /\ range_end > range_start /\ batch' = BatchCount
      /\ items' = [w \in Workers |-> items[w] \o Share(w)]
      /\ UNCHANGED <<panicked, held, order, commVars, range_start, range_end, complete,
                     clientVars, wpc, correlation, lock_correlation>>
  BY DEF SendBatch, Send, BrokerAt, shared, workerVars
<1>2. ~panicked /\ \A w \in Workers : held[w] = <<>>
  BY <1>1 DEF BrokerInv, HeldInv, Killing, Released
<1>3. \A w \in Workers : items'[w] = Share(w)
  <2> TAKE w \in Workers
  <2>1. items[w] = <<>> /\ Share(w) \in Seq(Nat)
    BY <1>1, ShareDeals DEF BatchInv, InBatch, Released
  <2> QED
    BY <1>1, <2>1, ConcatEmptySeq
<1>4. /\ batch' \in 1..(range_end - range_start)
      /\ batch' <= order.parallelism[range_start + 1]
  BY <1>1, BatchCountBounds
<1>5. WindowTypes'
  <2>1. items' \in [Workers -> Seq(Nat)]
    <3>1. items' = [w \in Workers |-> items'[w]]
      BY <1>1
    <3>2. \A w \in Workers : items'[w] \in Seq(Nat)
      BY <1>1, <1>3, ShareDeals
    <3> QED
      BY <3>1, <3>2
  <2> QED
    BY <1>1, <1>4, <2>1 DEF WindowTypes, NumTasks, commVars, clientVars
<1>6. BrokerInv'
  BY <1>1, <1>2, <1>4 DEF BrokerInv, Executing, InBatch, Released, Killing
<1>7. \A w \in Workers : \A i \in 1..Len(items'[w]) :
            items'[w][i] \in (range_start + 1)..(range_start + batch')
  BY <1>1, <1>3, ShareDeals
<1>8. Dealt'
  <2>1. DealtOnce'
    BY <1>1, <1>3, ShareOnce DEF DealtOnce
  <2>2. DealtAll'
    BY <1>1, <1>3, ShareAll DEF DealtAll, Places
  <2> QED
    BY <1>1, <1>4, <1>7, <2>1, <2>2 DEF Dealt, Places
<1>9. BatchInv'
  BY <1>1, <1>8 DEF BatchInv, InBatch
<1>10. HeldInv'
  BY <1>1, <1>2 DEF HeldInv
<1>11. resolved = 1..range_start
  BY <1>1, <1>2 DEF ResolvedInv
<1>12. ResolvedInv'
  BY <1>1, <1>11 DEF ResolvedInv, Released, Killing, commVars
<1>13. ShareInv'
  <2>1. \A w \in Workers : Untouched(w)'
    <3>1. \A t \in (range_start + 1)..(range_start + BatchCount) : t \notin resolved'
      <4>1. range_start \in Nat /\ BatchCount \in Nat /\ resolved' = resolved
        BY <1>1, BatchCountBounds DEF WindowTypes, commVars
      <4> QED
        BY <1>11, <4>1
    <3> QED
      BY <1>1, <1>2, <1>7, <3>1 DEF Untouched
  <2> QED
    BY <1>1, <2>1 DEF ShareInv
<1>14. ClientInv'
  BY <1>1 DEF ClientInv, ReturnsHonest, commVars, clientVars
<1> QED
  BY <1>5, <1>6, <1>9, <1>10, <1>12, <1>13, <1>14

(* Releasing a batch and waiting for it changes nothing about its tasks;    *)
(* raising the correlation is what tells the workers that have taken their  *)
(* share from those that have not.                                          *)
LEMMA ReleaseInv ==
    ASSUME WindowInv, ChannelInv, Execute,
           \/ RaiseCorrelation \/ OpenLock \/ StopParking
           \/ UnparkEach("unpark", "await") \/ AwaitDone \/ CloseLock
    PROVE  WindowInv'
<1> USE DEF WindowInv
<1>1. /\ bpc \in InBatch /\ bpc \notin {"clear", "executed"}
      /\ bpc' \in Released
      /\ IF bpc = "correlate" THEN lock_correlation' = lock_correlation + 1
         ELSE lock_correlation' = lock_correlation
      /\ UNCHANGED <<items, held, wpc, correlation, panicked>>
  BY DEF RaiseCorrelation, OpenLock, StopParking, UnparkEach, AwaitDone, CloseLock,
         BrokerAt, shared, data, workerVars, InBatch, Released
<1>2. UNCHANGED <<rpc, range_start, order, commVars, range_end, complete, batch, clientVars>>
  BY <1>1 DEF Execute
<1>3. WindowTypes'
  BY <1>1, <1>2 DEF WindowTypes, NumTasks, commVars, clientVars
<1>4. BrokerInv'
  BY <1>1, <1>2 DEF BrokerInv, Executing, InBatch, Released, Killing
<1>5. BatchInv'
  BY <1>1, <1>2 DEF BatchInv, InBatch, Dealt, DealtOnce, DealtAll, Places
<1>6. HeldInv'
  BY <1>1 DEF HeldInv, InBatch, Released
<1>7. ShareInv'
  <2>1. CASE bpc = "correlate"
    <3>1. \A w \in Workers : correlation'[w] # lock_correlation'
      BY <1>1, <2>1 DEF ChannelInv, ChannelTypes, Rested, Resting
    <3>2. \A w \in Workers : Untouched(w)'
      BY <1>1, <1>2, <2>1 DEF ShareInv, InBatch, Untouched, commVars
    <3> QED
      BY <3>1, <3>2 DEF ShareInv
  <2>2. CASE bpc # "correlate"
    <3>1. bpc' # "correlate"
      BY <1>1 DEF Released
    <3> QED
      BY <1>1, <1>2, <2>2, <3>1 DEF ShareInv, Untouched, Begun, commVars
  <2> QED
    BY <2>1, <2>2
<1>8. ResolvedInv'
  <2>1. bpc = "correlate" => resolved = 1..range_start
    BY <1>1 DEF ResolvedInv, BrokerInv
  <2>2. range_start \in Nat /\ batch \in Nat
    BY DEF WindowTypes
  <2>3. resolved \subseteq 1..(range_start + batch)
    BY <1>1, <2>1, <2>2 DEF ResolvedInv, InBatch
  <2> QED
    BY <1>1, <1>2, <2>3 DEF ResolvedInv, Released, Killing, commVars
<1>9. ClientInv'
  BY <1>2 DEF ClientInv, ReturnsHonest, commVars, clientVars
<1> QED
  BY <1>3, <1>4, <1>5, <1>6, <1>7, <1>8, <1>9

(* When every element is done and nobody has panicked, every task of the    *)
(* batch is resolved.                                                       *)
LEMMA AllDone ==
    ASSUME WindowInv, ChannelInv, bpc \in {"writing", "clear"}, ~panicked
    PROVE  resolved = 1..(range_start + batch)
<1>1. \A w \in Workers : done[w] /\ correlation[w] = lock_correlation
                         /\ wpc[w] \in Looking \union {"exited"}
  BY DEF ChannelInv, Awaited, Running, NotTaken, Finishing, Released
<1>2. \A w \in Workers : held[w] = <<>>
  BY <1>1 DEF WindowInv, HeldInv, Looking
<1>3. \A w \in Workers : \A i \in 1..Len(items[w]) : items[w][i] \in resolved
  <2> SUFFICES ASSUME NEW w \in Workers
               PROVE  \A i \in 1..Len(items[w]) : items[w][i] \in resolved
    OBVIOUS
  <2>1. Begun(w)
    BY <1>1 DEF WindowInv, ShareInv, InBatch, Released
  <2>2. Len(held[w]) = 0
    BY <1>2
  <2>3. Len(items[w]) - Len(held[w]) = Len(items[w])
    <3>1. Len(items[w]) \in Nat
      BY DEF WindowInv, WindowTypes
    <3> QED
      BY <2>2, <3>1
  <2> QED
    BY <2>1, <2>3 DEF Begun, RunUpTo
<1>4. Places \subseteq resolved
  BY <1>3 DEF WindowInv, BatchInv, Dealt, DealtAll, InBatch, Released
<1>5. 1..range_start \subseteq resolved /\ resolved \subseteq 1..(range_start + batch)
  BY DEF WindowInv, ResolvedInv, Released
<1>6. range_start \in Nat /\ batch \in Nat
  BY DEF WindowInv, WindowTypes
<1>7. \A t \in 1..(range_start + batch) : t \in 1..range_start \/ t \in Places
  BY <1>6 DEF Places
<1> QED
  BY <1>4, <1>5, <1>7

LEMMA ClearInv ==
    ASSUME WindowInv, ChannelInv, Execute, ClearElements
    PROVE  WindowInv'
<1> USE DEF WindowInv
<1>1. /\ bpc = "clear" /\ bpc' = "executed"
      /\ items' = [w \in Workers |-> <<>>]
      /\ UNCHANGED <<held, wpc, correlation, lock_correlation, panicked>>
  BY DEF ClearElements, BrokerAt, shared, workerVars, EmptyItems
<1>2. UNCHANGED <<rpc, range_start, order, commVars, range_end, complete, batch, clientVars>>
  BY <1>1 DEF Execute
<1>3. WindowTypes'
  <2>1. items' \in [Workers -> Seq(Nat)]
    BY <1>1
  <2> QED
    BY <1>1, <1>2, <2>1 DEF WindowTypes, NumTasks, commVars, clientVars
<1>4. BrokerInv'
  BY <1>1, <1>2 DEF BrokerInv, Executing, InBatch, Released, Killing
<1>5. BatchInv' /\ ShareInv'
  BY <1>1 DEF BatchInv, ShareInv, InBatch, Released
<1>6. HeldInv'
  <2>1. \A w \in Workers : wpc[w] \in Looking \union {"exited"}
    BY <1>1 DEF ChannelInv, Awaited, Running, NotTaken, Finishing, Released
  <2> QED
    BY <1>1, <2>1 DEF HeldInv, Looking
<1>7. ResolvedInv'
  <2>1. ~panicked => resolved = 1..(range_start + batch)
    BY <1>1, AllDone
  <2> QED
    BY <1>1, <1>2, <2>1 DEF ResolvedInv, Released, Killing, commVars
<1>8. ClientInv'
  BY <1>2 DEF ClientInv, ReturnsHonest, commVars, clientVars
<1> QED
  BY <1>3, <1>4, <1>5, <1>6, <1>7, <1>8

LEMMA GetPanicInv ==
    ASSUME WindowInv, ChannelInv, Execute, GetPanic
    PROVE  WindowInv'
<1> USE DEF WindowInv
<1>1. /\ bpc = "executed" /\ bpc' = IF panicked THEN "reported" ELSE "outside"
      /\ UNCHANGED <<items, held, wpc, correlation, lock_correlation, panicked>>
  BY DEF GetPanic, BrokerAt, shared, data, workerVars
<1>2. /\ UNCHANGED <<order, commVars, range_end, complete, batch, clientVars>>
      /\ IF panicked THEN UNCHANGED <<rpc, range_start>>
         ELSE rpc' = "notify" /\ range_start' = range_start + batch
  BY <1>1 DEF Execute
<1>3. rpc = "process" /\ batch \in 1..(range_end - range_start)
  BY <1>1 DEF BrokerInv, Executing
<1>4. range_start \in Nat /\ range_end \in Nat /\ max_resolved \in Nat
  BY DEF WindowTypes
<1>5. WindowTypes'
  <2>1. /\ range_start' \in Nat /\ range_start' <= range_end
        /\ max_resolved <= range_start'
    BY <1>2, <1>3, <1>4 DEF WindowTypes
  <2> QED
    BY <1>1, <1>2, <2>1 DEF WindowTypes, NumTasks, commVars, clientVars
<1>6. BrokerInv'
  <2>1. ~panicked => batch' \in 1..range_start' /\ max_resolved' <= range_start' - batch'
    BY <1>2, <1>3, <1>4 DEF WindowTypes, commVars
  <2> QED
    BY <1>1, <1>2, <1>3, <2>1 DEF BrokerInv, Executing, InBatch, Released, Killing
<1>7. BatchInv' /\ ShareInv'
  BY <1>1 DEF BatchInv, ShareInv, InBatch, Released
<1>8. HeldInv'
  BY <1>1 DEF HeldInv, Released
<1>9. ResolvedInv'
  BY <1>1, <1>2 DEF ResolvedInv, Released, Killing, commVars
<1>10. ClientInv'
  BY <1>2, <1>3 DEF ClientInv, ReturnsHonest, commVars, clientVars
<1> QED
  BY <1>5, <1>6, <1>7, <1>8, <1>9, <1>10

LEMMA ExecuteWindowInv ==
    ASSUME WindowInv, ChannelInv, Execute
    PROVE  WindowInv'
  BY ReleaseInv, ClearInv, GetPanicInv DEF Execute, ExecuteStep

(* The broker's other steps: what it reads of the client, what it tells it, *)
(* and how it ends.                                                         *)
LEMMA BrokerWindowInv ==
    ASSUME WindowInv, ChannelInv,
           \/ LoadComplete \/ ExtendBuffer \/ TakeHint \/ SeeComplete \/ BufferProcessed
           \/ Notify \/ StoreRwPanic \/ StoreRwPanicked \/ CheckPanicked \/ Kill
    PROVE  WindowInv'
<1> USE DEF WindowInv
<1>1. /\ bpc' \notin Executing /\ UNCHANGED <<items, held, wpc, panicked, order, order_size,
              registration_complete, resolved, range_start, clientVars>>
      /\ bpc \notin InBatch
      /\ (bpc = "outside" \/ bpc \in Killing) <=> bpc # "reported"
      /\ bpc' = "outside" \/ bpc' \in Killing
      /\ bpc' = "outside" => bpc \in {"outside", "reported"}
  BY DEF LoadComplete, ExtendBuffer, TakeHint, SeeComplete, BufferProcessed, Notify,
         StoreRwPanic, StoreRwPanicked, CheckPanicked, Kill, BrokerGoes, channelVars,
         commVars, windowVars, clientVars, PanicReported, OrderDeath, KillStep,
         KillStopParking, UnparkEach, JoinPool, BrokerAt, shared, data, workerVars,
         Executing, InBatch, Released, Killing
<1>2. BatchInv' /\ ShareInv'
  BY <1>1 DEF BatchInv, ShareInv, Executing
<1>3. HeldInv'
  BY <1>1 DEF HeldInv, InBatch
<1>4. ResolvedInv'
  BY <1>1 DEF ResolvedInv, BrokerInv, Executing, InBatch, Released, Killing
<1> SUFFICES WindowTypes' /\ BrokerInv' /\ ClientInv'
  BY <1>2, <1>3, <1>4
<1>5. CASE LoadComplete
  BY <1>5 DEF LoadComplete, BrokerGoes, channelVars, commVars, clientVars, WindowTypes,
              NumTasks, BrokerInv, Executing, InBatch, Released, Killing, ClientInv,
              ReturnsHonest
<1>6. CASE ExtendBuffer
  <2>1. /\ bpc = "outside" /\ rpc = "lock"
        /\ rpc' = (IF ~Extends THEN "hint" ELSE IF Finished THEN "exit" ELSE "process")
        /\ range_end' = IF Extends THEN ExtendTo ELSE range_end
        /\ UNCHANGED <<channelVars, order, commVars, range_start, complete, batch, clientVars>>
    BY <1>6 DEF ExtendBuffer, BrokerGoes
  <2>2. range_start <= range_end' /\ range_end' <= order_size /\ range_end' \in Nat
    <3>1. BufferCap \in Nat
      BY WindowAssumption
    <3> QED
      BY <2>1, <3>1 DEF ExtendTo, WindowTypes
  <2>3. WindowTypes'
    BY <2>1, <2>2 DEF WindowTypes, NumTasks, channelVars, commVars, clientVars
  <2>4. BrokerInv'
    BY <2>1 DEF BrokerInv, Executing, InBatch, Released, Killing, channelVars, commVars
  <2>5. rpc' = "exit" => complete /\ order_size = range_start
    BY <2>1 DEF Finished
  <2>6. ClientInv'
    BY <2>1, <2>5 DEF ClientInv, ReturnsHonest, channelVars, commVars, clientVars
  <2> QED
    BY <2>3, <2>4, <2>6
<1>7. CASE TakeHint \/ SeeComplete \/ BufferProcessed \/ CheckPanicked
  <2>1. /\ bpc = "outside"
        /\ \/ rpc = "hint" /\ rpc' = "load"
           \/ rpc = "process" /\ rpc' = "check"
           \/ rpc = "check" /\ rpc' = (IF rw_panicked THEN "exit" ELSE "load")
        /\ UNCHANGED <<channelVars, order, order_size, registration_complete, rw_panicked,
                       rw_panic, max_resolved, resolved, range_start, range_end, complete,
                       batch, clientVars>>
    BY <1>7 DEF TakeHint, SeeComplete, BufferProcessed, CheckPanicked, BrokerGoes, commVars
  <2>2. WindowTypes'
    BY <2>1 DEF WindowTypes, NumTasks, channelVars, clientVars
  <2>3. BrokerInv'
    BY <2>1 DEF BrokerInv, Executing, InBatch, Released, Killing, channelVars
  <2>4. ClientInv'
    BY <2>1 DEF ClientInv, ReturnsHonest, clientVars
  <2> QED
    BY <2>2, <2>3, <2>4
<1>8. CASE Notify
  <2>1. /\ bpc = "outside" /\ rpc = "notify" /\ rpc' \in {"process", "notify"}
        /\ max_resolved' = NotifiedLocation /\ batch' = batch - 1
        /\ rpc' = "notify" => batch # 1
        /\ UNCHANGED <<channelVars, order, order_size, registration_complete, rw_panicked,
                       rw_panic, resolved, range_start, range_end, complete, clientVars>>
    BY <1>8 DEF Notify
  <2>2. batch \in 1..range_start
    BY <2>1 DEF BrokerInv
  <2>3. WindowTypes'
    BY <2>1, <2>2 DEF WindowTypes, NumTasks, NotifiedLocation, channelVars, clientVars
  <2>4. rpc' = "notify" => batch' \in 1..range_start /\ max_resolved' <= range_start - batch'
    BY <2>1, <2>2 DEF WindowTypes, NotifiedLocation
  <2>5. BrokerInv'
    BY <2>1, <2>4 DEF BrokerInv, Executing, InBatch, Released, Killing, channelVars
  <2>6. ClientInv'
    BY <2>1 DEF ClientInv, ReturnsHonest, clientVars
  <2> QED
    BY <2>3, <2>5, <2>6
<1>9. CASE StoreRwPanic
  BY <1>9 DEF StoreRwPanic, PanicReported, BrokerAt, shared, data, workerVars, clientVars,
              WindowTypes, NumTasks, BrokerInv, Executing, InBatch, Released, Killing,
              ClientInv, ReturnsHonest
<1>10. CASE StoreRwPanicked
  BY <1>10 DEF StoreRwPanicked, BrokerGoes, channelVars, clientVars,
               WindowTypes, NumTasks, BrokerInv, Executing, InBatch, Released, Killing,
               ClientInv, ReturnsHonest
<1>11. CASE Kill
  <2>1. /\ bpc' \in Killing /\ rpc = "exit"
        /\ UNCHANGED <<items, held, panicked, order, commVars, windowVars, clientVars>>
        /\ bpc = "outside" \/ bpc \in Killing
    BY <1>11 DEF Kill, OrderDeath, KillStep, KillStopParking, UnparkEach, JoinPool,
                BrokerAt, shared, data, workerVars, Killing, BrokerInv
  <2> QED
    BY <2>1 DEF commVars, windowVars, clientVars, WindowTypes, NumTasks, BrokerInv,
                Executing, InBatch, Released, Killing, ClientInv, ReturnsHonest
<1> QED
  BY <1>5, <1>6, <1>7, <1>8, <1>9, <1>10, <1>11

(* The client's steps.  It is told that a task is resolved when the last    *)
(* one notified is as far; after that only a panic makes a wait return.     *)
LEMMA ClientWindowInv ==
    ASSUME WindowInv, ChannelInv, ClientNext
    PROVE  WindowInv'
<1> USE DEF WindowInv
<1>1. UNCHANGED <<channelVars, order, rw_panicked, max_resolved, resolved, windowVars>>
  BY DEF ClientNext, Publish, StoreHint, GetAwaiter, LoadMaxResolved, LoadPanicked,
         AwaitTakePanic, StartWait, FinalFlush, StoreComplete, Join, commVars
<1>2. BrokerInv' /\ BatchInv' /\ HeldInv' /\ ShareInv' /\ ResolvedInv'
  <2>1. BrokerInv' /\ ResolvedInv'
    BY <1>1 DEF channelVars, windowVars, BrokerInv, ResolvedInv
  <2>2. BatchInv'
    BY <1>1 DEF channelVars, windowVars, BatchInv, Dealt, DealtOnce, DealtAll, Places
  <2>3. HeldInv'
    BY <1>1 DEF channelVars, HeldInv
  <2>4. ShareInv'
    BY <1>1 DEF channelVars, ShareInv, Untouched, Begun
  <2> QED
    BY <2>1, <2>2, <2>3, <2>4
<1>3. NumTasks \in Nat /\ order_size \in Nat /\ NumTasks' = NumTasks
  BY <1>1, OrderTypes DEF WindowTypes, NumTasks
<1> SUFFICES WindowTypes' /\ ClientInv'
  BY <1>2
<1>4. CASE Publish \/ FinalFlush
  <2>1. /\ order_size' \in order_size..NumTasks /\ cpc \in {"idle", "finish"}
        /\ cpc' \in {"hint", "final_hint", "complete"}
        /\ UNCHANGED <<registration_complete, rw_panic, awaited, returned, delivered>>
    BY <1>3, <1>4 DEF Publish, FinalFlush, ClientGoes
  <2>2. WindowTypes'
    BY <1>1, <1>3, <2>1 DEF WindowTypes, channelVars, windowVars
  <2>3. ClientInv'
    BY <1>1, <2>1 DEF ClientInv, ReturnsHonest, windowVars
  <2> QED
    BY <2>2, <2>3
<1>5. CASE StoreHint \/ StartWait \/ LoadPanicked \/ StoreComplete
  <2>1. /\ UNCHANGED <<order_size, rw_panic, awaited, returned, delivered>>
        /\ \/ /\ cpc \in {"hint", "final_hint", "idle"} /\ cpc' \in {"idle", "complete", "finish"}
              /\ UNCHANGED registration_complete
           \/ /\ cpc = "await_panicked" /\ UNCHANGED registration_complete
              /\ cpc' = (IF rw_panicked THEN "await_take" ELSE "max_resolved")
           \/ registration_complete' = TRUE /\ cpc = "complete" /\ cpc' = "join"
    BY <1>5 DEF StoreHint, StartWait, LoadPanicked, StoreComplete, ClientGoes, commVars
  <2>2. WindowTypes'
    BY <1>1, <1>3, <2>1 DEF WindowTypes, channelVars, windowVars
  <2>3. ClientInv'
    BY <1>1, <2>1 DEF ClientInv, ReturnsHonest, windowVars
  <2> QED
    BY <2>2, <2>3
<1>6. CASE GetAwaiter
  <2>1. /\ cpc = "idle" /\ cpc' = "max_resolved" /\ awaited' \in 1..order_size
        /\ UNCHANGED <<commVars, returned, delivered>>
    BY <1>6 DEF GetAwaiter, ClientGoes
  <2>2. WindowTypes' /\ awaited' > 0
    BY <1>1, <1>3, <2>1 DEF WindowTypes, channelVars, windowVars, commVars
  <2>3. ClientInv'
    BY <1>1, <2>1, <2>2 DEF ClientInv, ReturnsHonest, windowVars, commVars
  <2> QED
    BY <2>2, <2>3
<1>7. CASE LoadMaxResolved
  <2>1. /\ cpc = "max_resolved" /\ cpc' = IF AwaiterReady THEN "idle" ELSE "await_panicked"
        /\ returned' = IF AwaiterReady THEN returned \union {awaited} ELSE returned
        /\ UNCHANGED <<commVars, awaited, delivered>>
    BY <1>7 DEF LoadMaxResolved, ClientGoes
  <2>2. WindowTypes'
    BY <1>1, <1>3, <2>1 DEF WindowTypes, channelVars, windowVars, commVars
  <2>3. AwaiterReady => awaited \in resolved
    <3>1. awaited > 0
      BY <2>1 DEF ClientInv
    <3> QED
      BY <3>1 DEF AwaiterReady, WindowTypes, ResolvedInv
  <2>4. ClientInv'
    BY <1>1, <2>1, <2>3 DEF ClientInv, ReturnsHonest, windowVars, commVars
  <2> QED
    BY <2>2, <2>4
<1>8. CASE AwaitTakePanic
  <2>1. /\ cpc = "await_take" /\ cpc' \in {"idle", "finish"} /\ rw_panic' = FALSE
        /\ rw_panic => delivered' = TRUE
        /\ ~rw_panic => UNCHANGED delivered
        /\ UNCHANGED <<order_size, registration_complete, awaited>>
    BY <1>8 DEF AwaitTakePanic
  <2>2. WindowTypes'
    BY <1>1, <1>3, <2>1 DEF WindowTypes, channelVars, windowVars
  <2>3. delivered' = TRUE \/ delivered'
    BY <2>1 DEF ClientInv
  <2>4. ClientInv'
    BY <1>1, <2>1, <2>3 DEF ClientInv, ReturnsHonest, windowVars
  <2> QED
    BY <2>2, <2>4
<1>9. CASE Join
  <2>1. /\ cpc = "join" /\ cpc' = "finished" /\ bpc = "exited"
        /\ delivered' = (delivered \/ (rw_panicked /\ rw_panic))
        /\ rw_panic' = (rw_panic /\ ~rw_panicked)
        /\ UNCHANGED <<order_size, registration_complete, awaited, returned>>
    BY <1>9 DEF Join, ClientGoes
  <2>2. WindowTypes'
    BY <1>1, <1>3, <2>1 DEF WindowTypes, channelVars, windowVars
  <2>3. delivered' \/ resolved = 1..order_size
    <3>1. rpc = "exit"
      BY <2>1 DEF BrokerInv, Killing
    <3>2. CASE rw_panicked
      BY <2>1, <3>1, <3>2 DEF ClientInv
    <3>3. CASE ~rw_panicked
      BY <2>1, <3>1, <3>3 DEF ClientInv, ResolvedInv, BrokerInv, Killing
    <3> QED
      BY <3>2, <3>3
  <2>4. ClientInv'
    BY <1>1, <2>1, <2>3 DEF ClientInv, ReturnsHonest, windowVars
  <2> QED
    BY <2>2, <2>4
<1> QED
  BY <1>4, <1>5, <1>6, <1>7, <1>8, <1>9 DEF ClientNext

(* What the invariant says of a worker that holds tasks: they are tasks of  *)
(* the batch, not resolved, whose inputs are, and nobody else holds them.   *)
LEMMA HeldTasks ==
    ASSUME WindowInv, ChannelInv, NEW w \in Workers, bpc \in Released,
           correlation[w] = lock_correlation, NEW i \in 1..Len(held[w])
    PROVE  /\ held[w][i] \in Places /\ InvokeAsserts(held[w][i])
           /\ i + (Len(items[w]) - Len(held[w])) \in 1..Len(items[w])
           /\ held[w][i] = items[w][i + (Len(items[w]) - Len(held[w]))]
<1> USE DEF WindowInv
<1>1. Begun(w)
  BY DEF ShareInv, InBatch, Released
<1>2. Len(items[w]) \in Nat /\ Len(held[w]) \in Nat /\ range_start \in Nat /\ batch \in Nat
  BY DEF WindowTypes
<1>3. i + (Len(items[w]) - Len(held[w])) \in 1..Len(items[w])
  <2>1. Len(held[w]) <= Len(items[w])
    BY <1>1 DEF Begun, RunUpTo
  <2> QED
    BY <1>2, <2>1, SuffixIndex
<1>4. /\ held[w][i] = items[w][i + (Len(items[w]) - Len(held[w]))]
      /\ held[w][i] \notin resolved
  BY <1>1 DEF Begun, RunUpTo
<1>5. held[w][i] \in Places
  BY <1>3, <1>4 DEF BatchInv, InBatch, Dealt
<1>6. order.needs[held[w][i]] \subseteq resolved
  <2> DEFINE t == held[w][i]
  <2>1. batch <= order.parallelism[range_start + 1] /\ batch \in 1..(range_end - range_start)
    BY DEF BatchInv, InBatch, Dealt, BrokerInv, Executing
  <2>2. t \in (range_start + 1)..(range_start + batch) /\ t \in 1..NumTasks
        /\ range_start + 1 \in 1..NumTasks
    BY <1>2, <1>5, <2>1, OrderTypes DEF Places, WindowTypes
  <2> HIDE DEF t
  <2>3. \A j \in order.needs[t] :
            j \in 1..(t - 1) /\ \A k \in 1..j : k + order.parallelism[k] <= t
    BY <2>2, OrderTypes
  <2>4. order.parallelism[range_start + 1] \in Nat
    BY <2>2, OrderTypes
  <2>5. ASSUME NEW j \in order.needs[t] PROVE j \in 1..range_start
    <3>1. j \in 1..(t - 1) /\ t \in Nat
      BY <1>2, <2>2, <2>3
    <3>2. CASE range_start + 1 <= j
      <4>1. range_start + 1 \in 1..j
        BY <1>2, <3>1, <3>2
      <4>2. range_start + 1 + order.parallelism[range_start + 1] <= t
        BY <2>3, <4>1
      <4> QED
        BY <1>2, <2>1, <2>2, <2>4, <4>2
    <3> QED
      BY <1>2, <3>1, <3>2
  <2>6. order.needs[t] \subseteq resolved
    BY <2>5 DEF ResolvedInv
  <2> QED
    BY <2>6 DEF t
<1> QED
  BY <1>3, <1>4, <1>5, <1>6 DEF InvokeAsserts

LEMMA HeldApart ==
    ASSUME WindowInv, ChannelInv, bpc \in Released, NEW w \in Workers, NEW x \in Workers,
           correlation[w] = lock_correlation, w # x,
           NEW i \in 1..Len(held[w]), NEW j \in 1..Len(items[x])
    PROVE  held[w][i] # items[x][j]
<1>1. PICK k \in 1..Len(items[w]) : held[w][i] = items[w][k]
  BY HeldTasks
<1>2. DealtOnce
  BY DEF WindowInv, BatchInv, InBatch, Dealt
<1>3. items[w][k] = items[x][j] => w = x
  BY <1>2 DEF DealtOnce
<1> QED
  BY <1>1, <1>3

(* A worker in the middle of its run is in a released batch it has taken,   *)
(* unless it is about to see the order to die.                              *)
LEMMA UsingReleased ==
    ASSUME ChannelInv, NEW w \in Workers,
           wpc[w] \in {"take", "run", "panicking", "panic_done"}
               \/ (wpc[w] = "run_die_order" /\ ~die_order)
    PROVE  /\ bpc \in Released
           /\ wpc[w] # "take" => correlation[w] = lock_correlation
           /\ wpc[w] = "take" => correlation[w] = lock_correlation - 1
           /\ ~die_order
  BY DEF ChannelInv, ChannelTypes, Rested, NotTaken, Running, Finishing, Resting, Released,
         Looking, Using, Killing

LEMMA InvokeInv ==
    ASSUME WindowInv, ChannelInv, NEW w \in Workers, Invoke(w)
    PROVE  WindowInv'
<1> USE DEF WindowInv
<1> DEFINE t == Head(held[w])
<1>1. /\ wpc[w] = "run" /\ held[w] # <<>>
      /\ held' = [held EXCEPT ![w] = Tail(@)]
      /\ resolved' = resolved \union {t}
      /\ UNCHANGED <<items, wpc, correlation, lock_correlation, panicked, bpc, order,
                     order_size, registration_complete, rw_panicked, rw_panic,
                     max_resolved, windowVars, clientVars>>
  BY DEF Invoke, RunTask, shared, data, brokerVars
<1>2. bpc \in Released /\ correlation[w] = lock_correlation
  BY <1>1, UsingReleased
<1>3. /\ held[w] \in Seq(Nat) /\ items[w] \in Seq(Nat) /\ range_start \in Nat /\ batch \in Nat
      /\ held \in [Workers -> Seq(Nat)]
  BY DEF WindowTypes
<1>4. Len(held[w]) \in Nat /\ Len(held[w]) > 0 /\ Len(items[w]) \in Nat
  BY <1>1, <1>3, EmptySeq
<1>5. /\ held'[w] \in Seq(Nat) /\ Len(held'[w]) = Len(held[w]) - 1
      /\ \A i \in 1..Len(held'[w]) : held'[w][i] = held[w][i + 1]
      /\ \A x \in Workers \ {w} : held'[x] = held[x]
  BY <1>1, <1>3, HeadTailProperties
<1>6. t = held[w][1] /\ 1 \in 1..Len(held[w])
  BY <1>1, <1>3, <1>4
<1>7. t \in Places /\ t \in Nat
  <2>1. t \in Places
    BY <1>2, <1>6, HeldTasks
  <2> QED
    BY <1>3, <2>1 DEF Places
<1> HIDE DEF t
<1>8. WindowTypes'
  <2>1. held' \in [Workers -> Seq(Nat)]
    BY <1>1, <1>3, <1>5
  <2> QED
    BY <1>1, <1>7, <2>1 DEF WindowTypes, NumTasks, windowVars, clientVars
<1>9. BrokerInv' /\ BatchInv'
  <2>1. BrokerInv'
    BY <1>1 DEF BrokerInv, windowVars
  <2>2. BatchInv'
    BY <1>1 DEF BatchInv, Dealt, DealtOnce, DealtAll, Places, windowVars
  <2> QED
    BY <2>1, <2>2
<1>10. HeldInv'
  BY <1>1, <1>2, <1>5 DEF HeldInv
<1>11. Begun(w)'
  <2>1. Begun(w)
    BY <1>2 DEF ShareInv, InBatch, Released
  <2>2. \A i, j \in 1..Len(items[w]) : items[w][i] = items[w][j] => i = j
    BY <1>2 DEF BatchInv, InBatch, Dealt, DealtOnce
  <2>3. RunUpTo(Tail(held[w]), items[w], resolved \union {Head(held[w])})
    BY <1>1, <1>3, <2>1, <2>2, RunFirst DEF Begun
  <2> QED
    BY <1>1, <1>3, <2>3 DEF Begun, t
<1>12. ASSUME NEW x \in Workers, x # w
       PROVE  (Untouched(x) => Untouched(x)')
              /\ (Begun(x) /\ correlation[x] = lock_correlation => Begun(x)')
  <2>1. \A j \in 1..Len(items[x]) : t # items[x][j]
    BY <1>2, <1>6, <1>12, HeldApart
  <2>2. Untouched(x) => Untouched(x)'
    BY <1>1, <1>5, <1>12, <2>1 DEF Untouched
  <2>3. ASSUME Begun(x), correlation[x] = lock_correlation PROVE Begun(x)'
    <3>1. \A j \in 1..Len(held[x]) : held[x][j] # t
      BY <1>2, <2>1, <2>3, HeldTasks
    <3>2. held'[x] = held[x] /\ items'[x] = items[x] /\ resolved' = resolved \union {t}
      BY <1>1, <1>5, <1>12
    <3>3. RunUpTo(held[x], items[x], resolved)
      BY <2>3 DEF Begun
    <3>4. RunUpTo(held[x], items[x], resolved \union {t})
      BY <3>1, <3>3 DEF RunUpTo
    <3> QED
      BY <3>2, <3>4 DEF Begun
  <2> QED
    BY <2>2, <2>3
<1>13. ShareInv'
  <2>1. bpc \in InBatch /\ bpc # "correlate"
    BY <1>2 DEF InBatch, Released
  <2>2. \A x \in Workers : IF correlation[x] # lock_correlation THEN Untouched(x) ELSE Begun(x)
    BY <2>1 DEF ShareInv
  <2> QED
    BY <1>1, <1>2, <1>11, <1>12, <2>1, <2>2 DEF ShareInv
<1>14. ResolvedInv'
  <2>1. t \in 1..(range_start + batch)
    BY <1>3, <1>7 DEF Places
  <2> QED
    BY <1>1, <1>2, <2>1 DEF ResolvedInv, Released, Killing, windowVars
<1>15. ClientInv'
  <2>1. cpc # "finished" \/ delivered
    <3>1. cpc = "finished" /\ ~delivered => resolved = 1..order_size
      BY DEF ClientInv, ReturnsHonest
    <3>2. t \notin resolved /\ t \in 1..order_size
      <4>1. InvokeAsserts(t)
        BY <1>2, <1>6, HeldTasks
      <4>2. batch \in 1..(range_end - range_start)
        BY <1>2 DEF BrokerInv, Executing, InBatch
      <4> QED
        BY <1>3, <1>7, <4>1, <4>2 DEF InvokeAsserts, Places, WindowTypes
    <3> QED
      BY <3>1, <3>2
  <2> QED
    BY <1>1, <2>1 DEF ClientInv, ReturnsHonest, windowVars, clientVars
<1> QED
  BY <1>8, <1>9, <1>10, <1>13, <1>14, <1>15

(* The steps in which a worker looks at shared state, or ends: they leave   *)
(* its tasks where they are, or it has none.                                *)
LEMMA WorkerFrame ==
    ASSUME WindowInv, ChannelInv, NEW w \in Workers,
           \/ InvokePanics(w) \/ Spurious(w)
           \/ WorkerStep(w) /\ ~TakeTasks(w)
    PROVE  /\ UNCHANGED <<items, held, correlation, lock_correlation, bpc, order, commVars,
                          windowVars, clientVars>>
           /\ panicked => panicked'
           /\ panicked' # panicked => bpc \in Released
           /\ HeldInv'
<1>1. /\ UNCHANGED <<items, held, correlation, lock_correlation, bpc, order, commVars,
                     windowVars, clientVars>>
      /\ \A x \in Workers \ {w} : wpc'[x] = wpc[x]
  BY DEF InvokePanics, Spurious, WorkerStep, WaitStep, LoadPark, Unparked, LoadDie,
         LoadCorrelation, LoadLock, RunDieOrder, Done, StorePanic, PanicDone, TaskPanics,
         SpuriousUnpark, Goes, MarkDone, shared, data, brokerVars, ChannelInv, ChannelTypes
<1>2. wpc \in [Workers -> Looking \union Using \union {"lock_state", "take", "exited"}]
  BY DEF ChannelInv, ChannelTypes
<1>3. /\ panicked => panicked'
      /\ panicked' # panicked => wpc[w] = "panicking"
  BY DEF InvokePanics, Spurious, WorkerStep, WaitStep, LoadPark, Unparked, LoadDie,
         LoadCorrelation, LoadLock, RunDieOrder, Done, StorePanic, PanicDone, TaskPanics,
         SpuriousUnpark, Goes
<1>4. panicked' # panicked => bpc \in Released
  BY <1>3, UsingReleased
<1>5. held[w] # <<>> =>
        \/ bpc \in Released /\ wpc'[w] \in {"run_die_order", "run", "panicking"}
        \/ panicked' /\ wpc'[w] \in {"panic_done", "exited"}
  <2>1. CASE InvokePanics(w)
    BY <1>2, <2>1, UsingReleased DEF InvokePanics, TaskPanics, Goes
  <2>2. CASE Spurious(w)
    BY <1>2, <2>2 DEF Spurious, SpuriousUnpark, Goes, WindowInv, HeldInv
  <2>3. CASE LoadPark(w) \/ Unparked(w) \/ LoadDie(w) \/ LoadCorrelation(w) \/ LoadLock(w)
             \/ Done(w)
    BY <1>2, <2>3 DEF LoadPark, Unparked, LoadDie, LoadCorrelation, LoadLock, Done, Goes,
                      WindowInv, HeldInv
  <2>4. CASE RunDieOrder(w)
    <3>1. held[w] # <<>> => bpc \in Released
      BY <2>4 DEF RunDieOrder, Goes, WindowInv, HeldInv
    <3>2. bpc \in Released => ~die_order
      BY DEF ChannelInv, Released, Killing
    <3> QED
      BY <1>2, <2>4, <3>1, <3>2 DEF RunDieOrder, Goes
  <2>5. CASE StorePanic(w)
    BY <1>2, <2>5 DEF StorePanic, Goes
  <2>6. CASE PanicDone(w)
    BY <1>2, <2>6 DEF PanicDone, Goes, WindowInv, HeldInv
  <2> QED
    BY <2>1, <2>2, <2>3, <2>4, <2>5, <2>6 DEF WorkerStep, WaitStep
<1>6. HeldInv'
  BY <1>1, <1>3, <1>5 DEF WindowInv, HeldInv
<1> QED
  BY <1>1, <1>3, <1>4, <1>6

LEMMA WorkerFrameInv ==
    ASSUME WindowInv, ChannelInv, NEW w \in Workers,
           \/ InvokePanics(w) \/ Spurious(w)
           \/ WorkerStep(w) /\ ~TakeTasks(w)
    PROVE  WindowInv'
<1> USE DEF WindowInv
<1>1. /\ UNCHANGED <<items, held, correlation, lock_correlation, bpc, order, commVars,
                     windowVars, clientVars>>
      /\ panicked => panicked'
      /\ panicked' # panicked => bpc \in Released
      /\ HeldInv'
  BY WorkerFrame
<1>2. WindowTypes'
  BY <1>1 DEF WindowTypes, NumTasks, commVars, windowVars, clientVars
<1>3. BrokerInv'
  BY <1>1 DEF BrokerInv, Executing, InBatch, Released, Killing, commVars, windowVars
<1>4. BatchInv'
  BY <1>1 DEF BatchInv, Dealt, DealtOnce, DealtAll, Places, windowVars
<1>5. ShareInv'
  BY <1>1 DEF ShareInv, Untouched, Begun, commVars
<1>6. ResolvedInv'
  BY <1>1 DEF ResolvedInv, Released, Killing, commVars, windowVars
<1>7. ClientInv'
  BY <1>1 DEF ClientInv, ReturnsHonest, commVars, windowVars, clientVars
<1> QED
  BY <1>1, <1>2, <1>3, <1>4, <1>5, <1>6, <1>7

(* Taking the share.                                                        *)
LEMMA TakeInv ==
    ASSUME WindowInv, ChannelInv, NEW w \in Workers, WorkerStep(w), TakeTasks(w)
    PROVE  WindowInv'
<1> USE DEF WindowInv
<1>1. UNCHANGED <<items, lock_correlation, bpc, panicked, order, commVars, windowVars,
                  clientVars>>
  BY DEF WorkerStep, TakeTasks, shared, data, brokerVars
<1>2. wpc[w] = "take"
  BY DEF TakeTasks, Goes
<1>3. bpc \in Released /\ correlation[w] = lock_correlation - 1
  BY <1>2, UsingReleased
<1>4. /\ wpc' = [wpc EXCEPT ![w] = "run_die_order"]
      /\ correlation' = [correlation EXCEPT ![w] = lock_correlation]
      /\ held' = [held EXCEPT ![w] = items[w]]
  BY <1>3 DEF TakeTasks, Goes
<1>5. /\ held \in [Workers -> Seq(Nat)] /\ items \in [Workers -> Seq(Nat)]
      /\ wpc \in [Workers -> Looking \union Using \union {"lock_state", "take", "exited"}]
      /\ correlation \in [Workers -> Nat] /\ lock_correlation \in Nat
  BY DEF WindowTypes, ChannelInv, ChannelTypes
<1>6. WindowTypes'
  <2>1. held' \in [Workers -> Seq(Nat)]
    BY <1>4, <1>5
  <2> QED
    BY <1>1, <2>1 DEF WindowTypes, NumTasks, commVars, windowVars, clientVars
<1>7. BrokerInv'
  BY <1>1 DEF BrokerInv, commVars, windowVars
<1>8. BatchInv'
  BY <1>1 DEF BatchInv, Dealt, DealtOnce, DealtAll, Places, windowVars
<1>9. HeldInv'
  BY <1>1, <1>3, <1>4, <1>5 DEF HeldInv
<1>10. ShareInv'
  <2>1. bpc \in InBatch /\ bpc # "correlate"
    BY <1>3 DEF InBatch, Released
  <2>2. Untouched(w)
    BY <1>3, <1>5, <2>1 DEF ShareInv
  <2>3. RunUpTo(items[w], items[w], resolved)
    <3>1. Len(items[w]) \in Nat
      BY <1>5
    <3>2. \A i \in 1..Len(items[w]) : i + (Len(items[w]) - Len(items[w])) = i
      BY <3>1
    <3>3. 1..(Len(items[w]) - Len(items[w])) = {}
      BY <3>1
    <3> QED
      BY <2>2, <3>1, <3>2, <3>3 DEF RunUpTo, Untouched
  <2>4. Begun(w)'
    BY <1>1, <1>4, <1>5, <2>3 DEF Begun, commVars
  <2>5. ASSUME NEW x \in Workers, x # w
        PROVE  IF correlation'[x] # lock_correlation' THEN Untouched(x)' ELSE Begun(x)'
    <3>1. held'[x] = held[x] /\ correlation'[x] = correlation[x]
      BY <1>4, <1>5, <2>5
    <3>2. IF correlation[x] # lock_correlation THEN Untouched(x) ELSE Begun(x)
      BY <2>1 DEF ShareInv
    <3> QED
      BY <1>1, <3>1, <3>2 DEF Untouched, Begun, commVars
  <2>6. correlation'[w] = lock_correlation'
    BY <1>1, <1>4, <1>5
  <2> QED
    BY <1>1, <2>1, <2>4, <2>5, <2>6 DEF ShareInv
<1>11. ResolvedInv'
  BY <1>1 DEF ResolvedInv, commVars, windowVars
<1>12. ClientInv'
  BY <1>1 DEF ClientInv, ReturnsHonest, commVars, windowVars, clientVars
<1> QED
  BY <1>6, <1>7, <1>8, <1>9, <1>10, <1>11, <1>12

LEMMA WindowStutterInv == WindowInv /\ UNCHANGED vars => WindowInv'
<1> SUFFICES ASSUME WindowInv, UNCHANGED vars PROVE WindowInv'
  OBVIOUS
<1> USE DEF WindowInv, vars, channelVars, commVars, windowVars, clientVars
<1>1. WindowTypes'
  BY DEF WindowTypes, NumTasks
<1>2. BrokerInv' /\ HeldInv' /\ ResolvedInv'
  BY DEF BrokerInv, HeldInv, ResolvedInv
<1>3. BatchInv'
  BY DEF BatchInv, Dealt, DealtOnce, DealtAll, Places
<1>4. ShareInv'
  BY DEF ShareInv, Untouched, Begun
<1>5. ClientInv'
  BY DEF ClientInv, ReturnsHonest
<1> QED
  BY <1>1, <1>2, <1>3, <1>4, <1>5

LEMMA WindowNextInv == WindowInv /\ ChannelInv /\ [Next]_vars => WindowInv'
<1> SUFFICES ASSUME WindowInv, ChannelInv, [Next]_vars
             PROVE  WindowInv'
  OBVIOUS
<1>1. CASE BrokerNext
  BY <1>1, SendBatchInv, ExecuteWindowInv, BrokerWindowInv DEF BrokerNext
<1>2. CASE ClientNext
  BY <1>2, ClientWindowInv
<1>3. ASSUME NEW w \in Workers, WorkerNext(w) \/ Spurious(w)
      PROVE  WindowInv'
  BY <1>3, InvokeInv, WorkerFrameInv, TakeInv DEF WorkerNext
<1>4. CASE AllFinished \/ UNCHANGED vars
  BY <1>4, WindowStutterInv DEF AllFinished
<1> QED
  BY <1>1, <1>2, <1>3, <1>4 DEF Next
---------------------------------------------------------------------------
(* The window's inductive invariant: how far the order is resolved, how a   *)
(* batch's tasks are dealt and run, and what client and broker know of each *)
(* other.                                                                   *)
THEOREM WindowInvariant == Spec => []WindowInv
<1>1. Init => WindowInv
  BY WindowInitInv
<1>2. WindowInv /\ ChannelInv /\ [Next]_vars => WindowInv'
  BY WindowNextInv
<1> QED
  BY <1>1, <1>2, ChannelInvariant, PTL DEF Spec

(* invoke's asserts hold for every task a worker is about to run: its       *)
(* inputs are resolved, its outputs are not, and no other worker has it,    *)
(* for every order the sorter leaves, every number of workers, every size   *)
(* of buffer and element, and whatever panics.                              *)
THEOREM WorkersRunReadyTasks == Spec => []TasksReady
<1>1. WindowInv /\ ChannelInv => TasksReady
  <2> SUFFICES ASSUME WindowInv, ChannelInv, NEW w \in Workers,
                      wpc[w] \in {"run_die_order", "run"}, NEW i \in DOMAIN held[w]
               PROVE  /\ InvokeAsserts(held[w][i])
                      /\ \A x \in Workers \ {w} :
                            \A j \in DOMAIN held[x] : held[x][j] # held[w][i]
    BY DEF TasksReady
  <2>1. \A x \in Workers : held[x] \in Seq(Nat) /\ DOMAIN held[x] = 1..Len(held[x])
    BY DEF WindowInv, WindowTypes
  <2>2. i \in 1..Len(held[w]) /\ held[w] # <<>>
    BY <2>1
  <2>3. bpc \in Released
    BY <2>2 DEF WindowInv, HeldInv
  <2>4. ~die_order
    BY <2>3 DEF ChannelInv, Released, Killing
  <2>5. correlation[w] = lock_correlation
    BY <2>4, UsingReleased
  <2>6. InvokeAsserts(held[w][i])
    BY <2>2, <2>3, <2>5, HeldTasks
  <2>7. ASSUME NEW x \in Workers \ {w}, NEW j \in DOMAIN held[x]
        PROVE  held[x][j] # held[w][i]
    <3>1. j \in 1..Len(held[x]) /\ held[x] # <<>>
      BY <2>1
    <3>2. bpc \in InBatch /\ bpc # "correlate"
      BY <2>3 DEF InBatch, Released
    <3>3. correlation[x] = lock_correlation
      BY <3>1, <3>2 DEF WindowInv, ShareInv, Untouched
    <3>4. PICK k \in 1..Len(items[x]) : held[x][j] = items[x][k]
      BY <2>3, <3>1, <3>3, HeldTasks
    <3>5. held[w][i] # items[x][k]
      BY <2>2, <2>3, <2>5, HeldApart
    <3> QED
      BY <3>4, <3>5
  <2> QED
    BY <2>6, <2>7
<1> QED
  BY <1>1, WindowInvariant, ChannelInvariant, PTL

(* An awaiter that returns has waited for its task, and wait_till_resolved  *)
(* for the whole order, unless the client has been given a panic, for every *)
(* order, number of workers and interleaving.                               *)
THEOREM ClientToldTheTruth == Spec => []ReturnsHonest
<1>1. WindowInv => ReturnsHonest
  BY DEF WindowInv, ClientInv
<1> QED
  BY <1>1, WindowInvariant, PTL

(* Notified locations only grow, and stay behind what the workers have      *)
(* resolved.                                                                *)
THEOREM AwaitersNotifiedInOrder == Spec => NotifiedInOrder
<1>1. WindowInv /\ ChannelInv /\ [Next]_vars =>
        [max_resolved' # max_resolved =>
            max_resolved' > max_resolved /\ 1..max_resolved' \subseteq resolved]_vars
  <2> SUFFICES ASSUME WindowInv, Next, max_resolved' # max_resolved
               PROVE  max_resolved' > max_resolved /\ 1..max_resolved' \subseteq resolved
    BY DEF vars, commVars
  <2>1. Notify
    BY DEF Next, BrokerNext, LoadComplete, ExtendBuffer, TakeHint, SeeComplete, SendBatch,
           BufferProcessed, Execute, StoreRwPanic, StoreRwPanicked, CheckPanicked, Kill,
           ClientNext, Publish, StoreHint, GetAwaiter, LoadMaxResolved, LoadPanicked,
           AwaitTakePanic, StartWait, FinalFlush, StoreComplete, Join, AllFinished,
           WorkerNext, Invoke, InvokePanics, WorkerStep, Spurious, commVars, vars
  <2>2. batch \in 1..range_start /\ max_resolved <= range_start - batch
    BY <2>1 DEF Notify, WindowInv, BrokerInv
  <2>3. range_start \in Nat /\ max_resolved \in Nat /\ max_resolved' = range_start - batch + 1
    BY <2>1 DEF Notify, NotifiedLocation, WindowInv, WindowTypes
  <2>4. max_resolved' > max_resolved /\ max_resolved' \in Nat /\ max_resolved' <= range_start
    BY <2>2, <2>3
  <2>5. 1..max_resolved' \subseteq 1..range_start
    BY <2>3, <2>4
  <2> QED
    BY <2>4, <2>5 DEF WindowInv, ResolvedInv
<1> QED
  BY <1>1, WindowInvariant, ChannelInvariant, PTL DEF Spec, NotifiedInOrder
================================================================================
