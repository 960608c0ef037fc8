---------------------------- MODULE ResolutionWindow ----------------------------
(***************************************************************************)
(* The resolution window of the multithreaded circuit resolver, its workers *)
(* and its client, thread by thread                                         *)
(* (src/era-boojum/src/dag/resolvers/mt/resolution_window.rs and mod.rs,    *)
(* src/era-boojum/src/dag/awaiters.rs).  The client publishes a growing     *)
(* execution order, waits on awaiters, and finally for everything; the      *)
(* broker cuts the published order into batches for the workers; a task may *)
(* panic.                                                                   *)
(*                                                                         *)
(* The order is what the sorter leaves (ResolverSorter): tasks are named by *)
(* their place in it, from 1, and a task's place stands for the location    *)
(* awaiters compare, which grows along the order.  Inputs that the client   *)
(* sets are set before a task is published and are left out.                *)
(***************************************************************************)
EXTENDS LockStepChannel

CONSTANTS
    Orders,         \* the orders: needs and parallelism of each task, the tasks
                    \* that may panic, and a bound on the client's awaiters
    BufferCap,      \* capacity of exec_order_buffer (1 << 19)
    ElemSize        \* LOCK_STEP_ELEM_SIZE (8)

(* An order: its tasks need sets of places, and every task has a            *)
(* parallelism.                                                             *)
IsOrder(o) ==
    /\ o.needs \in Seq(SUBSET Nat)
    /\ o.parallelism \in [DOMAIN o.needs -> Nat]

(* What ResolverSorter!BatchesIndependent says of an order.                 *)
OrderIndependent(o) ==
    \A k \in DOMAIN o.needs :
        /\ o.parallelism[k] > 0
        /\ \A j \in o.needs[k] :
                j \in 1..(k - 1) /\ \A i \in 1..j : i + o.parallelism[i] <= k

ASSUME WindowAssumption ==
    /\ BufferCap \in Nat \ {0} /\ ElemSize \in Nat \ {0}
    /\ \A o \in Orders : IsOrder(o) /\ OrderIndependent(o)

VARIABLES
    order,                  \* the order of this behaviour
    \* ResolverComms and the shared data
    order_size,             \* exec_order.size
    exec_order_buffer_hint,
    registration_complete,
    rw_panicked, rw_panic,
    max_resolved,           \* AwaitersBroker
    resolved,               \* the tasks whose outputs are marked resolved
    \* broker
    rpc,                    \* next step outside the channel
    range_start, range_end, \* the tasks in the buffer: range_start+1..range_end
    complete,               \* registration_complete as it was loaded
    batch,                  \* number of tasks enqueued
    \* client
    cpc,
    awaited,                \* the task it waits for
    awaits,                 \* awaiters asked for
    returned,               \* tasks whose awaiters have returned
    delivered               \* the panic's payload has reached the client

commVars == <<order_size, exec_order_buffer_hint, registration_complete,
              rw_panicked, rw_panic, max_resolved, resolved>>
windowVars == <<rpc, range_start, range_end, complete, batch>>
clientVars == <<cpc, awaited, awaits, returned, delivered>>
vars == <<channelVars, order, commVars, windowVars, clientVars>>

Tasks == DOMAIN order.needs
NumTasks == Len(order.needs)

Init ==
    /\ ChannelInit
    /\ order \in Orders
    /\ order_size = 0 /\ exec_order_buffer_hint = 0
    /\ registration_complete = FALSE
    /\ rw_panicked = FALSE /\ rw_panic = FALSE
    /\ max_resolved = 0 /\ resolved = {}
    /\ rpc = "load" /\ range_start = 0 /\ range_end = 0
    /\ complete = FALSE /\ batch = 0
    /\ cpc = "idle" /\ awaited = 0 /\ awaits = 0 /\ returned = {}
    /\ delivered = FALSE

---------------------------------------------------------------------------
(* Broker: resolve.                                                         *)

BrokerGoes(here, there) == bpc = "outside" /\ rpc = here /\ rpc' = there

(* registration_complete is loaded before the length of the order: what is  *)
(* published before it is set is then seen.                                 *)
LoadComplete ==
    /\ BrokerGoes("load", "lock")
    /\ complete' = registration_complete
    /\ UNCHANGED <<channelVars, order, commVars, range_start, range_end, batch, clientVars>>

(* Under the lock of exec_order: buffer what there is room for.             *)
ExtendTo ==
    LET room == range_end + BufferCap - (range_end - range_start) IN
    IF order_size < room THEN order_size ELSE room

Extends == order_size > range_end \/ complete

Finished == complete /\ ExtendTo = range_start /\ order_size = ExtendTo

ExtendBuffer ==
    /\ BrokerGoes("lock", IF ~Extends THEN "hint"
                          ELSE IF Finished THEN "exit" ELSE "process")
    /\ range_end' = IF Extends THEN ExtendTo ELSE range_end
    /\ UNCHANGED <<channelVars, order, commVars, range_start, complete, batch, clientVars>>

(* The wait for the hint; from time to time registration_complete is        *)
(* looked at instead.                                                       *)
TakeHint ==
    /\ BrokerGoes("hint", "load")
    /\ exec_order_buffer_hint = 1
    /\ exec_order_buffer_hint' = 0
    /\ UNCHANGED <<channelVars, order, order_size, registration_complete, rw_panicked,
                   rw_panic, max_resolved, resolved, range_start, range_end, complete,
                   batch, clientVars>>

SeeComplete ==
    /\ BrokerGoes("hint", "load")
    /\ exec_order_buffer_hint = 0 /\ registration_complete
    /\ UNCHANGED <<channelVars, order, commVars, range_start, range_end, complete,
                   batch, clientVars>>

(* Broker: process_buffer.                                                  *)

Least(S) == CHOOSE x \in S : \A y \in S : x <= y

\* Mutant: the parallelism of the first task is not looked at.
BatchCountWide == Least({NumWorkers * ElemSize, range_end - range_start})

(* The parallelism of the first task, the channel, and the buffer bound a   *)
(* batch.                                                                   *)
BatchCount ==
    Least({order.parallelism[range_start + 1], NumWorkers * ElemSize,
           range_end - range_start})

(* The tasks are dealt to the workers in turn.                              *)
Share(w) ==
    [i \in 1..((BatchCount + NumWorkers - 1 - w) \div NumWorkers) |->
        range_start + 1 + w + (i - 1) * NumWorkers]

SendBatch ==
    /\ bpc = "outside" /\ rpc = "process" /\ range_end > range_start
    /\ Send([w \in Workers |-> Share(w)])
    /\ batch' = BatchCount
    /\ UNCHANGED <<order, commVars, rpc, range_start, range_end, complete, clientVars>>

BufferProcessed ==
    /\ range_end = range_start
    /\ BrokerGoes("process", "check")
    /\ UNCHANGED <<channelVars, order, commVars, range_start, range_end, complete,
                   batch, clientVars>>

Execute ==
    /\ ExecuteStep
    /\ rpc' = IF bpc = "executed" /\ bpc' = "outside" THEN "notify" ELSE rpc
    /\ range_start' = IF bpc = "executed" /\ bpc' = "outside"
                      THEN range_start + batch ELSE range_start
    /\ UNCHANGED <<order, commVars, range_end, complete, batch, clientVars>>

\* Mutant: the location of the task after the one drained.
NotifiedNext == range_start - batch + 2

NotifiedLocation == range_start - batch + 1

(* The drained tasks are notified one by one; notify asserts that the       *)
(* location does not decrease.                                              *)
Notify ==
    /\ bpc = "outside" /\ rpc = "notify"
    /\ max_resolved' = NotifiedLocation
    /\ batch' = batch - 1
    /\ rpc' = IF batch = 1 THEN "process" ELSE "notify"
    /\ UNCHANGED <<channelVars, order, order_size, exec_order_buffer_hint,
                   registration_complete, rw_panicked, rw_panic, resolved,
                   range_start, range_end, complete, clientVars>>

(* After a panic: the payload, then the flag, and process_buffer returns.   *)
StoreRwPanic ==
    /\ PanicReported
    /\ rw_panic' = TRUE
    /\ rpc' = "rw_panicked"
    /\ UNCHANGED <<order, order_size, exec_order_buffer_hint, registration_complete,
                   rw_panicked, max_resolved, resolved, range_start, range_end,
                   complete, batch, clientVars>>

StoreRwPanicked ==
    /\ BrokerGoes("rw_panicked", "check")
    /\ rw_panicked' = TRUE
    /\ UNCHANGED <<channelVars, order, order_size, exec_order_buffer_hint,
                   registration_complete, rw_panic, max_resolved, resolved,
                   range_start, range_end, complete, batch, clientVars>>

CheckPanicked ==
    /\ BrokerGoes("check", IF rw_panicked THEN "exit" ELSE "load")
    /\ UNCHANGED <<channelVars, order, commVars, range_start, range_end, complete,
                   batch, clientVars>>

Kill ==
    /\ (rpc = "exit" /\ OrderDeath) \/ KillStep
    /\ UNCHANGED <<order, commVars, windowVars, clientVars>>

BrokerNext ==
    \/ LoadComplete \/ ExtendBuffer \/ TakeHint \/ SeeComplete \/ SendBatch
    \/ BufferProcessed \/ Execute \/ Notify \/ StoreRwPanic \/ StoreRwPanicked
    \/ CheckPanicked \/ Kill

---------------------------------------------------------------------------
(* Workers: invoke asserts that the inputs are resolved and the outputs are *)
(* not, and marks the outputs; a resolution function may panic.             *)

InvokeAsserts(t) == order.needs[t] \subseteq resolved /\ t \notin resolved

Invoke(w) ==
    /\ RunTask(w)
    /\ InvokeAsserts(Head(held[w]))
    /\ resolved' = resolved \union {Head(held[w])}
    /\ UNCHANGED <<order, order_size, exec_order_buffer_hint, registration_complete,
                   rw_panicked, rw_panic, max_resolved, windowVars, clientVars>>

InvokePanics(w) ==
    /\ TaskPanics(w)
    /\ Head(held[w]) \in order.may_panic \/ ~InvokeAsserts(Head(held[w]))
    /\ UNCHANGED <<order, commVars, windowVars, clientVars>>

WorkerStep(w) ==
    /\ WaitStep(w) \/ Done(w) \/ StorePanic(w) \/ PanicDone(w)
    /\ UNCHANGED <<order, commVars, windowVars, clientVars>>

WorkerNext(w) == Invoke(w) \/ InvokePanics(w) \/ WorkerStep(w)

Spurious(w) == SpuriousUnpark(w) /\ UNCHANGED <<order, commVars, windowVars, clientVars>>

---------------------------------------------------------------------------
(* Client.                                                                  *)

ClientGoes(here, there) == cpc = here /\ cpc' = there

(* write_order: more of the order under the lock, then the hint.            *)
Publish ==
    /\ ClientGoes("idle", "hint")
    /\ order_size' \in (order_size + 1)..NumTasks
    /\ UNCHANGED <<channelVars, order, exec_order_buffer_hint, registration_complete,
                   rw_panicked, rw_panic, max_resolved, resolved, windowVars,
                   awaited, awaits, returned, delivered>>

StoreHint ==
    /\ cpc \in {"hint", "final_hint"}
    /\ cpc' = IF cpc = "hint" THEN "idle" ELSE "complete"
    /\ exec_order_buffer_hint' = 1
    /\ UNCHANGED <<channelVars, order, order_size, registration_complete, rw_panicked,
                   rw_panic, max_resolved, resolved, windowVars, awaited, awaits,
                   returned, delivered>>

(* get_awaiter, once its flush is published, and Awaiter.wait's loop.       *)
GetAwaiter ==
    /\ ClientGoes("idle", "max_resolved")
    /\ awaits < order.max_awaits
    /\ awaits' = awaits + 1
    /\ awaited' \in 1..order_size
    /\ UNCHANGED <<channelVars, order, commVars, windowVars, returned, delivered>>

\* Mutant: locations start at 0, as the initial max_resolved.
AwaiterReadyFromZero == max_resolved >= awaited - 1

AwaiterReady == max_resolved >= awaited

LoadMaxResolved ==
    /\ ClientGoes("max_resolved", IF AwaiterReady THEN "idle" ELSE "await_panicked")
    /\ returned' = IF AwaiterReady THEN returned \union {awaited} ELSE returned
    /\ UNCHANGED <<channelVars, order, commVars, windowVars, awaited, awaits, delivered>>

\* Mutant: the awaiter looks at the location only.
LoadMaxAgain ==
    /\ ClientGoes("await_panicked", "max_resolved")
    /\ UNCHANGED <<channelVars, order, commVars, windowVars, awaited, awaits, returned,
                   delivered>>

(* On a panic the payload is taken and unwinds the client; if it has been   *)
(* taken before, wait returns.                                              *)
LoadPanicked ==
    /\ ClientGoes("await_panicked", IF rw_panicked THEN "await_take" ELSE "max_resolved")
    /\ UNCHANGED <<channelVars, order, commVars, windowVars, awaited, awaits, returned,
                   delivered>>

(* An unwinding client drops the resolver, which waits for everything, or   *)
(* catches the panic and goes on.                                           *)
AwaitTakePanic ==
    /\ cpc = "await_take"
    /\ IF rw_panic
       THEN cpc' \in {"idle", "finish"} /\ delivered' = TRUE /\ UNCHANGED returned
       ELSE /\ cpc' = "idle"
            /\ returned' = returned \union {awaited}
            /\ UNCHANGED delivered
    /\ rw_panic' = FALSE
    /\ UNCHANGED <<channelVars, order, order_size, exec_order_buffer_hint,
                   registration_complete, rw_panicked, max_resolved, resolved,
                   windowVars, awaited, awaits>>

(* wait_till_resolved, also from Drop: final_flush, then the flag.          *)
StartWait ==
    /\ ClientGoes("idle", "finish")
    /\ UNCHANGED <<channelVars, order, commVars, windowVars, awaited, awaits, returned,
                   delivered>>

FinalFlush ==
    /\ cpc = "finish"
    /\ order_size' \in order_size..NumTasks
    /\ cpc' = IF order_size' > order_size THEN "final_hint" ELSE "complete"
    /\ UNCHANGED <<channelVars, order, exec_order_buffer_hint, registration_complete,
                   rw_panicked, rw_panic, max_resolved, resolved, windowVars,
                   awaited, awaits, returned, delivered>>

StoreComplete ==
    /\ ClientGoes("complete", "join")
    /\ registration_complete' = TRUE
    /\ UNCHANGED <<channelVars, order, order_size, exec_order_buffer_hint, rw_panicked,
                   rw_panic, max_resolved, resolved, windowVars, awaited, awaits,
                   returned, delivered>>

(* The join of the broker, then its panic if there is one left.             *)
Join ==
    /\ ClientGoes("join", "finished")
    /\ bpc = "exited"
    /\ delivered' = (delivered \/ (rw_panicked /\ rw_panic))
    /\ rw_panic' = (rw_panic /\ ~rw_panicked)
    /\ UNCHANGED <<channelVars, order, order_size, exec_order_buffer_hint,
                   registration_complete, rw_panicked, max_resolved, resolved,
                   windowVars, awaited, awaits, returned>>

ClientNext ==
    \/ Publish \/ StoreHint \/ GetAwaiter \/ LoadMaxResolved \/ LoadPanicked
    \/ AwaitTakePanic \/ StartWait \/ FinalFlush \/ StoreComplete \/ Join

AllFinished ==
    /\ cpc = "finished"
    /\ UNCHANGED vars

Next ==
    \/ BrokerNext \/ ClientNext \/ AllFinished
    \/ \E w \in Workers : WorkerNext(w) \/ Spurious(w)

(* Every thread keeps running.                                              *)
Fairness ==
    /\ WF_vars(BrokerNext) /\ WF_vars(ClientNext)
    /\ \A w \in Workers : WF_vars(WorkerNext(w))

Spec == Init /\ [][Next]_vars /\ Fairness

---------------------------------------------------------------------------
(* The tasks a worker is about to run meet invoke's asserts, whatever the   *)
(* other workers do meanwhile: their inputs are resolved, and nobody has    *)
(* resolved them, or is about to.                                           *)
TasksReady ==
    \A w \in Workers : wpc[w] \in {"run_die_order", "run"} =>
        \A i \in DOMAIN held[w] :
            /\ InvokeAsserts(held[w][i])
            /\ \A x \in Workers \ {w} :
                    \A j \in DOMAIN held[x] : held[x][j] # held[w][i]

(* When an awaiter returns, its task is resolved; when wait_till_resolved   *)
(* returns, the whole order is; or the client has been given the panic that *)
(* stopped the resolution.                                                  *)
ReturnsHonest ==
    delivered \/ (returned \subseteq resolved
                    /\ (cpc = "finished" => resolved = 1..order_size))

(* notify's assert that locations do not decrease holds, and what awaiters  *)
(* compare with never runs ahead of the workers: whatever is notified, it   *)
(* and everything before it in the order is resolved.                       *)
NotifiedInOrder ==
    [][max_resolved' # max_resolved =>
            max_resolved' > max_resolved /\ 1..max_resolved' \subseteq resolved]_vars

(* Awaiters and wait_till_resolved return, panic or not, and no thread is   *)
(* left behind.                                                             *)
ClientReturns ==
    <>(cpc = "finished" /\ bpc = "exited" /\ \A w \in Workers : wpc[w] = "exited")
=================================================================================
