---------------------------- MODULE LockStepChannel ----------------------------
(***************************************************************************)
(* The channel between the broker thread of the resolution window and its   *)
(* workers (src/era-boojum/src/dag/resolvers/mt/resolution_window.rs).      *)
(* The broker writes a share of a batch into every worker's element,        *)
(* releases the batch by raising the correlation and opening the lock       *)
(* state, and waits until every element is done.  The elements are plain    *)
(* memory: only this protocol keeps the two sides from using them at once.  *)
(*                                                                         *)
(* Every load and store of an atomic, and every access to an element, is a  *)
(* step of its own; steps of a thread happen in program order and are seen  *)
(* in that order by the others.                                            *)
(***************************************************************************)
EXTENDS Integers, Sequences

CONSTANTS NumWorkers        \* threads of the pool

ASSUME ChannelAssumption == NumWorkers \in Nat \ {0}

Workers == 0..(NumWorkers - 1)

VARIABLES
    lock_state,         \* "writing" or "free"
    lock_correlation,   \* number of the batch
    park_workers,
    die_order,
    items, done,        \* the workers' LockStepElements: their tasks, and done
    panicked,           \* a worker has panicked
    panic,              \* the payload it left is there
    token,              \* std::thread: an unpark is waiting for the worker
    bpc, bix,           \* broker: next step; worker it is looking at
    wpc,                \* workers: next step
    correlation,        \* LockStepWorker.lock_correlation
    held                \* workers: tasks of the batch not run yet

channelVars == <<lock_state, lock_correlation, park_workers, die_order, items, done,
                 panicked, panic, token, bpc, bix, wpc, correlation, held>>

data == <<items, done>>
shared == <<lock_state, lock_correlation, park_workers, die_order>>
brokerVars == <<bpc, bix>>
workerVars == <<wpc, correlation, held>>

(* LockStepElement::new and clear.                                          *)
EmptyItems == [w \in Workers |-> <<>>]
NoneDone == [w \in Workers |-> FALSE]

(* The broker thread starts after the workers, with the pool's handles.     *)
ChannelInit ==
    /\ lock_state = "writing" /\ lock_correlation = 0
    /\ park_workers = TRUE /\ die_order = FALSE
    /\ items = EmptyItems /\ done = NoneDone
    /\ panicked = FALSE /\ panic = FALSE
    /\ token = [w \in Workers |-> FALSE]
    /\ bpc = "outside" /\ bix = 0
    /\ wpc = [w \in Workers |-> "park_workers"]
    /\ correlation = [w \in Workers |-> 0]
    /\ held = [w \in Workers |-> <<>>]

---------------------------------------------------------------------------
(* Broker.  push of a batch's tasks, then execute.                          *)

BrokerAt(here, there) == bpc = here /\ bpc' = there

Send(tasks) ==
    /\ BrokerAt("outside", "correlate")
    /\ items' = [w \in Workers |-> items[w] \o tasks[w]]
    /\ UNCHANGED <<shared, done, panicked, panic, token, bix, workerVars>>

RaiseCorrelation ==
    /\ BrokerAt("correlate", "free")
    /\ lock_correlation' = lock_correlation + 1
    /\ UNCHANGED <<lock_state, park_workers, die_order, data, panicked, panic,
                   token, bix, workerVars>>

OpenLock ==
    /\ BrokerAt("free", "unpark_flag")
    /\ lock_state' = "free"
    /\ UNCHANGED <<lock_correlation, park_workers, die_order, data, panicked,
                   panic, token, bix, workerVars>>

StopParking ==
    /\ BrokerAt("unpark_flag", "unpark")
    /\ park_workers' = FALSE
    /\ bix' = 0
    /\ UNCHANGED <<lock_state, lock_correlation, die_order, data, panicked,
                   panic, token, workerVars>>

(* unpark of each thread of the pool in turn; kill does the same.           *)
UnparkEach(here, there) ==
    /\ bpc = here
    /\ token' = [token EXCEPT ![bix] = TRUE]
    /\ IF bix < NumWorkers - 1
       THEN bix' = bix + 1 /\ bpc' = here
       ELSE bix' = bix /\ bpc' = there
    /\ UNCHANGED <<shared, data, panicked, panic, workerVars>>

\* Mutant: a worker without tasks is not waited for.
ElementDoneOrEmpty(w) == done[w] \/ items[w] = <<>>

ElementDone(w) == done[w]

(* The spin on the elements' done, from the last one down.                  *)
AwaitDone ==
    /\ bpc = "await" /\ ElementDone(bix)
    /\ IF bix > 0
       THEN bix' = bix - 1 /\ bpc' = "await"
       ELSE bix' = bix /\ bpc' = "writing"
    /\ UNCHANGED <<shared, data, panicked, panic, token, workerVars>>

CloseLock ==
    /\ BrokerAt("writing", "clear")
    /\ lock_state' = "writing"
    /\ UNCHANGED <<lock_correlation, park_workers, die_order, data, panicked,
                   panic, token, bix, workerVars>>

ClearElements ==
    /\ BrokerAt("clear", "executed")
    /\ items' = EmptyItems /\ done' = NoneDone
    /\ UNCHANGED <<shared, panicked, panic, token, bix, workerVars>>

(* get_panic, which process_buffer calls after every execute.               *)
GetPanic ==
    /\ BrokerAt("executed", IF panicked THEN "reported" ELSE "outside")
    /\ panic' = IF panicked THEN FALSE ELSE panic
    /\ UNCHANGED <<shared, data, panicked, token, bix, workerVars>>

(* The broker has stored the payload it took.                               *)
PanicReported ==
    /\ BrokerAt("reported", "outside")
    /\ UNCHANGED <<shared, data, panicked, panic, token, bix, workerVars>>

(* kill, and the joins of the pool.                                         *)
OrderDeath ==
    /\ BrokerAt("outside", "kill_flag")
    /\ die_order' = TRUE
    /\ UNCHANGED <<lock_state, lock_correlation, park_workers, data, panicked,
                   panic, token, bix, workerVars>>

KillStopParking ==
    /\ BrokerAt("kill_flag", "kill_unpark")
    /\ park_workers' = FALSE
    /\ bix' = 0
    /\ UNCHANGED <<lock_state, lock_correlation, die_order, data, panicked,
                   panic, token, workerVars>>

JoinPool ==
    /\ BrokerAt("join", "exited")
    /\ \A w \in Workers : wpc[w] = "exited"
    /\ UNCHANGED <<shared, data, panicked, panic, token, bix, workerVars>>

ExecuteStep ==
    \/ RaiseCorrelation \/ OpenLock \/ StopParking \/ UnparkEach("unpark", "await")
    \/ AwaitDone \/ CloseLock \/ ClearElements \/ GetPanic

KillStep == KillStopParking \/ UnparkEach("kill_unpark", "join") \/ JoinPool

---------------------------------------------------------------------------
(* Workers.  wait_for_tasks: one step per load of its loop.                 *)

Goes(w, here, there) == wpc[w] = here /\ wpc' = [wpc EXCEPT ![w] = there]

LoadPark(w) ==
    /\ Goes(w, "park_workers", IF park_workers THEN "parked" ELSE "die_order")
    /\ UNCHANGED <<shared, data, panicked, panic, token, brokerVars, correlation, held>>

(* park returns when there is a token, or for no reason.                    *)
Unparked(w) ==
    /\ token[w]
    /\ Goes(w, "parked", "park_workers")
    /\ token' = [token EXCEPT ![w] = FALSE]
    /\ UNCHANGED <<shared, data, panicked, panic, brokerVars, correlation, held>>

SpuriousUnpark(w) ==
    /\ Goes(w, "parked", "park_workers")
    /\ UNCHANGED <<shared, data, panicked, panic, token, brokerVars, correlation, held>>

(* On the order to die an empty slice is returned.                          *)
LoadDie(w) ==
    /\ Goes(w, "die_order", IF die_order THEN "run_die_order" ELSE "correlation")
    /\ UNCHANGED <<shared, data, panicked, panic, token, brokerVars, correlation, held>>

LoadCorrelation(w) ==
    /\ Goes(w, "correlation",
            IF correlation[w] = lock_correlation THEN "park_workers" ELSE "lock_state")
    /\ UNCHANGED <<shared, data, panicked, panic, token, brokerVars, correlation, held>>

LoadLock(w) ==
    /\ Goes(w, "lock_state", IF lock_state = "free" THEN "take" ELSE "park_workers")
    /\ UNCHANGED <<shared, data, panicked, panic, token, brokerVars, correlation, held>>

(* The assert that no batch was missed, then the worker's slice.            *)
TakeTasks(w) ==
    /\ IF correlation[w] = lock_correlation - 1
       THEN /\ Goes(w, "take", "run_die_order")
            /\ correlation' = [correlation EXCEPT ![w] = lock_correlation]
            /\ held' = [held EXCEPT ![w] = items[w]]
       ELSE Goes(w, "take", "panicking") /\ UNCHANGED <<correlation, held>>
    /\ UNCHANGED <<shared, data, panicked, panic, token, brokerVars>>

(* Worker.run: look at die_order again, run the tasks, report done.         *)
RunDieOrder(w) ==
    /\ Goes(w, "run_die_order", IF die_order THEN "exited" ELSE "run")
    /\ UNCHANGED <<shared, data, panicked, panic, token, brokerVars, correlation, held>>

RunTask(w) ==
    /\ wpc[w] = "run" /\ held[w] # <<>>
    /\ held' = [held EXCEPT ![w] = Tail(@)]
    /\ UNCHANGED <<shared, data, panicked, panic, token, brokerVars, wpc, correlation>>

TaskPanics(w) ==
    /\ held[w] # <<>>
    /\ Goes(w, "run", "panicking")
    /\ UNCHANGED <<shared, data, panicked, panic, token, brokerVars, correlation, held>>

MarkDone(w) == done' = [done EXCEPT ![w] = TRUE] /\ UNCHANGED items

Done(w) ==
    /\ held[w] = <<>>
    /\ Goes(w, "run", "park_workers")
    /\ MarkDone(w)
    /\ UNCHANGED <<shared, panicked, panic, token, brokerVars, correlation, held>>

(* panic: the first payload is kept, under the mutex; then done.            *)
StorePanic(w) ==
    /\ Goes(w, "panicking", "panic_done")
    /\ panic' = TRUE
    /\ panicked' = TRUE
    /\ UNCHANGED <<shared, data, token, brokerVars, correlation, held>>

PanicDone(w) ==
    /\ Goes(w, "panic_done", "exited")
    /\ MarkDone(w)
    /\ UNCHANGED <<shared, panicked, panic, token, brokerVars, correlation, held>>

WaitStep(w) ==
    LoadPark(w) \/ Unparked(w) \/ LoadDie(w) \/ LoadCorrelation(w)
        \/ LoadLock(w) \/ TakeTasks(w) \/ RunDieOrder(w)

---------------------------------------------------------------------------
(* While the broker writes the elements (it pushes tasks from outside, and  *)
(* clears them) no worker is between taking its slice and being done with   *)
(* it, and a worker about to take one has missed no batch, as               *)
(* wait_for_tasks asserts.                                                  *)
ChannelExclusive ==
    \A w \in Workers :
        /\ bpc \in {"outside", "clear"} =>
                wpc[w] \notin {"take", "run_die_order", "run", "panicking", "panic_done"}
        /\ wpc[w] = "take" => correlation[w] = lock_correlation - 1
================================================================================
