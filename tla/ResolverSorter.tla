----------------------------- MODULE ResolverSorter -----------------------------
(***************************************************************************)
(* The recording side of the multithreaded circuit resolver: the values     *)
(* with their tracking, the registrar that holds resolvers back until their *)
(* inputs are tracked, the live sorter that drives the guide, and the       *)
(* record it leaves for playback                                            *)
(* (src/era-boojum/src/dag/: primitives.rs, resolvers/mt/registrar.rs,      *)
(* resolvers/mt/sorters/sorter_live.rs, resolvers/mt/mod.rs).               *)
(*                                                                         *)
(* A client makes the calls of a plan: it gives every place a value, by     *)
(* set_value or as an output of a resolver, in any order (resolvers may be  *)
(* registered before their inputs exist), and may ask for an awaiter in     *)
(* between.  Places are 0, 1, ... as the code's variable indices.  A        *)
(* resolver is named by its registration number, from 0.                    *)
(***************************************************************************)
EXTENDS BufferGuide

CONSTANTS
    NumPlaces,          \* opts.max_variables
    Plans,              \* the clients' call sequences
    Parallelisms,       \* the choices of opts.desired_parallelism
    MaxAwaits           \* bound on get_awaiter calls of one client

Places == 0..(NumPlaces - 1)

SetCall(v) == [op |-> "set", key |-> v, inputs |-> {}, outputs |-> {}]
AddCall(ins, outs) == [op |-> "add", key |-> 0, inputs |-> ins, outputs |-> outs]
AwaitCall(v) == [op |-> "await", key |-> v, inputs |-> {}, outputs |-> {}]

(* The calls of a plan.                                                     *)
Call == {SetCall(v) : v \in Places}
            \union {AddCall(ins, outs) : ins \in SUBSET Places, outs \in SUBSET Places}

(* The places a call gives a value to, and those a list of calls does.      *)
Gives(call) == IF call.op = "set" THEN {call.key} ELSE call.outputs

Given(p) == UNION {Gives(p[i]) : i \in DOMAIN p}

(* No place is needed for itself: every set of places has one that is given *)
(* without any other of the set.                                            *)
NonCircular(p) ==
    \A S \in (SUBSET Given(p)) \ {{}} :
        \E i \in DOMAIN p : Gives(p[i]) \intersect S # {} /\ p[i].inputs \intersect S = {}

(* The client's side of the contract: every place gets one value, from      *)
(* places that are given too, and not in a circle; and there are no more    *)
(* registrations than the record has items.                                 *)
PlanLegal(p) ==
    /\ \E n \in 0..NumPlaces : Given(p) = 0..(n - 1)
    /\ \A i, j \in DOMAIN p : i # j => Gives(p[i]) \intersect Gives(p[j]) = {}
    /\ \A i \in DOMAIN p : p[i].inputs \subseteq Given(p)
    /\ NonCircular(p)
    /\ Cardinality({i \in DOMAIN p : p[i].op = "add"}) <= 2 * NumPlaces

ASSUME SorterAssumption ==
    /\ NumPlaces \in Nat \ {0} /\ MaxAwaits \in Nat
    /\ Parallelisms \subseteq Nat \ {0}
    /\ \A p \in Plans : p \in Seq(Call) /\ PlanLegal(p)

VARIABLES
    plan,               \* the calls still to make
    calls,              \* the calls made
    resolvers,          \* resolver box: inputs and outputs by registration
    tracker,            \* Metadata: None (untracked) or the place's location
    is_set,             \* the places whose value the client has set
    max_tracked,        \* Values.max_tracked
    max_tracked_variable, \* Registrar's, -1 for the placeholder
    delayed,            \* Registrar.vars: resolvers by their largest input
    guide,
    exec_order,         \* ExecOrder.items
    order_len,          \* ExecOrder.size, and the sorter's copy of it
    record,             \* ResolutionRecord.items
    pending,            \* resolvers a running call still has to internalize
    stack,              \* internalize: the stack of its loop
    registrations_added,
    phase               \* "calls", "adding" (inside add_resolution),
                        \* "recorded" (final_flush done), "panicked"

sorterVars == <<plan, calls, resolvers, tracker, is_set, max_tracked,
                max_tracked_variable, delayed, guide, exec_order, order_len,
                record, pending, stack, registrations_added, phase>>

DefaultLoc == [id |-> 0, pos |-> 0]

EmptyRecordItem == [order_ix |-> 0, order_len |-> 0, parallelism |-> 0]

SorterInit ==
    /\ plan \in Plans
    /\ calls = <<>>
    /\ resolvers = <<>>
    /\ tracker = [v \in Places |-> None]
    /\ is_set = {}
    /\ max_tracked = -1
    /\ max_tracked_variable = -1
    /\ delayed = [v \in Places |-> <<>>]
    /\ \E p \in Parallelisms : guide = NewGuide(p)
    /\ exec_order = <<>>
    /\ order_len = 0
    /\ record = [r \in 0..(2 * NumPlaces - 1) |-> EmptyRecordItem]
    /\ pending = <<>> /\ stack = <<>>
    /\ registrations_added = 0
    /\ phase = "calls"

InputsOf(r) == resolvers[r + 1].inputs
OutputsOf(r) == resolvers[r + 1].outputs

LargestPlace(S) == CHOOSE v \in S : \A w \in S : w <= v

(* advance_track: the tracked prefix of the places, never shortened.        *)
AdvanceTrack(trk) ==
    LET prefix == {n \in (max_tracked + 1)..NumPlaces :
                        \A v \in (max_tracked + 1)..(n - 1) : trk[v] # None}
    IN LargestPlace(prefix) - 1

\* Mutant: the resolvers under the place advanced to are not handed back.
AwakenedBelow(to) == {v \in Places : v < to /\ delayed[v] # <<>>}

(* Registrar.advance: the resolvers under places up to `to' come back in    *)
(* the order of a hash map's iteration; nothing is advanced to before the   *)
(* first place is tracked.                                                  *)
Awakened(to) == {v \in Places : v <= to /\ delayed[v] # <<>>}

AdvanceOrders(to) == {FlattenSeq([k \in DOMAIN s |-> delayed[s[k]]]) :
                            s \in SetToSeqs(Awakened(to))}

RegistrarAdvance(to) ==
    IF to < 0 THEN UNCHANGED <<delayed, max_tracked_variable>>
    ELSE /\ delayed' = [v \in Places |-> IF v <= to THEN <<>> ELSE delayed[v]]
         /\ max_tracked_variable' = to

(* Registrar.accept: a resolver is taken when its largest input is tracked. *)
Accepts(ins) == ins = {} \/ LargestPlace(ins) <= max_tracked_variable

(* write_order: nothing for an empty order; otherwise the items are written *)
(* and each one's place and parallelism go to its record.                   *)
Writes(order, from, r) == {k \in (from + 1)..Len(order) : order[k].value = r}

RecordWritten(rec, order, from) ==
    [r \in DOMAIN rec |->
        IF Writes(order, from, r) = {} THEN rec[r]
        ELSE LET k == LargestPlace(Writes(order, from, r)) IN
             [rec[r] EXCEPT !.order_ix = k - 1, !.parallelism = order[k].parallelism]]

OrderAfter(released) == WriteReleased(exec_order, guide.next_target, released)

WriteOrder(released) ==
    /\ exec_order' = OrderAfter(released)
    /\ order_len' = Len(OrderAfter(released))

---------------------------------------------------------------------------
(* set_value; the resolvers it wakes are internalized one after another.    *)
SetValue ==
    /\ phase = "calls" /\ stack = <<>> /\ pending = <<>>
    /\ plan # <<>> /\ Head(plan).op = "set"
    /\ LET v == Head(plan).key
           trk == [tracker EXCEPT ![v] = DefaultLoc]
       IN /\ tracker[v] = None
          /\ tracker' = trk
          /\ is_set' = is_set \union {v}
          /\ max_tracked' = AdvanceTrack(trk)
          /\ RegistrarAdvance(AdvanceTrack(trk))
          /\ pending' \in AdvanceOrders(AdvanceTrack(trk))
    /\ calls' = Append(calls, Head(plan))
    /\ plan' = Tail(plan)
    /\ UNCHANGED <<resolvers, guide, exec_order, order_len, record, stack,
                   registrations_added, phase>>

(* add_resolution, up to its call of internalize.                           *)
AddResolution ==
    /\ phase = "calls" /\ stack = <<>> /\ pending = <<>>
    /\ plan # <<>> /\ Head(plan).op = "add"
    /\ LET ins == Head(plan).inputs
           r == registrations_added
       IN /\ resolvers' = Append(resolvers, [inputs |-> ins, outputs |-> Head(plan).outputs])
          /\ IF Accepts(ins)
             THEN stack' = <<r>> /\ UNCHANGED delayed
             ELSE /\ delayed' = [delayed EXCEPT ![LargestPlace(ins)] = Append(@, r)]
                  /\ UNCHANGED stack
    /\ calls' = Append(calls, Head(plan))
    /\ plan' = Tail(plan)
    /\ phase' = "adding"
    /\ UNCHANGED <<tracker, is_set, max_tracked, max_tracked_variable, guide,
                   exec_order, order_len, record, pending, registrations_added>>

(* The rest of add_resolution: the record says how long the order is now.   *)
AddResolutionEnd ==
    /\ phase = "adding" /\ stack = <<>>
    /\ record' = [record EXCEPT ![registrations_added].order_len = order_len]
    /\ registrations_added' = registrations_added + 1
    /\ phase' = "calls"
    /\ UNCHANGED <<plan, calls, resolvers, tracker, is_set, max_tracked,
                   max_tracked_variable, delayed, guide, exec_order, order_len,
                   pending, stack>>

(* set_value's loop over the resolvers it woke.                             *)
InternalizeNext ==
    /\ stack = <<>> /\ pending # <<>>
    /\ stack' = <<Head(pending)>>
    /\ pending' = Tail(pending)
    /\ UNCHANGED <<plan, calls, resolvers, tracker, is_set, max_tracked,
                   max_tracked_variable, delayed, guide, exec_order, order_len,
                   record, registrations_added, phase>>

(* internalize_one on the top of the stack: push behind the latest input,   *)
(* write what that releases, track the outputs, and stack what they wake.   *)
Internalize ==
    /\ stack # <<>>
    /\ LET r == Last(stack)
           push == GuidePush(guide, r, LatestLoc({tracker[v] : v \in InputsOf(r)}))
           trk == [v \in Places |-> IF v \in OutputsOf(r) THEN push.loc ELSE tracker[v]]
       IN /\ guide' = push.guide
          /\ WriteOrder(push.released)
          /\ record' = RecordWritten(record, OrderAfter(push.released), Len(exec_order))
          /\ tracker' = trk
          /\ max_tracked' = AdvanceTrack(trk)
          /\ RegistrarAdvance(AdvanceTrack(trk))
          /\ \E woken \in AdvanceOrders(AdvanceTrack(trk)) :
                stack' = Front(stack) \o woken
    /\ UNCHANGED <<plan, calls, resolvers, is_set, pending, registrations_added, phase>>

(* flush: the last registration's record is given the order's new length.   *)
LastRegistration == (IF registrations_added > 1 THEN registrations_added ELSE 1) - 1

\* Mutant: a flush leaves the recorded lengths alone.
RecordNotFlushed(rec, len) == rec

RecordFlushed(rec, len) == [rec EXCEPT ![LastRegistration].order_len = len]

Flush ==
    LET f == GuideFlush(guide) IN
    /\ guide' = f.guide
    /\ WriteOrder(f.released)
    /\ record' = RecordFlushed(
                    RecordWritten(record, OrderAfter(f.released), Len(exec_order)),
                    Len(OrderAfter(f.released)))

(* get_awaiter of a place in the tracked prefix (it panics for others);     *)
(* which one makes no difference here, and the call is logged with the last *)
(* one it may be for.                                                      *)
GetAwaiter ==
    /\ phase = "calls" /\ stack = <<>> /\ pending = <<>>
    /\ Cardinality({i \in DOMAIN calls : calls[i].op = "await"}) < MaxAwaits
    /\ max_tracked >= 0
    /\ calls' = Append(calls, AwaitCall(max_tracked))
    /\ Flush
    /\ UNCHANGED <<plan, resolvers, tracker, is_set, max_tracked,
                   max_tracked_variable, delayed, pending, stack,
                   registrations_added, phase>>

(* wait_till_resolved: final_flush asserts that nothing is held back.       *)
WaitTillResolved ==
    /\ phase = "calls" /\ stack = <<>> /\ pending = <<>> /\ plan = <<>>
    /\ IF \A v \in Places : delayed[v] = <<>>
       THEN Flush /\ phase' = "recorded"
       ELSE phase' = "panicked" /\ UNCHANGED <<guide, exec_order, order_len, record>>
    /\ UNCHANGED <<plan, calls, resolvers, tracker, is_set, max_tracked,
                   max_tracked_variable, delayed, pending, stack, registrations_added>>

SorterNext ==
    \/ SetValue \/ AddResolution \/ AddResolutionEnd \/ InternalizeNext
    \/ Internalize \/ GetAwaiter \/ WaitTillResolved

---------------------------------------------------------------------------
(* Item k of the order needs item j.                                        *)
DependsOn(k, j) ==
    InputsOf(exec_order[k].value) \intersect OutputsOf(exec_order[j].value) # {}

(* The resolution window runs the order in batches that start anywhere (a   *)
(* batch also ends where the buffer does) and are as long as their first    *)
(* item's parallelism allows.  Whatever item i a batch starts with, no item *)
(* in it needs another one of it, and everything an item in the order needs *)
(* is set or stands before it.                                              *)
BatchesIndependent ==
    \A k \in DOMAIN exec_order :
        /\ exec_order[k].parallelism > 0
        /\ \A j \in DOMAIN exec_order : DependsOn(k, j) =>
                /\ j < k
                /\ \A i \in 1..j : i + exec_order[i].parallelism <= k
        /\ \A v \in InputsOf(exec_order[k].value) :
                v \in is_set \/ \E j \in 1..(k - 1) : v \in OutputsOf(exec_order[j].value)

(* Awaiters compare locations with the last one resolved, and notify        *)
(* asserts that locations never decrease: along the order, and from it into *)
(* the guide, the locations of the outputs increase strictly, and none is   *)
(* the location of a value that was set.                                    *)
TrackersFollowOrder ==
    LET items == exec_order \o GuideItems(guide)
        loc(k) == tracker[CHOOSE v \in OutputsOf(items[k].value) : TRUE]
    IN \A k \in DOMAIN items :
        /\ OutputsOf(items[k].value) # {} => LocBefore(DefaultLoc, loc(k))
        /\ \A j \in 1..(k - 1) :
            OutputsOf(items[j].value) # {} /\ OutputsOf(items[k].value) # {}
                => LocBefore(loc(j), loc(k))

(* A resolver that needs only places below the ones it gives.               *)
GivesAbove(call) == \A v \in call.inputs, w \in call.outputs : v < w

(* No client whose resolvers give only places above the ones they need      *)
(* meets final_flush's assert, in whatever order it makes its calls and the *)
(* registrar's map hands resolvers back; and a recording that ends has      *)
(* every resolver in the order exactly once, where its record says.         *)
EveryResolverOrdered ==
    /\ (\A i \in DOMAIN calls : GivesAbove(calls[i])) => phase # "panicked"
    /\ phase = "recorded" =>
        /\ Len(exec_order) = registrations_added
        /\ \A r \in 0..(registrations_added - 1) :
            /\ exec_order[record[r].order_ix + 1].value = r
            /\ record[r].parallelism = exec_order[record[r].order_ix + 1].parallelism

(* What the registrar's comment says of it (registrar.rs:19): it handles    *)
(* any dependency among deferred resolvers that is not circular, so no such *)
(* client finds resolvers held back at final_flush.                         *)
NonCircularHandled == NonCircular(calls) => phase # "panicked"
=================================================================================
