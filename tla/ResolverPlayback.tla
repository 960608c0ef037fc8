---------------------------- MODULE ResolverPlayback ----------------------------
(***************************************************************************)
(* The playback side of the multithreaded circuit resolver                  *)
(* (src/era-boojum/src/dag/resolvers/mt/sorters/sorter_playback.rs): the    *)
(* same circuit is synthesized again, so the client makes the same calls,   *)
(* and the resolvers go to the places the record gives them without being   *)
(* sorted.  Registrations are collected in a buffer; when it is full, or at *)
(* a flush, they are written to the order and its published size is set     *)
(* from the record.                                                        *)
(***************************************************************************)
EXTENDS ResolverSorter

CONSTANTS BufSizes      \* the choices of BOOJUM_PRS_BUF_SIZE

ASSUME PlaybackAssumption == BufSizes \subseteq Nat \ {0}

VARIABLES
    pb_buf_size,        \* capacity of the buffer
    pb_pos,             \* how many of the recorded calls have been made
    pb_is_set,          \* the places whose value has been set
    pb_registrations,   \* registrations_added
    pb_buffer,          \* registrations not written yet
    pb_items,           \* exec_order.items: registration or None
    pb_size,            \* exec_order.size
    pb_phase            \* "off", "calls", "done", "panicked"

playbackVars == <<pb_buf_size, pb_pos, pb_is_set, pb_registrations, pb_buffer,
                  pb_items, pb_size, pb_phase>>

vars == <<sorterVars, playbackVars>>

PlaybackOff ==
    /\ pb_buf_size = 0 /\ pb_pos = 0 /\ pb_is_set = {} /\ pb_registrations = 0
    /\ pb_buffer = <<>> /\ pb_items = <<>> /\ pb_size = 0
    /\ pb_phase = "off"

(* record.registrations_count, set by final_flush.                          *)
RegistrationsCount == registrations_added

(* new, from a finished record; slots are indexed from 1.                   *)
NewPlayback ==
    /\ phase = "recorded" /\ pb_phase = "off"
    /\ pb_buf_size' \in BufSizes
    /\ pb_items' = [k \in 1..RegistrationsCount |-> None]
    /\ pb_phase' = "calls"
    /\ UNCHANGED <<sorterVars, pb_pos, pb_is_set, pb_registrations, pb_buffer, pb_size>>

NextCall == calls[pb_pos + 1]

Replaying(op) ==
    /\ pb_phase = "calls" /\ pb_pos < Len(calls) /\ NextCall.op = op
    /\ pb_pos' = pb_pos + 1

\* Mutant: the record of the registration to come is taken.
RecordedSizeNext(n) ==
    IF n = RegistrationsCount THEN RegistrationsCount ELSE record[n].order_len

(* write_buffer without an override: the size is the recorded length of the *)
(* order at the last registration, or everything once all are registered.   *)
RecordedSize(n) ==
    IF n = RegistrationsCount THEN RegistrationsCount ELSE record[n - 1].order_len

WriteBuffer(buffer, size) ==
    /\ pb_items' = [k \in DOMAIN pb_items |->
            LET rs == {r \in ToSet(buffer) : record[r].order_ix + 1 = k} IN
            IF rs = {} THEN pb_items[k] ELSE CHOOSE r \in rs : TRUE]
    /\ pb_size' = size
    /\ pb_buffer' = <<>>

PlaybackSetValue ==
    /\ Replaying("set")
    /\ pb_is_set' = pb_is_set \union {NextCall.key}
    /\ UNCHANGED <<sorterVars, pb_buf_size, pb_registrations, pb_buffer, pb_items,
                   pb_size, pb_phase>>

PlaybackAddResolution ==
    /\ Replaying("add")
    /\ pb_registrations' = pb_registrations + 1
    /\ LET buffer == Append(pb_buffer, pb_registrations) IN
       IF Len(buffer) = pb_buf_size
       THEN WriteBuffer(buffer, RecordedSize(pb_registrations + 1))
       ELSE pb_buffer' = buffer /\ UNCHANGED <<pb_items, pb_size>>
    /\ UNCHANGED <<sorterVars, pb_buf_size, pb_is_set, pb_phase>>

(* get_awaiter flushes.  Before the first registration of a circuit that    *)
(* has some, the index of the last record is below zero.                    *)
PlaybackGetAwaiter ==
    /\ Replaying("await")
    /\ IF pb_registrations = 0 /\ RegistrationsCount > 0
       THEN pb_phase' = "panicked" /\ UNCHANGED <<pb_buffer, pb_items, pb_size>>
       ELSE WriteBuffer(pb_buffer, RecordedSize(pb_registrations)) /\ UNCHANGED pb_phase
    /\ UNCHANGED <<sorterVars, pb_buf_size, pb_is_set, pb_registrations>>

(* wait_till_resolved: final_flush publishes everything.                    *)
PlaybackWaitTillResolved ==
    /\ pb_phase = "calls" /\ pb_pos = Len(calls)
    /\ WriteBuffer(pb_buffer, RegistrationsCount)
    /\ pb_phase' = "done"
    /\ UNCHANGED <<sorterVars, pb_buf_size, pb_pos, pb_is_set, pb_registrations>>

PlaybackNext ==
    \/ NewPlayback \/ PlaybackSetValue \/ PlaybackAddResolution
    \/ PlaybackGetAwaiter \/ PlaybackWaitTillResolved

Next == (SorterNext /\ UNCHANGED playbackVars) \/ PlaybackNext

Init == SorterInit /\ PlaybackOff

Spec == Init /\ [][Next]_vars

---------------------------------------------------------------------------
(* Every value the client sets is set before a resolver that needs it is    *)
(* registered; resolvers may still be registered before the ones they need. *)
SetsBeforeUse ==
    \A i, j \in DOMAIN calls :
        calls[i].op = "set" /\ calls[i].key \in calls[j].inputs => i < j

(* The published part of the order has no empty slot, and for a client that *)
(* sets values before they are needed every input of it is set or is the    *)
(* output of an item before: the resolution window may take it at once.     *)
PlaybackSlotsReady ==
    \A k \in 1..pb_size :
        /\ pb_items[k] # None
        /\ SetsBeforeUse => \A v \in InputsOf(pb_items[k]) :
                v \in pb_is_set \/ \E j \in 1..(k - 1) : v \in OutputsOf(pb_items[j])

(* An awaiter handed out in playback does not wait for ever: each place it  *)
(* may be for is set, or its resolver is in the published part of the order. *)
PlaybackAwaitsServed ==
    pb_phase = "calls" /\ pb_pos > 0 /\ calls[pb_pos].op = "await" =>
        \A v \in 0..calls[pb_pos].key :
            v \in pb_is_set \/ \E k \in 1..pb_size : v \in OutputsOf(pb_items[k])
=================================================================================
