------------------------------- MODULE FriPow -------------------------------
(***************************************************************************)
(* The search for the FRI proof-of-work witness: FriPowService::compute    *)
(* (integration/fri/pow.rs) on the host and the kernel fri_pow_new         *)
(* (native/challenger.cu).  A launch gives every thread Tries candidates,  *)
(* Stride apart; a thread that finds one stores it in buf and sets its     *)
(* flag in found_buf; thread 0, when its own search is over, takes the     *)
(* first flagged candidate for the witness.  The host launches again, past *)
(* the candidates tried, until found is 1.                                 *)
(*                                                                         *)
(* The kernel has no barrier and no fence, and its buffers are never       *)
(* cleared, so the model leaves open                                       *)
(*   - whether a thread tests against the sponge or against what happened  *)
(*     to be in its block's shared memory, until thread 0 of the block has *)
(*     loaded it;                                                          *)
(*   - in which order the stores of a thread, and of several threads, are  *)
(*     seen by thread 0, which scans while the others are still searching; *)
(*   - what found and found_buf hold at the first launch.                  *)
(***************************************************************************)
EXTENDS Integers, FiniteSets

CONSTANTS
  Block, BlockDim,   \* number of blocks, threads of a block
  Tries,             \* candidates of a thread in one launch: 1 << 3
  FreshFlags,        \* what a flag may hold in memory nobody has written
  PassingSets,       \* sets of candidates that may be the ones that pass
  MaxProves,         \* bound: how often compute is called
  MaxRounds          \* bound: launches of one compute

ASSUME PowAssumption ==
  /\ Block \in Nat \ {0} /\ BlockDim \in Nat \ {0} /\ Tries \in Nat \ {0}
  /\ FreshFlags \subseteq {0, 1}
  /\ MaxProves \in Nat /\ MaxRounds \in Nat
  /\ \A passing \in PassingSets : passing \subseteq Nat

Stride == Block * BlockDim               \* threads * blocks
Thread == 0 .. Stride - 1                \* g_id
Leader(t) == t - (t % BlockDim)          \* the thread with threadIdx.x == 0
Uninit == -1                             \* no candidate at all

VARIABLES
  passing,      \* the candidates that pass against this transcript
  pc, proves,   \* the host
  round, offset,
  loaded,       \* leaders that have filled init_state of their block
  at,           \* thread -> candidates tried in this launch; Tries when it stops
  pending,      \* thread -> its stores that are not visible yet
  buf, found_buf,
  scan,         \* what thread 0 looks at next; Stride when it is through
  witness, found

host   == <<passing, pc, proves, round, offset>>
device == <<loaded, at, pending, buf, found_buf, scan, witness, found>>
vars   == <<host, device>>

-----------------------------------------------------------------------------
\* DeviceAllocation::alloc leaves the buffers as they are.
Init ==
  /\ passing \in PassingSets
  /\ pc = "launch" /\ proves = 1
  /\ round = 0 /\ offset = 0
  /\ loaded = {}
  /\ at = [t \in Thread |-> Tries]
  /\ pending = [t \in Thread |-> {}]
  /\ buf = [t \in Thread |-> Uninit]
  /\ found_buf \in [Thread -> FreshFlags]
  /\ scan = Stride
  /\ witness = Uninit
  /\ found \in FreshFlags

Launch ==
  /\ pc = "launch" /\ round < MaxRounds
  /\ pc' = "kernel"
  /\ round' = round + 1
  /\ loaded' = {}
  /\ at' = [t \in Thread |-> 0]
  /\ scan' = 0
  /\ UNCHANGED <<passing, proves, offset, pending, buf, found_buf, witness, found>>

\* The leader of a block copies the sponge and the waiting inputs.
LoadState(t) ==
  /\ pc = "kernel"
  /\ t = Leader(t) /\ t \notin loaded
  /\ loaded' = loaded \cup {t}
  /\ UNCHANGED <<host, at, pending, buf, found_buf, scan, witness, found>>

\* Mutant: a thread's candidates are next to each other, as if stride were 1.
CandidateUnstrided(t) == offset + t + at[t]

Candidate(t) == offset + t + at[t] * Stride

Trying(t) == at[t] < Tries

\* One iteration of a thread: the candidate is tested, and if it passes the
\* thread stores it and leaves the loop.
TryCandidate(t) ==
  /\ pc = "kernel"
  /\ Trying(t)
  /\ t = Leader(t) => t \in loaded
  /\ \E passes \in IF Leader(t) \in loaded THEN {Candidate(t) \in passing} ELSE BOOLEAN :
       IF passes
         THEN /\ pending' = [pending EXCEPT ![t] =
                               {[store |-> "buf", value |-> Candidate(t)],
                                [store |-> "found_buf", value |-> 1]}]
              /\ at' = [at EXCEPT ![t] = Tries]
         ELSE /\ at' = [at EXCEPT ![t] = at[t] + 1]
              /\ UNCHANGED pending
  /\ UNCHANGED <<host, loaded, buf, found_buf, scan, witness, found>>

\* A store reaches memory, in no order the kernel asks for.
StoreVisible(t) ==
  \E s \in pending[t] :
    /\ IF s.store = "buf"
         THEN buf' = [buf EXCEPT ![t] = s.value] /\ UNCHANGED found_buf
         ELSE found_buf' = [found_buf EXCEPT ![t] = s.value] /\ UNCHANGED buf
    /\ pending' = [pending EXCEPT ![t] = pending[t] \ {s}]
    /\ UNCHANGED <<host, loaded, at, scan, witness, found>>

\* Thread 0 sees its own stores.
Seen(i, store, stored) ==
  LET own == {s \in pending[0] : s.store = store}
  IN  IF i = 0 /\ own # {} THEN (CHOOSE s \in own : TRUE).value ELSE stored

\* Mutant: the scan starts behind thread 0's own flag.
ScanOthers ==
  /\ pc = "kernel"
  /\ at[0] = Tries /\ scan < Stride
  /\ IF scan > 0 /\ found_buf[scan] = 1
       THEN witness' = buf[scan] /\ found' = 1 /\ scan' = Stride
       ELSE scan' = scan + 1 /\ UNCHANGED <<witness, found>>
  /\ UNCHANGED <<host, loaded, at, pending, buf, found_buf>>

\* One flag of the scan of thread 0.
ScanFlag ==
  /\ pc = "kernel"
  /\ at[0] = Tries /\ scan < Stride
  /\ IF Seen(scan, "found_buf", found_buf[scan]) = 1
       THEN /\ witness' = Seen(scan, "buf", buf[scan])
            /\ found' = 1
            /\ scan' = Stride
       ELSE scan' = scan + 1 /\ UNCHANGED <<witness, found>>
  /\ UNCHANGED <<host, loaded, at, pending, buf, found_buf>>

KernelDone ==
  /\ scan = Stride
  /\ \A t \in Thread : at[t] = Tries /\ pending[t] = {}

NextOffset == offset + Stride * Tries

\* The host has found copied, synchronizes, and stops or moves on.
CheckFound ==
  /\ pc = "kernel" /\ KernelDone
  /\ IF found = 1
       THEN pc' = "returned" /\ UNCHANGED offset
       ELSE pc' = "launch" /\ offset' = NextOffset
  /\ UNCHANGED <<passing, proves, round, device>>

\* Another prove uses the same buffers for another transcript.
NextProve ==
  /\ pc = "returned" /\ proves < MaxProves
  /\ passing' \in PassingSets
  /\ pc' = "launch"
  /\ proves' = proves + 1
  /\ round' = 0 /\ offset' = 0
  /\ UNCHANGED device

Compute ==
  \/ Launch
  \/ \E t \in Thread : LoadState(t) \/ TryCandidate(t) \/ StoreVisible(t)
  \/ ScanFlag
  \/ CheckFound

Idle ==
  /\ \/ pc = "returned" /\ proves = MaxProves
     \/ pc = "launch" /\ round = MaxRounds
  /\ UNCHANGED vars

Next == Compute \/ NextProve \/ Idle

\* The host waits for the kernel, and the device runs every thread of it to its
\* end: a thread waits for no other.
Spec ==
  /\ Init /\ [][Next]_vars
  /\ WF_vars(Launch) /\ WF_vars(ScanFlag) /\ WF_vars(CheckFound)
  /\ \A t \in Thread : WF_vars(LoadState(t)) /\ WF_vars(TryCandidate(t))
                       /\ WF_vars(StoreVisible(t))

-----------------------------------------------------------------------------
\* The search ends: a passing candidate among those of the threads that load the
\* state themselves is reached, in some launch, by one of its tries, and even if
\* its flag is later than the scan the next launch takes it.
SearchEnds ==
  ( /\ pc = "launch" /\ round = 0
    /\ \E c \in passing : /\ c < (MaxRounds - 1) * Stride * Tries
                          /\ c % Stride = Leader(c % Stride) )
    ~> pc = "returned"

\* A find is not lost: a flag that is set when the host launches, because its
\* thread was later than the scan, ends the search in that launch.
FindKept ==
  (pc = "launch" /\ round < MaxRounds /\ \E t \in Thread : found_buf[t] = 1)
    ~> pc = "returned"

\* The witness compute returns passes the test of the verifier ("Invalid
\* proof of work witness.").
PowWitnessPasses == pc = "returned" => witness \in passing
=============================================================================
