---------------------------- MODULE ChallengerGpu ----------------------------
(***************************************************************************)
(* The GPU challenger: ChallengerGpu of integration/poseidon.rs and the    *)
(* kernels observe and get of native/challenger.cu.  The device keeps the  *)
(* sponge and two buffers of Rate elements; the host keeps how much of     *)
(* each is in use (in_idx, out_idx), passes both by value to a kernel and  *)
(* works out what they will be after it without asking the device.         *)
(*                                                                         *)
(* A kernel is one thread and runs element by element.  All launches are   *)
(* on the default stream, which runs them in order, so the next call is    *)
(* modelled as waiting for the kernel of the one before.                   *)
(***************************************************************************)
EXTENDS Integers, Sequences

CONSTANTS
  Element, Sponge, ZeroSponge, Absorb(_, _), Squeeze(_),
  Zero,           \* field zero, what the buffers are filled with
  Messages,       \* what a caller observes: the num_elts elements at offset
  BufferLens,     \* lengths of the device buffers the messages are in
  Counts          \* how many challenges a caller asks for

Rate == 8

ASSUME ElementAssumption  == Zero \in Element
ASSUME SpongeAssumption ==
  /\ ZeroSponge \in Sponge
  /\ \A s \in Sponge : Squeeze(s) \in [1 .. Rate -> Element]
  /\ \A s \in Sponge, n \in 0 .. Rate :
       \A block \in [1 .. n -> Element] : Absorb(s, block) \in Sponge
ASSUME CallsAssumption ==
  /\ Messages \subseteq Seq(Element) \ {<<>>}
  /\ BufferLens \subseteq Nat
  /\ Counts \subseteq Nat \ {0}

VARIABLES
  sponge_state, input_buffer, output_buffer,   \* on the device
  in_idx, out_idx,                             \* on the host
  kernel,                                      \* the kernel under way
  challenge                                    \* the last challenge written

device == <<sponge_state, input_buffer, output_buffer>>
gvars  == <<device, in_idx, out_idx, kernel, challenge>>

Idle == [op |-> "idle"]

New ==
  /\ sponge_state = ZeroSponge
  /\ input_buffer = [j \in 1 .. Rate |-> Zero]
  /\ output_buffer = [j \in 1 .. Rate |-> Zero]
  /\ in_idx = 0 /\ out_idx = 0
  /\ kernel = Idle
  /\ challenge \in Element

-----------------------------------------------------------------------------
\* The first n elements of a buffer.
Prefix(buffer, n) == [j \in 1 .. n |-> buffer[j]]

\* Host indices after observing: from the length of the buffer, not from the
\* number of elements observed, and with the new in_idx in the test for out_idx.
InIdxAfterObserve(len) == (in_idx + len) % Rate

\* Mutant: a duplexing does not refill the outputs.
OutIdxKept(len) == out_idx

OutIdxAfterObserve(len) ==
  IF InIdxAfterObserve(len) + len >= Rate THEN Rate ELSE out_idx

InIdxAfterGet == 0

\* Mutant: the duplexing for waiting inputs is not counted.
OutIdxNoDuplex(n) == (out_idx + Rate - (n % Rate)) % Rate

OutIdxAfterGet(n) ==
  IF in_idx # 0 THEN (Rate - (n % Rate)) % Rate
                 ELSE (out_idx + Rate - (n % Rate)) % Rate

\* observe_elements_gpu(elts, num_elts, offset): launch, new indices.
LaunchObserve(message, len) ==
  /\ kernel = Idle
  /\ kernel' = [op |-> "observe", message |-> message, i |-> 0, current |-> in_idx,
                out |-> out_idx]
  /\ in_idx' = InIdxAfterObserve(len)
  /\ out_idx' = OutIdxAfterObserve(len)
  /\ UNCHANGED <<device, challenge>>

\* The kernel stores the outputs when at most Rate elements are left.
\* Mutant: i is taken for the index after the element.
LastBlockPast == Len(kernel.message) - kernel.i < 1

LastBlock == Len(kernel.message) - kernel.i <= 8

\* One element of the observe kernel.
KernelObserve ==
  LET e      == kernel.message[kernel.i + 1]
      filled == [input_buffer EXCEPT ![kernel.current + 1] = e]
      current == (kernel.current + 1) % Rate
  IN  /\ kernel.op = "observe"
      /\ kernel.i < Len(kernel.message)
      /\ IF current = 0
           THEN /\ sponge_state' = Absorb(sponge_state, filled)
                /\ input_buffer' = [j \in 1 .. Rate |-> Zero]
                /\ output_buffer' = IF LastBlock THEN Squeeze(sponge_state') ELSE output_buffer
           ELSE /\ input_buffer' = filled
                /\ UNCHANGED <<sponge_state, output_buffer>>
      /\ kernel' = [kernel EXCEPT !.i = kernel.i + 1, !.current = current]
      /\ UNCHANGED <<in_idx, out_idx, challenge>>

\* The inputs the first duplexing of a get kernel absorbs.
\* Mutant: the whole buffer, with the zeros it was filled with.
WholeInput == input_buffer

PendingInput == Prefix(input_buffer, kernel.in)

\* get_n_challenges_gpu(clgs, n, offset)
LaunchGet(n) ==
  /\ kernel = Idle
  /\ kernel' = [op |-> "get", n |-> n, i |-> 0, in |-> in_idx, current |-> out_idx]
  /\ in_idx' = InIdxAfterGet
  /\ out_idx' = OutIdxAfterGet(n)
  /\ UNCHANGED <<device, challenge>>

\* One challenge of the get kernel, which starts with a duplexing when there is
\* input or no output left.
KernelGet ==
  LET duplex  == \/ kernel.i = 0 /\ kernel.in # 0
                 \/ kernel.current = 0
      block   == IF kernel.i = 0 THEN PendingInput ELSE <<>>
      state   == IF duplex THEN Absorb(sponge_state, block) ELSE sponge_state
      outputs == IF duplex THEN Squeeze(state) ELSE output_buffer
      current == IF duplex THEN Rate ELSE kernel.current
  IN  /\ kernel.op = "get"
      /\ kernel.i < kernel.n
      /\ sponge_state' = state
      /\ input_buffer' = IF duplex THEN [j \in 1 .. Rate |-> Zero] ELSE input_buffer
      /\ output_buffer' = outputs
      /\ challenge' = outputs[current]
      /\ kernel' = [kernel EXCEPT !.i = kernel.i + 1, !.current = (current + 7) % 8]
      /\ UNCHANGED <<in_idx, out_idx>>

KernelDone ==
  \/ kernel.op = "observe" /\ kernel.i = Len(kernel.message)
  \/ kernel.op = "get" /\ kernel.i = kernel.n

Retire ==
  /\ KernelDone
  /\ kernel' = Idle
  /\ UNCHANGED <<device, in_idx, out_idx, challenge>>

-----------------------------------------------------------------------------
\* What a caller must respect for the host's indices to follow the device: the
\* buffer is as long as the message up to a multiple of Rate, and a message that
\* exactly fills the input comes in a buffer of at least Rate elements or when
\* out_idx is already Rate.
Disciplined(message, len) ==
  /\ len >= Len(message)
  /\ len % Rate = Len(message) % Rate
  /\ InIdxAfterObserve(len) = 0 => len >= Rate \/ out_idx = Rate

Transcribe ==
  \/ \E message \in Messages, len \in BufferLens :
       Disciplined(message, len) /\ LaunchObserve(message, len)
  \/ \E n \in Counts : LaunchGet(n)
  \/ KernelObserve
  \/ KernelGet
  \/ Retire

Spec == New /\ [][Transcribe]_gvars

-----------------------------------------------------------------------------
Kernel ==
  {Idle}
  \cup [op : {"observe"}, message : Seq(Element), i : Nat,
        current : 0 .. Rate - 1, out : 0 .. Rate]
  \cup [op : {"get"}, n : Nat, i : Nat, in : 0 .. Rate - 1, current : 0 .. Rate]

\* Type correctness of the GPU challenger: the host's indices and the running
\* kernel's stay within the sponge's rate, whatever lengths are observed and drawn.
TypeOK ==
  /\ sponge_state \in Sponge
  /\ input_buffer \in [1 .. Rate -> Element]
  /\ output_buffer \in [1 .. Rate -> Element]
  /\ in_idx \in 0 .. Rate - 1
  /\ out_idx \in 0 .. Rate
  /\ kernel \in Kernel
  /\ challenge \in Element

\* How much of the input buffer is in use, whoever knows it: the kernel while it
\* runs, the host between two calls.
InUse ==
  CASE kernel.op = "idle"    -> in_idx
    [] kernel.op = "observe" -> kernel.current
    [] kernel.op = "get"     -> IF kernel.i = 0 THEN kernel.in ELSE 0

\* How many outputs are left: none while inputs wait.
Available ==
  IF InUse # 0 THEN 0
  ELSE CASE kernel.op = "idle"    -> out_idx
         [] kernel.op = "observe" -> IF kernel.i = 0 THEN kernel.out ELSE Rate
         [] kernel.op = "get"     -> kernel.current

\* The host's indices are where the kernel leaves the device's: the host computed
\* them at the launch, from the length of the buffer, the kernel counts elements.
IndicesAgree ==
  KernelDone => in_idx = InUse /\ (in_idx = 0 => out_idx = Available)

\* The outputs still to be handed out are those of the current sponge, although
\* the observe kernel stores them only at its last duplexing.
OutputsFresh ==
  (kernel.op # "observe" \/ KernelDone) =>
    \A j \in 1 .. Available : output_buffer[j] = Squeeze(sponge_state)[j]

\* Half-way through a kernel: its own index and what it has left to do lead to
\* the host's indices.
ProgressInv ==
  /\ kernel.op = "observe" =>
       /\ 0 < Len(kernel.message) /\ kernel.i <= Len(kernel.message)
       /\ in_idx = (kernel.current + (Len(kernel.message) - kernel.i)) % Rate
       /\ in_idx = 0 => out_idx = Rate
  /\ kernel.op = "get" =>
       /\ 0 < kernel.n /\ kernel.i <= kernel.n
       /\ in_idx = 0
       /\ kernel.i # 0 => kernel.current < Rate
       /\ LET from == IF kernel.i = 0 /\ kernel.in # 0 THEN 0 ELSE kernel.current
          IN  out_idx = (from + Rate - ((kernel.n - kernel.i) % Rate)) % Rate

\* From the last duplexing of an observe kernel on, the stored outputs are fresh.
FreshInv ==
  (kernel.op = "observe" => 0 < kernel.i /\ Len(kernel.message) - kernel.i < Rate) =>
    \A j \in 1 .. Available : output_buffer[j] = Squeeze(sponge_state)[j]

\* The inductive invariant of the GPU challenger.
ChallengerInv == ProgressInv /\ FreshInv

\* The GPU challenger absorbs and answers exactly as the CPU's.
CPU == INSTANCE Challenger WITH
  input_buffer  <- Prefix(input_buffer, InUse),
  output_buffer <- Prefix(Squeeze(sponge_state), Available)

ImplementsChallenger == CPU!Spec
=============================================================================
