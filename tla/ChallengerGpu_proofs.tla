------------------------ MODULE ChallengerGpu_proofs ------------------------
(***************************************************************************)
(* The GPU challenger implements the CPU's, for every permutation, every   *)
(* message and every sequence of disciplined calls.                        *)
(***************************************************************************)
EXTENDS ChallengerGpu, SequenceTheorems, TLAPS

\* Remainders add up.
LEMMA ModSame == \A a, b, c \in Nat : b % 8 = c % 8 => (a + b) % 8 = (a + c) % 8
  BY Z3

\* A remainder may be taken early.
LEMMA ModStep == \A a, b \in Nat : ((a % 8) + b) % 8 = (a + b) % 8
  BY Z3

\* Absorbing at most Rate elements gives a sponge.
LEMMA AbsorbType ==
  ASSUME NEW s \in Sponge, NEW n \in 0 .. 8, NEW block \in [1 .. n -> Element]
  PROVE  Absorb(s, block) \in Sponge
  <1>1. \A r \in Sponge, m \in 0 .. 8 : \A b \in [1 .. m -> Element] : Absorb(r, b) \in Sponge
    BY SpongeAssumption DEF Rate
  <1> QED BY <1>1

\* A new challenger satisfies the invariant.
LEMMA NewInv == New => TypeOK /\ ChallengerInv
  BY ElementAssumption, SpongeAssumption
  DEF New, TypeOK, Kernel, Idle, ChallengerInv, ProgressInv, FreshInv, Available, InUse, Rate

\* LaunchObserve: the host's indices are where the kernel will end.
LEMMA LaunchObservePreserves ==
  ASSUME TypeOK, ChallengerInv, NEW message \in Messages, NEW len \in BufferLens,
         Disciplined(message, len), LaunchObserve(message, len)
  PROVE  TypeOK' /\ ChallengerInv'
  <1>1. message \in Seq(Element) /\ Len(message) \in Nat /\ 0 < Len(message) /\ len \in Nat
    BY CallsAssumption
  <1>2. /\ in_idx' = (in_idx + len) % 8 /\ in_idx' \in 0 .. 7
        /\ in_idx' = (in_idx + Len(message)) % 8
    <2>1. in_idx \in Nat /\ in_idx' = (in_idx + len) % 8 /\ len % 8 = Len(message) % 8
      BY DEF LaunchObserve, InIdxAfterObserve, Disciplined, Rate, TypeOK
    <2>2. (in_idx + len) % 8 \in 0 .. 7
      BY <1>1, <2>1
    <2> QED BY <1>1, <2>1, <2>2, ModSame
  <1>3. in_idx' = 0 => out_idx' = 8
    BY <1>1, <1>2 DEF LaunchObserve, OutIdxAfterObserve, InIdxAfterObserve, Disciplined, Rate, TypeOK
  <1>4. out_idx' \in 0 .. 8
    BY <1>1 DEF LaunchObserve, OutIdxAfterObserve, Rate, TypeOK
  <1>5. kernel' = [op |-> "observe", message |-> message, i |-> 0, current |-> in_idx, out |-> out_idx]
    BY DEF LaunchObserve
  <1>6. TypeOK'
    BY <1>1, <1>2, <1>4, <1>5 DEF TypeOK, Kernel, LaunchObserve, device, Rate
  <1>7. ProgressInv'
    BY <1>1, <1>2, <1>3, <1>5 DEF ProgressInv, TypeOK, Rate
  <1>8. FreshInv'
    BY <1>5 DEF FreshInv
  <1> QED BY <1>6, <1>7, <1>8 DEF ChallengerInv

\* LaunchGet, likewise.
LEMMA LaunchGetPreserves ==
  ASSUME TypeOK, ChallengerInv, NEW n \in Counts, LaunchGet(n)
  PROVE  TypeOK' /\ ChallengerInv'
  <1>1. n \in Nat /\ 0 < n
    BY CallsAssumption
  <1>2. kernel' = [op |-> "get", n |-> n, i |-> 0, in |-> in_idx, current |-> out_idx]
    BY DEF LaunchGet
  <1>3. in_idx' = 0 /\ out_idx' \in 0 .. 7
    BY <1>1 DEF LaunchGet, InIdxAfterGet, OutIdxAfterGet, Rate, TypeOK
  <1>4. TypeOK'
    BY <1>1, <1>2, <1>3 DEF TypeOK, Kernel, LaunchGet, device, Rate
  <1>5. ProgressInv'
    BY <1>1, <1>2, <1>3 DEF ProgressInv, LaunchGet, OutIdxAfterGet, TypeOK, Rate
  <1>6. FreshInv'
    BY <1>2 DEF FreshInv, LaunchGet, device, ChallengerInv, Available, InUse, Idle, TypeOK
  <1> QED BY <1>4, <1>5, <1>6 DEF ChallengerInv

\* One element of the observe kernel.
LEMMA KernelObservePreserves ==
  ASSUME TypeOK, ChallengerInv, KernelObserve
  PROVE  TypeOK' /\ ChallengerInv'
  <1> DEFINE e == kernel.message[kernel.i + 1]
             current == (kernel.current + 1) % 8
             filled == [input_buffer EXCEPT ![kernel.current + 1] = e]
  <1>1. /\ kernel.op = "observe" /\ kernel.message \in Seq(Element)
        /\ kernel.i \in Nat /\ kernel.current \in 0 .. 7 /\ kernel.out \in 0 .. 8
        /\ kernel \in [op : {"observe"}, message : Seq(Element), i : Nat, current : 0 .. 7, out : 0 .. 8]
    BY DEF KernelObserve, LastBlock, TypeOK, Kernel, Idle, Rate
  <1>2. kernel.i < Len(kernel.message) /\ Len(kernel.message) \in Nat /\ e \in Element
    BY <1>1 DEF KernelObserve, LastBlock
  <1>3. kernel' = [kernel EXCEPT !.i = kernel.i + 1, !.current = current]
    BY DEF KernelObserve, LastBlock, Rate
  <1>4. /\ kernel'.op = "observe" /\ kernel'.message = kernel.message
        /\ kernel'.i = kernel.i + 1 /\ kernel'.current = current
        /\ kernel' \in [op : {"observe"}, message : Seq(Element), i : Nat, current : 0 .. 7, out : 0 .. 8]
    <2>1. current \in 0 .. 7
      BY <1>1
    <2> DEFINE K == [op : {"observe"}, message : Seq(Element), i : Nat, current : 0 .. 7, out : 0 .. 8]
    <2>2. kernel.i + 1 \in Nat
      BY <1>1
    <2> HIDE DEF current
    <2>3. \A k \in K, a \in Nat, b \in 0 .. 7 :
            LET r == [k EXCEPT !.i = a, !.current = b]
            IN  r \in K /\ r.op = k.op /\ r.message = k.message /\ r.i = a /\ r.current = b
      OBVIOUS
    <2> QED BY <1>1, <1>3, <2>1, <2>2, <2>3
  <1>5. filled \in [1 .. 8 -> Element]
    BY <1>1, <1>2 DEF TypeOK, Rate
  <1>6. Absorb(sponge_state, filled) \in Sponge
    <2> HIDE DEF filled
    <2> QED BY <1>5, 8 \in 0 .. 8, AbsorbType DEF TypeOK
  <1>7. /\ sponge_state' \in Sponge /\ input_buffer' \in [1 .. 8 -> Element]
        /\ output_buffer' \in [1 .. 8 -> Element]
    <2>1. CASE current = 0
      <3>1. /\ sponge_state' = Absorb(sponge_state, filled)
            /\ input_buffer' = [j \in 1 .. 8 |-> Zero]
            /\ output_buffer' = Squeeze(sponge_state') \/ output_buffer' = output_buffer
        BY <2>1 DEF KernelObserve, LastBlock, Rate
      <3> QED BY <3>1, <1>6, ElementAssumption, SpongeAssumption DEF TypeOK, Rate
    <2>2. CASE current # 0
      <3>1. sponge_state' = sponge_state /\ output_buffer' = output_buffer /\ input_buffer' = filled
        BY <2>2 DEF KernelObserve, LastBlock, Rate
      <3> QED BY <3>1, <1>5 DEF TypeOK, Rate
    <2> QED BY <2>1, <2>2
  <1>8. TypeOK'
    BY <1>4, <1>7 DEF TypeOK, Kernel, KernelObserve, LastBlock, Rate
  <1>9. ProgressInv'
    <2>1. in_idx = (kernel.current + (Len(kernel.message) - kernel.i)) % 8
      BY <1>1 DEF ChallengerInv, ProgressInv, Rate
    <2>2. in_idx = (current + (Len(kernel.message) - (kernel.i + 1))) % 8
      <3> DEFINE left == Len(kernel.message) - (kernel.i + 1)
      <3>1. left \in Nat /\ Len(kernel.message) - kernel.i = 1 + left
        BY <1>1, <1>2
      <3>2. in_idx = ((kernel.current + 1) + left) % 8
        BY <2>1, <3>1, <1>1
      <3> HIDE DEF left
      <3>3. in_idx = (((kernel.current + 1) % 8) + left) % 8
        BY <3>1, <3>2, <1>1, ModStep
      <3> QED BY <3>3 DEF left
    <2> HIDE DEF current
    <2> QED BY <2>2, <1>1, <1>2, <1>4 DEF ChallengerInv, ProgressInv, KernelObserve, LastBlock, Rate
  <1>10. FreshInv'
    <2>1. CASE current = 0
      <3>1. Len(kernel.message) - (kernel.i + 1) < 8 => Len(kernel.message) - kernel.i <= 8
        BY <1>1, <1>2
      <3>2. Len(kernel.message) - (kernel.i + 1) < 8 => output_buffer' = Squeeze(sponge_state')
        BY <2>1, <3>1 DEF KernelObserve, LastBlock, Rate
      <3> QED BY <3>2, <1>4 DEF FreshInv, Rate
    <2>2. CASE current # 0
      <3>1. Available' = 0
        BY <2>2, <1>4 DEF Available, InUse
      <3> QED BY <3>1 DEF FreshInv
    <2> QED BY <2>1, <2>2
  <1> QED BY <1>8, <1>9, <1>10 DEF ChallengerInv

\* Taking k + 1 of the outputs, one now and k later: the host's index is the same.
LEMMA GetStep ==
  \A c \in 1 .. 8, k \in Nat :
    (c + 8 - ((k + 1) % 8)) % 8 = (((c + 7) % 8) + 8 - (k % 8)) % 8
  <1> SUFFICES ASSUME NEW c \in 1 .. 8, NEW k \in Nat
               PROVE  (c + 8 - ((k + 1) % 8)) % 8 = (((c + 7) % 8) + 8 - (k % 8)) % 8
    OBVIOUS
  <1> DEFINE m == k % 8
  <1>1. m \in 0 .. 7 /\ (k + 1) % 8 = (m + 1) % 8
    OBVIOUS
  <1> HIDE DEF m
  <1>2. (c + 8 - ((m + 1) % 8)) % 8 = (((c + 7) % 8) + 8 - m) % 8
    BY <1>1
  <1> QED BY <1>1, <1>2 DEF m

\* The parts of a step of the get kernel that the proofs below share: the types,
\* and outputs that belong to the sponge the step leaves.
LEMMA KernelGetFacts ==
  ASSUME TypeOK, ChallengerInv, KernelGet
  PROVE  LET duplex == \/ kernel.i = 0 /\ kernel.in # 0
                       \/ kernel.current = 0
             current == IF duplex THEN 8 ELSE kernel.current
         IN  /\ kernel.op = "get" /\ kernel.i \in Nat /\ kernel.n \in Nat /\ kernel.i < kernel.n
             /\ kernel.in \in 0 .. 7 /\ kernel.current \in 0 .. 8 /\ current \in 1 .. 8
             /\ kernel \in [op : {"get"}, n : Nat, i : Nat, in : 0 .. 7, current : 0 .. 8]
             /\ kernel' = [kernel EXCEPT !.i = kernel.i + 1, !.current = (current + 7) % 8]
             /\ kernel'.op = "get" /\ kernel'.n = kernel.n /\ kernel'.i = kernel.i + 1
             /\ kernel'.current = (current + 7) % 8 /\ kernel'.current \in 0 .. 7
             /\ kernel' \in [op : {"get"}, n : Nat, i : Nat, in : 0 .. 7, current : 0 .. 8]
             /\ sponge_state' \in Sponge
             /\ output_buffer' = IF duplex THEN Squeeze(sponge_state') ELSE output_buffer
             /\ output_buffer' \in [1 .. 8 -> Element]
             /\ challenge' = output_buffer'[current]
             /\ \A j \in 1 .. current : output_buffer'[j] = Squeeze(sponge_state')[j]
  <1> DEFINE duplex == \/ kernel.i = 0 /\ kernel.in # 0
                       \/ kernel.current = 0
             current == IF duplex THEN 8 ELSE kernel.current
             block == IF kernel.i = 0 THEN Prefix(input_buffer, kernel.in) ELSE <<>>
  <1>1. /\ kernel.op = "get" /\ kernel.i \in Nat /\ kernel.n \in Nat /\ kernel.i < kernel.n
        /\ kernel.in \in 0 .. 7 /\ kernel.current \in 0 .. 8
        /\ kernel \in [op : {"get"}, n : Nat, i : Nat, in : 0 .. 7, current : 0 .. 8]
    BY DEF KernelGet, PendingInput, TypeOK, Kernel, Idle, Rate
  <1>2. current \in 1 .. 8
    BY <1>1
  <1>3. kernel' = [kernel EXCEPT !.i = kernel.i + 1, !.current = (current + 7) % 8]
    BY DEF KernelGet, PendingInput, Rate
  <1>4. /\ kernel'.op = "get" /\ kernel'.n = kernel.n /\ kernel'.i = kernel.i + 1
        /\ kernel'.current = (current + 7) % 8 /\ kernel'.current \in 0 .. 7
        /\ kernel' \in [op : {"get"}, n : Nat, i : Nat, in : 0 .. 7, current : 0 .. 8]
    <2> DEFINE K == [op : {"get"}, n : Nat, i : Nat, in : 0 .. 7, current : 0 .. 8]
               left == (current + 7) % 8
    <2>1. left \in 0 .. 7 /\ left \in 0 .. 8 /\ kernel.i + 1 \in Nat
      BY <1>1, <1>2
    <2>2. \A k \in K, a \in Nat, b \in 0 .. 8 :
            LET r == [k EXCEPT !.i = a, !.current = b]
            IN  r \in K /\ r.op = k.op /\ r.n = k.n /\ r.i = a /\ r.current = b
      OBVIOUS
    <2> HIDE DEF left
    <2>3. kernel' = [kernel EXCEPT !.i = kernel.i + 1, !.current = left]
      BY <1>3 DEF left
    <2>4. kernel'.current = left /\ kernel'.op = "get" /\ kernel'.n = kernel.n
          /\ kernel'.i = kernel.i + 1 /\ kernel' \in K
      BY <1>1, <2>1, <2>2, <2>3
    <2> QED BY <2>1, <2>4 DEF left
  <1>5. sponge_state' = IF duplex THEN Absorb(sponge_state, block) ELSE sponge_state
    BY DEF KernelGet, PendingInput
  <1>6. output_buffer' = IF duplex THEN Squeeze(sponge_state') ELSE output_buffer
    BY <1>5 DEF KernelGet, PendingInput
  <1>7. sponge_state' \in Sponge
    <2>1. CASE kernel.i = 0
      <3>1. block = [j \in 1 .. kernel.in |-> input_buffer[j]]
        BY <2>1 DEF Prefix
      <3>2. block \in [1 .. kernel.in -> Element] /\ kernel.in \in 0 .. 8
        BY <3>1, <1>1 DEF TypeOK, Rate
      <3> HIDE DEF block
      <3>3. Absorb(sponge_state, block) \in Sponge
        BY <3>2, AbsorbType DEF TypeOK
      <3> QED BY <3>3, <1>5 DEF TypeOK
    <2>2. CASE kernel.i # 0
      <3>1. block = <<>> /\ <<>> \in [1 .. 0 -> Element]
        BY <2>2
      <3>2. Absorb(sponge_state, <<>>) \in Sponge
        BY <3>1, 0 \in 0 .. 8, AbsorbType DEF TypeOK
      <3> QED BY <3>1, <3>2, <1>5 DEF TypeOK
    <2> QED BY <2>1, <2>2
  <1>8. output_buffer' \in [1 .. 8 -> Element]
    BY <1>6, <1>7, SpongeAssumption DEF TypeOK, Rate
  <1>9. challenge' = output_buffer'[current]
    BY DEF KernelGet, PendingInput, Rate
  <1>10. \A j \in 1 .. current : output_buffer'[j] = Squeeze(sponge_state')[j]
    <2>1. CASE duplex
      BY <2>1, <1>6
    <2>2. CASE ~ duplex
      <3>1. Available = kernel.current /\ sponge_state' = sponge_state
            /\ output_buffer' = output_buffer /\ current = kernel.current
        BY <2>2, <1>1, <1>5, <1>6 DEF Available, InUse
      <3> QED BY <3>1, <1>1 DEF ChallengerInv, FreshInv
    <2> QED BY <2>1, <2>2
  <1> QED BY <1>1, <1>2, <1>3, <1>4, <1>6, <1>7, <1>8, <1>9, <1>10

\* One challenge of the get kernel.
LEMMA KernelGetPreserves ==
  ASSUME TypeOK, ChallengerInv, KernelGet
  PROVE  TypeOK' /\ ChallengerInv'
  <1> DEFINE duplex == \/ kernel.i = 0 /\ kernel.in # 0
                       \/ kernel.current = 0
             current == IF duplex THEN 8 ELSE kernel.current
  <1>1. /\ kernel.op = "get" /\ kernel.i \in Nat /\ kernel.n \in Nat /\ kernel.i < kernel.n
        /\ kernel.in \in 0 .. 7 /\ kernel.current \in 0 .. 8 /\ current \in 1 .. 8
        /\ kernel'.op = "get" /\ kernel'.n = kernel.n /\ kernel'.i = kernel.i + 1
        /\ kernel'.current = (current + 7) % 8 /\ kernel'.current \in 0 .. 7
        /\ kernel' \in [op : {"get"}, n : Nat, i : Nat, in : 0 .. 7, current : 0 .. 8]
        /\ sponge_state' \in Sponge
        /\ output_buffer' \in [1 .. 8 -> Element]
        /\ challenge' = output_buffer'[current]
        /\ \A j \in 1 .. current : output_buffer'[j] = Squeeze(sponge_state')[j]
    BY KernelGetFacts
  <1>2. TypeOK'
    BY <1>1, ElementAssumption DEF TypeOK, Kernel, KernelGet, Rate
  <1>3. ProgressInv'
    <2> DEFINE k == kernel.n - kernel.i - 1
    <2>1. k \in Nat /\ kernel.n - kernel.i = k + 1 /\ kernel'.n - kernel'.i = k
      BY <1>1
    <2>2. in_idx' = 0 /\ out_idx' = out_idx /\ 0 < kernel.n
      BY <1>1 DEF KernelGet, PendingInput, ChallengerInv, ProgressInv
    <2>3. out_idx = (current + 8 - ((kernel.n - kernel.i) % 8)) % 8
      <3> DEFINE from == IF kernel.i = 0 /\ kernel.in # 0 THEN 0 ELSE kernel.current
                 m == (kernel.n - kernel.i) % 8
      <3>1. out_idx = (from + 8 - m) % 8
        BY <1>1 DEF ChallengerInv, ProgressInv, Rate
      <3>2. current = from \/ current = from + 8
        BY <1>1
      <3>3. m \in 0 .. 7 /\ from \in 0 .. 8
        BY <1>1
      <3> HIDE DEF from, m, current
      <3>4. out_idx = (current + 8 - m) % 8
        BY <3>1, <3>2, <3>3
      <3> QED BY <3>4 DEF m
    <2> HIDE DEF k, current
    <2>4. out_idx = (kernel'.current + 8 - (k % 8)) % 8
      BY <1>1, <2>1, <2>3, GetStep
    <2> QED BY <1>1, <2>1, <2>2, <2>4 DEF ProgressInv, Rate
  <1>4. FreshInv'
    <2>1. Available' <= current /\ Available' \in 0 .. 8
      BY <1>1 DEF Available, InUse
    <2> HIDE DEF current
    <2> QED BY <1>1, <2>1 DEF FreshInv
  <1> QED BY <1>2, <1>3, <1>4 DEF ChallengerInv

\* A kernel that is done leaves the device where the host's indices say.
LEMMA DoneAgrees ==
  ASSUME TypeOK, ChallengerInv
  PROVE  IndicesAgree /\ OutputsFresh
  <1>1. CASE kernel.op = "observe"
    <2>1. /\ kernel.i \in Nat /\ kernel.current \in 0 .. 7 /\ Len(kernel.message) \in Nat
      BY <1>1 DEF TypeOK, Kernel, Idle, Rate
    <2>2. KernelDone => /\ kernel.i = Len(kernel.message) /\ kernel.i > 0
                        /\ in_idx = (kernel.current + (Len(kernel.message) - kernel.i)) % 8
                        /\ in_idx = 0 => out_idx = 8
      BY <1>1, <2>1 DEF KernelDone, ChallengerInv, ProgressInv, Rate
    <2>3. KernelDone => in_idx = kernel.current
      BY <2>1, <2>2
    <2>4. IndicesAgree
      BY <1>1, <2>1, <2>2, <2>3 DEF IndicesAgree, Available, InUse, Rate
    <2>5. OutputsFresh
      BY <1>1, <2>1, <2>2 DEF OutputsFresh, ChallengerInv, FreshInv, Rate
    <2> QED BY <2>4, <2>5
  <1>2. CASE kernel.op = "get"
    <2>1. /\ kernel.i \in Nat /\ kernel.n \in Nat /\ kernel.current \in 0 .. 8
      BY <1>2 DEF TypeOK, Kernel, Idle, Rate
    <2>2. KernelDone => /\ kernel.i = kernel.n /\ kernel.i # 0 /\ in_idx = 0 /\ kernel.current < 8
                        /\ out_idx = (kernel.current + 8 - ((kernel.n - kernel.i) % 8)) % 8
      <3> SUFFICES ASSUME KernelDone
                   PROVE  /\ kernel.i = kernel.n /\ kernel.i # 0 /\ in_idx = 0 /\ kernel.current < 8
                          /\ out_idx = (kernel.current + 8 - ((kernel.n - kernel.i) % 8)) % 8
        OBVIOUS
      <3>1. kernel.i = kernel.n /\ in_idx = 0 /\ 0 < kernel.n
        BY <1>2 DEF KernelDone, ChallengerInv, ProgressInv
      <3>2. kernel.i # 0
        BY <3>1, <2>1
      <3>3. /\ kernel.i # 0 => kernel.current < 8
            /\ LET from == IF kernel.i = 0 /\ kernel.in # 0 THEN 0 ELSE kernel.current
               IN  out_idx = (from + 8 - ((kernel.n - kernel.i) % 8)) % 8
        BY <1>2 DEF ChallengerInv, ProgressInv, Rate
      <3> QED BY <3>1, <3>2, <3>3
    <2>3. KernelDone => out_idx = kernel.current
      BY <2>1, <2>2
    <2>4. IndicesAgree
      BY <1>2, <2>1, <2>2, <2>3 DEF IndicesAgree, Available, InUse
    <2>5. OutputsFresh
      BY <1>2 DEF OutputsFresh, ChallengerInv, FreshInv
    <2> QED BY <2>4, <2>5
  <1>3. CASE kernel = Idle
    BY <1>3 DEF IndicesAgree, KernelDone, Idle, OutputsFresh, ChallengerInv, FreshInv
  <1> QED BY <1>1, <1>2, <1>3 DEF TypeOK, Kernel

\* Between two calls the host's indices describe the device.
LEMMA RetirePreserves ==
  ASSUME TypeOK, ChallengerInv, Retire
  PROVE  /\ TypeOK' /\ ChallengerInv'
         /\ InUse' = InUse /\ Available' = Available
  <1>1. IndicesAgree /\ OutputsFresh /\ KernelDone
    BY DoneAgrees DEF Retire
  <1>2. kernel' = Idle /\ kernel'.op = "idle"
    BY DEF Retire, Idle
  <1>3. InUse' = in_idx /\ InUse = in_idx
    BY <1>1, <1>2 DEF Retire, InUse, IndicesAgree
  <1>4. Available' = Available
    BY <1>1, <1>2, <1>3 DEF Retire, Available, IndicesAgree
  <1>5. TypeOK'
    BY DEF TypeOK, Retire, Kernel, device
  <1>6. ChallengerInv'
    BY <1>1, <1>2, <1>4 DEF ChallengerInv, ProgressInv, FreshInv, OutputsFresh, Retire, device
  <1> QED BY <1>3, <1>4, <1>5, <1>6

\* The inductive step: every call and every kernel step keeps the invariant.
LEMMA TranscribeInv == TypeOK /\ ChallengerInv /\ [Transcribe]_gvars => TypeOK' /\ ChallengerInv'
  <1> SUFFICES ASSUME TypeOK, ChallengerInv, [Transcribe]_gvars
               PROVE  TypeOK' /\ ChallengerInv'
    OBVIOUS
  <1>1. CASE \E message \in Messages, len \in BufferLens :
               Disciplined(message, len) /\ LaunchObserve(message, len)
    BY <1>1, LaunchObservePreserves
  <1>2. CASE \E n \in Counts : LaunchGet(n)
    BY <1>2, LaunchGetPreserves
  <1>3. CASE KernelObserve
    BY <1>3, KernelObservePreserves
  <1>4. CASE KernelGet
    BY <1>4, KernelGetPreserves
  <1>5. CASE Retire
    BY <1>5, RetirePreserves
  <1>6. CASE UNCHANGED gvars
    BY <1>6 DEF gvars, device, TypeOK, ChallengerInv, ProgressInv, FreshInv, Available, InUse
  <1> QED BY <1>1, <1>2, <1>3, <1>4, <1>5, <1>6 DEF Transcribe

\* The challenger's invariant holds in every reachable state.
THEOREM ChallengerInvariant == Spec => [](TypeOK /\ ChallengerInv)
  <1> QED BY NewInv, TranscribeInv, PTL DEF Spec

\* The host's in_idx and out_idx, computed at the launch, are the device's when
\* a kernel is done.
THEOREM HostIndices == Spec => []IndicesAgree
  <1>1. TypeOK /\ ChallengerInv => IndicesAgree
    BY DoneAgrees
  <1> QED BY <1>1, ChallengerInvariant, PTL

\* The outputs left to hand out are those of the current sponge.
THEOREM FreshOutputs == Spec => []OutputsFresh
  <1>1. TypeOK /\ ChallengerInv => OutputsFresh
    BY DoneAgrees
  <1> QED BY <1>1, ChallengerInvariant, PTL

-----------------------------------------------------------------------------
\* A prefix is a sequence of its length.
LEMMA PrefixSeq ==
  ASSUME NEW buffer \in [1 .. 8 -> Element], NEW n \in 0 .. 8
  PROVE  /\ Prefix(buffer, n) \in Seq(Element) /\ Len(Prefix(buffer, n)) = n
         /\ Prefix(buffer, n) = <<>> <=> n = 0
  <1>1. Prefix(buffer, n) \in [1 .. n -> Element]
    BY DEF Prefix
  <1>2. Prefix(buffer, n) \in Seq(Element) /\ Len(Prefix(buffer, n)) = n
    BY <1>1, n \in Nat
  <1>3. Prefix(buffer, n) = <<>> <=> n = 0
    BY <1>2
  <1> QED BY <1>2, <1>3

\* Writing the element after a prefix appends to it.
LEMMA PrefixAppend ==
  ASSUME NEW buffer \in [1 .. 8 -> Element], NEW n \in 0 .. 7, NEW e \in Element
  PROVE  Append(Prefix(buffer, n), e) = Prefix([buffer EXCEPT ![n + 1] = e], n + 1)
  <1>1. Prefix(buffer, n) \in Seq(Element) /\ Len(Prefix(buffer, n)) = n
    <2>1. n \in 0 .. 8
      OBVIOUS
    <2> QED BY <2>1, PrefixSeq
  <1>2. /\ Len(Append(Prefix(buffer, n), e)) = n + 1
        /\ Append(Prefix(buffer, n), e) \in Seq(Element)
        /\ \A j \in 1 .. n : Append(Prefix(buffer, n), e)[j] = Prefix(buffer, n)[j]
        /\ Append(Prefix(buffer, n), e)[n + 1] = e
    BY <1>1
  <1> DEFINE filled == [buffer EXCEPT ![n + 1] = e]
  <1>3. filled \in [1 .. 8 -> Element] /\ n + 1 \in 0 .. 8
    OBVIOUS
  <1>4. \A j \in 1 .. n + 1 : Append(Prefix(buffer, n), e)[j] = filled[j]
    BY <1>2 DEF Prefix
  <1>5. Append(Prefix(buffer, n), e) = [j \in 1 .. n + 1 |-> filled[j]]
    <2> DEFINE s == Append(Prefix(buffer, n), e)
    <2>1. DOMAIN s = 1 .. n + 1 /\ s = [j \in DOMAIN s |-> s[j]]
      <3>1. s \in Seq(Element) /\ Len(s) = n + 1
        BY <1>2
      <3> HIDE DEF s
      <3> QED BY <3>1, LenProperties
    <2>2. \A j \in 1 .. n + 1 : s[j] = filled[j]
      BY <1>4
    <2> HIDE DEF s, filled
    <2>3. s = [j \in 1 .. n + 1 |-> filled[j]]
      BY <2>1, <2>2
    <2> QED BY <2>3 DEF s
  <1> QED BY <1>5 DEF Prefix

\* The whole of a buffer is its prefix of length Rate.
LEMMA PrefixWhole ==
  ASSUME NEW buffer \in [1 .. 8 -> Element]
  PROVE  Prefix(buffer, 8) = buffer
  BY DEF Prefix

\* Ranges of the mapped indices.
LEMMA IndexRanges ==
  ASSUME TypeOK
  PROVE  InUse \in 0 .. 7 /\ Available \in 0 .. 8
  <1>1. CASE kernel.op = "observe"
    <2>1. kernel.current \in 0 .. 7 /\ kernel.out \in 0 .. 8
      BY <1>1 DEF TypeOK, Kernel, Idle, Rate
    <2> QED BY <1>1, <2>1 DEF InUse, Available, Rate
  <1>2. CASE kernel.op = "get"
    <2>1. kernel.in \in 0 .. 7 /\ kernel.current \in 0 .. 8
      BY <1>2 DEF TypeOK, Kernel, Idle, Rate
    <2> QED BY <1>2, <2>1 DEF InUse, Available
  <1>3. CASE kernel = Idle
    <2>1. kernel.op = "idle"
      BY <1>3 DEF Idle
    <2> QED BY <2>1 DEF InUse, Available, TypeOK, Rate
  <1> QED BY <1>1, <1>2, <1>3 DEF TypeOK, Kernel

\* One element of the observe kernel is observe_element.
LEMMA KernelObserveRefines ==
  ASSUME TypeOK, ChallengerInv, KernelObserve
  PROVE  /\ kernel.message[kernel.i + 1] \in Element
         /\ CPU!ObserveElement(kernel.message[kernel.i + 1])
  <1> DEFINE e == kernel.message[kernel.i + 1]
             current == (kernel.current + 1) % 8
             filled == [input_buffer EXCEPT ![kernel.current + 1] = e]
  <1>1. /\ kernel.op = "observe" /\ kernel.message \in Seq(Element)
        /\ kernel.i \in Nat /\ kernel.current \in 0 .. 7
        /\ kernel \in [op : {"observe"}, message : Seq(Element), i : Nat, current : 0 .. 7, out : 0 .. 8]
    BY DEF KernelObserve, LastBlock, TypeOK, Kernel, Idle, Rate
  <1>2. kernel.i < Len(kernel.message) /\ e \in Element
    BY <1>1 DEF KernelObserve, LastBlock
  <1>3. /\ kernel'.op = "observe" /\ kernel'.current = current /\ kernel'.i = kernel.i + 1
    <2>1. kernel' = [kernel EXCEPT !.i = kernel.i + 1, !.current = current]
      BY DEF KernelObserve, LastBlock, Rate
    <2> HIDE DEF current
    <2> QED BY <2>1, <1>1
  <1>4. InUse = kernel.current /\ InUse' = current
    BY <1>1, <1>3 DEF InUse
  <1>5. Available' = IF current = 0 THEN 8 ELSE 0
    BY <1>1, <1>3, <1>4 DEF Available, Rate
  <1>6. /\ input_buffer \in [1 .. 8 -> Element]
        /\ filled \in [1 .. 8 -> Element]
        /\ Append(Prefix(input_buffer, InUse), e) = Prefix(filled, kernel.current + 1)
        /\ Len(Append(Prefix(input_buffer, InUse), e)) = kernel.current + 1
    <2>1. input_buffer \in [1 .. 8 -> Element]
      BY DEF TypeOK, Rate
    <2>2. filled \in [1 .. 8 -> Element]
      BY <2>1, <1>1, <1>2
    <2> HIDE DEF e
    <2>3. Append(Prefix(input_buffer, kernel.current), e) = Prefix(filled, kernel.current + 1)
      BY <2>1, <1>1, <1>2, PrefixAppend
    <2>4. Len(Prefix(filled, kernel.current + 1)) = kernel.current + 1
      <3>1. kernel.current + 1 \in 0 .. 8
        BY <1>1
      <3> HIDE DEF filled
      <3> QED BY <2>2, <3>1, PrefixSeq
    <2> QED BY <2>1, <2>2, <2>3, <2>4, <1>4
  <1>7. Squeeze(sponge_state') \in [1 .. 8 -> Element]
    BY KernelObservePreserves, SpongeAssumption DEF TypeOK, Rate
  <1>8. challenge' = challenge
    BY DEF KernelObserve, LastBlock
  <1>9. CASE kernel.current = 7
    <2>1. current = 0
      BY <1>9
    <2>2. sponge_state' = Absorb(sponge_state, filled)
      BY <2>1 DEF KernelObserve, LastBlock, Rate
    <2>3. Append(Prefix(input_buffer, InUse), e) = filled
      <3>1. kernel.current + 1 = 8
        BY <1>9
      <3> HIDE DEF filled, e
      <3> QED BY <1>6, <3>1, PrefixWhole
    <2>4. Prefix(input_buffer', InUse') = <<>> /\ Prefix(Squeeze(sponge_state'), Available') = Squeeze(sponge_state')
      <3>1. Prefix(input_buffer', 0) = <<>>
        BY DEF Prefix
      <3> QED BY <3>1, <2>1, <1>4, <1>5, <1>7, PrefixWhole
    <2>5. Len(Append(Prefix(input_buffer, InUse), e)) = 8
      BY <1>6, <1>9
    <2> HIDE DEF filled, e
    <2>6. CPU!ObserveElement(e)
      BY <1>8, <2>2, <2>3, <2>4, <2>5 DEF CPU!ObserveElement, CPU!Rate
    <2> QED BY <2>6, <1>2 DEF e
  <1>10. CASE kernel.current # 7
    <2>1. current = kernel.current + 1 /\ current # 0
      BY <1>1, <1>10
    <2>2. sponge_state' = sponge_state /\ input_buffer' = filled
      BY <2>1 DEF KernelObserve, LastBlock, Rate
    <2>3. Prefix(input_buffer', InUse') = Append(Prefix(input_buffer, InUse), e)
      BY <1>4, <1>6, <2>1, <2>2
    <2>4. Prefix(Squeeze(sponge_state'), Available') = <<>>
      BY <1>5, <2>1 DEF Prefix
    <2>5. Len(Append(Prefix(input_buffer, InUse), e)) # 8
      BY <1>1, <1>6, <1>10
    <2> HIDE DEF filled, e
    <2>6. CPU!ObserveElement(e)
      BY <1>8, <2>2, <2>3, <2>4, <2>5 DEF CPU!ObserveElement, CPU!Rate
    <2> QED BY <2>6, <1>2 DEF e
  <1> QED BY <1>9, <1>10

\* One challenge of the get kernel is get_challenge.
LEMMA KernelGetRefines ==
  ASSUME TypeOK, ChallengerInv, KernelGet
  PROVE  CPU!GetChallenge
  <1> DEFINE duplex == \/ kernel.i = 0 /\ kernel.in # 0
                       \/ kernel.current = 0
             current == IF duplex THEN 8 ELSE kernel.current
             inputs == Prefix(input_buffer, InUse)
             outputs == Prefix(Squeeze(sponge_state), Available)
  <1>1. /\ kernel.op = "get" /\ kernel.i \in Nat
        /\ kernel.in \in 0 .. 7 /\ kernel.current \in 0 .. 8 /\ current \in 1 .. 8
        /\ kernel'.op = "get" /\ kernel'.i = kernel.i + 1
        /\ kernel'.current = (current + 7) % 8
        /\ sponge_state' \in Sponge
        /\ challenge' = output_buffer'[current]
        /\ \A j \in 1 .. current : output_buffer'[j] = Squeeze(sponge_state')[j]
    BY KernelGetFacts
  <1>2. InUse \in 0 .. 7 /\ Available \in 0 .. 8
    BY IndexRanges
  <1>3. Squeeze(sponge_state) \in [1 .. 8 -> Element] /\ Squeeze(sponge_state') \in [1 .. 8 -> Element]
    BY <1>1, SpongeAssumption DEF TypeOK, Rate
  <1>4. input_buffer \in [1 .. 8 -> Element]
    BY DEF TypeOK, Rate
  <1>5. InUse' = 0 /\ Available' = current - 1
    BY <1>1 DEF InUse, Available
  <1>6. duplex <=> inputs # <<>> \/ outputs = <<>>
    <2>1. (inputs # <<>> <=> InUse # 0) /\ (outputs = <<>> <=> Available = 0)
      <3>1. InUse \in 0 .. 8
        BY <1>2
      <3> QED BY <1>2, <1>3, <1>4, <3>1, PrefixSeq
    <2> QED BY <2>1, <1>1 DEF InUse, Available
  <1>7. sponge_state' = IF duplex THEN Absorb(sponge_state, inputs) ELSE sponge_state
    <2>1. inputs = IF kernel.i = 0 THEN Prefix(input_buffer, kernel.in) ELSE <<>>
      BY <1>1 DEF InUse, Prefix
    <2> QED BY <2>1 DEF KernelGet, PendingInput
  <1> DEFINE given == IF duplex THEN Squeeze(sponge_state') ELSE outputs
  <1>8. given = Prefix(Squeeze(sponge_state'), current)
    <2>1. CASE duplex
      BY <2>1, <1>3, PrefixWhole
    <2>2. CASE ~ duplex
      <3>1. Available = kernel.current /\ current = kernel.current /\ sponge_state' = sponge_state
        BY <2>2, <1>1, <1>7 DEF Available, InUse
      <3> QED BY <2>2, <3>1
    <2> QED BY <2>1, <2>2
  <1> HIDE DEF given, current, duplex
  <1>9. given \in Seq(Element) /\ Len(given) = current
    <2>1. current \in 0 .. 8
      BY <1>1
    <2> QED BY <2>1, <1>3, <1>8, PrefixSeq
  <1>10. challenge' = given[Len(given)]
    <2>1. given[current] = Squeeze(sponge_state')[current]
      BY <1>1, <1>8 DEF Prefix
    <2> QED BY <2>1, <1>1, <1>9
  <1>11. SubSeq(given, 1, Len(given) - 1) = Prefix(Squeeze(sponge_state'), Available')
    <2>1. SubSeq(given, 1, current - 1) = [j \in 1 .. current - 1 |-> given[j]]
      BY <1>1, <1>9
    <2>2. [j \in 1 .. current - 1 |-> given[j]] = [j \in 1 .. current - 1 |-> Squeeze(sponge_state')[j]]
      BY <1>1, <1>8 DEF Prefix
    <2> QED BY <2>1, <2>2, <1>5, <1>9 DEF Prefix
  <1>12. Prefix(input_buffer', InUse') = <<>>
    BY <1>5 DEF Prefix
  <1> HIDE DEF inputs, outputs
  <1>13. given = IF inputs # <<>> \/ outputs = <<>> THEN Squeeze(sponge_state') ELSE outputs
    BY <1>6 DEF given
  <1>14. sponge_state' = IF inputs # <<>> \/ outputs = <<>> THEN Absorb(sponge_state, inputs) ELSE sponge_state
    BY <1>6, <1>7
  <1> QED BY <1>10, <1>11, <1>12, <1>13, <1>14 DEF CPU!GetChallenge, inputs, outputs

\* Launches and retirements are invisible to the CPU's challenger.
LEMMA HostStepStutters ==
  ASSUME TypeOK, ChallengerInv,
         \/ \E message \in Messages, len \in BufferLens : LaunchObserve(message, len)
         \/ \E n \in Counts : LaunchGet(n)
         \/ Retire
         \/ UNCHANGED gvars
  PROVE  UNCHANGED CPU!cvars
  <1>1. /\ UNCHANGED <<sponge_state, input_buffer, challenge>>
        /\ InUse' = InUse /\ Available' = Available
    <2>1. CASE \E message \in Messages, len \in BufferLens : LaunchObserve(message, len)
      BY <2>1 DEF LaunchObserve, device, InUse, Available, Idle
    <2>2. CASE \E n \in Counts : LaunchGet(n)
      BY <2>2 DEF LaunchGet, device, InUse, Available, Idle
    <2>3. CASE Retire
      BY <2>3, RetirePreserves DEF Retire, device
    <2>4. CASE UNCHANGED gvars
      BY <2>4 DEF gvars, device, InUse, Available
    <2> QED BY <2>1, <2>2, <2>3, <2>4
  <1> QED BY <1>1 DEF CPU!cvars, Prefix

\* The GPU challenger implements the challenger of iop/challenger.rs: whatever
\* the permutation, messages and challenges come out as on the CPU.
THEOREM Refinement == Spec => ImplementsChallenger
  <1>1. New => CPU!New
    <2> SUFFICES ASSUME New PROVE CPU!New
      OBVIOUS
    <2>1. InUse = 0 /\ Available = 0
      BY DEF New, Idle, InUse, Available
    <2> QED BY <2>1 DEF New, CPU!New, Prefix
  <1>2. TypeOK /\ ChallengerInv /\ [Transcribe]_gvars => [CPU!Transcribe]_(CPU!cvars)
    <2> SUFFICES ASSUME TypeOK, ChallengerInv, [Transcribe]_gvars
                 PROVE  CPU!Transcribe \/ UNCHANGED CPU!cvars
      OBVIOUS
    <2>1. CASE KernelObserve
      BY <2>1, KernelObserveRefines DEF CPU!Transcribe
    <2>2. CASE KernelGet
      BY <2>2, KernelGetRefines DEF CPU!Transcribe
    <2>3. CASE ~ KernelObserve /\ ~ KernelGet
      BY <2>3, HostStepStutters DEF Transcribe
    <2> QED BY <2>1, <2>2, <2>3
  <1> QED BY <1>1, <1>2, ChallengerInvariant, PTL DEF Spec, ImplementsChallenger, CPU!Spec
=============================================================================
