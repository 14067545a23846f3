------------------------------- MODULE SimProofs -------------------------------
(* The breakpoints and the listings of the simulated backends, for every     *)
(* width of addresses, any number of breakpoints and any length of listings. *)
EXTENDS SimBackends, SequenceTheorems, NaturalsInduction, WellFoundedInduction, TLAPS

(* The invariant: the ids given out so far are those below the next one, so  *)
(* that the next one is new, and what is set has been given.                 *)
Counted ==
  /\ bpNext \in Nat \ {0}
  /\ DOMAIN given = 1..(bpNext - 1)
  /\ DOMAIN breakpoints \subseteq DOMAIN given

NamesInv == Counted /\ NamesAreLasting

LEMMA InitNames == Init => NamesInv
  BY DEF Init, NamesInv, Counted, NamesAreLasting

(* bpSet: the id is none that was given before.                              *)
LEMMA SetNames ==
  ASSUME NamesInv, NEW a, BpSet(a)
  PROVE  NamesInv'
  <1>1. /\ bpNext \in Nat \ {0} /\ bpNext' = bpNext + 1
        /\ DOMAIN given = 1..(bpNext - 1) /\ DOMAIN breakpoints \subseteq DOMAIN given
        /\ bpNext \notin DOMAIN given
    BY DEF NamesInv, Counted, BpSet
  <1>2. /\ DOMAIN given' = DOMAIN given \union {bpNext}
        /\ \A id \in DOMAIN given : given'[id] = given[id]
        /\ given'[bpNext] = a
    BY <1>1 DEF BpSet, NewId
  <1>3. /\ DOMAIN breakpoints' = DOMAIN breakpoints \union {bpNext}
        /\ \A id \in DOMAIN breakpoints : breakpoints'[id] = breakpoints[id]
        /\ breakpoints'[bpNext] = a
    BY <1>1 DEF BpSet, NewId, With
  <1>4. DOMAIN given' = 1..(bpNext' - 1)
    BY <1>1, <1>2
  <1>5. Counted'
    BY <1>1, <1>2, <1>3, <1>4 DEF Counted
  <1>6. NamesAreLasting'
    BY <1>1, <1>2, <1>3 DEF NamesInv, NamesAreLasting
  <1>7. QED
    BY <1>5, <1>6 DEF NamesInv

(* bpClear takes away, and changes none of the others.                       *)
LEMMA ClearNames ==
  ASSUME NamesInv, UNCHANGED <<bpNext, given>>,
         DOMAIN breakpoints' \subseteq DOMAIN breakpoints,
         \A id \in DOMAIN breakpoints' : breakpoints'[id] = breakpoints[id]
  PROVE  NamesInv'
  BY DEF NamesInv, Counted, NamesAreLasting

LEMMA NextNames == NamesInv /\ [Next]_vars => NamesInv'
  <1> SUFFICES ASSUME NamesInv, [Next]_vars PROVE NamesInv'
    OBVIOUS
  <1>1. CASE UNCHANGED <<bpNext, breakpoints, given>>
    BY <1>1, ClearNames
  <1>2. ASSUME NEW a, BpSet(a) PROVE NamesInv'
    BY <1>2, SetNames
  <1>3. ASSUME NEW id, BpClear(id) PROVE NamesInv'
    <2>1. /\ UNCHANGED <<bpNext, given>>
          /\ breakpoints' = [x \in DOMAIN breakpoints \ {id} |-> breakpoints[x]]
      BY <1>3 DEF BpClear, Without
    <2>2. QED
      BY <2>1, ClearNames
  <1>4. CASE BpClearAll
    <2>1. UNCHANGED <<bpNext, given>> /\ DOMAIN breakpoints' = {}
      BY <1>4 DEF BpClearAll
    <2>2. QED
      BY <2>1, ClearNames
  <1>5. CASE UNCHANGED vars
    BY <1>1, <1>5 DEF vars, points
  <1>6. QED
    BY <1>1, <1>2, <1>3, <1>4, <1>5
       DEF Next, Attach, DetachOrKill, Launch, Move, SetReg, WpSet, WpClear, points

(* An id names one breakpoint for ever, whatever is set, cleared, killed and *)
(* launched in between (main.rs:224-258 of dbgeng, and its copies).          *)
THEOREM NamesLast == Spec => []NamesAreLasting
  <1>1. Spec => []NamesInv
    BY InitNames, NextNames, PTL DEF Spec
  <1>2. NamesInv => NamesAreLasting
    BY DEF NamesInv
  <1>3. QED
    BY <1>1, <1>2, PTL

-------------------------------------------------------------------------------
(* Types: a program counter stays an address, whatever is added to it.       *)

(* Addition that wraps around stays among the addresses (wrapping_add).      *)
LEMMA Wraps ==
  ASSUME NEW n \in Nat
  PROVE  n % Word \in Address
  <1>1. Word \in Nat \ {0}
    BY SimAssumption
  <1>2. n % Word \in 0..(Word - 1)
    BY <1>1
  <1>3. QED
    BY <1>2 DEF Address

LEMMA InitTypes == Init => TypeOK
  <1> SUFFICES ASSUME Init PROVE TypeOK
    OBVIOUS
  <1>1. Word \in Nat \ {0} /\ Anchor \in Address /\ 0 \in Address
    BY SimAssumption DEF Address
  <1>2. pc \in Address
    BY <1>1, Wraps DEF Init, FirstPc
  <1>3. QED
    BY <1>1, <1>2, SimAssumption DEF Init, TypeOK

LEMMA NextTypes == TypeOK /\ [Next]_vars => TypeOK'
  <1> SUFFICES ASSUME TypeOK, [Next]_vars PROVE TypeOK'
    OBVIOUS
  <1> USE DEF session, points
  <1>1. CASE \/ Attach(1) \/ DetachOrKill \/ UNCHANGED vars
             \/ \E a \in {"riscv64", "arm64"} : Launch("target", a)
    BY <1>1 DEF TypeOK, Attach, DetachOrKill, Launch, vars
  <1>2. ASSUME NEW m \in {"go", "stepInto", "stepOver", "stepOut"}, Move(m) PROVE TypeOK'
    <2>0. kind \in {"dbgeng", "lldb", "gdbremote", "frida"} /\ pc \in Nat
      BY SimAssumption DEF TypeOK, Address
    <2>1. Steps[m] \in Nat
      <3>1. /\ DbgengSteps[m] \in Nat /\ LldbSteps[m] \in Nat
            /\ GdbremoteSteps[m] \in Nat /\ FridaSteps[m] \in Nat
        BY DEF DbgengSteps, LldbSteps, GdbremoteSteps, FridaSteps
      <3>2. QED
        BY <2>0, <3>1 DEF Steps
    <2>2. pc' \in Address
      BY <1>2, <2>0, <2>1, Wraps DEF Move, Wrapped
    <2>3. QED
      BY <1>2, <2>2 DEF TypeOK, Move
  <1>3. ASSUME NEW v \in SetValues, SetReg(v) PROVE TypeOK'
    BY <1>3, SimAssumption DEF TypeOK, SetReg, Address
  <1>4. ASSUME NEW a, BpSet(a) PROVE TypeOK'
    <2>1. /\ DOMAIN given' = DOMAIN given \union {bpNext}
          /\ DOMAIN breakpoints' = DOMAIN breakpoints \union {bpNext}
          /\ bpNext' = bpNext + 1 /\ bpNext <= MaxBps
          /\ UNCHANGED <<kind, attachedPid, launchedPath, arch, pc, sp, wpNext, watchpoints>>
      BY <1>4 DEF BpSet, NewId, With
    <2>2. bpNext' \in 1..(MaxBps + 1) /\ DOMAIN given' = 1..(bpNext' - 1)
      BY <2>1, SimAssumption DEF TypeOK
    <2>3. QED
      BY <2>1, <2>2 DEF TypeOK
  <1>5. ASSUME NEW a, WpSet(a) PROVE TypeOK'
    <2>1. /\ DOMAIN watchpoints' = DOMAIN watchpoints \union {wpNext}
          /\ wpNext' = wpNext + 1 /\ wpNext <= MaxWps
          /\ UNCHANGED <<kind, attachedPid, launchedPath, arch, pc, sp, bpNext, breakpoints, given>>
      BY <1>5 DEF WpSet, With
    <2>2. wpNext' \in 1..(MaxWps + 1) /\ DOMAIN watchpoints' \subseteq 1..(wpNext' - 1)
      BY <2>1, SimAssumption DEF TypeOK
    <2>3. QED
      BY <2>1, <2>2 DEF TypeOK
  <1>6. ASSUME NEW id, BpClear(id) \/ WpClear(id) PROVE TypeOK'
    <2>1. /\ DOMAIN breakpoints' \subseteq DOMAIN breakpoints
          /\ DOMAIN watchpoints' \subseteq DOMAIN watchpoints
          /\ UNCHANGED <<kind, attachedPid, launchedPath, arch, pc, sp, bpNext, wpNext, given>>
      BY <1>6 DEF BpClear, WpClear, Without
    <2>2. QED
      BY <2>1 DEF TypeOK
  <1>7. CASE BpClearAll
    <2>1. /\ DOMAIN breakpoints' = {}
          /\ UNCHANGED <<kind, attachedPid, launchedPath, arch, pc, sp, bpNext, wpNext, given,
                         watchpoints>>
      BY <1>7 DEF BpClearAll
    <2>2. QED
      BY <2>1 DEF TypeOK
  <1>8. QED
    BY <1>1, <1>2, <1>3, <1>4, <1>5, <1>6, <1>7 DEF Next

(* Registers stay addresses, and every id that is in use was counted.        *)
THEOREM TypeCorrect == Spec => []TypeOK
  BY InitTypes, NextTypes, PTL DEF Spec

-------------------------------------------------------------------------------
(* Listings.  The addresses of a listing are a recursive function; that they *)
(* exist, and what holds of all of them, is counted up line by line.         *)

(* What holds of 1 and goes on from each number to the next holds up to n.   *)
LEMMA CountUp ==
  ASSUME NEW n \in Nat, NEW S, 1 \in S,
         \A i \in 1..n : i \in S /\ i < n => i + 1 \in S
  PROVE  1..n \subseteq S
  <1> DEFINE R == OpToRel(<, Nat)
             T == {i \in 1..n : i \notin S}
  <1>1. \A x, y \in Nat : y < x => <<y, x>> \in R
    BY DEF OpToRel
  <1>2. IsWellFoundedOn(R, Nat)
    BY NatLessThanWellFounded
  <1> HIDE DEF R
  <1>3. SUFFICES ASSUME T # {} PROVE FALSE
    OBVIOUS
  <1>4. T \subseteq Nat
    OBVIOUS
  <1>5. PICK x \in T : \A y \in T : ~(<<y, x>> \in R)
    BY <1>2, <1>3, <1>4, WFMin
  <1>6. x \in 1..n /\ x \notin S /\ x # 1
    BY <1>5
  <1>7. x - 1 \in 1..n /\ x - 1 < n /\ (x - 1) + 1 = x
    BY <1>6
  <1>8. x - 1 \notin S
    BY <1>6, <1>7
  <1>9. <<x - 1, x>> \in R
    BY <1>1, <1>6, <1>7
  <1>10. x - 1 \in T
    BY <1>7, <1>8
  <1>11. QED
    BY <1>5, <1>9, <1>10

(* Remainders of what is below the width, up to twice it, or just negative.  *)
LEMMA ModSmall ==
  ASSUME NEW n \in Nat, NEW w \in Nat, w > 0
  PROVE  /\ n < w => n % w = n
         /\ w <= n /\ n < 2 * w => n % w = n - w
  OBVIOUS

LEMMA ModBelow ==
  ASSUME NEW n \in Int, NEW w \in Nat, 0 - w <= n, n < 0
  PROVE  n % w = n + w
  OBVIOUS

(* The equation that the addresses of a dbgeng listing are defined by.       *)
AddrBody(f, start, first) ==
  [i \in 1..Count |->
     IF i = 1 THEN start % Word
              ELSE (f[i - 1] + Sizes[InsnFrom(first, i - 1)]) % Word]

LEMMA AddrsDef ==
  ASSUME NEW start, NEW first, NEW g, g = AddrBody(g, start, first)
  PROVE  AddrsFrom(start, first) = AddrBody(AddrsFrom(start, first), start, first)
  BY DEF AddrsFrom, AddrBody

(* The addresses exist: a line's is found from the one before it.            *)
LEMMA AddrsExist ==
  ASSUME NEW start, NEW first
  PROVE  AddrsFrom(start, first) = AddrBody(AddrsFrom(start, first), start, first)
  <1> DEFINE Body(f, n) ==
               [i \in 1..n |->
                  IF i = 1 THEN start % Word
                           ELSE (f[i - 1] + Sizes[InsnFrom(first, i - 1)]) % Word]
             S == {n \in 1..Count : \E f : f = Body(f, n)}
  <1>0. Count \in Nat \ {0}
    BY SimAssumption
  <1>1. 1 \in S
    <2> DEFINE g == [i \in 1..1 |-> start % Word]
    <2>1. g = Body(g, 1)
      OBVIOUS
    <2>2. \E f : f = Body(f, 1)
      BY <2>1
    <2>3. QED
      BY <1>0, <2>2
  <1>2. ASSUME NEW n \in 1..Count, n \in S, n < Count PROVE n + 1 \in S
    <2>1. PICK f : f = Body(f, n)
      BY <1>2
    <2> DEFINE g == Body(f, n + 1)
    <2>2. \A i \in 1..n : f[i] = g[i]
      <3>1. ASSUME NEW i \in 1..n PROVE f[i] = g[i]
        <4>1. f[i] = Body(f, n)[i]
          BY <2>1
        <4>2. Body(f, n)[i] = Body(f, n + 1)[i]
          BY <1>0
        <4>3. QED
          BY <4>1, <4>2
      <3>2. QED
        BY <3>1
    <2>3. g = Body(g, n + 1)
      <3>1. ASSUME NEW i \in 1..(n + 1) PROVE Body(f, n + 1)[i] = Body(g, n + 1)[i]
        <4>1. i # 1 => i - 1 \in 1..n
          BY <1>0
        <4>2. i # 1 => f[i - 1] = g[i - 1]
          BY <2>2, <4>1
        <4> HIDE DEF g
        <4>3. QED
          BY <4>2
      <3>2. Body(f, n + 1) = Body(g, n + 1)
        <4> HIDE DEF g
        <4>1. QED
          BY <3>1
      <3>3. QED
        BY <3>2
    <2>4. \E h : h = Body(h, n + 1)
      <3> HIDE DEF g
      <3>1. QED
        BY <2>3
    <2> HIDE DEF Body
    <2>5. QED
      BY <1>0, <1>2, <2>4
  <1>3. 1..Count \subseteq S
    <2> HIDE DEF S
    <2>1. QED
      BY <1>0, <1>1, <1>2, CountUp
  <1>4. PICK f : f = Body(f, Count)
    BY <1>0, <1>3
  <1>5. f = AddrBody(f, start, first)
    BY <1>4 DEF AddrBody
  <1>6. QED
    BY <1>5, AddrsDef

(* The table: each instruction begins where the one before it ends, and the  *)
(* last ends with the cycle.                                                 *)
LEMMA Table ==
  /\ DOMAIN Offsets = 1..16 /\ DOMAIN Sizes = 1..16
  /\ \A j \in 1..16 : Offsets[j] \in 0..57 /\ Sizes[j] \in 1..7 /\ Offsets[j] + Sizes[j] \in 1..58
  /\ \A j \in 1..15 : Offsets[j + 1] = Offsets[j] + Sizes[j]
  /\ Offsets[1] = 0 /\ Offsets[16] + Sizes[16] = 58
  <1>1. DOMAIN Offsets = 1..16 /\ DOMAIN Sizes = 1..16
    BY DEF Offsets, Sizes
  <1>2. \A j \in 1..16 : Offsets[j] \in 0..57 /\ Sizes[j] \in 1..7 /\ Offsets[j] + Sizes[j] \in 1..58
    BY DEF Offsets, Sizes
  <1>3. \A j \in 1..15 : Offsets[j + 1] = Offsets[j] + Sizes[j]
    BY DEF Offsets, Sizes
  <1>4. Offsets[1] = 0 /\ Offsets[16] + Sizes[16] = 58
    BY DEF Offsets, Sizes
  <1>5. QED
    BY <1>1, <1>2, <1>3, <1>4

(* One instruction of the table.                                             *)
LEMMA Entry ==
  ASSUME NEW j \in 1..16
  PROVE  /\ j \in Nat /\ Offsets[j] \in Nat /\ Sizes[j] \in Nat
         /\ Offsets[j] \in 0..57 /\ 1 <= Sizes[j] /\ Sizes[j] <= 7
         /\ j # 16 => j + 1 \in 1..16 /\ Offsets[j + 1] = Offsets[j] + Sizes[j]
         /\ j = 16 => Offsets[j] + Sizes[j] = 58
  BY Table

LEMMA Ascending ==
  ASSUME NEW i \in 1..16, NEW j \in 1..16
  PROVE  i < j => Offsets[i] < Offsets[j]
  BY DEF Offsets

(* Every byte of the cycle belongs to an instruction ...                     *)
LEMMA Covered ==
  ASSUME NEW r \in 0..57
  PROVE  \E j \in 1..16 : Offsets[j] <= r /\ r < Offsets[j] + Sizes[j]
  BY DEF Offsets, Sizes

(* ... and it is that which find_instr_offset finds.                         *)
LEMMA InstrFound ==
  ASSUME NEW r \in 0..57, NEW j \in 1..16, Offsets[j] <= r, r < Offsets[j] + Sizes[j]
  PROVE  InstrOf(r) = j
  <1> DEFINE S == {i \in DOMAIN Offsets : Offsets[i] <= r}
  <1>1. j \in S
    BY Table
  <1>2. ASSUME NEW i \in S PROVE i <= j
    <2>1. i \in 1..16 /\ Offsets[i] <= r
      BY Table
    <2>2. /\ i \in Nat /\ j \in Nat /\ Offsets[i] \in Nat /\ Offsets[j] \in Nat /\ Sizes[j] \in Nat
          /\ j # 16 => j + 1 \in 1..16 /\ Offsets[j + 1] = Offsets[j] + Sizes[j]
      BY <2>1, Entry
    <2>3. j # 16 /\ j + 1 < i => Offsets[j + 1] < Offsets[i]
      BY <2>1, <2>2, Ascending
    <2>4. j < i => j # 16
      BY <2>1
    <2>5. CASE i = j + 1
      <3>1. Offsets[i] = Offsets[j] + Sizes[j]
        BY <2>2, <2>4, <2>5
      <3>2. QED
        BY <2>1, <2>2, <3>1
    <2>6. CASE j + 1 < i
      <3>1. Offsets[j] + Sizes[j] < Offsets[i]
        BY <2>2, <2>3, <2>4, <2>6
      <3>2. QED
        BY <2>1, <2>2, <3>1
    <2>7. QED
      BY <2>2, <2>5, <2>6
  <1>3. S \subseteq Int
    BY Table
  <1> HIDE DEF S
  <1>4. Max(S) = j
    <2>1. j \in Int
      OBVIOUS
    <2>2. j \in S /\ \A y \in S : j >= y
      BY <1>1, <1>2, <1>3
    <2>3. \A x \in S : (\A y \in S : x >= y) => x = j
      BY <1>3, <2>1, <2>2
    <2>4. QED
      BY <2>2, <2>3 DEF Max
  <1>5. QED
    BY <1>4 DEF S, InstrOf

(* The place in the cycle, before and behind the anchor.                     *)
LEMMA RelIs ==
  ASSUME NEW x \in Nat
  PROVE  Rel(x) \in 0..57 /\ \E q \in Int : x - Anchor = 58 * q + Rel(x)
  <1>0. Anchor \in Nat
    BY SimAssumption
  <1>1. CASE x >= Anchor
    <2>1. Rel(x) = (x - Anchor) % 58
      BY <1>1 DEF Rel, CycleLen
    <2>2. x - Anchor = 58 * ((x - Anchor) \div 58) + ((x - Anchor) % 58) /\ (x - Anchor) \div 58 \in Int
      BY <1>0, <1>1
    <2>3. x - Anchor = 58 * ((x - Anchor) \div 58) + Rel(x)
      BY <2>1, <2>2
    <2>4. (x - Anchor) % 58 \in 0..57
      BY <1>0, <1>1
    <2>5. QED
      BY <2>1, <2>2, <2>3, <2>4
  <1>2. CASE ~(x >= Anchor)
    <2>0. Anchor - x \in Nat
      BY <1>0, <1>2
    <2>1. PICK d \in Int, m \in 0..57 : Anchor - x = 58 * d + m /\ m = (Anchor - x) % 58
      <3>1. /\ Anchor - x = 58 * ((Anchor - x) \div 58) + ((Anchor - x) % 58)
            /\ (Anchor - x) \div 58 \in Int /\ (Anchor - x) % 58 \in 0..57
        BY <2>0
      <3>2. QED
        BY <3>1
    <2>2. Rel(x) = IF m = 0 THEN 0 ELSE 58 - m
      BY <1>2, <2>1 DEF Rel, CycleLen
    <2>3. CASE m = 0
      <3>1. x - Anchor = 58 * (0 - d) + Rel(x) /\ 0 - d \in Int
        BY <1>0, <2>1, <2>2, <2>3
      <3>2. QED
        BY <2>2, <2>3, <3>1
    <2>4. CASE m # 0
      <3>1. Rel(x) = 58 - m /\ Rel(x) \in 0..57
        BY <2>1, <2>2, <2>4
      <3>2. x - Anchor = (0 - 58 * d) - m
        BY <1>0, <2>1
      <3>3. PICK q \in Int : q = (0 - d) - 1
        BY <2>1
      <3>4. x - Anchor = 58 * q + Rel(x)
        BY <2>1, <3>1, <3>2, <3>3
      <3>5. QED
        BY <3>1, <3>4
    <2>5. QED
      BY <2>3, <2>4
  <1>3. QED
    BY <1>1, <1>2

LEMMA RelOnly ==
  ASSUME NEW x \in Nat, NEW q \in Int, NEW r \in 0..57, x - Anchor = 58 * q + r
  PROVE  Rel(x) = r
  <1>0. Anchor \in Nat
    BY SimAssumption
  <1>1. PICK p \in Int : x - Anchor = 58 * p + Rel(x)
    BY RelIs
  <1>2. Rel(x) \in 0..57
    BY RelIs
  <1>3. QED
    BY <1>0, <1>1, <1>2

(* From one instruction of the cycle to the next.                            *)
LEMMA RelNext ==
  ASSUME NEW x \in Nat, NEW j \in 1..16, Rel(x) = Offsets[j]
  PROVE  Rel(x + Sizes[j]) = Offsets[(j % 16) + 1]
  <1>0. Anchor \in Nat
    BY SimAssumption
  <1>1. PICK q \in Int : x - Anchor = 58 * q + Offsets[j]
    BY RelIs
  <1>2. PICK o \in 0..57, z \in Nat : o = Offsets[j] /\ z = Sizes[j]
    BY Entry
  <1>3. PICK y \in Nat : y = x + z
    OBVIOUS
  <1>4. y - Anchor = 58 * q + (o + z)
    BY <1>0, <1>1, <1>2, <1>3
  <1>5. CASE j = 16
    <2>1. o + z = 58
      BY <1>2, <1>5, Entry
    <2>2. PICK p \in Int : p = q + 1
      OBVIOUS
    <2>3. y - Anchor = 58 * p + 0
      BY <1>0, <1>4, <2>1, <2>2
    <2>4. \A r \in 0..57 : y - Anchor = 58 * p + r => Rel(y) = r
      BY RelOnly
    <2>5. Rel(y) = 0
      BY <2>3, <2>4
    <2>6. (j % 16) + 1 = 1
      BY <1>5
    <2>7. Offsets[1] = 0
      BY Table
    <2>8. QED
      BY <1>2, <1>3, <2>5, <2>6, <2>7
  <1>6. CASE j # 16
    <2>1. (j % 16) + 1 = j + 1 /\ j + 1 \in 1..16
      BY <1>6
    <2>2. PICK r \in 0..57 : r = Offsets[j + 1]
      BY <2>1, Entry
    <2>3. r = o + z
      BY <1>2, <1>6, <2>2, Entry
    <2>4. y - Anchor = 58 * q + r
      BY <1>4, <2>3
    <2>5. Rel(y) = r
      BY <2>4, RelOnly
    <2>6. QED
      BY <1>2, <1>3, <2>1, <2>2, <2>5
  <1>7. QED
    BY <1>5, <1>6

(* The instructions of a listing, one after the other.                       *)
LEMMA InsnIs ==
  ASSUME NEW first \in 1..16, NEW i \in Nat \ {0}
  PROVE  /\ InsnFrom(first, i) \in 1..16
         /\ InsnFrom(first, i + 1) = (InsnFrom(first, i) % 16) + 1
         /\ InsnFrom(first, 1) = first
  <1>1. PICK n \in Nat : n = first + i - 2
    OBVIOUS
  <1>2. InsnFrom(first, i) = (n % 16) + 1
    BY <1>1 DEF InsnFrom
  <1>3. first + (i + 1) - 2 = n + 1
    BY <1>1
  <1>4. InsnFrom(first, i + 1) = ((n + 1) % 16) + 1
    BY <1>3 DEF InsnFrom
  <1>5. InsnFrom(first, 1) = first
    <2>1. first + 1 - 2 = first - 1 /\ (first - 1) % 16 = first - 1
      OBVIOUS
    <2>2. QED
      BY <2>1 DEF InsnFrom
  <1>6. ((n % 16) + 1) \in 1..16
    OBVIOUS
  <1>7. ((n + 1) % 16) + 1 = (((n % 16) + 1) % 16) + 1
    OBVIOUS
  <1>8. QED
    BY <1>2, <1>4, <1>5, <1>6, <1>7

(* Counting on from the k-th instruction is counting on from the first.      *)
LEMMA InsnOn ==
  ASSUME NEW first \in 1..16, NEW k \in Nat \ {0}, NEW i \in Nat \ {0}
  PROVE  InsnFrom(InsnFrom(first, k), i) = InsnFrom(first, k + (i - 1))
  <1>1. PICK n \in Nat : n = first + k - 2
    OBVIOUS
  <1>2. InsnFrom(first, k) = (n % 16) + 1
    BY <1>1 DEF InsnFrom
  <1>3. PICK m \in Nat : m = i - 1
    OBVIOUS
  <1>4. ((n % 16) + 1) + i - 2 = (n % 16) + m
    BY <1>1, <1>3
  <1>5. InsnFrom(InsnFrom(first, k), i) = (((n % 16) + m) % 16) + 1
    BY <1>2, <1>4 DEF InsnFrom
  <1>6. first + (k + (i - 1)) - 2 = n + m
    BY <1>1, <1>3
  <1>7. InsnFrom(first, k + (i - 1)) = ((n + m) % 16) + 1
    BY <1>6 DEF InsnFrom
  <1>8. ((n % 16) + m) % 16 = (n + m) % 16
    OBVIOUS
  <1>9. QED
    BY <1>5, <1>7, <1>8

(* The addresses of a listing, one after the other.                          *)
LEMMA AddrsAre ==
  ASSUME NEW start \in Int, NEW first \in 1..16
  PROVE  /\ AddrsFrom(start, first)[1] = start % Word
         /\ \A i \in 1..Count :
              i < Count => AddrsFrom(start, first)[i + 1]
                             = (AddrsFrom(start, first)[i] + Sizes[InsnFrom(first, i)]) % Word
         /\ \A i \in 1..Count : AddrsFrom(start, first)[i] \in Address
  <1> DEFINE A == AddrsFrom(start, first)
  <1>0. Count \in Nat \ {0} /\ Word \in Nat \ {0}
    BY SimAssumption
  <1>1. \A i \in 1..Count :
          A[i] = IF i = 1 THEN start % Word ELSE (A[i - 1] + Sizes[InsnFrom(first, i - 1)]) % Word
    <2>1. A = AddrBody(A, start, first)
      BY AddrsExist
    <2> HIDE DEF A
    <2>2. QED
      BY <2>1 DEF AddrBody
  <1> HIDE DEF A
  <1>2. A[1] = start % Word /\ A[1] \in Address
    <2>1. A[1] = start % Word
      BY <1>0, <1>1
    <2>2. start % Word \in 0..(Word - 1)
      BY <1>0
    <2>3. QED
      BY <2>1, <2>2 DEF Address
  <1>3. ASSUME NEW i \in 1..Count, i < Count
        PROVE  A[i + 1] = (A[i] + Sizes[InsnFrom(first, i)]) % Word
    <2>1. i + 1 \in 1..Count /\ i + 1 # 1 /\ (i + 1) - 1 = i
      BY <1>0, <1>3
    <2>2. QED
      BY <1>1, <2>1
  <1>4. ASSUME NEW i \in 1..Count, A[i] \in Address, i < Count PROVE A[i + 1] \in Address
    <2>1. InsnFrom(first, i) \in 1..16 /\ Sizes[InsnFrom(first, i)] \in Nat
      <3>1. i \in Nat \ {0}
        BY <1>0
      <3>2. InsnFrom(first, i) \in 1..16
        BY <3>1, InsnIs
      <3>3. QED
        BY <3>2, Entry
    <2>2. PICK n \in Nat : n = A[i] + Sizes[InsnFrom(first, i)]
      BY <1>0, <1>4, <2>1 DEF Address
    <2>3. n % Word \in Address
      BY <1>0 DEF Address
    <2>4. A[i + 1] = (A[i] + Sizes[InsnFrom(first, i)]) % Word
      BY <1>3, <1>4
    <2>5. A[i + 1] = n % Word
      BY <2>2, <2>4
    <2>6. QED
      BY <2>3, <2>5
  <1>5. 1..Count \subseteq {i \in 1..Count : A[i] \in Address}
    <2> DEFINE S == {i \in 1..Count : A[i] \in Address}
    <2>1. 1 \in S
      BY <1>0, <1>2
    <2>2. \A i \in 1..Count : i \in S /\ i < Count => i + 1 \in S
      BY <1>0, <1>4
    <2> HIDE DEF S
    <2>3. 1..Count \subseteq S
      BY <1>0, <2>1, <2>2, CountUp
    <2>4. QED
      BY <2>3 DEF S
  <1>6. \A i \in 1..Count : A[i] \in Address
    BY <1>5
  <1>7. QED
    BY <1>2, <1>3, <1>6 DEF A

(* A listing that ends above its first line has not gone around: each line   *)
(* is where the one before it ends.                                          *)
LEMMA Climbs ==
  ASSUME NEW start \in Int, NEW first \in 1..16, NEW A, A = AddrsFrom(start, first),
         A[1] < A[Count]
  PROVE  \A i \in 1..Count :
           /\ i < Count => A[i + 1] = A[i] + Sizes[InsnFrom(first, i)]
           /\ A[i] >= A[1]
  <1> DEFINE Climbed(i) == \A k \in 1..Count :
                             k < i => /\ A[k + 1] = A[k] + Sizes[InsnFrom(first, k)]
                                      /\ A[k] >= A[1]
             Up(i) == A[i] >= A[1] /\ A[i] <= A[1] + 7 * (i - 1) /\ Climbed(i)
             Around(i) == A[i] <= A[1] + 7 * (i - 1) - Word
             S == {i \in 1..Count : Up(i) \/ Around(i)}
  <1>0. Count \in Nat \ {0} /\ Word \in Nat \ {0} /\ 7 * Count < Word
    BY SimAssumption
  <1>1. \A i \in 1..Count : A[i] \in Nat /\ A[i] < Word
    <2>1. ASSUME NEW i \in 1..Count PROVE A[i] \in Nat /\ A[i] < Word
      <3>1. A[i] \in Address
        BY AddrsAre
      <3>2. QED
        BY <1>0, <3>1 DEF Address
    <2>2. QED
      BY <2>1
  <1>2. 1 \in S
    BY <1>0, <1>1
  <1>3. ASSUME NEW i \in 1..Count, i \in S, i < Count PROVE i + 1 \in S
    <2>1. PICK z \in Nat : z = Sizes[InsnFrom(first, i)] /\ z <= 7
      <3>1. i \in Nat \ {0}
        BY <1>0
      <3>2. InsnFrom(first, i) \in 1..16
        BY <3>1, InsnIs
      <3>3. QED
        BY <3>2, Entry
    <2>2. A[i + 1] = (A[i] + Sizes[InsnFrom(first, i)]) % Word
      BY <1>3, AddrsAre
    <2>3. PICK x \in Nat, b \in Nat, n \in Nat :
            x = A[i] /\ b = A[1] /\ n = x + z /\ x < Word /\ b < Word
      BY <1>0, <1>1
    <2>4. A[i + 1] = n % Word
      BY <2>1, <2>2, <2>3
    <2>5. /\ n < Word => n % Word = n
          /\ Word <= n /\ n < 2 * Word => n % Word = n - Word
      BY <1>0, ModSmall
    <2>6. z < Word /\ i \in Nat /\ 7 * i < Word /\ i + 1 \in 1..Count
      BY <1>0, <1>3, <2>1
    <2>7. CASE Around(i)
      <3>1. n <= b + 7 * i - Word
        BY <1>0, <2>1, <2>3, <2>6, <2>7
      <3>2. n < Word
        BY <1>0, <2>3, <2>6, <3>1
      <3>3. A[i + 1] = n
        BY <2>4, <2>5, <3>2
      <3>4. Around(i + 1)
        BY <1>0, <2>3, <2>6, <3>1, <3>3
      <3>5. QED
        BY <2>6, <3>4
    <2>8. CASE Up(i)
      <3>1. x >= b /\ n <= b + 7 * i
        BY <1>0, <2>1, <2>3, <2>6, <2>8
      <3>2. CASE n < Word
        <4>1. A[i + 1] = n
          BY <2>4, <2>5, <3>2
        <4>2. A[i + 1] = A[i] + Sizes[InsnFrom(first, i)] /\ A[i] >= A[1]
          BY <2>1, <2>3, <3>1, <4>1
        <4>3. ASSUME NEW k \in 1..Count, k < i + 1
              PROVE  A[k + 1] = A[k] + Sizes[InsnFrom(first, k)] /\ A[k] >= A[1]
          <5>1. k < i \/ k = i
            BY <2>6, <4>3
          <5>2. CASE k = i
            BY <4>2, <5>2
          <5>3. CASE k < i
            BY <2>8, <5>3
          <5>4. QED
            BY <5>1, <5>2, <5>3
        <4>4. A[i + 1] >= A[1] /\ A[i + 1] <= A[1] + 7 * ((i + 1) - 1)
          BY <2>3, <2>6, <3>1, <4>1, <2>1
        <4>5. Up(i + 1)
          BY <4>3, <4>4
        <4>6. QED
          BY <2>6, <4>5
      <3>3. CASE Word <= n
        <4>1. A[i + 1] = n - Word
          BY <1>0, <2>3, <2>4, <2>5, <2>6, <3>3
        <4>2. Around(i + 1)
          BY <1>0, <2>3, <2>6, <3>1, <4>1
        <4>3. QED
          BY <2>6, <4>2
      <3>4. QED
        BY <1>0, <2>3, <3>2, <3>3
    <2>9. QED
      BY <1>3, <2>7, <2>8
  <1>4. 1..Count \subseteq S
    <2> HIDE DEF S
    <2>1. QED
      BY <1>0, <1>2, <1>3, CountUp
  <1>5. Count \in S
    BY <1>0, <1>4
  <1>6. ~Around(Count)
    <2>1. A[1] \in Nat /\ A[Count] \in Nat
      BY <1>0, <1>1
    <2>2. QED
      BY <1>0, <2>1
  <1>7. Up(Count)
    BY <1>5, <1>6
  <1>8. QED
    BY <1>0, <1>7

(* Every line of such a listing begins an instruction of the cycle.          *)
LEMMA OnTheCycle ==
  ASSUME NEW start \in Int, NEW first \in 1..16, NEW A, A = AddrsFrom(start, first),
         A[1] < A[Count], Rel(A[1]) = Offsets[first]
  PROVE  \A i \in 1..Count : Rel(A[i]) = Offsets[InsnFrom(first, i)]
  <1> DEFINE S == {i \in 1..Count : Rel(A[i]) = Offsets[InsnFrom(first, i)]}
  <1>0. Count \in Nat \ {0} /\ Word \in Nat \ {0}
    BY SimAssumption
  <1>1. 1 \in S
    BY <1>0, InsnIs
  <1>2. ASSUME NEW i \in 1..Count, i \in S, i < Count PROVE i + 1 \in S
    <2>1. i \in Nat \ {0} /\ i + 1 \in 1..Count
      BY <1>0, <1>2
    <2>2. PICK j \in 1..16 : j = InsnFrom(first, i) /\ InsnFrom(first, i + 1) = (j % 16) + 1
      BY <2>1, InsnIs
    <2>3. PICK x \in Nat : x = A[i]
      <3>1. A[i] \in Address
        BY AddrsAre
      <3>2. QED
        BY <1>0, <3>1 DEF Address
    <2>4. Rel(x) = Offsets[j]
      BY <1>2, <2>2, <2>3
    <2>5. Rel(x + Sizes[j]) = Offsets[(j % 16) + 1]
      BY <2>4, RelNext
    <2>6. A[i + 1] = A[i] + Sizes[InsnFrom(first, i)]
      BY <1>2, Climbs
    <2>7. Rel(A[i + 1]) = Offsets[InsnFrom(first, i + 1)]
      BY <2>2, <2>3, <2>5, <2>6
    <2>8. QED
      BY <2>1, <2>7
  <1>3. 1..Count \subseteq S
    <2> HIDE DEF S
    <2>1. QED
      BY <1>0, <1>1, <1>2, CountUp
  <1>4. QED
    BY <1>3

(* A listing from a line of another one goes on as that one does.            *)
LEMMA GoesOn ==
  ASSUME NEW start \in Int, NEW first \in 1..16, NEW k \in 1..Count
  PROVE  \A i \in 1..(Count + 1 - k) :
           AddrsFrom(AddrsFrom(start, first)[k], InsnFrom(first, k))[i]
             = AddrsFrom(start, first)[k + (i - 1)]
  <1> SUFFICES ASSUME NEW A, A = AddrsFrom(start, first),
                      NEW B, B = AddrsFrom(A[k], InsnFrom(first, k))
               PROVE  \A i \in 1..(Count + 1 - k) : B[i] = A[k + (i - 1)]
    OBVIOUS
  <1> DEFINE n == Count + 1 - k
             S == {i \in 1..n : B[i] = A[k + (i - 1)]}
             f == InsnFrom(first, k)
  <1>0. Count \in Nat \ {0} /\ Word \in Nat \ {0} /\ n \in Nat /\ n >= 1 /\ n <= Count
    BY SimAssumption
  <1>1. f \in 1..16 /\ k \in Nat \ {0}
    <2>1. k \in Nat \ {0}
      BY <1>0
    <2>2. QED
      BY <2>1, InsnIs
  <1>2. A[k] \in Address
    BY AddrsAre
  <1>3. A[k] \in Nat /\ A[k] < Word
    BY <1>0, <1>2 DEF Address
  <1>4. A[k] \in Int
    BY <1>3
  <1> HIDE DEF f
  <1>5. /\ B[1] = A[k] % Word
        /\ \A i \in 1..Count : i < Count => B[i + 1] = (B[i] + Sizes[InsnFrom(f, i)]) % Word
    BY <1>1, <1>4, AddrsAre DEF f
  <1>6. 1 \in S
    <2>1. A[k] % Word = A[k]
      BY <1>0, <1>3, ModSmall
    <2>2. k + (1 - 1) = k
      BY <1>1
    <2>3. QED
      BY <1>0, <1>5, <2>1, <2>2
  <1>7. ASSUME NEW i \in 1..n, i \in S, i < n PROVE i + 1 \in S
    <2>1. /\ i \in 1..Count /\ i < Count /\ i + 1 \in 1..n /\ i \in Nat \ {0}
          /\ k + (i - 1) \in 1..Count /\ k + (i - 1) < Count
          /\ k + ((i + 1) - 1) = (k + (i - 1)) + 1
      BY <1>0, <1>1, <1>7
    <2>2. InsnFrom(f, i) = InsnFrom(first, k + (i - 1))
      BY <1>1, <2>1, InsnOn DEF f
    <2>3. B[i + 1] = (B[i] + Sizes[InsnFrom(f, i)]) % Word
      BY <1>5, <2>1
    <2>4. PICK m \in 1..Count : m = k + (i - 1) /\ m < Count
      BY <2>1
    <2>5. A[m + 1] = (A[m] + Sizes[InsnFrom(first, m)]) % Word
      BY <2>4, AddrsAre
    <2>6. B[i] = A[m]
      BY <1>7, <2>4
    <2>7. B[i + 1] = A[m + 1]
      BY <2>2, <2>3, <2>4, <2>5, <2>6
    <2>8. B[i + 1] = A[k + ((i + 1) - 1)]
      BY <2>1, <2>4, <2>7
    <2>9. QED
      BY <2>1, <2>8
  <1>8. 1..n \subseteq S
    <2> HIDE DEF S, n
    <2>1. QED
      BY <1>0, <1>6, <1>7, CountUp
  <1>9. QED
    BY <1>8

(* The first line of the listing holds the byte that was asked for.          *)
LEMMA FirstLine ==
  ASSUME NEW a \in Address
  PROVE  \E first \in 1..16, d \in 0..6 :
           /\ first = InstrOf(Rel(a)) /\ d = Rel(a) - Offsets[first] /\ d < Sizes[first]
           /\ a - d \in Nat => Rel(a - d) = Offsets[first]
  <1>0. a \in Nat /\ Anchor \in Nat
    BY SimAssumption DEF Address
  <1>1. PICK r \in 0..57 : r = Rel(a)
    BY <1>0, RelIs
  <1>2. PICK first \in 1..16 : Offsets[first] <= r /\ r < Offsets[first] + Sizes[first]
    BY Covered
  <1>3. InstrOf(r) = first
    BY <1>2, InstrFound
  <1>4. PICK o \in 0..57, z \in Nat : o = Offsets[first] /\ z = Sizes[first] /\ z <= 7
    BY Entry
  <1>5. PICK d \in Int : d = r - o
    BY <1>1, <1>4
  <1>6. d \in 0..6 /\ d < z
    BY <1>2, <1>4, <1>5
  <1>7. ASSUME a - d \in Nat PROVE Rel(a - d) = o
    <2>1. PICK q \in Int : a - Anchor = 58 * q + r
      BY <1>0, <1>1, RelIs
    <2>2. PICK x \in Nat : x = a - d
      BY <1>7
    <2>3. x - Anchor = 58 * q + o
      BY <1>0, <1>1, <1>4, <1>5, <2>1, <2>2
    <2>4. Rel(x) = o
      BY <2>3, RelOnly
    <2>5. QED
      BY <2>2, <2>4
  <1>8. QED
    BY <1>1, <1>3, <1>4, <1>5, <1>6, <1>7

(* A listing from the start of an instruction begins with it.                *)
LEMMA FromInstr ==
  ASSUME NEW x \in Nat, NEW j \in 1..16, Rel(x) = Offsets[j]
  PROVE  InstrOf(Rel(x)) = j /\ x - (Rel(x) - Offsets[InstrOf(Rel(x))]) = x
  <1>1. PICK o \in 0..57, z \in Nat : o = Offsets[j] /\ z = Sizes[j] /\ z >= 1
    BY Entry
  <1>2. InstrOf(o) = j
    <2>1. o <= o /\ o < o + z
      BY <1>1
    <2>2. QED
      BY <1>1, <2>1, InstrFound
  <1>3. o - o = 0 /\ x - 0 = x
    BY <1>1
  <1>4. QED
    BY <1>1, <1>2, <1>3

(* Parts of sequences that agree line by line are the same.                  *)
LEMMA SamePart ==
  ASSUME NEW s, NEW t, NEW k \in Nat \ {0}, NEW n \in Nat, k <= n,
         \A i \in 1..(n + 1 - k) : s[i] = t[k + (i - 1)]
  PROVE  SubSeq(s, 1, n + 1 - k) = SubSeq(t, k, n)
  <1> DEFINE S == {s[i] : i \in 1..(n + 1 - k)}
             p == SubSeq(s, 1, n + 1 - k)
             q == SubSeq(t, k, n)
  <1>1. PICK m \in Nat : m = n + 1 - k /\ 1 <= m
    OBVIOUS
  <1>2. \A i \in 1..m : s[i] \in S
    BY <1>1
  <1>3. \A i \in k..n : t[i] \in S
    <2>1. ASSUME NEW i \in k..n PROVE t[i] \in S
      <3>1. PICK h \in 1..(n + 1 - k) : k + (h - 1) = i
        <4>1. i - k + 1 \in 1..(n + 1 - k) /\ k + ((i - k + 1) - 1) = i
          OBVIOUS
        <4>2. QED
          BY <4>1
      <3>2. t[i] = s[h]
        BY <3>1
      <3>3. QED
        BY <3>2
    <2>2. QED
      BY <2>1
  <1> HIDE DEF S
  <1>4. /\ p \in Seq(S) /\ Len(p) = m
        /\ \A i \in 1..m : p[i] = s[i]
    <2>1. /\ SubSeq(s, 1, m) \in Seq(S)
          /\ Len(SubSeq(s, 1, m)) = IF 1 <= m THEN m - 1 + 1 ELSE 0
          /\ \A i \in 1..(m - 1 + 1) : SubSeq(s, 1, m)[i] = s[1 + i - 1]
      BY <1>2, SubSeqProperties
    <2>2. m - 1 + 1 = m /\ \A i \in 1..m : 1 + i - 1 = i
      BY <1>1
    <2>3. QED
      BY <1>1, <2>1, <2>2
  <1>5. /\ q \in Seq(S) /\ Len(q) = m
        /\ \A i \in 1..m : q[i] = t[k + (i - 1)]
    <2>1. /\ SubSeq(t, k, n) \in Seq(S)
          /\ Len(SubSeq(t, k, n)) = IF k <= n THEN n - k + 1 ELSE 0
          /\ \A i \in 1..(n - k + 1) : SubSeq(t, k, n)[i] = t[k + i - 1]
      BY <1>3, SubSeqProperties
    <2>2. n - k + 1 = m /\ \A i \in 1..m : k + i - 1 = k + (i - 1)
      BY <1>1
    <2>3. QED
      BY <1>1, <2>1, <2>2
  <1> HIDE DEF p, q
  <1>6. \A i \in 1..m : p[i] = q[i]
    BY <1>1, <1>4, <1>5
  <1>7. p = q
    BY <1>4, <1>5, <1>6
  <1>8. QED
    BY <1>7 DEF p, q

(* The i-th line of a dbgeng listing with the addresses A.                   *)
Line(A, first, i) == [addr |-> A[i], insn |-> InsnFrom(first, i)]

LEMMA DbgengLines ==
  ASSUME NEW a, NEW first, NEW start, NEW A,
         first = InstrOf(Rel(a)), start = a - (Rel(a) - Offsets[first]), A = AddrsFrom(start, first)
  PROVE  DbgengListing(a) = [i \in 1..Count |-> Line(A, first, i)]
  BY DEF DbgengListing, Line

(* What ListingScrolls says of a listing.                                    *)
Scrolls(L(_), a) ==
  LET lines == L(a)
  IN lines[1].addr <= a /\ lines[1].addr < lines[Count].addr =>
       /\ a < lines[2].addr
       /\ \A k \in 1..Count :
            SubSeq(L(lines[k].addr), 1, Count + 1 - k) = SubSeq(lines, k, Count)

(* A line's own listing finds the line's instruction (OnTheCycle), and goes  *)
(* on with the instructions and the addresses of the first listing.          *)
LEMMA DbgengScrolls ==
  ASSUME NEW a \in Address
  PROVE  Scrolls(DbgengListing, a)
  <1>0. Count \in Nat \ {0} /\ Word \in Nat \ {0} /\ 7 * Count < Word /\ a \in Nat /\ a < Word
    BY SimAssumption DEF Address
  <1>1. PICK first \in 1..16, d \in 0..6 :
           /\ first = InstrOf(Rel(a)) /\ d = Rel(a) - Offsets[first] /\ d < Sizes[first]
           /\ a - d \in Nat => Rel(a - d) = Offsets[first]
    BY FirstLine
  <1>2. PICK start \in Int : start = a - d
    BY <1>0
  <1>3. PICK A : A = AddrsFrom(start, first)
    OBVIOUS
  <1>4. DbgengListing(a) = [i \in 1..Count |-> Line(A, first, i)]
    BY <1>1, <1>2, <1>3, DbgengLines
  <1>5. PICK lines : lines = DbgengListing(a)
    OBVIOUS
  <1>6. \A i \in 1..Count : lines[i] = Line(A, first, i) /\ lines[i].addr = A[i]
    BY <1>4, <1>5 DEF Line
  <1>7. lines[1].addr = A[1] /\ lines[Count].addr = A[Count]
    BY <1>0, <1>6
  <1>8. SUFFICES ASSUME A[1] <= a, A[1] < A[Count]
                 PROVE  /\ a < lines[2].addr
                        /\ \A k \in 1..Count :
                             SubSeq(DbgengListing(lines[k].addr), 1, Count + 1 - k)
                               = SubSeq(lines, k, Count)
    BY <1>5, <1>7 DEF Scrolls
  <1>9. A[1] = start % Word /\ \A i \in 1..Count : A[i] \in Nat
    <2>1. A[1] = start % Word
      BY <1>3, AddrsAre
    <2>2. ASSUME NEW i \in 1..Count PROVE A[i] \in Nat
      <3>1. A[i] \in Address
        BY <1>3, AddrsAre
      <3>2. QED
        BY <1>0, <3>1 DEF Address
    <2>3. QED
      BY <2>1, <2>2
  <1>10. start \in Nat /\ A[1] = start
    <2>1. 0 - Word <= start /\ start <= a
      BY <1>0, <1>2
    <2>2. CASE start < 0
      <3>1. start % Word = start + Word
        BY <1>0, <2>1, <2>2, ModBelow
      <3>2. d < Word
        BY <1>0
      <3>3. A[1] > a
        BY <1>0, <1>2, <1>9, <3>1, <3>2
      <3>4. A[1] \in Nat
        BY <1>0, <1>9
      <3>5. QED
        BY <1>0, <1>8, <3>3, <3>4
    <2>3. CASE start >= 0
      <3>1. start \in Nat /\ start < Word
        BY <1>0, <2>1, <2>3
      <3>2. start % Word = start
        BY <1>0, <3>1, ModSmall
      <3>3. QED
        BY <1>9, <3>1, <3>2
    <2>4. QED
      BY <2>2, <2>3
  <1>11. Rel(A[1]) = Offsets[first]
    BY <1>1, <1>2, <1>10
  <1>12. Count # 1 /\ 2 \in 1..Count /\ 1 \in 1..Count
    <2>1. A[1] \in Nat
      BY <1>10
    <2>2. Count # 1
      BY <1>8, <2>1
    <2>3. QED
      BY <1>0, <2>2
  <1>13. a < lines[2].addr
    <2>1. A[1 + 1] = A[1] + Sizes[InsnFrom(first, 1)]
      BY <1>0, <1>3, <1>8, <1>12, Climbs
    <2>2. InsnFrom(first, 1) = first
      BY InsnIs
    <2>3. PICK z \in Nat : z = Sizes[first]
      BY Entry
    <2>4. A[2] = start + z
      BY <1>10, <2>1, <2>2, <2>3
    <2>5. d < z
      BY <1>1, <2>3
    <2>6. a < A[2]
      BY <1>0, <1>2, <2>4, <2>5
    <2>7. QED
      BY <1>6, <1>12, <2>6
  <1>14. ASSUME NEW k \in 1..Count
         PROVE  SubSeq(DbgengListing(lines[k].addr), 1, Count + 1 - k) = SubSeq(lines, k, Count)
    <2>0. k \in Nat \ {0} /\ Count + 1 - k \in Nat /\ Count + 1 - k <= Count
      BY <1>0
    <2>1. PICK x \in Nat : x = A[k] /\ x = lines[k].addr
      BY <1>6, <1>9
    <2>2. PICK j \in 1..16 : j = InsnFrom(first, k)
      BY <2>0, InsnIs
    <2>3. Rel(x) = Offsets[j]
      BY <1>3, <1>8, <1>11, <2>1, <2>2, OnTheCycle
    <2>4. InstrOf(Rel(x)) = j /\ x - (Rel(x) - Offsets[InstrOf(Rel(x))]) = x
      BY <2>3, FromInstr
    <2>5. PICK B : B = AddrsFrom(x, j)
      OBVIOUS
    <2>6. DbgengListing(x) = [i \in 1..Count |-> Line(B, j, i)]
      BY <2>4, <2>5, DbgengLines
    <2>7. \A i \in 1..(Count + 1 - k) : B[i] = A[k + (i - 1)]
      <3>1. B = AddrsFrom(A[k], InsnFrom(first, k))
        BY <2>1, <2>2, <2>5
      <3>2. QED
        BY <1>3, <3>1, GoesOn
    <2>8. ASSUME NEW i \in 1..(Count + 1 - k)
          PROVE  /\ k + (i - 1) \in 1..Count /\ i \in 1..Count
                 /\ DbgengListing(x)[i] = lines[k + (i - 1)]
      <3>1. k + (i - 1) \in 1..Count /\ i \in 1..Count /\ i \in Nat \ {0}
        BY <1>0, <2>0
      <3>2. InsnFrom(j, i) = InsnFrom(first, k + (i - 1))
        BY <2>0, <2>2, <3>1, InsnOn
      <3>3. DbgengListing(x)[i] = Line(B, j, i)
        BY <2>6, <3>1
      <3>4. Line(B, j, i) = Line(A, first, k + (i - 1))
        BY <2>7, <3>2 DEF Line
      <3>5. QED
        BY <1>6, <3>1, <3>3, <3>4
    <2>9. \A i \in 1..(Count + 1 - k) : DbgengListing(x)[i] = lines[k + (i - 1)]
      BY <2>8
    <2>10. SubSeq(DbgengListing(x), 1, Count + 1 - k) = SubSeq(lines, k, Count)
      BY <1>0, <2>0, <2>9, SamePart
    <2>11. QED
      BY <2>1, <2>10
  <1>15. QED
    BY <1>13, <1>14

(* A line of the other backends: its address says which instruction it is.   *)
FourBytes(x, insns) == [addr |-> x, insn |-> (x \div 4) % insns]

LEMMA FixedLine ==
  ASSUME NEW a, NEW insns, NEW i \in 1..Count, NEW b, a - (a % 4) = b
  PROVE  FixedListing(a, insns)[i]
           = FourBytes((b + 4 * (i - 1)) % Word, insns)
  <1>1. FixedListing(a, insns)[i]
          = [addr |-> (a - (a % 4) + 4 * (i - 1)) % Word,
             insn |-> (((a - (a % 4) + 4 * (i - 1)) % Word) \div 4) % insns]
    BY Zenon DEF FixedListing
  <1>2. QED
    BY <1>1, Zenon DEF FourBytes

(* The other backends: the address of each line follows from the first.      *)
LEMMA FixedScrolls ==
  ASSUME NEW a \in Address, NEW insns \in Nat \ {0}
  PROVE  LET lines == FixedListing(a, insns)
         IN lines[1].addr <= a /\ lines[1].addr < lines[Count].addr =>
              /\ a < lines[2].addr
              /\ \A k \in 1..Count :
                   SubSeq(FixedListing(lines[k].addr, insns), 1, Count + 1 - k)
                     = SubSeq(lines, k, Count)
  <1>0. /\ Count \in Nat \ {0} /\ Word \in Nat \ {0} /\ 7 * Count < Word /\ Word % 4 = 0
        /\ a \in Nat /\ a < Word
    BY SimAssumption DEF Address
  <1>1. PICK b \in Nat : b = a - (a % 4)
    BY <1>0
  <1>2. /\ a - (a % 4) = b /\ b <= a /\ a < b + 4 /\ b % 4 = 0 /\ b < Word
    BY <1>0, <1>1
  <1>3. PICK lines : lines = FixedListing(a, insns)
    OBVIOUS
  <1>4. \A i \in 1..Count : lines[i] = FourBytes((b + 4 * (i - 1)) % Word, insns)
    <2>1. ASSUME NEW i \in 1..Count PROVE lines[i] = FourBytes((b + 4 * (i - 1)) % Word, insns)
      <3>1. FixedListing(a, insns)[i] = FourBytes((b + 4 * (i - 1)) % Word, insns)
        BY <1>2, FixedLine, Zenon
      <3>2. QED
        BY <1>3, <3>1
    <2>2. QED
      BY <2>1
  <1>5. \A i \in 1..Count : lines[i].addr = (b + 4 * (i - 1)) % Word
    <2>1. \A x : FourBytes(x, insns).addr = x
      BY DEF FourBytes
    <2>2. QED
      BY <1>4, <2>1
  <1>6. SUFFICES ASSUME lines[1].addr < lines[Count].addr
                 PROVE  /\ a < lines[2].addr
                        /\ \A k \in 1..Count :
                             SubSeq(FixedListing(lines[k].addr, insns), 1, Count + 1 - k)
                               = SubSeq(lines, k, Count)
    BY <1>3
  <1>7. lines[1].addr = b
    <2>1. lines[1].addr = (b + 4 * (1 - 1)) % Word
      BY <1>0, <1>5
    <2>2. b + 4 * (1 - 1) = b
      BY <1>1
    <2>3. b % Word = b
      BY <1>0, <1>2, ModSmall
    <2>4. QED
      BY <2>1, <2>2, <2>3
  <1>8. b + 4 * (Count - 1) < Word
    <2>1. PICK n \in Nat : n = b + 4 * (Count - 1)
      BY <1>0, <1>1
    <2>2. lines[Count].addr = n % Word
      BY <1>0, <1>5, <2>1
    <2>3. SUFFICES ASSUME Word <= n PROVE FALSE
      BY <1>0, <2>1
    <2>4. n < 2 * Word /\ n - Word < b
      BY <1>0, <1>2, <2>1
    <2>5. n % Word = n - Word
      BY <1>0, <2>3, <2>4, ModSmall
    <2>6. QED
      BY <1>0, <1>6, <1>7, <2>1, <2>2, <2>4, <2>5
  <1>9. ASSUME NEW i \in 1..Count
        PROVE  /\ (b + 4 * (i - 1)) % Word = b + 4 * (i - 1)
               /\ lines[i].addr = b + 4 * (i - 1)
    <2>1. PICK n \in Nat : n = b + 4 * (i - 1) /\ n < Word
      BY <1>0, <1>1, <1>8
    <2>2. n % Word = n
      BY <1>0, <2>1, ModSmall
    <2>3. QED
      BY <1>5, <2>1, <2>2
  <1>10. a < lines[2].addr
    <2>1. Count # 1
      <3>1. lines[1].addr \in Nat
        BY <1>7
      <3>2. QED
        BY <1>6, <3>1
    <2>2. 2 \in 1..Count
      BY <1>0, <2>1
    <2>3. lines[2].addr = b + 4 * (2 - 1)
      BY <1>9, <2>2
    <2>4. QED
      BY <1>0, <1>2, <2>3
  <1>11. ASSUME NEW k \in 1..Count
         PROVE  SubSeq(FixedListing(lines[k].addr, insns), 1, Count + 1 - k) = SubSeq(lines, k, Count)
    <2>0. k \in Nat \ {0} /\ Count + 1 - k \in Nat /\ k <= Count
      BY <1>0
    <2>1. PICK x \in Nat : x = b + 4 * (k - 1)
      BY <1>1, <2>0
    <2>2. lines[k].addr = x
      BY <1>9, <2>1
    <2>3. x - (x % 4) = x
      BY <1>2, <2>1
    <2>4. \A i \in 1..Count : FixedListing(x, insns)[i] = FourBytes((x + 4 * (i - 1)) % Word, insns)
      <3>1. ASSUME NEW i \in 1..Count
            PROVE  FixedListing(x, insns)[i] = FourBytes((x + 4 * (i - 1)) % Word, insns)
        BY <2>3, FixedLine, Zenon
      <3>2. QED
        BY <3>1
    <2>5. ASSUME NEW i \in 1..(Count + 1 - k)
          PROVE  FixedListing(x, insns)[i] = lines[k + (i - 1)]
      <3>1. i \in 1..Count /\ k + (i - 1) \in 1..Count
        BY <1>0, <2>0
      <3>2. x + 4 * (i - 1) = b + 4 * ((k + (i - 1)) - 1)
        BY <1>1, <2>0, <2>1, <3>1
      <3>3. FixedListing(x, insns)[i] = FourBytes((x + 4 * (i - 1)) % Word, insns)
        BY <2>4, <3>1
      <3>4. lines[k + (i - 1)] = FourBytes((b + 4 * ((k + (i - 1)) - 1)) % Word, insns)
        BY <1>4, <3>1
      <3>5. QED
        BY <3>2, <3>3, <3>4
    <2>6. SubSeq(FixedListing(x, insns), 1, Count + 1 - k) = SubSeq(lines, k, Count)
      BY <1>0, <2>0, <2>5, SamePart
    <2>7. QED
      BY <2>2, <2>6
  <1>12. QED
    BY <1>10, <1>11

(* The four backends.                                                        *)
LEMMA AllScroll ==
  ASSUME TypeOK
  PROVE  ListingScrolls
  <1>0. pc \in Address /\ kind \in {"dbgeng", "lldb", "gdbremote", "frida"}
    BY SimAssumption DEF TypeOK
  <1>1. CASE kind = "dbgeng"
    <2>1. \A a : Listing(a) = DbgengListing(a)
      BY <1>1 DEF Listing
    <2>2. Scrolls(DbgengListing, pc)
      BY <1>0, DbgengScrolls
    <2>3. QED
      BY <2>1, <2>2 DEF ListingScrolls, Scrolls
  <1>2. ASSUME NEW insns \in Nat \ {0}, \A a : Listing(a) = FixedListing(a, insns)
        PROVE  ListingScrolls
    BY <1>0, <1>2, FixedScrolls DEF ListingScrolls
  <1>3. CASE kind = "lldb"
    <2>1. LldbInsns \in Nat \ {0} /\ \A a : Listing(a) = FixedListing(a, LldbInsns)
      BY <1>3 DEF Listing, LldbInsns
    <2>2. QED
      BY <1>2, <2>1
  <1>4. CASE kind = "gdbremote"
    <2>1. GdbremoteInsns \in Nat \ {0} /\ \A a : Listing(a) = FixedListing(a, GdbremoteInsns)
      BY <1>4 DEF Listing, GdbremoteInsns
    <2>2. QED
      BY <1>2, <2>1
  <1>5. CASE kind = "frida"
    <2>1. FridaInsns \in Nat \ {0} /\ \A a : Listing(a) = FixedListing(a, FridaInsns)
      BY <1>5 DEF Listing, FridaInsns
    <2>2. QED
      BY <1>2, <2>1
  <1>6. QED
    BY <1>0, <1>1, <1>3, <1>4, <1>5

(* From every program counter the disassembly scrolls without a jump, at any *)
(* number of whole cycles before or behind the anchor and up to the end of   *)
(* the address space (dbgeng main.rs:516-564, lldb main.rs:503-515).         *)
THEOREM AlwaysScrolls == Spec => []ListingScrolls
  BY TypeCorrect, AllScroll, PTL
===============================================================================
