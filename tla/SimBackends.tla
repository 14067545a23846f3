------------------------------ MODULE SimBackends ------------------------------
(***************************************************************************)
(* dbgeng-, lldb-, gdbremote- and frida-backend: stand-ins that simulate a  *)
(* target.  They share one handler but for the steps of the program         *)
(* counter, the registers they know and their disassembler.  One request    *)
(* is served at a time (run_stdio_backend), so that every handler is one    *)
(* step; those that only answer with constants change nothing and are left  *)
(* out.  Addresses count modulo Word, as they do modulo 2^64 in the code.   *)
(***************************************************************************)
EXTENDS FiniteSetsExt, Sequences

CONSTANTS
  Kinds,          \* the backends of this instance
  Word,           \* addresses are 0..Word-1
  Anchor,         \* where the code that dbgeng simulates begins
  SetValues,      \* values that a client gives a register
  BpAddrs,        \* addresses of breakpoints and watchpoints
  MaxBps, MaxWps, \* breakpoints and watchpoints set in one behaviour
  Count,          \* lines of a listing (the code caps them at 64)
  None

ASSUME SimAssumption ==
  /\ Kinds \subseteq {"dbgeng", "lldb", "gdbremote", "frida"}
  /\ Word \in Nat /\ Word % 4 = 0 /\ Anchor \in 0..(Word - 1)
  /\ SetValues \subseteq 0..(Word - 1)
  /\ MaxBps \in Nat /\ MaxWps \in Nat /\ Count \in Nat \ {0}
  /\ 7 * Count < Word  \* no listing goes around all addresses

Address == 0..(Word - 1)

VARIABLES
  kind,                    \* which of the backends this is
  attachedPid, launchedPath, arch,
  pc, sp,
  bpNext, breakpoints,     \* id -> address
  wpNext, watchpoints,     \* id -> address
  given                    \* history: the address each breakpoint id was given for

session == <<attachedPid, launchedPath, arch>>
points == <<bpNext, breakpoints, wpNext, watchpoints, given>>
vars == <<kind, session, pc, sp, points>>

-------------------------------------------------------------------------------
(* the four backends *)

DbgengSteps == [go |-> 5, stepInto |-> 1, stepOver |-> 5, stepOut |-> 64]
LldbSteps == [go |-> 4, stepInto |-> 4, stepOver |-> 4, stepOut |-> 48]
GdbremoteSteps == [go |-> 4, stepInto |-> 4, stepOver |-> 4, stepOut |-> 32]
FridaSteps == [go |-> 4, stepInto |-> 4, stepOver |-> 4, stepOut |-> 48]

Steps == CASE kind = "dbgeng" -> DbgengSteps
           [] kind = "lldb" -> LldbSteps
           [] kind = "gdbremote" -> GdbremoteSteps
           [] kind = "frida" -> FridaSteps

(* 0x67 is the last byte of 0x100004567: it is not a multiple of four.       *)
FirstPc(k) == CASE k = "dbgeng" -> Anchor
                [] k = "gdbremote" -> 0
                [] OTHER -> 103 % Word

Init ==
  /\ kind \in Kinds
  /\ attachedPid = None /\ launchedPath = None /\ arch = "riscv64"
  /\ pc = FirstPc(kind) /\ sp = 0
  /\ bpNext = 1 /\ breakpoints = <<>> /\ given = <<>>
  /\ wpNext = 1 /\ watchpoints = <<>>

-------------------------------------------------------------------------------
(* disasm *)

(* dbgeng: sixteen instructions, 58 bytes, over and over before and behind  *)
(* the anchor.                                                              *)
Sizes == <<5, 5, 4, 5, 3, 2, 3, 6, 4, 1, 1, 1, 7, 7, 2, 2>>
Offsets == <<0, 5, 10, 14, 19, 22, 24, 27, 33, 37, 38, 39, 40, 47, 54, 56>>
CycleLen == 58

RelNoZero(a) == IF a >= Anchor THEN (a - Anchor) % CycleLen
                               ELSE CycleLen - ((Anchor - a) % CycleLen)
Rel(a) == IF a >= Anchor THEN (a - Anchor) % CycleLen
          ELSE LET rem == (Anchor - a) % CycleLen
               IN IF rem = 0 THEN 0 ELSE CycleLen - rem

(* find_instr_offset: the instruction that a byte of the cycle belongs to.  *)
InstrOf(rel) == Max({i \in DOMAIN Offsets : Offsets[i] <= rel})

InsnFrom(first, i) == ((first + i - 2) % 16) + 1

AddrsFrom(start, first) ==
  LET addr[i \in 1..Count] ==
        IF i = 1 THEN start % Word
                 ELSE (addr[i - 1] + Sizes[InsnFrom(first, i - 1)]) % Word
  IN addr

DbgengListing(a) ==
  LET first == InstrOf(Rel(a))
      addr == AddrsFrom(a - (Rel(a) - Offsets[first]), first)
  IN [i \in 1..Count |-> [addr |-> addr[i], insn |-> InsnFrom(first, i)]]

(* the others: instructions of four bytes, from the aligned address on.     *)
FixedListing(a, insns) ==
  [i \in 1..Count |-> LET at == (a - (a % 4) + 4 * (i - 1)) % Word
                      IN [addr |-> at, insn |-> (at \div 4) % insns]]
LldbInsns == 12
GdbremoteInsns == 12
FridaInsns == 7

Listing(a) == CASE kind = "dbgeng" -> DbgengListing(a)
                [] kind = "lldb" -> FixedListing(a, LldbInsns)
                [] kind = "gdbremote" -> FixedListing(a, GdbremoteInsns)
                [] kind = "frida" -> FixedListing(a, FridaInsns)

-------------------------------------------------------------------------------
(* attach and launch forget nothing; detach and kill leave breakpoints,     *)
(* registers and the architecture as they are.                              *)
Attach(p) ==
  /\ attachedPid' = p
  /\ UNCHANGED <<kind, launchedPath, arch, pc, sp, points>>

Launch(path, a) ==
  /\ a # arch => kind = "gdbremote"
  /\ launchedPath' = path /\ arch' = a
  /\ UNCHANGED <<kind, attachedPid, pc, sp, points>>

DetachOrKill ==
  /\ attachedPid' = None /\ launchedPath' = None
  /\ UNCHANGED <<kind, arch, pc, sp, points>>

(* go, stepInto, stepOver and stepOut *)
Wrapped(m) == (pc + Steps[m]) % Word

Move(m) ==
  /\ pc' = Wrapped(m)
  /\ UNCHANGED <<kind, session, sp, points>>

(* setReg: other names than these are answered alike and change nothing.    *)
SetReg(v) ==
  /\ \/ pc' = v /\ UNCHANGED sp
     \/ sp' = v /\ UNCHANGED pc
  /\ UNCHANGED <<kind, session, points>>

(* bpSet: ids count up over the life of the backend; an address may have    *)
(* several.                                                                 *)
CountedId == Cardinality(DOMAIN breakpoints) + 1
NewId == bpNext

With(f, k, v) == [x \in DOMAIN f \union {k} |-> IF x = k THEN v ELSE f[x]]
Without(f, k) == [x \in DOMAIN f \ {k} |-> f[x]]

BpSet(a) ==
  /\ bpNext <= MaxBps
  /\ bpNext' = bpNext + 1
  /\ breakpoints' = With(breakpoints, NewId, a)
  /\ given' = [id \in DOMAIN given \union {NewId} |-> IF id \in DOMAIN given THEN given[id] ELSE a]
  /\ UNCHANGED <<kind, session, pc, sp, wpNext, watchpoints>>

(* bpClear, by id or as any one of those at an address, or all of them.     *)
BpClear(id) ==
  /\ id \in DOMAIN breakpoints
  /\ breakpoints' = Without(breakpoints, id)
  /\ UNCHANGED <<kind, session, pc, sp, bpNext, given, wpNext, watchpoints>>

BpClearAll ==
  /\ breakpoints' = <<>>
  /\ UNCHANGED <<kind, session, pc, sp, bpNext, given, wpNext, watchpoints>>

WpSet(a) ==
  /\ wpNext <= MaxWps
  /\ wpNext' = wpNext + 1
  /\ watchpoints' = With(watchpoints, wpNext, a)
  /\ UNCHANGED <<kind, session, pc, sp, bpNext, breakpoints, given>>

WpClear(id) ==
  /\ watchpoints' = Without(watchpoints, id)
  /\ UNCHANGED <<kind, session, pc, sp, bpNext, breakpoints, given, wpNext>>

-------------------------------------------------------------------------------
Next ==
  \/ Attach(1) \/ DetachOrKill
  \/ \E a \in {"riscv64", "arm64"} : Launch("target", a)
  \/ \E m \in {"go", "stepInto", "stepOver", "stepOut"} : Move(m)
  \/ \E v \in SetValues : SetReg(v)
  \/ \E a \in BpAddrs : BpSet(a) \/ WpSet(a)
  \/ \E id \in 1..MaxBps : BpClear(id)
  \/ BpClearAll
  \/ \E id \in DOMAIN watchpoints : WpClear(id)

Spec == Init /\ [][Next]_vars
-------------------------------------------------------------------------------
TypeOK ==
  /\ kind \in Kinds
  /\ attachedPid \in {1, None} /\ launchedPath \in {"target", None}
  /\ arch \in {"riscv64", "arm64"}
  /\ pc \in Address /\ sp \in Address
  /\ bpNext \in 1..(MaxBps + 1) /\ wpNext \in 1..(MaxWps + 1)
  /\ DOMAIN breakpoints \subseteq DOMAIN given /\ DOMAIN given = 1..(bpNext - 1)
  /\ DOMAIN watchpoints \subseteq 1..(wpNext - 1)

(* The first line of a listing holds the address that was asked for, and a  *)
(* listing from the address of any of its lines goes on as this one does:   *)
(* a view that scrolls shows the same instructions.  Only where the address *)
(* space ends it may not (dbgeng main.rs:516-564, lldb main.rs:503-515).    *)
ListingScrolls ==
  LET lines == Listing(pc)
  IN lines[1].addr <= pc /\ lines[1].addr < lines[Count].addr =>
       /\ pc < lines[2].addr
       /\ \A k \in 1..Count :
            SubSeq(Listing(lines[k].addr), 1, Count + 1 - k) = SubSeq(lines, k, Count)

(* An id names one breakpoint for ever: it is never given out again after a *)
(* clear, a kill or a new target, and a client that clears by an id it knew *)
(* clears that breakpoint or none (main.rs:224-258 of dbgeng).              *)
NamesAreLasting ==
  \A id \in DOMAIN breakpoints : breakpoints[id] = given[id]
===============================================================================
