----------------------------- MODULE WinapiSearch -----------------------------
(***************************************************************************)
(* How winapi-backend walks the memory of a debuggee (winapi_impl.rs):      *)
(* memoryMap lists its regions, searchMem looks for a pattern with          *)
(* wildcards in the readable ones.  Both ask VirtualQueryEx for the region  *)
(* at an address and go on behind it, one region per turn of the loop.      *)
(*                                                                         *)
(* Windows is external: VirtualQueryEx answers with the region that starts  *)
(* at the page of the address it is asked for, and fails behind the last    *)
(* page.  The debuggee is stopped meanwhile.  Its memory is any one of      *)
(* Pages pages; adjacent pages may belong to different allocations.         *)
(***************************************************************************)
EXTENDS SequencesExt

CONSTANTS
  Pages, PageSize,
  Wildcard,        \* "?" in a pattern
  Patterns,        \* the patterns to look for, after parsing
  Starts, Ends,    \* the bounds that are given
  MaxResults       \* 1000 in the code

ASSUME SearchAssumption ==
  /\ Pages \in Nat \ {0} /\ PageSize \in Nat \ {0} /\ MaxResults \in Nat \ {0}
  /\ Wildcard \notin {0, 1}
  /\ Patterns \subseteq Seq({0, 1, Wildcard})
  /\ Starts \subseteq Nat /\ Ends \subseteq Nat

Size == Pages * PageSize
Cells == 0..(Size - 1)
PageNumbers == 0..(Pages - 1)

VARIABLES
  (* the debuggee *)
  protect,   \* page -> "read", "noaccess" or free, or "guard"
  split,     \* the pages where another allocation begins
  memory,    \* cell -> 0 or 1
  (* the request *)
  method, pattern, start, end,
  (* the loop *)
  addr,      \* where VirtualQueryEx is asked next
  results,   \* matches, or regions [base, end]
  at         \* "walking", or what was answered: "found", "bad_params"

given == <<protect, split, memory, method, pattern, start, end>>
vars == <<given, addr, results, at>>

Init ==
  /\ protect \in [PageNumbers -> {"read", "noaccess", "guard"}]
  /\ split \in SUBSET {p \in PageNumbers \ {0} : protect[p] = protect[p - 1]}
  /\ memory \in [Cells -> {0, 1}]
  /\ \/ method = "memoryMap" /\ pattern = <<>> /\ start = 0 /\ end = Size
     \/ method = "searchMem" /\ pattern \in Patterns /\ start \in Starts /\ end \in Ends
  /\ addr = start /\ results = <<>>
  /\ at = IF method = "searchMem" /\ pattern = <<>> THEN "bad_params" ELSE "walking"

-------------------------------------------------------------------------------
(* VirtualQueryEx *)
PageOf(a) == a \div PageSize
OneRegion(p, q) == \A r \in (p + 1)..q : protect[r] = protect[r - 1] /\ r \notin split
Base(a) == PageOf(a) * PageSize
Behind(a) == (Max({q \in PageOf(a)..(Pages - 1) : OneRegion(PageOf(a), q)}) + 1) * PageSize

NextInside(a) == Behind(a) - 1
NextAddr(a) == Behind(a)

(* The loop ends when there is no region, or one that lies behind the end.  *)
WalkEnds ==
  /\ at = "walking"
  /\ addr \notin Cells \/ (method = "searchMem" /\ Base(addr) >= end)
  /\ at' = "found"
  /\ UNCHANGED <<given, addr, results>>

Visit(a) ==
  /\ at = "walking"
  /\ a \in Cells /\ (method = "searchMem" => Base(a) < end)

GoOnBlindly(full) ==
  /\ addr' = NextInside(addr)
  /\ at' = IF full THEN "found" ELSE "walking"
  /\ UNCHANGED given

GoOn(full) ==
  /\ addr' = NextAddr(addr)
  /\ at' = IF full \/ NextAddr(addr) <= addr THEN "found" ELSE "walking"
  /\ UNCHANGED given

MapRegion ==
  /\ Visit(addr) /\ method = "memoryMap"
  /\ results' = Append(results, [base |-> Base(addr), end |-> Behind(addr)])
  /\ GoOn(FALSE)

Fits(i) == \A j \in DOMAIN pattern : pattern[j] \in {Wildcard, memory[i + j - 1]}

(* What is found in the part of a region that lies between the bounds; the  *)
(* read of a guard page fails, and finds nothing.                           *)
BeforeLast(lo, hi) == {i \in lo..(hi - Len(pattern) - 1) : Fits(i)}
Matches(lo, hi) == {i \in lo..(hi - Len(pattern)) : Fits(i)}

(* The members of S, each at the place that its rank gives it.              *)
Rank(x, S) == Cardinality({y \in S : y < x})
Ascending(S) == [i \in 1..Cardinality(S) |-> CHOOSE x \in S : Rank(x, S) = i - 1]

NotLimited(found) == found
Limited(found) == SubSeq(found, 1, Min({MaxResults, Len(found)}))

Overlap(a) == [lo |-> Max({Base(a), start}), hi |-> Min({Behind(a), end})]

SearchRegion ==
  /\ Visit(addr) /\ method = "searchMem"
  /\ LET part == Overlap(addr)
         found == IF protect[PageOf(addr)] = "read" /\ part.lo < part.hi
                  THEN Ascending(Matches(part.lo, part.hi)) ELSE <<>>
     IN results' = Limited(results \o found)
  /\ GoOn(Len(results') >= MaxResults)

Next == WalkEnds \/ MapRegion \/ SearchRegion

(* The loop runs on by itself. *)
Spec == Init /\ [][Next]_vars /\ WF_vars(Next)
-------------------------------------------------------------------------------
TypeOK ==
  /\ addr \in Nat
  /\ results \in Seq(IF method = "memoryMap" THEN [base : Cells, end : 1..Size] ELSE Cells)
  /\ method = "searchMem" => Len(results) <= MaxResults
  /\ at \in {"walking", "found", "bad_params"}

(* What searchMem is to find: the pattern at every address from start whose *)
(* bytes all lie before end and in one readable region.                     *)
Expected ==
  {a \in Cells :
     /\ start <= a /\ a + Len(pattern) <= Min({end, Size})
     /\ protect[PageOf(a)] = "read" /\ OneRegion(PageOf(a), PageOf(a + Len(pattern) - 1))
     /\ Fits(a)}

(* searchMem answers with the first MaxResults of them in ascending order,  *)
(* none twice, wherever the bounds cut a region or a page, and has at every *)
(* turn found those that lie before addr (winapi_impl.rs:890-958).          *)
SearchIsExact ==
  method = "searchMem" /\ at # "bad_params" =>
    LET sought == IF at = "found" THEN Expected ELSE {a \in Expected : a < addr}
    IN /\ Len(results) = Min({MaxResults, Cardinality(sought)})
       /\ \A i \in DOMAIN results :
            results[i] \in sought /\ Rank(results[i], sought) = i - 1

(* memoryMap lists every page once, regions in order and whole: pages of    *)
(* one region are never listed apart (winapi_impl.rs:835-889).              *)
MapIsWhole ==
  method = "memoryMap" /\ at = "found" =>
    /\ results[1].base = 0 /\ Last(results).end = Size
    /\ \A i \in 1..(Len(results) - 1) :
         /\ results[i].end = results[i + 1].base
         /\ ~OneRegion(PageOf(results[i].base), PageOf(results[i + 1].base))

(* The walk ends, at the latest behind the last page.                       *)
WalkReturns == <>(at # "walking")
===============================================================================
