----------------------------- MODULE ScanReference -----------------------------
(***************************************************************************)
(* What an exact scan is asked for, and what it has to find: the aligned   *)
(* addresses of a range at which the memory of the target holds a pattern. *)
(***************************************************************************)
EXTENDS Integers, Sequences, FiniteSets

CONSTANTS
  Bytes,        \* values of a byte
  Any,          \* a wildcard: '?' in the mask
  MaxAddress    \* the largest 64-bit number: 2^64 - 1 in the code

ASSUME AnyAssumption == Any \notin Bytes
ASSUME MaxAddressAssumption == MaxAddress \in Nat \ {0}

(* Region ends are exclusive and saturate, so no byte is at MaxAddress.     *)
Addresses == 0 .. MaxAddress - 1
Memories == [Addresses -> Bytes]

(* Pattern and mask of equal length, as ScanMemory and AOBScan require.     *)
IsRequest(q) ==
  /\ q.pattern \in Seq(Bytes \cup {Any}) /\ q.pattern # <<>>
  /\ q.start \in Nat /\ q.end \in 1 .. MaxAddress /\ q.start < q.end
  /\ q.alignment \in Nat \ {0}
  /\ q.limit \in Nat \ {0}

(* A region of the target, and whether its protection is one that is asked  *)
(* for.                                                                     *)
Region == [base : Addresses, size : Nat, wanted : BOOLEAN]

SmallerOf(a, b) == IF a <= b THEN a ELSE b
LargerOf(a, b) == IF a <= b THEN b ELSE a

(* saturatingAdd                                                            *)
SaturatingAdd(left, right) == SmallerOf(left + right, MaxAddress)

(* The part of a region inside the range of the scan.                       *)
RegionStart(r, q) == LargerOf(r.base, q.start)
RegionEnd(r, q) == SmallerOf(SaturatingAdd(r.base, r.size), q.end)

(* The pattern is skipped over a region it does not fit in.                 *)
IsScanned(r, q) ==
  /\ r.wanted
  /\ RegionEnd(r, q) > RegionStart(r, q)
  /\ RegionEnd(r, q) - RegionStart(r, q) >= Len(q.pattern)

Aligned(a, q) == (a - q.start) % q.alignment = 0

(* The elements of S with fewer than n smaller ones.                        *)
Lowest(S, n) == {a \in S : Cardinality({b \in S : b < a}) < n}

(* The pattern fits the bytes of a buffer from place i on.                  *)
Fits(buffer, pattern, i) ==
  \A k \in 1 .. Len(pattern) : pattern[k] = Any \/ buffer[i + k - 1] = pattern[k]

(* Memory holds the pattern at address a.                                   *)
HoldsAt(memory, pattern, a) ==
  \A k \in 1 .. Len(pattern) : pattern[k] = Any \/ memory[a + k - 1] = pattern[k]

(* The matches of a region whose bytes below address reached were read.     *)
MatchesBelow(memory, r, q, reached) ==
  {a \in Addresses :
     /\ RegionStart(r, q) <= a
     /\ a + Len(q.pattern) <= reached
     /\ Aligned(a, q)
     /\ HoldsAt(memory, q.pattern, a)}

MatchesOf(memory, r, q) ==
  IF IsScanned(r, q) THEN MatchesBelow(memory, r, q, RegionEnd(r, q)) ELSE {}
=============================================================================
