------------------------------- MODULE IPBlocks -------------------------------
(***************************************************************************)
(* The exceptions of an ipBlock: a rule cannot match "this CIDR without      *)
(* those", so DiffFromCIDRs turns a CIDR and the CIDRs excepted from it into *)
(* CIDRs that cover the rest. One step is one iteration of a loop of the     *)
(* code.                                                                     *)
(*                                                                           *)
(* An address is the set of the bits that are 1, bit 0 being the lowest. The *)
(* slices of the code are sets here: no property depends on their order, and *)
(* wherever the code takes the first CIDR that fits, any of them may be      *)
(* taken. mergeCIDRs sorts by the mask, with no order among equal masks.     *)
(***************************************************************************)
EXTENDS Integers

CONSTANTS Width,       \* v4BitLen
          MaxExcepts   \* bound on the exceptions of an ipBlock

VARIABLES
  allow,    \* allowCIDR
  given,    \* exceptCIDRs as they were passed
  excepts,  \* exceptCIDRs that are left
  merged,   \* the exceptCIDRs the loop of mergeCIDRs has been at
  blocks,   \* newCIDRs
  ipStep    \* "merge", "diff" or "done"

ipVars == <<allow, given, excepts, merged, blocks, ipStep>>

Addresses == SUBSET (0 .. Width - 1)
\* The IP of a net.IPNet need not be the start of its range.
CIDR == [ip : Addresses, len : 0 .. Width]

Mask(a, n)     == {b \in a : b >= Width - n}
Start(c)       == Mask(c.ip, c.len)
ContainsIP(c, a) == Mask(a, c.len) = Start(c)
Covered(C)     == {a \in Addresses : \E c \in C : ContainsIP(c, a)}

Inside(c)      == {e \in CIDR : ContainsIP(c, e.ip) /\ c.len <= e.len}

\* The API server admits no exception that is not inside the CIDR.
IPInit ==
  /\ allow \in CIDR
  /\ \E s \in [1 .. MaxExcepts -> Inside(allow)], n \in 0 .. MaxExcepts :
       given = {s[i] : i \in 1 .. n}
  /\ excepts = given /\ merged = {} /\ blocks = {} /\ ipStep = "merge"

---------------------------------------------------------------------------

\* The exceptions are not sorted.
FirstUnsorted(c, C) == c \in C

\* The slice is sorted by the masks: a CIDR that may come first among those left.
First(c, C) == c \in C /\ \A d \in C : c.len <= d.len

\* mergeCIDRs: what a CIDR contains of those that follow is redundant.
mergeCIDRs(c) ==
  /\ ipStep = "merge" /\ First(c, excepts \ merged)
  /\ merged' = merged \cup {c}
  /\ excepts' = {d \in excepts : d \in merged \cup {c} \/ ~ContainsIP(c, d.ip)}
  /\ UNCHANGED <<allow, given, blocks, ipStep>>

Merged ==
  /\ ipStep = "merge" /\ excepts = merged
  /\ ipStep' = "diff" /\ blocks' = {allow}
  /\ UNCHANGED <<allow, given, excepts, merged>>

flipSingleBit(a, bit) == (a \ {bit}) \cup ({bit} \ a)

diffFromCIDR(a, e) ==
  {[ip |-> Mask(Start(a) \cup flipSingleBit(Start(e), Width - i), i), len |-> i] :
     i \in (a.len + 1) .. e.len}

\* The exception the outer loop of DiffFromCIDRs is at.
Current(e) == First(e, excepts)

Overlaps(c, e) == ContainsIP(c, Start(e)) \/ ContainsIP(e, c.ip)

\* An iteration that finds a CIDR to split or to delete.
Subtract(e, c) ==
  /\ ipStep = "diff" /\ Current(e) /\ c \in blocks /\ Overlaps(c, e)
  /\ blocks' = (blocks \ {c}) \cup IF ContainsIP(c, Start(e)) THEN diffFromCIDR(c, e) ELSE {}
  /\ UNCHANGED <<allow, given, excepts, merged, ipStep>>

\* The inner loop of DiffFromCIDRs has found nothing more.
NextExcept(e) ==
  /\ ipStep = "diff" /\ Current(e) /\ \A c \in blocks : ~Overlaps(c, e)
  /\ excepts' = excepts \ {e}
  /\ UNCHANGED <<allow, given, merged, blocks, ipStep>>

Return ==
  /\ ipStep = "diff" /\ excepts = {} /\ ipStep' = "done"
  /\ UNCHANGED <<allow, given, excepts, merged, blocks>>

IPNext ==
  \/ \E c \in excepts : mergeCIDRs(c)
  \/ Merged \/ Return
  \/ \E e \in excepts : NextExcept(e) \/ \E c \in blocks : Subtract(e, c)

IPSpec == IPInit /\ [][IPNext]_ipVars

---------------------------------------------------------------------------

(***************************************************************************)
(* DiffFromCIDRs returns disjoint CIDRs that cover exactly the addresses of  *)
(* allowCIDR outside of the exceptions, however these overlap.               *)
(***************************************************************************)
DiffIsExact ==
  ipStep = "done" =>
    /\ Covered(blocks) = Covered({allow}) \ Covered(given)
    /\ \A c, d \in blocks : c # d => Covered({c}) \cap Covered({d}) = {}

(***************************************************************************)
(* diffFromCIDR is called for "a superset CIDR (allow CIDR) and subset CIDR  *)
(* (except CIDR)" only: for a larger exception the capacity it asks make for *)
(* would be negative and the agent would panic. It is so because mergeCIDRs  *)
(* sorts the exceptions: the blocks get smaller from one exception to the    *)
(* next, but no smaller than an exception that is left.                      *)
(***************************************************************************)
SplitsOnlySupersets ==
  ipStep = "diff" => \A e \in excepts, c \in blocks :
    Current(e) /\ ContainsIP(c, Start(e)) => c.len <= e.len

(***************************************************************************)
(* DiffFromCIDRs returns what it should, and gets there without a panic.     *)
(***************************************************************************)
ExceptionsSubtracted == DiffIsExact /\ SplitsOnlySupersets
===============================================================================
