--------------------------------- MODULE Cidr ----------------------------------
(***************************************************************************)
(* A file of IPv4 blocks as internal/policy/cidr.go reads and normalises   *)
(* it, loop by loop: one step per line, per range that is merged, and per  *)
(* round of rangeToCIDRs.  Addresses have W bits and wrap around as        *)
(* uint32 does; sizes and differences are computed wider, as in the code.  *)
(***************************************************************************)

EXTENDS Integers, Sequences

CONSTANTS
  W,              \* the width of an address: 32
  Power,          \* the powers of two up to 2^W
  Blank, Bad,     \* a line without a block, and one that is no block
  Files           \* the files that are read

VARIABLES
  file,           \* its lines
  pc,             \* which loop
  at,             \* its index
  ranges,         \* what was read, then sorted
  merged,         \* disjoint ranges
  start, size,    \* of rangeToCIDRs: the block that is tried
  out             \* the blocks

vars == <<file, pc, at, ranges, merged, start, size, out>>

Space     == Power[W]
Addresses == 0 .. Space - 1
Cidrs     == [addr : Addresses, ones : 0 .. W]
Lines     == Cidrs \union {Blank, Bad}
Ranges    == [start : Addresses, end : Addresses]
Sizes     == {Power[t] : t \in 0 .. W}
Blocks    == [start : Addresses, size : Sizes]

ASSUME CidrAssumption ==
  /\ W \in Nat
  /\ Power \in [0 .. W -> Nat \ {0}]
  /\ Power[0] = 1 /\ \A t \in 1 .. W : Power[t] = 2 * Power[t - 1]
  /\ Blank # Bad /\ {Blank, Bad} \intersect Cidrs = {}
  /\ \A f \in Files : f \in Seq(Lines)

Divides(n, m) == \E k \in 0 .. m : m = k * n

\* Mutated form of RangeOf: the end is the address behind the range.
RangeOfHalfOpen(cidr) ==
  LET block == Power[W - cidr.ones]
      first == block * (cidr.addr \div block)
  IN [start |-> first, end |-> first + block]

\* The host bits are masked off; the last address is computed in 32 bits.
RangeOf(cidr) ==
  LET block == Power[W - cidr.ones]
      first == block * (cidr.addr \div block)
  IN [start |-> first, end |-> (first + (block - 1)) % Space]

\* Of two ranges the one that starts, or else ends, earlier.
Before(r, s) == r.start < s.start \/ (r.start = s.start /\ r.end <= s.end)

\* 2^TrailingZeros32(start), and 2^32 for 0.
Alignment(first) ==
  Power[CHOOSE t \in 0 .. W : /\ Divides(Power[t], first)
                              /\ \A u \in 0 .. W : Divides(Power[u], first) => u <= t]

-------------------------------------------------------------------------------

TypeOK ==
  /\ file \in Seq(Lines)
  /\ pc \in {"read", "sort", "merge", "split", "done", "failed"}
  /\ at \in Nat
  /\ ranges \in Seq(Ranges) /\ merged \in Seq(Ranges)
  /\ start \in Addresses /\ size \in Sizes
  /\ out \in Seq(Blocks)

Init ==
  /\ file \in Files
  /\ pc = "read" /\ at = 1
  /\ ranges = <<>> /\ merged = <<>> /\ out = <<>>
  /\ start = 0 /\ size = 1

SkipLine ==
  /\ pc = "read" /\ at <= Len(file) /\ file[at] = Blank
  /\ at' = at + 1
  /\ UNCHANGED <<file, pc, ranges, merged, start, size, out>>

\* One bad line fails the whole file.
BadLine ==
  /\ pc = "read" /\ at <= Len(file) /\ file[at] = Bad
  /\ pc' = "failed"
  /\ UNCHANGED <<file, at, ranges, merged, start, size, out>>

ReadLine ==
  /\ pc = "read" /\ at <= Len(file) /\ file[at] \notin {Blank, Bad}
  /\ ranges' = Append(ranges, RangeOf(file[at]))
  /\ at' = at + 1
  /\ UNCHANGED <<file, pc, merged, start, size, out>>

ReadEnds ==
  /\ pc = "read" /\ at > Len(file)
  /\ pc' = IF ranges = <<>> THEN "done" ELSE "sort"
  /\ UNCHANGED <<file, at, ranges, merged, start, size, out>>

\* sort.Slice: some order in which each range is before the next.
Sort ==
  /\ pc = "sort"
  /\ \E p \in [DOMAIN ranges -> DOMAIN ranges] :
       /\ \A i \in DOMAIN ranges : \E j \in DOMAIN ranges : p[j] = i
       /\ \A i \in DOMAIN ranges : i > 1 => Before(ranges[p[i - 1]], ranges[p[i]])
       /\ ranges' = [i \in 1 .. Len(ranges) |-> ranges[p[i]]]
  /\ pc' = "merge" /\ at' = 1
  /\ UNCHANGED <<file, merged, start, size, out>>

Last == merged[Len(merged)]

\* Mutated form of Touches: the end is incremented in 32 bits.
TouchesWrapped(r) == merged # <<>> /\ r.start <= (Last.end + 1) % Space

\* Mutated form of Touches: ranges side by side stay apart.
TouchesOverlap(r) == merged # <<>> /\ r.start <= Last.end

Touches(r) == merged # <<>> /\ r.start <= Last.end + 1

\* Mutated form of Extend: the end is that of the range that comes later.
ExtendLater ==
  /\ pc = "merge" /\ at <= Len(ranges) /\ Touches(ranges[at])
  /\ merged' = [merged EXCEPT ![Len(merged)].end = ranges[at].end]
  /\ at' = at + 1
  /\ UNCHANGED <<file, pc, ranges, start, size, out>>

\* Mutated form of Extend: the range is looked at again after the merge.
ExtendAgain ==
  /\ pc = "merge" /\ at <= Len(ranges) /\ Touches(ranges[at])
  /\ merged' = IF ranges[at].end > Last.end
               THEN [merged EXCEPT ![Len(merged)].end = ranges[at].end] ELSE merged
  /\ UNCHANGED <<file, pc, at, ranges, start, size, out>>

Extend ==
  /\ pc = "merge" /\ at <= Len(ranges) /\ Touches(ranges[at])
  /\ merged' = IF ranges[at].end > Last.end
               THEN [merged EXCEPT ![Len(merged)].end = ranges[at].end] ELSE merged
  /\ at' = at + 1
  /\ UNCHANGED <<file, pc, ranges, start, size, out>>

Add ==
  /\ pc = "merge" /\ at <= Len(ranges) /\ ~Touches(ranges[at])
  /\ merged' = Append(merged, ranges[at])
  /\ at' = at + 1
  /\ UNCHANGED <<file, pc, ranges, start, size, out>>

\* rangeToCIDRs begins with range i.
SplitFrom(i) ==
  /\ at' = i
  /\ IF i <= Len(merged)
     THEN /\ pc' = "split"
          /\ start' = merged[i].start /\ size' = Alignment(merged[i].start)
     ELSE pc' = "done" /\ UNCHANGED <<start, size>>

MergeEnds ==
  /\ pc = "merge" /\ at > Len(ranges)
  /\ SplitFrom(1)
  /\ UNCHANGED <<file, ranges, merged, out>>

Remaining == merged[at].end - start + 1

Halve ==
  /\ pc = "split" /\ size > Remaining
  /\ size' = size \div 2
  /\ UNCHANGED <<file, pc, at, ranges, merged, start, out>>

Emit ==
  /\ pc = "split" /\ size <= Remaining
  /\ out' = Append(out, [start |-> start, size |-> size])
  /\ IF size >= Remaining THEN SplitFrom(at + 1)
     ELSE /\ start' = (start + size) % Space
          /\ size' = Alignment((start + size) % Space)
          /\ UNCHANGED <<pc, at>>
  /\ UNCHANGED <<file, ranges, merged>>

Next ==
  \/ SkipLine \/ BadLine \/ ReadLine \/ ReadEnds \/ Sort
  \/ Extend \/ Add \/ MergeEnds \/ Halve \/ Emit

\* It is one goroutine: it goes on.
Spec == Init /\ [][Next]_vars /\ WF_vars(Next)

-------------------------------------------------------------------------------
(* Properties *)

\* A line has address a: they agree in the bits of the prefix.
Gives(line, a) ==
  /\ line \in Cidrs
  /\ LET block == Power[W - line.ones] IN a \div block = line.addr \div block

Within(block, a) == block.start <= a /\ a < block.start + block.size

\* The blocks have the addresses of the file, all of them and no others, and a
\* file with a bad line has no result (cidr.go 18-44, 67-119): a rule must not
\* lose or gain addresses, at 0.0.0.0 and 255.255.255.255 least of all.
SameAddresses ==
  pc = "done" =>
    /\ \A i \in DOMAIN file : file[i] # Bad
    /\ \A a \in Addresses :
         (\E i \in DOMAIN out : Within(out[i], a)) <=> (\E i \in DOMAIN file : Gives(file[i], a))

\* nft rejects overlapping elements of an interval set, and a block with host bits
\* is not what its prefix says: the blocks are aligned, ascend and are disjoint
\* (cidr.go 86-112, 141-165).
ProperBlocks ==
  /\ \A i \in DOMAIN out : Divides(out[i].size, out[i].start)
  /\ \A i \in DOMAIN out : i > 1 => out[i - 1].start + out[i - 1].size <= out[i].start

\* No two neighbours could be written as one block (cidr.go 98-101, 141-165).
Minimal ==
  \A i \in DOMAIN out : i > 1 =>
    ~ /\ out[i - 1].size = out[i].size
      /\ out[i - 1].start + out[i].size = out[i].start
      /\ Divides(2 * out[i].size, out[i - 1].start)

\* The loops end, even for ranges that end with the last address
\* (cidr.go 160-163).
Terminates == <>(pc \in {"done", "failed"})
===============================================================================
