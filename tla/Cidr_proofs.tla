------------------------------ MODULE Cidr_proofs ------------------------------
(***************************************************************************)
(* Proofs about Cidr, for addresses of any width and files of any length.  *)
(***************************************************************************)
EXTENDS Cidr, Ranks

-------------------------------------------------------------------------------
(* Arithmetic *)

LEMMA Quotient ==
  ASSUME NEW n \in Nat, NEW b \in Nat \ {0}
  PROVE  n \div b \in Nat /\ b * (n \div b) <= n /\ n < b * (n \div b) + b
  OBVIOUS

LEMMA Multiples ==
  ASSUME NEW b \in Nat \ {0}, NEW q \in Nat, NEW m \in Nat, b * q < b * m
  PROVE  b * q + b <= b * m
  <1>1. q < m
    OBVIOUS
  <1>2. b * (q + 1) <= b * m
    BY <1>1
  <1> QED
    BY <1>2

LEMMA SameQuotient ==
  ASSUME NEW a \in Nat, NEW b \in Nat \ {0}, NEW q \in Nat
  PROVE  a \div b = q <=> b * q <= a /\ a < b * q + b
  <1>1. ASSUME b * q <= a, a < b * q + b PROVE a \div b = q
    <2> DEFINE p == a \div b
    <2>1. p \in Nat /\ b * p <= a /\ a < b * p + b
      BY Quotient
    <2> HIDE DEF p
    <2>2. b * p < b * (q + 1) /\ b * q < b * (p + 1)
      BY <1>1, <2>1
    <2>3. p < q + 1 /\ q < p + 1
      BY <2>1, <2>2
    <2> QED
      BY <2>1, <2>3 DEF p
  <1> QED
    BY <1>1, Quotient

LEMMA SpaceType == Space \in Nat \ {0}
  BY CidrAssumption DEF Space

LEMMA PowerDividesSpace ==
  ASSUME NEW t \in 0 .. W
  PROVE  \E m \in Nat : Space = Power[t] * m
  <1> DEFINE Odd == {j \in 0 .. W : ~ \E m \in Nat : Space = Power[W - j] * m}
  <1>1. Odd = {}
    <2> SUFFICES ASSUME Odd # {} PROVE FALSE
      OBVIOUS
    <2>1. Odd \in SUBSET Nat
      BY CidrAssumption
    <2>2. PICK j \in Odd : \A i \in Odd : j <= i
      BY <2>1, LeastElement
    <2>3. Space = Power[W - 0] * 1
      BY CidrAssumption DEF Space
    <2>4. j # 0 /\ j \in 0 .. W
      BY <2>3
    <2>5. j - 1 \in 0 .. W /\ j - 1 \notin Odd
      <3> HIDE DEF Odd
      <3>1. j - 1 \in 0 .. W /\ ~(j <= j - 1)
        BY <2>4, CidrAssumption
      <3> QED
        BY <2>2, <3>1
    <2>6. PICK m \in Nat : Space = Power[W - (j - 1)] * m
      BY <2>5
    <2>7. W - (j - 1) \in 1 .. W /\ (W - (j - 1)) - 1 = W - j
      BY <2>4, CidrAssumption
    <2>8. Power[W - (j - 1)] = 2 * Power[W - j] /\ Power[W - j] \in Nat
      BY <2>4, <2>7, CidrAssumption
    <2>9. Space = Power[W - j] * (2 * m)
      BY <2>6, <2>8
    <2> QED
      BY <2>2, <2>9
  <1>2. W - t \in 0 .. W /\ W - (W - t) = t
    BY CidrAssumption
  <1> QED
    BY <1>1, <1>2

\* A block of the size and alignment that a prefix has.
LEMMA RangeProper ==
  ASSUME NEW c \in Cidrs
  PROVE  /\ RangeOf(c) \in Ranges /\ RangeOf(c).start <= RangeOf(c).end
         /\ \A a \in Addresses :
              RangeOf(c).start <= a /\ a <= RangeOf(c).end
                <=> a \div Power[W - c.ones] = c.addr \div Power[W - c.ones]
  <1> DEFINE b == Power[W - c.ones]
             q == c.addr \div b
  <1>1. c.addr \in Nat /\ c.addr < Space /\ Space \in Nat
    BY SpaceType DEF Cidrs, Addresses
  <1>2. W - c.ones \in 0 .. W /\ b \in Nat \ {0}
    BY CidrAssumption DEF Cidrs
  <1>3. PICK m \in Nat : Space = b * m
    BY <1>2, PowerDividesSpace
  <1>4. q \in Nat /\ b * q <= c.addr
    BY <1>1, <1>2, Quotient
  <1> HIDE DEF b, q
  <1>5. b * q + b <= Space
    BY <1>1, <1>2, <1>3, <1>4, Multiples
  <1>6. b * q \in Nat
    BY <1>2, <1>4
  <1> DEFINE n == b * q
  <1>7. RangeOf(c) = [start |-> n, end |-> (n + (b - 1)) % Space]
    BY DEF RangeOf, b, q
  <1>8. n \in Nat /\ n + b <= Space
    BY <1>5, <1>6
  <1>9. ASSUME NEW a \in Addresses PROVE a \div b = q <=> n <= a /\ a < n + b
    <2>1. a \in Nat
      BY <1>1 DEF Addresses
    <2>2. a \div b = q <=> b * q <= a /\ a < b * q + b
      BY <2>1, <1>2, <1>4, SameQuotient
    <2> QED
      BY <2>2
  <1> HIDE DEF n
  <1>10. (n + (b - 1)) % Space = n + (b - 1)
    BY <1>1, <1>2, <1>8
  <1>11. RangeOf(c).start = n /\ RangeOf(c).end = n + (b - 1)
    BY <1>7, <1>10
  <1>12. \A a \in Addresses : n <= a /\ a <= n + (b - 1) <=> n <= a /\ a < n + b
    BY <1>1, <1>2, <1>8 DEF Addresses
  <1>13. RangeOf(c) \in Ranges /\ n <= n + (b - 1)
    BY <1>1, <1>2, <1>7, <1>8, <1>10 DEF Ranges, Addresses
  <1> QED
    BY <1>9, <1>11, <1>12, <1>13 DEF b, q

LEMMA SizeTypes ==
  /\ Sizes \subseteq Nat \ {0} /\ 1 \in Sizes
  /\ \A s \in Sizes : s > 1 => s \div 2 \in Sizes /\ s = 2 * (s \div 2)
  <1>1. Sizes \subseteq Nat \ {0} /\ 1 \in Sizes
    BY CidrAssumption DEF Sizes
  <1>2. ASSUME NEW s \in Sizes, s > 1
        PROVE  s \div 2 \in Sizes /\ s = 2 * (s \div 2)
    <2>1. PICK t \in 0 .. W : s = Power[t]
      BY DEF Sizes
    <2>2. t \in 1 .. W
      BY <1>2, <2>1, CidrAssumption
    <2>3. t - 1 \in 0 .. W /\ s = 2 * Power[t - 1] /\ Power[t - 1] \in Nat
      BY <2>1, <2>2, CidrAssumption
    <2>4. s \div 2 = Power[t - 1]
      BY <2>3
    <2> QED
      BY <2>3, <2>4 DEF Sizes
  <1> QED
    BY <1>1, <1>2

\* The alignment is the largest power of two that divides the address.
LEMMA AlignmentBest ==
  ASSUME NEW first \in Addresses
  PROVE  \E t \in 0 .. W :
           /\ Alignment(first) = Power[t] /\ Divides(Power[t], first)
           /\ \A u \in 0 .. W : Divides(Power[u], first) => u <= t
  <1> DEFINE Fits(t) == Divides(Power[t], first)
             Gaps == {j \in 0 .. W : Fits(W - j)}
             best == CHOOSE t \in 0 .. W : Fits(t) /\ \A u \in 0 .. W : Fits(u) => u <= t
  <1>1. first = first * Power[0] /\ first \in 0 .. first
    BY CidrAssumption, SpaceType DEF Addresses
  <1>2. Fits(0)
    BY <1>1 DEF Divides
  <1>3. Alignment(first) = Power[best]
    BY DEF Alignment
  <1> HIDE DEF Fits
  <1>4. W - W = 0 /\ W \in 0 .. W
    BY CidrAssumption
  <1>5. Gaps # {} /\ Gaps \in SUBSET Nat
    <2>1. 0 .. W \subseteq Nat
      BY CidrAssumption
    <2>2. W \in Gaps
      BY <1>2, <1>4
    <2> QED
      BY <2>1, <2>2
  <1>6. PICK j \in Gaps : \A i \in Gaps : j <= i
    BY <1>5, LeastElement
  <1>7. ASSUME NEW u \in 0 .. W, Fits(u) PROVE u <= W - j
    <2>1. W - u \in 0 .. W /\ W - (W - u) = u
      BY CidrAssumption
    <2>2. W - u \in Gaps
      BY <1>7, <2>1
    <2>3. j \in 0 .. W /\ j <= W - u
      BY <1>6, <2>2
    <2> HIDE DEF Gaps
    <2> QED
      BY <2>1, <2>3, CidrAssumption
  <1>8. W - j \in 0 .. W /\ Fits(W - j)
    BY <1>6, CidrAssumption
  <1>9. best \in 0 .. W /\ Fits(best) /\ \A u \in 0 .. W : Fits(u) => u <= best
    BY <1>7, <1>8
  <1> HIDE DEF best
  <1> QED
    BY <1>3, <1>9 DEF Fits

LEMMA AlignmentProper ==
  ASSUME NEW first \in Addresses
  PROVE  Alignment(first) \in Sizes /\ Divides(Alignment(first), first)
  BY AlignmentBest DEF Sizes

LEMMA BlockTypes ==
  ASSUME NEW k \in Blocks
  PROVE  k.start \in Nat /\ k.size \in Nat
  <1>1. k.start \in Addresses /\ k.size \in Sizes
    BY DEF Blocks
  <1>2. k.size \in Nat
    BY <1>1, SizeTypes
  <1>3. k.start \in Nat
    BY <1>1, SpaceType DEF Addresses
  <1> QED
    BY <1>2, <1>3

LEMMA HalfDivides ==
  ASSUME NEW h \in Nat \ {0}, NEW n \in Nat, Divides(2 * h, n)
  PROVE  Divides(h, n)
  <1>1. PICK k \in 0 .. n : n = k * (2 * h)
    BY DEF Divides
  <1>2. n = (2 * k) * h /\ 2 * k \in Nat
    BY <1>1
  <1> DEFINE d == 2 * k
  <1> HIDE DEF d
  <1>3. d \in Nat /\ n = d * h
    BY <1>2 DEF d
  <1>4. d <= d * h
    BY <1>3
  <1> QED
    BY <1>3, <1>4 DEF Divides

-------------------------------------------------------------------------------
(* The inductive invariant *)

Has(r, a) == r.start <= a /\ a <= r.end

\* One of the first n ranges has a.
Covers(s, n, a) == \E i \in 1 .. n : Has(s[i], a)

\* Every range has an address, and there is one between two of them.
Solid(s)  == \A i \in 1 .. Len(s) : s[i].start <= s[i].end
Gapped(s) == \A i \in 1 .. Len(s) : i > 1 => s[i - 1].end + 1 < s[i].start

Ordered(s) == \A i \in 1 .. Len(s) : i > 1 => s[i - 1].start <= s[i].start

\* One of the first n lines gives a.
GivenBy(f, n, a) == \E i \in 1 .. n : Gives(f[i], a)

\* One of the blocks has a.
Listed(o, a) == \E i \in 1 .. Len(o) : Within(o[i], a)

Reading ==
  pc = "read" =>
    /\ at \in 1 .. Len(file) + 1
    /\ merged = <<>> /\ out = <<>>
    /\ \A i \in 1 .. at - 1 : file[i] # Bad
    /\ \A a \in Addresses : Covers(ranges, Len(ranges), a) <=> GivenBy(file, at - 1, a)

HasRead ==
  pc \in {"sort", "merge", "split", "done"} =>
    /\ \A i \in 1 .. Len(file) : file[i] # Bad
    /\ \A a \in Addresses : Covers(ranges, Len(ranges), a) <=> GivenBy(file, Len(file), a)

Merging ==
  /\ pc = "sort" => merged = <<>> /\ out = <<>>
  /\ pc = "merge" =>
       /\ out = <<>> /\ Ordered(ranges)
       /\ at \in 1 .. Len(ranges) + 1
       /\ merged # <<>> => at > 1 /\ Last.start <= ranges[at - 1].start
       /\ \A a \in Addresses : Covers(merged, Len(merged), a) <=> Covers(ranges, at - 1, a)

HasMerged ==
  pc \in {"split", "done"} =>
    \A a \in Addresses : Covers(merged, Len(merged), a) <=> GivenBy(file, Len(file), a)

Splitting ==
  /\ pc = "split" =>
       /\ at \in 1 .. Len(merged)
       /\ Has(merged[at], start) /\ Divides(size, start)
       /\ \A i \in 1 .. Len(out) : out[i].start + out[i].size <= start
       /\ \A a \in Addresses :
            Listed(out, a) <=> Covers(merged, at - 1, a) \/ (merged[at].start <= a /\ a < start)
  /\ pc = "done" => \A a \in Addresses : Listed(out, a) <=> Covers(merged, Len(merged), a)

IInv ==
  /\ TypeOK /\ Solid(ranges) /\ Solid(merged) /\ Gapped(merged)
  /\ Reading /\ HasRead /\ Merging /\ HasMerged /\ Splitting /\ ProperBlocks

-------------------------------------------------------------------------------
(* Sequences of ranges *)

LEMMA CoversNext ==
  ASSUME NEW s, NEW n \in Nat, NEW a
  PROVE  Covers(s, n + 1, a) <=> Covers(s, n, a) \/ Has(s[n + 1], a)
  BY DEF Covers

LEMMA CoversSame ==
  ASSUME NEW s, NEW t, NEW n \in Nat, NEW a, \A i \in 1 .. n : s[i] = t[i]
  PROVE  Covers(s, n, a) <=> Covers(t, n, a)
  BY DEF Covers

LEMMA CoversAppend ==
  ASSUME NEW s \in Seq(Ranges), NEW r \in Ranges, NEW a
  PROVE  /\ Append(s, r) \in Seq(Ranges)
         /\ Covers(Append(s, r), Len(Append(s, r)), a) <=> Covers(s, Len(s), a) \/ Has(r, a)
  <1> DEFINE t == Append(s, r)
  <1>1. t \in Seq(Ranges) /\ Len(t) = Len(s) + 1 /\ t[Len(s) + 1] = r /\ Len(s) \in Nat
    OBVIOUS
  <1>2. \A i \in 1 .. Len(s) : s[i] = t[i]
    OBVIOUS
  <1> HIDE DEF t
  <1>3. Covers(s, Len(s), a) <=> Covers(t, Len(s), a)
    BY <1>1, <1>2, CoversSame
  <1>4. Covers(t, Len(s) + 1, a) <=> Covers(t, Len(s), a) \/ Has(t[Len(s) + 1], a)
    BY <1>1, CoversNext
  <1> QED
    BY <1>1, <1>3, <1>4 DEF t

LEMMA AppendSolid ==
  ASSUME NEW s \in Seq(Ranges), NEW r \in Ranges, Solid(s), r.start <= r.end
  PROVE  Solid(Append(s, r))
  BY DEF Solid

\* The last of the ranges is given another end.
EndAt(s, e) == [s EXCEPT ![Len(s)].end = e]

\* The last of the merged ranges takes in one that touches it.
LEMMA CoversExtend ==
  ASSUME NEW s \in Seq(Ranges), NEW r \in Ranges, s # <<>>,
         NEW e \in Addresses,
         s[Len(s)].start <= r.start, r.start <= s[Len(s)].end + 1,
         s[Len(s)].start <= s[Len(s)].end, r.start <= r.end,
         e = IF r.end > s[Len(s)].end THEN r.end ELSE s[Len(s)].end,
         NEW a \in Addresses
  PROVE  /\ EndAt(s, e) \in Seq(Ranges) /\ Len(EndAt(s, e)) = Len(s)
         /\ \A i \in 1 .. Len(s) - 1 : EndAt(s, e)[i] = s[i]
         /\ EndAt(s, e)[Len(s)].start = s[Len(s)].start /\ EndAt(s, e)[Len(s)].end = e
         /\ Covers(EndAt(s, e), Len(s), a) <=> Covers(s, Len(s), a) \/ Has(r, a)
  <1> DEFINE n == Len(s) - 1
             t == EndAt(s, e)
  <1>1. n \in Nat /\ n + 1 = Len(s)
    OBVIOUS
  <1>2. s[n + 1] \in Ranges
    BY <1>1
  <1>3. [s[n + 1] EXCEPT !.end = e] \in Ranges
    BY <1>2 DEF Ranges
  <1>4. t = [s EXCEPT ![n + 1] = [s[n + 1] EXCEPT !.end = e]]
    BY <1>1 DEF EndAt
  <1> HIDE DEF t
  <1>5. t \in Seq(Ranges) /\ Len(t) = Len(s)
    BY <1>1, <1>3, <1>4
  <1>6. (\A i \in 1 .. n : t[i] = s[i]) /\ t[n + 1] = [s[n + 1] EXCEPT !.end = e]
    BY <1>1, <1>4
  <1>7. t[n + 1].start = s[n + 1].start /\ t[n + 1].end = e
    BY <1>2, <1>6 DEF Ranges
  <1> HIDE DEF n
  <1>8. Covers(t, n + 1, a) <=> Covers(t, n, a) \/ Has(t[n + 1], a)
    BY <1>1, CoversNext
  <1>9. Covers(s, n + 1, a) <=> Covers(s, n, a) \/ Has(s[n + 1], a)
    BY <1>1, CoversNext
  <1>10. Covers(t, n, a) <=> Covers(s, n, a)
    BY <1>1, <1>6, CoversSame
  <1>11. Has(t[n + 1], a) <=> Has(s[n + 1], a) \/ Has(r, a)
    <2> DEFINE x == s[n + 1].start
               y == s[n + 1].end
    <2>1. x \in Int /\ y \in Int /\ r.start \in Int /\ r.end \in Int /\ a \in Int
      BY <1>2, SpaceType DEF Ranges, Addresses
    <2>2. x <= r.start /\ r.start <= y + 1 /\ x <= y /\ r.start <= r.end
      BY <1>1
    <2>3. e = IF r.end > y THEN r.end ELSE y
      BY <1>1
    <2>4. Has(t[n + 1], a) <=> x <= a /\ a <= e
      BY <1>7 DEF Has
    <2>5. Has(s[n + 1], a) <=> x <= a /\ a <= y
      BY DEF Has
    <2>6. Has(r, a) <=> r.start <= a /\ a <= r.end
      BY DEF Has
    <2> HIDE DEF x, y
    <2> QED
      BY <2>1, <2>2, <2>3, <2>4, <2>5, <2>6
  <1> QED
    BY <1>1, <1>5, <1>6, <1>7, <1>8, <1>9, <1>10, <1>11 DEF n, t

-------------------------------------------------------------------------------
(* Every step keeps the invariant *)

LEMMA InitInv == Init => IInv
  <1> SUFFICES ASSUME Init PROVE IInv
    OBVIOUS
  <1>1. file \in Seq(Lines)
    BY CidrAssumption DEF Init
  <1>2. TypeOK
    BY <1>1, SizeTypes, SpaceType DEF Init, TypeOK, Addresses
  <1>3. Solid(ranges) /\ Solid(merged) /\ Gapped(merged) /\ ProperBlocks
    BY DEF Init, Solid, Gapped, ProperBlocks
  <1>4. Reading
    BY <1>1 DEF Init, Reading, Covers, GivenBy
  <1> QED
    BY <1>2, <1>3, <1>4 DEF Init, IInv, HasRead, Merging, HasMerged, Splitting

LEMMA GivenNext ==
  ASSUME NEW f, NEW n \in Nat, NEW a
  PROVE  GivenBy(f, n + 1, a) <=> GivenBy(f, n, a) \/ Gives(f[n + 1], a)
  BY DEF GivenBy

LEMMA SkipInv == IInv /\ SkipLine => IInv'
  <1> SUFFICES ASSUME IInv, SkipLine PROVE IInv'
    OBVIOUS
  <1>1. at \in Nat \ {0} /\ file[at] # Bad /\ file[at] \notin Cidrs
    BY CidrAssumption DEF IInv, TypeOK, SkipLine, Reading
  <1>2. \A a : GivenBy(file, at, a) <=> GivenBy(file, at - 1, a)
    <2> TAKE a
    <2>1. at - 1 \in Nat /\ (at - 1) + 1 = at
      BY <1>1
    <2> QED
      BY <1>1, <2>1, GivenNext DEF Gives
  <1>3. at \in 1 .. Len(file) /\ \A i \in 1 .. at : file[i] # Bad
    BY <1>1 DEF IInv, Reading, SkipLine, TypeOK
  <1>4. Reading'
    BY <1>1, <1>2, <1>3 DEF IInv, Reading, SkipLine, Addresses, Space, TypeOK
  <1> QED
    BY <1>1, <1>4 DEF IInv, SkipLine, TypeOK, HasRead, Merging, HasMerged, Splitting,
       Solid, Gapped, ProperBlocks

LEMMA BadInv == IInv /\ BadLine => IInv'
  BY DEF IInv, BadLine, TypeOK, Reading, HasRead, Merging, HasMerged, Splitting,
     Solid, Gapped, ProperBlocks

LEMMA ReadInv == IInv /\ ReadLine => IInv'
  <1> SUFFICES ASSUME IInv, ReadLine PROVE IInv'
    OBVIOUS
  <1> DEFINE r == RangeOf(file[at])
  <1>1. at \in 1 .. Len(file) /\ file[at] \in Cidrs /\ ranges \in Seq(Ranges)
    BY DEF IInv, TypeOK, ReadLine, Reading, Lines
  <1>2. r \in Ranges /\ r.start <= r.end /\ \A a \in Addresses : Has(r, a) <=> Gives(file[at], a)
    BY <1>1, RangeProper DEF Has, Gives
  <1> HIDE DEF r
  <1>3. ranges' = Append(ranges, r) /\ ranges' \in Seq(Ranges)
    BY <1>1, <1>2, CoversAppend DEF ReadLine, r
  <1>4. \A a \in Addresses : Covers(ranges', Len(ranges'), a) <=> GivenBy(file, at, a)
    <2> TAKE a \in Addresses
    <2>1. at - 1 \in Nat /\ (at - 1) + 1 = at
      BY <1>1
    <2>2. GivenBy(file, at, a) <=> GivenBy(file, at - 1, a) \/ Gives(file[at], a)
      BY <2>1, GivenNext
    <2>3. Covers(ranges', Len(ranges'), a) <=> Covers(ranges, Len(ranges), a) \/ Has(r, a)
      BY <1>1, <1>2, <1>3, CoversAppend
    <2>4. Covers(ranges, Len(ranges), a) <=> GivenBy(file, at - 1, a)
      BY DEF IInv, Reading, ReadLine
    <2> QED
      BY <1>2, <2>2, <2>3, <2>4
  <1>5. Solid(ranges')
    BY <1>1, <1>2, <1>3, AppendSolid DEF IInv
  <1>6. \A i \in 1 .. at : file[i] # Bad
    BY <1>1 DEF IInv, Reading, ReadLine
  <1>7. Reading'
    BY <1>1, <1>4, <1>6 DEF IInv, Reading, ReadLine, Addresses, Space
  <1> QED
    BY <1>1, <1>3, <1>5, <1>7 DEF IInv, ReadLine, TypeOK, HasRead, Merging, HasMerged,
       Splitting, Solid, Gapped, ProperBlocks

LEMMA ReadEndsInv == IInv /\ ReadEnds => IInv'
  <1> SUFFICES ASSUME IInv, ReadEnds PROVE IInv'
    OBVIOUS
  <1>1. at - 1 = Len(file) /\ merged = <<>> /\ out = <<>>
    BY DEF IInv, Reading, ReadEnds, TypeOK
  <1>2. HasRead'
    BY <1>1 DEF IInv, Reading, ReadEnds, HasRead, Addresses, Space
  <1>3. HasMerged' /\ Splitting'
    <2>1. CASE ranges = <<>>
      <3>1. \A a \in Addresses : ~Covers(ranges, Len(ranges), a) /\ ~Covers(merged, Len(merged), a)
                                   /\ ~Listed(out, a)
        BY <1>1, <2>1 DEF Covers, Listed
      <3>2. \A a \in Addresses : ~GivenBy(file, Len(file), a)
        BY <1>1, <3>1 DEF IInv, Reading, ReadEnds
      <3> QED
        BY <3>1, <3>2 DEF ReadEnds, HasMerged, Splitting, Addresses, Space
    <2>2. CASE ranges # <<>>
      BY <2>2 DEF ReadEnds, HasMerged, Splitting
    <2> QED
      BY <2>1, <2>2
  <1> QED
    BY <1>1, <1>2, <1>3 DEF IInv, ReadEnds, TypeOK, Reading, Merging, Solid, Gapped, ProperBlocks

LEMMA SortInv == IInv /\ Sort => IInv'
  <1> SUFFICES ASSUME IInv, Sort PROVE IInv'
    OBVIOUS
  <1> DEFINE n == Len(ranges)
  <1>1. ranges \in Seq(Ranges) /\ n \in Nat /\ DOMAIN ranges = 1 .. n
    BY DEF IInv, TypeOK
  <1>2. PICK p \in [1 .. n -> 1 .. n] :
          /\ \A i \in 1 .. n : \E j \in 1 .. n : p[j] = i
          /\ \A i \in 1 .. n : i > 1 => Before(ranges[p[i - 1]], ranges[p[i]])
          /\ ranges' = [i \in 1 .. n |-> ranges[p[i]]]
    <2>1. PICK p \in [DOMAIN ranges -> DOMAIN ranges] :
            /\ \A i \in DOMAIN ranges : \E j \in DOMAIN ranges : p[j] = i
            /\ \A i \in DOMAIN ranges : i > 1 => Before(ranges[p[i - 1]], ranges[p[i]])
            /\ ranges' = [i \in 1 .. Len(ranges) |-> ranges[p[i]]]
      BY DEF Sort
    <2> HIDE DEF n
    <2>2. /\ p \in [1 .. n -> 1 .. n]
          /\ \A i \in 1 .. n : \E j \in 1 .. n : p[j] = i
          /\ \A i \in 1 .. n : i > 1 => Before(ranges[p[i - 1]], ranges[p[i]])
      BY <1>1, <2>1, Zenon
    <2>3. ranges' = [i \in 1 .. n |-> ranges[p[i]]]
      BY <2>1 DEF n
    <2> QED
      BY <2>2, <2>3
  <1>3. ranges' \in Seq(Ranges) /\ Len(ranges') = n
    BY <1>1, <1>2
  <1>4. \A i \in 1 .. n : p[i] \in 1 .. n /\ ranges'[i] = ranges[p[i]]
    BY <1>2
  <1>5. \A a : Covers(ranges', n, a) <=> Covers(ranges, n, a)
    BY <1>2, <1>4 DEF Covers
  <1>6. Solid(ranges')
    BY <1>1, <1>3, <1>4 DEF IInv, Solid
  <1>7. Ordered(ranges')
    <2>1. ASSUME NEW i \in 1 .. n, i > 1
          PROVE  ranges'[i - 1].start <= ranges'[i].start
      <3>1. i - 1 \in 1 .. n
        BY <1>1, <2>1
      <3>2. ranges'[i - 1] \in Ranges /\ ranges'[i] \in Ranges
        BY <1>3, <3>1
      <3>3. ranges'[i - 1].start \in Int /\ ranges'[i].start \in Int
        BY <3>2, SpaceType DEF Ranges, Addresses
      <3>4. Before(ranges'[i - 1], ranges'[i])
        BY <1>2, <1>4, <2>1, <3>1
      <3> QED
        BY <3>3, <3>4 DEF Before
    <2> QED
      BY <1>3, <2>1 DEF Ordered
  <1>8. merged = <<>> /\ out = <<>> /\ \A a : ~Covers(ranges', 0, a) /\ ~Covers(merged, Len(merged), a)
    BY DEF IInv, Merging, Sort, Covers
  <1>9. TypeOK'
    BY <1>3 DEF IInv, TypeOK, Sort
  <1>10. HasRead'
    BY <1>3, <1>5 DEF IInv, HasRead, Sort, Addresses, Space
  <1> HIDE DEF n
  <1>11. Merging'
    BY <1>1, <1>3, <1>7, <1>8 DEF Merging, Sort
  <1> QED
    BY <1>6, <1>9, <1>10, <1>11
    DEF IInv, Sort, Reading, HasMerged, Splitting, Solid, Gapped, ProperBlocks

\* What Extend and Add have in common.
LEMMA MergeStep ==
  ASSUME IInv, pc = "merge", at <= Len(ranges)
  PROVE  /\ at \in 1 .. Len(ranges) /\ ranges[at] \in Ranges
         /\ ranges[at].start <= ranges[at].end
         /\ merged # <<>> => /\ Last \in Ranges /\ Last.start <= Last.end
                             /\ Last.start <= ranges[at].start
         /\ \A a : Covers(ranges, at, a) <=> Covers(ranges, at - 1, a) \/ Has(ranges[at], a)
  <1>1. at \in 1 .. Len(ranges) /\ ranges \in Seq(Ranges) /\ merged \in Seq(Ranges)
    BY DEF IInv, Merging, TypeOK
  <1>2. ranges[at] \in Ranges /\ ranges[at].start <= ranges[at].end
    BY <1>1 DEF IInv, Solid
  <1>3. \A a : Covers(ranges, at, a) <=> Covers(ranges, at - 1, a) \/ Has(ranges[at], a)
    <2>1. at - 1 \in Nat /\ (at - 1) + 1 = at
      BY <1>1
    <2> QED
      BY <2>1, CoversNext
  <1>4. ASSUME merged # <<>>
        PROVE  Last \in Ranges /\ Last.start <= Last.end /\ Last.start <= ranges[at].start
    <2>1. Len(merged) \in 1 .. Len(merged)
      BY <1>1, <1>4
    <2>2. Last \in Ranges /\ Last.start <= Last.end
      BY <1>1, <2>1 DEF IInv, Solid, Last
    <2>3. at > 1 /\ Last.start <= ranges[at - 1].start /\ Ordered(ranges)
      BY <1>4 DEF IInv, Merging
    <2>4. at - 1 \in 1 .. Len(ranges)
      BY <1>1, <2>3
    <2>5. ranges[at - 1] \in Ranges /\ ranges[at - 1].start <= ranges[at].start
      BY <1>1, <2>3, <2>4 DEF Ordered
    <2>6. Last.start \in Int /\ ranges[at - 1].start \in Int /\ ranges[at].start \in Int
      BY <1>2, <2>2, <2>5, SpaceType DEF Ranges, Addresses
    <2> QED
      BY <2>2, <2>3, <2>5, <2>6
  <1> QED
    BY <1>1, <1>2, <1>3, <1>4

LEMMA ExtendInv == IInv /\ Extend => IInv'
  <1> SUFFICES ASSUME IInv, Extend PROVE IInv'
    OBVIOUS
  <1> DEFINE r == ranges[at]
             n == Len(merged)
             e == IF r.end > Last.end THEN r.end ELSE Last.end
  <1>1. /\ at \in 1 .. Len(ranges) /\ r \in Ranges /\ r.start <= r.end
        /\ merged # <<>> /\ merged \in Seq(Ranges)
        /\ Last \in Ranges /\ Last.start <= Last.end
        /\ Last.start <= r.start /\ r.start <= Last.end + 1
        /\ \A a : Covers(ranges, at, a) <=> Covers(ranges, at - 1, a) \/ Has(r, a)
    BY MergeStep DEF Extend, Touches, IInv, TypeOK
  <1>2. n \in 1 .. n /\ merged[n] = Last /\ n \in Nat
    BY <1>1 DEF Last
  <1>3. e \in Addresses /\ r.end \in Addresses /\ Last.end \in Addresses
    BY <1>1 DEF Ranges
  <1>4. merged' = [merged EXCEPT ![n].end = e]
    <2>1. CASE r.end > Last.end
      BY <2>1 DEF Extend
    <2>2. CASE ~(r.end > Last.end)
      <3>1. merged[n] = [start |-> merged[n].start, end |-> merged[n].end]
        BY <1>1, <1>2 DEF Ranges
      <3>2. [merged[n] EXCEPT !.end = e] = merged[n]
        BY <2>2, <1>1, <1>2, <3>1 DEF Ranges
      <3>3. [merged EXCEPT ![n].end = e] = [merged EXCEPT ![n] = [merged[n] EXCEPT !.end = e]]
        BY <1>1, <1>2
      <3>4. [merged EXCEPT ![n] = merged[n]] = merged
        BY <1>1, <1>2
      <3> QED
        BY <2>2, <3>2, <3>3, <3>4 DEF Extend
    <2> QED
      BY <2>1, <2>2
  <1> HIDE DEF r, n, e
  <1>5. ASSUME NEW a \in Addresses
        PROVE  /\ merged' \in Seq(Ranges) /\ Len(merged') = n
               /\ \A i \in 1 .. n - 1 : merged'[i] = merged[i]
               /\ merged'[n].start = Last.start /\ merged'[n].end = e
               /\ Covers(merged', Len(merged'), a) <=> Covers(merged, Len(merged), a) \/ Has(r, a)
    <2>1. e = IF r.end > merged[Len(merged)].end THEN r.end ELSE merged[Len(merged)].end
      BY DEF e, Last
    <2>2. /\ merged[Len(merged)].start <= r.start /\ r.start <= merged[Len(merged)].end + 1
          /\ merged[Len(merged)].start <= merged[Len(merged)].end
      BY <1>1 DEF Last
    <2>3. merged' = [merged EXCEPT ![Len(merged)].end = e]
      BY <1>4 DEF n
    <2>4. merged' = EndAt(merged, e)
      BY <2>3 DEF EndAt
    <2>5. merged \in Seq(Ranges) /\ r \in Ranges /\ merged # <<>> /\ e \in Addresses /\ r.start <= r.end
      BY <1>1, <1>3
    <2>6. /\ EndAt(merged, e) \in Seq(Ranges) /\ Len(EndAt(merged, e)) = Len(merged)
          /\ \A i \in 1 .. Len(merged) - 1 : EndAt(merged, e)[i] = merged[i]
          /\ EndAt(merged, e)[Len(merged)].start = merged[Len(merged)].start
          /\ EndAt(merged, e)[Len(merged)].end = e
          /\ Covers(EndAt(merged, e), Len(merged), a)
               <=> Covers(merged, Len(merged), a) \/ Has(r, a)
      BY <2>1, <2>2, <2>5, CoversExtend
    <2> QED
      BY <2>4, <2>6 DEF n, Last
  <1>6. /\ merged' \in Seq(Ranges) /\ Len(merged') = n
        /\ \A i \in 1 .. n - 1 : merged'[i] = merged[i]
        /\ merged'[n].start = Last.start /\ merged'[n].end = e
    BY <1>3, <1>5
  <1>7. Solid(merged') /\ Gapped(merged')
    <2>1. Last.start <= e
      BY <1>1, <1>3, SpaceType DEF e, Ranges, Addresses
    <2>2. ASSUME NEW i \in 1 .. n PROVE merged'[i].start <= merged'[i].end /\ merged'[i].start = merged[i].start
      <3>1. CASE i = n
        BY <1>2, <1>6, <2>1, <3>1
      <3>2. CASE i # n
        <4>1. i \in 1 .. n - 1
          BY <1>2, <3>2
        <4> QED
          BY <1>6, <4>1 DEF IInv, Solid, n
      <3> QED
        BY <3>1, <3>2
    <2>3. ASSUME NEW i \in 1 .. n, i > 1
          PROVE  merged'[i - 1].end + 1 < merged'[i].start
      <3>1. i - 1 \in 1 .. n - 1
        BY <1>2, <2>3
      <3> QED
        BY <1>6, <2>2, <2>3, <3>1 DEF IInv, Gapped, n
    <2> QED
      BY <1>6, <2>2, <2>3 DEF Solid, Gapped
  <1>8. merged' # <<>> /\ Last' = merged'[n]
    BY <1>2, <1>6 DEF Last
  <1>9. \A a \in Addresses : Covers(merged', Len(merged'), a) <=> Covers(ranges, at, a)
    BY <1>1, <1>5 DEF IInv, Merging, Extend
  <1>10. Merging'
    <2>1. at' = at + 1 /\ ranges' = ranges /\ at' - 1 = at /\ pc' = "merge" /\ out' = <<>>
      BY <1>1 DEF IInv, Merging, Extend
    <2>2. at' \in 1 .. Len(ranges') + 1 /\ at' > 1 /\ Ordered(ranges')
      BY <1>1, <2>1 DEF IInv, Merging, Extend
    <2>3. Last'.start <= ranges'[at' - 1].start
      BY <1>1, <1>6, <1>8, <2>1 DEF r
    <2> QED
      BY <1>9, <2>1, <2>2, <2>3 DEF Merging, Addresses, Space
  <1> QED
    BY <1>6, <1>7, <1>10
    DEF IInv, Extend, TypeOK, Reading, HasRead, HasMerged, Splitting, Solid, ProperBlocks

LEMMA AddInv == IInv /\ Add => IInv'
  <1> SUFFICES ASSUME IInv, Add PROVE IInv'
    OBVIOUS
  <1> DEFINE r == ranges[at]
             n == Len(merged)
  <1>1. /\ at \in 1 .. Len(ranges) /\ r \in Ranges /\ r.start <= r.end
        /\ merged \in Seq(Ranges) /\ ranges \in Seq(Ranges) /\ n \in Nat
        /\ merged # <<>> => ~(r.start <= Last.end + 1) /\ Last \in Ranges
        /\ \A a : Covers(ranges, at, a) <=> Covers(ranges, at - 1, a) \/ Has(r, a)
    BY MergeStep DEF Add, Touches, IInv, TypeOK
  <1> HIDE DEF r
  <1>2. merged' = Append(merged, r)
    BY DEF Add, r
  <1>3. /\ merged' \in Seq(Ranges) /\ Len(merged') = n + 1 /\ merged'[n + 1] = r
        /\ \A i \in 1 .. n : merged'[i] = merged[i]
    BY <1>1, <1>2
  <1>4. Solid(merged')
    BY <1>1, <1>2, AppendSolid DEF IInv
  <1>5. Gapped(merged')
    <2>1. ASSUME NEW i \in 1 .. n + 1, i > 1
          PROVE  merged'[i - 1].end + 1 < merged'[i].start
      <3>1. CASE i = n + 1
        <4>1. merged # <<>> /\ i - 1 = n /\ n \in 1 .. n
          BY <1>1, <2>1, <3>1
        <4>2. merged'[i - 1] = Last /\ merged'[i] = r
          BY <1>3, <3>1, <4>1 DEF Last
        <4>3. Last.end \in Int /\ r.start \in Int /\ ~(r.start <= Last.end + 1)
          BY <1>1, <4>1, SpaceType DEF Ranges, Addresses
        <4> QED
          BY <4>2, <4>3
      <3>2. CASE i # n + 1
        <4>1. i \in 1 .. n /\ i - 1 \in 1 .. n
          BY <1>1, <2>1, <3>2
        <4> QED
          BY <1>3, <2>1, <4>1 DEF IInv, Gapped
      <3> QED
        BY <3>1, <3>2
    <2> QED
      BY <1>3, <2>1 DEF Gapped
  <1>6. Merging'
    <2>1. at' = at + 1 /\ ranges' = ranges /\ at' - 1 = at /\ pc' = "merge" /\ out' = <<>>
      BY <1>1 DEF IInv, Merging, Add
    <2>2. at' \in 1 .. Len(ranges') + 1 /\ at' > 1 /\ Ordered(ranges')
      BY <1>1, <2>1 DEF IInv, Merging, Add
    <2>3. Last' = r /\ ranges'[at' - 1] = r /\ r.start <= r.start
      BY <1>1, <1>3, <2>1, SpaceType DEF Last, r, Ranges, Addresses
    <2>4. \A a \in Addresses : Covers(merged', Len(merged'), a) <=> Covers(ranges, at, a)
      <3> TAKE a \in Addresses
      <3>1. Covers(merged', Len(merged'), a) <=> Covers(merged, Len(merged), a) \/ Has(r, a)
        BY <1>1, <1>2, CoversAppend
      <3> QED
        BY <1>1, <3>1 DEF IInv, Merging, Add
    <2> QED
      BY <2>1, <2>2, <2>3, <2>4 DEF Merging, Addresses, Space
  <1> QED
    BY <1>3, <1>4, <1>5, <1>6
    DEF IInv, Add, TypeOK, Reading, HasRead, HasMerged, Splitting, Solid, ProperBlocks

\* The next range is begun when the blocks cover those before it.
LEMMA SplitFromInv ==
  ASSUME NEW i \in 1 .. Len(merged) + 1, SplitFrom(i), merged' = merged,
         merged \in Seq(Ranges), Solid(merged),
         start \in Addresses, size \in Sizes, pc \in {"merge", "split"},
         \A a \in Addresses : Listed(out', a) <=> Covers(merged, i - 1, a),
         i <= Len(merged) =>
           \A j \in 1 .. Len(out') : out'[j].start + out'[j].size <= merged[i].start
  PROVE  /\ pc' \in {"split", "done"} /\ at' \in Nat /\ start' \in Addresses /\ size' \in Sizes
         /\ Splitting'
  <1>1. Len(merged) \in Nat
    OBVIOUS
  <1>2. CASE i <= Len(merged)
    <2>1. i \in 1 .. Len(merged) /\ merged[i] \in Ranges /\ merged[i].start <= merged[i].end
      BY <1>1, <1>2 DEF Solid
    <2> DEFINE f == merged[i].start
    <2>2. f \in Addresses /\ Has(merged[i], f)
      BY <2>1, SpaceType DEF Ranges, Has, Addresses
    <2>3. Alignment(f) \in Sizes /\ Divides(Alignment(f), f)
      BY <2>2, AlignmentProper
    <2>4. at' = i /\ pc' = "split" /\ start' = f /\ size' = Alignment(f)
      BY <1>2 DEF SplitFrom
    <2>5. \A a \in Addresses : ~(f <= a /\ a < f)
      BY <2>2, SpaceType DEF Addresses
    <2> HIDE DEF f
    <2>6. merged[i].start = f
      BY DEF f
    <2>7. Splitting'
      BY <2>1, <2>2, <2>3, <2>4, <2>5, <2>6, <1>2 DEF Splitting, Addresses, Space
    <2> QED
      BY <2>1, <2>2, <2>3, <2>4, <2>7
  <1>3. CASE ~(i <= Len(merged))
    <2>1. at' = i /\ pc' = "done" /\ start' = start /\ size' = size /\ i - 1 = Len(merged)
      BY <1>1, <1>3 DEF SplitFrom
    <2> QED
      BY <1>1, <2>1 DEF Splitting, Addresses, Space
  <1> QED
    BY <1>2, <1>3

LEMMA MergeEndsInv == IInv /\ MergeEnds => IInv'
  <1> SUFFICES ASSUME IInv, MergeEnds PROVE IInv'
    OBVIOUS
  <1>1. /\ at - 1 = Len(ranges) /\ out = <<>> /\ pc = "merge" /\ merged \in Seq(Ranges)
        /\ merged' = merged /\ out' = out
    BY DEF IInv, Merging, MergeEnds, TypeOK
  <1>2. \A a \in Addresses : Covers(merged, Len(merged), a) <=> GivenBy(file, Len(file), a)
    BY <1>1 DEF IInv, Merging, HasRead
  <1>3. \A a \in Addresses : Listed(out', a) <=> Covers(merged, 1 - 1, a)
    BY <1>1 DEF Listed, Covers
  <1>4. 1 \in 1 .. Len(merged) + 1
    BY <1>1
  <1>5. \A j \in 1 .. Len(out') : FALSE
    BY <1>1
  <1>6. /\ pc' \in {"split", "done"} /\ at' \in Nat /\ start' \in Addresses /\ size' \in Sizes
        /\ Splitting'
    BY <1>1, <1>3, <1>4, <1>5, SplitFromInv DEF IInv, TypeOK, MergeEnds
  <1>7. HasMerged'
    BY <1>2 DEF MergeEnds, HasMerged, Addresses, Space
  <1> QED
    BY <1>6, <1>7
    DEF IInv, MergeEnds, TypeOK, Reading, HasRead, Merging, Solid, Gapped, ProperBlocks

LEMMA HalveInv == IInv /\ Halve => IInv'
  <1> SUFFICES ASSUME IInv, Halve PROVE IInv'
    OBVIOUS
  <1>1. /\ at \in 1 .. Len(merged) /\ merged \in Seq(Ranges) /\ size \in Sizes
        /\ start \in Addresses /\ Has(merged[at], start) /\ Divides(size, start)
    BY DEF IInv, TypeOK, Splitting, Halve
  <1>2. merged[at].end \in Int /\ start \in Nat /\ start <= merged[at].end
    <2>1. merged[at] \in Ranges
      BY <1>1
    <2> QED
      BY <1>1, <2>1, SpaceType DEF Has, Ranges, Addresses
  <1>3. size > 1
    BY <1>1, <1>2, SizeTypes DEF Halve, Remaining
  <1>4. size \div 2 \in Sizes /\ size = 2 * (size \div 2)
    BY <1>1, <1>3, SizeTypes
  <1>5. Divides(size \div 2, start)
    <2> DEFINE h == size \div 2
    <2>1. h \in Nat \ {0} /\ size = 2 * h
      BY <1>4, SizeTypes
    <2> HIDE DEF h
    <2>2. Divides(h, start)
      BY <1>1, <1>2, <2>1, HalfDivides
    <2> QED
      BY <2>2 DEF h
  <1>6. Splitting'
    BY <1>1, <1>5 DEF IInv, Splitting, Halve, Addresses, Space
  <1> QED
    BY <1>4, <1>6
    DEF IInv, Halve, TypeOK, Reading, HasRead, Merging, HasMerged, Solid, Gapped, ProperBlocks

LEMMA EmitInv == IInv /\ Emit => IInv'
  <1> SUFFICES ASSUME IInv, Emit PROVE IInv'
    OBVIOUS
  <1> DEFINE b == [start |-> start, size |-> size]
             r == merged[at]
             n == Len(out)
  <1>1. /\ pc = "split" /\ at \in 1 .. Len(merged) /\ merged \in Seq(Ranges) /\ size \in Sizes
        /\ start \in Addresses /\ Has(r, start) /\ Divides(size, start)
        /\ out \in Seq(Blocks) /\ n \in Nat /\ Len(merged) \in Nat
    BY DEF IInv, TypeOK, Splitting, Emit
  <1>2. r \in Ranges
    BY <1>1
  <1> HIDE DEF r
  <1>3. /\ r.start \in Nat /\ r.end \in Nat /\ r.end < Space /\ Space \in Nat
        /\ start \in Nat /\ r.start <= start /\ start <= r.end
        /\ size \in Nat \ {0} /\ size <= r.end - start + 1
    BY <1>1, <1>2, SpaceType, SizeTypes DEF Has, Ranges, Addresses, Emit, Remaining, r
  <1>4. b \in Blocks /\ out' = Append(out, b) /\ merged' = merged /\ file' = file /\ ranges' = ranges
    BY <1>1 DEF Blocks, Emit
  <1>5. b.start = start /\ b.size = size
    OBVIOUS
  <1> HIDE DEF b
  <1>6. /\ out' \in Seq(Blocks) /\ Len(out') = n + 1 /\ out'[n + 1] = b
        /\ \A i \in 1 .. n : out'[i] = out[i]
    BY <1>1, <1>4
  <1>7. \A i \in 1 .. n : out[i].start + out[i].size <= start
    BY <1>1 DEF IInv, Splitting
  <1> HIDE DEF n
  <1>8. \A a : Listed(out', a) <=> Listed(out, a) \/ Within(b, a)
    <2>1. \A i \in 1 .. n + 1 : i \in 1 .. n \/ i = n + 1
      BY <1>1
    <2>2. \A a : Listed(out, a) <=> \E i \in 1 .. n : Within(out[i], a)
      BY DEF Listed, n
    <2>3. \A a : Listed(out', a) <=> \E i \in 1 .. n + 1 : Within(out'[i], a)
      BY <1>6 DEF Listed
    <2>4. \A i \in 1 .. n : i \in 1 .. n + 1
      BY <1>1
    <2>5. n + 1 \in 1 .. n + 1
      BY <1>1
    <2> QED
      BY <1>6, <2>1, <2>2, <2>3, <2>4, <2>5
  <1>9. \A a \in Addresses : /\ Within(b, a) <=> start <= a /\ a < start + size
                             /\ Listed(out, a) <=> Covers(merged, at - 1, a) \/ (r.start <= a /\ a < start)
    BY <1>1, <1>5 DEF Within, IInv, Splitting, r
  <1>10. \A a \in Addresses :
           Listed(out', a) <=> Covers(merged, at - 1, a) \/ (r.start <= a /\ a < start + size)
    <2> TAKE a \in Addresses
    <2>1. a \in Int
      BY <1>3 DEF Addresses
    <2>2. (r.start <= a /\ a < start + size) <=> (r.start <= a /\ a < start) \/ (start <= a /\ a < start + size)
      BY <1>3, <2>1
    <2> QED
      BY <1>8, <1>9, <2>2
  <1>11. \A i \in 1 .. n + 1 : out'[i].start + out'[i].size <= start + size
    <2> TAKE i \in 1 .. n + 1
    <2>1. CASE i = n + 1
      BY <1>3, <1>5, <1>6, <2>1
    <2>2. CASE i # n + 1
      <3>1. i \in 1 .. n
        BY <1>1, <2>2
      <3>2. out[i] \in Blocks
        BY <1>1, <3>1 DEF n
      <3>3. out[i].start \in Int /\ out[i].size \in Int
        BY <3>2, BlockTypes
      <3> QED
        BY <1>3, <1>6, <1>7, <3>1, <3>3
    <2> QED
      BY <2>1, <2>2
  <1>12. ProperBlocks'
    <2>1. ASSUME NEW i \in 1 .. n + 1 PROVE Divides(out'[i].size, out'[i].start)
      <3>1. CASE i = n + 1
        BY <1>1, <1>5, <1>6, <3>1
      <3>2. CASE i # n + 1
        <4>1. i \in 1 .. n
          BY <1>1, <3>2
        <4> QED
          BY <1>1, <1>6, <4>1 DEF IInv, ProperBlocks, n
      <3> QED
        BY <3>1, <3>2
    <2>2. ASSUME NEW i \in 1 .. n + 1, i > 1
          PROVE  out'[i - 1].start + out'[i - 1].size <= out'[i].start
      <3>1. i - 1 \in 1 .. n
        BY <1>1, <2>2
      <3>2. CASE i = n + 1
        BY <1>5, <1>6, <1>7, <3>1, <3>2
      <3>3. CASE i # n + 1
        <4>1. i \in 1 .. n
          BY <1>1, <3>3
        <4>2. out[i - 1].start + out[i - 1].size <= out[i].start
          <5>1. i \in DOMAIN out
            BY <1>1, <4>1 DEF n
          <5> QED
            BY <2>2, <5>1 DEF IInv, ProperBlocks
        <4> QED
          BY <1>6, <3>1, <4>1, <4>2
      <3> QED
        BY <3>2, <3>3
    <2>3. DOMAIN out' = 1 .. n + 1
      BY <1>6
    <2> QED
      BY <2>1, <2>2, <2>3 DEF ProperBlocks
  <1>13. /\ pc' \in {"split", "done"} /\ at' \in Nat /\ start' \in Addresses /\ size' \in Sizes
         /\ Splitting'
    <2>1. CASE size >= r.end - start + 1
      <3>1. SplitFrom(at + 1) /\ start + size = r.end + 1
        <4>1. size >= Remaining
          BY <2>1 DEF Remaining, r
        <4>2. SplitFrom(at + 1)
          BY <4>1 DEF Emit
        <4> QED
          BY <1>3, <2>1, <4>2
      <3>2. \A a \in Addresses : Listed(out', a) <=> Covers(merged, (at + 1) - 1, a)
        <4> TAKE a \in Addresses
        <4>1. at - 1 \in Nat /\ (at - 1) + 1 = at /\ (at + 1) - 1 = at /\ a \in Int
          BY <1>1, <1>3 DEF Addresses
        <4>2. Covers(merged, at, a) <=> Covers(merged, at - 1, a) \/ Has(r, a)
          BY <4>1, CoversNext DEF r
        <4>3. Has(r, a) <=> r.start <= a /\ a < start + size
          BY <1>3, <3>1, <4>1 DEF Has
        <4> QED
          BY <1>10, <4>1, <4>2, <4>3
      <3>3. ASSUME at + 1 <= Len(merged), NEW j \in 1 .. Len(out')
            PROVE  out'[j].start + out'[j].size <= merged[at + 1].start
        <4>1. at + 1 \in 1 .. Len(merged) /\ (at + 1) - 1 = at /\ at + 1 > 1
          BY <1>1, <3>3
        <4>2. r.end + 1 < merged[at + 1].start /\ merged[at + 1] \in Ranges
          BY <1>1, <4>1 DEF IInv, Gapped, r
        <4>3. merged[at + 1].start \in Int
          BY <1>3, <4>2 DEF Ranges, Addresses
        <4>4. j \in 1 .. n + 1 /\ out'[j] \in Blocks
          BY <1>6, <3>3
        <4>5. out'[j].start + out'[j].size <= start + size
              /\ out'[j].start \in Int /\ out'[j].size \in Int
          BY <1>11, <4>4, BlockTypes
        <4>6. r.end \in Int /\ start + size = r.end + 1
          BY <1>3, <3>1
        <4> HIDE DEF r
        <4> QED
          BY ONLY <4>2, <4>3, <4>5, <4>6
      <3>4. at + 1 \in 1 .. Len(merged) + 1 /\ Solid(merged)
        BY <1>1 DEF IInv
      <3> QED
        BY <1>1, <1>4, <3>1, <3>2, <3>3, <3>4, SplitFromInv
    <2>2. CASE ~(size >= r.end - start + 1)
      <3> DEFINE f == start + size
      <3>1. f \in Addresses /\ f % Space = f /\ r.start <= f /\ f <= r.end /\ f \in Nat
        BY <1>3, <2>2 DEF Addresses
      <3>2. start' = f /\ size' = Alignment(f) /\ pc' = pc /\ at' = at
        BY <2>2, <3>1 DEF Emit, Remaining, r
      <3>3. Alignment(f) \in Sizes /\ Divides(Alignment(f), f)
        BY <3>1, AlignmentProper
      <3>4. /\ \A i \in 1 .. Len(out') : out'[i].start + out'[i].size <= f
            /\ \A a \in Addresses :
                 Listed(out', a) <=> Covers(merged, at - 1, a) \/ (r.start <= a /\ a < f)
        BY <1>6, <1>10, <1>11
      <3> HIDE DEF f
      <3>5. Has(r, f)
        BY <3>1 DEF Has
      <3>6. Splitting'
        BY <1>1, <1>4, <3>2, <3>3, <3>4, <3>5 DEF Splitting, Addresses, Space, r
      <3> QED
        BY <1>1, <3>1, <3>2, <3>3, <3>6
    <2> QED
      BY <2>1, <2>2
  <1>14. TypeOK' /\ HasMerged' /\ HasRead'
    BY <1>1, <1>4, <1>6, <1>13 DEF IInv, TypeOK, HasMerged, HasRead, Addresses, Space
  <1> QED
    BY <1>4, <1>12, <1>13, <1>14 DEF IInv, Reading, Merging, Solid, Gapped

LEMMA StepInv == IInv /\ [Next]_vars => IInv'
  <1> SUFFICES ASSUME IInv, [Next]_vars PROVE IInv'
    OBVIOUS
  <1>1. CASE UNCHANGED vars
    BY <1>1 DEF vars, IInv, TypeOK, Reading, HasRead, Merging, HasMerged, Splitting,
       Solid, Gapped, ProperBlocks, Last, Addresses, Space
  <1> QED
    BY <1>1, SkipInv, BadInv, ReadInv, ReadEndsInv, SortInv, ExtendInv, AddInv,
       MergeEndsInv, HalveInv, EmitInv DEF Next

LEMMA Invariance == Spec => []IInv
  BY InitInv, StepInv, PTL DEF Spec

-------------------------------------------------------------------------------
(* What follows from it *)

\* Every variable of the loops keeps its type: the addresses of a range and of a
\* block are 32 bits wide (cidr.go 18-165).
THEOREM TypeCorrect == Spec => []TypeOK
  <1>1. IInv => TypeOK
    BY DEF IInv
  <1> QED
    BY <1>1, Invariance, PTL

\* Whatever the file, and whatever the order in which equal ranges are sorted, its
\* blocks have its addresses and no others (cidr.go 18-165).
THEOREM Coverage == Spec => []SameAddresses
  <1>1. IInv => SameAddresses
    <2> SUFFICES ASSUME IInv, pc = "done"
                 PROVE  /\ \A i \in DOMAIN file : file[i] # Bad
                        /\ \A a \in Addresses : (\E i \in DOMAIN out : Within(out[i], a))
                                                  <=> (\E i \in DOMAIN file : Gives(file[i], a))
      BY DEF SameAddresses
    <2>1. DOMAIN out = 1 .. Len(out) /\ DOMAIN file = 1 .. Len(file)
      BY DEF IInv, TypeOK
    <2>2. \A a \in Addresses : Listed(out, a) <=> GivenBy(file, Len(file), a)
      BY DEF IInv, HasMerged, Splitting
    <2>3. \A i \in 1 .. Len(file) : file[i] # Bad
      BY DEF IInv, HasRead
    <2> QED
      BY <2>1, <2>2, <2>3 DEF Listed, GivenBy
  <1> QED
    BY <1>1, Invariance, PTL

\* The blocks are aligned, ascend and do not overlap (cidr.go 86-112, 141-165).
THEOREM Proper == Spec => []ProperBlocks
  <1>1. IInv => ProperBlocks
    BY DEF IInv
  <1> QED
    BY <1>1, Invariance, PTL

-------------------------------------------------------------------------------
(* No two blocks could be one *)

\* Twice the size that is tried is no block of the range: it is not aligned, or it
\* is too long.
Largest ==
  pc = "split" => (Divides(2 * size, start) => 2 * size > Remaining)

\* A block that ends where the next one begins, and that could be doubled there, is
\* longer than what is left of the range.
Apart ==
  pc = "split" /\ out # <<>> =>
    LET last == out[Len(out)]
    IN last.start + last.size = start /\ Divides(2 * last.size, last.start) =>
         Remaining < last.size

MinInv == Largest /\ Apart /\ Minimal

\* The next power of two does not divide the address, or the space is not larger.
LEMMA AlignmentLargest ==
  ASSUME NEW first \in Addresses
  PROVE  Divides(2 * Alignment(first), first) => 2 * Alignment(first) > Space
  <1>1. PICK t \in 0 .. W :
          /\ Alignment(first) = Power[t]
          /\ \A u \in 0 .. W : Divides(Power[u], first) => u <= t
    BY AlignmentBest
  <1>2. CASE t = W
    <2>1. Alignment(first) = Space
      BY <1>1, <1>2 DEF Space
    <2> QED
      BY <2>1, SpaceType
  <1>3. CASE t # W
    <2>1. t + 1 \in 1 .. W /\ t + 1 \in 0 .. W /\ (t + 1) - 1 = t /\ t \in Nat
      BY <1>3, CidrAssumption
    <2>2. Power[t + 1] = 2 * Power[t]
      BY <2>1, CidrAssumption
    <2>3. ~Divides(Power[t + 1], first)
      BY <1>1, <2>1
    <2> QED
      BY <1>1, <2>2, <2>3
  <1> QED
    BY <1>2, <1>3

\* What splitting begins with is the largest block there.
LEMMA LargestAtStart ==
  ASSUME NEW r \in Ranges, NEW f \in Addresses, f <= r.end
  PROVE  Divides(2 * Alignment(f), f) => 2 * Alignment(f) > r.end - f + 1
  <1>1. /\ f \in Nat /\ r.end \in Nat /\ r.end < Space /\ Space \in Nat
        /\ Alignment(f) \in Nat
    <2>1. Alignment(f) \in Nat
      BY AlignmentProper, SizeTypes
    <2>2. r.end \in Addresses
      BY DEF Ranges
    <2> QED
      BY <2>1, <2>2, SpaceType DEF Addresses
  <1>2. r.end - f + 1 <= Space
    BY <1>1
  <1> DEFINE left == r.end - f + 1
  <1> HIDE DEF left
  <1>3. left \in Int
    BY <1>1 DEF left
  <1> QED
    BY <1>1, <1>2, <1>3, AlignmentLargest DEF left

LEMMA MinSplitFrom ==
  ASSUME NEW i \in 1 .. Len(merged) + 1, SplitFrom(i), merged' = merged,
         merged \in Seq(Ranges), Solid(merged), pc' = "split"
  PROVE  /\ Largest'
         /\ at' = i /\ i \in 1 .. Len(merged) /\ start' = merged[i].start
  <1>1. Len(merged) \in Nat
    OBVIOUS
  <1>2. i \in 1 .. Len(merged)
    BY <1>1 DEF SplitFrom
  <1> DEFINE f == merged[i].start
  <1>3. merged[i] \in Ranges /\ f \in Addresses /\ f <= merged[i].end
    <2>1. merged[i] \in Ranges
      BY <1>2
    <2>2. f <= merged[i].end
      BY <1>2 DEF Solid
    <2> QED
      BY <2>1, <2>2 DEF Ranges
  <1>4. at' = i /\ start' = f /\ size' = Alignment(f)
    BY <1>2 DEF SplitFrom
  <1>5. Divides(2 * Alignment(f), f) => 2 * Alignment(f) > merged[i].end - f + 1
    BY <1>3, LargestAtStart
  <1> HIDE DEF f
  <1> QED
    BY <1>2, <1>4, <1>5 DEF Largest, Remaining, f

LEMMA MinEmit == IInv /\ MinInv /\ Emit => MinInv'
  <1> SUFFICES ASSUME IInv, MinInv, Emit PROVE MinInv'
    OBVIOUS
  <1> DEFINE b == [start |-> start, size |-> size]
             r == merged[at]
             n == Len(out)
  <1>1. /\ pc = "split" /\ at \in 1 .. Len(merged) /\ merged \in Seq(Ranges) /\ size \in Sizes
        /\ start \in Addresses /\ Has(r, start)
        /\ out \in Seq(Blocks) /\ n \in Nat /\ Len(merged) \in Nat
    BY DEF IInv, TypeOK, Splitting, Emit
  <1>2. r \in Ranges
    BY <1>1
  <1>3. Remaining = r.end - start + 1
    BY DEF Remaining
  <1> HIDE DEF r
  <1>4. /\ r.end \in Nat /\ r.end < Space /\ Space \in Nat
        /\ start \in Nat /\ start <= r.end
        /\ size \in Nat \ {0} /\ size <= Remaining /\ Remaining \in Nat
    BY <1>1, <1>2, <1>3, SpaceType, SizeTypes DEF Has, Ranges, Addresses, Emit
  <1>5. b \in Blocks /\ out' = Append(out, b) /\ merged' = merged
    BY <1>1 DEF Blocks, Emit
  <1>6. b.start = start /\ b.size = size
    OBVIOUS
  <1> HIDE DEF b
  <1>7. /\ out' \in Seq(Blocks) /\ Len(out') = n + 1 /\ out'[n + 1] = b
        /\ \A i \in 1 .. n : out'[i] = out[i]
        /\ DOMAIN out' = 1 .. n + 1 /\ DOMAIN out = 1 .. n
    BY <1>1, <1>5
  <1>8. Minimal'
    <2> SUFFICES ASSUME NEW i \in 1 .. n + 1, i > 1,
                        out'[i - 1].size = out'[i].size,
                        out'[i - 1].start + out'[i].size = out'[i].start,
                        Divides(2 * out'[i].size, out'[i - 1].start)
                 PROVE  FALSE
      BY <1>7 DEF Minimal
    <2>1. i - 1 \in 1 .. n
      BY <1>1
    <2>2. CASE i = n + 1
      <3>1. out # <<>> /\ i - 1 = n
        BY <1>1, <2>1, <2>2
      <3>2. out[n].size = size /\ out[n].start + size = start /\ Divides(2 * size, out[n].start)
        BY <1>6, <1>7, <2>1, <2>2, <3>1
      <3>3. Remaining < size
        BY <1>1, <3>1, <3>2 DEF MinInv, Apart, n
      <3> QED
        BY <1>4, <3>3
    <2>3. CASE i # n + 1
      <3>1. i \in 1 .. n
        BY <1>1, <2>3
      <3> QED
        BY <1>7, <2>1, <3>1 DEF MinInv, Minimal
    <2> QED
      BY <2>2, <2>3
  <1>9. Largest' /\ Apart'
    <2>1. CASE size >= Remaining
      <3>1. SplitFrom(at + 1) /\ start + size = r.end + 1
        <4>1. SplitFrom(at + 1)
          BY <2>1 DEF Emit
        <4> QED
          BY <1>3, <1>4, <2>1, <4>1
      <3>2. CASE pc' = "split"
        <4>1. at + 1 \in 1 .. Len(merged) + 1 /\ Solid(merged)
          BY <1>1 DEF IInv
        <4>2. Largest' /\ at + 1 \in 1 .. Len(merged) /\ start' = merged[at + 1].start
          BY <1>1, <1>5, <3>1, <3>2, <4>1, MinSplitFrom
        <4>3. (at + 1) - 1 = at /\ at + 1 > 1 /\ merged[at + 1] \in Ranges
          BY <1>1, <4>2
        <4>4. r.end + 1 < start'
          BY <4>2, <4>3 DEF IInv, Gapped, r
        <4>5. start' \in Int
          BY <1>4, <4>2, <4>3 DEF Ranges, Addresses
        <4>6. out'[Len(out')].start + out'[Len(out')].size # start'
          BY <1>4, <1>6, <1>7, <3>1, <4>4, <4>5
        <4> QED
          BY <4>2, <4>6 DEF Apart
      <3>3. CASE pc' # "split"
        BY <3>3 DEF Largest, Apart
      <3> QED
        BY <3>2, <3>3
    <2>2. CASE ~(size >= Remaining)
      <3> DEFINE f == start + size
      <3>1. f \in Addresses /\ f % Space = f /\ f <= r.end /\ f \in Nat
        BY <1>3, <1>4, <2>2 DEF Addresses
      <3>2. start' = f /\ size' = Alignment(f) /\ pc' = pc /\ at' = at
        BY <2>2, <3>1 DEF Emit
      <3>3. Divides(2 * Alignment(f), f) => 2 * Alignment(f) > r.end - f + 1
        BY <1>2, <3>1, LargestAtStart
      <3>4. Remaining' = r.end - f + 1
        BY <1>5, <3>2 DEF Remaining, r
      <3>5. r.end - f + 1 = Remaining - size
        BY <1>3, <1>4
      <3>6. Divides(2 * size, start) => 2 * size > Remaining
        BY <1>1 DEF MinInv, Largest
      <3> HIDE DEF f
      <3>7. Largest'
        BY <3>2, <3>3, <3>4 DEF Largest
      <3>8. Divides(2 * size, start) => Remaining' < size
        <4>1. Divides(2 * size, start) => Remaining - size < size
          BY <1>4, <3>6
        <4> QED
          BY <3>4, <3>5, <4>1
      <3>9. out'[Len(out')].start = start /\ out'[Len(out')].size = size
        BY <1>6, <1>7
      <3> QED
        BY <3>7, <3>8, <3>9 DEF Apart
    <2> QED
      BY <2>1, <2>2
  <1> QED
    BY <1>8, <1>9 DEF MinInv

LEMMA MinHalve == IInv /\ MinInv /\ Halve => MinInv'
  <1> SUFFICES ASSUME IInv, MinInv, Halve PROVE MinInv'
    OBVIOUS
  <1>1. /\ at \in 1 .. Len(merged) /\ merged \in Seq(Ranges) /\ size \in Sizes
        /\ start \in Addresses /\ Has(merged[at], start)
    BY DEF IInv, TypeOK, Splitting, Halve
  <1>2. Remaining \in Nat \ {0} /\ size \in Nat
    <2>1. merged[at] \in Ranges
      BY <1>1
    <2> QED
      BY <1>1, <2>1, SpaceType, SizeTypes DEF Has, Ranges, Addresses, Remaining
  <1>3. size = 2 * (size \div 2)
    BY <1>1, <1>2, SizeTypes DEF Halve
  <1>4. Remaining' = Remaining /\ 2 * size' = size /\ size > Remaining
    BY <1>3 DEF Halve, Remaining
  <1>5. Largest'
    BY <1>4 DEF Largest
  <1> QED
    BY <1>4, <1>5 DEF MinInv, Apart, Minimal, Halve

LEMMA MinStep == IInv /\ MinInv /\ [Next]_vars => MinInv'
  <1> SUFFICES ASSUME IInv, MinInv, [Next]_vars PROVE MinInv'
    OBVIOUS
  <1>1. CASE SkipLine \/ BadLine \/ ReadLine \/ ReadEnds \/ Sort \/ Extend \/ Add
    BY <1>1 DEF SkipLine, BadLine, ReadLine, ReadEnds, Sort, Extend, Add,
                MinInv, Largest, Apart, Minimal
  <1>2. CASE MergeEnds
    <2>1. /\ out = <<>> /\ out' = out /\ merged' = merged /\ merged \in Seq(Ranges)
          /\ Solid(merged) /\ SplitFrom(1) /\ 1 \in 1 .. Len(merged) + 1
      BY <1>2 DEF MergeEnds, IInv, Merging, TypeOK
    <2>2. Largest'
      BY <2>1, MinSplitFrom DEF Largest
    <2> QED
      BY <2>1, <2>2 DEF MinInv, Apart, Minimal
  <1>3. CASE UNCHANGED vars
    BY <1>3 DEF vars, MinInv, Largest, Apart, Minimal, Remaining
  <1> QED
    BY <1>1, <1>2, <1>3, MinHalve, MinEmit DEF Next

\* The blocks are as few as they can be: no two neighbours are the halves of one
\* block, at the end of a range no more than inside it (cidr.go 98-101, 141-165).
THEOREM Fewest == Spec => []Minimal
  <1>1. Init => MinInv
    BY DEF Init, MinInv, Largest, Apart, Minimal
  <1>2. MinInv => Minimal
    BY DEF MinInv
  <1> QED
    BY <1>1, <1>2, MinStep, Invariance, PTL DEF Spec

-------------------------------------------------------------------------------
(* The loops come to an end *)

\* What is left to do: loops, then rounds of this loop, then addresses of the
\* range, then the size that is tried.
LoopsLeft ==
  CASE pc = "read" -> 4 [] pc = "sort" -> 3 [] pc = "merge" -> 2 [] pc = "split" -> 1
    [] OTHER -> 0

RoundsLeft ==
  CASE pc = "read"  -> Len(file) + 1 - at
    [] pc = "merge" -> Len(ranges) + 1 - at
    [] pc = "split" -> Len(merged) - at
    [] OTHER -> 0

AddressesLeft == IF pc = "split" THEN merged[at].end - start ELSE 0
SizeLeft      == IF pc = "split" THEN size ELSE 0

\* Every step leaves less to do, in this order of importance; none of the four can
\* go below zero, so that there is no endless sequence of steps.
Descends ==
  /\ {LoopsLeft, RoundsLeft, AddressesLeft, SizeLeft} \subseteq Nat
  /\ \/ LoopsLeft' < LoopsLeft
     \/ /\ LoopsLeft' = LoopsLeft
        /\ \/ RoundsLeft' < RoundsLeft
           \/ /\ RoundsLeft' = RoundsLeft
              /\ \/ AddressesLeft' < AddressesLeft
                 \/ AddressesLeft' = AddressesLeft /\ SizeLeft' < SizeLeft

LEMMA SplitBounds ==
  ASSUME IInv, pc = "split"
  PROVE  /\ at \in 1 .. Len(merged) /\ Len(merged) \in Nat
         /\ start \in Nat /\ merged[at].end \in Nat /\ start <= merged[at].end
         /\ merged[at].end < Space /\ Space \in Nat /\ size \in Nat \ {0}
  <1>1. /\ at \in 1 .. Len(merged) /\ merged \in Seq(Ranges) /\ size \in Sizes
        /\ start \in Addresses /\ Has(merged[at], start)
    BY DEF IInv, TypeOK, Splitting
  <1>2. merged[at] \in Ranges
    BY <1>1
  <1> QED
    BY <1>1, <1>2, SpaceType, SizeTypes DEF Has, Ranges, Addresses

LEMMA LeftNatural ==
  ASSUME IInv
  PROVE  {LoopsLeft, RoundsLeft, AddressesLeft, SizeLeft} \subseteq Nat
  <1>1. LoopsLeft \in Nat
    BY DEF LoopsLeft
  <1>2. /\ pc = "read" => Len(file) + 1 - at \in Nat
        /\ pc = "merge" => Len(ranges) + 1 - at \in Nat
    BY DEF IInv, TypeOK, Reading, Merging
  <1>3. pc = "split" => Len(merged) - at \in Nat /\ merged[at].end - start \in Nat /\ size \in Nat
    BY SplitBounds
  <1> QED
    BY <1>1, <1>2, <1>3 DEF RoundsLeft, AddressesLeft, SizeLeft

\* The next address of a range is larger: nothing wraps around, even where the range
\* ends with the last address.
LEMMA EmitDescends ==
  ASSUME IInv, Emit
  PROVE  Descends
  <1>1. /\ pc = "split" /\ at \in 1 .. Len(merged) /\ Len(merged) \in Nat
        /\ start \in Nat /\ merged[at].end \in Nat /\ start <= merged[at].end
        /\ merged[at].end < Space /\ Space \in Nat /\ size \in Nat \ {0}
        /\ merged' = merged
    BY SplitBounds DEF Emit
  <1>2. LoopsLeft = 1 /\ RoundsLeft = Len(merged) - at /\ AddressesLeft = merged[at].end - start
    BY <1>1 DEF LoopsLeft, RoundsLeft, AddressesLeft
  <1>3. CASE size >= Remaining
    <2>1. /\ at' = at + 1
          /\ IF at + 1 <= Len(merged) THEN pc' = "split" ELSE pc' = "done"
      BY <1>3 DEF Emit, SplitFrom
    <2>2. CASE at + 1 <= Len(merged)
      <3>1. LoopsLeft' = 1 /\ RoundsLeft' = Len(merged) - (at + 1)
        BY <1>1, <2>1, <2>2 DEF LoopsLeft, RoundsLeft
      <3> QED
        BY <1>1, <1>2, <3>1, LeftNatural DEF Descends
    <2>3. CASE ~(at + 1 <= Len(merged))
      <3>1. LoopsLeft' = 0
        BY <2>1, <2>3 DEF LoopsLeft
      <3> QED
        BY <1>2, <3>1, LeftNatural DEF Descends
    <2> QED
      BY <2>2, <2>3
  <1>4. CASE ~(size >= Remaining)
    <2>1. start + size <= merged[at].end
      BY <1>1, <1>4 DEF Remaining
    <2>2. (start + size) % Space = start + size
      BY <1>1, <2>1
    <2>3. start' = start + size /\ pc' = pc /\ at' = at
      BY <1>4, <2>2 DEF Emit
    <2>4. /\ LoopsLeft' = 1 /\ RoundsLeft' = Len(merged) - at
          /\ AddressesLeft' = merged[at].end - (start + size)
      BY <1>1, <2>3 DEF LoopsLeft, RoundsLeft, AddressesLeft
    <2>5. AddressesLeft' < AddressesLeft
      BY <1>1, <1>2, <2>4
    <2> QED
      BY <1>2, <2>4, <2>5, LeftNatural DEF Descends
  <1> QED
    BY <1>3, <1>4

LEMMA HalveDescends ==
  ASSUME IInv, Halve
  PROVE  Descends
  <1>1. /\ at \in 1 .. Len(merged) /\ start \in Nat /\ merged[at].end \in Nat
        /\ start <= merged[at].end /\ size \in Nat \ {0} /\ size > Remaining
        /\ Remaining = merged[at].end - start + 1
        /\ pc = "split" /\ pc' = pc /\ at' = at /\ start' = start /\ merged' = merged
        /\ size' = size \div 2
    BY SplitBounds DEF Halve, Remaining
  <1>2. size \div 2 < size
    BY <1>1
  <1>3. /\ LoopsLeft' = LoopsLeft /\ RoundsLeft' = RoundsLeft /\ AddressesLeft' = AddressesLeft
        /\ SizeLeft = size /\ SizeLeft' = size \div 2
    BY <1>1 DEF LoopsLeft, RoundsLeft, AddressesLeft, SizeLeft
  <1> QED
    BY <1>2, <1>3, LeftNatural DEF Descends

LEMMA RoundDescends ==
  ASSUME IInv, SkipLine \/ ReadLine \/ Extend \/ Add
  PROVE  Descends
  <1>1. at \in Nat /\ Len(file) \in Nat /\ Len(ranges) \in Nat
    BY DEF IInv, TypeOK
  <1>2. CASE SkipLine \/ ReadLine
    <2>1. pc = "read" /\ pc' = "read" /\ at' = at + 1 /\ file' = file
      BY <1>2 DEF SkipLine, ReadLine
    <2>2. LoopsLeft' = LoopsLeft /\ RoundsLeft' < RoundsLeft
      BY <1>1, <2>1 DEF LoopsLeft, RoundsLeft
    <2> QED
      BY <2>2, LeftNatural DEF Descends
  <1>3. CASE Extend \/ Add
    <2>1. pc = "merge" /\ pc' = "merge" /\ at' = at + 1 /\ ranges' = ranges
      BY <1>3 DEF Extend, Add
    <2>2. LoopsLeft' = LoopsLeft /\ RoundsLeft' < RoundsLeft
      BY <1>1, <2>1 DEF LoopsLeft, RoundsLeft
    <2> QED
      BY <2>2, LeftNatural DEF Descends
  <1> QED
    BY <1>2, <1>3

LEMMA LoopDescends ==
  ASSUME IInv, BadLine \/ ReadEnds \/ Sort \/ MergeEnds
  PROVE  Descends
  <1>1. CASE BadLine \/ ReadEnds
    <2>1. pc = "read" /\ pc' \in {"failed", "done", "sort"}
      BY <1>1 DEF BadLine, ReadEnds
    <2>2. LoopsLeft = 4 /\ LoopsLeft' \in {0, 3}
      BY <2>1 DEF LoopsLeft
    <2> QED
      BY <2>2, LeftNatural DEF Descends
  <1>2. CASE Sort
    <2>1. LoopsLeft = 3 /\ LoopsLeft' = 2
      BY <1>2 DEF Sort, LoopsLeft
    <2> QED
      BY <2>1, LeftNatural DEF Descends
  <1>3. CASE MergeEnds
    <2>1. pc = "merge" /\ pc' \in {"split", "done"}
      BY <1>3 DEF MergeEnds, SplitFrom
    <2>2. LoopsLeft = 2 /\ LoopsLeft' \in {0, 1}
      BY <2>1 DEF LoopsLeft
    <2> QED
      BY <2>2, LeftNatural DEF Descends
  <1> QED
    BY <1>1, <1>2, <1>3

\* No loop goes round for ever, for addresses of any width: in rangeToCIDRs the next
\* address does not wrap around to the first, and halving stops (cidr.go 141-165).
\* That some step is possible until the end is left to TLC (Terminates).
THEOREM LoopsEnd == Spec => [][Descends]_vars
  <1>1. IInv /\ [Next]_vars => [Descends]_vars
    BY EmitDescends, HalveDescends, RoundDescends, LoopDescends DEF Next
  <1> QED
    BY <1>1, Invariance, PTL DEF Spec
===============================================================================
