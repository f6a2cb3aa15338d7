------------------------------ MODULE BioMapProofs ------------------------------
(***************************************************************************)
(* Proofs about BioMap for every memory, vector, queue and way to fail.    *)
(***************************************************************************)
EXTENDS BioMap, FiniteSetTheorems, NaturalsInduction, TLAPS

Only(condition) == IF condition THEN 1 ELSE 0

\* A bio is being filled.
Filling == {"pin", "add", "release", "copy_page", "fill", "append", "drop"}

\* What the position in the call implies about the rest.
PlaceInv ==
  /\ (vec \in Vectors /\ copy = MustCopy(vec)) \/ (pc = "idle" /\ vec.addr = <<>>)
  /\ IF pc \in Filling THEN Len(bio) = 1 ELSE bio = <<>>
  /\ IF pc \in {"add", "release"} THEN pages # <<>>
     ELSE pages = <<>> /\ j = 0 /\ bytes = 0 /\ offs = 0
  /\ pc \in {"idle", "bvec"} => chain = <<>>
  /\ pc = "bvec" => vec.fixed
  /\ pc = "alloc" \/ pc \in Filling => copy \/ ~vec.fixed
  /\ pc \in {"pin", "add", "release"} => ~copy
  /\ pc \in {"copy_page", "fill"} => copy

\* How far the bios of the request, the bio being filled and the iterator are.
CursorInv ==
  /\ ChainUnits(chain) <= Total
  /\ pc \in {"alloc", "mapped"} => pos = ChainUnits(chain)
  /\ pc = "mapped" => pos = Total
  /\ pc \in Filling =>
       /\ bio[1].kind = IF copy THEN "copied" ELSE "pinned"
       /\ bio[1].start = ChainUnits(chain)
       /\ bio[1].start + BioUnits(bio[1]) <= Total
       /\ bio[1].max >= 1
  /\ pc \in {"pin", "add", "release", "append"} =>
       pos - bytes = bio[1].start + BioUnits(bio[1])
  /\ pc \in {"copy_page", "fill"} => pos = bio[1].start
  /\ pc \in {"pin", "copy_page", "fill"} => pos < Total
  /\ pc \in {"release", "append", "fill"} \/ (pc = "add" /\ j > 0) => bio[1].vecs # <<>>

\* Unit d of what a pass has not added yet lies in its page and is the user's.
PassUnit(d) == j + 1 + Page(offs + d)

PassInv ==
  pc \in {"add", "release"} =>
    /\ IF j < Len(pages)
       THEN bytes > 0 /\ (Len(pages) - j - 1) * PageUnits < offs + bytes
                      /\ offs + bytes <= (Len(pages) - j) * PageUnits
       ELSE bytes = 0 /\ offs = 0
    /\ \A d \in 0 .. bytes - 1 :
         /\ PassUnit(d) <= Len(pages)
         /\ (pages[PassUnit(d)] * PageUnits) + ((offs + d) % PageUnits)
              = Physical(vec.addr[pos - bytes + 1 + d])

\* A queue that refuses gaps pins nothing but vectors whose later segments begin with a
\* page, so no page is pinned for two bios or twice for one bvec.
OnPage(at) == at > 0 /\ at < Total => vec.addr[at + 1] % PageUnits = 0

AlignInv ==
  VirtBoundary /\ ~copy /\ pc \in {"alloc", "pin", "add", "release", "append"} =>
    OnPage(pos) /\ OnPage(pos - bytes)

\* Every bio is the part of the vector it claims to be.
DataInv ==
  /\ \A b \in DOMAIN chain : /\ chain[b].start = UnitsOf(chain, b - 1)
                             /\ chain[b].kind # "copied" => IsImage(chain[b])
  /\ pc \in Filling /\ ~copy => IsImage(bio[1])

\* The limits hold for the bio being filled as well.
LegalVecs(b) ==
  \A i \in DOMAIN b.vecs :
    /\ b.vecs[i].len <= MaxSegUnits
    /\ b.vecs[i].at \div SegBoundary = (b.vecs[i].at + b.vecs[i].len - 1) \div SegBoundary

LimitInv ==
  /\ ChainUnits(chain) <= MaxUnits /\ ChainSegments(chain) <= MaxSegments
  /\ \A b \in DOMAIN chain : chain[b].vecs # <<>> /\ LegalVecs(chain[b])
  /\ pc \in Filling => /\ BioUnits(bio[1]) <= MaxUnits /\ Len(bio[1].vecs) <= MaxSegments
                       /\ LegalVecs(bio[1])

\* The references the rest of a pass has on a page.
InPass(f) == Cardinality({k \in j + 1 .. Len(pages) : pages[k] = f})

\* Every page is held at least as often as it will be given back, and exactly as often
\* on a queue that refuses gaps.
HoldInv ==
  \A f \in Frames :
    /\ refs[f] >= Holds(chain, f) + Holds(bio, f) + InPass(f)
    /\ VirtBoundary => refs[f] = Holds(chain, f) + Holds(bio, f) + InPass(f)

BInv ==
  TypeOK /\ PlaceInv /\ CursorInv /\ PassInv /\ AlignInv /\ DataInv /\ LimitInv /\ HoldInv

-----------------------------------------------------------------------------
(* Sums                                                                    *)

LEMMA NatMin ==
  ASSUME NEW T \in SUBSET Nat, T # {}
  PROVE  \E x \in T : \A y \in T : x <= y
<1>1. PICK x \in T : \A y \in T : <<y, x>> \notin OpToRel(<, Nat)
  BY NatLessThanWellFounded, WFMin
<1>2. \A y \in T : ~(y < x)
  BY <1>1 DEF OpToRel
<1> QED
  BY <1>2

\* The partial sums of f that the definition of Sum speaks of.
IsSum(g, f, n) == g = [i \in 0 .. n |-> IF i = 0 THEN 0 ELSE g[i - 1] + f[i]]

LEMMA SumsExist ==
  ASSUME NEW f, NEW n \in Nat
  PROVE  \E g : IsSum(g, f, n)
<1> DEFINE T == {m \in Nat : ~ \E g : IsSum(g, f, m)}
<1>1. 0 \notin T
  <2> DEFINE g == [i \in 0 .. 0 |-> 0]
  <2>1. IsSum(g, f, 0)
    BY DEF IsSum
  <2> QED
    BY <2>1
<1>2. ASSUME T # {} PROVE FALSE
  <2>1. PICK m \in T : \A y \in T : m <= y
    BY <1>2, NatMin
  <2>2. m - 1 \in Nat /\ m - 1 \notin T
    BY <1>1, <2>1
  <2>3. PICK g : IsSum(g, f, m - 1)
    BY <2>2
  <2> DEFINE h == [i \in 0 .. m |-> IF i < m THEN g[i] ELSE g[m - 1] + f[m]]
  <2>4. \A i \in 0 .. m : h[i] = IF i = 0 THEN 0 ELSE h[i - 1] + f[i]
    <3> TAKE i \in 0 .. m
    <3>1. CASE i = m
      BY <2>2, <3>1
    <3>2. CASE i < m
      <4>1. i \in 0 .. m - 1
        BY <2>2, <3>2
      <4>2. g[i] = IF i = 0 THEN 0 ELSE g[i - 1] + f[i]
        BY <2>3, <4>1 DEF IsSum
      <4> QED
        BY <2>2, <3>2, <4>2
    <3> QED
      BY <2>2, <3>1, <3>2
  <2>5. IsSum(h, f, m)
    <3>1. h = [i \in 0 .. m |-> h[i]]
      OBVIOUS
    <3> HIDE DEF h
    <3> QED
      BY <2>4, <3>1 DEF IsSum
  <2> QED
    BY <2>1, <2>5
<1> QED
  BY <1>2

LEMMA SumIs ==
  ASSUME NEW f, NEW n \in Nat
  PROVE  \E g : IsSum(g, f, n) /\ Sum(f, n) = g[n]
<1> DEFINE g == CHOOSE g : IsSum(g, f, n)
<1>1. IsSum(g, f, n)
  BY SumsExist
<1>2. Sum(f, n) = g[n]
  BY DEF Sum, IsSum
<1> QED
  BY <1>1, <1>2

Agree(f, g, n) == \A i \in 1 .. n : f[i] = g[i]

\* Partial sums are unique, for as far as the summands are the same.
LEMMA SumsUnique ==
  ASSUME NEW f, NEW g, NEW s, NEW t, NEW m \in Nat, NEW n \in Nat, m <= n,
         Agree(f, g, m), IsSum(s, f, m), IsSum(t, g, n)
  PROVE  s[m] = t[m]
<1> DEFINE T == {i \in Nat : i <= m /\ s[i] # t[i]}
<1>1. ASSUME T # {} PROVE FALSE
  <2>1. PICK i \in T : \A y \in T : i <= y
    BY <1>1, NatMin
  <2>2. i \in 0 .. m /\ i \in 0 .. n
    BY <2>1
  <2>3. s[i] = IF i = 0 THEN 0 ELSE s[i - 1] + f[i]
    BY <2>2 DEF IsSum
  <2>4. t[i] = IF i = 0 THEN 0 ELSE t[i - 1] + g[i]
    BY <2>2 DEF IsSum
  <2>5. i # 0
    BY <2>1, <2>3, <2>4
  <2>6. i - 1 \in Nat /\ i - 1 <= m /\ i - 1 \notin T /\ i \in 1 .. m
    BY <2>1, <2>2, <2>5
  <2> QED
    BY <2>1, <2>3, <2>4, <2>5, <2>6 DEF Agree
<1> QED
  BY <1>1

\* What the proofs use of Sum.
LEMMA SumStep ==
  ASSUME NEW f, NEW n \in Nat
  PROVE  Sum(f, 0) = 0 /\ Sum(f, n + 1) = Sum(f, n) + f[n + 1]
<1>1. PICK r : IsSum(r, f, 0) /\ Sum(f, 0) = r[0]
  BY SumIs
<1>2. r[0] = 0
  BY <1>1 DEF IsSum
<1>3. PICK s : IsSum(s, f, n) /\ Sum(f, n) = s[n]
  BY SumIs
<1>4. PICK t : IsSum(t, f, n + 1) /\ Sum(f, n + 1) = t[n + 1]
  BY SumIs
<1>5. t[n + 1] = t[n] + f[n + 1]
  BY <1>4 DEF IsSum
<1>6. s[n] = t[n]
  <2> DEFINE m == n + 1
  <2>1. m \in Nat /\ n <= m /\ Agree(f, f, n) /\ IsSum(t, f, m)
    BY <1>4 DEF Agree
  <2> HIDE DEF m
  <2>2. IsSum(s, f, n)
    BY <1>3
  <2> QED
    BY <2>1, <2>2, SumsUnique
<1> QED
  BY <1>1, <1>2, <1>3, <1>4, <1>5, <1>6

LEMMA SumAgree ==
  ASSUME NEW f, NEW g, NEW n \in Nat, \A i \in 1 .. n : f[i] = g[i]
  PROVE  Sum(f, n) = Sum(g, n)
<1>1. PICK s : IsSum(s, f, n) /\ Sum(f, n) = s[n]
  BY SumIs
<1>2. PICK t : IsSum(t, g, n) /\ Sum(g, n) = t[n]
  BY SumIs
<1>3. n <= n /\ Agree(f, g, n)
  BY DEF Agree
<1> QED
  BY <1>1, <1>2, <1>3, SumsUnique

LEMMA SumIsNat ==
  ASSUME NEW f, NEW n \in Nat, \A i \in 1 .. n : f[i] \in Nat
  PROVE  Sum(f, n) \in Nat
<1> DEFINE T == {m \in Nat : m <= n /\ Sum(f, m) \notin Nat}
<1>1. ASSUME T # {} PROVE FALSE
  <2>1. PICK m \in T : \A y \in T : m <= y
    BY <1>1, NatMin
  <2>2. m # 0
    BY <2>1, SumStep
  <2>3. m - 1 \in Nat /\ m - 1 \notin T /\ m \in 1 .. n /\ (m - 1) + 1 = m
    BY <2>1, <2>2
  <2>4. Sum(f, m) = Sum(f, m - 1) + f[m]
    BY <2>3, SumStep
  <2> QED
    BY <2>1, <2>3, <2>4
<1> QED
  BY <1>1

-----------------------------------------------------------------------------
(* Pages                                                                   *)

LEMMA PageOf ==
  /\ \A a \in Nat : /\ Page(a) \in Nat /\ a % PageUnits \in 0 .. PageUnits - 1
                    /\ a = Page(a) * PageUnits + (a % PageUnits)
  /\ \A q \in Nat, r \in 0 .. PageUnits - 1 :
       /\ q * PageUnits + r \in Nat
       /\ Page(q * PageUnits + r) = q /\ (q * PageUnits + r) % PageUnits = r
<1> DEFINE P == PageUnits
<1>1. P \in Nat \ {0}
  BY QueueAssumption
<1>2. ASSUME NEW a \in Nat
      PROVE  /\ a \div P \in Nat /\ a % P \in 0 .. P - 1
             /\ a = (a \div P) * P + (a % P)
  BY <1>1, <1>2
<1>3. ASSUME NEW q \in Nat, NEW r \in 0 .. P - 1
      PROVE  /\ q * P + r \in Nat /\ (q * P + r) \div P = q /\ (q * P + r) % P = r
  <2> HIDE DEF P
  <2>1. q * P \in Nat
    BY <1>1
  <2> DEFINE y == q * P + r
             e == y \div P
             m == y % P
  <2>2. y \in Nat /\ y = q * P + r
    BY <2>1, <1>1
  <2> HIDE DEF y
  <2>3. e \in Nat /\ m \in 0 .. P - 1 /\ y = e * P + m /\ e * P \in Nat
    BY <1>1, <2>2
  <2> HIDE DEF e, m
  <2>4. e * P < (q + 1) * P /\ q * P < (e + 1) * P
    BY <1>1, <2>1, <2>2, <2>3
  <2>5. e < q + 1 /\ q < e + 1
    BY <1>1, <2>3, <2>4
  <2>6. e = q /\ m = r
    BY <1>1, <2>1, <2>2, <2>3, <2>5
  <2> QED
    BY <2>2, <2>6 DEF y, e, m
<1> QED
  BY <1>2, <1>3 DEF Page

\* Within a page, a unit further on is a unit further in the page.
LEMMA NextUnits ==
  ASSUME NEW a \in Nat, NEW k \in Nat, (a % PageUnits) + k < PageUnits
  PROVE  Page(a + k) = Page(a) /\ (a + k) % PageUnits = (a % PageUnits) + k
<1>1. a % PageUnits \in Nat /\ PageUnits \in Nat
  BY PageOf, QueueAssumption
<1>2. (a % PageUnits) + k \in 0 .. PageUnits - 1
  BY <1>1
<1>3. Page(a) \in Nat /\ a + k = Page(a) * PageUnits + ((a % PageUnits) + k)
  <2>1. a = Page(a) * PageUnits + (a % PageUnits) /\ Page(a) \in Nat
    BY PageOf
  <2>2. Page(a) * PageUnits \in Nat
    BY <1>1, <2>1
  <2> QED
    BY <1>1, <2>1, <2>2
<1> QED
  BY <1>2, <1>3, PageOf

\* The same unit of a later page.
LEMMA NextPages ==
  ASSUME NEW a \in Nat, NEW k \in Nat
  PROVE  Page(a + k * PageUnits) = Page(a) + k
         /\ (a + k * PageUnits) % PageUnits = a % PageUnits
<1>1. PageUnits \in Nat /\ a % PageUnits \in 0 .. PageUnits - 1 /\ Page(a) \in Nat
  BY PageOf, QueueAssumption
<1>2. a + k * PageUnits = (Page(a) + k) * PageUnits + (a % PageUnits)
  <2>1. a = Page(a) * PageUnits + (a % PageUnits)
    BY PageOf
  <2>2. (Page(a) + k) * PageUnits = Page(a) * PageUnits + k * PageUnits
    BY <1>1
  <2>3. Page(a) * PageUnits \in Nat /\ k * PageUnits \in Nat
    BY <1>1
  <2> QED
    BY <1>1, <2>1, <2>2, <2>3
<1> DEFINE q == Page(a) + k
           r == a % PageUnits
<1>3. q \in Nat /\ r \in 0 .. PageUnits - 1 /\ a + k * PageUnits = q * PageUnits + r
  BY <1>1, <1>2
<1> HIDE DEF q, r
<1>4. Page(a + k * PageUnits) = q /\ (a + k * PageUnits) % PageUnits = r
  BY <1>3, PageOf
<1> QED
  BY <1>4 DEF q, r

\* A run of units within one page of memory crosses no segment boundary.
LEMMA WithinBoundary ==
  ASSUME NEW a \in Nat, NEW n \in Nat \ {0}, (a % PageUnits) + n <= PageUnits
  PROVE  a \div SegBoundary = (a + n - 1) \div SegBoundary
<1> DEFINE P == PageUnits
           B == SegBoundary
           q == a \div B
           f == Page(a)
           m == B \div P
<1>1. P \in Nat \ {0} /\ B \in Nat \ {0} /\ B % P = 0
  BY QueueAssumption
<1>2. m \in Nat \ {0} /\ B = m * P
  BY <1>1
<1>3. q \in Nat /\ q * B <= a /\ a < (q + 1) * B
  BY <1>1
<1>4. f \in Nat /\ f * P \in Nat /\ a % P \in Nat /\ a = f * P + (a % P)
  <2>1. f \in Nat /\ a % P \in Nat /\ a = f * P + (a % P)
    BY PageOf
  <2> HIDE DEF f
  <2>2. f * P \in Nat
    BY <1>1, <2>1
  <2> QED
    BY <2>1, <2>2
<1>5. f * P <= a /\ a + n <= (f + 1) * P
  BY <1>1, <1>4
<1> HIDE DEF P, B, q, f, m
<1>6. (q * m) * P <= a /\ f * P < ((q + 1) * m) * P
  BY <1>1, <1>2, <1>3, <1>4, <1>5
<1>7. f < (q + 1) * m
  BY <1>1, <1>2, <1>3, <1>4, <1>6
<1>8. (f + 1) * P <= ((q + 1) * m) * P
  <2> DEFINE u == (q + 1) * m
  <2>1. u \in Nat /\ f + 1 <= u
    BY <1>2, <1>3, <1>4, <1>7
  <2> HIDE DEF u
  <2>2. (f + 1) * P <= u * P
    BY <1>1, <1>4, <2>1
  <2> QED
    BY <2>2 DEF u
<1>9. a + n <= (q + 1) * B
  BY <1>1, <1>2, <1>3, <1>4, <1>5, <1>8
<1> DEFINE y == a + n - 1
           e == y \div B
<1>10. y \in Nat /\ q * B <= y /\ y < (q + 1) * B
  BY <1>1, <1>3, <1>9
<1> HIDE DEF y
<1>11. e \in Nat /\ e * B <= y /\ y < (e + 1) * B
  BY <1>1, <1>10
<1> HIDE DEF e
<1>12. e * B < (q + 1) * B /\ q * B < (e + 1) * B
  BY <1>1, <1>3, <1>10, <1>11
<1>13. e < q + 1 /\ q < e + 1
  BY <1>1, <1>3, <1>11, <1>12
<1>14. e = q
  BY <1>3, <1>11, <1>13
<1> QED
  BY <1>14 DEF e, q, y, B

-----------------------------------------------------------------------------
(* Bios                                                                    *)

LEMMA BioUnitsFacts ==
  ASSUME NEW b \in Bio
  PROVE  /\ Len(b.vecs) \in Nat /\ DOMAIN b.vecs = 1 .. Len(b.vecs)
         /\ \A i \in DOMAIN b.vecs : b.vecs[i].at \in Nat /\ b.vecs[i].len \in Nat \ {0}
         /\ VecUnits(b, 0) = 0
         /\ \A i \in DOMAIN b.vecs : VecUnits(b, i) = VecUnits(b, i - 1) + b.vecs[i].len
         /\ \A i \in 0 .. Len(b.vecs) : VecUnits(b, i) \in Nat
         /\ BioUnits(b) \in Nat
         /\ b.vecs = <<>> => BioUnits(b) = 0
         /\ b.vecs # <<>> => BioUnits(b) > 0
<1> DEFINE f == [i \in DOMAIN b.vecs |-> b.vecs[i].len]
<1>1. Len(b.vecs) \in Nat /\ DOMAIN b.vecs = 1 .. Len(b.vecs)
  BY DEF Bio
<1>2. \A i \in DOMAIN b.vecs : b.vecs[i].at \in Nat /\ b.vecs[i].len \in Nat \ {0}
  <2>1. \A i \in DOMAIN b.vecs : b.vecs[i] \in Bvec
    BY DEF Bio
  <2> QED
    BY <2>1 DEF Bvec
<1>3. \A i \in DOMAIN b.vecs : f[i] = b.vecs[i].len
  OBVIOUS
<1>4. \A i : VecUnits(b, i) = Sum(f, i)
  BY DEF VecUnits
<1> HIDE DEF f
<1>5. VecUnits(b, 0) = 0
  BY <1>4, SumStep
<1>6. ASSUME NEW i \in DOMAIN b.vecs PROVE VecUnits(b, i) = VecUnits(b, i - 1) + b.vecs[i].len
  <2>1. i - 1 \in Nat /\ (i - 1) + 1 = i
    BY <1>1
  <2> QED
    BY <1>3, <1>4, <2>1, SumStep
<1>7. ASSUME NEW i \in 0 .. Len(b.vecs) PROVE VecUnits(b, i) \in Nat
  <2>1. i \in Nat /\ \A k \in 1 .. i : f[k] \in Nat
    BY <1>1, <1>2, <1>3
  <2> QED
    BY <1>4, <2>1, SumIsNat
<1>8. BioUnits(b) \in Nat
  BY <1>1, <1>7 DEF BioUnits
<1>9. b.vecs = <<>> => BioUnits(b) = 0
  BY <1>5 DEF BioUnits
<1>10. ASSUME b.vecs # <<>> PROVE BioUnits(b) > 0
  <2> DEFINE n == Len(b.vecs)
  <2>1. n \in DOMAIN b.vecs /\ n - 1 \in 0 .. n
    BY <1>1, <1>10 DEF Bio
  <2>2. VecUnits(b, n) = VecUnits(b, n - 1) + b.vecs[n].len
    BY <1>6, <2>1
  <2>3. VecUnits(b, n - 1) \in Nat /\ b.vecs[n].len \in Nat \ {0}
    BY <1>2, <1>7, <2>1
  <2> QED
    BY <2>2, <2>3 DEF BioUnits
<1> QED
  BY <1>1, <1>2, <1>5, <1>6, <1>7, <1>8, <1>9, <1>10

\* The bvecs before the last are as they were, and the last has the added units at its end.
Grown(b, at, n, c) ==
  LET l == Len(c.vecs)
  IN  /\ c \in Bio /\ c.kind = b.kind /\ c.start = b.start /\ c.max = b.max
      /\ l \in DOMAIN c.vecs /\ c.vecs # <<>>
      /\ \A i \in DOMAIN b.vecs : i # l => i \in DOMAIN c.vecs /\ c.vecs[i] = b.vecs[i]
      /\ \A i \in DOMAIN c.vecs : i # l => i \in DOMAIN b.vecs /\ c.vecs[i] = b.vecs[i]
      /\ IF Mergeable(b, at, n)
         THEN /\ l = Len(b.vecs) /\ l \in DOMAIN b.vecs
              /\ b.vecs[l].at + b.vecs[l].len = at
              /\ c.vecs[l].at = b.vecs[l].at /\ c.vecs[l].len = b.vecs[l].len + n
         ELSE /\ l = Len(b.vecs) + 1 /\ l \notin DOMAIN b.vecs
              /\ c.vecs[l].at = at /\ c.vecs[l].len = n

LEMMA AddedShape ==
  ASSUME NEW b \in Bio, NEW at \in Nat, NEW n \in Nat \ {0}
  PROVE  Grown(b, at, n, WithAdded(b, at, n))
<1> DEFINE c == WithAdded(b, at, n)
           l == Len(c.vecs)
<1> DEFINE s == b.vecs
<1>1. s \in Seq(Bvec) /\ Len(s) \in Nat /\ DOMAIN s = 1 .. Len(s)
  BY DEF Bio
<1> DEFINE w == IF Mergeable(b, at, n) THEN [s EXCEPT ![Len(s)].len = s[Len(s)].len + n]
                ELSE Append(s, [at |-> at, len |-> n])
<1>2. c = [b EXCEPT !.vecs = w]
  BY DEF WithAdded
<1>3. c.vecs = w
  <2> HIDE DEF w
  <2> QED
    BY <1>2 DEF Bio
<1>4. c.kind = b.kind /\ c.start = b.start /\ c.max = b.max
  <2> HIDE DEF w
  <2> QED
    BY <1>2 DEF Bio
<1>5. c.vecs \in Seq(Bvec) => c \in Bio
  <2> HIDE DEF w
  <2> QED
    BY <1>2, <1>3 DEF Bio
<1>6. CASE Mergeable(b, at, n)
  <2>1. Len(s) \in DOMAIN s /\ s[Len(s)] \in Bvec /\ s[Len(s)].at + s[Len(s)].len = at
    BY <1>1, <1>6 DEF Mergeable, Last
  <2>2. c.vecs = [s EXCEPT ![Len(s)] = [at |-> s[Len(s)].at, len |-> s[Len(s)].len + n]]
    BY <1>3, <1>6, <2>1 DEF Bvec
  <2>3. [at |-> s[Len(s)].at, len |-> s[Len(s)].len + n] \in Bvec
    BY <2>1 DEF Bvec
  <2> HIDE DEF s, c
  <2>4. c.vecs \in Seq(Bvec) /\ Len(c.vecs) = Len(s) /\ DOMAIN c.vecs = DOMAIN s
    BY <1>1, <2>1, <2>2, <2>3
  <2>5. /\ \A i \in DOMAIN s : i # l => i \in DOMAIN c.vecs /\ c.vecs[i] = s[i]
        /\ c.vecs[l] = [at |-> s[l].at, len |-> s[l].len + n]
        /\ c.vecs # <<>>
    BY <1>1, <2>1, <2>2, <2>4
  <2> QED
    BY <1>4, <1>5, <1>6, <2>1, <2>4, <2>5 DEF s, c, Grown
<1>7. CASE ~Mergeable(b, at, n)
  <2> DEFINE v == [at |-> at, len |-> n]
  <2>1. v \in Bvec
    BY DEF Bvec
  <2>2. c.vecs = Append(s, v)
    BY <1>3, <1>7
  <2> HIDE DEF s, v, c
  <2>3. c.vecs \in Seq(Bvec) /\ Len(c.vecs) = Len(s) + 1 /\ c.vecs[Len(s) + 1] = v
        /\ \A i \in DOMAIN s : c.vecs[i] = s[i]
    BY <1>1, <2>1, <2>2
  <2>4. DOMAIN c.vecs = 1 .. Len(s) + 1 /\ c.vecs # <<>>
    BY <1>1, <2>3
  <2>5. /\ \A i \in DOMAIN s : i # l => i \in DOMAIN c.vecs /\ c.vecs[i] = s[i]
        /\ \A i \in DOMAIN c.vecs : i # l => i \in DOMAIN s
        /\ l \in DOMAIN c.vecs
    BY <1>1, <2>3, <2>4
  <2> QED
    BY <1>1, <1>4, <1>5, <1>7, <2>3, <2>4, <2>5 DEF s, v, c, Grown
<1> QED
  BY <1>6, <1>7

LEMMA AddedUnits ==
  ASSUME NEW b \in Bio, NEW at \in Nat, NEW n \in Nat \ {0},
         NEW c, Grown(b, at, n, c)
  PROVE  /\ BioUnits(c) = BioUnits(b) + n
         /\ \A i \in 0 .. Len(c.vecs) - 1 : VecUnits(c, i) = VecUnits(b, i)
         /\ Mergeable(b, at, n) =>
              VecUnits(b, Len(c.vecs) - 1) = BioUnits(b) - b.vecs[Len(c.vecs)].len
         /\ ~Mergeable(b, at, n) => VecUnits(b, Len(c.vecs) - 1) = BioUnits(b)
<1> DEFINE l == Len(c.vecs)
           f == [i \in DOMAIN b.vecs |-> b.vecs[i].len]
           g == [i \in DOMAIN c.vecs |-> c.vecs[i].len]
<1>1. c \in Bio /\ l \in Nat /\ l - 1 \in Nat /\ l \in DOMAIN c.vecs /\ DOMAIN c.vecs = 1 .. l
      /\ Len(b.vecs) \in Nat /\ DOMAIN b.vecs = 1 .. Len(b.vecs)
  BY BioUnitsFacts DEF Grown
<1>2. \A i \in DOMAIN c.vecs : i # l => i \in DOMAIN b.vecs /\ c.vecs[i] = b.vecs[i]
  BY DEF Grown
<1>3. ASSUME NEW i \in 0 .. l - 1 PROVE VecUnits(c, i) = VecUnits(b, i)
  <2>1. i \in Nat /\ \A k \in 1 .. i : k \in DOMAIN c.vecs /\ k # l
    BY <1>1
  <2>2. \A k \in 1 .. i : g[k] = f[k]
    BY <1>2, <2>1
  <2> HIDE DEF f, g
  <2>3. Sum(g, i) = Sum(f, i)
    BY <2>1, <2>2, SumAgree
  <2> QED
    BY <2>3 DEF VecUnits, f, g
<1>4. /\ Mergeable(b, at, n) => VecUnits(b, l - 1) = BioUnits(b) - b.vecs[l].len
      /\ ~Mergeable(b, at, n) => VecUnits(b, l - 1) = BioUnits(b)
  <2>1. CASE Mergeable(b, at, n)
    <3>1. l = Len(b.vecs) /\ l \in DOMAIN b.vecs
      BY <2>1 DEF Grown
    <3>2. VecUnits(b, l) = VecUnits(b, l - 1) + b.vecs[l].len
          /\ VecUnits(b, l - 1) \in Nat /\ b.vecs[l].len \in Nat
      <4>1. l - 1 \in 0 .. Len(b.vecs)
        BY <1>1, <3>1
      <4> QED
        BY <3>1, <4>1, BioUnitsFacts
    <3> QED
      BY <2>1, <3>1, <3>2 DEF BioUnits
  <2>2. CASE ~Mergeable(b, at, n)
    <3>1. l - 1 = Len(b.vecs) /\ BioUnits(b) \in Nat
      BY <1>1, <2>2, BioUnitsFacts DEF Grown
    <3> QED
      BY <2>2, <3>1 DEF BioUnits
  <2> QED
    BY <2>1, <2>2
<1>5. BioUnits(c) = VecUnits(b, l - 1) + c.vecs[l].len
  <2>1. VecUnits(c, l) = VecUnits(c, l - 1) + c.vecs[l].len
    BY <1>1, BioUnitsFacts
  <2>2. VecUnits(c, l - 1) = VecUnits(b, l - 1)
    BY <1>1, <1>3
  <2> QED
    BY <2>1, <2>2 DEF BioUnits
<1>6. BioUnits(c) = BioUnits(b) + n
  <2>1. BioUnits(b) \in Nat
    BY BioUnitsFacts
  <2>2. CASE Mergeable(b, at, n)
    <3>1. c.vecs[l].len = b.vecs[l].len + n /\ b.vecs[l].len \in Nat
      BY <2>2, BioUnitsFacts DEF Grown
    <3> QED
      BY <1>4, <1>5, <2>1, <2>2, <3>1
  <2>3. CASE ~Mergeable(b, at, n)
    <3>1. c.vecs[l].len = n
      BY <2>3 DEF Grown
    <3> QED
      BY <1>4, <1>5, <2>1, <2>3, <3>1
  <2> QED
    BY <2>2, <2>3
<1> QED
  BY <1>3, <1>4, <1>6

LEMMA AddedImage ==
  ASSUME NEW b \in Bio, NEW at \in Nat, NEW n \in Nat \ {0},
         NEW c, Grown(b, at, n, c), IsImage(b),
         \A k \in 0 .. n - 1 : at + k = Physical(vec.addr[b.start + BioUnits(b) + k + 1])
  PROVE  IsImage(c)
<1> DEFINE l == Len(c.vecs)
           start == b.start
<1>1. /\ \A i \in DOMAIN c.vecs : i # l => i \in DOMAIN b.vecs /\ c.vecs[i] = b.vecs[i]
      /\ c \in Bio /\ c.start = start /\ start \in Nat /\ l \in Nat /\ DOMAIN c.vecs = 1 .. l
      /\ BioUnits(b) \in Nat
  BY BioUnitsFacts DEF Grown, Bio
<1>2. \A i \in DOMAIN c.vecs : VecUnits(c, i - 1) = VecUnits(b, i - 1)
  <2>1. \A i \in DOMAIN c.vecs : i - 1 \in 0 .. l - 1
    BY <1>1
  <2> QED
    BY <2>1, AddedUnits
<1> SUFFICES ASSUME NEW i \in DOMAIN c.vecs, NEW k \in 0 .. c.vecs[i].len - 1
             PROVE  c.vecs[i].at + k = Physical(vec.addr[start + VecUnits(b, i - 1) + k + 1])
  BY <1>1, <1>2 DEF IsImage
<1>3. CASE i # l
  <2>1. i \in DOMAIN b.vecs /\ c.vecs[i] = b.vecs[i] /\ k \in 0 .. b.vecs[i].len - 1
    BY <1>1, <1>3
  <2> QED
    BY <2>1 DEF IsImage
<1>4. CASE i = l /\ Mergeable(b, at, n)
  <2> DEFINE old == b.vecs[i]
  <2>1. /\ i \in DOMAIN b.vecs /\ old.at + old.len = at
        /\ c.vecs[i].at = old.at /\ c.vecs[i].len = old.len + n
    BY <1>4 DEF Grown
  <2>2. old.at \in Nat /\ old.len \in Nat
    BY <2>1, BioUnitsFacts
  <2>3. VecUnits(b, i - 1) = BioUnits(b) - old.len
    <3>1. VecUnits(b, l - 1) = BioUnits(b) - b.vecs[l].len
      BY <1>4, AddedUnits
    <3> QED
      BY <1>4, <3>1
  <2>4. CASE k < old.len
    <3>1. k \in 0 .. b.vecs[i].len - 1
      BY <2>1, <2>2, <2>4
    <3> QED
      BY <2>1, <3>1 DEF IsImage
  <2>5. CASE ~(k < old.len)
    <3>1. k - old.len \in 0 .. n - 1 /\ at + (k - old.len) = old.at + k
          /\ start + BioUnits(b) + (k - old.len) + 1 = start + VecUnits(b, i - 1) + k + 1
      <4> DEFINE u == old.len
                 v == old.at
                 w == VecUnits(b, i - 1)
                 x == BioUnits(b)
      <4>2. /\ u \in Nat /\ v \in Nat /\ x \in Nat /\ start \in Nat /\ w = x - u /\ v + u = at
            /\ k \in 0 .. u + n - 1 /\ ~(k < u)
        BY <1>1, <2>1, <2>2, <2>3, <2>5
      <4> HIDE DEF u, v, w, x, start
      <4>3. k - u \in 0 .. n - 1 /\ at + (k - u) = v + k
            /\ start + x + (k - u) + 1 = start + w + k + 1
        BY <4>2
      <4> QED
        BY <4>3 DEF u, v, w, x
    <3>2. at + (k - old.len) = Physical(vec.addr[start + BioUnits(b) + (k - old.len) + 1])
      BY <3>1
    <3> QED
      BY <2>1, <3>1, <3>2
  <2> QED
    BY <2>4, <2>5
<1>5. CASE i = l /\ ~Mergeable(b, at, n)
  <2>1. c.vecs[i].at = at /\ c.vecs[i].len = n
    BY <1>5 DEF Grown
  <2>2. VecUnits(b, i - 1) = BioUnits(b)
    <3>1. VecUnits(b, l - 1) = BioUnits(b)
      BY <1>5, AddedUnits
    <3> QED
      BY <1>5, <3>1
  <2> QED
    BY <2>1, <2>2
<1> QED
  BY <1>3, <1>4, <1>5

\* A piece of one page keeps the limits.
LEMMA AddedLimits ==
  ASSUME NEW b \in Bio, NEW at \in Nat, NEW n \in Nat \ {0},
         NEW c, Grown(b, at, n, c), (at % PageUnits) + n <= PageUnits, LegalVecs(b),
         CanAdd(b, at, n), Len(b.vecs) <= MaxSegments
  PROVE  LegalVecs(c) /\ BioUnits(c) <= MaxUnits /\ Len(c.vecs) <= MaxSegments
<1> DEFINE l == Len(c.vecs)
<1>1. BioUnits(c) <= MaxUnits
  <2>1. BioUnits(c) = BioUnits(b) + n
    BY AddedUnits
  <2> QED
    BY <2>1 DEF CanAdd
<1>2. \A i \in DOMAIN c.vecs : i # l => i \in DOMAIN b.vecs /\ c.vecs[i] = b.vecs[i]
  BY DEF Grown
<1>3. Len(c.vecs) <= MaxSegments
  <2>1. CASE Mergeable(b, at, n)
    BY <2>1 DEF Grown
  <2>2. CASE ~Mergeable(b, at, n)
    <3>1. Len(b.vecs) \in Nat /\ Len(b.vecs) < MaxSegments /\ l = Len(b.vecs) + 1
      BY <2>2, BioUnitsFacts DEF Grown, CanAdd
    <3> QED
      BY <3>1, QueueAssumption
  <2> QED
    BY <2>1, <2>2
<1>4. /\ c.vecs[l].len <= MaxSegUnits
      /\ c.vecs[l].at \div SegBoundary = (c.vecs[l].at + c.vecs[l].len - 1) \div SegBoundary
  <2>1. CASE Mergeable(b, at, n)
    <3>1. /\ Last(b.vecs) = b.vecs[l] /\ b.vecs[l].at + b.vecs[l].len = at
          /\ c.vecs[l].at = b.vecs[l].at /\ c.vecs[l].len = b.vecs[l].len + n
          /\ b.vecs[l].at \in Nat /\ b.vecs[l].len \in Nat
      BY <2>1, BioUnitsFacts DEF Grown, Last
    <3>2. c.vecs[l].at + c.vecs[l].len - 1 = at + n - 1
      <4> DEFINE u == b.vecs[l].at
                 v == b.vecs[l].len
      <4>1. u \in Nat /\ v \in Nat /\ u + v = at /\ c.vecs[l].at = u /\ c.vecs[l].len = v + n
        BY <3>1
      <4> HIDE DEF u, v
      <4> QED
        BY <4>1
    <3> QED
      BY <2>1, <3>1, <3>2 DEF Mergeable
  <2>2. CASE ~Mergeable(b, at, n)
    <3>1. c.vecs[l].at = at /\ c.vecs[l].len = n
      BY <2>2 DEF Grown
    <3>2. at % PageUnits \in Nat /\ n <= MaxSegUnits
      BY PageOf, QueueAssumption
    <3> QED
      BY <3>1, <3>2, WithinBoundary
  <2> QED
    BY <2>1, <2>2
<1> QED
  BY <1>1, <1>2, <1>3, <1>4 DEF LegalVecs

-----------------------------------------------------------------------------
(* References                                                              *)

\* Of the last bvec the piece makes its own page one more.
LEMMA AddedFrames ==
  ASSUME NEW b \in Bio, NEW at \in Nat, NEW n \in Nat \ {0},
         NEW c, Grown(b, at, n, c), (at % PageUnits) + n <= PageUnits
  PROVE  LET l == Len(c.vecs)
         IN  /\ BvecFrames(c.vecs[l]) = (IF Mergeable(b, at, n) THEN BvecFrames(b.vecs[l]) ELSE {})
                                           \union {Page(at)}
             /\ Mergeable(b, at, n) /\ at % PageUnits = 0 => Page(at) \notin BvecFrames(b.vecs[l])
<1> DEFINE l == Len(c.vecs)
           r == at % PageUnits
           P == PageUnits
<1>1. r \in Nat /\ P \in Nat \ {0} /\ Page(at) \in Nat /\ n - 1 \in Nat
  BY PageOf, QueueAssumption
<1>2. Page(at + n - 1) = Page(at)
  <2>1. r + (n - 1) < P /\ at + (n - 1) = at + n - 1
    BY <1>1
  <2> QED
    BY <1>1, <2>1, NextUnits
<1>3. CASE Mergeable(b, at, n)
  <2> DEFINE old == b.vecs[l]
  <2>1. /\ old.at + old.len = at /\ old.at \in Nat /\ old.len \in Nat \ {0}
        /\ c.vecs[l].at = old.at /\ c.vecs[l].len = old.len + n
    BY <1>3, BioUnitsFacts DEF Grown
  <2> HIDE DEF old
  <2>2. old.at + old.len - 1 = at - 1 /\ at - 1 \in Nat /\ old.at <= at - 1
        /\ c.vecs[l].at + c.vecs[l].len - 1 = at + n - 1
    <3> DEFINE u == old.at
               v == old.len
    <3>1. u + v = at /\ u \in Nat /\ v \in Nat \ {0} /\ c.vecs[l].at = u /\ c.vecs[l].len = v + n
      BY <2>1
    <3> HIDE DEF u, v
    <3>2. u + v - 1 = at - 1 /\ at - 1 \in Nat /\ u <= at - 1 /\ u + (v + n) - 1 = at + n - 1
      BY <3>1
    <3> QED
      BY <3>1, <3>2 DEF u, v
  <2>3. Page(at - 1) \in Nat /\ Page(at - 1) = (IF r = 0 THEN Page(at) - 1 ELSE Page(at))
    <3> DEFINE p == Page(at - 1)
               s == (at - 1) % P
    <3>1. p \in Nat /\ s \in 0 .. P - 1 /\ at - 1 = p * P + s
      BY <2>2, PageOf
    <3>2. CASE s + 1 < P
      <4>1. Page((at - 1) + 1) = p /\ ((at - 1) + 1) % P = s + 1
        BY <2>2, <3>2, NextUnits
      <4> QED
        BY <3>1, <4>1
    <3>3. CASE ~(s + 1 < P)
      <4> HIDE DEF p, s
      <4>1. at = (p + 1) * P + 0 /\ p + 1 \in Nat /\ 0 \in 0 .. P - 1
        BY <1>1, <3>1, <3>3
      <4> DEFINE q == p + 1
      <4>2. at = q * P + 0 /\ q \in Nat
        BY <4>1
      <4> HIDE DEF q
      <4>3. Page(at) = q /\ r = 0
        BY <4>1, <4>2, PageOf
      <4> QED
        BY <3>1, <4>3 DEF q, p
    <3> QED
      BY <3>2, <3>3
  <2>4. Page(old.at) \in Nat /\ Page(old.at) <= Page(at - 1)
    <3>1. /\ Page(old.at) \in Nat /\ old.at % P \in 0 .. P - 1
          /\ old.at = Page(old.at) * P + (old.at % P)
          /\ (at - 1) % P \in 0 .. P - 1 /\ at - 1 = Page(at - 1) * P + ((at - 1) % P)
      BY <2>1, <2>2, PageOf
    <3> DEFINE x == Page(old.at)
               y == Page(at - 1)
    <3> HIDE DEF x, y
    <3>2. x \in Nat /\ y \in Nat /\ x * P < (y + 1) * P
      <4>1. x \in Nat /\ y \in Nat
        BY <3>1, <2>3 DEF x, y
      <4>2. x * P \in Nat /\ y * P \in Nat /\ (y + 1) * P = y * P + P
        BY <1>1, <4>1
      <4> DEFINE xp == x * P
                 yp == y * P
                 rx == old.at % P
                 ry == (at - 1) % P
      <4>3. old.at = xp + rx /\ at - 1 = yp + ry
        BY <3>1 DEF x, y
      <4>4. rx \in Nat /\ ry \in Nat /\ ry < P /\ xp \in Nat /\ yp \in Nat /\ (y + 1) * P = yp + P
        BY <1>1, <3>1, <4>2
      <4> HIDE DEF xp, yp, rx, ry, P
      <4>5. xp < yp + P
        BY <1>1, <2>1, <2>2, <4>3, <4>4
      <4> QED
        BY <4>1, <4>4, <4>5 DEF xp
    <3>3. x < y + 1
      BY <1>1, <3>2
    <3> QED
      BY <3>2, <3>3 DEF x, y
  <2>5. BvecFrames(c.vecs[l]) = Page(old.at) .. Page(at)
        /\ BvecFrames(old) = Page(old.at) .. Page(at - 1)
    BY <1>2, <2>1, <2>2 DEF BvecFrames
  <2>6. BvecFrames(c.vecs[l]) = BvecFrames(old) \union {Page(at)}
    BY <1>1, <2>3, <2>4, <2>5
  <2>7. r = 0 => Page(at) \notin BvecFrames(old)
    BY <1>1, <2>3, <2>4, <2>5
  <2> QED
    BY <1>3, <2>6, <2>7 DEF old
<1>4. CASE ~Mergeable(b, at, n)
  <2>1. c.vecs[l].at = at /\ c.vecs[l].len = n
    BY <1>4 DEF Grown
  <2>2. BvecFrames(c.vecs[l]) = {Page(at)}
    BY <1>1, <1>2, <2>1 DEF BvecFrames
  <2> QED
    BY <1>4, <2>2
<1> QED
  BY <1>3, <1>4

LEMMA BioHoldsNat ==
  ASSUME NEW b \in Bio, NEW f
  PROVE  /\ BioHolds(b, f) \in Nat
         /\ b.vecs = <<>> => BioHolds(b, f) = 0
         /\ IsFiniteSet({i \in DOMAIN b.vecs : f \in BvecFrames(b.vecs[i])})
<1> DEFINE H == {i \in DOMAIN b.vecs : f \in BvecFrames(b.vecs[i])}
<1>1. IsFiniteSet(1 .. Len(b.vecs)) /\ H \subseteq 1 .. Len(b.vecs)
  <2>1. Len(b.vecs) \in Nat /\ DOMAIN b.vecs = 1 .. Len(b.vecs)
    BY BioUnitsFacts
  <2> QED
    BY <2>1, FS_Interval
<1>2. IsFiniteSet(H) /\ Cardinality(H) \in Nat
  BY <1>1, FS_Subset, FS_CardinalityType
<1>3. b.vecs = <<>> => H = {}
  OBVIOUS
<1> QED
  BY <1>2, <1>3, FS_EmptySet DEF BioHolds

\* A piece is given back with the bio once, or, if it was merged into a page that is
\* already there, not at all.
LEMMA AddedHolds ==
  ASSUME NEW b \in Bio, NEW at \in Nat, NEW n \in Nat \ {0}, b.kind # "registered",
         NEW c, Grown(b, at, n, c), (at % PageUnits) + n <= PageUnits, NEW f
  PROVE  /\ BioHolds(c, f) <= BioHolds(b, f) + Only(f = Page(at))
         /\ at % PageUnits = 0 \/ b.vecs = <<>> =>
              BioHolds(c, f) = BioHolds(b, f) + Only(f = Page(at))
<1> DEFINE l == Len(c.vecs)
           H == {i \in DOMAIN b.vecs : f \in BvecFrames(b.vecs[i])}
           G == {i \in DOMAIN c.vecs : f \in BvecFrames(c.vecs[i])}
<1>1. /\ \A i \in DOMAIN b.vecs : i # l => i \in DOMAIN c.vecs /\ c.vecs[i] = b.vecs[i]
      /\ \A i \in DOMAIN c.vecs : i # l => i \in DOMAIN b.vecs
      /\ l \in DOMAIN c.vecs
      /\ Mergeable(b, at, n) <=> l \in DOMAIN b.vecs
  BY BioUnitsFacts DEF Grown
<1>2. BioHolds(b, f) = Cardinality(H) /\ BioHolds(c, f) = Cardinality(G)
  BY DEF Grown, BioHolds
<1>3. IsFiniteSet(H) /\ Cardinality(H) \in Nat
  BY <1>2, BioHoldsNat
<1>4. BvecFrames(c.vecs[l]) = (IF Mergeable(b, at, n) THEN BvecFrames(b.vecs[l]) ELSE {})
                                       \union {Page(at)}
  BY AddedFrames
<1>5. CASE f = Page(at)
  <2>1. G = H \union {l}
    BY <1>1, <1>4, <1>5
  <2>2. Cardinality(G) = IF l \in H THEN Cardinality(H) ELSE Cardinality(H) + 1
    BY <1>3, <2>1, FS_AddElement
  <2>3. ASSUME at % PageUnits = 0 \/ b.vecs = <<>> PROVE l \notin H
    <3>1. CASE Mergeable(b, at, n)
      <4>1. at % PageUnits = 0
        BY <2>3, <3>1 DEF Mergeable
      <4> QED
        BY <1>5, <3>1, <4>1, AddedFrames
    <3>2. CASE ~Mergeable(b, at, n)
      BY <1>1, <3>2
    <3> QED
      BY <3>1, <3>2
  <2> QED
    BY <1>2, <1>3, <1>5, <2>2, <2>3 DEF Only
<1>6. CASE f # Page(at)
  <2>1. \A i \in DOMAIN c.vecs : i # l /\ f \in BvecFrames(c.vecs[i]) => i \in H
    BY <1>1
  <2>2. l \in G <=> l \in H
    BY <1>1, <1>4, <1>6
  <2>3. \A i \in H : i # l => i \in G
    BY <1>1
  <2>4. G = H
    BY <2>1, <2>2, <2>3
  <2> HIDE DEF G, H
  <2>5. BioHolds(c, f) = BioHolds(b, f) /\ BioHolds(b, f) \in Nat
    BY <1>2, <1>3, <2>4
  <2> QED
    BY <1>6, <2>5 DEF Only
<1> QED
  BY <1>5, <1>6

-----------------------------------------------------------------------------
(* The bios of a request                                                   *)

LEMMA ChainFacts ==
  ASSUME NEW s \in Seq(Bio)
  PROVE  /\ Len(s) \in Nat /\ DOMAIN s = 1 .. Len(s)
         /\ \A i \in 0 .. Len(s) : UnitsOf(s, i) \in Nat
         /\ ChainUnits(s) \in Nat
         /\ \A f : Holds(s, f) \in Nat
<1> DEFINE u == [b \in DOMAIN s |-> BioUnits(s[b])]
<1>1. Len(s) \in Nat /\ DOMAIN s = 1 .. Len(s) /\ \A b \in DOMAIN s : s[b] \in Bio
  OBVIOUS
<1>2. \A b \in DOMAIN s : u[b] \in Nat
  BY <1>1, BioUnitsFacts
<1>3. ASSUME NEW i \in 0 .. Len(s) PROVE UnitsOf(s, i) \in Nat
  <2>1. i \in Nat /\ \A b \in 1 .. i : u[b] \in Nat
    BY <1>1, <1>2
  <2> HIDE DEF u
  <2>2. Sum(u, i) \in Nat
    BY <2>1, SumIsNat
  <2> QED
    BY <2>2 DEF UnitsOf, u
<1>4. ChainUnits(s) \in Nat
  BY <1>1, <1>3 DEF ChainUnits
<1>5. ASSUME NEW f PROVE Holds(s, f) \in Nat
  <2> DEFINE h == [b \in DOMAIN s |-> BioHolds(s[b], f)]
  <2>1. \A b \in 1 .. Len(s) : h[b] \in Nat
    BY <1>1, BioHoldsNat
  <2> HIDE DEF h
  <2>2. Sum(h, Len(s)) \in Nat
    BY <1>1, <2>1, SumIsNat
  <2> QED
    BY <2>2 DEF Holds, h
<1> QED
  BY <1>1, <1>3, <1>4, <1>5

LEMMA NoBios ==
  /\ <<>> \in Seq(Bio) /\ ChainUnits(<<>>) = 0 /\ ChainSegments(<<>>) = 0
  /\ \A f : Holds(<<>>, f) = 0
<1>1. \A f : Sum(f, 0) = 0
  <2> TAKE f
  <2>1. 0 \in Nat
    OBVIOUS
  <2> QED
    BY <2>1, SumStep
<1>2. Len(<<>>) = 0
  OBVIOUS
<1> QED
  BY <1>1, <1>2 DEF ChainUnits, UnitsOf, ChainSegments, Holds

\* One more term.
LEMMA SumOfAppended ==
  ASSUME NEW f, NEW g, NEW n \in Nat, \A i \in 1 .. n : g[i] = f[i]
  PROVE  \A i \in 0 .. n : Sum(g, i) = Sum(f, i)
<1> TAKE i \in 0 .. n
<1>1. i \in Nat /\ \A k \in 1 .. i : g[k] = f[k]
  OBVIOUS
<1> QED
  BY <1>1, SumAgree

LEMMA ChainAppend ==
  ASSUME NEW s \in Seq(Bio), NEW b \in Bio
  PROVE  LET t == Append(s, b)
         IN  /\ t \in Seq(Bio) /\ Len(t) = Len(s) + 1 /\ t[Len(s) + 1] = b
             /\ \A i \in DOMAIN s : t[i] = s[i]
             /\ \A i \in 0 .. Len(s) : UnitsOf(t, i) = UnitsOf(s, i)
             /\ ChainUnits(t) = ChainUnits(s) + BioUnits(b)
             /\ ChainSegments(t) = ChainSegments(s) + Len(b.vecs)
             /\ \A f : Holds(t, f) = Holds(s, f) + BioHolds(b, f)
<1> DEFINE t == Append(s, b)
           n == Len(s)
<1>1. /\ t \in Seq(Bio) /\ Len(t) = n + 1 /\ t[n + 1] = b /\ n \in Nat
      /\ DOMAIN s = 1 .. n /\ DOMAIN t = 1 .. n + 1
      /\ \A i \in 1 .. n : t[i] = s[i]
  OBVIOUS
<1> HIDE DEF t, n
<1>2. /\ \A i \in 0 .. n : UnitsOf(t, i) = UnitsOf(s, i)
      /\ UnitsOf(t, n + 1) = UnitsOf(s, n) + BioUnits(b)
  <2> DEFINE f == [x \in DOMAIN s |-> BioUnits(s[x])]
             g == [x \in DOMAIN t |-> BioUnits(t[x])]
  <2>1. (\A i \in 1 .. n : g[i] = f[i]) /\ g[n + 1] = BioUnits(b)
    BY <1>1
  <2> HIDE DEF f, g
  <2>2. \A i \in 0 .. n : Sum(g, i) = Sum(f, i)
    BY <1>1, <2>1, SumOfAppended
  <2>3. Sum(g, n + 1) = Sum(g, n) + g[n + 1] /\ n \in 0 .. n
    BY <1>1, SumStep
  <2> QED
    BY <2>1, <2>2, <2>3 DEF UnitsOf, f, g
<1>3. ChainSegments(t) = ChainSegments(s) + Len(b.vecs)
  <2> DEFINE f == [x \in DOMAIN s |-> Len(s[x].vecs)]
             g == [x \in DOMAIN t |-> Len(t[x].vecs)]
  <2>1. (\A i \in 1 .. n : g[i] = f[i]) /\ g[n + 1] = Len(b.vecs)
    BY <1>1
  <2> HIDE DEF f, g
  <2>2. \A i \in 0 .. n : Sum(g, i) = Sum(f, i)
    BY <1>1, <2>1, SumOfAppended
  <2>3. Sum(g, n + 1) = Sum(g, n) + g[n + 1] /\ n \in 0 .. n
    BY <1>1, SumStep
  <2> QED
    BY <1>1, <2>1, <2>2, <2>3 DEF ChainSegments, f, g, n
<1>4. ASSUME NEW x PROVE Holds(t, x) = Holds(s, x) + BioHolds(b, x)
  <2> DEFINE f == [y \in DOMAIN s |-> BioHolds(s[y], x)]
             g == [y \in DOMAIN t |-> BioHolds(t[y], x)]
  <2>1. (\A i \in 1 .. n : g[i] = f[i]) /\ g[n + 1] = BioHolds(b, x)
    BY <1>1
  <2> HIDE DEF f, g
  <2>2. \A i \in 0 .. n : Sum(g, i) = Sum(f, i)
    BY <1>1, <2>1, SumOfAppended
  <2>3. Sum(g, n + 1) = Sum(g, n) + g[n + 1] /\ n \in 0 .. n
    BY <1>1, SumStep
  <2> QED
    BY <1>1, <2>1, <2>2, <2>3 DEF Holds, f, g, n
<1>5. ChainUnits(t) = ChainUnits(s) + BioUnits(b)
  BY <1>1, <1>2 DEF ChainUnits, n
<1> QED
  BY <1>1, <1>2, <1>3, <1>4, <1>5 DEF t, n

\* The bio being filled, as a sequence of bios.
LEMMA OneBio ==
  ASSUME NEW b \in Bio
  PROVE  /\ <<b>> \in Seq(Bio) /\ Len(<<b>>) = 1 /\ <<b>>[1] = b
         /\ \A f : Holds(<<b>>, f) = BioHolds(b, f)
         /\ \A s \in Seq(Bio) : s \o <<b>> = Append(s, b)
<1>1. Append(<<>>, b) = <<b>> /\ <<>> \in Seq(Bio)
  OBVIOUS
<1>2. ASSUME NEW f PROVE Holds(<<b>>, f) = BioHolds(b, f)
  <2>1. Holds(Append(<<>>, b), f) = Holds(<<>>, f) + BioHolds(b, f)
    BY <1>1, ChainAppend
  <2>2. Holds(<<>>, f) = 0 /\ BioHolds(b, f) \in Nat
    BY NoBios, BioHoldsNat
  <2> QED
    BY <1>1, <2>1, <2>2
<1>3. \A s \in Seq(Bio) : s \o <<b>> = Append(s, b)
  OBVIOUS
<1> QED
  BY <1>2, <1>3

-----------------------------------------------------------------------------
(* The vector                                                              *)

LEMMA SegmentFacts ==
  ASSUME vec \in Vectors, NEW at \in Nat, at < Total
  PROVE  /\ SegmentEnd(at) \in vec.ends /\ at < SegmentEnd(at) /\ SegmentEnd(at) <= Total
         /\ SegmentEnd(at) \in Nat /\ Total \in Nat
         /\ \A d \in 0 .. SegmentEnd(at) - at - 1 :
              /\ at + 1 + d \in DOMAIN vec.addr
              /\ vec.addr[at + 1 + d] = vec.addr[at + 1] + d
         /\ vec.addr[at + 1] \in Nat
<1> DEFINE E == {x \in vec.ends : x > at}
           e == SegmentEnd(at)
<1>1. /\ vec.addr \in Seq(Nat) /\ Total \in Nat /\ DOMAIN vec.addr = 1 .. Total
      /\ vec.ends \subseteq 1 .. Total /\ Total \in vec.ends
      /\ \A k \in (1 .. Total) \ vec.ends : vec.addr[k + 1] = vec.addr[k] + 1
  <2>1. vec.addr \in Seq(Nat) /\ Total \in Nat /\ DOMAIN vec.addr = 1 .. Total
    BY VectorAssumption DEF Total
  <2>2. vec.addr # <<>>
    BY <2>1 DEF Total
  <2> QED
    BY <2>1, <2>2, VectorAssumption DEF Total
<1>2. E \subseteq Nat /\ E # {}
  BY <1>1
<1>3. PICK m \in E : \A y \in E : m <= y
  BY <1>2, NatMin
<1>4. e \in E /\ \A y \in E : e <= y
  BY <1>3 DEF SegmentEnd, Min
<1>5. e \in vec.ends /\ at < e /\ e <= Total /\ e \in Nat
  BY <1>1, <1>4
<1> HIDE DEF e
<1>6. \A k \in at + 1 .. e - 1 : k \in 1 .. Total /\ k \notin vec.ends
  BY <1>1, <1>4, <1>5
<1> DEFINE T == {d \in Nat : d <= e - at - 1 /\ vec.addr[at + 1 + d] # vec.addr[at + 1] + d}
<1>7. vec.addr[at + 1] \in Nat
  BY <1>1, <1>5
<1>8. ASSUME T # {} PROVE FALSE
  <2>1. PICK d \in T : \A y \in T : d <= y
    BY <1>8, NatMin
  <2>2. d # 0
    BY <1>7, <2>1
  <2>3. d - 1 \in Nat /\ d - 1 \notin T
    BY <2>1, <2>2
  <2>4. vec.addr[at + d] = vec.addr[at + 1] + (d - 1)
    <3>1. at + 1 + (d - 1) = at + d
      BY <2>3
    <3> QED
      BY <1>5, <2>1, <2>3, <3>1
  <2>5. at + d \in at + 1 .. e - 1 /\ (at + d) + 1 = at + 1 + d
    BY <1>5, <2>1, <2>3
  <2>6. vec.addr[at + 1 + d] = vec.addr[at + d] + 1
    BY <1>1, <1>6, <2>5
  <2> QED
    BY <1>7, <2>1, <2>3, <2>4, <2>6
<1>9. ASSUME NEW d \in 0 .. e - at - 1
      PROVE  at + 1 + d \in DOMAIN vec.addr /\ vec.addr[at + 1 + d] = vec.addr[at + 1] + d
  <2>1. at + 1 + d \in 1 .. Total /\ d \in Nat /\ d <= e - at - 1
    BY <1>1, <1>5
  <2>2. d \notin T
    BY <1>8
  <2> QED
    BY <1>1, <2>1, <2>2
<1> QED
  BY <1>1, <1>5, <1>7, <1>9 DEF e

-----------------------------------------------------------------------------
(* A pass                                                                  *)

LEMMA OffsetPages ==
  ASSUME NEW a \in Nat, NEW d \in Nat
  PROVE  /\ (a % PageUnits) + d \in Nat
         /\ Page(a + d) = Page(a) + Page((a % PageUnits) + d)
         /\ (a + d) % PageUnits = ((a % PageUnits) + d) % PageUnits
<1> DEFINE x == (a % PageUnits) + d
           k == Page(a)
<1>1. x \in Nat /\ k \in Nat /\ PageUnits \in Nat
  BY PageOf, QueueAssumption
<1>2. x + k * PageUnits = a + d
  <2>1. a = k * PageUnits + (a % PageUnits) /\ a % PageUnits \in Nat
    BY PageOf
  <2>2. k * PageUnits \in Nat
    BY <1>1
  <2> HIDE DEF k
  <2> QED
    BY <2>1, <2>2
<1> HIDE DEF x, k
<1>3. Page(x + k * PageUnits) = Page(x) + k /\ (x + k * PageUnits) % PageUnits = x % PageUnits
  BY <1>1, NextPages
<1>4. Page(x) \in Nat
  BY <1>1, PageOf
<1>5. Page(a + d) = k + Page(x) /\ (a + d) % PageUnits = x % PageUnits
  BY <1>1, <1>2, <1>3, <1>4
<1> QED
  BY <1>1, <1>5 DEF x, k

\* What `got' pages of a segment are.
LEMMA PassBytes ==
  ASSUME NEW start \in 0 .. PageUnits - 1, NEW size \in Nat \ {0},
         NEW got \in 1 .. PageCount(start, size)
  PROVE  LET n == AtMost(size, got * PageUnits - start)
         IN  /\ n \in 1 .. size
             /\ (got - 1) * PageUnits < start + n /\ start + n <= got * PageUnits
             /\ n < size => start + n = got * PageUnits
<1> DEFINE P == PageUnits
           c == PageCount(start, size)
           y == start + size + P - 1
           m == got * P
           n == AtMost(size, m - start)
<1>1. P \in Nat \ {0} /\ start \in Nat /\ y \in Nat
  BY QueueAssumption
<1>2. c \in Nat /\ c * P <= y
  BY <1>1 DEF PageCount
<1> HIDE DEF c
<1>3. got \in Nat \ {0} /\ got <= c
  BY <1>2 DEF c
<1>4. m \in Nat /\ m <= y /\ P <= m /\ (got - 1) * P = m - P
  <2>1. m \in Nat /\ c * P \in Nat /\ m <= c * P /\ P <= m /\ (got - 1) * P = m - P
    BY <1>1, <1>2, <1>3
  <2> HIDE DEF m, P
  <2> QED
    BY <1>1, <1>2, <2>1
<1>5. start < P
  BY <1>1
<1> HIDE DEF P, m
<1>6. n \in 1 .. size /\ m - P < start + n /\ start + n <= m /\ (n < size => start + n = m)
  BY <1>1, <1>4, <1>5 DEF AtMost
<1> QED
  BY <1>4, <1>6 DEF P, m

\* Unit d of a pass lies in one of its pages.
LEMMA UnitInPage ==
  ASSUME NEW x \in Nat, NEW k \in Nat, x < k * PageUnits
  PROVE  Page(x) \in Nat /\ Page(x) + 1 <= k
<1> DEFINE q == Page(x)
           r == x % PageUnits
<1>1. PageUnits \in Nat \ {0} /\ q \in Nat /\ r \in Nat /\ x = q * PageUnits + r
  <2>1. PageUnits \in Nat \ {0}
    BY QueueAssumption
  <2>2. q \in Nat /\ r \in 0 .. PageUnits - 1 /\ x = q * PageUnits + r
    BY PageOf
  <2> HIDE DEF q, r
  <2> QED
    BY <2>1, <2>2
<1> HIDE DEF q, r
<1>2. q * PageUnits < k * PageUnits
  <2>1. q * PageUnits \in Nat /\ k * PageUnits \in Nat
    BY <1>1
  <2> QED
    BY <1>1, <2>1
<1>3. q < k
  BY <1>1, <1>2
<1> QED
  BY <1>1, <1>3 DEF q

\* The piece of the next page, and what it leaves.
LEMMA PieceFits ==
  ASSUME NEW left \in Nat \ {0}, NEW o \in 0 .. PageUnits - 1, NEW m \in Nat \ {0},
         (left - 1) * PageUnits < o + m, o + m <= left * PageUnits
  PROVE  LET n == AtMost(PageUnits - o, m)
         IN  /\ n \in 1 .. m /\ o + n <= PageUnits
             /\ left = 1 => n = m
             /\ left # 1 => /\ n = PageUnits - o /\ m - n \in Nat \ {0}
                            /\ (left - 2) * PageUnits < m - n
                            /\ m - n <= (left - 1) * PageUnits
<1> DEFINE P == PageUnits
           n == AtMost(P - o, m)
           z == left * P
<1>1. P \in Nat \ {0} /\ z \in Nat /\ (left - 1) * P = z - P /\ (left - 2) * P = z - P - P
  BY QueueAssumption
<1>2. n \in 1 .. m /\ o + n <= P /\ (P - o <= m => n = P - o) /\ (m <= P - o => n = m)
  BY <1>1 DEF AtMost
<1>3. left = 1 => z = P
  BY <1>1
<1>4. left # 1 => z - P >= P
  <2>1. left # 1 => (left - 1) * P >= P
    BY <1>1
  <2> QED
    BY <1>1, <2>1
<1>5. o \in Nat /\ o < P
  BY <1>1
<1> HIDE DEF P, n, z
<1>6. z - P < o + m /\ o + m <= z
  BY <1>1 DEF P, z
<1>7. left = 1 => n = m
  BY <1>1, <1>2, <1>3, <1>5, <1>6
<1>8. left # 1 => n = P - o /\ m - n \in Nat \ {0} /\ z - P - P < m - n /\ m - n <= z - P
  BY <1>1, <1>2, <1>4, <1>5, <1>6
<1> QED
  BY <1>1, <1>2, <1>7, <1>8 DEF P, n, z

-----------------------------------------------------------------------------
(* Steps that only go on to another place in the call                      *)

LEMMA TotalNat ==
  ASSUME PlaceInv
  PROVE  Total \in Nat /\ vec.addr \in Seq(Nat) /\ DOMAIN vec.addr = 1 .. Total
<1>1. CASE vec \in Vectors
  BY <1>1, VectorAssumption DEF Total
<1>2. CASE vec.addr = <<>>
  BY <1>2 DEF Total
<1> QED
  BY <1>1, <1>2 DEF PlaceInv

LEMMA TheBio ==
  ASSUME TypeOK, PlaceInv, pc \in Filling
  PROVE  bio[1] \in Bio /\ bio = <<bio[1]>> /\ vec \in Vectors
<1>1. bio \in Seq(Bio) /\ Len(bio) = 1
  BY DEF TypeOK, PlaceInv
<1>2. bio[1] \in Bio /\ bio = <<bio[1]>>
  BY <1>1
<1> QED
  BY <1>2 DEF PlaceInv, Filling

\* Where the call may go without doing anything else.
Onward(from, to) ==
  \/ from = "alloc" /\ to = "unmap_rq"
  \/ from \in {"append", "pin", "copy_page", "fill"} /\ to = "drop"
  \/ from = "add" /\ to = "release" /\ bio[1].vecs # <<>>
  \/ from = "copy_page" /\ to = "fill" /\ bio[1].vecs # <<>>
  \/ from = "bvec" /\ to = "idle"

LEMMA MoveKeeps ==
  ASSUME BInv, Onward(pc, pc'), UNCHANGED <<request, pos, bio, pass, chain, refs>>
  PROVE  BInv'
<1> USE DEF request, pass
<1>1. TypeOK'
  BY DEF BInv, TypeOK, Onward, Total
<1>2. PlaceInv'
  BY DEF BInv, PlaceInv, Onward, Filling, MustCopy, HasGap
<1>3. CursorInv'
  BY DEF BInv, CursorInv, Onward, Filling, Total
<1>4. PassInv'
  BY DEF BInv, PassInv, PassUnit, Onward, Physical, Page
<1>5. AlignInv'
  BY DEF BInv, AlignInv, Onward, OnPage, Total
<1>6. DataInv'
  BY DEF BInv, DataInv, Onward, Filling, IsImage, Physical, Page
<1>7. LimitInv'
  BY DEF BInv, LimitInv, Onward, Filling, LegalVecs
<1>8. HoldInv'
  BY DEF BInv, HoldInv, InPass
<1> QED
  BY <1>1, <1>2, <1>3, <1>4, <1>5, <1>6, <1>7, <1>8 DEF BInv

LEMMA NoBioKeeps ==
  ASSUME BInv, NoBio
  PROVE  BInv'
BY MoveKeeps DEF NoBio, Onward

LEMMA RefuseBvecsKeeps ==
  ASSUME BInv, RefuseBvecs
  PROVE  BInv'
BY MoveKeeps DEF RefuseBvecs, Onward

LEMMA PinFailsKeeps ==
  ASSUME BInv, PinFails
  PROVE  BInv'
BY MoveKeeps DEF PinFails, Onward

LEMMA NoPageKeeps ==
  ASSUME BInv, NoPage
  PROVE  BInv'
BY MoveKeeps DEF NoPage, Onward

LEMMA AllAddedKeeps ==
  ASSUME BInv, AllAdded
  PROVE  BInv'
<1>1. pc = "add" /\ pages # <<>> /\ j = Len(pages) /\ pages \in Seq(Frames)
  BY DEF BInv, TypeOK, PlaceInv, AllAdded
<1>2. j > 0
  BY <1>1
<1>3. bio[1].vecs # <<>>
  BY <1>1, <1>2 DEF BInv, CursorInv
<1> QED
  BY <1>3, MoveKeeps DEF AllAdded, Onward

LEMMA AllCopiedKeeps ==
  ASSUME BInv, AllCopied
  PROVE  BInv'
<1>1. TypeOK /\ PlaceInv /\ CursorInv /\ pc = "copy_page" /\ LeftToCopy = 0
  BY DEF BInv, AllCopied
<1>2. bio[1] \in Bio /\ Total \in Nat /\ pos \in Nat /\ pos < Total
  BY <1>1, TheBio, TotalNat DEF Filling, TypeOK, CursorInv
<1>3. BioUnits(bio[1]) # 0
  BY <1>1, <1>2, BioUnitsFacts DEF LeftToCopy
<1>4. bio[1].vecs # <<>>
  BY <1>2, <1>3, BioUnitsFacts
<1> QED
  BY <1>4, MoveKeeps DEF AllCopied, Onward

-----------------------------------------------------------------------------
(* The beginning                                                           *)

LEMMA NoneInPass ==
  ASSUME pages = <<>>, j = 0
  PROVE  \A f : InPass(f) = 0
<1>1. \A f : {k \in j + 1 .. Len(pages) : pages[k] = f} = {}
  OBVIOUS
<1> QED
  BY <1>1, FS_EmptySet DEF InPass

LEMMA InitHolds ==
  ASSUME Init
  PROVE  BInv
<1> USE DEF Init
<1>1. TypeOK
  <2>1. Total = 0
    BY DEF Total
  <2>2. 0 \in 0 .. PageUnits - 1 /\ <<>> \in Seq(Frames) /\ Len(<<>>) = 0
    BY QueueAssumption
  <2>3. refs \in [Frames -> Nat] /\ chain \in Seq(Bio) /\ bio \in Seq(Bio) /\ copy \in BOOLEAN
    BY NoBios
  <2>4. pos \in 0 .. Total /\ j \in 0 .. Len(pages) /\ pages \in Seq(Frames) /\ Len(bio) <= 1
    BY <2>1, <2>2
  <2> QED
    BY <2>2, <2>3, <2>4 DEF TypeOK
<1>2. PlaceInv
  BY DEF PlaceInv, Filling
<1>3. CursorInv
  BY NoBios DEF CursorInv, Filling, Total
<1>4. PassInv /\ AlignInv
  BY DEF PassInv, AlignInv
<1>5. DataInv
  BY DEF DataInv, Filling
<1>6. LimitInv
  BY NoBios, QueueAssumption DEF LimitInv, Filling
<1>7. HoldInv
  BY NoBios, NoneInPass DEF HoldInv
<1> QED
  BY <1>1, <1>2, <1>3, <1>4, <1>5, <1>6, <1>7 DEF BInv

LEMMA StutterKeeps ==
  ASSUME BInv, UNCHANGED vars
  PROVE  BInv'
<1> USE DEF vars, request, pass
<1>1. TypeOK'
  BY DEF BInv, TypeOK, Total
<1>2. PlaceInv'
  BY DEF BInv, PlaceInv, Filling, MustCopy, HasGap
<1>3. CursorInv'
  BY DEF BInv, CursorInv, Filling, Total
<1>4. PassInv'
  BY DEF BInv, PassInv, PassUnit, Physical, Page
<1>5. AlignInv'
  BY DEF BInv, AlignInv, OnPage, Total
<1>6. DataInv'
  BY DEF BInv, DataInv, Filling, IsImage, Physical, Page
<1>7. LimitInv'
  BY DEF BInv, LimitInv, Filling, LegalVecs
<1>8. HoldInv'
  BY DEF BInv, HoldInv, InPass
<1> QED
  BY <1>1, <1>2, <1>3, <1>4, <1>5, <1>6, <1>7, <1>8 DEF BInv

LEMMA MapKeeps ==
  ASSUME BInv, NEW v \in Vectors, NEW o \in {"READ", "WRITE"}, Map(v, o)
  PROVE  BInv'
<1> USE DEF Map, request, pass
<1>1. /\ pages = <<>> /\ j = 0 /\ bytes = 0 /\ offs = 0 /\ bio = <<>> /\ chain = <<>>
      /\ TypeOK
  BY DEF BInv, PlaceInv, Filling
<1>2. PlaceInv'
  BY <1>1 DEF PlaceInv, Filling, MustCopy, HasGap
<1>3. Total' \in Nat
  BY VectorAssumption DEF Total
<1>4. TypeOK'
  BY <1>1, <1>3 DEF TypeOK, MustCopy
<1>5. CursorInv'
  BY <1>1, <1>3, NoBios DEF CursorInv, Filling
<1>6. PassInv'
  BY DEF PassInv
<1>7. AlignInv'
  BY <1>1 DEF AlignInv, OnPage
<1>8. DataInv'
  BY <1>1 DEF DataInv, Filling
<1>9. LimitInv'
  BY <1>1, NoBios, QueueAssumption DEF LimitInv, Filling
<1>10. HoldInv'
  BY DEF BInv, HoldInv, InPass
<1> QED
  BY <1>2, <1>4, <1>5, <1>6, <1>7, <1>8, <1>9, <1>10 DEF BInv

-----------------------------------------------------------------------------
(* A bio begins, is appended, or is given up                               *)

LEMMA InPassNat ==
  ASSUME TypeOK
  PROVE  \A f : InPass(f) \in Nat
<1> TAKE f
<1>1. Len(pages) \in Nat /\ j \in Nat
  BY DEF TypeOK
<1>2. IsFiniteSet(j + 1 .. Len(pages))
  BY <1>1, FS_Interval
<1>3. IsFiniteSet({k \in j + 1 .. Len(pages) : pages[k] = f})
  BY <1>2, FS_Subset
<1> QED
  BY <1>3, FS_CardinalityType DEF InPass

LEMMA VecsWanted ==
  ASSUME TypeOK, PlaceInv, vec \in Vectors, pos < Total
  PROVE  /\ AtMost(PageCount(0, Total - pos), BIO_MAX_VECS) \in 1 .. BIO_MAX_VECS
         /\ AtMost(IovPages(pos), BIO_MAX_VECS) \in 1 .. BIO_MAX_VECS
<1>1. Total \in Nat /\ pos \in Nat /\ BIO_MAX_VECS \in Nat \ {0} /\ PageUnits \in Nat \ {0}
  BY TotalNat, QueueAssumption DEF TypeOK
<1>2. PageCount(0, Total - pos) \in Nat \ {0}
  <2> DEFINE P == PageUnits
             y == 0 + (Total - pos) + P - 1
             e == y \div P
  <2>1. P \in Nat \ {0} /\ y \in Nat /\ y >= P
    BY <1>1
  <2> HIDE DEF P, y
  <2>2. e \in Nat /\ y < (e + 1) * P
    BY <2>1
  <2>3. e # 0
    BY <2>1, <2>2
  <2> QED
    BY <2>2, <2>3 DEF P, y, PageCount
<1>3. IovPages(pos) \in Nat \ {0}
  <2> DEFINE K == pos + 1 .. Total
             g == [k \in K |-> <<Page(vec.addr[k]), SegmentEnd(k - 1)>>]
             I == {<<Page(vec.addr[k]), SegmentEnd(k - 1)>> : k \in K}
  <2>1. IsFiniteSet(K) /\ pos + 1 \in K
    BY <1>1, FS_Interval
  <2>2. I # {}
    BY <2>1
  <2>3. g \in Surjection(K, I)
    BY DEF Surjection
  <2> HIDE DEF I, g
  <2>4. IsFiniteSet(I)
    BY <2>1, <2>3, FS_Surjection
  <2>5. Cardinality(I) \in Nat \ {0}
    BY <2>2, <2>4, FS_CardinalityType, FS_EmptySet
  <2> QED
    BY <2>5 DEF IovPages, I
<1> QED
  BY <1>1, <1>2, <1>3 DEF AtMost

LEMMA AllocBioKeeps ==
  ASSUME BInv, AllocBio
  PROVE  BInv'
<1> USE DEF request, pass
<1>1. /\ TypeOK /\ PlaceInv /\ pc = "alloc" /\ pos < Total /\ bio = <<>> /\ vec \in Vectors
      /\ pages = <<>> /\ j = 0 /\ bytes = 0 /\ offs = 0 /\ pos = ChainUnits(chain)
      /\ Total \in Nat /\ pos \in Nat
  BY TotalNat DEF BInv, AllocBio, PlaceInv, CursorInv, Filling, TypeOK
<1>2. PICK new \in Bio : /\ bio' = <<new>> /\ new.vecs = <<>> /\ new.start = pos
                         /\ new.kind = IF copy THEN "copied" ELSE "pinned"
                         /\ new.max \in 1 .. BIO_MAX_VECS
  <2>1. BIO_MAX_VECS \in Nat /\ <<>> \in Seq(Bvec) /\ copy \in BOOLEAN
    BY <1>1, QueueAssumption DEF TypeOK
  <2> DEFINE m == AtMost(IF copy THEN PageCount(0, Total - pos) ELSE IovPages(pos), BIO_MAX_VECS)
             kind == IF copy THEN "copied" ELSE "pinned"
             b == [vecs |-> <<>>, kind |-> kind, start |-> pos, max |-> m]
  <2>2. m \in 1 .. BIO_MAX_VECS
    <3>1. CASE copy
      BY <1>1, <3>1, VecsWanted
    <3>2. CASE ~copy
      BY <1>1, <3>2, VecsWanted
    <3> QED
      BY <3>1, <3>2
  <2>3. bio' = <<b>>
    BY DEF AllocBio
  <2>4. kind \in {"pinned", "copied", "registered"}
    OBVIOUS
  <2> HIDE DEF m, kind
  <2>5. b \in Bio
    BY <1>1, <2>1, <2>2, <2>4 DEF Bio
  <2> QED
    BY <2>2, <2>3, <2>5 DEF kind
<1>3. pc' = (IF copy THEN "copy_page" ELSE "pin") /\ UNCHANGED <<request, pos, pass, chain, refs>>
  BY DEF AllocBio
<1>4. BioUnits(new) = 0 /\ (\A f : Holds(bio', f) = 0) /\ bio'[1] = new /\ Len(bio') = 1
  <2>1. BioUnits(new) = 0 /\ \A f : BioHolds(new, f) = 0
    BY <1>2, BioUnitsFacts, BioHoldsNat
  <2>2. <<new>>[1] = new /\ Len(<<new>>) = 1 /\ \A f : Holds(<<new>>, f) = BioHolds(new, f)
    BY OneBio
  <2> QED
    BY <1>2, <2>1, <2>2
<1>5. TypeOK'
  BY <1>1, <1>2, <1>3, <1>4, OneBio DEF TypeOK, Total
<1>6. PlaceInv'
  BY <1>1, <1>3, <1>4 DEF PlaceInv, Filling, MustCopy, HasGap
<1>7. CursorInv'
  BY <1>1, <1>2, <1>3, <1>4 DEF BInv, CursorInv, Filling, Total
<1>8. PassInv'
  BY <1>3 DEF PassInv
<1>9. AlignInv'
  BY <1>1, <1>3 DEF BInv, AlignInv, OnPage, Total
<1>10. DataInv'
  <2>1. \A c : IsImage(c)' = IsImage(c)
    BY <1>3 DEF IsImage, Physical, Page
  <2>2. IsImage(new)
    BY <1>2 DEF IsImage
  <2>3. \A i \in DOMAIN chain : /\ chain[i].start = UnitsOf(chain, i - 1)
                                /\ chain[i].kind # "copied" => IsImage(chain[i])
    BY DEF BInv, DataInv
  <2>4. /\ IsImage(bio'[1])
        /\ \A i \in DOMAIN chain' : /\ chain'[i].start = UnitsOf(chain', i - 1)
                                    /\ chain'[i].kind # "copied" => IsImage(chain'[i])
    BY <1>3, <1>4, <2>2, <2>3
  <2> QED
    BY <2>1, <2>4 DEF DataInv
<1>11. LimitInv'
  BY <1>2, <1>3, <1>4, QueueAssumption DEF BInv, LimitInv, Filling, LegalVecs
<1>12. HoldInv'
  BY <1>1, <1>3, <1>4, NoBios DEF BInv, HoldInv, InPass
<1> QED
  BY <1>5, <1>6, <1>7, <1>8, <1>9, <1>10, <1>11, <1>12 DEF BInv

\* What was filled is appended, or given up if it does not fit.
LEMMA AppendBioKeeps ==
  ASSUME BInv, AppendBio
  PROVE  BInv'
<1> USE DEF request, pass
<1> DEFINE b == bio[1]
<1>1. /\ TypeOK /\ PlaceInv /\ pc = "append" /\ bio = <<b>> /\ b \in Bio /\ vec \in Vectors
      /\ pages = <<>> /\ j = 0 /\ bytes = 0 /\ offs = 0 /\ chain \in Seq(Bio)
      /\ Total \in Nat /\ pos \in Nat
  BY TotalNat, TheBio DEF BInv, AppendBio, PlaceInv, Filling, TypeOK
<1> HIDE DEF b
<1>2. CASE chain = <<>> \/ BackMerges(b)
  <2>1. /\ chain' = Append(chain, b) /\ bio' = <<>>
        /\ pc' = IF pos = Total THEN "mapped" ELSE "alloc"
        /\ UNCHANGED <<request, pos, pass, refs>>
    BY <1>1, <1>2, OneBio DEF AppendBio, b
  <2>2. /\ chain' \in Seq(Bio) /\ Len(chain') = Len(chain) + 1 /\ chain'[Len(chain) + 1] = b
        /\ \A i \in DOMAIN chain : chain'[i] = chain[i]
        /\ \A i \in 0 .. Len(chain) : UnitsOf(chain', i) = UnitsOf(chain, i)
        /\ ChainUnits(chain') = ChainUnits(chain) + BioUnits(b)
        /\ ChainSegments(chain') = ChainSegments(chain) + Len(b.vecs)
        /\ \A f : Holds(chain', f) = Holds(chain, f) + BioHolds(b, f)
    BY <1>1, <2>1, ChainAppend
  <2>3. /\ b.kind = (IF copy THEN "copied" ELSE "pinned") /\ b.start = ChainUnits(chain)
        /\ b.start + BioUnits(b) <= Total /\ pos - bytes = b.start + BioUnits(b) /\ b.vecs # <<>>
    BY <1>1 DEF BInv, CursorInv, Filling, b
  <2>4. ChainUnits(chain) \in Nat /\ BioUnits(b) \in Nat /\ Len(chain) \in Nat
        /\ DOMAIN chain = 1 .. Len(chain) /\ DOMAIN chain' = 1 .. Len(chain) + 1
    BY <1>1, <2>2, ChainFacts, BioUnitsFacts
  <2>5. pos = ChainUnits(chain')
    BY <1>1, <2>2, <2>3, <2>4
  <2>6. TypeOK'
    BY <1>1, <2>1, <2>2, NoBios DEF TypeOK, Total
  <2>7. PlaceInv'
    BY <1>1, <2>1 DEF PlaceInv, Filling, MustCopy, HasGap
  <2>8. CursorInv'
    BY <1>1, <2>1, <2>5 DEF CursorInv, Filling, Total, TypeOK
  <2>9. PassInv'
    BY <2>1 DEF PassInv
  <2>10. AlignInv'
    BY <1>1, <2>1 DEF BInv, AlignInv, OnPage, Total
  <2>11. DataInv'
    <3>1. ~copy => IsImage(b)
      BY <1>1 DEF BInv, DataInv, Filling, b
    <3>2. \A i \in DOMAIN chain : chain[i].start = UnitsOf(chain, i - 1)
                                  /\ (chain[i].kind # "copied" => IsImage(chain[i]))
      BY DEF BInv, DataInv
    <3>3. b.kind # "copied" => IsImage(b)
      BY <1>1, <2>3, <3>1
    <3>4. \A c : IsImage(c)' = IsImage(c)
      BY <2>1 DEF IsImage, Physical, Page
    <3>5. \A i \in DOMAIN chain' : /\ chain'[i].start = UnitsOf(chain', i - 1)
                                   /\ chain'[i].kind # "copied" => IsImage(chain'[i])
      <4> TAKE i \in DOMAIN chain'
      <4>1. CASE i \in DOMAIN chain
        <5>1. i - 1 \in 0 .. Len(chain) /\ chain'[i] = chain[i]
          BY <2>2, <2>4, <4>1
        <5> QED
          BY <2>2, <3>2, <4>1, <5>1
      <4>2. CASE i = Len(chain) + 1
        <5>1. i - 1 = Len(chain) /\ i - 1 \in 0 .. Len(chain)
          BY <2>4, <4>2
        <5>2. UnitsOf(chain', i - 1) = ChainUnits(chain)
          BY <2>2, <5>1 DEF ChainUnits
        <5> QED
          BY <2>2, <2>3, <3>3, <4>2, <5>2
      <4> QED
        BY <2>4, <4>1, <4>2
    <3>6. pc' \notin Filling
      BY <2>1 DEF Filling
    <3> QED
      BY <3>4, <3>5, <3>6 DEF DataInv
  <2>12. LimitInv'
    <3>1. /\ BioUnits(b) <= MaxUnits /\ Len(b.vecs) <= MaxSegments /\ LegalVecs(b)
          /\ \A i \in DOMAIN chain : chain[i].vecs # <<>> /\ LegalVecs(chain[i])
      BY <1>1 DEF BInv, LimitInv, Filling, b
    <3>2. ChainUnits(chain') <= MaxUnits /\ ChainSegments(chain') <= MaxSegments
      <4>1. CASE chain = <<>>
        <5>1. Len(b.vecs) \in Nat
          BY <1>1, BioUnitsFacts
        <5> QED
          BY <2>2, <2>4, <3>1, <4>1, <5>1, NoBios
      <4>2. CASE BackMerges(b)
        BY <2>2, <4>2 DEF BackMerges
      <4> QED
        BY <1>2, <4>1, <4>2
    <3>3. \A i \in DOMAIN chain' : i \in DOMAIN chain \/ i = Len(chain) + 1
      BY <2>4
    <3>4. \A i \in DOMAIN chain' : chain'[i].vecs # <<>> /\ LegalVecs(chain'[i])
      BY <2>2, <2>3, <3>1, <3>3
    <3>5. pc' \notin Filling
      BY <2>1 DEF Filling
    <3> QED
      BY <3>2, <3>4, <3>5 DEF LimitInv, LegalVecs
  <2>13. HoldInv'
    <3>1. \A f : Holds(bio, f) = BioHolds(b, f) /\ Holds(bio', f) = 0 /\ BioHolds(b, f) \in Nat
                 /\ Holds(chain, f) \in Nat
      BY <1>1, <2>1, OneBio, NoBios, BioHoldsNat, ChainFacts
    <3>2. \A f : InPass(f)' = InPass(f) /\ InPass(f) \in Nat
      BY <1>1, <2>1, InPassNat DEF InPass
    <3>3. \A f \in Frames : refs[f] \in Nat /\ refs'[f] = refs[f]
      BY <1>1, <2>1 DEF TypeOK
    <3>4. \A f : Holds(chain', f) + Holds(bio', f) = Holds(chain, f) + Holds(bio, f)
      BY <2>2, <3>1
    <3>5. \A f \in Frames :
             /\ refs'[f] >= Holds(chain', f) + Holds(bio', f) + InPass(f)'
             /\ VirtBoundary => refs'[f] = Holds(chain', f) + Holds(bio', f) + InPass(f)'
      BY <3>2, <3>3, <3>4 DEF BInv, HoldInv
    <3> QED
      BY <3>5 DEF HoldInv
  <2> QED
    BY <2>6, <2>7, <2>8, <2>9, <2>10, <2>11, <2>12, <2>13 DEF BInv
<1>3. CASE ~(chain = <<>> \/ BackMerges(b))
  <2>1. pc' = "drop" /\ UNCHANGED <<request, pos, bio, pass, chain, refs>>
    BY <1>3 DEF AppendBio, b
  <2> QED
    BY <1>1, <2>1, MoveKeeps DEF Onward
<1> QED
  BY <1>2, <1>3

LEMMA DropBioKeeps ==
  ASSUME BInv, DropBio
  PROVE  BInv'
<1> USE DEF request, pass
<1>1. /\ TypeOK /\ PlaceInv /\ pc = "drop" /\ bio \in Seq(Bio) /\ vec \in Vectors
      /\ pages = <<>> /\ j = 0 /\ bytes = 0 /\ offs = 0 /\ chain \in Seq(Bio)
      /\ Total \in Nat /\ pos \in Nat
  BY TotalNat, TheBio DEF BInv, DropBio, PlaceInv, Filling, TypeOK
<1>2. /\ bio' = <<>> /\ pc' = "unmap_rq" /\ UNCHANGED <<request, pos, pass, chain>>
      /\ refs' = [f \in Frames |-> refs[f] - Holds(bio, f)]
  BY DEF DropBio, AfterRelease
<1>3. \A f \in Frames : /\ refs[f] \in Nat /\ Holds(bio, f) \in Nat /\ Holds(chain, f) \in Nat
                        /\ Holds(bio', f) = 0 /\ refs'[f] = refs[f] - Holds(bio, f)
                        /\ InPass(f) = 0 /\ InPass(f)' = 0
  BY <1>1, <1>2, ChainFacts, NoBios, NoneInPass DEF TypeOK, InPass
<1>4. \A f \in Frames : refs[f] >= Holds(chain, f) + Holds(bio, f)
                        /\ (VirtBoundary => refs[f] = Holds(chain, f) + Holds(bio, f))
  BY <1>3 DEF BInv, HoldInv
<1>5. HoldInv' /\ \A f \in Frames : refs'[f] \in Nat
  BY <1>2, <1>3, <1>4 DEF HoldInv
<1>6. TypeOK'
  BY <1>1, <1>2, <1>5, NoBios DEF TypeOK, Total
<1>7. PlaceInv'
  BY <1>1, <1>2 DEF PlaceInv, Filling, MustCopy, HasGap
<1>8. CursorInv'
  BY <1>2 DEF BInv, CursorInv, Filling, Total
<1>9. PassInv' /\ AlignInv'
  BY <1>2 DEF PassInv, AlignInv
<1>10. DataInv'
  BY <1>2 DEF BInv, DataInv, Filling, IsImage, Physical, Page
<1>11. LimitInv'
  BY <1>2 DEF BInv, LimitInv, Filling, LegalVecs
<1> QED
  BY <1>5, <1>6, <1>7, <1>8, <1>9, <1>10, <1>11 DEF BInv

\* The whole request is unmapped, after a failure or when it was executed.
LEMMA UnmapKeeps ==
  ASSUME BInv, UnmapRq \/ UnmapUser
  PROVE  BInv'
<1> USE DEF request, pass
<1>1. /\ TypeOK /\ PlaceInv /\ bio = <<>>
      /\ pages = <<>> /\ j = 0 /\ bytes = 0 /\ offs = 0 /\ chain \in Seq(Bio)
      /\ Total \in Nat /\ pos \in Nat /\ pc \in {"unmap_rq", "mapped"} /\ vec \in Vectors
  BY TotalNat DEF BInv, UnmapRq, UnmapUser, PlaceInv, Filling, TypeOK
<1>2. /\ chain' = <<>> /\ pc' = "idle" /\ UNCHANGED <<request, pos, pass, bio>>
      /\ refs' = [f \in Frames |-> refs[f] - Holds(chain, f)]
  BY DEF UnmapRq, UnmapUser, AfterRelease
<1>3. \A f \in Frames : /\ refs[f] \in Nat /\ Holds(chain, f) \in Nat /\ Holds(bio, f) = 0
                        /\ Holds(chain', f) = 0 /\ refs'[f] = refs[f] - Holds(chain, f)
                        /\ InPass(f) = 0 /\ InPass(f)' = 0
  BY <1>1, <1>2, ChainFacts, NoBios, NoneInPass DEF TypeOK, InPass
<1>4. \A f \in Frames : refs[f] >= Holds(chain, f) /\ (VirtBoundary => refs[f] = Holds(chain, f))
  BY <1>3 DEF BInv, HoldInv
<1>5. HoldInv' /\ \A f \in Frames : refs'[f] \in Nat
  BY <1>2, <1>3, <1>4 DEF HoldInv
<1>6. TypeOK'
  BY <1>1, <1>2, <1>5, NoBios DEF TypeOK, Total
<1>7. PlaceInv'
  BY <1>1, <1>2 DEF PlaceInv, Filling, MustCopy, HasGap
<1>8. CursorInv'
  BY <1>1, <1>2, NoBios DEF CursorInv, Filling, Total
<1>9. PassInv' /\ AlignInv'
  BY <1>2 DEF PassInv, AlignInv
<1>10. DataInv'
  BY <1>2 DEF DataInv, Filling
<1>11. LimitInv'
  BY <1>2, NoBios, QueueAssumption DEF LimitInv, Filling
<1> QED
  BY <1>5, <1>6, <1>7, <1>8, <1>9, <1>10, <1>11 DEF BInv

-----------------------------------------------------------------------------
(* Pinning                                                                 *)

PinAt == vec.addr[pos + 1]
PinStart == PinAt % PageUnits
PinSize == SegmentEnd(pos) - pos
PinLen(got) == AtMost(PinSize, got * PageUnits - PinStart)
PinPage(k) == Frame[Page(PinAt) + k - 1]

\* The first `got' pages of a segment are page frames, and hold its first units.
LEMMA PinFacts ==
  ASSUME TypeOK, PlaceInv, vec \in Vectors, pos < Total,
         NEW got \in 1 .. PageCount(PinStart, PinSize)
  PROVE  /\ got \in Nat \ {0} /\ PinStart \in 0 .. PageUnits - 1
         /\ PinLen(got) \in Nat \ {0} /\ pos + PinLen(got) <= Total
         /\ (got - 1) * PageUnits < PinStart + PinLen(got)
         /\ PinStart + PinLen(got) <= got * PageUnits
         /\ \A k \in 1 .. got : PinPage(k) \in Frames
         /\ \A d \in 0 .. PinLen(got) - 1 :
              /\ Page(PinStart + d) + 1 \in 1 .. got
              /\ (PinPage(Page(PinStart + d) + 1) * PageUnits) + ((PinStart + d) % PageUnits)
                   = Physical(vec.addr[pos + 1 + d])
         /\ VirtBoundary /\ ~HasGap(vec) => OnPage(pos + PinLen(got))
<1> DEFINE P == PageUnits
           a == PinAt
           s == PinStart
           n == PinLen(got)
           e == SegmentEnd(pos)
<1>1. /\ pos \in Nat /\ Total \in Nat /\ P \in Nat \ {0} /\ DOMAIN vec.addr = 1 .. Total
      /\ e \in vec.ends /\ pos < e /\ e <= Total /\ e \in Nat /\ a \in Nat
      /\ \A d \in 0 .. e - pos - 1 : /\ pos + 1 + d \in DOMAIN vec.addr
                                     /\ vec.addr[pos + 1 + d] = a + d
  <2>1. pos \in Nat /\ Total \in Nat /\ P \in Nat \ {0} /\ DOMAIN vec.addr = 1 .. Total
    BY TotalNat, QueueAssumption DEF TypeOK
  <2> QED
    BY <2>1, SegmentFacts DEF PinAt
<1>2. PinSize \in Nat \ {0} /\ PinSize = e - pos
  BY <1>1 DEF PinSize
<1>3. s \in 0 .. P - 1 /\ s \in Nat
  <2>1. a % PageUnits \in 0 .. PageUnits - 1
    BY <1>1, PageOf
  <2> QED
    BY <1>1, <2>1 DEF PinStart
<1>4. /\ n \in 1 .. PinSize
      /\ (got - 1) * P < s + n /\ s + n <= got * P
      /\ n < PinSize => s + n = got * P
  BY <1>2, <1>3, PassBytes DEF PinLen
<1>5. PageCount(s, PinSize) \in Nat
  <2> DEFINE y == s + PinSize + P - 1
  <2>1. y \in Nat /\ P \in Nat \ {0}
    BY <1>1, <1>2, <1>3
  <2> HIDE DEF y, P
  <2>2. y \div P \in Nat
    BY <2>1
  <2> QED
    BY <2>2 DEF y, P, PageCount
<1>6. got \in Nat \ {0}
  BY <1>5
<1>7. n \in Nat \ {0} /\ pos + n <= e /\ pos + n <= Total
  BY <1>1, <1>2, <1>4
<1> HIDE DEF a, s, n, e, P
<1>8. ASSUME NEW d \in 0 .. PinSize - 1
      PROVE  /\ vec.addr[pos + 1 + d] = a + d /\ pos + 1 + d \in DOMAIN vec.addr
             /\ Page(a + d) = Page(a) + Page(s + d) /\ (a + d) % P = (s + d) % P
             /\ Page(s + d) \in Nat /\ s + d \in Nat /\ Page(a) \in Nat
  <2>1. d \in Nat /\ d \in 0 .. e - pos - 1
    BY <1>2
  <2>2. s = a % PageUnits
    BY DEF s, a, PinStart
  <2>3. Page(a + d) = Page(a) + Page(s + d) /\ (a + d) % PageUnits = (s + d) % PageUnits
    BY <1>1, <2>1, <2>2, OffsetPages
  <2>4. s + d \in Nat
    BY <1>3, <2>1
  <2>5. Page(s + d) \in Nat /\ Page(a) \in Nat
    BY <1>1, <2>4, PageOf
  <2> QED
    BY <1>1, <2>1, <2>3, <2>4, <2>5 DEF P
<1>9. ASSUME NEW d \in 0 .. n - 1
      PROVE  /\ Page(s + d) + 1 \in 1 .. got
             /\ (PinPage(Page(s + d) + 1) * P) + ((s + d) % P) = Physical(vec.addr[pos + 1 + d])
  <2>1. d \in 0 .. PinSize - 1 /\ d \in Nat /\ d < n
    BY <1>2, <1>4
  <2>2. /\ vec.addr[pos + 1 + d] = a + d /\ Page(a + d) = Page(a) + Page(s + d)
        /\ (a + d) % P = (s + d) % P /\ Page(s + d) \in Nat /\ s + d \in Nat /\ Page(a) \in Nat
    BY <1>8, <2>1
  <2>3. s + d < got * PageUnits
    <3> DEFINE m == got * PageUnits
    <3>1. m \in Nat /\ s + n <= m
      BY <1>1, <1>4, <1>6 DEF P
    <3> HIDE DEF m
    <3>2. s + d < m
      BY <1>3, <1>7, <2>1, <3>1
    <3> QED
      BY <3>2 DEF m
  <2>4. Page(s + d) + 1 <= got
    BY <1>6, <2>2, <2>3, UnitInPage
  <2>5. PinPage(Page(s + d) + 1) = Frame[Page(a + d)]
    BY <2>2 DEF PinPage, a
  <2> QED
    BY <1>6, <2>2, <2>4, <2>5 DEF Physical, P
<1>10. ASSUME NEW k \in 1 .. got PROVE PinPage(k) \in Frames
  <2> DEFINE q == k - 1
             z == q * P
  <2>1. q \in Nat /\ q <= got - 1 /\ z \in Nat /\ z <= (got - 1) * P /\ (got - 1) * P \in Nat
    BY <1>1, <1>6
  <2> DEFINE y == (got - 1) * P
             d == IF z > s THEN z - s ELSE 0
  <2>2. y \in Nat /\ y < s + n /\ z <= y
    BY <1>4, <2>1
  <2>3. Page(s) = 0
    <3>1. 0 * PageUnits + s = s /\ 0 \in Nat /\ s \in 0 .. PageUnits - 1
      BY <1>1, <1>3 DEF P
    <3> QED
      BY <3>1, PageOf
  <2>4. d \in 0 .. n - 1 /\ d \in 0 .. PinSize - 1 /\ (s + d = z \/ (d = 0 /\ z <= s))
    <3> HIDE DEF y, z, q
    <3> QED
      BY <1>2, <1>3, <1>4, <1>7, <2>1, <2>2
  <2>5. Page(s + d) = q
    <3>1. CASE z > s
      <4>1. s + d = q * PageUnits + 0 /\ 0 \in 0 .. PageUnits - 1
        BY <1>1, <1>3, <2>1, <3>1 DEF P
      <4> HIDE DEF d, z
      <4> QED
        BY <2>1, <4>1, PageOf
    <3>2. CASE z <= s
      <4>1. s + d = s
        <5> HIDE DEF z
        <5> QED
          BY <1>3, <2>1, <3>2
      <4>2. q = 0
        <5>1. q # 0 => z >= P
          BY <1>1, <2>1
        <5>2. s < P
          BY <1>1, <1>3
        <5> HIDE DEF z
        <5> QED
          BY <1>1, <1>3, <2>1, <3>2, <5>1, <5>2
      <4> QED
        BY <2>3, <4>1, <4>2
    <3> QED
      <4> HIDE DEF z
      <4> QED
        BY <1>3, <2>1, <3>1, <3>2
  <2> HIDE DEF d
  <2>6. vec.addr[pos + 1 + d] = a + d /\ pos + 1 + d \in DOMAIN vec.addr
        /\ Page(a + d) = Page(a) + Page(s + d) /\ Page(a) \in Nat
    BY <1>8, <2>4
  <2>7. Page(a) + q \in DOMAIN Frame
    <3>1. vec.addr[pos + 1 + d] \div PageUnits \in DOMAIN Frame
      BY <2>6, VectorAssumption
    <3> QED
      BY <2>5, <2>6, <3>1 DEF Page
  <2>8. Page(a) + q = Page(a) + k - 1
    BY <2>6
  <2> QED
    BY <2>7, <2>8 DEF PinPage, a, Frames
<1>11. ASSUME VirtBoundary, ~HasGap(vec), pos + n < Total
       PROVE  vec.addr[pos + n + 1] % P = 0
  <2>1. CASE n = PinSize
    <3>1. pos + n = e /\ Total = Len(vec.addr)
      BY <1>1, <1>2, <2>1 DEF Total
    <3> QED
      BY <1>1, <1>11, <3>1 DEF HasGap, P
  <2>2. CASE n < PinSize
    <3>1. n \in 0 .. PinSize - 1 /\ pos + 1 + n = pos + n + 1
      BY <1>1, <1>2, <1>7, <2>2
    <3>2. vec.addr[pos + n + 1] = a + n /\ (a + n) % P = (s + n) % P
      BY <1>8, <3>1
    <3>3. s + n = got * PageUnits + 0 /\ 0 \in 0 .. PageUnits - 1
      BY <1>1, <1>3, <1>4, <1>6, <1>7, <2>2 DEF P
    <3>4. (s + n) % PageUnits = 0
      BY <1>6, <3>3, PageOf
    <3> QED
      BY <3>2, <3>4 DEF P
  <2> QED
    BY <1>2, <1>4, <2>1, <2>2
<1>12. VirtBoundary /\ ~HasGap(vec) => OnPage(pos + n)
  BY <1>11 DEF OnPage, P
<1> QED
  BY <1>3, <1>4, <1>6, <1>7, <1>9, <1>10, <1>12 DEF s, n, P

LEMMA PinPagesKeeps ==
  ASSUME BInv, PinPages
  PROVE  BInv'
<1> USE DEF request, pass
<1>1. /\ TypeOK /\ PlaceInv /\ pc = "pin" /\ vec \in Vectors /\ bio \in Seq(Bio)
      /\ pages = <<>> /\ j = 0 /\ bytes = 0 /\ offs = 0 /\ chain \in Seq(Bio)
      /\ Total \in Nat /\ pos \in Nat /\ pos < Total /\ ~copy
  BY TotalNat, TheBio DEF BInv, PinPages, PlaceInv, CursorInv, Filling, TypeOK
<1>2. PICK got \in 1 .. PageCount(PinStart, PinSize) :
        /\ pages' = [k \in 1 .. got |-> PinPage(k)]
        /\ bytes' = PinLen(got)
        /\ pos' = pos + bytes'
        /\ offs' = PinStart /\ j' = 0
        /\ refs' = [f \in Frames |-> refs[f] + Cardinality({k \in 1 .. got : pages'[k] = f})]
  BY DEF PinPages, PinStart, PinAt, PinSize, PinLen, PinPage
<1>3. pc' = "add" /\ UNCHANGED <<request, bio, chain>>
  BY DEF PinPages
<1>4. /\ got \in Nat \ {0} /\ PinStart \in 0 .. PageUnits - 1
      /\ PinLen(got) \in Nat \ {0} /\ pos + PinLen(got) <= Total
      /\ (got - 1) * PageUnits < PinStart + PinLen(got)
      /\ PinStart + PinLen(got) <= got * PageUnits
      /\ \A k \in 1 .. got : PinPage(k) \in Frames
      /\ \A d \in 0 .. PinLen(got) - 1 :
           /\ Page(PinStart + d) + 1 \in 1 .. got
           /\ (PinPage(Page(PinStart + d) + 1) * PageUnits) + ((PinStart + d) % PageUnits)
                = Physical(vec.addr[pos + 1 + d])
      /\ VirtBoundary /\ ~HasGap(vec) => OnPage(pos + PinLen(got))
  BY <1>1, PinFacts
<1>5. pages' \in Seq(Frames) /\ Len(pages') = got /\ DOMAIN pages' = 1 .. got /\ pages' # <<>>
      /\ \A k \in 1 .. got : pages'[k] = PinPage(k)
  <2>1. pages' \in Seq(Frames) /\ DOMAIN pages' = 1 .. got
    BY <1>2, <1>4
  <2>2. Len(pages') = got
    BY <1>4, <2>1
  <2> QED
    BY <1>2, <1>4, <2>1, <2>2
<1>6. pos' - bytes' = pos
  BY <1>1, <1>2, <1>4
<1>7. \A f : InPass(f)' = Cardinality({k \in 1 .. got : pages'[k] = f}) /\ InPass(f)' \in Nat
  <2> TAKE f
  <2>1. InPass(f)' = Cardinality({k \in 1 .. got : pages'[k] = f})
    <3>1. j' + 1 = 1 /\ Len(pages') = got
      BY <1>2, <1>5
    <3> QED
      BY <3>1 DEF InPass
  <2>2. IsFiniteSet(1 .. got)
    BY <1>4, FS_Interval
  <2>3. IsFiniteSet({k \in 1 .. got : pages'[k] = f})
    BY <2>2, FS_Subset
  <2> QED
    BY <2>1, <2>3, FS_CardinalityType
<1>8. \A f \in Frames : refs[f] \in Nat /\ refs'[f] = refs[f] + InPass(f)' /\ refs'[f] \in Nat
  <2> TAKE f \in Frames
  <2>1. refs[f] \in Nat
    BY <1>1 DEF TypeOK
  <2>2. refs'[f] = refs[f] + InPass(f)' /\ InPass(f)' \in Nat
    BY <1>2, <1>7
  <2> QED
    BY <2>1, <2>2
<1>9. TypeOK'
  <2>1. refs' \in [Frames -> Nat]
    BY <1>2, <1>8
  <2>2. pos' \in 0 .. Total
    BY <1>1, <1>2, <1>4
  <2>3. bytes' \in Nat /\ offs' \in 0 .. PageUnits - 1 /\ j' \in 0 .. Len(pages')
    BY <1>2, <1>4, <1>5
  <2>4. Total' = Total
    BY <1>3 DEF Total
  <2> QED
    BY <1>1, <1>3, <1>5, <2>1, <2>2, <2>3, <2>4 DEF TypeOK
<1>10. PlaceInv'
  BY <1>1, <1>3, <1>5 DEF PlaceInv, Filling, MustCopy, HasGap
<1>11. CursorInv'
  BY <1>1, <1>2, <1>3, <1>6 DEF BInv, CursorInv, Filling, Total
<1>12. PassInv'
  <2>1. \A d \in 0 .. bytes' - 1 :
          /\ 1 + Page(offs' + d) <= Len(pages')
          /\ (pages'[1 + Page(offs' + d)] * PageUnits) + ((offs' + d) % PageUnits)
               = Physical(vec.addr[pos + 1 + d])
    <3> TAKE d \in 0 .. bytes' - 1
    <3>1. d \in 0 .. PinLen(got) - 1
      BY <1>2
    <3>2. Page(PinStart + d) + 1 \in 1 .. got
      BY <1>4, <3>1
    <3>3. PinStart + d \in Nat
      BY <1>4, <3>1
    <3>4. Page(PinStart + d) + 1 = 1 + Page(PinStart + d)
      BY <3>3, PageOf
    <3> QED
      BY <1>2, <1>4, <1>5, <3>1, <3>2, <3>4
  <2>2. /\ 0 < Len(pages') /\ bytes' > 0 /\ (Len(pages') - 0 - 1) * PageUnits < offs' + bytes'
        /\ offs' + bytes' <= (Len(pages') - 0) * PageUnits
    <3>1. got - 0 - 1 = got - 1 /\ got - 0 = got
      BY <1>4
    <3> QED
      BY <1>2, <1>4, <1>5, <3>1
  <2>3. \A d : PassUnit(d)' = 1 + Page(offs' + d)
    <3>1. j' + 1 = 1
      BY <1>2
    <3> QED
      BY <3>1 DEF PassUnit, Page
  <2>4. vec' = vec
    BY <1>3
  <2> QED
    BY <1>2, <1>6, <2>1, <2>2, <2>3, <2>4 DEF PassInv, Physical, Page
<1>13. AlignInv'
  <2>1. VirtBoundary => OnPage(pos) /\ ~HasGap(vec)
    <3>1. VirtBoundary => OnPage(pos)
      BY <1>1 DEF BInv, AlignInv
    <3>2. VirtBoundary => ~HasGap(vec)
      BY <1>1 DEF PlaceInv, MustCopy, Filling
    <3> QED
      BY <3>1, <3>2
  <2>2. VirtBoundary => OnPage(pos')
    BY <1>2, <1>4, <2>1
  <2>3. \A at : OnPage(at)' <=> OnPage(at)
    BY <1>3 DEF OnPage, Total
  <2> QED
    BY <1>6, <2>1, <2>2, <2>3 DEF AlignInv
<1>14. DataInv'
  <2>1. \A c : IsImage(c)' = IsImage(c)
    BY <1>3 DEF IsImage, Physical, Page
  <2> QED
    BY <1>1, <1>3, <2>1 DEF BInv, DataInv, Filling
<1>15. LimitInv'
  BY <1>1, <1>3 DEF BInv, LimitInv, Filling, LegalVecs
<1>16. HoldInv'
  <2>1. \A f \in Frames : InPass(f) = 0 /\ Holds(chain, f) \in Nat /\ Holds(bio, f) \in Nat
    BY <1>1, NoneInPass, ChainFacts
  <2>2. \A f \in Frames :
           /\ refs'[f] >= Holds(chain, f) + Holds(bio, f) + InPass(f)'
           /\ VirtBoundary => refs'[f] = Holds(chain, f) + Holds(bio, f) + InPass(f)'
    BY <1>7, <1>8, <2>1 DEF BInv, HoldInv
  <2> QED
    BY <1>3, <2>2 DEF HoldInv
<1> QED
  BY <1>9, <1>10, <1>11, <1>12, <1>13, <1>14, <1>15, <1>16 DEF BInv

-----------------------------------------------------------------------------
(* Adding what was pinned                                                  *)

LEMMA PhysicalUnit ==
  ASSUME vec \in Vectors, NEW i \in DOMAIN vec.addr
  PROVE  /\ vec.addr[i] \in Nat /\ Physical(vec.addr[i]) \in Nat
         /\ Page(vec.addr[i]) \in DOMAIN Frame /\ Frame[Page(vec.addr[i])] \in Nat
         /\ Page(Physical(vec.addr[i])) = Frame[Page(vec.addr[i])]
         /\ Physical(vec.addr[i]) % PageUnits = vec.addr[i] % PageUnits
<1> DEFINE a == vec.addr[i]
           q == Frame[Page(a)]
           r == a % PageUnits
<1>1. a \in Nat /\ Page(a) \in DOMAIN Frame
  BY VectorAssumption DEF Page
<1>2. q \in Nat
  BY <1>1, QueueAssumption DEF Frames
<1>3. r \in 0 .. PageUnits - 1
  BY <1>1, PageOf
<1>4. Physical(a) = q * PageUnits + r
  BY DEF Physical
<1> HIDE DEF q, r, a
<1>5. /\ q * PageUnits + r \in Nat /\ Page(q * PageUnits + r) = q
      /\ (q * PageUnits + r) % PageUnits = r
  BY <1>2, <1>3, PageOf
<1> QED
  BY <1>1, <1>2, <1>4, <1>5 DEF q, r, a

\* The units of the next page: they lie in one page, follow what the bio has, and are
\* the user's.  On a queue that refuses gaps only a bio's first piece starts within a page.
LEMMA NextPiece ==
  ASSUME BInv, pc = "add", j < Len(pages)
  PROVE  /\ PieceLen \in 1 .. bytes /\ offs + PieceLen <= PageUnits /\ PieceAt \in Nat
         /\ PieceAt % PageUnits = offs /\ Page(PieceAt) = pages[j + 1]
         /\ \A k \in 0 .. PieceLen - 1 :
              PieceAt + k = Physical(vec.addr[bio[1].start + BioUnits(bio[1]) + k + 1])
         /\ VirtBoundary => offs = 0 \/ bio[1].vecs = <<>>
         /\ j + 1 = Len(pages) => PieceLen = bytes
         /\ j + 1 # Len(pages) =>
              /\ PieceLen = PageUnits - offs /\ bytes - PieceLen \in Nat \ {0}
              /\ (Len(pages) - j - 2) * PageUnits < bytes - PieceLen
              /\ bytes - PieceLen <= (Len(pages) - j - 1) * PageUnits
<1> DEFINE b == bio[1]
           left == Len(pages) - j
           n == PieceLen
           at == PieceAt
           g == pages[j + 1]
<1>1. /\ TypeOK /\ PlaceInv /\ b \in Bio /\ vec \in Vectors /\ pages \in Seq(Frames)
      /\ j \in Nat /\ Len(pages) \in Nat /\ offs \in 0 .. PageUnits - 1 /\ bytes \in Nat
      /\ pos \in Nat /\ Total \in Nat /\ pos <= Total /\ DOMAIN vec.addr = 1 .. Total
      /\ PageUnits \in Nat \ {0}
  <2>1. TypeOK /\ PlaceInv
    BY DEF BInv
  <2>2. b \in Bio /\ vec \in Vectors
    BY <2>1, TheBio DEF Filling
  <2>3. /\ pages \in Seq(Frames) /\ j \in 0 .. Len(pages) /\ offs \in 0 .. PageUnits - 1
        /\ bytes \in Nat /\ pos \in 0 .. Total
    BY <2>1 DEF TypeOK
  <2>4. Total \in Nat /\ DOMAIN vec.addr = 1 .. Total /\ PageUnits \in Nat \ {0}
    BY <2>1, TotalNat, QueueAssumption
  <2>5. Len(pages) \in Nat
    BY <2>3
  <2> QED
    BY <2>1, <2>2, <2>3, <2>4, <2>5
<1>2. /\ bytes > 0 /\ (left - 1) * PageUnits < offs + bytes /\ offs + bytes <= left * PageUnits
      /\ \A d \in 0 .. bytes - 1 :
           (pages[PassUnit(d)] * PageUnits) + ((offs + d) % PageUnits)
              = Physical(vec.addr[pos - bytes + 1 + d])
  BY DEF BInv, PassInv
<1>3. g \in Nat
  <2>1. g \in Frames
    BY <1>1
  <2> QED
    BY <2>1, QueueAssumption
<1>4. left \in Nat \ {0} /\ bytes \in Nat \ {0}
  BY <1>1, <1>2
<1>5. /\ n \in 1 .. bytes /\ offs + n <= PageUnits
      /\ left = 1 => n = bytes
      /\ left # 1 => /\ n = PageUnits - offs /\ bytes - n \in Nat \ {0}
                     /\ (left - 2) * PageUnits < bytes - n
                     /\ bytes - n <= (left - 1) * PageUnits
  <2> HIDE DEF left
  <2> QED
    BY <1>1, <1>2, <1>4, PieceFits DEF PieceLen
<1>6. at \in Nat /\ at % PageUnits = offs /\ Page(at) = g
  BY <1>1, <1>3, PageOf DEF PieceAt
<1>7. pos - bytes = b.start + BioUnits(b) /\ b.start \in Nat /\ BioUnits(b) \in Nat
  <2>1. b.start \in Nat /\ BioUnits(b) \in Nat
    BY <1>1, BioUnitsFacts DEF Bio
  <2> QED
    BY <2>1 DEF BInv, CursorInv
<1>8. ASSUME NEW k \in 0 .. n - 1
      PROVE  at + k = Physical(vec.addr[pos - bytes + 1 + k])
  <2>1. k \in Nat /\ k \in 0 .. bytes - 1 /\ offs + k \in 0 .. PageUnits - 1 /\ 0 \in Nat
    BY <1>1, <1>5
  <2>2. 0 * PageUnits + (offs + k) = offs + k
    BY <1>1, <2>1
  <2>3. Page(offs + k) = 0 /\ (offs + k) % PageUnits = offs + k
    <3> DEFINE r == offs + k
    <3>1. r \in 0 .. PageUnits - 1 /\ 0 * PageUnits + r = r
      BY <2>1, <2>2
    <3> HIDE DEF r
    <3>2. Page(r) = 0 /\ r % PageUnits = r
      BY <2>1, <3>1, PageOf
    <3> QED
      BY <3>2 DEF r
  <2>4. PassUnit(k) = j + 1
    BY <1>1, <2>3 DEF PassUnit
  <2>5. (g * PageUnits) + (offs + k) = Physical(vec.addr[pos - bytes + 1 + k])
    BY <1>2, <2>1, <2>3, <2>4
  <2>6. (g * PageUnits) + (offs + k) = at + k
    <3> DEFINE z == g * PageUnits
    <3>1. z \in Nat /\ at = z + offs
      BY <1>1, <1>3 DEF PieceAt
    <3> HIDE DEF z
    <3>2. z + (offs + k) = at + k
      BY <1>1, <2>1, <3>1
    <3> QED
      BY <3>2 DEF z
  <2> QED
    BY <2>5, <2>6
<1>9. \A k \in 0 .. n - 1 : at + k = Physical(vec.addr[b.start + BioUnits(b) + k + 1])
  <2> TAKE k \in 0 .. n - 1
  <2>1. pos - bytes + 1 + k = b.start + BioUnits(b) + k + 1
    BY <1>7
  <2> QED
    BY <1>8, <2>1
<1>10. ASSUME VirtBoundary, b.vecs # <<>> PROVE offs = 0
  <2>1. BioUnits(b) > 0
    BY <1>1, <1>10, BioUnitsFacts
  <2>2. pos - bytes > 0 /\ pos - bytes < Total /\ pos - bytes + 1 \in 1 .. Total
        /\ pos - bytes + 1 + 0 = pos - bytes + 1
    BY <1>1, <1>2, <1>7, <2>1
  <2>3. OnPage(pos - bytes)
    BY <1>10 DEF BInv, AlignInv, PlaceInv
  <2>4. vec.addr[pos - bytes + 1] % PageUnits = 0
    BY <2>2, <2>3 DEF OnPage
  <2>5. at + 0 = Physical(vec.addr[pos - bytes + 1])
    <3>1. 0 \in 0 .. n - 1
      BY <1>5
    <3> QED
      BY <1>8, <2>2, <3>1
  <2>6. at % PageUnits = vec.addr[pos - bytes + 1] % PageUnits
    <3>1. at + 0 = at
      BY <1>6
    <3> QED
      BY <1>1, <2>2, <2>5, <3>1, PhysicalUnit
  <2> QED
    BY <1>6, <2>4, <2>6
<1>11. (left = 1 <=> j + 1 = Len(pages)) /\ left - 1 = Len(pages) - j - 1
       /\ left - 2 = Len(pages) - j - 2
  BY <1>1
<1> QED
  <2> HIDE DEF left
  <2> QED
    BY <1>5, <1>6, <1>9, <1>10, <1>11

LEMMA InPassStep ==
  ASSUME TypeOK, j < Len(pages), NEW f
  PROVE  Cardinality({k \in (j + 1) + 1 .. Len(pages) : pages[k] = f}) \in Nat
         /\ InPass(f) = Cardinality({k \in (j + 1) + 1 .. Len(pages) : pages[k] = f})
                        + Only(pages[j + 1] = f)
<1> DEFINE S == {k \in (j + 1) + 1 .. Len(pages) : pages[k] = f}
           T == {k \in j + 1 .. Len(pages) : pages[k] = f}
<1>1. Len(pages) \in Nat /\ j \in Nat
  BY DEF TypeOK
<1>2. IsFiniteSet((j + 1) + 1 .. Len(pages))
  BY <1>1, FS_Interval
<1>3. IsFiniteSet(S)
  BY <1>2, FS_Subset
<1>4. Cardinality(S) \in Nat
  BY <1>3, FS_CardinalityType
<1>5. CASE pages[j + 1] = f
  <2>1. T = S \union {j + 1} /\ j + 1 \notin S
    BY <1>1, <1>5
  <2>2. Cardinality(T) = Cardinality(S) + 1
    <3> HIDE DEF S, T
    <3> QED
      BY <1>3, <2>1, FS_AddElement
  <2> QED
    BY <1>4, <1>5, <2>2 DEF InPass, Only
<1>6. CASE pages[j + 1] # f
  <2>1. T = S
    BY <1>1, <1>6
  <2>2. InPass(f) = Cardinality(S) /\ Only(pages[j + 1] = f) = 0
    BY <1>6, <2>1 DEF InPass, Only
  <2> QED
    BY <1>4, <2>2
<1> QED
  BY <1>5, <1>6

LEMMA AddPageKeeps ==
  ASSUME BInv, AddPage
  PROVE  BInv'
<1> USE DEF request, pass
<1> DEFINE b == bio[1]
           at == PieceAt
           n == PieceLen
           c == WithAdded(b, at, n)
<1>1. /\ TypeOK /\ PlaceInv /\ pc = "add" /\ j < Len(pages) /\ bio = <<b>> /\ b \in Bio
      /\ vec \in Vectors /\ chain \in Seq(Bio) /\ pages \in Seq(Frames) /\ ~copy
      /\ j \in Nat /\ Len(pages) \in Nat /\ offs \in 0 .. PageUnits - 1 /\ bytes \in Nat
      /\ pos \in Nat /\ Total \in Nat /\ pos <= Total /\ PageUnits \in Nat \ {0}
  <2>1. TypeOK /\ PlaceInv /\ pc = "add" /\ j < Len(pages)
    BY DEF BInv, AddPage
  <2>2. b \in Bio /\ vec \in Vectors /\ bio = <<b>>
    BY <2>1, TheBio DEF Filling
  <2>3. /\ pages \in Seq(Frames) /\ j \in 0 .. Len(pages) /\ offs \in 0 .. PageUnits - 1
        /\ bytes \in Nat /\ pos \in 0 .. Total /\ chain \in Seq(Bio)
    BY <2>1 DEF TypeOK
  <2>4. Total \in Nat /\ PageUnits \in Nat \ {0} /\ ~copy
    BY <2>1, TotalNat, QueueAssumption DEF PlaceInv
  <2>5. Len(pages) \in Nat
    BY <2>3
  <2> QED
    BY <2>1, <2>2, <2>3, <2>4, <2>5
<1>2. /\ n \in 1 .. bytes /\ offs + n <= PageUnits /\ at \in Nat
      /\ at % PageUnits = offs /\ Page(at) = pages[j + 1]
      /\ \A k \in 0 .. n - 1 : at + k = Physical(vec.addr[b.start + BioUnits(b) + k + 1])
      /\ VirtBoundary => offs = 0 \/ b.vecs = <<>>
      /\ j + 1 = Len(pages) => n = bytes
      /\ j + 1 # Len(pages) =>
           /\ n = PageUnits - offs /\ bytes - n \in Nat \ {0}
           /\ (Len(pages) - j - 2) * PageUnits < bytes - n
           /\ bytes - n <= (Len(pages) - j - 1) * PageUnits
  BY <1>1, NextPiece
<1> HIDE DEF at, n, c
<1>3. n \in Nat \ {0} /\ bytes - n \in Nat /\ (at % PageUnits) + n <= PageUnits
  <2>1. bytes \in Nat /\ n \in 1 .. bytes
    BY <1>1, <1>2
  <2>2. (at % PageUnits) + n <= PageUnits
    BY <1>2
  <2> QED
    BY <2>1, <2>2
<1>4. /\ b.kind = "pinned" /\ b.start = ChainUnits(chain) /\ b.start \in Nat /\ BioUnits(b) \in Nat
      /\ pos - bytes = b.start + BioUnits(b) /\ b.max >= 1 /\ b.max \in Nat
      /\ IsImage(b) /\ LegalVecs(b) /\ Len(b.vecs) <= MaxSegments /\ BioUnits(b) <= MaxUnits
  <2>1. b.start \in Nat /\ BioUnits(b) \in Nat /\ b.max \in 0 .. BIO_MAX_VECS
    BY <1>1, BioUnitsFacts DEF Bio
  <2>2. b.max \in Nat
    BY <2>1, QueueAssumption
  <2> QED
    BY <1>1, <2>1, <2>2 DEF BInv, CursorInv, DataInv, LimitInv, Filling
<1> HIDE DEF b
<1>5. CASE CanAdd(b, at, n)
  <2>1. /\ bio' = <<c>> /\ bytes' = bytes - n /\ offs' = 0 /\ j' = j + 1 /\ pc' = pc
        /\ UNCHANGED <<request, pos, pages, chain, refs>>
    BY <1>5 DEF AddPage, b, at, n, c
  <2>2. Grown(b, at, n, c)
    BY <1>1, <1>2, <1>3, AddedShape DEF c
  <2>3. c \in Bio /\ c.kind = b.kind /\ c.start = b.start /\ c.max = b.max /\ c.vecs # <<>>
    BY <2>2 DEF Grown
  <2>4. BioUnits(c) = BioUnits(b) + n
    BY <1>1, <1>2, <1>3, <2>2, AddedUnits
  <2>5. bio'[1] = c /\ bio' \in Seq(Bio) /\ Len(bio') = 1
    BY <2>1, <2>3, OneBio
  <2>6. TypeOK'
    <3>1. j' \in 0 .. Len(pages') /\ bytes' \in Nat /\ offs' \in 0 .. PageUnits - 1
      BY <1>1, <1>3, <2>1
    <3>2. Total' = Total
      BY <2>1 DEF Total
    <3> QED
      BY <1>1, <2>1, <2>5, <3>1, <3>2 DEF TypeOK
  <2>7. PlaceInv'
    BY <1>1, <2>1, <2>5 DEF PlaceInv, Filling, MustCopy, HasGap
  <2>8. CursorInv'
    <3>1. c.start + BioUnits(c) <= Total /\ pos - (bytes - n) = c.start + BioUnits(c)
      <4>1. /\ c.start = b.start /\ BioUnits(c) = BioUnits(b) + n /\ b.start \in Nat
            /\ BioUnits(b) \in Nat /\ pos - bytes = b.start + BioUnits(b)
            /\ n \in 1 .. bytes /\ pos <= Total
            /\ pos \in Nat /\ Total \in Nat /\ bytes \in Nat
        BY <1>1, <1>2, <1>4, <2>3, <2>4
      <4> DEFINE x == b.start
                 y == BioUnits(b)
      <4> HIDE DEF x, y
      <4>2. x \in Nat /\ y \in Nat /\ pos - bytes = x + y /\ c.start = x /\ BioUnits(c) = y + n
        BY <4>1 DEF x, y
      <4> QED
        BY <4>1, <4>2
    <3> QED
      BY <1>1, <1>4, <2>1, <2>3, <2>5, <3>1 DEF BInv, CursorInv, Filling, Total
  <2>9. j + 1 # Len(pages) => offs + n = PageUnits
    BY <1>1, <1>2
  <2>10. \A d \in 0 .. bytes' - 1 :
           /\ (j + 1) + 1 + Page(0 + d) <= Len(pages)
           /\ (pages[(j + 1) + 1 + Page(0 + d)] * PageUnits) + ((0 + d) % PageUnits)
                = Physical(vec.addr[pos - bytes' + 1 + d])
    <3> TAKE d \in 0 .. bytes' - 1
    <3>1. d \in Nat /\ n + d \in 0 .. bytes - 1 /\ n + d \in Nat /\ bytes # n
      BY <1>1, <1>2, <1>3, <2>1
    <3>2. /\ PassUnit(n + d) <= Len(pages)
          /\ (pages[PassUnit(n + d)] * PageUnits) + ((offs + (n + d)) % PageUnits)
               = Physical(vec.addr[pos - bytes + 1 + (n + d)])
      BY <1>1, <3>1 DEF BInv, PassInv
    <3>3. offs + n = PageUnits
      BY <1>2, <2>9, <3>1
    <3>4. offs + (n + d) = d + 1 * PageUnits /\ 0 + d = d
      BY <1>1, <1>3, <3>1, <3>3
    <3>5. Page(d + 1 * PageUnits) = Page(d) + 1 /\ (d + 1 * PageUnits) % PageUnits = d % PageUnits
      <4>1. 1 \in Nat
        OBVIOUS
      <4> QED
        BY <3>1, <4>1, NextPages
    <3>6. PassUnit(n + d) = (j + 1) + 1 + Page(d)
      <4>1. Page(d) \in Nat
        BY <3>1, PageOf
      <4>2. PassUnit(n + d) = j + 1 + (Page(d) + 1)
        BY <3>4, <3>5 DEF PassUnit
      <4> QED
        BY <1>1, <4>1, <4>2
    <3>7. pos - bytes + 1 + (n + d) = pos - bytes' + 1 + d
      BY <1>1, <1>3, <2>1, <3>1
    <3> QED
      BY <3>2, <3>4, <3>5, <3>6, <3>7
  <2>11. PassInv'
    <3>1. IF j + 1 < Len(pages)
          THEN /\ bytes' > 0 /\ (Len(pages) - (j + 1) - 1) * PageUnits < 0 + bytes'
               /\ 0 + bytes' <= (Len(pages) - (j + 1)) * PageUnits
          ELSE bytes' = 0
      <4>1. Len(pages) - (j + 1) - 1 = Len(pages) - j - 2 /\ Len(pages) - (j + 1) = Len(pages) - j - 1
            /\ 0 + bytes' = bytes - n
        BY <1>1, <1>3, <2>1
      <4>2. CASE j + 1 = Len(pages)
        BY <1>1, <1>2, <2>1, <4>2
      <4>3. CASE j + 1 # Len(pages)
        <5>1. /\ bytes - n \in Nat \ {0} /\ (Len(pages) - j - 2) * PageUnits < bytes - n
              /\ bytes - n <= (Len(pages) - j - 1) * PageUnits
          BY <1>2, <4>3
        <5>2. j + 1 < Len(pages) /\ bytes' > 0
          BY <1>1, <2>1, <4>3, <5>1
        <5> QED
          BY <4>1, <5>1, <5>2
      <4> QED
        BY <4>2, <4>3
    <3>2. \A d : PassUnit(d)' = (j + 1) + 1 + Page(0 + d)
      BY <2>1 DEF PassUnit, Page
    <3> QED
      BY <2>1, <2>10, <3>1, <3>2 DEF PassInv, Physical, Page
  <2>12. AlignInv'
    <3>1. \A x : OnPage(x)' <=> OnPage(x)
      BY <2>1 DEF OnPage, Total
    <3>2. VirtBoundary => OnPage(pos)
      BY <1>1 DEF BInv, AlignInv
    <3>3. ASSUME VirtBoundary PROVE OnPage(pos - bytes')
      <4>1. CASE bytes' = 0
        <5>1. pos - bytes' = pos
          BY <1>1, <4>1
        <5> QED
          BY <3>2, <3>3, <5>1
      <4>2. CASE bytes' # 0
        <5>1. 0 \in 0 .. bytes' - 1 /\ pos - bytes' + 1 + 0 = pos - bytes' + 1 /\ 0 + 0 = 0
          BY <1>1, <1>3, <2>1, <4>2
        <5>2. 0 * PageUnits + 0 = 0 /\ 0 \in 0 .. PageUnits - 1
          BY <1>1
        <5>3. Page(0) = 0 /\ 0 % PageUnits = 0
          BY <5>2, PageOf
        <5> DEFINE g == pages[(j + 1) + 1]
        <5>4. (j + 1) + 1 <= Len(pages) /\ g * PageUnits + 0 = Physical(vec.addr[pos - bytes' + 1])
          <6>1. (j + 1) + 1 + 0 = (j + 1) + 1
            BY <1>1
          <6> QED
            BY <2>10, <5>1, <5>3, <6>1
        <5>5. g \in Nat
          <6>1. (j + 1) + 1 \in 1 .. Len(pages)
            BY <1>1, <5>4
          <6>2. g \in Frames
            BY <1>1, <6>1
          <6> QED
            BY <6>2, QueueAssumption
        <5>6. (g * PageUnits + 0) % PageUnits = 0
          <6> HIDE DEF g
          <6> QED
            BY <5>2, <5>5, PageOf
        <5>7. ASSUME pos - bytes' < Total, pos - bytes' > 0
              PROVE  vec.addr[pos - bytes' + 1] % PageUnits = 0
          <6>1. pos - bytes' + 1 \in DOMAIN vec.addr
            <7>1. DOMAIN vec.addr = 1 .. Total
              BY <1>1, TotalNat
            <7>2. bytes' \in Nat
              BY <1>3, <2>1
            <7>3. pos \in Nat /\ Total \in Nat
              BY <1>1
            <7> DEFINE y == bytes'
            <7>4. pos - y + 1 \in 1 .. Total
              <8>1. y \in Nat /\ pos - y < Total /\ pos - y > 0
                BY <5>7, <7>2
              <8> HIDE DEF y
              <8> QED
                BY <7>3, <8>1
            <7> QED
              BY <7>1, <7>4
          <6> QED
            BY <1>1, <5>4, <5>6, <6>1, PhysicalUnit
        <5> QED
          BY <5>7 DEF OnPage
      <4> QED
        BY <4>1, <4>2
    <3>4. pos' - bytes' = pos - bytes' /\ pos' = pos
      BY <2>1
    <3> QED
      BY <3>1, <3>2, <3>3, <3>4 DEF AlignInv
  <2>13. DataInv'
    <3>1. IsImage(c)
      BY <1>1, <1>2, <1>3, <1>4, <2>2, AddedImage
    <3>2. \A x : IsImage(x)' = IsImage(x)
      BY <2>1 DEF IsImage, Physical, Page
    <3>3. \A i \in DOMAIN chain : /\ chain[i].start = UnitsOf(chain, i - 1)
                                  /\ chain[i].kind # "copied" => IsImage(chain[i])
      BY DEF BInv, DataInv
    <3>4. /\ IsImage(bio'[1])
          /\ \A i \in DOMAIN chain' : /\ chain'[i].start = UnitsOf(chain', i - 1)
                                      /\ chain'[i].kind # "copied" => IsImage(chain'[i])
      BY <2>1, <2>5, <3>1, <3>3
    <3> QED
      BY <3>2, <3>4 DEF DataInv
  <2>14. LimitInv'
    <3>1. LegalVecs(c) /\ BioUnits(c) <= MaxUnits /\ Len(c.vecs) <= MaxSegments
      BY <1>1, <1>2, <1>3, <1>4, <1>5, <2>2, AddedLimits
    <3> QED
      BY <1>1, <2>1, <2>5, <3>1 DEF BInv, LimitInv, Filling, LegalVecs
  <2>15. HoldInv'
    <3>1. ASSUME NEW f \in Frames
          PROVE  /\ refs[f] >= Holds(chain, f) + BioHolds(c, f) + InPass(f)'
                 /\ VirtBoundary => refs[f] = Holds(chain, f) + BioHolds(c, f) + InPass(f)'
      <4>1. /\ BioHolds(c, f) <= BioHolds(b, f) + Only(f = Page(at))
            /\ at % PageUnits = 0 \/ b.vecs = <<>> =>
                 BioHolds(c, f) = BioHolds(b, f) + Only(f = Page(at))
        <5>1. b.kind # "registered"
          BY <1>4
        <5> QED
          BY <1>1, <1>2, <1>3, <2>2, <5>1, AddedHolds
      <4>2. InPass(f)' = Cardinality({k \in (j + 1) + 1 .. Len(pages) : pages[k] = f})
        BY <2>1 DEF InPass
      <4>3. InPass(f)' \in Nat /\ InPass(f) = InPass(f)' + Only(pages[j + 1] = f)
        BY <1>1, <4>2, InPassStep
      <4>4. BioHolds(b, f) \in Nat /\ BioHolds(c, f) \in Nat /\ Holds(chain, f) \in Nat
            /\ Holds(bio, f) = BioHolds(b, f) /\ refs[f] \in Nat
        BY <1>1, <2>3, BioHoldsNat, ChainFacts, OneBio DEF TypeOK
      <4>5. Only(f = Page(at)) = Only(pages[j + 1] = f) /\ Only(f = Page(at)) \in Nat
        BY <1>2 DEF Only
      <4>6. refs[f] >= Holds(chain, f) + Holds(bio, f) + InPass(f)
            /\ (VirtBoundary => refs[f] = Holds(chain, f) + Holds(bio, f) + InPass(f))
        BY DEF BInv, HoldInv
      <4>7. VirtBoundary => at % PageUnits = 0 \/ b.vecs = <<>>
        BY <1>2
      <4> QED
        BY <4>1, <4>3, <4>4, <4>5, <4>6, <4>7
    <3>2. \A f : Holds(bio', f) = BioHolds(c, f)
      BY <2>1, <2>3, OneBio
    <3> QED
      BY <2>1, <3>1, <3>2 DEF HoldInv
  <2> QED
    BY <2>6, <2>7, <2>8, <2>11, <2>12, <2>13, <2>14, <2>15 DEF BInv
<1>6. CASE ~CanAdd(b, at, n)
  <2>1. pc' = "release" /\ UNCHANGED <<request, pos, bio, pass, chain, refs>>
    BY <1>6 DEF AddPage, b, at, n
  <2>2. ASSUME b.vecs = <<>> PROVE FALSE
    <3>1. BioUnits(b) = 0 /\ Len(b.vecs) = 0
      BY <1>1, <2>2, BioUnitsFacts
    <3>2. n <= MaxUnits
      BY <1>1, <1>2, <1>3, QueueAssumption
    <3> QED
      BY <1>3, <1>4, <1>6, <2>2, <3>1, <3>2, QueueAssumption DEF CanAdd
  <2> QED
    BY <1>1, <2>1, <2>2, MoveKeeps DEF Onward, b
<1> QED
  BY <1>5, <1>6

\* What was not added is given back.
LEMMA ReleaseRestKeeps ==
  ASSUME BInv, ReleaseRest
  PROVE  BInv'
<1> USE DEF request, pass
<1> DEFINE b == bio[1]
<1>1. /\ TypeOK /\ PlaceInv /\ pc = "release" /\ bio = <<b>> /\ b \in Bio /\ vec \in Vectors
      /\ chain \in Seq(Bio) /\ ~copy
  <2>1. TypeOK /\ PlaceInv /\ pc = "release"
    BY DEF BInv, ReleaseRest
  <2> QED
    BY <2>1, TheBio DEF TypeOK, PlaceInv, Filling
<1>2. pos \in 0 .. Total /\ bytes \in Nat /\ Total \in Nat /\ pos \in Nat
  BY <1>1, TotalNat DEF TypeOK
<1>3. /\ refs' = AfterPut(j + 1) /\ pages' = <<>> /\ j' = 0 /\ bytes' = 0 /\ offs' = 0
      /\ pos' = pos - bytes
      /\ pc' = IF bytes > 0 \/ pos = Total THEN "append" ELSE "pin"
      /\ UNCHANGED <<request, bio, chain>>
  BY DEF ReleaseRest
<1>4. /\ pos - bytes = b.start + BioUnits(b) /\ b.start \in Nat /\ BioUnits(b) \in Nat
      /\ b.start = ChainUnits(chain) /\ b.kind = "pinned" /\ b.vecs # <<>> /\ b.max >= 1
      /\ b.start + BioUnits(b) <= Total
  <2>1. b.start \in Nat /\ BioUnits(b) \in Nat
    BY <1>1, BioUnitsFacts DEF Bio
  <2> QED
    BY <1>1, <2>1 DEF BInv, CursorInv, Filling
<1>5. pos' \in 0 .. Total /\ pos' = b.start + BioUnits(b) /\ (pc' = "pin" => pos' < Total)
  BY <1>2, <1>3, <1>4
<1>6. ASSUME NEW f \in Frames
      PROVE  /\ refs[f] \in Nat /\ InPass(f) \in Nat /\ InPass(f)' = 0
             /\ Holds(chain, f) \in Nat /\ Holds(bio, f) \in Nat
             /\ refs'[f] = refs[f] - InPass(f)
             /\ refs[f] >= Holds(chain, f) + Holds(bio, f) + InPass(f)
             /\ VirtBoundary => refs[f] = Holds(chain, f) + Holds(bio, f) + InPass(f)
  <2>1. refs[f] \in Nat
    BY <1>1 DEF TypeOK
  <2>2. InPass(f) \in Nat
    BY <1>1, InPassNat
  <2>3. InPass(f)' = 0
    <3>1. {k \in j' + 1 .. Len(pages') : pages'[k] = f} = {}
      BY <1>3
    <3> QED
      BY <3>1, FS_EmptySet DEF InPass
  <2>4. Holds(chain, f) \in Nat /\ Holds(bio, f) \in Nat
    BY <1>1, ChainFacts, OneBio
  <2>5. refs'[f] = refs[f] - InPass(f)
    BY <1>3 DEF AfterPut, InPass
  <2> QED
    BY <2>1, <2>2, <2>3, <2>4, <2>5 DEF BInv, HoldInv
<1>7. HoldInv'
  <2>1. \A f \in Frames : /\ refs'[f] >= Holds(chain, f) + Holds(bio, f) + InPass(f)'
                          /\ VirtBoundary => refs'[f] = Holds(chain, f) + Holds(bio, f) + InPass(f)'
    BY <1>6
  <2> QED
    BY <1>3, <2>1 DEF HoldInv
<1>8. TypeOK'
  <2>1. refs' \in [Frames -> Nat]
    <3>1. \A f \in Frames : refs'[f] \in Nat
      BY <1>6
    <3> QED
      BY <1>3, <3>1 DEF AfterPut
  <2>2. pages' \in Seq(Frames) /\ j' \in 0 .. Len(pages') /\ offs' \in 0 .. PageUnits - 1
    BY <1>3, QueueAssumption
  <2>3. Total' = Total
    BY <1>3 DEF Total
  <2> QED
    BY <1>1, <1>3, <1>5, <2>1, <2>2, <2>3 DEF TypeOK
<1>9. PlaceInv'
  BY <1>1, <1>3 DEF PlaceInv, Filling, MustCopy, HasGap
<1>10. CursorInv'
  <2>1. pos' - bytes' = b.start + BioUnits(b)
    BY <1>3, <1>4
  <2> QED
    BY <1>1, <1>3, <1>4, <1>5, <2>1 DEF BInv, CursorInv, Filling, Total
<1>11. PassInv'
  BY <1>3 DEF PassInv
<1>12. AlignInv'
  <2>1. \A x : OnPage(x)' <=> OnPage(x)
    BY <1>3 DEF OnPage, Total
  <2>2. VirtBoundary => OnPage(pos - bytes)
    BY <1>1 DEF BInv, AlignInv
  <2>3. pos' = pos - bytes /\ pos' - bytes' = pos - bytes
    BY <1>2, <1>3
  <2> QED
    BY <2>1, <2>2, <2>3 DEF AlignInv
<1>13. DataInv'
  <2>1. \A c : IsImage(c)' = IsImage(c)
    BY <1>3 DEF IsImage, Physical, Page
  <2> QED
    BY <1>1, <1>3, <2>1 DEF BInv, DataInv, Filling
<1>14. LimitInv'
  BY <1>1, <1>3 DEF BInv, LimitInv, Filling, LegalVecs
<1> QED
  BY <1>7, <1>8, <1>9, <1>10, <1>11, <1>12, <1>13, <1>14 DEF BInv

-----------------------------------------------------------------------------
(* Copying                                                                 *)

LEMMA CopyPageKeeps ==
  ASSUME BInv, CopyPage
  PROVE  BInv'
<1> USE DEF request, pass
<1> DEFINE b == bio[1]
           n == AtMost(PageUnits, LeftToCopy)
<1>1. /\ TypeOK /\ PlaceInv /\ pc = "copy_page" /\ bio = <<b>> /\ b \in Bio /\ vec \in Vectors
      /\ chain \in Seq(Bio) /\ copy /\ refs \in [Frames -> Nat]
      /\ pages = <<>> /\ j = 0 /\ bytes = 0 /\ offs = 0
  <2>1. TypeOK /\ PlaceInv /\ pc = "copy_page"
    BY DEF BInv, CopyPage
  <2> QED
    BY <2>1, TheBio DEF TypeOK, PlaceInv, Filling
<1>2. PICK p \in KernelFrames :
        /\ refs[p] = 0
        /\ IF CanAdd(b, p * PageUnits, n)
           THEN /\ bio' = <<WithAdded(b, p * PageUnits, n)>>
                /\ refs' = [refs EXCEPT ![p] = 1]
                /\ UNCHANGED pc
           ELSE pc' = "fill" /\ UNCHANGED <<bio, refs>>
  BY DEF CopyPage
<1>3. UNCHANGED <<request, pos, pass, chain>> /\ LeftToCopy > 0
  BY DEF CopyPage
<1> DEFINE at == p * PageUnits
           c == WithAdded(b, at, n)
<1>4. /\ b.kind = "copied" /\ b.start = ChainUnits(chain) /\ b.start \in Nat /\ BioUnits(b) \in Nat
      /\ pos = b.start /\ pos < Total /\ Total \in Nat /\ b.max >= 1 /\ b.max \in Nat
      /\ LegalVecs(b) /\ Len(b.vecs) <= MaxSegments /\ BioUnits(b) <= MaxUnits
  <2>1. b.start \in Nat /\ BioUnits(b) \in Nat /\ b.max \in 0 .. BIO_MAX_VECS
    BY <1>1, BioUnitsFacts DEF Bio
  <2>2. b.max \in Nat /\ Total \in Nat
    BY <1>1, <2>1, QueueAssumption, TotalNat
  <2> QED
    BY <1>1, <2>1, <2>2 DEF BInv, CursorInv, LimitInv, Filling
<1>5. LeftToCopy \in Nat \ {0} /\ LeftToCopy = Total - b.start - BioUnits(b)
  BY <1>3, <1>4 DEF LeftToCopy
<1>6. n \in Nat \ {0} /\ n <= PageUnits /\ b.start + (BioUnits(b) + n) <= Total
  <2>1. PageUnits \in Nat \ {0}
    BY QueueAssumption
  <2>2. n \in Nat \ {0} /\ n <= PageUnits /\ n <= LeftToCopy
    BY <1>5, <2>1 DEF AtMost
  <2> HIDE DEF n
  <2> QED
    BY <1>4, <1>5, <2>2
<1>7. p \in Frames /\ at \in Nat /\ at % PageUnits = 0 /\ Page(at) = p
      /\ (at % PageUnits) + n <= PageUnits
  <2>1. p \in Frames /\ p \in Nat /\ 0 \in 0 .. PageUnits - 1
    BY QueueAssumption DEF Frames
  <2>2. p * PageUnits + 0 \in Nat /\ Page(p * PageUnits + 0) = p /\ (p * PageUnits + 0) % PageUnits = 0
    BY <2>1, PageOf
  <2>3. p * PageUnits + 0 = p * PageUnits
    BY <2>1, QueueAssumption
  <2>4. at \in Nat /\ at % PageUnits = 0 /\ Page(at) = p
    BY <2>2, <2>3
  <2>5. 0 + n <= PageUnits
    BY <1>6
  <2> HIDE DEF at, n
  <2> QED
    BY <2>1, <2>4, <2>5
<1> HIDE DEF b, n, at, c
<1>8. CASE CanAdd(b, at, n)
  <2>1. bio' = <<c>> /\ refs' = [refs EXCEPT ![p] = 1] /\ pc' = pc
    BY <1>2, <1>8 DEF at, c
  <2>2. Grown(b, at, n, c)
    BY <1>1, <1>6, <1>7, AddedShape DEF c
  <2>3. c \in Bio /\ c.kind = b.kind /\ c.start = b.start /\ c.max = b.max /\ c.vecs # <<>>
    BY <2>2 DEF Grown
  <2>4. BioUnits(c) = BioUnits(b) + n
    <3>1. b \in Bio /\ at \in Nat /\ n \in Nat \ {0}
      BY <1>1, <1>6, <1>7
    <3> QED
      BY <2>2, <3>1, AddedUnits
  <2>5. bio'[1] = c /\ bio' \in Seq(Bio) /\ Len(bio') = 1
    BY <2>1, <2>3, OneBio
  <2>6. TypeOK'
    <3>1. refs' \in [Frames -> Nat] /\ Total' = Total
      BY <1>1, <1>3, <1>7, <2>1 DEF Total
    <3> QED
      BY <1>1, <1>3, <2>1, <2>5, <3>1 DEF TypeOK
  <2>7. PlaceInv'
    BY <1>1, <1>3, <2>1, <2>5 DEF PlaceInv, Filling, MustCopy, HasGap
  <2>8. CursorInv'
    BY <1>1, <1>3, <1>4, <1>6, <2>1, <2>3, <2>4, <2>5 DEF BInv, CursorInv, Filling, Total
  <2>9. PassInv' /\ AlignInv'
    BY <1>1, <1>3, <2>1 DEF PassInv, AlignInv
  <2>10. DataInv'
    <3>1. \A x : IsImage(x)' = IsImage(x)
      BY <1>3 DEF IsImage, Physical, Page
    <3> QED
      BY <1>1, <1>3, <3>1 DEF BInv, DataInv
  <2>11. LimitInv'
    <3>1. LegalVecs(c) /\ BioUnits(c) <= MaxUnits /\ Len(c.vecs) <= MaxSegments
      BY <1>1, <1>4, <1>6, <1>7, <1>8, <2>2, AddedLimits
    <3> QED
      BY <1>1, <1>3, <2>1, <2>5, <3>1 DEF BInv, LimitInv, Filling, LegalVecs
  <2>12. HoldInv'
    <3>1. ASSUME NEW f \in Frames
          PROVE  /\ refs'[f] >= Holds(chain, f) + BioHolds(c, f) + InPass(f)'
                 /\ VirtBoundary => refs'[f] = Holds(chain, f) + BioHolds(c, f) + InPass(f)'
      <4>1. BioHolds(c, f) = BioHolds(b, f) + Only(f = p)
        <5>1. b.kind # "registered"
          BY <1>4
        <5> QED
          BY <1>1, <1>6, <1>7, <2>2, <5>1, AddedHolds
      <4>2. InPass(f) = 0 /\ InPass(f)' = 0
        <5>1. InPass(f) = 0
          BY <1>1, NoneInPass
        <5> QED
          BY <1>3, <5>1 DEF InPass
      <4>3. BioHolds(b, f) \in Nat /\ Holds(chain, f) \in Nat
            /\ Holds(bio, f) = BioHolds(b, f) /\ refs[f] \in Nat
        BY <1>1, BioHoldsNat, ChainFacts, OneBio
      <4>4. refs[f] >= Holds(chain, f) + Holds(bio, f) + InPass(f)
            /\ (VirtBoundary => refs[f] = Holds(chain, f) + Holds(bio, f) + InPass(f))
        BY DEF BInv, HoldInv
      <4>5. refs'[f] = IF f = p THEN 1 ELSE refs[f]
        BY <1>1, <2>1
      <4>6. CASE f = p
        BY <1>2, <4>1, <4>2, <4>3, <4>4, <4>5, <4>6 DEF Only
      <4>7. CASE f # p
        BY <4>1, <4>2, <4>3, <4>4, <4>5, <4>7 DEF Only
      <4> QED
        BY <4>6, <4>7
    <3>2. \A f : Holds(bio', f) = BioHolds(c, f)
      BY <2>1, <2>3, OneBio
    <3> QED
      BY <1>3, <3>1, <3>2 DEF HoldInv
  <2> QED
    BY <2>6, <2>7, <2>8, <2>9, <2>10, <2>11, <2>12 DEF BInv
<1>9. CASE ~CanAdd(b, at, n)
  <2>1. pc' = "fill" /\ UNCHANGED <<request, pos, bio, pass, chain, refs>>
    BY <1>2, <1>3, <1>9 DEF at
  <2>2. ASSUME b.vecs = <<>> PROVE FALSE
    <3>1. BioUnits(b) = 0 /\ Len(b.vecs) = 0
      BY <1>1, <2>2, BioUnitsFacts
    <3>2. n <= MaxUnits
      BY <1>6, QueueAssumption
    <3> QED
      BY <1>4, <1>6, <1>9, <2>2, <3>1, <3>2, QueueAssumption DEF CanAdd
  <2> QED
    BY <1>1, <2>1, <2>2, MoveKeeps DEF Onward, b
<1> QED
  BY <1>8, <1>9

LEMMA FillBioKeeps ==
  ASSUME BInv, FillBio
  PROVE  BInv'
<1> USE DEF request, pass
<1> DEFINE b == bio[1]
<1>1. /\ TypeOK /\ PlaceInv /\ pc = "fill" /\ bio = <<b>> /\ b \in Bio /\ vec \in Vectors
      /\ copy /\ pages = <<>> /\ j = 0 /\ bytes = 0 /\ offs = 0
  <2>1. TypeOK /\ PlaceInv /\ pc = "fill"
    BY DEF BInv, FillBio
  <2> QED
    BY <2>1, TheBio DEF TypeOK, PlaceInv, Filling
<1>2. CASE pos' = pos + BioUnits(b) /\ pc' = "append"
  <2>1. UNCHANGED <<request, bio, pass, chain, refs>>
    BY DEF FillBio
  <2>2. /\ pos = b.start /\ b.start \in Nat /\ BioUnits(b) \in Nat /\ Total \in Nat
        /\ b.start + BioUnits(b) <= Total /\ b.vecs # <<>>
    BY <1>1, BioUnitsFacts, TotalNat DEF BInv, CursorInv, Bio, Filling
  <2>3. pos' \in 0 .. Total /\ pos' - bytes = b.start + BioUnits(b)
    BY <1>1, <1>2, <2>2
  <2>4. TypeOK'
    BY <1>1, <1>2, <2>1, <2>3 DEF TypeOK, Total
  <2>5. PlaceInv'
    BY <1>1, <1>2, <2>1 DEF PlaceInv, Filling, MustCopy, HasGap
  <2>6. CursorInv'
    BY <1>1, <1>2, <2>1, <2>2, <2>3 DEF BInv, CursorInv, Filling, Total
  <2>7. PassInv' /\ AlignInv'
    BY <1>1, <1>2, <2>1 DEF PassInv, AlignInv
  <2>8. DataInv'
    <3>1. \A x : IsImage(x)' = IsImage(x)
      BY <2>1 DEF IsImage, Physical, Page
    <3> QED
      BY <1>1, <2>1, <3>1 DEF BInv, DataInv
  <2>9. LimitInv'
    BY <1>1, <2>1 DEF BInv, LimitInv, Filling, LegalVecs
  <2>10. HoldInv'
    BY <2>1 DEF BInv, HoldInv, InPass
  <2> QED
    BY <2>4, <2>5, <2>6, <2>7, <2>8, <2>9, <2>10 DEF BInv
<1>3. CASE pc' = "drop" /\ UNCHANGED pos
  BY <1>1, <1>3, MoveKeeps DEF FillBio, Onward
<1> QED
  BY <1>2, <1>3 DEF FillBio

-----------------------------------------------------------------------------
(* A registered buffer                                                     *)

FixedFrom == vec.addr[1]
FixedEnd == vec.addr[Total] + 1
FixedCount == Page(FixedEnd - 1) - Page(FixedFrom) + 1
FixedStart(i) == IF i = 1 THEN FixedFrom ELSE (Page(FixedFrom) + i - 1) * PageUnits
FixedStop(i) == AtMost(FixedStart(i + 1), FixedEnd)

\* The addresses of a registered buffer are consecutive.
LEMMA FixedAddresses ==
  ASSUME vec \in Vectors, vec.fixed, Total > 0
  PROVE  /\ FixedFrom \in Nat /\ FixedEnd \in Nat /\ Total \in Nat /\ FixedEnd = FixedFrom + Total
         /\ \A d \in 0 .. Total - 1 : /\ d + 1 \in DOMAIN vec.addr
                                      /\ vec.addr[d + 1] = FixedFrom + d
<1>1. vec.addr \in Seq(Nat) /\ Total \in Nat /\ vec.ends \subseteq {Total}
  BY VectorAssumption DEF Total
<1>2. 0 \in Nat /\ 0 < Total
  BY <1>1
<1>3. /\ SegmentEnd(0) \in vec.ends /\ vec.addr[0 + 1] \in Nat
      /\ \A d \in 0 .. SegmentEnd(0) - 0 - 1 :
           /\ 0 + 1 + d \in DOMAIN vec.addr
           /\ vec.addr[0 + 1 + d] = vec.addr[0 + 1] + d
  BY <1>2, SegmentFacts
<1>4. SegmentEnd(0) = Total /\ 0 + 1 = 1
  BY <1>1, <1>3
<1>5. FixedFrom \in Nat
  BY <1>3, <1>4 DEF FixedFrom
<1>6. ASSUME NEW d \in 0 .. Total - 1
      PROVE  d + 1 \in DOMAIN vec.addr /\ vec.addr[d + 1] = FixedFrom + d
  <2>1. d \in 0 .. SegmentEnd(0) - 0 - 1 /\ 0 + 1 + d = d + 1
    BY <1>1, <1>4
  <2> QED
    BY <1>3, <1>4, <2>1 DEF FixedFrom
<1>7. vec.addr[Total] = FixedFrom + (Total - 1)
  <2>1. Total - 1 \in 0 .. Total - 1 /\ (Total - 1) + 1 = Total
    BY <1>1
  <2> QED
    BY <1>6, <2>1
<1> QED
  BY <1>1, <1>5, <1>6, <1>7 DEF FixedEnd

\* Part i of the buffer is what it has of its i-th page.
LEMMA FixedParts ==
  ASSUME vec \in Vectors, vec.fixed, Total > 0, NEW i \in 1 .. FixedCount
  PROVE  LET s == FixedStart(i)
             n == FixedStop(i) - s
         IN  /\ FixedCount \in Nat \ {0} /\ i \in Nat \ {0}
             /\ s \in Nat /\ FixedStop(i) \in Nat /\ n \in Nat \ {0}
             /\ (s % PageUnits) + n <= PageUnits /\ Page(s) = Page(FixedFrom) + i - 1
             /\ FixedFrom <= s /\ s + n <= FixedEnd
             /\ i = 1 => s = FixedFrom
             /\ i # 1 => s % PageUnits = 0
             /\ IF i = FixedCount THEN FixedStop(i) = FixedEnd
                ELSE FixedStop(i) = FixedStart(i + 1) /\ (s % PageUnits) + n = PageUnits
<1> DEFINE P == PageUnits
           p == Page(FixedFrom)
           l == Page(FixedEnd - 1)
           s == FixedStart(i)
           x == (p + i - 1) * P
           y == (p + i) * P
           z == l * P
           N == FixedCount
           F == FixedFrom
           E == FixedEnd
<1>1. F \in Nat /\ E \in Nat /\ F < E /\ E - 1 \in Nat
  <2>1. FixedFrom \in Nat /\ Total \in Nat /\ FixedEnd = FixedFrom + Total /\ FixedEnd \in Nat
    BY FixedAddresses
  <2> QED
    BY <2>1
<1>2. P \in Nat \ {0}
  BY QueueAssumption
<1> DEFINE rf == F % P
           rl == (E - 1) % P
<1>3. /\ p \in Nat /\ rf \in 0 .. P - 1 /\ F = p * P + rf
      /\ l \in Nat /\ rl \in 0 .. P - 1 /\ E - 1 = z + rl
  BY <1>1, PageOf
<1>4. p <= l
  <2> DEFINE pp == p * P
             zz == (l + 1) * P
  <2>1. pp \in Nat /\ z \in Nat /\ zz = z + P
    BY <1>2, <1>3
  <2> HIDE DEF p, l, z, rf, rl, F, E, P, zz, pp
  <2>2. pp < zz
    BY <1>1, <1>2, <1>3, <2>1 DEF pp
  <2>3. p < l + 1
    BY <1>2, <1>3, <2>2 DEF pp, zz
  <2> QED
    BY <1>3, <2>3
<1>5. N = l - p + 1 /\ N \in Nat \ {0} /\ i \in Nat \ {0} /\ p + i - 1 \in Nat /\ p + i - 1 <= l
      /\ (i = N <=> p + i - 1 = l)
  <2>1. N = l - p + 1
    BY DEF FixedCount
  <2> HIDE DEF N, p, l
  <2> QED
    BY <1>3, <1>4, <2>1 DEF N
<1>6. /\ s = IF i = 1 THEN F ELSE x
      /\ FixedStop(i) = AtMost(y, E) /\ FixedStart(i + 1) = y
  <2>1. i + 1 # 1 /\ p + (i + 1) - 1 = p + i
    BY <1>3, <1>5
  <2> QED
    BY <2>1 DEF FixedStart, FixedStop
<1>7. x \in Nat /\ y \in Nat /\ z \in Nat /\ y = x + P /\ x <= z
      /\ (i = N => y = z + P) /\ (i # N => y <= z)
  <2> DEFINE q == p + i - 1
  <2>1. q \in Nat /\ q <= l /\ p + i = q + 1 /\ l \in Nat /\ (i = N => q = l) /\ (i # N => q + 1 <= l)
    BY <1>3, <1>5
  <2>2. x = q * P /\ y = (q + 1) * P
    BY <2>1
  <2> HIDE DEF q, l, P, x, y
  <2> QED
    BY <1>2, <2>1, <2>2
<1>8. i = 1 => F = x + rf
  BY <1>3, <1>5
<1> DEFINE r == IF i = 1 THEN rf ELSE 0
<1>9. r \in 0 .. P - 1 /\ s = x + r /\ s < E /\ F <= s
  <2>1. F <= x \/ i = 1
    <3>1. i # 1 => p + 1 <= p + i - 1
      BY <1>3, <1>5
    <3> DEFINE q == p + i - 1
               u == (p + 1) * P
               v == p * P
    <3>2. i # 1 => u <= x
      <4>1. q \in Nat /\ (i # 1 => p + 1 <= q) /\ x = q * P
        BY <1>5, <3>1
      <4> HIDE DEF q, x, p, P
      <4> QED
        BY <1>2, <1>3, <4>1
    <3>3. u = v + P /\ v \in Nat /\ F = v + rf
      BY <1>2, <1>3
    <3> HIDE DEF u, v, x, rf, F, P
    <3> QED
      BY <1>2, <1>3, <1>7, <3>2, <3>3
  <2> HIDE DEF x, y, z, rf, rl, F, E, P, s, N, p
  <2> QED
    BY <1>1, <1>2, <1>3, <1>5, <1>6, <1>7, <1>8, <2>1
<1>10. s \in Nat /\ s % P = r /\ Page(s) = p + i - 1
  <2> DEFINE q == p + i - 1
  <2>1. q \in Nat /\ s = q * PageUnits + r
    BY <1>5, <1>9
  <2> HIDE DEF q, r, s
  <2>2. s \in Nat /\ s % PageUnits = r /\ Page(s) = q
    BY <1>9, <2>1, PageOf
  <2> QED
    BY <2>2 DEF q
<1> DEFINE t == FixedStop(i)
           n == t - s
<1>11. IF i = N THEN t = E ELSE t = y
  <2> HIDE DEF x, y, z, rf, rl, F, E, P, s, N, p, r
  <2> QED
    BY <1>1, <1>2, <1>3, <1>6, <1>7 DEF AtMost
<1>12. t \in Nat /\ n \in Nat \ {0} /\ r + n <= P /\ s + n <= E /\ (i # N => r + n = P)
  <2>1. E <= z + P
    <3> HIDE DEF z, rl, E, P
    <3> QED
      BY <1>1, <1>2, <1>3, <1>7
  <2>2. i # N => y <= E - 1
    <3> HIDE DEF z, rl, E, P, y, N
    <3> QED
      BY <1>1, <1>3, <1>7
  <2> HIDE DEF x, y, z, rf, rl, F, E, P, s, N, p, r, t
  <2> QED
    BY <1>1, <1>2, <1>7, <1>9, <1>10, <1>11, <2>1, <2>2
<1>13. (i = 1 => s = FixedFrom) /\ (i # 1 => s % PageUnits = 0)
  BY <1>6, <1>10
<1> QED
  <2> HIDE DEF x, y, z, rf, rl, s, N, p, r, t, l
  <2> QED
    BY <1>5, <1>6, <1>9, <1>10, <1>11, <1>12, <1>13 DEF N, t, s, p

LEMMA FixedPiece ==
  ASSUME vec \in Vectors, vec.fixed, Total > 0, NEW i \in 1 .. FixedCount
  PROVE  LET s == FixedStart(i)
             n == FixedStop(i) - s
         IN  /\ Physical(s) \in Nat /\ Physical(s) % PageUnits = s % PageUnits
             /\ \A k \in 0 .. n - 1 : Physical(s) + k = Physical(vec.addr[(s - FixedFrom) + k + 1])
             /\ (s % PageUnits) + n = PageUnits => (Physical(s) + n) % PageUnits = 0
<1> DEFINE s == FixedStart(i)
           n == FixedStop(i) - s
           r == s % PageUnits
           q == Frame[Page(s)]
           F == FixedFrom
<1>1. /\ s \in Nat /\ FixedStop(i) \in Nat /\ n \in Nat \ {0} /\ r + n <= PageUnits
      /\ F <= s /\ s + n <= FixedEnd
  BY FixedParts
<1>2. /\ F \in Nat /\ Total \in Nat /\ FixedEnd = F + Total
      /\ \A d \in 0 .. Total - 1 : d + 1 \in DOMAIN vec.addr /\ vec.addr[d + 1] = F + d
  BY FixedAddresses
<1>3. PageUnits \in Nat \ {0} /\ r \in 0 .. PageUnits - 1
  BY <1>1, PageOf, QueueAssumption
<1> HIDE DEF s, n, F, r
<1>4. ASSUME NEW k \in 0 .. n - 1
      PROVE  /\ k \in Nat /\ (s - F) + k + 1 \in DOMAIN vec.addr
             /\ vec.addr[(s - F) + k + 1] = s + k
             /\ Page(s + k) = Page(s) /\ (s + k) % PageUnits = r + k
  <2>1. k \in Nat /\ (s - F) + k \in 0 .. Total - 1 /\ F + ((s - F) + k) = s + k /\ r + k < PageUnits
    BY <1>1, <1>2, <1>3
  <2>2. (s % PageUnits) + k < PageUnits
    BY <2>1 DEF r
  <2>3. Page(s + k) = Page(s) /\ (s + k) % PageUnits = (s % PageUnits) + k
    BY <1>1, <2>1, <2>2, NextUnits
  <2> QED
    BY <1>2, <2>1, <2>3 DEF r
<1>5. Page(s) \in DOMAIN Frame /\ q \in Nat
  <2>1. 0 \in 0 .. n - 1
    BY <1>1
  <2>2. (s - F) + 0 + 1 \in DOMAIN vec.addr /\ vec.addr[(s - F) + 0 + 1] = s + 0 /\ s + 0 = s
    BY <1>1, <1>4, <2>1
  <2> QED
    BY <2>2, PhysicalUnit
<1> HIDE DEF q
<1>6. Physical(s) = q * PageUnits + r
  BY DEF Physical, q, r
<1>7. q * PageUnits + r \in Nat /\ (q * PageUnits + r) % PageUnits = r /\ q * PageUnits \in Nat
  <2>1. q * PageUnits + r \in Nat /\ (q * PageUnits + r) % PageUnits = r
    BY <1>3, <1>5, PageOf
  <2>2. q * PageUnits \in Nat
    BY <1>3, <1>5
  <2> QED
    BY <2>1, <2>2
<1>8. \A k \in 0 .. n - 1 : Physical(s) + k = Physical(vec.addr[(s - F) + k + 1])
  <2> TAKE k \in 0 .. n - 1
  <2>1. Physical(vec.addr[(s - F) + k + 1]) = q * PageUnits + (r + k)
    BY <1>4 DEF Physical, q
  <2> DEFINE z == q * PageUnits
  <2>2. z \in Nat /\ k \in Nat /\ r \in Nat /\ Physical(s) = z + r
    BY <1>3, <1>4, <1>6, <1>7
  <2> HIDE DEF z
  <2>3. Physical(s) + k = z + (r + k)
    BY <2>2
  <2> QED
    BY <2>1, <2>3 DEF z
<1>9. r + n = PageUnits => (Physical(s) + n) % PageUnits = 0
  <2> DEFINE z == q * PageUnits
             m == q + 1
  <2>1. z \in Nat /\ r \in Nat /\ n \in Nat /\ Physical(s) = z + r /\ m * PageUnits + 0 = z + PageUnits
    BY <1>1, <1>3, <1>5, <1>6, <1>7
  <2>2. m \in Nat /\ 0 \in 0 .. PageUnits - 1
    BY <1>3, <1>5
  <2> HIDE DEF m
  <2>3. (m * PageUnits + 0) % PageUnits = 0
    BY <2>2, PageOf
  <2> HIDE DEF z
  <2>4. r + n = PageUnits => Physical(s) + n = z + PageUnits
    BY <1>3, <2>1
  <2> QED
    BY <2>1, <2>3, <2>4
<1> QED
  BY <1>6, <1>7, <1>8, <1>9 DEF s, n, F, r

\* The table of a registered buffer as a bio.
FixedBio == [vecs |-> FixedBvecs, kind |-> "registered", start |-> 0, max |-> 0]

LEMMA FixedShape ==
  ASSUME vec \in Vectors, vec.fixed, Total > 0
  PROVE  /\ FixedBio \in Bio /\ FixedBio.vecs = FixedBvecs /\ FixedBio.start = 0
         /\ FixedBio.kind = "registered" /\ FixedBvecs # <<>>
         /\ DOMAIN FixedBvecs = 1 .. FixedCount /\ Len(FixedBvecs) = FixedCount
         /\ FixedCount \in Nat \ {0}
         /\ \A i \in 1 .. FixedCount : /\ FixedBvecs[i].at = Physical(FixedStart(i))
                                       /\ FixedBvecs[i].len = FixedStop(i) - FixedStart(i)
<1> DEFINE v(i) == [at |-> Physical(FixedStart(i)), len |-> FixedStop(i) - FixedStart(i)]
<1>1. FixedBvecs = [i \in 1 .. FixedCount |-> v(i)]
  BY DEF FixedBvecs, FixedCount, FixedStart, FixedStop, FixedFrom, FixedEnd
<1>2. FixedCount \in Nat \ {0}
  <2> DEFINE F == FixedFrom
             E == FixedEnd
  <2>1. F \in Nat /\ E - 1 \in Nat /\ F <= E - 1
    <3>1. FixedFrom \in Nat /\ Total \in Nat /\ FixedEnd = FixedFrom + Total /\ FixedEnd \in Nat
      BY FixedAddresses
    <3> QED
      BY <3>1
  <2> DEFINE p == Page(F)
             l == Page(E - 1)
             rf == F % PageUnits
             rl == (E - 1) % PageUnits
             x == p * PageUnits
             y == l * PageUnits
             z == (l + 1) * PageUnits
  <2>2. /\ p \in Nat /\ rf \in 0 .. PageUnits - 1 /\ F = x + rf
        /\ l \in Nat /\ rl \in 0 .. PageUnits - 1 /\ E - 1 = y + rl
        /\ PageUnits \in Nat \ {0}
    BY <2>1, PageOf, QueueAssumption
  <2>3. x \in Nat /\ y \in Nat /\ z = y + PageUnits
    BY <2>2
  <2> HIDE DEF p, l, x, y, z, rf, rl, F, E
  <2>4. x < z
    BY <2>1, <2>2, <2>3
  <2>5. p < l + 1
    BY <2>2, <2>4 DEF x, z
  <2>6. l - p + 1 \in Nat \ {0}
    BY <2>2, <2>5
  <2> QED
    BY <2>6 DEF FixedCount, l, p, F, E
<1>3. ASSUME NEW i \in 1 .. FixedCount PROVE v(i) \in Bvec
  <2>1. FixedStop(i) - FixedStart(i) \in Nat \ {0}
    BY FixedParts
  <2>2. Physical(FixedStart(i)) \in Nat
    BY FixedPiece
  <2> QED
    BY <2>1, <2>2 DEF Bvec
<1>4. DOMAIN FixedBvecs = 1 .. FixedCount /\ \A i \in 1 .. FixedCount : FixedBvecs[i] = v(i)
  <2> HIDE DEF v
  <2> QED
    BY <1>1
<1>5. FixedBvecs \in Seq(Bvec)
  <2> HIDE DEF v
  <2> QED
    BY <1>1, <1>2, <1>3
<1>6. Len(FixedBvecs) = FixedCount /\ FixedBvecs # <<>>
  BY <1>2, <1>4, <1>5
<1>7. FixedBio \in Bio
  BY <1>5, QueueAssumption DEF FixedBio, Bio
<1> QED
  BY <1>2, <1>4, <1>6, <1>7 DEF FixedBio

\* The parts follow each other without a gap.
LEMMA FixedUnits ==
  ASSUME vec \in Vectors, vec.fixed, Total > 0
  PROVE  /\ \A i \in 1 .. FixedCount : VecUnits(FixedBio, i - 1) = FixedStart(i) - FixedFrom
         /\ BioUnits(FixedBio) = Total
<1> DEFINE b == FixedBio
           N == FixedCount
           F == FixedFrom
<1>1. /\ b \in Bio /\ b.vecs = FixedBvecs /\ DOMAIN b.vecs = 1 .. N /\ Len(b.vecs) = N /\ N \in Nat \ {0}
      /\ \A i \in 1 .. N : b.vecs[i].len = FixedStop(i) - FixedStart(i)
  BY FixedShape
<1>2. \A i \in 1 .. N : /\ FixedStart(i) \in Nat /\ FixedStop(i) \in Nat
                        /\ i = 1 => FixedStart(i) = F
                        /\ IF i = N THEN FixedStop(i) = FixedEnd ELSE FixedStop(i) = FixedStart(i + 1)
  BY FixedParts
<1>3. F \in Nat /\ Total \in Nat /\ FixedEnd = F + Total
  BY FixedAddresses
<1>4. VecUnits(b, 0) = 0 /\ \A i \in 1 .. N : VecUnits(b, i) = VecUnits(b, i - 1) + b.vecs[i].len
  BY <1>1, BioUnitsFacts
<1> HIDE DEF b, N, F
<1> DEFINE T == {i \in Nat : i \in 1 .. N /\ VecUnits(b, i - 1) # FixedStart(i) - F}
<1>5. ASSUME T # {} PROVE FALSE
  <2>1. PICK i \in T : \A y \in T : i <= y
    BY <1>5, NatMin
  <2>2. i \in 1 .. N
    BY <2>1
  <2>3. CASE i = 1
    <3>1. i - 1 = 0 /\ FixedStart(i) - F = 0
      BY <1>2, <1>3, <2>2, <2>3
    <3> QED
      BY <1>4, <2>1, <3>1
  <2>4. CASE i # 1
    <3> DEFINE m == i - 1
    <3>1. m \in Nat /\ m \in 1 .. N /\ m # N /\ m \notin T /\ m + 1 = i
      BY <1>1, <2>1, <2>2, <2>4
    <3> HIDE DEF m
    <3>2. VecUnits(b, m - 1) = FixedStart(m) - F
      BY <3>1
    <3>3. VecUnits(b, m) = VecUnits(b, m - 1) + (FixedStop(m) - FixedStart(m))
      BY <1>1, <1>4, <3>1
    <3>4. FixedStop(m) = FixedStart(i) /\ FixedStart(m) \in Nat /\ FixedStart(i) \in Nat
      BY <1>2, <2>2, <3>1
    <3>5. VecUnits(b, m) = FixedStart(i) - F
      BY <1>3, <3>2, <3>3, <3>4
    <3> QED
      BY <2>1, <3>5 DEF m
  <2> QED
    BY <2>3, <2>4
<1>6. \A i \in 1 .. N : VecUnits(b, i - 1) = FixedStart(i) - F
  <2> TAKE i \in 1 .. N
  <2>1. i \in Nat /\ i \notin T
    BY <1>1, <1>5
  <2> QED
    BY <2>1
<1>7. VecUnits(b, N) = Total
  <2>1. N \in 1 .. N
    BY <1>1
  <2>2. VecUnits(b, N) = (FixedStart(N) - F) + (FixedStop(N) - FixedStart(N))
    BY <1>1, <1>4, <1>6, <2>1
  <2>3. FixedStop(N) = F + Total /\ FixedStart(N) \in Nat
    BY <1>2, <1>3, <2>1
  <2> QED
    BY <1>3, <2>2, <2>3
<1> QED
  BY <1>1, <1>6, <1>7 DEF b, N, F, BioUnits

LEMMA FixedLegal ==
  ASSUME vec \in Vectors, vec.fixed, Total > 0
  PROVE  IsImage(FixedBio) /\ LegalVecs(FixedBio) /\ ~FixedGap(FixedBvecs)
<1> DEFINE b == FixedBio
           N == FixedCount
<1>1. /\ b \in Bio /\ b.vecs = FixedBvecs /\ b.start = 0 /\ DOMAIN b.vecs = 1 .. N /\ N \in Nat \ {0}
      /\ \A i \in 1 .. N : /\ b.vecs[i].at = Physical(FixedStart(i))
                           /\ b.vecs[i].len = FixedStop(i) - FixedStart(i)
  BY FixedShape
<1>2. IsImage(b)
  <2>1. ASSUME NEW i \in 1 .. N, NEW k \in 0 .. b.vecs[i].len - 1
        PROVE  b.vecs[i].at + k = Physical(vec.addr[b.start + VecUnits(b, i - 1) + k + 1])
    <3>1. VecUnits(b, i - 1) = FixedStart(i) - FixedFrom
      BY FixedUnits
    <3>2. FixedStart(i) \in Nat /\ FixedFrom \in Nat
      BY FixedParts, FixedAddresses
    <3>3. b.start + VecUnits(b, i - 1) + k + 1 = (FixedStart(i) - FixedFrom) + k + 1
      BY <1>1, <3>1, <3>2
    <3>4. k \in 0 .. (FixedStop(i) - FixedStart(i)) - 1
      BY <1>1
    <3>5. Physical(FixedStart(i)) + k = Physical(vec.addr[(FixedStart(i) - FixedFrom) + k + 1])
      BY <3>4, FixedPiece
    <3> QED
      BY <1>1, <3>3, <3>5
  <2> QED
    BY <1>1, <2>1 DEF IsImage
<1>3. LegalVecs(b)
  <2>1. ASSUME NEW i \in 1 .. N
        PROVE  /\ b.vecs[i].len <= MaxSegUnits
               /\ b.vecs[i].at \div SegBoundary = (b.vecs[i].at + b.vecs[i].len - 1) \div SegBoundary
    <3> DEFINE s == FixedStart(i)
               n == FixedStop(i) - s
    <3>1. s \in Nat /\ n \in Nat \ {0} /\ (s % PageUnits) + n <= PageUnits
      BY FixedParts
    <3>2. Physical(s) \in Nat /\ Physical(s) % PageUnits = s % PageUnits
      BY FixedPiece
    <3>3. b.vecs[i].at = Physical(s) /\ b.vecs[i].len = n
      BY <1>1
    <3> HIDE DEF s, n
    <3>4. s % PageUnits \in Nat /\ n <= PageUnits /\ (Physical(s) % PageUnits) + n <= PageUnits
      <4>1. s % PageUnits \in 0 .. PageUnits - 1 /\ PageUnits \in Nat
        BY <3>1, PageOf, QueueAssumption
      <4> QED
        BY <3>1, <3>2, <4>1
    <3>5. n <= MaxSegUnits
      BY <3>1, <3>4, QueueAssumption
    <3> QED
      BY <3>1, <3>2, <3>3, <3>4, <3>5, WithinBoundary
  <2> QED
    BY <1>1, <2>1 DEF LegalVecs
<1>4. ASSUME NEW i \in 1 .. N, i # 1
      PROVE  ~Gap(b.vecs[i - 1], b.vecs[i].at)
  <2> DEFINE m == i - 1
  <2>1. m \in 1 .. N /\ m # N
    BY <1>1, <1>4
  <2> HIDE DEF m
  <2>2. Physical(FixedStart(i)) % PageUnits = 0
    BY <1>4, FixedParts, FixedPiece
  <2>3. (FixedStart(m) % PageUnits) + (FixedStop(m) - FixedStart(m)) = PageUnits
    BY <2>1, FixedParts
  <2>4. (Physical(FixedStart(m)) + (FixedStop(m) - FixedStart(m))) % PageUnits = 0
    BY <2>1, <2>3, FixedPiece
  <2>5. b.vecs[i].at % PageUnits = 0 /\ (b.vecs[m].at + b.vecs[m].len) % PageUnits = 0
    BY <1>1, <2>1, <2>2, <2>4
  <2> QED
    BY <2>5 DEF Gap, m
<1>5. ~FixedGap(FixedBvecs)
  BY <1>1, <1>4 DEF FixedGap
<1> QED
  BY <1>2, <1>3, <1>5

LEMMA MapBvecsKeeps ==
  ASSUME BInv, MapBvecs
  PROVE  BInv'
<1> USE DEF request, pass
<1> DEFINE b == FixedBio
<1>1. /\ TypeOK /\ PlaceInv /\ pc = "bvec" /\ vec \in Vectors /\ vec.fixed /\ Total > 0
      /\ bio = <<>> /\ chain = <<>> /\ pages = <<>> /\ j = 0 /\ bytes = 0 /\ offs = 0
      /\ Total \in Nat /\ Total <= MaxUnits /\ Len(FixedBvecs) <= MaxSegments
  <2>1. TypeOK /\ PlaceInv /\ pc = "bvec" /\ Total \in 1 .. MaxUnits /\ Len(FixedBvecs) <= MaxSegments
    BY DEF BInv, MapBvecs
  <2>2. Total \in Nat /\ Total > 0 /\ Total <= MaxUnits
    BY <2>1, QueueAssumption
  <2> QED
    BY <2>1, <2>2 DEF PlaceInv, Filling
<1>2. /\ b \in Bio /\ b.vecs = FixedBvecs /\ b.start = 0 /\ b.kind = "registered" /\ FixedBvecs # <<>>
      /\ BioUnits(b) = Total /\ IsImage(b) /\ LegalVecs(b) /\ ~FixedGap(FixedBvecs)
  BY <1>1, FixedShape, FixedUnits, FixedLegal
<1>3. /\ chain' = <<b>> /\ pos' = Total /\ pc' = "mapped"
      /\ UNCHANGED <<request, bio, pass, refs>>
  BY <1>2 DEF MapBvecs, FixedBio
<1> HIDE DEF b
<1>4. <<b>> = Append(<<>>, b) /\ <<>> \in Seq(Bio) /\ Len(<<>>) = 0
  OBVIOUS
<1>5. /\ chain' \in Seq(Bio) /\ DOMAIN chain' = {1} /\ chain'[1] = b
      /\ UnitsOf(chain', 0) = 0 /\ ChainUnits(chain') = Total
      /\ ChainSegments(chain') = Len(b.vecs)
      /\ \A f : Holds(chain', f) = 0
  <2>1. /\ <<b>> \in Seq(Bio)
        /\ ChainUnits(<<b>>) = ChainUnits(<<>>) + BioUnits(b)
        /\ ChainSegments(<<b>>) = ChainSegments(<<>>) + Len(b.vecs)
        /\ UnitsOf(<<b>>, 0) = UnitsOf(<<>>, 0)
    <3> DEFINE e == <<>>
               one == Append(e, b)
    <3>1. e \in Seq(Bio) /\ Len(e) = 0 /\ one = <<b>>
      BY <1>4
    <3> HIDE DEF e, one
    <3>2. /\ one \in Seq(Bio)
          /\ \A i \in 0 .. Len(e) : UnitsOf(one, i) = UnitsOf(e, i)
          /\ ChainUnits(one) = ChainUnits(e) + BioUnits(b)
          /\ ChainSegments(one) = ChainSegments(e) + Len(b.vecs)
      BY <1>2, <3>1, ChainAppend DEF one
    <3>3. 0 \in 0 .. Len(e)
      BY <3>1
    <3> QED
      BY <3>1, <3>2, <3>3 DEF e
  <2>2. ChainUnits(<<>>) = 0 /\ ChainSegments(<<>>) = 0 /\ UnitsOf(<<>>, 0) = 0
    BY <1>4, NoBios DEF ChainUnits
  <2>3. \A f : Holds(<<b>>, f) = BioHolds(b, f) /\ BioHolds(b, f) = 0
    BY <1>2, OneBio DEF BioHolds
  <2>4. Len(b.vecs) \in Nat /\ BioUnits(b) \in Nat
    BY <1>2, BioUnitsFacts
  <2>5. DOMAIN <<b>> = {1} /\ <<b>>[1] = b
    OBVIOUS
  <2> QED
    BY <1>2, <1>3, <2>1, <2>2, <2>3, <2>4, <2>5
<1>6. TypeOK'
  BY <1>1, <1>3, <1>5 DEF TypeOK, Total
<1>7. PlaceInv'
  BY <1>1, <1>3 DEF PlaceInv, Filling, MustCopy, HasGap
<1>8. CursorInv'
  BY <1>1, <1>3, <1>5 DEF CursorInv, Filling, Total
<1>9. PassInv' /\ AlignInv'
  BY <1>3 DEF PassInv, AlignInv
<1>10. DataInv'
  <2>1. \A x : IsImage(x)' = IsImage(x)
    BY <1>3 DEF IsImage, Physical, Page
  <2>2. \A i \in DOMAIN chain' : /\ chain'[i].start = UnitsOf(chain', i - 1)
                                 /\ chain'[i].kind # "copied" => IsImage(chain'[i])
    BY <1>2, <1>5
  <2>3. pc' \notin Filling
    BY <1>3 DEF Filling
  <2> QED
    BY <2>1, <2>2, <2>3 DEF DataInv
<1>11. LimitInv'
  <2>1. pc' \notin Filling
    BY <1>3 DEF Filling
  <2>2. /\ ChainUnits(chain') <= MaxUnits /\ ChainSegments(chain') <= MaxSegments
        /\ \A i \in DOMAIN chain' : chain'[i].vecs # <<>> /\ LegalVecs(chain'[i])
    BY <1>1, <1>2, <1>5
  <2> QED
    BY <2>1, <2>2 DEF LimitInv, LegalVecs
<1>12. HoldInv'
  <2>1. \A f \in Frames : refs'[f] = refs[f] /\ Holds(chain, f) = 0 /\ Holds(chain', f) = 0
                          /\ InPass(f)' = InPass(f) /\ bio' = bio
    BY <1>1, <1>3, <1>5, NoBios DEF InPass
  <2> QED
    BY <2>1 DEF BInv, HoldInv
<1> QED
  BY <1>6, <1>7, <1>8, <1>9, <1>10, <1>11, <1>12 DEF BInv

-----------------------------------------------------------------------------
(* The theorems                                                            *)

LEMMA NextKeeps ==
  ASSUME BInv, [Next]_vars
  PROVE  BInv'
<1>1. CASE \E v \in Vectors, o \in {"READ", "WRITE"} : Map(v, o)
  BY <1>1, MapKeeps
<1>2. CASE AllocBio \/ NoBio \/ AppendBio \/ DropBio \/ UnmapRq \/ UnmapUser
  BY <1>2, AllocBioKeeps, NoBioKeeps, AppendBioKeeps, DropBioKeeps, UnmapKeeps
<1>3. CASE PinPages \/ PinFails \/ AddPage \/ AllAdded \/ ReleaseRest
  BY <1>3, PinPagesKeeps, PinFailsKeeps, AddPageKeeps, AllAddedKeeps, ReleaseRestKeeps
<1>4. CASE CopyPage \/ NoPage \/ AllCopied \/ FillBio
  BY <1>4, CopyPageKeeps, NoPageKeeps, AllCopiedKeeps, FillBioKeeps
<1>5. CASE MapBvecs \/ RefuseBvecs
  BY <1>5, MapBvecsKeeps, RefuseBvecsKeeps
<1>6. CASE UNCHANGED vars
  BY <1>6, StutterKeeps
<1> QED
  BY <1>1, <1>2, <1>3, <1>4, <1>5, <1>6 DEF Next

\* The inductive invariant of blk_rq_map_user_iov, for every memory, vector and queue.
THEOREM BioInvariance == Spec => []BInv
<1>1. Init => BInv
  BY InitHolds
<1>2. BInv /\ [Next]_vars => BInv'
  BY NextKeeps
<1> QED
  BY <1>1, <1>2, PTL DEF Spec

\* Every variable of the call has its type; so no reference that was not taken is dropped,
\* on whatever queue, and no registered buffer is found to have a gap.
THEOREM BioTypeCorrect == Spec => []TypeOK
<1>1. BInv => TypeOK
  BY DEF BInv
<1> QED
  BY <1>1, BioInvariance, PTL

\* The bios with the one being filled: as many references as both hold.
LEMMA BothHold ==
  ASSUME TypeOK, PlaceInv
  PROVE  \A f : Holds(chain \o bio, f) = Holds(chain, f) + Holds(bio, f)
<1>1. chain \in Seq(Bio)
  BY DEF TypeOK
<1>2. CASE pc \in Filling
  <2>1. bio[1] \in Bio /\ bio = <<bio[1]>>
    BY <1>2, TheBio
  <2> DEFINE b == bio[1]
  <2>2. b \in Bio /\ bio = <<b>>
    BY <2>1
  <2> HIDE DEF b
  <2>3. /\ chain \o bio = Append(chain, b)
        /\ \A f : Holds(Append(chain, b), f) = Holds(chain, f) + BioHolds(b, f)
        /\ \A f : Holds(bio, f) = BioHolds(b, f)
    BY <1>1, <2>2, OneBio, ChainAppend
  <2> QED
    BY <2>3
<1>3. CASE pc \notin Filling
  <2>1. bio = <<>> /\ chain \o bio = chain
    BY <1>1, <1>3 DEF PlaceInv
  <2>2. \A f : Holds(bio, f) = 0 /\ Holds(chain, f) \in Nat
    BY <1>1, <2>1, NoBios, ChainFacts
  <2> QED
    BY <2>1, <2>2
<1> QED
  BY <1>2, <1>3

\* On a queue that refuses gaps, as NVMe's does, every page is held exactly as often as
\* the bios and the rest of the pass will give it back, however far the call came.
THEOREM PagesAreHeldOnce == VirtBoundary => (Spec => []PagesHeldOnce)
<1> SUFFICES ASSUME VirtBoundary PROVE Spec => []PagesHeldOnce
  OBVIOUS
<1>1. BInv => PagesHeldOnce
  <2> SUFFICES ASSUME BInv, NEW f \in Frames
               PROVE  refs[f] = Holds(chain \o bio, f)
                                + Cardinality({k \in j + 1 .. Len(pages) : pages[k] = f})
    BY DEF PagesHeldOnce
  <2>1. Holds(chain \o bio, f) = Holds(chain, f) + Holds(bio, f)
    BY BothHold DEF BInv
  <2> QED
    BY <2>1 DEF BInv, HoldInv, InPass
<1> QED
  BY <1>1, BioInvariance, PTL

\* On any queue no page is given back more often than it was taken: what the bios and the
\* rest of the pass will give back is held.
EnoughHeld ==
  \A f \in Frames :
    refs[f] >= Holds(chain \o bio, f) + Cardinality({k \in j + 1 .. Len(pages) : pages[k] = f})

THEOREM NoPageGivenBackTwice == Spec => []EnoughHeld
<1>1. BInv => EnoughHeld
  <2> SUFFICES ASSUME BInv, NEW f \in Frames
               PROVE  refs[f] >= Holds(chain \o bio, f)
                                 + Cardinality({k \in j + 1 .. Len(pages) : pages[k] = f})
    BY DEF EnoughHeld
  <2>1. Holds(chain \o bio, f) = Holds(chain, f) + Holds(bio, f)
    BY BothHold DEF BInv
  <2> QED
    BY <2>1 DEF BInv, HoldInv, InPass
<1> QED
  BY <1>1, BioInvariance, PTL

\* The bios follow the user's vector without a gap or an overlap, and each mapped one is
\* the units of the user it claims to be.
THEOREM BiosFollowVector == Spec => []ImageInOrder
<1>1. ASSUME BInv PROVE ImageInOrder
  <2> DEFINE s == chain \o bio
  <2>1. TypeOK /\ PlaceInv /\ CursorInv /\ DataInv /\ chain \in Seq(Bio)
    BY <1>1 DEF BInv, TypeOK
  <2>2. \A i \in DOMAIN chain : /\ chain[i].start = UnitsOf(chain, i - 1)
                                /\ chain[i].kind # "copied" => IsImage(chain[i])
    BY <2>1 DEF DataInv
  <2>3. Len(chain) \in Nat /\ DOMAIN chain = 1 .. Len(chain) /\ ChainUnits(chain) \in Nat
    BY <2>1, ChainFacts
  <2>4. CASE pc \in Filling
    <3> DEFINE b == bio[1]
    <3>1. b \in Bio /\ bio = <<b>>
      BY <2>1, <2>4, TheBio
    <3>2. /\ b.kind = (IF copy THEN "copied" ELSE "pinned") /\ b.start = ChainUnits(chain)
          /\ copy \/ IsImage(b)
      BY <2>1, <2>4 DEF CursorInv, DataInv
    <3>3. pc = "append" => pos = b.start + BioUnits(b)
      <4>1. pc = "append" => bytes = 0 /\ pos - bytes = b.start + BioUnits(b) /\ pos \in 0 .. Total
        BY <2>1 DEF CursorInv, PlaceInv, TypeOK
      <4>2. Total \in Nat
        BY <2>1, TotalNat
      <4> QED
        BY <4>1, <4>2
    <3> HIDE DEF b
    <3>4. s = Append(chain, b)
      BY <2>1, <3>1, OneBio
    <3> HIDE DEF s
    <3>5. /\ s \in Seq(Bio) /\ Len(s) = Len(chain) + 1 /\ s[Len(chain) + 1] = b
          /\ \A i \in DOMAIN chain : s[i] = chain[i]
          /\ \A i \in 0 .. Len(chain) : UnitsOf(s, i) = UnitsOf(chain, i)
          /\ ChainUnits(s) = ChainUnits(chain) + BioUnits(b)
      BY <2>1, <3>1, <3>4, ChainAppend
    <3>6. DOMAIN s = 1 .. Len(chain) + 1
      BY <3>5
    <3>7. ASSUME NEW i \in DOMAIN s
          PROVE  s[i].start = UnitsOf(s, i - 1) /\ (s[i].kind # "copied" => IsImage(s[i]))
      <4>1. CASE i \in DOMAIN chain
        <5>1. i - 1 \in 0 .. Len(chain)
          BY <2>3, <4>1
        <5> QED
          BY <2>2, <3>5, <4>1, <5>1
      <4>2. CASE i = Len(chain) + 1
        <5>1. i - 1 = Len(chain) /\ i - 1 \in 0 .. Len(chain)
          BY <2>3, <4>2
        <5>2. UnitsOf(s, i - 1) = ChainUnits(chain)
          BY <3>5, <5>1 DEF ChainUnits
        <5> QED
          BY <3>2, <3>5, <4>2, <5>2
      <4> QED
        BY <2>3, <3>6, <4>1, <4>2
    <3>8. pc \in {"alloc", "append", "mapped"} => pos = ChainUnits(s)
      BY <2>4, <3>2, <3>3, <3>5 DEF Filling
    <3> QED
      BY <3>7, <3>8 DEF ImageInOrder, s
  <2>5. CASE pc \notin Filling
    <3>1. chain \o bio = chain
      BY <2>1, <2>5 DEF PlaceInv
    <3>2. pc \in {"alloc", "append", "mapped"} => pos = ChainUnits(chain)
      BY <2>1, <2>5 DEF CursorInv, Filling
    <3> QED
      BY <2>2, <3>1, <3>2 DEF ImageInOrder
  <2> QED
    BY <2>4, <2>5
<1> QED
  BY <1>1, BioInvariance, PTL

\* The request stays within the limits of its queue, whatever they are, and has no empty bio.
THEOREM BiosWithinLimits == Spec => []WithinLimits
<1>1. BInv => WithinLimits
  BY DEF BInv, LimitInv, LegalVecs, WithinLimits
<1> QED
  BY <1>1, BioInvariance, PTL

-----------------------------------------------------------------------------
(* The refinement                                                          *)

Holding == {f \in Frames : refs[f] # 0}

\* Between two calls nothing is held and no bio is left.
LEMMA IdleHoldsNothing ==
  BInv /\ VirtBoundary => Total \in Nat /\ (pc = "idle" => ChainUnits(chain) = 0 /\ Holding = {})
<1> SUFFICES ASSUME BInv, VirtBoundary, pc = "idle"
             PROVE  ChainUnits(chain) = 0 /\ Holding = {}
  BY TotalNat DEF BInv
<1>1. chain = <<>> /\ bio = <<>> /\ pages = <<>> /\ j = 0
  BY DEF BInv, PlaceInv, Filling
<1>2. ChainUnits(chain) = 0 /\ \A f : Holds(chain, f) = 0 /\ Holds(bio, f) = 0 /\ InPass(f) = 0
  BY <1>1, NoBios, NoneInPass
<1>3. \A f \in Frames : refs[f] = 0
  BY <1>2 DEF BInv, HoldInv
<1> QED
  BY <1>1, <1>2, <1>3 DEF Holding

\* What a step does to the place in the call and to what the caller of it sees.
LEMMA Moves ==
  ASSUME BInv, Next
  PROVE  \/ pc = "idle" /\ pc' \notin {"idle", "mapped"} /\ UNCHANGED <<chain, refs>>
         \/ pc \notin {"idle", "mapped"} /\ pc' \notin {"idle", "mapped"} /\ UNCHANGED vec
         \/ pc \notin {"idle", "mapped"} /\ pc' = "mapped" /\ UNCHANGED <<vec, refs>>
         \/ pc \notin {"idle", "mapped"} /\ pc' = "idle" /\ UNCHANGED vec
         \/ pc = "mapped" /\ pc' = "idle" /\ UNCHANGED vec
<1> USE DEF request, pass
<1>1. CASE \E v \in Vectors, o \in {"READ", "WRITE"} : Map(v, o)
  BY <1>1 DEF Map
<1>2. CASE AllocBio
  BY <1>2 DEF AllocBio
<1>3. CASE NoBio \/ DropBio \/ UnmapRq \/ UnmapUser
  BY <1>3 DEF NoBio, DropBio, UnmapRq, UnmapUser
<1>4. CASE AppendBio
  BY <1>4 DEF AppendBio
<1>5. CASE PinPages
  <2>1. pc = "pin" /\ pc' = "add" /\ UNCHANGED vec
    BY <1>5 DEF PinPages
  <2> QED
    BY <2>1
<1>6. CASE PinFails \/ AllAdded \/ NoPage \/ AllCopied
  BY <1>6 DEF PinFails, AllAdded, NoPage, AllCopied
<1>7. CASE AddPage
  BY <1>7 DEF AddPage
<1>8. CASE ReleaseRest
  <2>1. pc = "release" /\ pc' \in {"append", "pin"} /\ UNCHANGED vec
    BY <1>8 DEF ReleaseRest
  <2> QED
    BY <2>1
<1>9. CASE CopyPage
  <2>1. pc = "copy_page" /\ (pc' = "fill" \/ pc' = pc) /\ UNCHANGED vec
    BY <1>9 DEF CopyPage
  <2> QED
    BY <2>1
<1>10. CASE FillBio
  BY <1>10 DEF FillBio
<1>11. CASE MapBvecs \/ RefuseBvecs
  <2>1. /\ pc = "bvec" /\ UNCHANGED vec
        /\ pc' \in {"undefined", "idle"} \/ (pc' = "mapped" /\ UNCHANGED refs)
    BY <1>11 DEF MapBvecs, RefuseBvecs
  <2> QED
    BY <2>1
<1> QED
  BY <1>1, <1>2, <1>3, <1>4, <1>5, <1>6, <1>7, <1>8, <1>9, <1>10, <1>11 DEF Next

LEMMA InitRefines ==
  ASSUME Init
  PROVE  MB!Init
<1>1. ChainUnits(chain) = 0 /\ {f \in Frames : refs[f] # 0} = {} /\ Total = 0 /\ pc = "idle"
  BY NoBios DEF Init, Total
<1> QED
  BY <1>1 DEF MB!Init, MB!Nothing

LEMMA StepRefines ==
  ASSUME VirtBoundary, BInv, BInv', [Next]_vars
  PROVE  [MB!Next]_(MB!vars)
<1> USE DEF request, pass
<1>1. Total \in Nat /\ Total' \in Nat
  <2>1. (BInv /\ VirtBoundary => Total \in Nat /\ (pc = "idle" => ChainUnits(chain) = 0 /\ Holding = {}))'
    BY IdleHoldsNothing, PTL
  <2> QED
    BY <2>1, IdleHoldsNothing
<1>2. ChainUnits(chain)' <= Total' /\ (pc' = "mapped" => ChainUnits(chain)' = Total')
  BY DEF BInv, CursorInv
<1>3. pc' = "idle" => ChainUnits(chain)' = 0 /\ Holding' = {}
  <2>1. (BInv /\ VirtBoundary => Total \in Nat /\ (pc = "idle" => ChainUnits(chain) = 0 /\ Holding = {}))'
    BY IdleHoldsNothing, PTL
  <2> QED
    BY <2>1
<1>4. CASE UNCHANGED vars
  BY <1>4 DEF vars, MB!vars, Total, ChainUnits, UnitsOf
<1>5. CASE pc = "idle" /\ pc' \notin {"idle", "mapped"} /\ UNCHANGED <<chain, refs>>
  <2>1. ChainUnits(chain)' = ChainUnits(chain) /\ {f \in Frames : refs[f] # 0}' = {f \in Frames : refs[f] # 0}
    BY <1>5
  <2> QED
    BY <1>1, <1>5, <2>1 DEF MB!Next, MB!Begin
<1>6. CASE pc \notin {"idle", "mapped"} /\ pc' \notin {"idle", "mapped"} /\ UNCHANGED vec
  <2>1. Total' = Total
    BY <1>6 DEF Total
  <2> QED
    BY <1>2, <1>6, <2>1 DEF MB!Next, MB!Work
<1>7. CASE pc \notin {"idle", "mapped"} /\ pc' = "mapped" /\ UNCHANGED <<vec, refs>>
  <2>1. Total' = Total
    BY <1>7 DEF Total
  <2> QED
    BY <1>2, <1>7, <2>1 DEF MB!Next, MB!Succeed
<1>8. CASE pc \notin {"idle", "mapped"} /\ pc' = "idle" /\ UNCHANGED vec
  <2>1. Total' = Total
    BY <1>8 DEF Total
  <2> QED
    BY <1>3, <1>8, <2>1 DEF MB!Next, MB!GiveUp, MB!Nothing, Holding
<1>9. CASE pc = "mapped" /\ pc' = "idle" /\ UNCHANGED vec
  <2>1. Total' = Total
    BY <1>9 DEF Total
  <2> QED
    BY <1>3, <1>9, <2>1 DEF MB!Next, MB!Release, MB!Nothing, Holding
<1> QED
  BY <1>4, <1>5, <1>6, <1>7, <1>8, <1>9, Moves

\* On a queue that refuses gaps the call maps the whole vector or fails and holds nothing,
\* and unmapping gives everything back.
THEOREM MappingRefinement == VirtBoundary => (Spec => RefinesMappedBuffer)
<1> SUFFICES ASSUME VirtBoundary PROVE Spec => RefinesMappedBuffer
  OBVIOUS
<1>1. Init => MB!Init
  BY InitRefines
<1>2. BInv /\ BInv' /\ [Next]_vars => [MB!Next]_(MB!vars)
  BY StepRefines
<1> QED
  BY <1>1, <1>2, BioInvariance, PTL DEF Spec, RefinesMappedBuffer, MB!Spec
=============================================================================
