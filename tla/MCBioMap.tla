------------------------------- MODULE MCBioMap -------------------------------
(* A small instance of BioMap for TLC. *)
EXTENDS BioMap

\* Four pages of two units, next to each other in memory; the boundary of
\* segments lies behind the first.
FourPages == [p \in 0 .. 3 |-> 10 + p]

\* A vector of segments, each from one address to another.
Vector(segs, isAligned) ==
  LET units == [s \in DOMAIN segs |-> [k \in 1 .. segs[s][2] - segs[s][1] + 1 |-> segs[s][1] + k - 1]]
      lens == [s \in DOMAIN segs |-> Len(FlattenSeq(SubSeq(units, 1, s)))]
  IN  [addr |-> FlattenSeq(units), ends |-> {lens[s] : s \in DOMAIN segs}, aligned |-> isAligned,
       fixed |-> FALSE, whole |-> TRUE]

\* A registered buffer: from one address to another.
Registered(s, isAligned, isWhole) ==
  [Vector(<<s>>, isAligned) EXCEPT !.fixed = TRUE, !.whole = isWhole]

Segments == {s \in (0 .. 7) \X (0 .. 7) : s[1] <= s[2]}

\* Every buffer of one segment, every vector of two of which the second is one of
\* a few, and vectors that meet the limits in yet another way.
SomeVectors ==
  {Vector(<<>>, TRUE)}
  \union {Vector(<<s>>, isAligned) : s \in Segments, isAligned \in BOOLEAN}
  \union {Vector(<<s, t>>, TRUE) : s \in Segments, t \in {<<0, 7>>, <<2, 3>>, <<4, 6>>, <<6, 7>>}}
  \union {Vector(<< <<4, 5>>, <<0, 1>>, <<6, 7>>, <<2, 3>> >>, TRUE),   \* four pages apart
          Vector(<< <<0, 1>>, <<0, 1>>, <<0, 3>> >>, TRUE),             \* one page thrice
          Vector(<< <<0, 2>>, <<3, 4>> >>, TRUE)}                       \* the parts of a page
  \union {Registered(s, a, w) : s \in Segments, a \in BOOLEAN, w \in BOOLEAN}
===============================================================================
