----------------------------- MODULE CompressProofs ----------------------------
(* Levels 0 to 10 of the compressors, for every input, window and hash: what *)
(* they write decodes to the input, what levels 0 to 8 emit at a time is a   *)
(* match that repeats what is before it, no level hashes past the input, the *)
(* parse of levels 4 to 8 writes true matches, in order, and goes forward,   *)
(* whatever the search finds, which the hash chains serve, and the tree of   *)
(* levels 9 and 10 leads only to true matches, of which their parse pays for *)
(* what it writes. In the end the same of all in one.                        *)
EXTENDS BlockEncode, FiniteSetTheorems, SequenceTheorems, TLAPS, WellFoundedInduction

USE ParameterAssumption, ChainAssumption DEF ParameterAssumption, ChainAssumption

--------------------------------------------------------------------------------
(* An input has a length.                                                    *)
LEMMA InputLen == \A s \in Inputs : Len(s) \in Nat
BY InputAssumption DEF InputAssumption

(* A set of numbers that is not empty has a least one.                       *)
LEMMA LeastNat ==
  ASSUME NEW T, T \subseteq Nat, T # {}
  PROVE  \E x \in T : \A y \in T : ~(y < x)
<1>1. PICK R : IsWellFoundedOn(R, Nat) /\ R = {p \in Nat \X Nat : p[1] < p[2]}
  BY NatLessThanWellFounded, Zenon DEF OpToRel
<1>2. PICK x \in T : \A y \in T : ~(<<y, x>> \in R)
  BY <1>1, WFMin
<1> QED
  BY <1>1, <1>2

(* One that is bounded has a greatest.                                       *)
LEMMA MaxIs ==
  ASSUME NEW b \in Int, NEW S, S \subseteq 0 .. b, S # {}
  PROVE  MaxOf(S) \in S /\ \A y \in S : y <= MaxOf(S)
<1> DEFINE T == {k \in Nat : b - k \in S}
<1>1. PICK y \in S : TRUE
  OBVIOUS
<1>2. b - y \in T
  <2>1. b - y \in Nat /\ b - (b - y) = y
    BY <1>1
  <2> QED
    BY <2>1
<1>3. PICK k \in T : \A j \in T : ~(j < k)
  <2>1. T \subseteq Nat /\ T # {}
    BY <1>2
  <2> HIDE DEF T
  <2> QED
    BY <2>1, LeastNat
<1>4. b - k \in S /\ k \in Nat
  BY <1>3
<1>5. \A z \in S : z <= b - k
  <2> SUFFICES ASSUME NEW z \in S PROVE z <= b - k
    OBVIOUS
  <2>1. b - z \in Nat /\ b - (b - z) = z /\ z \in Int
    OBVIOUS
  <2>2. b - z \in T
    BY <2>1
  <2>3. ~(b - z < k)
    BY <1>3, <2>2
  <2> QED
    BY <1>4, <2>1, <2>3
<1> QED
  BY <1>4, <1>5 DEF MaxOf

(* What is compared for equality in three pieces is equal.                   *)
LEMMA SameJoined ==
  ASSUME NEW p \in Int, NEW r \in Int, NEW k \in Nat, NEW ln \in Nat, NEW j \in Nat,
         SameBytes(p - k, r - k, k), SameBytes(r, p, ln), SameBytes(p + ln, r + ln, j)
  PROVE  SameBytes(p - k, r - k, k + ln + j)
<1> SUFFICES ASSUME NEW ix \in 0 .. k + ln + j - 1
             PROVE  At(p - k + ix) = At(r - k + ix)
  BY DEF SameBytes
<1>1. CASE ix < k
  <2>1. ix \in 0 .. k - 1
    BY <1>1
  <2> QED
    BY <2>1 DEF SameBytes
<1>2. CASE ix >= k /\ ix < k + ln
  <2>1. ix - k \in 0 .. ln - 1 /\ p - k + ix = p + (ix - k) /\ r - k + ix = r + (ix - k)
    BY <1>2
  <2>2. At(r + (ix - k)) = At(p + (ix - k))
    BY <2>1 DEF SameBytes
  <2> QED
    BY <2>1, <2>2
<1>3. CASE ix >= k + ln
  <2>1. /\ ix - k - ln \in 0 .. j - 1
        /\ p - k + ix = p + ln + (ix - k - ln) /\ r - k + ix = r + ln + (ix - k - ln)
    BY <1>3
  <2>2. At(p + ln + (ix - k - ln)) = At(r + ln + (ix - k - ln))
    BY <2>1 DEF SameBytes
  <2> QED
    BY <2>1, <2>2
<1> QED
  BY <1>1, <1>2, <1>3

(* count_match: the bytes it counts are the same, and inside the input.      *)
LEMMA CountMatchIs ==
  ASSUME n \in Nat, NEW a \in Nat, a <= n, NEW b \in Nat
  PROVE  CountMatch(a, b) \in 0 .. n - a /\ SameBytes(a, b, CountMatch(a, b))
<1> DEFINE S == {k \in 0 .. n - a : SameBytes(a, b, k)}
<1>1. SameBytes(a, b, 0) /\ 0 \in 0 .. n - a /\ n - a \in Int
  BY DEF SameBytes
<1>2. S # {} /\ S \subseteq 0 .. n - a
  BY <1>1
<1>3. MaxOf(S) \in S
  <2> HIDE DEF S
  <2> QED
    BY <1>1, <1>2, MaxIs
<1> QED
  BY <1>3 DEF CountMatch

LEMMA CountBackIs ==
  ASSUME NEW p \in Nat, NEW r \in Nat, NEW low \in Nat, low <= p
  PROVE  /\ CountBack(p, r, low) \in 0 .. r /\ p - CountBack(p, r, low) >= low
         /\ SameBytes(p - CountBack(p, r, low), r - CountBack(p, r, low), CountBack(p, r, low))
<1> DEFINE S == {k \in 0 .. r : p - k >= low /\ SameBytes(p - k, r - k, k)}
<1>1. SameBytes(p - 0, r - 0, 0) /\ 0 \in 0 .. r /\ p - 0 >= low
  BY DEF SameBytes
<1>2. S # {} /\ S \subseteq 0 .. r
  BY <1>1
<1>3. MaxOf(S) \in S
  <2> HIDE DEF S
  <2>1. r \in Int
    OBVIOUS
  <2> QED
    BY ONLY <1>2, <2>1, MaxIs
<1> QED
  BY <1>3 DEF CountBack

LEMMA StoredIs == \A q \in Int : Stored(q) \in 0 .. Window - 1
BY SearchAssumption DEF SearchAssumption, Stored

(* A hash is an index of the tables.                                         *)
LEMMA HashLongIs ==
  ASSUME src \in Inputs, NEW ix \in Nat, ix + HashBytes <= n
  PROVE  HashLong(ix) \in Buckets
<1>1. ix \in 0 .. Len(src) - HashBytes /\ HashBytes \in {MinMatch, HashBytes}
  BY InputLen, EmitAssumption DEF EmitAssumption, n
<1> QED
  BY <1>1, HashAssumption DEF HashAssumption, HashLong, Bytes

LEMMA HashIs ==
  ASSUME src \in Inputs, NEW ix \in Nat, ix + MinMatch <= n
  PROVE  HashShort(ix) \in Buckets
<1>1. ix \in 0 .. Len(src) - MinMatch /\ MinMatch \in {MinMatch, HashBytes}
  BY InputLen DEF n
<1> QED
  BY <1>1, HashAssumption DEF HashAssumption, HashShort, Bytes

(* What levels 0 to 3 take: ln bytes at p repeat those at r.                 *)
Repeated(p, r, ln) ==
  /\ p \in Nat /\ r \in Nat /\ ln \in Nat
  /\ r < p /\ p - r <= Window /\ ln >= MinMatch /\ p + ln <= n
  /\ SameBytes(p, r, ln)

LEMMA SameSym == \A p, r, k : SameBytes(p, r, k) <=> SameBytes(r, p, k)
BY DEF SameBytes

LEMMA Shorter ==
  ASSUME n \in Nat, NEW p, NEW r, NEW ln, Repeated(p, r, ln)
  PROVE  Repeated(p, r, MinMatch)
<1>1. \A k \in 0 .. MinMatch - 1 : k \in 0 .. ln - 1
  BY DEF Repeated
<1>2. SameBytes(p, r, MinMatch)
  BY <1>1 DEF Repeated, SameBytes
<1> QED
  BY <1>2 DEF Repeated

(* count_match: a match goes on as far as the bytes are the same.            *)
LEMMA Extended ==
  ASSUME n \in Nat, NEW p, NEW r, Repeated(p, r, MinMatch)
  PROVE  Repeated(p, r, MinMatch + CountMatch(p + MinMatch, r + MinMatch))
<1>1. p \in Nat /\ r \in Nat /\ r < p /\ p - r <= Window /\ p + MinMatch <= n
  BY DEF Repeated
<1>2. PICK a \in Nat, b \in Nat : a = p + MinMatch /\ b = r + MinMatch
  BY <1>1
<1>3. a <= n
  BY <1>1, <1>2
<1>4. CountMatch(a, b) \in 0 .. n - a /\ SameBytes(a, b, CountMatch(a, b))
  BY ONLY n \in Nat, a \in Nat, b \in Nat, <1>3, CountMatchIs
<1>5. PICK j \in Nat : j = CountMatch(a, b)
  BY <1>1, <1>4
<1>6. SameBytes(p - 0, r - 0, 0 + MinMatch + j)
  <2>1. SameBytes(p - 0, r - 0, 0)
    BY DEF SameBytes
  <2>2. SameBytes(r, p, MinMatch)
    BY SameSym DEF Repeated
  <2>3. SameBytes(p + MinMatch, r + MinMatch, j)
    BY <1>2, <1>4, <1>5
  <2>4. p \in Int /\ r \in Int /\ 0 \in Nat /\ MinMatch \in Nat
    BY <1>1
  <2> QED
    BY ONLY <2>1, <2>2, <2>3, <2>4, j \in Nat, SameJoined
<1>7. p - 0 = p /\ r - 0 = r /\ 0 + MinMatch + j = MinMatch + j
  BY <1>1
<1>8. p + (MinMatch + j) <= n
  BY <1>1, <1>2, <1>4, <1>5
<1> QED
  BY <1>1, <1>2, <1>5, <1>6, <1>7, <1>8 DEF Repeated

(* A match is extended back.                                                 *)
BackOf(p, r, ln, low, k) ==
  k \in 0 .. r /\ p - k >= low /\ Repeated(p - k, r - k, ln + k)

LEMMA ExtendedBack ==
  ASSUME NEW p, NEW r, NEW ln, NEW low \in Nat, low <= p, Repeated(p, r, ln)
  PROVE  BackOf(p, r, ln, low, CountBack(p, r, low))
<1>1. p \in Nat /\ r \in Nat /\ ln \in Nat /\ r < p /\ p - r <= Window
      /\ ln >= MinMatch /\ p + ln <= n /\ SameBytes(p, r, ln)
  BY DEF Repeated
<1>2. PICK k : k = CountBack(p, r, low)
  OBVIOUS
<1>3. k \in 0 .. r /\ p - k >= low /\ SameBytes(p - k, r - k, k)
  BY ONLY <1>1, low \in Nat, low <= p, <1>2, CountBackIs
<1>4. SameBytes(p - k, r - k, k + ln + 0)
  <2>1. SameBytes(r, p, ln) /\ SameBytes(p + ln, r + ln, 0)
    BY <1>1, SameSym DEF SameBytes
  <2>2. p \in Int /\ r \in Int /\ 0 \in Nat /\ ln \in Nat /\ k \in Nat
    BY <1>1, <1>3
  <2> QED
    BY ONLY <1>3, <2>1, <2>2, SameJoined
<1>5. k + ln + 0 = ln + k /\ p - k \in Nat /\ r - k \in Nat /\ ln + k \in Nat
      /\ r - k < p - k /\ p - k - (r - k) <= Window /\ ln + k >= MinMatch
      /\ p - k + (ln + k) = p + ln
  BY <1>1, <1>3
<1> QED
  BY <1>1, <1>2, <1>3, <1>4, <1>5 DEF Repeated, BackOf

(* The distance to what a hash table holds is one a sequence can have.       *)
LEMMA FastDistIs ==
  ASSUME NEW p \in Int, NEW s \in Int
  PROVE  FastDist(p, s) \in 1 .. Window
<1>1. (p - s) % Window \in 0 .. Window - 1
  BY SearchAssumption DEF SearchAssumption
<1> QED
  BY <1>1, SearchAssumption DEF FastDist, SearchAssumption

(* Up to the limit there is enough to hash, of the next position too.        *)
LEMMA InsideLimit ==
  ASSUME src \in Inputs, NEW ix \in Int, ix <= Limit
  PROVE  ix + HashBytes <= n /\ ix + MinMatch <= n /\ ix + HashRead + 1 <= n
BY InputLen, EmitAssumption DEF EmitAssumption, n, Limit

LEMMA FurtherIs == \A a, b, c \in Int : a <= c /\ b <= c => Further(a, b) \in Int /\ Further(a, b) <= c
BY DEF Further

(* A table, after a position is put in it.                                   *)
LEMMA PutIs ==
  ASSUME NEW t \in [Buckets -> Int], NEW h, NEW p \in Int
  PROVE  [t EXCEPT ![h] = Stored(p)] \in [Buckets -> Int]
<1>1. Stored(p) \in Int
  BY StoredIs
<1> QED
  BY <1>1

(* A step that emits a match that repeats.                                   *)
LEMMA EmitsOneIs ==
  ASSUME anchor \in Nat, NEW p, NEW r, NEW ln, Repeated(p, r, ln), anchor <= p,
         anchor' = p + ln, out' = EmitSequence(out, anchor, p, p - r, ln), n \in Nat
  PROVE  EmitsOne
<1>1. p \in Nat /\ r \in Nat /\ ln \in Nat /\ r < p /\ p - r <= Window
      /\ ln >= MinMatch /\ p + ln <= n /\ SameBytes(p, r, ln)
  BY DEF Repeated
<1>2. anchor' <= n /\ p \in anchor .. anchor' - MinMatch /\ p - r \in 1 .. p
      /\ anchor' - p = ln /\ p - (p - r) = r
  BY <1>1
<1>3. SameBytes(p, p - (p - r), anchor' - p)
      /\ out' = EmitSequence(out, anchor, p, p - r, anchor' - p)
  BY <1>1, <1>2
<1> QED
  BY <1>1, <1>2, <1>3 DEF EmitsOne

--------------------------------------------------------------------------------
(* Reading back a sequence of control bytes.                                 *)

(* Quotient and remainder.                                                    *)
LEMMA Quotient ==
  ASSUME NEW d \in Nat, d >= 1, NEW x \in Nat
  PROVE  x % d \in 0 .. d - 1 /\ x = d * (x \div d) + (x % d) /\ x \div d \in Nat
OBVIOUS

(* The numbers of the format, and that LzBlock's are the same.                *)
LEMMA BaseIs ==
  /\ Base \in Nat /\ Base >= 2 /\ ExactLL \in Nat /\ ExactM \in Nat
  /\ EscML \in Nat /\ EscLL = EscML + ExactLL + 1 /\ EscBoth = EscLL + ExactM + 1
  /\ Base = EscBoth
  /\ \A c \in 1 .. EscML : ExactPairs[c] \in (0 .. ExactLL) \X (0 .. ExactM)
  /\ Lz!EscML = EscML /\ Lz!EscLL = EscLL /\ Lz!EscBoth = EscBoth
<1>1. EscML \in Nat /\ \A c \in 1 .. EscML : ExactPairs[c] \in (0 .. ExactLL) \X (0 .. ExactM)
  BY TokenAssumption DEF TokenAssumption, EscML
<1>2. Lz!EscML = EscML /\ Lz!EscLL = EscLL /\ Lz!EscBoth = EscBoth
  BY DEF Lz!EscML, EscML, Lz!EscLL, EscLL, Lz!EscBoth, EscBoth
<1> QED
  BY <1>1, <1>2, TokenAssumption DEF TokenAssumption, EscLL, EscBoth

(* s is in c after `from` bytes.                                             *)
Holds(c, from, s) ==
  /\ from + Len(s) <= Len(c)
  /\ \A ix \in 1 .. Len(s) : c[from + ix] = s[ix]

(* The bytes of an extension.                                                *)
LEMMA PutExtIs ==
  ASSUME NEW v \in Nat
  PROVE  \E b \in Nat, q \in Nat, r \in Nat :
           /\ b = Base /\ r < b /\ v = b * q + r /\ ExtBytes(v) = q + 1
           /\ PutExt(v) \in Seq(Nat) /\ Len(PutExt(v)) = q + 1
           /\ \A ix \in 1 .. q : PutExt(v)[ix] = b
           /\ PutExt(v)[q + 1] = r
<1>1. PICK b \in Nat : b = Base /\ b >= 1
  BY BaseIs
<1>2. PICK q \in Nat, r \in Nat : q = v \div b /\ r = v % b /\ r < b /\ v = b * q + r
  <2>1. v % b \in 0 .. b - 1 /\ v = b * (v \div b) + (v % b) /\ v \div b \in Nat
    BY ONLY v \in Nat, b \in Nat, <1>1, Quotient
  <2>2. v % b \in Nat /\ v % b < b
    BY ONLY <2>1, b \in Nat
  <2> QED
    BY <2>1, <2>2, Zenon
<1>3. ExtBytes(v) = q + 1
  BY <1>1, <1>2 DEF ExtBytes
<1>4. PutExt(v) = [ix \in 1 .. q + 1 |-> IF ix < q + 1 THEN b ELSE r]
  BY <1>1, <1>2, <1>3 DEF PutExt
<1>5. PICK f : f = PutExt(v)
  OBVIOUS
<1>6. f \in Seq(Nat) /\ Len(f) = q + 1 /\ (\A ix \in 1 .. q : f[ix] = b) /\ f[q + 1] = r
  BY ONLY <1>4, <1>5, b \in Nat, q \in Nat, r \in Nat
<1>7. /\ b = Base /\ r < b /\ v = b * q + r /\ ExtBytes(v) = q + 1
      /\ PutExt(v) \in Seq(Nat) /\ Len(PutExt(v)) = q + 1
      /\ \A ix \in 1 .. q : PutExt(v)[ix] = b
      /\ PutExt(v)[q + 1] = r
  BY <1>1, <1>2, <1>3, <1>5, <1>6, Zenon
<1> QED
  BY <1>7, Zenon

(* An extension is read back.                                                *)
LEMMA ExtRead ==
  ASSUME NEW c, Len(c) \in Nat, NEW from \in Nat, NEW v \in Nat, Holds(c, from, PutExt(v))
  PROVE  /\ Lz!Stops(c, from) # {}
         /\ Lz!ExtLast(c, from) = from + ExtBytes(v)
         /\ Lz!ExtValue(c, from) = v
<1>1. PICK b \in Nat, q \in Nat, r \in Nat :
        /\ b = Base /\ r < b /\ v = b * q + r /\ ExtBytes(v) = q + 1
        /\ PutExt(v) \in Seq(Nat) /\ Len(PutExt(v)) = q + 1
        /\ \A ix \in 1 .. q : PutExt(v)[ix] = b
        /\ PutExt(v)[q + 1] = r
  BY PutExtIs
<1>2. PICK k \in Nat : k = from + (q + 1)
  BY <1>1
<1>3. k <= Len(c) /\ c[k] = r /\ \A ix \in 1 .. q : c[from + ix] = b
  <2>1. q + 1 \in 1 .. q + 1 /\ \A ix \in 1 .. q : ix \in 1 .. q + 1
    BY <1>1
  <2>2. PICK f : f = PutExt(v)
    OBVIOUS
  <2>3. k <= Len(c) /\ \A ix \in 1 .. q + 1 : c[from + ix] = f[ix]
    BY <1>1, <1>2, <2>2 DEF Holds
  <2> QED
    BY <1>1, <1>2, <2>1, <2>2, <2>3
<1>4. k \in Lz!Stops(c, from)
  <2>1. k \in from + 1 .. Len(c) /\ c[k] # Base
    BY <1>1, <1>2, <1>3
  <2> QED
    BY <2>1 DEF Lz!Stops
<1>5. ASSUME NEW j \in Lz!Stops(c, from) PROVE j \in Int /\ k <= j
  <2>1. j \in from + 1 .. Len(c) /\ c[j] # b
    BY <1>1 DEF Lz!Stops
  <2>2. CASE j < k
    <3>1. j - from \in 1 .. q /\ from + (j - from) = j
      BY <1>1, <1>2, <2>1, <2>2
    <3>2. c[from + (j - from)] = b
      BY <1>3, <3>1
    <3> QED
      BY <2>1, <3>1, <3>2
  <2> QED
    BY <2>1, <2>2, <1>2
<1>6. Lz!ExtLast(c, from) = k
  <2>1. \A x \in Lz!Stops(c, from) : (\A y \in Lz!Stops(c, from) : x <= y) <=> x = k
    BY <1>2, <1>4, <1>5
  <2> QED
    BY <1>4, <2>1 DEF Lz!ExtLast
<1>7. Lz!ExtValue(c, from) = b * q + r
  <2>1. k - from - 1 = q
    BY <1>1, <1>2
  <2> QED
    BY <1>1, <1>3, <1>6, <2>1 DEF Lz!ExtValue
<1> QED
  BY <1>1, <1>2, <1>4, <1>6, <1>7

Joined(j, s, t) == j = s \o t

(* What holds two sequences one after the other holds each.                  *)
LEMMA HoldsJoined ==
  ASSUME NEW c, Len(c) \in Nat, NEW from \in Nat, NEW s \in Seq(Nat), NEW t \in Seq(Nat),
         NEW j, Joined(j, s, t), Holds(c, from, j)
  PROVE  Holds(c, from, s) /\ Holds(c, from + Len(s), t) /\ Len(j) = Len(s) + Len(t)
<1>2. PICK a \in Nat, b \in Nat : a = Len(s) /\ b = Len(t)
  OBVIOUS
<1>3. /\ Len(j) = a + b
      /\ \A ix \in 1 .. a + b : j[ix] = IF ix <= a THEN s[ix] ELSE t[ix - a]
  BY <1>2, ConcatProperties DEF Joined
<1>4. from + (a + b) <= Len(c) /\ \A ix \in 1 .. a + b : c[from + ix] = j[ix]
  BY <1>2, <1>3 DEF Holds
<1>5. ASSUME NEW ix \in 1 .. a PROVE c[from + ix] = s[ix]
  <2>1. ix \in 1 .. a + b /\ ix <= a
    BY <1>2
  <2> QED
    BY <2>1, <1>3, <1>4
<1>6. ASSUME NEW ix \in 1 .. b PROVE c[(from + a) + ix] = t[ix]
  <2>1. a + ix \in 1 .. a + b /\ ~(a + ix <= a) /\ (a + ix) - a = ix /\ from + (a + ix) = (from + a) + ix
    BY <1>2
  <2> QED
    BY <2>1, <1>3, <1>4
<1> QED
  BY <1>2, <1>3, <1>4, <1>5, <1>6 DEF Holds

(* A distance goes into two bytes and comes out of them.                     *)
LEMMA TwoBytes ==
  ASSUME NEW b \in Nat, b >= 1, NEW x \in Nat, x < b * b
  PROVE  (x % b) + b * ((x \div b) % b) = x /\ x % b \in Nat /\ (x \div b) % b \in Nat
<1>1. x % b \in 0 .. b - 1 /\ x = b * (x \div b) + (x % b) /\ x \div b \in Nat
  BY ONLY b \in Nat, b >= 1, x \in Nat, Quotient
<1>2. PICK q \in Nat, r \in Nat : q = x \div b /\ r = x % b /\ x = b * q + r
  <2>1. x % b \in Nat
    BY ONLY <1>1, b \in Nat
  <2> QED
    BY ONLY <1>1, <2>1, Zenon
<1>3. q < b
  <2> SUFFICES ASSUME q >= b PROVE FALSE
    OBVIOUS
  <2>1. b * q >= b * b
    BY ONLY q >= b, q \in Nat, b \in Nat
  <2>2. b * q \in Int /\ b * b \in Int
    BY ONLY q \in Nat, b \in Nat
  <2> QED
    BY ONLY <2>1, <2>2, <1>2, r \in Nat, x < b * b, x \in Nat
<1>4. q % b = q
  BY ONLY <1>3, q \in Nat, b \in Nat
<1> QED
  BY ONLY <1>2, <1>4, q \in Nat, r \in Nat, b \in Nat, x \in Nat

(* The token of a sequence, and what it goes on with.                        *)
TokenOf(t, e, l, m) ==
  \/ e = <<>> /\ Lz!Token(t) = [ll |-> l, ml |-> MinMatch + m, llx |-> FALSE, mlx |-> FALSE]
  \/ e = PutExt(m) /\ Lz!Token(t) = [ll |-> l, ml |-> MinMatch, llx |-> FALSE, mlx |-> TRUE]
  \/ e = PutExt(l) /\ Lz!Token(t) = [ll |-> 0, ml |-> MinMatch + m, llx |-> TRUE, mlx |-> FALSE]
  \/ /\ e = PutExt(l) \o PutExt(m)
     /\ Lz!Token(t) = [ll |-> 0, ml |-> MinMatch, llx |-> TRUE, mlx |-> TRUE]

(* Every pair of lengths has a token that stands for it.                      *)
LEMMA TokenIs ==
  ASSUME NEW l \in Nat, NEW m \in Nat
  PROVE  \E t \in Nat : \E e : TokenAndExt(l, m) = <<t, e>> /\ TokenOf(t, e, l, m)
<1>1. CASE l <= ExactLL /\ ExactCode(l, m) # Base
  <2>1. \E c \in 1 .. EscML : ExactPairs[c] = <<l, m>>
    BY <1>1 DEF ExactCode
  <2> DEFINE c == CHOOSE x \in 1 .. EscML : ExactPairs[x] = <<l, m>>
  <2>2. c \in 1 .. EscML /\ ExactPairs[c] = <<l, m>>
    BY <2>1
  <2>3. ExactCode(l, m) = c - 1
    BY <2>1 DEF ExactCode
  <2> HIDE DEF c
  <2>4. PICK t \in Nat : t = c - 1 /\ t < Lz!EscML /\ ExactPairs[t + 1] = <<l, m>>
    <3>1. c - 1 \in Nat /\ c - 1 < Lz!EscML /\ (c - 1) + 1 = c
      BY <2>2, BaseIs
    <3> QED
      BY <2>2, <3>1
  <2>5. Lz!Token(t) = [ll |-> l, ml |-> MinMatch + m, llx |-> FALSE, mlx |-> FALSE]
    <3>1. ExactPairs[t + 1][1] = l /\ ExactPairs[t + 1][2] = m
      BY <2>4
    <3>2. ~(t \in Lz!EscML .. Lz!EscLL - 1) /\ ~(t \in Lz!EscLL .. Lz!EscBoth - 1)
      BY <2>4, BaseIs
    <3> QED
      BY <2>4, <3>1, <3>2 DEF Lz!Token
  <2>6. TokenAndExt(l, m) = <<t, <<>>>>
    <3>1. ExactCode(l, m) = t
      BY <2>3, <2>4
    <3>2. ~(l > ExactLL)
      BY <1>1, BaseIs
    <3> QED
      BY <1>1, <3>1, <3>2 DEF TokenAndExt
  <2> QED
    BY <2>5, <2>6, Zenon DEF TokenOf
<1>2. CASE l <= ExactLL /\ ExactCode(l, m) = Base
  <2>1. /\ EscML + l \in Nat /\ ~(EscML + l < Lz!EscML) /\ EscML + l \in Lz!EscML .. Lz!EscLL - 1
        /\ (EscML + l) - Lz!EscML = l
    BY <1>2, BaseIs
  <2> DEFINE t == EscML + l
  <2>4. /\ t \in Nat /\ ~(t < Lz!EscML) /\ t \in Lz!EscML .. Lz!EscLL - 1 /\ t - Lz!EscML = l
        /\ ~(t \in Lz!EscLL .. Lz!EscBoth - 1) /\ ~(l > ExactLL)
    BY <1>2, <2>1, BaseIs
  <2>3. TokenAndExt(l, m) = <<t, PutExt(m)>>
    BY <1>2, <2>4 DEF TokenAndExt
  <2> HIDE DEF t
  <2>2. Lz!Token(t) = [ll |-> l, ml |-> MinMatch, llx |-> FALSE, mlx |-> TRUE]
    BY <2>4 DEF Lz!Token
  <2> QED
    BY <2>4, <2>2, <2>3, Zenon DEF TokenOf
<1>3. CASE l > ExactLL /\ m <= ExactM
  <2>1. /\ EscLL + m \in Nat /\ ~(EscLL + m < Lz!EscML) /\ ~(EscLL + m \in Lz!EscML .. Lz!EscLL - 1)
        /\ EscLL + m \in Lz!EscLL .. Lz!EscBoth - 1 /\ (EscLL + m) - Lz!EscLL = m
    BY <1>3, BaseIs
  <2>2. Lz!Token(EscLL + m) = [ll |-> 0, ml |-> MinMatch + m, llx |-> TRUE, mlx |-> FALSE]
    BY <2>1 DEF Lz!Token
  <2>3. ~(l <= ExactLL)
    BY <1>3, BaseIs
  <2>4. TokenAndExt(l, m) = <<EscLL + m, PutExt(l)>>
    BY <1>3, <2>3 DEF TokenAndExt
  <2> QED
    BY <2>1, <2>2, <2>4, Zenon DEF TokenOf
<1>4. CASE l > ExactLL /\ m > ExactM
  <2>1. /\ EscBoth \in Nat /\ ~(EscBoth < Lz!EscML) /\ ~(EscBoth \in Lz!EscML .. Lz!EscLL - 1)
        /\ ~(EscBoth \in Lz!EscLL .. Lz!EscBoth - 1)
    BY BaseIs
  <2>2. Lz!Token(EscBoth) = [ll |-> 0, ml |-> MinMatch, llx |-> TRUE, mlx |-> TRUE]
    BY <2>1 DEF Lz!Token
  <2>3. ~(l <= ExactLL) /\ ~(m <= ExactM)
    BY <1>4, BaseIs
  <2>4. TokenAndExt(l, m) = <<EscBoth, PutExt(l) \o PutExt(m)>>
    BY <2>3 DEF TokenAndExt
  <2> QED
    BY <2>1, <2>2, <2>4, Zenon DEF TokenOf
<1> QED
  BY <1>1, <1>2, <1>3, <1>4, BaseIs

(* How long an extension is.                                                  *)
LEMMA PutExtLen ==
  \A v \in Nat : PutExt(v) \in Seq(Nat) /\ Len(PutExt(v)) = ExtBytes(v) /\ ExtBytes(v) \in Nat
<1> SUFFICES ASSUME NEW v \in Nat
             PROVE  PutExt(v) \in Seq(Nat) /\ Len(PutExt(v)) = ExtBytes(v) /\ ExtBytes(v) \in Nat
  OBVIOUS
<1>1. PICK q \in Nat :
        ExtBytes(v) = q + 1 /\ PutExt(v) \in Seq(Nat) /\ Len(PutExt(v)) = q + 1
  BY PutExtIs
<1> QED
  BY <1>1

ControlForm(l, d, ln, m) ==
  \E t \in Nat, x \in Nat, y \in Nat : \E e \in Seq(Nat) :
    /\ Joined(ControlOf(l, d, ln), <<t, x, y>>, e)
    /\ TokenOf(t, e, l, m)
    /\ x + (Base + 1) * y + 1 = d

(* The first three bytes and the extensions.                                 *)
LEMMA ControlIs ==
  ASSUME NEW l \in Nat, NEW d \in 1 .. Window, NEW ln \in Nat, ln >= MinMatch
  PROVE  ControlForm(l, d, ln, ln - MinMatch)
<1>1. PICK m \in Nat : m = ln - MinMatch
  OBVIOUS
<1>2. PICK t \in Nat : \E f : TokenAndExt(l, m) = <<t, f>> /\ TokenOf(t, f, l, m)
  BY TokenIs
<1>3. PICK e : TokenAndExt(l, m) = <<t, e>> /\ TokenOf(t, e, l, m)
  BY <1>2
<1>4. e \in Seq(Nat)
  <2>1. PutExt(l) \in Seq(Nat) /\ PutExt(m) \in Seq(Nat)
    BY PutExtLen
  <2>2. PutExt(l) \o PutExt(m) \in Seq(Nat)
    BY <2>1, ConcatProperties
  <2>3. <<>> \in Seq(Nat)
    OBVIOUS
  <2> QED
    BY <1>3, <2>1, <2>2, <2>3, Zenon DEF TokenOf
<1>5. PICK b \in Nat, z \in Nat : b = Base + 1 /\ b >= 1 /\ z = d - 1 /\ z < b * b
  BY BaseIs, TokenAssumption DEF TokenAssumption
<1>6. PICK x \in Nat, y \in Nat : x = z % b /\ y = (z \div b) % b /\ x + b * y = z
  BY <1>5, TwoBytes
<1>7. ControlOf(l, d, ln) = <<t, x, y>> \o e
  <2>1. ControlOf(l, d, ln)
          = <<TokenAndExt(l, m)[1], z % b, (z \div b) % b>> \o TokenAndExt(l, m)[2]
    BY <1>1, <1>5, Zenon DEF ControlOf
  <2>2. TokenAndExt(l, m)[1] = t /\ TokenAndExt(l, m)[2] = e
    BY <1>3
  <2> QED
    BY <1>6, <2>1, <2>2, Zenon
<1>8. x + (Base + 1) * y + 1 = d
  BY <1>5, <1>6
<1> QED
  BY <1>1, <1>3, <1>4, <1>7, <1>8, Zenon DEF ControlForm, Joined

ReadBack(c, from, l, d, ln) ==
  /\ Lz!Whole(c, from)
  /\ Lz!Lengths(c, from).ll = l /\ Lz!Lengths(c, from).ml = ln
  /\ Lz!Lengths(c, from).dist = d
  /\ Lz!Lengths(c, from).next = from + Len(ControlOf(l, d, ln))
  /\ ControlOf(l, d, ln) \in Seq(Nat) /\ Len(ControlOf(l, d, ln)) >= 3

(* A sequence is read back.                                                  *)
LEMMA SequenceRead ==
  ASSUME NEW c, Len(c) \in Nat, NEW from \in Nat,
         NEW l \in Nat, NEW d \in 1 .. Window, NEW ln \in Nat, ln >= MinMatch,
         Holds(c, from, ControlOf(l, d, ln))
  PROVE  ReadBack(c, from, l, d, ln)
<1> SUFFICES /\ Lz!Whole(c, from)
             /\ Lz!Lengths(c, from).ll = l /\ Lz!Lengths(c, from).ml = ln
             /\ Lz!Lengths(c, from).dist = d
             /\ Lz!Lengths(c, from).next = from + Len(ControlOf(l, d, ln))
             /\ ControlOf(l, d, ln) \in Seq(Nat) /\ Len(ControlOf(l, d, ln)) >= 3
  BY DEF ReadBack
<1>1. PICK m \in Nat : m = ln - MinMatch /\ MinMatch + m = ln
  OBVIOUS
<1>2. ControlForm(l, d, ln, m)
  BY <1>1, ControlIs
<1>3. PICK t \in Nat, x \in Nat, y \in Nat, e \in Seq(Nat) :
        /\ Joined(ControlOf(l, d, ln), <<t, x, y>>, e)
        /\ TokenOf(t, e, l, m)
        /\ x + (Base + 1) * y + 1 = d
  BY <1>2 DEF ControlForm
<1>4. PICK h \in Seq(Nat) : h = <<t, x, y>> /\ Len(h) = 3 /\ h[1] = t /\ h[2] = x /\ h[3] = y
  <2>1. <<t, x, y>> \in Seq(Nat) /\ Len(<<t, x, y>>) = 3
    OBVIOUS
  <2>2. <<t, x, y>>[1] = t /\ <<t, x, y>>[2] = x /\ <<t, x, y>>[3] = y
    OBVIOUS
  <2> QED
    BY <2>1, <2>2, Zenon
<1>5. /\ Holds(c, from, h) /\ Holds(c, from + 3, e) /\ Len(ControlOf(l, d, ln)) = 3 + Len(e)
      /\ ControlOf(l, d, ln) \in Seq(Nat)
  <2>1. PICK j : j = ControlOf(l, d, ln) /\ Holds(c, from, j) /\ Joined(j, h, e)
    BY <1>3, <1>4
  <2>2. Holds(c, from, h) /\ Holds(c, from + Len(h), e) /\ Len(j) = Len(h) + Len(e)
    BY <2>1, HoldsJoined
  <2>3. j \in Seq(Nat)
    BY <2>1, ConcatProperties DEF Joined
  <2> QED
    BY <1>4, <2>1, <2>2, <2>3
<1>6. PICK g \in Nat : g = from + 3
  OBVIOUS
<1>7. g <= Len(c) /\ c[from + 1] = t /\ Lz!Distance(c, from) = d
  <2>1. from + 3 <= Len(c) /\ c[from + 1] = t /\ c[from + 2] = x /\ c[from + 3] = y
    <3>1. 1 \in 1 .. Len(h) /\ 2 \in 1 .. Len(h) /\ 3 \in 1 .. Len(h)
      BY <1>4
    <3>2. from + Len(h) <= Len(c) /\ \A ix \in 1 .. Len(h) : c[from + ix] = h[ix]
      BY <1>5 DEF Holds
    <3> QED
      BY <1>4, <3>1, <3>2
  <2> QED
    BY <1>3, <1>6, <2>1 DEF Lz!Distance
<1>8. PICK k \in Nat : k = Len(e) /\ Len(ControlOf(l, d, ln)) = 3 + k
  BY <1>5
<1>9. CASE e = <<>> /\ Lz!Token(t) = [ll |-> l, ml |-> MinMatch + m, llx |-> FALSE, mlx |-> FALSE]
  <2>1. k = 0
    BY <1>8, <1>9
  <2>2. Lz!Whole(c, from)
    BY <1>6, <1>7, <1>9 DEF Lz!Whole
  <2>3. Lz!Lengths(c, from) = [ll |-> l + 0, ml |-> MinMatch + m + 0, dist |-> d, next |-> g]
    BY <1>6, <1>7, <1>9 DEF Lz!Lengths
  <2>4. l + 0 = l /\ MinMatch + m + 0 = ln /\ g = from + (3 + k)
    BY <1>1, <1>6, <2>1
  <2> QED
    BY <1>5, <1>8, <2>2, <2>3, <2>4
<1>10. CASE e = PutExt(m) /\ Lz!Token(t) = [ll |-> l, ml |-> MinMatch, llx |-> FALSE, mlx |-> TRUE]
  <2>1. Lz!Stops(c, g) # {} /\ Lz!ExtLast(c, g) = g + ExtBytes(m) /\ Lz!ExtValue(c, g) = m
    BY <1>5, <1>6, <1>10, ExtRead
  <2>2. k = ExtBytes(m)
    BY <1>8, <1>10, PutExtLen
  <2>3. Lz!Whole(c, from)
    BY <1>6, <1>7, <1>10, <2>1 DEF Lz!Whole
  <2>4. Lz!Lengths(c, from) = [ll |-> l + 0, ml |-> MinMatch + m, dist |-> d, next |-> g + k]
    BY <1>6, <1>7, <1>10, <2>1, <2>2 DEF Lz!Lengths
  <2>5. l + 0 = l /\ g + k = from + (3 + k)
    BY <1>6
  <2> QED
    BY <1>1, <1>5, <1>8, <2>3, <2>4, <2>5
<1>11. CASE e = PutExt(l) /\ Lz!Token(t) = [ll |-> 0, ml |-> MinMatch + m, llx |-> TRUE, mlx |-> FALSE]
  <2>1. Lz!Stops(c, g) # {} /\ Lz!ExtLast(c, g) = g + ExtBytes(l) /\ Lz!ExtValue(c, g) = l
    BY <1>5, <1>6, <1>11, ExtRead
  <2>2. k = ExtBytes(l)
    BY <1>8, <1>11, PutExtLen
  <2>3. Lz!Whole(c, from)
    BY <1>6, <1>7, <1>11, <2>1 DEF Lz!Whole
  <2>4. Lz!Lengths(c, from) = [ll |-> 0 + l, ml |-> MinMatch + m + 0, dist |-> d, next |-> g + k]
    BY <1>6, <1>7, <1>11, <2>1, <2>2 DEF Lz!Lengths
  <2>5. 0 + l = l /\ MinMatch + m + 0 = ln /\ g + k = from + (3 + k)
    BY <1>1, <1>6
  <2> QED
    BY <1>5, <1>8, <2>3, <2>4, <2>5
<1>12. CASE /\ e = PutExt(l) \o PutExt(m)
            /\ Lz!Token(t) = [ll |-> 0, ml |-> MinMatch, llx |-> TRUE, mlx |-> TRUE]
  <2>1. /\ PutExt(l) \in Seq(Nat) /\ Len(PutExt(l)) = ExtBytes(l) /\ ExtBytes(l) \in Nat
        /\ PutExt(m) \in Seq(Nat) /\ Len(PutExt(m)) = ExtBytes(m) /\ ExtBytes(m) \in Nat
    BY PutExtLen
  <2>2. PICK j \in Nat : j = g + ExtBytes(l)
    BY <2>1
  <2>3. Holds(c, g, PutExt(l)) /\ Holds(c, j, PutExt(m)) /\ k = ExtBytes(l) + ExtBytes(m)
    <3>1. PICK u \in Seq(Nat), v \in Seq(Nat) : u = PutExt(l) /\ v = PutExt(m)
      BY <2>1
    <3>3. Holds(c, g, e) /\ Joined(e, u, v)
      BY <1>5, <1>6, <1>12, <3>1 DEF Joined
    <3>2. Holds(c, g, u) /\ Holds(c, g + Len(u), v) /\ Len(e) = Len(u) + Len(v)
      BY <3>3, HoldsJoined
    <3> QED
      BY <1>8, <2>1, <2>2, <3>1, <3>2
  <2>4. Lz!Stops(c, g) # {} /\ Lz!ExtLast(c, g) = j /\ Lz!ExtValue(c, g) = l
    BY <2>2, <2>3, ExtRead
  <2>5. Lz!Stops(c, j) # {} /\ Lz!ExtLast(c, j) = j + ExtBytes(m) /\ Lz!ExtValue(c, j) = m
    BY <2>3, ExtRead
  <2>6. Lz!Whole(c, from)
    BY <1>6, <1>7, <1>12, <2>4, <2>5 DEF Lz!Whole
  <2>7. Lz!Lengths(c, from) = [ll |-> 0 + l, ml |-> MinMatch + m, dist |-> d, next |-> j + ExtBytes(m)]
    BY <1>6, <1>7, <1>12, <2>4, <2>5 DEF Lz!Lengths
  <2>8. PICK a \in Nat, b \in Nat : a = ExtBytes(l) /\ b = ExtBytes(m)
    BY <2>1
  <2>9. j + b = from + (3 + k)
    <3>1. k = a + b /\ j = g + a
      BY <2>2, <2>3, <2>8, Zenon
    <3> QED
      BY <1>6, <3>1
  <2> QED
    BY <1>1, <1>5, <1>8, <2>6, <2>7, <2>8, <2>9
<1> QED
  BY <1>3, <1>9, <1>10, <1>11, <1>12 DEF TokenOf

--------------------------------------------------------------------------------
(* The bytes of s, and what repeats in it.                                   *)
Part(s, ix, k) == SubSeq(s, ix + 1, ix + k)
SameIn(s, p, r, k) == \A j \in 0 .. k - 1 : s[p + j + 1] = s[r + j + 1]

IsPart(wd, s, ix, k, S) ==
  /\ wd \in Seq(S) /\ Len(wd) = k
  /\ \A j \in 1 .. k : wd[j] = s[ix + j]

(* So many bytes of s from i on.                                              *)
LEMMA PartIs ==
  ASSUME NEW S, NEW s \in Seq(S), NEW ix \in Nat, NEW k \in Nat, ix + k <= Len(s)
  PROVE  IsPart(Part(s, ix, k), s, ix, k, S)
<1>1. \A x \in ix + 1 .. ix + k : s[x] \in S
  OBVIOUS
<1>2. PICK a \in Int, b \in Int : a = ix + 1 /\ b = ix + k
  OBVIOUS
<1>3. PICK f : f = SubSeq(s, a, b)
  OBVIOUS
<1>4. /\ f \in Seq(S)
      /\ Len(f) = IF a <= b THEN b - a + 1 ELSE 0
      /\ \A x \in 1 .. b - a + 1 : f[x] = s[a + x - 1]
  BY <1>1, <1>2, <1>3, SubSeqProperties
<1>5. Len(f) = k
  BY <1>2, <1>4
<1>6. ASSUME NEW j \in 1 .. k PROVE f[j] = s[ix + j]
  <2>1. j \in 1 .. b - a + 1 /\ a + j - 1 = ix + j
    BY <1>2
  <2> QED
    BY <1>4, <2>1
<1>7. f = Part(s, ix, k)
  BY <1>2, <1>3 DEF Part
<1> QED
  BY <1>4, <1>5, <1>6, <1>7 DEF IsPart

(* Adjacent parts make a part.                                                *)
LEMMA PartJoined ==
  ASSUME NEW S, NEW s \in Seq(S), NEW ix \in Nat, NEW k \in Nat, ix + k <= Len(s)
  PROVE  Joined(Part(s, 0, ix + k), Part(s, 0, ix), Part(s, ix, k))
<1>1. PICK e \in Nat : e = ix + k
  OBVIOUS
<1>2. 1 \in 1 .. Len(s) + 1 /\ ix \in 1 - 1 .. Len(s) /\ e \in ix .. Len(s)
  BY <1>1
<1>3. SubSeq(s, 1, ix) \o SubSeq(s, ix + 1, e) = SubSeq(s, 1, e)
  BY <1>2, ConcatAdjacentSubSeq
<1>4. 0 + 1 = 1 /\ 0 + ix = ix /\ 0 + (ix + k) = e
  BY <1>1
<1> QED
  BY <1>1, <1>3, <1>4 DEF Part, Joined

(* Remainders go round.                                                       *)
LEMMA Wraps ==
  ASSUME NEW d \in Nat, d >= 1, NEW x \in Nat
  PROVE  /\ x % d \in 0 .. d - 1
         /\ x < d => x % d = x
         /\ x >= d => (x - d) % d = x % d
<1>1. /\ x % d \in 0 .. d - 1 /\ x = d * (x \div d) + (x % d) /\ x \div d \in Nat
  BY Quotient
<1>2. CASE x < d
  BY <1>1, <1>2
<1>3. CASE x >= d
  <2>1. PICK y \in Nat : y = x - d
    BY <1>3
  <2>2. y % d \in 0 .. d - 1 /\ y = d * (y \div d) + (y % d) /\ y \div d \in Nat
    BY <2>1, Quotient
  <2>3. PICK q \in Nat, r \in Nat, u \in Nat, v \in Nat :
          /\ q = x \div d /\ r = x % d /\ u = y \div d /\ v = y % d
          /\ x = d * q + r /\ y = d * u + v /\ r < d /\ v < d
    <3>1. x % d \in Nat /\ x % d < d
      BY ONLY <1>1, d \in Nat
    <3>2. y % d \in Nat /\ y % d < d
      BY ONLY <2>2, d \in Nat
    <3> QED
      BY <1>1, <2>2, <3>1, <3>2, Zenon
  <2>4. CASE q >= u + 2
    <3>1. d * q >= d * (u + 2) /\ d * (u + 2) = d * u + 2 * d
      BY <2>4
    <3> QED
      BY <2>1, <2>3, <3>1
  <2>5. CASE q <= u
    <3>1. d * q <= d * u
      BY <2>5
    <3> QED
      BY <2>1, <2>3, <3>1
  <2>6. CASE q = u + 1
    <3>1. d * q = d * u + d
      BY <2>6
    <3> QED
      BY <1>3, <2>1, <2>3, <3>1
  <2> QED
    BY <2>4, <2>5, <2>6
<1> QED
  BY <1>1, <1>2, <1>3

WrapsIn(s, p, d, j) == s[p + j + 1] = s[p - d + 1 + (j % d)]

(* What repeats all along is what repeating the last d bytes gives.          *)
LEMMA RepeatsWrapped ==
  ASSUME NEW s, NEW p \in Nat, NEW d \in 1 .. p, NEW m \in Nat, SameIn(s, p, p - d, m)
  PROVE  \A j \in 0 .. m - 1 : WrapsIn(s, p, d, j)
<1> DEFINE T == {j \in 0 .. m - 1 : ~WrapsIn(s, p, d, j)}
<1>1. CASE T = {}
  BY <1>1
<1>2. CASE T # {}
  <2>1. PICK j \in T : \A y \in T : ~(y < j)
    <3>1. T \subseteq Nat
      OBVIOUS
    <3> HIDE DEF T
    <3> QED
      BY <1>2, <3>1, LeastNat
  <2>2. j \in Nat /\ j \in 0 .. m - 1 /\ d \in Nat /\ d >= 1
        /\ s[p + j + 1] = s[p - d + j + 1]
    BY <2>1 DEF SameIn
  <2>3. CASE j < d
    <3>1. j % d = j
      BY <2>2, <2>3, Wraps
    <3>2. p - d + 1 + j = p - d + j + 1
      BY <2>2
    <3>3. WrapsIn(s, p, d, j)
      BY <2>2, <3>1, <3>2 DEF WrapsIn
    <3> QED
      BY <2>1, <3>3
  <2>4. CASE j >= d
    <3>1. PICK k \in 0 .. m - 1 : k = j - d /\ k < j /\ p - d + j + 1 = p + k + 1
      BY <2>1, <2>4
    <3>2. k % d = j % d
      BY <2>2, <2>4, <3>1, Wraps
    <3>3. WrapsIn(s, p, d, k)
      BY <2>1, <3>1
    <3>4. WrapsIn(s, p, d, j)
      BY <2>2, <3>1, <3>2, <3>3 DEF WrapsIn
    <3> QED
      BY <2>1, <3>4
  <2> QED
    BY <2>2, <2>3, <2>4
<1> QED
  BY <1>1, <1>2

(* So repeating them writes what is there in the input.                       *)
LEMMA RepeatIs ==
  ASSUME NEW S, NEW s \in Seq(S), NEW p \in Nat, NEW d \in 1 .. p, NEW m \in Nat,
         p + m <= Len(s), SameIn(s, p, p - d, m)
  PROVE  Lz!Repeat(Part(s, 0, p), d, m) = Part(s, 0, p + m)
<1>1. PICK o : o = Part(s, 0, p) /\ Len(o) = p /\ \A j \in 1 .. p : o[j] = s[0 + j]
  <2>1. IsPart(Part(s, 0, p), s, 0, p, S)
    <3>1. 0 + p <= Len(s)
      OBVIOUS
    <3> QED
      BY <3>1, PartIs
  <2> QED
    BY ONLY <2>1, Zenon DEF IsPart
<1>2. PICK e \in Nat : e = p + m
  OBVIOUS
<1>3. PICK wd : wd = Part(s, 0, e) /\ wd \in Seq(S) /\ Len(wd) = e /\ \A j \in 1 .. e : wd[j] = s[0 + j]
  <2>1. IsPart(Part(s, 0, e), s, 0, e, S)
    <3>1. 0 + e <= Len(s)
      BY <1>2
    <3> QED
      BY <3>1, PartIs
  <2> QED
    BY ONLY <2>1, Zenon DEF IsPart
<1>4. wd = [ix \in 1 .. e |-> s[ix]]
  BY <1>3
<1>5. ASSUME NEW ix \in 1 .. e
      PROVE  (IF ix <= p THEN o[ix] ELSE o[p - d + 1 + ((ix - p - 1) % d)]) = s[ix]
  <2>1. CASE ix <= p
    BY <1>1, <2>1
  <2>2. CASE ix > p
    <3>1. PICK j \in 0 .. m - 1 : j = ix - p - 1 /\ p + j + 1 = ix
      BY <1>2, <2>2
    <3>6. j \in Nat /\ d \in Nat /\ d >= 1 /\ j % d \in 0 .. d - 1
      <4>1. j \in Nat /\ d \in Nat /\ d >= 1
        OBVIOUS
      <4> QED
        BY ONLY <4>1, Wraps
    <3>2. PICK r \in 0 .. d - 1 : r = j % d
      BY <3>6, Zenon
    <3>3. s[ix] = s[p - d + 1 + r]
      <4>1. s[p + j + 1] = s[p - d + 1 + (j % d)]
        <5>1. WrapsIn(s, p, d, j)
          BY RepeatsWrapped
        <5> QED
          BY ONLY <5>1 DEF WrapsIn
      <4> QED
        BY <3>1, <3>2, <4>1
    <3>4. p - d + 1 + r \in 1 .. p
      BY <3>2
    <3>5. o[p - d + 1 + r] = s[p - d + 1 + r]
      <4>1. PICK x \in 1 .. p : x = p - d + 1 + r
        BY ONLY <3>4
      <4>2. 0 + x = x
        BY ONLY x \in 1 .. p, p \in Nat
      <4>3. o[x] = s[x]
        BY ONLY <1>1, <4>2
      <4> QED
        BY ONLY <4>1, <4>3
    <3> QED
      BY <2>2, <3>1, <3>2, <3>3, <3>5
  <2> QED
    BY <2>1, <2>2
<1>6. Lz!Repeat(o, d, m) = [ix \in 1 .. e |->
                              IF ix <= p THEN o[ix] ELSE o[p - d + 1 + ((ix - p - 1) % d)]]
  BY <1>1, <1>2, Zenon DEF Lz!Repeat
<1>7. Lz!Repeat(o, d, m) = wd
  BY <1>4, <1>5, <1>6
<1> QED
  BY <1>1, <1>2, <1>3, <1>7

--------------------------------------------------------------------------------
(* A block as far as it got is sequences one after the other: at each point, *)
(* so many control bytes and literals stand for so much of the input.        *)
ByteSet(s) == {s[k] : k \in DOMAIN s}
Point == [at : Nat, taken : Nat, pos : Nat]

Follows(s, o, a, b) ==
  \E p \in Nat, d \in Nat :
    /\ a.pos <= p /\ p + MinMatch <= b.pos /\ b.pos <= Len(s)
    /\ 1 <= d /\ d <= p /\ d <= Window
    /\ SameIn(s, p, p - d, b.pos - p)
    /\ Holds(o.ctrl, a.at, ControlOf(p - a.pos, d, b.pos - p))
    /\ b.at = a.at + Len(ControlOf(p - a.pos, d, b.pos - p))
    /\ Holds(o.lit, a.taken, Part(s, a.pos, p - a.pos))
    /\ b.taken = a.taken + (p - a.pos)

Coded(s, o, e, k, f) ==
  /\ f \in [0 .. k -> Point]
  /\ f[0] = [at |-> 0, taken |-> 0, pos |-> 0]
  /\ f[k] = [at |-> Len(o.ctrl), taken |-> Len(o.lit), pos |-> e]
  /\ \A ix \in 1 .. k : Follows(s, o, f[ix - 1], f[ix])

Streams(s, o) ==
  s \in Seq(ByteSet(s)) /\ o.ctrl \in Seq(Nat) /\ o.lit \in Seq(ByteSet(s))

CodesUpTo(s, o, e) ==
  Streams(s, o) /\ e \in Nat /\ e <= Len(s) /\ \E k \in Nat : \E f : Coded(s, o, e, k, f)

(* What a sequence adds is bytes.                                             *)
LEMMA ControlSeq ==
  ASSUME NEW l \in Nat, NEW d \in 1 .. Window, NEW ln \in Nat, ln >= MinMatch
  PROVE  ControlOf(l, d, ln) \in Seq(Nat)
<1>1. PICK t \in Nat, x \in Nat, y \in Nat, e \in Seq(Nat) :
        Joined(ControlOf(l, d, ln), <<t, x, y>>, e)
  <2>1. ControlForm(l, d, ln, ln - MinMatch)
    BY ControlIs
  <2> QED
    BY ONLY <2>1, Zenon DEF ControlForm
<1>2. PICK h \in Seq(Nat) : h = <<t, x, y>>
  <2>1. <<t, x, y>> \in Seq(Nat)
    OBVIOUS
  <2> QED
    BY <2>1
<1>3. PICK c : c = ControlOf(l, d, ln) /\ c = h \o e
  BY <1>1, <1>2 DEF Joined
<1>4. c \in Seq(Nat)
  BY <1>3, ConcatProperties
<1> QED
  BY <1>3, <1>4

AppendedTo(c2, c, x, S) ==
  /\ c2 \in Seq(S) /\ Len(c2) = Len(c) + Len(x)
  /\ Holds(c2, Len(c), x)

(* What is appended leaves what was there.                                   *)
LEMMA Appended ==
  ASSUME NEW S, NEW c \in Seq(S), NEW x \in Seq(S), NEW c2, Joined(c2, c, x)
  PROVE  AppendedTo(c2, c, x, S)
         /\ \A wd : \A ix \in Nat : Len(wd) \in Nat /\ Holds(c, ix, wd) => Holds(c2, ix, wd)
<1>1. PICK a \in Nat, b \in Nat : a = Len(c) /\ b = Len(x)
  OBVIOUS
<1>2. /\ c2 \in Seq(S) /\ Len(c2) = a + b
      /\ \A ix \in 1 .. a + b : c2[ix] = IF ix <= a THEN c[ix] ELSE x[ix - a]
  BY <1>1, ConcatProperties DEF Joined
<1>3. Holds(c2, Len(c), x)
  <2>1. ASSUME NEW ix \in 1 .. b PROVE c2[a + ix] = x[ix]
    <3>1. a + ix \in 1 .. a + b /\ ~(a + ix <= a) /\ (a + ix) - a = ix
      BY <1>1
    <3> QED
      BY <1>2, <3>1
  <2> QED
    BY <1>1, <1>2, <2>1 DEF Holds
<1>4. ASSUME NEW wd, NEW ix \in Nat, Len(wd) \in Nat, Holds(c, ix, wd) PROVE Holds(c2, ix, wd)
  <2>1. ix + Len(wd) <= a /\ \A j \in 1 .. Len(wd) : c[ix + j] = wd[j]
    BY <1>1, <1>4 DEF Holds
  <2>2. ASSUME NEW j \in 1 .. Len(wd) PROVE c2[ix + j] = wd[j]
    <3>1. ix + j \in 1 .. a + b /\ ix + j <= a
      BY <1>1, <1>4, <2>1
    <3> QED
      BY <1>2, <2>1, <3>1
  <2>3. ix + Len(wd) <= Len(c2)
    BY <1>1, <1>2, <1>4, <2>1
  <2> QED
    BY <2>2, <2>3 DEF Holds
<1> QED
  BY <1>1, <1>2, <1>3, <1>4 DEF AppendedTo

(* A sequence is still there when the streams have grown.                    *)
LEMMA FollowsStays ==
  ASSUME NEW s, NEW o, NEW x, NEW y, NEW o2, Streams(s, o), x \in Seq(Nat), y \in Seq(ByteSet(s)),
         Joined(o2.ctrl, o.ctrl, x), Joined(o2.lit, o.lit, y),
         NEW a \in Point, NEW b \in Point, Follows(s, o, a, b)
  PROVE  Follows(s, o2, a, b)
<1>1. PICK p \in Nat, d \in Nat :
        /\ a.pos <= p /\ p + MinMatch <= b.pos /\ b.pos <= Len(s)
        /\ 1 <= d /\ d <= p /\ d <= Window
        /\ SameIn(s, p, p - d, b.pos - p)
        /\ Holds(o.ctrl, a.at, ControlOf(p - a.pos, d, b.pos - p))
        /\ b.at = a.at + Len(ControlOf(p - a.pos, d, b.pos - p))
        /\ Holds(o.lit, a.taken, Part(s, a.pos, p - a.pos))
        /\ b.taken = a.taken + (p - a.pos)
  BY DEF Follows
<1>2. /\ a.at \in Nat /\ a.taken \in Nat /\ a.pos \in Nat /\ b.pos \in Nat
      /\ s \in Seq(ByteSet(s)) /\ o.ctrl \in Seq(Nat) /\ o.lit \in Seq(ByteSet(s))
  BY DEF Point, Streams
<1>9. PICK u \in Nat, v \in Nat, wd \in Nat :
        /\ u = a.pos /\ v = b.pos /\ wd = Len(s)
        /\ u <= p /\ p + MinMatch <= v /\ v <= wd
  <2>1. a.pos \in Nat /\ b.pos \in Nat /\ Len(s) \in Nat
    BY <1>2
  <2> QED
    BY ONLY <1>1, <2>1
<1>10. PICK l \in Nat, ln \in Nat : l = p - u /\ ln = v - p /\ ln >= MinMatch
  <2>1. p - u \in Nat /\ v - p \in Nat /\ v - p >= MinMatch
    BY ONLY <1>9, u \in Nat, v \in Nat, p \in Nat, ParameterAssumption DEF ParameterAssumption
  <2> QED
    BY ONLY <2>1
<1>3. l = p - a.pos /\ ln = b.pos - p
  BY <1>9, <1>10
<1>4. d \in 1 .. Window /\ a.pos + l <= Len(s)
  <2>1. d \in 1 .. Window
    BY <1>1
  <2>2. u + l <= wd
    <3>1. u + l = p
      <4>1. l = p - u
        BY ONLY <1>10
      <4> QED
        BY ONLY <4>1, u \in Nat, p \in Nat, l \in Nat
    <3>2. p <= wd
      <4>1. p + MinMatch <= v /\ v <= wd /\ MinMatch \in Nat
        BY ONLY <1>9, ParameterAssumption DEF ParameterAssumption
      <4> QED
        BY ONLY <4>1, p \in Nat, v \in Nat, wd \in Nat
    <3> QED
      BY ONLY <3>1, <3>2
  <2> QED
    BY <1>9, <2>1, <2>2
<1>5. Len(ControlOf(l, d, ln)) \in Nat
  BY <1>10, <1>4, ControlSeq
<1>6. Len(Part(s, a.pos, l)) \in Nat
  <2>1. IsPart(Part(s, a.pos, l), s, a.pos, l, ByteSet(s))
    BY <1>2, <1>4, PartIs
  <2> QED
    BY ONLY <2>1, l \in Nat DEF IsPart
<1>7. Holds(o2.ctrl, a.at, ControlOf(l, d, ln))
  <2>1. Holds(o.ctrl, a.at, ControlOf(l, d, ln))
    BY <1>1, <1>3, Zenon
  <2> QED
    BY <1>2, <1>5, <2>1, Appended, Zenon
<1>8. Holds(o2.lit, a.taken, Part(s, a.pos, l))
  <2>1. Holds(o.lit, a.taken, Part(s, a.pos, l))
    BY <1>1, <1>3, Zenon
  <2> QED
    BY <1>2, <1>6, <2>1, Appended, Zenon
<1> QED
  BY <1>1, <1>3, <1>7, <1>8 DEF Follows

(* A block with a sequence more.                                              *)
LEMMA CodesMore ==
  ASSUME NEW s, NEW o, NEW e, CodesUpTo(s, o, e), NEW p \in Nat, NEW d \in 1 .. p, NEW g \in Nat,
         e <= p, d <= Window, p + MinMatch <= g, g <= Len(s), SameIn(s, p, p - d, g - p),
         NEW o2, Joined(o2.ctrl, o.ctrl, ControlOf(p - e, d, g - p)),
         Joined(o2.lit, o.lit, Part(s, e, p - e))
  PROVE  CodesUpTo(s, o2, g)
<1>1. /\ Streams(s, o) /\ e \in Nat /\ s \in Seq(ByteSet(s))
      /\ o.ctrl \in Seq(Nat) /\ o.lit \in Seq(ByteSet(s))
  BY DEF CodesUpTo, Streams
<1>2. PICK k \in Nat : \E f : Coded(s, o, e, k, f)
  BY DEF CodesUpTo
<1>3. PICK f : Coded(s, o, e, k, f)
  BY <1>2
<1>4. PICK l \in Nat, ln \in Nat : l = p - e /\ ln = g - p /\ ln >= MinMatch
  BY <1>1
<1>5. PICK x \in Seq(Nat) : x = ControlOf(l, d, ln)
  <2>1. d \in 1 .. Window
    OBVIOUS
  <2> QED
    BY <2>1, <1>4, ControlSeq
<1>6. PICK y \in Seq(ByteSet(s)) : y = Part(s, e, l) /\ Len(y) = l
  <2>1. e + l <= Len(s)
    <3>1. /\ e \in Nat /\ p \in Nat /\ g \in Nat /\ e <= p /\ p <= g
          /\ g <= Len(s) /\ Len(s) \in Nat
      BY <1>1
    <3> QED
      BY ONLY <1>4, <3>1
  <2> QED
    <3>1. IsPart(Part(s, e, l), s, e, l, ByteSet(s))
      BY <1>1, <2>1, PartIs
    <3> QED
      BY ONLY <3>1, Zenon DEF IsPart
<1>7. Joined(o2.ctrl, o.ctrl, x) /\ Joined(o2.lit, o.lit, y)
  BY <1>4, <1>5, <1>6
<1>8. /\ o2.ctrl \in Seq(Nat) /\ Len(o2.ctrl) = Len(o.ctrl) + Len(x)
      /\ Holds(o2.ctrl, Len(o.ctrl), x)
  <2>1. AppendedTo(o2.ctrl, o.ctrl, x, Nat)
    BY <1>1, <1>7, Appended, Zenon
  <2> QED
    BY ONLY <2>1 DEF AppendedTo
<1>9. /\ o2.lit \in Seq(ByteSet(s)) /\ Len(o2.lit) = Len(o.lit) + Len(y)
      /\ Holds(o2.lit, Len(o.lit), y)
  <2>1. AppendedTo(o2.lit, o.lit, y, ByteSet(s))
    BY <1>1, <1>7, Appended, Zenon
  <2> QED
    BY ONLY <2>1 DEF AppendedTo
<1> DEFINE new == [at |-> Len(o2.ctrl), taken |-> Len(o2.lit), pos |-> g]
           h == [ix \in 0 .. k + 1 |-> IF ix <= k THEN f[ix] ELSE new]
<1>10. f[k] = [at |-> Len(o.ctrl), taken |-> Len(o.lit), pos |-> e]
  BY <1>3 DEF Coded
<1>11. Follows(s, o2, f[k], new)
  <2>1. /\ f[k].at = Len(o.ctrl) /\ f[k].taken = Len(o.lit) /\ f[k].pos = e
        /\ new.at = Len(o2.ctrl) /\ new.taken = Len(o2.lit) /\ new.pos = g
    BY <1>10
  <2> HIDE DEF new
  <2>2. PICK q \in Nat, c \in Nat :
      /\ q = p /\ c = d
      /\ f[k].pos <= q /\ q + MinMatch <= new.pos /\ new.pos <= Len(s)
      /\ 1 <= c /\ c <= q /\ c <= Window
      /\ SameIn(s, q, q - c, new.pos - q)
      /\ Holds(o2.ctrl, f[k].at, ControlOf(q - f[k].pos, c, new.pos - q))
      /\ new.at = f[k].at + Len(ControlOf(q - f[k].pos, c, new.pos - q))
      /\ Holds(o2.lit, f[k].taken, Part(s, f[k].pos, q - f[k].pos))
      /\ new.taken = f[k].taken + (q - f[k].pos)
    <3>1. d \in Nat /\ 1 <= d /\ d <= p
      OBVIOUS
    <3> QED
      BY <2>1, <3>1, <1>4, <1>5, <1>6, <1>8, <1>9
  <2> QED
    BY <2>2, Zenon DEF Follows
<1>12. new \in Point
  <2>1. o2.ctrl \in Seq(Nat)
    BY <1>8, Zenon
  <2>2. o2.lit \in Seq(ByteSet(s))
    BY <1>9, Zenon
  <2>3. Len(o2.ctrl) \in Nat
    BY ONLY <2>1, LenProperties, Zenon
  <2>4. Len(o2.lit) \in Nat
    BY ONLY <2>2, LenProperties, Zenon
  <2>5. g \in Nat
    BY <1>1, Zenon
  <2> QED
    BY ONLY <2>3, <2>4, <2>5, Zenon DEF new, Point
<1> HIDE DEF new
<1>13. Coded(s, o2, g, k + 1, h)
  <2>1. h \in [0 .. k + 1 -> Point] /\ h[0] = f[0] /\ h[k + 1] = new
    BY <1>3, <1>12 DEF Coded
  <2>2. ASSUME NEW ix \in 1 .. k + 1 PROVE Follows(s, o2, h[ix - 1], h[ix])
    <3>1. CASE ix = k + 1
      <4>1. h[ix - 1] = f[k] /\ h[ix] = new
        BY <3>1
      <4> QED
        BY <4>1, <1>11
    <3>2. CASE ix # k + 1
      <4>1. ix \in 1 .. k /\ h[ix - 1] = f[ix - 1] /\ h[ix] = f[ix]
            /\ f[ix - 1] \in Point /\ f[ix] \in Point
        BY <3>2, <1>3 DEF Coded
      <4>2. Follows(s, o, f[ix - 1], f[ix])
        BY <4>1, <1>3 DEF Coded
      <4> HIDE DEF h
      <4>3. Follows(s, o2, f[ix - 1], f[ix])
        BY <4>1, <4>2, <1>1, <1>7, FollowsStays
      <4> QED
        BY <4>1, <4>3
    <3> QED
      BY <3>1, <3>2
  <2> HIDE DEF h
  <2>3. f[0] = [at |-> 0, taken |-> 0, pos |-> 0]
    BY <1>3 DEF Coded
  <2>4. new = [at |-> Len(o2.ctrl), taken |-> Len(o2.lit), pos |-> g]
    BY DEF new
  <2> QED
    BY <2>1, <2>2, <2>3, <2>4 DEF Coded
<1> QED
  BY <1>1, <1>8, <1>9, <1>13 DEF CodesUpTo, Streams

--------------------------------------------------------------------------------
(* The decoder goes from point to point.                                     *)
DecodedPoint(a) == [at |-> a.at, taken |-> a.taken, out |-> Part(src, 0, a.pos)]

(* A step of the decoder is a sequence of the block.                          *)
LEMMA DecodeFollows ==
  ASSUME Streams(src, out), NEW a \in Point, NEW b \in Point, Follows(src, out, a, b)
  PROVE  /\ DecodeStep(DecodedPoint(a)) = DecodedPoint(b)
         /\ a.at + 3 <= b.at /\ b.at <= Len(out.ctrl)
<1>1. PICK p \in Nat, d \in Nat :
        /\ a.pos <= p /\ p + MinMatch <= b.pos /\ b.pos <= Len(src)
        /\ 1 <= d /\ d <= p /\ d <= Window
        /\ SameIn(src, p, p - d, b.pos - p)
        /\ Holds(out.ctrl, a.at, ControlOf(p - a.pos, d, b.pos - p))
        /\ b.at = a.at + Len(ControlOf(p - a.pos, d, b.pos - p))
        /\ Holds(out.lit, a.taken, Part(src, a.pos, p - a.pos))
        /\ b.taken = a.taken + (p - a.pos)
  BY DEF Follows
<1>2. PICK S : S = ByteSet(src) /\ src \in Seq(S) /\ out.lit \in Seq(S)
  BY DEF Streams
<1>3. PICK c \in Seq(Nat), at \in Nat, taken \in Nat, u \in Nat, v \in Nat :
        /\ c = out.ctrl /\ at = a.at /\ taken = a.taken /\ u = a.pos /\ v = b.pos
        /\ u <= p /\ p + MinMatch <= v /\ v <= Len(src)
  BY <1>1 DEF Streams, Point
<1>4. PICK l \in Nat, ln \in Nat :
        l = p - u /\ ln = v - p /\ ln >= MinMatch /\ u + l = p /\ p + ln = v
  <2>1. u <= p /\ p + MinMatch <= v
    BY <1>3, Zenon
  <2>2. p - u \in Nat /\ v - p \in Nat /\ v - p >= MinMatch
        /\ u + (p - u) = p /\ p + (v - p) = v
    BY ONLY <2>1, ParameterAssumption, p \in Nat, u \in Nat, v \in Nat
  <2> QED
    BY <2>2
<1>5. d \in 1 .. Window /\ d \in 1 .. p /\ Len(c) \in Nat /\ Len(src) \in Nat
      /\ u + l = p /\ p + ln = v
  <2>1. d \in 1 .. Window /\ d \in 1 .. p
    BY <1>1
  <2>2. Len(c) \in Nat /\ Len(src) \in Nat
    BY <1>2, <1>3
  <2> QED
    BY <1>4, <2>1, <2>2
<1>6. Holds(c, at, ControlOf(l, d, ln)) /\ b.at = at + Len(ControlOf(l, d, ln))
  BY <1>1, <1>3, <1>4
<1>7. /\ Lz!Whole(c, at)
      /\ Lz!Lengths(c, at).ll = l /\ Lz!Lengths(c, at).ml = ln
      /\ Lz!Lengths(c, at).dist = d
      /\ Lz!Lengths(c, at).next = b.at
      /\ ControlOf(l, d, ln) \in Seq(Nat) /\ Len(ControlOf(l, d, ln)) >= 3
  <2>1. ReadBack(c, at, l, d, ln)
    BY <1>4, <1>5, <1>6, SequenceRead
  <2> QED
    BY ONLY <2>1, <1>6, Zenon DEF ReadBack
<1>8. at + 3 <= b.at /\ b.at <= Len(c)
  <2>1. Len(ControlOf(l, d, ln)) \in Nat /\ at + Len(ControlOf(l, d, ln)) <= Len(c)
    BY <1>6, <1>7 DEF Holds
  <2> QED
    BY <1>5, <1>6, <1>7, <2>1
<1>9. Part(out.lit, taken, l) = Part(src, u, l) /\ taken + l <= Len(out.lit)
  <2>1. PICK wd \in Seq(S) : wd = Part(src, u, l) /\ Len(wd) = l
    <3>1. u + l <= Len(src)
      BY <1>3, <1>5
    <3> QED
      <4>1. IsPart(Part(src, u, l), src, u, l, S)
        BY <1>2, <3>1, PartIs
      <4> QED
        BY ONLY <4>1, Zenon DEF IsPart
  <2>2. PICK lit \in Seq(S) : lit = out.lit
    BY <1>2
  <2>3. taken + l <= Len(lit) /\ \A ix \in 1 .. l : lit[taken + ix] = wd[ix]
    BY <1>1, <1>3, <1>4, <2>1, <2>2 DEF Holds
  <2>4. PICK x \in Seq(S) : x = Part(lit, taken, l) /\ Len(x) = l /\ \A ix \in 1 .. l : x[ix] = lit[taken + ix]
    <3>1. IsPart(Part(lit, taken, l), lit, taken, l, S)
      BY <2>3, PartIs
    <3> QED
      BY ONLY <3>1, Zenon DEF IsPart
  <2>5. x = wd
    BY <2>1, <2>3, <2>4, SeqEqual
  <2> QED
    BY <2>1, <2>2, <2>3, <2>4, <2>5
<1>10. Part(src, 0, u) \o Part(src, u, l) = Part(src, 0, p)
  <2>1. Joined(Part(src, 0, u + l), Part(src, 0, u), Part(src, u, l))
    BY <1>2, <1>3, <1>5, PartJoined
  <2> QED
    BY <1>5, <2>1 DEF Joined
<1>11. Len(Part(src, 0, p)) = p
  <2>1. 0 + p <= Len(src)
    BY <1>3, <1>5
  <2>2. IsPart(Part(src, 0, p), src, 0, p, S)
    BY <1>2, <2>1, PartIs
  <2> QED
    BY ONLY <2>2 DEF IsPart
<1>12. Lz!Repeat(Part(src, 0, p), d, ln) = Part(src, 0, v)
  <2>1. SameIn(src, p, p - d, ln) /\ p + ln <= Len(src)
    BY <1>1, <1>3, <1>4, <1>5
  <2>2. Lz!Repeat(Part(src, 0, p), d, ln) = Part(src, 0, p + ln)
    BY <1>2, <1>5, <2>1, RepeatIs
  <2> QED
    BY <1>5, <2>2
<1>13. b.taken = taken + l
  BY <1>1, <1>3, <1>4
<1> DEFINE e == DecodedPoint(a)
<1>14. e.at = at /\ e.taken = taken /\ e.out = Part(src, 0, u)
  BY <1>3 DEF DecodedPoint
<1> HIDE DEF e
<1>15. e.out \o SubSeq(out.lit, e.taken + 1, e.taken + Lz!Lengths(c, e.at).ll) = Part(src, 0, p)
  <2>1. SubSeq(out.lit, taken + 1, taken + l) = Part(src, u, l)
    BY <1>9 DEF Part
  <2> QED
    BY <1>7, <1>10, <1>14, <2>1
<1>16. /\ e.at < Len(c) /\ Lz!Whole(c, e.at)
       /\ e.taken + Lz!Lengths(c, e.at).ll <= Len(out.lit)
       /\ Lz!Lengths(c, e.at).dist <= Len(Part(src, 0, p))
  <2>1. at < Len(c) /\ d <= p
    <3>1. b.at \in Nat
      BY DEF Point
    <3> QED
      BY <1>5, <1>8, <3>1
  <2> QED
    BY <2>1, <1>7, <1>9, <1>11, <1>14, Zenon
<1>17. DecodeStep(e) = [at |-> b.at, taken |-> taken + l, out |-> Part(src, 0, v)]
  BY <1>3, <1>7, <1>12, <1>14, <1>15, <1>16 DEF DecodeStep
<1> QED
  BY <1>3, <1>8, <1>13, <1>17 DEF e, DecodedPoint

Decoding(m, g) ==
  g = [k \in 0 .. m |->
         IF k = 0 THEN [at |-> 0, taken |-> 0, out |-> <<>>] ELSE DecodeStep(g[k - 1])]

(* The decoder's function is determined by its equation.                      *)
LEMMA DecodingOne ==
  ASSUME NEW m \in Nat, NEW g, NEW h, Decoding(m, g), Decoding(m, h)
  PROVE  \A k \in 0 .. m : g[k] = h[k]
<1> DEFINE T == {k \in 0 .. m : g[k] # h[k]}
<1>1. CASE T = {}
  BY <1>1
<1>2. CASE T # {}
  <2>1. PICK k \in T : \A y \in T : ~(y < k)
    <3>1. T \subseteq Nat
      OBVIOUS
    <3> HIDE DEF T
    <3> QED
      BY <1>2, <3>1, LeastNat
  <2>2. k \in 0 .. m /\ g[k] # h[k]
    BY <2>1
  <2>3. CASE k = 0
    BY <2>2, <2>3 DEF Decoding
  <2>4. CASE k # 0
    <3>1. k - 1 \in 0 .. m /\ k - 1 < k
      BY <2>2, <2>4
    <3>2. g[k - 1] = h[k - 1]
      BY <2>1, <3>1
    <3>3. g[k] = DecodeStep(g[k - 1]) /\ h[k] = DecodeStep(h[k - 1])
      BY <2>2, <2>4 DEF Decoding
    <3> QED
      BY <2>2, <3>2, <3>3
  <2> QED
    BY <2>3, <2>4
<1> QED
  BY <1>1, <1>2

(* The decoder reads all that was written.                                   *)
LEMMA DecodedIs ==
  ASSUME CodesUpTo(src, out, anchor)
  PROVE  Decoded = [at |-> Len(out.ctrl), taken |-> Len(out.lit), out |-> Part(src, 0, anchor)]
<1>1. Streams(src, out) /\ anchor \in Nat /\ anchor <= Len(src)
  BY DEF CodesUpTo
<1>2. PICK m \in Nat : m = Len(out.ctrl)
  BY <1>1 DEF Streams
<1>3. PICK n0 \in Nat : \E f : Coded(src, out, anchor, n0, f)
  BY DEF CodesUpTo
<1>4. PICK f : Coded(src, out, anchor, n0, f)
  BY <1>3
<1>5. /\ f \in [0 .. n0 -> Point]
      /\ f[0] = [at |-> 0, taken |-> 0, pos |-> 0]
      /\ f[n0] = [at |-> Len(out.ctrl), taken |-> Len(out.lit), pos |-> anchor]
      /\ \A ix \in 1 .. n0 : Follows(src, out, f[ix - 1], f[ix])
  BY <1>4 DEF Coded
<1>6. ASSUME NEW ix \in 1 .. n0
      PROVE  DecodeStep(DecodedPoint(f[ix - 1])) = DecodedPoint(f[ix]) /\ f[ix - 1].at + 3 <= f[ix].at
  <2>1. ix - 1 \in 0 .. n0 /\ ix \in 0 .. n0 /\ f[ix - 1] \in Point /\ f[ix] \in Point
    BY <1>5
  <2> QED
    BY <1>1, <1>5, <2>1, DecodeFollows
<1>7. n0 <= m
  <2> DEFINE T == {ix \in 0 .. n0 : ~(ix <= f[ix].at)}
  <2>1. CASE T = {}
    <3>1. n0 \in 0 .. n0 /\ f[n0].at = m
      BY <1>2, <1>5
    <3> QED
      BY <2>1, <3>1
  <2>2. CASE T # {}
    <3>1. PICK ix \in T : \A y \in T : ~(y < ix)
      <4>1. T \subseteq Nat
        OBVIOUS
      <4> HIDE DEF T
      <4> QED
        BY <2>2, <4>1, LeastNat
    <3>2. ix \in 0 .. n0 /\ ~(ix <= f[ix].at)
      BY <3>1
    <3>3. ix # 0
      BY <1>5, <3>2
    <3>4. ix - 1 \in 0 .. n0 /\ ix \in 1 .. n0 /\ ix - 1 < ix
      BY <3>2, <3>3
    <3>5. ix - 1 <= f[ix - 1].at
      BY <3>1, <3>4
    <3>6. f[ix - 1].at + 3 <= f[ix].at /\ f[ix - 1].at \in Nat /\ f[ix].at \in Nat
      <4>1. f[ix - 1] \in Point /\ f[ix] \in Point
        BY <1>5, <3>2, <3>4
      <4> QED
        BY <1>6, <3>4, <4>1 DEF Point
    <3> QED
      BY <3>2, <3>5, <3>6
  <2> QED
    BY <2>1, <2>2
<1>8. Part(src, 0, 0) = <<>>
  <2>1. SubSeq(src, 1, 0) = <<>>
    BY SubSeqEmpty
  <2> QED
    BY <2>1 DEF Part
<1>9. DecodedPoint(f[0]) = [at |-> 0, taken |-> 0, out |-> <<>>]
  BY <1>5, <1>8 DEF DecodedPoint
<1>10. DecodedPoint(f[n0])
         = [at |-> Len(out.ctrl), taken |-> Len(out.lit), out |-> Part(src, 0, anchor)]
  BY <1>5 DEF DecodedPoint
<1>11. DecodeStep(DecodedPoint(f[n0])) = DecodedPoint(f[n0])
  <2>1. ~(DecodedPoint(f[n0]).at < Len(out.ctrl))
    BY <1>2, <1>10
  <2> QED
    BY <2>1 DEF DecodeStep
<1> DEFINE h == [k \in 0 .. m |-> IF k <= n0 THEN DecodedPoint(f[k]) ELSE DecodedPoint(f[n0])]
<1>12. Decoding(m, h)
  <2>1. ASSUME NEW k \in 0 .. m
        PROVE  h[k] = IF k = 0 THEN [at |-> 0, taken |-> 0, out |-> <<>>] ELSE DecodeStep(h[k - 1])
    <3>1. CASE k = 0
      <4>1. h[k] = DecodedPoint(f[0])
        BY <3>1
      <4> QED
        BY <3>1, <4>1, <1>9
    <3>2. CASE k # 0 /\ k <= n0
      <4>1. k \in 1 .. n0 /\ h[k] = DecodedPoint(f[k]) /\ h[k - 1] = DecodedPoint(f[k - 1])
        BY <3>2
      <4> HIDE DEF h
      <4>2. DecodeStep(DecodedPoint(f[k - 1])) = DecodedPoint(f[k])
        BY <1>6, <4>1
      <4> QED
        BY <3>2, <4>1, <4>2, Zenon
    <3>3. CASE k # 0 /\ ~(k <= n0)
      <4>1. h[k] = DecodedPoint(f[n0]) /\ h[k - 1] = DecodedPoint(f[n0])
        <5>1. h[k] = DecodedPoint(f[n0])
          BY <3>3
        <5>2. k - 1 \in 0 .. m /\ (k - 1 <= n0 => k - 1 = n0)
          BY <3>3
        <5>3. h[k - 1] = DecodedPoint(f[n0])
          BY <5>2
        <5> QED
          BY <5>1, <5>3
      <4> HIDE DEF h
      <4> QED
        BY <3>3, <4>1, <1>11, Zenon
    <3> QED
      BY <3>1, <3>2, <3>3
  <2>2. h = [k \in 0 .. m |-> h[k]]
    OBVIOUS
  <2> HIDE DEF h
  <2> QED
    BY <2>1, <2>2, Zenon DEF Decoding
<1>13. h[m] = DecodedPoint(f[n0])
  BY <1>7
<1> DEFINE D == CHOOSE g : g = [k \in 0 .. Len(out.ctrl) |->
                   IF k = 0 THEN [at |-> 0, taken |-> 0, out |-> <<>>] ELSE DecodeStep(g[k - 1])]
<1>14. Decoded = D[Len(out.ctrl)]
  BY DEF Decoded
<1> HIDE DEF h
<1>15. Decoding(m, D)
  <2>1. \E g : Decoding(m, g)
    BY <1>12
  <2> QED
    BY <1>2, <2>1 DEF Decoding
<1> HIDE DEF D
<1>16. D[m] = h[m]
  <2>1. m \in 0 .. m
    OBVIOUS
  <2> QED
    BY <1>12, <1>15, <2>1, DecodingOne
<1> QED
  BY <1>2, <1>10, <1>13, <1>14, <1>16

(* With the rest of the input as its tail, it gives the input.               *)
LEMMA CodedRoundTrip ==
  ASSUME CodesUpTo(src, out, anchor)
  PROVE  RoundTrip
<1>1. PICK d : /\ d = Decoded /\ d.at = Len(out.ctrl) /\ d.taken = Len(out.lit)
               /\ d.out = Part(src, 0, anchor)
  BY DecodedIs
<1>2. PICK S : src \in Seq(S) /\ out.lit \in Seq(S) /\ anchor \in Nat /\ anchor <= Len(src)
  BY DEF CodesUpTo, Streams
<1>3. PICK k \in Nat : k = n - anchor /\ anchor + k = Len(src)
  BY <1>2 DEF n
<1>4. SubSeq(out.lit, d.taken + 1, Len(out.lit)) = <<>>
  <2>1. d.taken + 1 \in Int /\ Len(out.lit) \in Int /\ Len(out.lit) < d.taken + 1
    BY <1>1, <1>2
  <2> QED
    BY <2>1, SubSeqEmpty
<1>5. Bytes(anchor, n - anchor) = Part(src, anchor, k)
  BY <1>3 DEF Bytes, Part
<1>6. <<>> \o Part(src, anchor, k) = Part(src, anchor, k)
  <2>1. IsPart(Part(src, anchor, k), src, anchor, k, S)
    BY <1>2, <1>3, PartIs
  <2>2. Part(src, anchor, k) \in Seq(S)
    BY ONLY <2>1 DEF IsPart
  <2> QED
    BY <2>2, ConcatEmptySeq
<1>7. Part(src, 0, anchor) \o Part(src, anchor, k) = src
  <2>1. anchor + k <= Len(src)
    BY <1>2, <1>3
  <2>2. Joined(Part(src, 0, anchor + k), Part(src, 0, anchor), Part(src, anchor, k))
    BY <1>2, <2>1, PartJoined
  <2>3. SubSeq(src, 1, Len(src)) = src
    BY <1>2, SubSeqFull
  <2>4. 0 + 1 = 1 /\ 0 + (anchor + k) = Len(src)
    BY <1>2, <1>3
  <2>5. Part(src, 0, anchor + k) = src
    BY ONLY <2>3, <2>4 DEF Part
  <2> QED
    BY ONLY <2>2, <2>5 DEF Joined
<1> QED
  BY <1>1, <1>4, <1>5, <1>6, <1>7, Zenon DEF RoundTrip

Codes == CodesUpTo(src, out, anchor)

(* An empty block stands for nothing of the input.                           *)
LEMMA CodesStart ==
  ASSUME InputInit, out = [ctrl |-> <<>>, lit |-> <<>>]
  PROVE  Codes
<1>1. PICK o : o = out
  OBVIOUS
<1>2. src \in Seq(ByteSet(src)) /\ anchor = 0 /\ Len(src) \in Nat
  BY InputAssumption DEF InputAssumption, InputInit, ByteSet
<1>3. /\ o.ctrl \in Seq(Nat) /\ o.lit \in Seq(ByteSet(src))
      /\ Len(o.ctrl) = 0 /\ Len(o.lit) = 0
  <2>1. o.ctrl = <<>> /\ o.lit = <<>>
    BY <1>1
  <2> QED
    BY <2>1, EmptySeq
<1> DEFINE zero == [at |-> 0, taken |-> 0, pos |-> 0]
           f == [ix \in 0 .. 0 |-> zero]
<1>4. zero \in Point
  BY DEF Point
<1> HIDE DEF zero
<1>5. f \in [0 .. 0 -> Point] /\ f[0] = zero /\ 1 .. 0 = {}
  BY <1>4
<1> HIDE DEF f
<1>6. Coded(src, o, 0, 0, f)
  <2>1. zero = [at |-> Len(o.ctrl), taken |-> Len(o.lit), pos |-> 0]
    BY <1>3 DEF zero
  <2> QED
    BY <1>5, <2>1 DEF Coded, zero
<1> QED
  BY <1>1, <1>2, <1>3, <1>6 DEF Codes, CodesUpTo, Streams

(* A step that emits nothing, or a match that repeats, leaves a block of     *)
(* sequences.                                                                *)
LEMMA CodesStep ==
  ASSUME Codes, src' = src, pc # "optEmit", anchor' \in Nat, [EmitsOne]_<<out, anchor>>
  PROVE  Codes'
<1>1. CASE UNCHANGED <<out, anchor>>
  BY <1>1 DEF Codes
<1>2. CASE EmitsOne
  <2>1. Streams(src, out) /\ anchor \in Nat /\ Len(src) \in Nat
    BY DEF Codes, CodesUpTo, Streams
  <2>2. PICK g \in Nat : g = anchor'
    OBVIOUS
  <2>3. g <= Len(src)
    BY <1>2, <2>2 DEF EmitsOne, n
  <2>4. PICK p \in anchor .. g - MinMatch : \E d \in 1 .. p :
          /\ d <= Window
          /\ SameBytes(p, p - d, g - p)
          /\ out' = EmitSequence(out, anchor, p, d, g - p)
    BY <1>2, <2>2, Zenon DEF EmitsOne
  <2>5. PICK d \in 1 .. p :
          /\ d <= Window
          /\ SameBytes(p, p - d, g - p)
          /\ out' = EmitSequence(out, anchor, p, d, g - p)
    BY <2>4
  <2>6. p \in Nat /\ anchor <= p /\ p + MinMatch <= g
    <3>1. anchor \in Nat /\ p \in anchor .. g - MinMatch
      BY <2>1, Zenon
    <3> QED
      BY ONLY <3>1, g \in Nat, ParameterAssumption DEF ParameterAssumption
  <2>7. SameIn(src, p, p - d, g - p)
    BY <2>5 DEF SameBytes, SameIn, At
  <2>8. PICK o2 : o2 = out'
    OBVIOUS
  <2>9. /\ Joined(o2.ctrl, out.ctrl, ControlOf(p - anchor, d, g - p))
        /\ Joined(o2.lit, out.lit, Part(src, anchor, p - anchor))
    <3>1. o2 = [ctrl |-> out.ctrl \o ControlOf(p - anchor, d, g - p),
                lit |-> out.lit \o Bytes(anchor, p - anchor)]
      BY <2>5, <2>8, Zenon DEF EmitSequence
    <3>2. o2.ctrl = out.ctrl \o ControlOf(p - anchor, d, g - p)
          /\ o2.lit = out.lit \o Bytes(anchor, p - anchor)
      BY ONLY <3>1
    <3> QED
      BY ONLY <3>2, Zenon DEF Joined, Part, Bytes
  <2>10. CodesUpTo(src, o2, g)
    BY <2>3, <2>5, <2>6, <2>7, <2>9, CodesMore DEF Codes
  <2> QED
    BY <2>2, <2>8, <2>10 DEF Codes
<1> QED
  BY <1>1, <1>2

(* A block of sequences decodes to the input.                                *)
LEMMA CodesGiveBack == Codes => RoundTrip
BY CodedRoundTrip DEF Codes

--------------------------------------------------------------------------------
(* Levels 0 and 1.                                                           *)

FastInv ==
  /\ src \in Inputs /\ anchor \in Nat /\ reach \in Int /\ reach <= n
  /\ table \in [Buckets -> Int] /\ fwd \in Nat /\ probes \in Nat
  /\ pc \in {"fast", "fastBack", "fastEmit", "done"}
  /\ pc = "fast" => anchor <= fwd
  /\ pc \in {"fastBack", "fastEmit"} =>
       Repeated(ip, ref, MinMatch) /\ anchor <= ip /\ ip <= Limit

fastAll == <<src, anchor, pc, out, reach, fastVars>>

LEMMA FastProbeStep ==
  ASSUME FastInv, FastProbe
  PROVE  FastInv' /\ UNCHANGED <<out, anchor>>
<1> DEFINE h == HashLong(fwd)
           d == FastDist(fwd, table[h])
           next == fwd + (probes \div 2 ^ SkipStrength)
<1>1. UNCHANGED <<src, out, anchor>> /\ n' = n /\ pc = "fast" /\ anchor <= fwd
      /\ src \in Inputs /\ n \in Nat /\ fwd \in Nat /\ probes \in Nat /\ Limit \in Int
      /\ Limit' = Limit /\ reach \in Int /\ reach <= n
  BY InputLen DEF FastInv, FastProbe, n, Limit
<1>2. next \in Int /\ fwd <= next
  <2>1. PICK e \in Nat \ {0} : e = 2 ^ SkipStrength
    BY FastAssumption DEF FastAssumption
  <2>2. probes \div e \in Nat
    BY <1>1
  <2> QED
    BY <1>1, <2>1, <2>2
<1>3. CASE TooShort \/ next > Limit
  BY <1>1, <1>3 DEF FastProbe, FastInv, fastVars, n, Repeated, Limit
<1>4. CASE ~(TooShort \/ next > Limit)
  <2>1. /\ reach' = Further(reach, next + HashRead)
        /\ table' = [table EXCEPT ![h] = Stored(fwd)]
        /\ ip' = fwd /\ fwd' = next /\ probes' = probes + 1
        /\ IF d <= fwd /\ Same(fwd - d, fwd)
           THEN ref' = fwd - d /\ pc' = "fastBack"
           ELSE UNCHANGED <<ref, pc>>
    BY <1>4 DEF FastProbe
  <2>2. fwd <= Limit /\ next <= Limit
    BY <1>1, <1>2, <1>4
  <2>3. reach' \in Int /\ reach' <= n
    <3>1. next + HashRead \in Int /\ next + HashRead <= n
      BY <1>1, <1>2, <2>2, InsideLimit, EmitAssumption DEF EmitAssumption
    <3> QED
      BY <1>1, <2>1, <3>1, FurtherIs
  <2>4. table' \in [Buckets -> Int]
    BY <1>1, <2>1, PutIs DEF FastInv
  <2>5. d \in 1 .. Window
    <3>1. h \in Buckets
      BY <1>1, <2>2, InsideLimit, HashLongIs
    <3>2. PICK s \in Int : s = table[h]
      BY <3>1 DEF FastInv
    <3>3. fwd \in Int
      BY <1>1
    <3>4. FastDist(fwd, s) \in 1 .. Window
      BY ONLY <3>3, s \in Int, FastDistIs
    <3> QED
      BY <3>2, <3>4
  <2> HIDE DEF d, h, next
  <2>6. CASE d <= fwd /\ Same(fwd - d, fwd)
    <3>1. ref' = fwd - d /\ pc' = "fastBack" /\ fwd + MinMatch <= n
      BY <1>1, <2>1, <2>2, <2>6, InsideLimit
    <3>2. SameBytes(fwd, fwd - d, MinMatch)
      BY <2>6, SameSym DEF Same
    <3>3. Repeated(ip', ref', MinMatch)
      BY <1>1, <2>1, <2>5, <2>6, <3>1, <3>2 DEF Repeated
    <3>4. Repeated(ip, ref, MinMatch)'
      BY <1>1, <3>3 DEF Repeated, SameBytes, At
    <3> QED
      BY <1>1, <1>2, <2>1, <2>2, <2>3, <2>4, <3>1, <3>4 DEF FastInv
  <2>7. CASE ~(d <= fwd /\ Same(fwd - d, fwd))
    BY <1>1, <1>2, <2>1, <2>3, <2>4, <2>7 DEF FastInv
  <2> QED
    BY <1>1, <2>6, <2>7
<1> QED
  BY <1>3, <1>4

LEMMA FastBackStep ==
  ASSUME FastInv, FastBack
  PROVE  FastInv' /\ UNCHANGED <<out, anchor>>
<1>1. /\ UNCHANGED <<src, out, anchor, reach, table, fwd, probes>> /\ n' = n
      /\ Limit' = Limit /\ pc' = "fastEmit"
      /\ Repeated(ip, ref, MinMatch) /\ anchor <= ip /\ ip <= Limit /\ anchor \in Nat
      /\ n \in Nat /\ Limit \in Int
  BY InputLen DEF FastBack, FastInv, n, Limit
<1>2. PICK b : b = CountBack(ip, ref, anchor)
  OBVIOUS
<1>3. ip' = ip - b /\ ref' = ref - b
  BY <1>2 DEF FastBack
<1>4. BackOf(ip, ref, MinMatch, anchor, b)
  BY ONLY <1>1, <1>2, ExtendedBack
<1>5. b \in 0 .. ref /\ ip - b >= anchor /\ Repeated(ip - b, ref - b, MinMatch + b)
  BY <1>4 DEF BackOf
<1>6. ip - b <= Limit
  BY <1>1, <1>5 DEF Repeated
<1>7. PICK x, y, z : x = ip - b /\ y = ref - b /\ z = MinMatch + b
  OBVIOUS
<1>8. Repeated(x, y, MinMatch)
  <2>1. Repeated(x, y, z)
    BY <1>5, <1>7
  <2> QED
    BY ONLY <1>1, <2>1, Shorter
<1>9. Repeated(ip, ref, MinMatch)'
  BY <1>1, <1>3, <1>7, <1>8 DEF Repeated, SameBytes, At
<1> QED
  BY <1>1, <1>3, <1>5, <1>6, <1>9 DEF FastInv

LEMMA FastEmitStep ==
  ASSUME FastInv, FastEmit
  PROVE  FastInv' /\ EmitsOne
<1> DEFINE ln == MinMatch + CountMatch(ip + MinMatch, ref + MinMatch)
           p == ip + ln
           before == [table EXCEPT ![HashLong(p - 2)] = Stored(p - 2)]
           d == FastDist(p, before[HashLong(p)])
<1>1. /\ src' = src /\ n' = n /\ Limit' = Limit /\ pc = "fastEmit"
      /\ Repeated(ip, ref, MinMatch) /\ anchor <= ip /\ ip <= Limit /\ anchor \in Nat
      /\ n \in Nat /\ Limit \in Int /\ src \in Inputs
      /\ reach \in Int /\ reach <= n
      /\ table \in [Buckets -> Int] /\ fwd \in Nat /\ probes \in Nat
  BY InputLen DEF FastEmit, FastInv, n, Limit
<1>2. /\ out' = EmitSequence(out, anchor, ip, ip - ref, ln)
      /\ anchor' = p
      /\ IF p > Limit
         THEN /\ pc' = "done"
              /\ UNCHANGED <<fastVars, reach>>
         ELSE /\ table' = [before EXCEPT ![HashLong(p)] = Stored(p)]
              /\ IF d > p \/ ~Same(p - d, p)
                 THEN /\ reach' = Further(reach, p + 1 + HashRead)
                      /\ ip' = p + 1 /\ fwd' = p + 1 /\ probes' = 2 ^ SkipStrength
                      /\ pc' = "fast"
                      /\ UNCHANGED ref
                 ELSE /\ reach' = Further(reach, p + HashRead)
                      /\ ip' = p /\ ref' = p - d
                      /\ UNCHANGED <<fwd, probes, pc>>
  BY DEF FastEmit
<1>3. Repeated(ip, ref, ln)
  BY <1>1, Extended
<1> HIDE DEF ln
<1>4. p \in Nat /\ p >= ip + MinMatch /\ p <= n /\ ip \in Nat /\ ln \in Nat
  BY <1>1, <1>3 DEF Repeated
<1>5. EmitsOne
  <2>1. out' = EmitSequence(out, anchor, ip, ip - ref, ln) /\ anchor' = ip + ln
    BY <1>2
  <2> QED
    BY ONLY <1>1, <1>3, <2>1, EmitsOneIs
<1>6. CASE p > Limit
  <2>1. pc' = "done" /\ UNCHANGED <<table, fwd, probes, reach>> /\ anchor' = p
    BY <1>2, <1>6 DEF fastVars
  <2> HIDE DEF p
  <2>2. FastInv'
    BY <1>1, <1>4, <2>1 DEF FastInv
  <2> QED
    BY <1>5, <2>2
<1>7. CASE ~(p > Limit)
  <2>1. p + HashBytes <= n /\ p + HashRead + 1 <= n /\ p + MinMatch <= n
    BY <1>1, <1>4, <1>7, InsideLimit
  <2>2. before \in [Buckets -> Int]
    <3>1. p - 2 \in Int
      BY <1>4
    <3> HIDE DEF p
    <3> QED
      BY <1>1, <3>1, PutIs
  <2> HIDE DEF before, p
  <2>3. table' \in [Buckets -> Int]
    BY <1>2, <1>4, <1>7, <2>2, PutIs
  <2>4. d \in 1 .. Window
    <3>1. HashLong(p) \in Buckets
      BY <1>1, <1>4, <2>1, HashLongIs
    <3>2. PICK s \in Int : s = before[HashLong(p)]
      BY <2>2, <3>1
    <3>3. p \in Int
      BY <1>4
    <3>4. FastDist(p, s) \in 1 .. Window
      BY ONLY <3>3, s \in Int, FastDistIs
    <3> QED
      BY <3>2, <3>4
  <2> HIDE DEF d
  <2>5. HashRead \in Nat /\ 2 ^ SkipStrength \in Nat
    BY EmitAssumption, FastAssumption DEF EmitAssumption, FastAssumption
  <2>6. CASE d > p \/ ~Same(p - d, p)
    <3>1. /\ reach' = Further(reach, p + 1 + HashRead)
          /\ ip' = p + 1 /\ fwd' = p + 1 /\ probes' = 2 ^ SkipStrength
          /\ pc' = "fast" /\ anchor' = p
      BY <1>2, <1>7, <2>6
    <3>2. p + 1 + HashRead \in Int /\ p + 1 + HashRead <= n
      BY <1>4, <2>1, <2>5
    <3>3. reach' \in Int /\ reach' <= n
      BY <1>1, <3>1, <3>2, FurtherIs
    <3> QED
      BY <1>1, <1>4, <1>5, <2>3, <2>5, <3>1, <3>3 DEF FastInv
  <2>7. CASE ~(d > p \/ ~Same(p - d, p))
    <3>1. /\ reach' = Further(reach, p + HashRead)
          /\ ip' = p /\ ref' = p - d /\ anchor' = p
          /\ UNCHANGED <<fwd, probes, pc>>
      BY <1>2, <1>7, <2>7
    <3>2. p + HashRead \in Int /\ p + HashRead <= n
      BY <1>1, <1>4, <2>1, <2>5
    <3>3. reach' \in Int /\ reach' <= n
      BY <1>1, <3>1, <3>2, FurtherIs
    <3>4. SameBytes(p, p - d, MinMatch)
      BY <2>7, SameSym DEF Same
    <3>5. Repeated(ip', ref', MinMatch)
      BY <1>4, <2>1, <2>4, <2>7, <3>1, <3>4 DEF Repeated
    <3>6. Repeated(ip, ref, MinMatch)'
      BY <1>1, <3>5 DEF Repeated, SameBytes, At
    <3> QED
      BY <1>1, <1>4, <1>5, <1>7, <2>3, <3>1, <3>3, <3>6 DEF FastInv
  <2> QED
    BY <2>6, <2>7
<1> QED
  BY <1>5, <1>6, <1>7

LEMMA FastStep ==
  ASSUME FastInv, [FastNext]_fastAll
  PROVE  FastInv' /\ [EmitsOne]_<<out, anchor>>
<1>1. CASE FastProbe \/ FastBack
  <2>1. FastInv' /\ UNCHANGED <<out, anchor>>
    BY <1>1, FastProbeStep, FastBackStep
  <2> QED
    BY <2>1 DEF EmitsOne
<1>2. CASE FastEmit
  BY <1>2, FastEmitStep
<1>3. CASE UNCHANGED fastAll
  BY <1>3 DEF fastAll, fastVars, FastInv, Repeated, SameBytes, At, Limit, n
<1> QED
  BY <1>1, <1>2, <1>3 DEF FastNext

LEMMA FastStart == InputInit /\ FastInit /\ pc = "fast" /\ reach = 0 => FastInv
<1> SUFFICES ASSUME InputInit, FastInit, pc = "fast", reach = 0 PROVE FastInv
  OBVIOUS
<1>1. src \in Inputs /\ anchor = 0 /\ 0 <= n
  BY InputLen DEF InputInit, n
<1> QED
  BY <1>1, FastAssumption DEF FastAssumption, FastInit, FastInv

LEMMA FastInvariance == FastSpec => []FastInv
BY FastStart, FastStep, PTL DEF FastSpec, fastAll

LEMMA FastCodes ==
  ASSUME FastInv, Codes, [FastNext]_fastAll
  PROVE  Codes'
<1>1. src' = src
  BY DEF FastNext, FastProbe, FastBack, FastEmit, fastAll
<1>2. FastInv' /\ [EmitsOne]_<<out, anchor>>
  BY FastStep
<1>3. pc # "optEmit" /\ anchor' \in Nat
  BY <1>2 DEF FastInv
<1> QED
  BY <1>1, <1>2, <1>3, CodesStep

(* Levels 0 and 1 hash nothing past the end of the input, although a turn   *)
(* of the search hashes the position it goes on to, and a match the one      *)
(* after its end.                                                            *)
THEOREM FastReadsInside == FastSpec => []ReadsInside
<1>1. FastInv => ReadsInside
  BY DEF FastInv, ReadsInside
<1> QED
  BY <1>1, FastInvariance, PTL

(* Levels 0 and 1 emit only what repeats: the table holds positions modulo   *)
(* Window, and what it holds of another hash or of a position never stored   *)
(* is compared before it is taken.                                           *)
THEOREM FastEmitsRepeats == FastSpec => EmitsRepeats
BY FastInvariance, FastStep, PTL DEF FastSpec, fastAll, EmitsRepeats

(* What levels 0 and 1 write, decoded, is the input, for every window,       *)
(* table of tokens, hash and input.                                          *)
THEOREM FastRoundTrip == FastSpec => []RoundTrip
<1>1. InputInit /\ out = [ctrl |-> <<>>, lit |-> <<>>] => Codes
  BY CodesStart
<1> QED
  BY <1>1, FastCodes, FastInvariance, CodesGiveBack, PTL DEF FastSpec, fastAll

--------------------------------------------------------------------------------
(* Levels 2 and 3.                                                           *)

MidTaken == Repeated(pos, pos - dist, len) /\ dist \in Int /\ anchor <= pos /\ pos < Limit

MidInv ==
  /\ src \in Inputs /\ anchor \in Nat /\ reach \in Int /\ reach <= n
  /\ tl \in [Buckets -> Int] /\ ts \in [Buckets -> Int]
  /\ pos \in Nat /\ anchor <= pos
  /\ pc \in {"mid", "midLazy", "midBelow", "midEmit", "done"}
  /\ pc \in {"midLazy", "midBelow", "midEmit"} => MidTaken

midAll == <<src, anchor, pc, out, reach, midVars>>

(* A candidate begins like the position.                                     *)
LEMMA MidCandIs ==
  ASSUME NEW t \in [Buckets -> Int], NEW h \in Buckets, NEW p \in Nat, p + MinMatch <= n
  PROVE  LET d == MidCand(t, h, p) IN
         d \in Nat /\ (d # 0 => Repeated(p, p - d, MinMatch))
<1>1. PICK s \in Int : s = t[h]
  OBVIOUS
<1>2. PICK d : d = FastDist(p, s)
  OBVIOUS
<1>3. d \in 1 .. Window
  <2>1. p \in Int
    OBVIOUS
  <2> QED
    BY ONLY <1>2, <2>1, s \in Int, FastDistIs
<1>4. MidCand(t, h, p) = IF d > p \/ ~Same(p - d, p) THEN 0 ELSE d
  BY <1>1, <1>2 DEF MidCand
<1>5. ASSUME ~(d > p), Same(p - d, p)
      PROVE  Repeated(p, p - d, MinMatch)
  <2>1. SameBytes(p, p - d, MinMatch)
    BY <1>5, SameSym DEF Same
  <2> QED
    BY <1>3, <1>5, <2>1 DEF Repeated
<1> QED
  BY <1>3, <1>4, <1>5

LEMMA LengthAtIs ==
  ASSUME n \in Nat, NEW p \in Nat, NEW d \in Nat, Repeated(p, p - d, MinMatch)
  PROVE  Repeated(p, p - d, LengthAt(p, d))
<1>1. PICK r : r = p - d
  OBVIOUS
<1>2. Repeated(p, r, MinMatch + CountMatch(p + MinMatch, r + MinMatch))
  <2>1. Repeated(p, r, MinMatch)
    BY <1>1
  <2> QED
    BY ONLY n \in Nat, <2>1, Extended
<1> QED
  BY <1>1, <1>2 DEF LengthAt

LEMMA MidFacts ==
  ASSUME MidInv
  PROVE  /\ src \in Inputs /\ n \in Nat /\ Limit \in Int /\ pos \in Nat /\ anchor \in Nat
         /\ reach \in Int /\ reach <= n /\ anchor <= pos
         /\ tl \in [Buckets -> Int] /\ ts \in [Buckets -> Int]
BY InputLen DEF MidInv, n, Limit

(* What a position before the limit is hashed to, and what is found there.   *)
LEMMA MidLooks ==
  ASSUME MidInv, NEW p \in Nat, p < Limit
  PROVE  /\ p + HashRead \in Int /\ p + HashRead <= n
         /\ MidCand(tl, HashLong(p), p) \in Nat /\ MidCand(ts, HashShort(p), p) \in Nat
         /\ MidCand(tl, HashLong(p), p) # 0 => Repeated(p, p - MidCand(tl, HashLong(p), p), MinMatch)
         /\ MidCand(ts, HashShort(p), p) # 0 => Repeated(p, p - MidCand(ts, HashShort(p), p), MinMatch)
<1>1. /\ src \in Inputs /\ n \in Nat /\ Limit \in Int
      /\ tl \in [Buckets -> Int] /\ ts \in [Buckets -> Int]
  BY MidFacts
<1>2. p + HashBytes <= n /\ p + MinMatch <= n /\ p + HashRead + 1 <= n
  <2>1. p \in Int /\ p <= Limit
    BY <1>1
  <2> QED
    BY ONLY <1>1, <2>1, InsideLimit
<1>3. p + HashRead \in Int /\ p + HashRead <= n
  BY <1>1, <1>2, EmitAssumption DEF EmitAssumption
<1>4. PICK h \in Buckets : h = HashLong(p)
  BY <1>1, <1>2, HashLongIs
<1>5. PICK g \in Buckets : g = HashShort(p)
  BY <1>1, <1>2, HashIs
<1>6. MidCand(tl, h, p) \in Nat /\ (MidCand(tl, h, p) # 0 => Repeated(p, p - MidCand(tl, h, p), MinMatch))
  BY ONLY <1>1, <1>2, h \in Buckets, p \in Nat, MidCandIs
<1>7. MidCand(ts, g, p) \in Nat /\ (MidCand(ts, g, p) # 0 => Repeated(p, p - MidCand(ts, g, p), MinMatch))
  BY ONLY <1>1, <1>2, g \in Buckets, p \in Nat, MidCandIs
<1> QED
  BY <1>3, <1>4, <1>5, <1>6, <1>7

LEMMA PutKeeps ==
  ASSUME NEW t \in [Buckets -> Int], NEW h, NEW p \in Int
  PROVE  Put(t, h, p) \in [Buckets -> Int]
BY PutIs DEF Put

LEMMA MidProbeStep ==
  ASSUME MidInv, MidProbe
  PROVE  MidInv' /\ UNCHANGED <<out, anchor>>
<1> DEFINE long == MidCand(tl, HashLong(pos), pos)
           found == IF long > 0 THEN long ELSE MidCand(ts, HashShort(pos), pos)
<1>1. /\ UNCHANGED <<src, out, anchor>> /\ n' = n /\ Limit' = Limit /\ pc = "mid"
      /\ src \in Inputs /\ n \in Nat /\ Limit \in Int /\ pos \in Nat /\ anchor \in Nat
      /\ reach \in Int /\ reach <= n /\ anchor <= pos
      /\ tl \in [Buckets -> Int] /\ ts \in [Buckets -> Int]
  BY MidFacts DEF MidProbe, n, Limit
<1>2. CASE TooShort \/ pos >= Limit
  BY <1>1, <1>2 DEF MidProbe, MidInv, midVars
<1>3. CASE ~(TooShort \/ pos >= Limit)
  <2>1. /\ tl' = Put(tl, HashLong(pos), pos)
        /\ ts' = Put(ts, HashShort(pos), pos)
        /\ reach' = Further(reach, pos + HashRead)
        /\ dist' = found
        /\ IF found = 0
           THEN /\ pos' = pos + 1 + ((pos - anchor) \div 2 ^ MidSkip)
                /\ UNCHANGED <<pc, len>>
           ELSE /\ len' = LengthAt(pos, found)
                /\ pc' = IF lazy THEN "midLazy" ELSE "midBelow"
                /\ UNCHANGED pos
    BY <1>3 DEF MidProbe
  <2>2. pos < Limit
    BY <1>1, <1>3
  <2>3. /\ pos + HashRead \in Int /\ pos + HashRead <= n
        /\ found \in Nat /\ (found # 0 => Repeated(pos, pos - found, MinMatch))
    BY <1>1, <2>2, MidLooks
  <2>4. tl' \in [Buckets -> Int] /\ ts' \in [Buckets -> Int]
    BY <1>1, <2>1, PutKeeps
  <2>5. reach' \in Int /\ reach' <= n
    BY <1>1, <2>1, <2>3, FurtherIs
  <2> HIDE DEF found
  <2>6. CASE found = 0
    <3>1. PICK e \in Nat \ {0} : e = 2 ^ MidSkip
      BY MidAssumption DEF MidAssumption
    <3>2. (pos - anchor) \div e \in Nat
      BY <1>1
    <3>3. pos' \in Nat /\ anchor <= pos' /\ pc' = "mid"
      BY <1>1, <2>1, <2>6, <3>1, <3>2
    <3> QED
      BY <1>1, <2>4, <2>5, <3>3 DEF MidInv
  <2>7. CASE found # 0
    <3>1. Repeated(pos, pos - found, LengthAt(pos, found))
      BY <1>1, <2>3, <2>7, LengthAtIs
    <3>2. len' = LengthAt(pos, found) /\ pos' = pos /\ pc' \in {"midLazy", "midBelow"}
          /\ dist' = found
      BY <2>1, <2>7
    <3>3. Repeated(pos', pos' - dist', len')
      BY <3>1, <3>2
    <3>4. MidTaken'
      BY <1>1, <2>2, <2>3, <3>2, <3>3 DEF MidTaken, Repeated, SameBytes, At
    <3> QED
      BY <1>1, <2>4, <2>5, <3>2, <3>4 DEF MidInv
  <2> QED
    BY <1>1, <2>6, <2>7
<1> QED
  BY <1>2, <1>3

(* One byte later: a longer match there is taken instead.                    *)
LEMMA LaterTaken ==
  ASSUME MidInv, MidTaken, NEW d \in Nat, pos + 1 < Limit, Repeated(pos + 1, pos + 1 - d, MinMatch),
         src' = src, anchor' = anchor,
         pos' = pos + 1, len' = LengthAt(pos + 1, d), dist' = d
  PROVE  MidTaken'
<1>1. n' = n /\ Limit' = Limit /\ n \in Nat /\ pos \in Nat /\ anchor \in Nat /\ anchor <= pos
  BY MidFacts DEF n, Limit
<1>2. PICK k \in Nat : k = pos + 1
  BY <1>1
<1>3. Repeated(k, k - d, LengthAt(k, d))
  BY <1>1, <1>2, LengthAtIs
<1>4. Repeated(pos', pos' - dist', len')
  BY <1>2, <1>3
<1> QED
  BY <1>1, <1>2, <1>4 DEF MidTaken, Repeated, SameBytes, At

LEMMA MidLazyStep ==
  ASSUME MidInv, MidLazy \/ MidBelow
  PROVE  MidInv' /\ UNCHANGED <<out, anchor>>
<1> DEFINE k == pos + 1
           long == MidCand(tl, HashLong(k), k)
           short == MidCand(ts, HashShort(k), k)
           later == IF long = 0 THEN short ELSE long
<1>1. /\ UNCHANGED <<src, out, anchor>> /\ n' = n /\ Limit' = Limit
      /\ src \in Inputs /\ n \in Nat /\ Limit \in Int /\ pos \in Nat /\ anchor \in Nat
      /\ reach \in Int /\ reach <= n /\ anchor <= pos
      /\ tl \in [Buckets -> Int] /\ ts \in [Buckets -> Int] /\ MidTaken
  BY MidFacts DEF MidInv, MidLazy, MidBelow, n, Limit
<1>2. pc' \in {"midLazy", "midEmit"}
  BY DEF MidLazy, MidBelow
<1>3. CASE UNCHANGED <<tl, ts, pos, len, dist, reach>>
  <2>1. MidTaken'
    BY <1>1, <1>3 DEF MidTaken, Repeated, SameBytes, At
  <2> QED
    BY <1>1, <1>2, <1>3, <2>1 DEF MidInv
<1>4. CASE k < Limit /\ ~UNCHANGED <<tl, ts, pos, len, dist, reach>>
  <2>1. k \in Nat
    BY <1>1
  <2>2. /\ tl' = Put(tl, HashLong(k), k)
        /\ ts' = Put(ts, HashShort(k), k) \/ ts' = ts
        /\ reach' = Further(reach, k + HashRead)
        /\ \/ UNCHANGED <<pos, len, dist>>
           \/ later # 0 /\ pos' = k /\ len' = LengthAt(k, later) /\ dist' = later
           \/ long > 0 /\ pos' = k /\ len' = LengthAt(k, long) /\ dist' = long
    BY <1>4 DEF MidLazy, MidBelow
  <2>3. /\ k + HashRead \in Int /\ k + HashRead <= n
        /\ later \in Nat /\ (later # 0 => Repeated(k, k - later, MinMatch))
        /\ long \in Nat /\ (long # 0 => Repeated(k, k - long, MinMatch))
    <3> HIDE DEF k
    <3> QED
      BY <1>4, <2>1, MidLooks
  <2>4. tl' \in [Buckets -> Int] /\ ts' \in [Buckets -> Int]
    <3> HIDE DEF k
    <3> QED
      BY <1>1, <2>1, <2>2, PutKeeps
  <2>5. reach' \in Int /\ reach' <= n
    BY <1>1, <2>2, <2>3, FurtherIs
  <2> HIDE DEF long, later
  <2>6. MidTaken' /\ pos' \in Nat /\ anchor <= pos'
    <3>1. CASE UNCHANGED <<pos, len, dist>>
      BY <1>1, <3>1 DEF MidTaken, Repeated, SameBytes, At
    <3>2. ASSUME NEW d \in Nat, Repeated(k, k - d, MinMatch), pos' = k, len' = LengthAt(k, d), dist' = d
          PROVE  MidTaken'
      BY <1>1, <1>4, <3>2, LaterTaken
    <3>3. CASE ~UNCHANGED <<pos, len, dist>>
      <4>1. MidTaken'
        BY <2>2, <2>3, <3>2, <3>3
      <4>2. pos' = k
        BY <2>2, <3>3
      <4> QED
        BY <1>1, <4>1, <4>2
    <3> QED
      BY <3>1, <3>3
  <2> QED
    BY <1>1, <1>2, <2>4, <2>5, <2>6 DEF MidInv
<1>5. k < Limit \/ UNCHANGED <<tl, ts, pos, len, dist, reach>>
  BY DEF MidLazy, MidBelow
<1> QED
  BY <1>3, <1>4, <1>5

LEMMA MidEmitStep ==
  ASSUME MidInv, MidEmit
  PROVE  MidInv' /\ EmitsOne
<1>1. /\ src' = src /\ n' = n /\ Limit' = Limit
      /\ src \in Inputs /\ n \in Nat /\ Limit \in Int /\ pos \in Nat /\ anchor \in Nat
      /\ reach \in Int /\ reach <= n /\ anchor <= pos
      /\ tl \in [Buckets -> Int] /\ ts \in [Buckets -> Int] /\ MidTaken
  BY MidFacts DEF MidInv, MidEmit, n, Limit
<1>2. PICK b : b = CountBack(pos, pos - dist, anchor)
  OBVIOUS
<1>3. PICK p, end, r : p = pos - b /\ end = pos + len /\ r = pos - dist
  OBVIOUS
<1>4. /\ out' = EmitSequence(out, anchor, p, dist, len + b)
      /\ IF end < Limit
         THEN /\ tl' = Put(Put(tl, HashLong(p + 1), p + 1), HashLong(end - 2), end - 2)
              /\ ts' = Put(Put(ts, HashShort(p + 2), p + 2), HashShort(end - 1), end - 1)
              /\ reach' = Further(reach, Further(p + 1, end - 2) + HashRead)
         ELSE UNCHANGED <<tl, ts, reach>>
      /\ pos' = end /\ anchor' = end /\ pc' = "mid"
  BY <1>2, <1>3 DEF MidEmit
<1>5. Repeated(pos, r, len) /\ dist \in Int /\ pos < Limit
  BY <1>1, <1>3 DEF MidTaken
<1>6. BackOf(pos, r, len, anchor, b)
  <2>1. b = CountBack(pos, r, anchor)
    BY <1>2, <1>3
  <2> QED
    BY ONLY <1>1, <1>5, <2>1, ExtendedBack
<1>7. b \in 0 .. r /\ p >= anchor /\ Repeated(p, r - b, len + b)
  BY <1>3, <1>6 DEF BackOf
<1>8. /\ r \in Nat /\ len \in Nat /\ len >= MinMatch /\ end \in Nat /\ end <= n /\ p \in Nat
      /\ p <= pos /\ end = p + (len + b) /\ dist = p - (r - b) /\ p + 3 <= end
  BY <1>1, <1>3, <1>5, <1>7 DEF Repeated
<1>9. EmitsOne
  <2>1. PICK y, z : y = r - b /\ z = len + b
    OBVIOUS
  <2>2. Repeated(p, y, z) /\ anchor <= p /\ anchor' = p + z
        /\ out' = EmitSequence(out, anchor, p, p - y, z)
    BY <1>1, <1>4, <1>7, <1>8, <2>1
  <2> QED
    BY ONLY <1>1, <2>2, EmitsOneIs
<1>10. CASE end < Limit
  <2>1. /\ p + 1 \in Int /\ p + 2 \in Int /\ end - 2 \in Int /\ end - 1 \in Int
    BY <1>8
  <2>2. tl' \in [Buckets -> Int] /\ ts' \in [Buckets -> Int]
    BY <1>1, <1>4, <1>10, <2>1, PutKeeps
  <2>3. Further(p + 1, end - 2) \in Int /\ Further(p + 1, end - 2) <= Limit
    BY <1>1, <1>8, <1>10 DEF Further
  <2>4. PICK f \in Int : f = Further(p + 1, end - 2) /\ f <= Limit
    BY <2>3
  <2>5. f + HashRead \in Int /\ f + HashRead <= n
    <3>1. f + HashRead + 1 <= n
      BY <1>1, <2>4, InsideLimit
    <3> QED
      BY <1>1, <3>1, EmitAssumption DEF EmitAssumption
  <2>6. reach' \in Int /\ reach' <= n
    BY <1>1, <1>4, <1>10, <2>4, <2>5, FurtherIs
  <2> QED
    BY <1>1, <1>4, <1>8, <1>9, <2>2, <2>6 DEF MidInv
<1>11. CASE ~(end < Limit)
  BY <1>1, <1>4, <1>8, <1>9, <1>11 DEF MidInv
<1> QED
  BY <1>10, <1>11

LEMMA MidStep ==
  ASSUME MidInv, [MidNext]_midAll
  PROVE  MidInv' /\ [EmitsOne]_<<out, anchor>>
<1>1. CASE MidProbe \/ MidLazy \/ MidBelow
  <2>1. MidInv' /\ UNCHANGED <<out, anchor>>
    BY <1>1, MidProbeStep, MidLazyStep
  <2> QED
    BY <2>1 DEF EmitsOne
<1>2. CASE MidEmit
  BY <1>2, MidEmitStep
<1>3. CASE UNCHANGED midAll
  BY <1>3 DEF midAll, midVars, MidInv, MidTaken, Repeated, SameBytes, At, Limit, n
<1> QED
  BY <1>1, <1>2, <1>3 DEF MidNext

LEMMA MidStart == InputInit /\ MidInit /\ pc = "mid" /\ reach = 0 => MidInv
<1> SUFFICES ASSUME InputInit, MidInit, pc = "mid", reach = 0 PROVE MidInv
  OBVIOUS
<1>1. src \in Inputs /\ anchor = 0 /\ 0 <= n
  BY InputLen DEF InputInit, n
<1> QED
  BY <1>1 DEF MidInit, MidInv

LEMMA MidInvariance == MidSpec => []MidInv
BY MidStart, MidStep, PTL DEF MidSpec, midAll

LEMMA MidCodes ==
  ASSUME MidInv, Codes, [MidNext]_midAll
  PROVE  Codes'
<1>1. src' = src
  BY DEF MidNext, MidProbe, MidLazy, MidBelow, MidEmit, midAll
<1>2. MidInv' /\ [EmitsOne]_<<out, anchor>>
  BY MidStep
<1>3. pc # "optEmit" /\ anchor' \in Nat
  BY <1>2 DEF MidInv
<1> QED
  BY <1>1, <1>2, <1>3, CodesStep

(* Levels 2 and 3 hash nothing past the end of the input, before, inside or  *)
(* after a match.                                                            *)
THEOREM MidReadsInside == MidSpec => []ReadsInside
<1>1. MidInv => ReadsInside
  BY DEF MidInv, ReadsInside
<1> QED
  BY <1>1, MidInvariance, PTL

(* Levels 2 and 3 emit only what repeats, whichever of the tables it came    *)
(* from and however often it was given up for a longer match a byte later.   *)
THEOREM MidEmitsRepeats == MidSpec => EmitsRepeats
BY MidInvariance, MidStep, PTL DEF MidSpec, midAll, EmitsRepeats

(* So it is for levels 2 and 3, whatever their lazy search gives up.         *)
THEOREM MidRoundTrip == MidSpec => []RoundTrip
<1>1. InputInit /\ out = [ctrl |-> <<>>, lit |-> <<>>] => Codes
  BY CodesStart
<1> QED
  BY <1>1, MidCodes, MidInvariance, CodesGiveBack, PTL DEF MidSpec, midAll

--------------------------------------------------------------------------------
(* Levels 4 to 8: the parse.                                                 *)

Match == [at : Int, from : Int, len : Int]

Typed ==
  /\ src \in Inputs
  /\ anchor \in Int
  /\ state \in {0, 2, 3}
  /\ pc \in {"turn", "search", "found", "emit2", "done"}
  /\ cur \in Match /\ first \in Match /\ second \in Match
  /\ hit \in Match /\ emitted \in Match
  /\ ask \in [pos : Int, low : Int, longest : Int]

(* TrueMatch, of an input that is named.                                     *)
Repeats(s, at, from, ln) == \A k \in 0 .. ln - 1 : s[at + k + 1] = s[from + k + 1]

TrueIn(s, m) ==
  /\ 0 <= m.from /\ m.from < m.at /\ m.at - m.from < Window
  /\ m.at + m.len <= Len(s)
  /\ Repeats(s, m.at, m.from, m.len)

(* A match in hand: it can still be written.                                 *)
Held(s, a, m) == TrueIn(s, m) /\ m.at >= a /\ m.len >= MinMatch

(* What the search of this state is after, and the end of the longest match  *)
(* in hand.                                                                  *)
Low == IF state = 3 THEN second.at ELSE cur.at
LongestSoFar == CASE state = 0 -> MinMatch - 1 [] state = 2 -> cur.len [] OTHER -> second.len
Covered == IF state = 3 THEN End(second) ELSE End(cur)

InHand ==
  pc \in {"turn", "search", "found"} =>
    /\ cur.at >= anchor
    /\ state = 2 => Held(src, anchor, cur) /\ Held(src, anchor, first)
    /\ state = 3 => /\ Held(src, anchor, cur) /\ Held(src, anchor, second)
                    /\ second.at >= cur.at

Asked ==
  /\ pc = "turn" =>
       IF state = 0 THEN ask.pos < cur.at ELSE ask.pos + MinMatch <= Covered
  /\ pc = "search" => ask.low = Low /\ ask.longest = LongestSoFar
  /\ pc \in {"search", "found"} =>
       IF state = 0 THEN ask.pos = cur.at ELSE ask.pos < Covered

Answered ==
  pc = "found" =>
    \/ hit.len = LongestSoFar
    \/ /\ TrueIn(src, hit)
       /\ Low <= hit.at
       /\ hit.at <= ask.pos
       /\ hit.len > LongestSoFar
       /\ End(hit) >= ask.pos + MinMatch

Last == pc = "emit2" => Held(src, anchor, second) /\ ask.pos < End(second)

TrueEmitted == emitted.len >= MinMatch => TrueIn(src, emitted)

IInv == Typed /\ TrueEmitted /\ InHand /\ Asked /\ Answered /\ Last

--------------------------------------------------------------------------------
LEMMA MatchFields ==
  /\ \A m \in Match : m.at \in Int /\ m.from \in Int /\ m.len \in Int
  /\ \A a, f, l \in Int : [at |-> a, from |-> f, len |-> l] \in Match
  /\ \A m \in Match : \A l \in Int : [m EXCEPT !.len = l] \in Match
  /\ \A m \in Match : \A a \in Int : [m EXCEPT !.at = a] \in Match
BY DEF Match

LEMMA TypedFields ==
  ASSUME Typed
  PROVE  /\ src \in Inputs /\ n \in Nat /\ Limit \in Int
         /\ cur.at \in Int /\ cur.from \in Int /\ cur.len \in Int
         /\ first.at \in Int /\ first.from \in Int /\ first.len \in Int
         /\ second.at \in Int /\ second.from \in Int /\ second.len \in Int
         /\ hit.at \in Int /\ hit.from \in Int /\ hit.len \in Int
         /\ End(cur) = cur.at + cur.len /\ End(second) = second.at + second.len
         /\ End(hit) = hit.at + hit.len /\ End(first) = first.at + first.len
<1>1. src \in Inputs /\ n \in Nat /\ Limit \in Int
  BY InputLen DEF Typed, n, Limit
<1>2. cur \in Match /\ first \in Match /\ second \in Match /\ hit \in Match
  BY DEF Typed
<1> QED
  BY <1>1, <1>2, MatchFields DEF End

LEMMA TrueInIs == \A m : TrueMatch(m) <=> TrueIn(src, m)
BY DEF TrueMatch, TrueIn, Repeats, SameBytes, At, End, n

(* A match whose start is moved, with what it repeats, is still one.         *)
LEMMA LaterTrue ==
  ASSUME NEW s, NEW m \in Match, NEW k \in Nat, TrueIn(s, m)
  PROVE  /\ Later(m, k) \in Match
         /\ TrueIn(s, Later(m, k))
<1>1. /\ m.at \in Int /\ m.from \in Int /\ m.len \in Int
  BY MatchFields
<1>2. Repeats(s, m.at, m.from, m.len)
  BY DEF TrueIn
<1>3. Repeats(s, m.at + k, m.from + k, m.len - k)
  <2>1. SUFFICES ASSUME NEW j \in 0 .. (m.len - k) - 1
                 PROVE  s[m.at + k + j + 1] = s[m.from + k + j + 1]
    BY DEF Repeats
  <2>2. /\ j + k \in 0 .. m.len - 1
        /\ m.at + k + j + 1 = m.at + (j + k) + 1
        /\ m.from + k + j + 1 = m.from + (j + k) + 1
    BY <1>1
  <2>3. s[m.at + (j + k) + 1] = s[m.from + (j + k) + 1]
    BY <1>2, <2>2 DEF Repeats
  <2> QED
    BY <2>2, <2>3
<1>4. /\ Later(m, k).at = m.at + k /\ Later(m, k).from = m.from + k
      /\ Later(m, k).len = m.len - k
  BY DEF Later
<1>5. Later(m, k) \in Match
  BY <1>1 DEF Later, Match
<1>6. /\ 0 <= m.from + k /\ m.from + k < m.at + k /\ m.at + k - (m.from + k) < Window
      /\ m.at + k + (m.len - k) = m.at + m.len
  <2>1. PICK a \in Int, f \in Int, l \in Int : a = m.at /\ f = m.from /\ l = m.len
    BY <1>1
  <2>2. 0 <= f /\ f < a /\ a - f < Window
    BY <2>1 DEF TrueIn
  <2>3. /\ 0 <= f + k /\ f + k < a + k /\ a + k - (f + k) < Window
        /\ a + k + (l - k) = a + l
    BY ONLY <2>2, a \in Int, f \in Int, l \in Int, k \in Nat
  <2> QED
    BY <2>1, <2>3
<1>7. m.at + m.len <= Len(s)
  BY DEF TrueIn
<1>8. Repeats(s, Later(m, k).at, Later(m, k).from, Later(m, k).len)
  BY <1>3, <1>4
<1>9. Later(m, k).at + Later(m, k).len <= Len(s)
  BY <1>4, <1>6, <1>7
<1>10. /\ 0 <= Later(m, k).from /\ Later(m, k).from < Later(m, k).at
       /\ Later(m, k).at - Later(m, k).from < Window
  BY <1>1, <1>4, <1>6
<1> QED
  BY <1>5, <1>8, <1>9, <1>10 DEF TrueIn

(* A match that is cut short is still one.                                   *)
LEMMA UptoTrue ==
  ASSUME NEW s, NEW m \in Match, NEW k \in Int, k <= m.len, TrueIn(s, m),
         Len(s) \in Nat
  PROVE  /\ Upto(m, k) \in Match
         /\ TrueIn(s, Upto(m, k))
         /\ Upto(m, k).at = m.at /\ Upto(m, k).len = k
<1>1. /\ m.at \in Int /\ m.from \in Int /\ m.len \in Int
  BY MatchFields
<1>2. Repeats(s, m.at, m.from, k)
  BY <1>1 DEF TrueIn, Repeats
<1>3. Upto(m, k).at = m.at /\ Upto(m, k).from = m.from /\ Upto(m, k).len = k
  BY DEF Upto, Match
<1>4. Upto(m, k) \in Match
  BY MatchFields DEF Upto
<1>5. m.at + k <= Len(s)
  BY <1>1 DEF TrueIn
<1> QED
  BY <1>2, <1>3, <1>4, <1>5 DEF TrueIn

(* second, moved after the first `len` bytes of cur.                         *)
LEMMA SecondAfterHeld ==
  ASSUME Typed, TrueIn(src, second), NEW ln \in Int,
         ln <= second.at - cur.at + second.len - MinMatch,
         second.len >= MinMatch
  PROVE  /\ SecondAfter(ln) \in Match
         /\ TrueIn(src, SecondAfter(ln))
         /\ SecondAfter(ln).len >= MinMatch
         /\ SecondAfter(ln).at >= second.at
         /\ SecondAfter(ln).at >= cur.at + ln
         /\ SecondAfter(ln).at = second.at \/ SecondAfter(ln).at = cur.at + ln
         /\ SecondAfter(ln).at + SecondAfter(ln).len = End(second)
<1> DEFINE corr == ln - (second.at - cur.at)
<1>1. corr \in Int
  BY TypedFields
<1>2. second \in Match
  BY DEF Typed
<1>3. CASE corr > 0
  <2>1. SecondAfter(ln) = Later(second, corr)
    BY <1>3 DEF SecondAfter
  <2>2. corr \in Nat
    BY <1>1, <1>3
  <2>3. Later(second, corr) \in Match /\ TrueIn(src, Later(second, corr))
    BY <1>2, <2>2, LaterTrue
  <2>4. /\ Later(second, corr).at = second.at + corr
        /\ Later(second, corr).len = second.len - corr
    BY DEF Later
  <2>5. /\ second.len - corr >= MinMatch
        /\ second.at + corr >= second.at /\ second.at + corr = cur.at + ln
        /\ second.at + corr + (second.len - corr) = End(second)
    BY <1>1, <1>3, TypedFields
  <2> QED
    BY <2>1, <2>3, <2>4, <2>5, TypedFields
<1>4. CASE ~(corr > 0)
  <2>1. SecondAfter(ln) = second
    BY <1>4 DEF SecondAfter
  <2> QED
    BY <1>1, <1>2, <1>4, <2>1, TypedFields
<1> QED
  BY <1>3, <1>4

(* cur's length as OptimalLen cuts it leaves both enough.                    *)
LEMMA OptimalLenFits ==
  ASSUME Typed
  PROVE  /\ OptimalLen \in Int
         /\ OptimalLen <= cur.len
         /\ OptimalLen <= second.at - cur.at + second.len - MinMatch
BY TypedFields DEF OptimalLen

--------------------------------------------------------------------------------
(* Every action keeps the invariant.                                         *)

LEMMA Turn3Inv ==
  ASSUME IInv, Turn3
  PROVE  IInv'
<1> DEFINE s == IF Close THEN SecondAfter(OptimalLen) ELSE second
<1>1. /\ Typed /\ TrueEmitted /\ InHand /\ Asked /\ pc = "turn" /\ state = 3
      /\ Held(src, anchor, cur) /\ Held(src, anchor, second) /\ second.at >= cur.at
  BY DEF IInv, Turn3, InLoop, InHand
<1>2. /\ UNCHANGED <<src, anchor, state, cur, first, emitted>>
      /\ second' = s
      /\ End(s) <= Limit => Ask(End(s) - 3, s.at, s.len)
      /\ ~(End(s) <= Limit) => NoAsk(s.len)
  BY DEF Turn3
<1>3. /\ s \in Match /\ TrueIn(src, s) /\ s.len >= MinMatch
      /\ s.at >= second.at /\ End(s) = End(second)
      /\ s.at \in Int /\ s.len \in Int /\ End(s) = s.at + s.len
  <2>1. CASE Close
    BY <1>1, <2>1, SecondAfterHeld, OptimalLenFits, MatchFields DEF Held, End
  <2>2. CASE ~Close
    BY <1>1, <2>2, TypedFields DEF Held, Typed
  <2> QED
    BY <2>1, <2>2
<1> HIDE DEF s
<1>4. Held(src, anchor, s)
  BY <1>1, <1>3, TypedFields DEF Held, Typed
<1>5. ask.pos + MinMatch <= End(s) /\ ask.pos \in Int
  BY <1>1, <1>3 DEF Asked, Covered, Typed
<1>6. CASE End(s) <= Limit
  <2>1. /\ ask' = [pos |-> End(s) - 3, low |-> s.at, longest |-> s.len]
        /\ pc' = "search" /\ hit' = hit
    BY <1>2, <1>6 DEF Ask
  <2>2. ask' \in [pos : Int, low : Int, longest : Int]
    BY <1>3, <2>1
  <2>3. Typed'
    BY <1>1, <1>2, <1>3, <2>1, <2>2 DEF Typed
  <2>4. InHand'
    BY <1>1, <1>2, <1>3, <1>4, <2>1, TypedFields DEF InHand, Typed
  <2>5. Asked'
    BY <1>1, <1>2, <1>3, <2>1 DEF Asked, Low, LongestSoFar, Covered
  <2> QED
    BY <1>1, <1>2, <2>1, <2>3, <2>4, <2>5 DEF IInv, TrueEmitted, Answered, Last
<1>7. CASE ~(End(s) <= Limit)
  <2>1. hit' = [hit EXCEPT !.len = s.len] /\ pc' = "found" /\ ask' = ask
    BY <1>2, <1>7 DEF NoAsk
  <2>2. hit' \in Match /\ hit'.len = s.len
    BY <1>1, <1>3, <2>1, MatchFields DEF Typed, Match
  <2>3. Typed'
    BY <1>1, <1>2, <1>3, <2>1, <2>2 DEF Typed
  <2>4. InHand'
    BY <1>1, <1>2, <1>3, <1>4, <2>1, TypedFields DEF InHand, Typed
  <2>5. Asked'
    BY <1>1, <1>2, <1>3, <1>5, <2>1 DEF Asked, Low, LongestSoFar, Covered
  <2>6. Answered'
    BY <1>1, <1>2, <2>1, <2>2 DEF Answered, LongestSoFar
  <2> QED
    BY <1>1, <1>2, <2>1, <2>3, <2>4, <2>5, <2>6 DEF IInv, TrueEmitted, Last
<1> QED
  BY <1>6, <1>7

LEMMA TurnInv ==
  ASSUME IInv, Leave \/ Turn0 \/ Turn2
  PROVE  IInv'
<1> USE DEF IInv
<1>1. CASE Leave
  BY <1>1 DEF Leave, chainVars, heldVars, Typed, TrueEmitted, InHand, Asked, Answered, Last
<1>2. CASE Turn0
  BY <1>2, TypedFields DEF Turn0, InLoop, Ask, heldVars, Typed, TrueEmitted, InHand, Asked,
     Answered, Last, Low, LongestSoFar, Covered
<1>3. CASE Turn2
  <2>1. /\ Typed /\ TrueEmitted /\ InHand /\ Asked /\ pc = "turn" /\ state = 2
        /\ Held(src, anchor, cur)
    BY <1>3 DEF Turn2, InLoop, InHand
  <2>2. UNCHANGED <<src, anchor, state, cur, first, second, emitted>>
    BY <1>3 DEF Turn2, heldVars
  <2>3. ask.pos + MinMatch <= End(cur) /\ ask.pos \in Int
    BY <2>1 DEF Asked, Covered, Typed
  <2>4. CASE Ask(End(cur) - 2, cur.at, cur.len)
    <3>1. /\ ask' = [pos |-> End(cur) - 2, low |-> cur.at, longest |-> cur.len]
          /\ pc' = "search" /\ hit' = hit
      BY <2>4 DEF Ask
    <3>2. ask' \in [pos : Int, low : Int, longest : Int]
      BY <2>1, <3>1, TypedFields
    <3>3. Typed'
      BY <2>1, <2>2, <3>1, <3>2 DEF Typed
    <3>4. InHand'
      BY <2>1, <2>2, <3>1 DEF InHand
    <3>5. Asked'
      BY <2>1, <2>2, <3>1, TypedFields DEF Asked, Low, LongestSoFar, Covered
    <3> QED
      BY <2>1, <2>2, <3>1, <3>3, <3>4, <3>5 DEF TrueEmitted, Answered, Last
  <2>5. CASE NoAsk(cur.len)
    <3>1. hit' = [hit EXCEPT !.len = cur.len] /\ pc' = "found" /\ ask' = ask
      BY <2>5 DEF NoAsk
    <3>2. hit' \in Match /\ hit'.len = cur.len
      BY <2>1, <3>1, TypedFields, MatchFields DEF Typed, Match
    <3>3. Typed'
      BY <2>1, <2>2, <3>1, <3>2 DEF Typed
    <3>4. InHand'
      BY <2>1, <2>2, <3>1 DEF InHand
    <3>5. Asked'
      BY <2>1, <2>2, <2>3, <3>1, TypedFields DEF Asked, Low, LongestSoFar, Covered
    <3>6. Answered'
      BY <2>1, <2>2, <3>1, <3>2 DEF Answered, LongestSoFar
    <3> QED
      BY <2>1, <2>2, <3>1, <3>3, <3>4, <3>5, <3>6 DEF TrueEmitted, Last
  <2> QED
    BY <1>3, <2>4, <2>5 DEF Turn2
<1> QED
  BY <1>1, <1>2, <1>3

LEMMA SearchInv ==
  ASSUME IInv, SearchFinds \/ SearchFails
  PROVE  IInv'
<1>1. /\ Typed /\ TrueEmitted /\ InHand /\ Asked /\ pc = "search"
      /\ UNCHANGED <<src, anchor, state, cur, first, second, ask, emitted>>
      /\ pc' = "found"
  BY DEF IInv, SearchFinds, SearchFails, heldVars
<1>2. ask.low = Low /\ ask.longest = LongestSoFar
  BY <1>1 DEF Asked
<1>3. Low' = Low /\ LongestSoFar' = LongestSoFar /\ Covered' = Covered
  BY <1>1 DEF Low, LongestSoFar, Covered, End
<1>4. InHand' /\ Asked'
  BY <1>1, <1>3 DEF InHand, Asked
<1>5. hit' \in Match /\ Answered'
  <2>1. CASE SearchFinds
    <3>1. /\ hit' \in [at : ask.low .. ask.pos, from : 0 .. n, len : ask.longest + 1 .. n]
          /\ End(hit') >= ask.pos + MinMatch /\ TrueIn(src, hit')
      BY <2>1, TrueInIs DEF SearchFinds, Answers
    <3>2. /\ ask.low \in Int /\ ask.pos \in Int /\ ask.longest \in Int /\ n \in Nat
      BY <1>1, TypedFields DEF Typed
    <3>3. /\ hit'.at \in Int /\ hit'.len \in Int /\ ask.low <= hit'.at
          /\ hit'.at <= ask.pos /\ hit'.len > ask.longest
      BY <3>1, <3>2
    <3>4. hit' \in Match
      BY <3>1, <3>2 DEF Match
    <3> QED
      BY <1>1, <1>2, <1>3, <3>1, <3>3, <3>4 DEF Answered, End
  <2>2. CASE SearchFails
    <3>1. hit' = [hit EXCEPT !.len = ask.longest] /\ ask.longest \in Int
      BY <1>1, <2>2 DEF SearchFails, Typed
    <3>2. hit' \in Match /\ hit'.len = ask.longest
      BY <1>1, <3>1, MatchFields DEF Typed, Match
    <3> QED
      BY <1>1, <1>2, <1>3, <3>2 DEF Answered
  <2> QED
    BY <2>1, <2>2
<1>6. Typed'
  BY <1>1, <1>5 DEF Typed
<1> QED
  BY <1>1, <1>4, <1>5, <1>6 DEF IInv, TrueEmitted, Last

(* What an answer longer than the match in hand is.                          *)
LEMMA Better ==
  ASSUME IInv, pc = "found", hit.len # LongestSoFar
  PROVE  /\ hit \in Match /\ TrueIn(src, hit)
         /\ Low <= hit.at /\ hit.at <= ask.pos
         /\ hit.len > LongestSoFar /\ End(hit) >= ask.pos + MinMatch
BY DEF IInv, Typed, Answered

(* hc_emit writes a true match, and moves anchor to its end or not at all.   *)
LEMMA EmitWrites ==
  ASSUME Typed, NEW m \in Match, TrueIn(src, m), Emit(m), src' = src
  PROVE  /\ emitted' \in Match /\ TrueEmitted' /\ anchor' \in Int
         /\ m.len < MinMatch => anchor' = anchor
         /\ m.len >= MinMatch => anchor' = m.at + m.len
<1>1. m.at \in Int /\ m.len \in Int
  BY MatchFields
<1> QED
  BY <1>1 DEF Emit, TrueEmitted, Typed, End

LEMMA Found0Inv ==
  ASSUME IInv, Found0
  PROVE  IInv'
<1>1. /\ Typed /\ TrueEmitted /\ InHand /\ Asked /\ pc = "found" /\ state = 0
      /\ UNCHANGED <<src, anchor, second, ask, hit, emitted>> /\ pc' = "turn"
      /\ cur.at >= anchor /\ ask.pos = cur.at /\ anchor \in Int
  BY DEF IInv, Found0, InHand, Asked, Typed
<1>2. CASE hit.len < MinMatch
  <2>1. cur' = [cur EXCEPT !.at = cur.at + 1] /\ first' = first /\ state' = 0
    BY <1>1, <1>2 DEF Found0
  <2>2. cur' \in Match /\ cur'.at = cur.at + 1
    BY <1>1, <2>1, TypedFields, MatchFields DEF Typed, Match
  <2>3. Typed'
    BY <1>1, <2>1, <2>2 DEF Typed
  <2>4. InHand' /\ Asked'
    BY <1>1, <2>1, <2>2, TypedFields DEF InHand, Asked
  <2> QED
    BY <1>1, <2>3, <2>4 DEF IInv, TrueEmitted, Answered, Last
<1>3. CASE ~(hit.len < MinMatch)
  <2>1. /\ cur' = [at |-> cur.at, from |-> hit.from, len |-> hit.len]
        /\ first' = cur' /\ state' = 2
    BY <1>1, <1>3 DEF Found0
  <2>2. cur' \in Match /\ cur'.at = cur.at /\ cur'.from = hit.from /\ cur'.len = hit.len
    BY <1>1, <2>1, TypedFields, MatchFields
  <2>3. /\ TrueIn(src, hit) /\ cur.at <= hit.at /\ hit.at <= cur.at
        /\ End(hit) >= ask.pos + MinMatch
    BY <1>1, <1>3, Better, TypedFields DEF LongestSoFar, Low
  <2>4. TrueIn(src, cur') /\ End(cur') = End(hit) /\ cur'.len >= MinMatch
    <3>1. hit.at = cur.at
      BY <1>1, <2>3, TypedFields
    <3>2. cur'.at = hit.at /\ cur'.from = hit.from /\ cur'.len = hit.len
      BY <2>2, <3>1
    <3>3. TrueIn(src, cur') /\ End(cur') = End(hit)
      BY <2>3, <3>2 DEF TrueIn, End
    <3> QED
      BY <1>1, <1>3, <3>2, <3>3, TypedFields
  <2>5. Typed'
    BY <1>1, <2>1, <2>2 DEF Typed
  <2>6. InHand'
    BY <1>1, <2>1, <2>2, <2>4 DEF InHand, Held
  <2>7. Asked'
    BY <1>1, <2>1, <2>3, <2>4 DEF Asked, Covered, End
  <2> QED
    BY <1>1, <2>5, <2>6, <2>7 DEF IInv, TrueEmitted, Answered, Last
<1> QED
  BY <1>2, <1>3

LEMMA Found2LastInv ==
  ASSUME IInv, Found2Last
  PROVE  IInv'
<1>1. /\ Typed /\ InHand /\ Asked /\ pc = "found" /\ state = 2
      /\ UNCHANGED <<src, first, second, ask, hit>> /\ pc' = "turn" /\ state' = 0
      /\ Held(src, anchor, cur) /\ ask.pos < End(cur) /\ cur \in Match
      /\ Emit(cur) /\ cur' = [cur EXCEPT !.at = End(cur)]
  BY DEF IInv, Found2Last, InHand, Asked, Typed, Covered
<1>2. emitted' \in Match /\ TrueEmitted' /\ anchor' \in Int /\ anchor' = End(cur)
  BY <1>1, EmitWrites, TypedFields DEF Held
<1>3. cur' \in Match /\ cur'.at = End(cur)
  BY <1>1, TypedFields, MatchFields DEF Match
<1>4. Typed'
  BY <1>1, <1>2, <1>3 DEF Typed
<1>5. InHand' /\ Asked'
  BY <1>1, <1>2, <1>3, TypedFields DEF InHand, Asked
<1> QED
  BY <1>1, <1>2, <1>4, <1>5 DEF IInv, Answered, Last

LEMMA Found2Inv ==
  ASSUME IInv, Found2
  PROVE  IInv'
<1> DEFINE c == IF first.at < cur.at /\ hit.at < cur.at + first.len THEN first ELSE cur
<1>1. /\ Typed /\ TrueEmitted /\ InHand /\ pc = "found" /\ state = 2
      /\ UNCHANGED <<src, anchor, first, ask, hit, emitted>> /\ pc' = "turn"
      /\ Held(src, anchor, cur) /\ Held(src, anchor, first) /\ cur \in Match
      /\ first \in Match /\ hit \in Match /\ anchor \in Int /\ ask.pos \in Int
      /\ second' = hit /\ hit.len # LongestSoFar /\ LongestSoFar = cur.len /\ Low = cur.at
  BY DEF IInv, Found2, Longer, InHand, Typed, LongestSoFar, Low
<1>2. /\ TrueIn(src, hit) /\ cur.at <= hit.at /\ hit.len > cur.len
      /\ End(hit) >= ask.pos + MinMatch
  BY <1>1, Better
<1>3. Held(src, anchor, hit)
  BY <1>1, <1>2, TypedFields DEF Held
<1>4. c \in Match /\ Held(src, anchor, c)
  BY <1>1
<1>5. IF hit.at - c.at < 3 THEN cur' = hit /\ state' = 2 ELSE cur' = c /\ state' = 3
  BY <1>1 DEF Found2
<1> HIDE DEF c
<1>6. CASE hit.at - c.at < 3
  <2>1. cur' = hit /\ state' = 2
    BY <1>5, <1>6
  <2>2. Typed'
    BY <1>1, <2>1 DEF Typed
  <2>3. InHand' /\ Asked'
    BY <1>1, <1>2, <1>3, <2>1 DEF InHand, Asked, Covered, Held, End
  <2> QED
    BY <1>1, <2>2, <2>3 DEF IInv, TrueEmitted, Answered, Last
<1>7. CASE ~(hit.at - c.at < 3)
  <2>1. cur' = c /\ state' = 3
    BY <1>5, <1>7
  <2>2. Typed'
    BY <1>1, <1>4, <2>1 DEF Typed
  <2>3. hit.at >= c.at
    BY <1>4, <1>7, TypedFields, <1>1, MatchFields
  <2>4. InHand' /\ Asked'
    BY <1>1, <1>2, <1>3, <1>4, <2>1, <2>3 DEF InHand, Asked, Covered, Held, End
  <2> QED
    BY <1>1, <2>2, <2>4 DEF IInv, TrueEmitted, Answered, Last
<1> QED
  BY <1>6, <1>7

LEMMA Found3LastInv ==
  ASSUME IInv, Found3Last
  PROVE  IInv'
<1> DEFINE m == IF second.at < End(cur) THEN Upto(cur, second.at - cur.at) ELSE cur
<1>1. /\ Typed /\ InHand /\ Asked /\ pc = "found" /\ state = 3
      /\ UNCHANGED <<src, state, cur, first, second, ask, hit>> /\ pc' = "emit2"
      /\ Held(src, anchor, cur) /\ Held(src, anchor, second) /\ second.at >= cur.at
      /\ ask.pos < End(second) /\ cur \in Match /\ anchor \in Int
      /\ Emit(m)
  BY DEF IInv, Found3Last, heldVars, InHand, Asked, Typed, Covered
<1>2. m \in Match /\ TrueIn(src, m) /\ m.at = cur.at /\ m.len \in Int /\ cur.at + m.len <= second.at
  <2>1. CASE second.at < End(cur)
    <3>1. second.at - cur.at <= cur.len /\ second.at - cur.at \in Int
      BY <2>1, <1>1, TypedFields
    <3>2. Len(src) \in Nat
      BY <1>1, TypedFields DEF n
    <3>3. m = Upto(cur, second.at - cur.at)
      BY <2>1
    <3>4. TrueIn(src, cur)
      BY <1>1 DEF Held
    <3> HIDE DEF m
    <3>5. /\ m \in Match /\ TrueIn(src, m) /\ m.at = cur.at /\ m.len = second.at - cur.at
      BY <1>1, <3>1, <3>2, <3>3, <3>4, UptoTrue
    <3> QED
      BY <1>1, <3>1, <3>5, TypedFields
  <2>2. CASE ~(second.at < End(cur))
    BY <1>1, <2>2, TypedFields DEF Held
  <2> QED
    BY <2>1, <2>2
<1> HIDE DEF m
<1>3. emitted' \in Match /\ TrueEmitted' /\ anchor' \in Int /\ anchor' <= second.at
  <2>1. /\ emitted' \in Match /\ TrueEmitted' /\ anchor' \in Int
        /\ m.len < MinMatch => anchor' = anchor
        /\ m.len >= MinMatch => anchor' = m.at + m.len
    BY <1>1, <1>2, EmitWrites
  <2> QED
    BY <1>1, <1>2, <2>1, TypedFields DEF Held
<1>4. Typed'
  BY <1>1, <1>3 DEF Typed
<1>5. Last'
  BY <1>1, <1>3 DEF Last, Held, End
<1> QED
  BY <1>1, <1>3, <1>4, <1>5 DEF IInv, InHand, Asked, Answered

LEMMA Emit2Inv ==
  ASSUME IInv, Emit2
  PROVE  IInv'
<1>1. /\ Typed /\ pc = "emit2" /\ UNCHANGED <<src, first, second, ask, hit>>
      /\ Held(src, anchor, second) /\ ask.pos < End(second) /\ second \in Match
      /\ cur \in Match /\ pc' = "turn" /\ state' = 0
      /\ Emit(second) /\ cur' = [cur EXCEPT !.at = End(second)]
  BY DEF IInv, Emit2, Typed, Last
<1>2. emitted' \in Match /\ TrueEmitted' /\ anchor' \in Int /\ anchor' = End(second)
  BY <1>1, EmitWrites, TypedFields DEF Held
<1>3. cur' \in Match /\ cur'.at = End(second)
  BY <1>1, TypedFields, MatchFields DEF Match
<1>4. Typed'
  BY <1>1, <1>2, <1>3 DEF Typed
<1>5. InHand' /\ Asked'
  BY <1>1, <1>2, <1>3, TypedFields DEF InHand, Asked
<1> QED
  BY <1>1, <1>2, <1>4, <1>5 DEF IInv, Answered, Last

(* What holds when a third match, longer than second, was found.             *)
LEMMA Third ==
  ASSUME IInv, pc = "found", state = 3, Longer(second)
  PROVE  /\ Typed /\ Held(src, anchor, cur) /\ Held(src, anchor, second)
         /\ second.at >= cur.at /\ second.at <= hit.at
         /\ Held(src, anchor, hit) /\ End(hit) >= ask.pos + MinMatch
         /\ cur \in Match /\ second \in Match /\ hit \in Match
         /\ anchor \in Int /\ ask.pos \in Int
<1>1. /\ Typed /\ Held(src, anchor, cur) /\ Held(src, anchor, second)
      /\ second.at >= cur.at /\ cur \in Match /\ second \in Match /\ hit \in Match
      /\ anchor \in Int /\ ask.pos \in Int
      /\ LongestSoFar = second.len /\ Low = second.at /\ hit.len # second.len
  BY DEF IInv, InHand, Typed, LongestSoFar, Low, Longer
<1>2. /\ TrueIn(src, hit) /\ second.at <= hit.at /\ hit.len > second.len
      /\ End(hit) >= ask.pos + MinMatch
  BY <1>1, Better
<1>3. Held(src, anchor, hit)
  BY <1>1, <1>2, TypedFields DEF Held
<1> QED
  BY <1>1, <1>2, <1>3

LEMMA Found3InsideInv ==
  ASSUME IInv, Found3Inside
  PROVE  IInv'
<1>1. /\ UNCHANGED <<src, anchor, state, cur, first, ask, hit, emitted>>
      /\ second' = hit /\ pc' = "turn" /\ pc = "found" /\ state = 3 /\ Longer(second)
      /\ TrueEmitted
  BY DEF Found3Inside, IInv
<1>2. /\ Typed /\ Held(src, anchor, cur) /\ second.at >= cur.at /\ second.at <= hit.at
      /\ Held(src, anchor, hit) /\ End(hit) >= ask.pos + MinMatch /\ hit \in Match
  BY <1>1, Third
<1>3. Typed'
  BY <1>1, <1>2 DEF Typed
<1>4. InHand' /\ Asked'
  BY <1>1, <1>2, TypedFields DEF InHand, Asked, Covered, Held, End
<1> QED
  BY <1>1, <1>3, <1>4 DEF IInv, TrueEmitted, Answered, Last

LEMMA Found3NoRoomInv ==
  ASSUME IInv, Found3NoRoom
  PROVE  IInv'
<1> DEFINE s == SecondAfter(cur.len)
           t == IF second.at < End(cur) /\ s.len < MinMatch THEN hit ELSE s
<1>1. /\ UNCHANGED <<src, ask, hit>> /\ pc = "found" /\ state = 3 /\ Longer(second)
      /\ second' = t /\ first' = t /\ cur' = hit /\ Emit(cur) /\ pc' = "turn" /\ state' = 2
      /\ hit.at \in End(cur) .. End(cur) + 2
  BY DEF Found3NoRoom
<1>2. /\ Typed /\ Held(src, anchor, cur) /\ Held(src, anchor, second)
      /\ second.at >= cur.at /\ second.at <= hit.at
      /\ Held(src, anchor, hit) /\ End(hit) >= ask.pos + MinMatch
      /\ cur \in Match /\ second \in Match /\ hit \in Match
      /\ anchor \in Int /\ ask.pos \in Int
  BY <1>1, Third
<1>3. emitted' \in Match /\ TrueEmitted' /\ anchor' \in Int /\ anchor' = End(cur)
  BY <1>1, <1>2, EmitWrites, TypedFields DEF Held
<1>4. hit.at >= End(cur)
  BY <1>1, <1>2, TypedFields
<1>5. t \in Match /\ TrueIn(src, t) /\ t.at >= End(cur) /\ t.len >= MinMatch
  <2>1. CASE second.at < End(cur) /\ s.len < MinMatch
    BY <1>2, <1>4, <2>1 DEF Held
  <2>2. CASE ~(second.at < End(cur) /\ s.len < MinMatch)
    <3>1. cur.len <= second.at - cur.at + second.len - MinMatch
      <4>1. CASE second.at >= End(cur)
        BY <1>2, <4>1, TypedFields DEF Held
      <4>2. CASE second.at < End(cur)
        <5>1. s = Later(second, cur.len - (second.at - cur.at))
          BY <1>2, <4>2, TypedFields DEF SecondAfter
        <5>2. s.len = second.len - (cur.len - (second.at - cur.at))
          BY <5>1 DEF Later
        <5> HIDE DEF s
        <5>3. second.len - (cur.len - (second.at - cur.at)) >= MinMatch
          BY <1>2, <2>2, <4>2, <5>2, TypedFields
        <5> QED
          BY <1>2, <5>3, TypedFields
      <4> QED
        BY <1>2, <4>1, <4>2, TypedFields
    <3>2. TrueIn(src, second) /\ second.len >= MinMatch /\ cur.len \in Int
      BY <1>2, TypedFields DEF Held
    <3>3. /\ s \in Match /\ TrueIn(src, s) /\ s.len >= MinMatch /\ s.at >= cur.at + cur.len
      BY <1>2, <3>1, <3>2, SecondAfterHeld
    <3> QED
      BY <1>2, <2>2, <3>3, TypedFields
  <2> QED
    BY <2>1, <2>2
<1> HIDE DEF t
<1>6. Typed'
  BY <1>1, <1>2, <1>3, <1>5 DEF Typed
<1>7. InHand' /\ Asked'
  BY <1>1, <1>2, <1>3, <1>4, <1>5 DEF InHand, Asked, Covered, Held, End
<1> QED
  BY <1>1, <1>3, <1>6, <1>7 DEF IInv, Answered, Last

LEMMA Found3Inv ==
  ASSUME IInv, Found3
  PROVE  IInv'
<1> DEFINE ln == IF Close THEN OptimalLen ELSE second.at - cur.at
<1>1. /\ UNCHANGED <<src, state, first, ask, hit>> /\ pc = "found" /\ state = 3
      /\ Longer(second) /\ second' = hit /\ pc' = "turn" /\ hit.at >= End(cur) + 3
      /\ IF second.at < End(cur) THEN Emit(Upto(cur, ln)) /\ cur' = SecondAfter(ln)
                                 ELSE Emit(cur) /\ cur' = second
  BY DEF Found3
<1>2. /\ Typed /\ Held(src, anchor, cur) /\ Held(src, anchor, second)
      /\ second.at >= cur.at /\ second.at <= hit.at
      /\ Held(src, anchor, hit) /\ End(hit) >= ask.pos + MinMatch
      /\ cur \in Match /\ second \in Match /\ hit \in Match
      /\ anchor \in Int /\ ask.pos \in Int
  BY <1>1, Third
<1>3. /\ emitted' \in Match /\ TrueEmitted' /\ anchor' \in Int
      /\ cur' \in Match /\ TrueIn(src, cur') /\ cur'.len >= MinMatch
      /\ anchor' <= cur'.at /\ cur'.at <= hit.at /\ cur'.at \in Int
  <2>1. CASE second.at < End(cur)
    <3>1. /\ ln \in Int /\ ln <= cur.len
          /\ ln <= second.at - cur.at + second.len - MinMatch
      BY <1>2, <2>1, OptimalLenFits, TypedFields DEF Held
    <3> HIDE DEF ln
    <3>2. Emit(Upto(cur, ln)) /\ cur' = SecondAfter(ln)
      BY <1>1, <2>1
    <3>3. Len(src) \in Nat
      BY <1>2, TypedFields DEF n
    <3>4. /\ Upto(cur, ln) \in Match /\ TrueIn(src, Upto(cur, ln))
          /\ Upto(cur, ln).at = cur.at /\ Upto(cur, ln).len = ln
      BY <1>2, <3>1, <3>3, UptoTrue DEF Held
    <3>5. /\ emitted' \in Match /\ TrueEmitted' /\ anchor' \in Int
          /\ anchor' = anchor \/ anchor' = cur.at + ln
      BY <1>1, <1>2, <3>1, <3>2, <3>4, EmitWrites
    <3>6. TrueIn(src, second) /\ second.len >= MinMatch
      BY <1>2 DEF Held
    <3>7. /\ SecondAfter(ln) \in Match /\ TrueIn(src, SecondAfter(ln))
          /\ SecondAfter(ln).len >= MinMatch
          /\ SecondAfter(ln).at >= second.at /\ SecondAfter(ln).at >= cur.at + ln
          /\ SecondAfter(ln).at = second.at \/ SecondAfter(ln).at = cur.at + ln
      BY <1>2, <3>1, <3>6, SecondAfterHeld
    <3>8. /\ cur' \in Match /\ cur'.at \in Int
          /\ cur'.at >= second.at /\ cur'.at >= cur.at + ln
          /\ cur'.at = second.at \/ cur'.at = cur.at + ln
      BY <3>2, <3>7, MatchFields
    <3>9. cur'.at <= hit.at
      BY <1>1, <1>2, <3>1, <3>8, TypedFields
    <3>10. anchor' <= cur'.at
      <4>1. anchor <= cur.at
        BY <1>2 DEF Held
      <4> QED
        BY <1>2, <3>1, <3>5, <3>8, <4>1, TypedFields
    <3>11. TrueIn(src, cur') /\ cur'.len >= MinMatch
      BY <3>2, <3>7
    <3> QED
      BY <3>5, <3>8, <3>9, <3>10, <3>11
  <2>2. CASE ~(second.at < End(cur))
    <3>1. Emit(cur) /\ cur' = second
      BY <1>1, <2>2
    <3>2. emitted' \in Match /\ TrueEmitted' /\ anchor' \in Int /\ anchor' = End(cur)
      BY <1>1, <1>2, <3>1, EmitWrites, TypedFields DEF Held
    <3> QED
      BY <1>2, <2>2, <3>1, <3>2, TypedFields DEF Held
  <2> QED
    BY <2>1, <2>2
<1>4. Typed'
  BY <1>1, <1>2, <1>3 DEF Typed
<1>5. InHand' /\ Asked'
  BY <1>1, <1>2, <1>3, TypedFields DEF InHand, Asked, Covered, Held, End
<1> QED
  BY <1>1, <1>3, <1>4, <1>5 DEF IInv, Answered, Last

LEMMA InitInv == InputInit /\ ChainInit /\ pc = "turn" => IInv
<1> SUFFICES ASSUME InputInit, ChainInit, pc = "turn"
             PROVE  IInv
  OBVIOUS
<1>1. /\ src \in Inputs /\ anchor = 0 /\ state = 0
      /\ cur = None /\ first = None /\ second = None /\ hit = None /\ emitted = None
      /\ ask = [pos |-> -1, low |-> 0, longest |-> 0]
  BY DEF InputInit, ChainInit
<1>2. None \in Match /\ None.at = 0 /\ None.len = 0
  BY DEF None, Match
<1>3. Typed
  BY <1>1, <1>2 DEF Typed
<1> QED
  BY <1>1, <1>2, <1>3 DEF IInv, TrueEmitted, InHand, Asked, Answered, Last

LEMMA StepInv == IInv /\ [Next]_vars => IInv'
<1> SUFFICES ASSUME IInv, [Next]_vars
             PROVE  IInv'
  OBVIOUS
<1>1. CASE Leave \/ Turn0 \/ Turn2
  BY <1>1, TurnInv
<1>2. CASE Turn3
  BY <1>2, Turn3Inv
<1>3. CASE Found0
  BY <1>3, Found0Inv
<1>4. CASE Found2Last
  BY <1>4, Found2LastInv
<1>5. CASE Found2
  BY <1>5, Found2Inv
<1>6. CASE Found3Last
  BY <1>6, Found3LastInv
<1>7. CASE Emit2
  BY <1>7, Emit2Inv
<1>8. CASE Found3Inside
  BY <1>8, Found3InsideInv
<1>9. CASE Found3NoRoom
  BY <1>9, Found3NoRoomInv
<1>10. CASE Found3
  BY <1>10, Found3Inv
<1>11. CASE SearchFinds \/ SearchFails
  BY <1>11, SearchInv
<1>12. CASE UNCHANGED vars
  <2>1. /\ src' = src /\ anchor' = anchor /\ pc' = pc /\ state' = state
        /\ cur' = cur /\ first' = first /\ second' = second
        /\ ask' = ask /\ hit' = hit /\ emitted' = emitted
    BY <1>12 DEF vars, chainVars, heldVars
  <2> QED
    BY <2>1 DEF IInv, Typed, TrueEmitted, InHand, Asked, Answered, Last, Low, LongestSoFar,
       Covered, End
<1> QED
  BY <1>1, <1>2, <1>3, <1>4, <1>5, <1>6, <1>7, <1>8, <1>9, <1>10, <1>11, <1>12
     DEF Next, ParseNext

THEOREM Invariance == Spec => []IInv
BY InitInv, StepInv, PTL DEF Spec

--------------------------------------------------------------------------------
(* Levels 4 to 8 write, as matches, only bytes that are repeated inside the  *)
(* input, whatever hc_search finds and however the parse trims it.           *)
THEOREM ParseWritesTrueMatches == Spec => []MatchesTrue
<1>1. IInv => MatchesTrue
  BY TrueInIs DEF IInv, TrueEmitted, MatchesTrue
<1> QED
  BY <1>1, Invariance, PTL

(* A step writes nothing, or a match at or after the end of the last.        *)
LEMMA EmitsForward ==
  ASSUME IInv, [Next]_vars
  PROVE  \/ anchor' = anchor /\ (emitted' = emitted \/ ~(emitted'.len >= MinMatch))
         \/ emitted'.len >= MinMatch /\ emitted'.at >= anchor /\ anchor' = End(emitted')
<1> DEFINE Writes(m) == Emit(m) /\ m.at >= anchor /\ m.len \in Int
           Forward == \/ anchor' = anchor /\ ~(emitted'.len >= MinMatch)
                      \/ emitted'.len >= MinMatch /\ emitted'.at >= anchor /\ anchor' = End(emitted')
<1>1. Typed /\ cur \in Match /\ second \in Match
  BY DEF IInv, Typed
<1>2. \A m : Writes(m) => Forward
  <2> TAKE m
  <2> HAVE Writes(m)
  <2>1. CASE m.len < MinMatch
    BY <2>1 DEF Emit
  <2>2. CASE ~(m.len < MinMatch)
    <3>1. emitted' = m /\ m.len >= MinMatch /\ anchor' = End(m)
      BY <2>2 DEF Emit
    <3> QED
      BY <3>1
  <2> QED
    BY <2>1, <2>2
<1> HIDE DEF Writes, Forward
<1>3. CASE Found2Last
  <2>1. Emit(cur) /\ Held(src, anchor, cur)
    BY <1>3 DEF Found2Last, IInv, InHand
  <2>2. Forward
    BY <1>1, <1>2, <2>1, TypedFields DEF Held, Writes
  <2> QED
    BY <2>2 DEF Forward
<1>4. CASE Found3Last \/ Found3NoRoom \/ Found3
  <2>1. Held(src, anchor, cur)
    BY <1>4 DEF Found3Last, Found3NoRoom, Found3, IInv, InHand
  <2>2. \/ Emit(cur) \/ Emit(Upto(cur, second.at - cur.at)) \/ Emit(Upto(cur, OptimalLen))
    BY <1>4 DEF Found3Last, Found3NoRoom, Found3
  <2>3. \A k \in Int : Upto(cur, k).at = cur.at /\ Upto(cur, k).len = k
    BY <1>1 DEF Upto, Match
  <2>4. OptimalLen \in Int /\ second.at - cur.at \in Int
    BY <1>1, OptimalLenFits, TypedFields
  <2>5. Forward
    BY <1>1, <1>2, <2>1, <2>2, <2>3, <2>4, TypedFields DEF Held, Writes
  <2> QED
    BY <2>5 DEF Forward
<1>5. CASE Emit2
  <2>1. Emit(second) /\ Held(src, anchor, second)
    BY <1>5 DEF Emit2, IInv, Last
  <2>2. Forward
    BY <1>1, <1>2, <2>1, TypedFields DEF Held, Writes
  <2> QED
    BY <2>2 DEF Forward
<1> QED
  BY <1>3, <1>4, <1>5 DEF Next, ParseNext, Leave, Turn0, Turn2, Turn3, Found0, Found2,
     Found3Inside, SearchFinds, SearchFails, vars, chainVars

(* A step asks nothing, or for a match through a position further on, inside *)
(* the input.                                                                *)
LEMMA AsksForward ==
  ASSUME IInv, [Next]_vars
  PROVE  \/ ask' = ask /\ (pc' = "search" => pc = "search")
         \/ /\ MinMatch >= 4 => ask'.pos > ask.pos
            /\ ask'.pos + MinMatch <= n
            /\ anchor' <= ask'.low /\ ask'.low <= ask'.pos
<1>1. /\ Typed /\ InHand /\ Asked /\ anchor \in Int /\ ask.pos \in Int
      /\ Limit = n - SearchTail
  BY DEF IInv, Typed, Limit
<1>2. CASE Turn0
  <2>1. /\ ask' = [pos |-> cur.at, low |-> cur.at, longest |-> MinMatch - 1]
        /\ anchor' = anchor /\ pc = "turn" /\ state = 0 /\ cur.at < Limit
    BY <1>2 DEF Turn0, Ask, InLoop
  <2>2. ask.pos < cur.at /\ anchor <= cur.at
    BY <1>1, <2>1, TypedFields DEF Asked, InHand
  <2> QED
    BY <1>1, <2>1, <2>2, TypedFields
<1>3. CASE Turn2
  <2>1. CASE End(cur) <= Limit
    <3>1. /\ ask' = [pos |-> End(cur) - 2, low |-> cur.at, longest |-> cur.len]
          /\ anchor' = anchor /\ pc = "turn" /\ state = 2
      BY <1>3, <2>1 DEF Turn2, Ask, InLoop
    <3>2. ask.pos + MinMatch <= End(cur) /\ anchor <= cur.at /\ cur.len >= MinMatch
      BY <1>1, <3>1 DEF Asked, InHand, Held, Covered
    <3> QED
      BY <1>1, <2>1, <3>1, <3>2, TypedFields
  <2>2. CASE ~(End(cur) <= Limit)
    BY <1>3, <2>2 DEF Turn2, NoAsk
  <2> QED
    BY <2>1, <2>2
<1>4. CASE Turn3
  <2> DEFINE s == IF Close THEN SecondAfter(OptimalLen) ELSE second
  <2>1. /\ pc = "turn" /\ state = 3 /\ anchor' = anchor
        /\ End(s) <= Limit => Ask(End(s) - 3, s.at, s.len)
        /\ ~(End(s) <= Limit) => NoAsk(s.len)
    BY <1>4 DEF Turn3, InLoop
  <2>2. /\ ask.pos + MinMatch <= End(second) /\ Held(src, anchor, second)
    BY <1>1, <2>1 DEF Asked, InHand, Covered
  <2>3. TrueIn(src, second) /\ second.at >= anchor /\ second.len >= MinMatch
    BY <2>2 DEF Held
  <2>4. /\ s.at \in Int /\ s.len \in Int /\ s.len >= MinMatch /\ s.at >= anchor
        /\ s.at + s.len = End(second) /\ End(s) = s.at + s.len
    <3>1. CASE Close
      <4>1. s = SecondAfter(OptimalLen)
        BY <3>1
      <4>2. /\ s \in Match /\ s.len >= MinMatch /\ s.at >= second.at
            /\ s.at + s.len = End(second)
        BY <1>1, <2>3, <4>1, SecondAfterHeld, OptimalLenFits
      <4> HIDE DEF s
      <4> QED
        BY <1>1, <2>3, <4>2, MatchFields, TypedFields DEF End
    <3>2. CASE ~Close
      BY <1>1, <2>3, <3>2, TypedFields
    <3> QED
      BY <3>1, <3>2
  <2> HIDE DEF s
  <2>5. CASE End(s) <= Limit
    <3>1. ask' = [pos |-> End(s) - 3, low |-> s.at, longest |-> s.len]
      BY <2>1, <2>5 DEF Ask
    <3> QED
      BY <1>1, <2>1, <2>2, <2>4, <2>5, <3>1, TypedFields
  <2>6. CASE ~(End(s) <= Limit)
    BY <2>1, <2>6 DEF NoAsk
  <2> QED
    BY <2>5, <2>6
<1> QED
  BY <1>2, <1>3, <1>4 DEF Next, ParseNext, Leave, Found0, Found2Last, Found2,
     Found3Last, Emit2, Found3Inside, Found3NoRoom, Found3, SearchFinds, SearchFails,
     vars, chainVars

(* A match that is written starts at or after the end of the one before:     *)
(* hc_emit never sees a negative run of literals.                            *)
THEOREM ParseEmitsInOrder == Spec => EmittedInOrder
<1>1. ASSUME IInv, [Next]_vars
      PROVE  [emitted' # emitted /\ emitted'.len >= MinMatch =>
                emitted'.at >= anchor /\ anchor' = End(emitted')]_vars
  BY <1>1, EmitsForward
<1> QED
  BY <1>1, Invariance, PTL DEF Spec, EmittedInOrder

(* With matches of at least 4 bytes (LZ_MINMATCH), hc_search is never asked  *)
(* about a position twice, nor about one behind: hc_inserted can move to the *)
(* position asked about, and no chain is entered twice. Nor does it read     *)
(* past the input, or extend a match back into what is written.              *)
THEOREM ParseSearchesForward ==
  ASSUME MinMatch >= 4
  PROVE  Spec => SearchesForward
<1>1. ASSUME IInv, [Next]_vars
      PROVE  [ask' # ask => /\ ask'.pos > ask.pos /\ ask'.pos + MinMatch <= n
                            /\ anchor' <= ask'.low /\ ask'.low <= ask'.pos]_vars
  BY <1>1, AsksForward
<1> QED
  BY <1>1, Invariance, PTL DEF Spec, SearchesForward

--------------------------------------------------------------------------------
(* Of finitely many numbers, one is the first of the greatest.               *)
FirstOfGreatest(S, f, k) == \A j \in S : f[j] < f[k] \/ (f[j] = f[k] /\ k <= j)

LEMMA FirstOfGreatestExists ==
  ASSUME NEW b \in Int, NEW S, S \subseteq Nat, S # {}, NEW f, \A k \in S : f[k] \in 0 .. b
  PROVE  \E k \in S : FirstOfGreatest(S, f, k)
<1> DEFINE V == {f[k] : k \in S}
<1>1. V # {} /\ V \subseteq 0 .. b
  OBVIOUS
<1>2. PICK m \in V : \A v \in V : v <= m
  <2> HIDE DEF V
  <2> QED
    BY <1>1, MaxIs
<1> DEFINE K == {k \in S : f[k] = m}
<1>3. K # {} /\ K \subseteq Nat
  BY <1>2
<1>4. PICK k \in K : \A j \in K : ~(j < k)
  <2> HIDE DEF K
  <2> QED
    BY <1>3, LeastNat
<1>5. ASSUME NEW j \in S
      PROVE  f[j] < f[k] \/ (f[j] = f[k] /\ k <= j)
  <2>1. f[j] \in V /\ f[j] \in Int /\ m \in Int /\ f[k] = m /\ j \in Nat /\ k \in Nat
    BY <1>1, <1>2, <1>4
  <2>2. f[j] <= m
    BY <1>2, <2>1
  <2>3. CASE f[j] = m
    <3>1. j \in K
      BY <2>3
    <3> QED
      BY <1>4, <2>1, <2>3, <3>1
  <2> HIDE DEF V, K
  <2> QED
    BY <2>1, <2>2, <2>3
<1>6. k \in S
  BY <1>4
<1> QED
  BY <1>5, <1>6 DEF FirstOfGreatest

(* hc_search looks at a match, and what it finds is one that was asked for.  *)
Reached(p, c) == c \in Nat /\ c < p /\ p - c <= MaxDist /\ Same(c, p)

LEMMA ThroughIs ==
  ASSUME n \in Nat, NEW p \in Nat, p + MinMatch <= n, NEW low \in Nat, low <= p,
         NEW c, Reached(p, c)
  PROVE  /\ Through(p, low, c) \in [at : low .. p, from : 0 .. n, len : 0 .. n]
         /\ End(Through(p, low, c)) >= p + MinMatch
         /\ TrueMatch(Through(p, low, c))
<1> DEFINE k == CountBack(p, c, low)
           j == CountMatch(p + MinMatch, c + MinMatch)
<1>1. c \in Nat /\ c < p /\ p - c <= Window - 1 /\ SameBytes(c, p, MinMatch)
  BY DEF Reached, MaxDist, Same
<1>2. k \in 0 .. c /\ p - k >= low /\ SameBytes(p - k, c - k, k)
  <2> HIDE DEF k
  <2>1. k = CountBack(p, c, low)
    BY DEF k
  <2> QED
    BY ONLY p \in Nat, low \in Nat, low <= p, <1>1, <2>1, CountBackIs
<1>3. j \in 0 .. n - (p + MinMatch) /\ SameBytes(p + MinMatch, c + MinMatch, j)
  <2>1. PICK a \in Nat, b \in Nat : a = p + MinMatch /\ b = c + MinMatch
    BY <1>1
  <2>2. a <= n
    BY <2>1
  <2>3. CountMatch(a, b) \in 0 .. n - a /\ SameBytes(a, b, CountMatch(a, b))
    BY ONLY n \in Nat, a \in Nat, b \in Nat, <2>2, CountMatchIs
  <2> QED
    BY <2>1, <2>3
<1>4. /\ Through(p, low, c).at = p - k /\ Through(p, low, c).from = c - k
      /\ Through(p, low, c).len = k + MinMatch + j
      /\ Through(p, low, c) = [at |-> p - k, from |-> c - k, len |-> k + MinMatch + j]
  BY DEF Through
<1> HIDE DEF k, j
<1>5. SameBytes(p - k, c - k, k + MinMatch + j)
  BY <1>1, <1>2, <1>3, SameJoined
<1>6. /\ p - k \in low .. p /\ c - k \in 0 .. n /\ k + MinMatch + j \in 0 .. n
      /\ p - k + (k + MinMatch + j) >= p + MinMatch
      /\ 0 <= c - k /\ c - k < p - k /\ p - k - (c - k) < Window
      /\ p - k + (k + MinMatch + j) <= n
  BY <1>1, <1>2, <1>3
<1>7. Through(p, low, c) \in [at : low .. p, from : 0 .. n, len : 0 .. n]
  BY <1>4, <1>6
<1> QED
  BY <1>4, <1>5, <1>6, <1>7 DEF TrueMatch, End

--------------------------------------------------------------------------------
(* The tables. Those of the positions before nx: what a hash holds is a      *)
(* number, what a position of the last Window holds a distance.              *)
TablesOK(t, nx) ==
  /\ nx \in Nat
  /\ t.head \in [Buckets -> Int]
  /\ DOMAIN t.chain = 0 .. Window - 1
  /\ \A q \in 0 .. nx - 1 : t.chain[Stored(q)] \in 0 .. MaxDist

(* A link goes to a position of the input, at most MaxDist back.             *)
LEMMA LinkIs ==
  ASSUME NEW hd \in Int, NEW ix \in Nat
  PROVE  Link(hd, ix) \in 0 .. MaxDist /\ Link(hd, ix) <= ix
<1>1. ix \in Int /\ MaxDist \in Nat
  BY SearchAssumption DEF SearchAssumption, MaxDist
<1>2. FastDist(ix, hd) \in 1 .. Window
  BY ONLY <1>1, hd \in Int, FastDistIs
<1> QED
  BY <1>1, <1>2 DEF Link

(* A position is inserted.                                                   *)
Chained(t, ix) ==
  [head  |-> [t.head EXCEPT ![HashShort(ix)] = Stored(ix)],
   chain |-> [t.chain EXCEPT ![Stored(ix)] = Link(t.head[HashShort(ix)], ix)]]

LEMMA InsertedOK ==
  ASSUME src \in Inputs, NEW t, NEW ix, TablesOK(t, ix), ix + MinMatch <= n
  PROVE  TablesOK(Chained(t, ix), ix + 1)
<1>1. ix \in Nat /\ HashShort(ix) \in Buckets /\ t.head \in [Buckets -> Int]
  BY HashIs DEF TablesOK
<1>2. /\ Stored(ix) \in 0 .. Window - 1 /\ Stored(ix) \in Int
      /\ Link(t.head[HashShort(ix)], ix) \in 0 .. MaxDist
  <2>1. Stored(ix) \in 0 .. Window - 1 /\ Stored(ix) \in Int
    BY <1>1, StoredIs
  <2>2. PICK hd \in Int : hd = t.head[HashShort(ix)]
    BY <1>1
  <2>3. Link(hd, ix) \in 0 .. MaxDist
    BY ONLY hd \in Int, <1>1, LinkIs
  <2> QED
    BY <2>1, <2>2, <2>3
<1>3. Chained(t, ix).head \in [Buckets -> Int]
  BY <1>1, <1>2 DEF Chained
<1>4. /\ DOMAIN Chained(t, ix).chain = 0 .. Window - 1
      /\ Chained(t, ix).chain[Stored(ix)] = Link(t.head[HashShort(ix)], ix)
      /\ \A x \in 0 .. Window - 1 : x # Stored(ix) => Chained(t, ix).chain[x] = t.chain[x]
  BY <1>2 DEF TablesOK, Chained
<1>5. ASSUME NEW q \in 0 .. (ix + 1) - 1
      PROVE  Chained(t, ix).chain[Stored(q)] \in 0 .. MaxDist
  <2>1. Stored(q) \in 0 .. Window - 1
    BY StoredIs
  <2>2. CASE Stored(q) = Stored(ix)
    BY <1>2, <1>4, <2>2
  <2>3. CASE Stored(q) # Stored(ix)
    <3>1. q \in 0 .. ix - 1
      BY <1>1, <2>3
    <3>2. t.chain[Stored(q)] \in 0 .. MaxDist
      BY <3>1 DEF TablesOK
    <3> QED
      BY <1>4, <2>1, <2>3, <3>2
  <2> QED
    BY <2>2, <2>3
<1>6. ix + 1 \in Nat
  BY <1>1
<1> QED
  BY <1>3, <1>4, <1>5, <1>6 DEF TablesOK

(* The tables after each position from `from` to `to` is inserted.           *)
Tables == [head |-> head, chain |-> chain]

Insertion(to, g) ==
  g = [ix \in nextToInsert .. to |->
         IF ix = nextToInsert THEN Tables ELSE Chained(g[ix - 1], ix - 1)]

LEMMA InsertionExists ==
  ASSUME nextToInsert \in Nat, NEW k \in Nat
  PROVE  \E g : Insertion(nextToInsert + k, g)
<1> DEFINE N == nextToInsert
           T == {m \in Nat : ~ \E g : Insertion(N + m, g)}
<1>1. CASE T = {}
  BY <1>1
<1>2. CASE T # {}
  <2>1. PICK m \in T : \A y \in T : ~(y < m)
    BY <1>2, LeastNat
  <2>2. m # 0
    <3>1. Insertion(N + 0, [ix \in N .. N + 0 |-> Tables])
      <4>1. \A ix \in N .. N + 0 : ix = N
        OBVIOUS
      <4> QED
        BY <4>1 DEF Insertion
    <3> QED
      BY <2>1, <3>1
  <2>3. PICK g : Insertion(N + (m - 1), g)
    BY <2>1, <2>2
  <2> DEFINE h == [ix \in N .. N + m |-> IF ix = N + m THEN Chained(g[ix - 1], ix - 1) ELSE g[ix]]
  <2>4. ASSUME NEW ix \in N .. N + m
        PROVE  h[ix] = IF ix = N THEN Tables ELSE Chained(h[ix - 1], ix - 1)
    <3>1. CASE ix = N + m
      <4>1. ix # N /\ ix - 1 \in N .. N + m /\ ix - 1 # N + m
        BY <2>1, <2>2, <3>1
      <4>2. h[ix - 1] = g[ix - 1] /\ h[ix] = Chained(g[ix - 1], ix - 1)
        BY <3>1, <4>1
      <4> QED
        BY <4>1, <4>2
    <3>2. CASE ix # N + m
      <4>1. ix \in N .. N + (m - 1) /\ h[ix] = g[ix] /\ (ix # N => h[ix - 1] = g[ix - 1])
        BY <2>1, <2>2, <3>2
      <4>2. g[ix] = IF ix = N THEN Tables ELSE Chained(g[ix - 1], ix - 1)
        BY <2>3, <4>1 DEF Insertion
      <4> QED
        BY <4>1, <4>2
    <3> QED
      BY <3>1, <3>2
  <2>5. Insertion(N + m, h)
    BY <2>4 DEF Insertion
  <2> QED
    BY <2>1, <2>5
<1> QED
  BY <1>1, <1>2

LEMMA InsertedToIs ==
  ASSUME nextToInsert \in Nat, NEW p \in Nat
  PROVE  IF p <= nextToInsert THEN InsertedTo(p) = Tables
         ELSE \E g : Insertion(p, g) /\ InsertedTo(p) = g[p]
<1>1. CASE p <= nextToInsert
  BY <1>1 DEF InsertedTo, Tables
<1>2. CASE ~(p <= nextToInsert)
  <2>1. \E g : Insertion(p, g)
    <3>1. PICK k \in Nat : p = nextToInsert + k
      <4>1. p - nextToInsert \in Nat /\ p = nextToInsert + (p - nextToInsert)
        BY <1>2
      <4> QED
        BY <4>1
    <3> QED
      BY <3>1, InsertionExists
  <2> DEFINE f == CHOOSE g : g = [ix \in nextToInsert .. p |->
                    IF ix = nextToInsert THEN Tables ELSE Chained(g[ix - 1], ix - 1)]
  <2>2. InsertedTo(p) = f[p]
    BY <1>2 DEF InsertedTo, Tables, Chained
  <2>3. Insertion(p, f)
    BY <2>1 DEF Insertion
  <2> QED
    BY <1>2, <2>2, <2>3
<1> QED
  BY <1>1, <1>2

LEMMA InsertedToOK ==
  ASSUME src \in Inputs, TablesOK(Tables, nextToInsert), NEW p \in Nat, p + MinMatch <= n
  PROVE  TablesOK(InsertedTo(p), p)
<1>1. nextToInsert \in Nat /\ n \in Nat
  BY InputLen DEF TablesOK, n
<1>2. CASE p <= nextToInsert
  <2>1. InsertedTo(p) = Tables
    BY <1>1, <1>2, InsertedToIs
  <2>2. \A q \in 0 .. p - 1 : q \in 0 .. nextToInsert - 1
    BY <1>1, <1>2
  <2> QED
    BY <2>1, <2>2 DEF TablesOK
<1>3. CASE ~(p <= nextToInsert)
  <2>1. PICK g : Insertion(p, g) /\ InsertedTo(p) = g[p]
    BY <1>1, <1>3, InsertedToIs
  <2> DEFINE T == {ix \in nextToInsert .. p : ~TablesOK(g[ix], ix)}
  <2>2. T = {}
    <3> SUFFICES ASSUME T # {} PROVE FALSE
      OBVIOUS
    <3>1. PICK ix \in T : \A y \in T : ~(y < ix)
      <4>1. T \subseteq Nat
        BY <1>1
      <4> HIDE DEF T
      <4> QED
        BY <4>1, LeastNat
    <3>2. g[ix] = IF ix = nextToInsert THEN Tables ELSE Chained(g[ix - 1], ix - 1)
      BY <2>1, <3>1 DEF Insertion
    <3>3. ix # nextToInsert
      BY <3>1, <3>2
    <3>4. ix - 1 \in nextToInsert .. p /\ ix - 1 < ix /\ ix \in nextToInsert .. p
      BY <1>1, <3>1, <3>3
    <3>5. TablesOK(g[ix - 1], ix - 1)
      BY <3>1, <3>4
    <3>6. (ix - 1) + MinMatch <= n /\ (ix - 1) + 1 = ix
      BY <1>1, <3>4
    <3>7. TablesOK(Chained(g[ix - 1], ix - 1), (ix - 1) + 1)
      BY <3>5, <3>6, InsertedOK
    <3> QED
      BY <3>1, <3>2, <3>3, <3>6, <3>7
  <2>3. p \in nextToInsert .. p
    BY <1>1, <1>3
  <2> QED
    BY <2>1, <2>2, <2>3
<1> QED
  BY <1>2, <1>3
--------------------------------------------------------------------------------
(* The chain is followed to bytes before p, in reach of a distance.          *)
Next1(t, p, c) ==
  LET d == t.chain[Stored(c)] IN
  IF c < 0 \/ d = 0 \/ p - (c - d) > MaxDist \/ c - d < 0 THEN -1 ELSE c - d

First1(t, p) == LET d == Link(t.head[HashShort(p)], p) IN IF d = 0 THEN -1 ELSE p - d

Followed(t, p, m, g) ==
  g = [k \in 1 .. m |-> IF k = 1 THEN First1(t, p) ELSE Next1(t, p, g[k - 1])]

LEMMA FollowedExists ==
  ASSUME NEW t, NEW p, NEW k \in Nat
  PROVE  \E g : Followed(t, p, k, g)
<1> DEFINE T == {m \in Nat : ~ \E g : Followed(t, p, m, g)}
<1>1. CASE T = {}
  BY <1>1
<1>2. CASE T # {}
  <2>1. PICK m \in T : \A y \in T : ~(y < m)
    BY <1>2, LeastNat
  <2>2. m # 0
    <3>1. Followed(t, p, 0, [ix \in 1 .. 0 |-> 0])
      BY DEF Followed
    <3> QED
      BY <2>1, <3>1
  <2>3. PICK g : Followed(t, p, m - 1, g)
    BY <2>1, <2>2
  <2> DEFINE h == [ix \in 1 .. m |->
                     IF ix = m THEN IF m = 1 THEN First1(t, p) ELSE Next1(t, p, g[m - 1])
                     ELSE g[ix]]
  <2>4. ASSUME NEW ix \in 1 .. m
        PROVE  h[ix] = IF ix = 1 THEN First1(t, p) ELSE Next1(t, p, h[ix - 1])
    <3>1. CASE ix = m
      <4>1. ix # 1 => h[ix - 1] = g[ix - 1]
        BY <2>1, <3>1
      <4> QED
        BY <3>1, <4>1
    <3>2. CASE ix # m
      <4>1. ix \in 1 .. m - 1 /\ h[ix] = g[ix] /\ (ix # 1 => h[ix - 1] = g[ix - 1])
        BY <2>1, <3>2
      <4>2. g[ix] = IF ix = 1 THEN First1(t, p) ELSE Next1(t, p, g[ix - 1])
        BY <2>3, <4>1 DEF Followed
      <4> QED
        BY <4>1, <4>2
    <3> QED
      BY <3>1, <3>2
  <2>5. Followed(t, p, m, h)
    BY <2>4 DEF Followed
  <2> QED
    BY <2>1, <2>5
<1> QED
  BY <1>1, <1>2

LEMMA CandidatesFollow ==
  ASSUME NEW t, NEW p
  PROVE  Followed(t, p, Attempts, Candidates(t, p))
<1>1. \E g : Followed(t, p, Attempts, g)
  BY FollowedExists, SearchAssumption DEF SearchAssumption
<1> DEFINE f == CHOOSE g : g = [k \in 1 .. Attempts |->
                  IF k = 1 THEN First1(t, p) ELSE Next1(t, p, g[k - 1])]
<1>2. Candidates(t, p) = f
  BY DEF Candidates, First1, Next1
<1> QED
  BY <1>1, <1>2 DEF Followed

InReach(p, c) == c \in -1 .. p - 1 /\ (c >= 0 => p - c <= MaxDist)

LEMMA FirstInReach ==
  ASSUME src \in Inputs, NEW p \in Nat, p + MinMatch <= n, NEW t, TablesOK(t, p)
  PROVE  InReach(p, First1(t, p))
<1>1. HashShort(p) \in Buckets /\ t.head \in [Buckets -> Int]
  BY HashIs DEF TablesOK
<1>2. PICK hd \in Int : hd = t.head[HashShort(p)]
  BY <1>1
<1>3. Link(hd, p) \in 0 .. MaxDist /\ Link(hd, p) <= p
  BY ONLY hd \in Int, p \in Nat, LinkIs
<1>4. First1(t, p) = IF Link(hd, p) = 0 THEN -1 ELSE p - Link(hd, p)
  BY <1>2 DEF First1
<1>5. MaxDist \in Nat
  BY SearchAssumption DEF SearchAssumption, MaxDist
<1> QED
  BY <1>3, <1>4, <1>5 DEF InReach

LEMMA NextInReach ==
  ASSUME NEW p \in Nat, NEW t, TablesOK(t, p), NEW c, InReach(p, c)
  PROVE  InReach(p, Next1(t, p, c))
<1>1. c \in -1 .. p - 1 /\ MaxDist \in Nat
  BY SearchAssumption DEF SearchAssumption, MaxDist, InReach
<1>2. CASE c < 0
  BY <1>1, <1>2 DEF Next1, InReach
<1>3. CASE ~(c < 0)
  <2>1. c \in 0 .. p - 1
    BY <1>1, <1>3
  <2>2. PICK d \in 0 .. MaxDist : d = t.chain[Stored(c)]
    BY <2>1 DEF TablesOK
  <2>3. Next1(t, p, c) = IF d = 0 \/ p - (c - d) > MaxDist \/ c - d < 0 THEN -1 ELSE c - d
    BY <1>3, <2>2 DEF Next1
  <2> QED
    BY <1>1, <2>1, <2>3 DEF InReach
<1> QED
  BY <1>2, <1>3

LEMMA CandidatesInReach ==
  ASSUME src \in Inputs, NEW p \in Nat, p + MinMatch <= n, NEW t, TablesOK(t, p)
  PROVE  \A k \in 1 .. Attempts : InReach(p, Candidates(t, p)[k])
<1>1. PICK g : g = Candidates(t, p)
  OBVIOUS
<1>2. \A k \in 1 .. Attempts : g[k] = IF k = 1 THEN First1(t, p) ELSE Next1(t, p, g[k - 1])
  <2>1. Followed(t, p, Attempts, g)
    BY <1>1, CandidatesFollow
  <2> QED
    BY <2>1 DEF Followed
<1> DEFINE T == {k \in 1 .. Attempts : ~InReach(p, g[k])}
<1>3. T = {}
  <2> SUFFICES ASSUME T # {} PROVE FALSE
    OBVIOUS
  <2>1. PICK k \in T : \A y \in T : ~(y < k)
    <3>1. T \subseteq Nat
      OBVIOUS
    <3> HIDE DEF T
    <3> QED
      BY <3>1, LeastNat
  <2>2. CASE k = 1
    BY <1>2, <2>1, <2>2, FirstInReach
  <2>3. CASE k # 1
    <3>1. k - 1 \in 1 .. Attempts /\ k - 1 < k /\ g[k] = Next1(t, p, g[k - 1])
      <4>1. k \in 1 .. Attempts /\ Attempts \in Nat
        BY <2>1, SearchAssumption DEF SearchAssumption
      <4>2. g[k] = Next1(t, p, g[k - 1])
        BY <1>2, <2>3, <4>1
      <4> HIDE DEF T
      <4> QED
        BY <2>3, <4>1, <4>2
    <3>2. InReach(p, g[k - 1])
      BY <2>1, <3>1
    <3>3. InReach(p, Next1(t, p, g[k - 1]))
      BY <3>2, NextInReach
    <3> QED
      BY <2>1, <3>1, <3>3
  <2> QED
    BY <2>2, <2>3
<1> QED
  BY <1>1, <1>3
--------------------------------------------------------------------------------
(* What the parse asks lies in the input.                                    *)
Inside ==
  /\ anchor >= 0
  /\ pc = "search" => 0 <= ask.low /\ ask.low <= ask.pos /\ ask.pos + MinMatch <= n

LEMMA InsideStep ==
  ASSUME IInv, IInv', Inside, [Next]_vars
  PROVE  Inside'
<1>1. src' = src /\ n' = n
  BY DEF Next, ParseNext, Leave, Turn0, Turn2, Turn3, Found0, Found2Last, Found2,
     Found3Last, Emit2, Found3Inside, Found3NoRoom, Found3, SearchFinds, SearchFails,
     vars, chainVars, n
<1>2. /\ anchor \in Int /\ anchor' \in Int /\ emitted'.at \in Int /\ emitted'.len \in Int
      /\ ask'.low \in Int
  BY MatchFields DEF IInv, Typed, Match
<1>3. anchor' >= 0
  <2>1. End(emitted') = emitted'.at + emitted'.len
    BY DEF End
  <2> QED
    BY <1>2, <2>1, EmitsForward DEF Inside
<1>4. pc' = "search" => 0 <= ask'.low /\ ask'.low <= ask'.pos /\ ask'.pos + MinMatch <= n
  BY <1>2, <1>3, AsksForward DEF Inside
<1> QED
  BY <1>1, <1>3, <1>4 DEF Inside

LEMMA SearchStep ==
  ASSUME IInv, Inside, TablesOK(Tables, nextToInsert), Search
  PROVE  /\ SearchFinds \/ SearchFails
         /\ TablesOK(Tables, nextToInsert)'
<1> DEFINE p == ask.pos
           low == ask.low
           t == InsertedTo(p)
           c == Candidates(t, p)
           M(k) == Through(p, low, c[k])
           tried == {k \in 1 .. Attempts : c[k] >= 0 /\ Same(c[k], p)}
           better == {k \in tried : M(k).len > ask.longest}
           Best(k) == \A j \in better : M(j).len < M(k).len \/ (M(j).len = M(k).len /\ k <= j)
<1>1. /\ src \in Inputs /\ n \in Nat /\ pc = "search" /\ ask.longest \in Int
      /\ p \in Nat /\ low \in Nat /\ low <= p /\ p + MinMatch <= n
  <2>1. Typed
    BY Zenon DEF IInv
  <2>2. pc = "search" /\ src \in Inputs
    BY <2>1, Zenon DEF Typed, Search
  <2>3. n \in Nat
    BY <2>1, TypedFields, Zenon
  <2>4. ask.longest \in Int /\ ask.pos \in Int /\ ask.low \in Int
    BY <2>1 DEF Typed
  <2>5. 0 <= ask.low /\ ask.low <= ask.pos /\ ask.pos + MinMatch <= n
    BY <2>2, Zenon DEF Inside
  <2> QED
    BY ONLY <2>2, <2>3, <2>4, <2>5
<1>2. /\ head' = t.head /\ chain' = t.chain /\ nextToInsert' = p
      /\ hit' = IF better = {} THEN [hit EXCEPT !.len = ask.longest]
                ELSE M(CHOOSE k \in better : Best(k))
      /\ pc' = "found"
      /\ UNCHANGED <<src, anchor, state, heldVars, ask, emitted>>
  BY DEF Search
<1> HIDE DEF p, low
<1>3. TablesOK(t, p)
  BY <1>1, InsertedToOK
<1>4. TablesOK(Tables, nextToInsert)'
  BY <1>2, <1>3 DEF TablesOK, Tables, Stored, MaxDist
<1> HIDE DEF t
<1>5. \A k \in 1 .. Attempts : InReach(p, c[k])
  BY <1>1, <1>3, CandidatesInReach
<1> HIDE DEF c
<1>6. \A k \in tried : /\ M(k) \in [at : low .. p, from : 0 .. n, len : 0 .. n]
                       /\ End(M(k)) >= p + MinMatch
                       /\ TrueMatch(M(k))
  <2> SUFFICES ASSUME NEW k \in tried
               PROVE  /\ M(k) \in [at : low .. p, from : 0 .. n, len : 0 .. n]
                      /\ End(M(k)) >= p + MinMatch
                      /\ TrueMatch(M(k))
    OBVIOUS
  <2>1. PICK x : x = c[k]
    OBVIOUS
  <2>2. Reached(p, x)
    BY <1>1, <1>5, <2>1 DEF Reached, InReach
  <2>3. /\ Through(p, low, x) \in [at : low .. p, from : 0 .. n, len : 0 .. n]
        /\ End(Through(p, low, x)) >= p + MinMatch
        /\ TrueMatch(Through(p, low, x))
    BY ONLY <1>1, <2>2, ThroughIs
  <2> QED
    BY <2>1, <2>3
<1>7. CASE better = {}
  BY <1>1, <1>2, <1>4, <1>7 DEF SearchFails
<1>8. CASE better # {}
  <2> DEFINE f == [k \in 1 .. Attempts |-> M(k).len]
  <2>1. better \subseteq Nat /\ \A k \in better : f[k] \in 0 .. n /\ f[k] = M(k).len
    BY <1>6
  <2>2. \E k \in better : FirstOfGreatest(better, f, k)
    <3> HIDE DEF better, f
    <3>1. n \in Int
      BY <1>1
    <3> QED
      BY ONLY <1>8, <2>1, <3>1, FirstOfGreatestExists
  <2>3. \E k \in better : Best(k)
    <3>1. PICK k \in better : FirstOfGreatest(better, f, k)
      BY <2>2
    <3> HIDE DEF f, M
    <3>2. Best(k)
      BY <2>1, <3>1 DEF FirstOfGreatest
    <3> HIDE DEF better, Best
    <3> QED
      BY <3>1, <3>2
  <2>4. PICK k \in better : hit' = M(k)
    <3> HIDE DEF better, Best, M
    <3> QED
      BY <1>2, <1>8, <2>3
  <2>5. /\ M(k) \in [at : low .. p, from : 0 .. n, len : 0 .. n]
        /\ End(M(k)) >= p + MinMatch /\ TrueMatch(M(k)) /\ M(k).len > ask.longest
    BY <1>6
  <2> HIDE DEF M, better
  <2>6. hit' \in [at : low .. p, from : 0 .. n, len : ask.longest + 1 .. n]
    <3>1. /\ M(k).at \in low .. p /\ M(k).from \in 0 .. n /\ M(k).len \in 0 .. n
          /\ M(k) = [at |-> M(k).at, from |-> M(k).from, len |-> M(k).len]
      BY <2>5
    <3>2. M(k).len \in ask.longest + 1 .. n
      BY <1>1, <2>5, <3>1
    <3> QED
      BY <2>4, <3>1, <3>2
  <2>7. hit' \in Answers(ask)
    BY <2>4, <2>5, <2>6 DEF Answers, p, low
  <2>8. SearchFinds
    BY <1>1, <1>2, <2>7 DEF SearchFinds
  <2> QED
    BY <1>4, <2>8
<1> QED
  BY <1>7, <1>8

--------------------------------------------------------------------------------
ChainInv == IInv /\ Inside /\ TablesOK(Tables, nextToInsert)

(* The search hashes what is inside the input: where it is asked, and before.*)
ReadInside == reach \in Int /\ reach <= n

LEMMA ChainReads ==
  ASSUME IInv, Inside, ReadInside, [ChainNext]_searchingVars
  PROVE  ReadInside'
<1>1. n \in Nat /\ ask.pos \in Int
  BY TypedFields DEF IInv, Typed
<1>2. n' = n
  <2>1. Search => src' = src
    BY DEF Search
  <2>2. ParseNext => src' = src
    BY Zenon DEF ParseNext, Leave, Turn0, Turn2, Turn3, Found0, Found2Last, Found2, Found3Last,
       Emit2, Found3Inside, Found3NoRoom, Found3
  <2>3. UNCHANGED searchingVars => src' = src
    BY DEF searchingVars, vars
  <2> QED
    BY <2>1, <2>2, <2>3 DEF ChainNext, ChainTurn, n
<1>3. CASE Search
  <2>1. PICK x : x = ask.pos + MinMatch
    OBVIOUS
  <2>2. reach' = Further(reach, x) /\ x <= n
    BY <1>3, <2>1 DEF Search, Inside
  <2>3. x \in Int
    BY <1>1, <2>1, ParameterAssumption
  <2>4. reach \in Int /\ reach <= n
    BY DEF ReadInside
  <2>5. reach' \in Int /\ reach' <= n
    BY <1>1, <2>2, <2>3, <2>4 DEF Further
  <2> QED
    BY <1>2, <2>5 DEF ReadInside
<1>4. CASE reach' = reach
  BY <1>2, <1>4 DEF ReadInside
<1> QED
  BY <1>3, <1>4 DEF ChainNext, ChainTurn, searchingVars

LEMMA ChainStep ==
  ASSUME ChainInv, [ChainNext]_searchingVars
  PROVE  /\ [Next]_vars /\ [pc = "search" => SearchFinds \/ SearchFails]_vars
         /\ ChainInv'
<1>1. CASE Search
  <2>1. (SearchFinds \/ SearchFails) /\ TablesOK(Tables, nextToInsert)'
    BY <1>1, SearchStep DEF ChainInv
  <2>2. [Next]_vars
    BY <2>1 DEF Next
  <2>3. IInv' /\ Inside'
    BY <2>2, StepInv, InsideStep DEF ChainInv
  <2> QED
    BY <2>1, <2>2, <2>3 DEF ChainInv
<1>2. CASE ChainTurn
  <2>1. ParseNext /\ [Next]_vars /\ UNCHANGED searchVars
    BY <1>2 DEF ChainTurn, Next
  <2>2. pc # "search"
    BY <2>1 DEF ParseNext, Leave, Turn0, Turn2, Turn3, InLoop, Found0, Found2Last, Found2,
       Found3Last, Emit2, Found3Inside, Found3NoRoom, Found3
  <2>3. IInv' /\ Inside'
    BY <2>1, StepInv, InsideStep DEF ChainInv
  <2>4. TablesOK(Tables, nextToInsert)'
    BY <2>1 DEF ChainInv, TablesOK, Tables, searchVars, Stored, MaxDist
  <2> QED
    BY <2>1, <2>2, <2>3, <2>4 DEF ChainInv
<1>3. CASE UNCHANGED searchingVars
  <2>1. UNCHANGED vars /\ [Next]_vars /\ UNCHANGED searchVars
    BY <1>3 DEF searchingVars
  <2>2. IInv' /\ Inside'
    BY <2>1, StepInv, InsideStep DEF ChainInv
  <2>3. TablesOK(Tables, nextToInsert)'
    BY <2>1 DEF ChainInv, TablesOK, Tables, searchVars, Stored, MaxDist
  <2> QED
    BY <2>1, <2>2, <2>3 DEF ChainInv
<1> QED
  BY <1>1, <1>2, <1>3 DEF ChainNext

LEMMA ChainStart ==
  ASSUME InputInit, ChainInit, SearchInit, pc = "turn"
  PROVE  ChainInv
<1>1. IInv
  BY InitInv
<1>2. TablesOK(Tables, nextToInsert)
  <2>1. 0 .. 0 - 1 = {}
    OBVIOUS
  <2> QED
    BY <2>1 DEF SearchInit, TablesOK, Tables
<1>3. Inside
  BY DEF InputInit, Inside
<1> QED
  BY <1>1, <1>2, <1>3 DEF ChainInv

LEMMA ChainInvariance == ChainSpec => []ChainInv
BY ChainStart, ChainStep, PTL DEF ChainSpec

(* hc_search answers what it was asked, for any hash, window and number of   *)
(* attempts: what it returns is none, or a true match through the position,  *)
(* in reach, inside the input, that starts at low or later and is longer     *)
(* than the one in hand.                                                     *)
THEOREM SearchAnswersTheParse == ChainSpec => SearchImplements
BY ChainInvariance, ChainStep, PTL DEF ChainSpec, SearchImplements

(* Parse and search together are the parse with any search: what is proved   *)
(* of the parse holds of the code's levels 4 to 8.                           *)
THEOREM ChainImplementsParse == ChainSpec => Spec
BY ChainInvariance, ChainStep, PTL DEF ChainSpec, Spec

(* So these levels write true matches, in order.                             *)
THEOREM ChainWritesTrueMatches == ChainSpec => []MatchesTrue /\ EmittedInOrder
BY ChainImplementsParse, ParseWritesTrueMatches, ParseEmitsInOrder, PTL

LEMMA ChainEmits ==
  ASSUME ChainInv, ChainInv', [ChainNext]_searchingVars
  PROVE  [EmitsOne]_<<out, anchor>>
<1>1. /\ IInv /\ IInv' /\ anchor \in Nat /\ n \in Nat /\ [Next]_vars
  BY ChainStep, TypedFields DEF ChainInv, IInv, Typed, Inside
<1>2. CASE Search
  BY <1>2 DEF Search, EmitsOne
<1>3. CASE UNCHANGED searchingVars
  BY <1>3 DEF searchingVars, vars
<1>4. CASE ChainTurn
  <2>1. CASE anchor' = anchor
    BY <1>4, <2>1 DEF ChainTurn
  <2>2. CASE anchor' # anchor
    <3>1. /\ emitted'.len >= MinMatch /\ emitted'.at >= anchor /\ anchor' = End(emitted')
          /\ out' = EmitSequence(out, anchor, emitted'.at, emitted'.at - emitted'.from, emitted'.len)
      BY <1>1, <1>4, <2>2, EmitsForward DEF ChainTurn
    <3>2. src' = src /\ n' = n
      BY <1>4 DEF ChainTurn, ParseNext, Leave, Turn0, Turn2, Turn3, Found0, Found2Last, Found2,
         Found3Last, Emit2, Found3Inside, Found3NoRoom, Found3, n
    <3>3. emitted' \in Match /\ TrueIn(src, emitted')
      BY <1>1, <3>1, <3>2 DEF IInv, Typed, TrueEmitted
    <3>4. PICK p \in Int, r \in Int, ln \in Int :
            p = emitted'.at /\ r = emitted'.from /\ ln = emitted'.len
      BY <3>3, MatchFields
    <3>5. Repeated(p, r, ln)
      <4>1. 0 <= r /\ r < p /\ p - r < Window /\ p + ln <= n /\ ln >= MinMatch
        BY <3>1, <3>3, <3>4 DEF TrueIn, n
      <4>2. SameBytes(p, r, ln)
        BY <3>3, <3>4 DEF TrueIn, Repeats, SameBytes, At
      <4> QED
        BY <4>1, <4>2 DEF Repeated
    <3>6. anchor <= p /\ anchor' = p + ln /\ out' = EmitSequence(out, anchor, p, p - r, ln)
      BY <3>1, <3>4 DEF End
    <3>7. EmitsOne
      BY ONLY <1>1, <3>5, <3>6, EmitsOneIs
    <3> QED
      BY <3>7
  <2> QED
    BY <2>1, <2>2
<1> QED
  BY <1>2, <1>3, <1>4 DEF ChainNext

(* What they emit is the literals up to such a match, and the match.         *)
THEOREM ChainEmitsRepeats == ChainSpec => EmitsRepeats
<1>1. ChainInv /\ [ChainNext]_searchingVars => ChainInv' /\ [EmitsOne]_<<out, anchor>>
  BY ChainStep, ChainEmits
<1> QED
  BY <1>1, ChainInvariance, PTL DEF ChainSpec, EmitsRepeats

LEMMA ChainCodes ==
  ASSUME ChainInv, Codes, [ChainNext]_searchingVars
  PROVE  Codes'
<1>1. src' = src
  BY Zenon DEF ChainNext, Search, ChainTurn, ParseNext, Leave, Turn0, Turn2, Turn3, Found0, Found2Last,
     Found2, Found3Last, Emit2, Found3Inside, Found3NoRoom, Found3, searchingVars, vars
<1>2. ChainInv'
  BY ChainStep
<1>3. pc # "optEmit" /\ anchor' \in Nat
  BY <1>2 DEF ChainInv, IInv, Typed, Inside
<1> QED
  BY <1>1, <1>2, <1>3, ChainEmits, CodesStep

(* And for levels 4 to 8: what the parse drops, trims and moves, and what    *)
(* the chains keep of positions that left the window, never shows.           *)
THEOREM ChainRoundTrip == ChainSpec => []RoundTrip
<1>1. InputInit /\ out = [ctrl |-> <<>>, lit |-> <<>>] => Codes
  BY CodesStart
<1> QED
  BY <1>1, ChainCodes, ChainInvariance, CodesGiveBack, PTL DEF ChainSpec

--------------------------------------------------------------------------------
(* Levels 9 and 10. The first k bytes at a do not sort after those at b.     *)
NotAfter(a, b, k) ==
  \A j \in 0 .. k - 1 : SameBytes(a, b, j) => At(a + j) <= At(b + j)

LEMMA NotAfterLess ==
  \A a, b : \A k \in Int : \A j \in Int :
    j <= k /\ NotAfter(a, b, k) => NotAfter(a, b, j)
BY DEF NotAfter

LEMMA SameLess ==
  \A a, b : \A k \in Int : \A j \in Int :
    j <= k /\ SameBytes(a, b, k) => SameBytes(a, b, j)
BY DEF SameBytes

(* Positions whose bytes are numbers.                                        *)
LEMMA ByteIs ==
  ASSUME src \in Inputs, NEW a \in Nat, a < n
  PROVE  At(a) \in Nat
<1>1. PICK s \in Seq(Nat) : s = src
  BY OptAssumption DEF OptAssumption
<1>2. Len(s) \in Nat /\ a + 1 \in 1 .. Len(s)
  BY <1>1 DEF n
<1>3. s[a + 1] \in Nat
  BY ONLY s \in Seq(Nat), <1>2
<1> QED
  BY <1>1, <1>3 DEF At

LEMMA SameNotAfter ==
  ASSUME src \in Inputs, NEW a \in Nat, NEW b \in Nat, NEW k \in Nat, a + k <= n,
         SameBytes(a, b, k)
  PROVE  NotAfter(a, b, k)
<1> SUFFICES ASSUME NEW j \in 0 .. k - 1 PROVE At(a + j) <= At(b + j)
  BY DEF NotAfter
<1>1. At(a + j) = At(b + j)
  BY DEF SameBytes
<1>2. n \in Nat
  BY InputLen DEF n
<1>3. a + j \in Nat /\ a + j < n
  BY <1>2
<1>4. At(a + j) \in Nat
  BY <1>3, ByteIs
<1> QED
  BY <1>1, <1>4

(* Neither after the other: the same.                                        *)
LEMMA NotAfterBoth ==
  ASSUME src \in Inputs, NEW a \in Nat, NEW b \in Nat, NEW k \in Nat, a + k <= n, b + k <= n,
         NotAfter(a, b, k), NotAfter(b, a, k)
  PROVE  SameBytes(a, b, k)
<1> DEFINE T == {j \in 0 .. k - 1 : At(a + j) # At(b + j)}
<1>1. CASE T = {}
  BY <1>1 DEF SameBytes
<1>2. CASE T # {}
  <2>1. PICK j \in T : \A y \in T : ~(y < j)
    <3>1. T \subseteq Nat
      OBVIOUS
    <3> HIDE DEF T
    <3> QED
      BY <1>2, <3>1, LeastNat
  <2>2. j \in 0 .. k - 1 /\ At(a + j) # At(b + j)
    BY <2>1
  <2>3. SameBytes(a, b, j) /\ SameBytes(b, a, j)
    <3>1. \A x \in 0 .. j - 1 : x \in 0 .. k - 1 /\ x < j
      BY <2>2
    <3>2. \A x \in 0 .. j - 1 : At(a + x) = At(b + x)
      BY <2>1, <3>1
    <3> QED
      BY <3>2 DEF SameBytes
  <2>4. At(a + j) <= At(b + j) /\ At(b + j) <= At(a + j)
    BY <2>2, <2>3 DEF NotAfter
  <2>5. At(a + j) \in Nat /\ At(b + j) \in Nat
    <3>1. n \in Nat
      BY InputLen DEF n
    <3>2. a + j \in Nat /\ a + j < n /\ b + j \in Nat /\ b + j < n
      BY <2>2, <3>1
    <3> QED
      BY <3>2, ByteIs
  <2> QED
    BY <2>2, <2>4, <2>5
<1> QED
  BY <1>1, <1>2

LEMMA NotAfterTrans ==
  ASSUME src \in Inputs, NEW a \in Nat, NEW b \in Nat, NEW c \in Nat, NEW k \in Nat,
         a + k <= n, b + k <= n, c + k <= n,
         NotAfter(a, b, k), NotAfter(b, c, k)
  PROVE  NotAfter(a, c, k)
<1> SUFFICES ASSUME NEW j \in 0 .. k - 1, SameBytes(a, c, j)
             PROVE  At(a + j) <= At(c + j)
  BY DEF NotAfter
<1>1. j \in Nat /\ j <= k /\ k \in Int /\ a + j <= n /\ b + j <= n /\ n \in Nat
      /\ a + j < n /\ b + j < n /\ c + j < n
  BY InputLen DEF n
<1>2. NotAfter(a, b, j) /\ NotAfter(b, c, j)
  BY <1>1, NotAfterLess
<1>3. NotAfter(b, a, j)
  <2> SUFFICES ASSUME NEW x \in 0 .. j - 1, SameBytes(b, a, x)
               PROVE  At(b + x) <= At(a + x)
    BY DEF NotAfter
  <2>1. \A y \in 0 .. x : y \in 0 .. j - 1 /\ At(a + y) = At(c + y)
    BY DEF SameBytes
  <2>2. SameBytes(b, c, x)
    <3>1. \A y \in 0 .. x - 1 : y \in 0 .. x /\ At(b + y) = At(a + y)
      BY DEF SameBytes
    <3> QED
      BY <2>1, <3>1 DEF SameBytes
  <2>3. At(b + x) <= At(c + x)
    BY <1>2, <2>2 DEF NotAfter
  <2> QED
    BY <2>1, <2>3
<1>4. SameBytes(a, b, j)
  BY <1>1, <1>2, <1>3, NotAfterBoth
<1>5. SameBytes(b, c, j)
  BY <1>4 DEF SameBytes
<1>6. At(a + j) <= At(b + j) /\ At(b + j) <= At(c + j)
  BY <1>4, <1>5 DEF NotAfter
<1>7. At(a + j) \in Nat /\ At(b + j) \in Nat /\ At(c + j) \in Nat
  <2>1. a + j \in Nat /\ b + j \in Nat /\ c + j \in Nat
    BY <1>1
  <2> QED
    BY <1>1, <2>1, ByteIs
<1> QED
  BY <1>6, <1>7

(* The first byte that differs decides.                                      *)
LEMMA DiffersNotAfter ==
  ASSUME src \in Inputs, NEW a \in Nat, NEW b \in Nat, NEW j \in Nat, NEW k \in Nat,
         SameBytes(a, b, j), j < k, a + k <= n, b + k <= n,
         At(a + j) < At(b + j)
  PROVE  NotAfter(a, b, k)
<1> SUFFICES ASSUME NEW x \in 0 .. k - 1, SameBytes(a, b, x)
             PROVE  At(a + x) <= At(b + x)
  BY DEF NotAfter
<1>1. n \in Nat /\ a + x \in Nat /\ b + x \in Nat /\ a + x < n /\ b + x < n
      /\ a + j \in Nat /\ b + j \in Nat /\ a + j < n /\ b + j < n
  BY InputLen DEF n
<1>2. At(a + x) \in Nat /\ At(b + x) \in Nat /\ At(a + j) \in Nat /\ At(b + j) \in Nat
  BY <1>1, ByteIs
<1>3. CASE x < j
  <2>1. x \in 0 .. j - 1
    BY <1>3
  <2> QED
    BY <1>2, <2>1 DEF SameBytes
<1>4. CASE x = j
  BY <1>2, <1>4
<1>5. CASE x > j
  <2>1. j \in 0 .. x - 1
    BY <1>5
  <2>2. At(a + j) = At(b + j)
    BY <2>1 DEF SameBytes
  <2> QED
    BY <1>2, <2>2
<1> QED
  BY <1>3, <1>4, <1>5
--------------------------------------------------------------------------------
(* The tree. The nodes a walk of p can meet, p the last of them.             *)
Nodes(p) == {m \in Nat : m <= p /\ p - m < Window}

(* B[m] has the positions that may be below m.                               *)
Before(B, m, L) == {x \in B[m] : NotAfter(x, m, L)}
After(B, m, L) == {x \in B[m] : NotAfter(m, x, L)}

(* A link of m to what is in S.                                              *)
LinkIn(l, m, p, B, S) ==
  l \in Nat /\ l - 1 < m /\ (l - 1 \in Nodes(p) => B[l - 1] \subseteq S)

(* What sorts before a node, by its first L bytes, is on its left, but for   *)
(* the links that are still to be set.                                       *)
TreeOK(t, p, L, B, holes) ==
  \A m \in Nodes(p) :
    /\ m \in B[m]
    /\ Pair(m) \notin holes => LinkIn(t[Pair(m)], m, p, B, Before(B, m, L))
    /\ Pair(m) + 1 \notin holes => LinkIn(t[Pair(m) + 1], m, p, B, After(B, m, L))

Ghost(p, B) ==
  /\ B \in [Nat -> SUBSET Nat]
  /\ \A m \in Nodes(p) : B[m] \subseteq 0 .. p
  /\ B[p] = 0 .. p

(* A link that is to be set, of o, and what it may lead to.                  *)
Hole(p, L, B, h, o, S) ==
  /\ o \in Nodes(p)
  /\ \/ h = Pair(o) /\ S = Before(B, o, L)
     \/ h = Pair(o) + 1 /\ S = After(B, o, L)

LEMMA WindowIs == Window \in Nat \ {0}
BY OptAssumption DEF OptAssumption

LEMMA NodesIn == \A p \in Nat : p \in Nodes(p) /\ \A m \in Nodes(p) : m \in Nat /\ m \in 0 .. p
BY WindowIs DEF Nodes

LEMMA SameSlot ==
  ASSUME NEW a \in Nat, NEW b \in Nat, a < b, b - a < Window
  PROVE  a % Window # b % Window
<1>1. PICK d \in Nat : d = Window /\ d >= 1
  BY WindowIs
<1>2. PICK q \in Nat, r \in Nat, q2 \in Nat, r2 \in Nat :
        /\ r = a % d /\ a = d * q + r /\ r2 = b % d /\ b = d * q2 + r2 /\ r < d /\ r2 < d
  <2>1. a % d \in 0 .. d - 1 /\ a = d * (a \div d) + (a % d) /\ a \div d \in Nat
    BY ONLY <1>1, d \in Nat, a \in Nat, Quotient
  <2>2. b % d \in 0 .. d - 1 /\ b = d * (b \div d) + (b % d) /\ b \div d \in Nat
    BY ONLY <1>1, d \in Nat, b \in Nat, Quotient
  <2>3. a % d \in Nat /\ a % d < d /\ b % d \in Nat /\ b % d < d
    BY ONLY <2>1, <2>2, d \in Nat
  <2> QED
    BY <2>1, <2>2, <2>3, Zenon
<1>3. CASE q2 <= q
  <2>1. PICK k \in Nat : q = q2 + k
    <3>1. q - q2 \in Nat /\ q = q2 + (q - q2)
      BY <1>3
    <3> QED
      BY <3>1
  <2>2. d * q = d * q2 + d * k /\ d * k \in Nat
    BY ONLY <2>1, d \in Nat, q2 \in Nat, k \in Nat
  <2>3. r # r2
    <3>1. PICK u \in Nat, v \in Nat : u = d * q2 /\ v = d * k
      BY <2>2
    <3>2. a = u + v + r /\ b = u + r2
      BY ONLY <1>2, <2>2, <3>1
    <3> QED
      BY ONLY <3>2, a < b, u \in Nat, v \in Nat, r \in Nat, r2 \in Nat
  <2> QED
    BY <1>1, <1>2, <2>3
<1>4. CASE ~(q2 <= q)
  <2>1. PICK k \in Nat : q2 = q + 1 + k
    <3>1. q2 - q - 1 \in Nat /\ q2 = q + 1 + (q2 - q - 1)
      BY <1>4
    <3> QED
      BY <3>1
  <2>2. d * q2 = d * q + d + d * k /\ d * k \in Nat
    BY ONLY <2>1, d \in Nat, q \in Nat, k \in Nat
  <2>3. r # r2
    <3>1. PICK u \in Nat, v \in Nat : u = d * q /\ v = d * k
      BY <2>2
    <3>2. a = u + r /\ b = u + d + v + r2 /\ b - a < d
      BY ONLY <1>1, <1>2, <2>2, <3>1, b - a < Window
    <3> QED
      BY ONLY <3>2, a \in Nat, b \in Nat, u \in Nat, v \in Nat, r \in Nat, r2 \in Nat, d \in Nat
  <2> QED
    BY <1>1, <1>2, <2>3
<1> QED
  BY <1>3, <1>4

LEMMA PairIs ==
  ASSUME NEW p \in Nat
  PROVE  /\ \A a \in Nat : Pair(a) \in 0 .. 2 * Window - 1 /\ Pair(a) + 1 \in 0 .. 2 * Window - 1
         /\ \A a, b \in Nodes(p) : a # b => Pair(a) # Pair(b)
         /\ \A a, b \in Nat : Pair(a) # Pair(b) + 1
<1>1. ASSUME NEW a \in Nat PROVE a % Window \in 0 .. Window - 1
  BY WindowIs
<1>2. ASSUME NEW a \in Nat
      PROVE  Pair(a) \in 0 .. 2 * Window - 1 /\ Pair(a) + 1 \in 0 .. 2 * Window - 1
  <2>1. PICK r \in Int : r = a % Window /\ 0 <= r /\ r <= Window - 1
    BY <1>1, WindowIs
  <2> QED
    BY <2>1, WindowIs DEF Pair
<1>3. ASSUME NEW a \in Nodes(p), NEW b \in Nodes(p), a # b PROVE Pair(a) # Pair(b)
  <2>0. a \in Nat /\ b \in Nat /\ a <= p /\ b <= p /\ p - a < Window /\ p - b < Window
    BY DEF Nodes
  <2>1. a < b \/ b < a
    BY ONLY <2>0, a # b
  <2>2. a % Window # b % Window
    <3>1. CASE a < b
      <4>1. b - a < Window
        BY <2>0, WindowIs
      <4> QED
        BY <2>0, <3>1, <4>1, SameSlot
    <3>2. CASE b < a
      <4>1. a - b < Window
        BY <2>0, WindowIs
      <4> QED
        BY <2>0, <3>2, <4>1, SameSlot
    <3> QED
      BY <2>1, <3>1, <3>2
  <2>3. a % Window \in Int /\ b % Window \in Int
    BY <1>1, <2>0, WindowIs
  <2>4. PICK r : r = a % Window
    OBVIOUS
  <2>5. PICK r2 : r2 = b % Window
    OBVIOUS
  <2>6. 2 * r # 2 * r2
    BY ONLY <2>2, <2>3, <2>4, <2>5
  <2> QED
    BY <2>4, <2>5, <2>6 DEF Pair
<1>4. ASSUME NEW a \in Nat, NEW b \in Nat PROVE Pair(a) # Pair(b) + 1
  <2>1. a % Window \in Int /\ b % Window \in Int
    BY <1>1, WindowIs
  <2>2. PICK r : r = a % Window
    OBVIOUS
  <2>3. PICK r2 : r2 = b % Window
    OBVIOUS
  <2>4. 2 * r # 2 * r2 + 1
    BY ONLY <2>1, <2>2, <2>3
  <2> QED
    BY <2>2, <2>3, <2>4 DEF Pair
<1> QED
  BY <1>2, <1>3, <1>4

(* Setting a link that is to be set.                                         *)
LEMMA FillHole ==
  ASSUME NEW p \in Nat, NEW L, NEW B, NEW t, DOMAIN t = 0 .. 2 * Window - 1, NEW holes,
         TreeOK(t, p, L, B, holes),
         NEW h, NEW o, NEW S, Hole(p, L, B, h, o, S),
         NEW l, LinkIn(l, o, p, B, S), NEW left, holes \subseteq left \cup {h}
  PROVE  TreeOK([t EXCEPT ![h] = l], p, L, B, left)
<1> DEFINE u == [t EXCEPT ![h] = l]
<1>1. o \in Nodes(p) /\ o \in Nat
  BY NodesIn DEF Hole
<1> SUFFICES ASSUME NEW m \in Nodes(p)
             PROVE  /\ m \in B[m]
                    /\ Pair(m) \notin left => LinkIn(u[Pair(m)], m, p, B, Before(B, m, L))
                    /\ Pair(m) + 1 \notin left => LinkIn(u[Pair(m) + 1], m, p, B, After(B, m, L))
  BY Zenon DEF TreeOK
<1>2. /\ m \in B[m]
      /\ Pair(m) \notin holes => LinkIn(t[Pair(m)], m, p, B, Before(B, m, L))
      /\ Pair(m) + 1 \notin holes => LinkIn(t[Pair(m) + 1], m, p, B, After(B, m, L))
  BY Zenon DEF TreeOK
<1>3. m \in Nat /\ Pair(m) \in DOMAIN t /\ Pair(m) + 1 \in DOMAIN t
  BY NodesIn, PairIs
<1>4. Pair(m) \notin left => LinkIn(u[Pair(m)], m, p, B, Before(B, m, L))
  <2>1. CASE Pair(m) = h
    <3>1. h = Pair(o) /\ S = Before(B, o, L)
      BY <1>1, <1>3, <2>1, PairIs DEF Hole
    <3>2. m = o
      BY <1>1, <2>1, <3>1, PairIs
    <3> QED
      BY <1>3, <2>1, <3>1, <3>2
  <2>2. CASE Pair(m) # h
    <3>1. u[Pair(m)] = t[Pair(m)] /\ (Pair(m) \notin left => Pair(m) \notin holes)
      BY <1>3, <2>2
    <3> QED
      BY <1>2, <3>1
  <2> QED
    BY <2>1, <2>2
<1>5. Pair(m) + 1 \notin left => LinkIn(u[Pair(m) + 1], m, p, B, After(B, m, L))
  <2>1. CASE Pair(m) + 1 = h
    <3>1. h = Pair(o) + 1 /\ S = After(B, o, L)
      BY <1>1, <1>3, <2>1, PairIs DEF Hole
    <3>2. m = o
      <4>1. Pair(m) \in Int /\ Pair(o) \in Int
        BY <1>1, <1>3, PairIs
      <4>2. Pair(m) = Pair(o)
        BY <2>1, <3>1, <4>1
      <4> QED
        BY <1>1, <4>2, PairIs
    <3> QED
      BY <1>3, <2>1, <3>1, <3>2
  <2>2. CASE Pair(m) + 1 # h
    <3>1. u[Pair(m) + 1] = t[Pair(m) + 1] /\ (Pair(m) + 1 \notin left => Pair(m) + 1 \notin holes)
      BY <1>3, <2>2
    <3> QED
      BY <1>2, <3>1
  <2> QED
    BY <2>1, <2>2
<1> QED
  BY <1>2, <1>4, <1>5

(* A node's subtree gets smaller: that does not concern the others.          *)
LEMMA Narrow ==
  ASSUME NEW p \in Nat, NEW L, NEW B \in [Nat -> SUBSET Nat], NEW t, NEW holes,
         TreeOK(t, p, L, B, holes),
         NEW m \in Nodes(p), NEW S, m \in S, NEW more, holes \subseteq more,
         Pair(m) \in more \/ Before(B, m, L) \subseteq S,
         Pair(m) + 1 \in more \/ After(B, m, L) \subseteq S
  PROVE  TreeOK(t, p, L, [B EXCEPT ![m] = B[m] \cap S], more)
<1> DEFINE C == [B EXCEPT ![m] = B[m] \cap S]
<1>1. m \in Nat /\ C[m] = B[m] \cap S /\ \A k \in Nat : k # m => C[k] = B[k]
  BY NodesIn
<1>2. \A k \in Nodes(p) : C[k] \subseteq B[k]
  BY <1>1, NodesIn
<1> HIDE DEF C
<1> SUFFICES ASSUME NEW k \in Nodes(p)
             PROVE  /\ k \in C[k]
                    /\ Pair(k) \notin more => LinkIn(t[Pair(k)], k, p, C, Before(C, k, L))
                    /\ Pair(k) + 1 \notin more => LinkIn(t[Pair(k) + 1], k, p, C, After(C, k, L))
  BY Zenon DEF TreeOK, C
<1>3. /\ k \in B[k] /\ k \in Nat
      /\ Pair(k) \notin more => LinkIn(t[Pair(k)], k, p, B, Before(B, k, L))
      /\ Pair(k) + 1 \notin more => LinkIn(t[Pair(k) + 1], k, p, B, After(B, k, L))
  BY NodesIn DEF TreeOK
<1>4. k \in C[k]
  BY <1>1, <1>3
<1>5. Pair(k) \notin more => Before(B, k, L) \subseteq Before(C, k, L)
  BY <1>1, <1>3 DEF Before
<1>6. Pair(k) + 1 \notin more => After(B, k, L) \subseteq After(C, k, L)
  BY <1>1, <1>3 DEF After
<1>7. \A l, X, Y : X \subseteq Y /\ LinkIn(l, k, p, B, X) => LinkIn(l, k, p, C, Y)
  BY <1>2 DEF LinkIn
<1> QED
  BY <1>3, <1>4, <1>5, <1>6, <1>7
--------------------------------------------------------------------------------
(* A match from p on: its length and its distance.                           *)
MatchAt(p, c) ==
  /\ c \in Nat \X Nat /\ c[1] >= MinMatch /\ p + c[1] <= n
  /\ 1 <= c[2] /\ c[2] <= p /\ c[2] < Window
  /\ SameBytes(p, p - c[2], c[1])

Matches(p, cs) == cs \in Seq(Nat \X Nat) /\ \A k \in 1 .. Len(cs) : MatchAt(p, cs[k])

WalkType(p, L, s) ==
  /\ s \in [son : [0 .. 2 * Window - 1 -> Nat \cup {Unset}],
            ptr1 : 0 .. 2 * Window - 1, ptr0 : 0 .. 2 * Window - 1, whole : BOOLEAN,
            match : Int, len0 : 0 .. L - 1, len1 : 0 .. L - 1,
            best : Nat, cands : Seq(Nat \X Nat)]
  /\ Matches(p, s.cands)
  /\ s.best >= MinMatch - 1

(* How far the walk got: what can still be met, m and below, sorts between   *)
(* the nodes that were met, which p agrees with for len1 and len0 bytes.     *)
Ahead(p, L, s, B, S0, S1) ==
  /\ \A x \in B[s.match] : NotAfter(p, x, s.len1) /\ NotAfter(x, p, s.len0)
  /\ {x \in B[s.match] : NotAfter(x, p, L)} \subseteq S1
  /\ {x \in B[s.match] : NotAfter(p, x, L)} \subseteq S0

Walked(p, L, s, B, o0, S0, o1, S1) ==
  /\ Ghost(p, B)
  /\ TreeOK(s.son, p, L, B, {s.ptr0, s.ptr1})
  /\ Hole(p, L, B, s.ptr0, o0, S0) /\ Hole(p, L, B, s.ptr1, o1, S1) /\ s.ptr0 # s.ptr1
  /\ s.match \in Int /\ s.match < p /\ s.match < o0 /\ s.match < o1
  /\ s.match \in Nodes(p) => Ahead(p, L, s, B, S0, S1)

Whole(p, L, t) == \E B : Ghost(p, B) /\ TreeOK(t, p, L, B, {})

Walking(p, L, s) == \E B, o0, S0, o1, S1 : Walked(p, L, s, B, o0, S0, o1, S1)

WalkOK(p, L, s) ==
  /\ WalkType(p, L, s)
  /\ IF s.whole THEN Whole(p, L, s.son) ELSE s.best < L /\ Walking(p, L, s)

(* A position that is inserted, and how far it is compared.                  *)
Insertable(p, L) == src \in Inputs /\ p \in Nat /\ L = LenLimit(p) /\ L \in Nat /\ L >= MinMatch
                    /\ p + L <= n /\ n \in Nat

(* What is counted is equal, and the byte behind it is not.                  *)
LEMMA EqualIs ==
  ASSUME NEW p, NEW L, Insertable(p, L), NEW s, WalkType(p, L, s),
         s.match \in Nat, s.match < p,
         NotAfter(p, s.match, s.len1), NotAfter(s.match, p, s.len0)
  PROVE  /\ Equal(p, s) \in Known(s) .. L /\ Known(s) \in Nat
         /\ SameBytes(p, s.match, Equal(p, s))
         /\ Equal(p, s) < L => At(s.match + Equal(p, s)) # At(p + Equal(p, s))
<1>1. PICK k \in 0 .. L - 1 : k = Known(s) /\ k <= s.len0 /\ k <= s.len1
      /\ s.len0 \in Int /\ s.len1 \in Int
  <2>1. s.len0 \in 0 .. L - 1 /\ s.len1 \in 0 .. L - 1
    BY DEF WalkType
  <2>2. s.len0 \in Int /\ s.len1 \in Int
    BY <2>1
  <2>3. CASE s.len0 < s.len1
    <3>1. Known(s) = s.len0 /\ s.len0 <= s.len1 /\ s.len0 <= s.len0
      BY <2>2, <2>3 DEF Known
    <3> QED
      BY <2>1, <2>2, <3>1, Zenon
  <2>4. CASE ~(s.len0 < s.len1)
    <3>1. Known(s) = s.len1 /\ s.len1 <= s.len0 /\ s.len1 <= s.len1
      BY <2>2, <2>4 DEF Known
    <3> QED
      BY <2>1, <2>2, <3>1, Zenon
  <2> QED
    BY <2>3, <2>4
<1>2. PICK m \in Nat : m = s.match /\ m < p
  OBVIOUS
<1>3. p \in Nat /\ L \in Nat /\ p + L <= n /\ n \in Nat /\ src \in Inputs /\ L = LenLimit(p)
  BY DEF Insertable
<1>4. SameBytes(p, m, k)
  <2>1. NotAfter(p, m, k) /\ NotAfter(m, p, k)
    BY <1>1, <1>2, NotAfterLess
  <2>2. p + k <= n /\ m + k <= n /\ k \in Nat
    BY <1>1, <1>2, <1>3
  <2> QED
    BY <1>2, <1>3, <2>1, <2>2, NotAfterBoth
<1> DEFINE S == {j \in k .. L : SameBytes(m + k, p + k, j - k)}
<1>5. k \in S /\ S \subseteq 0 .. L
  BY <1>1, <1>3 DEF SameBytes
<1>6. Equal(p, s) = MaxOf(S)
  BY <1>1, <1>2, <1>3 DEF Equal
<1>7. PICK e : e = Equal(p, s) /\ e \in S /\ \A j \in S : j <= e
  <2>1. MaxOf(S) \in S /\ \A j \in S : j <= MaxOf(S)
    <3>1. L \in Int /\ S # {}
      BY <1>3, <1>5
    <3> HIDE DEF S
    <3> QED
      BY ONLY <1>5, <3>1, MaxIs
  <2> QED
    BY <1>6, <2>1
<1>8. e \in k .. L /\ SameBytes(m + k, p + k, e - k)
  BY <1>7
<1>9. SameBytes(p, m, e)
  <2> SUFFICES ASSUME NEW j \in 0 .. e - 1 PROVE At(p + j) = At(m + j)
    BY DEF SameBytes
  <2>1. CASE j < k
    <3>1. j \in 0 .. k - 1
      BY <2>1, <1>1
    <3> QED
      BY <1>4, <3>1 DEF SameBytes
  <2>2. CASE ~(j < k)
    <3>1. j - k \in 0 .. (e - k) - 1 /\ (m + k) + (j - k) = m + j /\ (p + k) + (j - k) = p + j
      BY <2>2, <1>1, <1>2, <1>3, <1>8
    <3>2. At((m + k) + (j - k)) = At((p + k) + (j - k))
      BY <1>8, <3>1 DEF SameBytes
    <3> QED
      BY <3>1, <3>2
  <2> QED
    BY <2>1, <2>2
<1>10. e < L => At(m + e) # At(p + e)
  <2> SUFFICES ASSUME e < L, At(m + e) = At(p + e) PROVE FALSE
    OBVIOUS
  <2>1. e + 1 \in k .. L /\ e + 1 > e
    BY <1>1, <1>3, <1>8
  <2>2. SameBytes(m + k, p + k, (e + 1) - k)
    <3> SUFFICES ASSUME NEW j \in 0 .. ((e + 1) - k) - 1
                 PROVE  At((m + k) + j) = At((p + k) + j)
      BY DEF SameBytes
    <3>1. CASE j = e - k
      <4>1. (m + k) + j = m + e /\ (p + k) + j = p + e
        BY <3>1, <1>1, <1>2, <1>3, <1>8
      <4> QED
        BY <4>1
    <3>2. CASE j # e - k
      <4>1. j \in 0 .. (e - k) - 1
        BY <3>2, <1>1, <1>8
      <4> QED
        BY <4>1, <1>8 DEF SameBytes
    <3> QED
      BY <3>1, <3>2
  <2>3. e + 1 \in S
    BY <2>1, <2>2
  <2>4. e + 1 <= e
    BY <1>7, <2>3
  <2> QED
    BY <1>1, <1>8, <2>4
<1> QED
  BY <1>1, <1>2, <1>7, <1>8, <1>9, <1>10
LEMMA HoleElsewhere ==
  ASSUME NEW p \in Nat, NEW L, NEW B, NEW h, NEW o, NEW S, Hole(p, L, B, h, o, S),
         NEW m \in Nodes(p), m # o
  PROVE  h # Pair(m) /\ h # Pair(m) + 1
<1>1. m \in Nat /\ o \in Nat /\ o \in Nodes(p)
  BY NodesIn DEF Hole
<1>2. Pair(m) \in Int /\ Pair(o) \in Int
  BY <1>1, PairIs
<1>3. Pair(m) # Pair(o) /\ Pair(m) # Pair(o) + 1 /\ Pair(o) # Pair(m) + 1
  BY <1>1, PairIs
<1>4. h = Pair(o) \/ h = Pair(o) + 1
  BY DEF Hole
<1> QED
  BY <1>2, <1>3, <1>4

LEMMA HoleKept ==
  ASSUME NEW p, NEW L, NEW B, NEW h, NEW o, NEW S, Hole(p, L, B, h, o, S),
         NEW C, C[o] = B[o]
  PROVE  Hole(p, L, C, h, o, S)
BY DEF Hole, Before, After

(* A node that sorts before p: what is left lies on its right.               *)
LEMMA TurnRight ==
  ASSUME NEW p, NEW L, Insertable(p, L), NEW s, WalkType(p, L, s),
         NEW B, NEW o0, NEW S0, NEW o1, NEW S1, Walked(p, L, s, B, o0, S0, o1, S1),
         NEW m \in Nodes(p), m = s.match,
         NEW e \in 0 .. L - 1, SameBytes(p, m, e), At(m + e) < At(p + e),
         NEW r,
         r.son = [s.son EXCEPT ![s.ptr1] = m + 1], r.ptr1 = Pair(m) + 1, r.ptr0 = s.ptr0,
         r.match = s.son[Pair(m) + 1] - 1, r.len1 = e, r.len0 = s.len0
  PROVE  Walking(p, L, r)
<1>1. p \in Nat /\ L \in Nat /\ p + L <= n /\ n \in Nat /\ src \in Inputs
  BY DEF Insertable
<1>2. /\ Ghost(p, B) /\ TreeOK(s.son, p, L, B, {s.ptr0, s.ptr1})
      /\ Hole(p, L, B, s.ptr0, o0, S0) /\ Hole(p, L, B, s.ptr1, o1, S1) /\ s.ptr0 # s.ptr1
      /\ m < p /\ m < o0 /\ m < o1
      /\ Ahead(p, L, s, B, S0, S1)
  BY DEF Walked
<1>3. m \in Nat /\ m + L <= n /\ m + e <= n /\ p + e <= n /\ e \in Nat /\ e < L
      /\ o0 \in Nat /\ o1 \in Nat
  <2>1. m \in Nat /\ o0 \in Nat /\ o1 \in Nat
    BY <1>1, <1>2, NodesIn DEF Hole
  <2> QED
    BY <1>1, <1>2, <2>1
<1>4. NotAfter(m, p, L) /\ NotAfter(p, m, e)
  <2>1. SameBytes(m, p, e)
    BY SameSym
  <2>2. NotAfter(m, p, L)
    BY ONLY <1>1, <1>3, <2>1, At(m + e) < At(p + e), DiffersNotAfter
  <2> QED
    BY <1>1, <1>3, <2>2, SameNotAfter
<1>5. B \in [Nat -> SUBSET Nat] /\ B[p] = 0 .. p /\ \A k \in Nodes(p) : B[k] \subseteq 0 .. p
  BY <1>2 DEF Ghost
<1> DEFINE W == {x \in Nat : NotAfter(x, p, L)}
           C == [B EXCEPT ![m] = B[m] \cap W]
<1>6. C[m] = B[m] \cap W /\ (\A k \in Nat : k # m => C[k] = B[k]) /\ C \in [Nat -> SUBSET Nat]
  BY <1>3, <1>5
<1>7. Before(B, m, L) \subseteq W
  <2> SUFFICES ASSUME NEW x \in B[m], NotAfter(x, m, L) PROVE x \in W
    BY DEF Before
  <2>1. x \in Nat /\ x + L <= n
    BY <1>1, <1>5
  <2>2. NotAfter(x, p, L)
    BY ONLY <1>1, <1>3, <1>4, <2>1, NotAfter(x, m, L), NotAfterTrans
  <2> QED
    BY <2>1, <2>2
<1>8. TreeOK(s.son, p, L, C, {s.ptr0, s.ptr1, Pair(m) + 1})
  <2>1. PICK more : more = {s.ptr0, s.ptr1, Pair(m) + 1}
    OBVIOUS
  <2>2. m \in W /\ {s.ptr0, s.ptr1} \subseteq more
    BY <1>3, <1>4, <2>1
  <2>3. Pair(m) \in more \/ Before(B, m, L) \subseteq W
    BY <1>7, <2>1
  <2>4. Pair(m) + 1 \in more \/ After(B, m, L) \subseteq W
    BY <1>7, <2>1
  <2>5. PICK holes : holes = {s.ptr0, s.ptr1}
    OBVIOUS
  <2>6. TreeOK(s.son, p, L, B, holes) /\ holes \subseteq more /\ m \in W
    BY <1>2, <2>2, <2>5
  <2> HIDE DEF W
  <2>7. TreeOK(s.son, p, L, [B EXCEPT ![m] = B[m] \cap W], more)
    BY ONLY <1>1, <1>5, <2>3, <2>4, <2>6, m \in Nodes(p), Narrow
  <2> QED
    BY <2>1, <2>7
<1>9. Ghost(p, C)
  <2>1. C[p] = B[p] /\ \A k \in Nodes(p) : C[k] \subseteq B[k]
    BY <1>1, <1>2, <1>3, <1>6, NodesIn
  <2> QED
    BY <1>5, <1>6, <2>1 DEF Ghost
<1>10. Hole(p, L, C, s.ptr0, o0, S0) /\ Hole(p, L, C, s.ptr1, o1, S1)
  <2>1. C[o0] = B[o0] /\ C[o1] = B[o1]
    BY <1>2, <1>3, <1>6
  <2> HIDE DEF C
  <2> QED
    BY <1>2, <2>1, HoleKept
<1>11. s.ptr0 # Pair(m) + 1 /\ s.ptr1 # Pair(m) + 1
  <2>1. m # o0 /\ m # o1
    BY <1>2, <1>3
  <2> QED
    BY <1>1, <1>2, <2>1, HoleElsewhere
<1> HIDE DEF C
<1>12. LinkIn(m + 1, o1, p, C, S1)
  <2>1. C[m] \subseteq S1
    BY <1>2, <1>6 DEF Ahead
  <2>2. (m + 1) - 1 = m /\ m + 1 \in Nat
    BY <1>3
  <2> QED
    BY <1>2, <2>1, <2>2 DEF LinkIn
<1>13. TreeOK(r.son, p, L, C, {r.ptr0, r.ptr1})
  <2>1. DOMAIN s.son = 0 .. 2 * Window - 1
    BY DEF WalkType
  <2>2. {s.ptr0, s.ptr1, Pair(m) + 1} \subseteq {r.ptr0, r.ptr1} \cup {s.ptr1}
    OBVIOUS
  <2> QED
    BY <1>1, <1>8, <1>10, <1>12, <2>1, <2>2, FillHole
<1> DEFINE T == After(C, m, L)
<1>14. Hole(p, L, C, r.ptr1, m, T)
  BY DEF Hole
<1>15. LinkIn(s.son[Pair(m) + 1], m, p, B, After(B, m, L))
  BY <1>2, <1>11 DEF TreeOK
<1>16. r.match \in Int /\ r.match < m /\ r.match < p /\ r.match < o0
  <2>1. s.son[Pair(m) + 1] \in Nat /\ s.son[Pair(m) + 1] - 1 < m
    BY <1>15 DEF LinkIn
  <2> QED
    BY <1>1, <1>2, <1>3, <2>1
<1>17. ASSUME r.match \in Nodes(p) PROVE Ahead(p, L, r, C, S0, T)
  <2>1. r.match \in Nat /\ C[r.match] = B[r.match]
    BY <1>1, <1>3, <1>6, <1>16, <1>17, NodesIn
  <2>2. B[r.match] \subseteq After(B, m, L)
    BY <1>15, <1>17 DEF LinkIn
  <2>3. ASSUME NEW x \in C[r.match]
        PROVE  /\ x \in B[m] /\ NotAfter(m, x, L) /\ x \in Nat /\ x + L <= n
    BY <1>1, <1>5, <2>1, <2>2 DEF After
  <2>4. ASSUME NEW x \in C[r.match] PROVE NotAfter(p, x, r.len1) /\ NotAfter(x, p, r.len0)
    <3>1. NotAfter(x, p, s.len0)
      BY <1>2, <2>3 DEF Ahead
    <3>2. NotAfter(m, x, e) /\ x + e <= n
      BY <1>1, <1>3, <2>3, NotAfterLess
    <3>3. NotAfter(p, x, e)
      BY <1>1, <1>3, <1>4, <2>3, <3>2, NotAfterTrans
    <3> QED
      BY <3>1, <3>3
  <2>5. {x \in C[r.match] : NotAfter(x, p, L)} \subseteq T
    BY <1>6, <2>3 DEF After
  <2>6. {x \in C[r.match] : NotAfter(p, x, L)} \subseteq S0
    BY <1>2, <2>3 DEF Ahead
  <2> HIDE DEF T
  <2> QED
    BY <2>4, <2>5, <2>6 DEF Ahead
<1>18. Walked(p, L, r, C, o0, S0, m, T)
  <2> HIDE DEF T
  <2> QED
    BY <1>9, <1>10, <1>11, <1>13, <1>14, <1>16, <1>17 DEF Walked
<1> QED
  BY <1>18 DEF Walking

(* A node that sorts after p: what is left lies on its left.                 *)
LEMMA TurnLeft ==
  ASSUME NEW p, NEW L, Insertable(p, L), NEW s, WalkType(p, L, s),
         NEW B, NEW o0, NEW S0, NEW o1, NEW S1, Walked(p, L, s, B, o0, S0, o1, S1),
         NEW m \in Nodes(p), m = s.match,
         NEW e \in 0 .. L - 1, SameBytes(p, m, e), At(p + e) < At(m + e),
         NEW r,
         r.son = [s.son EXCEPT ![s.ptr0] = m + 1], r.ptr0 = Pair(m), r.ptr1 = s.ptr1,
         r.match = s.son[Pair(m)] - 1, r.len0 = e, r.len1 = s.len1
  PROVE  Walking(p, L, r)
<1>1. p \in Nat /\ L \in Nat /\ p + L <= n /\ n \in Nat /\ src \in Inputs
  BY DEF Insertable
<1>2. /\ Ghost(p, B) /\ TreeOK(s.son, p, L, B, {s.ptr0, s.ptr1})
      /\ Hole(p, L, B, s.ptr0, o0, S0) /\ Hole(p, L, B, s.ptr1, o1, S1) /\ s.ptr0 # s.ptr1
      /\ m < p /\ m < o0 /\ m < o1
      /\ Ahead(p, L, s, B, S0, S1)
  BY DEF Walked
<1>3. m \in Nat /\ m + L <= n /\ m + e <= n /\ p + e <= n /\ e \in Nat /\ e < L
      /\ o0 \in Nat /\ o1 \in Nat
  <2>1. m \in Nat /\ o0 \in Nat /\ o1 \in Nat
    BY <1>1, <1>2, NodesIn DEF Hole
  <2> QED
    BY <1>1, <1>2, <2>1
<1>4. NotAfter(p, m, L) /\ NotAfter(m, p, e)
  <2>1. SameBytes(m, p, e)
    BY SameSym
  <2>2. NotAfter(p, m, L)
    BY ONLY <1>1, <1>3, SameBytes(p, m, e), At(p + e) < At(m + e), DiffersNotAfter
  <2> QED
    BY <1>1, <1>3, <2>1, <2>2, SameNotAfter
<1>5. B \in [Nat -> SUBSET Nat] /\ B[p] = 0 .. p /\ \A k \in Nodes(p) : B[k] \subseteq 0 .. p
  BY <1>2 DEF Ghost
<1> DEFINE W == {x \in Nat : NotAfter(p, x, L)}
           C == [B EXCEPT ![m] = B[m] \cap W]
<1>6. C[m] = B[m] \cap W /\ (\A k \in Nat : k # m => C[k] = B[k]) /\ C \in [Nat -> SUBSET Nat]
  BY <1>3, <1>5
<1>7. After(B, m, L) \subseteq W
  <2> SUFFICES ASSUME NEW x \in B[m], NotAfter(m, x, L) PROVE x \in W
    BY DEF After
  <2>1. x \in Nat /\ x + L <= n
    BY <1>1, <1>5
  <2>2. NotAfter(p, x, L)
    BY ONLY <1>1, <1>3, <1>4, <2>1, NotAfter(m, x, L), NotAfterTrans
  <2> QED
    BY <2>1, <2>2
<1>8. TreeOK(s.son, p, L, C, {s.ptr0, s.ptr1, Pair(m)})
  <2>1. PICK more : more = {s.ptr0, s.ptr1, Pair(m)}
    OBVIOUS
  <2>2. m \in W /\ {s.ptr0, s.ptr1} \subseteq more
    BY <1>3, <1>4, <2>1
  <2>3. Pair(m) \in more \/ Before(B, m, L) \subseteq W
    BY <1>7, <2>1
  <2>4. Pair(m) + 1 \in more \/ After(B, m, L) \subseteq W
    BY <1>7, <2>1
  <2>5. PICK holes : holes = {s.ptr0, s.ptr1}
    OBVIOUS
  <2>6. TreeOK(s.son, p, L, B, holes) /\ holes \subseteq more /\ m \in W
    BY <1>2, <2>2, <2>5
  <2> HIDE DEF W
  <2>7. TreeOK(s.son, p, L, [B EXCEPT ![m] = B[m] \cap W], more)
    BY ONLY <1>1, <1>5, <2>3, <2>4, <2>6, m \in Nodes(p), Narrow
  <2> QED
    BY <2>1, <2>7
<1>9. Ghost(p, C)
  <2>1. C[p] = B[p] /\ \A k \in Nodes(p) : C[k] \subseteq B[k]
    BY <1>1, <1>2, <1>3, <1>6, NodesIn
  <2> QED
    BY <1>5, <1>6, <2>1 DEF Ghost
<1>10. Hole(p, L, C, s.ptr0, o0, S0) /\ Hole(p, L, C, s.ptr1, o1, S1)
  <2>1. C[o0] = B[o0] /\ C[o1] = B[o1]
    BY <1>2, <1>3, <1>6
  <2> HIDE DEF C
  <2> QED
    BY <1>2, <2>1, HoleKept
<1>11. s.ptr0 # Pair(m) /\ s.ptr1 # Pair(m)
  <2>1. m # o0 /\ m # o1
    BY <1>2, <1>3
  <2> QED
    BY <1>1, <1>2, <2>1, HoleElsewhere
<1> HIDE DEF C
<1>12. LinkIn(m + 1, o0, p, C, S0)
  <2>1. C[m] \subseteq S0
    BY <1>2, <1>6 DEF Ahead
  <2>2. (m + 1) - 1 = m /\ m + 1 \in Nat
    BY <1>3
  <2> QED
    BY <1>2, <2>1, <2>2 DEF LinkIn
<1>13. TreeOK(r.son, p, L, C, {r.ptr0, r.ptr1})
  <2>1. DOMAIN s.son = 0 .. 2 * Window - 1
    BY DEF WalkType
  <2>2. {s.ptr0, s.ptr1, Pair(m)} \subseteq {r.ptr0, r.ptr1} \cup {s.ptr0}
    OBVIOUS
  <2> QED
    BY <1>1, <1>8, <1>10, <1>12, <2>1, <2>2, FillHole
<1> DEFINE T == Before(C, m, L)
<1>14. Hole(p, L, C, r.ptr0, m, T)
  BY DEF Hole
<1>15. LinkIn(s.son[Pair(m)], m, p, B, Before(B, m, L))
  BY <1>2, <1>11 DEF TreeOK
<1>16. r.match \in Int /\ r.match < m /\ r.match < p /\ r.match < o1
  <2>1. s.son[Pair(m)] \in Nat /\ s.son[Pair(m)] - 1 < m
    BY <1>15 DEF LinkIn
  <2> QED
    BY <1>1, <1>2, <1>3, <2>1
<1>17. ASSUME r.match \in Nodes(p) PROVE Ahead(p, L, r, C, T, S1)
  <2>1. r.match \in Nat /\ C[r.match] = B[r.match]
    BY <1>1, <1>3, <1>6, <1>16, <1>17, NodesIn
  <2>2. B[r.match] \subseteq Before(B, m, L)
    BY <1>15, <1>17 DEF LinkIn
  <2>3. ASSUME NEW x \in C[r.match]
        PROVE  /\ x \in B[m] /\ NotAfter(x, m, L) /\ x \in Nat /\ x + L <= n
    BY <1>1, <1>5, <2>1, <2>2 DEF Before
  <2>4. ASSUME NEW x \in C[r.match] PROVE NotAfter(p, x, r.len1) /\ NotAfter(x, p, r.len0)
    <3>1. NotAfter(p, x, s.len1)
      BY <1>2, <2>3 DEF Ahead
    <3>2. NotAfter(x, m, e) /\ x + e <= n
      BY <1>1, <1>3, <2>3, NotAfterLess
    <3>3. NotAfter(x, p, e)
      BY <1>1, <1>3, <1>4, <2>3, <3>2, NotAfterTrans
    <3> QED
      BY <3>1, <3>3
  <2>5. {x \in C[r.match] : NotAfter(p, x, L)} \subseteq T
    BY <1>6, <2>3 DEF Before
  <2>6. {x \in C[r.match] : NotAfter(x, p, L)} \subseteq S1
    BY <1>2, <2>3 DEF Ahead
  <2> HIDE DEF T
  <2> QED
    BY <2>4, <2>5, <2>6 DEF Ahead
<1>18. Walked(p, L, r, C, m, T, o1, S1)
  <2> HIDE DEF T
  <2> QED
    BY <1>9, <1>10, <1>11, <1>13, <1>14, <1>16, <1>17 DEF Walked
<1> QED
  BY <1>18 DEF Walking

(* A node that is p as far as p is compared: p takes its place.              *)
LEMMA TakePlace ==
  ASSUME NEW p, NEW L, Insertable(p, L), NEW s, WalkType(p, L, s),
         NEW B, NEW o0, NEW S0, NEW o1, NEW S1, Walked(p, L, s, B, o0, S0, o1, S1),
         NEW m \in Nodes(p), m = s.match, SameBytes(p, m, L),
         NEW t, t = [s.son EXCEPT ![s.ptr1] = s.son[Pair(m)], ![s.ptr0] = s.son[Pair(m) + 1]]
  PROVE  Whole(p, L, t)
<1>1. p \in Nat /\ L \in Nat /\ p + L <= n /\ n \in Nat /\ src \in Inputs
  BY DEF Insertable
<1>2. /\ Ghost(p, B) /\ TreeOK(s.son, p, L, B, {s.ptr0, s.ptr1})
      /\ Hole(p, L, B, s.ptr0, o0, S0) /\ Hole(p, L, B, s.ptr1, o1, S1) /\ s.ptr0 # s.ptr1
      /\ m < p /\ m < o0 /\ m < o1
      /\ Ahead(p, L, s, B, S0, S1)
  BY DEF Walked
<1>3. m \in Nat /\ m + L <= n /\ o0 \in Nat /\ o1 \in Nat
  <2>1. m \in Nat /\ o0 \in Nat /\ o1 \in Nat
    BY <1>1, <1>2, NodesIn DEF Hole
  <2> QED
    BY <1>1, <1>2, <2>1
<1>4. NotAfter(m, p, L) /\ NotAfter(p, m, L)
  <2>1. SameBytes(m, p, L)
    BY SameSym
  <2> QED
    BY <1>1, <1>3, <2>1, SameNotAfter
<1>5. B \in [Nat -> SUBSET Nat] /\ B[p] = 0 .. p /\ \A k \in Nodes(p) : B[k] \subseteq 0 .. p
  BY <1>2 DEF Ghost
<1>6. \A x \in B[m] : x \in Nat /\ x + L <= n
  BY <1>1, <1>5
<1>7. Before(B, m, L) \subseteq S1
  <2> SUFFICES ASSUME NEW x \in B[m], NotAfter(x, m, L) PROVE x \in S1
    BY DEF Before
  <2>1. NotAfter(x, p, L)
    BY ONLY <1>1, <1>3, <1>4, <1>6, x \in B[m], NotAfter(x, m, L), NotAfterTrans
  <2> QED
    BY <1>2, <2>1 DEF Ahead
<1>8. After(B, m, L) \subseteq S0
  <2> SUFFICES ASSUME NEW x \in B[m], NotAfter(m, x, L) PROVE x \in S0
    BY DEF After
  <2>1. NotAfter(p, x, L)
    BY ONLY <1>1, <1>3, <1>4, <1>6, x \in B[m], NotAfter(m, x, L), NotAfterTrans
  <2> QED
    BY <1>2, <2>1 DEF Ahead
<1>9. m # o0 /\ m # o1
  BY <1>2, <1>3
<1>10. /\ LinkIn(s.son[Pair(m)], m, p, B, Before(B, m, L))
       /\ LinkIn(s.son[Pair(m) + 1], m, p, B, After(B, m, L))
  <2>1. /\ s.ptr0 # Pair(m) /\ s.ptr0 # Pair(m) + 1
        /\ s.ptr1 # Pair(m) /\ s.ptr1 # Pair(m) + 1
    BY <1>1, <1>2, <1>9, HoleElsewhere
  <2> QED
    BY <1>2, <2>1 DEF TreeOK
<1>11. PICK l1 : l1 = s.son[Pair(m)]
  OBVIOUS
<1>12. PICK l0 : l0 = s.son[Pair(m) + 1]
  OBVIOUS
<1>13. LinkIn(l1, o1, p, B, S1)
  BY <1>2, <1>3, <1>7, <1>10, <1>11 DEF LinkIn
<1>14. LinkIn(l0, o0, p, B, S0)
  BY <1>2, <1>3, <1>8, <1>10, <1>12 DEF LinkIn
<1>15. PICK u : u = [s.son EXCEPT ![s.ptr1] = l1]
  OBVIOUS
<1>16. DOMAIN s.son = 0 .. 2 * Window - 1 /\ DOMAIN u = 0 .. 2 * Window - 1
       /\ t = [u EXCEPT ![s.ptr0] = l0]
  BY <1>11, <1>12, <1>15 DEF WalkType
<1>17. TreeOK(u, p, L, B, {s.ptr0})
  <2>1. {s.ptr0, s.ptr1} \subseteq {s.ptr0} \cup {s.ptr1}
    OBVIOUS
  <2> QED
    BY <1>1, <1>2, <1>13, <1>15, <1>16, <2>1, FillHole
<1>18. TreeOK(t, p, L, B, {})
  <2>1. {s.ptr0} \subseteq {} \cup {s.ptr0}
    OBVIOUS
  <2> QED
    BY <1>1, <1>2, <1>14, <1>16, <1>17, <2>1, FillHole
<1> QED
  BY <1>2, <1>18 DEF Whole

(* The end of the tree, or of the walk: nothing more is linked.              *)
LEMMA CloseTree ==
  ASSUME NEW p, NEW L, Insertable(p, L), NEW s, WalkType(p, L, s), Walking(p, L, s)
  PROVE  Whole(p, L, [s.son EXCEPT ![s.ptr0] = 0, ![s.ptr1] = 0])
<1>1. PICK B, o0, S0, o1, S1 : Walked(p, L, s, B, o0, S0, o1, S1)
  BY DEF Walking
<1>2. /\ Ghost(p, B) /\ TreeOK(s.son, p, L, B, {s.ptr0, s.ptr1})
      /\ Hole(p, L, B, s.ptr0, o0, S0) /\ Hole(p, L, B, s.ptr1, o1, S1) /\ s.ptr0 # s.ptr1
  BY <1>1 DEF Walked
<1>3. p \in Nat
  BY DEF Insertable
<1>4. LinkIn(0, o0, p, B, S0) /\ LinkIn(0, o1, p, B, S1)
  <2>1. o0 \in Nat /\ o1 \in Nat /\ 0 - 1 \notin Nodes(p)
    BY <1>2, <1>3, NodesIn DEF Hole
  <2> QED
    BY <2>1 DEF LinkIn
<1>5. PICK u : u = [s.son EXCEPT ![s.ptr0] = 0]
  OBVIOUS
<1>6. PICK t : t = [s.son EXCEPT ![s.ptr0] = 0, ![s.ptr1] = 0]
  OBVIOUS
<1>7. DOMAIN s.son = 0 .. 2 * Window - 1 /\ DOMAIN u = 0 .. 2 * Window - 1
       /\ t = [u EXCEPT ![s.ptr1] = 0]
  BY <1>5, <1>6 DEF WalkType
<1>8. TreeOK(u, p, L, B, {s.ptr1})
  <2>1. {s.ptr0, s.ptr1} \subseteq {s.ptr1} \cup {s.ptr0}
    OBVIOUS
  <2> QED
    BY <1>2, <1>3, <1>4, <1>5, <1>7, <2>1, FillHole
<1>9. TreeOK(t, p, L, B, {})
  <2>1. {s.ptr1} \subseteq {} \cup {s.ptr1}
    OBVIOUS
  <2> QED
    BY <1>2, <1>3, <1>4, <1>7, <1>8, <2>1, FillHole
<1> QED
  BY <1>2, <1>6, <1>9 DEF Whole

(* A step of the walk.                                                       *)
LEMMA WalkStepOK ==
  ASSUME NEW p, NEW L, Insertable(p, L), NEW s, WalkOK(p, L, s)
  PROVE  WalkOK(p, L, WalkStep(p, s))
<1> DEFINE m == s.match
           e == Equal(p, s)
           longer == e > Known(s) /\ e > s.best
           found == IF longer /\ Len(s.cands) < MaxCand
                    THEN Append(s.cands, <<e, p - m>>) ELSE s.cands
           best == IF longer THEN e ELSE s.best
<1>1. p \in Nat /\ L \in Nat /\ p + L <= n /\ n \in Nat /\ src \in Inputs
      /\ L = LenLimit(p) /\ L >= MinMatch
  BY DEF Insertable
<1>2. WalkType(p, L, s)
  BY DEF WalkOK
<1>3. CASE s.whole \/ m < 0 \/ p - m >= Window
  <2>1. WalkStep(p, s) = s
    BY <1>3 DEF WalkStep
  <2> QED
    BY <2>1
<1>4. CASE ~(s.whole \/ m < 0 \/ p - m >= Window)
  <2>1. PICK B, o0, S0, o1, S1 : Walked(p, L, s, B, o0, S0, o1, S1)
    BY <1>4 DEF WalkOK, Walking
  <2>2. m \in Nodes(p) /\ m < p /\ m \in Nat /\ m \in B[m] /\ s.best < L
    <3>1. m \in Int /\ m < p /\ s.best < L
      BY <1>2, <1>4, <2>1 DEF WalkType, Walked, WalkOK
    <3>2. m \in Nodes(p) /\ m \in Nat
      BY <1>1, <1>4, <3>1, WindowIs DEF Nodes
    <3> QED
      BY <2>1, <3>1, <3>2 DEF Walked, TreeOK
  <2>3. Ahead(p, L, s, B, S0, S1)
    BY <2>1, <2>2 DEF Walked
  <2>4. NotAfter(p, m, s.len1) /\ NotAfter(m, p, s.len0)
    BY <2>2, <2>3 DEF Ahead
  <2>5. /\ e \in Known(s) .. L /\ Known(s) \in Nat /\ SameBytes(p, m, e)
        /\ (e < L => At(m + e) # At(p + e))
    BY <1>2, <2>2, <2>4, EqualIs
  <2> HIDE DEF e
  <2>6. e \in Nat /\ e <= L /\ p + e <= n /\ m + e <= n
    BY <1>1, <2>2, <2>5
  <2>7. Matches(p, found)
    <3>1. CASE longer /\ Len(s.cands) < MaxCand
      <4>1. MatchAt(p, <<e, p - m>>)
        <5>1. s.best \in Nat /\ s.best >= MinMatch - 1
          BY <1>2 DEF WalkType
        <5>2. e >= MinMatch
          BY <2>6, <3>1, <5>1
        <5>3. 1 <= p - m /\ p - m <= p /\ p - (p - m) = m /\ p - m \in Nat
          BY <1>1, <2>2
        <5>4. p - m < Window
          BY <1>1, <1>4, <2>2, WindowIs
        <5> QED
          BY <2>5, <2>6, <5>2, <5>3, <5>4 DEF MatchAt
      <4>2. PICK c : c = <<e, p - m>>
        OBVIOUS
      <4>3. s.cands \in Seq(Nat \X Nat) /\ \A k \in 1 .. Len(s.cands) : MatchAt(p, s.cands[k])
        BY <1>2 DEF WalkType, Matches
      <4>4. c \in Nat \X Nat /\ MatchAt(p, c)
        BY <4>1, <4>2 DEF MatchAt
      <4>5. PICK q \in Seq(Nat \X Nat) : q = s.cands
        BY <4>3
      <4>6. /\ Append(q, c) \in Seq(Nat \X Nat) /\ Len(Append(q, c)) = Len(q) + 1
            /\ \A k \in 1 .. Len(q) + 1 : Append(q, c)[k] = IF k <= Len(q) THEN q[k] ELSE c
        BY ONLY <4>4, q \in Seq(Nat \X Nat)
      <4>7. \A k \in 1 .. Len(q) + 1 : MatchAt(p, Append(q, c)[k])
        <5>1. \A k \in 1 .. Len(q) + 1 : k <= Len(q) => k \in 1 .. Len(q)
          OBVIOUS
        <5> QED
          BY <4>3, <4>4, <4>5, <4>6, <5>1
      <4> QED
        BY <3>1, <4>2, <4>5, <4>6, <4>7 DEF Matches
    <3>2. CASE ~(longer /\ Len(s.cands) < MaxCand)
      BY <1>2, <3>2 DEF WalkType
    <3> QED
      BY <3>1, <3>2
  <2>8. best \in Nat /\ best >= MinMatch - 1 /\ best >= s.best
    <3>1. s.best \in Nat /\ s.best >= MinMatch - 1
      BY <1>2 DEF WalkType
    <3> QED
      BY <2>6, <3>1
  <2>9. found \in Seq(Nat \X Nat)
    BY <2>7 DEF Matches
  <2> HIDE DEF longer, found, best
  <2>10. /\ s.son \in [0 .. 2 * Window - 1 -> Nat \cup {Unset}]
         /\ s.ptr1 \in 0 .. 2 * Window - 1 /\ s.ptr0 \in 0 .. 2 * Window - 1
         /\ s.len0 \in 0 .. L - 1 /\ s.len1 \in 0 .. L - 1
         /\ s = [son |-> s.son, ptr1 |-> s.ptr1, ptr0 |-> s.ptr0, whole |-> s.whole,
                 match |-> s.match, len0 |-> s.len0, len1 |-> s.len1,
                 best |-> s.best, cands |-> s.cands]
    BY <1>2 DEF WalkType
  <2>11. PICK r : r = WalkStep(p, s)
    OBVIOUS
  <2>12. Pair(m) \in 0 .. 2 * Window - 1 /\ Pair(m) + 1 \in 0 .. 2 * Window - 1
    BY <1>1, <2>2, PairIs
  <2>13. CASE longer /\ e >= L
    <3>1. r = [son |-> [s.son EXCEPT ![s.ptr1] = s.son[Pair(m)], ![s.ptr0] = s.son[Pair(m) + 1]],
               ptr1 |-> s.ptr1, ptr0 |-> s.ptr0, whole |-> TRUE,
               match |-> s.match, len0 |-> s.len0, len1 |-> s.len1,
               best |-> best, cands |-> found]
      BY <1>1, <1>4, <2>10, <2>11, <2>13 DEF WalkStep, longer, best, found, e
    <3>2. SameBytes(p, m, L)
      <4>1. e = L
        BY <1>1, <2>6, <2>13
      <4> QED
        BY <2>5, <4>1
    <3>3. Whole(p, L, r.son)
      <4>1. r.son = [s.son EXCEPT ![s.ptr1] = s.son[Pair(m)], ![s.ptr0] = s.son[Pair(m) + 1]]
        BY <3>1
      <4> QED
        BY <1>2, <2>1, <2>2, <3>2, <4>1, TakePlace
    <3>4. WalkType(p, L, r)
      <4>1. r.son \in [0 .. 2 * Window - 1 -> Nat \cup {Unset}]
        BY <2>10, <2>12, <3>1
      <4>2. r.cands = found /\ r.best = best /\ s.match \in Int /\ r.whole = TRUE
        BY <2>2, <3>1
      <4> QED
        BY <2>7, <2>8, <2>9, <2>10, <3>1, <4>1, <4>2 DEF WalkType
    <3> QED
      BY <2>11, <3>1, <3>3, <3>4 DEF WalkOK
  <2>14. CASE ~(longer /\ e >= L)
    <3>1. e < L /\ best < L
      <4>1. e < L
        <5>1. CASE e >= L
          <6>1. e = L /\ Known(s) < L
            <7>1. s.len0 < L /\ s.len1 < L /\ s.len0 \in Int /\ s.len1 \in Int
              <8>1. s.len0 \in 0 .. L - 1 /\ s.len1 \in 0 .. L - 1 /\ L \in Nat
                BY ONLY <1>1, <2>10
              <8> QED
                BY ONLY <8>1
            <7>2. e \in Nat /\ L \in Nat /\ e <= L
              BY <1>1, <2>6
            <7>3. Known(s) < L
              BY ONLY <7>1, <7>2 DEF Known
            <7> QED
              BY ONLY <5>1, <7>2, <7>3
          <6>2. longer
            BY <1>1, <1>2, <2>2, <6>1 DEF longer, WalkType
          <6> QED
            BY <2>14, <5>1, <6>2
        <5> QED
          BY <1>1, <2>6, <5>1
      <4> QED
        BY <2>2, <4>1 DEF best
    <3>2. e \in 0 .. L - 1
      BY <1>1, <2>6, <3>1
    <3>3. CASE At(m + e) < At(p + e)
      <4>1. r = [son |-> [s.son EXCEPT ![s.ptr1] = m + 1],
                 ptr1 |-> Pair(m) + 1, ptr0 |-> s.ptr0, whole |-> s.whole,
                 match |-> s.son[Pair(m) + 1] - 1, len0 |-> s.len0, len1 |-> e,
                 best |-> best, cands |-> found]
        BY <1>1, <1>4, <2>10, <2>11, <2>14, <3>3 DEF WalkStep, longer, best, found, e
      <4>2. Walking(p, L, r)
        <5>1. /\ r.son = [s.son EXCEPT ![s.ptr1] = m + 1] /\ r.ptr1 = Pair(m) + 1
              /\ r.ptr0 = s.ptr0 /\ r.match = s.son[Pair(m) + 1] - 1 /\ r.len1 = e
              /\ r.len0 = s.len0
          BY <4>1
        <5> QED
          BY <1>2, <2>1, <2>2, <2>5, <3>2, <3>3, <5>1, TurnRight
      <4>3. r.match \in Int
        BY <4>2, <4>1 DEF Walking, Walked
      <4>4. WalkType(p, L, r)
        <5>1. r.son \in [0 .. 2 * Window - 1 -> Nat \cup {Unset}]
          <6>1. r.son = [s.son EXCEPT ![s.ptr1] = m + 1] \/ r.son = [s.son EXCEPT ![s.ptr0] = m + 1]
            BY ONLY <4>1
          <6>2. s.son \in [0 .. 2 * Window - 1 -> Nat \cup {Unset}] /\ m + 1 \in Nat
            BY <2>2, <2>10
          <6> QED
            BY ONLY <6>1, <6>2
        <5>2. r.cands = found /\ r.best = best /\ r.whole \in BOOLEAN
          BY <1>2, <4>1 DEF WalkType
        <5> QED
          BY <2>7, <2>8, <2>9, <2>10, <2>12, <3>2, <4>1, <4>3, <5>1, <5>2 DEF WalkType
      <4> QED
        BY <1>4, <2>11, <3>1, <4>1, <4>2, <4>4 DEF WalkOK
    <3>4. CASE ~(At(m + e) < At(p + e))
      <4>1. r = [son |-> [s.son EXCEPT ![s.ptr0] = m + 1],
                 ptr1 |-> s.ptr1, ptr0 |-> Pair(m), whole |-> s.whole,
                 match |-> s.son[Pair(m)] - 1, len0 |-> e, len1 |-> s.len1,
                 best |-> best, cands |-> found]
        BY <1>1, <1>4, <2>10, <2>11, <2>14, <3>4 DEF WalkStep, longer, best, found, e
      <4>2. At(p + e) < At(m + e)
        <5>1. m + e \in Nat /\ m + e < n /\ p + e \in Nat /\ p + e < n
          BY <1>1, <2>2, <2>6, <3>1
        <5>2. At(m + e) \in Nat /\ At(p + e) \in Nat
          BY <1>1, <5>1, ByteIs
        <5> QED
          BY <2>5, <3>1, <3>4, <5>2
      <4>3. Walking(p, L, r)
        <5>1. /\ r.son = [s.son EXCEPT ![s.ptr0] = m + 1] /\ r.ptr0 = Pair(m)
              /\ r.ptr1 = s.ptr1 /\ r.match = s.son[Pair(m)] - 1 /\ r.len0 = e
              /\ r.len1 = s.len1
          BY <4>1
        <5> QED
          BY <1>2, <2>1, <2>2, <2>5, <3>2, <4>2, <5>1, TurnLeft
      <4>4. r.match \in Int
        BY <4>3, <4>1 DEF Walking, Walked
      <4>5. WalkType(p, L, r)
        <5>1. r.son \in [0 .. 2 * Window - 1 -> Nat \cup {Unset}]
          <6>1. r.son = [s.son EXCEPT ![s.ptr1] = m + 1] \/ r.son = [s.son EXCEPT ![s.ptr0] = m + 1]
            BY ONLY <4>1
          <6>2. s.son \in [0 .. 2 * Window - 1 -> Nat \cup {Unset}] /\ m + 1 \in Nat
            BY <2>2, <2>10
          <6> QED
            BY ONLY <6>1, <6>2
        <5>2. r.cands = found /\ r.best = best /\ r.whole \in BOOLEAN
          BY <1>2, <4>1 DEF WalkType
        <5> QED
          BY <2>7, <2>8, <2>9, <2>10, <2>12, <3>2, <4>1, <4>4, <5>1, <5>2 DEF WalkType
      <4> QED
        BY <1>4, <2>11, <3>1, <4>1, <4>3, <4>5 DEF WalkOK
    <3> QED
      BY <3>3, <3>4
  <2> QED
    BY <2>13, <2>14
<1> QED
  BY <1>3, <1>4

--------------------------------------------------------------------------------
(* Before p is inserted, its own links are those that are to be set.         *)
TreeRest(t, p) ==
  \E B : Ghost(p, B) /\ TreeOK(t, p, LenLimit(p), B, {Pair(p), Pair(p) + 1})

TreeInv(t, rs, p) ==
  /\ t \in [0 .. 2 * Window - 1 -> Nat \cup {Unset}]
  /\ rs \in [Buckets -> Nat] /\ \A h \in Buckets : rs[h] <= p
  /\ TreeRest(t, p)

LEMMA WalkStartOK ==
  ASSUME NEW p, NEW L, Insertable(p, L), TreeInv(son, roots, p)
  PROVE  WalkOK(p, L, WalkStart(p))
<1>1. p \in Nat /\ L \in Nat /\ p + L <= n /\ n \in Nat /\ src \in Inputs
      /\ L = LenLimit(p) /\ L >= MinMatch /\ L - 1 \in Nat
  BY DEF Insertable
<1>2. PICK B : Ghost(p, B) /\ TreeOK(son, p, L, B, {Pair(p), Pair(p) + 1})
  BY <1>1 DEF TreeInv, TreeRest
<1>3. PICK h : h = HashShort(p)
  OBVIOUS
<1>4. h \in Buckets /\ roots[h] \in Nat /\ roots[h] - 1 < p /\ roots[h] - 1 \in Int
  <2>1. h \in Buckets
    BY <1>1, <1>3, HashIs
  <2>2. roots[h] \in Nat /\ roots[h] <= p
    BY <2>1 DEF TreeInv
  <2> QED
    BY <1>1, <2>1, <2>2
<1>5. PICK s : s = WalkStart(p)
  OBVIOUS
<1>6. s = [son |-> son, ptr1 |-> Pair(p), ptr0 |-> Pair(p) + 1, whole |-> FALSE,
           match |-> roots[h] - 1, len0 |-> 0, len1 |-> 0,
           best |-> MinMatch - 1, cands |-> <<>>]
  BY <1>3, <1>5 DEF WalkStart
<1>7. p \in Nodes(p) /\ Pair(p) \in 0 .. 2 * Window - 1 /\ Pair(p) + 1 \in 0 .. 2 * Window - 1
      /\ Pair(p) # Pair(p) + 1
  BY <1>1, NodesIn, PairIs
<1>8. WalkType(p, L, s)
  <2>1. s.cands = <<>> /\ Len(s.cands) = 0 /\ s.cands \in Seq(Nat \X Nat)
    BY <1>6
  <2>2. Matches(p, s.cands)
    BY <2>1 DEF Matches
  <2>3. s.best = MinMatch - 1 /\ MinMatch - 1 \in Nat /\ 0 \in 0 .. L - 1
    BY <1>1, <1>6
  <2>4. son \in [0 .. 2 * Window - 1 -> Nat \cup {Unset}]
    BY DEF TreeInv
  <2> QED
    BY <1>4, <1>6, <1>7, <2>1, <2>2, <2>3, <2>4 DEF WalkType
<1>9. B[p] = 0 .. p /\ \A k \in Nodes(p) : B[k] \subseteq 0 .. p
  BY <1>2 DEF Ghost
<1> DEFINE S1 == Before(B, p, L)
           S0 == After(B, p, L)
<1>10. ASSUME s.match \in Nodes(p) PROVE Ahead(p, L, s, B, S0, S1)
  <2>1. \A x : NotAfter(p, x, 0) /\ NotAfter(x, p, 0)
    BY DEF NotAfter
  <2>2. s.len0 = 0 /\ s.len1 = 0
    BY <1>6
  <2>3. {x \in B[s.match] : NotAfter(x, p, L)} \subseteq S1
    BY <1>9, <1>10 DEF Before
  <2>4. {x \in B[s.match] : NotAfter(p, x, L)} \subseteq S0
    BY <1>9, <1>10 DEF After
  <2> QED
    BY <2>1, <2>2, <2>3, <2>4 DEF Ahead
<1>11. Hole(p, L, B, s.ptr0, p, S0) /\ Hole(p, L, B, s.ptr1, p, S1)
  BY <1>6, <1>7 DEF Hole
<1> HIDE DEF S0, S1
<1>12. Walked(p, L, s, B, p, S0, p, S1)
  <2>1. TreeOK(s.son, p, L, B, {s.ptr0, s.ptr1})
    <3>1. {s.ptr0, s.ptr1} = {Pair(p), Pair(p) + 1} /\ s.son = son
      BY <1>6
    <3> QED
      BY <1>2, <3>1
  <2>2. s.match \in Int /\ s.match < p /\ s.ptr0 # s.ptr1
    BY <1>4, <1>6, <1>7
  <2> QED
    BY <1>2, <1>10, <1>11, <2>1, <2>2 DEF Walked
<1>13. s.best < L
  BY <1>1, <1>6
<1>14. Walking(p, L, s)
  BY ONLY <1>12, Zenon DEF Walking
<1>15. s.whole = FALSE
  BY <1>6
<1>16. WalkOK(p, L, s)
  BY ONLY <1>8, <1>13, <1>14, <1>15 DEF WalkOK
<1> QED
  BY <1>5, <1>16

Walk(p, m, g) == g = [k \in 0 .. m |-> IF k = 0 THEN WalkStart(p) ELSE WalkStep(p, g[k - 1])]

LEMMA WalkExists ==
  ASSUME NEW p, NEW k \in Nat
  PROVE  \E g : Walk(p, k, g)
<1> DEFINE T == {m \in Nat : ~ \E g : Walk(p, m, g)}
<1>1. CASE T = {}
  BY <1>1
<1>2. CASE T # {}
  <2>1. PICK m \in T : \A y \in T : ~(y < m)
    BY <1>2, LeastNat
  <2>2. m # 0
    <3>1. Walk(p, 0, [x \in 0 .. 0 |-> WalkStart(p)])
      BY DEF Walk
    <3> QED
      BY <2>1, <3>1
  <2>3. PICK g : Walk(p, m - 1, g)
    BY <2>1, <2>2
  <2> DEFINE f == [x \in 0 .. m |-> IF x = m THEN WalkStep(p, g[m - 1]) ELSE g[x]]
  <2>4. ASSUME NEW x \in 0 .. m
        PROVE  f[x] = IF x = 0 THEN WalkStart(p) ELSE WalkStep(p, f[x - 1])
    <3>1. CASE x = m
      <4>1. f[x - 1] = g[x - 1]
        BY <2>1, <2>2, <3>1
      <4> QED
        BY <2>2, <3>1, <4>1
    <3>2. CASE x # m
      <4>1. x \in 0 .. m - 1 /\ f[x] = g[x] /\ (x # 0 => f[x - 1] = g[x - 1])
        BY <2>1, <3>2
      <4>2. g[x] = IF x = 0 THEN WalkStart(p) ELSE WalkStep(p, g[x - 1])
        BY <2>3, <4>1 DEF Walk
      <4> QED
        BY <4>1, <4>2
    <3> QED
      BY <3>1, <3>2
  <2>5. Walk(p, m, f)
    BY <2>4 DEF Walk
  <2> QED
    BY <2>1, <2>5
<1> QED
  BY <1>1, <1>2

(* The tree with p in it, and what was found on the way.                     *)
InsertedIs(p, L, s) ==
  /\ s.son \in [0 .. 2 * Window - 1 -> Nat \cup {Unset}]
  /\ Whole(p, L, s.son)
  /\ Matches(p, s.cands)

LEMMA InsertedTree ==
  ASSUME NEW p, NEW L, Insertable(p, L), TreeInv(son, roots, p)
  PROVE  InsertedIs(p, L, Inserted(p))
<1>1. Cut \in Nat
  BY OptAssumption DEF OptAssumption
<1> DEFINE f == CHOOSE g : g = [k \in 0 .. Cut |-> IF k = 0 THEN WalkStart(p) ELSE WalkStep(p, g[k - 1])]
<1>2. Walk(p, Cut, f)
  <2>1. \E g : Walk(p, Cut, g)
    BY <1>1, WalkExists
  <2> QED
    BY <2>1 DEF Walk
<1>3. PICK s : s = f[Cut]
  OBVIOUS
<1>4. Inserted(p) = IF s.whole THEN s ELSE [s EXCEPT !.son = [@ EXCEPT ![s.ptr0] = 0, ![s.ptr1] = 0]]
  BY <1>3 DEF Inserted, Closed
<1> HIDE DEF f
<1> DEFINE T == {k \in 0 .. Cut : ~WalkOK(p, L, f[k])}
<1>5. T = {}
  <2> SUFFICES ASSUME T # {} PROVE FALSE
    OBVIOUS
  <2>1. PICK k \in T : \A y \in T : ~(y < k)
    <3>1. T \subseteq Nat
      OBVIOUS
    <3> HIDE DEF T
    <3> QED
      BY <3>1, LeastNat
  <2>2. k \in 0 .. Cut /\ ~WalkOK(p, L, f[k])
    BY <2>1
  <2>3. f[k] = IF k = 0 THEN WalkStart(p) ELSE WalkStep(p, f[k - 1])
    BY <1>2, <2>2 DEF Walk
  <2>4. k # 0
    BY <2>2, <2>3, WalkStartOK
  <2>5. k - 1 \in 0 .. Cut /\ k - 1 < k
    BY <1>1, <2>2, <2>4
  <2>6. WalkOK(p, L, f[k - 1])
    BY <2>1, <2>5
  <2>7. WalkOK(p, L, WalkStep(p, f[k - 1]))
    BY <2>6, WalkStepOK
  <2> QED
    BY <2>2, <2>3, <2>4, <2>7
<1>6. WalkOK(p, L, s)
  BY <1>1, <1>3, <1>5
<1>7. WalkType(p, L, s)
  BY <1>6 DEF WalkOK
<1>8. CASE s.whole
  BY <1>4, <1>6, <1>7, <1>8 DEF WalkOK, WalkType, InsertedIs
<1>9. CASE ~s.whole
  <2>1. Walking(p, L, s)
    BY <1>6, <1>9 DEF WalkOK
  <2>2. Whole(p, L, [s.son EXCEPT ![s.ptr0] = 0, ![s.ptr1] = 0])
    BY <1>7, <2>1, CloseTree
  <2>3. PICK t : t = [s.son EXCEPT ![s.ptr0] = 0, ![s.ptr1] = 0]
    OBVIOUS
  <2>4. t \in [0 .. 2 * Window - 1 -> Nat \cup {Unset}]
    BY <1>7, <2>3 DEF WalkType
  <2>5. Inserted(p).son = t /\ Inserted(p).cands = s.cands
    BY <1>4, <1>7, <1>9, <2>3 DEF WalkType
  <2> QED
    BY <1>7, <2>2, <2>3, <2>4, <2>5 DEF WalkType, InsertedIs
<1> QED
  BY <1>8, <1>9

LEMMA LenLimitIs ==
  ASSUME src \in Inputs, NEW p \in Nat, p <= n
  PROVE  /\ LenLimit(p) \in Nat /\ p + LenLimit(p) <= n /\ n \in Nat
         /\ LenLimit(p) <= BtMaxLen /\ BtMaxLen \in Nat
         /\ p + MinMatch <= n => Insertable(p, LenLimit(p))
<1>1. n \in Nat /\ BtMaxLen \in Nat /\ BtMaxLen >= MinMatch
  BY InputLen, OptAssumption DEF n, OptAssumption
<1>2. LenLimit(p) \in Nat /\ p + LenLimit(p) <= n /\ LenLimit(p) <= BtMaxLen
      /\ (p + MinMatch <= n => LenLimit(p) >= MinMatch)
  BY <1>1 DEF LenLimit
<1> QED
  BY <1>1, <1>2 DEF Insertable

(* One position on, the oldest node goes, and less is compared.              *)
LEMMA WholeRest ==
  ASSUME src \in Inputs, NEW p \in Nat, p + 1 <= n, NEW t, Whole(p, LenLimit(p), t)
  PROVE  TreeRest(t, p + 1)
<1>1. PICK B : Ghost(p, B) /\ TreeOK(t, p, LenLimit(p), B, {})
  BY DEF Whole
<1>2. PICK L \in Nat, K \in Nat : L = LenLimit(p) /\ K = LenLimit(p + 1) /\ K <= L
  <2>1. n \in Nat /\ BtMaxLen \in Nat
    BY InputLen, OptAssumption DEF n, OptAssumption
  <2>2. LenLimit(p) \in Nat /\ LenLimit(p + 1) \in Nat /\ LenLimit(p + 1) <= LenLimit(p)
    BY <2>1 DEF LenLimit
  <2> QED
    BY <2>2
<1>3. PICK q \in Nat : q = p + 1
  OBVIOUS
<1> DEFINE C == [B EXCEPT ![q] = 0 .. q]
<1>4. B \in [Nat -> SUBSET Nat] /\ B[p] = 0 .. p /\ \A k \in Nodes(p) : B[k] \subseteq 0 .. p
  BY <1>1 DEF Ghost
<1>5. C \in [Nat -> SUBSET Nat] /\ C[q] = 0 .. q /\ \A k \in Nat : k # q => C[k] = B[k]
  BY <1>4
<1> HIDE DEF C
<1>6. \A k \in Nodes(q) : k # q => k \in Nodes(p) /\ k \in Nat
  BY <1>3, WindowIs DEF Nodes
<1>7. Ghost(q, C)
  <2>1. ASSUME NEW k \in Nodes(q) PROVE C[k] \subseteq 0 .. q
    <3>1. CASE k = q
      BY <1>5, <3>1
    <3>2. CASE k # q
      <4>1. C[k] \subseteq 0 .. p
        BY <1>4, <1>5, <1>6, <3>2
      <4>2. 0 .. p \subseteq 0 .. q
        BY <1>3
      <4> QED
        BY <4>1, <4>2
    <3> QED
      BY <3>1, <3>2
  <2> QED
    BY <1>5, <2>1 DEF Ghost
<1>8. TreeOK(t, q, K, C, {Pair(q), Pair(q) + 1})
  <2> SUFFICES ASSUME NEW m \in Nodes(q)
               PROVE  /\ m \in C[m]
                      /\ m # q => LinkIn(t[Pair(m)], m, q, C, Before(C, m, K))
                      /\ m # q => LinkIn(t[Pair(m) + 1], m, q, C, After(C, m, K))
    BY DEF TreeOK
  <2>1. CASE m = q
    BY <1>5, <2>1
  <2>2. CASE m # q
    <3>1. m \in Nodes(p) /\ m \in Nat /\ C[m] = B[m] /\ m < q
      BY <1>3, <1>5, <1>6, <2>2 DEF Nodes
    <3>2. /\ m \in B[m]
          /\ LinkIn(t[Pair(m)], m, p, B, Before(B, m, L))
          /\ LinkIn(t[Pair(m) + 1], m, p, B, After(B, m, L))
      BY <1>1, <1>2, <3>1 DEF TreeOK
    <3>3. Before(B, m, L) \subseteq Before(C, m, K) /\ After(B, m, L) \subseteq After(C, m, K)
      BY <1>2, <3>1, NotAfterLess DEF Before, After
    <3>4. ASSUME NEW l, NEW X, NEW Y, LinkIn(l, m, p, B, X), X \subseteq Y
          PROVE  LinkIn(l, m, q, C, Y)
      <4>1. l \in Nat /\ l - 1 < m
        BY <3>4 DEF LinkIn
      <4>2. ASSUME l - 1 \in Nodes(q) PROVE C[l - 1] \subseteq Y
        <5>1. l - 1 # q
          BY <3>1, <4>1
        <5>2. l - 1 \in Nodes(p) /\ C[l - 1] = B[l - 1]
          BY <1>5, <1>6, <4>2, <5>1
        <5> QED
          BY <3>4, <5>2 DEF LinkIn
      <4> QED
        BY <4>1, <4>2 DEF LinkIn
    <3> QED
      BY <3>1, <3>2, <3>3, <3>4
  <2> QED
    BY <2>1, <2>2
<1> QED
  BY <1>2, <1>3, <1>7, <1>8 DEF TreeRest

LEMMA BtInsertOK ==
  ASSUME src \in Inputs, NEW p \in Nat, p + MinMatch <= n, TreeInv(son, roots, p), BtInsert(p)
  PROVE  /\ TreeInv(son', roots', p + 1) /\ btNext' = p + 1
         /\ InsertedIs(p, LenLimit(p), Inserted(p))
<1>1. n \in Nat /\ p <= n /\ p + 1 <= n
  BY InputLen DEF n
<1>2. Insertable(p, LenLimit(p))
  BY <1>1, LenLimitIs
<1>3. InsertedIs(p, LenLimit(p), Inserted(p))
  BY <1>2, InsertedTree
<1>4. TreeRest(son', p + 1)
  <2>1. Whole(p, LenLimit(p), son')
    BY <1>3 DEF InsertedIs, BtInsert
  <2> QED
    BY <1>1, <2>1, WholeRest
<1>5. /\ son' \in [0 .. 2 * Window - 1 -> Nat \cup {Unset}]
      /\ roots' \in [Buckets -> Nat] /\ \A h \in Buckets : roots'[h] <= p + 1
  <2>1. roots' = [roots EXCEPT ![HashShort(p)] = p + 1] /\ son' = Inserted(p).son
    BY DEF BtInsert
  <2>2. roots \in [Buckets -> Nat] /\ \A h \in Buckets : roots[h] <= p
    BY DEF TreeInv
  <2>3. son' \in [0 .. 2 * Window - 1 -> Nat \cup {Unset}]
    BY <1>3, <2>1 DEF InsertedIs
  <2>4. roots' \in [Buckets -> Nat]
    <3>1. PICK x \in Nat : x = p + 1
      OBVIOUS
    <3>2. PICK h : h = HashShort(p)
      OBVIOUS
    <3>3. roots' = [roots EXCEPT ![h] = x]
      BY <2>1, <3>1, <3>2
    <3> QED
      BY ONLY <2>2, <3>3, x \in Nat
  <2>5. ASSUME NEW h \in Buckets PROVE roots'[h] <= p + 1
    <3>1. roots'[h] = p + 1 \/ roots'[h] = roots[h]
      BY <2>1, <2>2
    <3>2. roots[h] \in Nat /\ roots[h] <= p /\ p \in Nat
      BY <2>2
    <3> QED
      BY ONLY <3>1, <3>2
  <2> QED
    BY <2>3, <2>4, <2>5
<1> QED
  BY <1>3, <1>4, <1>5 DEF TreeInv, BtInsert

(* What an insertion hashes is inside the input.                             *)
LEMMA BtReadsInside ==
  ASSUME n \in Nat, reach \in Int, reach <= n, NEW p \in Nat, p + MinMatch <= n, BtInsert(p)
  PROVE  reach' \in Int /\ reach' <= n
<1>1. PICK x : x = p + MinMatch
  OBVIOUS
<1>2. reach' = Further(reach, x)
  BY <1>1 DEF BtInsert
<1>3. x \in Int /\ x <= n
  BY <1>1, ParameterAssumption
<1> QED
  BY <1>2, <1>3 DEF Further

LEMMA TreeStart ==
  ASSUME OptInit
  PROVE  TreeInv(son, roots, 0)
<1> DEFINE B == [m \in Nat |-> {0}]
<1>1. \A m \in Nodes(0) : m = 0
  BY DEF Nodes
<1>2. Ghost(0, B)
  BY <1>1 DEF Ghost
<1>3. TreeOK(son, 0, LenLimit(0), B, {Pair(0), Pair(0) + 1})
  BY <1>1 DEF TreeOK
<1>4. TreeRest(son, 0)
  BY <1>2, <1>3 DEF TreeRest
<1> QED
  BY <1>4 DEF OptInit, TreeInv

--------------------------------------------------------------------------------
(* A sequence with one of its members replaced.                              *)
Replaced(q, c, k, x, S) ==
  /\ q \in Seq(S) /\ Len(q) = Len(c)
  /\ \A z \in 1 .. Len(c) : q[z] = IF z = k THEN x ELSE c[z]

LEMMA OneReplaced ==
  ASSUME NEW S, NEW c \in Seq(S), NEW k \in 1 .. Len(c), NEW x \in S, NEW q, q = [c EXCEPT ![k] = x]
  PROVE  Replaced(q, c, k, x, S)
<1>1. q \in Seq(S) /\ DOMAIN q = DOMAIN c
  OBVIOUS
<1>2. Len(q) = Len(c) /\ DOMAIN c = 1 .. Len(c)
  BY ONLY <1>1, c \in Seq(S)
<1>3. ASSUME NEW z \in 1 .. Len(c) PROVE q[z] = IF z = k THEN x ELSE c[z]
  <2>1. z \in DOMAIN c
    BY <1>2
  <2> QED
    BY <2>1, Zenon
<1> QED
  BY <1>1, <1>2, <1>3 DEF Replaced

(* The candidates of a position are true, the one that goes on included.     *)
LEMMA FindAllIs ==
  ASSUME src \in Inputs, NEW p \in Nat, p + MinMatch <= n, NEW L, InsertedIs(p, L, Inserted(p))
  PROVE  Matches(p, FindAll(p))
<1>1. PICK c \in Seq(Nat \X Nat) : c = Inserted(p).cands /\ \A k \in 1 .. Len(c) : MatchAt(p, c[k])
  BY DEF InsertedIs, Matches
<1>2. PICK k \in Nat : k = Len(c)
  OBVIOUS
<1>3. CASE k > 0 /\ c[k][1] >= BtMaxLen
  <2>1. k \in 1 .. Len(c) /\ c[k] \in Nat \X Nat /\ MatchAt(p, c[k])
    BY <1>1, <1>2, <1>3
  <2>2. PICK ln \in Nat, d \in Nat : ln = c[k][1] /\ d = c[k][2]
    BY <2>1
  <2>3. /\ ln >= MinMatch /\ p + ln <= n /\ 1 <= d /\ d <= p /\ d < Window
        /\ SameBytes(p, p - d, ln) /\ n \in Nat
    BY <2>1, <2>2, InputLen DEF MatchAt, n
  <2>4. PICK r \in Nat : r = p - d /\ p + ln \in Nat /\ (p + ln) - d \in Nat /\ r + ln = (p + ln) - d
    <3>1. p - d \in Nat
      BY <2>3
    <3>2. p + ln \in Nat /\ (p + ln) - d \in Nat /\ (p - d) + ln = (p + ln) - d
      BY <2>3
    <3> QED
      BY <3>1, <3>2
  <2>5. PICK j \in Nat : j = CountMatch(p + ln, (p + ln) - d) /\ j <= n - (p + ln)
                         /\ SameBytes(p + ln, (p + ln) - d, j)
    <3>1. PICK a \in Nat, b \in Nat : a = p + ln /\ b = (p + ln) - d
      BY <2>4
    <3>2. CountMatch(a, b) \in 0 .. n - a /\ SameBytes(a, b, CountMatch(a, b))
      BY <2>3, <3>1, CountMatchIs
    <3>3. CountMatch(a, b) \in Nat /\ CountMatch(a, b) <= n - a
      BY <2>3, <3>2
    <3> QED
      BY <3>1, <3>2, <3>3
  <2>6. SameBytes(p, r, ln + j)
    <3>1. SameBytes(p - 0, r - 0, 0) /\ SameBytes(r, p, ln) /\ SameBytes(p + ln, r + ln, j)
      <4>1. SameBytes(p - 0, r - 0, 0)
        BY DEF SameBytes
      <4>2. SameBytes(p, r, ln)
        BY <2>3, <2>4
      <4>3. SameBytes(p + ln, r + ln, j)
        BY <2>4, <2>5
      <4> QED
        BY <4>1, <4>2, <4>3, SameSym
    <3>2. SameBytes(p - 0, r - 0, 0 + ln + j)
      BY <3>1, SameJoined
    <3>3. p - 0 = p /\ r - 0 = r /\ 0 + ln + j = ln + j
      OBVIOUS
    <3> QED
      BY <3>2, <3>3
  <2>7. PICK x : x = <<ln + j, d>>
    OBVIOUS
  <2>8. x \in Nat \X Nat /\ MatchAt(p, x)
    <3>1. x \in Nat \X Nat /\ x[1] = ln + j /\ x[2] = d
      BY <2>7
    <3>2. ln + j >= MinMatch /\ p + (ln + j) <= n
      BY <2>3, <2>5
    <3> QED
      BY <2>3, <2>4, <2>6, <3>1, <3>2 DEF MatchAt
  <2>9. FindAll(p) = [c EXCEPT ![k] = x]
    <3>1. FindAll(p) = IF k > 0 /\ c[k][1] >= BtMaxLen
                       THEN [c EXCEPT ![k] = <<c[k][1] + CountMatch(p + c[k][1], (p + c[k][1]) - c[k][2]),
                                               c[k][2]>>]
                       ELSE c
      BY <1>1, <1>2, Zenon DEF FindAll, Grown
    <3>2. x = <<c[k][1] + CountMatch(p + c[k][1], (p + c[k][1]) - c[k][2]), c[k][2]>>
      BY <2>2, <2>5, <2>7, Zenon
    <3> QED
      BY <1>3, <3>1, <3>2, Zenon
  <2>10. PICK q : q = [c EXCEPT ![k] = x]
    OBVIOUS
  <2>11. q \in Seq(Nat \X Nat) /\ Len(q) = Len(c) /\ \A z \in 1 .. Len(c) : q[z] = IF z = k THEN x ELSE c[z]
    <3>1. k \in 1 .. Len(c) /\ c \in Seq(Nat \X Nat) /\ x \in Nat \X Nat
      BY <2>1, <2>8
    <3>2. PICK S : S = Nat \X Nat /\ c \in Seq(S) /\ x \in S
      BY <3>1
    <3>3. Replaced(q, c, k, x, S)
      BY <2>10, <3>1, <3>2, OneReplaced
    <3> QED
      BY <3>2, <3>3 DEF Replaced
  <2> QED
    BY <1>1, <2>8, <2>9, <2>10, <2>11 DEF Matches
<1>4. CASE ~(k > 0 /\ c[k][1] >= BtMaxLen)
  <2>1. FindAll(p) = c
    BY <1>1, <1>2, <1>4 DEF FindAll, Grown
  <2> QED
    BY <1>1, <2>1 DEF Matches
<1> QED
  BY <1>3, <1>4

(* No position is looked at that is too near the end to have a match.        *)
InLimit(p) == p \in Nat /\ p < Limit

LEMMA InLimitIs ==
  ASSUME src \in Inputs, NEW p, InLimit(p)
  PROVE  p \in Nat /\ p + MinMatch <= n /\ p + 1 <= n /\ n \in Nat
BY InputLen DEF InLimit, Limit, n

--------------------------------------------------------------------------------
(* Prices are numbers.                                                       *)
LEMMA Times == \A a, b \in Nat : a * b \in Nat
OBVIOUS

LEMMA ExtBytesIs ==
  ASSUME NEW v \in Nat
  PROVE  ExtBytes(v) \in Nat /\ ExtBytes(v) >= 1 /\ ExtBytes(v + 1) >= ExtBytes(v)
<1>1. PICK d \in Nat : d = Base /\ d >= 1
  BY BaseIs
<1>2. PICK q \in Nat : q = v \div d
  BY <1>1, Quotient
<1>3. PICK r \in Nat : r = v % d /\ r < d
  BY <1>1, Quotient
<1>4. v = d * q + r
  BY ONLY <1>1, <1>2, <1>3, d \in Nat, v \in Nat, Quotient
<1>5. PICK z \in Nat : z = v + 1
  OBVIOUS
<1>6. PICK q2 \in Nat : q2 = z \div d
  BY <1>1, Quotient
<1>7. PICK r2 \in Nat : r2 = z % d /\ r2 < d
  BY <1>1, Quotient
<1>8. z = d * q2 + r2
  BY ONLY <1>1, <1>6, <1>7, d \in Nat, z \in Nat, Quotient
<1>9. q <= q2
  <2> SUFFICES ASSUME ~(q <= q2) PROVE FALSE
    OBVIOUS
  <2>1. PICK k \in Nat : q = q2 + 1 + k
    <3>1. q - q2 - 1 \in Nat /\ q = q2 + 1 + (q - q2 - 1)
      OBVIOUS
    <3> QED
      BY <3>1
  <2>2. d * q = d * q2 + d + d * k /\ d * k \in Nat /\ d * q2 \in Nat
    BY ONLY <2>1, d \in Nat, q2 \in Nat, k \in Nat
  <2>3. PICK a \in Nat, b \in Nat : a = d * q2 /\ b = d * k
    BY <2>2
  <2>4. v = a + d + b + r /\ v + 1 = a + r2
    BY ONLY <1>4, <1>5, <1>8, <2>2, <2>3
  <2> QED
    BY ONLY <2>4, <1>7, a \in Nat, b \in Nat, d \in Nat, r \in Nat, r2 \in Nat, v \in Nat
<1>10. ExtBytes(v) = q + 1 /\ ExtBytes(v + 1) = q2 + 1
  BY <1>1, <1>2, <1>5, <1>6 DEF ExtBytes
<1> QED
  BY <1>9, <1>10

LEMMA OptNumbers ==
  /\ {OptWindow, MaxCand, Cut, BtMaxLen, Sufficient, SkipLen, SubLen, MtabCols,
      NearDist, Scale, PSeq, PEsc, PShort, Inf} \subseteq Nat
  /\ OptWindow >= 1
<1>1. {OptWindow, MaxCand, Cut, BtMaxLen, Sufficient, SkipLen, SubLen, MtabCols,
       NearDist, Scale, PSeq, PEsc, PShort, Inf} \subseteq Nat
  BY OptAssumption, Zenon DEF OptAssumption
<1>2. OptWindow > 0
  BY OptAssumption, Zenon DEF OptAssumption
<1>3. OptWindow \in Nat
  BY ONLY <1>1
<1> QED
  BY <1>1, <1>2, <1>3

LEMMA OptSizes ==
  Sufficient > 0 /\ SubLen >= MinMatch /\ SkipLen >= SubLen /\ MtabCols > ExactM
BY OptAssumption DEF OptAssumption

LEMMA LitStepIs ==
  ASSUME NEW ll \in Nat
  PROVE  LitStep(ll) \in Nat
<1>1. Scale \in Nat /\ PEsc \in Nat
  BY OptNumbers
<1>2. PICK e \in Nat, f \in Nat : e = ExtBytes(ll) /\ f = ExtBytes(ll + 1) /\ f >= e
  <2>1. ll + 1 \in Nat
    OBVIOUS
  <2> QED
    BY <2>1, ExtBytesIs
<1>3. 1 + f \in Nat /\ 1 + f - e \in Nat
  BY <1>2
<1>4. Scale * (1 + f) \in Nat /\ Scale * (1 + f - e) \in Nat
  BY ONLY <1>1, <1>3, Times
<1>5. Scale * (1 + f) + PEsc \in Nat
  BY <1>1, <1>4
<1> QED
  BY <1>1, <1>2, <1>4, <1>5, BaseIs DEF LitStep

LEMMA CostIs ==
  ASSUME NEW ll \in Nat, NEW ml \in Nat, ml >= MinMatch, NEW dist_
  PROVE  Cost(ll, ml, dist_) \in Nat
<1>1. Scale \in Nat /\ PEsc \in Nat /\ PSeq \in Nat /\ PShort \in Nat /\ ExactLL \in Nat
  BY OptNumbers, BaseIs
<1>2. PICK m \in Nat : m = ml - MinMatch
  OBVIOUS
<1>3. PICK e \in Nat : e = ExtBytes(m)
  BY ExtBytesIs
<1>4. Scale * 3 \in Nat /\ Scale * (3 + e) \in Nat
  <2>1. 3 + e \in Nat
    OBVIOUS
  <2> QED
    BY ONLY <1>1, <2>1, Times, 3 \in Nat
<1>5. Near(dist_) \in Nat
  BY <1>1 DEF Near
<1>6. ASSUME NEW l \in Nat PROVE MatchCost(l, ml) \in Nat
  <2>1. MatchCost(l, ml) \in {Scale * 3 + PSeq, Scale * (3 + e) + PSeq + PEsc, Scale * (3 + e) + PSeq}
    BY <1>1, <1>2, <1>3 DEF MatchCost
  <2> QED
    BY <1>1, <1>4, <2>1
<1>7. LongMatchCost(ll, ml) \in Nat
  <2>1. LongMatchCost(ll, ml) = Scale * (3 + e) + PSeq + (IF ll <= ExactLL THEN PEsc ELSE 0)
    BY <1>2, <1>3 DEF LongMatchCost
  <2> QED
    BY <1>1, <1>4, <2>1
<1>8. (IF ll > ExactLL THEN ExactLL + 1 ELSE ll) \in Nat
  BY <1>1
<1> QED
  BY <1>5, <1>6, <1>7, <1>8 DEF Cost

--------------------------------------------------------------------------------
(* The nodes of a window: a way that ends with a match has a true one.       *)
NodeIn(j, x) ==
  /\ x.cost \in Nat /\ x.ll \in Nat
  /\ \/ x.ml = 0
     \/ x.ml \in 1 .. j /\ MatchAt(start + (j - x.ml), <<x.ml, x.dist>>)

NodesOK(ns) == DOMAIN ns = 0 .. w /\ \A j \in 0 .. w : NodeIn(j, ns[j])

(* What the parse of a window goes by.                                       *)
WindowParsed ==
  /\ src \in Inputs /\ n \in Nat /\ anchor \in Nat /\ start \in Nat /\ w \in Nat /\ anchor <= start
  /\ \A k \in 0 .. w - 1 : k \in DOMAIN cands /\ Matches(start + k, cands[k])

LEMMA TriedIs ==
  ASSUME NEW p \in Nat, NEW cs, Matches(p, cs), NEW c \in DOMAIN cs, NEW ml \in Tried(cs, c), n \in Nat
  PROVE  ml \in Nat /\ ml >= MinMatch /\ ml >= 1 /\ cs[c][2] \in Nat /\ MatchAt(p, <<ml, cs[c][2]>>)
<1>1. /\ cs \in Seq(Nat \X Nat) /\ DOMAIN cs = 1 .. Len(cs) /\ c \in 1 .. Len(cs)
      /\ \A k \in 1 .. Len(cs) : MatchAt(p, cs[k])
  BY DEF Matches
<1>2. MatchAt(p, cs[c]) /\ cs[c] \in Nat \X Nat
  BY <1>1 DEF MatchAt
<1>3. PICK ln \in Nat, d \in Nat : ln = cs[c][1] /\ d = cs[c][2]
  BY <1>2
<1>4. ml \in Int /\ ml >= MinMatch /\ ml <= ln
  <2>1. PICK prev \in Int : prev >= MinMatch - 1 /\ ml \in prev + 1 .. ln
    <3>1. CASE c = 1
      <4>1. ml \in (MinMatch - 1) + 1 .. ln /\ MinMatch - 1 \in Int
        BY <1>3, <3>1 DEF Tried
      <4> QED
        BY <4>1
    <3>2. CASE c # 1
      <4>1. c - 1 \in 1 .. Len(cs)
        BY <1>1, <3>2
      <4>2. MatchAt(p, cs[c - 1])
        BY <1>1, <4>1
      <4>3. cs[c - 1][1] \in Int /\ cs[c - 1][1] >= MinMatch - 1
        BY <4>2 DEF MatchAt
      <4>4. ml \in cs[c - 1][1] + 1 .. ln
        BY <1>3, <3>2 DEF Tried
      <4> QED
        BY <4>3, <4>4
    <3> QED
      BY <3>1, <3>2
  <2> QED
    BY <2>1
<1>5. ml \in Nat /\ ml >= 1
  BY <1>4
<1>6. p + ln <= n /\ 1 <= d /\ d <= p /\ d < Window /\ SameBytes(p, p - d, ln)
  BY <1>2, <1>3 DEF MatchAt
<1>7. SameBytes(p, p - d, ml)
  BY <1>3, <1>4, <1>6, SameLess
<1>8. p + ml <= n
  BY <1>3, <1>4, <1>6
<1>9. PICK x : x = <<ml, d>>
  OBVIOUS
<1>10. x \in Nat \X Nat /\ x[1] = ml /\ x[2] = d
  BY <1>3, <1>5, <1>9
<1>11. MatchAt(p, x)
  BY <1>4, <1>6, <1>7, <1>8, <1>10 DEF MatchAt
<1> QED
  BY <1>3, <1>4, <1>5, <1>9, <1>11

(* Some way is the cheapest.                                                 *)
LEMMA CheapestIs ==
  ASSUME NEW S, S # {}, \A x \in S : x.cost \in Nat
  PROVE  LET c == CHOOSE x \in S : \A y \in S : x.cost <= y.cost
         IN  c \in S /\ \A y \in S : c.cost <= y.cost
<1> DEFINE T == {x.cost : x \in S}
<1>1. T \subseteq Nat /\ T # {}
  OBVIOUS
<1>2. PICK c \in T : \A d \in T : ~(d < c)
  <2> HIDE DEF T
  <2> QED
    BY <1>1, LeastNat
<1>3. PICK x \in S : x.cost = c
  BY <1>2
<1>4. ASSUME NEW y \in S PROVE x.cost <= y.cost
  <2>1. y.cost \in T /\ y.cost \in Nat /\ x.cost \in Nat
    OBVIOUS
  <2>2. ~(y.cost < c)
    BY <1>2, <2>1
  <2> QED
    BY <1>3, <2>1, <2>2
<1>5. \E z \in S : \A y \in S : z.cost <= y.cost
  BY <1>4
<1> QED
  BY <1>5, Zenon

LEMMA FromOK ==
  ASSUME WindowParsed, NEW k \in 0 .. w - 1, NEW ns, NodesOK(ns)
  PROVE  NodesOK(From(k, ns))
<1> DEFINE ll == ns[k].ll
           lit == [cost |-> ns[k].cost + LitStep(ll), ll |-> ll + 1, ml |-> 0, dist |-> 0]
           Match1(c, ml) == [cost |-> ns[k].cost + Cost(ll, ml, cands[k][c][2]),
                             ll |-> 0, ml |-> ml, dist |-> cands[k][c][2]]
           ways(j) == (IF j = k + 1 THEN {lit} ELSE {}) \cup
                      UNION {{Match1(c, ml) : ml \in {l \in Tried(cands[k], c) : k + l = j}} :
                               c \in DOMAIN cands[k]}
<1>1. /\ start \in Nat /\ w \in Nat /\ n \in Nat /\ k \in Nat /\ start + k \in Nat /\ k \in 0 .. w
      /\ Matches(start + k, cands[k])
  BY DEF WindowParsed
<1>2. ll \in Nat /\ ns[k].cost \in Nat
  BY <1>1 DEF NodesOK, NodeIn
<1>3. lit.cost \in Nat /\ lit.ll \in Nat /\ lit.ml = 0
  <2>1. LitStep(ll) \in Nat
    BY <1>2, LitStepIs
  <2> QED
    BY <1>2, <2>1
<1>4. ASSUME NEW j \in 0 .. w, NEW x \in ways(j)
      PROVE  NodeIn(j, x)
  <2>1. CASE x = lit
    BY <1>3, <2>1 DEF NodeIn
  <2>2. CASE x # lit
    <3>1. PICK c \in DOMAIN cands[k] : \E ml \in {l \in Tried(cands[k], c) : k + l = j} : x = Match1(c, ml)
      BY <1>4, <2>2
    <3>2. PICK ml \in Tried(cands[k], c) : k + ml = j /\ x = Match1(c, ml)
      BY <3>1
    <3>3. PICK p \in Nat : p = start + k
      BY <1>1
    <3>4. PICK cs : cs = cands[k]
      OBVIOUS
    <3>5. /\ ml \in Nat /\ ml >= MinMatch /\ ml >= 1 /\ cs[c][2] \in Nat
          /\ MatchAt(p, <<ml, cs[c][2]>>)
      BY <1>1, <3>1, <3>2, <3>3, <3>4, TriedIs
    <3>6. PICK cost \in Nat : cost = ns[k].cost + Cost(ll, ml, cs[c][2])
      <4>1. Cost(ll, ml, cs[c][2]) \in Nat
        BY <1>2, <3>5, CostIs
      <4> QED
        BY <1>2, <4>1
    <3>7. x = [cost |-> cost, ll |-> 0, ml |-> ml, dist |-> cs[c][2]]
      BY <3>2, <3>4, <3>6
    <3>8. start + (j - ml) = p /\ ml \in 1 .. j
      BY <1>1, <3>2, <3>3, <3>5
    <3>9. x.cost \in Nat /\ x.ll \in Nat /\ x.ml = ml /\ x.dist = cs[c][2]
      BY <3>6, <3>7
    <3> QED
      BY <3>5, <3>8, <3>9 DEF NodeIn
  <2> QED
    BY <2>1, <2>2
<1>5. From(k, ns) = [j \in DOMAIN ns |->
                       IF \E x \in ways(j) : x.cost < ns[j].cost
                       THEN CHOOSE x \in ways(j) : \A y \in ways(j) : x.cost <= y.cost
                       ELSE ns[j]]
  BY Zenon DEF From
<1>6. DOMAIN ns = 0 .. w /\ \A j \in 0 .. w : NodeIn(j, ns[j])
  BY DEF NodesOK
<1> HIDE DEF ways
<1>7. ASSUME NEW j \in 0 .. w PROVE NodeIn(j, From(k, ns)[j])
  <2>1. CASE \E x \in ways(j) : x.cost < ns[j].cost
    <3>1. From(k, ns)[j] = CHOOSE x \in ways(j) : \A y \in ways(j) : x.cost <= y.cost
      BY <1>5, <1>6, <2>1
    <3>2. PICK S : S = ways(j)
      OBVIOUS
    <3>3. S # {} /\ \A x \in S : x.cost \in Nat
      BY <1>4, <2>1, <3>2 DEF NodeIn
    <3>4. (CHOOSE x \in S : \A y \in S : x.cost <= y.cost) \in S
      BY <3>3, CheapestIs
    <3> QED
      BY <1>4, <3>1, <3>2, <3>4
  <2>2. CASE ~ \E x \in ways(j) : x.cost < ns[j].cost
    <3>1. From(k, ns)[j] = ns[j]
      BY <1>5, <1>6, <2>2
    <3> QED
      BY <1>6, <3>1
  <2> QED
    BY <2>1, <2>2
<1>8. DOMAIN From(k, ns) = 0 .. w
  BY <1>5, <1>6
<1> QED
  BY <1>7, <1>8 DEF NodesOK

LEMMA FirstNodesOK == ASSUME WindowParsed PROVE NodesOK(FirstNodes)
<1>1. start - anchor \in Nat /\ Inf \in Nat /\ w \in Nat
  BY OptNumbers DEF WindowParsed
<1>2. ASSUME NEW j \in 0 .. w PROVE NodeIn(j, FirstNodes[j])
  <2>1. FirstNodes[j] = [cost |-> IF j = 0 THEN 0 ELSE Inf,
                         ll |-> IF j = 0 THEN start - anchor ELSE 0, ml |-> 0, dist |-> 0]
    BY DEF FirstNodes
  <2> QED
    BY <1>1, <2>1 DEF NodeIn
<1>3. DOMAIN FirstNodes = 0 .. w
  BY DEF FirstNodes
<1> QED
  BY <1>2, <1>3 DEF NodesOK

PricedTo(m, g) ==
  g = [k \in 0 .. m |-> IF k = 0 THEN FirstNodes
                        ELSE IF k - 1 \in hidden THEN g[k - 1] ELSE From(k - 1, g[k - 1])]

LEMMA PricedExists ==
  ASSUME NEW k \in Nat
  PROVE  \E g : PricedTo(k, g)
<1> DEFINE T == {m \in Nat : ~ \E g : PricedTo(m, g)}
<1>1. CASE T = {}
  BY <1>1
<1>2. CASE T # {}
  <2>1. PICK m \in T : \A y \in T : ~(y < m)
    BY <1>2, LeastNat
  <2>2. m # 0
    <3>1. PricedTo(0, [x \in 0 .. 0 |-> FirstNodes])
      BY DEF PricedTo
    <3> QED
      BY <2>1, <3>1
  <2>3. PICK g : PricedTo(m - 1, g)
    BY <2>1, <2>2
  <2> DEFINE f == [x \in 0 .. m |->
                     IF x = m THEN IF m - 1 \in hidden THEN g[m - 1] ELSE From(m - 1, g[m - 1])
                     ELSE g[x]]
  <2>4. ASSUME NEW x \in 0 .. m
        PROVE  f[x] = IF x = 0 THEN FirstNodes
                      ELSE IF x - 1 \in hidden THEN f[x - 1] ELSE From(x - 1, f[x - 1])
    <3>1. CASE x = m
      <4>1. f[x - 1] = g[x - 1]
        BY <2>1, <2>2, <3>1
      <4> QED
        BY <2>2, <3>1, <4>1
    <3>2. CASE x # m
      <4>1. x \in 0 .. m - 1 /\ f[x] = g[x] /\ (x # 0 => f[x - 1] = g[x - 1])
        BY <2>1, <3>2
      <4>2. g[x] = IF x = 0 THEN FirstNodes
                   ELSE IF x - 1 \in hidden THEN g[x - 1] ELSE From(x - 1, g[x - 1])
        BY <2>3, <4>1 DEF PricedTo
      <4> QED
        BY <4>1, <4>2
    <3> QED
      BY <3>1, <3>2
  <2>5. PricedTo(m, f)
    BY <2>4 DEF PricedTo
  <2> QED
    BY <2>1, <2>5
<1> QED
  BY <1>1, <1>2

(* The nodes that were priced are those of true matches.                     *)
LEMMA PricedOK == ASSUME WindowParsed PROVE NodesOK(Priced)
<1> DEFINE f == CHOOSE g : g = [k \in 0 .. w |->
                                  IF k = 0 THEN FirstNodes
                                  ELSE IF k - 1 \in hidden THEN g[k - 1] ELSE From(k - 1, g[k - 1])]
<1>1. w \in Nat
  BY DEF WindowParsed
<1>2. PricedTo(w, f)
  <2>1. \E g : PricedTo(w, g)
    BY <1>1, PricedExists
  <2> QED
    BY <2>1 DEF PricedTo
<1>3. Priced = f[w]
  BY DEF Priced
<1> HIDE DEF f
<1> DEFINE T == {k \in 0 .. w : ~NodesOK(f[k])}
<1>4. T = {}
  <2> SUFFICES ASSUME T # {} PROVE FALSE
    OBVIOUS
  <2>1. PICK k \in T : \A y \in T : ~(y < k)
    <3>1. T \subseteq Nat
      OBVIOUS
    <3> HIDE DEF T
    <3> QED
      BY <3>1, LeastNat
  <2>2. k \in 0 .. w /\ ~NodesOK(f[k])
    BY <2>1
  <2>3. f[k] = IF k = 0 THEN FirstNodes
               ELSE IF k - 1 \in hidden THEN f[k - 1] ELSE From(k - 1, f[k - 1])
    BY <1>2, <2>2 DEF PricedTo
  <2>4. k # 0
    BY <2>2, <2>3, FirstNodesOK
  <2>5. k - 1 \in 0 .. w - 1 /\ k - 1 \in 0 .. w /\ k - 1 < k
    BY <1>1, <2>2, <2>4
  <2>6. NodesOK(f[k - 1])
    BY <2>1, <2>5
  <2>7. NodesOK(From(k - 1, f[k - 1]))
    BY <2>5, <2>6, FromOK
  <2> QED
    BY <2>2, <2>3, <2>4, <2>6, <2>7
<1> QED
  BY <1>1, <1>3, <1>4

--------------------------------------------------------------------------------
(* The way that is written: true matches, one after the other.               *)
EntryOK(e) ==
  /\ e \in Nat \X Nat \X Nat
  /\ e[2] >= MinMatch /\ e[2] >= 1 /\ e[1] + e[2] <= n
  /\ 1 <= e[3] /\ e[3] <= e[1] /\ e[3] < Window
  /\ SameBytes(e[1], e[1] - e[3], e[2])

Way(q, end_) ==
  /\ q \in Seq(Nat \X Nat \X Nat)
  /\ \A k \in 1 .. Len(q) :
       /\ EntryOK(q[k]) /\ start <= q[k][1] /\ q[k][1] + q[k][2] <= end_
       /\ k > 1 => q[k - 1][1] + q[k - 1][2] <= q[k][1]

LEMMA EntryIs ==
  ASSUME n \in Nat, NEW p \in Nat, NEW ln \in Nat, NEW d, MatchAt(p, <<ln, d>>)
  PROVE  EntryOK(<<p, ln, d>>) /\ d \in Nat
<1>1. PICK c : c = <<ln, d>>
  OBVIOUS
<1>2. c[1] = ln /\ c[2] = d /\ MatchAt(p, c)
  BY <1>1
<1>3. /\ d \in Nat /\ ln >= MinMatch /\ p + ln <= n /\ 1 <= d /\ d <= p /\ d < Window
      /\ SameBytes(p, p - d, ln)
  BY <1>2 DEF MatchAt
<1>4. PICK e : e = <<p, ln, d>>
  OBVIOUS
<1>5. e \in Nat \X Nat \X Nat /\ e[1] = p /\ e[2] = ln /\ e[3] = d
  BY <1>3, <1>4
<1>6. ln >= 1
  BY <1>3
<1> QED
  BY <1>3, <1>4, <1>5, <1>6 DEF EntryOK

LEMMA WayMore ==
  ASSUME NEW q, NEW a \in Nat, Way(q, a), NEW e, EntryOK(e), start <= e[1], a <= e[1],
         NEW b \in Nat, e[1] + e[2] = b
  PROVE  Way(Append(q, e), b)
<1>1. PICK r : r = Append(q, e)
  OBVIOUS
<1>2. e \in Nat \X Nat \X Nat /\ e[1] \in Nat /\ e[2] \in Nat /\ a <= b
  BY DEF EntryOK
<1>3. q \in Seq(Nat \X Nat \X Nat) /\ Len(q) \in Nat
  BY DEF Way
<1>4. r \in Seq(Nat \X Nat \X Nat) /\ Len(r) = Len(q) + 1
      /\ r[Len(q) + 1] = e /\ \A k \in 1 .. Len(q) : r[k] = q[k]
  BY <1>1, <1>2, <1>3
<1>5. \A k \in 1 .. Len(q) :
        /\ EntryOK(q[k]) /\ start <= q[k][1] /\ q[k][1] + q[k][2] <= a
        /\ k > 1 => q[k - 1][1] + q[k - 1][2] <= q[k][1]
  BY DEF Way
<1>6. \A k \in 1 .. Len(q) : q[k][1] \in Nat /\ q[k][2] \in Nat
  BY <1>5 DEF EntryOK
<1>7. ASSUME NEW k \in 1 .. Len(r)
      PROVE  /\ EntryOK(r[k]) /\ start <= r[k][1] /\ r[k][1] + r[k][2] <= b
             /\ k > 1 => r[k - 1][1] + r[k - 1][2] <= r[k][1]
  <2>1. CASE k \in 1 .. Len(q)
    <3>1. r[k] = q[k] /\ (k > 1 => r[k - 1] = q[k - 1])
      <4>1. k > 1 => k - 1 \in 1 .. Len(q)
        BY <1>3, <2>1
      <4> QED
        BY <1>4, <2>1, <4>1
    <3>2. q[k][1] + q[k][2] <= b
      <4>1. q[k][1] + q[k][2] <= a /\ q[k][1] + q[k][2] \in Nat
        BY <1>5, <1>6, <2>1
      <4> QED
        BY <1>2, <4>1
    <3> QED
      BY <1>5, <2>1, <3>1, <3>2
  <2>2. CASE k = Len(q) + 1
    <3>1. k > 1 => r[k - 1][1] + r[k - 1][2] <= a /\ r[k - 1][1] + r[k - 1][2] \in Nat
      <4> SUFFICES ASSUME k > 1 PROVE r[k - 1][1] + r[k - 1][2] <= a /\ r[k - 1][1] + r[k - 1][2] \in Nat
        OBVIOUS
      <4>1. PICK x \in 1 .. Len(q) : x = k - 1
        BY <1>3, <2>2
      <4>2. r[k - 1] = q[x]
        BY <1>4, <4>1
      <4> QED
        BY <1>5, <1>6, <4>2
    <3>2. r[k] = e
      BY <1>4, <2>2
    <3>3. k > 1 => r[k - 1][1] + r[k - 1][2] <= e[1]
      BY <1>2, <3>1
    <3> QED
      BY <3>2, <3>3
  <2> QED
    BY <1>3, <1>4, <2>1, <2>2
<1> QED
  BY <1>1, <1>4, <1>7 DEF Way

LEMMA WayLater == ASSUME NEW q, NEW a \in Nat, NEW b \in Nat, a <= b, Way(q, a) PROVE Way(q, b)
<1>1. ASSUME NEW k \in 1 .. Len(q) PROVE q[k][1] + q[k][2] <= b
  <2>1. q[k][1] + q[k][2] <= a /\ EntryOK(q[k])
    BY DEF Way
  <2>2. q[k][1] + q[k][2] \in Nat
    BY <2>1 DEF EntryOK
  <2> QED
    BY <2>1, <2>2
<1> QED
  BY <1>1 DEF Way

PathTo(m, g) ==
  g = [j \in 0 .. m |->
         IF j = 0 THEN <<>>
         ELSE IF nodes[j].ml = 0 THEN g[j - 1]
         ELSE Append(g[j - nodes[j].ml], <<start + j - nodes[j].ml, nodes[j].ml, nodes[j].dist>>)]

NodesBack == \A j \in 1 .. w : nodes[j].ml = 0 \/ nodes[j].ml \in 1 .. j

LEMMA PathExists ==
  ASSUME NodesBack, w \in Nat
  PROVE  \E g : PathTo(w, g)
<1> DEFINE T == {m \in 0 .. w : ~ \E g : PathTo(m, g)}
<1>1. CASE T = {}
  BY <1>1
<1>2. CASE T # {}
  <2>1. PICK m \in T : \A y \in T : ~(y < m)
    <3>1. T \subseteq Nat
      OBVIOUS
    <3> HIDE DEF T
    <3> QED
      BY <1>2, <3>1, LeastNat
  <2>2. m # 0
    <3>1. PathTo(0, [x \in 0 .. 0 |-> <<>>])
      BY DEF PathTo
    <3> QED
      BY <2>1, <3>1
  <2>3. PICK g : PathTo(m - 1, g)
    BY <2>1, <2>2
  <2> DEFINE f == [x \in 0 .. m |->
                     IF x = m
                     THEN IF nodes[m].ml = 0 THEN g[m - 1]
                          ELSE Append(g[m - nodes[m].ml],
                                      <<start + m - nodes[m].ml, nodes[m].ml, nodes[m].dist>>)
                     ELSE g[x]]
  <2>4. ASSUME NEW x \in 0 .. m
        PROVE  f[x] = IF x = 0 THEN <<>>
                      ELSE IF nodes[x].ml = 0 THEN f[x - 1]
                      ELSE Append(f[x - nodes[x].ml],
                                  <<start + x - nodes[x].ml, nodes[x].ml, nodes[x].dist>>)
    <3>0. x # 0 => (nodes[x].ml = 0 \/ nodes[x].ml \in 1 .. x)
      BY <2>1 DEF NodesBack
    <3>1. CASE x = m
      <4>1. f[x - 1] = g[x - 1]
        BY <2>1, <2>2, <3>1
      <4>2. nodes[x].ml # 0 => f[x - nodes[x].ml] = g[x - nodes[x].ml]
        <5> SUFFICES ASSUME nodes[x].ml # 0 PROVE f[x - nodes[x].ml] = g[x - nodes[x].ml]
          OBVIOUS
        <5>1. PICK y \in 1 .. m : y = nodes[x].ml
          BY <2>2, <3>0, <3>1
        <5>2. x - y \in 0 .. m /\ x - y # m
          BY <2>1, <3>1
        <5> QED
          BY <5>1, <5>2
      <4> QED
        BY <2>2, <3>1, <4>1, <4>2
    <3>2. CASE x # m
      <4>1. x \in 0 .. m - 1 /\ f[x] = g[x] /\ (x # 0 => f[x - 1] = g[x - 1])
        BY <2>1, <3>2
      <4>2. nodes[x].ml # 0 /\ x # 0 => f[x - nodes[x].ml] = g[x - nodes[x].ml]
        <5> SUFFICES ASSUME nodes[x].ml # 0, x # 0 PROVE f[x - nodes[x].ml] = g[x - nodes[x].ml]
          OBVIOUS
        <5>1. PICK y \in 1 .. x : y = nodes[x].ml
          BY <3>0
        <5>2. x - y \in 0 .. m /\ x - y # m
          BY <2>1, <4>1
        <5> QED
          BY <5>1, <5>2
      <4>3. g[x] = IF x = 0 THEN <<>>
                   ELSE IF nodes[x].ml = 0 THEN g[x - 1]
                   ELSE Append(g[x - nodes[x].ml],
                               <<start + x - nodes[x].ml, nodes[x].ml, nodes[x].dist>>)
        BY <2>3, <4>1, Zenon DEF PathTo
      <4> QED
        BY <4>1, <4>2, <4>3
    <3> QED
      BY <3>1, <3>2
  <2>5. PathTo(m, f)
    BY <2>4, Zenon DEF PathTo
  <2> QED
    BY <2>1, <2>5
<1> QED
  BY <1>1, <1>2

PathWays(f) == PathTo(w, f) /\ Path = f[w] /\ \A j \in 0 .. w : Way(f[j], start + j)

LEMMA PathFrom ==
  ASSUME WindowParsed, NodesOK(nodes)
  PROVE  \E f : PathWays(f)
<1> DEFINE f == CHOOSE g : g = [j \in 0 .. w |->
                 IF j = 0 THEN <<>>
                 ELSE IF nodes[j].ml = 0 THEN g[j - 1]
                 ELSE Append(g[j - nodes[j].ml], <<start + j - nodes[j].ml, nodes[j].ml, nodes[j].dist>>)]
<1>1. w \in Nat /\ start \in Nat /\ n \in Nat
  BY DEF WindowParsed
<1>2. \A j \in 0 .. w : NodeIn(j, nodes[j])
  BY DEF NodesOK
<1>3. NodesBack
  <2>1. \A j \in 1 .. w : j \in 0 .. w
    BY <1>1
  <2> QED
    BY <1>2, <2>1 DEF NodesBack, NodeIn
<1>4. PathTo(w, f)
  <2>1. \E g : PathTo(w, g)
    BY <1>1, <1>3, PathExists
  <2> QED
    BY <2>1, Zenon DEF PathTo
<1>5. Path = f[w]
  BY DEF Path
<1> HIDE DEF f
<1> DEFINE T == {j \in 0 .. w : ~Way(f[j], start + j)}
<1>6. T = {}
  <2> SUFFICES ASSUME T # {} PROVE FALSE
    OBVIOUS
  <2>1. PICK j \in T : \A y \in T : ~(y < j)
    <3>1. T \subseteq Nat
      OBVIOUS
    <3> HIDE DEF T
    <3> QED
      BY <3>1, LeastNat
  <2>2. j \in 0 .. w /\ ~Way(f[j], start + j)
    BY <2>1
  <2>3. f[j] = IF j = 0 THEN <<>>
               ELSE IF nodes[j].ml = 0 THEN f[j - 1]
               ELSE Append(f[j - nodes[j].ml], <<start + j - nodes[j].ml, nodes[j].ml, nodes[j].dist>>)
    BY <1>4, <2>2 DEF PathTo
  <2>4. CASE j = 0
    <3>1. Way(<<>>, start + j)
      BY DEF Way
    <3> QED
      BY <2>2, <2>3, <2>4, <3>1
  <2>5. CASE j # 0 /\ nodes[j].ml = 0
    <3>1. PICK k \in 0 .. w : k = j - 1 /\ k < j
      BY <1>1, <2>2, <2>5
    <3>2. Way(f[k], start + k)
      BY <2>1, <3>1
    <3>3. start + k \in Nat /\ start + j \in Nat /\ start + k <= start + j
      BY <1>1, <2>2, <3>1
    <3>4. Way(f[k], start + j)
      BY <3>2, <3>3, WayLater
    <3> QED
      BY <2>2, <2>3, <2>5, <3>1, <3>4
  <2>6. CASE j # 0 /\ nodes[j].ml # 0
    <3>1. nodes[j].ml \in 1 .. j
          /\ MatchAt(start + (j - nodes[j].ml), <<nodes[j].ml, nodes[j].dist>>)
      BY <1>2, <2>2, <2>6 DEF NodeIn
    <3>2. PICK ml \in Nat : ml = nodes[j].ml /\ ml >= 1 /\ ml <= j
      BY <2>2, <3>1
    <3>3. PICK d : d = nodes[j].dist
      OBVIOUS
    <3>4. PICK k \in 0 .. w : k = j - ml /\ k < j
      BY <1>1, <2>2, <3>2
    <3>5. PICK p \in Nat : p = start + k
      BY <1>1, <3>4
    <3>6. EntryOK(<<p, ml, d>>)
      <4>1. MatchAt(p, <<ml, d>>)
        BY <3>1, <3>2, <3>3, <3>4, <3>5
      <4> QED
        BY <1>1, <4>1, EntryIs
    <3>7. Way(f[k], p)
      BY <2>1, <3>4, <3>5
    <3>8. f[j] = Append(f[k], <<p, ml, d>>)
      <4>1. start + j - ml = p
        BY <1>1, <2>2, <3>2, <3>4, <3>5
      <4> QED
        BY <2>3, <2>6, <3>2, <3>3, <3>4, <4>1
    <3>9. PICK e : e = <<p, ml, d>>
      OBVIOUS
    <3>13. e[1] = p /\ e[2] = ml
      BY <3>9
    <3>10. PICK b \in Nat : b = start + j /\ p + ml = b /\ start <= p
      <4>1. start + j \in Nat /\ p + ml = start + j /\ start <= p
        BY <1>1, <2>2, <3>2, <3>4, <3>5
      <4> QED
        BY <4>1
    <3>11. EntryOK(e) /\ start <= e[1] /\ p <= e[1] /\ e[1] + e[2] = b
      BY <3>6, <3>9, <3>13, <3>10
    <3>12. Way(Append(f[k], e), b)
      BY <3>7, <3>11, WayMore
    <3> QED
      BY <2>2, <3>8, <3>9, <3>10, <3>12
  <2> QED
    BY <2>4, <2>5, <2>6
<1>7. PathWays(f)
  BY <1>4, <1>5, <1>6 DEF PathWays
<1> QED
  BY <1>7

LEMMA PathIs ==
  ASSUME WindowParsed, NodesOK(nodes)
  PROVE  Way(Path, start + w)
<1>1. w \in 0 .. w
  BY DEF WindowParsed
<1> QED
  BY <1>1, PathFrom DEF PathWays

WrittenTo(q, m, g) ==
  g = [k \in 0 .. m |->
         IF k = 0 THEN [out |-> out, anchor |-> anchor]
         ELSE LET b == g[k - 1]
                  s == q[k]
              IN  [out    |-> EmitSequence(b.out, b.anchor, s[1], s[3], s[2]),
                   anchor |-> s[1] + s[2]]]

LEMMA WrittenExists ==
  ASSUME NEW q, NEW k \in Nat
  PROVE  \E g : WrittenTo(q, k, g)
<1> DEFINE next(b, s) == [out    |-> EmitSequence(b.out, b.anchor, s[1], s[3], s[2]),
                          anchor |-> s[1] + s[2]]
           T == {m \in Nat : ~ \E g : WrittenTo(q, m, g)}
<1>1. CASE T = {}
  BY <1>1
<1>2. CASE T # {}
  <2>1. PICK m \in T : \A y \in T : ~(y < m)
    <3> HIDE DEF next
    <3> QED
      BY <1>2, LeastNat
  <2>2. m # 0
    <3>1. WrittenTo(q, 0, [x \in 0 .. 0 |-> [out |-> out, anchor |-> anchor]])
      BY DEF WrittenTo
    <3> QED
      BY <2>1, <3>1
  <2>3. PICK g : WrittenTo(q, m - 1, g)
    BY <2>1, <2>2
  <2>4. \A x \in 0 .. m - 1 : g[x] = IF x = 0 THEN [out |-> out, anchor |-> anchor]
                                     ELSE next(g[x - 1], q[x])
    BY <2>3 DEF WrittenTo
  <2> HIDE DEF next
  <2> DEFINE f == [x \in 0 .. m |-> IF x = m THEN next(g[m - 1], q[m]) ELSE g[x]]
  <2>5. ASSUME NEW x \in 0 .. m
        PROVE  f[x] = IF x = 0 THEN [out |-> out, anchor |-> anchor] ELSE next(f[x - 1], q[x])
    <3>1. CASE x = m
      <4>1. f[x - 1] = g[x - 1]
        BY <2>1, <2>2, <3>1
      <4> QED
        BY <2>2, <3>1, <4>1
    <3>2. CASE x # m
      <4>1. x \in 0 .. m - 1 /\ f[x] = g[x] /\ (x # 0 => f[x - 1] = g[x - 1])
        BY <2>1, <3>2
      <4> QED
        BY <2>4, <4>1
    <3> QED
      BY <3>1, <3>2
  <2>6. f = [x \in 0 .. m |-> IF x = 0 THEN [out |-> out, anchor |-> anchor]
                              ELSE next(f[x - 1], q[x])]
    BY <2>5
  <2>7. WrittenTo(q, m, f)
    BY <2>6 DEF WrittenTo, next
  <2> QED
    BY <2>1, <2>7
<1> QED
  BY <1>1, <1>2

(* As far as entry k of the way is written.                                  *)
WrittenOK(q, k, b) ==
  /\ CodesUpTo(src, b.out, b.anchor)
  /\ b.anchor = IF k = 0 THEN anchor ELSE q[k][1] + q[k][2]

LEMMA WrittenIs ==
  ASSUME WindowParsed, CodesUpTo(src, out, anchor), NEW q, NEW hi, Way(q, hi)
  PROVE  WrittenOK(q, Len(q), Written(q))
<1>1. q \in Seq(Nat \X Nat \X Nat) /\ Len(q) \in Nat /\ anchor <= start
      /\ anchor \in Nat /\ start \in Nat /\ n = Len(src)
  BY DEF Way, WindowParsed, n
<1> DEFINE f == CHOOSE g : g =
                 [k \in 0 .. Len(q) |->
                    IF k = 0 THEN [out |-> out, anchor |-> anchor]
                    ELSE LET b == g[k - 1]
                             s == q[k]
                         IN  [out    |-> EmitSequence(b.out, b.anchor, s[1], s[3], s[2]),
                              anchor |-> s[1] + s[2]]]
<1>2. WrittenTo(q, Len(q), f)
  <2>1. \E g : WrittenTo(q, Len(q), g)
    BY <1>1, WrittenExists
  <2> QED
    BY <2>1, Zenon DEF WrittenTo
<1>3. Written(q) = f[Len(q)]
  BY DEF Written
<1> HIDE DEF f
<1> DEFINE T == {k \in 0 .. Len(q) : ~WrittenOK(q, k, f[k])}
<1>4. T = {}
  <2> SUFFICES ASSUME T # {} PROVE FALSE
    OBVIOUS
  <2>1. PICK k \in T : \A y \in T : ~(y < k)
    <3>1. T \subseteq Nat
      OBVIOUS
    <3> HIDE DEF T
    <3> QED
      BY <3>1, LeastNat
  <2>2. k \in 0 .. Len(q) /\ ~WrittenOK(q, k, f[k])
    BY <2>1
  <2>3. CASE k = 0
    <3>1. f[k] = [out |-> out, anchor |-> anchor]
      BY <1>2, <2>2, <2>3 DEF WrittenTo
    <3>2. f[k].out = out /\ f[k].anchor = anchor
      BY <3>1
    <3> QED
      BY <2>2, <2>3, <3>2 DEF WrittenOK
  <2>4. CASE k # 0
    <3>1. k - 1 \in 0 .. Len(q) /\ k - 1 < k /\ k \in 1 .. Len(q) /\ k - 1 \in Nat
      BY <1>1, <2>2, <2>4
    <3>2. WrittenOK(q, k - 1, f[k - 1])
      BY <2>1, <3>1
    <3>3. PICK b : b = f[k - 1]
      OBVIOUS
    <3>4. PICK o, e : o = b.out /\ e = b.anchor
      OBVIOUS
    <3>5. CodesUpTo(src, o, e) /\ e \in Nat
      BY <3>2, <3>3, <3>4 DEF WrittenOK, CodesUpTo
    <3>6. PICK x : x = q[k]
      OBVIOUS
    <3>7. /\ EntryOK(x) /\ start <= x[1]
          /\ k > 1 => q[k - 1][1] + q[k - 1][2] <= x[1]
      BY <3>1, <3>6 DEF Way
    <3>8. PICK p \in Nat, ln \in Nat, d \in Nat : p = x[1] /\ ln = x[2] /\ d = x[3]
      BY <3>7 DEF EntryOK
    <3>9. /\ ln >= MinMatch /\ p + ln <= n /\ 1 <= d /\ d <= p /\ d < Window
          /\ SameBytes(p, p - d, ln)
      BY <3>7, <3>8 DEF EntryOK
    <3>10. e <= p
      <4>1. CASE k - 1 = 0
        <5>1. e = anchor
          BY <3>2, <3>3, <3>4, <4>1 DEF WrittenOK
        <5> QED
          BY <1>1, <3>7, <3>8, <5>1
      <4>2. CASE k - 1 # 0
        <5>1. e = q[k - 1][1] + q[k - 1][2]
          BY <3>2, <3>3, <3>4, <4>2 DEF WrittenOK
        <5>2. k > 1
          BY <3>1, <4>2
        <5> QED
          BY <3>7, <3>8, <5>1, <5>2
      <4> QED
        BY <4>1, <4>2
    <3>11. f[k] = [out |-> EmitSequence(o, e, p, d, ln), anchor |-> p + ln]
      <4>1. f[k] = [out    |-> EmitSequence(f[k - 1].out, f[k - 1].anchor, q[k][1], q[k][3], q[k][2]),
                    anchor |-> q[k][1] + q[k][2]]
        BY <1>2, <2>2, <2>4 DEF WrittenTo
      <4> QED
        BY <3>3, <3>4, <3>6, <3>8, <4>1
    <3>12. PICK g \in Nat : g = p + ln
      OBVIOUS
    <3>13. PICK o2 : o2 = EmitSequence(o, e, p, d, ln)
      OBVIOUS
    <3>14. g - p = ln /\ p + MinMatch <= g /\ g <= Len(src)
      BY <1>1, <3>9, <3>12
    <3>15. SameIn(src, p, p - d, g - p)
      <4>1. SameBytes(p, p - d, g - p)
        BY <3>9, <3>14
      <4> QED
        BY <4>1 DEF SameBytes, SameIn, At
    <3>16. Joined(o2.ctrl, o.ctrl, ControlOf(p - e, d, g - p))
           /\ Joined(o2.lit, o.lit, Part(src, e, p - e))
      <4>1. o2 = [ctrl |-> o.ctrl \o ControlOf(p - e, d, g - p), lit |-> o.lit \o Bytes(e, p - e)]
        BY <3>13, <3>14, Zenon DEF EmitSequence
      <4>2. o2.ctrl = o.ctrl \o ControlOf(p - e, d, g - p) /\ o2.lit = o.lit \o Bytes(e, p - e)
        BY ONLY <4>1
      <4> QED
        BY ONLY <4>2, Zenon DEF Joined, Part, Bytes
    <3>17. d \in 1 .. p /\ d <= Window
      BY <3>9, WindowIs
    <3>18. CodesUpTo(src, o2, g)
      BY <3>5, <3>10, <3>14, <3>15, <3>16, <3>17, CodesMore
    <3>19. WrittenOK(q, k, f[k])
      <4>1. f[k].out = o2 /\ f[k].anchor = g
        BY <3>11, <3>12, <3>13
      <4> QED
        BY <2>4, <3>6, <3>8, <3>12, <3>18, <4>1 DEF WrittenOK
    <3> QED
      BY <2>2, <3>19
  <2> QED
    BY <2>3, <2>4
<1> QED
  BY <1>1, <1>3, <1>4

--------------------------------------------------------------------------------
(* The parse, window by window.                                              *)
OptReached == IF forced = <<>> THEN start + i ELSE start + w + forced[1]

OptPlaces ==
  /\ src \in Inputs /\ anchor \in Nat /\ start \in Nat /\ w \in Nat /\ i \in Nat
  /\ anchor <= start /\ btNext \in Nat
  /\ reach \in Int /\ reach <= n
  /\ pc \in {"opt", "optCands", "optEmit", "done"}

InWindow ==
  /\ start + w <= Limit /\ i <= w /\ btNext <= OptReached
  /\ forced # <<>> => i = w /\ MatchAt(start + w, forced)
  /\ \A k \in 0 .. w - 1 : k \in DOMAIN cands /\ Matches(start + k, cands[k])

OptInv ==
  /\ OptPlaces /\ Codes
  /\ TreeInv(son, roots, btNext)
  /\ pc = "opt" => btNext <= start
  /\ pc \in {"optCands", "optEmit"} => InWindow
  /\ pc = "optEmit" => NodesOK(nodes)

optAll == <<src, anchor, pc, out, reach, optVars>>

(* What is known of the input stays.                                         *)
LEMMA TreeSame ==
  ASSUME src' = src, TreeInv(son', roots', btNext')
  PROVE  TreeInv(son, roots, btNext)'
<1>1. n' = n
  BY DEF n
<1>2. \A x : At(x)' = At(x)
  BY DEF At
<1>3. \A p, r, k : SameBytes(p, r, k)' <=> SameBytes(p, r, k)
  BY <1>2 DEF SameBytes
<1>4. \A a, b, k : NotAfter(a, b, k)' <=> NotAfter(a, b, k)
  BY <1>2, <1>3 DEF NotAfter
<1>5. \A B, m, L : Before(B, m, L)' = Before(B, m, L) /\ After(B, m, L)' = After(B, m, L)
  BY <1>4 DEF Before, After
<1>6. \A p : LenLimit(p)' = LenLimit(p)
  BY <1>1 DEF LenLimit
<1>7. \A t, p, L, B, holes : TreeOK(t, p, L, B, holes)' <=> TreeOK(t, p, L, B, holes)
  BY <1>5 DEF TreeOK
<1>8. \A t, p : TreeRest(t, p)' <=> TreeRest(t, p)
  BY <1>6, <1>7 DEF TreeRest, Ghost
<1> QED
  BY <1>8 DEF TreeInv

LEMMA MatchSame ==
  ASSUME src' = src
  PROVE  /\ \A p, c : MatchAt(p, c) <=> MatchAt(p, c)'
         /\ \A p, cs : Matches(p, cs) <=> Matches(p, cs)'
<1>1. n' = n
  BY DEF n
<1>2. \A p, r, k : SameBytes(p, r, k) <=> SameBytes(p, r, k)'
  BY DEF SameBytes, At
<1>3. \A p, c : MatchAt(p, c) <=> MatchAt(p, c)'
  BY <1>1, <1>2 DEF MatchAt
<1>4. \A p, cs : Matches(p, cs) <=> Matches(p, cs)'
  BY <1>3 DEF Matches
<1> QED
  BY <1>3, <1>4

LEMMA OptInvStart ==
  ASSUME InputInit, OptInit, pc = "opt", reach = 0, Codes
  PROVE  OptInv
<1>1. src \in Inputs /\ anchor = 0 /\ n \in Nat
  BY InputLen DEF InputInit, n
<1>2. TreeInv(son, roots, 0) /\ btNext = 0 /\ start = 0 /\ w = 0 /\ i = 0
  BY TreeStart DEF OptInit
<1> QED
  BY <1>1, <1>2 DEF OptInv, OptPlaces

(* A window starts, or the input has come to its end.                        *)
LEMMA OptWindowStep ==
  ASSUME OptInv, OptWindowStart
  PROVE  OptInv'
<1>1. UNCHANGED <<src, anchor, out, reach, roots, son, btNext, start, nodes>> /\ pc = "opt"
  BY DEF OptWindowStart
<1>2. /\ src \in Inputs /\ anchor \in Nat /\ start \in Nat /\ w \in Nat /\ i \in Nat
      /\ anchor <= start /\ btNext \in Nat /\ reach \in Int /\ reach <= n /\ n \in Nat
      /\ btNext <= start /\ Limit \in Int
  BY <1>1, InputLen DEF OptInv, OptPlaces, n, Limit
<1>3. n' = n /\ Limit' = Limit
  BY <1>1 DEF n, Limit
<1>4. Codes' /\ TreeInv(son, roots, btNext)'
  BY <1>1, TreeSame DEF OptInv, Codes
<1>5. CASE TooShort \/ start >= Limit
  <2>1. pc' = "done" /\ w' = w /\ i' = i
    BY <1>5 DEF OptWindowStart
  <2>2. OptPlaces'
    BY <1>1, <1>2, <1>3, <2>1 DEF OptPlaces
  <2> QED
    BY <1>4, <2>1, <2>2 DEF OptInv
<1>6. CASE ~(TooShort \/ start >= Limit)
  <2>1. /\ w' = IF start + OptWindow > Limit THEN Limit - start ELSE OptWindow
        /\ i' = 0 /\ cands' = [k \in 0 .. w' - 1 |-> <<>>] /\ forced' = <<>> /\ pc' = "optCands"
    BY <1>6 DEF OptWindowStart
  <2>2. w' \in Nat /\ start + w' <= Limit
    <3>1. OptWindow \in Nat
      BY OptNumbers
    <3> QED
      BY <1>2, <1>6, <2>1, <3>1
  <2>3. OptPlaces'
    BY <1>1, <1>2, <1>3, <2>1, <2>2 DEF OptPlaces
  <2>4. ASSUME NEW k \in 0 .. w' - 1 PROVE (k \in DOMAIN cands /\ Matches(start + k, cands[k]))'
    <3>1. k \in DOMAIN cands' /\ cands'[k] = <<>>
      BY <2>1
    <3>2. Matches(start' + k, <<>>)
      BY DEF Matches
    <3> QED
      BY <1>1, <3>1, <3>2, MatchSame
  <2>5. btNext' <= OptReached'
    BY <1>1, <1>2, <2>1 DEF OptReached
  <2>6. InWindow'
    BY <1>1, <1>3, <2>1, <2>2, <2>4, <2>5 DEF InWindow
  <2> QED
    BY <1>4, <2>1, <2>3, <2>6 DEF OptInv
<1> QED
  BY <1>5, <1>6

(* A position that was passed over is inserted.                              *)
LEMMA OptInsertStep ==
  ASSUME OptInv, OptInsert
  PROVE  OptInv'
<1>1. /\ UNCHANGED <<src, anchor, pc, out, start, w, i, cands, hidden, forced, nodes>>
      /\ pc = "optCands" /\ i < w /\ btNext < start + i /\ BtInsert(btNext)
  BY DEF OptInsert
<1>2. /\ src \in Inputs /\ anchor \in Nat /\ start \in Nat /\ w \in Nat /\ i \in Nat
      /\ anchor <= start /\ btNext \in Nat /\ reach \in Int /\ reach <= n /\ n \in Nat
      /\ Limit \in Int /\ start + w <= Limit /\ i <= w
  BY <1>1, InputLen DEF OptInv, OptPlaces, InWindow, n, Limit
<1>3. n' = n /\ Limit' = Limit
  BY <1>1 DEF n, Limit
<1>4. forced = <<>>
  BY <1>1, <1>2 DEF OptInv, InWindow
<1>5. PICK p \in Nat : p = btNext
  BY <1>2
<1>6. p + MinMatch <= n
  <2>1. InLimit(p)
    BY <1>1, <1>2, <1>5 DEF InLimit
  <2> QED
    BY <1>2, <2>1, InLimitIs
<1>7. TreeInv(son', roots', p + 1) /\ btNext' = p + 1
  <2>1. TreeInv(son, roots, p) /\ BtInsert(p)
    BY <1>1, <1>5 DEF OptInv
  <2> QED
    BY <1>2, <1>6, <2>1, BtInsertOK
<1>8. TreeInv(son, roots, btNext)'
  <2>1. TreeInv(son', roots', btNext')
    BY <1>7
  <2> QED
    BY <1>1, <2>1, TreeSame
<1>9. Codes'
  BY <1>1 DEF OptInv, Codes
<1>10. OptPlaces'
  <2>1. reach' \in Int /\ reach' <= n
    BY <1>1, <1>2, <1>5, <1>6, BtReadsInside
  <2> QED
    BY <1>1, <1>2, <1>3, <1>5, <1>7, <2>1 DEF OptPlaces
<1>11. InWindow'
  <2>1. ASSUME NEW k \in 0 .. w' - 1 PROVE (k \in DOMAIN cands /\ Matches(start + k, cands[k]))'
    <3>1. k \in DOMAIN cands /\ Matches(start + k, cands[k])
      BY <1>1 DEF OptInv, InWindow
    <3> QED
      BY <1>1, <3>1, MatchSame
  <2>2. btNext' <= OptReached'
    BY <1>1, <1>2, <1>4, <1>5, <1>7 DEF OptReached
  <2> QED
    BY <1>1, <1>2, <1>3, <1>4, <2>1, <2>2 DEF InWindow
<1> QED
  BY <1>1, <1>8, <1>9, <1>10, <1>11 DEF OptInv

(* The candidates of a position, and a step to the next, or over a long      *)
(* match, or to the end of the window, if one is long enough to be taken.    *)
LEMMA OptCandsStep ==
  ASSUME OptInv, OptCands
  PROVE  OptInv'
<1>1. /\ UNCHANGED <<src, anchor, pc, out, start, nodes>>
      /\ pc = "optCands" /\ i < w /\ btNext >= start + i /\ BtInsert(start + i)
  BY DEF OptCands
<1>2. /\ src \in Inputs /\ anchor \in Nat /\ start \in Nat /\ w \in Nat /\ i \in Nat
      /\ anchor <= start /\ btNext \in Nat /\ reach \in Int /\ reach <= n /\ n \in Nat
      /\ Limit \in Int /\ start + w <= Limit /\ i <= w /\ btNext <= OptReached
  BY <1>1, InputLen DEF OptInv, OptPlaces, InWindow, n, Limit
<1>3. n' = n /\ Limit' = Limit
  BY <1>1 DEF n, Limit
<1>4. forced = <<>>
  BY <1>1, <1>2 DEF OptInv, InWindow
<1>5. PICK p \in Nat : p = start + i /\ p = btNext
  <2>1. start + i \in Nat /\ start + i = btNext
    BY <1>1, <1>2, <1>4 DEF OptReached
  <2> QED
    BY <2>1
<1>6. p + MinMatch <= n
  <2>1. InLimit(p)
    BY <1>1, <1>2, <1>5 DEF InLimit
  <2> QED
    BY <1>2, <2>1, InLimitIs
<1>7. /\ TreeInv(son', roots', p + 1) /\ btNext' = p + 1
      /\ InsertedIs(p, LenLimit(p), Inserted(p))
  <2>1. TreeInv(son, roots, p) /\ BtInsert(p)
    BY <1>1, <1>5 DEF OptInv
  <2> QED
    BY <1>2, <1>6, <2>1, BtInsertOK
<1>8. TreeInv(son, roots, btNext)'
  <2>1. TreeInv(son', roots', btNext')
    BY <1>7
  <2> QED
    BY <1>1, <2>1, TreeSame
<1>9. Codes'
  BY <1>1 DEF OptInv, Codes
<1>10. PICK c : c = FindAll(p) /\ Matches(p, c)
  BY <1>2, <1>6, <1>7, FindAllIs
<1> DEFINE last == c[Len(c)]
           len_ == IF c = <<>> THEN 0 ELSE last[1]
           skip == len_ >= SkipLen /\ i + len_ <= w
<1>11. /\ cands' = [cands EXCEPT ![i] = c]
       /\ IF len_ >= Sufficient
          THEN /\ forced' = last
               /\ w' = i
               /\ UNCHANGED <<i, hidden>>
          ELSE /\ i' = IF skip THEN i + len_ ELSE i + 1
               /\ hidden' = IF skip THEN hidden \cup (i + 1 .. i + len_ - 1) ELSE hidden
               /\ UNCHANGED <<forced, w>>
  BY <1>5, <1>10, Zenon DEF OptCands
<1>12. len_ \in Nat /\ (len_ # 0 => MatchAt(p, last) /\ last # <<>>)
  <2>1. CASE c = <<>>
    BY <2>1
  <2>2. CASE c # <<>>
    <3>1. c \in Seq(Nat \X Nat) /\ Len(c) \in 1 .. Len(c)
      BY <1>10, <2>2 DEF Matches
    <3>2. MatchAt(p, last)
      BY <1>10, <3>1 DEF Matches
    <3>3. last \in Nat \X Nat
      BY <3>2 DEF MatchAt
    <3> HIDE DEF last
    <3>4. PICK x \in Nat, y \in Nat : last = <<x, y>>
      BY <3>3
    <3>5. last # <<>> /\ last[1] \in Nat
      BY <3>4
    <3> QED
      BY <2>2, <3>2, <3>5
  <2> QED
    BY <2>1, <2>2
<1>13. /\ i' \in Nat /\ w' \in Nat /\ i' <= w' /\ w' <= w
       /\ forced' # <<>> => i' = w' /\ MatchAt(start + w', forced')
       /\ p + 1 <= IF forced' = <<>> THEN start + i' ELSE start + w' + forced'[1]
  <2> HIDE DEF last
  <2>1. CASE len_ >= Sufficient
    <3>1. forced' = last /\ w' = i /\ i' = i /\ len_ # 0
      <4>1. Sufficient \in Nat /\ Sufficient > 0
        BY OptNumbers, OptSizes
      <4> QED
        BY <1>11, <1>12, <2>1, <4>1
    <3>2. MatchAt(p, last) /\ last # <<>> /\ start + w' = p /\ last[1] >= MinMatch /\ last[1] \in Nat
      BY <1>5, <1>12, <3>1 DEF MatchAt
    <3>3. p + 1 <= start + w' + last[1]
      BY <1>5, <3>2
    <3> QED
      BY <1>2, <3>1, <3>2, <3>3
  <2>2. CASE ~(len_ >= Sufficient)
    <3>1. forced' = <<>> /\ w' = w /\ i' = IF skip THEN i + len_ ELSE i + 1
      BY <1>4, <1>11, <2>2
    <3>2. i' \in Nat /\ i' <= w /\ i + 1 <= i'
      <4>1. CASE skip
        <5>1. SkipLen \in Nat /\ SubLen \in Nat /\ SkipLen >= SubLen /\ SubLen >= MinMatch
          BY OptNumbers, OptSizes
        <5>2. SkipLen >= 1
          BY <5>1
        <5>3. len_ >= 1 /\ i + len_ <= w
          BY <1>12, <4>1, <5>1, <5>2
        <5> QED
          BY <1>2, <1>12, <3>1, <4>1, <5>3
      <4>2. CASE ~skip
        <5>1. i' = i + 1
          BY <3>1, <4>2
        <5> QED
          BY <1>1, <1>2, <5>1
      <4> QED
        BY <4>1, <4>2
    <3>3. p + 1 <= start + i'
      <4>1. PICK x \in Nat : x = i' /\ i + 1 <= x
        BY <3>2
      <4>2. i + 1 <= x /\ p = start + i /\ start \in Nat /\ i \in Nat
        BY <1>2, <1>5, <4>1
      <4>3. p + 1 <= start + x
        BY ONLY <4>2, x \in Nat
      <4> QED
        BY <4>1, <4>3
    <3> QED
      BY <1>2, <3>1, <3>2, <3>3
  <2> QED
    BY <2>1, <2>2
<1>16. i' \in Nat /\ w' \in Nat /\ i' <= w' /\ w' <= w
  BY <1>13, Zenon
<1>17. PICK v \in Nat : v = w' /\ v <= w
  BY <1>16
<1>18. v <= w /\ w \in Nat /\ start \in Nat /\ start + w <= Limit /\ Limit \in Int
  BY <1>2, <1>17
<1>14. OptPlaces'
  <2>1. reach' \in Int /\ reach' <= n
    BY <1>1, <1>2, <1>5, <1>6, BtReadsInside
  <2> QED
    BY <1>1, <1>2, <1>3, <1>5, <1>7, <1>16, <2>1 DEF OptPlaces
<1>15. InWindow'
  <2>1. ASSUME NEW k \in 0 .. w' - 1 PROVE (k \in DOMAIN cands /\ Matches(start + k, cands[k]))'
    <3>1. k \in 0 .. w - 1
      <4>1. k \in 0 .. v - 1
        BY <1>17
      <4> QED
        BY ONLY <1>18, <4>1, v \in Nat
    <3>2. k \in DOMAIN cands /\ Matches(start + k, cands[k])
      BY <1>1, <3>1 DEF OptInv, InWindow
    <3>3. k \in DOMAIN cands' /\ cands'[k] = IF k = i THEN c ELSE cands[k]
      BY <1>11, <3>2
    <3>4. Matches(start + k, cands'[k])
      BY <1>5, <1>10, <3>2, <3>3
    <3> QED
      BY <1>1, <3>3, <3>4, MatchSame
  <2>2. btNext' <= OptReached'
    BY <1>1, <1>7, <1>13 DEF OptReached
  <2>3. start' + w' <= Limit'
    <3>1. start + v <= Limit
      BY ONLY <1>18, v \in Nat
    <3> QED
      BY <1>1, <1>3, <1>17, <3>1
  <2>4. forced' # <<>> => i' = w' /\ MatchAt(start + w, forced)'
    BY <1>1, <1>13, MatchSame
  <2> QED
    BY <1>16, <2>1, <2>2, <2>3, <2>4 DEF InWindow
<1> QED
  BY <1>1, <1>8, <1>9, <1>14, <1>15 DEF OptInv

LEMMA WindowKnown == OptInv /\ pc \in {"optCands", "optEmit"} => WindowParsed
BY InputLen DEF OptInv, OptPlaces, InWindow, WindowParsed, n

(* The window is priced.                                                     *)
LEMMA OptPriceStep ==
  ASSUME OptInv, OptPrice
  PROVE  OptInv'
<1>1. /\ UNCHANGED <<src, anchor, out, reach, roots, son, btNext, start, w, i, cands, hidden, forced>>
      /\ pc = "optCands" /\ pc' = "optEmit" /\ nodes' = Priced
  BY DEF OptPrice
<1>2. n' = n /\ Limit' = Limit
  BY <1>1 DEF n, Limit
<1>3. NodesOK(Priced)
  BY <1>1, PricedOK, WindowKnown
<1>4. NodesOK(nodes)'
  <2>1. ASSUME NEW j \in 0 .. w PROVE NodeIn(j, nodes[j])'
    <3>1. NodeIn(j, nodes'[j])
      BY <1>1, <1>3, <2>1 DEF NodesOK
    <3> QED
      BY <1>1, <3>1, MatchSame DEF NodeIn
  <2>2. DOMAIN nodes' = 0 .. w
    BY <1>1, <1>3 DEF NodesOK
  <2> QED
    BY <1>1, <2>1, <2>2 DEF NodesOK
<1>5. Codes' /\ TreeInv(son, roots, btNext)'
  BY <1>1, TreeSame DEF OptInv, Codes
<1>6. OptPlaces'
  BY <1>1, <1>2 DEF OptInv, OptPlaces
<1>7. InWindow'
  <2>1. InWindow
    BY <1>1 DEF OptInv
  <2>2. ASSUME NEW k \in 0 .. w' - 1 PROVE (k \in DOMAIN cands /\ Matches(start + k, cands[k]))'
    <3>1. k \in DOMAIN cands /\ Matches(start + k, cands[k])
      BY <1>1, <2>1 DEF InWindow
    <3> QED
      BY <1>1, <3>1, MatchSame
  <2>3. forced' # <<>> => i' = w' /\ MatchAt(start + w, forced)'
    BY <1>1, <2>1, MatchSame DEF InWindow
  <2>4. btNext' <= OptReached' /\ start' + w' <= Limit' /\ i' <= w'
    BY <1>1, <1>2, <2>1 DEF InWindow, OptReached
  <2> QED
    BY <2>2, <2>3, <2>4 DEF InWindow
<1> QED
  BY <1>1, <1>4, <1>5, <1>6, <1>7 DEF OptInv

(* The end of what is written of a window, and the next start.               *)
OptEnd == IF forced = <<>> THEN start + w ELSE start + w + forced[1]
OptWay == IF forced = <<>> THEN Path ELSE Append(Path, <<start + w, forced[1], forced[2]>>)

LEMMA OptWayIs ==
  ASSUME OptInv, pc = "optEmit"
  PROVE  /\ Way(OptWay, OptEnd) /\ OptEnd \in Nat /\ start + w <= OptEnd
         /\ forced # <<>> => Len(OptWay) # 0 /\ OptWay[Len(OptWay)][1] + OptWay[Len(OptWay)][2] = OptEnd
<1>1. Way(Path, start + w) /\ start \in Nat /\ w \in Nat /\ n \in Nat
  <2>1. WindowParsed /\ NodesOK(nodes)
    BY WindowKnown DEF OptInv
  <2> QED
    BY <2>1, PathIs DEF WindowParsed
<1>2. CASE forced = <<>>
  BY <1>1, <1>2 DEF OptWay, OptEnd
<1>3. CASE forced # <<>>
  <2>1. MatchAt(start + w, forced)
    BY <1>3 DEF OptInv, InWindow
  <2>2. PICK p \in Nat : p = start + w
    BY <1>1
  <2>3. PICK ln \in Nat, d \in Nat : forced = <<ln, d>>
    BY <2>1 DEF MatchAt
  <2>4. PICK e : e = <<p, ln, d>>
    OBVIOUS
  <2>5. e[1] = p /\ e[2] = ln /\ EntryOK(e)
    <3>1. MatchAt(p, <<ln, d>>)
      BY <2>1, <2>2, <2>3
    <3>2. EntryOK(<<p, ln, d>>)
      BY <1>1, <3>1, EntryIs
    <3> QED
      BY <2>4, <3>2
  <2>6. forced[1] = ln /\ forced[2] = d
    BY <2>3
  <2>7. OptWay = Append(Path, e)
    BY <1>3, <2>2, <2>4, <2>6 DEF OptWay
  <2>8. PICK b \in Nat : b = p + ln
    OBVIOUS
  <2>9. OptEnd = b /\ p <= b /\ start <= p
    BY <1>1, <1>3, <2>2, <2>6, <2>8 DEF OptEnd
  <2>10. Way(Append(Path, e), b)
    <3>1. Way(Path, p) /\ start <= e[1] /\ p <= e[1] /\ e[1] + e[2] = b
      BY <1>1, <2>2, <2>5, <2>8, <2>9
    <3> QED
      BY <2>5, <3>1, WayMore
  <2>11. PICK q \in Seq(Nat \X Nat \X Nat) : q = Path
    BY <1>1 DEF Way
  <2>12. PICK r : r = Append(q, e)
    OBVIOUS
  <2>13. Len(r) = Len(q) + 1 /\ Len(q) \in Nat /\ r[Len(q) + 1] = e
    BY <2>5, <2>11, <2>12 DEF EntryOK
  <2>14. Len(r) # 0 /\ r[Len(r)][1] + r[Len(r)][2] = b
    BY <2>5, <2>8, <2>13
  <2> QED
    BY <2>2, <2>7, <2>9, <2>10, <2>11, <2>12, <2>14
<1> QED
  BY <1>2, <1>3

(* It is written.                                                            *)
LEMMA OptEmitStep ==
  ASSUME OptInv, OptEmit
  PROVE  OptInv'
<1>1. /\ UNCHANGED <<src, reach, roots, son, btNext, w, i, cands, hidden, forced, nodes>>
      /\ pc = "optEmit" /\ pc' = "opt"
  BY DEF OptEmit
<1>2. PICK q : q = OptWay
  OBVIOUS
<1>3. PICK b : b = Written(q)
  OBVIOUS
<1>4. out' = b.out /\ anchor' = b.anchor /\ start' = IF forced = <<>> THEN start + w ELSE b.anchor
  BY <1>2, <1>3, Zenon DEF OptEmit, OptWay
<1>5. /\ src \in Inputs /\ anchor \in Nat /\ start \in Nat /\ w \in Nat /\ i \in Nat
      /\ anchor <= start /\ btNext \in Nat /\ reach \in Int /\ reach <= n /\ n \in Nat
      /\ i <= w /\ btNext <= OptReached
  BY <1>1, InputLen DEF OptInv, OptPlaces, InWindow, n
<1>6. PICK hi \in Nat : hi = OptEnd
  BY <1>1, OptWayIs
<1>7. /\ Way(q, hi) /\ start + w <= hi
      /\ forced # <<>> => Len(q) # 0 /\ q[Len(q)][1] + q[Len(q)][2] = hi
  BY <1>1, <1>2, <1>6, OptWayIs
<1>8. CodesUpTo(src, b.out, b.anchor)
      /\ b.anchor = IF Len(q) = 0 THEN anchor ELSE q[Len(q)][1] + q[Len(q)][2]
  <2>1. WindowParsed /\ CodesUpTo(src, out, anchor)
    BY <1>1, WindowKnown DEF OptInv, Codes
  <2>2. WrittenOK(q, Len(q), b)
    BY <1>3, <1>7, <2>1, WrittenIs
  <2> QED
    BY <2>2 DEF WrittenOK
<1>9. PICK a \in Nat : a = b.anchor
  BY <1>8 DEF CodesUpTo
<1>10. a <= hi
  <2>1. CASE Len(q) = 0
    BY <1>5, <1>7, <1>8, <1>9, <2>1
  <2>2. CASE Len(q) # 0
    <3>1. Len(q) \in 1 .. Len(q)
      BY <1>7, <2>2 DEF Way
    <3>2. q[Len(q)][1] + q[Len(q)][2] <= hi
      BY <1>7, <3>1 DEF Way
    <3> QED
      BY <1>8, <1>9, <2>2, <3>2
  <2> QED
    BY <2>1, <2>2
<1>11. PICK z \in Nat : z = start' /\ a <= z /\ btNext <= z
  <2>1. CASE forced = <<>>
    <3>1. start' = start + w /\ hi = start + w /\ btNext <= start + i
      BY <1>4, <1>5, <1>6, <2>1 DEF OptEnd, OptReached
    <3>2. start + w \in Nat /\ a <= start + w /\ btNext <= start + w
      BY <1>5, <1>10, <3>1
    <3> QED
      BY <3>1, <3>2
  <2>2. CASE forced # <<>>
    <3>1. start' = a /\ a = hi
      BY <1>4, <1>7, <1>8, <1>9, <2>2
    <3>2. btNext <= hi
      BY <1>5, <1>6, <2>2 DEF OptEnd, OptReached
    <3> QED
      BY <3>1, <3>2
  <2> QED
    BY <2>1, <2>2
<1>12. Codes' /\ TreeInv(son, roots, btNext)'
  BY <1>1, <1>4, <1>8, TreeSame DEF OptInv, Codes
<1>13. n' = n
  BY <1>1 DEF n
<1>14. OptPlaces'
  BY <1>1, <1>4, <1>5, <1>9, <1>11, <1>13 DEF OptPlaces
<1> QED
  BY <1>1, <1>11, <1>12, <1>14 DEF OptInv

(* The tree, the candidates, the nodes and what is written stay true.        *)
LEMMA OptStep ==
  ASSUME OptInv, [OptNext]_optAll
  PROVE  OptInv' /\ [EmitsOne]_<<out, anchor>>
<1>1. CASE OptWindowStart
  BY <1>1, OptWindowStep DEF OptWindowStart
<1>2. CASE OptInsert
  BY <1>2, OptInsertStep DEF OptInsert
<1>3. CASE OptCands
  BY <1>3, OptCandsStep DEF OptCands
<1>4. CASE OptPrice
  BY <1>4, OptPriceStep DEF OptPrice
<1>5. CASE OptEmit
  <2>1. pc = "optEmit"
    BY <1>5 DEF OptEmit
  <2> QED
    BY <1>5, <2>1, OptEmitStep DEF EmitsOne
<1>6. CASE UNCHANGED optAll
  <2>1. /\ UNCHANGED <<src, anchor, pc, out, reach, roots, son, btNext, start, w, i, cands, hidden,
                       forced, nodes>>
    BY <1>6 DEF optAll, optVars
  <2>2. n' = n /\ Limit' = Limit
    BY <2>1 DEF n, Limit
  <2>3. Codes' /\ TreeInv(son, roots, btNext)'
    BY <2>1, TreeSame DEF OptInv, Codes
  <2>4. OptPlaces'
    BY <2>1, <2>2 DEF OptInv, OptPlaces
  <2>5. InWindow => InWindow'
    <3> SUFFICES ASSUME InWindow PROVE InWindow'
      OBVIOUS
    <3>1. ASSUME NEW k \in 0 .. w' - 1 PROVE (k \in DOMAIN cands /\ Matches(start + k, cands[k]))'
      <4>1. k \in DOMAIN cands /\ Matches(start + k, cands[k])
        BY <2>1 DEF InWindow
      <4> QED
        BY <2>1, <4>1, MatchSame
    <3>2. forced' # <<>> => i' = w' /\ MatchAt(start + w, forced)'
      BY <2>1, MatchSame DEF InWindow
    <3>3. btNext' <= OptReached' /\ start' + w' <= Limit' /\ i' <= w'
      BY <2>1, <2>2 DEF InWindow, OptReached
    <3> QED
      BY <3>1, <3>2, <3>3 DEF InWindow
  <2>6. NodesOK(nodes) => NodesOK(nodes)'
    BY <2>1, MatchSame DEF NodesOK, NodeIn
  <2>7. UNCHANGED <<out, anchor>>
    BY <2>1
  <2> QED
    BY <2>1, <2>3, <2>4, <2>5, <2>6, <2>7 DEF OptInv
<1> QED
  BY <1>1, <1>2, <1>3, <1>4, <1>5, <1>6 DEF OptNext

LEMMA OptInvariance == OptSpec => []OptInv
<1>1. InputInit /\ OptInit /\ pc = "opt" /\ out = [ctrl |-> <<>>, lit |-> <<>>] /\ reach = 0 => OptInv
  BY CodesStart, OptInvStart
<1> QED
  BY <1>1, OptStep, PTL DEF OptSpec, optAll

(* What levels 9 and 10 write, decoded, is the input: the tree, cut off in   *)
(* its walks and with links that were never set in this block or have left   *)
(* the window, leads only to true matches, and the parse writes only what    *)
(* the tree found, however it is priced.                                     *)
THEOREM OptRoundTrip == OptSpec => []RoundTrip
<1>1. OptInv => RoundTrip
  BY CodesGiveBack DEF OptInv
<1> QED
  BY <1>1, OptInvariance, PTL

(* Every candidate of the tree is a match inside the input and the window.   *)
THEOREM OptCandidatesTrue == OptSpec => [](pc \in {"optCands", "optEmit"} => InWindow)
<1>1. OptInv => (pc \in {"optCands", "optEmit"} => InWindow)
  BY DEF OptInv
<1> QED
  BY <1>1, OptInvariance, PTL

--------------------------------------------------------------------------------
(* What the optimal parse pays is what it writes. The candidates of a        *)
(* position get longer: so each is tried at its own length at least.         *)
Rising(cs) == \A k \in 2 .. Len(cs) : cs[k - 1][1] < cs[k][1]

Climbs(s) == Rising(s.cands) /\ (Len(s.cands) > 0 => s.cands[Len(s.cands)][1] <= s.best)

LEMMA RisingMore ==
  ASSUME NEW q \in Seq(Nat \X Nat), NEW b \in Nat, Rising(q), Len(q) > 0 => q[Len(q)][1] <= b,
         NEW e \in Nat, e > b, NEW d \in Nat
  PROVE  /\ Rising(Append(q, <<e, d>>))
         /\ Append(q, <<e, d>>)[Len(Append(q, <<e, d>>))][1] = e
<1>0. PICK c : c = <<e, d>>
  OBVIOUS
<1>1. c \in Nat \X Nat /\ c = <<e, d>> /\ c[1] = e
  BY <1>0
<1>2. PICK r : r = Append(q, c)
  OBVIOUS
<1>3. /\ Len(r) = Len(q) + 1 /\ Len(q) \in Nat
      /\ \A k \in 1 .. Len(q) : r[k] = q[k] /\ q[k] \in Nat \X Nat
      /\ r[Len(q) + 1] = c
  BY ONLY <1>1, <1>2, q \in Seq(Nat \X Nat)
<1>4. ASSUME NEW k \in 2 .. Len(r) PROVE r[k - 1][1] < r[k][1]
  <2>1. CASE k \in 2 .. Len(q)
    <3>1. k \in 1 .. Len(q) /\ k - 1 \in 1 .. Len(q)
      BY <1>3, <2>1
    <3> QED
      BY <1>3, <2>1, <3>1 DEF Rising
  <2>2. CASE k = Len(q) + 1
    <3>1. k - 1 = Len(q) /\ Len(q) \in 1 .. Len(q) /\ Len(q) > 0
      BY <1>3, <2>2
    <3>2. r[k - 1] = q[Len(q)] /\ r[k] = c /\ q[Len(q)][1] \in Nat /\ q[Len(q)][1] <= b
      BY <1>3, <2>2, <3>1
    <3> QED
      BY <1>1, <3>2
  <2> QED
    BY <1>3, <2>1, <2>2
<1> QED
  BY <1>1, <1>2, <1>3, <1>4 DEF Rising

LEMMA WalkStepClimbs ==
  ASSUME NEW p, NEW L, Insertable(p, L), NEW s, WalkOK(p, L, s), Climbs(s)
  PROVE  Climbs(WalkStep(p, s))
<1> DEFINE m == s.match
           e == Equal(p, s)
           longer == e > Known(s) /\ e > s.best
           found == IF longer /\ Len(s.cands) < MaxCand
                    THEN Append(s.cands, <<e, p - m>>) ELSE s.cands
           best == IF longer THEN e ELSE s.best
<1>1. p \in Nat /\ L \in Nat /\ p + L <= n /\ n \in Nat /\ src \in Inputs
      /\ L = LenLimit(p) /\ L >= MinMatch
  BY DEF Insertable
<1>2. WalkType(p, L, s)
  BY DEF WalkOK
<1>3. CASE s.whole \/ m < 0 \/ p - m >= Window
  <2>1. WalkStep(p, s) = s
    BY <1>3 DEF WalkStep
  <2> QED
    BY <2>1
<1>4. CASE ~(s.whole \/ m < 0 \/ p - m >= Window)
  <2>1. PICK B, o0, S0, o1, S1 : Walked(p, L, s, B, o0, S0, o1, S1)
    BY <1>4 DEF WalkOK, Walking
  <2>2. m \in Nodes(p) /\ m < p /\ m \in Nat /\ m \in B[m]
    <3>1. m \in Int /\ m < p
      BY <1>2, <1>4, <2>1 DEF WalkType, Walked, WalkOK
    <3>2. m \in Nodes(p) /\ m \in Nat
      BY <1>1, <1>4, <3>1, WindowIs DEF Nodes
    <3> QED
      BY <2>1, <3>1, <3>2 DEF Walked, TreeOK
  <2>3. NotAfter(p, m, s.len1) /\ NotAfter(m, p, s.len0)
    BY <2>1, <2>2 DEF Walked, Ahead
  <2>4. e \in Nat
    <3>1. e \in Known(s) .. L /\ Known(s) \in Nat
      BY <1>2, <2>2, <2>3, EqualIs
    <3> HIDE DEF e
    <3> QED
      BY <3>1
  <2>5. WalkStep(p, s).cands = found /\ WalkStep(p, s).best = best
    <3>1. s = [son |-> s.son, ptr1 |-> s.ptr1, ptr0 |-> s.ptr0, whole |-> s.whole,
               match |-> s.match, len0 |-> s.len0, len1 |-> s.len1,
               best |-> s.best, cands |-> s.cands]
      BY <1>2 DEF WalkType
    <3> QED
      BY <1>4, <3>1 DEF WalkStep
  <2>6. s.cands \in Seq(Nat \X Nat) /\ s.best \in Nat /\ p - m \in Nat
    BY <1>1, <1>2, <2>2 DEF WalkType
  <2> HIDE DEF e
  <2>7. CASE longer /\ Len(s.cands) < MaxCand
    <3>1. PICK c : c = Append(s.cands, <<e, p - m>>)
      OBVIOUS
    <3>2. e > s.best
      BY <2>7
    <3>3. Rising(c) /\ c[Len(c)][1] = e
      BY <2>4, <2>6, <3>1, <3>2, RisingMore DEF Climbs
    <3>4. found = c /\ best = e
      BY <2>7, <3>1
    <3>5. WalkStep(p, s).cands = c /\ WalkStep(p, s).best = e
      BY <2>5, <3>4
    <3>6. e <= e
      BY <2>4
    <3> QED
      BY <3>3, <3>5, <3>6 DEF Climbs
  <2>8. CASE ~(longer /\ Len(s.cands) < MaxCand)
    <3>1. found = s.cands /\ best \in Nat /\ best >= s.best
      BY <2>4, <2>6, <2>8
    <3>2. PICK c \in Seq(Nat \X Nat), b \in Nat : c = s.cands /\ b = s.best
      BY <2>6
    <3>3. Len(c) > 0 => c[Len(c)][1] \in Nat
      <4>1. Len(c) > 0 => c[Len(c)] \in Nat \X Nat
        BY ONLY c \in Seq(Nat \X Nat)
      <4> QED
        BY <4>1
    <3>4. Len(c) > 0 => c[Len(c)][1] <= b
      BY <3>2 DEF Climbs
    <3>5. PICK b2 \in Nat : b2 = best /\ b2 >= b
      BY <3>1, <3>2
    <3>6. Len(c) > 0 => c[Len(c)][1] <= b2
      BY ONLY <3>3, <3>4, <3>5, b \in Nat, b2 \in Nat
    <3>7. WalkStep(p, s).cands = c /\ WalkStep(p, s).best = b2
      BY <2>5, <3>1, <3>2, <3>5
    <3> QED
      BY <3>2, <3>6, <3>7 DEF Climbs
  <2> QED
    BY <2>7, <2>8
<1> QED
  BY <1>3, <1>4

LEMMA InsertedRising ==
  ASSUME NEW p, NEW L, Insertable(p, L), TreeInv(son, roots, p)
  PROVE  Rising(Inserted(p).cands)
<1>1. Cut \in Nat
  BY OptAssumption DEF OptAssumption
<1> DEFINE f == CHOOSE g : g = [k \in 0 .. Cut |-> IF k = 0 THEN WalkStart(p) ELSE WalkStep(p, g[k - 1])]
<1>2. Walk(p, Cut, f)
  <2>1. \E g : Walk(p, Cut, g)
    BY <1>1, WalkExists
  <2> QED
    BY <2>1 DEF Walk
<1>3. PICK s : s = f[Cut]
  OBVIOUS
<1>4. Inserted(p) = IF s.whole THEN s ELSE [s EXCEPT !.son = [@ EXCEPT ![s.ptr0] = 0, ![s.ptr1] = 0]]
  BY <1>3 DEF Inserted, Closed
<1> HIDE DEF f
<1> DEFINE T == {k \in 0 .. Cut : ~(WalkOK(p, L, f[k]) /\ Climbs(f[k]))}
<1>5. T = {}
  <2> SUFFICES ASSUME T # {} PROVE FALSE
    OBVIOUS
  <2>1. PICK k \in T : \A y \in T : ~(y < k)
    <3>1. T \subseteq Nat
      OBVIOUS
    <3> HIDE DEF T
    <3> QED
      BY <3>1, LeastNat
  <2>2. k \in 0 .. Cut /\ ~(WalkOK(p, L, f[k]) /\ Climbs(f[k]))
    BY <2>1
  <2>3. f[k] = IF k = 0 THEN WalkStart(p) ELSE WalkStep(p, f[k - 1])
    BY <1>2, <2>2 DEF Walk
  <2>4. k # 0
    <3>1. WalkStart(p).cands = <<>>
      BY DEF WalkStart
    <3>2. Climbs(WalkStart(p))
      BY <3>1 DEF Climbs, Rising
    <3> QED
      BY <2>2, <2>3, <3>2, WalkStartOK
  <2>5. k - 1 \in 0 .. Cut /\ k - 1 < k
    BY <1>1, <2>2, <2>4
  <2>6. WalkOK(p, L, f[k - 1]) /\ Climbs(f[k - 1])
    BY <2>1, <2>5
  <2>7. WalkOK(p, L, WalkStep(p, f[k - 1])) /\ Climbs(WalkStep(p, f[k - 1]))
    BY <2>6, WalkStepOK, WalkStepClimbs
  <2> QED
    BY <2>2, <2>3, <2>4, <2>7
<1>6. WalkOK(p, L, s) /\ Climbs(s)
  BY <1>1, <1>3, <1>5
<1>7. Inserted(p).cands = s.cands
  BY <1>4, <1>6 DEF WalkOK, WalkType
<1> QED
  BY <1>6, <1>7 DEF Climbs

LEMMA FindAllRising ==
  ASSUME src \in Inputs, NEW p \in Nat, p + MinMatch <= n, TreeInv(son, roots, p)
  PROVE  Rising(FindAll(p))
<1>1. n \in Nat /\ p <= n
  BY InputLen DEF n
<1>2. Insertable(p, LenLimit(p))
  BY <1>1, LenLimitIs
<1>3. PICK c \in Seq(Nat \X Nat) : /\ c = Inserted(p).cands /\ Rising(c)
                                   /\ \A k \in 1 .. Len(c) : MatchAt(p, c[k])
  BY <1>2, InsertedTree, InsertedRising DEF InsertedIs, Matches
<1>4. PICK k \in Nat : k = Len(c)
  OBVIOUS
<1>5. CASE k > 0 /\ c[k][1] >= BtMaxLen
  <2>0. k \in 1 .. Len(c)
    BY <1>4, <1>5
  <2>1. k \in 1 .. Len(c) /\ c[k] \in Nat \X Nat /\ MatchAt(p, c[k])
    BY <1>3, <2>0
  <2>2. PICK ln \in Nat, d \in Nat : ln = c[k][1] /\ d = c[k][2]
    BY <2>1
  <2>3. p + ln <= n /\ 1 <= d /\ d <= p
    BY <2>1, <2>2 DEF MatchAt
  <2>4. PICK j \in Nat : j = CountMatch(p + ln, (p + ln) - d)
    <3>1. PICK a \in Nat, b \in Nat : a = p + ln /\ b = (p + ln) - d
      <4>1. p + ln \in Nat /\ (p + ln) - d \in Nat
        BY <2>3
      <4> QED
        BY <4>1
    <3>2. CountMatch(a, b) \in 0 .. n - a
      BY <1>1, <2>3, <3>1, CountMatchIs
    <3> QED
      BY <3>1, <3>2
  <2>10. PICK x : x = <<ln + j, d>>
    OBVIOUS
  <2>5. x \in Nat \X Nat /\ x = <<ln + j, d>> /\ x[1] = ln + j
    BY <2>10
  <2>6. FindAll(p) = [c EXCEPT ![k] = x]
    <3>1. FindAll(p) = IF k > 0 /\ c[k][1] >= BtMaxLen
                       THEN [c EXCEPT ![k] = <<c[k][1] + CountMatch(p + c[k][1], (p + c[k][1]) - c[k][2]),
                                               c[k][2]>>]
                       ELSE c
      BY <1>3, <1>4, Zenon DEF FindAll, Grown
    <3>2. x = <<c[k][1] + CountMatch(p + c[k][1], (p + c[k][1]) - c[k][2]), c[k][2]>>
      BY <2>2, <2>4, <2>5, Zenon
    <3> QED
      BY <1>5, <3>1, <3>2, Zenon
  <2>7. PICK q : q = [c EXCEPT ![k] = x]
    OBVIOUS
  <2>8. Len(q) = Len(c) /\ \A z \in 1 .. Len(c) : q[z] = IF z = k THEN x ELSE c[z]
    <3>1. k \in 1 .. Len(c) /\ c \in Seq(Nat \X Nat) /\ x \in Nat \X Nat
      BY <2>0, <2>5
    <3>2. PICK S : S = Nat \X Nat /\ c \in Seq(S) /\ x \in S
      BY <3>1
    <3>3. Replaced(q, c, k, x, S)
      BY <2>7, <3>1, <3>2, OneReplaced
    <3> QED
      BY <3>3, Zenon DEF Replaced
  <2>9. ASSUME NEW z \in 2 .. Len(q) PROVE q[z - 1][1] < q[z][1]
    <3>1. z \in 1 .. Len(c) /\ z - 1 \in 1 .. Len(c) /\ z - 1 # k /\ z \in 2 .. Len(c)
      BY <1>4, <2>8
    <3>2. c[z - 1][1] < c[z][1]
      BY <1>3, <3>1 DEF Rising
    <3>3. q[z - 1] = c[z - 1] /\ q[z] = IF z = k THEN x ELSE c[z]
      BY <2>8, <3>1
    <3>4. c[z - 1][1] \in Nat
      <4>1. c[z - 1] \in Nat \X Nat
        BY <3>1
      <4> QED
        BY <4>1
    <3>5. PICK a \in Nat, b \in Nat : a = c[z - 1][1] /\ b = c[z][1]
      <4>1. c[z] \in Nat \X Nat
        BY <3>1
      <4> QED
        BY <3>4, <4>1
    <3>6. q[z][1] = b \/ q[z][1] = b + j
      BY <2>2, <2>5, <3>3, <3>5
    <3>7. q[z - 1][1] = a /\ a < b
      BY <3>2, <3>3, <3>5
    <3> QED
      BY ONLY <3>6, <3>7, a \in Nat, b \in Nat, j \in Nat
  <2> QED
    BY <2>6, <2>7, <2>9 DEF Rising
<1>6. CASE ~(k > 0 /\ c[k][1] >= BtMaxLen)
  <2>1. FindAll(p) = c
    BY <1>3, <1>4, <1>6 DEF FindAll, Grown
  <2> QED
    BY <1>3, <2>1
<1> QED
  BY <1>5, <1>6

--------------------------------------------------------------------------------
(* Prices are what is written costs.                                         *)
LEMMA NoExactCode ==
  ASSUME NEW l \in Nat, NEW m \in Nat, l > ExactLL \/ m > ExactM
  PROVE  ExactCode(l, m) = Base
<1>1. ASSUME NEW c \in 1 .. EscML PROVE ExactPairs[c] # <<l, m>>
  <2>1. PICK a \in 0 .. ExactLL, b \in 0 .. ExactM : ExactPairs[c] = <<a, b>>
    BY BaseIs
  <2>2. a # l \/ b # m
    BY BaseIs
  <2> QED
    BY <2>1, <2>2
<1> QED
  BY <1>1 DEF ExactCode

LEMMA ExtBytesSlow ==
  ASSUME NEW v \in Nat
  PROVE  ExtBytes(v) <= v + 1 /\ ExtBytes(v + 1) <= ExtBytes(v) + 1
<1>1. PICK d \in Nat : d = Base /\ d >= 1
  BY BaseIs
<1>2. PICK q \in Nat : q = v \div d
  BY <1>1, Quotient
<1>3. PICK r \in Nat : r = v % d /\ r < d
  BY <1>1, Quotient
<1>4. v = d * q + r
  BY ONLY <1>1, <1>2, <1>3, d \in Nat, v \in Nat, Quotient
<1>5. PICK z \in Nat : z = v + 1
  OBVIOUS
<1>6. PICK q2 \in Nat : q2 = z \div d
  BY <1>1, Quotient
<1>7. PICK r2 \in Nat : r2 = z % d /\ r2 < d
  BY <1>1, Quotient
<1>8. z = d * q2 + r2
  BY ONLY <1>1, <1>6, <1>7, d \in Nat, z \in Nat, Quotient
<1>9. q <= v
  <2>1. PICK x \in Nat : d = x + 1
    <3>1. d - 1 \in Nat /\ d = (d - 1) + 1
      BY <1>1
    <3> QED
      BY <3>1
  <2>2. d * q = x * q + q /\ x * q \in Nat
    BY ONLY <2>1, x \in Nat, q \in Nat
  <2>3. PICK y \in Nat : y = x * q
    BY <2>2
  <2>4. v = y + q + r
    BY ONLY <1>4, <2>2, <2>3, y \in Nat, q \in Nat, r \in Nat
  <2> QED
    BY ONLY <2>4, y \in Nat, q \in Nat, r \in Nat
<1>10. q2 <= q + 1
  <2> SUFFICES ASSUME ~(q2 <= q + 1) PROVE FALSE
    OBVIOUS
  <2>1. PICK k \in Nat : q2 = q + 2 + k
    <3>1. q2 - q - 2 \in Nat /\ q2 = q + 2 + (q2 - q - 2)
      OBVIOUS
    <3> QED
      BY <3>1
  <2>2. d * q2 = d * q + 2 * d + d * k /\ d * k \in Nat /\ d * q \in Nat
    BY ONLY <2>1, d \in Nat, q \in Nat, k \in Nat
  <2>3. PICK a \in Nat, b \in Nat : a = d * q /\ b = d * k
    BY <2>2
  <2>4. v = a + r /\ v + 1 = a + 2 * d + b + r2
    BY ONLY <1>4, <1>5, <1>8, <2>2, <2>3
  <2> QED
    BY ONLY <2>4, <1>1, <1>3, a \in Nat, b \in Nat, d \in Nat, r \in Nat, r2 \in Nat, v \in Nat
<1>11. ExtBytes(v) = q + 1 /\ ExtBytes(v + 1) = q2 + 1
  BY <1>1, <1>2, <1>5, <1>6 DEF ExtBytes
<1> QED
  BY <1>9, <1>10, <1>11

(* The run that no token holds starts with one byte of extension.            *)
LEMMA FirstExtByte == ExtBytes(ExactLL + 1) = 1
<1>1. PICK d \in Nat, x \in Nat : d = Base /\ x = ExactLL + 1 /\ x < d /\ d >= 1
  BY BaseIs
<1>2. PICK q \in Nat : q = x \div d
  BY <1>1, Quotient
<1>3. PICK r \in Nat : r = x % d
  BY <1>1, Quotient
<1>4. x = d * q + r
  BY ONLY <1>1, <1>2, <1>3, d \in Nat, x \in Nat, Quotient
<1>5. q = 0
  <2> SUFFICES ASSUME q # 0 PROVE FALSE
    OBVIOUS
  <2>1. PICK k \in Nat : q = k + 1
    <3>1. q - 1 \in Nat /\ q = (q - 1) + 1
      OBVIOUS
    <3> QED
      BY <3>1
  <2>2. d * q = d * k + d /\ d * k \in Nat
    BY ONLY <2>1, d \in Nat, k \in Nat
  <2>3. PICK y \in Nat : y = d * k
    BY <2>2
  <2>4. x = y + d + r
    BY ONLY <1>4, <2>2, <2>3, y \in Nat, d \in Nat, r \in Nat
  <2> QED
    BY ONLY <1>1, <2>4, y \in Nat, d \in Nat, r \in Nat, x \in Nat
<1>6. ExtBytes(x) = q + 1
  BY <1>1, <1>2 DEF ExtBytes
<1> QED
  BY <1>1, <1>5, <1>6

(* A literal costs its byte and what the run costs more with it.             *)
LEMMA LiteralPays ==
  ASSUME NEW ll \in Nat
  PROVE  /\ LitStep(ll) \in Nat /\ PendingCost(ll) \in Nat /\ PendingCost(ll + 1) \in Nat
         /\ LitStep(ll) + PendingCost(ll) = Scale + PendingCost(ll + 1)
<1>1. PICK s \in Nat, p \in Nat, x \in Nat : s = Scale /\ p = PEsc /\ x = ExactLL
  BY OptNumbers, BaseIs
<1>2. PICK e \in Nat, f \in Nat : e = ExtBytes(ll) /\ f = ExtBytes(ll + 1) /\ f >= e
  <2>1. ll + 1 \in Nat
    OBVIOUS
  <2> QED
    BY <2>1, ExtBytesIs
<1>3. PendingCost(ll) = (IF ll > x THEN s * e + p ELSE 0)
      /\ PendingCost(ll + 1) = (IF ll + 1 > x THEN s * f + p ELSE 0)
  BY <1>1, <1>2 DEF PendingCost
<1>4. PICK a \in Nat, b \in Nat : a = s * e /\ b = s * f
  BY ONLY s \in Nat, e \in Nat, f \in Nat, Times
<1>5. s * (1 + f) = s + b /\ s * (1 + f - e) = s + b - a
  BY ONLY <1>4, s \in Nat, e \in Nat, f \in Nat
<1>6. LitStep(ll) \in Nat
  BY LitStepIs
<1>7. CASE ll < x
  <2>1. LitStep(ll) = s
    BY <1>1, <1>7 DEF LitStep
  <2>2. PendingCost(ll) = 0 /\ PendingCost(ll + 1) = 0
    BY <1>3, <1>7
  <2> QED
    BY <1>1, <1>6, <2>1, <2>2
<1>8. CASE ll = x
  <2>1. LitStep(ll) = s + b + p
    BY <1>1, <1>2, <1>5, <1>8 DEF LitStep
  <2>2. PendingCost(ll) = 0 /\ PendingCost(ll + 1) = b + p
    BY <1>3, <1>4, <1>8
  <2> QED
    BY <1>1, <1>6, <2>1, <2>2
<1>9. CASE ll > x
  <2>1. LitStep(ll) = s + b - a
    BY <1>1, <1>2, <1>5, <1>9 DEF LitStep
  <2>2. PendingCost(ll) = a + p /\ PendingCost(ll + 1) = b + p
    BY <1>3, <1>4, <1>9
  <2> QED
    BY <1>1, <1>6, <2>1, <2>2
<1> QED
  BY <1>7, <1>8, <1>9

(* The bytes of a sequence.                                                  *)
ExtsLen(l, m) ==
  (IF l > ExactLL THEN ExtBytes(l) ELSE 0)
  + (IF ExactCode(l, m) # Base \/ (l > ExactLL /\ m <= ExactM) THEN 0 ELSE ExtBytes(m))

LEMMA ExtsAre ==
  ASSUME NEW l \in Nat, NEW m \in Nat
  PROVE  TokenAndExt(l, m)[2] \in Seq(Nat) /\ Len(TokenAndExt(l, m)[2]) = ExtsLen(l, m)
<1>2. PICK x \in Seq(Nat), y \in Seq(Nat) : x = PutExt(l) /\ y = PutExt(m)
                                            /\ Len(x) = ExtBytes(l) /\ Len(y) = ExtBytes(m)
  BY PutExtLen
<1>3. PICK a \in Nat, b \in Nat : a = ExtBytes(l) /\ b = ExtBytes(m)
  BY PutExtLen
<1>8. l > ExactLL => ExactCode(l, m) = Base
  BY NoExactCode
<1>9. ExactLL \in Nat /\ ExactM \in Nat
  BY BaseIs
<1>11. CASE l <= ExactLL /\ ExactCode(l, m) # Base
  <2>1. TokenAndExt(l, m) = <<ExactCode(l, m), <<>>>>
    BY <1>9, <1>11 DEF TokenAndExt
  <2>2. TokenAndExt(l, m)[2] = <<>>
    BY <2>1
  <2>3. ExtsLen(l, m) = 0
    BY <1>9, <1>11 DEF ExtsLen
  <2> QED
    BY <2>2, <2>3
<1>12. CASE l <= ExactLL /\ ExactCode(l, m) = Base
  <2>1. TokenAndExt(l, m) = <<EscML + l, y>>
    <3>1. l <= ExactLL /\ ~(l > ExactLL) /\ ExactCode(l, m) = Base
      BY <1>9, <1>12
    <3>2. TokenAndExt(l, m) = <<EscML + l, PutExt(m)>>
      BY <3>1, Zenon DEF TokenAndExt
    <3> QED
      BY <1>2, <3>2
  <2>2. TokenAndExt(l, m)[2] = y
    BY <2>1
  <2>3. ExtsLen(l, m) = b
    BY <1>3, <1>9, <1>12 DEF ExtsLen
  <2> QED
    BY <1>2, <1>3, <2>2, <2>3
<1>13. CASE l > ExactLL /\ m <= ExactM
  <2>1. TokenAndExt(l, m) = <<EscLL + m, x>>
    BY <1>2, <1>9, <1>13 DEF TokenAndExt
  <2>2. TokenAndExt(l, m)[2] = x
    BY <2>1
  <2>3. ExtsLen(l, m) = a
    BY <1>3, <1>9, <1>13 DEF ExtsLen
  <2> QED
    BY <1>2, <1>3, <2>2, <2>3
<1>14. CASE l > ExactLL /\ m > ExactM
  <2>1. TokenAndExt(l, m) = <<EscBoth, x \o y>>
    <3>1. ~(l <= ExactLL) /\ ~(m <= ExactM)
      BY <1>9, <1>14
    <3>2. TokenAndExt(l, m) = <<EscBoth, PutExt(l) \o PutExt(m)>>
      BY <3>1, Zenon DEF TokenAndExt
    <3> QED
      BY <1>2, <3>2
  <2>2. TokenAndExt(l, m)[2] = x \o y
    BY <2>1
  <2>3. ExtsLen(l, m) = a + b
    BY <1>3, <1>8, <1>9, <1>14 DEF ExtsLen
  <2>4. x \o y \in Seq(Nat) /\ Len(x \o y) = Len(x) + Len(y)
    OBVIOUS
  <2> QED
    BY <1>2, <1>3, <2>2, <2>3, <2>4
<1> QED
  BY <1>9, <1>11, <1>12, <1>13, <1>14

LEMMA ControlLen ==
  ASSUME NEW l \in Nat, NEW d, NEW ln \in Nat, NEW m \in Nat, m = ln - MinMatch
  PROVE  Len(ControlOf(l, d, ln)) = 3 + ExtsLen(l, m)
<1>1. PICK z \in Seq(Nat) : z = TokenAndExt(l, m)[2] /\ Len(z) = ExtsLen(l, m)
  BY ExtsAre
<1>2. PICK a, b, c : /\ a = TokenAndExt(l, m)[1] /\ b = (d - 1) % (Base + 1)
                     /\ c = ((d - 1) \div (Base + 1)) % (Base + 1)
  OBVIOUS
<1>3. PICK h : h = <<a, b, c>>
  OBVIOUS
<1>4. PICK S : S = {a, b, c} \cup Nat
  OBVIOUS
<1>5. h \in Seq(S) /\ Len(h) = 3
  <2>1. a \in S /\ b \in S /\ c \in S
    BY ONLY <1>4
  <2> QED
    BY ONLY <1>3, <2>1
<1>6. z \in Seq(S)
  BY ONLY <1>4, z \in Seq(Nat)
<1>7. ControlOf(l, d, ln) = h \o z
  BY <1>1, <1>2, <1>3 DEF ControlOf
<1>8. Len(h \o z) = 3 + Len(z)
  <2>1. Len(h \o z) = Len(h) + Len(z)
    BY ONLY <1>5, <1>6, ConcatProperties, Zenon
  <2> QED
    BY ONLY <1>5, <2>1
<1> QED
  BY <1>1, <1>7, <1>8

(* A match costs its sequence, its penalties and nothing for the literals    *)
(* before it that they have not cost themselves.                             *)
Escape(l, m) == IF ExactCode(l, m) = Base THEN PEsc ELSE 0

LEMMA MatchPays ==
  ASSUME NEW ll \in Nat, NEW ml \in Nat, NEW d, NEW m \in Nat, m = ml - MinMatch, NEW c \in Nat,
         c = Len(ControlOf(ll, d, ml))
  PROVE  /\ Cost(ll, ml, d) \in Nat /\ Escape(ll, m) \in Nat /\ Near(d) \in Nat
         /\ Cost(ll, ml, d) + PendingCost(ll) = Scale * c + PSeq + Escape(ll, m) + Near(d)
<1>1. PICK s \in Nat, p \in Nat, x \in Nat, y \in Nat, t \in Nat :
        s = Scale /\ p = PEsc /\ x = ExactLL /\ y = ExactM /\ t = PSeq
  BY OptNumbers, BaseIs
<1>2. PICK e \in Nat, f \in Nat : e = ExtBytes(ll) /\ f = ExtBytes(m)
  BY ExtBytesIs
<1>3. PICK u \in Nat, v \in Nat : u = s * e /\ v = s * f
  BY ONLY s \in Nat, e \in Nat, f \in Nat, Times
<1>4. /\ s * (3 + f) = s * 3 + v /\ s * (3 + e) = s * 3 + u /\ s * (3 + (e + f)) = s * 3 + u + v
      /\ s * 3 \in Nat
  BY ONLY <1>3, s \in Nat, e \in Nat, f \in Nat
<1>5. PICK z \in Nat : z = s * 3
  BY <1>4
<1>6. c = 3 + ExtsLen(ll, m)
  BY ControlLen
<1>7. PICK near \in Nat : near = Near(d)
  BY OptNumbers DEF Near
<1>8. PendingCost(ll) = IF ll > x THEN u + p ELSE 0
  BY <1>1, <1>2, <1>3 DEF PendingCost
<1>9. /\ ll > x => ExactCode(ll, m) = Base
      /\ m > y => ExactCode(ll, m) = Base
      /\ \A k \in Nat : k > x => ExactCode(k, m) = Base
  BY <1>1, NoExactCode
<1>10. PICK g \in Nat : g = MtabCols /\ g > y
  BY <1>1, OptNumbers, OptSizes
<1>11. ml < MinMatch + MtabCols <=> m < g
  BY <1>10
<1>12. PICK k \in Nat : k = IF ll > x THEN x + 1 ELSE ll
  OBVIOUS
<1>13. Cost(ll, ml, d) = near + (IF m < g THEN MatchCost(k, ml) ELSE LongMatchCost(ll, ml))
  BY <1>1, <1>7, <1>11, <1>12 DEF Cost
<1>14. LongMatchCost(ll, ml) = z + v + t + (IF ll <= x THEN p ELSE 0)
  BY <1>1, <1>2, <1>4, <1>5 DEF LongMatchCost
<1>15. MatchCost(k, ml) =
         CASE k <= x /\ ExactCode(k, m) # Base -> z + t
           [] k <= x /\ ExactCode(k, m) = Base -> z + v + t + p
           [] k > x /\ m <= y                  -> z + t
           [] OTHER                            -> z + v + t
  BY <1>1, <1>2, <1>4, <1>5 DEF MatchCost
<1>16. Escape(ll, m) \in Nat /\ Escape(ll, m) = IF ExactCode(ll, m) = Base THEN p ELSE 0
  BY <1>1 DEF Escape
<1>17. CASE ll <= x
  <2>1. k = ll /\ PendingCost(ll) = 0
    BY <1>8, <1>12, <1>17
  <2>2. CASE ExactCode(ll, m) # Base
    <3>1. m < g
      BY <1>9, <1>10, <2>2
    <3>2. Cost(ll, ml, d) = near + (z + t)
      BY <1>13, <1>15, <1>17, <2>1, <2>2, <3>1
    <3>3. c = 3
      BY <1>1, <1>6, <1>17, <2>2 DEF ExtsLen
    <3>4. Scale * c = z
      BY <1>1, <1>5, <3>3
    <3>5. Cost(ll, ml, d) + PendingCost(ll) = near + (z + t) + 0
      BY <2>1, <3>2
    <3>6. Scale * c + PSeq + Escape(ll, m) + Near(d) = (z) + t + 0 + near
      BY <1>1, <1>7, <1>16, <2>1, <2>2, <3>4
    <3>7. near + (z + t) + 0 = (z) + t + 0 + near
      BY ONLY near \in Nat, z \in Nat, t \in Nat, u \in Nat, v \in Nat, p \in Nat
    <3>8. Cost(ll, ml, d) \in Nat /\ Near(d) \in Nat
      BY <1>7, <3>2
    <3> QED
      BY <1>16, <3>5, <3>6, <3>7, <3>8
  <2>3. CASE ExactCode(ll, m) = Base
    <3>1. Cost(ll, ml, d) = near + (z + v + t + p)
      <4>1. MatchCost(k, ml) = z + v + t + p
        <5>1. k <= x /\ ~(k > x) /\ ExactCode(k, m) = Base
          BY <1>17, <2>1, <2>3
        <5> QED
          BY <1>15, <5>1
      <4>2. LongMatchCost(ll, ml) = z + v + t + p
        BY <1>14, <1>17
      <4> QED
        BY <1>13, <4>1, <4>2
    <3>2. c = 3 + f
      BY <1>1, <1>2, <1>6, <1>17, <2>3 DEF ExtsLen
    <3>3. Scale * c = z + v
      BY <1>1, <1>4, <1>5, <3>2
    <3>5. Cost(ll, ml, d) + PendingCost(ll) = near + (z + v + t + p) + 0
      BY <2>1, <3>1
    <3>6. Scale * c + PSeq + Escape(ll, m) + Near(d) = (z + v) + t + p + near
      BY <1>1, <1>7, <1>16, <2>1, <2>3, <3>3
    <3>7. near + (z + v + t + p) + 0 = (z + v) + t + p + near
      BY ONLY near \in Nat, z \in Nat, t \in Nat, u \in Nat, v \in Nat, p \in Nat
    <3>8. Cost(ll, ml, d) \in Nat /\ Near(d) \in Nat
      BY <1>7, <3>1
    <3> QED
      BY <1>16, <3>5, <3>6, <3>7, <3>8
  <2> QED
    BY <2>2, <2>3
<1>18. CASE ll > x
  <2>1. k > x /\ ~(k <= x) /\ ~(ll <= x) /\ PendingCost(ll) = u + p /\ ExactCode(ll, m) = Base
    BY <1>8, <1>9, <1>12, <1>18
  <2>2. CASE m <= y
    <3>1. m < g
      BY <1>10, <2>2
    <3>2. Cost(ll, ml, d) = near + (z + t)
      BY <1>13, <1>15, <2>1, <2>2, <3>1
    <3>3. c = 3 + e
      BY <1>1, <1>2, <1>6, <1>18, <2>1, <2>2 DEF ExtsLen
    <3>4. Scale * c = z + u
      BY <1>1, <1>4, <1>5, <3>3
    <3>5. Cost(ll, ml, d) + PendingCost(ll) = near + (z + t) + (u + p)
      BY <2>1, <3>2
    <3>6. Scale * c + PSeq + Escape(ll, m) + Near(d) = (z + u) + t + p + near
      BY <1>1, <1>7, <1>16, <2>1, <3>4
    <3>7. near + (z + t) + (u + p) = (z + u) + t + p + near
      BY ONLY near \in Nat, z \in Nat, t \in Nat, u \in Nat, v \in Nat, p \in Nat
    <3>8. Cost(ll, ml, d) \in Nat /\ Near(d) \in Nat
      BY <1>7, <3>2
    <3> QED
      BY <1>16, <3>5, <3>6, <3>7, <3>8
  <2>3. CASE ~(m <= y)
    <3>1. Cost(ll, ml, d) = near + (z + v + t)
      <4>1. MatchCost(k, ml) = z + v + t
        BY <1>15, <2>1, <2>3
      <4>2. LongMatchCost(ll, ml) = z + v + t
        BY <1>14, <2>1
      <4> QED
        BY <1>13, <4>1, <4>2
    <3>2. c = 3 + (e + f)
      BY <1>1, <1>2, <1>6, <1>18, <2>1, <2>3 DEF ExtsLen
    <3>3. Scale * c = z + u + v
      BY <1>1, <1>4, <1>5, <3>2
    <3>5. Cost(ll, ml, d) + PendingCost(ll) = near + (z + v + t) + (u + p)
      BY <2>1, <3>1
    <3>6. Scale * c + PSeq + Escape(ll, m) + Near(d) = (z + u + v) + t + p + near
      BY <1>1, <1>7, <1>16, <2>1, <3>3
    <3>7. near + (z + v + t) + (u + p) = (z + u + v) + t + p + near
      BY ONLY near \in Nat, z \in Nat, t \in Nat, u \in Nat, v \in Nat, p \in Nat
    <3>8. Cost(ll, ml, d) \in Nat /\ Near(d) \in Nat
      BY <1>7, <3>1
    <3> QED
      BY <1>16, <3>5, <3>6, <3>7, <3>8
  <2> QED
    BY <2>2, <2>3
<1> QED
  BY <1>17, <1>18

--------------------------------------------------------------------------------
(* No way of a window costs as much as High(Int32).                          *)
PriceCap == 4 * Scale + PSeq + PEsc + PShort

LEMMA TimesMore == ASSUME NEW c \in Nat, NEW a \in Nat, NEW b \in Nat, a <= b PROVE c * a <= c * b
<1>1. PICK k \in Nat : b = a + k
  <2>1. b - a \in Nat /\ b = a + (b - a)
    OBVIOUS
  <2> QED
    BY <2>1
<1>2. c * b = c * a + c * k /\ c * k \in Nat /\ c * a \in Nat
  BY ONLY <1>1, c \in Nat, a \in Nat, k \in Nat
<1>3. PICK x \in Nat, y \in Nat : x = c * a /\ y = c * k
  BY <1>2
<1> QED
  BY ONLY <1>2, <1>3, x \in Nat, y \in Nat

LEMMA CapIs == PriceCap \in Nat /\ OptWindow * PriceCap < Inf /\ Inf \in Nat
<1>1. PICK s \in Nat, t \in Nat, p \in Nat, h \in Nat : s = Scale /\ t = PSeq /\ p = PEsc /\ h = PShort
  BY OptNumbers
<1>2. PriceCap \in Nat
  BY <1>1 DEF PriceCap
<1>3. Inf \in Nat
  BY OptNumbers
<1>4. OptWindow * PriceCap < Inf
  BY OptAssumption, Zenon DEF OptAssumption, PriceCap
<1> QED
  BY <1>2, <1>3, <1>4

LEMMA LiteralCap == ASSUME NEW ll \in Nat PROVE LitStep(ll) <= PriceCap
<1>1. PICK s \in Nat, t \in Nat, p \in Nat, h \in Nat : s = Scale /\ t = PSeq /\ p = PEsc /\ h = PShort
  BY OptNumbers
<1>2. PICK e \in Nat, f \in Nat : e = ExtBytes(ll) /\ f = ExtBytes(ll + 1) /\ f >= e /\ f <= e + 1
  <2>1. ll + 1 \in Nat
    OBVIOUS
  <2> QED
    BY <2>1, ExtBytesIs, ExtBytesSlow
<1>3. PriceCap = 4 * s + t + p + h
  BY <1>1 DEF PriceCap
<1>4. PICK x \in Nat : x = ExactLL
  BY BaseIs
<1>5. CASE ll < x
  <2>1. LitStep(ll) = s
    BY <1>1, <1>4, <1>5 DEF LitStep
  <2> QED
    BY <1>3, <2>1
<1>6. CASE ll = x
  <2>1. f = 1
    BY <1>2, <1>4, <1>6, FirstExtByte
  <2>2. LitStep(ll) = s * 2 + p
    BY <1>1, <1>2, <1>4, <1>6, <2>1 DEF LitStep
  <2> QED
    BY <1>3, <2>2
<1>7. CASE ll > x
  <2>1. LitStep(ll) = s * (1 + f - e)
    BY <1>1, <1>2, <1>4, <1>7 DEF LitStep
  <2>2. 1 + f - e = 1 \/ 1 + f - e = 2
    BY ONLY <1>2, e \in Nat, f \in Nat
  <2>3. LitStep(ll) = s * 1 \/ LitStep(ll) = s * 2
    BY <2>1, <2>2
  <2> QED
    BY <1>3, <2>3
<1> QED
  BY <1>4, <1>5, <1>6, <1>7

LEMMA MatchCap ==
  ASSUME NEW ll \in Nat, NEW ml \in Nat, ml >= MinMatch, NEW d
  PROVE  Cost(ll, ml, d) \in Nat /\ Cost(ll, ml, d) <= ml * PriceCap /\ ml * PriceCap \in Nat
<1>1. PICK s \in Nat, t \in Nat, p \in Nat, h \in Nat : s = Scale /\ t = PSeq /\ p = PEsc /\ h = PShort
  BY OptNumbers
<1>2. PICK m \in Nat : m = ml - MinMatch /\ m + 3 <= ml
  <2>1. ml - MinMatch \in Nat /\ (ml - MinMatch) + 3 <= ml
    OBVIOUS
  <2> QED
    BY <2>1
<1>3. PICK f \in Nat : f = ExtBytes(m) /\ f <= m + 1
  BY ExtBytesIs, ExtBytesSlow
<1>4. PICK v \in Nat : v = s * (3 + f) /\ s * 3 <= v
  <2>1. 3 + f \in Nat /\ 3 \in Nat /\ 3 <= 3 + f
    OBVIOUS
  <2>2. s * (3 + f) \in Nat /\ s * 3 <= s * (3 + f)
    BY ONLY <2>1, s \in Nat, Times, TimesMore
  <2> QED
    BY <2>2
<1>5. PICK near \in Nat : near = Near(d) /\ near <= h
  BY <1>1 DEF Near
<1>6. ASSUME NEW l PROVE MatchCost(l, ml) \in {s * 3 + t, v + t + p, v + t}
  BY <1>1, <1>2, <1>3, <1>4 DEF MatchCost
<1>7. LongMatchCost(ll, ml) \in {v + t + p, v + t}
  BY <1>1, <1>2, <1>3, <1>4 DEF LongMatchCost
<1>8. PICK z \in {s * 3 + t, v + t + p, v + t} : Cost(ll, ml, d) = near + z
  BY <1>5, <1>6, <1>7 DEF Cost
<1>9. s * 3 \in Nat
  OBVIOUS
<1>10. Cost(ll, ml, d) \in Nat /\ Cost(ll, ml, d) <= v + (t + p + h)
  BY <1>4, <1>5, <1>8, <1>9
<1>11. PICK y \in Nat : y = t + p + h
  OBVIOUS
<1>12. v <= s * (ml * 4) /\ s * (ml * 4) = ml * (4 * s)
  <2>1. 3 + f \in Nat /\ ml * 4 \in Nat /\ 3 + f <= ml * 4
    BY <1>2, <1>3
  <2>2. s * (ml * 4) = ml * (4 * s)
    BY ONLY s \in Nat, ml \in Nat
  <2> QED
    BY ONLY <1>4, <2>1, <2>2, s \in Nat, TimesMore
<1>13. y <= ml * y /\ ml * y \in Nat
  <2>1. y * 1 <= y * ml
    BY ONLY <1>2, ml \in Nat, m \in Nat, y \in Nat, 1 \in Nat, 1 <= ml, TimesMore
  <2>2. y * 1 = y /\ y * ml = ml * y /\ ml * y \in Nat
    BY ONLY ml \in Nat, y \in Nat
  <2> QED
    BY <2>1, <2>2
<1>14. ml * PriceCap = ml * (4 * s) + ml * y /\ ml * (4 * s) \in Nat
  <2>1. PriceCap = 4 * s + y
    BY <1>1, <1>11 DEF PriceCap
  <2> QED
    BY ONLY <2>1, s \in Nat, y \in Nat, ml \in Nat
<1>15. PICK a \in Nat, b \in Nat : a = ml * (4 * s) /\ b = ml * y
  BY <1>13, <1>14
<1> QED
  BY <1>10, <1>11, <1>12, <1>13, <1>14, <1>15

--------------------------------------------------------------------------------
(* A node from the node it was reached from.                                 *)
Literal(k, ns) ==
  [cost |-> ns[k].cost + LitStep(ns[k].ll), ll |-> ns[k].ll + 1, ml |-> 0, dist |-> 0]

Matched(k, ns, c, ml) ==
  [cost |-> ns[k].cost + Cost(ns[k].ll, ml, cands[k][c][2]),
   ll |-> 0, ml |-> ml, dist |-> cands[k][c][2]]

WayTo(k, ns, j, x) ==
  \/ j = k + 1 /\ x = Literal(k, ns)
  \/ \E c \in DOMAIN cands[k] : \E ml \in Tried(cands[k], c) :
       k + ml = j /\ x = Matched(k, ns, c, ml)

StepTo(a, x, k, j) ==
  \/ j = k + 1 /\ x.ml = 0 /\ x.ll = a.ll + 1 /\ x.cost = a.cost + LitStep(a.ll)
  \/ /\ x.ml = j - k /\ x.ml \in Nat /\ x.ml >= MinMatch /\ x.ll = 0
     /\ x.cost = a.cost + Cost(a.ll, x.ml, x.dist)

LEMMA WayToIs ==
  ASSUME WindowParsed, NEW k \in 0 .. w - 1, NEW ns, NodesOK(ns), NEW j \in 0 .. w, NEW x,
         WayTo(k, ns, j, x)
  PROVE  StepTo(ns[k], x, k, j) /\ k < j /\ x.cost \in Nat
         /\ x.cost <= ns[k].cost + (j - k) * PriceCap
<1>1. /\ start \in Nat /\ w \in Nat /\ n \in Nat /\ k \in Nat /\ start + k \in Nat /\ k \in 0 .. w
      /\ Matches(start + k, cands[k])
  BY DEF WindowParsed
<1>2. PICK ll \in Nat, co \in Nat : ll = ns[k].ll /\ co = ns[k].cost
  BY <1>1 DEF NodesOK, NodeIn
<1>3. CASE j = k + 1 /\ x = Literal(k, ns)
  <2>1. x.ml = 0 /\ x.ll = ll + 1 /\ x.cost = co + LitStep(ll)
    BY <1>2, <1>3 DEF Literal
  <2>2. LitStep(ll) \in Nat /\ LitStep(ll) <= PriceCap
    BY LitStepIs, LiteralCap
  <2>3. j - k = 1 /\ k < j
    BY <1>1, <1>3
  <2>4. (j - k) * PriceCap = PriceCap /\ PriceCap \in Nat
    BY <2>3, CapIs
  <2> QED
    BY <1>2, <1>3, <2>1, <2>2, <2>3, <2>4 DEF StepTo
<1>4. CASE \E c \in DOMAIN cands[k] : \E ml \in Tried(cands[k], c) :
             k + ml = j /\ x = Matched(k, ns, c, ml)
  <2>1. PICK c \in DOMAIN cands[k] : \E ml \in Tried(cands[k], c) :
               k + ml = j /\ x = Matched(k, ns, c, ml)
    BY <1>4
  <2>2. PICK ml \in Tried(cands[k], c) : k + ml = j /\ x = Matched(k, ns, c, ml)
    BY <2>1
  <2>3. PICK p, cs : p \in Nat /\ p = start + k /\ cs = cands[k]
    BY <1>1
  <2>4. ml \in Nat /\ ml >= MinMatch /\ ml >= 1
    BY <1>1, <2>1, <2>2, <2>3, TriedIs
  <2>5. PICK d : d = cs[c][2]
    OBVIOUS
  <2>6. x.ml = ml /\ x.ll = 0 /\ x.dist = d /\ x.cost = co + Cost(ll, ml, d)
    BY <1>2, <2>2, <2>3, <2>5 DEF Matched
  <2>7. Cost(ll, ml, d) \in Nat /\ Cost(ll, ml, d) <= ml * PriceCap /\ ml * PriceCap \in Nat
    BY <2>4, MatchCap
  <2>8. j - k = ml /\ k < j
    BY <1>1, <2>2, <2>4
  <2>9. x.cost \in Nat /\ x.cost <= co + ml * PriceCap
    BY <2>6, <2>7
  <2> QED
    BY <1>2, <2>4, <2>6, <2>8, <2>9 DEF StepTo
<1> QED
  BY <1>3, <1>4 DEF WayTo

LEMMA FromTakes ==
  ASSUME WindowParsed, NEW k \in 0 .. w - 1, NEW ns, NodesOK(ns), NEW j \in 0 .. w,
         NEW r, r = From(k, ns)[j]
  PROVE  /\ r = ns[j] \/ WayTo(k, ns, j, r)
         /\ r.cost <= ns[j].cost
         /\ \A x : WayTo(k, ns, j, x) => r.cost <= x.cost
<1> DEFINE ll == ns[k].ll
           lit == [cost |-> ns[k].cost + LitStep(ll), ll |-> ll + 1, ml |-> 0, dist |-> 0]
           Match1(c, ml) == [cost |-> ns[k].cost + Cost(ll, ml, cands[k][c][2]),
                             ll |-> 0, ml |-> ml, dist |-> cands[k][c][2]]
           ways(y) == (IF y = k + 1 THEN {lit} ELSE {}) \cup
                      UNION {{Match1(c, ml) : ml \in {l \in Tried(cands[k], c) : k + l = y}} :
                               c \in DOMAIN cands[k]}
<1>1. From(k, ns) = [y \in DOMAIN ns |->
                       IF \E x \in ways(y) : x.cost < ns[y].cost
                       THEN CHOOSE x \in ways(y) : \A z \in ways(y) : x.cost <= z.cost
                       ELSE ns[y]]
  BY Zenon DEF From
<1>2. ASSUME NEW x PROVE x \in ways(j) <=> WayTo(k, ns, j, x)
  BY DEF WayTo, Literal, Matched
<1>3. DOMAIN ns = 0 .. w /\ ns[j].cost \in Nat
  BY DEF NodesOK, NodeIn
<1> HIDE DEF ways
<1>4. PICK S : S = ways(j)
  OBVIOUS
<1>5. \A x \in S : x.cost \in Nat
  BY <1>2, <1>4, WayToIs
<1>6. CASE \E x \in S : x.cost < ns[j].cost
  <2>1. r = CHOOSE x \in S : \A z \in S : x.cost <= z.cost
    BY <1>1, <1>3, <1>4, <1>6
  <2>2. r \in S /\ \A y \in S : r.cost <= y.cost
    BY <1>5, <1>6, <2>1, CheapestIs
  <2>3. PICK x \in S : x.cost < ns[j].cost
    BY <1>6
  <2>4. r.cost <= ns[j].cost
    <3>1. r.cost \in Nat /\ x.cost \in Nat /\ r.cost <= x.cost
      BY <1>5, <2>2
    <3> QED
      BY ONLY <1>3, <2>3, <3>1
  <2> QED
    BY <1>2, <1>4, <2>2, <2>4
<1>7. CASE ~ \E x \in S : x.cost < ns[j].cost
  <2>1. r = ns[j]
    BY <1>1, <1>3, <1>4, <1>7
  <2>2. ASSUME NEW x \in S PROVE r.cost <= x.cost
    <3>1. x.cost \in Nat /\ ~(x.cost < ns[j].cost)
      BY <1>5, <1>7
    <3> QED
      BY <1>3, <2>1, <3>1
  <2> QED
    BY <1>2, <1>3, <1>4, <2>1, <2>2
<1> QED
  BY <1>6, <1>7

(* The ways that are sure to be tried: the next position, and the end of the *)
(* longest candidate. A position that is not hidden is at one of them.       *)
Leads(k, j) ==
  \/ j = k + 1
  \/ cands[k] # <<>> /\ j = k + cands[k][Len(cands[k])][1]

HiddenOK ==
  /\ hidden \subseteq 1 .. i - 1
  /\ \A j \in 1 .. i : j \notin hidden => \E k \in 0 .. j - 1 : k \notin hidden /\ Leads(k, j)

LEMMA LeadsIs ==
  ASSUME WindowParsed, NEW k \in 0 .. w - 1, Rising(cands[k]), NEW j, Leads(k, j), NEW ns
  PROVE  \E x : WayTo(k, ns, j, x)
<1>1. CASE j = k + 1
  BY <1>1 DEF WayTo
<1>2. CASE cands[k] # <<>> /\ j = k + cands[k][Len(cands[k])][1]
  <2>1. PICK cs \in Seq(Nat \X Nat) :
          cs = cands[k] /\ \A z \in 1 .. Len(cs) : MatchAt(start + k, cs[z])
    BY DEF WindowParsed, Matches
  <2>2. PICK c \in 1 .. Len(cs) : c = Len(cs)
    BY <1>2, <2>1
  <2>3. c \in DOMAIN cs /\ cs[c] \in Nat \X Nat /\ cs[c][1] \in Nat /\ cs[c][1] >= MinMatch
    BY <2>1, <2>2 DEF MatchAt
  <2>4. PICK ml \in Nat : ml = cs[c][1]
    BY <2>3
  <2>9. PICK prev : prev = IF c = 1 THEN MinMatch - 1 ELSE cs[c - 1][1]
    OBVIOUS
  <2>5. prev \in Int /\ prev < ml
    <3>1. CASE c = 1
      <4>1. prev = MinMatch - 1
        BY <2>9, <3>1
      <4> QED
        BY <2>3, <2>4, <4>1
    <3>2. CASE c # 1
      <4>1. c \in 2 .. Len(cs) /\ c - 1 \in 1 .. Len(cs)
        BY <2>2, <3>2
      <4>2. cs[c - 1][1] < cs[c][1] /\ cs[c - 1] \in Nat \X Nat
        <5>1. Rising(cs)
          BY <2>1
        <5>2. cs[c - 1][1] < cs[c][1]
          BY <4>1, <5>1 DEF Rising
        <5>3. cs[c - 1] \in Nat \X Nat
          BY ONLY <4>1, cs \in Seq(Nat \X Nat)
        <5> QED
          BY <5>2, <5>3
      <4>3. cs[c - 1][1] \in Int
        BY <4>2
      <4>4. prev = cs[c - 1][1]
        BY <2>9, <3>2
      <4> QED
        BY <2>4, <4>2, <4>3, <4>4
    <3> QED
      BY <3>1, <3>2
  <2>6. ml \in Tried(cs, c)
    <3>1. ml \in prev + 1 .. ml
      BY ONLY <2>5, ml \in Nat, prev \in Int
    <3>2. Tried(cs, c) = {l \in prev + 1 .. ml : l <= SubLen \/ l = ml}
      BY <2>4, <2>9 DEF Tried
    <3> QED
      BY <3>1, <3>2
  <2>7. k + ml = j
    BY <1>2, <2>1, <2>2, <2>4
  <2>8. WayTo(k, ns, j, Matched(k, ns, c, ml))
    BY <2>1, <2>3, <2>6, <2>7 DEF WayTo
  <2> QED
    BY <2>8
<1> QED
  BY <1>1, <1>2 DEF Leads

(* The nodes after the first m positions.                                    *)
StepsBack(m, ns) ==
  \A j \in 1 .. w :
    \/ ns[j].cost = Inf
    \/ \E k \in 0 .. j - 1 : k < m /\ k \notin hidden /\ StepTo(ns[k], ns[j], k, j)

Capped(m, ns) ==
  \A j \in 1 .. w : \A k \in 0 .. j - 1 :
    k < m /\ k \notin hidden /\ Leads(k, j) => ns[j].cost <= j * PriceCap

PricedUpTo(m, ns) ==
  /\ ns[0].cost = 0 /\ ns[0].ll = start - anchor
  /\ StepsBack(m, ns)
  /\ Capped(m, ns)

LEMMA FirstPriced == ASSUME w \in Nat PROVE PricedUpTo(0, FirstNodes)
<1>1. ASSUME NEW j \in 0 .. w
      PROVE  FirstNodes[j] = [cost |-> IF j = 0 THEN 0 ELSE Inf,
                              ll |-> IF j = 0 THEN start - anchor ELSE 0, ml |-> 0, dist |-> 0]
  BY DEF FirstNodes
<1>2. FirstNodes[0].cost = 0 /\ FirstNodes[0].ll = start - anchor
  <2>1. 0 \in 0 .. w
    OBVIOUS
  <2> QED
    <3>1. FirstNodes[0] = [cost |-> 0, ll |-> start - anchor, ml |-> 0, dist |-> 0]
      BY <1>1, <2>1
    <3> QED
      BY <3>1
<1>3. ASSUME NEW j \in 1 .. w PROVE FirstNodes[j].cost = Inf
  <2>1. j \in 0 .. w /\ j # 0
    OBVIOUS
  <2>2. FirstNodes[j] = [cost |-> Inf, ll |-> 0, ml |-> 0, dist |-> 0]
    BY <1>1, <2>1
  <2> QED
    BY <2>2
<1>4. StepsBack(0, FirstNodes)
  BY <1>3 DEF StepsBack
<1>5. Capped(0, FirstNodes)
  BY DEF Capped
<1> QED
  BY <1>2, <1>4, <1>5 DEF PricedUpTo

LEMMA HiddenPriced ==
  ASSUME NEW m \in Nat, NEW ns, PricedUpTo(m, ns), m \in hidden
  PROVE  PricedUpTo(m + 1, ns)
<1>1. ASSUME NEW k \in Nat, k < m + 1, k \notin hidden PROVE k < m
  BY <1>1
<1>2. StepsBack(m + 1, ns)
  <2>1. \A k \in Nat : k < m => k < m + 1
    OBVIOUS
  <2> QED
    BY <2>1 DEF PricedUpTo, StepsBack
<1>3. Capped(m + 1, ns)
  <2>1. ASSUME NEW j \in 1 .. w, NEW k \in 0 .. j - 1, k < m + 1, k \notin hidden PROVE k < m
    BY <1>1, <2>1
  <2> QED
    BY <2>1 DEF PricedUpTo, Capped
<1> QED
  BY <1>2, <1>3 DEF PricedUpTo

(* What is reached in the window costs less than High(Int32).                *)
LEMMA LeadsCapped ==
  ASSUME WindowParsed, NEW m \in 0 .. w, NEW ns, NodesOK(ns), PricedUpTo(m, ns), m \notin hidden,
         m > 0 => \E k \in 0 .. m - 1 : k \notin hidden /\ Leads(k, m)
  PROVE  ns[m].cost \in Nat /\ ns[m].cost <= m * PriceCap
<1>1. ns[m].cost \in Nat
  BY DEF NodesOK, NodeIn
<1>2. CASE m = 0
  <2>1. 0 * PriceCap = 0
    BY CapIs
  <2> QED
    BY <1>1, <1>2, <2>1 DEF PricedUpTo
<1>3. CASE m > 0
  <2>1. PICK k \in 0 .. m - 1 : k \notin hidden /\ Leads(k, m)
    BY <1>3
  <2>2. m \in 1 .. w /\ k < m
    BY <1>3 DEF WindowParsed
  <2> QED
    BY <1>1, <2>1, <2>2 DEF PricedUpTo, Capped
<1> QED
  BY <1>2, <1>3

LEMMA FromPriced ==
  ASSUME WindowParsed, NEW m \in 0 .. w - 1, NEW ns, NodesOK(ns), PricedUpTo(m, ns), m \notin hidden,
         Rising(cands[m]), m > 0 => \E k \in 0 .. m - 1 : k \notin hidden /\ Leads(k, m)
  PROVE  PricedUpTo(m + 1, From(m, ns))
<1>1. PICK r : r = From(m, ns)
  OBVIOUS
<1>2. w \in Nat /\ m \in Nat /\ m < w /\ m \in 0 .. w
  BY DEF WindowParsed
<1>3. NodesOK(r)
  BY <1>1, FromOK
<1>4. \A j \in 0 .. w : ns[j].cost \in Nat /\ r[j].cost \in Nat
  BY <1>3 DEF NodesOK, NodeIn
<1>5. ASSUME NEW j \in 0 .. w
      PROVE  /\ r[j] = ns[j] \/ (j > m /\ StepTo(ns[m], r[j], m, j))
             /\ r[j].cost <= ns[j].cost
  <2>1. /\ r[j] = ns[j] \/ WayTo(m, ns, j, r[j])
        /\ r[j].cost <= ns[j].cost
    BY <1>1, FromTakes
  <2> QED
    BY <1>2, <2>1, WayToIs
<1>6. ASSUME NEW j \in 0 .. m PROVE r[j] = ns[j]
  <2>1. j \in 0 .. w /\ ~(j > m)
    BY <1>2
  <2> QED
    BY <1>5, <2>1
<1>7. StepsBack(m + 1, r)
  <2> SUFFICES ASSUME NEW j \in 1 .. w, r[j].cost # Inf
               PROVE  \E k \in 0 .. j - 1 : k < m + 1 /\ k \notin hidden /\ StepTo(r[k], r[j], k, j)
    BY DEF StepsBack
  <2>1. j \in 0 .. w
    BY <1>2
  <2>2. CASE r[j] = ns[j]
    <3>1. PICK k \in 0 .. j - 1 : k < m /\ k \notin hidden /\ StepTo(ns[k], ns[j], k, j)
      BY <2>2 DEF PricedUpTo, StepsBack
    <3>2. k \in 0 .. m /\ k < m + 1
      BY <1>2, <3>1
    <3> QED
      BY <1>6, <2>2, <3>1, <3>2
  <2>3. CASE j > m /\ StepTo(ns[m], r[j], m, j)
    <3>1. m \in 0 .. j - 1 /\ m < m + 1 /\ m \in 0 .. m
      BY <1>2, <2>3
    <3> QED
      BY <1>6, <2>3, <3>1
  <2> QED
    BY <1>5, <2>1, <2>2, <2>3
<1>8. Capped(m + 1, r)
  <2> SUFFICES ASSUME NEW j \in 1 .. w, NEW k \in 0 .. j - 1, k < m + 1, k \notin hidden, Leads(k, j)
               PROVE  r[j].cost <= j * PriceCap
    BY DEF Capped
  <2>1. j \in 0 .. w /\ j \in Nat /\ j * PriceCap \in Nat
    <3>1. j \in 0 .. w /\ j \in Nat
      BY <1>2
    <3> QED
      BY <3>1, CapIs, Times
  <2>2. CASE k < m
    <3>1. ns[j].cost <= j * PriceCap
      BY <2>2 DEF PricedUpTo, Capped
    <3>2. r[j].cost <= ns[j].cost /\ r[j].cost \in Nat /\ ns[j].cost \in Nat
      BY <1>4, <1>5, <2>1
    <3> QED
      BY ONLY <2>1, <3>1, <3>2
  <2>3. CASE k = m
    <3>1. PICK x : WayTo(m, ns, j, x)
      BY <2>3, LeadsIs
    <3>2. x.cost \in Nat /\ x.cost <= ns[m].cost + (j - m) * PriceCap
      BY <2>1, <3>1, WayToIs
    <3>3. r[j].cost <= x.cost
      BY <1>1, <2>1, <3>1, FromTakes
    <3>4. ns[m].cost \in Nat /\ ns[m].cost <= m * PriceCap
      BY <1>2, LeadsCapped
    <3>5. PICK c \in Nat : c = PriceCap
      BY CapIs
    <3>6. PICK d \in Nat : d = j - m /\ j = m + d
      BY <2>1, <2>3
    <3>7. j * c = m * c + d * c /\ m * c \in Nat /\ d * c \in Nat
      BY ONLY <3>6, c \in Nat, d \in Nat, m \in Nat
    <3>8. PICK u \in Nat, v \in Nat : u = m * c /\ v = d * c
      BY <3>7
    <3>9. PICK y \in Nat, z \in Nat, q \in Nat : y = x.cost /\ z = ns[m].cost /\ q = r[j].cost
      BY <1>4, <2>1, <3>2, <3>4
    <3>10. y <= z + v /\ q <= y /\ z <= u /\ j * c = u + v
      BY <3>2, <3>3, <3>4, <3>5, <3>6, <3>7, <3>8, <3>9
    <3>11. q <= u + v
      BY ONLY <3>10, y \in Nat, z \in Nat, q \in Nat, u \in Nat, v \in Nat
    <3> QED
      BY <3>5, <3>9, <3>10, <3>11
  <2> QED
    BY <1>2, <2>2, <2>3
<1>9. r[0].cost = 0 /\ r[0].ll = start - anchor
  <2>1. r[0] = ns[0]
    BY <1>2, <1>6
  <2> QED
    BY <2>1 DEF PricedUpTo
<1> QED
  BY <1>1, <1>7, <1>8, <1>9 DEF PricedUpTo

(* All positions are priced that a way can lead through.                     *)
WindowFound ==
  /\ WindowParsed /\ w <= OptWindow /\ i = w /\ HiddenOK
  /\ \A k \in 0 .. w - 1 : Rising(cands[k])

LEMMA AllPriced ==
  ASSUME WindowFound
  PROVE  NodesOK(Priced) /\ PricedUpTo(w, Priced)
<1> DEFINE f == CHOOSE g : g = [k \in 0 .. w |->
                                  IF k = 0 THEN FirstNodes
                                  ELSE IF k - 1 \in hidden THEN g[k - 1] ELSE From(k - 1, g[k - 1])]
<1>1. WindowParsed /\ w \in Nat /\ i = w
  BY DEF WindowFound, WindowParsed
<1>2. PricedTo(w, f)
  <2>1. \E g : PricedTo(w, g)
    BY <1>1, PricedExists
  <2> QED
    BY <2>1 DEF PricedTo
<1>3. Priced = f[w]
  BY DEF Priced
<1> HIDE DEF f
<1> DEFINE T == {k \in 0 .. w : ~(NodesOK(f[k]) /\ PricedUpTo(k, f[k]))}
<1>4. T = {}
  <2> SUFFICES ASSUME T # {} PROVE FALSE
    OBVIOUS
  <2>1. PICK k \in T : \A y \in T : ~(y < k)
    <3>1. T \subseteq Nat
      OBVIOUS
    <3> HIDE DEF T
    <3> QED
      BY <3>1, LeastNat
  <2>2. k \in 0 .. w /\ ~(NodesOK(f[k]) /\ PricedUpTo(k, f[k]))
    BY <2>1
  <2>3. f[k] = IF k = 0 THEN FirstNodes
               ELSE IF k - 1 \in hidden THEN f[k - 1] ELSE From(k - 1, f[k - 1])
    BY <1>2, <2>2 DEF PricedTo
  <2>4. k # 0
    BY <1>1, <2>2, <2>3, FirstNodesOK, FirstPriced
  <2>5. PICK m \in 0 .. w - 1 : m = k - 1 /\ m \in 0 .. w /\ m < k /\ m + 1 = k /\ m \in Nat
    BY <1>1, <2>2, <2>4
  <2>6. NodesOK(f[m]) /\ PricedUpTo(m, f[m])
    BY <2>1, <2>5
  <2>7. CASE m \in hidden
    <3>1. f[k] = f[m]
      BY <2>3, <2>4, <2>5, <2>7
    <3>2. PricedUpTo(m + 1, f[m])
      BY <2>5, <2>6, <2>7, HiddenPriced
    <3> QED
      BY <2>2, <2>5, <2>6, <3>1, <3>2
  <2>8. CASE m \notin hidden
    <3>1. f[k] = From(m, f[m])
      BY <2>3, <2>4, <2>5, <2>8
    <3>2. m > 0 => \E z \in 0 .. m - 1 : z \notin hidden /\ Leads(z, m)
      <4>1. m > 0 => m \in 1 .. i
        BY <1>1, <2>5
      <4> QED
        BY <2>8, <4>1 DEF WindowFound, HiddenOK
    <3>3. Rising(cands[m])
      BY <2>5 DEF WindowFound
    <3>4. NodesOK(From(m, f[m])) /\ PricedUpTo(m + 1, From(m, f[m]))
      BY <1>1, <2>5, <2>6, <2>8, <3>2, <3>3, FromOK, FromPriced
    <3> QED
      BY <2>2, <2>5, <3>1, <3>4
  <2> QED
    BY <2>7, <2>8
<1>5. w \in 0 .. w
  BY <1>1
<1> QED
  BY <1>3, <1>4, <1>5

LEMMA ReachedCosts ==
  ASSUME WindowFound, NodesOK(nodes), PricedUpTo(w, nodes), NEW j \in 0 .. w, j \notin hidden
  PROVE  nodes[j].cost < Inf
<1>1. w \in Nat /\ i = w /\ w <= OptWindow /\ OptWindow \in Nat
  BY OptNumbers DEF WindowFound, WindowParsed
<1>2. nodes[j].cost \in Nat
  BY DEF NodesOK, NodeIn
<1>3. nodes[j].cost <= j * PriceCap
  <2>1. CASE j = 0
    <3>1. 0 * PriceCap = 0
      BY CapIs
    <3> QED
      BY <2>1, <3>1 DEF PricedUpTo
  <2>2. CASE j # 0
    <3>1. j \in 1 .. i
      BY <1>1, <2>2
    <3>2. PICK k \in 0 .. j - 1 : k \notin hidden /\ Leads(k, j)
      BY <3>1 DEF WindowFound, HiddenOK
    <3>3. k < w /\ j \in 1 .. w
      BY <1>1, <3>1
    <3> QED
      BY <3>2, <3>3 DEF PricedUpTo, Capped
  <2> QED
    BY <2>1, <2>2
<1>4. j * PriceCap <= OptWindow * PriceCap /\ j * PriceCap \in Nat /\ OptWindow * PriceCap \in Nat
  <2>1. PICK c \in Nat, o \in Nat, z \in Nat : c = PriceCap /\ o = OptWindow /\ z = j /\ z <= o
    BY <1>1, CapIs
  <2>2. c * z <= c * o
    BY <2>1, TimesMore
  <2>3. c * z = z * c /\ c * o = o * c /\ z * c \in Nat /\ o * c \in Nat
    BY ONLY c \in Nat, o \in Nat, z \in Nat
  <2> QED
    BY <2>1, <2>2, <2>3
<1>5. PICK x \in Nat, y \in Nat, v \in Nat, u \in Nat :
        x = nodes[j].cost /\ y = j * PriceCap /\ v = OptWindow * PriceCap /\ u = Inf
  BY <1>2, <1>4, CapIs
<1>6. x <= y /\ y <= v /\ v < u
  BY <1>3, <1>4, <1>5, CapIs
<1> QED
  BY <1>5, <1>6

--------------------------------------------------------------------------------
(* A way with a sequence more: what is written, and what is counted.         *)
WritesOn(b, e, r) ==
  /\ Written(r).out = EmitSequence(b.out, b.anchor, e[1], e[3], e[2])
  /\ Written(r).anchor = e[1] + e[2]

LEMMA WrittenMore ==
  ASSUME NEW S, NEW q \in Seq(S), NEW e \in S, NEW b, b = Written(q)
  PROVE  WritesOn(b, e, Append(q, e))
<1>0. PICK r : r = Append(q, e)
  OBVIOUS
<1>1. PICK l \in Nat : l = Len(q) /\ r = Append(q, e)
  BY <1>0
<1>2. Len(r) = l + 1 /\ Len(r) \in Nat /\ r[l + 1] = e /\ \A k \in 1 .. l : r[k] = q[k]
  BY <1>1
<1> DEFINE f == CHOOSE g : g =
                 [k \in 0 .. Len(r) |->
                    IF k = 0 THEN [out |-> out, anchor |-> anchor]
                    ELSE LET c == g[k - 1]
                             s == r[k]
                         IN  [out    |-> EmitSequence(c.out, c.anchor, s[1], s[3], s[2]),
                              anchor |-> s[1] + s[2]]]
           h == CHOOSE g : g =
                 [k \in 0 .. Len(q) |->
                    IF k = 0 THEN [out |-> out, anchor |-> anchor]
                    ELSE LET c == g[k - 1]
                             s == q[k]
                         IN  [out    |-> EmitSequence(c.out, c.anchor, s[1], s[3], s[2]),
                              anchor |-> s[1] + s[2]]]
<1>3. WrittenTo(r, l + 1, f)
  <2>1. \E g : WrittenTo(r, Len(r), g)
    BY <1>2, WrittenExists
  <2>2. WrittenTo(r, Len(r), f)
    BY <2>1, Zenon DEF WrittenTo
  <2> QED
    BY <1>2, <2>2
<1>4. WrittenTo(q, l, h)
  <2>1. \E g : WrittenTo(q, Len(q), g)
    BY <1>1, WrittenExists
  <2>2. WrittenTo(q, Len(q), h)
    BY <2>1, Zenon DEF WrittenTo
  <2> QED
    BY <1>1, <2>2
<1>5. Written(r) = f[l + 1] /\ b = h[l]
  <2>1. Written(r) = f[Len(r)] /\ Written(q) = h[Len(q)]
    BY DEF Written
  <2> QED
    BY <1>1, <1>2, <2>1
<1> HIDE DEF f, h
<1> DEFINE next(c, s) == [out    |-> EmitSequence(c.out, c.anchor, s[1], s[3], s[2]),
                          anchor |-> s[1] + s[2]]
<1>6. \A k \in 0 .. l + 1 : f[k] = IF k = 0 THEN [out |-> out, anchor |-> anchor]
                                   ELSE next(f[k - 1], r[k])
  BY <1>3 DEF WrittenTo
<1>7. \A k \in 0 .. l : h[k] = IF k = 0 THEN [out |-> out, anchor |-> anchor]
                               ELSE next(h[k - 1], q[k])
  BY <1>4 DEF WrittenTo
<1> HIDE DEF next
<1> DEFINE T == {k \in 0 .. l : f[k] # h[k]}
<1>8. T = {}
  <2> SUFFICES ASSUME T # {} PROVE FALSE
    OBVIOUS
  <2>1. PICK k \in T : \A y \in T : ~(y < k)
    <3>1. T \subseteq Nat
      OBVIOUS
    <3> HIDE DEF T
    <3> QED
      BY <3>1, LeastNat
  <2>2. k \in 0 .. l /\ k \in 0 .. l + 1 /\ f[k] # h[k]
    BY <2>1
  <2>3. CASE k = 0
    BY <1>6, <1>7, <2>2, <2>3
  <2>4. CASE k # 0
    <3>1. k - 1 \in 0 .. l /\ k - 1 < k /\ k \in 1 .. l
      BY <2>2, <2>4
    <3>2. f[k - 1] = h[k - 1]
      BY <2>1, <3>1
    <3>3. r[k] = q[k]
      BY <1>2, <3>1
    <3> QED
      BY <1>6, <1>7, <2>2, <2>4, <3>2, <3>3
  <2> QED
    BY <2>3, <2>4
<1>9. f[l + 1] = next(b, e)
  <2>1. l + 1 \in 0 .. l + 1 /\ l + 1 # 0 /\ (l + 1) - 1 = l /\ l \in 0 .. l
    OBVIOUS
  <2>2. f[l] = b
    BY <1>5, <1>8, <2>1
  <2> QED
    BY <1>2, <1>6, <2>1, <2>2
<1>10. next(b, e).out = EmitSequence(b.out, b.anchor, e[1], e[3], e[2])
       /\ next(b, e).anchor = e[1] + e[2]
  BY DEF next
<1> QED
  BY <1>1, <1>5, <1>9, <1>10 DEF WritesOn

(* What PriceIsSize counts of a way: what its matches cover, and the near.   *)
CoveredBy(q) == UNION {q[k][1] .. q[k][1] + q[k][2] - 1 : k \in DOMAIN q}
NearIn(q) == {k \in DOMAIN q : q[k][3] < NearDist}

(* A place more in a set of places up to l.                                  *)
LEMMA OneMore ==
  ASSUME NEW l \in Nat, NEW A, A \subseteq 1 .. l
  PROVE  Cardinality(A) \in Nat /\ Cardinality(A \cup {l + 1}) = Cardinality(A) + 1
<1>1. IsFiniteSet(A)
  <2>1. IsFiniteSet(1 .. l)
    BY FS_Interval
  <2> QED
    BY <2>1, FS_Subset
<1>2. Cardinality(A) \in Nat
  BY <1>1, FS_CardinalityType
<1>3. l + 1 \notin A
  OBVIOUS
<1>4. Cardinality(A \cup {l + 1}) = Cardinality(A) + 1
  BY <1>1, <1>3, FS_AddElement
<1> QED
  BY <1>2, <1>4

LEMMA CoveredFinite ==
  ASSUME NEW q, NEW hi \in Nat, Way(q, hi)
  PROVE  IsFiniteSet(CoveredBy(q)) /\ CoveredBy(q) \subseteq 0 .. hi - 1
<1>1. q \in Seq(Nat \X Nat \X Nat) /\ Len(q) \in Nat /\ DOMAIN q = 1 .. Len(q)
  BY DEF Way
<1>2. ASSUME NEW x \in CoveredBy(q) PROVE x \in 0 .. hi - 1
  <2>1. PICK k \in 1 .. Len(q) : x \in q[k][1] .. q[k][1] + q[k][2] - 1
    BY <1>1 DEF CoveredBy
  <2>2. EntryOK(q[k]) /\ q[k][1] + q[k][2] <= hi
    BY DEF Way
  <2>3. PICK a \in Nat, b \in Nat : a = q[k][1] /\ b = q[k][2]
    BY <2>2 DEF EntryOK
  <2>4. x \in a .. a + b - 1 /\ a + b <= hi
    BY <2>1, <2>2, <2>3
  <2> QED
    BY ONLY <2>4, a \in Nat, b \in Nat, hi \in Nat
<1>3. CoveredBy(q) \subseteq 0 .. hi - 1
  BY <1>2
<1>4. IsFiniteSet(0 .. hi - 1)
  <2>1. 0 \in Int /\ hi - 1 \in Int
    OBVIOUS
  <2> QED
    BY <2>1, FS_Interval
<1> QED
  BY <1>3, <1>4, FS_Subset

(* The counts of a way with a sequence more.                                 *)
LastEnd(q) == IF Len(q) = 0 THEN anchor ELSE q[Len(q)][1] + q[Len(q)][2]

CountsOn(q, p, ln, d, r) ==
  /\ Cardinality(CoveredBy(q)) \in Nat
  /\ Cardinality(CoveredBy(r)) = Cardinality(CoveredBy(q)) + ln
  /\ Cardinality(Escapes(q)) \in Nat
  /\ Cardinality(Escapes(r)) = Cardinality(Escapes(q))
       + (IF ExactCode(p - LastEnd(q), ln - MinMatch) = Base THEN 1 ELSE 0)
  /\ Cardinality(NearIn(q)) \in Nat
  /\ Cardinality(NearIn(r)) = Cardinality(NearIn(q)) + (IF d < NearDist THEN 1 ELSE 0)
  /\ Len(q) \in Nat /\ Len(r) = Len(q) + 1

LEMMA CountsMore ==
  ASSUME NEW q, NEW p \in Nat, Way(q, p), NEW ln \in Nat, ln >= 1, NEW d \in Nat,
         NEW e, e = <<p, ln, d>>, NEW r, r = Append(q, e)
  PROVE  CountsOn(q, p, ln, d, r)
<1>1. e \in Nat \X Nat \X Nat /\ e[1] = p /\ e[2] = ln /\ e[3] = d
  OBVIOUS
<1>2. PICK l \in Nat : l = Len(q) /\ q \in Seq(Nat \X Nat \X Nat)
  BY DEF Way
<1>3. /\ Len(r) = l + 1 /\ r[l + 1] = e /\ \A k \in 1 .. l : r[k] = q[k]
      /\ DOMAIN q = 1 .. l /\ DOMAIN r = 1 .. l + 1
  BY <1>1, <1>2
<1>4. \A k : k \in 1 .. l + 1 <=> k \in 1 .. l \/ k = l + 1
  OBVIOUS
<1>5. CoveredBy(r) = CoveredBy(q) \cup (p .. p + ln - 1)
  <2>1. ASSUME NEW x
        PROVE  x \in CoveredBy(r) <=> x \in CoveredBy(q) \/ x \in p .. p + ln - 1
    <3>1. x \in CoveredBy(r) <=> \E k \in 1 .. l + 1 : x \in r[k][1] .. r[k][1] + r[k][2] - 1
      BY <1>3 DEF CoveredBy
    <3>2. x \in CoveredBy(q) <=> \E k \in 1 .. l : x \in q[k][1] .. q[k][1] + q[k][2] - 1
      BY <1>3 DEF CoveredBy
    <3>3. r[l + 1][1] = p /\ r[l + 1][2] = ln
      BY <1>1, <1>3
    <3> QED
      BY <1>3, <1>4, <3>1, <3>2, <3>3
  <2> QED
    BY <2>1
<1>6. Cardinality(CoveredBy(q)) \in Nat /\ Cardinality(CoveredBy(r)) = Cardinality(CoveredBy(q)) + ln
  <2>1. PICK A, B : A = CoveredBy(q) /\ B = p .. p + ln - 1
    OBVIOUS
  <2>2. IsFiniteSet(A) /\ A \subseteq 0 .. p - 1
    BY <2>1, CoveredFinite
  <2>3. IsFiniteSet(B) /\ Cardinality(B) = ln
    <3>1. p \in Int /\ p + ln - 1 \in Int /\ ~(p > p + ln - 1) /\ (p + ln - 1) - p + 1 = ln
      OBVIOUS
    <3> QED
      BY <2>1, <3>1, FS_Interval
  <2>4. A \cap B = {}
    BY <2>1, <2>2
  <2>5. PICK a \in Nat : a = Cardinality(A)
    BY <2>2, FS_CardinalityType
  <2>6. Cardinality(A \cup B) = Cardinality(A) + Cardinality(B) - Cardinality(A \cap B)
    BY <2>2, <2>3, FS_Union
  <2>7. Cardinality(A \cap B) = 0
    BY <2>4, FS_EmptySet
  <2>8. Cardinality(A \cup B) = a + ln
    BY <2>3, <2>5, <2>6, <2>7
  <2> QED
    BY <1>5, <2>1, <2>5, <2>8
<1>7. PICK c \in BOOLEAN : c <=> ExactCode(p - LastEnd(q), ln - MinMatch) = Base
  OBVIOUS
<1>8. Escapes(q) \subseteq 1 .. l
  BY <1>3 DEF Escapes
<1>9. Escapes(r) = IF c THEN Escapes(q) \cup {l + 1} ELSE Escapes(q)
  <2>1. ASSUME NEW k \in 1 .. l PROVE k \in Escapes(r) <=> k \in Escapes(q)
    <3>1. r[k] = q[k] /\ k \in DOMAIN q /\ k \in DOMAIN r
      BY <1>3, <1>4
    <3>2. k = 1 \/ r[k - 1] = q[k - 1]
      <4>1. k = 1 \/ k - 1 \in 1 .. l
        OBVIOUS
      <4> QED
        BY <1>3, <4>1
    <3> QED
      BY <3>1, <3>2 DEF Escapes
  <2>2. l + 1 \in Escapes(r) <=> c
    <3>1. l + 1 \in DOMAIN r /\ r[l + 1][1] = p /\ r[l + 1][2] = ln
      BY <1>1, <1>3, <1>4
    <3>2. LastEnd(q) = IF l + 1 = 1 THEN anchor ELSE r[(l + 1) - 1][1] + r[(l + 1) - 1][2]
      <4>1. (l + 1 = 1 <=> l = 0) /\ (l + 1) - 1 = l /\ (l # 0 => l \in 1 .. l)
        OBVIOUS
      <4> QED
        BY <1>2, <1>3, <4>1 DEF LastEnd
    <3> QED
      BY <1>7, <3>1, <3>2 DEF Escapes
  <2>3. \A k : k \in Escapes(r) => k \in 1 .. l \/ k = l + 1
    BY <1>3, <1>4 DEF Escapes
  <2>4. CASE c
    <3>1. \A k : k \in Escapes(r) <=> k \in Escapes(q) \/ k = l + 1
      BY ONLY <1>8, <2>1, <2>2, <2>3, <2>4
    <3> QED
      BY <2>4, <3>1
  <2>5. CASE ~c
    <3>1. \A k : k \in Escapes(r) <=> k \in Escapes(q)
      BY ONLY <1>8, <2>1, <2>2, <2>3, <2>5
    <3> QED
      BY <2>5, <3>1
  <2> QED
    BY <2>4, <2>5
<1>10. /\ Cardinality(Escapes(q)) \in Nat
       /\ Cardinality(Escapes(r)) = Cardinality(Escapes(q)) + (IF c THEN 1 ELSE 0)
  <2>1. PICK a \in Nat : a = Cardinality(Escapes(q)) /\ Cardinality(Escapes(q) \cup {l + 1}) = a + 1
    BY <1>8, OneMore
  <2>2. CASE c
    BY <1>9, <2>1, <2>2
  <2>3. CASE ~c
    BY <1>9, <2>1, <2>3
  <2> QED
    BY <2>2, <2>3
<1>11. PICK g \in BOOLEAN : g <=> d < NearDist
  OBVIOUS
<1>12. NearIn(q) \subseteq 1 .. l
  BY <1>3 DEF NearIn
<1>13. NearIn(r) = IF g THEN NearIn(q) \cup {l + 1} ELSE NearIn(q)
  <2>1. ASSUME NEW k \in 1 .. l PROVE k \in NearIn(r) <=> k \in NearIn(q)
    <3>1. r[k] = q[k] /\ k \in DOMAIN q /\ k \in DOMAIN r
      BY <1>3, <1>4
    <3> QED
      BY <3>1 DEF NearIn
  <2>2. l + 1 \in NearIn(r) <=> g
    <3>1. l + 1 \in DOMAIN r /\ r[l + 1][3] = d
      BY <1>1, <1>3, <1>4
    <3> QED
      BY <1>11, <3>1 DEF NearIn
  <2>3. \A k : k \in NearIn(r) => k \in 1 .. l \/ k = l + 1
    BY <1>3, <1>4 DEF NearIn
  <2>4. CASE g
    <3>1. \A k : k \in NearIn(r) <=> k \in NearIn(q) \/ k = l + 1
      BY ONLY <1>12, <2>1, <2>2, <2>3, <2>4
    <3> QED
      BY <2>4, <3>1
  <2>5. CASE ~g
    <3>1. \A k : k \in NearIn(r) <=> k \in NearIn(q)
      BY ONLY <1>12, <2>1, <2>2, <2>3, <2>5
    <3> QED
      BY <2>5, <3>1
  <2> QED
    BY <2>4, <2>5
<1>14. /\ Cardinality(NearIn(q)) \in Nat
       /\ Cardinality(NearIn(r)) = Cardinality(NearIn(q)) + (IF g THEN 1 ELSE 0)
  <2>1. PICK a \in Nat : a = Cardinality(NearIn(q)) /\ Cardinality(NearIn(q) \cup {l + 1}) = a + 1
    BY <1>12, OneMore
  <2>2. CASE g
    BY <1>13, <2>1, <2>2
  <2>3. CASE ~g
    BY <1>13, <2>1, <2>3
  <2> QED
    BY <2>2, <2>3
<1> QED
  BY <1>2, <1>3, <1>6, <1>7, <1>10, <1>11, <1>14 DEF CountsOn

--------------------------------------------------------------------------------
(* A node's price is what the way to it has cost.                            *)
Paid(q, b, j) ==
  Scale * (Len(b.out.ctrl) - Len(out.ctrl) + j - Cardinality(CoveredBy(q)))
  + PSeq * Len(q) + PEsc * Cardinality(Escapes(q)) + PShort * Cardinality(NearIn(q))
  + PendingCost(start + j - b.anchor)

Accounted(j, x, q) ==
  LET b == Written(q) IN
  /\ b.anchor \in Nat /\ b.anchor <= start + j
  /\ x.ll = start + j - b.anchor
  /\ x.cost + PendingCost(start - anchor) = Paid(q, b, j)

(* What a way that is written starts from.                                   *)
Counted(q, b) ==
  /\ Len(b.out.ctrl) \in Nat /\ Len(out.ctrl) \in Nat /\ Len(q) \in Nat
  /\ Cardinality(CoveredBy(q)) \in Nat /\ Cardinality(Escapes(q)) \in Nat
  /\ Cardinality(NearIn(q)) \in Nat

LEMMA CountedIs ==
  ASSUME WindowParsed, Codes, NEW q, NEW hi \in Nat, Way(q, hi)
  PROVE  Counted(q, Written(q)) /\ Written(q).anchor = LastEnd(q)
         /\ Written(q).out.ctrl \in Seq(Nat)
<1>1. WrittenOK(q, Len(q), Written(q))
  BY WrittenIs DEF Codes
<1>2. CodesUpTo(src, Written(q).out, Written(q).anchor) /\ Written(q).anchor = LastEnd(q)
  BY <1>1 DEF WrittenOK, LastEnd
<1>3. Written(q).out.ctrl \in Seq(Nat) /\ out.ctrl \in Seq(Nat)
  BY <1>2 DEF CodesUpTo, Streams, Codes
<1>4. Len(Written(q).out.ctrl) \in Nat /\ Len(out.ctrl) \in Nat
  BY <1>3
<1>5. PICK e, r : e = <<hi, 1, 0>> /\ r = Append(q, e)
  OBVIOUS
<1>6. 1 \in Nat /\ 0 \in Nat /\ 1 >= 1
  OBVIOUS
<1>7. /\ Cardinality(CoveredBy(q)) \in Nat /\ Cardinality(Escapes(q)) \in Nat
      /\ Cardinality(NearIn(q)) \in Nat /\ Len(q) \in Nat
  BY <1>5, <1>6, CountsMore DEF CountsOn
<1> QED
  BY <1>2, <1>3, <1>4, <1>7 DEF Counted

LEMMA AccountStart ==
  ASSUME WindowParsed, Codes, NEW x, x.cost = 0, x.ll = start - anchor
  PROVE  Accounted(0, x, <<>>)
<1>1. start \in Nat /\ anchor \in Nat /\ anchor <= start
  BY DEF WindowParsed
<1>2. PICK q : q = <<>>
  OBVIOUS
<1>3. Way(q, start)
  <2>1. Len(q) = 0 /\ q \in Seq(Nat \X Nat \X Nat)
    BY <1>2
  <2> QED
    BY <2>1 DEF Way
<1>4. /\ CoveredBy(q) = {} /\ Escapes(q) = {} /\ NearIn(q) = {} /\ Len(q) = 0
  <2>1. DOMAIN q = {} /\ Len(q) = 0
    BY <1>2
  <2> QED
    BY <2>1 DEF CoveredBy, Escapes, NearIn
<1>5. PICK b : b = Written(q)
  OBVIOUS
<1>6. b.out = out /\ b.anchor = anchor
  <2> DEFINE f == CHOOSE g : g =
                 [k \in 0 .. Len(q) |->
                    IF k = 0 THEN [out |-> out, anchor |-> anchor]
                    ELSE LET c == g[k - 1]
                             s == q[k]
                         IN  [out    |-> EmitSequence(c.out, c.anchor, s[1], s[3], s[2]),
                              anchor |-> s[1] + s[2]]]
  <2>1. WrittenTo(q, Len(q), f)
    <3>1. \E g : WrittenTo(q, Len(q), g)
      BY <1>4, WrittenExists
    <3> QED
      BY <3>1, Zenon DEF WrittenTo
  <2>2. b = f[Len(q)]
    BY <1>5 DEF Written
  <2> HIDE DEF f
  <2>3. f[0] = [out |-> out, anchor |-> anchor]
    BY <1>4, <2>1 DEF WrittenTo
  <2>4. b = [out |-> out, anchor |-> anchor]
    BY <1>4, <2>2, <2>3
  <2> QED
    BY <2>4
<1>7. Len(out.ctrl) \in Nat
  BY <1>1, <1>3, CountedIs DEF Counted
<1>8. Cardinality({}) = 0
  BY FS_EmptySet
<1>9. PICK u : u = PendingCost(start - anchor)
  OBVIOUS
<1>10. u \in Nat
  <2>1. start - anchor \in Nat
    BY <1>1
  <2> QED
    BY <1>9, <2>1, LiteralPays
<1>11. start + 0 - b.anchor = start - anchor
  BY <1>1, <1>6
<1>12. Paid(q, b, 0) = Scale * 0 + PSeq * 0 + PEsc * 0 + PShort * 0 + u
  <2>1. Len(b.out.ctrl) - Len(out.ctrl) + 0 - Cardinality(CoveredBy(q)) = 0
    BY <1>4, <1>6, <1>7, <1>8
  <2> QED
    BY <1>4, <1>8, <1>9, <1>11, <2>1 DEF Paid
<1>13. Paid(q, b, 0) = u
  <2>1. Scale \in Nat /\ PSeq \in Nat /\ PEsc \in Nat /\ PShort \in Nat
    BY OptNumbers
  <2> QED
    BY <1>10, <1>12, <2>1
<1> QED
  BY <1>1, <1>2, <1>5, <1>6, <1>9, <1>10, <1>11, <1>13 DEF Accounted

LEMMA AccountLiteral ==
  ASSUME WindowParsed, Codes, NEW k \in Nat, NEW q, Way(q, start + k), NEW a, Accounted(k, a, q),
         a.cost \in Nat, a.ll \in Nat, NEW x, x.ll = a.ll + 1, x.cost = a.cost + LitStep(a.ll)
  PROVE  Accounted(k + 1, x, q)
<1>1. start \in Nat /\ start + k \in Nat
  BY DEF WindowParsed
<1>2. PICK b : b = Written(q) /\ Counted(q, b)
  BY <1>1, CountedIs
<1>3. PICK e \in Nat : e = b.anchor /\ e <= start + k /\ a.ll = start + k - e
  BY <1>2 DEF Accounted
<1>4. PICK ll \in Nat, co \in Nat : ll = a.ll /\ co = a.cost
  OBVIOUS
<1>5. e <= start + (k + 1) /\ x.ll = start + (k + 1) - e /\ start + (k + 1) - e = ll + 1
  BY <1>1, <1>3, <1>4
<1>6. PICK s \in Nat, t \in Nat, p \in Nat, h \in Nat : s = Scale /\ t = PSeq /\ p = PEsc /\ h = PShort
  BY OptNumbers
<1>7. PICK lb \in Nat, lo \in Nat, lq \in Nat, cc \in Nat, ce \in Nat, cn \in Nat :
        /\ lb = Len(b.out.ctrl) /\ lo = Len(out.ctrl) /\ lq = Len(q)
        /\ cc = Cardinality(CoveredBy(q)) /\ ce = Cardinality(Escapes(q)) /\ cn = Cardinality(NearIn(q))
  BY <1>2 DEF Counted
<1>8. PICK step \in Nat, u \in Nat, v \in Nat :
        /\ step = LitStep(ll) /\ u = PendingCost(ll) /\ v = PendingCost(ll + 1)
        /\ step + u = s + v
  <2>1. /\ LitStep(ll) \in Nat /\ PendingCost(ll) \in Nat /\ PendingCost(ll + 1) \in Nat
        /\ LitStep(ll) + PendingCost(ll) = Scale + PendingCost(ll + 1)
    BY LiteralPays
  <2> QED
    BY <1>6, <2>1
<1>9. Paid(q, b, k) = s * (lb - lo + k - cc) + t * lq + p * ce + h * cn + u
  BY <1>3, <1>4, <1>6, <1>7, <1>8 DEF Paid
<1>10. Paid(q, b, k + 1) = s * (lb - lo + (k + 1) - cc) + t * lq + p * ce + h * cn + v
  BY <1>3, <1>5, <1>6, <1>7, <1>8 DEF Paid
<1>11. s * (lb - lo + (k + 1) - cc) = s * (lb - lo + k - cc) + s /\ s * (lb - lo + k - cc) \in Int
  BY ONLY s \in Nat, lb \in Nat, lo \in Nat, k \in Nat, cc \in Nat
<1>12. PICK z \in Int, y \in Nat : z = s * (lb - lo + k - cc) /\ y = t * lq + p * ce + h * cn
  <2>1. t * lq + p * ce + h * cn \in Nat
    BY ONLY t \in Nat, lq \in Nat, p \in Nat, ce \in Nat, h \in Nat, cn \in Nat
  <2> QED
    BY <1>11, <2>1
<1>13. PICK g \in Nat : g = PendingCost(start - anchor)
  <2>1. start - anchor \in Nat
    BY DEF WindowParsed
  <2> QED
    BY <2>1, LiteralPays
<1>14. t * lq \in Nat /\ p * ce \in Nat /\ h * cn \in Nat
  BY ONLY t \in Nat, lq \in Nat, p \in Nat, ce \in Nat, h \in Nat, cn \in Nat, Times
<1>15. co + g = z + y + u
  <2>1. a.cost + PendingCost(start - anchor) = Paid(q, b, k)
    BY <1>2 DEF Accounted
  <2> QED
    BY <1>4, <1>9, <1>12, <1>13, <1>14, <2>1
<1>16. Paid(q, b, k + 1) = z + s + y + v
  BY <1>10, <1>11, <1>12, <1>14
<1>17. x.cost = co + step
  BY <1>4, <1>8
<1>18. (co + step) + g = z + s + y + v
  BY ONLY <1>8, <1>15, co \in Nat, step \in Nat, g \in Nat, z \in Int, s \in Nat, y \in Nat, v \in Nat, u \in Nat
<1> QED
  BY <1>2, <1>3, <1>5, <1>13, <1>16, <1>17, <1>18 DEF Accounted

(* A step over a match, or over a literal, is accounted for; so is the way.  *)
LEMMA AccountMatch ==
  ASSUME WindowParsed, Codes, NEW k \in Nat, NEW q, Way(q, start + k), NEW a, Accounted(k, a, q),
         a.cost \in Nat, a.ll \in Nat, NEW ml \in Nat, ml >= MinMatch, NEW d \in Nat,
         1 <= d, d <= Window, NEW x, x.ll = 0, x.cost = a.cost + Cost(a.ll, ml, d),
         NEW r, r = Append(q, <<start + k, ml, d>>)
  PROVE  Accounted(k + ml, x, r)
<1>1. start \in Nat
  BY DEF WindowParsed
<1>2. PICK p \in Nat : p = start + k
  BY <1>1
<1>3. PICK b : b = Written(q) /\ Counted(q, b) /\ b.anchor = LastEnd(q) /\ b.out.ctrl \in Seq(Nat)
  BY <1>2, CountedIs
<1>4. PICK z \in Nat : z = b.anchor /\ z <= p /\ a.ll = p - z
  <2>1. b.anchor \in Nat /\ b.anchor <= start + k /\ a.ll = start + k - b.anchor
    BY <1>3 DEF Accounted
  <2>2. PICK z \in Nat : z = b.anchor
    BY <2>1
  <2>3. z <= p /\ start + k - z = p - z
    BY <1>1, <1>2, <2>1, <2>2
  <2> QED
    BY <2>1, <2>2, <2>3
<1>5. PICK ll \in Nat, co \in Nat : ll = a.ll /\ co = a.cost
  OBVIOUS
<1>6. PICK s \in Nat, t \in Nat, pe \in Nat, ps \in Nat :
        s = Scale /\ t = PSeq /\ pe = PEsc /\ ps = PShort
  BY OptNumbers
<1>7. PICK lb \in Nat, lo \in Nat, lq \in Nat, cc \in Nat, ce \in Nat, cn \in Nat :
        /\ lb = Len(b.out.ctrl) /\ lo = Len(out.ctrl) /\ lq = Len(q)
        /\ cc = Cardinality(CoveredBy(q)) /\ ce = Cardinality(Escapes(q)) /\ cn = Cardinality(NearIn(q))
  BY <1>3 DEF Counted
<1>8. PICK e : e = <<p, ml, d>>
  OBVIOUS
<1>9. e \in Nat \X Nat \X Nat /\ e[1] = p /\ e[2] = ml /\ e[3] = d /\ r = Append(q, e)
  BY <1>2, <1>8
<1>10. PICK g : g = Written(r)
  OBVIOUS
<1>11. g.out = EmitSequence(b.out, z, p, d, ml) /\ g.anchor = p + ml
  <2>1. PICK S : S = Nat \X Nat \X Nat /\ q \in Seq(S) /\ e \in S
    BY <1>9 DEF Way
  <2>2. WritesOn(b, e, r)
    BY <1>3, <1>9, <2>1, WrittenMore
  <2> QED
    BY <1>4, <1>9, <1>10, <2>2 DEF WritesOn
<1>12. PICK m \in Nat : m = ml - MinMatch /\ ml >= 1
  <2>1. ml - MinMatch \in Nat /\ ml >= 1
    OBVIOUS
  <2> QED
    BY <2>1
<1>13. PICK cs \in Seq(Nat) : cs = ControlOf(ll, d, ml)
  <2>1. d \in 1 .. Window
    OBVIOUS
  <2> QED
    BY <2>1, ControlSeq
<1>14. PICK c \in Nat : c = Len(cs)
  OBVIOUS
<1>15. Len(g.out.ctrl) = lb + c
  <2>1. PICK y \in Seq(Nat) : y = b.out.ctrl /\ Len(y) = lb
    BY <1>3, <1>7
  <2>2. g.out.ctrl = y \o cs
    <3>1. p - z = ll
      BY <1>4, <1>5
    <3>2. g.out = [ctrl |-> b.out.ctrl \o ControlOf(p - z, d, ml), lit |-> b.out.lit \o Bytes(z, p - z)]
      BY <1>11 DEF EmitSequence
    <3>3. g.out.ctrl = b.out.ctrl \o ControlOf(p - z, d, ml)
      <4>1. PICK u, v : u = b.out.ctrl \o ControlOf(p - z, d, ml) /\ v = b.out.lit \o Bytes(z, p - z)
        OBVIOUS
      <4>2. g.out = [ctrl |-> u, lit |-> v]
        BY <3>2, <4>1
      <4>3. g.out.ctrl = u
        BY ONLY <4>2
      <4> QED
        BY <4>1, <4>3
    <3>4. cs = ControlOf(p - z, d, ml) /\ y = b.out.ctrl
      BY <1>13, <2>1, <3>1
    <3> QED
      BY ONLY <3>3, <3>4, Zenon
  <2>3. Len(y \o cs) = Len(y) + Len(cs)
    OBVIOUS
  <2> QED
    BY <1>14, <2>1, <2>2, <2>3
<1>16. PICK co1 \in Nat, es \in Nat, nr \in Nat, pc0 \in Nat :
         /\ co1 = Cost(ll, ml, d) /\ es = Escape(ll, m) /\ nr = Near(d) /\ pc0 = PendingCost(ll)
         /\ co1 + pc0 = s * c + t + es + nr
  <2>1. /\ Cost(ll, ml, d) \in Nat /\ Escape(ll, m) \in Nat /\ Near(d) \in Nat
        /\ Cost(ll, ml, d) + PendingCost(ll) = Scale * c + PSeq + Escape(ll, m) + Near(d)
    BY <1>12, <1>13, <1>14, MatchPays
  <2>2. PendingCost(ll) \in Nat
    BY LiteralPays
  <2> QED
    BY <1>6, <2>1, <2>2
<1>17. /\ Cardinality(CoveredBy(r)) = cc + ml
       /\ Cardinality(Escapes(r)) = ce + (IF ExactCode(ll, m) = Base THEN 1 ELSE 0)
       /\ Cardinality(NearIn(r)) = cn + (IF d < NearDist THEN 1 ELSE 0)
       /\ Len(r) = lq + 1
  <2>1. p - LastEnd(q) = ll
    BY <1>3, <1>4, <1>5
  <2>2. CountsOn(q, p, ml, d, r)
    <3>1. Way(q, p) /\ ml >= 1 /\ e = <<p, ml, d>> /\ r = Append(q, e)
      BY <1>2, <1>8, <1>9, <1>12
    <3> QED
      BY <3>1, CountsMore
  <2> QED
    BY <1>7, <1>12, <2>1, <2>2 DEF CountsOn
<1>18. PICK de \in Nat : de = IF ExactCode(ll, m) = Base THEN 1 ELSE 0
  OBVIOUS
<1>19. pe * (ce + de) = pe * ce + es
  <2>1. CASE ExactCode(ll, m) = Base
    <3>1. de = 1 /\ es = pe
      BY <1>6, <1>16, <1>18, <2>1 DEF Escape
    <3> QED
      BY ONLY <3>1, pe \in Nat, ce \in Nat
  <2>2. CASE ExactCode(ll, m) # Base
    <3>1. de = 0 /\ es = 0
      BY <1>6, <1>16, <1>18, <2>2 DEF Escape
    <3> QED
      BY ONLY <3>1, pe \in Nat, ce \in Nat
  <2> QED
    BY <2>1, <2>2
<1>20. PICK dn \in Nat : dn = IF d < NearDist THEN 1 ELSE 0
  OBVIOUS
<1>21. ps * (cn + dn) = ps * cn + nr
  <2>1. CASE d < NearDist
    <3>1. dn = 1 /\ nr = ps
      BY <1>6, <1>16, <1>20, <2>1 DEF Near
    <3> QED
      BY ONLY <3>1, ps \in Nat, cn \in Nat
  <2>2. CASE ~(d < NearDist)
    <3>1. dn = 0 /\ nr = 0
      BY <1>6, <1>16, <1>20, <2>2 DEF Near
    <3> QED
      BY ONLY <3>1, ps \in Nat, cn \in Nat
  <2> QED
    BY <2>1, <2>2
<1>22. start + (k + ml) - g.anchor = 0 /\ g.anchor = p + ml /\ start + (k + ml) = p + ml
  BY <1>1, <1>2, <1>11
<1>23. PendingCost(0) = 0
  BY BaseIs DEF PendingCost
<1>24. Paid(q, b, k) = s * (lb - lo + k - cc) + t * lq + pe * ce + ps * cn + pc0
  <2>1. start + k - b.anchor = ll
    BY <1>1, <1>2, <1>4, <1>5
  <2> QED
    BY <1>6, <1>7, <1>16, <2>1 DEF Paid
<1>25. Paid(r, g, k + ml)
       = s * ((lb + c) - lo + (k + ml) - (cc + ml)) + t * (lq + 1) + pe * (ce + de) + ps * (cn + dn) + 0
  <2>1. /\ Cardinality(CoveredBy(r)) = cc + ml /\ Cardinality(Escapes(r)) = ce + de
        /\ Cardinality(NearIn(r)) = cn + dn /\ Len(r) = lq + 1
    BY <1>17, <1>18, <1>20
  <2> QED
    BY <1>6, <1>7, <1>15, <1>22, <1>23, <2>1 DEF Paid
<1>26. PICK y \in Int : y = s * (lb - lo + k - cc)
  <2>1. s * (lb - lo + k - cc) \in Int
    BY ONLY s \in Nat, lb \in Nat, lo \in Nat, k \in Nat, cc \in Nat
  <2> QED
    BY <2>1
<1>27. PICK f \in Nat : f = s * c
  BY ONLY s \in Nat, c \in Nat, Times
<1>28. s * ((lb + c) - lo + (k + ml) - (cc + ml)) = y + f
  BY ONLY <1>26, <1>27, s \in Nat, lb \in Nat, lo \in Nat, k \in Nat, cc \in Nat, c \in Nat, ml \in Nat
<1>29. PICK h \in Nat, i1 \in Nat, j1 \in Nat : h = t * lq /\ i1 = pe * ce /\ j1 = ps * cn
  BY ONLY t \in Nat, lq \in Nat, pe \in Nat, ce \in Nat, ps \in Nat, cn \in Nat, Times
<1>30. t * (lq + 1) = h + t
  BY ONLY <1>29, t \in Nat, lq \in Nat
<1>31. PICK v \in Nat : v = PendingCost(start - anchor)
  <2>1. start - anchor \in Nat
    BY DEF WindowParsed
  <2> QED
    BY <2>1, LiteralPays
<1>32. co + v = y + h + i1 + j1 + pc0
  <2>1. a.cost + PendingCost(start - anchor) = Paid(q, b, k)
    BY <1>3 DEF Accounted
  <2> QED
    BY <1>5, <1>24, <1>26, <1>29, <1>31, <2>1
<1>33. Paid(r, g, k + ml) = (y + f) + (h + t) + (i1 + es) + (j1 + nr)
  <2>1. PICK a1 \in Int, a2 \in Int, a3 \in Int, a4 \in Int :
          a1 = y + f /\ a2 = h + t /\ a3 = i1 + es /\ a4 = j1 + nr
    BY ONLY y \in Int, f \in Nat, h \in Nat, t \in Nat, i1 \in Nat, es \in Nat, j1 \in Nat, nr \in Nat
  <2>2. Paid(r, g, k + ml) = a1 + a2 + a3 + a4 + 0
    BY <1>19, <1>21, <1>25, <1>28, <1>29, <1>30, <2>1, Zenon
  <2> QED
    BY <2>1, <2>2
<1>34. (co + co1) + v = (y + f) + (h + t) + (i1 + es) + (j1 + nr)
  <2>1. co1 + pc0 = f + t + es + nr
    BY <1>16, <1>27
  <2> QED
    BY ONLY <1>32, <2>1, co \in Nat, co1 \in Nat, v \in Nat, y \in Int, f \in Nat, h \in Nat, t \in Nat,
            i1 \in Nat, es \in Nat, j1 \in Nat, nr \in Nat, pc0 \in Nat
<1>35. x.cost = co + co1
  BY <1>5, <1>16
<1>36. x.cost + PendingCost(start - anchor) = Paid(r, g, k + ml)
  BY <1>31, <1>33, <1>34, <1>35
<1>37. g.anchor \in Nat /\ g.anchor <= start + (k + ml) /\ x.ll = start + (k + ml) - g.anchor
  BY <1>22
<1> QED
  BY <1>10, <1>36, <1>37 DEF Accounted

LEMMA PathAccounted ==
  ASSUME WindowFound, Codes, NodesOK(nodes), PricedUpTo(w, nodes)
  PROVE  Accounted(w, nodes[w], Path)
<1>1. WindowParsed /\ w \in Nat /\ start \in Nat /\ n \in Nat /\ i = w
  BY DEF WindowFound, WindowParsed
<1>2. PICK f : PathWays(f)
  BY <1>1, PathFrom
<1>3. /\ Path = f[w] /\ PathTo(w, f)
      /\ \A j \in 0 .. w : Way(f[j], start + j)
  BY <1>2 DEF PathWays
<1>4. \A j \in 0 .. w : nodes[j].cost \in Nat /\ nodes[j].ll \in Nat
  <2>1. \A j \in 0 .. w : NodeIn(j, nodes[j])
    BY Zenon DEF NodesOK
  <2> QED
    BY <2>1, Zenon DEF NodeIn
<1>5. \A j \in 0 .. w : f[j] = IF j = 0 THEN <<>>
                               ELSE IF nodes[j].ml = 0 THEN f[j - 1]
                               ELSE Append(f[j - nodes[j].ml],
                                           <<start + j - nodes[j].ml, nodes[j].ml, nodes[j].dist>>)
  BY <1>3 DEF PathTo
<1> DEFINE T == {j \in 0 .. w : j \notin hidden /\ ~Accounted(j, nodes[j], f[j])}
<1>6. T = {}
  <2> SUFFICES ASSUME T # {} PROVE FALSE
    OBVIOUS
  <2>1. PICK j \in T : \A y \in T : ~(y < j)
    <3>1. T \subseteq Nat
      OBVIOUS
    <3> HIDE DEF T
    <3> QED
      BY <3>1, LeastNat
  <2>2. j \in 0 .. w /\ j \notin hidden /\ ~Accounted(j, nodes[j], f[j])
    BY <2>1
  <2>3. CASE j = 0
    <3>1. f[0] = <<>>
      BY <1>5, <2>2, <2>3
    <3>2. nodes[0].cost = 0 /\ nodes[0].ll = start - anchor
      BY DEF PricedUpTo
    <3>3. Accounted(0, nodes[0], <<>>)
      BY <1>1, <3>2, AccountStart
    <3> QED
      BY <2>2, <2>3, <3>1, <3>3
  <2>4. CASE j # 0
    <3>1. j \in 1 .. w /\ nodes[j].cost # Inf
      <4>1. nodes[j].cost < Inf
        BY <2>2, ReachedCosts
      <4> QED
        BY <1>4, <2>2, <2>4, <4>1, OptNumbers
    <3>2. PICK k \in 0 .. j - 1 : k \notin hidden /\ StepTo(nodes[k], nodes[j], k, j)
      BY <3>1 DEF PricedUpTo, StepsBack
    <3>3. k \in 0 .. w /\ k \in Nat /\ k < j /\ j \in Nat
      BY <1>1, <2>2, <3>1, <3>2
    <3>4. Accounted(k, nodes[k], f[k])
      BY <2>1, <3>2, <3>3
    <3>5. PICK a, x, q : a = nodes[k] /\ x = nodes[j] /\ q = f[k]
      OBVIOUS
    <3>6. /\ Accounted(k, a, q) /\ Way(q, start + k) /\ a.cost \in Nat /\ a.ll \in Nat
      BY <1>3, <1>4, <3>3, <3>4, <3>5
    <3>7. CASE j = k + 1 /\ x.ml = 0 /\ x.ll = a.ll + 1 /\ x.cost = a.cost + LitStep(a.ll)
      <4>1. f[j] = q
        <5>1. j - 1 = k
          BY <3>3, <3>7
        <5> QED
          BY <1>5, <2>2, <2>4, <3>5, <3>7, <5>1
      <4>2. Accounted(k + 1, x, q)
        BY <1>1, <3>3, <3>6, <3>7, AccountLiteral
      <4> QED
        BY <2>2, <3>5, <3>7, <4>1, <4>2
    <3>8. CASE /\ x.ml = j - k /\ x.ml \in Nat /\ x.ml >= MinMatch /\ x.ll = 0
               /\ x.cost = a.cost + Cost(a.ll, x.ml, x.dist)
      <4>1. PICK ml \in Nat : ml = x.ml /\ ml >= MinMatch /\ ml # 0 /\ k + ml = j /\ j - ml = k
        BY <3>3, <3>8
      <4>2. MatchAt(start + k, <<ml, x.dist>>)
        <5>1. NodeIn(j, x)
          BY <2>2, <3>5 DEF NodesOK
        <5> QED
          BY <4>1, <5>1 DEF NodeIn
      <4>3. start + k \in Nat
        BY <1>1, <3>3
      <4>4. PICK d \in Nat : d = x.dist /\ 1 <= d /\ d <= Window
        <5>1. x.dist \in Nat /\ EntryOK(<<start + k, ml, x.dist>>)
          BY <1>1, <4>1, <4>2, <4>3, EntryIs
        <5>2. 1 <= x.dist /\ x.dist < Window
          BY <5>1 DEF EntryOK
        <5>3. Window \in Nat
          BY ParameterAssumption DEF ParameterAssumption
        <5> QED
          BY <5>1, <5>2, <5>3
      <4>5. PICK r : r = Append(q, <<start + k, ml, d>>)
        BY Zenon
      <4>6. f[j] = r
        <5>1. start + j - ml = start + k
          BY <1>1, <3>3, <4>1
        <5>2. f[j] = Append(f[j - ml], <<start + j - ml, ml, x.dist>>)
          BY <1>5, <2>2, <2>4, <3>5, <4>1
        <5> QED
          BY <3>5, <4>1, <4>4, <4>5, <5>1, <5>2
      <4>7. Accounted(k + ml, x, r)
        <5>1. x.ll = 0 /\ x.cost = a.cost + Cost(a.ll, ml, d)
          BY <3>8, <4>1, <4>4
        <5> QED
          BY <1>1, <3>3, <3>6, <4>1, <4>4, <4>5, <5>1, AccountMatch
      <4> QED
        BY <2>2, <3>5, <4>1, <4>6, <4>7
    <3> QED
      BY <3>2, <3>5, <3>7, <3>8 DEF StepTo
  <2> QED
    BY <2>3, <2>4
<1>7. w \in 0 .. w /\ w \notin hidden
  <2>1. hidden \subseteq 1 .. w - 1
    BY <1>1 DEF WindowFound, HiddenOK
  <2> QED
    BY <1>1, <2>1
<1> QED
  BY <1>3, <1>6, <1>7

(* What is known of a window while it is parsed.                             *)
PriceInv ==
  /\ pc \in {"optCands", "optEmit"} =>
       w <= OptWindow /\ HiddenOK /\ \A k \in 0 .. w - 1 : Rising(cands[k])
  /\ pc = "optEmit" => i = w /\ PricedUpTo(w, nodes)

LeadsBy(cs, k, j) ==
  \/ j = k + 1
  \/ cs[k] # <<>> /\ j = k + cs[k][Len(cs[k])][1]

HiddenBy(h, v, cs) ==
  /\ h \subseteq 1 .. v - 1
  /\ \A j \in 1 .. v : j \notin h => \E k \in 0 .. j - 1 : k \notin h /\ LeadsBy(cs, k, j)

LEMMA HiddenIs == (HiddenOK <=> HiddenBy(hidden, i, cands)) /\ (HiddenOK' <=> HiddenBy(hidden', i', cands'))
<1>1. HiddenOK <=> HiddenBy(hidden, i, cands)
  BY DEF HiddenOK, HiddenBy, Leads, LeadsBy
<1>2. HiddenOK' <=> HiddenBy(hidden', i', cands')
  BY DEF HiddenOK, HiddenBy, Leads, LeadsBy
<1> QED
  BY <1>1, <1>2

LEMMA HiddenMore ==
  ASSUME NEW h, NEW m \in Nat, NEW cs, HiddenBy(h, m, cs), NEW ds, \A k \in 0 .. m - 1 : ds[k] = cs[k],
         NEW ln \in Nat, NEW g, NEW v,
         \/ v = m /\ g = h
         \/ v = m + 1 /\ g = h
         \/ /\ v = m + ln /\ ln >= 1 /\ ds[m] # <<>> /\ ln = ds[m][Len(ds[m])][1]
            /\ g = h \cup (m + 1 .. m + ln - 1)
  PROVE  HiddenBy(g, v, ds)
<1>1. h \subseteq 1 .. m - 1 /\ m \notin h
  BY DEF HiddenBy
<1>2. ASSUME NEW j \in 1 .. m, j \notin h
      PROVE  \E k \in 0 .. j - 1 : k \notin h /\ k < m /\ LeadsBy(ds, k, j)
  <2>1. PICK k \in 0 .. j - 1 : k \notin h /\ LeadsBy(cs, k, j)
    BY <1>2 DEF HiddenBy
  <2>2. k \in 0 .. m - 1 /\ k < m
    BY <2>1
  <2> QED
    BY <2>1, <2>2 DEF LeadsBy
<1>3. CASE v = m /\ g = h
  BY <1>1, <1>2, <1>3 DEF HiddenBy
<1>4. CASE v = m + 1 /\ g = h
  <2>1. h \subseteq 1 .. v - 1
    BY <1>1, <1>4
  <2>2. ASSUME NEW j \in 1 .. v, j \notin g
        PROVE  \E k \in 0 .. j - 1 : k \notin g /\ LeadsBy(ds, k, j)
    <3>1. CASE j \in 1 .. m
      BY <1>2, <1>4, <2>2, <3>1
    <3>2. CASE j = m + 1
      <4>1. m \in 0 .. j - 1 /\ LeadsBy(ds, m, j)
        BY <3>2 DEF LeadsBy
      <4> QED
        BY <1>1, <1>4, <4>1
    <3> QED
      BY <1>4, <3>1, <3>2
  <2> QED
    BY <1>4, <2>1, <2>2 DEF HiddenBy
<1>5. CASE /\ v = m + ln /\ ln >= 1 /\ ds[m] # <<>> /\ ln = ds[m][Len(ds[m])][1]
           /\ g = h \cup (m + 1 .. m + ln - 1)
  <2>1. g \subseteq 1 .. v - 1
    <3>1. \A x \in g : x \in 1 .. m - 1 \/ x \in m + 1 .. m + ln - 1
      BY <1>1, <1>5
    <3>2. ln \in Nat /\ ln >= 1 /\ v = m + ln
      BY <1>5
    <3>3. \A x \in g : x \in 1 .. v - 1
      BY ONLY <3>1, <3>2, m \in Nat
    <3> QED
      BY <3>3
  <2>2. ASSUME NEW k \in Nat, k < m, k \notin h PROVE k \notin g
    BY <1>5, <2>2
  <2>3. ASSUME NEW j \in 1 .. v, j \notin g
        PROVE  \E k \in 0 .. j - 1 : k \notin g /\ LeadsBy(ds, k, j)
    <3>1. CASE j \in 1 .. m
      <4>1. PICK k \in 0 .. j - 1 : k \notin h /\ k < m /\ LeadsBy(ds, k, j)
        BY <1>2, <1>5, <2>3, <3>1
      <4> QED
        BY <2>2, <4>1
    <3>2. CASE j = m + ln
      <4>1. m \in 0 .. j - 1 /\ LeadsBy(ds, m, j)
        BY <1>5, <3>2 DEF LeadsBy
      <4>2. m \notin g
        BY <1>1, <1>5
      <4> QED
        BY <4>1, <4>2
    <3>3. j \in 1 .. m \/ j = m + ln
      <4>1. j \notin m + 1 .. m + ln - 1 /\ j \in 1 .. m + ln
        BY <1>5, <2>3
      <4> QED
        BY ONLY <4>1, m \in Nat, ln \in Nat
    <3> QED
      BY <3>1, <3>2, <3>3
  <2> QED
    BY <2>1, <2>3 DEF HiddenBy
<1> QED
  BY <1>3, <1>4, <1>5

LEMMA PriceStart == ASSUME pc = "opt" PROVE PriceInv
BY DEF PriceInv

LEMMA PriceWindowStep ==
  ASSUME OptInv, OptWindowStart
  PROVE  PriceInv'
<1>1. start \in Nat /\ Limit \in Int /\ OptWindow \in Nat
  BY InputLen, OptNumbers DEF OptInv, OptPlaces, n, Limit
<1>2. CASE TooShort \/ start >= Limit
  <2>1. pc' = "done"
    BY <1>2 DEF OptWindowStart
  <2> QED
    BY <2>1 DEF PriceInv
<1>3. CASE ~(TooShort \/ start >= Limit)
  <2>1. /\ w' = IF start + OptWindow > Limit THEN Limit - start ELSE OptWindow
        /\ i' = 0 /\ cands' = [k \in 0 .. w' - 1 |-> <<>>] /\ hidden' = {} /\ pc' = "optCands"
    BY <1>3 DEF OptWindowStart
  <2>2. w' <= OptWindow
    <3>1. start + OptWindow > Limit => Limit - start <= OptWindow
      BY <1>1
    <3> QED
      BY <1>1, <2>1, <3>1
  <2>3. HiddenOK'
    <3>1. HiddenBy({}, 0, cands')
      BY DEF HiddenBy
    <3> QED
      BY <2>1, <3>1, HiddenIs
  <2>4. ASSUME NEW k \in 0 .. w' - 1 PROVE Rising(cands'[k])
    <3>1. cands'[k] = <<>> /\ Rising(<<>>)
      BY <2>1 DEF Rising
    <3> QED
      BY <3>1
  <2> QED
    BY <2>1, <2>2, <2>3, <2>4 DEF PriceInv
<1> QED
  BY <1>2, <1>3

LEMMA PriceInsertStep ==
  ASSUME PriceInv, OptInsert
  PROVE  PriceInv'
<1>1. pc = "optCands" /\ UNCHANGED <<pc, start, w, i, cands, hidden>>
  BY DEF OptInsert
<1>2. HiddenOK'
  BY <1>1, HiddenIs DEF PriceInv
<1> QED
  BY <1>1, <1>2 DEF PriceInv

LEMMA PriceCandsStep ==
  ASSUME OptInv, PriceInv, OptCands
  PROVE  PriceInv'
<1>1. /\ UNCHANGED <<src, anchor, pc, out, start, nodes>>
      /\ pc = "optCands" /\ i < w /\ btNext >= start + i
  BY DEF OptCands
<1>2. /\ src \in Inputs /\ start \in Nat /\ w \in Nat /\ i \in Nat /\ btNext \in Nat /\ n \in Nat
      /\ Limit \in Int /\ start + w <= Limit /\ i <= w /\ btNext <= OptReached
      /\ \A k \in 0 .. w - 1 : k \in DOMAIN cands
  BY <1>1, InputLen DEF OptInv, OptPlaces, InWindow, n, Limit
<1>3. w <= OptWindow /\ HiddenBy(hidden, i, cands) /\ \A k \in 0 .. w - 1 : Rising(cands[k])
  BY <1>1, HiddenIs DEF PriceInv
<1>4. forced = <<>>
  BY <1>1, <1>2 DEF OptInv, InWindow
<1>5. PICK p \in Nat : p = start + i /\ p = btNext
  <2>1. start + i \in Nat /\ start + i = btNext
    BY <1>1, <1>2, <1>4 DEF OptReached
  <2> QED
    BY <2>1
<1>6. p + MinMatch <= n
  <2>1. InLimit(p)
    BY <1>1, <1>2, <1>5 DEF InLimit
  <2> QED
    BY <1>2, <2>1, InLimitIs
<1>7. PICK c : c = FindAll(p) /\ Rising(c) /\ Matches(p, c)
  <2>1. TreeInv(son, roots, p)
    BY <1>5 DEF OptInv
  <2>2. Rising(FindAll(p))
    BY <1>2, <1>6, <2>1, FindAllRising
  <2>3. InsertedIs(p, LenLimit(p), Inserted(p))
    <3>1. BtInsert(p)
      BY <1>5 DEF OptCands
    <3> QED
      BY <1>2, <1>6, <2>1, <3>1, BtInsertOK
  <2> QED
    BY <1>2, <1>6, <2>2, <2>3, FindAllIs
<1> DEFINE last == c[Len(c)]
           len_ == IF c = <<>> THEN 0 ELSE last[1]
           skip == len_ >= SkipLen /\ i + len_ <= w
<1>8. /\ cands' = [cands EXCEPT ![i] = c]
      /\ IF len_ >= Sufficient
         THEN /\ forced' = last
              /\ w' = i
              /\ UNCHANGED <<i, hidden>>
         ELSE /\ i' = IF skip THEN i + len_ ELSE i + 1
              /\ hidden' = IF skip THEN hidden \cup (i + 1 .. i + len_ - 1) ELSE hidden
              /\ UNCHANGED <<forced, w>>
  BY <1>5, <1>7, Zenon DEF OptCands
<1>9. PICK ln \in Nat : ln = len_ /\ (ln >= 1 => c # <<>> /\ ln = c[Len(c)][1])
  <2>1. CASE c = <<>>
    BY <2>1
  <2>2. CASE c # <<>>
    <3>1. c \in Seq(Nat \X Nat) /\ Len(c) \in 1 .. Len(c)
      BY <1>7, <2>2 DEF Matches
    <3>2. c[Len(c)][1] \in Nat
      BY <3>1
    <3> QED
      BY <2>2, <3>2
  <2> QED
    BY <2>1, <2>2
<1> HIDE DEF last, len_
<1>10. PICK cs : cs = cands' /\ cs[i] = c /\ \A k \in 0 .. w - 1 : k # i => cs[k] = cands[k]
  <2>1. i \in 0 .. w - 1
    BY <1>1, <1>2
  <2>2. cands'[i] = c /\ \A k \in 0 .. w - 1 : k # i => cands'[k] = cands[k]
    BY <1>2, <1>8, <2>1
  <2> QED
    BY <2>2
<1>11. SkipLen \in Nat /\ SkipLen >= 1
  <2>1. SkipLen \in Nat /\ SubLen \in Nat /\ SkipLen >= SubLen /\ SubLen >= MinMatch
    BY OptNumbers, OptSizes
  <2> QED
    BY <2>1
<1>12. PICK v, h, u : /\ v = i' /\ h = hidden' /\ u = w' /\ u \in Nat /\ u <= w
                      /\ \/ v = i /\ h = hidden
                         \/ v = i + 1 /\ h = hidden
                         \/ v = i + ln /\ ln >= 1 /\ h = hidden \cup (i + 1 .. i + ln - 1)
  <2>1. CASE ln >= Sufficient
    BY <1>1, <1>2, <1>8, <1>9, <2>1
  <2>2. CASE ~(ln >= Sufficient) /\ skip
    <3>1. ln >= 1
      BY <1>9, <1>11, <2>2
    <3>2. i' = i + ln /\ hidden' = hidden \cup (i + 1 .. i + ln - 1) /\ w' = w
      BY <1>8, <1>9, <2>2
    <3> QED
      BY <1>2, <3>1, <3>2
  <2>3. CASE ~(ln >= Sufficient) /\ ~skip
    <3>1. i' = i + 1 /\ hidden' = hidden /\ w' = w
      BY <1>8, <1>9, <2>3
    <3> QED
      BY <1>2, <3>1
  <2> QED
    BY <2>1, <2>2, <2>3
<1>13. HiddenBy(h, v, cs)
  <2>1. \A k \in 0 .. i - 1 : cs[k] = cands[k]
    BY <1>1, <1>2, <1>10
  <2>2. \/ v = i /\ h = hidden
        \/ v = i + 1 /\ h = hidden
        \/ /\ v = i + ln /\ ln >= 1 /\ cs[i] # <<>> /\ ln = cs[i][Len(cs[i])][1]
           /\ h = hidden \cup (i + 1 .. i + ln - 1)
    BY <1>9, <1>10, <1>12
  <2> QED
    BY <1>2, <1>3, <2>1, <2>2, HiddenMore
<1>14. HiddenOK'
  BY <1>10, <1>12, <1>13, HiddenIs
<1>15. ASSUME NEW k \in 0 .. u - 1 PROVE Rising(cs[k])
  <2>1. u \in Nat /\ u <= w /\ w \in Nat
    BY <1>2, <1>12
  <2>2. k \in 0 .. w - 1
    BY ONLY <2>1, k \in 0 .. u - 1
  <2> QED
    BY <1>3, <1>7, <1>10, <2>2
<1>16. u <= OptWindow
  <2>1. OptWindow \in Nat
    BY OptNumbers
  <2> QED
    BY <1>2, <1>3, <1>12, <2>1
<1> QED
  BY <1>1, <1>10, <1>12, <1>14, <1>15, <1>16 DEF PriceInv

LEMMA PricePriceStep ==
  ASSUME OptInv, PriceInv, OptPrice
  PROVE  PriceInv'
<1>1. /\ UNCHANGED <<src, anchor, out, reach, roots, son, btNext, start, w, i, cands, hidden, forced>>
      /\ pc = "optCands" /\ pc' = "optEmit" /\ nodes' = Priced /\ (i >= w \/ forced # <<>>)
  BY DEF OptPrice
<1>2. i = w
  <2>1. i \in Nat /\ w \in Nat /\ i <= w /\ (forced # <<>> => i = w)
    BY <1>1 DEF OptInv, OptPlaces, InWindow
  <2> QED
    BY <1>1, <2>1
<1>3. WindowFound
  BY <1>1, <1>2, WindowKnown DEF WindowFound, PriceInv
<1>4. PICK ns : ns = Priced /\ PricedUpTo(w, ns)
  BY <1>3, AllPriced
<1>5. PricedUpTo(w, nodes)'
  BY <1>1, <1>4 DEF PricedUpTo, StepsBack, Capped, Leads
<1>6. HiddenOK'
  BY <1>1, HiddenIs DEF PriceInv
<1> QED
  BY <1>1, <1>2, <1>5, <1>6 DEF PriceInv

LEMMA PriceStep ==
  ASSUME OptInv, PriceInv, [OptNext]_optAll
  PROVE  PriceInv'
<1>1. CASE OptEmit
  <2>1. pc' = "opt"
    BY <1>1 DEF OptEmit
  <2> QED
    BY <2>1 DEF PriceInv
<1>2. CASE UNCHANGED optAll
  <2>1. UNCHANGED <<anchor, pc, start, w, i, cands, hidden, nodes>>
    BY <1>2 DEF optAll, optVars
  <2>2. HiddenOK => HiddenOK'
    BY <2>1, HiddenIs
  <2>3. PricedUpTo(w, nodes) => PricedUpTo(w, nodes)'
    BY <2>1 DEF PricedUpTo, StepsBack, Capped, Leads
  <2> QED
    BY <2>1, <2>2, <2>3 DEF PriceInv
<1> QED
  BY <1>1, <1>2, PriceWindowStep, PriceInsertStep, PriceCandsStep, PricePriceStep DEF OptNext

LEMMA PriceKnown == OptInv /\ PriceInv => PriceIsSize
<1> SUFFICES ASSUME OptInv, PriceInv, pc = "optEmit"
             PROVE  PriceIsSize
  BY DEF PriceIsSize
<1>1. WindowFound /\ NodesOK(nodes) /\ PricedUpTo(w, nodes) /\ Codes
  BY WindowKnown DEF WindowFound, OptInv, PriceInv
<1>2. \A j \in (0 .. w) \ hidden : nodes[j].cost < Inf
  BY <1>1, ReachedCosts
<1>3. PICK q, b : q = Path /\ b = Written(q)
  OBVIOUS
<1>4. nodes[w].cost + PendingCost(start - anchor) = Paid(q, b, w)
  <2>1. Accounted(w, nodes[w], q)
    BY <1>1, <1>3, PathAccounted
  <2> QED
    BY <1>3, <2>1 DEF Accounted
<1> QED
  BY <1>2, <1>3, <1>4, Zenon DEF PriceIsSize, Paid, CoveredBy, NearIn

LEMMA PriceInvariance == OptSpec => []PriceInv
<1>1. OptSpec => PriceInv
  BY PriceStart DEF OptSpec
<1> QED
  BY <1>1, OptInvariance, PriceStep, PTL DEF OptSpec, optAll

(* The price of a window's end is that of the bytes, the literals and the    *)
(* penalties of the way there, to the last bit, and every position that can  *)
(* be on a way was reached before it was used: whatever the candidates, the  *)
(* lengths that are tried, the positions that are passed over, the pending   *)
(* literals of the windows before, and the table of prices.                  *)
THEOREM OptPriceIsSize == OptSpec => []PriceIsSize
BY OptInvariance, PriceInvariance, PriceKnown, PTL

--------------------------------------------------------------------------------
(* All levels together.                                                      *)
Quiet == ChainInit

EncodeInv ==
  \/ level = "fast" /\ FastInv /\ Codes /\ Quiet
  \/ level \in {"mid", "lazy"} /\ MidInv /\ Codes /\ Quiet
  \/ level = "chain" /\ ChainInv /\ Codes /\ ReadInside
  \/ level = "opt" /\ OptInv /\ PriceInv /\ Quiet

LEMMA EncodeStart == EncodeInit => EncodeInv
<1> SUFFICES ASSUME EncodeInit PROVE EncodeInv
  OBVIOUS
<1>1. /\ InputInit /\ level \in Levels /\ out = [ctrl |-> <<>>, lit |-> <<>>] /\ reach = 0
      /\ FastInit /\ MidInit /\ ChainInit /\ SearchInit /\ OptInit
  BY DEF EncodeInit
<1>2. /\ level = "fast" => pc = "fast"
      /\ level \in {"mid", "lazy"} => pc = "mid"
      /\ level = "chain" => pc = "turn"
      /\ level = "opt" => pc = "opt"
  BY DEF EncodeInit
<1>3. Codes /\ Quiet
  BY <1>1, CodesStart DEF Quiet
<1>4. CASE level = "fast"
  BY <1>1, <1>2, <1>3, <1>4, FastStart DEF EncodeInv
<1>5. CASE level \in {"mid", "lazy"}
  BY <1>1, <1>2, <1>3, <1>5, MidStart DEF EncodeInv
<1>6. CASE level = "chain"
  <2>1. ReadInside
    BY <1>1, InputLen DEF InputInit, ReadInside, n
  <2> QED
    BY <1>1, <1>2, <1>3, <1>6, <2>1, ChainStart DEF EncodeInv
<1>7. CASE level = "opt"
  BY <1>1, <1>2, <1>3, <1>7, OptInvStart, PriceStart DEF EncodeInv
<1> QED
  BY <1>1, <1>4, <1>5, <1>6, <1>7, LevelsAssumption DEF LevelsAssumption

(* A step of a level is one at a place of that level.                        *)
LEMMA StepsApart ==
  /\ FastNext => pc \in {"fast", "fastBack", "fastEmit"}
  /\ MidNext => pc \in {"mid", "midLazy", "midBelow", "midEmit"}
  /\ ChainNext => pc \in {"turn", "search", "found", "emit2"}
  /\ OptNext => pc \in {"opt", "optCands", "optEmit"}
<1>1. FastNext => pc \in {"fast", "fastBack", "fastEmit"}
  BY DEF FastNext, FastProbe, FastBack, FastEmit
<1>2. MidNext => pc \in {"mid", "midLazy", "midBelow", "midEmit"}
  BY DEF MidNext, MidProbe, MidLazy, MidBelow, MidEmit
<1>3. ChainNext => pc \in {"turn", "search", "found", "emit2"}
  BY Zenon DEF ChainNext, Search, ChainTurn, ParseNext, Leave, Turn0, Turn2, Turn3, InLoop, Found0,
     Found2Last, Found2, Found3Last, Emit2, Found3Inside, Found3NoRoom, Found3
<1>4. OptNext => pc \in {"opt", "optCands", "optEmit"}
  BY DEF OptNext, OptWindowStart, OptInsert, OptCands, OptPrice, OptEmit
<1> QED
  BY <1>1, <1>2, <1>3, <1>4

(* What a step shows that starts and ends in such states.                    *)
EncodeShows ==
  /\ [EmitsOne]_<<out, anchor>>
  /\ [pc = "search" => SearchFinds \/ SearchFails]_vars
  /\ \/ UNCHANGED chainVars
     \/ IInv /\ [Next]_vars

LEMMA EncodeStep ==
  ASSUME EncodeInv, [EncodeNext \/ Returned]_encodeVars
  PROVE  EncodeInv' /\ EncodeShows
<1>1. CASE UNCHANGED encodeVars
  <2>1. /\ UNCHANGED fastAll /\ UNCHANGED midAll /\ UNCHANGED searchingVars /\ UNCHANGED optAll
        /\ UNCHANGED vars /\ UNCHANGED chainVars /\ UNCHANGED <<out, anchor>>
        /\ level' = level /\ reach' = reach /\ src' = src
    BY <1>1 DEF encodeVars, fastAll, midAll, searchingVars, optAll, vars
  <2>2. (Codes => Codes') /\ (Quiet => Quiet')
    BY <2>1 DEF Codes, Quiet, ChainInit, chainVars, heldVars
  <2>3. EncodeInv'
    BY <2>1, <2>2, FastStep, MidStep, ChainStep, ChainReads, OptStep, PriceStep DEF EncodeInv, ChainInv
  <2> QED
    BY <2>1, <2>3 DEF EncodeShows
<1>2. CASE EncodeNext
  <2>1. level' = level
    BY <1>2 DEF EncodeNext
  <2>2. CASE level = "fast" /\ FastInv /\ Codes /\ Quiet
    <3>1. pc \in {"fast", "fastBack", "fastEmit", "done"}
      BY <2>2 DEF FastInv
    <3>2. FastNext /\ UNCHANGED chainVars
      BY <1>2, <3>1, StepsApart DEF EncodeNext
    <3>3. FastInv' /\ [EmitsOne]_<<out, anchor>>
      BY <2>2, <3>2, FastStep
    <3>4. Codes'
      BY <2>2, <3>2, FastCodes
    <3>5. Quiet'
      BY <2>2, <3>2 DEF Quiet, ChainInit, chainVars, heldVars
    <3> QED
      BY <2>1, <2>2, <3>1, <3>2, <3>3, <3>4, <3>5 DEF EncodeInv, EncodeShows
  <2>3. CASE level \in {"mid", "lazy"} /\ MidInv /\ Codes /\ Quiet
    <3>1. pc \in {"mid", "midLazy", "midBelow", "midEmit", "done"}
      BY <2>3 DEF MidInv
    <3>2. MidNext /\ UNCHANGED chainVars
      BY <1>2, <3>1, StepsApart DEF EncodeNext
    <3>3. MidInv' /\ [EmitsOne]_<<out, anchor>>
      BY <2>3, <3>2, MidStep
    <3>4. Codes'
      BY <2>3, <3>2, MidCodes
    <3>5. Quiet'
      BY <2>3, <3>2 DEF Quiet, ChainInit, chainVars, heldVars
    <3> QED
      BY <2>1, <2>3, <3>1, <3>2, <3>3, <3>4, <3>5 DEF EncodeInv, EncodeShows
  <2>4. CASE level = "chain" /\ ChainInv /\ Codes /\ ReadInside
    <3>1. pc \in {"turn", "search", "found", "emit2", "done"} /\ IInv
      BY <2>4 DEF ChainInv, IInv, Typed
    <3>2. ChainNext
      BY <1>2, <3>1, StepsApart DEF EncodeNext
    <3>3. ChainInv' /\ [Next]_vars /\ [pc = "search" => SearchFinds \/ SearchFails]_vars
      BY <2>4, <3>2, ChainStep
    <3>4. [EmitsOne]_<<out, anchor>>
      BY <2>4, <3>2, <3>3, ChainEmits
    <3>5. Codes'
      BY <2>4, <3>2, <3>3, ChainCodes, Zenon
    <3>6. ReadInside'
      BY <2>4, <3>2, ChainReads DEF ChainInv
    <3> QED
      BY <2>1, <2>4, <3>1, <3>3, <3>4, <3>5, <3>6 DEF EncodeInv, EncodeShows
  <2>5. CASE level = "opt" /\ OptInv /\ PriceInv /\ Quiet
    <3>1. pc \in {"opt", "optCands", "optEmit", "done"}
      BY <2>5 DEF OptInv, OptPlaces
    <3>2. OptNext /\ UNCHANGED chainVars
      BY <1>2, <3>1, StepsApart DEF EncodeNext
    <3>3. OptInv' /\ PriceInv' /\ [EmitsOne]_<<out, anchor>>
      BY <2>5, <3>2, OptStep, PriceStep
    <3>4. Quiet'
      BY <2>5, <3>2 DEF Quiet, ChainInit, chainVars, heldVars
    <3> QED
      BY <2>1, <2>5, <3>1, <3>2, <3>3, <3>4 DEF EncodeInv, EncodeShows
  <2> QED
    BY <2>2, <2>3, <2>4, <2>5 DEF EncodeInv
<1> QED
  BY <1>1, <1>2 DEF Returned

LEMMA EncodeInvariance == EncodeSpec => []EncodeInv
BY EncodeStart, EncodeStep, PTL DEF EncodeSpec

(* Whatever the level, the input, the window, the hash and the sizes: what a *)
(* compressor wrote, decoded, is the input.                                  *)
THEOREM EncodedRoundTrip == EncodeSpec => []RoundTrip
<1>1. EncodeInv => RoundTrip
  BY CodesGiveBack DEF EncodeInv, OptInv
<1> QED
  BY <1>1, EncodeInvariance, PTL

(* No level hashes past the end of the input.                                *)
THEOREM EncodeReadsInside == EncodeSpec => []ReadsInside
<1>1. EncodeInv => ReadsInside
  <2>1. IInv => n \in Nat
    BY InputLen DEF IInv, Typed, n
  <2> QED
    BY <2>1 DEF EncodeInv, FastInv, MidInv, ReadInside, OptInv, OptPlaces, ReadsInside
<1> QED
  BY <1>1, EncodeInvariance, PTL

(* The optimal parse pays what it writes in the compressors together, too.   *)
THEOREM EncodePriceIsSize == EncodeSpec => []PriceIsSize
<1>1. EncodeInv => PriceIsSize
  <2>1. pc # "optEmit" => PriceIsSize
    BY DEF PriceIsSize
  <2>2. level # "opt" /\ EncodeInv => pc # "optEmit"
    BY DEF EncodeInv, FastInv, MidInv, ChainInv, IInv, Typed
  <2>3. level = "opt" /\ EncodeInv => OptInv /\ PriceInv
    BY DEF EncodeInv
  <2> QED
    BY <2>1, <2>2, <2>3, PriceKnown
<1> QED
  BY <1>1, EncodeInvariance, PTL

(* Every level that emits a match at a time emits what repeats, after what   *)
(* was emitted before it.                                                    *)
THEOREM EncodeEmitsRepeats == EncodeSpec => EmitsRepeats
<1>1. EncodeInv /\ [EncodeNext \/ Returned]_encodeVars => [EmitsOne]_<<out, anchor>>
  BY EncodeStep DEF EncodeShows
<1> QED
  BY <1>1, EncodeInvariance, PTL DEF EncodeSpec, EmitsRepeats

(* In the compressors together, too, the parse of the chain levels writes    *)
(* true matches, and its search answers what it is asked.                    *)
THEOREM EncodeMatchesTrue == EncodeSpec => []MatchesTrue /\ SearchImplements
<1>1. EncodeInv => MatchesTrue
  <2>1. IInv => MatchesTrue
    BY TrueInIs DEF IInv, TrueEmitted, MatchesTrue
  <2>2. Quiet => MatchesTrue
    BY DEF Quiet, ChainInit, MatchesTrue, None
  <2> QED
    BY <2>1, <2>2 DEF EncodeInv, ChainInv
<1>2. EncodeInv /\ [EncodeNext \/ Returned]_encodeVars
      => [pc = "search" => SearchFinds \/ SearchFails]_vars
  BY EncodeStep DEF EncodeShows
<1> QED
  BY <1>1, <1>2, EncodeInvariance, PTL DEF EncodeSpec, SearchImplements

(* And with matches of at least 4 bytes (LZ_MINMATCH) it searches forward.   *)
THEOREM EncodeSearchesForward ==
  ASSUME MinMatch >= 4
  PROVE  EncodeSpec => SearchesForward
<1>1. EncodeInv /\ [EncodeNext \/ Returned]_encodeVars
      => [ask' # ask => /\ ask'.pos > ask.pos /\ ask'.pos + MinMatch <= n
                        /\ anchor' <= ask'.low /\ ask'.low <= ask'.pos]_vars
  <2> SUFFICES ASSUME EncodeInv, [EncodeNext \/ Returned]_encodeVars
               PROVE  [ask' # ask => /\ ask'.pos > ask.pos /\ ask'.pos + MinMatch <= n
                                     /\ anchor' <= ask'.low /\ ask'.low <= ask'.pos]_vars
    OBVIOUS
  <2>1. CASE UNCHANGED chainVars
    BY <2>1 DEF chainVars
  <2>2. CASE IInv /\ [Next]_vars
    BY <2>2, AsksForward
  <2> QED
    BY <2>1, <2>2, EncodeStep DEF EncodeShows
<1> QED
  BY <1>1, EncodeInvariance, PTL DEF EncodeSpec, SearchesForward
================================================================================
