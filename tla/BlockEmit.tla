------------------------------- MODULE BlockEmit -------------------------------
(* What the compressors of sylzc.c share: the output streams, the reads a    *)
(* match finder makes, and emit_sequence. A hash table keeps positions       *)
(* modulo Window.                                                            *)
EXTENDS BlockInput

CONSTANTS
  ExactLL, ExactM, ExactPairs, Base,       \* of BlockFormat
  HashRead,      \* 8: the bytes read at a position to hash it,
  HashBytes,     \*   6 of which count
  Buckets,       \* the tables' indices
  Hash(_),       \* what is at a position, hashed
  Unset          \* what memory that is not cleared for a block holds

INSTANCE BlockFormat

(* FastEmit hashes the position after the last one a match may start at.     *)
ASSUME EmitAssumption ==
  HashBytes \in Nat /\ HashRead \in Nat /\ HashBytes <= HashRead /\ SearchTail > HashRead

ASSUME TokenAssumption ==
  /\ ExactLL \in Nat /\ ExactM \in Nat /\ Base \in Nat /\ Base = EscBoth
  /\ ExactPairs \in Seq((0 .. ExactLL) \X (0 .. ExactM))
  /\ Window <= (Base + 1) * (Base + 1)    \* a distance has two bytes

(* The shift that ends a hash leaves an index of the table.                  *)
ASSUME HashAssumption ==
  \A s \in Inputs : \A len \in {MinMatch, HashBytes} : \A i \in 0 .. Len(s) - len :
    Hash(SubSeq(s, i + 1, i + len)) \in Buckets

VARIABLES
  out,           \* the block so far: [ctrl, lit]
  reach          \* how far the input has been read to hash it

Bytes(i, k) == SubSeq(src, i + 1, i + k)

Further(a, b) == IF a < b THEN b ELSE a
MaxOf(S) == CHOOSE x \in S : \A y \in S : y <= x

HashLong(i) == Hash(Bytes(i, HashBytes))
HashShort(i) == Hash(Bytes(i, MinMatch))

Same(a, b) == SameBytes(a, b, MinMatch)                    \* read32 = read32

(* count_match: the common prefix of a and b, a not read at or past n.       *)
CountMatch(a, b) == MaxOf({k \in 0 .. n - a : SameBytes(a, b, k)})

(* How far a match of p and r can be extended back, p not before low.        *)
CountBack(p, r, low) == MaxOf({k \in 0 .. r : p - k >= low /\ SameBytes(p - k, r - k, k)})

Stored(p) == p % Window

(* Mistake: a whole window back is taken for here.                           *)
WrappedDist(p, s) == (p - s) % Window

(* fast_dist: the distance to the latest position that was stored as s.      *)
FastDist(p, s) == LET d == (p - s) % Window IN IF d = 0 THEN Window ELSE d

--------------------------------------------------------------------------------
(* emit_sequence.                                                            *)

ExtBytes(v) == (v \div Base) + 1
PutExt(v) == [i \in 1 .. ExtBytes(v) |-> IF i < ExtBytes(v) THEN Base ELSE v % Base]

(* ExactCode: the token of an exact pair, Base for none.                     *)
ExactCode(l, m) ==
  IF \E c \in 1 .. EscML : ExactPairs[c] = <<l, m>>
  THEN (CHOOSE c \in 1 .. EscML : ExactPairs[c] = <<l, m>>) - 1
  ELSE Base

TokenAndExt(l, m) ==
  CASE l <= ExactLL /\ ExactCode(l, m) # Base -> <<ExactCode(l, m), <<>>>>
    [] l <= ExactLL /\ ExactCode(l, m) = Base -> <<EscML + l, PutExt(m)>>
    [] l > ExactLL /\ m <= ExactM -> <<EscLL + m, PutExt(l)>>
    [] OTHER -> <<EscBoth, PutExt(l) \o PutExt(m)>>

(* The control bytes of a sequence; the distance keeps two bytes.            *)
ControlOf(l, dist, len) ==
  LET t == TokenAndExt(l, len - MinMatch) IN
  <<t[1], (dist - 1) % (Base + 1), ((dist - 1) \div (Base + 1)) % (Base + 1)>> \o t[2]

(* The block with a match of len bytes at p after the literals from `from`.  *)
EmitSequence(o, from, p, dist, len) ==
  [ctrl |-> o.ctrl \o ControlOf(p - from, dist, len), lit |-> o.lit \o Bytes(from, p - from)]

--------------------------------------------------------------------------------
(* No position is hashed so near the end that the hash reads past it,        *)
(* whatever the level looks ahead and however the match before it ended.     *)
ReadsInside == reach <= n

EmitsOne ==
  pc # "optEmit" =>
    /\ anchor' <= n
    /\ \E p \in anchor .. anchor' - MinMatch : \E dist \in 1 .. p :
         /\ dist <= Window
         /\ SameBytes(p, p - dist, anchor' - p)
         /\ out' = EmitSequence(out, anchor, p, dist, anchor' - p)

(* What a level emits at a time is the literals since the last match and one *)
(* that repeats, all along and at a distance a sequence can have, what lies  *)
(* before it: although its tables hold positions modulo Window of hashes     *)
(* that collide, and it was taken, given up, moved and extended since it was *)
(* compared. (Levels 9 and 10 emit a window at a time.)                      *)
EmitsRepeats == [][EmitsOne]_<<out, anchor>>
================================================================================
