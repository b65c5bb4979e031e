------------------------------- MODULE BlockInput ------------------------------
(* The input of a compressor of sylzc.c, and how far it got: what lies       *)
(* before anchor is in the block; what is left from there on at the end is   *)
(* the block's tail. Positions are offsets into the input.                   *)
EXTENDS Integers, Sequences

CONSTANTS
  MinMatch,      \* MINMATCH: 4
  SearchTail,    \* 12: no match starts in the last bytes
  Window,        \* 65536: the distances a sequence can have
  Inputs         \* what there is to compress

ASSUME ParameterAssumption ==
  MinMatch \in Nat /\ SearchTail \in Nat /\ Window \in Nat /\ SearchTail >= MinMatch

ASSUME InputAssumption == \A s \in Inputs : s \in Seq({s[k] : k \in DOMAIN s})

VARIABLES
  src,           \* the input
  anchor,
  pc

n == Len(src)
(* Mistake: one position too many.                                           *)
LimitLate == n - SearchTail + 1

Limit == n - SearchTail                  \* mflimit
TooShort == n < SearchTail + 1

At(i) == src[i + 1]

InputInit == src \in Inputs /\ anchor = 0

SameBytes(p, r, len) == \A k \in 0 .. len - 1 : At(p + k) = At(r + k)
================================================================================
