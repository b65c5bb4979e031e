----------------------------- MODULE MCBlockDecode -----------------------------
(* Blocks of one to three sequences for BlockDecode: every kind of token,    *)
(* distances on both sides of Half and Wide and before the start of the      *)
(* output, extensions of one and of several bytes, written in full or cut    *)
(* off, with as many literals and as long an output as they ask for, or not. *)
EXTENDS BlockDecode

MCExactPairs == << <<0, 0>>, <<1, 2>>, <<5, 10>>, <<3, 6>> >>

(* Sequences as [c, ll, ml]: their bytes and what they ask for.              *)
Short == {<<0>>, <<7>>}
Long == {<<Base, 2>>}
Worth(e) == IF Len(e) = 1 THEN e[1] ELSE Base + e[2]

Plain(c, d) == [c |-> <<c, d - 1, 0>>, ll |-> Token(c).ll, ml |-> Token(c).ml]
LitExt(c, d, e) == [c |-> <<c, d - 1, 0>> \o e, ll |-> Worth(e), ml |-> Token(c).ml]
MatchExt(c, d, e) == [c |-> <<c, d - 1, 0>> \o e, ll |-> Token(c).ll, ml |-> MinMatch + Worth(e)]
BothExt(d, e, f) ==
  [c |-> <<EscBoth, d - 1, 0>> \o e \o f, ll |-> Worth(e), ml |-> MinMatch + Worth(f)]

First == {Plain(2, d) : d \in {1, 2, 4}}
         \cup {LitExt(EscLL + 6, d, e) : d \in {1, 2, 5}, e \in {<<8>>} \cup Long}
         \cup {BothExt(d, <<8>>, <<4>>) : d \in {2, 7}}
Later == {Plain(c, d) : c \in 0 .. 2, d \in {1, 2, 3, 5, 6, 8, 20}}
         \cup {LitExt(EscLL + 1, d, e) : d \in {3, 7}, e \in Short}
         \cup {MatchExt(EscML + 2, d, e) : d \in {1, 2, 4, 6, 9}, e \in Short \cup Long}
         \cup {BothExt(d, e, f) : d \in {2, 8}, e \in Short, f \in Short \cup Long}
Last == {Plain(1, 2), Plain(2, 6), MatchExt(EscML, 7, <<0>>), BothExt(5, <<3>>, <<Base, 0>>)}

Joined(s, t) == [c |-> s.c \o t.c, ll |-> s.ll + t.ll, ml |-> s.ml + t.ml]

Controls ==
  LET two == {Joined(f, l) : f \in First, l \in Later} IN
  First \cup two
  \cup {Joined(s, l) : s \in two, l \in Last}

(* Control bytes cut off, literals and output bytes to spare; in the last    *)
(* the output is too short for its matches.                                  *)
Endings == ({0, 1} \X {0, 8, 26} \X {0, 1}) \cup {<<0, 8, -9>>}

MCBlocks ==
  {[ctrl |-> SubSeq(s.c, 1, Len(s.c) - e[1]),
    lit |-> [i \in 1 .. s.ll + e[2] |-> i],
    len |-> s.ll + e[2] + s.ml + e[3]] : s \in Controls, e \in Endings}

(* Blocks with extensions of up to 30 bytes, so that lengths of 8 bits wrap  *)
(* while the buffers stay well below what 8 bits hold.                       *)
Stretched(k) == [j \in 1 .. k |-> IF j < k THEN Base ELSE 2]

MCLongBlocks ==
  {[ctrl |-> c, lit |-> [i \in 1 .. 16 |-> i], len |-> 48] :
     c \in {<<EscML + 3, 0, 0>> \o Stretched(k) \o <<0, 1, 0>> : k \in 1 .. 30}
       \cup {<<EscLL, 0, 0>> \o Stretched(k) \o <<0, 1, 0>> : k \in 1 .. 30}}
================================================================================
