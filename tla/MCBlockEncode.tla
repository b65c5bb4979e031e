----------------------------- MODULE MCBlockEncode -----------------------------
(* All inputs of the letters 0 and 1 of a length (the other half is the same *)
(* with the letters exchanged), some longer ones, and a hash with collisions.*)
EXTENDS BlockEncode

CONSTANTS Length, LongLength

MCExactPairs == << <<1, 1>> >>

RECURSIVE Total(_)
Total(s) == IF s = <<>> THEN 0 ELSE Head(s) + 2 * Total(Tail(s))

MCHash(s) == (3 * Total(s) + Total(s) \div 4) % 4

Short ==
  {[k \in 1 .. Length |-> IF k = 1 THEN 0 ELSE s[k]] : s \in [2 .. Length -> 0 .. 1]}

(* As binary numbers of LongLength digits: inputs in which the parse of the  *)
(* chain levels comes to a third match in each of its ways.                  *)
Chosen ==
  {73988, 116271, 120765, 131624, 147990, 148008, 161516, 181016, 266251, 267610, 296992,
   383933, 474343, 513981, 558080, 659562, 663587, 769527, 916960, 923650, 948686, 986115,
   986137, 986223, 1085705, 1114400, 1131016, 1234287, 1292150, 1327616, 1327624, 1348835,
   1539055, 1539070, 1539071, 1610026, 1727151, 1932279, 1964985, 2022863, 2022904, 2022909,
   2031068, 2031069, 2031087, 2060015}

MCInputs ==
  Short \cup {[k \in 1 .. LongLength |-> (x \div 2 ^ (LongLength - k)) % 2] : x \in Chosen}
================================================================================
