------------------------------ MODULE BlockFormat ------------------------------
(* The control stream of a sylz block (sylz.pas:1-46, :71; the encoder and   *)
(* decoder of sylzc.c): a sequence is a token, a distance less one in two    *)
(* bytes, and the extensions the token asks for. Every number the format     *)
(* fixes is a parameter, so that small lengths reach every case.             *)
EXTENDS Integers, Sequences

CONSTANTS
  MinMatch,      \* MINMATCH: 4
  ExactLL,       \* EXACT_LL: 15, the literals an exact token can have
  ExactM,        \* EXACT_M: 28, its match length less MinMatch
  ExactPairs,    \* the (literals, match - MinMatch) pairs with a token: 210
  Base           \* 255: the byte an extension goes on after, the last token

EscML == Len(ExactPairs)
EscLL == EscML + ExactLL + 1
EscBoth == EscLL + ExactM + 1

ASSUME FormatAssumption ==
  /\ MinMatch \in Nat /\ ExactLL \in Nat /\ ExactM \in Nat /\ Base \in Nat
  /\ ExactPairs \in Seq((0 .. ExactLL) \X (0 .. ExactM))
  /\ Base = EscBoth

Byte == 0 .. Base

(* An entry of SYLZ_TOKENS: the two lengths, and which of them goes on.      *)
Token(c) ==
  CASE c < EscML   -> [ll |-> ExactPairs[c + 1][1],
                       ml |-> MinMatch + ExactPairs[c + 1][2],
                       llx |-> FALSE, mlx |-> FALSE]
    [] c \in EscML .. EscLL - 1
                   -> [ll |-> c - EscML, ml |-> MinMatch, llx |-> FALSE, mlx |-> TRUE]
    [] c \in EscLL .. EscBoth - 1
                   -> [ll |-> 0, ml |-> MinMatch + (c - EscLL), llx |-> TRUE, mlx |-> FALSE]
    [] OTHER       -> [ll |-> 0, ml |-> MinMatch, llx |-> TRUE, mlx |-> TRUE]

(* The distance in the bytes that follow the token at position c (from 0).   *)
Distance(ctrl, c) == ctrl[c + 2] + (Base + 1) * ctrl[c + 3] + 1
================================================================================
