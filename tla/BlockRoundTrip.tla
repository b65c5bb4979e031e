----------------------------- MODULE BlockRoundTrip ----------------------------
(* What a decoder makes of the block as far as a compressor got with it:     *)
(* LzBlock's sequences, one after the other, until all control bytes are     *)
(* read or one cannot be.                                                    *)
EXTENDS BlockEmit

Lz == INSTANCE LzBlock WITH
  block <- [ctrl |-> out.ctrl, lit |-> out.lit, len |-> n],
  at <- 0, taken <- 0, out <- <<>>, result <- "more"

DecodeStep(d) ==
  LET s == Lz!Lengths(out.ctrl, d.at)
      p == d.out \o SubSeq(out.lit, d.taken + 1, d.taken + s.ll)
  IN  IF /\ d.at < Len(out.ctrl) /\ Lz!Whole(out.ctrl, d.at)
         /\ d.taken + s.ll <= Len(out.lit) /\ s.dist <= Len(p)
      THEN [at |-> s.next, taken |-> d.taken + s.ll, out |-> Lz!Repeat(p, s.dist, s.ml)]
      ELSE d

(* A sequence has a control byte or more.                                    *)
Decoded ==
  LET D[k \in 0 .. Len(out.ctrl)] ==
        IF k = 0 THEN [at |-> 0, taken |-> 0, out |-> <<>>] ELSE DecodeStep(D[k - 1])
  IN  D[Len(out.ctrl)]

(* What a level wrote, decoded, is the input: the positions of its tables    *)
(* are modulo Window and never cleared, its matches were moved, cut and      *)
(* extended, and lengths and distances go through the token's fields. The    *)
(* rest of the input is the tail's literals.                                 *)
RoundTrip ==
  pc = "done" =>
    LET d == Decoded IN
    /\ d.at = Len(out.ctrl)
    /\ d.out \o (SubSeq(out.lit, d.taken + 1, Len(out.lit)) \o Bytes(anchor, n - anchor)) = src
================================================================================
