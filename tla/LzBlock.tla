-------------------------------- MODULE LzBlock --------------------------------
(* What decoding a block means: sequence after sequence, each takes its      *)
(* literals from the front of the literal stream and then repeats what was   *)
(* written at its distance; the rest of the literals is the tail. A block    *)
(* that cannot be read so to its end is refused (sylz.pas:1-46).             *)
EXTENDS BlockFormat

VARIABLES
  block,                 \* any block: [ctrl, lit, len]; the caller stored len
  at,                    \* control bytes read
  taken,                 \* literals taken
  out,                   \* the decoded bytes
  result                 \* "more", "ok" or "bad"

lzVars == <<block, at, taken, out, result>>

(* The value of the extension that starts after `from` control bytes.        *)
Stops(c, from) == {q \in from + 1 .. Len(c) : c[q] # Base}
ExtLast(c, from) == CHOOSE q \in Stops(c, from) : \A r \in Stops(c, from) : q <= r
ExtValue(c, from) == Base * (ExtLast(c, from) - from - 1) + c[ExtLast(c, from)]

(* The sequence whose token is after `from` control bytes, if all of it is   *)
(* there.                                                                    *)
Lengths(c, from) ==
  LET t == Token(c[from + 1])
      mFrom == IF t.llx THEN ExtLast(c, from + 3) ELSE from + 3
  IN  [ll   |-> t.ll + (IF t.llx THEN ExtValue(c, from + 3) ELSE 0),
       ml   |-> t.ml + (IF t.mlx THEN ExtValue(c, mFrom) ELSE 0),
       dist |-> Distance(c, from),
       next |-> IF t.mlx THEN ExtLast(c, mFrom) ELSE mFrom]

Whole(c, from) ==
  /\ from + 3 <= Len(c)
  /\ LET t == Token(c[from + 1]) IN
     /\ t.llx => Stops(c, from + 3) # {}
     /\ t.mlx => Stops(c, IF t.llx THEN ExtLast(c, from + 3) ELSE from + 3) # {}

Fits(s) ==
  LET written == Len(out) + s.ll IN
  /\ taken + s.ll <= Len(block.lit)
  /\ s.dist <= written
  /\ written + s.ml <= block.len

(* n bytes more, repeating what is dist bytes before.                        *)
Repeat(o, dist, n) ==
  [i \in 1 .. Len(o) + n |->
     IF i <= Len(o) THEN o[i] ELSE o[Len(o) - dist + 1 + ((i - Len(o) - 1) % dist)]]

LzInit == at = 0 /\ taken = 0 /\ out = <<>> /\ result = "more"

LzSequence ==
  /\ result = "more"
  /\ at < Len(block.ctrl)
  /\ Whole(block.ctrl, at)
  /\ LET s == Lengths(block.ctrl, at) IN
     /\ Fits(s)
     /\ out' = Repeat(out \o SubSeq(block.lit, taken + 1, taken + s.ll), s.dist, s.ml)
     /\ taken' = taken + s.ll
     /\ at' = s.next
  /\ UNCHANGED <<block, result>>

LzTail ==
  /\ result = "more"
  /\ at = Len(block.ctrl)
  /\ Len(block.lit) - taken = block.len - Len(out)
  /\ out' = out \o SubSeq(block.lit, taken + 1, Len(block.lit))
  /\ taken' = Len(block.lit)
  /\ result' = "ok"
  /\ UNCHANGED <<block, at>>

LzRefuse ==
  /\ result = "more"
  /\ IF at < Len(block.ctrl)
     THEN Whole(block.ctrl, at) => ~Fits(Lengths(block.ctrl, at))
     ELSE Len(block.lit) - taken # block.len - Len(out)
  /\ result' = "bad"
  /\ UNCHANGED <<block, at, taken, out>>

LzNext == LzSequence \/ LzTail \/ LzRefuse

LzSpec == LzInit /\ [][LzNext]_lzVars
================================================================================
