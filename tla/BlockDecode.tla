------------------------------ MODULE BlockDecode ------------------------------
(* Decoding a sylz block as sylzc.c does it: decode_core's fast loop copies  *)
(* 16 and 8 bytes at a time, past the end of what it has to write, while     *)
(* wide margins are left in all three buffers, and decode_safe goes on byte  *)
(* by byte from wherever the fast loop stopped. Positions are offsets into   *)
(* their buffers. One step is one turn of one of the loops.                  *)
EXTENDS BlockFormat

CONSTANTS
  Half,                  \* 8, the bytes of copy8
  PtrMax,                \* INTPTR_MAX: 2^31 - 1 or 2^63 - 1
  Blocks,                \* the blocks that arrive: [ctrl, lit, len]
  Junk                   \* what a byte of the output is before it is written

Wide == 2 * Half         \* copy16

ASSUME DecodeAssumption ==
  /\ Half \in Nat \ {0} /\ PtrMax \in Nat
  /\ ExactLL <= Wide
  /\ MinMatch + ExactM <= 2 * Wide
  /\ \A b \in Blocks : b.ctrl \in Seq(Byte) /\ b.lit \in Seq(Nat) /\ b.len \in Nat

VARIABLES
  block,                 \* the block being decoded
  ctrl, lit, op,         \* control and literal bytes read, bytes written
  dst,                   \* the output buffer, from 0
  ll, ml, off,           \* the sequence: literals and match bytes left, distance
  m,                     \* where the extensions, then the match, are read
  pc,
  last,                  \* ctrl, lit and op at the end of the last sequence
  reach,                 \* how far each buffer has been read or written
  result                 \* "more", "ok" or "bad" (-1)

vars == <<block, ctrl, lit, op, dst, ll, ml, off, m, pc, last, reach, result>>

CEnd == Len(block.ctrl)
LEnd == Len(block.lit)
OEnd == block.len

(* The limits of the fast loop; a block too short has none.                  *)
CFast == IF CEnd >= 3 THEN CEnd - 3 ELSE -1
LFast == IF LEnd >= Wide THEN LEnd - Wide ELSE -1
OFast == IF OEnd >= 4 * Wide THEN OEnd - 4 * Wide ELSE -1

Control(i) == block.ctrl[i + 1]
TokenRead == Token(Control(last.ctrl))

(* The sum x of two lengths, as an intptr_t has it: beyond PtrMax it wraps   *)
(* (which C leaves undefined, and the compiled addition does).               *)
Wrap(x) == IF x > PtrMax THEN x - 2 * (PtrMax + 1) ELSE x

(* Mistake: the multiple below Half.                                         *)
PeriodBelow(d) == d * (Half \div d)

(* The smallest multiple of a short distance that is Half or more: for 8     *)
(* bytes the table {0, 8, 8, 9, 8, 10, 12, 14}.                              *)
Period(d) == d * ((Half + d - 1) \div d)

Further(a, b) == IF a < b THEN b ELSE a

(* n bytes from position i of a buffer to position d of the output, all read *)
(* before the first is written; reach tells what lies outside the buffers.   *)
LiteralAt(i) == IF i < LEnd THEN block.lit[i + 1] ELSE Junk
ByteAt(f, i) == IF i \in DOMAIN f THEN f[i] ELSE Junk
CopyLiterals(d, i, n) ==
  [k \in DOMAIN dst |-> IF k \in d .. d + n - 1 THEN LiteralAt(i + k - d) ELSE dst[k]]
Copied(f, d, i, n) ==
  [k \in DOMAIN f |-> IF k \in d .. d + n - 1 THEN ByteAt(f, i + k - d) ELSE f[k]]

ReachOut(n) == reach' = [reach EXCEPT !.out = Further(@, n)]
ReachCtrl(n) == reach' = [reach EXCEPT !.ctrl = Further(@, n)]
ReachLit(l, n) == reach' = [reach EXCEPT !.lit = Further(@, l), !.out = Further(@, n)]

Init ==
  /\ block \in Blocks
  /\ ctrl = 0 /\ lit = 0 /\ op = 0
  /\ dst = [i \in 0 .. block.len - 1 |-> Junk]
  /\ ll = 0 /\ ml = 0 /\ off = 0 /\ m = 0
  /\ pc = "fast"
  /\ last = [ctrl |-> 0, lit |-> 0, op |-> 0]
  /\ reach = [ctrl |-> 0, lit |-> 0, out |-> 0]
  /\ result = "more"

--------------------------------------------------------------------------------
(* decode_core.                                                              *)

InMargins == ctrl <= CFast /\ lit <= LFast /\ op <= OFast

FastLeave ==
  /\ pc = "fast"
  /\ ~InMargins
  /\ pc' = "safe"
  /\ UNCHANGED <<block, ctrl, lit, op, dst, ll, ml, off, m, last, reach, result>>

(* An exact token: its literals in one wide copy.                            *)
FastExact ==
  /\ pc = "fast"
  /\ InMargins
  /\ LET t == Token(Control(ctrl)) IN
     /\ ~t.llx /\ ~t.mlx
     /\ dst' = CopyLiterals(op, lit, Wide)
     /\ op' = op + t.ll
     /\ lit' = lit + t.ll
     /\ ll' = 0
     /\ ml' = t.ml
  /\ off' = Distance(block.ctrl, ctrl)
  /\ ctrl' = ctrl + 3
  /\ pc' = "match"
  /\ reach' = [ctrl |-> Further(reach.ctrl, ctrl + 3),
               lit |-> Further(reach.lit, lit + Wide),
               out |-> Further(reach.out, op + Wide)]
  /\ UNCHANGED <<block, m, last, result>>

(* A token with extensions: they are read through m, so that giving up       *)
(* leaves everything at the token.                                           *)
FastExtended ==
  /\ pc = "fast"
  /\ InMargins
  /\ LET t == Token(Control(ctrl)) IN
     /\ t.llx \/ t.mlx
     /\ ll' = t.ll
     /\ ml' = t.ml
     /\ pc' = IF t.llx THEN "fastLL" ELSE "fastML"
  /\ off' = Distance(block.ctrl, ctrl)
  /\ ctrl' = ctrl + 3
  /\ m' = ctrl + 3
  /\ ReachCtrl(ctrl + 3)
  /\ UNCHANGED <<block, lit, op, dst, last, result>>

(* A length that has wrapped is taken for one that was not all there.        *)
FastLL ==
  /\ pc = "fastLL"
  /\ IF m >= CEnd
     THEN /\ ll' = -1
          /\ pc' = "fastExt"
          /\ UNCHANGED <<m, reach>>
     ELSE /\ ll' = Wrap(ll + Control(m))
          /\ m' = m + 1
          /\ ReachCtrl(m + 1)
          /\ pc' = CASE Control(m) = Base -> "fastLL"
                     [] Control(m) # Base /\ TokenRead.mlx /\ ll' >= 0 -> "fastML"
                     [] OTHER -> "fastExt"
  /\ UNCHANGED <<block, ctrl, lit, op, dst, ml, off, last, result>>

FastML ==
  /\ pc = "fastML"
  /\ IF m >= CEnd
     THEN /\ ll' = -1
          /\ pc' = "fastExt"
          /\ UNCHANGED <<ml, m, reach>>
     ELSE /\ ml' = Wrap(ml + Control(m))
          /\ m' = m + 1
          /\ ReachCtrl(m + 1)
          /\ pc' = IF Control(m) = Base THEN "fastML" ELSE "fastExt"
          /\ UNCHANGED ll
  /\ UNCHANGED <<block, ctrl, lit, op, dst, off, last, result>>

(* Mistake: only the literals are measured.                                  *)
LiteralsTooLong == ll < 0 \/ ll > LFast - lit

TooLong ==
  \/ ll < 0
  \/ ll > LFast - lit
  \/ Wrap(ll + ml) > OFast - op + Wide

(* Lengths read: decode_safe redoes a sequence that is not whole or leaves   *)
(* the margins.                                                              *)
FastExt ==
  /\ pc = "fastExt"
  /\ IF TooLong
     THEN ctrl' = ctrl - 3 /\ pc' = "safe"
     ELSE ctrl' = m /\ pc' = "literals"
  /\ UNCHANGED <<block, lit, op, dst, ll, ml, off, m, last, reach, result>>

(* A turn of the literal copy; the last one goes too far by -ll and takes    *)
(* it back.                                                                  *)
FastLiterals ==
  /\ pc = "literals"
  /\ dst' = CopyLiterals(op, lit, Wide)
  /\ IF ll > Wide
     THEN op' = op + Wide /\ lit' = lit + Wide /\ pc' = pc
     ELSE op' = op + ll /\ lit' = lit + ll /\ pc' = "match"
  /\ ll' = ll - Wide
  /\ ReachLit(lit + Wide, op + Wide)
  /\ UNCHANGED <<block, ctrl, ml, off, m, last, result>>

--------------------------------------------------------------------------------
(* The match: op is where it is written, m where it is read.                 *)

EndOfSequence(o) == last' = [ctrl |-> ctrl, lit |-> lit, op |-> o]

BadDistance ==
  /\ pc = "match"
  /\ off > op
  /\ result' = "bad"
  /\ pc' = "done"
  /\ UNCHANGED <<block, ctrl, lit, op, dst, ll, ml, off, m, last, reach>>

(* Wide or more away: two wide copies at once, more of them if it is longer. *)
MatchFar ==
  /\ pc = "match"
  /\ off <= op
  /\ off >= Wide
  /\ dst' = Copied(Copied(dst, op, op - off, Wide), op + Wide, op - off + Wide, Wide)
  /\ IF ml > 2 * Wide
     THEN /\ op' = op + 2 * Wide
          /\ m' = op - off + 2 * Wide
          /\ ml' = ml - 2 * Wide
          /\ pc' = "far"
          /\ UNCHANGED last
     ELSE /\ op' = op + ml
          /\ m' = op - off
          /\ pc' = "fast"
          /\ EndOfSequence(op + ml)
          /\ UNCHANGED ml
  /\ ReachOut(op + 2 * Wide)
  /\ UNCHANGED <<block, ctrl, lit, ll, off, result>>

(* A turn of a copy of n bytes at a time; the last one takes back what it    *)
(* copied too much.                                                          *)
MatchTurn(n) ==
  /\ dst' = Copied(dst, op, m, n)
  /\ m' = m + n
  /\ ml' = ml - n
  /\ IF ml > n
     THEN op' = op + n /\ pc' = pc /\ UNCHANGED last
     ELSE op' = op + ml /\ pc' = "fast" /\ EndOfSequence(op + ml)
  /\ ReachOut(op + n)
  /\ UNCHANGED <<block, ctrl, lit, ll, off, result>>

MatchFarTurn == pc = "far" /\ MatchTurn(Wide)

MatchNear ==
  /\ pc = "match"
  /\ off <= op
  /\ off \in Half .. Wide - 1
  /\ m' = op - off
  /\ pc' = "near"
  /\ UNCHANGED <<block, ctrl, lit, op, dst, ll, ml, off, last, reach, result>>

(* Nearer than Half: the first Half bytes one by one, each after the one     *)
(* before it is written; then Half at a time from a multiple of the distance.*)
MatchNearest ==
  /\ pc = "match"
  /\ off <= op
  /\ off < Half
  /\ dst' = [k \in DOMAIN dst |->
               IF k \in op .. op + Half - 1 THEN ByteAt(dst, op - off + ((k - op) % off))
                                            ELSE dst[k]]
  /\ m' = op + Half - Period(off)
  /\ ml' = ml - Half
  /\ IF ml > Half
     THEN op' = op + Half /\ pc' = "near" /\ UNCHANGED last
     ELSE op' = op + ml /\ pc' = "fast" /\ EndOfSequence(op + ml)
  /\ ReachOut(op + Half)
  /\ UNCHANGED <<block, ctrl, lit, ll, off, result>>

MatchNearTurn == pc = "near" /\ MatchTurn(Half)

--------------------------------------------------------------------------------
(* decode_safe.                                                              *)

Refuse == result' = "bad" /\ pc' = "done"

SafeToken ==
  /\ pc = "safe"
  /\ ctrl < CEnd
  /\ IF CEnd - ctrl < 3
     THEN Refuse /\ UNCHANGED <<ctrl, ll, ml, off, reach>>
     ELSE /\ LET t == Token(Control(ctrl)) IN
             /\ ll' = t.ll
             /\ ml' = t.ml
             /\ pc' = CASE t.llx -> "safeLL"
                        [] ~t.llx /\ t.mlx -> "safeML"
                        [] OTHER -> "safeLiterals"
          /\ off' = Distance(block.ctrl, ctrl)
          /\ ctrl' = ctrl + 3
          /\ ReachCtrl(ctrl + 3)
          /\ UNCHANGED result
  /\ UNCHANGED <<block, lit, op, dst, m, last>>

SafeLL ==
  /\ pc = "safeLL"
  /\ IF ctrl >= CEnd
     THEN Refuse /\ UNCHANGED <<ctrl, ll, reach>>
     ELSE /\ ll' = Wrap(ll + Control(ctrl))
          /\ ctrl' = ctrl + 1
          /\ ReachCtrl(ctrl + 1)
          /\ pc' = CASE Control(ctrl) = Base -> "safeLL"
                     [] Control(ctrl) # Base /\ TokenRead.mlx -> "safeML"
                     [] OTHER -> "safeLiterals"
          /\ UNCHANGED result
  /\ UNCHANGED <<block, lit, op, dst, ml, off, m, last>>

SafeML ==
  /\ pc = "safeML"
  /\ IF ctrl >= CEnd
     THEN Refuse /\ UNCHANGED <<ctrl, ml, reach>>
     ELSE /\ ml' = Wrap(ml + Control(ctrl))
          /\ ctrl' = ctrl + 1
          /\ ReachCtrl(ctrl + 1)
          /\ pc' = IF Control(ctrl) = Base THEN "safeML" ELSE "safeLiterals"
          /\ UNCHANGED result
  /\ UNCHANGED <<block, lit, op, dst, ll, off, m, last>>

(* The literals byte by byte, then the checks of the match.                  *)
SafeLiterals ==
  /\ pc = "safeLiterals"
  /\ IF ll > LEnd - lit \/ ll > OEnd - op
     THEN Refuse /\ UNCHANGED <<lit, op, dst, m, reach>>
     ELSE /\ dst' = CopyLiterals(op, lit, ll)
          /\ op' = op + ll
          /\ lit' = lit + ll
          /\ ReachLit(lit + ll, op + ll)
          /\ IF off > op + ll \/ ml > OEnd - (op + ll)
             THEN Refuse /\ UNCHANGED m
             ELSE m' = op + ll - off /\ pc' = "safeMatch" /\ UNCHANGED result
  /\ UNCHANGED <<block, ctrl, ll, ml, off, last>>

SafeMatch ==
  /\ pc = "safeMatch"
  /\ IF ml > 0
     THEN /\ dst' = Copied(dst, op, m, 1)
          /\ op' = op + 1
          /\ m' = m + 1
          /\ ReachOut(op + 1)
          /\ UNCHANGED <<pc, last>>
     ELSE /\ pc' = "safe"
          /\ EndOfSequence(op)
          /\ UNCHANGED <<dst, op, m, reach>>
  /\ ml' = ml - 1
  /\ UNCHANGED <<block, ctrl, lit, ll, off, result>>

(* The rest of the literals is the block's tail.                             *)
SafeTail ==
  /\ pc = "safe"
  /\ ctrl >= CEnd
  /\ IF LEnd - lit # OEnd - op
     THEN Refuse /\ UNCHANGED <<lit, op, dst, last, reach>>
     ELSE /\ dst' = CopyLiterals(op, lit, LEnd - lit)
          /\ op' = OEnd
          /\ lit' = LEnd
          /\ last' = [ctrl |-> ctrl, lit |-> LEnd, op |-> OEnd]
          /\ ReachLit(LEnd, OEnd)
          /\ result' = "ok"
          /\ pc' = "done"
  /\ UNCHANGED <<block, ctrl, ll, ml, off, m>>

Next ==
  \/ FastLeave \/ FastExact \/ FastExtended \/ FastLL \/ FastML \/ FastExt
  \/ FastLiterals \/ BadDistance \/ MatchFar \/ MatchFarTurn
  \/ MatchNear \/ MatchNearest \/ MatchNearTurn
  \/ SafeToken \/ SafeLL \/ SafeML \/ SafeLiterals \/ SafeMatch \/ SafeTail

Spec == Init /\ [][Next]_vars

--------------------------------------------------------------------------------
(* Properties.                                                               *)

(* Where the next step copies.                                               *)
Copying ==
  \/ pc \in {"literals", "far", "near", "safeMatch"}
  \/ pc = "fast" /\ InMargins /\ LET t == Token(Control(ctrl)) IN ~t.llx /\ ~t.mlx

(* "Safe on corrupt input: never reads or writes out of bounds" (sylz.pas):  *)
(* no copy of the decoder reads or writes before a buffer or past its end.   *)
StaysInside ==
  /\ reach.ctrl <= CEnd /\ reach.lit <= LEnd /\ reach.out <= OEnd
  /\ Copying => lit >= 0 /\ op >= 0
  /\ pc \in {"far", "near", "safeMatch"} => m >= 0

(* An intptr_t holds every length that so many control bytes can ask for. On *)
(* 64 bits that is so of every block (MAX_BLOCK is 2^29), on 32 of those     *)
(* with up to some 8.4 million control bytes.                                *)
LengthsFit == MinMatch + ExactLL + ExactM + Base * CEnd <= PtrMax

(* However the lengths and distances of a block fall, the decoder stays      *)
(* inside its buffers: the margins of the fast loop hold for a whole         *)
(* sequence with everything its wide copies do too much.                     *)
InBounds == LengthsFit => StaysInside

(* The decoder is the byte by byte decoding of LzBlock: after every sequence *)
(* the same bytes are written, whichever loop did it, the same blocks are    *)
(* refused, and a decoded one ends with the whole output.                    *)
Decoding == INSTANCE LzBlock WITH
  at <- last.ctrl, taken <- last.lit, out <- [i \in 1 .. last.op |-> dst[i - 1]]

Decodes == Decoding!LzInit /\ [][LengthsFit => Decoding!LzNext]_(Decoding!lzVars)
================================================================================
