---------------------------- MODULE BlockDecodeProofs --------------------------
(* The decoder, for every block however malformed, every width of its copies *)
(* and every table of lengths that fits them: none of its copies leaves the  *)
(* three buffers, because the margins hold a whole sequence with what its    *)
(* wide copies do too much; and it decodes what LzBlock decodes and refuses  *)
(* what LzBlock refuses, because a wide copy only reads a multiple of the    *)
(* distance before where it writes.                                          *)
EXTENDS BlockDecode, TLAPS, SequenceTheorems

Typed ==
  /\ block \in Blocks
  /\ ctrl \in Nat /\ lit \in Nat /\ op \in Nat
  /\ ll \in Int /\ ml \in Int /\ off \in Int /\ m \in Int
  /\ reach \in [ctrl : Int, lit : Int, out : Int]

Within == ctrl <= CEnd /\ lit <= LEnd /\ op <= OEnd

(* An extended token was read in the margins; ll is -1 when its extensions   *)
(* were not all there.                                                       *)
Extended ==
  pc \in {"fastLL", "fastML", "fastExt"} =>
    /\ ctrl >= 3 /\ lit <= LFast /\ op <= OFast
    /\ m \in Nat /\ m <= CEnd
    /\ off >= 1 /\ ml >= 0
    /\ pc = "fastLL" => ll >= 0

(* Room for the literals and the match, and a wide copy after each.          *)
Literals ==
  pc = "literals" =>
    /\ ll >= 0 /\ ml >= 0 /\ off >= 1
    /\ lit + ll + Wide <= LEnd
    /\ op + ll + ml + 3 * Wide <= OEnd

(* Room for two wide copies where the match starts, and for one where it     *)
(* ends.                                                                     *)
Matching ==
  /\ pc = "match" => ml >= 0 /\ off >= 1 /\ op + 3 * Wide <= OEnd /\ op + ml + Wide <= OEnd
  /\ pc \in {"far", "near"} => ml >= 0 /\ m >= 0 /\ op + ml + Wide <= OEnd

Safe ==
  /\ pc \in {"safeLL", "safeML", "safeLiterals"} => ll >= 0 /\ ml >= 0
  /\ pc = "safeMatch" => ml >= 0 /\ m >= 0 /\ op + ml <= OEnd

IInv == Typed /\ Within /\ StaysInside /\ Extended /\ Literals /\ Matching /\ Safe

(* Each control byte adds at most Base to the lengths, so that LengthsFit    *)
(* keeps them from wrapping.                                                 *)
Asked(x) == MinMatch + ExactLL + ExactM + Base * x
Short ==
  /\ pc \in {"fastLL", "fastML", "fastExt"} => ll >= -1 /\ ll + ml <= Asked(m)
  /\ pc = "fastML" => ll >= 0
  /\ pc \in {"safeLL", "safeML"} => ll + ml <= Asked(ctrl)

--------------------------------------------------------------------------------
LEMMA Widths ==
  /\ Half \in Nat /\ Half >= 1 /\ Wide \in Nat /\ Wide = 2 * Half
  /\ ExactLL \in Nat /\ ExactM \in Nat /\ MinMatch \in Nat /\ Base \in Nat
  /\ ExactLL <= Wide /\ MinMatch + ExactM <= 2 * Wide
BY DecodeAssumption, FormatAssumption DEF DecodeAssumption, FormatAssumption, Wide

LEMMA BlockFields ==
  ASSUME block \in Blocks
  PROVE  /\ CEnd \in Nat /\ LEnd \in Nat /\ OEnd \in Nat
         /\ \A i \in 0 .. CEnd - 1 : Control(i) \in Byte
BY DecodeAssumption DEF DecodeAssumption, CEnd, LEnd, OEnd, Control

LEMMA BytesAreNumbers == \A c \in Byte : c \in Nat
BY FormatAssumption DEF FormatAssumption, Byte

(* The lengths a token gives by itself.                                      *)
LEMMA TokenLengths ==
  ASSUME NEW c \in Byte
  PROVE  /\ Token(c).ll \in 0 .. ExactLL
         /\ Token(c).ml \in MinMatch .. MinMatch + ExactM
<1>1. /\ MinMatch \in Nat /\ ExactLL \in Nat /\ ExactM \in Nat /\ c \in Nat
      /\ EscML \in Nat /\ EscLL = EscML + ExactLL + 1 /\ EscBoth = EscLL + ExactM + 1
      /\ ExactPairs \in Seq((0 .. ExactLL) \X (0 .. ExactM))
  BY FormatAssumption, BytesAreNumbers DEF FormatAssumption, EscML, EscLL, EscBoth
<1>2. CASE c < EscML
  <2>1. ExactPairs[c + 1] \in (0 .. ExactLL) \X (0 .. ExactM)
    BY <1>1, <1>2 DEF EscML
  <2>2. Token(c).ll = ExactPairs[c + 1][1] /\ Token(c).ml = MinMatch + ExactPairs[c + 1][2]
    <3>1. ~(c \in EscML .. EscLL - 1) /\ ~(c \in EscLL .. EscBoth - 1)
      BY <1>1, <1>2
    <3>2. Token(c) = [ll |-> ExactPairs[c + 1][1], ml |-> MinMatch + ExactPairs[c + 1][2],
                      llx |-> FALSE, mlx |-> FALSE]
      BY <1>2, <3>1, Zenon DEF Token
    <3> QED
      BY <3>2
  <2>3. ExactPairs[c + 1][1] \in 0 .. ExactLL /\ ExactPairs[c + 1][2] \in 0 .. ExactM
    BY <2>1
  <2> QED
    BY <1>1, <2>2, <2>3
<1>3. CASE c \in EscML .. EscLL - 1
  <2>1. Token(c).ll = c - EscML /\ Token(c).ml = MinMatch
    BY <1>1, <1>3 DEF Token
  <2> QED
    BY <1>1, <1>3, <2>1
<1>4. CASE c \in EscLL .. EscBoth - 1
  <2>1. Token(c).ll = 0 /\ Token(c).ml = MinMatch + (c - EscLL)
    BY <1>1, <1>4 DEF Token
  <2> QED
    BY <1>1, <1>4, <2>1
<1>5. CASE c >= EscBoth
  <2>1. Token(c).ll = 0 /\ Token(c).ml = MinMatch
    BY <1>1, <1>5 DEF Token
  <2> QED
    BY <1>1, <2>1
<1> QED
  BY <1>1, <1>2, <1>3, <1>4, <1>5

LEMMA DistancePositive ==
  ASSUME block \in Blocks, NEW c \in Nat, c + 3 <= CEnd
  PROVE  Distance(block.ctrl, c) \in Int /\ Distance(block.ctrl, c) >= 1
<1>1. block.ctrl[c + 2] \in Byte /\ block.ctrl[c + 3] \in Byte
  BY DecodeAssumption DEF DecodeAssumption, CEnd
<1>2. block.ctrl[c + 2] \in Nat /\ block.ctrl[c + 3] \in Nat /\ Base \in Nat
  BY <1>1, BytesAreNumbers, Widths
<1>3. (Base + 1) * block.ctrl[c + 3] \in Nat
  BY <1>2
<1> QED
  BY <1>2, <1>3 DEF Distance

(* The start of the period the near copy goes on from is in the output.      *)
LEMMA PeriodBound ==
  ASSUME NEW d \in Nat, d >= 1
  PROVE  Period(d) \in Int /\ Period(d) <= Half + d - 1
<1>1. Half + d - 1 \in Nat
  BY Widths
<1>2. \A x \in Nat : x \div d \in Int /\ d * (x \div d) <= x
  OBVIOUS
<1> QED
  BY <1>1, <1>2, Widths DEF Period

(* What a step reads and writes, inside the buffers, keeps reach inside.     *)
LEMMA FurtherWithin ==
  ASSUME NEW a \in Int, NEW b \in Int, NEW c \in Int, a <= c, b <= c
  PROVE  Further(a, b) \in Int /\ Further(a, b) <= c
BY DEF Further

(* StaysInside, of one value of reach.                                       *)
Bounded(r) == r.ctrl <= CEnd /\ r.lit <= LEnd /\ r.out <= OEnd
ReachType == [ctrl : Int, lit : Int, out : Int]

LEMMA ReachWithin ==
  ASSUME block \in Blocks, reach \in ReachType, Bounded(reach),
         NEW c \in Int, NEW l \in Int, NEW o \in Int,
         c <= CEnd, l <= LEnd, o <= OEnd,
         reach' = [ctrl |-> Further(reach.ctrl, c), lit |-> Further(reach.lit, l),
                   out |-> Further(reach.out, o)]
  PROVE  reach' \in ReachType /\ Bounded(reach')
<1>1. reach.ctrl \in Int /\ reach.lit \in Int /\ reach.out \in Int
  BY DEF ReachType
<1>2. /\ Further(reach.ctrl, c) \in Int /\ Further(reach.ctrl, c) <= CEnd
      /\ Further(reach.lit, l) \in Int /\ Further(reach.lit, l) <= LEnd
      /\ Further(reach.out, o) \in Int /\ Further(reach.out, o) <= OEnd
  BY <1>1, BlockFields DEF Bounded, Further
<1> HIDE DEF Further
<1> QED
  BY <1>2 DEF ReachType, Bounded

LEMMA ReachForms ==
  ASSUME reach \in ReachType, NEW x \in Int, NEW y \in Int
  PROVE  /\ ReachCtrl(x) => reach' = [ctrl |-> Further(reach.ctrl, x),
                                      lit |-> Further(reach.lit, reach.lit),
                                      out |-> Further(reach.out, reach.out)]
         /\ ReachOut(x) => reach' = [ctrl |-> Further(reach.ctrl, reach.ctrl),
                                     lit |-> Further(reach.lit, reach.lit),
                                     out |-> Further(reach.out, x)]
         /\ ReachLit(x, y) => reach' = [ctrl |-> Further(reach.ctrl, reach.ctrl),
                                        lit |-> Further(reach.lit, x),
                                        out |-> Further(reach.out, y)]
<1>1. /\ Further(reach.ctrl, reach.ctrl) = reach.ctrl
      /\ Further(reach.lit, reach.lit) = reach.lit
      /\ Further(reach.out, reach.out) = reach.out
  BY DEF Further
<1> QED
  BY <1>1 DEF ReachType, ReachCtrl, ReachOut, ReachLit

LEMMA ReachesControl ==
  ASSUME block \in Blocks, reach \in ReachType, Bounded(reach),
         NEW x \in Int, x <= CEnd, ReachCtrl(x)
  PROVE  reach' \in ReachType /\ Bounded(reach')
<1>1. /\ reach.lit \in Int /\ reach.lit <= LEnd /\ reach.out \in Int /\ reach.out <= OEnd
  BY DEF ReachType, Bounded
<1> QED
  BY <1>1, ReachForms, ReachWithin

LEMMA ReachesOutput ==
  ASSUME block \in Blocks, reach \in ReachType, Bounded(reach),
         NEW x \in Int, x <= OEnd, ReachOut(x)
  PROVE  reach' \in ReachType /\ Bounded(reach')
<1>1. /\ reach.lit \in Int /\ reach.lit <= LEnd /\ reach.ctrl \in Int /\ reach.ctrl <= CEnd
  BY DEF ReachType, Bounded
<1> QED
  BY <1>1, ReachForms, ReachWithin

LEMMA ReachesLiterals ==
  ASSUME block \in Blocks, reach \in ReachType, Bounded(reach),
         NEW x \in Int, NEW y \in Int, x <= LEnd, y <= OEnd, ReachLit(x, y)
  PROVE  reach' \in ReachType /\ Bounded(reach')
<1>1. /\ reach.ctrl \in Int /\ reach.ctrl <= CEnd
  BY DEF ReachType, Bounded
<1> QED
  BY <1>1, ReachForms, ReachWithin

(* What every step starts from.                                              *)
LEMMA Facts ==
  ASSUME IInv
  PROVE  /\ block \in Blocks /\ CEnd \in Nat /\ LEnd \in Nat /\ OEnd \in Nat
         /\ ctrl \in Nat /\ lit \in Nat /\ op \in Nat
         /\ ll \in Int /\ ml \in Int /\ off \in Int /\ m \in Int
         /\ ctrl <= CEnd /\ lit <= LEnd /\ op <= OEnd
         /\ reach \in ReachType /\ Bounded(reach)
         /\ block' = block => CEnd' = CEnd /\ LEnd' = LEnd /\ OEnd' = OEnd
BY BlockFields DEF IInv, Typed, Within, StaysInside, ReachType, Bounded, CEnd, LEnd, OEnd

(* The limits, where the fast loop is inside them.                           *)
LEMMA Margins ==
  ASSUME IInv
  PROVE  /\ LFast \in Int /\ OFast \in Int /\ CFast \in Int
         /\ lit <= LFast => LFast = LEnd - Wide
         /\ op <= OFast => OFast = OEnd - 4 * Wide
         /\ ctrl <= CFast => ctrl + 3 <= CEnd
BY Facts, Widths DEF LFast, OFast, CFast

--------------------------------------------------------------------------------
(* Every action keeps the invariant.                                         *)

LEMMA FastExactInv ==
  ASSUME IInv, FastExact
  PROVE  IInv'
<1>1. /\ block' = block /\ pc' = "match" /\ m' = m
      /\ ctrl <= CFast /\ lit <= LFast /\ op <= OFast
      /\ op' = op + Token(Control(ctrl)).ll /\ lit' = lit + Token(Control(ctrl)).ll
      /\ ll' = 0 /\ ml' = Token(Control(ctrl)).ml /\ ctrl' = ctrl + 3
      /\ off' = Distance(block.ctrl, ctrl)
      /\ reach' = [ctrl |-> Further(reach.ctrl, ctrl + 3),
                   lit |-> Further(reach.lit, lit + Wide),
                   out |-> Further(reach.out, op + Wide)]
  BY DEF FastExact, InMargins
<1>2. /\ ctrl + 3 <= CEnd /\ lit + Wide <= LEnd /\ op + 4 * Wide <= OEnd
  BY <1>1, Facts, Margins, Widths
<1>3. Control(ctrl) \in Byte
  BY <1>2, Facts, BlockFields
<1> DEFINE tl == Token(Control(ctrl)).ll
           tm == Token(Control(ctrl)).ml
<1>4. /\ tl \in Nat /\ tl <= Wide /\ tm \in Nat /\ tm <= 2 * Wide
  BY <1>3, TokenLengths, Widths
<1>5. op' = op + tl /\ lit' = lit + tl /\ ml' = tm
  BY <1>1
<1> HIDE DEF tl, tm
<1>6. off' \in Int /\ off' >= 1
  BY <1>1, <1>2, DistancePositive, Facts
<1>7. reach' \in ReachType /\ Bounded(reach')
  <2>1. op + Wide <= OEnd /\ op + Wide \in Int /\ lit + Wide \in Int /\ ctrl + 3 \in Int
    BY <1>2, Facts, Widths
  <2> QED
    BY <1>1, <1>2, <2>1, Facts, ReachWithin
<1>8. Typed' /\ StaysInside'
  BY <1>1, <1>4, <1>5, <1>6, <1>7, Facts DEF Typed, StaysInside, Bounded, ReachType
<1>9. Within'
  BY <1>1, <1>2, <1>4, <1>5, Facts, Widths DEF Within
<1>10. Matching'
  BY <1>1, <1>2, <1>4, <1>5, <1>6, Facts, Widths DEF Matching
<1> QED
  BY <1>1, <1>8, <1>9, <1>10 DEF IInv, Extended, Literals, Safe

LEMMA FastExtendedInv ==
  ASSUME IInv, FastExtended
  PROVE  IInv'
<1>1. /\ block' = block /\ pc' \in {"fastLL", "fastML"} /\ m' = ctrl + 3
      /\ lit' = lit /\ op' = op
      /\ ctrl <= CFast /\ lit <= LFast /\ op <= OFast
      /\ ll' = Token(Control(ctrl)).ll /\ ml' = Token(Control(ctrl)).ml /\ ctrl' = ctrl + 3
      /\ off' = Distance(block.ctrl, ctrl) /\ ReachCtrl(ctrl + 3)
  BY DEF FastExtended, InMargins
<1>2. /\ ctrl + 3 <= CEnd
  BY <1>1, Facts, Margins
<1>3. Control(ctrl) \in Byte
  BY <1>2, Facts, BlockFields
<1>4. ll' \in Nat /\ ml' \in Nat
  BY <1>1, <1>3, TokenLengths, Widths
<1>5. off' \in Int /\ off' >= 1
  BY <1>1, <1>2, DistancePositive, Facts
<1>6. reach' \in ReachType /\ Bounded(reach')
  BY <1>1, <1>2, Facts, ReachesControl
<1>7. Typed' /\ StaysInside' /\ Within'
  BY <1>1, <1>2, <1>4, <1>5, <1>6, Facts DEF Typed, StaysInside, Bounded, ReachType, Within
<1>8. LFast' = LFast /\ OFast' = OFast
  BY <1>1, Facts DEF LFast, OFast
<1>9. Extended'
  BY <1>1, <1>2, <1>4, <1>5, <1>8, Facts DEF Extended
<1> QED
  BY <1>1, <1>7, <1>9 DEF IInv, Literals, Matching, Safe

(* One more control byte is one more of the block's, and its lengths fit.    *)
LEMMA AskedMore ==
  ASSUME block \in Blocks, LengthsFit, NEW x \in Nat, x <= CEnd
  PROVE  /\ Asked(x) \in Nat /\ Asked(x) <= PtrMax
         /\ x < CEnd => Asked(x + 1) = Asked(x) + Base /\ Asked(x + 1) <= PtrMax
<1>1. Base \in Nat /\ CEnd \in Nat /\ MinMatch + ExactLL + ExactM \in Nat /\ PtrMax \in Nat
  BY Widths, BlockFields, DecodeAssumption DEF DecodeAssumption
<1>2. \A a, y, z \in Nat : y <= z => a * y \in Nat /\ a * y <= a * z
  <2> SUFFICES ASSUME NEW a \in Nat, NEW y \in Nat, NEW z \in Nat, y <= z
               PROVE  a * y \in Nat /\ a * y <= a * z
    OBVIOUS
  <2>1. PICK d \in Nat : z = y + d
    <3>1. z - y \in Nat /\ z = y + (z - y)
      OBVIOUS
    <3> QED
      BY <3>1
  <2>2. a * z = a * y + a * d /\ a * d \in Nat /\ a * y \in Nat
    BY <2>1
  <2> QED
    BY <2>2
<1>3. Base * x \in Nat /\ Base * x <= Base * CEnd
  BY <1>1, <1>2
<1>4. x < CEnd => Base * (x + 1) \in Nat /\ Base * (x + 1) <= Base * CEnd
  BY <1>1, <1>2
<1>5. Base * (x + 1) = Base * x + Base
  BY <1>1
<1>6. Base * CEnd \in Nat
  BY <1>1
<1> QED
  BY <1>1, <1>3, <1>4, <1>5, <1>6 DEF Asked, LengthsFit

(* A control byte is at most Base, and what it adds to a length fits.        *)
LEMMA Unwrapped ==
  ASSUME block \in Blocks, LengthsFit, NEW x \in Nat, x < CEnd,
         NEW a \in Nat, NEW b \in Nat, a + b <= Asked(x)
  PROVE  /\ Control(x) \in 0 .. Base
         /\ Wrap(a + Control(x)) = a + Control(x)
         /\ (a + Control(x)) + b <= Asked(x + 1)
<1>1. Control(x) \in 0 .. Base
  BY BlockFields DEF Byte
<1>2. Asked(x) \in Nat /\ Asked(x + 1) = Asked(x) + Base /\ Asked(x + 1) <= PtrMax
  BY BlockFields, AskedMore
<1>3. Base \in Nat /\ PtrMax \in Nat
  BY Widths, DecodeAssumption DEF DecodeAssumption
<1>4. a + Control(x) <= PtrMax
  BY <1>1, <1>2, <1>3
<1> QED
  BY <1>1, <1>2, <1>3, <1>4 DEF Wrap

(* A turn of decode_core's loops over the extension bytes.                   *)
LEMMA FastLLTurn ==
  ASSUME IInv, Short, LengthsFit, FastLL, ~(m >= CEnd)
  PROVE  /\ m' = m + 1 /\ ll' = ll + Control(m)
         /\ pc' = CASE Control(m) = Base -> "fastLL"
                    [] Control(m) # Base /\ TokenRead.mlx -> "fastML"
                    [] OTHER -> "fastExt"
         /\ ll' >= 0 /\ ll' + ml <= Asked(m + 1)
<1>1. /\ ll \in Nat /\ ml \in Nat /\ ll + ml <= Asked(m) /\ m \in Nat /\ m < CEnd
  BY Facts DEF FastLL, Short, IInv, Extended
<1>2. /\ Wrap(ll + Control(m)) = ll + Control(m) /\ Control(m) \in Nat
      /\ (ll + Control(m)) + ml <= Asked(m + 1)
  BY <1>1, Facts, Unwrapped, Widths
<1>3. ll' = ll + Control(m) /\ ll' >= 0
  BY <1>1, <1>2 DEF FastLL
<1>4. /\ m' = m + 1
      /\ pc' = CASE Control(m) = Base -> "fastLL"
                 [] Control(m) # Base /\ TokenRead.mlx /\ ll' >= 0 -> "fastML"
                 [] OTHER -> "fastExt"
  BY <1>1, Zenon DEF FastLL
<1> QED
  BY <1>2, <1>3, <1>4

LEMMA FastMLTurn ==
  ASSUME IInv, Short, LengthsFit, FastML, ~(m >= CEnd)
  PROVE  /\ m' = m + 1 /\ Wrap(ml + Control(m)) = ml + Control(m) /\ ml' = ml + Control(m)
         /\ ll' = ll /\ ll >= 0 /\ ll + ml' <= Asked(m + 1)
<1>1. /\ ll \in Nat /\ ml \in Nat /\ ml + ll <= Asked(m) /\ m \in Nat /\ m < CEnd
  BY Facts DEF FastML, Short, IInv, Extended
<1>2. /\ Wrap(ml + Control(m)) = ml + Control(m) /\ Control(m) \in Nat
      /\ (ml + Control(m)) + ll <= Asked(m + 1)
  BY <1>1, Facts, Unwrapped, Widths
<1>3. m' = m + 1 /\ ml' = ml + Control(m) /\ ll' = ll
  BY <1>1, <1>2 DEF FastML
<1> QED
  BY <1>1, <1>2, <1>3

LEMMA FastExtensionInv ==
  ASSUME IInv, Short, LengthsFit, FastLL \/ FastML
  PROVE  IInv'
<1>1. /\ block' = block /\ lit' = lit /\ op' = op /\ ctrl' = ctrl /\ off' = off
      /\ pc' \in {"fastLL", "fastML", "fastExt"} /\ pc \in {"fastLL", "fastML"}
  BY DEF FastLL, FastML
<1>2. /\ ctrl >= 3 /\ lit <= LFast /\ op <= OFast /\ m \in Nat /\ m <= CEnd
      /\ off >= 1 /\ ml >= 0
      /\ pc = "fastLL" => ll >= 0
  BY <1>1 DEF IInv, Extended
<1>3. /\ m' \in Nat /\ m' <= CEnd /\ ml' \in Nat /\ ll' \in Int
      /\ pc' = "fastLL" => ll' >= 0
      /\ reach' \in ReachType /\ Bounded(reach')
  <2>1. CASE m >= CEnd
    <3>1. m' = m /\ ml' = ml /\ ll' = -1 /\ reach' = reach /\ pc' = "fastExt"
      BY <2>1 DEF FastLL, FastML
    <3> QED
      BY <1>2, <3>1, Facts DEF Bounded
  <2>2. CASE ~(m >= CEnd)
    <3>1. m + 1 <= CEnd /\ Control(m) \in Byte
      BY <1>2, <2>2, Facts, BlockFields
    <3>2. Control(m) \in Nat
      BY <3>1, BytesAreNumbers
    <3>3. m' = m + 1 /\ ReachCtrl(m + 1)
      BY <2>2 DEF FastLL, FastML
    <3>4. reach' \in ReachType /\ Bounded(reach')
      BY <1>2, <3>1, <3>3, Facts, ReachesControl
    <3>5. CASE FastLL
      <4>1. ll' = ll + Control(m) /\ ml' = ml /\ ll >= 0
        BY <1>2, <2>2, <3>5, FastLLTurn DEF FastLL
      <4> QED
        BY <1>2, <3>1, <3>2, <3>3, <3>4, <4>1, Facts
    <3>6. CASE FastML
      <4>1. ml' = ml + Control(m) /\ ll' = ll /\ pc' # "fastLL"
        BY <2>2, <3>6, FastMLTurn DEF FastML
      <4> QED
        BY <1>2, <3>1, <3>2, <3>3, <3>4, <4>1, Facts
    <3> QED
      BY <3>5, <3>6
  <2> QED
    BY <2>1, <2>2
<1>4. Typed' /\ StaysInside' /\ Within'
  BY <1>1, <1>3, Facts DEF Typed, StaysInside, Bounded, ReachType, Within
<1>5. LFast' = LFast /\ OFast' = OFast
  BY <1>1, Facts DEF LFast, OFast
<1>6. Extended'
  BY <1>1, <1>2, <1>3, <1>5, Facts DEF Extended
<1> QED
  BY <1>1, <1>4, <1>6 DEF IInv, Literals, Matching, Safe

LEMMA UnwrappedSum ==
  ASSUME IInv, Short, LengthsFit, pc = "fastExt"
  PROVE  Wrap(ll + ml) = ll + ml
<1>1. ll + ml <= Asked(m) /\ m \in Nat /\ m <= CEnd
  BY DEF Short, IInv, Extended
<1>2. Asked(m) <= PtrMax /\ Asked(m) \in Nat
  BY <1>1, Facts, AskedMore
<1>3. PtrMax \in Nat
  BY DecodeAssumption DEF DecodeAssumption
<1> QED
  BY <1>1, <1>2, <1>3, Facts DEF Wrap

LEMMA FastExtInv ==
  ASSUME IInv, Short, LengthsFit, FastExt
  PROVE  IInv'
<1>1. /\ block' = block /\ lit' = lit /\ op' = op /\ ll' = ll /\ ml' = ml /\ off' = off
      /\ m' = m /\ reach' = reach /\ pc = "fastExt"
      /\ IF TooLong THEN ctrl' = ctrl - 3 /\ pc' = "safe" ELSE ctrl' = m /\ pc' = "literals"
  BY DEF FastExt
<1>2. /\ ctrl >= 3 /\ lit <= LFast /\ op <= OFast /\ m \in Nat /\ m <= CEnd
      /\ off >= 1 /\ ml >= 0
  BY <1>1 DEF IInv, Extended
<1>3. Typed' /\ StaysInside' /\ Within'
  BY <1>1, <1>2, Facts DEF Typed, StaysInside, Bounded, ReachType, Within
<1>4. Literals'
  <2>1. Wrap(ll + ml) = ll + ml
    BY <1>1, <1>2, UnwrappedSum
  <2>2. ~TooLong => ll >= 0 /\ ll <= LFast - lit /\ ll + ml <= OFast - op + Wide
    BY <1>2, <2>1, Facts, Margins, Widths DEF TooLong
  <2> QED
    BY <1>1, <1>2, <2>2, Facts, Margins, Widths DEF Literals
<1> QED
  BY <1>1, <1>3, <1>4 DEF IInv, Extended, Matching, Safe

LEMMA FastLiteralsInv ==
  ASSUME IInv, FastLiterals
  PROVE  IInv'
<1>1. /\ block' = block /\ ctrl' = ctrl /\ ml' = ml /\ off' = off /\ m' = m
      /\ ReachLit(lit + Wide, op + Wide) /\ ll' = ll - Wide
      /\ IF ll > Wide
         THEN op' = op + Wide /\ lit' = lit + Wide /\ pc' = "literals"
         ELSE op' = op + ll /\ lit' = lit + ll /\ pc' = "match"
  BY DEF FastLiterals
<1>2. /\ ll >= 0 /\ ml >= 0 /\ off >= 1
      /\ lit + ll + Wide <= LEnd /\ op + ll + ml + 3 * Wide <= OEnd
  BY DEF IInv, Literals, FastLiterals
<1>3. reach' \in ReachType /\ Bounded(reach')
  <2>1. /\ lit + Wide \in Int /\ op + Wide \in Int /\ lit + Wide <= LEnd /\ op + Wide <= OEnd
    BY <1>2, Facts, Widths
  <2> QED
    BY <1>1, <2>1, Facts, ReachesLiterals
<1>4. Within' /\ Literals' /\ Matching' /\ op' \in Nat /\ lit' \in Nat /\ ll' \in Int
      /\ pc' \in {"literals", "match"}
  <2>1. CASE ll > Wide
    BY <1>1, <1>2, <2>1, Facts, Widths DEF Within, Literals, Matching
  <2>2. CASE ~(ll > Wide)
    BY <1>1, <1>2, <2>2, Facts, Widths DEF Within, Literals, Matching
  <2> QED
    BY <2>1, <2>2
<1>5. Typed' /\ StaysInside'
  BY <1>1, <1>3, <1>4, Facts DEF Typed, StaysInside, Bounded, ReachType
<1> QED
  BY <1>4, <1>5 DEF IInv, Extended, Safe

LEMMA MatchFarInv ==
  ASSUME IInv, MatchFar
  PROVE  IInv'
<1>1. /\ block' = block /\ ctrl' = ctrl /\ lit' = lit /\ ll' = ll /\ off' = off
      /\ off <= op /\ ReachOut(op + 2 * Wide)
      /\ IF ml > 2 * Wide
         THEN /\ op' = op + 2 * Wide /\ m' = op - off + 2 * Wide
              /\ ml' = ml - 2 * Wide /\ pc' = "far"
         ELSE op' = op + ml /\ m' = op - off /\ pc' = "fast" /\ ml' = ml
  BY DEF MatchFar
<1>2. ml >= 0 /\ op + 3 * Wide <= OEnd /\ op + ml + Wide <= OEnd
  BY DEF IInv, Matching, MatchFar
<1>3. reach' \in ReachType /\ Bounded(reach')
  <2>1. op + 2 * Wide \in Int /\ op + 2 * Wide <= OEnd
    BY <1>2, Facts, Widths
  <2> QED
    BY <1>1, <2>1, Facts, ReachesOutput
<1>4. /\ Within' /\ Matching' /\ op' \in Nat /\ ml' \in Int /\ m' \in Int
      /\ pc' \in {"far", "fast"}
  BY <1>1, <1>2, Facts, Widths DEF Within, Matching
<1>5. Typed' /\ StaysInside'
  <2>1. pc' = "far" => m' >= 0
    BY <1>4 DEF Matching
  <2> QED
    BY <1>1, <1>3, <1>4, <2>1, Facts DEF Typed, StaysInside, Bounded, ReachType
<1> QED
  BY <1>4, <1>5 DEF IInv, Extended, Literals, Safe

(* A turn of a copy of n bytes, no wider than the room behind the match.     *)
LEMMA MatchTurnInv ==
  ASSUME IInv, pc \in {"far", "near"}, NEW w \in Nat, w <= Wide, MatchTurn(w)
  PROVE  IInv'
<1>1. /\ block' = block /\ ctrl' = ctrl /\ lit' = lit /\ ll' = ll /\ off' = off
      /\ ReachOut(op + w) /\ m' = m + w /\ ml' = ml - w
      /\ IF ml > w THEN op' = op + w /\ pc' = pc ELSE op' = op + ml /\ pc' = "fast"
  BY DEF MatchTurn
<1>2. ml >= 0 /\ m >= 0 /\ op + ml + Wide <= OEnd
  BY DEF IInv, Matching
<1>3. reach' \in ReachType /\ Bounded(reach')
  <2>1. op + w \in Int /\ op + w <= OEnd
    BY <1>2, Facts, Widths
  <2> QED
    BY <1>1, <2>1, Facts, ReachesOutput
<1>4. /\ Within' /\ Matching' /\ op' \in Nat /\ ml' \in Int /\ m' \in Nat
      /\ pc' \in {"far", "near", "fast"}
  BY <1>1, <1>2, Facts, Widths DEF Within, Matching
<1>5. Typed' /\ StaysInside'
  BY <1>1, <1>3, <1>4, Facts DEF Typed, StaysInside, Bounded, ReachType
<1> QED
  BY <1>4, <1>5 DEF IInv, Extended, Literals, Safe

LEMMA MatchNearestInv ==
  ASSUME IInv, MatchNearest
  PROVE  IInv'
<1>1. /\ block' = block /\ ctrl' = ctrl /\ lit' = lit /\ ll' = ll /\ off' = off
      /\ off <= op /\ ReachOut(op + Half)
      /\ m' = op + Half - Period(off) /\ ml' = ml - Half
      /\ IF ml > Half THEN op' = op + Half /\ pc' = "near" ELSE op' = op + ml /\ pc' = "fast"
  BY DEF MatchNearest
<1>2. ml >= 0 /\ off >= 1 /\ op + 3 * Wide <= OEnd /\ op + ml + Wide <= OEnd
  BY DEF IInv, Matching, MatchNearest
<1>3. m' \in Int /\ m' >= 0
  <2>1. off \in Nat
    BY <1>2, Facts
  <2>2. Period(off) \in Int /\ Period(off) <= Half + off - 1
    BY <1>2, <2>1, PeriodBound
  <2> QED
    BY <1>1, <2>1, <2>2, Facts, Widths
<1>4. reach' \in ReachType /\ Bounded(reach')
  <2>1. op + Half \in Int /\ op + Half <= OEnd
    BY <1>2, Facts, Widths
  <2> QED
    BY <1>1, <2>1, Facts, ReachesOutput
<1>5. /\ Within' /\ Matching' /\ op' \in Nat /\ ml' \in Int
      /\ pc' \in {"near", "fast"}
  BY <1>1, <1>2, <1>3, Facts, Widths DEF Within, Matching
<1>6. Typed' /\ StaysInside'
  BY <1>1, <1>3, <1>4, <1>5, Facts DEF Typed, StaysInside, Bounded, ReachType
<1> QED
  BY <1>5, <1>6 DEF IInv, Extended, Literals, Safe

LEMMA MatchNearInv ==
  ASSUME IInv, MatchNear
  PROVE  IInv'
<1>1. /\ block' = block /\ ctrl' = ctrl /\ lit' = lit /\ ll' = ll /\ off' = off
      /\ op' = op /\ ml' = ml /\ reach' = reach
      /\ off <= op /\ m' = op - off /\ pc' = "near"
  BY DEF MatchNear
<1>2. ml >= 0 /\ op + ml + Wide <= OEnd
  BY DEF IInv, Matching, MatchNear
<1>3. m' \in Int /\ m' >= 0
  BY <1>1, Facts
<1>4. Typed' /\ StaysInside' /\ Within' /\ Matching'
  BY <1>1, <1>2, <1>3, Facts DEF Typed, StaysInside, Bounded, ReachType, Within, Matching
<1> QED
  BY <1>1, <1>4 DEF IInv, Extended, Literals, Safe

LEMMA UnwrappedSafe ==
  ASSUME IInv, Short, LengthsFit, pc \in {"safeLL", "safeML"}, ~(ctrl >= CEnd)
  PROVE  /\ Wrap(ll + Control(ctrl)) = ll + Control(ctrl)
         /\ Wrap(ml + Control(ctrl)) = ml + Control(ctrl)
         /\ (ll + Control(ctrl)) + ml <= Asked(ctrl + 1)
         /\ ll + (ml + Control(ctrl)) <= Asked(ctrl + 1)
<1>1. ll \in Nat /\ ml \in Nat /\ ll + ml <= Asked(ctrl) /\ ctrl \in Nat /\ ctrl < CEnd
  BY Facts DEF Short, IInv, Safe
<1>2. ml + ll <= Asked(ctrl)
  BY <1>1
<1>3. Control(ctrl) \in Nat
  BY <1>1, Facts, Unwrapped
<1> QED
  BY <1>1, <1>2, <1>3, Facts, Unwrapped

LEMMA SafeReadInv ==
  ASSUME IInv, Short, LengthsFit, SafeToken \/ SafeLL \/ SafeML
  PROVE  IInv'
<1>1. /\ block' = block /\ lit' = lit /\ op' = op /\ m' = m
      /\ pc' \in {"safeLL", "safeML", "safeLiterals", "done"}
  BY DEF SafeToken, SafeLL, SafeML, Refuse
<1>2. /\ ctrl' \in Nat /\ ctrl' <= CEnd /\ ll' \in Int /\ ml' \in Int /\ off' \in Int
      /\ reach' \in ReachType /\ Bounded(reach')
      /\ pc' # "done" => ll' >= 0 /\ ml' >= 0
  <2>1. CASE pc' = "done"
    <3>1. ctrl' = ctrl /\ ll' = ll /\ ml' = ml /\ off' = off /\ reach' = reach
      <4>1. CASE SafeToken
        BY <2>1, <4>1 DEF SafeToken, Refuse
      <4>2. CASE SafeLL
        BY <2>1, <4>2 DEF SafeLL, Refuse
      <4>3. CASE SafeML
        BY <2>1, <4>3 DEF SafeML, Refuse
      <4> QED
        BY <4>1, <4>2, <4>3
    <3> QED
      BY <2>1, <3>1, Facts
  <2>2. CASE SafeToken /\ pc' # "done"
    <3>1. /\ ~(CEnd - ctrl < 3)
          /\ ll' = Token(Control(ctrl)).ll /\ ml' = Token(Control(ctrl)).ml
          /\ off' = Distance(block.ctrl, ctrl) /\ ctrl' = ctrl + 3 /\ ReachCtrl(ctrl + 3)
      BY <2>2 DEF SafeToken, Refuse
    <3>2. ctrl + 3 <= CEnd
      BY <3>1, Facts
    <3>3. Control(ctrl) \in Byte
      BY <3>2, Facts, BlockFields
    <3>4. ll' \in Nat /\ ml' \in Nat
      BY <3>1, <3>3, TokenLengths, Widths
    <3>5. off' \in Int
      BY <3>1, <3>2, DistancePositive, Facts
    <3>6. reach' \in ReachType /\ Bounded(reach')
      BY <3>1, <3>2, Facts, ReachesControl
    <3> QED
      BY <3>1, <3>2, <3>4, <3>5, <3>6, Facts
  <2>3. CASE (SafeLL \/ SafeML) /\ pc' # "done"
    <3>1. /\ ~(ctrl >= CEnd) /\ ctrl' = ctrl + 1 /\ ReachCtrl(ctrl + 1) /\ off' = off
          /\ pc \in {"safeLL", "safeML"}
          /\ \/ ll' = ll + Control(ctrl) /\ ml' = ml
             \/ ml' = ml + Control(ctrl) /\ ll' = ll
      <4>1. CASE SafeLL
        BY <2>3, <4>1, UnwrappedSafe DEF SafeLL, Refuse
      <4>2. CASE SafeML
        BY <2>3, <4>2, UnwrappedSafe DEF SafeML, Refuse
      <4> QED
        BY <2>3, <4>1, <4>2
    <3>2. ll >= 0 /\ ml >= 0
      BY <3>1 DEF IInv, Safe
    <3>3. ctrl + 1 <= CEnd /\ Control(ctrl) \in Byte
      BY <3>1, Facts, BlockFields
    <3>4. Control(ctrl) \in Nat
      BY <3>3, BytesAreNumbers
    <3>5. reach' \in ReachType /\ Bounded(reach')
      BY <3>1, <3>3, Facts, ReachesControl
    <3> QED
      BY <3>1, <3>2, <3>3, <3>4, <3>5, Facts
  <2> QED
    BY <2>1, <2>2, <2>3
<1>3. Typed' /\ StaysInside' /\ Within'
  BY <1>1, <1>2, Facts DEF Typed, StaysInside, Bounded, ReachType, Within
<1>4. Safe'
  BY <1>1, <1>2 DEF Safe
<1> QED
  BY <1>1, <1>3, <1>4 DEF IInv, Extended, Literals, Matching

LEMMA SafeLiteralsInv ==
  ASSUME IInv, SafeLiterals
  PROVE  IInv'
<1>1. /\ block' = block /\ ctrl' = ctrl /\ ll' = ll /\ ml' = ml /\ off' = off
      /\ pc' \in {"safeMatch", "done"} /\ ll >= 0 /\ ml >= 0
  BY DEF SafeLiterals, Refuse, IInv, Safe
<1>2. CASE ll > LEnd - lit \/ ll > OEnd - op
  <2>1. lit' = lit /\ op' = op /\ m' = m /\ reach' = reach /\ pc' = "done"
    BY <1>2 DEF SafeLiterals, Refuse
  <2> QED
    BY <1>1, <2>1, Facts DEF IInv, Typed, StaysInside, Bounded, ReachType, Within, Extended,
       Literals, Matching, Safe
<1>3. CASE ~(ll > LEnd - lit \/ ll > OEnd - op)
  <2>1. /\ op' = op + ll /\ lit' = lit + ll /\ ReachLit(lit + ll, op + ll)
        /\ IF off > op + ll \/ ml > OEnd - (op + ll)
           THEN m' = m /\ pc' = "done"
           ELSE m' = op + ll - off /\ pc' = "safeMatch"
    BY <1>3 DEF SafeLiterals, Refuse
  <2>2. /\ lit + ll \in Nat /\ op + ll \in Nat /\ lit + ll <= LEnd /\ op + ll <= OEnd
    BY <1>1, <1>3, Facts
  <2>3. reach' \in ReachType /\ Bounded(reach')
    BY <2>1, <2>2, Facts, ReachesLiterals
  <2>4. /\ m' \in Int
        /\ pc' = "safeMatch" => m' >= 0 /\ op' + ml <= OEnd
    BY <2>1, <2>2, Facts
  <2>5. Typed' /\ StaysInside' /\ Within' /\ Safe'
    BY <1>1, <2>1, <2>2, <2>3, <2>4, Facts
       DEF Typed, StaysInside, Bounded, ReachType, Within, Safe
  <2> QED
    BY <1>1, <2>5 DEF IInv, Extended, Literals, Matching
<1> QED
  BY <1>2, <1>3

LEMMA SafeMatchInv ==
  ASSUME IInv, SafeMatch
  PROVE  IInv'
<1>1. /\ block' = block /\ ctrl' = ctrl /\ lit' = lit /\ ll' = ll /\ off' = off
      /\ ml' = ml - 1 /\ ml >= 0 /\ m >= 0 /\ op + ml <= OEnd
  BY DEF SafeMatch, IInv, Safe
<1>2. CASE ml > 0
  <2>1. op' = op + 1 /\ m' = m + 1 /\ ReachOut(op + 1) /\ pc' = "safeMatch"
    BY <1>2 DEF SafeMatch
  <2>2. op + 1 \in Nat /\ op + 1 <= OEnd
    BY <1>1, <1>2, Facts
  <2>3. reach' \in ReachType /\ Bounded(reach')
    BY <2>1, <2>2, Facts, ReachesOutput
  <2>4. Typed' /\ StaysInside' /\ Within' /\ Safe'
    BY <1>1, <1>2, <2>1, <2>2, <2>3, Facts
       DEF Typed, StaysInside, Bounded, ReachType, Within, Safe
  <2> QED
    BY <2>1, <2>4 DEF IInv, Extended, Literals, Matching
<1>3. CASE ~(ml > 0)
  <2>1. op' = op /\ m' = m /\ reach' = reach /\ pc' = "safe"
    BY <1>3 DEF SafeMatch
  <2> QED
    BY <1>1, <2>1, Facts DEF IInv, Typed, StaysInside, Bounded, ReachType, Within, Extended,
       Literals, Matching, Safe
<1> QED
  BY <1>2, <1>3

LEMMA SafeTailInv ==
  ASSUME IInv, SafeTail
  PROVE  IInv'
<1>1. /\ block' = block /\ ctrl' = ctrl /\ ll' = ll /\ ml' = ml /\ off' = off /\ m' = m
      /\ pc' = "done"
      /\ \/ lit' = lit /\ op' = op /\ reach' = reach
         \/ op' = OEnd /\ lit' = LEnd /\ ReachLit(LEnd, OEnd)
  BY DEF SafeTail, Refuse
<1>2. reach' \in ReachType /\ Bounded(reach')
  BY <1>1, Facts, ReachesLiterals
<1>3. Typed' /\ StaysInside' /\ Within'
  BY <1>1, <1>2, Facts DEF Typed, StaysInside, Bounded, ReachType, Within
<1> QED
  BY <1>1, <1>3 DEF IInv, Extended, Literals, Matching, Safe

(* The steps that only move between the loops or refuse.                     *)
LEMMA OtherInv ==
  ASSUME IInv, FastLeave \/ BadDistance \/ UNCHANGED vars
  PROVE  IInv'
<1>1. /\ block' = block /\ ctrl' = ctrl /\ lit' = lit /\ op' = op /\ ll' = ll /\ ml' = ml
      /\ off' = off /\ m' = m /\ reach' = reach
      /\ pc' \in {"safe", "done"} \/ pc' = pc
  BY DEF FastLeave, BadDistance, vars
<1>2. LFast' = LFast /\ OFast' = OFast
  BY <1>1, Facts DEF LFast, OFast
<1> QED
  BY <1>1, <1>2, Facts DEF IInv, Typed, StaysInside, Bounded, ReachType, Within, Extended,
     Literals, Matching, Safe

LEMMA InitInv == Init => IInv
<1> SUFFICES ASSUME Init
             PROVE  IInv
  OBVIOUS
<1>1. /\ block \in Blocks /\ ctrl = 0 /\ lit = 0 /\ op = 0 /\ ll = 0 /\ ml = 0 /\ off = 0
      /\ m = 0 /\ pc = "fast" /\ reach = [ctrl |-> 0, lit |-> 0, out |-> 0]
  BY DEF Init
<1> QED
  BY <1>1, BlockFields DEF IInv, Typed, StaysInside, Within, Extended, Literals, Matching, Safe

LEMMA StepInv == IInv /\ Short /\ LengthsFit /\ [Next]_vars => IInv'
<1> SUFFICES ASSUME IInv, Short, LengthsFit, [Next]_vars
             PROVE  IInv'
  OBVIOUS
<1>1. CASE FastLeave \/ BadDistance \/ UNCHANGED vars
  BY <1>1, OtherInv
<1>2. CASE FastExact
  BY <1>2, FastExactInv
<1>3. CASE FastExtended
  BY <1>3, FastExtendedInv
<1>4. CASE FastLL \/ FastML
  BY <1>4, FastExtensionInv
<1>5. CASE FastExt
  BY <1>5, FastExtInv
<1>6. CASE FastLiterals
  BY <1>6, FastLiteralsInv
<1>7. CASE MatchFar
  BY <1>7, MatchFarInv
<1>8. CASE MatchFarTurn
  BY <1>8, MatchTurnInv, Widths DEF MatchFarTurn
<1>9. CASE MatchNear
  BY <1>9, MatchNearInv
<1>10. CASE MatchNearest
  BY <1>10, MatchNearestInv
<1>11. CASE MatchNearTurn
  BY <1>11, MatchTurnInv, Widths DEF MatchNearTurn
<1>12. CASE SafeToken \/ SafeLL \/ SafeML
  BY <1>12, SafeReadInv
<1>13. CASE SafeLiterals
  BY <1>13, SafeLiteralsInv
<1>14. CASE SafeMatch
  BY <1>14, SafeMatchInv
<1>15. CASE SafeTail
  BY <1>15, SafeTailInv
<1> QED
  BY <1>1, <1>2, <1>3, <1>4, <1>5, <1>6, <1>7, <1>8, <1>9, <1>10, <1>11, <1>12, <1>13,
     <1>14, <1>15 DEF Next

(* The lengths and what they were asked by go on together.                   *)
LEMMA FastShort ==
  ASSUME IInv, Short, LengthsFit, FastExtended \/ FastLL \/ FastML
  PROVE  Short'
<1> SUFFICES /\ ll' >= -1 /\ ll' + ml' <= Asked(m')
             /\ pc' = "fastML" => ll' >= 0
             /\ pc' \in {"fastLL", "fastML", "fastExt"}
  <2>1. Asked(m)' = Asked(m')
    BY DEF Asked
  <2> QED
    BY <2>1 DEF Short
<1>1. CASE FastExtended
  <2>1. /\ ctrl <= CFast /\ m' = ctrl + 3 /\ pc' \in {"fastLL", "fastML"}
        /\ ll' = Token(Control(ctrl)).ll /\ ml' = Token(Control(ctrl)).ml
    BY <1>1 DEF FastExtended, InMargins
  <2>2. ctrl + 3 <= CEnd /\ Control(ctrl) \in Byte
    BY <2>1, Facts, Margins, BlockFields
  <2>3. ll' \in 0 .. ExactLL /\ ml' \in MinMatch .. MinMatch + ExactM
    BY <2>1, <2>2, TokenLengths
  <2>4. Base * (ctrl + 3) \in Nat
    BY Facts, Widths
  <2> QED
    BY <2>1, <2>3, <2>4, Widths DEF Asked
<1>2. CASE FastLL \/ FastML
  <2>1. /\ m \in Nat /\ m <= CEnd /\ ml \in Nat /\ ll \in Int /\ ll >= -1 /\ ll + ml <= Asked(m)
        /\ FastLL => ll >= 0
        /\ FastML => ll >= 0
    BY <1>2, Facts DEF FastLL, FastML, Short, IInv, Extended
  <2>2. pc' \in {"fastLL", "fastML", "fastExt"}
    BY <1>2 DEF FastLL, FastML
  <2>3. CASE m >= CEnd
    <3>1. ll' = -1 /\ ml' = ml /\ m' = m /\ pc' = "fastExt"
      BY <1>2, <2>3 DEF FastLL, FastML
    <3>2. Asked(m) \in Nat
      BY <2>1, Facts, AskedMore
    <3> QED
      BY <1>2, <2>1, <2>2, <3>1, <3>2
  <2>4. CASE ~(m >= CEnd) /\ FastLL
    <3>1. ml' = ml
      BY <2>4 DEF FastLL
    <3>2. m' = m + 1 /\ ll' >= 0 /\ ll' + ml <= Asked(m + 1) /\ ll' = ll + Control(m)
      BY <2>4, FastLLTurn
    <3>3. Control(m) \in Byte
      BY <2>1, <2>4, Facts, BlockFields
    <3>4. ll' \in Nat
      BY <2>1, <3>2, <3>3, BytesAreNumbers
    <3> QED
      BY <2>2, <3>1, <3>2, <3>4
  <2>5. CASE ~(m >= CEnd) /\ FastML
    BY <2>1, <2>2, <2>5, FastMLTurn
  <2> QED
    BY <1>2, <2>3, <2>4, <2>5
<1> QED
  BY <1>1, <1>2

LEMMA SafeShort ==
  ASSUME IInv, Short, LengthsFit, SafeToken \/ SafeLL \/ SafeML
  PROVE  Short'
<1>1. pc' \in {"safeLL", "safeML", "safeLiterals", "done"}
  BY DEF SafeToken, SafeLL, SafeML, Refuse
<1>2. ASSUME pc' \in {"safeLL", "safeML"}
      PROVE  ll' + ml' <= Asked(ctrl')
  <2>1. CASE SafeToken
    <3>1. /\ ctrl < CEnd /\ ctrl' = ctrl + 3
          /\ ll' = Token(Control(ctrl)).ll /\ ml' = Token(Control(ctrl)).ml
      BY <1>2, <2>1 DEF SafeToken, Refuse
    <3>2. Control(ctrl) \in Byte
      BY <3>1, Facts, BlockFields
    <3>3. ll' \in 0 .. ExactLL /\ ml' \in MinMatch .. MinMatch + ExactM
      BY <3>1, <3>2, TokenLengths
    <3>4. Base * (ctrl + 3) \in Nat
      BY Facts, Widths
    <3> QED
      BY <3>1, <3>3, <3>4, Widths DEF Asked
  <2>2. CASE SafeLL
    <3>1. ~(ctrl >= CEnd) /\ ml' = ml /\ ctrl' = ctrl + 1 /\ ll' = Wrap(ll + Control(ctrl))
      BY <1>2, <2>2 DEF SafeLL, Refuse
    <3> QED
      BY <2>2, <3>1, UnwrappedSafe DEF SafeLL
  <2>3. CASE SafeML
    <3>1. ~(ctrl >= CEnd) /\ ll' = ll /\ ctrl' = ctrl + 1 /\ ml' = Wrap(ml + Control(ctrl))
      BY <1>2, <2>3 DEF SafeML, Refuse
    <3> QED
      BY <2>3, <3>1, UnwrappedSafe DEF SafeML
  <2> QED
    BY <2>1, <2>2, <2>3
<1>3. Asked(ctrl)' = Asked(ctrl')
  BY DEF Asked
<1> QED
  BY <1>1, <1>2, <1>3 DEF Short

LEMMA ShortInv == IInv /\ Short /\ LengthsFit /\ [Next]_vars => Short'
<1> SUFFICES ASSUME IInv, Short, LengthsFit, [Next]_vars
             PROVE  Short'
  OBVIOUS
<1>1. CASE FastExtended \/ FastLL \/ FastML
  BY <1>1, FastShort
<1>2. CASE SafeToken \/ SafeLL \/ SafeML
  BY <1>2, SafeShort
<1>3. CASE UNCHANGED vars
  BY <1>3 DEF vars, Short, Asked
<1>4. CASE ~(FastExtended \/ FastLL \/ FastML \/ SafeToken \/ SafeLL \/ SafeML) /\ Next
  <2>1. pc' \notin {"fastLL", "fastML", "fastExt", "safeLL", "safeML"}
    BY <1>4 DEF Next, FastLeave, FastExact, FastExt, FastLiterals, BadDistance, MatchFar,
       MatchFarTurn, MatchNear, MatchNearest, MatchNearTurn, MatchTurn, SafeLiterals, SafeMatch,
       SafeTail, Refuse
  <2> QED
    BY <2>1 DEF Short
<1> QED
  BY <1>1, <1>2, <1>3, <1>4

LEMMA BlockStays == [Next]_vars => block' = block /\ (LengthsFit <=> LengthsFit')
<1> SUFFICES ASSUME [Next]_vars
             PROVE  block' = block
  BY DEF LengthsFit, CEnd
<1> QED
  BY DEF Next, FastLeave, FastExact, FastExtended, FastLL, FastML, FastExt, FastLiterals,
     BadDistance, MatchFar, MatchFarTurn, MatchNear, MatchNearest, MatchNearTurn, MatchTurn,
     SafeToken, SafeLL, SafeML, SafeLiterals, SafeMatch, SafeTail, vars

LEMMA InitShort == Init => Short
BY DEF Init, Short

(* Whatever block arrives, if an intptr_t holds the lengths that its control *)
(* bytes can ask for, the decoder stays inside its three buffers: the        *)
(* margins decode_core leaves hold what its wide copies do too much, for     *)
(* every width of the copies and of the lengths, and for every format whose  *)
(* exact lengths fit it.                                                     *)
THEOREM DecoderStaysInBounds == Spec => []InBounds
<1> DEFINE Inv == LengthsFit => IInv /\ Short
<1>1. Init => Inv
  BY InitInv, InitShort
<1>2. Inv /\ [Next]_vars => Inv'
  BY StepInv, ShortInv, BlockStays
<1>3. Inv => InBounds
  BY DEF IInv, InBounds
<1> QED
  BY <1>1, <1>2, <1>3, PTL DEF Spec

--------------------------------------------------------------------------------
(* The decoder is a refinement of LzBlock.                                   *)

(* The bytes from a up to x are an extension that goes on.                   *)
Extension(c, a, x) == \A j \in a + 1 .. x : c[j] = Base

(* The sequence whose token is at f of the control stream c: where its match *)
(* extension starts, and its literals.                                       *)
Tok(c, f) == Token(c[f + 1])
MatchFrom(c, f) == IF Tok(c, f).llx THEN Decoding!ExtLast(c, f + 3) ELSE f + 3
LiteralsOf(c, f) == Tok(c, f).ll + (IF Tok(c, f).llx THEN Decoding!ExtValue(c, f + 3) ELSE 0)

(* What l and n are when x control bytes have been read and x is inside the  *)
(* extension of the literals, inside that of the match, or at the end of the *)
(* lengths.                                                                  *)
ReadingLL(c, f, x, l, n) ==
  /\ f + 3 <= x /\ x <= Len(c)
  /\ Tok(c, f).llx
  /\ Extension(c, f + 3, x)
  /\ l = Tok(c, f).ll + Base * (x - (f + 3))
  /\ n = Tok(c, f).ml

ReadingML(c, f, x, l, n) ==
  /\ f + 3 <= x /\ x <= Len(c)
  /\ Tok(c, f).mlx
  /\ Tok(c, f).llx => Decoding!Stops(c, f + 3) # {}
  /\ MatchFrom(c, f) \in f + 3 .. x
  /\ Extension(c, MatchFrom(c, f), x)
  /\ l = LiteralsOf(c, f)
  /\ n = Tok(c, f).ml + Base * (x - MatchFrom(c, f))

ReadWhole(c, f, x, l, n) ==
  /\ Decoding!Whole(c, f)
  /\ l = Decoding!Lengths(c, f).ll
  /\ n = Decoding!Lengths(c, f).ml
  /\ x = Decoding!Lengths(c, f).next

(* Where the match of the sequence starts.                                   *)
Start == last.op + (lit - last.lit)

(* Up to h, the output g holds the literals of the sequence.                 *)
LiteralsTaken(g, h) == \A i \in last.op .. h - 1 : g[i] = block.lit[last.lit + (i - last.op) + 1]
(* From q to h, g repeats its first d bytes.                                 *)
Repeats(g, q, d, h) == \A i \in q .. h - 1 : g[i] = g[q + ((i - q) % d)]
(* A copy may read any multiple of the distance before where it writes.      *)
Multiple(g, d) == \E k \in 1 .. g : g = k * d

(* At a token, all that was read and written is of whole sequences.          *)
AtToken == pc \in {"fast", "safe"} => last = [ctrl |-> ctrl, lit |-> lit, op |-> op]

(* The lengths read so far are those of the sequence, in decode_core         *)
(* (through m) and in decode_safe (through ctrl).                            *)
ReadingFast ==
  pc \in {"fastLL", "fastML", "fastExt"} =>
    /\ op = last.op /\ lit = last.lit /\ ctrl = last.ctrl + 3
    /\ pc = "fastLL" => ReadingLL(block.ctrl, last.ctrl, m, ll, ml)
    /\ pc = "fastML" => ReadingML(block.ctrl, last.ctrl, m, ll, ml)
    /\ pc = "fastExt" /\ ll >= 0 => ReadWhole(block.ctrl, last.ctrl, m, ll, ml)

ReadingSafe ==
  pc \in {"safeLL", "safeML", "safeLiterals"} =>
    /\ op = last.op /\ lit = last.lit
    /\ pc = "safeLL" => ReadingLL(block.ctrl, last.ctrl, ctrl, ll, ml)
    /\ pc = "safeML" => ReadingML(block.ctrl, last.ctrl, ctrl, ll, ml)
    /\ pc = "safeLiterals" => ReadWhole(block.ctrl, last.ctrl, ctrl, ll, ml)

(* The literals copied so far are those of the sequence.                     *)
TakingLiterals ==
  pc \in {"literals", "match"} =>
    /\ lit >= last.lit /\ op = Start
    /\ LiteralsTaken(dst, op)
    /\ pc = "literals" => ReadWhole(block.ctrl, last.ctrl, ctrl, lit - last.lit + ll, ml)
    /\ pc = "match" => ReadWhole(block.ctrl, last.ctrl, ctrl, lit - last.lit, ml)

(* The match copied so far repeats what is before it, whatever the width of  *)
(* the copy, and each turn reads a multiple of the distance before where it  *)
(* writes: a wide copy reads nothing it writes.                              *)
Repeating ==
  pc \in {"far", "near", "safeMatch"} =>
    /\ lit >= last.lit /\ op >= Start /\ off \in 1 .. Start
    /\ ReadWhole(block.ctrl, last.ctrl, ctrl, lit - last.lit, ml + (op - Start))
    /\ LiteralsTaken(dst, Start)
    /\ Repeats(dst, Start - off, off, op)
    /\ Multiple(op - m, off) /\ Start - off <= m
    /\ pc = "far" => op - m >= Wide
    /\ pc = "near" => op - m >= Half

(* An output of e bytes.                                                     *)
Buffer(e) == [0 .. e - 1 -> Nat \cup {Junk}]

Decoded ==
  /\ dst \in Buffer(OEnd)
  /\ last \in [ctrl : Nat, lit : Nat, op : Nat]
  /\ last.op <= OEnd
  /\ pc # "done" => result = "more"
  /\ pc \notin {"fast", "safe", "done"} => off = Distance(block.ctrl, last.ctrl)

(* What makes the decoder a refinement of LzBlock, beyond IInv.              *)
DInv == Decoded /\ AtToken /\ ReadingFast /\ ReadingSafe /\ TakingLiterals /\ Repeating

--------------------------------------------------------------------------------
(* Remainders: of a quotient, shifted by multiples of the divisor.           *)
LEMMA Remainder ==
  ASSUME NEW d \in Nat, d >= 1, NEW x \in Nat
  PROVE  x % d \in 0 .. d - 1 /\ x = d * (x \div d) + (x % d) /\ x \div d \in Nat
OBVIOUS

LEMMA Divided ==
  ASSUME NEW d \in Nat, d >= 1, NEW x \in Nat
  PROVE  \E q \in Nat, r \in 0 .. d - 1 : x = d * q + r /\ x % d = r
<1>1. x % d \in 0 .. d - 1 /\ x = d * (x \div d) + (x % d) /\ x \div d \in Nat
  BY Remainder
<1> WITNESS x \div d \in Nat, x % d \in 0 .. d - 1
<1> QED
  BY <1>1, Zenon

LEMMA RemainderIs ==
  ASSUME NEW d \in Nat, d >= 1, NEW x \in Nat, NEW q \in Int, NEW r \in 0 .. d - 1, x = d * q + r
  PROVE  x % d = r
<1>1. PICK p \in Nat, s \in 0 .. d - 1 : x = d * p + s /\ x % d = s
  BY Divided
<1>2. CASE p >= q + 1
  <2>1. d * p >= d * (q + 1) /\ d * (q + 1) = d * q + d
    BY <1>2
  <2> QED
    BY <1>1, <2>1
<1>3. CASE q >= p + 1
  <2>1. d * q >= d * (p + 1) /\ d * (p + 1) = d * p + d
    BY <1>3
  <2> QED
    BY <1>1, <2>1
<1> QED
  BY <1>1, <1>2, <1>3

LEMMA RemainderShift ==
  ASSUME NEW d \in Nat, d >= 1, NEW x \in Nat, NEW k \in Nat, x - k * d >= 0
  PROVE  (x - k * d) % d = x % d
<1>1. PICK q \in Nat, r \in 0 .. d - 1 : x = d * q + r /\ x % d = r
  BY Divided
<1>2. x - k * d \in Nat /\ x - k * d = d * (q - k) + r
  BY <1>1
<1> QED
  BY <1>1, <1>2, RemainderIs

--------------------------------------------------------------------------------
(* Reading the lengths of a sequence.                                        *)

(* An extension ends with the first byte that is not Base, or is cut off.    *)
LEMMA ExtensionEnds ==
  ASSUME NEW c \in Seq(Byte), NEW a \in Nat, NEW x \in Nat, a <= x, x < Len(c),
         Extension(c, a, x), c[x + 1] # Base
  PROVE  /\ Decoding!Stops(c, a) # {}
         /\ Decoding!ExtLast(c, a) = x + 1
         /\ Decoding!ExtValue(c, a) = Base * (x - a) + c[x + 1]
<1>1. x + 1 \in Decoding!Stops(c, a)
  BY DEF Decoding!Stops
<1>2. \A r \in Decoding!Stops(c, a) : r \in Nat /\ x + 1 <= r
  BY DEF Decoding!Stops, Extension
<1>3. /\ Decoding!ExtLast(c, a) \in Decoding!Stops(c, a)
      /\ \A r \in Decoding!Stops(c, a) : Decoding!ExtLast(c, a) <= r
  BY <1>1, <1>2, Zenon DEF Decoding!ExtLast
<1>4. Decoding!ExtLast(c, a) = x + 1
  BY <1>1, <1>2, <1>3
<1>5. (x + 1) - a - 1 = x - a
  OBVIOUS
<1> QED
  BY <1>1, <1>4, <1>5 DEF Decoding!ExtValue

LEMMA ExtensionMissing ==
  ASSUME NEW c \in Seq(Byte), NEW a \in Nat, Extension(c, a, Len(c))
  PROVE  Decoding!Stops(c, a) = {}
BY DEF Decoding!Stops, Extension

(* LzBlock reads the same tokens.                                            *)
LEMMA TokensAgree ==
  ASSUME NEW c, NEW f
  PROVE  Decoding!Token(c[f + 1]) = Tok(c, f) /\ Decoding!Distance(c, f) = Distance(c, f)
<1>1. Decoding!Token(c[f + 1]) = Tok(c, f)
  BY Zenon DEF Tok, Token, Decoding!Token, EscML, EscLL, EscBoth, Decoding!EscML, Decoding!EscLL,
     Decoding!EscBoth
<1>2. Decoding!Distance(c, f) = Distance(c, f)
  BY Zenon DEF Distance, Decoding!Distance
<1> QED
  BY <1>1, <1>2

(* The match of the sequence at f, and where the sequence ends.              *)
MatchOf(c, f) ==
  Tok(c, f).ml + (IF Tok(c, f).mlx THEN Decoding!ExtValue(c, MatchFrom(c, f)) ELSE 0)
NextOf(c, f) ==
  IF Tok(c, f).mlx THEN Decoding!ExtLast(c, MatchFrom(c, f)) ELSE MatchFrom(c, f)

LEMMA LengthsAre ==
  ASSUME NEW c, NEW f
  PROVE  /\ Decoding!Lengths(c, f) =
              [ll |-> LiteralsOf(c, f), ml |-> MatchOf(c, f), dist |-> Distance(c, f),
               next |-> NextOf(c, f)]
         /\ Decoding!Whole(c, f) <=>
              /\ f + 3 <= Len(c)
              /\ Tok(c, f).llx => Decoding!Stops(c, f + 3) # {}
              /\ Tok(c, f).mlx => Decoding!Stops(c, MatchFrom(c, f)) # {}
BY TokensAgree, Zenon DEF Decoding!Lengths, Decoding!Whole, LiteralsOf, MatchOf, NextOf, MatchFrom

(* The exact lengths of a token in the stream.                               *)
LEMMA TokenFacts ==
  ASSUME NEW c \in Seq(Byte), NEW f \in Nat, f + 3 <= Len(c)
  PROVE  Tok(c, f).ll \in Nat /\ Tok(c, f).ml \in Nat /\ Base \in Nat
BY TokenLengths, Widths DEF Tok

(* After the token, after a byte of the literals' extension, and after one   *)
(* of the match's.                                                           *)
LEMMA TokenIsRead ==
  ASSUME NEW c \in Seq(Byte), NEW f \in Nat, f + 3 <= Len(c)
  PROVE  LET l == Tok(c, f).ll
             n == Tok(c, f).ml
         IN  /\ Tok(c, f).llx => ReadingLL(c, f, f + 3, l, n)
             /\ ~Tok(c, f).llx /\ Tok(c, f).mlx => ReadingML(c, f, f + 3, l, n)
             /\ ~Tok(c, f).llx /\ ~Tok(c, f).mlx => ReadWhole(c, f, f + 3, l, n)
<1> DEFINE l == Tok(c, f).ll
           n == Tok(c, f).ml
<1>1. l \in Nat /\ n \in Nat /\ Base \in Nat
  BY TokenFacts
<1>2. \A a \in Nat : Extension(c, a, a)
  BY DEF Extension
<1>3. f + 3 \in Nat /\ Base * ((f + 3) - (f + 3)) = 0
  BY <1>1
<1>4. ASSUME Tok(c, f).llx PROVE ReadingLL(c, f, f + 3, l, n)
  BY <1>1, <1>2, <1>3, <1>4 DEF ReadingLL
<1>5. ASSUME ~Tok(c, f).llx PROVE MatchFrom(c, f) = f + 3 /\ LiteralsOf(c, f) = l
  BY <1>1, <1>5 DEF MatchFrom, LiteralsOf
<1>6. ASSUME ~Tok(c, f).llx, Tok(c, f).mlx PROVE ReadingML(c, f, f + 3, l, n)
  BY <1>1, <1>2, <1>3, <1>5, <1>6 DEF ReadingML
<1>7. ASSUME ~Tok(c, f).llx, ~Tok(c, f).mlx PROVE ReadWhole(c, f, f + 3, l, n)
  <2>1. MatchOf(c, f) = n /\ NextOf(c, f) = f + 3
    BY <1>1, <1>5, <1>7 DEF MatchOf, NextOf
  <2> QED
    BY <1>5, <1>7, <2>1, LengthsAre DEF ReadWhole
<1> QED
  BY <1>4, <1>6, <1>7

(* A byte of the extension of the literals.                                  *)
LEMMA LiteralByteIsRead ==
  ASSUME NEW c \in Seq(Byte), NEW f \in Nat, NEW x \in Nat, NEW l \in Int, NEW n \in Int,
         ReadingLL(c, f, x, l, n), x < Len(c)
  PROVE  /\ c[x + 1] = Base => ReadingLL(c, f, x + 1, l + c[x + 1], n)
         /\ c[x + 1] # Base /\ Tok(c, f).mlx => ReadingML(c, f, x + 1, l + c[x + 1], n)
         /\ c[x + 1] # Base /\ ~Tok(c, f).mlx => ReadWhole(c, f, x + 1, l + c[x + 1], n)
<1> DEFINE z == c[x + 1]
<1>1. /\ f + 3 <= x /\ x + 1 <= Len(c) /\ Tok(c, f).llx /\ Extension(c, f + 3, x)
      /\ l = Tok(c, f).ll + Base * (x - (f + 3)) /\ n = Tok(c, f).ml
  BY DEF ReadingLL
<1>2. Tok(c, f).ll \in Nat /\ n \in Nat /\ Base \in Nat /\ z \in Nat
  BY <1>1, TokenFacts, BytesAreNumbers
<1>3. ASSUME z = Base PROVE ReadingLL(c, f, x + 1, l + z, n)
  <2>1. Extension(c, f + 3, x + 1)
    BY <1>1, <1>3 DEF Extension
  <2>2. l + z = Tok(c, f).ll + Base * ((x + 1) - (f + 3))
    BY <1>1, <1>2, <1>3
  <2> QED
    BY <1>1, <2>1, <2>2 DEF ReadingLL
<1>4. ASSUME z # Base
      PROVE  /\ Decoding!Stops(c, f + 3) # {}
             /\ MatchFrom(c, f) = x + 1
             /\ LiteralsOf(c, f) = l + z
  <2>1. /\ Decoding!Stops(c, f + 3) # {}
        /\ Decoding!ExtLast(c, f + 3) = x + 1
        /\ Decoding!ExtValue(c, f + 3) = Base * (x - (f + 3)) + z
    BY <1>1, <1>4, ExtensionEnds
  <2>2. MatchFrom(c, f) = x + 1
    BY <1>1, <2>1 DEF MatchFrom
  <2>3. LiteralsOf(c, f) = Tok(c, f).ll + (Base * (x - (f + 3)) + z)
    BY <1>1, <2>1 DEF LiteralsOf
  <2>4. Base * (x - (f + 3)) \in Int
    BY <1>2
  <2> QED
    BY <1>1, <1>2, <2>1, <2>2, <2>3, <2>4
<1>5. ASSUME z # Base, Tok(c, f).mlx PROVE ReadingML(c, f, x + 1, l + z, n)
  <2>1. Extension(c, x + 1, x + 1) /\ n = Tok(c, f).ml + Base * ((x + 1) - (x + 1))
    BY <1>1, <1>2 DEF Extension
  <2>2. MatchFrom(c, f) = x + 1 /\ f + 3 <= x + 1 /\ x + 1 \in f + 3 .. x + 1
    BY <1>1, <1>4, <1>5
  <2>3. Decoding!Stops(c, f + 3) # {} /\ l + z = LiteralsOf(c, f)
    BY <1>4, <1>5
  <2> HIDE DEF z
  <2> QED
    BY <1>1, <1>5, <2>1, <2>2, <2>3 DEF ReadingML
<1>6. ASSUME z # Base, ~Tok(c, f).mlx PROVE ReadWhole(c, f, x + 1, l + z, n)
  <2>1. MatchOf(c, f) = n /\ NextOf(c, f) = x + 1
    BY <1>1, <1>2, <1>4, <1>6 DEF MatchOf, NextOf
  <2>2. f + 3 <= Len(c)
    BY <1>1
  <2> QED
    BY <1>4, <1>6, <2>1, <2>2, LengthsAre DEF ReadWhole
<1> QED
  BY <1>3, <1>5, <1>6

(* A byte of the extension of the match.                                     *)
LEMMA MatchByteIsRead ==
  ASSUME NEW c \in Seq(Byte), NEW f \in Nat, NEW x \in Nat, NEW l \in Int, NEW n \in Int,
         ReadingML(c, f, x, l, n), x < Len(c)
  PROVE  /\ c[x + 1] = Base => ReadingML(c, f, x + 1, l, n + c[x + 1])
         /\ c[x + 1] # Base => ReadWhole(c, f, x + 1, l, n + c[x + 1])
<1> DEFINE z == c[x + 1]
           a == MatchFrom(c, f)
<1>1. /\ f + 3 <= x /\ x + 1 <= Len(c) /\ Tok(c, f).mlx
      /\ Tok(c, f).llx => Decoding!Stops(c, f + 3) # {}
      /\ a \in f + 3 .. x /\ Extension(c, a, x)
      /\ l = LiteralsOf(c, f) /\ n = Tok(c, f).ml + Base * (x - a)
  BY DEF ReadingML
<1>2. Tok(c, f).ml \in Nat /\ Base \in Nat /\ z \in Nat /\ a \in Nat
  BY <1>1, TokenFacts, BytesAreNumbers
<1>3. ASSUME z = Base PROVE ReadingML(c, f, x + 1, l, n + z)
  <2> HIDE DEF a
  <2>1. Extension(c, a, x + 1)
    BY <1>1, <1>2, <1>3 DEF Extension
  <2>2. n + z = Tok(c, f).ml + Base * ((x + 1) - a)
    BY <1>1, <1>2, <1>3
  <2>3. a \in f + 3 .. x + 1
    BY <1>1
  <2> QED
    BY <1>1, <2>1, <2>2, <2>3 DEF ReadingML, a
<1>4. ASSUME z # Base PROVE ReadWhole(c, f, x + 1, l, n + z)
  <2>1. /\ Decoding!Stops(c, a) # {}
        /\ Decoding!ExtLast(c, a) = x + 1
        /\ Decoding!ExtValue(c, a) = Base * (x - a) + z
    BY <1>1, <1>2, <1>4, ExtensionEnds
  <2>2. NextOf(c, f) = x + 1 /\ MatchOf(c, f) = Tok(c, f).ml + (Base * (x - a) + z)
    BY <1>1, <2>1 DEF NextOf, MatchOf
  <2>3. PICK w \in Int : w = Base * (x - a)
    BY <1>2
  <2>4. MatchOf(c, f) = n + z
    <3>1. MatchOf(c, f) = Tok(c, f).ml + (w + z) /\ n = Tok(c, f).ml + w
      BY <1>1, <2>2, <2>3, Zenon
    <3> HIDE DEF z
    <3> QED
      BY <1>2, <3>1
  <2>5. Decoding!Whole(c, f)
    BY <1>1, <2>1, LengthsAre
  <2> QED
    BY <1>1, <2>2, <2>4, <2>5, LengthsAre DEF ReadWhole
<1> QED
  BY <1>3, <1>4

(* A sequence the control stream ends in is not whole.                       *)
LEMMA CutOff ==
  ASSUME NEW c \in Seq(Byte), NEW f \in Nat, NEW x \in Nat, NEW l, NEW n, x >= Len(c),
         ReadingLL(c, f, x, l, n) \/ ReadingML(c, f, x, l, n)
  PROVE  ~Decoding!Whole(c, f)
<1>1. CASE ReadingLL(c, f, x, l, n)
  <2>1. x = Len(c) /\ Extension(c, f + 3, x) /\ Tok(c, f).llx
    BY <1>1 DEF ReadingLL
  <2>2. Decoding!Stops(c, f + 3) = {}
    BY <2>1, ExtensionMissing
  <2> QED
    BY <2>1, <2>2, LengthsAre
<1>2. CASE ReadingML(c, f, x, l, n)
  <2>1. x = Len(c) /\ Extension(c, MatchFrom(c, f), x) /\ Tok(c, f).mlx /\ MatchFrom(c, f) \in Nat
    BY <1>2 DEF ReadingML
  <2>2. Decoding!Stops(c, MatchFrom(c, f)) = {}
    BY <2>1, ExtensionMissing
  <2> QED
    BY <2>1, <2>2, LengthsAre
<1> QED
  BY <1>1, <1>2

--------------------------------------------------------------------------------
(* What the copies make of the output.                                       *)

(* r is g with the n bytes at i copied to d; a byte that is not in g is not  *)
(* known.                                                                    *)
CopyOf(r, g, e, d, i, n) ==
  /\ r \in Buffer(e)
  /\ \A k \in 0 .. e - 1 : k < d => r[k] = g[k]
  /\ \A k \in 0 .. e - 1 : k \in d .. d + n - 1 /\ i + k - d < e => r[k] = g[i + k - d]

(* Copied does so for what it reads before d.                                *)
LEMMA CopiedIs ==
  ASSUME NEW e \in Nat, NEW g \in Buffer(e), NEW d \in Nat, NEW i \in Nat, NEW n \in Nat
  PROVE  CopyOf(Copied(g, d, i, n), g, e, d, i, n)
<1>1. DOMAIN g = 0 .. e - 1
  BY DEF Buffer
<1>2. \A j \in Int : ByteAt(g, j) \in Nat \cup {Junk} /\ (j \in 0 .. e - 1 => ByteAt(g, j) = g[j])
  BY DEF ByteAt, Buffer
<1> HIDE DEF ByteAt
<1>3. \A k \in 0 .. e - 1 : k \in Int /\ i + k - d \in Int
  OBVIOUS
<1> QED
  BY <1>1, <1>2, <1>3 DEF CopyOf, Copied, Buffer

(* A multiple of the distance before, the place in the period is the same.   *)
LEMMA MultipleShift ==
  ASSUME NEW gap \in Nat, NEW d \in Nat, d >= 1, Multiple(gap, d), NEW x \in Nat, x - gap >= 0
  PROVE  (x - gap) % d = x % d
<1>1. PICK k \in 1 .. gap : gap = k * d
  BY DEF Multiple
<1>2. k \in Nat /\ x - k * d >= 0
  BY <1>1
<1>3. (x - k * d) % d = x % d
  BY <1>2, RemainderShift
<1> QED
  BY <1>1, <1>3

LEMMA PeriodShift ==
  ASSUME NEW d \in Nat, d >= 1, NEW x \in Nat
  PROVE  (x + d) % d = x % d
<1>1. PICK q \in Nat, r \in 0 .. d - 1 : x = d * q + r /\ x % d = r
  BY Divided
<1>2. PICK y \in Nat, p \in Int : y = x + d /\ p = q + 1
  OBVIOUS
<1>3. y = d * p + r
  BY <1>1, <1>2
<1>4. y % d = r
  BY <1>3, RemainderIs
<1> QED
  BY <1>1, <1>2, <1>4

LEMMA Itself ==
  ASSUME NEW d \in Nat, d >= 1
  PROVE  Multiple(d, d)
<1>1. d = 1 * d /\ 1 \in 1 .. d
  OBVIOUS
<1> QED
  BY <1>1 DEF Multiple

(* The period of a near copy.                                                *)
LEMMA PeriodIs ==
  ASSUME NEW d \in Nat, d >= 1
  PROVE  /\ Period(d) \in Nat /\ Period(d) >= Half /\ Period(d) <= Half + d - 1
         /\ Multiple(Period(d), d)
<1>1. Half + d - 1 \in Nat /\ Half \in Nat /\ Half >= 1
  BY Widths
<1> DEFINE q == (Half + d - 1) \div d
<1>2. (Half + d - 1) % d \in 0 .. d - 1 /\ Half + d - 1 = d * q + ((Half + d - 1) % d) /\ q \in Nat
  BY <1>1, Remainder
<1>3. PICK r \in 0 .. d - 1 : Half + d - 1 = d * q + r
  BY <1>2
<1>4. Period(d) = d * q
  BY DEF Period
<1> HIDE DEF q
<1>5. d * q \in Nat /\ d * q >= Half /\ d * q <= Half + d - 1
  BY <1>1, <1>2, <1>3
<1>6. q # 0
  <2>1. d * 0 = 0
    OBVIOUS
  <2> QED
    BY <1>1, <1>5, <2>1
<1>7. q \in 1 .. d * q /\ d * q = q * d
  <2>1. PICK b \in Nat : d = b + 1
    <3>1. d - 1 \in Nat /\ d = (d - 1) + 1
      OBVIOUS
    <3> QED
      BY <3>1
  <2>2. (b + 1) * q = b * q + q /\ b * q >= 0
    BY <1>2
  <2> QED
    BY <1>2, <1>6, <2>1, <2>2
<1> QED
  BY <1>4, <1>5, <1>7 DEF Multiple

(* A match starts with no byte written: its period is what is before it.     *)
LEMMA RepeatsNothing ==
  ASSUME NEW g, NEW p \in Nat, NEW d \in Nat, d >= 1, d <= p
  PROVE  Repeats(g, p - d, d, p)
<1> SUFFICES ASSUME NEW i \in p - d .. p - 1
             PROVE  g[i] = g[(p - d) + ((i - (p - d)) % d)]
  BY DEF Repeats
<1>1. i - (p - d) \in 0 .. d - 1 /\ i - (p - d) \in Nat
  OBVIOUS
<1>2. (i - (p - d)) % d = i - (p - d)
  BY <1>1, RemainderIs
<1> QED
  BY <1>2

(* r is g with n bytes copied to h, where the match is written up to, from   *)
(* a multiple of the distance before; and what that does.                    *)
Continuing(e, g, r, q, d, h, gap, n) ==
  /\ e \in Nat /\ g \in Buffer(e) /\ q \in Nat /\ d \in Nat /\ d >= 1
  /\ h \in Nat /\ q + d <= h /\ gap \in Nat /\ Multiple(gap, d) /\ q <= h - gap
  /\ n \in Nat /\ n <= gap /\ h + n <= e /\ Repeats(g, q, d, h)
  /\ r = Copied(g, h, h - gap, n)

Continued(e, g, r, q, d, h, n) ==
  /\ r \in Buffer(e)
  /\ \A k \in 0 .. h - 1 : r[k] = g[k]
  /\ Repeats(r, q, d, h + n)

(* A copy from a multiple of the distance before goes on with the match,     *)
(* however wide it is, if it does not read what it writes.                   *)
LEMMA RepeatsFurther ==
  ASSUME NEW e, NEW g, NEW r, NEW q, NEW d, NEW h, NEW gap, NEW n,
         Continuing(e, g, r, q, d, h, gap, n)
  PROVE  Continued(e, g, r, q, d, h, n)
<1> /\ e \in Nat /\ g \in Buffer(e) /\ q \in Nat /\ d \in Nat /\ d >= 1
    /\ h \in Nat /\ q + d <= h /\ gap \in Nat /\ Multiple(gap, d) /\ q <= h - gap
    /\ n \in Nat /\ n <= gap /\ h + n <= e /\ Repeats(g, q, d, h)
    /\ r = Copied(g, h, h - gap, n)
  BY DEF Continuing
<1>1. PICK f \in Nat : f = h - gap
  OBVIOUS
<1>2. CopyOf(r, g, e, h, f, n)
  BY <1>1, CopiedIs
<1>3. ASSUME NEW i \in q .. h + n - 1 PROVE r[i] = r[q + ((i - q) % d)]
  <2>1. i - q \in Nat /\ (i - q) % d \in 0 .. d - 1
    <3>1. i - q \in Nat
      OBVIOUS
    <3> QED
      BY <3>1, Remainder
  <2>2. r[q + ((i - q) % d)] = g[q + ((i - q) % d)]
    <3>1. PICK x \in 0 .. d - 1 : x = (i - q) % d
      BY <2>1
    <3>2. q + x \in 0 .. e - 1 /\ q + x < h
      BY <3>1
    <3> QED
      BY <1>2, <3>1, <3>2 DEF CopyOf
  <2>3. CASE i < h
    <3>1. r[i] = g[i] /\ i \in q .. h - 1
      BY <1>2, <2>3 DEF CopyOf
    <3> QED
      BY <2>2, <3>1 DEF Repeats
  <2>4. CASE i >= h
    <3>1. r[i] = g[i - gap] /\ i - gap \in q .. h - 1
      <4>1. i \in 0 .. e - 1 /\ i \in h .. h + n - 1 /\ f + i - h = i - gap /\ i - gap < e
        BY <1>1, <2>4
      <4> QED
        BY <1>2, <4>1 DEF CopyOf
    <3>2. ((i - gap) - q) % d = (i - q) % d
      <4>1. PICK x \in Nat : x = i - q
        BY <2>1
      <4>2. x - gap >= 0 /\ (i - gap) - q = x - gap
        BY <3>1, <4>1
      <4>3. (x - gap) % d = x % d
        BY <4>2, MultipleShift
      <4> QED
        BY <4>1, <4>2, <4>3
    <3>3. g[i - gap] = g[q + (((i - gap) - q) % d)]
      BY <3>1 DEF Repeats
    <3> QED
      BY <2>2, <3>1, <3>2, <3>3
  <2> QED
    BY <2>3, <2>4
<1>4. r \in Buffer(e) /\ \A k \in 0 .. h - 1 : r[k] = g[k]
  BY <1>2 DEF CopyOf
<1>5. Repeats(r, q, d, h + n)
  BY <1>3 DEF Repeats
<1> QED
  BY <1>4, <1>5, Zenon DEF Continued

(* The first bytes of a match nearer than Half.                              *)
LEMMA RepeatsFirst ==
  ASSUME NEW e \in Nat, NEW g \in Buffer(e), NEW p \in Nat, NEW d \in Nat, d >= 1, d <= p,
         p + Half <= e, NEW r,
         r = [k \in DOMAIN g |-> IF k \in p .. p + Half - 1 THEN ByteAt(g, p - d + ((k - p) % d))
                                                            ELSE g[k]]
  PROVE  /\ r \in Buffer(e)
         /\ \A k \in 0 .. p - 1 : r[k] = g[k]
         /\ Repeats(r, p - d, d, p + Half)
<1>1. Half \in Nat
  BY Widths
<1>2. DOMAIN g = 0 .. e - 1
  BY DEF Buffer
<1>3. \A j \in Int : ByteAt(g, j) \in Nat \cup {Junk} /\ (j \in 0 .. e - 1 => ByteAt(g, j) = g[j])
  BY DEF ByteAt, Buffer
<1> HIDE DEF ByteAt
<1>4. ASSUME NEW k \in Nat PROVE (p - d) + (k % d) \in 0 .. p - 1
  <2>1. PICK x \in 0 .. d - 1 : x = k % d
    BY Remainder
  <2> QED
    BY <2>1
<1>5. \A k \in 0 .. e - 1 : k \in p .. p + Half - 1 => k - p \in Nat
  BY <1>1
<1>6. r \in Buffer(e)
  <2>1. ASSUME NEW k \in 0 .. e - 1, k \in p .. p + Half - 1
        PROVE  ByteAt(g, p - d + ((k - p) % d)) \in Nat \cup {Junk}
    <3>1. k - p \in Nat
      BY <1>5, <2>1
    <3>2. p - d + ((k - p) % d) \in Int
      BY <1>4, <3>1
    <3> QED
      BY <1>3, <3>2
  <2>2. \A k \in 0 .. e - 1 : g[k] \in Nat \cup {Junk}
    BY DEF Buffer
  <2> QED
    BY <1>2, <2>1, <2>2 DEF Buffer
<1>7. \A k \in 0 .. p - 1 : r[k] = g[k]
  BY <1>1, <1>2
<1>8. ASSUME NEW i \in p - d .. (p + Half) - 1
      PROVE  r[i] = r[(p - d) + ((i - (p - d)) % d)]
  <2>1. PICK x \in Nat : x = i - (p - d)
    <3>1. i - (p - d) \in Nat
      BY <1>1
    <3> QED
      BY <3>1
  <2>2. (p - d) + (x % d) \in 0 .. p - 1
    BY <1>4
  <2>3. CASE i < p
    <3>1. x \in 0 .. d - 1 /\ x = d * 0 + x
      BY <2>1, <2>3
    <3>2. x % d = x
      BY <3>1, RemainderIs
    <3> QED
      BY <2>1, <3>2
  <2>4. CASE i >= p
    <3>1. i - p \in Nat /\ x = (i - p) + d
      BY <2>1, <2>4
    <3>2. (i - p) % d = x % d
      BY <3>1, PeriodShift
    <3>3. r[i] = ByteAt(g, p - d + ((i - p) % d))
      BY <1>1, <1>2, <2>4
    <3>4. r[i] = g[(p - d) + (x % d)]
      <4>1. (p - d) + (x % d) \in 0 .. e - 1 /\ (p - d) + (x % d) \in Int
        BY <1>1, <2>2
      <4> QED
        BY <1>3, <3>2, <3>3, <4>1
    <3> QED
      BY <1>7, <2>1, <2>2, <3>4
  <2> QED
    BY <1>1, <2>3, <2>4
<1>9. Repeats(r, p - d, d, p + Half)
  <2> SUFFICES ASSUME NEW i \in p - d .. (p + Half) - 1
               PROVE  r[i] = r[(p - d) + ((i - (p - d)) % d)]
    BY Zenon DEF Repeats
  <2> QED
    BY <1>8, Zenon
<1> QED
  BY <1>6, <1>7, <1>9

(* A copy of literals goes on with them.                                     *)
LEMMA LiteralsFurther ==
  ASSUME IInv, Decoded, lit >= last.lit, op = Start, LiteralsTaken(dst, op),
         NEW n \in Nat, op + n <= OEnd, lit + n <= LEnd,
         NEW r, r = CopyLiterals(op, lit, n)
  PROVE  /\ r \in Buffer(OEnd)
         /\ \A k \in 0 .. op - 1 : r[k] = dst[k]
         /\ LiteralsTaken(r, op + n)
<1>1. /\ OEnd \in Nat /\ LEnd \in Nat /\ op \in Nat /\ lit \in Nat
      /\ last.op \in Nat /\ last.lit \in Nat
  BY Facts DEF Decoded
<1>2. dst \in Buffer(OEnd) /\ DOMAIN dst = 0 .. OEnd - 1
  BY DEF Decoded, Buffer
<1>3. block.lit \in Seq(Nat) /\ LEnd = Len(block.lit)
  BY Facts, DecodeAssumption DEF DecodeAssumption, LEnd
<1>4. \A i \in Nat : LiteralAt(i) \in Nat \cup {Junk} /\ (i < LEnd => LiteralAt(i) = block.lit[i + 1])
  <2>1. ASSUME NEW i \in Nat, i < LEnd PROVE block.lit[i + 1] \in Nat
    <3>1. i + 1 \in 1 .. Len(block.lit)
      BY <1>1, <1>3, <2>1
    <3> QED
      BY <1>3, <3>1, ElementOfSeq
  <2> QED
    BY <2>1 DEF LiteralAt
<1> HIDE DEF LiteralAt
<1>5. \A k \in 0 .. OEnd - 1 : r[k] = IF k \in op .. op + n - 1 THEN LiteralAt(lit + k - op) ELSE dst[k]
  BY <1>2 DEF CopyLiterals
<1>6. r \in Buffer(OEnd)
  <2>1. \A k \in op .. op + n - 1 : lit + k - op \in Nat
    BY <1>1
  <2>2. \A k \in 0 .. OEnd - 1 : dst[k] \in Nat \cup {Junk}
    BY <1>2 DEF Buffer
  <2> QED
    BY <1>2, <1>4, <2>1, <2>2 DEF CopyLiterals, Buffer
<1>7. \A k \in 0 .. op - 1 : r[k] = dst[k]
  BY <1>1, <1>5
<1>8. ASSUME NEW i \in last.op .. (op + n) - 1
      PROVE  r[i] = block.lit[last.lit + (i - last.op) + 1]
  <2>1. i \in 0 .. OEnd - 1
    BY <1>1
  <2>2. CASE i < op
    <3>1. i \in last.op .. op - 1 /\ i \in 0 .. op - 1
      BY <1>1, <2>2
    <3> QED
      BY <1>7, <3>1 DEF LiteralsTaken
  <2>3. CASE i >= op
    <3>1. r[i] = LiteralAt(lit + i - op)
      BY <1>1, <1>5, <2>1, <2>3
    <3>2. /\ lit + i - op = last.lit + (i - last.op)
          /\ lit + i - op \in Nat /\ lit + i - op < LEnd
      BY <1>1, <2>3 DEF Start
    <3> QED
      BY <1>4, <3>1, <3>2
  <2> QED
    BY <1>1, <2>2, <2>3
<1>9. LiteralsTaken(r, op + n)
  <2> SUFFICES ASSUME NEW i \in last.op .. (op + n) - 1
               PROVE  r[i] = block.lit[last.lit + (i - last.op) + 1]
    BY Zenon DEF LiteralsTaken
  <2> QED
    BY <1>8, Zenon
<1> QED
  BY <1>6, <1>7, <1>9

--------------------------------------------------------------------------------
(* A whole sequence.                                                         *)

(* The first n bytes of the output, as LzBlock has them.                     *)
Written(g, n) == [i \in 1 .. n |-> g[i - 1]]

(* The output r has g's o bytes, then n literals.                            *)
Tailed(e, g, r, w, o, n, t) ==
  /\ e \in Nat /\ o \in Nat /\ n \in Nat /\ t \in Nat
  /\ g \in Buffer(e) /\ r \in Buffer(e) /\ w \in Seq(Nat)
  /\ t + n <= Len(w) /\ o + n <= e
  /\ \A k \in 0 .. o - 1 : r[k] = g[k]
  /\ \A i \in o .. o + n - 1 : r[i] = w[t + (i - o) + 1]

(* That is what LzBlock appends.                                             *)
Taken(g, r, w, o, n, t) == Written(r, o + n) = Written(g, o) \o SubSeq(w, t + 1, t + n)

LEMMA TailIs ==
  ASSUME NEW e, NEW g, NEW r, NEW w, NEW o, NEW n, NEW t, Tailed(e, g, r, w, o, n, t)
  PROVE  Taken(g, r, w, o, n, t)
<1> /\ e \in Nat /\ o \in Nat /\ n \in Nat /\ t \in Nat
    /\ g \in Buffer(e) /\ r \in Buffer(e) /\ w \in Seq(Nat)
    /\ t + n <= Len(w) /\ o + n <= e
    /\ \A k \in 0 .. o - 1 : r[k] = g[k]
    /\ \A i \in o .. o + n - 1 : r[i] = w[t + (i - o) + 1]
  BY DEF Tailed
<1> DEFINE a == Written(g, o)
           b == SubSeq(w, t + 1, t + n)
           c == a \o b
           U == Nat \cup {Junk}
<1>1. a \in Seq(U) /\ Len(a) = o /\ \A i \in 1 .. o : a[i] = g[i - 1]
  <2>1. \A i \in 1 .. o : g[i - 1] \in U
    BY DEF Buffer
  <2> QED
    BY <2>1 DEF Written
<1>2. b \in Seq(U) /\ Len(b) = n /\ \A i \in 1 .. n : b[i] = w[t + i]
  OBVIOUS
<1> HIDE DEF a, b, U
<1>3. /\ c \in Seq(U) /\ Len(c) = o + n
      /\ \A i \in 1 .. o + n : c[i] = IF i <= o THEN a[i] ELSE b[i - o]
  BY <1>1, <1>2, ConcatProperties
<1> HIDE DEF c
<1>4. \A i \in 1 .. o + n : c[i] = r[i - 1]
  <2> SUFFICES ASSUME NEW i \in 1 .. o + n PROVE c[i] = r[i - 1]
    OBVIOUS
  <2>1. CASE i <= o
    <3>1. i \in 1 .. o /\ i - 1 \in 0 .. o - 1
      BY <2>1
    <3> QED
      BY <1>1, <1>3, <2>1, <3>1
  <2>2. CASE i > o
    <3>1. i - o \in 1 .. n /\ i - 1 \in o .. o + n - 1 /\ t + ((i - 1) - o) + 1 = t + (i - o)
      BY <2>2
    <3>2. c[i] = b[i - o] /\ b[i - o] = w[t + (i - o)]
      BY <1>2, <1>3, <2>2, <3>1
    <3>3. r[i - 1] = w[t + ((i - 1) - o) + 1]
      BY <3>1
    <3> QED
      BY <3>1, <3>2, <3>3
  <2> QED
    BY <2>1, <2>2
<1>5. c = [i \in 1 .. o + n |-> c[i]]
  BY <1>3, LenProperties, Zenon
<1>6. [i \in 1 .. o + n |-> c[i]] = [i \in 1 .. o + n |-> r[i - 1]]
  BY <1>4, Zenon
<1> QED
  BY <1>5, <1>6 DEF Taken, Written, a, b, c

(* The output r has g's o bytes, then l literals and n bytes of a match.     *)
Sequenced(e, g, r, w, o, l, n, t, d) ==
  /\ e \in Nat /\ o \in Nat /\ l \in Nat /\ n \in Nat /\ t \in Nat
  /\ g \in Buffer(e) /\ r \in Buffer(e) /\ w \in Seq(Nat)
  /\ t + l <= Len(w) /\ o + l + n <= e
  /\ d \in 1 .. o + l
  /\ \A k \in 0 .. o - 1 : r[k] = g[k]
  /\ \A i \in o .. o + l - 1 : r[i] = w[t + (i - o) + 1]
  /\ Repeats(r, o + l - d, d, o + l + n)

(* Such an output is what LzBlock writes for the sequence.                   *)
LEMMA SequenceIs ==
  ASSUME NEW e, NEW g, NEW r, NEW w, NEW o, NEW l, NEW n, NEW t, NEW d,
         Sequenced(e, g, r, w, o, l, n, t, d)
  PROVE  Written(r, o + l + n) =
           Decoding!Repeat(Written(g, o) \o SubSeq(w, t + 1, t + l), d, n)
<1> /\ e \in Nat /\ o \in Nat /\ l \in Nat /\ n \in Nat /\ t \in Nat
    /\ g \in Buffer(e) /\ r \in Buffer(e) /\ w \in Seq(Nat)
    /\ t + l <= Len(w) /\ o + l + n <= e
    /\ d \in 1 .. o + l
    /\ \A k \in 0 .. o - 1 : r[k] = g[k]
    /\ \A i \in o .. o + l - 1 : r[i] = w[t + (i - o) + 1]
    /\ Repeats(r, o + l - d, d, o + l + n)
  BY DEF Sequenced
<1> DEFINE c == Written(g, o) \o SubSeq(w, t + 1, t + l)
<1>1. Tailed(e, g, r, w, o, l, t)
  <2>1. o + l <= e
    OBVIOUS
  <2> QED
    BY <2>1, Zenon DEF Tailed
<1>2. Taken(g, r, w, o, l, t)
  BY <1>1, TailIs, Zenon
<1>3. c = Written(r, o + l)
  BY <1>2, Zenon DEF Taken
<1> HIDE DEF c
<1>4. Len(c) = o + l /\ \A i \in 1 .. o + l : c[i] = r[i - 1]
  BY <1>3 DEF Written
<1>5. ASSUME NEW i \in 1 .. o + l + n, i > o + l
      PROVE  /\ r[i - 1] = r[(o + l - d) + (((i - 1) - (o + l)) % d)]
             /\ (o + l - d) + 1 + ((i - (o + l) - 1) % d) \in 1 .. o + l
             /\ ((o + l - d) + 1 + ((i - (o + l) - 1) % d)) - 1
                  = (o + l - d) + (((i - 1) - (o + l)) % d)
  <2>1. PICK x \in Nat : x = (i - 1) - (o + l)
    <3>1. (i - 1) - (o + l) \in Nat
      BY <1>5
    <3> QED
      BY <3>1
  <2>2. d \in Nat /\ d >= 1
    OBVIOUS
  <2>6. PICK y \in 0 .. d - 1 : y = x % d
    BY <2>2, Remainder
  <2>3. r[i - 1] = r[(o + l - d) + (((i - 1) - (o + l - d)) % d)]
    <3>1. i - 1 \in o + l - d .. o + l + n - 1
      BY <1>5
    <3> QED
      BY <3>1 DEF Repeats
  <2>4. ((i - 1) - (o + l - d)) % d = x % d
    <3>1. (i - 1) - (o + l - d) = x + d
      BY <2>1
    <3>2. (x + d) % d = x % d
      BY <2>2, PeriodShift
    <3> QED
      BY <3>1, <3>2
  <2>5. i - (o + l) - 1 = x
    BY <2>1
  <2>7. /\ o + l - d + 1 + y \in 1 .. o + l
        /\ (o + l - d + 1 + y) - 1 = o + l - d + y
    BY <2>2, <2>6
  <2> QED
    BY <2>1, <2>3, <2>4, <2>5, <2>6, <2>7, Zenon
<1>6. ASSUME NEW i \in 1 .. o + l + n
      PROVE  r[i - 1] = IF i <= Len(c) THEN c[i]
                        ELSE c[Len(c) - d + 1 + ((i - Len(c) - 1) % d)]
  <2>1. CASE i <= o + l
    BY <1>4, <2>1
  <2>2. CASE i > o + l
    <3>1. c[(o + l - d) + 1 + ((i - (o + l) - 1) % d)] = r[(o + l - d) + (((i - 1) - (o + l)) % d)]
      BY <1>4, <1>5, <2>2
    <3> QED
      BY <1>4, <1>5, <2>2, <3>1
  <2> QED
    BY <2>1, <2>2
<1>7. Decoding!Repeat(c, d, n) =
        [i \in 1 .. o + l + n |-> IF i <= Len(c) THEN c[i]
                                  ELSE c[Len(c) - d + 1 + ((i - Len(c) - 1) % d)]]
  BY <1>4 DEF Decoding!Repeat
<1>8. Written(r, o + l + n) = Decoding!Repeat(c, d, n)
  BY <1>6, <1>7 DEF Written
<1> QED
  BY <1>8 DEF c

--------------------------------------------------------------------------------
(* Steps of the decoder as steps of LzBlock.                                 *)

(* A step of LzBlock, or none.                                               *)
Step == [Decoding!LzNext]_(Decoding!lzVars)

(* What every step starts from, DInv with it.                                *)
LEMMA Known ==
  ASSUME IInv, DInv
  PROVE  /\ block.ctrl \in Seq(Byte) /\ CEnd = Len(block.ctrl)
         /\ block.lit \in Seq(Nat) /\ LEnd = Len(block.lit) /\ OEnd = block.len
         /\ last.ctrl \in Nat /\ last.lit \in Nat /\ last.op \in Nat /\ last.op <= OEnd
         /\ dst \in Buffer(OEnd)
         /\ TokenRead = Tok(block.ctrl, last.ctrl)
         /\ \A i : Control(i) = block.ctrl[i + 1]
BY Facts, DecodeAssumption
   DEF DecodeAssumption, DInv, Decoded, CEnd, LEnd, OEnd, TokenRead, Control, Tok

(* Inside a sequence nothing is decided.                                     *)
LEMMA Stutters ==
  ASSUME IInv, DInv, block' = block, last' = last, result' = result,
         \A k \in 0 .. last.op - 1 : dst'[k] = dst[k]
  PROVE  Step
<1>1. \A i \in 1 .. last.op : dst'[i - 1] = dst[i - 1]
  <2>1. \A i \in 1 .. last.op : i - 1 \in 0 .. last.op - 1
    BY Known
  <2> QED
    BY <2>1
<1>2. [i \in 1 .. last'.op |-> dst'[i - 1]] = [i \in 1 .. last.op |-> dst[i - 1]]
  BY <1>1
<1> QED
  BY <1>2 DEF Step, Decoding!lzVars

(* A step inside a sequence keeps Decoded.                                   *)
LEMMA DecodedInside ==
  ASSUME IInv, DInv, block' = block, last' = last, dst' \in Buffer(OEnd),
         pc' # "done", result' = result, pc # "done",
         pc' \in {"fast", "safe"} \/ off' = Distance(block.ctrl, last.ctrl)
  PROVE  Decoded'
<1>1. OEnd' = OEnd
  BY Facts
<1> QED
  BY <1>1 DEF DInv, Decoded

(* The lengths are read.                                                     *)
LEMMA FastExtendedDec ==
  ASSUME IInv, DInv, FastExtended
  PROVE  DInv' /\ Step
<1>1. /\ block' = block /\ last' = last /\ result' = result /\ dst' = dst
      /\ op' = op /\ lit' = lit /\ ctrl' = ctrl + 3 /\ m' = ctrl + 3
      /\ ctrl <= CFast /\ pc = "fast"
  BY DEF FastExtended, InMargins
<1>2. last.ctrl = ctrl /\ last.op = op /\ last.lit = lit
  BY <1>1 DEF DInv, AtToken
<1>3. ctrl + 3 <= Len(block.ctrl)
  BY <1>1, Known, Margins
<1>4. /\ off' = Distance(block.ctrl, last.ctrl)
      /\ ll' = Tok(block.ctrl, last.ctrl).ll /\ ml' = Tok(block.ctrl, last.ctrl).ml
      /\ Tok(block.ctrl, last.ctrl).llx \/ Tok(block.ctrl, last.ctrl).mlx
      /\ pc' = IF Tok(block.ctrl, last.ctrl).llx THEN "fastLL" ELSE "fastML"
  BY <1>2, Zenon DEF FastExtended, Tok, Control
<1>5. /\ pc' = "fastLL" => ReadingLL(block.ctrl, last.ctrl, m', ll', ml')
      /\ pc' = "fastML" => ReadingML(block.ctrl, last.ctrl, m', ll', ml')
      /\ pc' \in {"fastLL", "fastML"}
  BY <1>1, <1>2, <1>3, <1>4, Known, TokenIsRead
<1>6. ReadingFast'
  BY <1>1, <1>2, <1>5 DEF ReadingFast
<1>7. Decoded'
  BY <1>1, <1>4, <1>5, Known, DecodedInside
<1> QED
  BY <1>1, <1>5, <1>6, <1>7, Stutters DEF DInv, AtToken, ReadingSafe, TakingLiterals, Repeating

LEMMA FastLLDec ==
  ASSUME IInv, Short, LengthsFit, DInv, FastLL
  PROVE  DInv' /\ Step
<1> DEFINE c == block.ctrl
           f == last.ctrl
<1>1. /\ block' = block /\ last' = last /\ result' = result /\ dst' = dst
      /\ op' = op /\ lit' = lit /\ ctrl' = ctrl /\ ml' = ml /\ off' = off
      /\ pc = "fastLL" /\ pc' \in {"fastLL", "fastML", "fastExt"}
  BY DEF FastLL
<1>2. /\ op = last.op /\ lit = last.lit /\ ctrl = last.ctrl + 3
      /\ ReadingLL(c, f, m, ll, ml)
  BY <1>1 DEF DInv, ReadingFast
<1>3. /\ pc' = "fastLL" => ReadingLL(c, f, m', ll', ml')
      /\ pc' = "fastML" => ReadingML(c, f, m', ll', ml')
      /\ pc' = "fastExt" /\ ll' >= 0 => ReadWhole(c, f, m', ll', ml')
  <2>1. CASE m >= CEnd
    BY <2>1 DEF FastLL
  <2>2. CASE ~(m >= CEnd)
    <3>1. /\ m' = m + 1 /\ ll' = ll + c[m + 1]
          /\ pc' = CASE c[m + 1] = Base -> "fastLL"
                     [] c[m + 1] # Base /\ Tok(c, f).mlx -> "fastML"
                     [] OTHER -> "fastExt"
      <4>1. Control(m) = c[m + 1] /\ TokenRead.mlx = Tok(c, f).mlx
        BY DEF Control, TokenRead, Tok
      <4>2. /\ m' = m + 1 /\ ll' = ll + Control(m)
            /\ pc' = CASE Control(m) = Base -> "fastLL"
                       [] Control(m) # Base /\ TokenRead.mlx -> "fastML"
                       [] OTHER -> "fastExt"
        BY <2>2, FastLLTurn
      <4> HIDE DEF c, f
      <4> QED
        BY <4>1, <4>2
    <3>2. m \in Nat /\ m < Len(c) /\ ll \in Int /\ ml \in Int
      BY <1>1, <2>2, Known, Facts DEF IInv, Extended
    <3>3. /\ c[m + 1] = Base => ReadingLL(c, f, m + 1, ll + c[m + 1], ml)
          /\ c[m + 1] # Base /\ Tok(c, f).mlx => ReadingML(c, f, m + 1, ll + c[m + 1], ml)
          /\ c[m + 1] # Base /\ ~Tok(c, f).mlx => ReadWhole(c, f, m + 1, ll + c[m + 1], ml)
      BY <1>2, <3>2, Known, LiteralByteIsRead
    <3> HIDE DEF c, f
    <3> QED
      BY <1>1, <3>1, <3>3
  <2> QED
    BY <2>1, <2>2
<1>4. ReadingFast'
  BY <1>1, <1>2, <1>3 DEF ReadingFast
<1>5. Decoded'
  BY <1>1, Known, DecodedInside DEF DInv, Decoded
<1> QED
  BY <1>1, <1>4, <1>5, Stutters DEF DInv, AtToken, ReadingSafe, TakingLiterals, Repeating

LEMMA FastMLDec ==
  ASSUME IInv, Short, LengthsFit, DInv, FastML
  PROVE  DInv' /\ Step
<1> DEFINE c == block.ctrl
           f == last.ctrl
<1>1. /\ block' = block /\ last' = last /\ result' = result /\ dst' = dst
      /\ op' = op /\ lit' = lit /\ ctrl' = ctrl /\ off' = off
      /\ pc = "fastML" /\ pc' \in {"fastML", "fastExt"}
  BY DEF FastML
<1>2. /\ op = last.op /\ lit = last.lit /\ ctrl = last.ctrl + 3
      /\ ReadingML(c, f, m, ll, ml)
  BY <1>1 DEF DInv, ReadingFast
<1>3. /\ pc' = "fastML" => ReadingML(c, f, m', ll', ml')
      /\ pc' = "fastExt" /\ ll' >= 0 => ReadWhole(c, f, m', ll', ml')
  <2>1. CASE m >= CEnd
    BY <2>1 DEF FastML
  <2>2. CASE ~(m >= CEnd)
    <3>1. /\ m' = m + 1 /\ ml' = ml + c[m + 1] /\ ll' = ll
          /\ pc' = IF c[m + 1] = Base THEN "fastML" ELSE "fastExt"
      BY <2>2, FastMLTurn, Zenon DEF FastML, Control
    <3>2. m \in Nat /\ m < Len(c) /\ ll \in Int /\ ml \in Int
      BY <1>1, <2>2, Known, Facts DEF IInv, Extended
    <3>3. /\ c[m + 1] = Base => ReadingML(c, f, m + 1, ll, ml + c[m + 1])
          /\ c[m + 1] # Base => ReadWhole(c, f, m + 1, ll, ml + c[m + 1])
      BY <1>2, <3>2, Known, MatchByteIsRead
    <3> HIDE DEF c, f
    <3> QED
      BY <1>1, <3>1, <3>3
  <2> QED
    BY <2>1, <2>2
<1>4. ReadingFast'
  BY <1>1, <1>2, <1>3 DEF ReadingFast
<1>5. Decoded'
  BY <1>1, Known, DecodedInside DEF DInv, Decoded
<1> QED
  BY <1>1, <1>4, <1>5, Stutters DEF DInv, AtToken, ReadingSafe, TakingLiterals, Repeating

(* The lengths fit the margins, or the sequence is left to decode_safe.      *)
LEMMA FastExtDec ==
  ASSUME IInv, DInv, FastExt
  PROVE  DInv' /\ Step
<1>1. /\ block' = block /\ last' = last /\ result' = result /\ dst' = dst
      /\ op' = op /\ lit' = lit /\ off' = off /\ ll' = ll /\ ml' = ml /\ pc = "fastExt"
      /\ \/ ctrl' = ctrl - 3 /\ pc' = "safe"
         \/ ctrl' = m /\ pc' = "literals" /\ ~(ll < 0)
  BY DEF FastExt, TooLong
<1>2. /\ op = last.op /\ lit = last.lit /\ ctrl = last.ctrl + 3
      /\ ll >= 0 => ReadWhole(block.ctrl, last.ctrl, m, ll, ml)
  BY <1>1 DEF DInv, ReadingFast
<1>3. Decoded'
  BY <1>1, Known, DecodedInside DEF DInv, Decoded
<1>4. CASE pc' = "safe"
  <2>1. ctrl' = last.ctrl
    BY <1>1, <1>2, <1>4, Known
  <2>2. last' = [ctrl |-> ctrl', lit |-> lit', op |-> op']
    BY <1>1, <1>2, <2>1 DEF DInv, Decoded
  <2> QED
    BY <1>1, <1>3, <1>4, <2>2, Stutters
       DEF DInv, AtToken, ReadingFast, ReadingSafe, TakingLiterals, Repeating
<1>5. CASE pc' = "literals"
  <2>1. ReadWhole(block.ctrl, last.ctrl, ctrl', lit' - last.lit + ll', ml')
    <3>1. lit' - last.lit + ll' = ll
      BY <1>1, <1>2, Known, Facts
    <3> QED
      BY <1>1, <1>2, <1>5, <3>1, Facts
  <2>2. TakingLiterals'
    BY <1>1, <1>2, <1>5, <2>1, Known DEF TakingLiterals, Start, LiteralsTaken
  <2> QED
    BY <1>1, <1>3, <1>5, <2>2, Stutters
       DEF DInv, AtToken, ReadingFast, ReadingSafe, Repeating
<1> QED
  BY <1>1, <1>4, <1>5

(* The same for decode_safe, where a missing byte refuses the block.         *)
LEMMA Refused ==
  ASSUME IInv, DInv, block' = block, last' = last, pc # "done", Refuse,
         \A k \in 0 .. last.op - 1 : dst'[k] = dst[k],
         last.ctrl < CEnd,
         Decoding!Whole(block.ctrl, last.ctrl) => ~Decoding!Fits(Decoding!Lengths(block.ctrl, last.ctrl))
  PROVE  Step
<1>1. \A i \in 1 .. last.op : dst'[i - 1] = dst[i - 1]
  <2>1. \A i \in 1 .. last.op : i - 1 \in 0 .. last.op - 1
    BY Known
  <2> QED
    BY <2>1
<1>2. [i \in 1 .. last'.op |-> dst'[i - 1]] = [i \in 1 .. last.op |-> dst[i - 1]]
  BY <1>1
<1>3. result = "more" /\ result' = "bad"
  BY DEF DInv, Decoded, Refuse
<1>4. Decoding!LzRefuse
  BY <1>2, <1>3, Known DEF Decoding!LzRefuse
<1> QED
  BY <1>4 DEF Step, Decoding!LzNext

(* A refused block is done with.                                             *)
LEMMA RefusedInv ==
  ASSUME IInv, DInv, block' = block, last' = last, dst' \in Buffer(OEnd), Refuse
  PROVE  DInv'
<1>1. OEnd' = OEnd
  BY Facts
<1> QED
  BY <1>1 DEF Refuse, DInv, Decoded, AtToken, ReadingFast, ReadingSafe, TakingLiterals, Repeating

(* What the sequence asks for does not fit.                                  *)
LEMMA FitsIs ==
  ASSUME IInv, DInv, NEW x, NEW l \in Int, NEW n \in Int,
         ReadWhole(block.ctrl, last.ctrl, x, l, n)
  PROVE  /\ last.ctrl + 3 <= CEnd
         /\ Decoding!Fits(Decoding!Lengths(block.ctrl, last.ctrl)) <=>
              /\ last.lit + l <= LEnd
              /\ Distance(block.ctrl, last.ctrl) <= last.op + l
              /\ last.op + l + n <= OEnd
<1> DEFINE s == Decoding!Lengths(block.ctrl, last.ctrl)
<1>1. s.ll = l /\ s.ml = n /\ s.dist = Distance(block.ctrl, last.ctrl)
  BY LengthsAre DEF ReadWhole
<1>2. last.ctrl + 3 <= CEnd
  BY Known, LengthsAre DEF ReadWhole
<1>3. Len([i \in 1 .. last.op |-> dst[i - 1]]) = last.op
  BY Known
<1> HIDE DEF s
<1>4. Decoding!Fits(s) <=>
        /\ last.lit + l <= LEnd
        /\ Distance(block.ctrl, last.ctrl) <= last.op + l
        /\ last.op + l + n <= OEnd
  BY <1>1, <1>3, Known DEF Decoding!Fits
<1> QED
  BY <1>2, <1>4 DEF s

LEMMA SafeTokenDec ==
  ASSUME IInv, DInv, SafeToken
  PROVE  DInv' /\ Step
<1> DEFINE c == block.ctrl
           f == last.ctrl
<1>1. /\ block' = block /\ last' = last /\ dst' = dst /\ op' = op /\ lit' = lit
      /\ pc = "safe" /\ ctrl < CEnd
  BY DEF SafeToken
<1>2. last.ctrl = ctrl /\ last.op = op /\ last.lit = lit
  BY <1>1 DEF DInv, AtToken
<1>3. CASE CEnd - ctrl < 3
  <2>1. Refuse
    BY <1>3 DEF SafeToken
  <2>2. ~Decoding!Whole(c, f)
    <3>1. ~(f + 3 <= Len(c))
      BY <1>2, <1>3, Known, Facts
    <3> QED
      BY <3>1, LengthsAre
  <2> QED
    BY <1>1, <1>2, <2>1, <2>2, Known, Refused, RefusedInv
<1>4. CASE ~(CEnd - ctrl < 3)
  <2>1. /\ ctrl' = ctrl + 3 /\ result' = result /\ off' = Distance(c, f)
        /\ ll' = Tok(c, f).ll /\ ml' = Tok(c, f).ml
        /\ pc' = CASE Tok(c, f).llx -> "safeLL"
                   [] ~Tok(c, f).llx /\ Tok(c, f).mlx -> "safeML"
                   [] OTHER -> "safeLiterals"
    BY <1>2, <1>4, Zenon DEF SafeToken, Tok, Control
  <2>2. f + 3 <= Len(c) /\ f \in Nat /\ c \in Seq(Byte)
    BY <1>2, <1>4, Known, Facts
  <2> HIDE DEF c, f
  <2>3. /\ Tok(c, f).llx => ReadingLL(c, f, ctrl', ll', ml')
        /\ ~Tok(c, f).llx /\ Tok(c, f).mlx => ReadingML(c, f, ctrl', ll', ml')
        /\ ~Tok(c, f).llx /\ ~Tok(c, f).mlx => ReadWhole(c, f, ctrl', ll', ml')
    <3>1. ctrl' = f + 3
      BY <1>2, <2>1 DEF f
    <3> QED
      BY <2>1, <2>2, <3>1, TokenIsRead
  <2>4. pc' \in {"safeLL", "safeML", "safeLiterals"}
    BY <2>1
  <2>5. ReadingSafe'
    BY <1>1, <1>2, <2>1, <2>3, <2>4 DEF ReadingSafe, c, f
  <2>6. Decoded'
    BY <1>1, <2>1, <2>4, Known, DecodedInside DEF c, f
  <2> QED
    BY <1>1, <2>1, <2>4, <2>5, <2>6, Stutters
       DEF DInv, AtToken, ReadingFast, TakingLiterals, Repeating
<1> QED
  BY <1>3, <1>4

LEMMA SafeLLDec ==
  ASSUME IInv, Short, LengthsFit, DInv, SafeLL
  PROVE  DInv' /\ Step
<1> DEFINE c == block.ctrl
           f == last.ctrl
<1>1. /\ block' = block /\ last' = last /\ dst' = dst
      /\ op' = op /\ lit' = lit /\ ml' = ml /\ off' = off /\ pc = "safeLL"
  BY DEF SafeLL
<1>2. op = last.op /\ lit = last.lit /\ ReadingLL(c, f, ctrl, ll, ml)
  BY <1>1 DEF DInv, ReadingSafe
<1>3. CASE ctrl >= CEnd
  <2>1. Refuse
    BY <1>3 DEF SafeLL
  <2>2. ~Decoding!Whole(c, f)
    BY <1>2, <1>3, Known, Facts, CutOff
  <2>3. f < CEnd
    BY <1>2, Known, Facts DEF ReadingLL
  <2> QED
    BY <1>1, <2>1, <2>2, <2>3, Known, Refused, RefusedInv
<1>4. CASE ~(ctrl >= CEnd)
  <2>1. /\ ctrl' = ctrl + 1 /\ ll' = ll + c[ctrl + 1] /\ result' = result
        /\ pc' = CASE c[ctrl + 1] = Base -> "safeLL"
                   [] c[ctrl + 1] # Base /\ Tok(c, f).mlx -> "safeML"
                   [] OTHER -> "safeLiterals"
    <3>1. Wrap(ll + Control(ctrl)) = ll + Control(ctrl)
      BY <1>1, <1>4, UnwrappedSafe
    <3> QED
      BY <1>4, <3>1, Zenon DEF SafeLL, Control, TokenRead, Tok
  <2>2. /\ c[ctrl + 1] = Base => ReadingLL(c, f, ctrl + 1, ll + c[ctrl + 1], ml)
        /\ c[ctrl + 1] # Base /\ Tok(c, f).mlx => ReadingML(c, f, ctrl + 1, ll + c[ctrl + 1], ml)
        /\ c[ctrl + 1] # Base /\ ~Tok(c, f).mlx => ReadWhole(c, f, ctrl + 1, ll + c[ctrl + 1], ml)
    BY <1>2, <1>4, Known, Facts, LiteralByteIsRead
  <2> HIDE DEF c, f
  <2>3. /\ pc' = "safeLL" => ReadingLL(c, f, ctrl', ll', ml')
        /\ pc' = "safeML" => ReadingML(c, f, ctrl', ll', ml')
        /\ pc' = "safeLiterals" => ReadWhole(c, f, ctrl', ll', ml')
        /\ pc' \in {"safeLL", "safeML", "safeLiterals"}
    BY <1>1, <2>1, <2>2
  <2>4. ReadingSafe'
    BY <1>1, <1>2, <2>3 DEF ReadingSafe, c, f
  <2>5. Decoded'
    BY <1>1, <2>1, <2>3, Known, DecodedInside DEF DInv, Decoded
  <2> QED
    BY <1>1, <2>1, <2>3, <2>4, <2>5, Stutters
       DEF DInv, AtToken, ReadingFast, TakingLiterals, Repeating
<1> QED
  BY <1>3, <1>4

LEMMA SafeMLDec ==
  ASSUME IInv, Short, LengthsFit, DInv, SafeML
  PROVE  DInv' /\ Step
<1> DEFINE c == block.ctrl
           f == last.ctrl
<1>1. /\ block' = block /\ last' = last /\ dst' = dst
      /\ op' = op /\ lit' = lit /\ ll' = ll /\ off' = off /\ pc = "safeML"
  BY DEF SafeML
<1>2. op = last.op /\ lit = last.lit /\ ReadingML(c, f, ctrl, ll, ml)
  BY <1>1 DEF DInv, ReadingSafe
<1>3. CASE ctrl >= CEnd
  <2>1. Refuse
    BY <1>3 DEF SafeML
  <2>2. ~Decoding!Whole(c, f)
    BY <1>2, <1>3, Known, Facts, CutOff
  <2>3. f < CEnd
    BY <1>2, Known, Facts DEF ReadingML
  <2> QED
    BY <1>1, <2>1, <2>2, <2>3, Known, Refused, RefusedInv
<1>4. CASE ~(ctrl >= CEnd)
  <2>1. /\ ctrl' = ctrl + 1 /\ ml' = ml + c[ctrl + 1] /\ result' = result
        /\ pc' = IF c[ctrl + 1] = Base THEN "safeML" ELSE "safeLiterals"
    <3>1. Wrap(ml + Control(ctrl)) = ml + Control(ctrl)
      BY <1>1, <1>4, UnwrappedSafe
    <3> QED
      BY <1>4, <3>1, Zenon DEF SafeML, Control
  <2>2. /\ c[ctrl + 1] = Base => ReadingML(c, f, ctrl + 1, ll, ml + c[ctrl + 1])
        /\ c[ctrl + 1] # Base => ReadWhole(c, f, ctrl + 1, ll, ml + c[ctrl + 1])
    <3>1. ctrl \in Nat /\ ctrl < Len(c) /\ ll \in Int /\ ml \in Int
      BY <1>4, Known, Facts
    <3> QED
      BY <1>2, <3>1, Known, MatchByteIsRead
  <2> HIDE DEF c, f
  <2>3. /\ pc' = "safeML" => ReadingML(c, f, ctrl', ll', ml')
        /\ pc' = "safeLiterals" => ReadWhole(c, f, ctrl', ll', ml')
        /\ pc' \in {"safeML", "safeLiterals"}
    BY <1>1, <2>1, <2>2
  <2>4. ReadingSafe'
    BY <1>1, <1>2, <2>3 DEF ReadingSafe, c, f
  <2>5. Decoded'
    BY <1>1, <2>1, <2>3, Known, DecodedInside DEF DInv, Decoded
  <2> QED
    BY <1>1, <2>1, <2>3, <2>4, <2>5, Stutters
       DEF DInv, AtToken, ReadingFast, TakingLiterals, Repeating
<1> QED
  BY <1>3, <1>4

(* The end of a sequence, reached by any of the copies.                      *)
LEMMA SequenceDone ==
  ASSUME IInv, IInv', DInv, block' = block, result' = result, pc # "done",
         lit' = lit, ctrl' = ctrl, pc' \in {"fast", "safe"},
         last' = [ctrl |-> ctrl, lit |-> lit, op |-> op'],
         lit >= last.lit, off \in 1 .. Start, op' >= Start,
         off = Distance(block.ctrl, last.ctrl),
         ReadWhole(block.ctrl, last.ctrl, ctrl, lit - last.lit, op' - Start),
         dst' \in Buffer(OEnd), \A k \in 0 .. last.op - 1 : dst'[k] = dst[k],
         LiteralsTaken(dst', Start), Repeats(dst', Start - off, off, op')
  PROVE  DInv' /\ Step
<1> DEFINE s == Decoding!Lengths(block.ctrl, last.ctrl)
<1>1. /\ op' \in Nat /\ op' <= OEnd /\ OEnd' = OEnd /\ lit <= LEnd /\ OEnd \in Nat
      /\ lit \in Nat /\ ctrl \in Nat
  BY Facts DEF IInv, Typed, Within
<1>2. DInv'
  BY <1>1 DEF DInv, Decoded, AtToken, ReadingFast, ReadingSafe, TakingLiterals, Repeating
<1>3. PICK l \in Nat, n \in Nat : l = lit - last.lit /\ n = op' - Start
  <2>1. lit - last.lit \in Nat
    BY <1>1, Known
  <2>2. Start \in Nat
    BY <2>1, Known DEF Start
  <2>3. PICK p \in Nat, z \in Nat : p = op' /\ z = Start
    BY <1>1, <2>2
  <2>4. p >= z
    BY <2>3
  <2>5. p - z \in Nat
    BY <2>4
  <2> QED
    BY <2>1, <2>3, <2>5
<1>4. Start = last.op + l /\ op' = last.op + l + n /\ last.lit + l = lit
  <2>1. Start = last.op + l
    BY <1>3 DEF Start
  <2>2. last.lit + l = lit
    BY <1>1, <1>3, Known
  <2>5. Start \in Nat
    BY <2>1, Known
  <2>3. PICK p \in Nat, z \in Nat : p = op' /\ z = Start
    BY <1>1, <2>5
  <2>4. p = z + n
    BY <1>3, <2>3
  <2> QED
    BY <2>1, <2>2, <2>3, <2>4, Known
<1>5. s.ll = l /\ s.ml = n /\ s.dist = off /\ s.next = ctrl /\ Decoding!Whole(block.ctrl, last.ctrl)
  BY <1>3, LengthsAre DEF ReadWhole
<1>6. Decoding!Fits(s) /\ last.ctrl < Len(block.ctrl)
  <2>1. ReadWhole(block.ctrl, last.ctrl, ctrl, l, n)
    BY <1>3
  <2>2. /\ last.ctrl + 3 <= CEnd
        /\ Decoding!Fits(s) <=>
              /\ last.lit + l <= LEnd
              /\ Distance(block.ctrl, last.ctrl) <= last.op + l
              /\ last.op + l + n <= OEnd
    BY <2>1, FitsIs
  <2>3. Distance(block.ctrl, last.ctrl) <= last.op + l
    <3>1. PICK p \in Nat : p = last.op + l
      BY Known
    <3>2. off \in 1 .. p
      BY <1>4, <3>1
    <3> QED
      BY <3>1, <3>2
  <2>4. last.op + l + n <= OEnd
    BY <1>1, <1>4, Zenon
  <2>5. last.ctrl < Len(block.ctrl)
    BY <2>2, Known
  <2> QED
    BY <1>1, <1>4, <2>2, <2>3, <2>4, <2>5
<1>7. Written(dst', op') =
        Decoding!Repeat(Written(dst, last.op)
                          \o SubSeq(block.lit, last.lit + 1, last.lit + l), off, n)
  <2>1. /\ last.lit + l <= Len(block.lit) /\ last.op + l + n <= OEnd
        /\ off \in 1 .. last.op + l
        /\ \A i \in last.op .. (last.op + l) - 1 : dst'[i] = block.lit[last.lit + (i - last.op) + 1]
        /\ Repeats(dst', (last.op + l) - off, off, last.op + l + n)
    BY <1>1, <1>4, Known DEF LiteralsTaken
  <2>2. PICK o \in Nat, t \in Nat, g \in Buffer(OEnd), r \in Buffer(OEnd) :
          o = last.op /\ t = last.lit /\ g = dst /\ r = dst'
    BY Known
  <2>3. PICK w \in Seq(Nat), e \in Nat, d \in 1 .. o + l : w = block.lit /\ e = OEnd /\ d = off
    BY <1>1, <2>1, <2>2, Known
  <2>4. Sequenced(e, g, r, w, o, l, n, t, d)
    <3>1. (o + l) - d = o + l - d /\ (o + l) - 1 = o + l - 1
      BY <2>3
    <3>2. /\ t + l <= Len(w) /\ o + l + n <= e
          /\ g \in Buffer(e) /\ r \in Buffer(e)
          /\ \A k \in 0 .. o - 1 : r[k] = g[k]
          /\ \A i \in o .. o + l - 1 : r[i] = w[t + (i - o) + 1]
          /\ Repeats(r, o + l - d, d, o + l + n)
      BY <2>1, <2>2, <2>3, <3>1
    <3> QED
      BY <3>2, Zenon DEF Sequenced
  <2>5. Written(r, o + l + n) =
          Decoding!Repeat(Written(g, o) \o SubSeq(w, t + 1, t + l), d, n)
    BY <2>4, SequenceIs
  <2> QED
    BY <1>4, <2>2, <2>3, <2>5
<1> HIDE DEF s
<1>8. Decoding!LzSequence
  <2>1. result = "more"
    BY DEF DInv, Decoded
  <2>2. last'.op = op' /\ last'.lit = last.lit + l /\ last'.ctrl = s.next
    BY <1>4, <1>5
  <2> QED
    BY <1>5, <1>6, <1>7, <2>1, <2>2 DEF Decoding!LzSequence, Written, s
<1> QED
  BY <1>2, <1>8 DEF Step, Decoding!LzNext

--------------------------------------------------------------------------------
(* The literals.                                                             *)

(* What is written behind the literals leaves them as they are.              *)
LEMMA LiteralsKept ==
  ASSUME IInv, DInv, NEW h \in Nat, NEW g, NEW r, \A k \in 0 .. h - 1 : r[k] = g[k],
         LiteralsTaken(g, h)
  PROVE  LiteralsTaken(r, h)
<1> SUFFICES ASSUME NEW i \in last.op .. h - 1
             PROVE  r[i] = block.lit[last.lit + (i - last.op) + 1]
  BY DEF LiteralsTaken
<1>1. i \in 0 .. h - 1
  BY Known
<1> QED
  BY <1>1 DEF LiteralsTaken

LEMMA RepeatsShorter ==
  ASSUME NEW g, NEW q \in Nat, NEW d, NEW h \in Int, NEW k \in Int, k <= h, Repeats(g, q, d, h)
  PROVE  Repeats(g, q, d, k)
BY DEF Repeats

(* A wide copy of literals of which l count.                                 *)
LEMMA LiteralsAreTaken ==
  ASSUME IInv, DInv, block' = block, last' = last, result' = result, pc # "done",
         lit >= last.lit, op = Start, LiteralsTaken(dst, op),
         off' = Distance(block.ctrl, last.ctrl),
         NEW n \in Nat, NEW l \in Nat, l <= n, op + n <= OEnd, lit + n <= LEnd,
         dst' = CopyLiterals(op, lit, n), op' = op + l, lit' = lit + l,
         pc' \in {"literals", "match"},
         pc' = "literals" => ReadWhole(block.ctrl, last.ctrl, ctrl', lit' - last.lit + ll', ml'),
         pc' = "match" => ReadWhole(block.ctrl, last.ctrl, ctrl', lit' - last.lit, ml')
  PROVE  DInv' /\ Step
<1>1. /\ op \in Nat /\ lit \in Nat /\ last.op \in Nat /\ last.lit \in Nat /\ last.op <= op
  <2>1. /\ op \in Nat /\ lit \in Nat
    BY Facts
  <2>2. last.op \in Nat /\ last.lit \in Nat
    BY Known
  <2> QED
    BY <2>1, <2>2 DEF Start
<1>2. /\ dst' \in Buffer(OEnd)
      /\ \A k \in 0 .. op - 1 : dst'[k] = dst[k]
      /\ LiteralsTaken(dst', op + n)
  <2>1. Decoded
    BY DEF DInv
  <2> QED
    BY <2>1, LiteralsFurther
<1>3. \A k \in 0 .. last.op - 1 : dst'[k] = dst[k]
  BY <1>1, <1>2
<1>4. LiteralsTaken(dst', op + l)
  BY <1>1, <1>2 DEF LiteralsTaken
<1>5. op' = Start'
  BY <1>1 DEF Start
<1>6. lit' >= last'.lit
  BY <1>1
<1>7. LiteralsTaken(dst, op)'
  BY <1>4 DEF LiteralsTaken
<1>8. TakingLiterals'
  BY <1>5, <1>6, <1>7 DEF TakingLiterals
<1>9. Decoded'
  BY <1>2, DecodedInside
<1> QED
  BY <1>3, <1>8, <1>9, Stutters DEF DInv, AtToken, ReadingFast, ReadingSafe, Repeating

LEMMA FastExactDec ==
  ASSUME IInv, DInv, FastExact
  PROVE  DInv' /\ Step
<1> DEFINE c == block.ctrl
           f == last.ctrl
<1>1. /\ block' = block /\ last' = last /\ result' = result /\ ctrl' = ctrl + 3
      /\ ctrl <= CFast /\ lit <= LFast /\ op <= OFast /\ pc = "fast" /\ pc' = "match"
      /\ dst' = CopyLiterals(op, lit, Wide) /\ off' = Distance(c, ctrl)
      /\ op' = op + Token(Control(ctrl)).ll /\ lit' = lit + Token(Control(ctrl)).ll
      /\ ml' = Token(Control(ctrl)).ml
      /\ ~Token(Control(ctrl)).llx /\ ~Token(Control(ctrl)).mlx
  BY DEF FastExact, InMargins
<1>2. f = ctrl /\ last.op = op /\ last.lit = lit
  BY <1>1 DEF DInv, AtToken
<1>3. /\ f + 3 <= Len(c) /\ lit + Wide <= LEnd /\ op + Wide <= OEnd /\ Wide \in Nat
      /\ f \in Nat /\ op \in Nat /\ lit \in Nat
  <2>1. /\ op \in Nat /\ lit \in Nat /\ ctrl \in Nat /\ Wide \in Nat
        /\ OEnd \in Nat /\ LEnd \in Nat
    BY Facts, Widths
  <2>2. ctrl + 3 <= CEnd /\ LFast = LEnd - Wide /\ OFast = OEnd - 4 * Wide
    BY <1>1, Margins
  <2>3. lit + Wide <= LEnd /\ op + Wide <= OEnd
    BY <1>1, <2>1, <2>2
  <2> QED
    BY <1>2, <2>1, <2>2, <2>3, Known
<1>4. Token(Control(ctrl)) = Tok(c, f)
  BY <1>2, Known DEF Tok
<1>5. Tok(c, f).ll \in Nat /\ Tok(c, f).ll <= Wide
  <2>1. c[f + 1] \in Byte
    BY <1>3, Known
  <2> QED
    BY <2>1, TokenLengths, Widths DEF Tok
<1>6. ReadWhole(c, f, ctrl', Tok(c, f).ll, ml')
  <2>1. ReadWhole(c, f, f + 3, Tok(c, f).ll, Tok(c, f).ml)
    BY <1>1, <1>3, <1>4, Known, TokenIsRead
  <2> QED
    BY <1>1, <1>2, <1>4, <2>1
<1>7. PICK l \in Nat : l = Tok(c, f).ll
  BY <1>5
<1>8. ReadWhole(c, f, ctrl', lit' - last.lit, ml')
  <2>1. lit' - last.lit = l
    BY <1>1, <1>2, <1>3, <1>4, <1>7
  <2> QED
    BY <1>6, <1>7, <2>1
<1>9. /\ op = Start /\ LiteralsTaken(dst, op)
  BY <1>2, <1>3 DEF Start, LiteralsTaken
<1>10. op' = op + l /\ lit' = lit + l /\ l <= Wide
  BY <1>1, <1>4, <1>5, <1>7
<1> HIDE DEF c, f
<1> QED
  BY <1>1, <1>2, <1>3, <1>8, <1>9, <1>10, LiteralsAreTaken DEF c, f

LEMMA FastLiteralsDec ==
  ASSUME IInv, DInv, FastLiterals
  PROVE  DInv' /\ Step
<1>1. /\ block' = block /\ last' = last /\ result' = result /\ off' = off /\ ctrl' = ctrl
      /\ ml' = ml /\ ll' = ll - Wide /\ pc = "literals"
      /\ dst' = CopyLiterals(op, lit, Wide)
      /\ IF ll > Wide
         THEN op' = op + Wide /\ lit' = lit + Wide /\ pc' = "literals"
         ELSE op' = op + ll /\ lit' = lit + ll /\ pc' = "match"
  BY DEF FastLiterals
<1>2. /\ lit >= last.lit /\ op = Start /\ LiteralsTaken(dst, op)
      /\ ReadWhole(block.ctrl, last.ctrl, ctrl, lit - last.lit + ll, ml)
      /\ off = Distance(block.ctrl, last.ctrl)
  BY <1>1 DEF DInv, TakingLiterals, Decoded
<1>3. /\ ll \in Nat /\ Wide \in Nat /\ lit + Wide <= LEnd /\ op + Wide <= OEnd
      /\ lit \in Nat /\ op \in Nat /\ last.lit \in Nat
  <2>1. /\ ll >= 0 /\ ml >= 0
        /\ lit + ll + Wide <= LEnd /\ op + ll + ml + 3 * Wide <= OEnd
    BY <1>1 DEF IInv, Literals
  <2>2. /\ ll \in Int /\ ml \in Int /\ lit \in Nat /\ op \in Nat /\ LEnd \in Nat /\ OEnd \in Nat
        /\ Wide \in Nat
    BY Facts, Widths
  <2>3. last.lit \in Nat
    BY Known
  <2> QED
    BY <2>1, <2>2, <2>3
<1>4. CASE ll > Wide
  <2>1. ReadWhole(block.ctrl, last.ctrl, ctrl', lit' - last.lit + ll', ml')
    <3>1. lit' - last.lit + ll' = lit - last.lit + ll
      BY <1>1, <1>3, <1>4
    <3> QED
      BY <1>1, <1>2, <3>1
  <2>2. op' = op + Wide /\ lit' = lit + Wide /\ pc' = "literals"
    BY <1>1, <1>4
  <2> QED
    BY <1>1, <1>2, <1>3, <2>1, <2>2, LiteralsAreTaken
<1>5. CASE ~(ll > Wide)
  <2>1. op' = op + ll /\ lit' = lit + ll /\ pc' = "match"
    BY <1>1, <1>5
  <2>2. ReadWhole(block.ctrl, last.ctrl, ctrl', lit' - last.lit, ml')
    <3>1. lit' - last.lit = lit - last.lit + ll
      BY <1>3, <2>1
    <3> QED
      BY <1>1, <1>2, <3>1
  <2>3. ll <= Wide
    BY <1>3, <1>5
  <2> QED
    BY <1>1, <1>2, <1>3, <2>1, <2>2, <2>3, LiteralsAreTaken
<1> QED
  BY <1>4, <1>5

--------------------------------------------------------------------------------
(* The match.                                                                *)

(* A copy that does not end the match.                                       *)
LEMMA GoesOn ==
  ASSUME IInv, DInv, block' = block, last' = last, result' = result, pc # "done",
         lit' = lit, ctrl' = ctrl, off' = off, pc' \in {"far", "near", "safeMatch"},
         lit >= last.lit, off \in 1 .. Start, op' >= Start,
         off = Distance(block.ctrl, last.ctrl),
         ReadWhole(block.ctrl, last.ctrl, ctrl, lit - last.lit, ml' + (op' - Start)),
         dst' \in Buffer(OEnd), \A k \in 0 .. last.op - 1 : dst'[k] = dst[k],
         LiteralsTaken(dst', Start), Repeats(dst', Start - off, off, op'),
         Multiple(op' - m', off), Start - off <= m',
         pc' = "far" => op' - m' >= Wide, pc' = "near" => op' - m' >= Half
  PROVE  DInv' /\ Step
<1>1. Start' = Start
  BY DEF Start
<1>2. LiteralsTaken(dst, Start)'
  BY <1>1 DEF LiteralsTaken
<1>3. Repeating'
  BY <1>1, <1>2 DEF Repeating
<1>4. Decoded'
  BY DecodedInside
<1> QED
  BY <1>3, <1>4, Stutters DEF DInv, AtToken, ReadingFast, ReadingSafe, TakingLiterals

(* The match starts at or after the sequence.                                *)
LEMMA StartIs ==
  ASSUME IInv, DInv, lit >= last.lit
  PROVE  Start \in Nat /\ last.op <= Start
<1>1. lit \in Nat /\ last.lit \in Nat /\ last.op \in Nat
  BY Facts, Known
<1> QED
  BY <1>1 DEF Start

(* Where a match starts.                                                     *)
LEMMA AtMatch ==
  ASSUME IInv, DInv, pc = "match"
  PROVE  /\ lit >= last.lit /\ op = Start /\ op \in Nat /\ last.op <= op
         /\ LiteralsTaken(dst, Start)
         /\ ReadWhole(block.ctrl, last.ctrl, ctrl, lit - last.lit, ml)
         /\ off = Distance(block.ctrl, last.ctrl) /\ off \in Nat /\ off >= 1
         /\ ml \in Nat /\ op + 3 * Wide <= OEnd /\ op + ml + Wide <= OEnd
<1>1. /\ lit >= last.lit /\ op = Start /\ LiteralsTaken(dst, op)
      /\ ReadWhole(block.ctrl, last.ctrl, ctrl, lit - last.lit, ml)
      /\ off = Distance(block.ctrl, last.ctrl)
  BY DEF DInv, TakingLiterals, Decoded
<1>2. ml >= 0 /\ off >= 1 /\ op + 3 * Wide <= OEnd /\ op + ml + Wide <= OEnd
  BY DEF IInv, Matching
<1>3. last.op <= op
  BY <1>1, Known, Facts DEF Start
<1> QED
  BY <1>1, <1>2, <1>3, Facts

(* A distance before the output: LzBlock refuses the sequence too.           *)
LEMMA BadDistanceDec ==
  ASSUME IInv, DInv, BadDistance
  PROVE  DInv' /\ Step
<1>1. /\ block' = block /\ last' = last /\ dst' = dst /\ Refuse /\ pc = "match" /\ off > op
  BY DEF BadDistance, Refuse
<1>2. PICK l \in Int, n \in Int : l = lit - last.lit /\ n = ml
  BY Facts, Known
<1>3. ReadWhole(block.ctrl, last.ctrl, ctrl, l, n)
  BY <1>1, <1>2, AtMatch
<1>4. last.ctrl < CEnd
  BY <1>3, FitsIs, Known, Facts
<1>5. ~(Distance(block.ctrl, last.ctrl) <= last.op + l)
  <2>1. op = last.op + l /\ off = Distance(block.ctrl, last.ctrl)
    BY <1>1, <1>2, AtMatch DEF Start
  <2> QED
    BY <1>1, <2>1, Facts
<1>6. ~Decoding!Fits(Decoding!Lengths(block.ctrl, last.ctrl))
  BY <1>3, <1>5, FitsIs
<1> QED
  BY <1>1, <1>4, <1>6, Known, Refused, RefusedInv

(* What a turn of any of the copies writes.                                  *)
LEMMA CopyTurn ==
  ASSUME IInv, DInv, pc \in {"far", "near", "safeMatch"},
         NEW n \in Nat, n <= op - m, op + n <= OEnd, NEW r, r = Copied(dst, op, m, n)
  PROVE  /\ r \in Buffer(OEnd)
         /\ \A k \in 0 .. last.op - 1 : r[k] = dst[k]
         /\ LiteralsTaken(r, Start)
         /\ Repeats(r, Start - off, off, op + n)
<1>1. /\ lit >= last.lit /\ op >= Start /\ off \in 1 .. Start
      /\ LiteralsTaken(dst, Start) /\ Repeats(dst, Start - off, off, op)
      /\ Multiple(op - m, off) /\ Start - off <= m
  BY DEF DInv, Repeating
<1>2. PICK z \in Nat : z = Start /\ last.op <= z
  <2>1. Start \in Nat /\ last.op <= Start
    BY <1>1, StartIs
  <2> QED
    BY <2>1
<1>3. PICK d \in Nat : d = off /\ d >= 1 /\ d <= z
  BY <1>1, <1>2
<1>4. PICK q \in Nat : q = z - d
  BY <1>3
<1>5. PICK h \in Nat : h = op /\ z <= h
  BY <1>1, <1>2, Facts
<1>6. PICK gap \in Nat : gap = h - m /\ n <= gap
  <2>1. h - m \in Int /\ n <= h - m
    BY <1>5, Facts
  <2> QED
    BY <2>1
<1>7. m = h - gap
  BY <1>5, <1>6, Facts
<1>8. PICK e \in Nat, g \in Buffer(OEnd) : e = OEnd /\ g = dst
  BY Facts, Known
<1>9. /\ Multiple(gap, d) /\ q <= h - gap /\ q + d <= h /\ h + n <= e
      /\ Repeats(g, q, d, h) /\ r = Copied(g, h, h - gap, n)
  <2>1. Multiple(gap, d) /\ Repeats(g, q, d, h) /\ r = Copied(g, h, h - gap, n)
    BY <1>1, <1>2, <1>3, <1>4, <1>5, <1>6, <1>7, <1>8
  <2>2. q <= h - gap
    BY <1>1, <1>2, <1>3, <1>4, <1>7
  <2>3. q + d <= h /\ h + n <= e
    BY <1>3, <1>4, <1>5, <1>8
  <2> QED
    BY <2>1, <2>2, <2>3
<1>10. /\ r \in Buffer(e) /\ \A k \in 0 .. h - 1 : r[k] = g[k]
       /\ Repeats(r, q, d, h + n)
  <2>1. g \in Buffer(e)
    BY <1>8
  <2>2. Continuing(e, g, r, q, d, h, gap, n)
    BY <1>3, <1>6, <1>9, <2>1 DEF Continuing
  <2>3. Continued(e, g, r, q, d, h, n)
    BY <2>2, RepeatsFurther, Zenon
  <2> QED
    BY <2>3, Zenon DEF Continued
<1>11. LiteralsTaken(r, z)
  <2>1. \A k \in 0 .. z - 1 : r[k] = g[k]
    BY <1>5, <1>10
  <2> QED
    BY <1>1, <1>2, <1>8, <2>1, LiteralsKept
<1>12. \A k \in 0 .. last.op - 1 : r[k] = dst[k]
  <2>1. \A k \in 0 .. last.op - 1 : k \in 0 .. h - 1
    BY <1>2, <1>5, Known
  <2> QED
    BY <1>8, <1>10, <2>1
<1> QED
  BY <1>2, <1>3, <1>4, <1>5, <1>8, <1>10, <1>11, <1>12

(* A turn of the wide copies: the last one wrote too much, and the match is  *)
(* a prefix of what it wrote.                                                *)
LEMMA MatchTurnDec ==
  ASSUME IInv, IInv', DInv, pc \in {"far", "near"}, NEW w \in Nat,
         pc = "far" => w = Wide, pc = "near" => w = Half, w <= Wide, MatchTurn(w)
  PROVE  DInv' /\ Step
<1>1. /\ block' = block /\ ctrl' = ctrl /\ lit' = lit /\ off' = off /\ result' = result
      /\ dst' = Copied(dst, op, m, w) /\ m' = m + w /\ ml' = ml - w
      /\ IF ml > w
         THEN op' = op + w /\ pc' = pc /\ last' = last
         ELSE op' = op + ml /\ pc' = "fast" /\ last' = [ctrl |-> ctrl, lit |-> lit, op |-> op']
  BY DEF MatchTurn, EndOfSequence
<1>2. /\ lit >= last.lit /\ op >= Start /\ off \in 1 .. Start
      /\ ReadWhole(block.ctrl, last.ctrl, ctrl, lit - last.lit, ml + (op - Start))
      /\ Multiple(op - m, off) /\ Start - off <= m /\ off = Distance(block.ctrl, last.ctrl)
      /\ w <= op - m
  BY DEF DInv, Repeating, Decoded
<1>3. ml \in Nat /\ op + w <= OEnd /\ op \in Nat /\ m \in Int /\ OEnd \in Nat
  <2>1. ml >= 0 /\ op + ml + Wide <= OEnd
    BY DEF IInv, Matching
  <2> QED
    BY <2>1, Facts, Widths
<1>4. PICK z \in Nat : z = Start
  <2>1. Start \in Nat
    BY <1>2, StartIs
  <2> QED
    BY <2>1
<1>5. /\ dst' \in Buffer(OEnd)
      /\ \A k \in 0 .. last.op - 1 : dst'[k] = dst[k]
      /\ LiteralsTaken(dst', Start)
      /\ Repeats(dst', Start - off, off, op + w)
  BY <1>1, <1>2, <1>3, CopyTurn
<1>6. CASE ml > w
  <2>1. op' = op + w /\ pc' = pc /\ last' = last
    BY <1>1, <1>6
  <2>2. ml' + (op' - Start) = ml + (op - Start) /\ op' >= Start
    BY <1>1, <1>2, <1>3, <1>4, <2>1
  <2>3. op' - m' = op - m /\ Start - off <= m'
    <3>1. op' - m' = op - m
      BY <1>1, <1>3, <2>1
    <3>2. PICK y \in Int : y = Start - off
      BY <1>2, <1>4
    <3>3. y <= m + w
      BY <1>2, <1>3, <3>2
    <3> QED
      BY <1>1, <3>1, <3>2, <3>3
  <2>4. /\ ReadWhole(block.ctrl, last.ctrl, ctrl, lit - last.lit, ml' + (op' - Start))
        /\ Multiple(op' - m', off)
        /\ pc' = "far" => op' - m' >= Wide
        /\ pc' = "near" => op' - m' >= Half
    BY <1>2, <2>1, <2>2, <2>3
  <2>5. Repeats(dst', Start - off, off, op')
    BY <1>5, <2>1
  <2>6. pc' \in {"far", "near", "safeMatch"} /\ pc # "done"
    BY <2>1
  <2> QED
    BY <1>1, <1>2, <1>5, <2>1, <2>2, <2>3, <2>4, <2>5, <2>6, GoesOn
<1>7. CASE ~(ml > w)
  <2>1. op' = op + ml /\ pc' = "fast" /\ last' = [ctrl |-> ctrl, lit |-> lit, op |-> op']
    BY <1>1, <1>7
  <2>2. op' - Start = ml + (op - Start) /\ op' >= Start
    BY <1>2, <1>3, <1>4, <2>1
  <2>3. Repeats(dst', Start - off, off, op')
    <3>1. PICK q \in Nat : q = Start - off
      BY <1>2, <1>4
    <3>2. op + ml <= op + w /\ op + ml \in Int /\ op + w \in Int
      BY <1>3, <1>7
    <3> QED
      BY <1>5, <2>1, <3>1, <3>2, RepeatsShorter
  <2> QED
    BY <1>1, <1>2, <1>5, <2>1, <2>2, <2>3, SequenceDone
<1> QED
  BY <1>6, <1>7

(* The first copies of a match, which may be all of it.                      *)
LEMMA MatchStarted ==
  ASSUME IInv, IInv', DInv, pc = "match", off <= op, block' = block, result' = result,
         lit' = lit, ctrl' = ctrl, off' = off, NEW w \in Nat,
         dst' \in Buffer(OEnd), \A k \in 0 .. op - 1 : dst'[k] = dst[k],
         Repeats(dst', op - off, off, op + w),
         \/ /\ pc' \in {"far", "near"} /\ last' = last
            /\ op' = op + w /\ ml' = ml - w
            /\ Multiple(op' - m', off) /\ op - off <= m'
            /\ pc' = "far" => op' - m' >= Wide
            /\ pc' = "near" => op' - m' >= Half
         \/ /\ pc' = "fast" /\ ml <= w /\ op' = op + ml
            /\ last' = [ctrl |-> ctrl, lit |-> lit, op |-> op']
  PROVE  DInv' /\ Step
<1>1. /\ lit >= last.lit /\ op = Start /\ op \in Nat /\ last.op <= op /\ last.op \in Nat
      /\ LiteralsTaken(dst, Start)
      /\ ReadWhole(block.ctrl, last.ctrl, ctrl, lit - last.lit, ml)
      /\ off = Distance(block.ctrl, last.ctrl) /\ off \in Nat /\ off >= 1 /\ ml \in Nat
  BY AtMatch, Known
<1>2. off \in 1 .. Start
  BY <1>1
<1>3. LiteralsTaken(dst', Start)
  <2>1. PICK z \in Nat : z = Start /\ z = op
    BY <1>1
  <2> QED
    BY <1>1, <2>1, LiteralsKept
<1>4. \A k \in 0 .. last.op - 1 : dst'[k] = dst[k]
  <2>1. \A k \in 0 .. last.op - 1 : k \in 0 .. op - 1
    BY <1>1
  <2> QED
    BY <2>1
<1>5. CASE pc' = "fast"
  <2>1. /\ ml <= w /\ op' = op + ml
        /\ last' = [ctrl |-> ctrl, lit |-> lit, op |-> op']
    BY <1>5
  <2>2. op' - Start = ml /\ op' >= Start
    <3>1. PICK z \in Nat : z = Start /\ z = op
      BY <1>1
    <3> QED
      BY <1>1, <2>1, <3>1
  <2>3. Repeats(dst', Start - off, off, op')
    <3>1. PICK q \in Nat : q = op - off
      BY <1>1
    <3>2. op + ml <= op + w /\ op + ml \in Int /\ op + w \in Int
      BY <1>1, <2>1
    <3>3. Repeats(dst', q, off, op + ml)
      BY <3>1, <3>2, RepeatsShorter
    <3> QED
      BY <1>1, <2>1, <3>1, <3>3
  <2>4. pc' \in {"fast", "safe"} /\ pc # "done"
    BY <1>5
  <2> QED
    BY <1>1, <1>2, <1>3, <1>4, <2>1, <2>2, <2>3, <2>4, SequenceDone
<1>6. CASE pc' # "fast"
  <2>1. /\ pc' \in {"far", "near"} /\ last' = last
        /\ op' = op + w /\ ml' = ml - w
        /\ Multiple(op' - m', off) /\ op - off <= m'
        /\ pc' = "far" => op' - m' >= Wide
        /\ pc' = "near" => op' - m' >= Half
    BY <1>6
  <2>2. ml' + (op' - Start) = ml /\ op' >= Start /\ Start - off <= m'
    <3>1. PICK z \in Nat : z = Start /\ z = op
      BY <1>1
    <3> QED
      BY <1>1, <2>1, <3>1
  <2>3. Repeats(dst', Start - off, off, op')
    BY <1>1, <2>1
  <2>4. pc' \in {"far", "near", "safeMatch"} /\ pc # "done"
    BY <2>1
  <2> QED
    BY <1>1, <1>2, <1>3, <1>4, <2>1, <2>2, <2>3, <2>4, GoesOn
<1> QED
  BY <1>5, <1>6

(* The three ways a match starts.                                            *)
LEMMA MatchFarDec ==
  ASSUME IInv, IInv', DInv, MatchFar
  PROVE  DInv' /\ Step
<1> DEFINE s == Copied(dst, op, op - off, Wide)
<1>1. /\ block' = block /\ ctrl' = ctrl /\ lit' = lit /\ off' = off /\ result' = result
      /\ pc = "match" /\ off <= op /\ off >= Wide
      /\ dst' = Copied(s, op + Wide, op - off + Wide, Wide)
      /\ IF ml > 2 * Wide
         THEN /\ op' = op + 2 * Wide /\ m' = op - off + 2 * Wide /\ ml' = ml - 2 * Wide
              /\ pc' = "far" /\ last' = last
         ELSE /\ op' = op + ml /\ pc' = "fast"
              /\ last' = [ctrl |-> ctrl, lit |-> lit, op |-> op']
  BY DEF MatchFar, EndOfSequence
<1>2. /\ op \in Nat /\ off \in Nat /\ off >= 1 /\ ml \in Nat /\ op + 3 * Wide <= OEnd
      /\ OEnd \in Nat /\ Wide \in Nat /\ dst \in Buffer(OEnd)
  BY <1>1, AtMatch, Facts, Known, Widths
<1>3. PICK q \in Nat, h \in Nat : q = op - off /\ h = op + Wide
  BY <1>1, <1>2
<1>4. Continued(OEnd, dst, s, q, off, op, Wide)
  <2>1. Repeats(dst, q, off, op) /\ Multiple(off, off)
    BY <1>1, <1>2, <1>3, RepeatsNothing, Itself
  <2>2. q + off <= op /\ q <= op - off /\ op + Wide <= OEnd
    BY <1>2, <1>3
  <2>3. Continuing(OEnd, dst, s, q, off, op, off, Wide)
    BY <1>1, <1>2, <1>3, <2>1, <2>2, Zenon DEF Continuing
  <2> HIDE DEF s
  <2> QED
    BY <2>3, RepeatsFurther, Zenon
<1> HIDE DEF s
<1>5. s \in Buffer(OEnd) /\ (\A k \in 0 .. op - 1 : s[k] = dst[k]) /\ Repeats(s, q, off, h)
  BY <1>3, <1>4 DEF Continued
<1>6. Continued(OEnd, s, dst', q, off, h, Wide)
  <2>1. Multiple(off, off)
    BY <1>2, Itself
  <2>2. q + off <= h /\ q <= h - off /\ h + Wide <= OEnd
    BY <1>2, <1>3
  <2>3. dst' = Copied(s, h, h - off, Wide)
    <3>1. op - off + Wide = h - off
      BY <1>2, <1>3
    <3> QED
      BY <1>1, <1>3, <3>1
  <2>4. Continuing(OEnd, s, dst', q, off, h, off, Wide)
    BY <1>1, <1>2, <1>3, <1>5, <2>1, <2>2, <2>3, Zenon DEF Continuing
  <2> QED
    BY <2>4, RepeatsFurther, Zenon
<1>7. PICK w \in Nat : w = 2 * Wide /\ op + w = h + Wide
  <2>1. 2 * Wide \in Nat /\ op + 2 * Wide = h + Wide
    BY <1>2, <1>3
  <2> QED
    BY <2>1
<1>8. /\ dst' \in Buffer(OEnd) /\ \A k \in 0 .. op - 1 : dst'[k] = dst[k]
      /\ Repeats(dst', op - off, off, op + w)
  <2>1. dst' \in Buffer(OEnd) /\ (\A k \in 0 .. h - 1 : dst'[k] = s[k])
    BY <1>6, Zenon DEF Continued
  <2>2. Repeats(dst', op - off, off, op + w)
    BY <1>3, <1>6, <1>7 DEF Continued
  <2>3. \A k \in 0 .. op - 1 : k \in 0 .. h - 1
    BY <1>2, <1>3
  <2> QED
    BY <1>5, <2>1, <2>2, <2>3
<1>9. CASE ml > w
  <2>1. /\ op' = op + w /\ ml' = ml - w /\ pc' = "far" /\ last' = last /\ m' = op - off + w
    BY <1>1, <1>7, <1>9
  <2>2. op' - m' = off /\ op - off <= m'
    BY <1>2, <2>1
  <2>3. Multiple(op' - m', off)
    BY <1>2, <2>2, Itself
  <2> QED
    BY <1>1, <1>8, <2>1, <2>2, <2>3, MatchStarted
<1>10. CASE ~(ml > w)
  <2>1. /\ op' = op + ml /\ pc' = "fast" /\ last' = [ctrl |-> ctrl, lit |-> lit, op |-> op']
    BY <1>1, <1>7, <1>10
  <2>2. ml <= w
    BY <1>2, <1>10
  <2> QED
    BY <1>1, <1>8, <2>1, <2>2, MatchStarted
<1> QED
  BY <1>9, <1>10

LEMMA MatchNearDec ==
  ASSUME IInv, IInv', DInv, MatchNear
  PROVE  DInv' /\ Step
<1>1. /\ block' = block /\ ctrl' = ctrl /\ lit' = lit /\ off' = off /\ result' = result
      /\ pc = "match" /\ off <= op /\ off \in Half .. Wide - 1 /\ dst' = dst
      /\ op' = op /\ ml' = ml /\ last' = last /\ m' = op - off /\ pc' = "near"
  BY DEF MatchNear
<1>2. op \in Nat /\ off \in Nat /\ off >= 1 /\ ml \in Nat /\ dst \in Buffer(OEnd)
  BY <1>1, AtMatch, Known
<1>3. PICK w \in Nat : w = 0
  OBVIOUS
<1>4. op + w = op /\ ml - w = ml /\ op' - m' = off /\ op - off <= m' /\ off >= Half
  BY <1>1, <1>2, <1>3, Widths
<1>5. Repeats(dst, op - off, off, op) /\ Multiple(off, off)
  BY <1>1, <1>2, RepeatsNothing, Itself
<1>6. Repeats(dst', op - off, off, op + w) /\ Multiple(op' - m', off)
  BY <1>1, <1>4, <1>5
<1> QED
  BY <1>1, <1>2, <1>4, <1>6, MatchStarted

LEMMA MatchNearestDec ==
  ASSUME IInv, IInv', DInv, MatchNearest
  PROVE  DInv' /\ Step
<1>1. /\ block' = block /\ ctrl' = ctrl /\ lit' = lit /\ off' = off /\ result' = result
      /\ pc = "match" /\ off <= op
      /\ dst' = [k \in DOMAIN dst |->
                   IF k \in op .. op + Half - 1 THEN ByteAt(dst, op - off + ((k - op) % off))
                                                ELSE dst[k]]
      /\ m' = op + Half - Period(off) /\ ml' = ml - Half
      /\ IF ml > Half
         THEN op' = op + Half /\ pc' = "near" /\ last' = last
         ELSE /\ op' = op + ml /\ pc' = "fast"
              /\ last' = [ctrl |-> ctrl, lit |-> lit, op |-> op']
  BY DEF MatchNearest, EndOfSequence
<1>2. /\ op \in Nat /\ off \in Nat /\ off >= 1 /\ ml \in Nat /\ op + Half <= OEnd
      /\ OEnd \in Nat /\ Half \in Nat /\ dst \in Buffer(OEnd)
  <2>1. /\ op \in Nat /\ off \in Nat /\ off >= 1 /\ ml \in Nat /\ op + 3 * Wide <= OEnd
    BY <1>1, AtMatch
  <2>2. OEnd \in Nat /\ dst \in Buffer(OEnd)
    BY Facts, Known
  <2> QED
    BY <2>1, <2>2, Widths
<1>3. /\ dst' \in Buffer(OEnd) /\ \A k \in 0 .. op - 1 : dst'[k] = dst[k]
      /\ Repeats(dst', op - off, off, op + Half)
  BY <1>1, <1>2, RepeatsFirst
<1>4. PICK p \in Nat : /\ p = Period(off) /\ p >= Half /\ p <= Half + off - 1
                       /\ Multiple(p, off)
  BY <1>2, PeriodIs
<1>5. CASE ml > Half
  <2>1. op' = op + Half /\ pc' = "near" /\ last' = last /\ m' = op + Half - p
    BY <1>1, <1>4, <1>5
  <2>2. op' - m' = p /\ op - off <= m'
    BY <1>2, <1>4, <2>1
  <2>3. Multiple(op' - m', off) /\ op' - m' >= Half
    BY <1>4, <2>2
  <2> QED
    BY <1>1, <1>2, <1>3, <2>1, <2>2, <2>3, MatchStarted
<1>6. CASE ~(ml > Half)
  <2>1. op' = op + ml /\ pc' = "fast" /\ last' = [ctrl |-> ctrl, lit |-> lit, op |-> op']
    BY <1>1, <1>6
  <2>2. ml <= Half
    BY <1>2, <1>6
  <2> QED
    BY <1>1, <1>2, <1>3, <2>1, <2>2, MatchStarted
<1> QED
  BY <1>5, <1>6

--------------------------------------------------------------------------------
(* decode_safe's copies, and the steps that are left.                        *)

(* The literals and the checks of decode_safe: it refuses when, and only     *)
(* when, the sequence does not fit.                                          *)
LEMMA SafeLiteralsDec ==
  ASSUME IInv, DInv, SafeLiterals
  PROVE  DInv' /\ Step
<1> DEFINE c == block.ctrl
           f == last.ctrl
<1>1. /\ block' = block /\ ctrl' = ctrl /\ ll' = ll /\ ml' = ml /\ off' = off /\ last' = last
      /\ pc = "safeLiterals"
  BY DEF SafeLiterals
<1>2. /\ op = last.op /\ lit = last.lit /\ ReadWhole(c, f, ctrl, ll, ml)
      /\ off = Distance(c, f) /\ ll >= 0 /\ ml >= 0
  BY <1>1 DEF DInv, ReadingSafe, Decoded, IInv, Safe
<1>3. /\ ll \in Nat /\ ml \in Nat /\ op \in Nat /\ lit \in Nat /\ LEnd \in Nat /\ OEnd \in Nat
      /\ dst \in Buffer(OEnd)
  BY <1>2, Facts, Known
<1>4. f + 3 <= CEnd /\ f \in Nat /\ f < CEnd
  BY <1>2, <1>3, FitsIs, Known, Facts
<1>5. off \in Nat /\ off >= 1
  BY <1>2, <1>4, DistancePositive, Facts
<1>6. Decoding!Fits(Decoding!Lengths(c, f)) <=>
        lit + ll <= LEnd /\ off <= op + ll /\ op + ll + ml <= OEnd
  BY <1>2, <1>3, FitsIs
<1> HIDE DEF c, f
<1>7. CASE ll > LEnd - lit \/ ll > OEnd - op
  <2>1. Refuse /\ dst' = dst
    BY <1>7 DEF SafeLiterals
  <2>2. ~Decoding!Fits(Decoding!Lengths(c, f))
    BY <1>3, <1>6, <1>7
  <2> QED
    BY <1>1, <1>3, <1>4, <2>1, <2>2, Refused, RefusedInv DEF c, f
<1>8. CASE ~(ll > LEnd - lit \/ ll > OEnd - op)
  <2>1. /\ dst' = CopyLiterals(op, lit, ll) /\ op' = op + ll /\ lit' = lit + ll
        /\ IF off > op + ll \/ ml > OEnd - (op + ll)
           THEN Refuse
           ELSE m' = op + ll - off /\ pc' = "safeMatch" /\ result' = result
    BY <1>8 DEF SafeLiterals
  <2>2. lit + ll <= LEnd /\ op + ll <= OEnd
    BY <1>3, <1>8
  <2>3. /\ dst' \in Buffer(OEnd) /\ \A k \in 0 .. op - 1 : dst'[k] = dst[k]
        /\ LiteralsTaken(dst', op + ll)
    <3>1. lit >= last.lit /\ op = Start /\ LiteralsTaken(dst, op) /\ Decoded
      BY <1>2, <1>3 DEF Start, LiteralsTaken, DInv
    <3> QED
      BY <1>3, <2>1, <2>2, <3>1, LiteralsFurther
  <2>4. CASE off > op + ll \/ ml > OEnd - (op + ll)
    <3>1. Refuse
      BY <2>1, <2>4
    <3>2. ~Decoding!Fits(Decoding!Lengths(c, f))
      BY <1>3, <1>5, <1>6, <2>4
    <3> QED
      BY <1>1, <1>2, <1>4, <2>3, <3>1, <3>2, Refused, RefusedInv DEF c, f
  <2>5. CASE ~(off > op + ll \/ ml > OEnd - (op + ll))
    <3>1. m' = op + ll - off /\ pc' = "safeMatch" /\ result' = result /\ off <= op + ll
      BY <1>3, <1>5, <2>1, <2>5
    <3>2. PICK p \in Nat : p = op + ll
      BY <1>3
    <3>3. Start' = p /\ op' = p /\ lit' >= last'.lit /\ lit' - last'.lit = ll
      BY <1>1, <1>2, <1>3, <2>1, <3>2 DEF Start
    <3>4. op' - m' = off /\ m' = p - off /\ off <= p
      BY <1>3, <1>5, <2>1, <3>1, <3>2
    <3>5. ml' + (op' - Start') = ml
      BY <1>1, <1>3, <3>2, <3>3
    <3>6. ReadWhole(block.ctrl, last.ctrl, ctrl, lit - last.lit, ml + (op - Start))'
      BY <1>1, <1>2, <3>3, <3>5 DEF c, f
    <3>7. LiteralsTaken(dst, Start)'
      BY <1>1, <2>3, <3>2, <3>3 DEF LiteralsTaken
    <3>8. Repeats(dst', p - off, off, p) /\ Multiple(off, off)
      BY <1>5, <3>4, RepeatsNothing, Itself
    <3>9. Repeating'
      BY <1>1, <1>5, <3>1, <3>3, <3>4, <3>6, <3>7, <3>8 DEF Repeating
    <3>10. Decoded'
      BY <1>1, <1>2, <2>3, <3>1, DecodedInside DEF c, f
    <3> QED
      BY <1>1, <1>2, <2>3, <3>1, <3>9, <3>10, Stutters
         DEF DInv, AtToken, ReadingFast, ReadingSafe, TakingLiterals
  <2> QED
    BY <2>4, <2>5
<1> QED
  BY <1>7, <1>8

LEMMA SafeMatchDec ==
  ASSUME IInv, IInv', DInv, SafeMatch
  PROVE  DInv' /\ Step
<1>1. /\ block' = block /\ ctrl' = ctrl /\ lit' = lit /\ off' = off /\ result' = result
      /\ ml' = ml - 1 /\ pc = "safeMatch"
  BY DEF SafeMatch
<1>2. /\ lit >= last.lit /\ op >= Start /\ off \in 1 .. Start
      /\ ReadWhole(block.ctrl, last.ctrl, ctrl, lit - last.lit, ml + (op - Start))
      /\ LiteralsTaken(dst, Start) /\ Repeats(dst, Start - off, off, op)
      /\ Multiple(op - m, off) /\ Start - off <= m /\ off = Distance(block.ctrl, last.ctrl)
  BY <1>1 DEF DInv, Repeating, Decoded
<1>3. ml \in Nat /\ op + ml <= OEnd /\ op \in Nat /\ m \in Int /\ OEnd \in Nat
  <2>1. ml >= 0 /\ op + ml <= OEnd
    BY <1>1 DEF IInv, Safe
  <2> QED
    BY <2>1, Facts
<1>4. PICK z \in Nat : z = Start
  BY <1>2, StartIs
<1>5. CASE ml > 0
  <2>1. dst' = Copied(dst, op, m, 1) /\ op' = op + 1 /\ m' = m + 1 /\ pc' = pc /\ last' = last
    BY <1>5 DEF SafeMatch
  <2>2. 1 <= op - m /\ op + 1 <= OEnd
    <3>1. PICK g \in Int : g = op - m
      BY <1>3
    <3>2. Multiple(g, off)
      BY <1>2, <3>1
    <3>3. 1 <= g
      BY <3>2 DEF Multiple
    <3> QED
      BY <1>3, <1>5, <3>1, <3>3
  <2>3. /\ dst' \in Buffer(OEnd)
        /\ \A k \in 0 .. last.op - 1 : dst'[k] = dst[k]
        /\ LiteralsTaken(dst', Start)
        /\ Repeats(dst', Start - off, off, op')
    BY <1>1, <2>1, <2>2, CopyTurn
  <2>4. op' - m' = op - m /\ Start - off <= m' /\ op' >= Start /\ ml' + (op' - Start) = ml + (op - Start)
    <3>1. PICK y \in Int : y = z - off
      BY <1>2, <1>4
    <3> QED
      BY <1>1, <1>2, <1>3, <1>4, <2>1, <3>1
  <2>5. /\ Multiple(op' - m', off) /\ pc' = "safeMatch"
        /\ ReadWhole(block.ctrl, last.ctrl, ctrl, lit - last.lit, ml' + (op' - Start))
    BY <1>1, <1>2, <2>1, <2>4
  <2> QED
    BY <1>1, <1>2, <2>1, <2>3, <2>4, <2>5, GoesOn
<1>6. CASE ~(ml > 0)
  <2>1. /\ dst' = dst /\ op' = op /\ pc' = "safe"
        /\ last' = [ctrl |-> ctrl, lit |-> lit, op |-> op']
    BY <1>6 DEF SafeMatch, EndOfSequence
  <2>2. op' - Start = ml + (op - Start)
    BY <1>3, <1>4, <1>6, <2>1
  <2> QED
    BY <1>1, <1>2, <2>1, <2>2, Known, SequenceDone
<1> QED
  BY <1>5, <1>6

(* The tail: the whole output, or a refusal.                                 *)
LEMMA SafeTailDec ==
  ASSUME IInv, DInv, SafeTail
  PROVE  DInv' /\ Step
<1>1. block' = block /\ ctrl' = ctrl /\ off' = off /\ pc = "safe" /\ ctrl >= CEnd
  BY DEF SafeTail
<1>2. /\ last.ctrl = ctrl /\ last.op = op /\ last.lit = lit /\ result = "more"
  BY <1>1 DEF DInv, AtToken, Decoded
<1>3. /\ ctrl = Len(block.ctrl) /\ op \in Nat /\ lit \in Nat /\ LEnd \in Nat /\ OEnd \in Nat
      /\ lit <= LEnd /\ op <= OEnd /\ LEnd = Len(block.lit) /\ OEnd = block.len
      /\ ctrl \in Nat /\ dst \in Buffer(OEnd) /\ block.lit \in Seq(Nat)
  BY <1>1, Facts, Known
<1>4. Len([i \in 1 .. last.op |-> dst[i - 1]]) = op
  BY <1>2, <1>3
<1>5. CASE LEnd - lit # OEnd - op
  <2>1. Refuse /\ dst' = dst /\ last' = last
    BY <1>5 DEF SafeTail
  <2>2. Decoding!LzRefuse
    BY <1>1, <1>2, <1>3, <1>4, <1>5, <2>1 DEF Decoding!LzRefuse, Refuse
  <2>3. DInv'
    BY <1>1, <1>3, <2>1, RefusedInv
  <2> QED
    BY <2>2, <2>3 DEF Step, Decoding!LzNext
<1>6. CASE LEnd - lit = OEnd - op
  <2>1. /\ dst' = CopyLiterals(op, lit, LEnd - lit) /\ op' = OEnd /\ lit' = LEnd
        /\ last' = [ctrl |-> ctrl, lit |-> LEnd, op |-> OEnd]
        /\ result' = "ok" /\ pc' = "done"
    BY <1>6 DEF SafeTail
  <2>2. PICK n \in Nat : n = LEnd - lit /\ op + n = OEnd /\ lit + n = LEnd
    <3>1. LEnd - lit \in Nat /\ op + (LEnd - lit) = OEnd /\ lit + (LEnd - lit) = LEnd
      BY <1>3, <1>6
    <3> QED
      BY <3>1
  <2>3. /\ dst' \in Buffer(OEnd) /\ \A k \in 0 .. op - 1 : dst'[k] = dst[k]
        /\ LiteralsTaken(dst', op + n)
    <3>1. lit >= last.lit /\ op = Start /\ LiteralsTaken(dst, op) /\ Decoded
      BY <1>2, <1>3 DEF Start, LiteralsTaken, DInv
    <3> QED
      BY <1>3, <2>1, <2>2, <3>1, LiteralsFurther
  <2>4. Written(dst', OEnd) = Written(dst, op) \o SubSeq(block.lit, lit + 1, LEnd)
    <3>1. Tailed(OEnd, dst, dst', block.lit, op, n, lit)
      <4>1. \A i \in op .. op + n - 1 : dst'[i] = block.lit[lit + (i - op) + 1]
        <5>1. \A i \in op .. op + n - 1 : i \in last.op .. (op + n) - 1
          BY <1>2, <1>3
        <5>2. \A i \in op .. op + n - 1 : dst'[i] = block.lit[last.lit + (i - last.op) + 1]
          BY <2>2, <2>3, <5>1 DEF LiteralsTaken
        <5> QED
          BY <1>2, <5>2
      <4>2. lit + n <= Len(block.lit) /\ op + n <= OEnd
        BY <1>3, <2>2
      <4> QED
        BY <1>3, <2>3, <4>1, <4>2, Zenon DEF Tailed
    <3>2. Written(dst', op + n) = Written(dst, op) \o SubSeq(block.lit, lit + 1, lit + n)
      <4>1. Taken(dst, dst', block.lit, op, n, lit)
        BY <3>1, TailIs, Zenon
      <4> QED
        BY <4>1 DEF Taken
    <3> QED
      BY <2>2, <3>2
  <2>5. Decoding!LzTail
    <3>1. last'.op = OEnd /\ last'.lit = LEnd /\ last'.ctrl = last.ctrl
      BY <1>2, <2>1
    <3> QED
      BY <1>1, <1>2, <1>3, <1>4, <1>6, <2>1, <2>4, <3>1 DEF Decoding!LzTail, Written
  <2>6. DInv'
    <3>1. OEnd' = OEnd
      BY <1>1, Facts
    <3>2. Decoded'
      BY <1>3, <2>1, <2>3, <3>1 DEF Decoded
    <3> QED
      BY <2>1, <3>2 DEF DInv, AtToken, ReadingFast, ReadingSafe, TakingLiterals, Repeating
  <2> QED
    BY <2>5, <2>6 DEF Step, Decoding!LzNext
<1> QED
  BY <1>5, <1>6

LEMMA OtherDec ==
  ASSUME IInv, DInv, FastLeave \/ UNCHANGED vars
  PROVE  DInv' /\ Step
<1>1. /\ block' = block /\ ctrl' = ctrl /\ lit' = lit /\ op' = op /\ dst' = dst /\ ll' = ll
      /\ ml' = ml /\ off' = off /\ m' = m /\ last' = last /\ result' = result
  BY DEF FastLeave, vars
<1>2. (pc = "fast" /\ pc' = "safe") \/ pc' = pc
  BY DEF FastLeave, vars
<1>3. OEnd' = OEnd
  BY <1>1, Facts
<1>4. CASE pc' = pc
  BY <1>1, <1>3, <1>4, Stutters DEF DInv, Decoded, AtToken, ReadingFast, ReadingSafe,
     TakingLiterals, Repeating, Start, LiteralsTaken
<1>5. CASE pc = "fast" /\ pc' = "safe"
  BY <1>1, <1>3, <1>5, Stutters DEF DInv, Decoded, AtToken, ReadingFast, ReadingSafe,
     TakingLiterals, Repeating
<1> QED
  BY <1>2, <1>4, <1>5

LEMMA InitDec == Init => DInv /\ Decoding!LzInit
<1> SUFFICES ASSUME Init
             PROVE  DInv /\ Decoding!LzInit
  OBVIOUS
<1>1. /\ ctrl = 0 /\ lit = 0 /\ op = 0 /\ pc = "fast" /\ result = "more" /\ block \in Blocks
      /\ last = [ctrl |-> 0, lit |-> 0, op |-> 0]
      /\ dst = [i \in 0 .. OEnd - 1 |-> Junk]
  BY DEF Init, OEnd
<1>2. OEnd \in Nat
  BY <1>1, BlockFields
<1>3. Decoded
  BY <1>1, <1>2 DEF Decoded, Buffer
<1>4. [i \in 1 .. last.op |-> dst[i - 1]] = <<>>
  BY <1>1
<1> QED
  BY <1>1, <1>3, <1>4 DEF DInv, AtToken, ReadingFast, ReadingSafe, TakingLiterals, Repeating,
     Decoding!LzInit

LEMMA StepDec == IInv /\ Short /\ LengthsFit /\ IInv' /\ DInv /\ [Next]_vars => DInv' /\ Step
<1> SUFFICES ASSUME IInv, Short, LengthsFit, IInv', DInv, [Next]_vars
             PROVE  DInv' /\ Step
  OBVIOUS
<1>1. CASE FastLeave \/ UNCHANGED vars
  BY <1>1, OtherDec
<1>2. CASE FastExact
  BY <1>2, FastExactDec
<1>3. CASE FastExtended
  BY <1>3, FastExtendedDec
<1>4. CASE FastLL
  BY <1>4, FastLLDec
<1>5. CASE FastML
  BY <1>5, FastMLDec
<1>6. CASE FastExt
  BY <1>6, FastExtDec
<1>7. CASE FastLiterals
  BY <1>7, FastLiteralsDec
<1>8. CASE BadDistance
  BY <1>8, BadDistanceDec
<1>9. CASE MatchFar
  BY <1>9, MatchFarDec
<1>10. CASE MatchFarTurn
  BY <1>10, MatchTurnDec, Widths DEF MatchFarTurn
<1>11. CASE MatchNear
  BY <1>11, MatchNearDec
<1>12. CASE MatchNearest
  BY <1>12, MatchNearestDec
<1>13. CASE MatchNearTurn
  BY <1>13, MatchTurnDec, Widths DEF MatchNearTurn
<1>14. CASE SafeToken
  BY <1>14, SafeTokenDec
<1>15. CASE SafeLL
  BY <1>15, SafeLLDec
<1>16. CASE SafeML
  BY <1>16, SafeMLDec
<1>17. CASE SafeLiterals
  BY <1>17, SafeLiteralsDec
<1>18. CASE SafeMatch
  BY <1>18, SafeMatchDec
<1>19. CASE SafeTail
  BY <1>19, SafeTailDec
<1> QED
  BY <1>1, <1>2, <1>3, <1>4, <1>5, <1>6, <1>7, <1>8, <1>9, <1>10, <1>11, <1>12, <1>13,
     <1>14, <1>15, <1>16, <1>17, <1>18, <1>19 DEF Next

(* Whatever block arrives, if an intptr_t holds the lengths that its control *)
(* bytes can ask for, decode_core and decode_safe together decode it as      *)
(* LzBlock does, sequence by sequence: the same bytes after each, the same   *)
(* blocks refused, and the whole output when one is accepted, for every      *)
(* width of the copies and of the lengths, and every format whose exact      *)
(* lengths fit it.                                                           *)
THEOREM DecoderDecodes == Spec => Decodes
<1> DEFINE Inv == LengthsFit => IInv /\ Short /\ DInv
<1>1. Init => Inv
  BY InitInv, InitShort, InitDec
<1>2. Inv /\ [Next]_vars => Inv'
  BY StepInv, ShortInv, BlockStays, StepDec
<1>3. Init => Decoding!LzInit
  BY InitDec
<1>4. Inv /\ [Next]_vars => [LengthsFit => Decoding!LzNext]_(Decoding!lzVars)
  BY StepInv, StepDec DEF Step
<1> QED
  BY <1>1, <1>2, <1>3, <1>4, PTL DEF Spec, Decodes
================================================================================
