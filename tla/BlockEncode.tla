------------------------------ MODULE BlockEncode ------------------------------
(* The compressors of sylzc.c together: one of them, for its level, makes a  *)
(* block of the input, and decoding it (LzBlock) gives the input back.       *)
EXTENDS CompressFast, CompressMid, ChainSearch, OptParse, BlockRoundTrip, FiniteSets

CONSTANT Levels          \* those to try: "fast", "mid", "lazy", "chain", "opt"

ASSUME LevelsAssumption == Levels \subseteq {"fast", "mid", "lazy", "chain", "opt"}

VARIABLE level

encodeVars == <<src, anchor, pc, out, reach, fastVars, midVars, chainVars, searchVars,
                optVars, level>>

EncodeInit ==
  /\ InputInit
  /\ level \in Levels
  /\ lazy = (level = "lazy")
  /\ pc = CASE level = "fast" -> "fast"
            [] level \in {"mid", "lazy"} -> "mid"
            [] level = "chain" -> "turn"
            [] level = "opt" -> "opt"
  /\ out = [ctrl |-> <<>>, lit |-> <<>>]
  /\ reach = 0
  /\ FastInit /\ MidInit /\ ChainInit /\ SearchInit /\ OptInit

EncodeNext ==
  /\ \/ FastNext  /\ UNCHANGED <<midVars, chainVars, searchVars, optVars>>
     \/ MidNext   /\ UNCHANGED <<fastVars, chainVars, searchVars, optVars>>
     \/ ChainNext /\ UNCHANGED <<fastVars, midVars, optVars>>
     \/ OptNext   /\ UNCHANGED <<fastVars, midVars, chainVars, searchVars>>
  /\ UNCHANGED level

Returned == pc = "done" /\ UNCHANGED encodeVars

(* A call runs on until it returns. (EncodeNext is always enabled before, or *)
(* the run would deadlock: this is its weak fairness.)                       *)
RunsOn == <>[](pc = "done") \/ []<><<TRUE>>_encodeVars

EncodeSpec == EncodeInit /\ [][EncodeNext \/ Returned]_encodeVars /\ RunsOn

--------------------------------------------------------------------------------
(* Properties.                                                               *)

(* Every level comes to the end of every input, and the parse of three       *)
(* matches without one in hand: no turn of a loop leaves it where it was,    *)
(* and the loop does not end with a match that was found and not written.    *)
Termination == <>(pc = "done" /\ state = 0)

--------------------------------------------------------------------------------
LongestAt(p) ==
  MaxOf({0} \cup {k \in MinMatch .. n - p :
                    \E r \in 0 .. p - 1 : p - r < Window /\ SameBytes(p, r, k)})

(* Nothing a match finder keeps of positions that have left the window, of   *)
(* other hashes or of bytes it did not compare hides a longer match: with    *)
(* attempts enough, the chain finds the longest match through the position,  *)
(* and the tree, for as far as it compares, the longest from it.             *)
ChainFindsLongest ==
  pc = "search" => \A m \in Answers(ask) : m.len <= hit'.len

TreeFindsLongest ==
  pc = "optCands" /\ btNext' > start + i =>
    LET c == cands'[i]
        longest == LongestAt(start + i)
    IN  /\ \A k \in DOMAIN c : SameBytes(start + i, start + i - c[k][2], c[k][1])
        /\ \A k \in 2 .. Len(c) : c[k - 1][1] < c[k][1]
        /\ longest > 0 => c # <<>>
        /\ c # <<>> => c[Len(c)][1] >= (IF longest > BtMaxLen THEN BtMaxLen ELSE longest)

FindsLongest == [][ChainFindsLongest /\ TreeFindsLongest]_encodeVars

--------------------------------------------------------------------------------
(* What a run of ll pending literals has cost besides its bytes.             *)
PendingCost(ll) == IF ll > ExactLL THEN Scale * ExtBytes(ll) + PEsc ELSE 0

Escapes(path) ==
  {k \in DOMAIN path :
     LET from == IF k = 1 THEN anchor ELSE path[k - 1][1] + path[k - 1][2] IN
     ExactCode(path[k][1] - from, path[k][2] - MinMatch) = Base}

(* The parse prices what it writes: the price of a window's end is that of   *)
(* the bytes that emit_sequence makes of the path there, of its literals,    *)
(* those still pending included, and of its penalties, although a run is     *)
(* priced while it grows, over the windows' borders, and a match before it   *)
(* is known which token it gets. And every position that can be on a path    *)
(* has been given a price before it was used.                                *)
PriceIsSize ==
  pc = "optEmit" =>
    LET path == Path
        b == Written(path)
        matched == Cardinality(UNION {path[k][1] .. path[k][1] + path[k][2] - 1 : k \in DOMAIN path})
    IN  /\ \A j \in (0 .. w) \ hidden : nodes[j].cost < Inf
        /\ nodes[w].cost + PendingCost(start - anchor)
           = Scale * (Len(b.out.ctrl) - Len(out.ctrl) + w - matched)
             + PSeq * Len(path)
             + PEsc * Cardinality(Escapes(path))
             + PShort * Cardinality({k \in DOMAIN path : path[k][3] < NearDist})
             + PendingCost(start + w - b.anchor)
================================================================================
