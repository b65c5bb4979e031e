------------------------------- MODULE CompressMid -----------------------------
(* Levels 2 and 3 (sylzc_compress_mid): a table of long hashes, tried first, *)
(* and one of short ones. A match that is not long enough is given up for a  *)
(* longer one a byte later: once at level 2, as long as that helps at 3.     *)
EXTENDS BlockEmit

CONSTANTS
  MidSkip,               \* MID_SKIP: 9
  LazyEnough,            \* MID_LAZY_ENOUGH: 32
  NextBelow              \* MID_NEXT_BELOW: 8

ASSUME MidAssumption == 2 ^ MidSkip \in Nat \ {0}

VARIABLES
  lazy,                  \* level 3
  tl, ts,                \* the tables, positions modulo Window
  pos, len, dist         \* the position, and the match found there

midVars == <<lazy, tl, ts, pos, len, dist>>

MidInit ==
  /\ tl = [h \in Buckets |-> 0] /\ ts = [h \in Buckets |-> 0]
  /\ pos = 0 /\ len = 0 /\ dist = 0

(* mid_cand: the distance of t's candidate at p if it begins like p, else 0. *)
MidCand(t, h, p) ==
  LET d == FastDist(p, t[h]) IN IF d > p \/ ~Same(p - d, p) THEN 0 ELSE d

Put(t, h, p) == [t EXCEPT ![h] = Stored(p)]
LengthAt(p, d) == MinMatch + CountMatch(p + MinMatch, p - d + MinMatch)

MidProbe ==
  /\ pc = "mid"
  /\ IF TooShort \/ pos >= Limit
     THEN /\ pc' = "done"
          /\ UNCHANGED <<midVars, reach>>
     ELSE LET long == MidCand(tl, HashLong(pos), pos)
              found == IF long > 0 THEN long ELSE MidCand(ts, HashShort(pos), pos)
          IN  /\ tl' = Put(tl, HashLong(pos), pos)
              /\ ts' = Put(ts, HashShort(pos), pos)
              /\ reach' = Further(reach, pos + HashRead)
              /\ dist' = found
              /\ IF found = 0
                 THEN /\ pos' = pos + 1 + ((pos - anchor) \div 2 ^ MidSkip)
                      /\ UNCHANGED <<pc, len>>
                 ELSE /\ len' = LengthAt(pos, found)
                      /\ pc' = IF lazy THEN "midLazy" ELSE "midBelow"
                      /\ UNCHANGED pos
              /\ UNCHANGED lazy
  /\ UNCHANGED <<src, out, anchor>>

(* Level 3: both tables one byte later, while that finds a longer match.     *)
MidLazy ==
  /\ pc = "midLazy"
  /\ LET k == pos + 1
         long == MidCand(tl, HashLong(k), k)
         short == MidCand(ts, HashShort(k), k)
         later == IF long = 0 THEN short ELSE long
     IN  IF len < LazyEnough /\ k < Limit
         THEN /\ tl' = Put(tl, HashLong(k), k)
              /\ ts' = Put(ts, HashShort(k), k)
              /\ reach' = Further(reach, k + HashRead)
              /\ IF later # 0 /\ LengthAt(k, later) > len
                 THEN /\ pos' = k /\ len' = LengthAt(k, later) /\ dist' = later
                      /\ UNCHANGED pc
                 ELSE /\ pc' = "midEmit"
                      /\ UNCHANGED <<pos, len, dist>>
         ELSE /\ pc' = "midEmit"
              /\ UNCHANGED <<tl, ts, pos, len, dist, reach>>
  /\ UNCHANGED <<src, out, anchor, lazy>>

(* Level 2: after a short match, a long one one byte later?                  *)
MidBelow ==
  /\ pc = "midBelow"
  /\ LET k == pos + 1
         later == MidCand(tl, HashLong(k), k)
     IN  IF len < NextBelow /\ k < Limit
         THEN /\ tl' = Put(tl, HashLong(k), k)
              /\ reach' = Further(reach, k + HashRead)
              /\ IF later > 0 /\ LengthAt(k, later) > len
                 THEN pos' = k /\ len' = LengthAt(k, later) /\ dist' = later
                 ELSE UNCHANGED <<pos, len, dist>>
         ELSE UNCHANGED <<tl, pos, len, dist, reach>>
  /\ pc' = "midEmit"
  /\ UNCHANGED <<src, out, anchor, lazy, ts>>

MidEmit ==
  /\ pc = "midEmit"
  /\ LET b == CountBack(pos, pos - dist, anchor)
         p == pos - b
         end == pos + len
     IN  /\ out' = EmitSequence(out, anchor, p, dist, len + b)
         /\ IF end < Limit
            THEN /\ tl' = Put(Put(tl, HashLong(p + 1), p + 1), HashLong(end - 2), end - 2)
                 /\ ts' = Put(Put(ts, HashShort(p + 2), p + 2), HashShort(end - 1), end - 1)
                 /\ reach' = Further(reach, Further(p + 1, end - 2) + HashRead)
            ELSE UNCHANGED <<tl, ts, reach>>
         /\ pos' = end
         /\ anchor' = end
  /\ pc' = "mid"
  /\ UNCHANGED <<src, lazy, len, dist>>

MidNext == MidProbe \/ MidLazy \/ MidBelow \/ MidEmit

MidSpec ==
  /\ InputInit /\ MidInit /\ pc = "mid" /\ lazy \in BOOLEAN
  /\ out = [ctrl |-> <<>>, lit |-> <<>>] /\ reach = 0
  /\ [][MidNext]_<<src, anchor, pc, out, reach, midVars>>
================================================================================
