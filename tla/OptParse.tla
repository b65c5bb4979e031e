-------------------------------- MODULE OptParse -------------------------------
(* Levels 9 and 10. The input is parsed window by window: a binary tree      *)
(* finds every position's candidates (sylzc_bt_insert, sylzc_opt_cands), a   *)
(* dynamic program prices the ways through them (sylzc_opt_dp), and the      *)
(* cheapest is written (CompressOptCore in sylz.pas). A price is in bits.    *)
EXTENDS BlockEmit

CONSTANTS
  OptWindow,             \* OPT_WINDOW: 4096
  MaxCand,               \* OPT_MAXCAND: 64
  Cut,                   \* btCut: the nodes an insertion visits
  BtMaxLen,              \* btMaxLen: the bytes it compares
  Sufficient,            \* a match as long as this is taken at once
  SkipLen,               \* one as long as this hides what it covers
  SubLen,                \* the lengths up to this are all tried
  MtabCols,              \* OPT_MTAB_COLS: the lengths priced in a table
  NearDist,              \* 16: a nearer distance costs PShort more
  Scale,                 \* OPT_SCALE: a byte's price
  PSeq, PEsc, PShort,    \* the penalties
  Inf                    \* High(Int32): no way was found

ASSUME OptAssumption ==
  /\ SubLen >= MinMatch /\ BtMaxLen >= MinMatch /\ MtabCols > ExactM
  /\ SkipLen >= SubLen /\ OptWindow > 0 /\ Window > 0 /\ Sufficient > 0
  /\ {OptWindow, MaxCand, Cut, BtMaxLen, Sufficient, SkipLen, SubLen, MtabCols,
      NearDist, Scale, PSeq, PEsc, PShort, Inf} \subseteq Nat
  /\ OptWindow * (4 * Scale + PSeq + PEsc + PShort) < Inf
  /\ \A s \in Inputs : s \in Seq(Nat)     \* the tree sorts by bytes

VARIABLES
  roots, son,            \* the tree: positions + 1, 0 for none; son starts with
                         \* the links of the block before
  btNext,                \* nextToInsert
  start, w, i,           \* the window, and the position in it
  cands,                 \* by position: its (length, distance) pairs
  hidden,                \* the positions with cnt < 0
  forced,                \* the sufficient match that ended the window, or <<>>
  nodes                  \* by position: the cheapest way to it that was found

optVars == <<roots, son, btNext, start, w, i, cands, hidden, forced, nodes>>

OptInit ==
  /\ roots = [h \in Buckets |-> 0] /\ son = [k \in 0 .. 2 * Window - 1 |-> Unset]
  /\ btNext = 0 /\ start = 0 /\ w = 0 /\ i = 0
  /\ cands = <<>> /\ hidden = {} /\ forced = <<>> /\ nodes = <<>>

--------------------------------------------------------------------------------
(* sylzc_bt_insert. ptr0 and ptr1 are the links still to be set, to what     *)
(* sorts after and before p; len0 and len1 bytes are known to be equal there.*)
(* whole: p is equal as far as it is compared, and takes the place.          *)

Pair(p) == 2 * (p % Window)
LenLimit(p) == IF n - p > BtMaxLen THEN BtMaxLen ELSE n - p

Known(s) == IF s.len0 < s.len1 THEN s.len0 ELSE s.len1

(* The bytes of p and the node that are equal, those known to be so included.*)
Equal(p, s) ==
  MaxOf({k \in Known(s) .. LenLimit(p) :
           SameBytes(s.match + Known(s), p + Known(s), k - Known(s))})

(* A node more, unless the tree or the walk has come to its end.             *)
WalkStep(p, s) ==
  LET m == s.match
      pair == Pair(m)
      len == Equal(p, s)
      longer == len > Known(s) /\ len > s.best
      found == IF longer /\ Len(s.cands) < MaxCand
               THEN Append(s.cands, <<len, p - m>>) ELSE s.cands
      t == [s EXCEPT !.best = IF longer THEN len ELSE @, !.cands = found]
  IN  IF s.whole \/ m < 0 \/ p - m >= Window THEN s
      ELSE IF longer /\ len >= LenLimit(p)
      THEN [t EXCEPT !.son = [@ EXCEPT ![s.ptr1] = s.son[pair], ![s.ptr0] = s.son[pair + 1]],
                     !.whole = TRUE]
      ELSE IF At(m + len) < At(p + len)
      THEN [t EXCEPT !.son[s.ptr1] = m + 1, !.ptr1 = pair + 1,
                     !.match = s.son[pair + 1] - 1, !.len1 = len]
      ELSE [t EXCEPT !.son[s.ptr0] = m + 1, !.ptr0 = pair,
                     !.match = s.son[pair] - 1, !.len0 = len]

WalkStart(p) ==
  [son |-> son, ptr1 |-> Pair(p), ptr0 |-> Pair(p) + 1, whole |-> FALSE,
   match |-> roots[HashShort(p)] - 1, len0 |-> 0, len1 |-> 0,
   best |-> MinMatch - 1, cands |-> <<>>]

Closed(s) ==
  IF s.whole THEN s ELSE [s EXCEPT !.son = [@ EXCEPT ![s.ptr0] = 0, ![s.ptr1] = 0]]

Inserted(p) ==
  LET W[k \in 0 .. Cut] == IF k = 0 THEN WalkStart(p) ELSE WalkStep(p, W[k - 1])
  IN  Closed(W[Cut])

BtInsert(p) ==
  /\ son' = Inserted(p).son
  /\ roots' = [roots EXCEPT ![HashShort(p)] = p + 1]
  /\ btNext' = p + 1
  /\ reach' = Further(reach, p + MinMatch)

(* bt_find_all: the last candidate, if it is as long as the tree compares,   *)
(* goes on as far as the bytes do.                                           *)
Grown(p, c) ==
  LET k == Len(c)
      len == c[k][1]
      dist == c[k][2]
  IN  IF k > 0 /\ len >= BtMaxLen
      THEN [c EXCEPT ![k] = <<len + CountMatch(p + len, (p + len) - dist), dist>>]
      ELSE c

FindAll(p) == Grown(p, Inserted(p).cands)

--------------------------------------------------------------------------------
(* The candidates of a window.                                               *)

OptWindowStart ==
  /\ pc = "opt"
  /\ IF TooShort \/ start >= Limit
     THEN /\ pc' = "done"
          /\ UNCHANGED <<w, i, cands, hidden, forced>>
     ELSE /\ w' = IF start + OptWindow > Limit THEN Limit - start ELSE OptWindow
          /\ i' = 0
          /\ cands' = [k \in 0 .. w' - 1 |-> <<>>]
          /\ hidden' = {}
          /\ forced' = <<>>
          /\ pc' = "optCands"
  /\ UNCHANGED <<src, anchor, out, reach, roots, son, btNext, start, nodes>>

(* The positions that were passed over are inserted first.                   *)
OptInsert ==
  /\ pc = "optCands"
  /\ i < w
  /\ btNext < start + i
  /\ BtInsert(btNext)
  /\ UNCHANGED <<src, anchor, pc, out, start, w, i, cands, hidden, forced, nodes>>

OptCands ==
  /\ pc = "optCands"
  /\ i < w
  /\ btNext >= start + i
  /\ BtInsert(start + i)
  /\ LET c == FindAll(start + i)
         last == c[Len(c)]
         len == IF c = <<>> THEN 0 ELSE last[1]
         skip == len >= SkipLen /\ i + len <= w
     IN  /\ cands' = [cands EXCEPT ![i] = c]
         /\ IF len >= Sufficient
            THEN /\ forced' = last
                 /\ w' = i
                 /\ UNCHANGED <<i, hidden>>
            ELSE /\ i' = IF skip THEN i + len ELSE i + 1
                 /\ hidden' = IF skip THEN hidden \cup (i + 1 .. i + len - 1) ELSE hidden
                 /\ UNCHANGED <<forced, w>>
  /\ UNCHANGED <<src, anchor, pc, out, start, nodes>>

--------------------------------------------------------------------------------
(* Prices.                                                                   *)

(* Mistake: the literal that needs the first extension costs its bytes only. *)
LitStepBytes(ll) ==
  CASE ll < ExactLL -> Scale
    [] ll = ExactLL -> Scale * (1 + ExtBytes(ll + 1))
    [] OTHER        -> Scale * (1 + ExtBytes(ll + 1) - ExtBytes(ll))

LitStep(ll) ==
  CASE ll < ExactLL -> Scale
    [] ll = ExactLL -> Scale * (1 + ExtBytes(ll + 1)) + PEsc
    [] OTHER        -> Scale * (1 + ExtBytes(ll + 1) - ExtBytes(ll))

(* mtab: what a match of length ml costs after ll literals, far away.        *)
MatchCost(ll, ml) ==
  LET m == ml - MinMatch IN
  CASE ll <= ExactLL /\ ExactCode(ll, m) # Base -> Scale * 3 + PSeq
    [] ll <= ExactLL /\ ExactCode(ll, m) = Base -> Scale * (3 + ExtBytes(m)) + PSeq + PEsc
    [] ll > ExactLL /\ m <= ExactM              -> Scale * 3 + PSeq
    [] OTHER                                    -> Scale * (3 + ExtBytes(m)) + PSeq

LongMatchCost(ll, ml) ==
  Scale * (3 + ExtBytes(ml - MinMatch)) + PSeq + (IF ll <= ExactLL THEN PEsc ELSE 0)

Near(dist) == IF dist < NearDist THEN PShort ELSE 0

Cost(ll, ml, dist) ==
  Near(dist) + (IF ml < MinMatch + MtabCols
                THEN MatchCost(IF ll > ExactLL THEN ExactLL + 1 ELSE ll, ml)
                ELSE LongMatchCost(ll, ml))

(* The lengths tried with candidate c: those the ones before it cannot do,   *)
(* all up to SubLen and then its own.                                        *)
Tried(cs, c) ==
  LET prev == IF c = 1 THEN MinMatch - 1 ELSE cs[c - 1][1] IN
  {ml \in prev + 1 .. cs[c][1] : ml <= SubLen \/ ml = cs[c][1]}

(* sylzc_opt_dp: the nodes, updated from those of each position in turn.     *)
From(k, ns) ==
  LET ll == ns[k].ll
      lit == [cost |-> ns[k].cost + LitStep(ll), ll |-> ll + 1, ml |-> 0, dist |-> 0]
      Match(c, ml) == [cost |-> ns[k].cost + Cost(ll, ml, cands[k][c][2]),
                       ll |-> 0, ml |-> ml, dist |-> cands[k][c][2]]
      ways(j) == (IF j = k + 1 THEN {lit} ELSE {}) \cup
                 UNION {{Match(c, ml) : ml \in {l \in Tried(cands[k], c) : k + l = j}} :
                          c \in DOMAIN cands[k]}
  IN  [j \in DOMAIN ns |->
         IF \E x \in ways(j) : x.cost < ns[j].cost
         THEN CHOOSE x \in ways(j) : \A y \in ways(j) : x.cost <= y.cost
         ELSE ns[j]]

FirstNodes ==
  [j \in 0 .. w |-> [cost |-> IF j = 0 THEN 0 ELSE Inf,
                     ll |-> IF j = 0 THEN start - anchor ELSE 0, ml |-> 0, dist |-> 0]]

Priced ==
  LET N[k \in 0 .. w] ==
        IF k = 0 THEN FirstNodes
        ELSE IF k - 1 \in hidden THEN N[k - 1] ELSE From(k - 1, N[k - 1])
  IN  N[w]

OptPrice ==
  /\ pc = "optCands"
  /\ i >= w \/ forced # <<>>
  /\ nodes' = Priced
  /\ pc' = "optEmit"
  /\ UNCHANGED <<src, anchor, out, reach, roots, son, btNext, start, w, i, cands,
                 hidden, forced>>

--------------------------------------------------------------------------------
(* The cheapest way to the end of the window, as <<position, length,         *)
(* distance>> in order, and what is written for it.                          *)

Path ==
  LET P[j \in 0 .. w] ==
        IF j = 0 THEN <<>>
        ELSE IF nodes[j].ml = 0 THEN P[j - 1]
        ELSE Append(P[j - nodes[j].ml], <<start + j - nodes[j].ml, nodes[j].ml, nodes[j].dist>>)
  IN  P[w]

Written(seqs) ==
  LET W[k \in 0 .. Len(seqs)] ==
        IF k = 0 THEN [out |-> out, anchor |-> anchor]
        ELSE LET b == W[k - 1]
                 s == seqs[k]
             IN  [out    |-> EmitSequence(b.out, b.anchor, s[1], s[3], s[2]),
                  anchor |-> s[1] + s[2]]
  IN  W[Len(seqs)]

OptEmit ==
  /\ pc = "optEmit"
  /\ LET all == IF forced = <<>> THEN Path
                ELSE Append(Path, <<start + w, forced[1], forced[2]>>)
         b == Written(all)
     IN  /\ out' = b.out
         /\ anchor' = b.anchor
         /\ start' = IF forced = <<>> THEN start + w ELSE b.anchor
  /\ pc' = "opt"
  /\ UNCHANGED <<src, reach, roots, son, btNext, w, i, cands, hidden, forced, nodes>>

OptNext == OptWindowStart \/ OptInsert \/ OptCands \/ OptPrice \/ OptEmit

OptSpec ==
  /\ InputInit /\ OptInit /\ pc = "opt"
  /\ out = [ctrl |-> <<>>, lit |-> <<>>] /\ reach = 0
  /\ [][OptNext]_<<src, anchor, pc, out, reach, optVars>>
================================================================================
