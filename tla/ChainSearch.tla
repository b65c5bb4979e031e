------------------------------- MODULE ChainSearch -----------------------------
(* The search of levels 4 to 8 (sylzc_hc_search): the positions with the     *)
(* same hash are linked, the latest first, by the distances between them.    *)
(* The links are a ring of Window entries, which starts with those of the    *)
(* block before.                                                             *)
EXTENDS ChainParse, BlockEmit

CONSTANT Attempts        \* 2 to 64

ASSUME SearchAssumption == Attempts \in Nat \ {0} /\ Window # 0

MaxDist == Window - 1    \* HC_MAXDIST: a link is a distance, 0 ends the chain

VARIABLES
  head,                  \* by hash: the latest position, modulo Window
  chain,                 \* by position modulo Window: the distance to the next
  nextToInsert

searchVars == <<head, chain, nextToInsert>>

SearchInit ==
  /\ head = [h \in Buckets |-> 0] /\ chain = [i \in 0 .. Window - 1 |-> Unset]
  /\ nextToInsert = 0

Link(hd, i) == LET d == FastDist(i, hd) IN IF d > i \/ d > MaxDist THEN 0 ELSE d

(* Mistake: the head is set before it is linked to.                          *)
InsertedFirst(p) ==
  LET T[i \in nextToInsert .. p] ==
        IF i = nextToInsert THEN [head |-> head, chain |-> chain]
        ELSE LET t == T[i - 1]
                 h == HashShort(i - 1)
             IN  [head  |-> [t.head EXCEPT ![h] = Stored(i - 1)],
                  chain |-> [t.chain EXCEPT ![Stored(i - 1)] = Link(Stored(i - 1), i - 1)]]
  IN  IF p <= nextToInsert THEN [head |-> head, chain |-> chain] ELSE T[p]

(* The tables with the positions before p inserted.                          *)
InsertedTo(p) ==
  LET T[i \in nextToInsert .. p] ==
        IF i = nextToInsert THEN [head |-> head, chain |-> chain]
        ELSE LET t == T[i - 1]
                 h == HashShort(i - 1)
             IN  [head  |-> [t.head EXCEPT ![h] = Stored(i - 1)],
                  chain |-> [t.chain EXCEPT ![Stored(i - 1)] = Link(t.head[h], i - 1)]]
  IN  IF p <= nextToInsert THEN [head |-> head, chain |-> chain] ELSE T[p]

(* The candidates a search of p tries, -1 after the last.                    *)
Candidates(t, p) ==
  LET C[k \in 1 .. Attempts] ==
        IF k = 1
        THEN LET d == Link(t.head[HashShort(p)], p) IN IF d = 0 THEN -1 ELSE p - d
        ELSE LET d == t.chain[Stored(C[k - 1])] IN
             IF C[k - 1] < 0 \/ d = 0 \/ p - (C[k - 1] - d) > MaxDist \/ C[k - 1] - d < 0
             THEN -1 ELSE C[k - 1] - d
  IN  C

(* Mistake: the match is extended back past low.                             *)
ThroughStart(p, low, c) ==
  LET back == CountBack(p, c, 0) IN
  [at |-> p - back, from |-> c - back,
   len |-> back + MinMatch + CountMatch(p + MinMatch, c + MinMatch)]

(* The match through p with the bytes at c.                                  *)
Through(p, low, c) ==
  LET back == CountBack(p, c, low) IN
  [at |-> p - back, from |-> c - back,
   len |-> back + MinMatch + CountMatch(p + MinMatch, c + MinMatch)]

(* The first of the longest is kept. What is inserted, and the position      *)
(* itself, is hashed by MinMatch bytes.                                      *)
Search ==
  /\ pc = "search"
  /\ LET t == InsertedTo(ask.pos)
         c == Candidates(t, ask.pos)
         M(k) == Through(ask.pos, ask.low, c[k])
         tried == {k \in 1 .. Attempts : c[k] >= 0 /\ Same(c[k], ask.pos)}
         better == {k \in tried : M(k).len > ask.longest}
         Best(k) == \A j \in better : M(j).len < M(k).len \/ (M(j).len = M(k).len /\ k <= j)
     IN  /\ head' = t.head /\ chain' = t.chain
         /\ nextToInsert' = ask.pos
         /\ hit' = IF better = {} THEN [hit EXCEPT !.len = ask.longest]
                   ELSE M(CHOOSE k \in better : Best(k))
  /\ reach' = Further(reach, ask.pos + MinMatch)
  /\ pc' = "found"
  /\ UNCHANGED <<src, anchor, state, heldVars, ask, emitted, out>>

(* A turn of the parse; what it writes goes to the block.                    *)
ChainTurn ==
  /\ ParseNext
  /\ out' = IF anchor' = anchor THEN out
            ELSE EmitSequence(out, anchor, emitted'.at, emitted'.at - emitted'.from, emitted'.len)
  /\ UNCHANGED <<reach, searchVars>>

ChainNext == Search \/ ChainTurn

searchingVars == <<vars, searchVars, out, reach>>

ChainSpec ==
  /\ InputInit /\ ChainInit /\ SearchInit /\ pc = "turn"
  /\ out = [ctrl |-> <<>>, lit |-> <<>>] /\ reach = 0
  /\ [][ChainNext]_searchingVars

--------------------------------------------------------------------------------
(* The search of the chains answers the parse as ChainParse lets it: with a  *)
(* match it was asked for, longer than the one in hand, or with none.        *)
SearchImplements == [][pc = "search" => SearchFinds \/ SearchFails]_vars
================================================================================
