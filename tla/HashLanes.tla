-------------------------------- MODULE HashLanes ------------------------------
(* Hashing many messages with BLAKE2s (sylzc_blake2s_many): each lane of the *)
(* vectors has a message of its own, a lane whose message ends takes the     *)
(* next one, and what no other message is left to share the vectors with is  *)
(* finished alone. A hash is kept as what was compressed into it: the        *)
(* blocks, each with its counter and its final flag.                         *)
EXTENDS Integers, Sequences, FiniteSets

CONSTANTS
  Block,                 \* 64
  Lanes,                 \* B2S_LANES: 4
  MessageLists           \* the lists of messages to hash, by their lengths

(* With one lane no two messages would ever share the vectors, and all but  *)
(* the first would be left.                                                 *)
ASSUME LanesAssumption ==
  Block \in Nat \ {0} /\ Lanes \in Nat \ {0, 1} /\ MessageLists \subseteq Seq(Nat)

VARIABLES
  len,                   \* the messages: their lengths
  keyed,                 \* with a key
  taken,                 \* next: messages that were taken
  lane,                  \* by lane: the message in it, Idle for none
  out,                   \* by message: its hash, once it is written
  pc

hashVars == <<len, keyed, taken, lane, out, pc>>

Count == Len(len)
LaneSet == 1 .. Lanes
Min2(a, b) == IF a < b THEN a ELSE b

Idle == [which |-> 0, left |-> 0, t |-> 0, keyFirst |-> FALSE, h |-> <<>>]
Busy == {l \in LaneSet : lane[l].which # 0}

KeyBlock == [of |-> 0, from |-> 0, size |-> Block]
Data(k, from, size) == [of |-> k, from |-> from, size |-> size]
Step(b, t, last) == [block |-> b, t |-> t, last |-> last]

(* A message of which nothing was hashed.                                    *)
Fresh(k) == [which |-> k, left |-> len[k], t |-> 0, keyFirst |-> keyed, h |-> <<>>]
Read(m) == len[m.which] - m.left

HashInit ==
  /\ len \in MessageLists
  /\ keyed \in BOOLEAN
  /\ taken = 0
  /\ lane = [l \in LaneSet |-> Idle]
  /\ out = [k \in 1 .. Len(len) |-> <<>>]
  /\ pc \in {"take", "one"}              \* the build's: lanes, or i386

(* b2s_finish: the rest of a message, the key block first if it is to come.  *)
Finish(m) ==
  LET k == IF m.keyFirst THEN 1 ELSE 0
      key == IF m.keyFirst THEN <<Step(KeyBlock, m.t + Block, m.left = 0)>> ELSE <<>>
      t == m.t + k * Block
      full == IF m.left > 0 THEN (m.left - 1) \div Block ELSE 0
      rest == m.left - full * Block
      whole == [i \in 1 .. full |->
                  Step(Data(m.which, Read(m) + (i - 1) * Block, Block), t + i * Block, FALSE)]
      final == <<Step(Data(m.which, Read(m) + full * Block, rest), t + full * Block + rest, TRUE)>>
  IN  IF m.keyFirst /\ m.left = 0 THEN m.h \o key ELSE m.h \o key \o whole \o final

(* Idle lanes take the next messages.                                        *)
Take ==
  /\ pc = "take"
  /\ LET Message(l) == taken + Cardinality({j \in LaneSet \ Busy : j <= l})
         taking == {l \in LaneSet \ Busy : Message(l) <= Count}
     IN  /\ lane' = [l \in LaneSet |-> IF l \in taking THEN Fresh(Message(l)) ELSE lane[l]]
         /\ taken' = taken + Cardinality(taking)
         /\ pc' = IF Cardinality(Busy \cup taking) < 2 THEN "rest" ELSE "round"
  /\ UNCHANGED <<len, keyed, out>>

(* Mistake: a message that ends with a whole block is not seen to end.       *)
CompressedWhole(m) ==
  CASE m.keyFirst ->
         [m EXCEPT !.t = @ + Block, !.keyFirst = FALSE,
                   !.h = Append(@, Step(KeyBlock, m.t + Block, m.left = 0))]
    [] ~m.keyFirst /\ m.left >= Block ->
         [m EXCEPT !.t = @ + Block, !.left = @ - Block,
                   !.h = Append(@, Step(Data(m.which, Read(m), Block), m.t + Block, FALSE))]
    [] OTHER ->
         [m EXCEPT !.t = @ + m.left,
                   !.h = Append(@, Step(Data(m.which, Read(m), m.left), m.t + m.left, TRUE))]

(* A lane's block, and the lane after it.                                    *)
Compressed(m) ==
  CASE m.keyFirst ->
         [m EXCEPT !.t = @ + Block, !.keyFirst = FALSE,
                   !.h = Append(@, Step(KeyBlock, m.t + Block, m.left = 0))]
    [] ~m.keyFirst /\ m.left > Block ->
         [m EXCEPT !.t = @ + Block, !.left = @ - Block,
                   !.h = Append(@, Step(Data(m.which, Read(m), Block), m.t + Block, FALSE))]
    [] OTHER ->
         [m EXCEPT !.t = @ + m.left,
                   !.h = Append(@, Step(Data(m.which, Read(m), m.left), m.t + m.left, TRUE))]

Ended(m) == m.h # <<>> /\ m.h[Len(m.h)].last

Round ==
  /\ pc = "round"
  /\ LET after == [l \in Busy |-> Compressed(lane[l])]
         ended == {l \in Busy : Ended(after[l])}
     IN  /\ out' = [k \in DOMAIN out |->
                      IF \E l \in ended : after[l].which = k
                      THEN after[CHOOSE l \in ended : after[l].which = k].h ELSE out[k]]
         /\ lane' = [l \in LaneSet |->
                       CASE l \in ended        -> Idle
                         [] l \in Busy \ ended -> after[l]
                         [] OTHER              -> lane[l]]
  /\ pc' = "take"
  /\ UNCHANGED <<len, keyed, taken>>

(* At most one lane is still busy.                                           *)
Rest ==
  /\ pc = "rest"
  /\ out' = [k \in DOMAIN out |->
               IF \E l \in Busy : lane[l].which = k
               THEN Finish(lane[CHOOSE l \in Busy : lane[l].which = k]) ELSE out[k]]
  /\ pc' = "done"
  /\ UNCHANGED <<len, keyed, taken, lane>>

(* b2s_many_one: one message after the other.                                *)
One ==
  /\ pc = "one"
  /\ IF taken < Count
     THEN /\ taken' = taken + 1
          /\ out' = [out EXCEPT ![taken + 1] = Finish(Fresh(taken + 1))]
          /\ UNCHANGED pc
     ELSE pc' = "done" /\ UNCHANGED <<taken, out>>
  /\ UNCHANGED <<len, keyed, lane>>

HashNext == Take \/ Round \/ Rest \/ One

HashSpec == HashInit /\ [][HashNext]_hashVars

--------------------------------------------------------------------------------
(* RFC 7693: the blocks of a message on its own. The key is a block before   *)
(* it; the counter is of the bytes so far, and the last block, which may be  *)
(* empty only if all is, has the final flag.                                 *)
Alone(k) ==
  LET key == IF keyed THEN 1 ELSE 0
      total == len[k] + key * Block
      blocks == IF total = 0 THEN 1 ELSE (total + Block - 1) \div Block
      from(i) == (i - 1 - key) * Block
  IN  [i \in 1 .. blocks |->
         Step(IF i <= key THEN KeyBlock ELSE Data(k, from(i), Min2(Block, len[k] - from(i))),
              Min2(i * Block, total), i = blocks)]

(* Whichever lane a message was in, with which others, wherever it was left  *)
(* to be finished alone, its hash is that of the message alone: no block or  *)
(* counter of the message before it in the lane stays in it, and every       *)
(* message is hashed.                                                        *)
HashedAsAlone ==
  /\ \A k \in 1 .. Count : out[k] # <<>> => out[k] = Alone(k)
  /\ pc = "done" => \A k \in 1 .. Count : out[k] # <<>>
================================================================================
