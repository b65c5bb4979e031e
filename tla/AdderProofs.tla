----------------------------- MODULE AdderProofs -----------------------------
(***************************************************************************)
(* Proofs about the parts of TAdder, for values of any size: how syc a     *)
(* reads the files it stores (ReaderBatches), the task pool that hashes    *)
(* each batch (TaskPool), and the hashing of many fragments in lanes, one  *)
(* task of the pool (HashLanes).                                           *)
(***************************************************************************)
EXTENDS ReaderBatches, TaskPool, HashLanes,
        TLAPS, SequenceTheorems, WellFoundedInduction, FiniteSetTheorems

-----------------------------------------------------------------------------
(* Sequences.  A set of numbers that is not empty has a least one, which is *)
(* the induction of the proofs about FlattenSeq.                            *)
LEMMA LeastNat ==
  ASSUME NEW T, T \subseteq Nat, T # {}
  PROVE  \E x \in T : \A y \in T : ~(y < x)
<1>1. PICK R : IsWellFoundedOn(R, Nat) /\ R = {p \in Nat \X Nat : p[1] < p[2]}
  BY NatLessThanWellFounded, Zenon DEF OpToRel
<1>2. PICK x \in T : \A y \in T : ~(<<y, x>> \in R)
  BY <1>1, WFMin
<1> QED
  BY <1>1, <1>2

(* A sequence of sequences, flattened as far as each of its elements.       *)
Flattened(s, n, g) ==
  g = [i \in 1 .. n |-> IF i = 1 THEN s[i] ELSE g[i-1] \o s[i]]

(* There is such a function, for any sequence.                              *)
LEMMA FlattenedExists ==
  ASSUME NEW s, NEW n \in Nat
  PROVE  \E g : Flattened(s, n, g)
<1> DEFINE T == {m \in Nat : ~ \E g : Flattened(s, m, g)}
<1>1. CASE T = {}
  BY <1>1
<1>2. CASE T # {}
  <2>1. PICK m \in T : \A y \in T : ~(y < m)
    BY <1>2, LeastNat
  <2>2. m # 0
    <3>1. Flattened(s, 0, [i \in 1 .. 0 |-> 0])
      BY DEF Flattened
    <3> QED
      BY <2>1, <3>1
  <2>3. PICK g : Flattened(s, m - 1, g)
    BY <2>1, <2>2
  <2> DEFINE h == [i \in 1 .. m |-> IF i = m THEN IF m = 1 THEN s[m] ELSE g[m-1] \o s[m] ELSE g[i]]
  <2>4. \A i \in 1 .. m : h[i] = IF i = 1 THEN s[i] ELSE h[i-1] \o s[i]
    <3> SUFFICES ASSUME NEW i \in 1 .. m PROVE h[i] = IF i = 1 THEN s[i] ELSE h[i-1] \o s[i]
      OBVIOUS
    <3>1. CASE i = m
      BY <3>1, <2>1
    <3>2. CASE i # m
      <4>1. i \in 1 .. m - 1 /\ h[i] = g[i] /\ (i # 1 => h[i-1] = g[i-1])
        BY <3>2, <2>1
      <4>2. g[i] = IF i = 1 THEN s[i] ELSE g[i-1] \o s[i]
        BY <4>1, <2>3 DEF Flattened
      <4> QED
        BY <4>1, <4>2
    <3> QED
      BY <3>1, <3>2
  <2>5. Flattened(s, m, h)
    BY <2>4 DEF Flattened
  <2> QED
    BY <2>5, <2>1
<1> QED
  BY <1>1, <1>2

(* FlattenSeq is the last value of one.                                     *)
LEMMA FlattenSeqIs ==
  ASSUME NEW s, Len(s) \in Nat, Len(s) # 0
  PROVE  \E g : Flattened(s, Len(s), g) /\ FlattenSeq(s) = g[Len(s)]
<1>1. \E g : Flattened(s, Len(s), g)
  BY FlattenedExists
<1> DEFINE f == CHOOSE g : g = [i \in 1 .. Len(s) |-> IF i = 1 THEN s[i] ELSE g[i-1] \o s[i]]
<1>2. FlattenSeq(s) = f[Len(s)]
  BY DEF FlattenSeq
<1>3. Flattened(s, Len(s), f)
  BY <1>1 DEF Flattened
<1> QED
  BY <1>2, <1>3

(* What is appended to the second of two sequences is so to both.           *)
LEMMA ConcatAppend ==
  ASSUME NEW S, NEW a \in Seq(S), NEW b \in Seq(S), NEW x \in S
  PROVE  a \o Append(b, x) = Append(a \o b, x)
<1>1. <<x>> \in Seq(S) /\ Append(b, x) = b \o <<x>>
  BY AppendIsConcat
<1>2. a \o b \in Seq(S) /\ Append(a \o b, x) = (a \o b) \o <<x>>
  BY ConcatProperties, AppendIsConcat
<1>3. (a \o b) \o <<x>> = a \o (b \o <<x>>)
  BY <1>1, ConcatAssociative
<1> QED
  BY <1>1, <1>2, <1>3

(* One more fragment at the end of the last sequence that is not empty is   *)
(* one more at the end of them all.                                         *)
LEMMA FlattenAppend ==
  ASSUME NEW S, NEW s \in Seq(Seq(S)), NEW t, Len(t) = Len(s), NEW e \in 1 .. Len(s), NEW x \in S,
         t[e] = Append(s[e], x),
         \A i \in 1 .. Len(s) : i # e => t[i] = s[i],
         \A i \in 1 .. Len(s) : i > e => s[i] = <<>>
  PROVE  FlattenSeq(t) = Append(FlattenSeq(s), x)
<1> DEFINE n == Len(s)
<1>1. n \in Nat /\ n # 0 /\ \A i \in 1 .. n : s[i] \in Seq(S)
  BY ElementOfSeq
<1>2. PICK g : Flattened(s, n, g) /\ FlattenSeq(s) = g[n]
  BY <1>1, FlattenSeqIs
<1>3. PICK h : Flattened(t, n, h) /\ FlattenSeq(t) = h[n]
  BY <1>1, FlattenSeqIs
<1>4. \A i \in 1 .. n : g[i] = IF i = 1 THEN s[i] ELSE g[i-1] \o s[i]
  BY <1>2 DEF Flattened
<1>5. \A i \in 1 .. n : h[i] = IF i = 1 THEN t[i] ELSE h[i-1] \o t[i]
  BY <1>3 DEF Flattened
<1>8. e \in 1 .. n /\ \A i \in 1 .. n : (i # e => t[i] = s[i]) /\ (i > e => s[i] = <<>> /\ t[i] = <<>>)
  OBVIOUS
<1> HIDE DEF n
<1> DEFINE Right(i) == g[i] \in Seq(S) /\ h[i] = IF i < e THEN g[i] ELSE Append(g[i], x)
           T == {i \in 1 .. n : ~Right(i)}
<1>6. T = {}
  <2> SUFFICES ASSUME T # {} PROVE FALSE
    OBVIOUS
  <2>1. PICK i \in T : \A y \in T : ~(y < i)
    <3> HIDE DEF Right
    <3>1. T \subseteq Nat
      BY <1>1
    <3> HIDE DEF T
    <3> QED
      BY <3>1, LeastNat
  <2>5. i \in 1 .. n /\ g[1] = s[1] /\ s[1] \in Seq(S) /\ 1 \in 1 .. n /\ (i - 1 >= 1 => Right(i - 1)) /\ e \in Int
    BY <2>1, <1>1, <1>4, <1>8
  <2> HIDE DEF T, Right
  <2> SUFFICES Right(i)
    BY <2>1, <2>5 DEF T
  <2>2. CASE i = 1
    <3>1. g[i] = s[i] /\ h[i] = t[i]
      BY <2>2, <1>1, <1>4, <1>5
    <3>2. CASE e = 1
      <4>1. h[i] = Append(g[i], x) /\ ~(i < e)
        BY <3>1, <3>2, <2>2
      <4> QED
        BY <4>1, <3>1, <2>2, <2>5 DEF Right
    <3>3. CASE e # 1
      <4>1. h[i] = g[i] /\ i < e
        BY <3>1, <3>3, <2>2, <1>8, <2>5
      <4> QED
        BY <4>1, <3>1, <2>2, <2>5 DEF Right
    <3> QED
      BY <3>2, <3>3
  <2>3. CASE i # 1
    <3>1. i - 1 \in 1 .. n /\ i \in 1 .. n /\ Right(i - 1)
      BY <2>5, <2>3, <1>1
    <3>2. g[i] = g[i-1] \o s[i] /\ h[i] = h[i-1] \o t[i]
      BY <2>3, <3>1, <1>4, <1>5
    <3>7. h[i-1] = IF i - 1 < e THEN g[i-1] ELSE Append(g[i-1], x)
      BY <3>1 DEF Right
    <3>8. g[i-1] \in Seq(S) /\ s[i] \in Seq(S) /\ i \in Int /\ e \in Int
      BY <3>1, <1>1, <1>8 DEF Right
    <3>10. PICK p, q : p = g[i-1] /\ q = s[i]
      OBVIOUS
    <3>11. p \in Seq(S) /\ q \in Seq(S)
      BY <3>8, <3>10
    <3>13. x \in S
      OBVIOUS
    <3>12. p \o Append(q, x) = Append(p \o q, x)
      BY ONLY <3>11, <3>13, ConcatAppend
    <3>9. g[i-1] \o Append(s[i], x) = Append(g[i-1] \o s[i], x)
      BY <3>10, <3>12
    <3>3. g[i] \in Seq(S)
      BY <3>8, <3>2, ConcatProperties
    <3>4. CASE i < e
      <4>1. h[i-1] = g[i-1] /\ t[i] = s[i]
        BY <3>1, <3>4, <3>7, <3>8, <1>8
      <4>2. h[i] = g[i]
        BY <4>1, <3>2
      <4> QED
        BY <4>2, <3>3, <3>4 DEF Right
    <3>5. CASE i = e
      <4>1. h[i] = g[i-1] \o Append(s[i], x)
        <5>1. h[i-1] = g[i-1] /\ t[i] = Append(s[i], x)
          BY <3>5, <3>7, <3>8
        <5> QED
          BY <5>1, <3>2
      <4>3. h[i] = Append(g[i], x) /\ ~(i < e)
        BY <4>1, <3>9, <3>2, <3>5, <3>8
      <4> QED
        BY <4>3, <3>3 DEF Right
    <3>6. CASE i > e
      <4>1. s[i] = <<>> /\ t[i] = <<>>
        BY <3>1, <3>6, <1>8
      <4>2. g[i] = g[i-1]
        BY <4>1, <3>8, <3>2, ConcatEmptySeq
      <4>3. h[i-1] = Append(g[i-1], x) /\ Append(g[i-1], x) \in Seq(S)
        BY <3>6, <3>7, <3>8, AppendProperties
      <4>4. h[i] = h[i-1]
        BY <4>1, <4>3, <3>2, ConcatEmptySeq
      <4> QED
        BY <4>2, <4>3, <4>4, <3>3, <3>6, <3>8 DEF Right
    <3> QED
      BY <3>4, <3>5, <3>6, <3>8
  <2> QED
    BY <2>2, <2>3
<1>7. Right(n)
  <2> HIDE DEF Right
  <2>1. n \in 1 .. n
    BY <1>1
  <2> QED
    BY <1>6, <2>1
<1> QED
  BY <1>2, <1>3, <1>7 DEF n

(* Sequences over S, flattened, are one over S.                             *)
LEMMA FlattenType ==
  ASSUME NEW S, NEW s \in Seq(Seq(S))
  PROVE  FlattenSeq(s) \in Seq(S)
<1>1. CASE Len(s) = 0
  <2>1. FlattenSeq(s) = s /\ s = <<>>
    BY <1>1, EmptySeq DEF FlattenSeq
  <2> QED
    BY <2>1
<1>2. CASE Len(s) # 0
  <2> DEFINE n == Len(s)
  <2>1. n \in Nat /\ n # 0 /\ \A i \in 1 .. n : s[i] \in Seq(S)
    BY <1>2, ElementOfSeq
  <2>2. PICK g : Flattened(s, n, g) /\ FlattenSeq(s) = g[n]
    BY <2>1, FlattenSeqIs
  <2>3. \A i \in 1 .. n : g[i] = IF i = 1 THEN s[i] ELSE g[i-1] \o s[i]
    BY <2>2 DEF Flattened
  <2> HIDE DEF n
  <2> DEFINE T == {i \in 1 .. n : g[i] \notin Seq(S)}
  <2>4. T = {}
    <3> SUFFICES ASSUME T # {} PROVE FALSE
      OBVIOUS
    <3>0. T \subseteq Nat
      BY <2>1
    <3>1. PICK i \in T : \A y \in T : ~(y < i)
      BY <3>0, LeastNat
    <3>2. i = 1 \/ (i - 1 \in 1 .. n /\ i - 1 \notin T)
      BY <3>1, <2>1
    <3>3. CASE i = 1
      BY <3>1, <3>3, <2>1, <2>3
    <3>4. CASE i # 1
      <4>1. g[i-1] \in Seq(S) /\ g[i] = g[i-1] \o s[i]
        BY <3>1, <3>2, <3>4, <2>3
      <4>2. PICK p : p = g[i-1]
        OBVIOUS
      <4>3. PICK q \in Seq(S) : q = s[i]
        BY <3>1, <2>1
      <4>4. p \o q \in Seq(S)
        BY <4>1, <4>2, ConcatProperties
      <4> QED
        BY ONLY <4>1, <4>2, <4>3, <4>4, <3>1
    <3> QED
      BY <3>3, <3>4
  <2> QED
    BY <2>1, <2>2, <2>4
<1> QED
  BY <1>1, <1>2

(* Empty sequences, flattened, are empty.                                   *)
LEMMA FlattenEmpty ==
  ASSUME NEW s \in Seq({<<>>})
  PROVE  FlattenSeq(s) = <<>>
<1>1. \A i \in 1 .. Len(s) : s[i] = <<>>
  OBVIOUS
<1>2. s \in Seq(Seq({}))
  <2>1. <<>> \in Seq({})
    OBVIOUS
  <2> QED
    BY <2>1, SeqMonotonic
<1>3. FlattenSeq(s) \in Seq({})
  BY <1>2, FlattenType
<1> QED
  BY <1>3

-----------------------------------------------------------------------------
Fragment == (1 .. Len(files)) \X (Nat \ {0})

ReaderTypeOK ==
  /\ files \in Seq(Seq(Nat))
  /\ alone \in BOOLEAN
  /\ entry \in 1 .. Len(files) + 1
  /\ at \in Int /\ at >= -1
  /\ at >= 0 => entry <= Len(files) /\ at <= Len(files[entry])
  /\ skipped \subseteq 1 .. entry - 1
  /\ batch \in [Batch -> [frags : Seq(Fragment), len : Nat, last : BOOLEAN]]
  /\ freeEv \in [Batch -> BOOLEAN] /\ fullEv \in [Batch -> BOOLEAN]
  /\ rpc \in {"none", "wait", "fill", "signal", "check", "ended"}
  /\ rk \in Batch /\ mk \in Batch
  /\ readError \in BOOLEAN /\ terminated \in BOOLEAN
  /\ stored \in Seq(Fragment)
  /\ mpc \in {"fill", "wait", "store", "return", "until", "join", "ok", "failed"}

(* What the threads share is one's or the other's.                          *)
OwnerInv ==
  /\ BatchHasOneOwner
  /\ \A i \in Batch : fullEv[i] /\ freeEv[i] => terminated
  /\ terminated => mpc = "failed" /\ ~alone
  /\ alone => /\ rpc = "none" /\ mk = 0 /\ ~readError
              /\ mpc \in {"fill", "store", "until", "ok", "failed"}
              /\ \A i \in Batch : ~fullEv[i] /\ ~freeEv[i]
  /\ ~alone => rpc # "none" /\ mpc # "fill"

AllRead == entry > Len(files) /\ at = -1

(* The last batch: nothing is left to read, or there was an exception, that *)
(* is still to be looked at.                                                *)
LastInv ==
  /\ \A i \in Batch : batch[i].last => AllRead \/ readError
  /\ readError => rpc \in {"signal", "check", "ended"}
  /\ readError /\ rpc # "signal" /\ mpc # "failed" => \E i \in Batch : fullEv[i]
  /\ readError /\ rpc \in {"signal", "check"} => batch[rk].last
  /\ rpc = "ended" /\ mpc # "failed" => AllRead \/ readError
  /\ mpc = "ok" => rpc \in {"none", "ended"} /\ (alone => AllRead)

(* The three batches, in turn.                                              *)
LEMMA Three ==
  /\ Batch = {0, 1, 2}
  /\ NextBatch(0) = 1 /\ NextBatch(1) = 2 /\ NextBatch(2) = 0
  /\ \A i \in Batch : NextBatch(i) \in Batch
<1>1. Batch = {0, 1, 2}
  BY DEF Batch, NumBatches
<1>2. NextBatch(0) = 1 /\ NextBatch(1) = 2 /\ NextBatch(2) = 0
  BY DEF NextBatch, NumBatches
<1> QED
  BY <1>1, <1>2

(* FillBatch begins with an empty batch, the others as they were.           *)
LEMMA FillBeginsType ==
  ASSUME ReaderTypeOK, NEW i \in Batch, FillBegins(i), UNCHANGED files
  PROVE  /\ batch' \in [Batch -> [frags : Seq(Fragment), len : Nat, last : BOOLEAN]]
         /\ batch' = [j \in Batch |-> IF j = i THEN Empty ELSE batch[j]]
<1>1. Empty \in [frags : Seq(Fragment), len : Nat, last : BOOLEAN]
  BY DEF Empty
<1> QED
  BY <1>1 DEF FillBegins, ReaderTypeOK, Fragment

Reads == 
  /\ entry' \in 1 .. Len(files) + 1
  /\ at' \in Int /\ at' >= -1
  /\ at' >= 0 => entry' <= Len(files) /\ at' <= Len(files[entry'])
  /\ skipped' \subseteq 1 .. entry' - 1
  /\ batch' \in [Batch -> [frags : Seq(Fragment), len : Nat, last : BOOLEAN]]

(* A turn of the loop of FillBatch keeps the types of what it reads.        *)
LEMMA FillType ==
  ASSUME ReaderTypeOK, NEW i \in Batch, FillGoesOn(i) \/ FillEnds(i)
  PROVE  Reads
<1> USE DEF ReaderTypeOK, readVars
<1>1. CASE OpenFile
  BY <1>1 DEF OpenFile, Reads
<1>2. CASE SkipFile
  BY <1>2 DEF SkipFile, Reads
<1>3. CASE at >= 0 /\ CloseFile
  <2>1. at >= 0 /\ entry <= Len(files) /\ entry \in Nat /\ Len(files) \in Nat
    BY <1>3
  <2>2. entry' = entry + 1 /\ at' = -1 /\ skipped' = skipped /\ batch' = batch
    BY <1>3 DEF CloseFile
  <2>3. entry' \in 1 .. Len(files) + 1 /\ skipped' \subseteq 1 .. entry' - 1
    BY <2>1, <2>2
  <2> QED
    BY <2>2, <2>3 DEF Reads
<1>4. CASE at >= 0 /\ AddFragment(i)
  <2>7. PICK f : f = files[entry]
    OBVIOUS
  <2>8. entry \in 1 .. Len(files) /\ f \in Seq(Nat)
    BY <1>4, <2>7, ElementOfSeq
  <2>9. PICK n \in Nat : n = Len(f)
    BY <2>8, LenProperties
  <2>10. at \in 0 .. n - 1 /\ entry' = entry /\ at' = at + 1 /\ skipped' = skipped
    BY <1>4, <2>7, <2>9 DEF AddFragment
  <2>1. <<entry, at + 1>> \in Fragment /\ Cut \in Nat
    <3>1. at + 1 \in 1 .. Len(f)
      BY <2>9, <2>10
    <3>2. f[at + 1] \in Nat
      BY <3>1, <2>8, ElementOfSeq
    <3>3. at + 1 \in Nat \ {0}
      BY <2>10
    <3> QED
      BY <3>2, <3>3, <2>7, <2>8 DEF Fragment, Cut
  <2>2. batch[i].frags \in Seq(Fragment) /\ batch[i].len \in Nat
    OBVIOUS
  <2>3. Append(batch[i].frags, <<entry, at + 1>>) \in Seq(Fragment) /\ batch[i].len + Cut \in Nat
    BY <2>1, <2>2, AppendProperties
  <2>4. batch' \in [Batch -> [frags : Seq(Fragment), len : Nat, last : BOOLEAN]]
    BY <1>4, <2>3 DEF AddFragment
  <2>5. at + 1 <= Len(files[entry])
    BY <2>7, <2>9, <2>10
  <2>6. entry <= Len(files) /\ at + 1 \in Int /\ at + 1 >= -1
    BY <2>8, <2>10
  <2> QED
    BY <2>4, <2>5, <2>6, <2>10 DEF Reads
<1>5. CASE FillEnds(i)
  BY <1>5 DEF FillEnds, Reads
<1> QED
  BY <1>1, <1>2, <1>3, <1>4, <1>5 DEF FillGoesOn

(* The fragments and the counts of what is not read stay.                   *)
LEMMA TypeStep ==
  ASSUME ReaderTypeOK, OwnerInv, [Next]_vars
  PROVE  ReaderTypeOK'
<1> USE DEF ReaderTypeOK, readVars, eventVars
<1>0. CASE UNCHANGED vars
  BY <1>0 DEF vars, Fragment
<1>1. CASE ReaderStep
  <2>0. files' = files /\ alone' = alone /\ terminated' = terminated /\ stored' = stored
        /\ mpc' = mpc /\ mk' = mk /\ Fragment' = Fragment
    BY <1>1 DEF ReaderStep, Fragment
  <2>1. CASE ReaderTake
    <3>1. batch' \in [Batch -> [frags : Seq(Fragment), len : Nat, last : BOOLEAN]]
      BY <2>0, <2>1, FillBeginsType DEF ReaderTake
    <3>2. entry' = entry /\ at' = at /\ skipped' = skipped /\ fullEv' = fullEv /\ rk' = rk
          /\ readError' = readError /\ rpc' \in {"ended", "fill"} /\ freeEv' \in [Batch -> BOOLEAN]
      BY <2>1 DEF ReaderTake
    <3> QED
      BY <2>0, <3>1, <3>2
  <2>2. CASE ReaderFill
    <3>1. Reads
      BY <2>2, FillType DEF ReaderFill
    <3>2. freeEv' = freeEv /\ fullEv' = fullEv /\ rk' = rk /\ readError' = readError
          /\ rpc' \in {"fill", "signal"}
      BY <2>2 DEF ReaderFill
    <3> QED
      BY <2>0, <3>1, <3>2 DEF Reads
  <2>3. CASE ReaderFails
    <3>1. batch' \in [Batch -> [frags : Seq(Fragment), len : Nat, last : BOOLEAN]]
      BY <2>3, EmptySeq DEF ReaderFails
    <3> QED
      BY <2>0, <2>3, <3>1 DEF ReaderFails
  <2>4. CASE ReaderSignal
    BY <2>0, <2>4 DEF ReaderSignal
  <2>5. CASE ReaderCheck
    BY <2>0, <2>5, Three DEF ReaderCheck
  <2> QED
    BY <1>1, <2>1, <2>2, <2>3, <2>4, <2>5 DEF ReaderStep
<1>2. CASE MainStep
  <2>0. files' = files /\ alone' = alone /\ rpc' = rpc /\ rk' = rk /\ readError' = readError
        /\ Fragment' = Fragment
    BY <1>2 DEF MainStep, Fragment
  <2>1. CASE MainFill
    <3>1. Reads
      <4>1. 0 \in Batch
        BY Three
      <4>2. CASE UNCHANGED readVars
        BY <4>2 DEF Reads
      <4> QED
        BY <2>1, <4>1, <4>2, FillType DEF MainFill
    <3>2. /\ fullEv' = fullEv /\ stored' = stored /\ mk' = mk
          /\ mpc' \in {"fill", "store", "failed"}
          /\ freeEv' \in [Batch -> BOOLEAN] /\ terminated' \in BOOLEAN
      BY <2>1 DEF MainFill, Fail
    <3> QED
      BY <2>0, <3>1, <3>2 DEF Reads
  <2>2. CASE MainTake
    BY <2>0, <2>2 DEF MainTake, Fail
  <2>3. CASE MainStore
    <3>1. stored' \in Seq(Fragment)
      <4>1. PICK b : b = batch[mk].frags
        OBVIOUS
      <4>2. b \in Seq(Fragment)
        BY <4>1
      <4>3. stored \o b \in Seq(Fragment)
        BY <4>2, ConcatProperties
      <4>4. stored' = stored \o b \/ stored' = stored
        BY <2>3, <4>1 DEF MainStore
      <4> QED
        BY <4>3, <4>4
    <3> QED
      BY <2>0, <2>3, <3>1 DEF MainStore, Fail
  <2>4. CASE MainReturn
    BY <2>0, <2>4 DEF MainReturn
  <2>5. CASE MainUntil
    <3>1. batch' \in [Batch -> [frags : Seq(Fragment), len : Nat, last : BOOLEAN]]
      BY <2>0, <2>5, FillBeginsType DEF MainUntil
    <3>2. /\ entry' = entry /\ at' = at /\ skipped' = skipped /\ fullEv' = fullEv
          /\ freeEv' = freeEv /\ stored' = stored /\ terminated' = terminated
          /\ mpc' \in {"ok", "fill", "join", "wait"}
          /\ mk' \in Batch
      BY <2>5, Three DEF MainUntil
    <3> QED
      BY <2>0, <3>1, <3>2
  <2>6. CASE MainJoin
    BY <2>0, <2>6 DEF MainJoin
  <2> QED
    BY <1>2, <2>1, <2>2, <2>3, <2>4, <2>5, <2>6 DEF MainStep
<1> QED
  BY <1>0, <1>1, <1>2 DEF Next

(* What a step leaves alone.                                                *)
LEMMA ReaderFrame ==
  ASSUME ReaderStep
  PROVE  /\ files' = files /\ alone' = alone /\ terminated' = terminated /\ stored' = stored
         /\ mpc' = mpc /\ mk' = mk
         /\ (ReaderTake \/ ReaderFill \/ ReaderFails \/ ReaderSignal \/ ReaderCheck)
BY DEF ReaderStep

(* What a step of the main thread leaves alone.                             *)
LEMMA MainFrame ==
  ASSUME MainStep
  PROVE  /\ files' = files /\ alone' = alone /\ rpc' = rpc /\ rk' = rk /\ readError' = readError
         /\ (MainFill \/ MainTake \/ MainStore \/ MainReturn \/ MainUntil \/ MainJoin)
BY DEF MainStep

(* A batch keeps one owner.                                                 *)
LEMMA OwnerStep ==
  ASSUME ReaderTypeOK, OwnerInv, [Next]_vars
  PROVE  OwnerInv'
<1>0. CASE UNCHANGED vars
  BY <1>0 DEF vars, eventVars, OwnerInv, BatchHasOneOwner
<1> USE DEF OwnerInv, BatchHasOneOwner, eventVars, readVars
<1>3. /\ freeEv \in [Batch -> BOOLEAN] /\ fullEv \in [Batch -> BOOLEAN]
      /\ rk \in Batch /\ mk \in Batch /\ alone \in BOOLEAN
  BY DEF ReaderTypeOK
<1>1. CASE ReaderStep
  <2>1. CASE ReaderTake
    BY <1>1, <1>3, <2>1, ReaderFrame DEF ReaderTake
  <2>2. CASE ReaderFill
    BY <1>1, <1>3, <2>2, ReaderFrame DEF ReaderFill
  <2>3. CASE ReaderFails
    BY <1>1, <1>3, <2>3, ReaderFrame DEF ReaderFails
  <2>4. CASE ReaderSignal
    BY <1>1, <1>3, <2>4, ReaderFrame DEF ReaderSignal
  <2>5. CASE ReaderCheck
    BY <1>1, <1>3, <2>5, ReaderFrame DEF ReaderCheck
  <2> QED
    BY <1>1, <2>1, <2>2, <2>3, <2>4, <2>5, ReaderFrame
<1>2. CASE MainStep
  <2>1. CASE MainFill
    <3>1. /\ mpc = "fill" /\ fullEv' = fullEv /\ mk' = mk
          /\ (mpc' \in {"fill", "store"} /\ terminated' = terminated /\ freeEv' = freeEv) \/ Fail
      BY <2>1 DEF MainFill
    <3> QED
      BY <1>2, <1>3, <3>1, MainFrame DEF Fail
  <2>2. CASE MainTake
    BY <1>2, <1>3, <2>2, MainFrame DEF MainTake, Fail
  <2>3. CASE MainStore
    BY <1>2, <1>3, <2>3, MainFrame DEF MainStore, Fail
  <2>4. CASE MainReturn
    BY <1>2, <1>3, <2>4, MainFrame DEF MainReturn
  <2>5. CASE MainUntil
    BY <1>2, <1>3, <2>5, MainFrame DEF MainUntil
  <2>6. CASE MainJoin
    BY <1>2, <1>3, <2>6, MainFrame DEF MainJoin
  <2> QED
    BY <1>2, <2>1, <2>2, <2>3, <2>4, <2>5, <2>6, MainFrame
<1> QED
  BY <1>0, <1>1, <1>2 DEF Next

(* Once nothing is left to read, nothing is read.                           *)
LEMMA FillEnded ==
  ASSUME ReaderTypeOK, NEW i \in Batch, FillGoesOn(i) \/ FillEnds(i), files' = files
  PROVE  /\ AllRead => AllRead' 
         /\ \A j \in Batch : batch'[j].last => batch[j].last \/ AllRead
<1>1. batch \in [Batch -> [frags : Seq(Fragment), len : Nat, last : BOOLEAN]]
  BY DEF ReaderTypeOK
<1>2. OpenFile \/ SkipFile \/ CloseFile => batch' = batch
  BY DEF OpenFile, SkipFile, CloseFile
<1>6. AddFragment(i) => \A j \in Batch : batch'[j].last = batch[j].last
  BY <1>1 DEF AddFragment
<1>3. FillGoesOn(i) => ~AllRead
  BY DEF FillGoesOn, AllRead, OpenFile, SkipFile, ReaderTypeOK
<1>4. CASE FillGoesOn(i)
  BY <1>2, <1>3, <1>4, <1>6 DEF FillGoesOn
<1>5. CASE FillEnds(i)
  <2>1. CASE UNCHANGED readVars
    BY <2>1 DEF AllRead, readVars
  <2>2. CASE at = -1 /\ entry > Len(files) /\ batch' = [batch EXCEPT ![i].last = TRUE]
             /\ UNCHANGED <<entry, at, size, skipped>>
    <3>1. AllRead /\ AllRead'
      BY <2>2 DEF AllRead
    <3> QED
      BY <3>1
  <2> QED
    BY <1>5, <2>1, <2>2 DEF FillEnds
<1> QED
  BY <1>4, <1>5

(* The last batch is the end of the files, or an exception to look at.      *)
LEMMA LastStep ==
  ASSUME ReaderTypeOK, OwnerInv, LastInv, [Next]_vars
  PROVE  LastInv'
<1>0. CASE UNCHANGED vars
  BY <1>0 DEF vars, readVars, eventVars, LastInv, AllRead
<1>3. /\ freeEv \in [Batch -> BOOLEAN] /\ fullEv \in [Batch -> BOOLEAN]
      /\ rk \in Batch /\ mk \in Batch /\ alone \in BOOLEAN /\ readError \in BOOLEAN
      /\ batch \in [Batch -> [frags : Seq(Fragment), len : Nat, last : BOOLEAN]]
  BY DEF ReaderTypeOK
<1> USE DEF LastInv
<1>1. CASE ReaderStep
  <2>0. files' = files /\ alone' = alone /\ terminated' = terminated /\ mpc' = mpc /\ mk' = mk
    BY <1>1, ReaderFrame
  <2>6. ~alone
    <3>1. rpc # "none"
      BY <1>1 DEF ReaderStep, ReaderTake, ReaderFill, ReaderFails, ReaderSignal, ReaderCheck
    <3> QED
      BY <3>1 DEF OwnerInv
  <2>1. CASE ReaderTake
    <3>1. entry' = entry /\ at' = at /\ AllRead' = AllRead /\ readError' = readError /\ fullEv' = fullEv
          /\ rk' = rk /\ rpc = "wait" /\ ~readError
      BY <2>0, <2>1 DEF ReaderTake, AllRead
    <3>2. CASE terminated /\ rpc' = "ended" /\ UNCHANGED batch
      BY <2>0, <2>6, <3>1, <3>2 DEF OwnerInv
    <3>3. CASE rpc' = "fill" /\ FillBegins(rk)
      <4>1. \A i \in Batch : batch'[i].last => batch[i].last
        BY <1>3, <2>0, <3>3, FillBeginsType DEF Empty
      <4> QED
        BY <2>0, <2>6, <3>1, <3>3, <4>1
    <3> QED
      BY <2>1, <3>2, <3>3 DEF ReaderTake
  <2>2. CASE ReaderFill
    <3>1. readError' = readError /\ fullEv' = fullEv /\ rk' = rk /\ rpc = "fill" /\ ~readError
          /\ (FillGoesOn(rk) \/ FillEnds(rk)) /\ rpc' \in {"fill", "signal"}
      BY <2>2 DEF ReaderFill, eventVars
    <3>2. (AllRead => AllRead') /\ \A i \in Batch : batch'[i].last => batch[i].last \/ AllRead
      BY <1>3, <2>0, <3>1, FillEnded
    <3> QED
      BY <2>0, <2>6, <3>1, <3>2
  <2>3. CASE ReaderFails
    <3>1. readError' /\ rpc' = "signal" /\ rk' = rk
          /\ batch' = [batch EXCEPT ![rk].frags = <<>>, ![rk].last = TRUE]
      BY <2>3 DEF ReaderFails
    <3>2. batch'[rk].last
      BY <1>3, <3>1
    <3> QED
      BY <2>0, <2>6, <2>3, <3>1, <3>2 DEF ReaderFails
  <2>4. CASE ReaderSignal
    <3>1. fullEv' = [fullEv EXCEPT ![rk] = TRUE] /\ rpc' = "check" /\ batch' = batch
          /\ rk' = rk /\ readError' = readError /\ AllRead' = AllRead /\ rpc = "signal"
      BY <2>0, <2>4 DEF ReaderSignal, readVars, AllRead
    <3>2. fullEv'[rk]
      BY <1>3, <3>1
    <3> QED
      BY <1>3, <2>0, <2>6, <3>1, <3>2
  <2>5. CASE ReaderCheck
    <3>1. fullEv' = fullEv /\ rpc' = (IF batch[rk].last THEN "ended" ELSE "wait") /\ batch' = batch
          /\ readError' = readError /\ AllRead' = AllRead /\ rpc = "check"
      BY <2>0, <2>5 DEF ReaderCheck, readVars, eventVars, AllRead
    <3>2. CASE batch[rk].last
      BY <1>3, <2>0, <2>6, <3>1, <3>2
    <3>3. CASE ~batch[rk].last
      BY <1>3, <2>0, <2>6, <3>1, <3>3
    <3> QED
      BY <3>2, <3>3
  <2> QED
    BY <1>1, <2>1, <2>2, <2>3, <2>4, <2>5, ReaderFrame
<1>2. CASE MainStep
  <2>0. files' = files /\ alone' = alone /\ rpc' = rpc /\ rk' = rk /\ readError' = readError
    BY <1>2, MainFrame
  <2>1. CASE MainFill
    <3>1. /\ mpc = "fill" /\ alone /\ ~readError
          /\ mpc' \in {"fill", "store", "failed"}
      BY <2>1, <1>3 DEF MainFill, Fail, OwnerInv
    <3>2. (AllRead => AllRead') /\ \A i \in Batch : batch'[i].last => batch[i].last \/ AllRead
      <4>1. CASE UNCHANGED readVars
        BY <2>0, <4>1 DEF readVars, AllRead
      <4>2. CASE FillGoesOn(0) \/ FillEnds(0)
        BY <2>0, <4>2, Three, FillEnded
      <4> QED
        BY <2>1, <4>1, <4>2 DEF MainFill
    <3>3. rpc = "none"
      BY <3>1 DEF OwnerInv
    <3> QED
      BY <2>0, <3>1, <3>2, <3>3
  <2>2. CASE MainTake
    <3>1. batch' = batch /\ AllRead' = AllRead /\ mpc' \in {"store", "failed"}
          /\ (readError => mpc' = "failed") /\ mpc = "wait"
      BY <2>0, <2>2 DEF MainTake, Fail, readVars, AllRead
    <3> QED
      BY <1>3, <2>0, <3>1
  <2>3. CASE MainStore
    <3>1. batch' = batch /\ AllRead' = AllRead /\ mpc' \in {"until", "return", "failed"} /\ fullEv' = fullEv
          /\ mpc = "store"
      BY <2>0, <2>3 DEF MainStore, Fail, readVars, AllRead
    <3> QED
      BY <1>3, <2>0, <3>1
  <2>4. CASE MainReturn
    <3>1. batch' = batch /\ AllRead' = AllRead /\ mpc' = "until" /\ fullEv' = fullEv
          /\ mpc = "return"
      BY <2>0, <2>4 DEF MainReturn, readVars, AllRead
    <3> QED
      BY <1>3, <2>0, <3>1
  <2>5. CASE MainUntil
    <3>1. AllRead' = AllRead /\ fullEv' = fullEv /\ mpc = "until"
      BY <2>0, <2>5 DEF MainUntil, eventVars, AllRead
    <3>2. CASE alone
      <4>1. mpc' = (IF batch[mk].last THEN "ok" ELSE "fill") /\ rpc = "none" /\ ~readError
        BY <2>5, <3>2 DEF MainUntil, OwnerInv
      <4>2. \A i \in Batch : batch'[i].last => batch[i].last
        <5>1. CASE UNCHANGED batch
          BY <5>1
        <5>2. CASE FillBegins(mk)
          BY <1>3, <2>0, <5>2, FillBeginsType DEF Empty
        <5> QED
          BY <2>5, <3>2, <5>1, <5>2 DEF MainUntil
      <4> QED
        BY <1>3, <2>0, <3>1, <3>2, <4>1, <4>2
    <3>3. CASE ~alone
      <4>1. mpc' \in {"join", "wait"} /\ batch' = batch
        BY <2>5, <3>3 DEF MainUntil
      <4> QED
        BY <1>3, <2>0, <3>1, <3>3, <4>1
    <3> QED
      BY <3>2, <3>3
  <2>6. CASE MainJoin
    <3>1. batch' = batch /\ AllRead' = AllRead /\ mpc' = "ok" /\ fullEv' = fullEv /\ mpc = "join"
          /\ rpc = "ended"
      BY <2>0, <2>6 DEF MainJoin, readVars, eventVars, AllRead
    <3>2. ~alone
      BY <3>1 DEF OwnerInv
    <3> QED
      BY <1>3, <2>0, <3>1, <3>2
  <2> QED
    BY <1>2, <2>1, <2>2, <2>3, <2>4, <2>5, <2>6, MainFrame
<1> QED
  BY <1>0, <1>1, <1>2 DEF Next

-----------------------------------------------------------------------------
(* The batches in the order in which the main thread will come to them, and *)
(* what of them was cut and is not stored.                                  *)
First == IF mpc = "until" /\ ~alone THEN NextBatch(mk) ELSE mk
Second == NextBatch(First)
Third == NextBatch(Second)
Place(i) == IF i = First THEN 0 ELSE IF i = Second THEN 1 ELSE 2

Held(i) ==
  \/ fullEv[i]
  \/ rpc \in {"fill", "signal"} /\ rk = i
  \/ mpc \in {"fill", "store"} /\ mk = i
Occupied(i) == Held(i) \/ (mpc = "return" /\ mk = i)

FragsOf(i) == IF Held(i) THEN batch[i].frags ELSE <<>>
Pending == FragsOf(First) \o FragsOf(Second) \o FragsOf(Third)

(* The reader goes round after the main thread: those before its batch are  *)
(* not free, those after it are not in use, unless they all are.            *)
Reading == IF rpc = "check" THEN NextBatch(rk) ELSE rk
Shape ==
  mpc # "failed" =>
    /\ rpc \in {"fill", "signal"} =>
         \A i \in Batch : /\ Place(i) < Place(rk) => ~freeEv[i]
                          /\ Place(i) > Place(rk) => ~Occupied(i)
    /\ rpc \in {"wait", "check"} =>
         \/ \A i \in Batch : /\ Place(i) < Place(Reading) => ~freeEv[i]
                             /\ Place(i) >= Place(Reading) => ~Occupied(i)
         \/ Reading = First /\ \A i \in Batch : ~freeEv[i]

(* The batches in order are all three, and each is once.                    *)
LEMMA Places ==
  ASSUME mk \in Batch
  PROVE  /\ First \in Batch /\ Second \in Batch /\ Third \in Batch
         /\ First # Second /\ Second # Third /\ First # Third
         /\ NextBatch(First) = Second /\ NextBatch(Second) = Third /\ NextBatch(Third) = First
         /\ Place(First) = 0 /\ Place(Second) = 1 /\ Place(Third) = 2
         /\ \A i \in Batch : i = First \/ i = Second \/ i = Third
<1>1. First \in {0, 1, 2}
  BY Three DEF First
<1>2. CASE First = 0
  BY <1>2, Three DEF Second, Third, Place
<1>3. CASE First = 1
  BY <1>3, Three DEF Second, Third, Place
<1>4. CASE First = 2
  BY <1>4, Three DEF Second, Third, Place
<1> QED
  BY <1>1, <1>2, <1>3, <1>4

(* The order stays while the main thread does not give a batch back.        *)
LEMMA PlacesStay ==
  ASSUME First' = First
  PROVE  Second' = Second /\ Third' = Third /\ \A i \in Batch : Place(i)' = Place(i)
BY DEF Second, Third, Place

(* The reader goes on round behind the main thread.                         *)
LEMMA ShapeStep ==
  ASSUME ReaderTypeOK, OwnerInv, Shape, [Next]_vars
  PROVE  Shape'
<1>0. CASE UNCHANGED vars
  BY <1>0 DEF vars, eventVars, Shape, Reading, Place, Second, First, Occupied, Held
<1>3. /\ freeEv \in [Batch -> BOOLEAN] /\ fullEv \in [Batch -> BOOLEAN]
      /\ rk \in Batch /\ mk \in Batch /\ alone \in BOOLEAN
  BY DEF ReaderTypeOK
<1>4. CASE mpc' = "failed"
  BY <1>4 DEF Shape
<1>5. CASE mpc' # "failed" /\ ReaderStep
  <2>0. files' = files /\ alone' = alone /\ terminated' = terminated /\ mpc' = mpc /\ mk' = mk
    BY <1>5, ReaderFrame
  <2>7. First' = First
    BY <2>0 DEF First
  <2>8. Second' = Second /\ Third' = Third /\ \A i \in Batch : Place(i)' = Place(i)
    BY <2>7, PlacesStay
  <2>6. ~terminated /\ mpc # "failed"
    BY <1>5, <2>0 DEF OwnerInv
  <2>1. CASE ReaderTake
    <3>1. rpc = "wait" /\ freeEv[rk] /\ freeEv' = [freeEv EXCEPT ![rk] = FALSE]
          /\ rpc' = "fill" /\ fullEv' = fullEv /\ rk' = rk
      BY <2>1, <2>6 DEF ReaderTake
    <3>2. \A i \in Batch : /\ Place(i) < Place(rk) => ~freeEv[i]
                           /\ Place(i) >= Place(rk) => ~Occupied(i)
      BY <3>1, <2>6, <1>3 DEF Shape, Reading
    <3>3. \A i \in Batch : i # rk => Occupied(i)' = Occupied(i)
      BY <3>1, <2>0 DEF Occupied, Held
    <3>4. \A i \in Batch : Place(i) \in {0, 1, 2}
      BY DEF Place
    <3>5. \A i \in Batch : /\ Place(i) < Place(rk) => ~freeEv'[i]
                           /\ Place(i) > Place(rk) => ~Occupied(i)'
      BY <1>3, <3>1, <3>2, <3>3, <3>4
    <3> QED
      BY <1>3, <2>8, <3>1, <3>5 DEF Shape
  <2>2. CASE ReaderFill \/ ReaderFails
    <3>1. rpc = "fill" /\ rpc' \in {"fill", "signal"} /\ fullEv' = fullEv /\ rk' = rk /\ freeEv' = freeEv
      BY <2>2 DEF ReaderFill, ReaderFails, eventVars
    <3>2. \A i \in Batch : Occupied(i)' = Occupied(i)
      BY <3>1, <2>0 DEF Occupied, Held
    <3> QED
      BY <1>3, <2>6, <2>8, <3>1, <3>2 DEF Shape
  <2>4. CASE ReaderSignal
    <3>1. rpc = "signal" /\ fullEv' = [fullEv EXCEPT ![rk] = TRUE] /\ rpc' = "check"
          /\ rk' = rk /\ freeEv' = freeEv
      BY <2>4 DEF ReaderSignal
    <3>2. \A i \in Batch : /\ Place(i) < Place(rk) => ~freeEv[i]
                           /\ Place(i) > Place(rk) => ~Occupied(i)
      BY <3>1, <2>6 DEF Shape
    <3>3. \A i \in Batch : i # rk => Occupied(i)' = Occupied(i)
      BY <1>3, <3>1, <2>0 DEF Occupied, Held
    <3>4. ~freeEv[rk]
      BY <3>1, <2>6 DEF OwnerInv, BatchHasOneOwner
    <3>5. Reading' = NextBatch(rk)
      BY <3>1 DEF Reading
    <3>6. rk = First \/ rk = Second \/ rk = Third
      BY <1>3, Places
    <3>7. CASE rk = Third
      <4>1. \A i \in Batch : ~freeEv'[i]
        BY <1>3, <3>1, <3>2, <3>4, <3>7, Places
      <4> QED
        BY <3>1, <3>5, <3>7, <4>1, <1>3, <2>7, Places DEF Shape
    <3>8. CASE rk # Third
      <4>1. Place(NextBatch(rk)) = Place(rk) + 1 /\ NextBatch(rk) \in Batch
        BY <1>3, <3>6, <3>8, Places
      <4>2. \A i \in Batch : Place(i) \in Int /\ (Place(i) = Place(rk) => i = rk)
        BY <1>3, Places, <3>6
      <4>3. \A i \in Batch : /\ Place(i) < Place(rk) + 1 => ~freeEv[i]
                             /\ Place(i) >= Place(rk) + 1 => ~Occupied(i)'
        BY <1>3, <3>2, <3>3, <3>4, <4>2
      <4>4. Place(Reading)' = Place(rk) + 1
        BY <2>8, <3>5, <4>1
      <4> QED
        BY <2>8, <3>1, <4>3, <4>4 DEF Shape
    <3> QED
      BY <3>7, <3>8
  <2>5. CASE ReaderCheck
    <3>1. rpc = "check" /\ fullEv' = fullEv /\ rpc' \in {"wait", "ended"}
          /\ rk' = NextBatch(rk) /\ freeEv' = freeEv
      BY <2>5 DEF ReaderCheck, eventVars
    <3>2. \A i \in Batch : Occupied(i)' = Occupied(i)
      BY <3>1, <2>0 DEF Occupied, Held
    <3>3. Reading' = Reading /\ Reading \in Batch
      BY <1>3, <3>1, Three DEF Reading
    <3>4. Place(Reading)' = Place(Reading)
      BY <2>8, <3>3
    <3> QED
      BY <2>6, <2>7, <2>8, <3>1, <3>2, <3>3, <3>4 DEF Shape
  <2> QED
    BY <1>5, <2>1, <2>2, <2>4, <2>5, ReaderFrame
<1>6. CASE mpc' # "failed" /\ MainStep
  <2>0. files' = files /\ alone' = alone /\ rpc' = rpc /\ rk' = rk /\ Reading' = Reading
    BY <1>6, MainFrame DEF Reading
  <2>1. CASE alone
    BY <2>0, <2>1 DEF Shape, OwnerInv
  <2>2. CASE ~alone /\ (MainTake \/ MainStore \/ MainUntil \/ MainJoin)
    <3>1. freeEv' = freeEv /\ mpc # "failed"
      BY <1>6, <2>2 DEF MainTake, MainStore, MainUntil, MainJoin, Fail, eventVars
    <3>2. First' = First
      BY <1>6, <2>2, <2>0 DEF MainTake, MainStore, MainUntil, MainJoin, Fail, First
    <3>3. Second' = Second /\ Third' = Third /\ \A i \in Batch : Place(i)' = Place(i)
      BY <3>2, PlacesStay
    <3>4. \A i \in Batch : Occupied(i)' = Occupied(i)
      <4>1. CASE MainTake
        BY <1>3, <1>6, <2>0, <4>1 DEF MainTake, Fail, Occupied, Held
      <4>2. CASE MainStore
        BY <1>3, <1>6, <2>0, <2>2, <4>2 DEF MainStore, Fail, Occupied, Held
      <4>3. CASE MainUntil
        <5>1. mpc = "until" /\ mpc' \in {"join", "wait"} /\ fullEv' = fullEv
          BY <2>2, <4>3 DEF MainUntil, eventVars
        <5> QED
          BY <5>1, <2>0 DEF Occupied, Held
      <4>4. CASE MainJoin
        BY <2>0, <4>4 DEF MainJoin, Occupied, Held, eventVars
      <4> QED
        BY <2>2, <4>1, <4>2, <4>3, <4>4
    <3>5. Reading \in Batch
      BY <1>3, Three DEF Reading
    <3>6. Place(Reading)' = Place(Reading) /\ Place(rk)' = Place(rk)
      BY <1>3, <2>0, <3>3, <3>5
    <3> QED
      BY <2>0, <3>1, <3>2, <3>3, <3>4, <3>6 DEF Shape
  <2>3. CASE ~alone /\ MainReturn
    <3>1. /\ mpc = "return" /\ mpc' = "until" /\ mk' = mk /\ fullEv' = fullEv
          /\ \A i \in Batch : i # mk => freeEv'[i] = freeEv[i]
      BY <1>3, <2>3 DEF MainReturn
    <3>2. First = mk /\ First' = Second
      BY <2>0, <2>3, <3>1 DEF First, Second
    <3>3. Second' = Third /\ Third' = mk
      BY <1>3, <3>2, Places DEF Second, Third
    <3>4. /\ \A i \in Batch : i # mk => Place(i)' = Place(i) - 1 /\ Place(i) \in {1, 2}
          /\ Place(mk)' = 2 /\ Place(mk) = 0
      <4>1. Place(mk) = 0 /\ Place(Second) = 1 /\ Place(Third) = 2
        BY <1>3, <3>2, Places
      <4>2. mk # Second /\ mk # Third /\ Second # Third
            /\ \A i \in Batch : i = mk \/ i = Second \/ i = Third
        BY <1>3, <3>2, Places
      <4>3. \A i : Place(i)' = IF i = Second THEN 0 ELSE IF i = Third THEN 1 ELSE 2
        BY <3>2, <3>3 DEF Place
      <4>4. \A i : Place(i) = IF i = mk THEN 0 ELSE IF i = Second THEN 1 ELSE 2
        BY <3>2 DEF Place
      <4>5. \A i \in Batch : i # mk => Place(i)' = Place(i) - 1 /\ Place(i) \in {1, 2}
        <5> SUFFICES ASSUME NEW i \in Batch, i # mk
                     PROVE  Place(i)' = Place(i) - 1 /\ Place(i) \in {1, 2}
          OBVIOUS
        <5>1. CASE i = Second
          <6>1. Place(i)' = 0 /\ Place(i) = 1
            BY <4>2, <4>3, <4>4, <5>1
          <6> QED
            BY <6>1
        <5>2. CASE i = Third
          <6>1. Place(i)' = 1 /\ Place(i) = 2
            BY <4>2, <4>3, <4>4, <5>2
          <6> QED
            BY <6>1
        <5> QED
          BY <4>2, <5>1, <5>2
      <4>6. Place(mk)' = 2
        BY <3>1, <3>3, <4>2, <3>2 DEF Place
      <4> QED
        BY <4>1, <4>5, <4>6
    <3>5. Occupied(mk) /\ ~Occupied(mk)'
      BY <1>3, <3>1, <2>0 DEF Occupied, Held, OwnerInv, BatchHasOneOwner
    <3>6. \A i \in Batch : i # mk => Occupied(i)' = Occupied(i)
      BY <1>3, <3>1, <2>0 DEF Occupied, Held
    <3>7. rpc \in {"fill", "signal"} => rk # mk
      BY <3>1 DEF OwnerInv, BatchHasOneOwner
    <3>8. Reading \in Batch
      BY <1>3, Three DEF Reading
    <3>9. CASE rpc \in {"fill", "signal"}
      <4>1. Place(rk)' = Place(rk) - 1 /\ Place(rk) \in {1, 2}
        BY <1>3, <2>0, <3>4, <3>7, <3>9
      <4>2. \A i \in Batch : /\ Place(i) < Place(rk) => ~freeEv[i]
                             /\ Place(i) > Place(rk) => ~Occupied(i)
        BY <3>1, <3>9 DEF Shape
      <4>3. \A i \in Batch : /\ Place(i)' < Place(rk)' => ~freeEv'[i]
                             /\ Place(i)' > Place(rk)' => ~Occupied(i)'
        BY <1>3, <3>1, <3>4, <3>5, <3>6, <4>1, <4>2
      <4> QED
        BY <2>0, <3>9, <4>3 DEF Shape
    <3>10. CASE rpc \in {"wait", "check"}
      <4>1. CASE Reading = First /\ \A i \in Batch : ~freeEv[i]
        <5>1. Place(Reading)' = 2
          <6>1. Reading' = mk
            BY <2>0, <3>2, <4>1
          <6> QED
            BY <6>1, <1>3, <3>2, <3>3, Places DEF Place
        <5>2. \A i \in Batch : /\ Place(i)' < 2 => ~freeEv'[i]
                               /\ Place(i)' >= 2 => ~Occupied(i)'
          BY <1>3, <3>1, <3>4, <3>5, <4>1
        <5> QED
          BY <2>0, <3>10, <5>1, <5>2 DEF Shape
      <4>2. CASE \A i \in Batch : /\ Place(i) < Place(Reading) => ~freeEv[i]
                                  /\ Place(i) >= Place(Reading) => ~Occupied(i)
        <5>1. Reading # mk
          BY <1>3, <3>4, <3>5, <4>2
        <5>2. Place(Reading)' = Place(Reading) - 1 /\ Place(Reading) \in {1, 2}
          BY <2>0, <3>4, <3>8, <5>1
        <5>3. \A i \in Batch : /\ Place(i)' < Place(Reading)' => ~freeEv'[i]
                               /\ Place(i)' >= Place(Reading)' => ~Occupied(i)'
          BY <1>3, <3>1, <3>4, <3>5, <3>6, <4>2, <5>2
        <5> QED
          BY <2>0, <3>10, <5>3 DEF Shape
      <4> QED
        BY <3>1, <3>10, <4>1, <4>2 DEF Shape
    <3> QED
      BY <2>0, <3>9, <3>10 DEF Shape
  <2>4. ~MainFill \/ alone
    BY DEF MainFill, OwnerInv
  <2> QED
    BY <1>6, <2>1, <2>2, <2>3, <2>4, MainFrame
<1> QED
  BY <1>0, <1>4, <1>5, <1>6 DEF Next

-----------------------------------------------------------------------------
(* What was cut, from where the reading is: the file e, the fragments a of  *)
(* it, the files that were skipped.                                         *)
CutsOf(e, a, gone) ==
  [f \in 1 .. Len(files) |->
     IF (f < e \/ (f = e /\ a > 0)) /\ f \notin gone
     THEN [i \in 1 .. IF f = e THEN a ELSE Len(files[f]) |-> <<f, i>>] ELSE <<>>]

(* CutSoFar, from where the reading is now ...                              *)
LEMMA CutNow ==
  ASSUME ReaderTypeOK
  PROVE  CutSoFar = FlattenSeq(CutsOf(entry, at, skipped))
<1>1. Len(files) \in Nat /\ File = 1 .. Len(files)
  BY LenProperties DEF ReaderTypeOK, File
<1>2. Cardinality(File) = Len(files)
  <2>1. PICK n \in Nat : n = Len(files)
    BY <1>1
  <2>2. Cardinality(1 .. n) = IF 1 > n THEN 0 ELSE n - 1 + 1
    <3>1. 1 \in Int /\ n \in Int
      OBVIOUS
    <3> QED
      BY ONLY <3>1, FS_Interval
  <2>3. Cardinality(1 .. n) = n
    BY <2>1, <2>2
  <2> QED
    BY <1>1, <2>1, <2>3
<1>3. CutsOf(entry, at, skipped) =
        [f \in 1 .. Cardinality(File) |-> IF f \in CutFiles THEN FragmentsOf(f) ELSE <<>>]
  BY <1>1, <1>2 DEF CutsOf, CutFiles, FragmentsOf
<1> QED
  BY <1>3 DEF CutSoFar

(* ... and after a step.                                                    *)
LEMMA CutNext ==
  ASSUME ReaderTypeOK, files' = files
  PROVE  CutSoFar' = FlattenSeq(CutsOf(entry', at', skipped'))
<1>1. Len(files) \in Nat /\ File' = 1 .. Len(files)
  BY LenProperties DEF ReaderTypeOK, File
<1>2. Cardinality(File') = Len(files)
  <2>1. PICK n \in Nat : n = Len(files)
    BY <1>1
  <2>2. Cardinality(1 .. n) = IF 1 > n THEN 0 ELSE n - 1 + 1
    <3>1. 1 \in Int /\ n \in Int
      OBVIOUS
    <3> QED
      BY ONLY <3>1, FS_Interval
  <2>3. Cardinality(1 .. n) = n
    BY <2>1, <2>2
  <2> QED
    BY <1>1, <2>1, <2>3
<1>3. CutsOf(entry', at', skipped') =
        [f \in 1 .. Cardinality(File') |-> IF f \in CutFiles' THEN FragmentsOf(f)' ELSE <<>>]
  BY <1>1, <1>2 DEF CutsOf, CutFiles, FragmentsOf
<1> QED
  BY <1>3 DEF CutSoFar

(* What was cut of each file is a sequence of fragments.                    *)
LEMMA CutsType ==
  ASSUME ReaderTypeOK, NEW e, NEW a \in Int, NEW gone
  PROVE  /\ CutsOf(e, a, gone) \in Seq(Seq(Fragment))
         /\ Len(CutsOf(e, a, gone)) = Len(files)
<1>1. Len(files) \in Nat
  BY LenProperties DEF ReaderTypeOK
<1> DEFINE c == CutsOf(e, a, gone)
<1>2. \A f \in 1 .. Len(files) : c[f] \in Seq(Fragment)
  <2> SUFFICES ASSUME NEW f \in 1 .. Len(files) PROVE c[f] \in Seq(Fragment)
    OBVIOUS
  <2>1. c[f] = IF (f < e \/ (f = e /\ a > 0)) /\ f \notin gone
               THEN [i \in 1 .. IF f = e THEN a ELSE Len(files[f]) |-> <<f, i>>] ELSE <<>>
    BY DEF CutsOf
  <2> HIDE DEF c
  <2>2. CASE c[f] = <<>>
    BY <2>2
  <2>3. CASE c[f] # <<>>
    <3>1. PICK m : m = IF f = e THEN a ELSE Len(files[f])
      OBVIOUS
    <3>2. m \in Nat
      <4>1. files[f] \in Seq(Nat)
        BY ElementOfSeq DEF ReaderTypeOK
      <4>2. Len(files[f]) \in Nat
        BY <4>1, LenProperties
      <4>3. f = e => a > 0
        BY <2>1, <2>3
      <4> QED
        BY <3>1, <4>2, <4>3
    <3>3. c[f] = [i \in 1 .. m |-> <<f, i>>]
      BY <2>1, <2>3, <3>1
    <3>4. \A i \in 1 .. m : <<f, i>> \in Fragment
      BY <3>2 DEF Fragment
    <3> QED
      BY <3>2, <3>3, <3>4
  <2> QED
    BY <2>2, <2>3
<1>3. c = [f \in 1 .. Len(files) |-> c[f]]
  BY DEF CutsOf
<1>4. PICK n \in Nat : n = Len(files)
  BY <1>1
<1> HIDE DEF c
<1>5. c \in Seq(Seq(Fragment)) /\ Len(c) = n
  BY <1>2, <1>3, <1>4
<1> QED
  BY <1>4, <1>5 DEF c

(* What was cut is the same when a file is opened, skipped or closed.       *)
LEMMA CutsSame ==
  ASSUME NEW e \in Nat, NEW gone, gone \subseteq 1 .. e - 1
  PROVE  /\ CutsOf(e, 0, gone) = CutsOf(e, -1, gone)
         /\ CutsOf(e + 1, -1, gone \cup {e}) = CutsOf(e, -1, gone)
         /\ \A a \in Int : a >= 0 /\ a = Len(files[e]) =>
              CutsOf(e + 1, -1, gone) = CutsOf(e, a, gone)
<1>1. \A f \in 1 .. Len(files) : f # e =>
        \A a \in Int : \A b \in Int :
          /\ CutsOf(e, a, gone)[f] = CutsOf(e, b, gone)[f]
          /\ a <= 0 => CutsOf(e + 1, a, gone \cup {e})[f] = CutsOf(e, b, gone)[f]
          /\ a <= 0 => CutsOf(e + 1, a, gone)[f] = CutsOf(e, b, gone)[f]
  <2> SUFFICES ASSUME NEW f \in 1 .. Len(files), f # e, NEW a \in Int, NEW b \in Int
               PROVE  /\ CutsOf(e, a, gone)[f] = CutsOf(e, b, gone)[f]
                      /\ a <= 0 => CutsOf(e + 1, a, gone \cup {e})[f] = CutsOf(e, b, gone)[f]
                      /\ a <= 0 => CutsOf(e + 1, a, gone)[f] = CutsOf(e, b, gone)[f]
    OBVIOUS
  <2>1. f \in Int
    OBVIOUS
  <2>2. CASE f < e
    BY <2>1, <2>2 DEF CutsOf
  <2>3. CASE f > e
    BY <2>1, <2>3 DEF CutsOf
  <2> QED
    BY <2>1, <2>2, <2>3
<1>7. ~(e < e) /\ e < e + 1 /\ e # e + 1 /\ e \notin gone /\ [i \in 1 .. 0 |-> <<e, i>>] = <<>>
  OBVIOUS
<1>2. ASSUME e \in 1 .. Len(files)
      PROVE  /\ CutsOf(e, 0, gone)[e] = <<>> /\ CutsOf(e, -1, gone)[e] = <<>>
             /\ CutsOf(e + 1, -1, gone \cup {e})[e] = <<>>
             /\ \A a \in Int : a >= 0 /\ a = Len(files[e]) =>
                  CutsOf(e + 1, -1, gone)[e] = CutsOf(e, a, gone)[e]
  <2>1. CutsOf(e, 0, gone)[e] = <<>> /\ CutsOf(e, -1, gone)[e] = <<>>
    BY <1>2, <1>7 DEF CutsOf
  <2>2. CutsOf(e + 1, -1, gone \cup {e})[e] = <<>>
    BY <1>2, <1>7 DEF CutsOf
  <2>3. ASSUME NEW a \in Int, a >= 0, a = Len(files[e])
        PROVE  CutsOf(e + 1, -1, gone)[e] = CutsOf(e, a, gone)[e]
    <3>1. CutsOf(e + 1, -1, gone)[e] = [i \in 1 .. Len(files[e]) |-> <<e, i>>]
      BY <1>2, <1>7 DEF CutsOf
    <3>2. CutsOf(e, a, gone)[e] = IF a > 0 THEN [i \in 1 .. a |-> <<e, i>>] ELSE <<>>
      BY <1>2, <1>7 DEF CutsOf
    <3>3. CASE a > 0
      BY <2>3, <3>1, <3>2, <3>3
    <3>4. CASE a = 0
      BY <2>3, <3>1, <3>2, <3>4, <1>7
    <3> QED
      BY <2>3, <3>3, <3>4
  <2> QED
    BY <2>1, <2>2, <2>3
<1>3. \A d, a, lost : CutsOf(d, a, lost) = [f \in 1 .. Len(files) |-> CutsOf(d, a, lost)[f]]
  BY DEF CutsOf
<1>4. CutsOf(e, 0, gone) = CutsOf(e, -1, gone)
  <2>1. \A f \in 1 .. Len(files) : CutsOf(e, 0, gone)[f] = CutsOf(e, -1, gone)[f]
    BY <1>1, <1>2
  <2> QED
    BY <1>3, <2>1
<1>5. CutsOf(e + 1, -1, gone \cup {e}) = CutsOf(e, -1, gone)
  <2>1. ASSUME NEW f \in 1 .. Len(files)
        PROVE  CutsOf(e + 1, -1, gone \cup {e})[f] = CutsOf(e, -1, gone)[f]
    <3>1. CASE f = e
      BY <1>2, <3>1
    <3>2. CASE f # e
      <4>1. -1 \in Int /\ -1 <= 0
        OBVIOUS
      <4>2. \A a \in Int : a <= 0 => CutsOf(e + 1, a, gone \cup {e})[f] = CutsOf(e, a, gone)[f]
        BY <1>1, <3>2
      <4> QED
        BY ONLY <4>1, <4>2
    <3> QED
      BY <3>1, <3>2
  <2>2. PICK more : more = gone \cup {e}
    OBVIOUS
  <2>3. \A f \in 1 .. Len(files) : CutsOf(e + 1, -1, more)[f] = CutsOf(e, -1, gone)[f]
    BY <2>1, <2>2
  <2>4. CutsOf(e + 1, -1, more) = CutsOf(e, -1, gone)
    BY <1>3, <2>3
  <2> QED
    BY <2>2, <2>4
<1>6. ASSUME NEW a \in Int, a >= 0, a = Len(files[e])
      PROVE  CutsOf(e + 1, -1, gone) = CutsOf(e, a, gone)
  <2>1. \A f \in 1 .. Len(files) : CutsOf(e + 1, -1, gone)[f] = CutsOf(e, a, gone)[f]
    BY <1>1, <1>2, <1>6
  <2> QED
    BY <1>3, <2>1
<1> QED
  BY <1>4, <1>5, <1>6

(* Opening, skipping and closing a file cut nothing.                        *)
LEMMA CutStays ==
  ASSUME ReaderTypeOK, files' = files, OpenFile \/ SkipFile \/ (at >= 0 /\ CloseFile)
  PROVE  CutSoFar' = CutSoFar
<1>1. entry \in Nat /\ at \in Int /\ skipped \subseteq 1 .. entry - 1
  BY DEF ReaderTypeOK
<1>2. CASE OpenFile
  <2>1. CutsOf(entry, 0, skipped) = CutsOf(entry, -1, skipped)
    BY <1>1, CutsSame
  <2> QED
    BY <1>2, <2>1, CutNow, CutNext DEF OpenFile
<1>3. CASE SkipFile
  <2>1. CutsOf(entry + 1, -1, skipped \cup {entry}) = CutsOf(entry, -1, skipped)
    BY <1>1, CutsSame
  <2> QED
    BY <1>3, <2>1, CutNow, CutNext DEF SkipFile
<1>4. CASE at >= 0 /\ CloseFile
  <2>1. CutsOf(entry + 1, -1, skipped) = CutsOf(entry, at, skipped)
    BY <1>1, <1>4, CutsSame DEF CloseFile
  <2> QED
    BY <1>4, <2>1, CutNow, CutNext DEF CloseFile
<1> QED
  BY <1>2, <1>3, <1>4

(* A fragment that is cut goes to the end of what was cut.                  *)
LEMMA CutGrows ==
  ASSUME ReaderTypeOK, files' = files, NEW into \in Batch, at >= 0, AddFragment(into)
  PROVE  CutSoFar' = Append(CutSoFar, <<entry, at + 1>>) /\ <<entry, at + 1>> \in Fragment
         /\ CutSoFar \in Seq(Fragment)
<1>1. entry \in 1 .. Len(files) /\ at \in Nat /\ entry \notin skipped
  BY DEF ReaderTypeOK
<1>2. <<entry, at + 1>> \in Fragment
  BY <1>1 DEF Fragment
<1>3. PICK s : s = CutsOf(entry, at, skipped)
  OBVIOUS
<1>4. PICK t : t = CutsOf(entry, at + 1, skipped)
  OBVIOUS
<1>5. s \in Seq(Seq(Fragment)) /\ Len(s) = Len(files) /\ Len(t) = Len(files)
  BY <1>1, <1>3, <1>4, CutsType
<1>6. t[entry] = Append(s[entry], <<entry, at + 1>>)
  <2>1. t[entry] = [i \in 1 .. at + 1 |-> <<entry, i>>]
    BY <1>1, <1>4 DEF CutsOf
  <2>2. s[entry] = [i \in 1 .. at |-> <<entry, i>>]
    BY <1>1, <1>3 DEF CutsOf
  <2>3. s[entry] \in Seq(Fragment) /\ Len(s[entry]) = at
    <3>1. entry \in 1 .. Len(s) /\ at \in Nat
      BY <1>1, <1>5
    <3>2. s[entry] \in Seq(Fragment)
      BY <1>5, <3>1, ElementOfSeq
    <3> QED
      BY ONLY <2>2, <3>1, <3>2
  <2>4. t[entry] \in Seq(Fragment) /\ Len(t[entry]) = at + 1
    BY <1>1, <2>1 DEF Fragment
  <2> QED
    BY <1>1, <1>2, <2>1, <2>2, <2>3, <2>4, AppendProperties, SeqEqual
<1>7. \A f \in 1 .. Len(s) : f # entry => t[f] = s[f]
  BY <1>1, <1>3, <1>4, <1>5 DEF CutsOf
<1>8. \A f \in 1 .. Len(s) : f > entry => s[f] = <<>>
  BY <1>1, <1>3, <1>5 DEF CutsOf
<1>9. entry \in 1 .. Len(s)
  BY <1>1, <1>5
<1>10. FlattenSeq(t) = Append(FlattenSeq(s), <<entry, at + 1>>)
  <2>1. PICK x \in Fragment : x = <<entry, at + 1>>
    BY <1>2
  <2>2. FlattenSeq(t) = Append(FlattenSeq(s), x)
    <3>1. s \in Seq(Seq(Fragment)) /\ Len(t) = Len(s) /\ t[entry] = Append(s[entry], x)
      BY <1>5, <1>6, <2>1
    <3> QED
      BY ONLY <3>1, <1>7, <1>8, <1>9, FlattenAppend, Zenon
  <2> QED
    BY ONLY <2>1, <2>2
<1>11. CutSoFar' = FlattenSeq(t)
  BY <1>4, CutNext DEF AddFragment
<1>12. CutSoFar = FlattenSeq(s) /\ FlattenSeq(s) \in Seq(Fragment)
  BY <1>3, <1>5, CutNow, FlattenType
<1> QED
  BY <1>2, <1>10, <1>11, <1>12

-----------------------------------------------------------------------------
(* A beginning of a sequence.                                               *)
LEMMA PrefixIs ==
  ASSUME NEW S, NEW s \in Seq(S), NEW r \in Seq(S)
  PROVE  IsPrefix(s, s \o r)
<1>1. s \o r \in Seq(S) /\ Len(s) <= Len(s \o r)
  BY ConcatProperties, LenProperties
<1>2. SubSeq(s, 1, Len(s)) = s
  BY SubSeqFull
<1>3. SubSeq(s \o r, 1, Len(s)) = s
  <2>1. CASE s = <<>>
    BY <2>1, SubSeqEmpty
  <2>2. CASE s # <<>>
    <3>1. Len(s) \in 1 .. Len(s) /\ 1 \in 1 .. Len(s)
      BY <2>2, EmptySeq
    <3>2. SubSeq(s \o r, 1, Len(s)) = SubSeq(s, 1, Len(s))
      BY <3>1, SubSeqOfConcat1
    <3> QED
      BY <1>2, <3>2
  <2> QED
    BY <2>1, <2>2
<1> QED
  BY <1>1, <1>2, <1>3 DEF IsPrefix

(* What is stored, then what is pending, in three parts: one more at the    *)
(* end of the last part that is not empty.                                  *)
OneMore(s, a, b, c, d, e, f, x) == s \o (d \o e \o f) = Append(s \o (a \o b \o c), x)
(* One more goes to the first part, the second or the third.                *)
LEMMA PartsAppend ==
  ASSUME NEW S, NEW s \in Seq(S), NEW a \in Seq(S), NEW b \in Seq(S), NEW c \in Seq(S), NEW x \in S
  PROVE  /\ OneMore(s, a, b, c, a, b, Append(c, x), x)
         /\ c = <<>> => OneMore(s, a, b, c, a, Append(b, x), c, x)
         /\ b = <<>> /\ c = <<>> => OneMore(s, a, b, c, Append(a, x), b, c, x)
<1>1. \A u, v \in Seq(S) : u \o v \in Seq(S) /\ u \o <<>> = u /\ u \o Append(v, x) = Append(u \o v, x)
  BY ConcatProperties, ConcatEmptySeq, ConcatAppend
<1>2. \A u \in Seq(S) : Append(u, x) \in Seq(S)
  BY AppendProperties
<1>3. PICK ab \in Seq(S) : ab = a \o b
  BY <1>1
<1>4. PICK abc \in Seq(S) : abc = ab \o c
  BY <1>1
<1>5. s \o (ab \o Append(c, x)) = Append(s \o (ab \o c), x)
  <2>1. ab \o Append(c, x) = Append(abc, x)
    BY ONLY <1>4, ConcatAppend, ab \in Seq(S), c \in Seq(S), x \in S
  <2>2. s \o Append(abc, x) = Append(s \o abc, x)
    BY ONLY ConcatAppend, s \in Seq(S), abc \in Seq(S), x \in S
  <2> QED
    BY ONLY <1>4, <2>1, <2>2
<1>6. ASSUME c = <<>> PROVE s \o (a \o Append(b, x) \o c) = Append(s \o (a \o b \o c), x)
  <2>1. a \o Append(b, x) = Append(ab, x)
    BY <1>1, <1>3
  <2>2. Append(ab, x) \o c = Append(ab, x)
    BY <1>1, <1>2, <1>6
  <2>3. ab \o c = ab
    BY <1>1, <1>6
  <2>4. s \o Append(ab, x) = Append(s \o ab, x)
    BY <1>1
  <2> QED
    BY <1>3, <2>1, <2>2, <2>3, <2>4
<1>7. ASSUME b = <<>>, c = <<>> PROVE s \o (Append(a, x) \o b \o c) = Append(s \o (a \o b \o c), x)
  <2>1. Append(a, x) \o b = Append(a, x) /\ Append(a, x) \o c = Append(a, x)
    BY <1>1, <1>2, <1>7
  <2>2. a \o b = a /\ a \o c = a
    BY <1>1, <1>7
  <2>3. s \o Append(a, x) = Append(s \o a, x)
    BY <1>1
  <2> QED
    BY <2>1, <2>2, <2>3
<1>8. s \o (a \o b \o Append(c, x)) = Append(s \o (a \o b \o c), x)
  BY <1>3, <1>5, Zenon
<1> QED
  BY <1>6, <1>7, <1>8 DEF OneMore

(* The last part that is not empty, left out.                               *)
LessEnd(S, s, a, b, c, d, e, f) ==
  \E r \in Seq(S) : s \o (a \o b \o c) = (s \o (d \o e \o f)) \o r
(* A part without its last ones leaves a beginning of the whole.            *)
LEMMA PartsDrop ==
  ASSUME NEW S, NEW s \in Seq(S), NEW a \in Seq(S), NEW b \in Seq(S), NEW c \in Seq(S)
  PROVE  /\ LessEnd(S, s, a, b, c, a, b, <<>>)
         /\ c = <<>> => LessEnd(S, s, a, b, c, a, <<>>, c)
         /\ b = <<>> /\ c = <<>> => LessEnd(S, s, a, b, c, <<>>, b, c)
<1>1. \A u, v \in Seq(S) : u \o v \in Seq(S) /\ u \o <<>> = u /\ <<>> \o u = u
  BY ConcatProperties, ConcatEmptySeq
<1>3. PICK ab \in Seq(S) : ab = a \o b
  BY <1>1
<1>4. (s \o ab) \o c = s \o (ab \o c)
  BY ConcatAssociative, SMTT(30)
<1>2. ab \o <<>> = ab
  BY <1>1
<1>9. (s \o a) \o b = s \o (a \o b)
  BY ConcatAssociative, SMTT(30)
<1>5. (s \o a) \o b = s \o ab /\ a \o <<>> = a /\ <<>> \in Seq(S) /\ <<>> \o <<>> = <<>>
  BY <1>1, <1>3, <1>9
<1>6. \E r \in Seq(S) : s \o (a \o b \o c) = (s \o (a \o b \o <<>>)) \o r
  BY <1>2, <1>3, <1>4
<1>7. ASSUME c = <<>>
      PROVE  \E r \in Seq(S) : s \o (a \o b \o c) = (s \o (a \o <<>> \o c)) \o r
  BY <1>2, <1>3, <1>4, <1>5, <1>7
<1>8. ASSUME b = <<>>, c = <<>>
      PROVE  \E r \in Seq(S) : s \o (a \o b \o c) = (s \o (<<>> \o b \o c)) \o r
  <2>1. a \o b \o c = a /\ <<>> \o b \o c = <<>> /\ s \o <<>> = s
    BY <1>1, <1>5, <1>8
  <2> QED
    BY <2>1
<1> QED
  BY <1>6, <1>7, <1>8 DEF LessEnd

(* The first part, stored; the first part, with nothing in it, put last.    *)
Sums(p, q) == p = q

(* The first part goes to what is stored.                                   *)
LEMMA PartsStore ==
  ASSUME NEW S, NEW s \in Seq(S), NEW a \in Seq(S), NEW b \in Seq(S), NEW c \in Seq(S)
  PROVE  Sums((s \o a) \o (<<>> \o b \o c), s \o (a \o b \o c))
<1>1. \A u, v \in Seq(S) : u \o v \in Seq(S) /\ <<>> \o u = u
  BY ConcatProperties, ConcatEmptySeq
<1>2. (a \o b) \o c = a \o (b \o c)
  BY ConcatAssociative
<1>3. PICK bc \in Seq(S) : bc = b \o c
  BY <1>1
<1>4. <<>> \o b \o c = bc
  BY <1>1, <1>3
<1>5. (a \o b) \o c = a \o bc
  BY <1>2, <1>3
<1>6. (s \o a) \o bc = s \o (a \o bc)
  BY ConcatAssociative, SMTT(30)
<1> QED
  BY <1>4, <1>5, <1>6, Zenon DEF Sums

(* An empty first part becomes the last.                                    *)
LEMMA PartsMove ==
  ASSUME NEW S, NEW b \in Seq(S), NEW c \in Seq(S)
  PROVE  Sums(b \o c \o <<>>, <<>> \o b \o c)
<1>1. \A u, v \in Seq(S) : u \o v \in Seq(S) /\ u \o <<>> = u /\ <<>> \o u = u
  BY ConcatProperties, ConcatEmptySeq
<1>2. b \o c \o <<>> = <<>> \o b \o c
  BY <1>1
<1> QED
  BY <1>2 DEF Sums

(* A beginning of a beginning.                                              *)
LEMMA PartsBegin ==
  ASSUME NEW S, NEW s \in Seq(S), NEW a \in Seq(S), NEW b \in Seq(S)
  PROVE  \E r \in Seq(S) : Sums((s \o a) \o b, s \o r)
<1>1. (s \o a) \o b = s \o (a \o b)
  BY ConcatAssociative, SMTT(30)
<1>2. a \o b \in Seq(S)
  BY ConcatProperties
<1> QED
  BY <1>1, <1>2, Zenon DEF Sums

(* What is stored and then pending is what was cut; the fragments of the    *)
(* batch in which there was an exception are lost.                          *)
OrderInv ==
  /\ \E r \in Seq(Fragment) : CutSoFar = stored \o r
  /\ mpc # "failed" =>
       \E r \in Seq(Fragment) :
         CutSoFar = (stored \o Pending) \o r /\ (~readError => r = <<>>)

(* What is pending, what was cut and what is stored are fragments.          *)
LEMMA PendingType ==
  ASSUME ReaderTypeOK
  PROVE  /\ \A i \in Batch : FragsOf(i) \in Seq(Fragment)
         /\ Pending \in Seq(Fragment)
         /\ CutSoFar \in Seq(Fragment)
         /\ stored \in Seq(Fragment)
<1>1. \A i \in Batch : FragsOf(i) \in Seq(Fragment)
  <2>1. \A i \in Batch : batch[i].frags \in Seq(Fragment)
    BY DEF ReaderTypeOK
  <2>2. <<>> \in Seq(Fragment)
    BY EmptySeq
  <2> QED
    BY <2>1, <2>2 DEF FragsOf
<1>2. Pending \in Seq(Fragment)
  <2>1. First \in Batch /\ Second \in Batch /\ Third \in Batch
    BY Places DEF ReaderTypeOK
  <2>2. PICK a \in Seq(Fragment) : a = FragsOf(First)
    BY <1>1, <2>1
  <2>3. PICK b \in Seq(Fragment) : b = FragsOf(Second)
    BY <1>1, <2>1
  <2>4. PICK c \in Seq(Fragment) : c = FragsOf(Third)
    BY <1>1, <2>1
  <2>5. a \o b \o c \in Seq(Fragment)
    BY ConcatProperties
  <2> QED
    BY <2>2, <2>3, <2>4, <2>5 DEF Pending
<1>3. CutSoFar \in Seq(Fragment)
  <2>1. at \in Int
    BY DEF ReaderTypeOK
  <2>2. CutsOf(entry, at, skipped) \in Seq(Seq(Fragment))
    BY <2>1, CutsType
  <2> QED
    BY <2>2, CutNow, FlattenType
<1> QED
  BY <1>1, <1>2, <1>3 DEF ReaderTypeOK

(* A step that moves no fragment.                                           *)
LEMMA NothingMoves ==
  ASSUME OrderInv, files' = files, CutSoFar' = CutSoFar, stored' = stored,
         readError' = readError,
         mpc' # "failed" => mpc # "failed" /\ Pending' = Pending
  PROVE  OrderInv'
<1>1. Fragment' = Fragment
  BY DEF Fragment
<1> QED
  BY <1>1 DEF OrderInv

(* The batches are in the same order and have the same fragments.           *)
LEMMA PendingStays ==
  ASSUME ReaderTypeOK, First' = First, \A i \in Batch : FragsOf(i)' = FragsOf(i)
  PROVE  Pending' = Pending
<1>1. Second' = Second /\ Third' = Third
  BY PlacesStay
<1>2. First \in Batch /\ Second \in Batch /\ Third \in Batch
  BY Places DEF ReaderTypeOK
<1>3. FragsOf(First)' = FragsOf(First)
  BY <1>2
<1>4. FragsOf(Second)' = FragsOf(Second)
  BY <1>1, <1>2
<1>5. FragsOf(Third)' = FragsOf(Third)
  BY <1>1, <1>2
<1> QED
  BY <1>3, <1>4, <1>5 DEF Pending

(* Nothing is cut while the reading stays where it is.                      *)
LEMMA CutFixed ==
  ASSUME ReaderTypeOK, files' = files, entry' = entry, at' = at, skipped' = skipped
  PROVE  CutSoFar' = CutSoFar
BY CutNow, CutNext

(* After an exception of the main thread, what is stored is still the       *)
(* beginning of what was cut.                                               *)
LEMMA StillBegins ==
  ASSUME OrderInv, Fragment' = Fragment, stored' = stored, stored \in Seq(Fragment),
         NEW x \in Fragment, CutSoFar' = Append(CutSoFar, x), mpc' = "failed"
  PROVE  OrderInv'
<1>1. PICK s \in Seq(Fragment) : s = stored
  OBVIOUS
<1>2. PICK r \in Seq(Fragment) : CutSoFar = s \o r
  BY <1>1 DEF OrderInv
<1>3. PICK t : t = Append(r, x)
  OBVIOUS
<1>4. t \in Seq(Fragment)
  BY <1>3
<1>5. s \o Append(r, x) = Append(s \o r, x)
  BY ONLY ConcatAppend
<1>6. CutSoFar' = s \o t
  BY <1>2, <1>3, <1>5, Zenon
<1> QED
  BY <1>1, <1>4, <1>6 DEF OrderInv

(* All that was cut is stored or pending.                                   *)
LEMMA AllPending ==
  ASSUME files' = files, stored' \in Seq(Fragment), Pending' \in Seq(Fragment),
         CutSoFar' = stored' \o Pending'
  PROVE  OrderInv'
<1>1. Fragment' = Fragment
  BY DEF Fragment
<1>2. stored' \o Pending' \in Seq(Fragment)
  BY ConcatProperties
<1>3. CutSoFar' = (stored' \o Pending') \o <<>> /\ <<>> \in Seq(Fragment)
  BY <1>2, ConcatEmptySeq, EmptySeq
<1> QED
  BY <1>1, <1>3 DEF OrderInv

(* A fragment is cut into the last of the batches in use.                   *)
LEMMA PendingGrows ==
  ASSUME ReaderTypeOK, OrderInv, files' = files, NEW into \in Batch, at >= 0, AddFragment(into),
         First' = First, \A i \in Batch : Held(i)' = Held(i), Held(into),
         \A i \in Batch : Place(i) > Place(into) => ~Held(i),
         stored' = stored, mpc # "failed", ~readError, ~readError'
  PROVE  OrderInv'
<1> DEFINE x == <<entry, at + 1>>
<1>1. CutSoFar' = Append(CutSoFar, x) /\ x \in Fragment /\ CutSoFar \in Seq(Fragment)
  BY CutGrows
<1>2. CutSoFar = stored \o Pending
  <2>1. stored \o Pending \in Seq(Fragment)
    BY PendingType, ConcatProperties
  <2>2. PICK r \in Seq(Fragment) : CutSoFar = (stored \o Pending) \o r /\ r = <<>>
    BY DEF OrderInv
  <2> QED
    BY <2>1, <2>2, ConcatEmptySeq
<1>3. FragsOf(into)' = Append(FragsOf(into), x)
  <2>1. Held(into)'
    OBVIOUS
  <2>2. batch'[into].frags = Append(batch[into].frags, x)
    BY DEF AddFragment, ReaderTypeOK
  <2> QED
    BY <2>1, <2>2 DEF FragsOf
<1>4. \A i \in Batch : i # into => FragsOf(i)' = FragsOf(i)
  <2> SUFFICES ASSUME NEW i \in Batch, i # into PROVE FragsOf(i)' = FragsOf(i)
    OBVIOUS
  <2>1. batch'[i] = batch[i] /\ Held(i)' = Held(i)
    BY DEF AddFragment, ReaderTypeOK
  <2> QED
    BY <2>1 DEF FragsOf
<1>5. First \in Batch /\ Second \in Batch /\ Third \in Batch
      /\ First # Second /\ Second # Third /\ First # Third
      /\ Place(First) = 0 /\ Place(Second) = 1 /\ Place(Third) = 2
      /\ (into = First \/ into = Second \/ into = Third)
  BY Places DEF ReaderTypeOK
<1>6. Second' = Second /\ Third' = Third
  BY PlacesStay
<1>7. \A i \in Batch : ~Held(i) => FragsOf(i) = <<>>
  BY DEF FragsOf
<1>8. PICK s \in Seq(Fragment) : s = stored
  BY DEF ReaderTypeOK
<1>9. PICK a \in Seq(Fragment) : a = FragsOf(First)
  BY <1>5, PendingType
<1>10. PICK b \in Seq(Fragment) : b = FragsOf(Second)
  BY <1>5, PendingType
<1>11. PICK c \in Seq(Fragment) : c = FragsOf(Third)
  BY <1>5, PendingType
<1>12. Pending = a \o b \o c /\ Pending' = FragsOf(First)' \o FragsOf(Second)' \o FragsOf(Third)'
  BY <1>9, <1>10, <1>11 DEF Pending
<1> HIDE DEF x
<1>15. PICK p : p = Append(a, x)
  OBVIOUS
<1>16. PICK q : q = Append(b, x)
  OBVIOUS
<1>17. PICK t : t = Append(c, x)
  OBVIOUS
<1>18. p \in Seq(Fragment) /\ q \in Seq(Fragment) /\ t \in Seq(Fragment)
  BY <1>1, <1>15, <1>16, <1>17, AppendProperties
<1>19. /\ OneMore(s, a, b, c, a, b, t, x)
       /\ c = <<>> => OneMore(s, a, b, c, a, q, c, x)
       /\ b = <<>> /\ c = <<>> => OneMore(s, a, b, c, p, b, c, x)
  BY <1>1, <1>15, <1>16, <1>17, PartsAppend, Zenon
<1>13. s \o Pending' = Append(s \o (a \o b \o c), x) /\ Pending' \in Seq(Fragment)
  <2>1. CASE into = Third
    <3>1. FragsOf(First)' = a /\ FragsOf(Second)' = b /\ FragsOf(Third)' = t
      BY <1>3, <1>4, <1>5, <1>6, <1>9, <1>10, <1>11, <1>17, <2>1
    <3>2. Pending' = a \o b \o t /\ OneMore(s, a, b, c, a, b, t, x)
      BY <1>12, <1>19, <3>1, Zenon
    <3>3. a \o b \o t \in Seq(Fragment)
      BY <1>18
    <3> QED
      BY <3>2, <3>3, Zenon DEF OneMore
  <2>2. CASE into = Second
    <3>1. FragsOf(First)' = a /\ FragsOf(Second)' = q /\ FragsOf(Third)' = c
      BY <1>3, <1>4, <1>5, <1>6, <1>9, <1>10, <1>11, <1>16, <2>2
    <3>2. c = <<>>
      BY <1>5, <1>7, <1>11, <2>2
    <3>3. Pending' = a \o q \o c /\ OneMore(s, a, b, c, a, q, c, x)
      BY <1>12, <1>19, <3>1, <3>2, Zenon
    <3>4. a \o q \o c \in Seq(Fragment)
      BY <1>18
    <3> QED
      BY <3>3, <3>4, Zenon DEF OneMore
  <2>3. CASE into = First
    <3>1. FragsOf(First)' = p /\ FragsOf(Second)' = b /\ FragsOf(Third)' = c
      BY <1>3, <1>4, <1>5, <1>6, <1>9, <1>10, <1>11, <1>15, <2>3
    <3>2. b = <<>> /\ c = <<>>
      BY <1>5, <1>7, <1>10, <1>11, <2>3
    <3>3. Pending' = p \o b \o c /\ OneMore(s, a, b, c, p, b, c, x)
      BY <1>12, <1>19, <3>1, <3>2, Zenon
    <3>4. p \o b \o c \in Seq(Fragment)
      BY <1>18
    <3> QED
      BY <3>3, <3>4, Zenon DEF OneMore
  <2> QED
    BY <1>5, <2>1, <2>2, <2>3
<1>14. CutSoFar' = stored \o Pending'
  BY <1>1, <1>2, <1>8, <1>12, <1>13, Zenon
<1> QED
  BY <1>8, <1>13, <1>14, AllPending

(* The reader's batch, which is the last in use, loses what it had.         *)
LEMMA PendingDrops ==
  ASSUME ReaderTypeOK, OrderInv, files' = files, NEW into \in Batch,
         CutSoFar' = CutSoFar, stored' = stored, First' = First,
         \A i \in Batch : i # into => FragsOf(i)' = FragsOf(i), FragsOf(into)' = <<>>,
         \A i \in Batch : Place(i) > Place(into) => ~Held(i),
         mpc # "failed", ~readError, readError'
  PROVE  OrderInv'
<1>2. CutSoFar = stored \o Pending
  <2>1. stored \o Pending \in Seq(Fragment)
    BY PendingType, ConcatProperties
  <2>2. PICK r \in Seq(Fragment) : CutSoFar = (stored \o Pending) \o r /\ r = <<>>
    BY DEF OrderInv
  <2> QED
    BY <2>1, <2>2, ConcatEmptySeq
<1>5. First \in Batch /\ Second \in Batch /\ Third \in Batch
      /\ First # Second /\ Second # Third /\ First # Third
      /\ Place(First) = 0 /\ Place(Second) = 1 /\ Place(Third) = 2
      /\ (into = First \/ into = Second \/ into = Third)
  BY Places DEF ReaderTypeOK
<1>6. Second' = Second /\ Third' = Third
  BY PlacesStay
<1>7. \A i \in Batch : ~Held(i) => FragsOf(i) = <<>>
  BY DEF FragsOf
<1>8. PICK s \in Seq(Fragment) : s = stored
  BY DEF ReaderTypeOK
<1>9. PICK a \in Seq(Fragment) : a = FragsOf(First)
  BY <1>5, PendingType
<1>10. PICK b \in Seq(Fragment) : b = FragsOf(Second)
  BY <1>5, PendingType
<1>11. PICK c \in Seq(Fragment) : c = FragsOf(Third)
  BY <1>5, PendingType
<1>12. Pending = a \o b \o c /\ Pending' = FragsOf(First)' \o FragsOf(Second)' \o FragsOf(Third)'
  BY <1>9, <1>10, <1>11 DEF Pending
<1>19. /\ LessEnd(Fragment, s, a, b, c, a, b, <<>>)
       /\ c = <<>> => LessEnd(Fragment, s, a, b, c, a, <<>>, c)
       /\ b = <<>> /\ c = <<>> => LessEnd(Fragment, s, a, b, c, <<>>, b, c)
  BY PartsDrop, Zenon
<1>13. \E r \in Seq(Fragment) : s \o (a \o b \o c) = (s \o Pending') \o r
  <2>1. CASE into = Third
    <3>1. FragsOf(First)' = a /\ FragsOf(Second)' = b /\ FragsOf(Third)' = <<>>
      BY <1>5, <1>6, <1>9, <1>10, <1>11, <2>1
    <3>2. Pending' = a \o b \o <<>> /\ LessEnd(Fragment, s, a, b, c, a, b, <<>>)
      BY <1>12, <1>19, <3>1, Zenon
    <3> QED
      BY <3>2, Zenon DEF LessEnd
  <2>2. CASE into = Second
    <3>1. FragsOf(First)' = a /\ FragsOf(Second)' = <<>> /\ FragsOf(Third)' = c
      BY <1>5, <1>6, <1>9, <1>10, <1>11, <2>2
    <3>2. c = <<>>
      BY <1>5, <1>7, <1>11, <2>2
    <3>3. Pending' = a \o <<>> \o c /\ LessEnd(Fragment, s, a, b, c, a, <<>>, c)
      BY <1>12, <1>19, <3>1, <3>2, Zenon
    <3> QED
      BY <3>3, Zenon DEF LessEnd
  <2>3. CASE into = First
    <3>1. FragsOf(First)' = <<>> /\ FragsOf(Second)' = b /\ FragsOf(Third)' = c
      BY <1>5, <1>6, <1>9, <1>10, <1>11, <2>3
    <3>2. b = <<>> /\ c = <<>>
      BY <1>5, <1>7, <1>10, <1>11, <2>3
    <3>3. Pending' = <<>> \o b \o c /\ LessEnd(Fragment, s, a, b, c, <<>>, b, c)
      BY <1>12, <1>19, <3>1, <3>2, Zenon
    <3> QED
      BY <3>3, Zenon DEF LessEnd
  <2> QED
    BY <1>5, <2>1, <2>2, <2>3
<1>14. \E r \in Seq(Fragment) : CutSoFar' = (stored' \o Pending') \o r
  BY <1>2, <1>8, <1>12, <1>13, Zenon
<1>15. Fragment' = Fragment
  BY DEF Fragment
<1>16. \E r \in Seq(Fragment) : CutSoFar' = stored' \o r
  BY DEF OrderInv
<1> QED
  BY <1>14, <1>15, <1>16, Zenon DEF OrderInv

(* The batch that comes first is stored, or given back with nothing in it.  *)
LEMMA PendingStored ==
  ASSUME ReaderTypeOK, OrderInv, files' = files, CutSoFar' = CutSoFar, First = mk, First' = First,
         \A i \in Batch : i # mk => FragsOf(i)' = FragsOf(i), FragsOf(mk)' = <<>>, mk' = mk,
         stored' = stored \o FragsOf(mk), readError' = readError, mpc # "failed"
  PROVE  OrderInv'
<1>1. First \in Batch /\ Second \in Batch /\ Third \in Batch
      /\ First # Second /\ First # Third
  BY Places DEF ReaderTypeOK
<1>2. Second' = Second /\ Third' = Third
  BY PlacesStay
<1>3. PICK s \in Seq(Fragment) : s = stored
  BY DEF ReaderTypeOK
<1>4. PICK a \in Seq(Fragment) : a = FragsOf(First)
  BY <1>1, PendingType
<1>5. PICK b \in Seq(Fragment) : b = FragsOf(Second)
  BY <1>1, PendingType
<1>6. PICK c \in Seq(Fragment) : c = FragsOf(Third)
  BY <1>1, PendingType
<1>7. FragsOf(First)' = <<>> /\ FragsOf(Second)' = b /\ FragsOf(Third)' = c
  BY <1>1, <1>2, <1>5, <1>6
<1>8. stored' \o Pending' = (s \o a) \o (<<>> \o b \o c)
  BY <1>3, <1>4, <1>7, Zenon DEF Pending
<1>9. stored \o Pending = s \o (a \o b \o c)
  BY <1>3, <1>4, <1>5, <1>6, Zenon DEF Pending
<1>10. stored' \o Pending' = stored \o Pending
  <2>1. Sums((s \o a) \o (<<>> \o b \o c), s \o (a \o b \o c))
    BY PartsStore, Zenon
  <2> QED
    BY <1>8, <1>9, <2>1, Zenon DEF Sums
<1>11. Fragment' = Fragment
  BY DEF Fragment
<1>12. PICK r \in Seq(Fragment) :
         CutSoFar' = (stored' \o Pending') \o r /\ (~readError' => r = <<>>)
  BY <1>10 DEF OrderInv
<1>13. stored' \in Seq(Fragment) /\ Pending' \in Seq(Fragment)
  <2>1. stored' = s \o a /\ Pending' = <<>> \o b \o c
    BY <1>3, <1>4, <1>7, Zenon DEF Pending
  <2>2. s \o a \in Seq(Fragment) /\ <<>> \o b \o c \in Seq(Fragment)
    BY ConcatProperties, ConcatEmptySeq
  <2> QED
    BY <2>1, <2>2, Zenon
<1>14. \E t \in Seq(Fragment) : CutSoFar' = stored' \o t
  <2>1. PICK u \in Seq(Fragment) : u = stored'
    BY <1>13
  <2>2. PICK v \in Seq(Fragment) : v = Pending'
    BY <1>13
  <2>3. PICK t \in Seq(Fragment) : Sums((u \o v) \o r, u \o t)
    BY PartsBegin, Zenon
  <2> QED
    BY <1>12, <2>1, <2>2, <2>3, Zenon DEF Sums
<1> QED
  BY <1>11, <1>12, <1>14, Zenon DEF OrderInv

(* A batch that is given back becomes the last one.                         *)
LEMMA PendingReturned ==
  ASSUME ReaderTypeOK, First = mk, mk' = mk, First' = Second, FragsOf(mk) = <<>>,
         \A i \in Batch : FragsOf(i)' = FragsOf(i)
  PROVE  Pending' = Pending
<1>1. First \in Batch /\ Second \in Batch /\ Third \in Batch /\ NextBatch(Third) = First
  BY Places DEF ReaderTypeOK
<1>2. Second' = Third /\ Third' = First
  BY <1>1 DEF Second, Third
<1>5. PICK b \in Seq(Fragment) : b = FragsOf(Second)
  BY <1>1, PendingType
<1>6. PICK c \in Seq(Fragment) : c = FragsOf(Third)
  BY <1>1, PendingType
<1>7. FragsOf(First)' = b /\ FragsOf(Second)' = c /\ FragsOf(Third)' = <<>>
  BY <1>1, <1>2, <1>5, <1>6
<1>8. Pending' = b \o c \o <<>>
  BY <1>7, Zenon DEF Pending
<1>9. Pending = <<>> \o b \o c
  BY <1>5, <1>6, Zenon DEF Pending
<1>10. Sums(b \o c \o <<>>, <<>> \o b \o c)
  BY PartsMove, Zenon
<1> QED
  BY <1>8, <1>9, <1>10, Zenon DEF Sums

ReadInv == ReaderTypeOK /\ OwnerInv /\ LastInv /\ Shape /\ OrderInv

(* The steps of the reader thread keep the order ...                        *)
LEMMA ReaderOrder ==
  ASSUME ReadInv, ReaderStep
  PROVE  OrderInv'
<1> USE DEF ReadInv
<1>1. /\ files' = files /\ alone' = alone /\ terminated' = terminated /\ stored' = stored
      /\ mpc' = mpc /\ mk' = mk /\ First' = First
  BY ReaderFrame DEF First
<1>2. rk \in Batch /\ mk \in Batch /\ freeEv \in [Batch -> BOOLEAN] /\ fullEv \in [Batch -> BOOLEAN]
      /\ batch \in [Batch -> [frags : Seq(Fragment), len : Nat, last : BOOLEAN]]
  BY DEF ReaderTypeOK
<1>3. ~alone
  <2>1. rpc # "none"
    BY DEF ReaderStep, ReaderTake, ReaderFill, ReaderFails, ReaderSignal, ReaderCheck
  <2> QED
    BY <2>1 DEF OwnerInv
<1>4. mpc # "fill"
  BY <1>3 DEF OwnerInv
<1>5. CASE ReaderTake
  <2>1. CutSoFar' = CutSoFar /\ readError' = readError
    BY <1>1, <1>5, CutFixed DEF ReaderTake
  <2>2. ASSUME mpc # "failed" PROVE \A i \in Batch : FragsOf(i)' = FragsOf(i)
    <3>1. ~terminated
      BY <2>2 DEF OwnerInv
    <3>2. rpc = "wait" /\ freeEv[rk] /\ rpc' = "fill" /\ FillBegins(rk) /\ rk' = rk /\ fullEv' = fullEv
      BY <1>5, <3>1 DEF ReaderTake
    <3>3. ~Held(rk)
      BY <1>4, <3>1, <3>2, <1>2 DEF Held, OwnerInv, BatchHasOneOwner
    <3>4. batch' = [j \in Batch |-> IF j = rk THEN Empty ELSE batch[j]]
      BY <1>1, <1>2, <3>2, FillBeginsType
    <3>5. ASSUME NEW i \in Batch, i = rk PROVE FragsOf(i)' = FragsOf(i)
      <4>1. batch'[i].frags = <<>> /\ ~Held(i)
        BY <3>3, <3>4, <3>5 DEF Empty
      <4> QED
        BY <4>1 DEF FragsOf
    <3>6. ASSUME NEW i \in Batch, i # rk PROVE FragsOf(i)' = FragsOf(i)
      <4>1. Held(i)' = Held(i) /\ batch'[i] = batch[i]
        BY <1>1, <1>2, <3>2, <3>4, <3>6 DEF Held
      <4> QED
        BY <4>1 DEF FragsOf
    <3> QED
      BY <3>5, <3>6
  <2> QED
    BY <1>1, <2>1, <2>2, PendingStays, NothingMoves
<1>6. CASE ReaderFill
  <2>1. rpc = "fill" /\ rpc' \in {"fill", "signal"} /\ fullEv' = fullEv /\ rk' = rk
        /\ readError' = readError /\ ~readError
    BY <1>6 DEF ReaderFill, eventVars, LastInv
  <2>2. \A i \in Batch : Held(i)' = Held(i)
    BY <1>1, <2>1 DEF Held
  <2>3. CASE OpenFile \/ SkipFile \/ (at >= 0 /\ CloseFile)
    <3>1. batch' = batch
      BY <2>3 DEF OpenFile, SkipFile, CloseFile
    <3>2. ASSUME NEW i \in Batch PROVE FragsOf(i)' = FragsOf(i)
      <4>1. Held(i)' = Held(i)
        BY <2>2
      <4> QED
        BY <3>1, <4>1 DEF FragsOf
    <3>3. CutSoFar' = CutSoFar
      BY <1>1, <2>3, CutStays
    <3> QED
      BY <1>1, <2>1, <3>2, <3>3, PendingStays, NothingMoves
  <2>4. CASE at >= 0 /\ AddFragment(rk)
    <3>1. CASE mpc = "failed"
      <4>1. PICK x : x = <<entry, at + 1>>
        OBVIOUS
      <4>2. CutSoFar' = Append(CutSoFar, x) /\ x \in Fragment
        BY <1>1, <1>2, <2>4, <4>1, CutGrows
      <4>3. Fragment' = Fragment /\ stored \in Seq(Fragment)
        BY <1>1, PendingType DEF Fragment
      <4> QED
        BY <1>1, <3>1, <4>2, <4>3, StillBegins
    <3>2. CASE mpc # "failed"
      <4>1. Held(rk) /\ \A i \in Batch : Place(i) > Place(rk) => ~Held(i)
        BY <2>1, <3>2 DEF Held, Shape, Occupied
      <4> QED
        BY <1>1, <1>2, <2>1, <2>2, <2>4, <3>2, <4>1, PendingGrows
    <3> QED
      BY <3>1, <3>2
  <2>5. CASE FillEnds(rk)
    <3>1. entry' = entry /\ at' = at /\ skipped' = skipped
          /\ \A i \in Batch : batch'[i].frags = batch[i].frags
      <4>1. CASE UNCHANGED readVars
        BY <4>1 DEF readVars
      <4>2. CASE /\ batch' = [batch EXCEPT ![rk].last = TRUE]
                 /\ UNCHANGED <<entry, at, size, skipped>>
        BY <1>2, <4>2
      <4> QED
        BY <2>5, <4>1, <4>2 DEF FillEnds
    <3>2. \A i \in Batch : FragsOf(i)' = FragsOf(i)
      BY <2>2, <3>1 DEF FragsOf
    <3>3. CutSoFar' = CutSoFar
      BY <1>1, <3>1, CutFixed
    <3> QED
      BY <1>1, <2>1, <3>2, <3>3, PendingStays, NothingMoves
  <2>6. OpenFile \/ SkipFile \/ (at >= 0 /\ (CloseFile \/ AddFragment(rk))) \/ FillEnds(rk)
    BY <1>6 DEF ReaderFill, FillGoesOn
  <2> QED
    BY <2>3, <2>4, <2>5, <2>6
<1>7. CASE ReaderFails
  <2>1. rpc = "fill" /\ rpc' = "signal" /\ fullEv' = fullEv /\ rk' = rk
        /\ readError' /\ ~readError /\ entry' = entry /\ at' = at /\ skipped' = skipped
        /\ batch' = [batch EXCEPT ![rk].frags = <<>>, ![rk].last = TRUE]
    BY <1>7 DEF ReaderFails, eventVars, LastInv
  <2>2. CutSoFar' = CutSoFar
    BY <1>1, <2>1, CutFixed
  <2>3. \A i \in Batch : Held(i)' = Held(i)
    BY <1>1, <2>1 DEF Held
  <2>4. \A i \in Batch : i # rk => FragsOf(i)' = FragsOf(i)
    BY <1>2, <2>1, <2>3 DEF FragsOf
  <2>5. FragsOf(rk)' = <<>>
    BY <1>2, <2>1 DEF FragsOf
  <2>6. CASE mpc = "failed"
    BY <1>1, <2>2, <2>6 DEF OrderInv, Fragment
  <2>7. CASE mpc # "failed"
    <3>1. \A i \in Batch : Place(i) > Place(rk) => ~Held(i)
      BY <2>1, <2>7 DEF Shape, Occupied
    <3> QED
      BY <1>1, <1>2, <2>1, <2>2, <2>4, <2>5, <2>7, <3>1, PendingDrops
  <2> QED
    BY <2>6, <2>7
<1>8. CASE ReaderSignal \/ ReaderCheck
  <2>1. /\ entry' = entry /\ at' = at /\ skipped' = skipped /\ batch' = batch
        /\ readError' = readError
    BY <1>8 DEF ReaderSignal, ReaderCheck, readVars
  <2>2. \A i \in Batch : Held(i)' = Held(i)
    <3>1. CASE ReaderSignal
      BY <1>1, <1>2, <3>1 DEF ReaderSignal, Held
    <3>2. CASE ReaderCheck
      <4>1. rpc = "check" /\ rpc' \in {"wait", "ended"} /\ fullEv' = fullEv
        BY <3>2 DEF ReaderCheck, eventVars
      <4> QED
        BY <1>1, <4>1 DEF Held
    <3> QED
      BY <1>8, <3>1, <3>2
  <2>3. \A i \in Batch : FragsOf(i)' = FragsOf(i)
    BY <2>1, <2>2 DEF FragsOf
  <2>4. CutSoFar' = CutSoFar
    BY <1>1, <2>1, CutFixed
  <2> QED
    BY <1>1, <2>1, <2>3, <2>4, PendingStays, NothingMoves
<1> QED
  BY <1>5, <1>6, <1>7, <1>8, ReaderFrame

(* ... and so do those of the main thread.                                  *)
LEMMA MainOrder ==
  ASSUME ReadInv, MainStep
  PROVE  OrderInv'
<1> USE DEF ReadInv
<1>1. files' = files /\ alone' = alone /\ rpc' = rpc /\ rk' = rk /\ readError' = readError
  BY MainFrame
<1>2. rk \in Batch /\ mk \in Batch /\ freeEv \in [Batch -> BOOLEAN] /\ fullEv \in [Batch -> BOOLEAN]
      /\ batch \in [Batch -> [frags : Seq(Fragment), len : Nat, last : BOOLEAN]]
      /\ 0 \in Batch
  BY Three DEF ReaderTypeOK
<1>3. CASE MainFill
  <2>1. mpc = "fill" /\ alone /\ mk = 0 /\ rpc = "none" /\ ~readError /\ \A i \in Batch : ~fullEv[i]
    BY <1>3, <1>2 DEF MainFill, OwnerInv, ReaderTypeOK
  <2>2. fullEv' = fullEv /\ stored' = stored /\ mk' = mk
    BY <1>3 DEF MainFill
  <2>3. CASE Fail /\ UNCHANGED readVars
    <3>1. mpc' = "failed" /\ entry' = entry /\ at' = at /\ skipped' = skipped
      BY <2>3 DEF Fail, readVars
    <3> QED
      BY <1>1, <2>2, <3>1, CutFixed, NothingMoves
  <2>4. ASSUME mpc' \in {"fill", "store"}
        PROVE  First' = First /\ \A i \in Batch : Held(i)' = Held(i)
    BY <1>1, <2>1, <2>2, <2>4 DEF First, Held
  <2>5. CASE (OpenFile \/ SkipFile \/ (at >= 0 /\ CloseFile)) /\ mpc' = mpc
    <3>1. batch' = batch
      BY <2>5 DEF OpenFile, SkipFile, CloseFile
    <3>2. ASSUME NEW i \in Batch PROVE FragsOf(i)' = FragsOf(i)
      <4>1. Held(i)' = Held(i)
        BY <2>1, <2>4, <2>5
      <4> QED
        BY <3>1, <4>1 DEF FragsOf
    <3>3. CutSoFar' = CutSoFar
      BY <1>1, <2>5, CutStays
    <3> QED
      BY <1>1, <2>1, <2>2, <2>4, <2>5, <3>2, <3>3, PendingStays, NothingMoves
  <2>6. CASE at >= 0 /\ AddFragment(0) /\ mpc' = mpc
    <3>1. First = 0 /\ Held(0)
      BY <2>1 DEF First, Held
    <3>2. \A i \in Batch : Place(i) > Place(0) => ~Held(i)
      <4> SUFFICES ASSUME NEW i \in Batch, Held(i) PROVE ~(Place(i) > Place(0))
        OBVIOUS
      <4>1. i = 0
        BY <2>1 DEF Held
      <4> QED
        BY <3>1, <4>1 DEF Place
    <3>3. First' = First /\ \A i \in Batch : Held(i)' = Held(i)
      BY <2>1, <2>4, <2>6
    <3> QED
      BY <1>1, <1>2, <2>1, <2>2, <2>6, <3>1, <3>2, <3>3, PendingGrows
  <2>7. CASE FillEnds(0) /\ mpc' = "store"
    <3>1. entry' = entry /\ at' = at /\ skipped' = skipped
          /\ \A i \in Batch : batch'[i].frags = batch[i].frags
      <4>1. CASE UNCHANGED readVars
        BY <4>1 DEF readVars
      <4>2. CASE /\ batch' = [batch EXCEPT ![0].last = TRUE]
                 /\ UNCHANGED <<entry, at, size, skipped>>
        BY <1>2, <4>2
      <4> QED
        BY <2>7, <4>1, <4>2 DEF FillEnds
    <3>2. ASSUME NEW i \in Batch PROVE FragsOf(i)' = FragsOf(i)
      <4>1. Held(i)' = Held(i)
        BY <2>4, <2>7
      <4> QED
        BY <3>1, <4>1 DEF FragsOf
    <3>3. CutSoFar' = CutSoFar
      BY <1>1, <3>1, CutFixed
    <3> QED
      BY <1>1, <2>1, <2>2, <2>4, <2>7, <3>2, <3>3, PendingStays, NothingMoves
  <2>8. \/ (OpenFile \/ SkipFile \/ (at >= 0 /\ (CloseFile \/ AddFragment(0)))) /\ mpc' = mpc
        \/ FillEnds(0) /\ mpc' = "store"
        \/ Fail /\ UNCHANGED readVars
    BY <1>3 DEF MainFill, FillGoesOn
  <2> QED
    BY <2>3, <2>5, <2>6, <2>7, <2>8
<1>4. ASSUME MainTake \/ MainStore \/ MainReturn \/ MainJoin \/ (MainUntil /\ ~alone)
      PROVE  batch' = batch /\ CutSoFar' = CutSoFar
  <2>1. batch' = batch /\ entry' = entry /\ at' = at /\ skipped' = skipped
    BY <1>4 DEF MainTake, MainStore, MainReturn, MainJoin, MainUntil, readVars
  <2> QED
    BY <1>1, <2>1, CutFixed
<1>5. CASE MainTake \/ MainJoin \/ (MainUntil /\ ~alone)
  <2>1. stored' = stored /\ mpc # "failed"
    BY <1>5 DEF MainTake, MainJoin, MainUntil
  <2>2. ASSUME mpc' # "failed"
        PROVE  First' = First /\ \A i \in Batch : Held(i)' = Held(i)
    <3>1. CASE MainTake
      BY <1>1, <1>2, <2>2, <3>1 DEF MainTake, Fail, First, Held
    <3>2. CASE MainJoin
      BY <1>1, <3>2 DEF MainJoin, eventVars, First, Held
    <3>3. CASE MainUntil /\ ~alone
      <4>1. mpc = "until" /\ mpc' \in {"join", "wait"} /\ mk' = NextBatch(mk) /\ fullEv' = fullEv
        BY <3>3 DEF MainUntil, eventVars
      <4> QED
        BY <1>1, <3>3, <4>1 DEF First, Held
    <3> QED
      BY <1>5, <3>1, <3>2, <3>3
  <2>3. batch' = batch /\ CutSoFar' = CutSoFar
    BY <1>4, <1>5
  <2>4. ASSUME mpc' # "failed" PROVE Pending' = Pending
    <3>1. ASSUME NEW i \in Batch PROVE FragsOf(i)' = FragsOf(i)
      <4>1. Held(i)' = Held(i)
        BY <2>2, <2>4
      <4> QED
        BY <2>3, <4>1 DEF FragsOf
    <3> QED
      BY <2>2, <2>4, <3>1, PendingStays
  <2> QED
    BY <1>1, <2>1, <2>3, <2>4, NothingMoves
<1>6. CASE MainUntil /\ alone
  <2>1. mpc = "until" /\ mpc' \in {"ok", "fill"} /\ mk' = mk /\ fullEv' = fullEv /\ stored' = stored
        /\ entry' = entry /\ at' = at /\ skipped' = skipped
        /\ (mpc' = "fill" => FillBegins(mk)) /\ (mpc' = "ok" => batch' = batch)
    BY <1>6 DEF MainUntil, eventVars
  <2>2. First' = First
    BY <1>1, <1>6, <2>1 DEF First
  <2>3. rpc = "none" /\ \A i \in Batch : ~fullEv[i]
    BY <1>6 DEF OwnerInv
  <2>4. \A i \in Batch : ~Held(i) /\ (Held(i)' => i = mk /\ mpc' = "fill")
    BY <1>1, <2>1, <2>3 DEF Held
  <2>5. ASSUME NEW i \in Batch PROVE FragsOf(i)' = FragsOf(i)
    <3>1. FragsOf(i) = <<>>
      BY <2>4 DEF FragsOf
    <3>2. FragsOf(i)' = <<>>
      <4>1. CASE Held(i)'
        <5>1. batch' = [j \in Batch |-> IF j = mk THEN Empty ELSE batch[j]] /\ i = mk
          BY <1>1, <1>2, <2>1, <2>4, <4>1, FillBeginsType
        <5>2. batch'[i].frags = <<>>
          BY <5>1 DEF Empty
        <5> QED
          BY <5>2 DEF FragsOf
      <4>2. CASE ~Held(i)'
        BY <4>2 DEF FragsOf
      <4> QED
        BY <4>1, <4>2
    <3> QED
      BY <3>1, <3>2
  <2>6. CutSoFar' = CutSoFar
    BY <1>1, <2>1, CutFixed
  <2> QED
    BY <1>1, <2>1, <2>2, <2>5, <2>6, PendingStays, NothingMoves
<1>7. CASE MainStore
  <2>1. CutSoFar' = CutSoFar /\ batch' = batch /\ fullEv' = fullEv /\ mk' = mk /\ mpc = "store"
    BY <1>4, <1>7 DEF MainStore
  <2>2. CASE stored' = stored /\ mpc' = "failed"
    BY <1>1, <2>1, <2>2, NothingMoves
  <2>3. CASE stored' = stored \o batch[mk].frags /\ mpc' = IF alone THEN "until" ELSE "return"
    <3>1. First = mk /\ First' = First
      BY <1>1, <2>1, <2>3 DEF First
    <3>2. Held(mk) /\ ~fullEv[mk] /\ ~(rpc \in {"fill", "signal"} /\ rk = mk)
      BY <2>1 DEF Held, OwnerInv, BatchHasOneOwner
    <3>3. FragsOf(mk) = batch[mk].frags
      BY <3>2 DEF FragsOf
    <3>4. FragsOf(mk)' = <<>>
      <4>1. ~Held(mk)'
        BY <1>1, <2>1, <2>3, <3>2 DEF Held
      <4> QED
        BY <4>1 DEF FragsOf
    <3>5. ASSUME NEW i \in Batch, i # mk PROVE FragsOf(i)' = FragsOf(i)
      <4>1. Held(i)' = Held(i)
        BY <1>1, <2>1, <2>3, <3>5 DEF Held
      <4> QED
        BY <2>1, <4>1 DEF FragsOf
    <3> QED
      BY <1>1, <2>1, <2>3, <3>1, <3>3, <3>4, <3>5, PendingStored
  <2> QED
    BY <1>7, <2>2, <2>3 DEF MainStore, Fail
<1>8. CASE MainReturn
  <2>1. CutSoFar' = CutSoFar /\ batch' = batch /\ fullEv' = fullEv /\ mk' = mk /\ mpc = "return"
        /\ mpc' = "until" /\ stored' = stored
    BY <1>4, <1>8 DEF MainReturn
  <2>2. ~alone
    BY <2>1 DEF OwnerInv
  <2>3. First = mk /\ First' = Second
    BY <1>1, <2>1, <2>2 DEF First, Second
  <2>4. \A i \in Batch : Held(i)' = Held(i)
    BY <1>1, <2>1 DEF Held
  <2>5. FragsOf(mk) = <<>>
    <3>1. ~Held(mk)
      BY <2>1 DEF Held, OwnerInv, BatchHasOneOwner
    <3> QED
      BY <3>1 DEF FragsOf
  <2>6. ASSUME NEW i \in Batch PROVE FragsOf(i)' = FragsOf(i)
    <3>1. Held(i)' = Held(i)
      BY <2>4
    <3> QED
      BY <2>1, <3>1 DEF FragsOf
  <2>7. Pending' = Pending
    BY <2>1, <2>3, <2>5, <2>6, PendingReturned
  <2> QED
    BY <1>1, <2>1, <2>7, NothingMoves
<1> QED
  BY <1>3, <1>5, <1>6, <1>7, <1>8, MainFrame

(* A step keeps it all, and it holds at the start.                          *)
LEMMA ReadStep ==
  ASSUME ReadInv, [Next]_vars
  PROVE  ReadInv'
<1>1. ReaderTypeOK' /\ OwnerInv' /\ LastInv' /\ Shape'
  BY TypeStep, OwnerStep, LastStep, ShapeStep DEF ReadInv
<1>2. CASE UNCHANGED vars
  <2>1. /\ files' = files /\ entry' = entry /\ at' = at /\ skipped' = skipped /\ stored' = stored
        /\ readError' = readError /\ mpc' = mpc /\ alone' = alone /\ mk' = mk /\ rk' = rk
        /\ rpc' = rpc /\ batch' = batch /\ fullEv' = fullEv
    BY <1>2 DEF vars, readVars, eventVars
  <2>2. CutSoFar' = CutSoFar
    BY <2>1, CutFixed DEF ReadInv
  <2>3. First' = First /\ \A i \in Batch : FragsOf(i)' = FragsOf(i)
    BY <2>1 DEF First, FragsOf, Held
  <2>4. Pending' = Pending
    BY <2>3, PendingStays DEF ReadInv
  <2> QED
    BY <1>1, <2>1, <2>2, <2>4, NothingMoves DEF ReadInv
<1> QED
  BY <1>1, <1>2, ReaderOrder, MainOrder DEF ReadInv, Next

(* At the start nothing was cut, and every batch is free.                   *)
LEMMA ReadStarts ==
  ASSUME Init
  PROVE  ReadInv
<1> USE DEF Init
<1>1. files \in Seq(Seq(Nat)) /\ Len(files) \in Nat
  <2>1. PICK n \in 0 .. MaxFiles :
          files \in [1 .. n -> UNION {[1 .. m -> 1 .. BatchSize] : m \in 0 .. MaxFragments}]
    OBVIOUS
  <2>2. n \in Nat /\ BatchSize \in Nat
    BY <2>1, ReaderAssumption
  <2>3. ASSUME NEW f \in UNION {[1 .. m -> 1 .. BatchSize] : m \in 0 .. MaxFragments}
        PROVE  f \in Seq(Nat)
    <3>1. PICK m \in 0 .. MaxFragments : f \in [1 .. m -> 1 .. BatchSize]
      BY <2>3
    <3>2. m \in Nat
      BY <3>1, ReaderAssumption
    <3>3. f \in [1 .. m -> Nat]
      BY <2>2, <3>1
    <3> QED
      BY <3>2, <3>3 DEF Seq
  <2>4. files \in [1 .. n -> Seq(Nat)]
    BY <2>1, <2>3
  <2>5. files \in Seq(Seq(Nat))
    BY <2>2, <2>4 DEF Seq
  <2> QED
    BY <2>5, LenProperties
<1>2. ReaderTypeOK
  <2>1. Empty \in [frags : Seq(Fragment), len : Nat, last : BOOLEAN]
    BY DEF Empty
  <2>2. 0 \in Batch
    BY Three
  <2>3. stored \in Seq(Fragment)
    OBVIOUS
  <2>4. batch \in [Batch -> [frags : Seq(Fragment), len : Nat, last : BOOLEAN]]
    <3>1. batch = [i \in Batch |-> Empty]
      OBVIOUS
    <3> QED
      BY ONLY <2>1, <3>1
  <2>5. freeEv \in [Batch -> BOOLEAN] /\ fullEv \in [Batch -> BOOLEAN]
    OBVIOUS
  <2>6. entry \in 1 .. Len(files) + 1 /\ at = -1 /\ skipped \subseteq 1 .. entry - 1
    <3>1. entry = 1 /\ at = -1 /\ skipped = {}
      OBVIOUS
    <3> QED
      BY ONLY <1>1, <3>1
  <2>7. /\ alone \in BOOLEAN /\ rk \in Batch /\ mk \in Batch /\ readError \in BOOLEAN
        /\ terminated \in BOOLEAN /\ rpc \in {"none", "wait"} /\ mpc \in {"fill", "wait"}
    BY <2>2
  <2>8. ~(at >= 0)
    OBVIOUS
  <2>9. at \in Int /\ at >= -1
    BY ONLY <2>6
  <2> QED
    BY ONLY <1>1, <2>3, <2>4, <2>5, <2>6, <2>7, <2>8, <2>9, Zenon DEF ReaderTypeOK
<1>3. OwnerInv
  BY <1>2, Three DEF OwnerInv, BatchHasOneOwner, ReaderTypeOK
<1>4. LastInv
  BY Three DEF LastInv, Empty
<1>5. First = 0 /\ First \in Batch
  BY Three DEF First
<1>6. ASSUME NEW i \in Batch, mpc # "fill" PROVE ~Occupied(i)
  BY <1>6 DEF Occupied, Held
<1>7. Shape
  <2>1. CASE alone
    BY <2>1 DEF Shape
  <2>2. CASE ~alone
    <3>1. Reading = First
      BY <1>5, <2>2 DEF Reading
    <3>2. Place(First) = 0 /\ \A i \in Batch : ~(Place(i) < 0)
      BY DEF Place
    <3> QED
      BY <1>6, <2>2, <3>1, <3>2 DEF Shape
  <2> QED
    BY <1>2, <2>1, <2>2 DEF ReaderTypeOK
<1>8. CutSoFar = <<>>
  <2> DEFINE c == CutsOf(entry, at, skipped)
  <2>1. \A f \in 1 .. Len(files) : c[f] = <<>>
    BY DEF CutsOf
  <2>2. c \in Seq({<<>>})
    <3>1. DOMAIN c = 1 .. Len(files) /\ c = [f \in 1 .. Len(files) |-> c[f]]
      BY DEF CutsOf
    <3> HIDE DEF c
    <3>2. c \in [1 .. Len(files) -> {<<>>}]
      BY ONLY <2>1, <3>1
    <3>3. PICK n \in Nat : n = Len(files)
      BY <1>1
    <3>4. c \in [1 .. n -> {<<>>}]
      BY ONLY <3>2, <3>3
    <3> QED
      BY ONLY <3>4 DEF Seq
  <2> QED
    BY <1>2, <2>2, CutNow, FlattenEmpty
<1>9. \A i \in Batch : FragsOf(i) = <<>>
  BY DEF FragsOf, Empty
<1>10. Pending = <<>>
  <2>1. FragsOf(First) = <<>> /\ FragsOf(Second) = <<>> /\ FragsOf(Third) = <<>>
    BY <1>2, <1>9, Places DEF ReaderTypeOK
  <2>2. <<>> \o <<>> \o <<>> = <<>>
    OBVIOUS
  <2> QED
    BY <2>1, <2>2 DEF Pending
<1>11. OrderInv
  <2>1. <<>> \in Seq(Fragment)
    BY EmptySeq
  <2>2. <<>> = <<>> \o <<>> /\ <<>> = (<<>> \o <<>>) \o <<>>
    OBVIOUS
  <2> QED
    BY <1>8, <1>10, <2>1, <2>2 DEF OrderInv
<1> QED
  BY <1>2, <1>3, <1>4, <1>7, <1>11 DEF ReadInv

-----------------------------------------------------------------------------
(* The inductive invariant of ReadAll, FillBatch and the reader thread.     *)
THEOREM ReaderInvariant == Spec => []ReadInv
<1>1. Init => ReadInv
  BY ReadStarts
<1>2. ReadInv /\ [Next]_vars => ReadInv'
  BY ReadStep
<1> QED
  BY <1>1, <1>2, PTL DEF Spec

(* A batch is never filled and stored at once, and no event is set for one  *)
(* that is in use (rdFree and rdFull of TAdder).                            *)
THEOREM BatchesHaveOneOwner == Spec => []BatchHasOneOwner
<1>1. ReadInv => BatchHasOneOwner
  BY DEF ReadInv, OwnerInv
<1> QED
  BY <1>1, ReaderInvariant, PTL

(* What is stored is the beginning of what was cut.                         *)
LEMMA OrderMeans == ReadInv => StoredInOrder
<1> SUFFICES ASSUME ReadInv PROVE StoredInOrder
  OBVIOUS
<1>1. PICK s \in Seq(Fragment) : s = stored
  BY DEF ReadInv, ReaderTypeOK
<1>2. PICK r \in Seq(Fragment) : CutSoFar = s \o r
  BY <1>1 DEF ReadInv, OrderInv
<1>3. IsPrefix(s, s \o r)
  BY PrefixIs
<1> QED
  BY <1>1, <1>2, <1>3, Zenon DEF StoredInOrder

(* StoreBatch stores the fragments in the order of the files, none missing, *)
(* repeated or out of turn, whatever the number of files and the cuts.      *)
THEOREM BatchesAreStoredInOrder == Spec => []StoredInOrder
BY OrderMeans, ReaderInvariant, PTL

(* When ReadAll returns, what is pending is in batches that were not taken. *)
LEMMA LossMeans == ReadInv => LossIsUntaken
<1> SUFFICES ASSUME ReadInv, mpc = "ok" PROVE LossIsUntaken
  BY DEF LossIsUntaken
<1>1. rpc \in {"none", "ended"} /\ (alone => AllRead) /\ (rpc = "ended" => AllRead \/ readError)
  BY DEF ReadInv, LastInv
<1>2. ~readError => AllRead
  BY <1>1 DEF ReadInv, OwnerInv
<1>3. readError => \E i \in Batch : fullEv[i]
  BY <1>1 DEF ReadInv, LastInv
<1>4. First = mk /\ Second = NextBatch(mk) /\ Third = NextBatch(NextBatch(mk))
  BY DEF First, Second, Third
<1>5. \A i \in Batch : Held(i) <=> fullEv[i]
  BY <1>1 DEF Held
<1>6. \A i \in Batch : FragsOf(i) = IF fullEv[i] THEN batch[i].frags ELSE <<>>
  BY <1>5 DEF FragsOf
<1>7. mk \in Batch /\ NextBatch(mk) \in Batch /\ NextBatch(NextBatch(mk)) \in Batch
  BY Three DEF ReadInv, ReaderTypeOK
<1>8. Pending = Untaken
  BY <1>4, <1>6, <1>7 DEF Pending, Untaken
<1>9. ASSUME ~readError PROVE stored \o Untaken = CutSoFar
  <2>1. CutSoFar = (stored \o Pending) \o <<>>
    BY <1>9 DEF ReadInv, OrderInv
  <2>2. stored \o Pending \in Seq(Fragment)
    BY PendingType, ConcatProperties DEF ReadInv
  <2> QED
    BY <1>8, <2>1, <2>2, ConcatEmptySeq
<1> QED
  BY <1>2, <1>3, <1>9 DEF LossIsUntaken, AllRead

(* ReadAll returns with fragments or an exception lost only in batches that *)
(* the main thread left untaken (b.last read after the batch went back).    *)
THEOREM LossIsOfUntakenBatches == Spec => []LossIsUntaken
BY LossMeans, ReaderInvariant, PTL

-----------------------------------------------------------------------------
(* The task pool.                                                           *)

(* What the counter says of the tasks: those below it were taken, once, and *)
(* one that has no result is some thread's, and only that thread's.         *)
CounterInv ==
  /\ \A i \in Task : claims[i] = IF i < next /\ i < count THEN 1 ELSE 0
  /\ \A t \in Thread : work[t] = "task" =>
       index[t] < count /\ index[t] < next /\ result[index[t]] = "none"
  /\ \A i \in Task : i >= next => result[i] = "none"
  /\ \A t, u \in Thread : work[t] = "task" /\ work[u] = "task" /\ index[t] = index[u] => t = u
  /\ \A i \in Task : i < count /\ i < next /\ result[i] = "none" =>
       \E t \in Thread : work[t] = "task" /\ index[t] = i

Quiet(h) == helper[h] = "asleep" /\ work[h] = "out" /\ ~startEv[h] /\ ~doneEv[h]

(* Which helpers are quiet, from where the caller is: before it wakes them, *)
(* and after it waited for them.                                            *)
HelpersInv ==
  /\ caller \in {"free", "alone", "returned", "raised"} => \A h \in Helper : Quiet(h)
  /\ caller = "wake" => NThreads > 1 /\ k < NThreads /\ \A h \in Helper : h >= k => Quiet(h)
  /\ caller = "wait" => \A h \in Helper : h < k => Quiet(h)
  /\ caller \in {"stop", "gone"} =>
       \A h \in Helper : helper[h] # "working" /\ work[h] = "out" /\ ~doneEv[h]
  /\ stopping <=> caller \in {"stop", "gone"}
  /\ \A h \in Helper :
       /\ work[h] # "out" => helper[h] = "working"
       /\ ~stopping => helper[h] # "ended"
       /\ ~stopping /\ (startEv[h] \/ doneEv[h]) => helper[h] = "asleep"
       /\ ~(startEv[h] /\ doneEv[h])

(* The caller leaves Work with the counter past the last task, or raising.  *)
CallerInv ==
  /\ caller \notin {"alone", "wait"} => work[Caller] = "out"
  /\ caller \in {"alone", "wait"} /\ work[Caller] = "out" /\ ~raised => next >= count
  /\ caller = "returned" => next >= count

PoolInv == TypeOK /\ CounterInv /\ HelpersInv /\ CallerInv

-----------------------------------------------------------------------------
(* The caller is a thread, every helper is, and the caller is no helper.    *)
LEMMA Threads ==
  /\ Caller \in Thread /\ Caller \notin Helper
  /\ Thread = Helper \cup {Caller}
  /\ Task \subseteq Nat /\ Helper \subseteq Nat
  /\ 0 \in Task
<1>1. \A t \in Thread : t \in Helper \/ t = Caller
  BY TaskPoolAssumption DEF Caller, Thread, Helper
<1>2. \A h \in Helper : h \in Thread /\ h # Caller /\ h \in Nat
  BY TaskPoolAssumption DEF Caller, Thread, Helper
<1>3. Caller \in Thread /\ 0 \in Task
  BY TaskPoolAssumption DEF Caller, Thread, Task
<1>4. Task \subseteq Nat
  BY TaskPoolAssumption DEF Task
<1> QED
  BY <1>1, <1>2, <1>3, <1>4

(* The invariant of the pool, at the start ...                              *)
LEMMA PoolStarts == PoolInit => PoolInv
<1> SUFFICES ASSUME PoolInit PROVE PoolInv
  OBVIOUS
<1> USE Threads, TaskPoolAssumption DEF PoolInit
<1>1. TypeOK
  <2>1. k \in 1 .. NThreads /\ next \in Nat /\ count \in 0 .. MaxCount /\ runs \in 0 .. MaxRuns
    OBVIOUS
  <2>2. index \in [Thread -> Task] /\ claims \in [Task -> Nat]
    OBVIOUS
  <2> QED
    BY <2>1, <2>2 DEF TypeOK
<1>2. CounterInv
  BY DEF CounterInv
<1>3. HelpersInv
  BY DEF HelpersInv, Quiet
<1>4. CallerInv
  BY DEF CallerInv
<1> QED
  BY <1>1, <1>2, <1>3, <1>4 DEF PoolInv

(* One step of Work, by any thread that is not quiet.                       *)
LEMMA WorkStep ==
  ASSUME PoolInv, NEW t \in Thread, Work(t)
  PROVE  PoolInv'
<1> USE Threads, TaskPoolAssumption DEF PoolInv
<1>1. work[t] \in {"claim", "task"}
  BY DEF Work, Claim, TaskDone, TaskFails
<1>2. t = Caller \/ (t \in Helper /\ helper[t] = "working")
  BY <1>1 DEF HelpersInv
<1>3. /\ \A u \in Thread : u # t => work'[u] = work[u]
      /\ work' \in [Thread -> {"out", "claim", "task"}]
  BY DEF Work, Claim, TaskDone, TaskFails, TypeOK
<1>4. UNCHANGED <<caller, k, helper, startEv, doneEv, count, stopping, runs>>
  BY DEF Work, Claim, TaskDone, TaskFails
<1>5. HelpersInv'
  BY <1>1, <1>2, <1>3, <1>4 DEF HelpersInv, Quiet
<1>6. CASE Claim(t)
  <2>1. TypeOK'
    <3>1. next' \in Nat
      BY <1>6 DEF Claim, TypeOK
    <3>2. index' \in [Thread -> Task] /\ claims' \in [Task -> Nat]
      <4>1. CASE next < count
        <5>1. next \in Task
          BY <4>1 DEF TypeOK, Task
        <5> QED
          BY <1>6, <4>1, <5>1 DEF Claim, TypeOK
      <4> QED
        BY <1>6, <4>1 DEF Claim, TypeOK
    <3> QED
      BY <1>6, <1>3, <1>4, <3>1, <3>2 DEF Claim, TypeOK
  <2>2. CallerInv'
    BY <1>6, <1>1, <1>2, <1>3, <1>4 DEF Claim, CallerInv, HelpersInv, Quiet, TypeOK
  <2>3. CounterInv'
    <3>1. CASE next < count
      <4>1. next \in Task /\ next' = next + 1
        BY <1>6, <3>1 DEF Claim, TypeOK, Task
      <4>2. /\ index' = [index EXCEPT ![t] = next]
            /\ claims' = [claims EXCEPT ![next] = @ + 1]
            /\ work' = [work EXCEPT ![t] = "task"]
            /\ result' = result /\ count' = count
        BY <1>6, <3>1 DEF Claim
      <4>3. \A i \in Task : claims'[i] = IF i < next' /\ i < count' THEN 1 ELSE 0
        BY <3>1, <4>1, <4>2 DEF CounterInv, TypeOK
      <4>4. \A u \in Thread : work'[u] = "task" =>
              index'[u] < count' /\ index'[u] < next' /\ result'[index'[u]] = "none"
        <5> SUFFICES ASSUME NEW u \in Thread, work'[u] = "task"
                     PROVE  index'[u] < count' /\ index'[u] < next' /\ result'[index'[u]] = "none"
          OBVIOUS
        <5>1. CASE u = t
          BY <3>1, <4>1, <4>2, <5>1 DEF CounterInv, TypeOK
        <5>2. CASE u # t
          <6>1. index'[u] = index[u] /\ work[u] = "task" /\ index[u] \in Nat
            BY <4>2, <5>2, <1>3 DEF TypeOK
          <6> QED
            BY <4>1, <4>2, <6>1 DEF CounterInv, TypeOK
        <5> QED
          BY <5>1, <5>2
      <4>5. \A i \in Task : i >= next' => result'[i] = "none"
        BY <4>1, <4>2 DEF CounterInv, TypeOK
      <4>6. \A u, v \in Thread : work'[u] = "task" /\ work'[v] = "task" /\ index'[u] = index'[v]
              => u = v
        BY <4>1, <4>2 DEF CounterInv, TypeOK
      <4>7. \A i \in Task : i < count' /\ i < next' /\ result'[i] = "none" =>
              \E u \in Thread : work'[u] = "task" /\ index'[u] = i
        <5> SUFFICES ASSUME NEW i \in Task, i < count', i < next', result'[i] = "none"
                     PROVE  \E u \in Thread : work'[u] = "task" /\ index'[u] = i
          OBVIOUS
        <5>1. CASE i = next
          BY <5>1, <4>2 DEF TypeOK
        <5>2. CASE i < next
          <6>1. PICK u \in Thread : work[u] = "task" /\ index[u] = i
            BY <5>2, <4>2 DEF CounterInv
          <6>2. u # t
            BY <6>1, <1>6 DEF Claim
          <6> QED
            BY <6>1, <6>2, <4>2 DEF TypeOK
        <5> QED
          BY <5>1, <5>2, <4>1 DEF TypeOK
      <4> QED
        BY <4>3, <4>4, <4>5, <4>6, <4>7 DEF CounterInv
    <3>2. CASE ~(next < count)
      <4>1. /\ next' = next + 1 /\ UNCHANGED <<index, claims, result, count>>
            /\ work' = [work EXCEPT ![t] = "out"] /\ work[t] = "claim"
        BY <1>6, <3>2 DEF Claim
      <4>2. \A u \in Thread : work'[u] = "task" <=> work[u] = "task"
        BY <4>1 DEF TypeOK
      <4> QED
        BY <3>2, <4>1, <4>2 DEF CounterInv, TypeOK, Task
    <3> QED
      BY <3>1, <3>2
  <2> QED
    BY <1>5, <2>1, <2>2, <2>3
<1>7. CASE TaskDone(t) \/ TaskFails(t)
  <2>1. /\ work[t] = "task" /\ work'[t] # "task" /\ UNCHANGED <<next, count, index, claims>>
        /\ \E r \in {"done", "failed"} : result' = [result EXCEPT ![index[t]] = r]
    BY <1>7 DEF TaskDone, TaskFails, TypeOK
  <2>2. TypeOK'
    <3>1. result' \in [Task -> {"none", "done", "failed"}]
      BY <2>1 DEF TypeOK
    <3>2. raised' \in BOOLEAN /\ failed' \in BOOLEAN
      BY <1>7 DEF TaskDone, TaskFails, TypeOK
    <3> QED
      BY <1>3, <1>4, <2>1, <3>1, <3>2 DEF TypeOK
  <2>3. CallerInv'
    <3>1. next' = next /\ count' = count /\ caller' = caller
      BY <1>4, <2>1
    <3>2. CASE t = Caller
      <4>1. caller \in {"alone", "wait"}
        BY <1>1, <3>2 DEF CallerInv
      <4>2. work'[Caller] = "out" => raised'
        BY <1>7, <3>2 DEF TaskDone, TaskFails, TypeOK
      <4> QED
        BY <3>1, <4>1, <4>2 DEF CallerInv
    <3>3. CASE t # Caller
      <4>1. work'[Caller] = work[Caller]
        BY <1>3, <3>3
      <4>2. raised => raised'
        BY <1>7 DEF TaskDone, TaskFails
      <4> QED
        BY <3>1, <4>1, <4>2 DEF CallerInv
    <3> QED
      BY <3>2, <3>3
  <2>4. CounterInv'
    BY <1>3, <1>4, <2>1 DEF CounterInv, TypeOK
  <2> QED
    BY <1>5, <2>2, <2>3, <2>4
<1> QED
  BY <1>6, <1>7 DEF Work

(* ... after every step ...                                                 *)
LEMMA PoolStep == PoolInv /\ [PoolNext]_poolVars => PoolInv'
<1> SUFFICES ASSUME PoolInv, [PoolNext]_poolVars PROVE PoolInv'
  OBVIOUS
<1> USE Threads, TaskPoolAssumption DEF PoolInv
<1>1. ASSUME NEW t \in Thread, Work(t) PROVE PoolInv'
  BY <1>1, WorkStep
<1>2. ASSUME NEW h \in Helper, HelperWake(h) PROVE PoolInv'
  <2>1. TypeOK'
    BY <1>2 DEF HelperWake, TypeOK
  <2>2. CounterInv'
    BY <1>2 DEF HelperWake, CounterInv, HelpersInv, TypeOK
  <2>3. HelpersInv'
    BY <1>2 DEF HelperWake, HelpersInv, Quiet, TypeOK
  <2>4. CallerInv'
    BY <1>2 DEF HelperWake, CallerInv, TypeOK
  <2> QED
    BY <2>1, <2>2, <2>3, <2>4
<1>3. ASSUME NEW h \in Helper, HelperSignal(h) PROVE PoolInv'
  <2>1. TypeOK'
    BY <1>3 DEF HelperSignal, TypeOK
  <2>2. CounterInv'
    BY <1>3 DEF HelperSignal, CounterInv
  <2>3. HelpersInv'
    BY <1>3 DEF HelperSignal, HelpersInv, Quiet, TypeOK
  <2>4. CallerInv'
    BY <1>3 DEF HelperSignal, CallerInv
  <2> QED
    BY <2>1, <2>2, <2>3, <2>4
<1>4. ASSUME NEW n \in 1 .. MaxCount, Run(n) PROVE PoolInv'
  <2>1. \A h \in Helper : Quiet(h)
    BY <1>4 DEF Run, HelpersInv
  <2>2. \A t \in Thread : work'[t] # "task"
    BY <1>4, <2>1 DEF Run, CallerInv, Quiet, TypeOK
  <2>3. TypeOK'
    <3>1. count' \in 0 .. MaxCount /\ next' \in Nat /\ runs' \in 0 .. MaxRuns /\ k' \in 1 .. NThreads
      BY <1>4 DEF Run, TypeOK
    <3>2. /\ claims' \in [Task -> Nat] /\ result' \in [Task -> {"none", "done", "failed"}]
          /\ work' \in [Thread -> {"out", "claim", "task"}]
      BY <1>4 DEF Run, TypeOK
    <3> QED
      BY <1>4, <3>1, <3>2 DEF Run, TypeOK
  <2>4. CounterInv'
    BY <1>4, <2>2 DEF Run, CounterInv
  <2>5. HelpersInv'
    <3>1. \A h \in Helper : Quiet(h)'
      BY <1>4, <2>1 DEF Run, Quiet, TypeOK
    <3>2. caller' = "wake" => NThreads > 1 /\ k' < NThreads
      BY <1>4 DEF Run, Helper
    <3>3. ~stopping' /\ caller' \in {"alone", "wake"}
      BY <1>4 DEF Run, HelpersInv
    <3> QED
      BY <3>1, <3>2, <3>3 DEF HelpersInv, Quiet
  <2>6. CallerInv'
    BY <1>4 DEF Run, CallerInv, TypeOK
  <2> QED
    BY <2>3, <2>4, <2>5, <2>6
<1>5. ASSUME Wake PROVE PoolInv'
  <2>1. k \in Helper
    BY <1>5 DEF Wake, HelpersInv, TypeOK, Helper
  <2>2. TypeOK'
    BY <1>5, <2>1 DEF Wake, TypeOK, Helper
  <2>3. CounterInv'
    BY <1>5 DEF Wake, CounterInv
  <2>4. HelpersInv'
    BY <1>5, <2>1 DEF Wake, HelpersInv, Quiet, TypeOK
  <2>5. CallerInv'
    BY <1>5 DEF Wake, CallerInv
  <2> QED
    BY <2>2, <2>3, <2>4, <2>5
<1>6. ASSUME Clear PROVE PoolInv'
  <2>1. TypeOK'
    <3>1. k' \in 1 .. NThreads /\ work' \in [Thread -> {"out", "claim", "task"}]
      BY <1>6 DEF Clear, TypeOK
    <3> QED
      BY <1>6, <3>1 DEF Clear, TypeOK
  <2>2. CounterInv'
    BY <1>6 DEF Clear, CounterInv, CallerInv, TypeOK
  <2>3. HelpersInv'
    BY <1>6 DEF Clear, HelpersInv, Quiet, TypeOK, Helper
  <2>4. CallerInv'
    BY <1>6 DEF Clear, CallerInv, TypeOK
  <2> QED
    BY <2>1, <2>2, <2>3, <2>4
<1>7. ASSUME Wait PROVE PoolInv'
  <2>1. k \in Helper
    BY <1>7 DEF Wait, TypeOK, Helper
  <2>2. TypeOK'
    <3>1. k' \in 1 .. NThreads
      BY <1>7 DEF Wait, TypeOK
    <3> QED
      BY <1>7, <3>1 DEF Wait, TypeOK
  <2>3. CounterInv'
    BY <1>7 DEF Wait, CounterInv
  <2>4. HelpersInv'
    BY <1>7, <2>1 DEF Wait, HelpersInv, Quiet, TypeOK
  <2>5. CallerInv'
    BY <1>7 DEF Wait, CallerInv
  <2> QED
    BY <2>2, <2>3, <2>4, <2>5
<1>8. ASSUME Return PROVE PoolInv'
  <2>1. TypeOK'
    BY <1>8 DEF Return, TypeOK
  <2>2. CounterInv'
    BY <1>8 DEF Return, CounterInv
  <2>3. HelpersInv'
    BY <1>8 DEF Return, HelpersInv, Quiet, Helper
  <2>4. CallerInv'
    BY <1>8 DEF Return, CallerInv
  <2> QED
    BY <2>1, <2>2, <2>3, <2>4
<1>9. ASSUME Destroy \/ StopHelper \/ Join PROVE PoolInv'
  <2>1. TypeOK'
    <3>1. k' \in 1 .. NThreads
      BY <1>9 DEF Destroy, StopHelper, Join, TypeOK
    <3> QED
      BY <1>9, <3>1 DEF Destroy, StopHelper, Join, TypeOK
  <2>2. CounterInv'
    BY <1>9 DEF Destroy, StopHelper, Join, CounterInv
  <2>3. HelpersInv'
    <3>1. CASE Destroy
      BY <3>1 DEF Destroy, HelpersInv, Quiet
    <3>2. CASE StopHelper
      BY <3>2 DEF StopHelper, HelpersInv, Quiet, TypeOK
    <3>3. CASE Join
      BY <3>3 DEF Join, HelpersInv, Quiet
    <3> QED
      BY <1>9, <3>1, <3>2, <3>3
  <2>4. CallerInv'
    BY <1>9 DEF Destroy, StopHelper, Join, CallerInv
  <2> QED
    BY <2>1, <2>2, <2>3, <2>4
<1>10. ASSUME UNCHANGED poolVars PROVE PoolInv'
  BY <1>10 DEF poolVars, TypeOK, CounterInv, HelpersInv, Quiet, CallerInv
<1> QED
  BY <1>1, <1>2, <1>3, <1>4, <1>5, <1>6, <1>7, <1>8, <1>9, <1>10
     DEF PoolNext, CallerStep, HelperStep

(* ... and so always.                                                       *)
LEMMA PoolInvariant == PoolSpec => []PoolInv
BY PoolStarts, PoolStep, PTL DEF PoolSpec

-----------------------------------------------------------------------------
(* The pool's state is well typed.                                          *)
THEOREM PoolTypeCorrect == PoolSpec => []TypeOK
BY PoolInvariant, PTL DEF PoolInv

(* No index of a Run is passed to proc twice, and no two threads work on    *)
(* the same one (InterLockedIncrement in TTaskPool.Work).                   *)
THEOREM TasksTakenOnce == PoolSpec => []EachTaskOnce
<1>1. PoolInv => EachTaskOnce
  BY DEF PoolInv, CounterInv, EachTaskOnce
<1> QED
  BY <1>1, PoolInvariant, PTL

(* When Run has ended, no helper works or has been told to: Run waits for   *)
(* every done event even when its own task raised.                          *)
THEOREM RunLeavesHelpersQuiet == PoolSpec => []QuietBetweenRuns
<1>1. PoolInv => QuietBetweenRuns
  BY DEF PoolInv, HelpersInv, Quiet, QuietBetweenRuns
<1> QED
  BY <1>1, PoolInvariant, PTL

(* When Run returns, every index was passed to proc and that call ended.    *)
THEOREM RunRunsAll == PoolSpec => []ReturnMeansAllRun
<1>1. PoolInv => ReturnMeansAllRun
  <2> SUFFICES ASSUME PoolInv, caller = "returned", NEW i \in 0 .. count - 1
               PROVE  result[i] # "none"
    BY DEF ReturnMeansAllRun
  <2>1. i \in Task /\ i < count /\ i < next
    BY TaskPoolAssumption DEF PoolInv, TypeOK, CallerInv, Task
  <2>2. \A t \in Thread : work[t] = "out"
    BY Threads DEF PoolInv, HelpersInv, Quiet, CallerInv
  <2> QED
    BY <2>1, <2>2 DEF PoolInv, CounterInv
<1> QED
  BY <1>1, PoolInvariant, PTL
-----------------------------------------------------------------------------
(* HashLanes: the hashing of many fragments.                                *)

(* Multiples of a block.                                                    *)
LEMMA Multiples ==
  ASSUME NEW b \in Nat \ {0}
  PROVE  /\ 0 * b = 0 /\ 1 * b = b
         /\ \A j \in Nat : j * b \in Nat /\ (j + 1) * b = j * b + b
         /\ \A i, j \in Nat : (i + j) * b = i * b + j * b
         /\ \A i, j \in Nat : i <= j => i * b <= j * b
<1>1. \A j \in Nat : j * b \in Nat /\ (j + 1) * b = j * b + b
  OBVIOUS
<1>2. \A i, j \in Nat : (i + j) * b = i * b + j * b
  OBVIOUS
<1>3. ASSUME NEW i \in Nat, NEW j \in Nat, i <= j PROVE i * b <= j * b
  <2>1. PICK d \in Nat : j = i + d
    <3>1. j - i \in Nat /\ j = i + (j - i)
      BY <1>3
    <3> QED
      BY <3>1
  <2> QED
    BY <1>1, <1>2, <2>1
<1> QED
  BY <1>1, <1>2, <1>3

(* So many blocks hold n bytes, and no fewer.                               *)
LEMMA CeilIs ==
  ASSUME NEW b \in Nat \ {0}, NEW n \in Nat \ {0}, NEW q, q = (n + b - 1) \div b
  PROVE  /\ q \in Nat \ {0} /\ n <= q * b
         /\ \A j \in Nat : n <= j * b => q <= j
<1>1. PICK m \in Nat \ {0} : m = n + b - 1
  OBVIOUS
<1>2. q \in Int /\ q * b <= m /\ m < q * b + b
  BY <1>1
<1>3. q \in Nat /\ n <= q * b
  BY <1>1, <1>2
<1>4. q # 0
  BY <1>3
<1>5. ASSUME NEW j \in Nat, n <= j * b PROVE q <= j
  <2> SUFFICES ASSUME j + 1 <= q PROVE FALSE
    BY <1>3
  <2>1. (j + 1) * b <= q * b /\ (j + 1) * b = j * b + b /\ j * b \in Nat /\ q * b \in Nat
    BY <1>3, Multiples
  <2> QED
    BY <1>1, <1>2, <1>5, <2>1
<1> QED
  BY <1>3, <1>4, <1>5

LEMMA FloorIs ==
  ASSUME NEW b \in Nat \ {0}, NEW n \in Nat \ {0}, NEW q, q = (n - 1) \div b
  PROVE  q \in Nat /\ q * b < n /\ n <= q * b + b
<1>1. PICK m \in Nat : m = n - 1
  OBVIOUS
<1>2. q \in Int /\ q * b <= m /\ m < q * b + b
  BY <1>1
<1>3. q \in Nat
  BY <1>1, <1>2
<1>4. q * b \in Nat
  BY <1>3
<1> QED
  BY <1>1, <1>2, <1>3, <1>4

-----------------------------------------------------------------------------
(* What of a message alone is compressed, one block at a time.              *)
Keys == IF keyed THEN 1 ELSE 0
Total(m) == len[m] + Keys * Block
Blocks(m) == IF Total(m) = 0 THEN 1 ELSE (Total(m) + Block - 1) \div Block
From(i) == (i - 1 - Keys) * Block
StepAt(m, i) ==
  Step(IF i <= Keys THEN KeyBlock ELSE Data(m, From(i), Min2(Block, len[m] - From(i))),
       Min2(i * Block, Total(m)), i = Blocks(m))

LEMMA AloneIs ==
  ASSUME NEW m
  PROVE  Alone(m) = [i \in 1 .. Blocks(m) |-> StepAt(m, i)]
BY DEF Alone, Blocks, StepAt, Total, From, Keys

LEMMA BlocksAre ==
  ASSUME NEW m, len[m] \in Nat, keyed \in BOOLEAN
  PROVE  /\ Keys \in {0, 1} /\ Total(m) \in Nat /\ Keys * Block \in Nat
         /\ Total(m) = len[m] + Keys * Block
         /\ Blocks(m) \in Nat \ {0}
         /\ Total(m) <= Blocks(m) * Block
         /\ \A j \in Nat \ {0} : Total(m) <= j * Block => Blocks(m) <= j
<1>1. Keys \in {0, 1}
  BY DEF Keys
<1>2. Keys * Block \in Nat /\ 1 * Block = Block /\ Block \in Nat \ {0}
  BY <1>1, LanesAssumption
<1>3. Total(m) \in Nat /\ Total(m) = len[m] + Keys * Block
  BY <1>2 DEF Total
<1>4. CASE Total(m) = 0
  <2>1. Blocks(m) = 1
    BY <1>4 DEF Blocks
  <2> QED
    BY <1>1, <1>2, <1>3, <1>4, <2>1
<1>5. CASE Total(m) # 0
  <2>1. PICK n \in Nat \ {0} : n = Total(m)
    BY <1>3, <1>5
  <2>2. PICK q : q = (n + Block - 1) \div Block
    OBVIOUS
  <2>3. Blocks(m) = q
    BY <1>5, <2>1, <2>2 DEF Blocks
  <2>4. /\ q \in Nat \ {0} /\ n <= q * Block
        /\ \A j \in Nat : n <= j * Block => q <= j
    <3>1. PICK b \in Nat \ {0} : b = Block
      BY <1>2
    <3>2. q = (n + b - 1) \div b
      BY <2>2, <3>1
    <3>3. q \in Nat \ {0} /\ n <= q * b /\ \A j \in Nat : n <= j * b => q <= j
      BY ONLY <3>2, CeilIs
    <3> QED
      BY <3>1, <3>3
  <2> QED
    BY <1>1, <1>2, <1>3, <2>1, <2>3, <2>4
<1> QED
  BY <1>4, <1>5

(* The first j blocks of a message, and a lane in which just they were      *)
(* compressed.                                                              *)
HashOf(m, j) == [i \in 1 .. j |-> StepAt(m, i)]
LaneAt(m, j) ==
  [which |-> m,
   left |-> IF keyed /\ j = 0 THEN len[m] ELSE Total(m) - j * Block,
   t |-> j * Block,
   keyFirst |-> keyed /\ j = 0,
   h |-> HashOf(m, j)]

LEMMA HashIsSeq ==
  ASSUME NEW m, NEW j \in Nat
  PROVE  /\ HashOf(m, j) \in Seq({StepAt(m, i) : i \in Nat})
         /\ Len(HashOf(m, j)) = j
         /\ \A i \in 1 .. j : HashOf(m, j)[i] = StepAt(m, i)
<1> DEFINE S == {StepAt(m, i) : i \in Nat}
<1>1. PICK f : f = HashOf(m, j)
  OBVIOUS
<1>2. DOMAIN f = 1 .. j /\ \A i \in 1 .. j : f[i] = StepAt(m, i) /\ f[i] \in S
  BY <1>1 DEF HashOf
<1>3. f = [i \in 1 .. j |-> f[i]]
  BY <1>1 DEF HashOf
<1> HIDE DEF S
<1>4. f \in [1 .. j -> S]
  BY ONLY <1>2, <1>3
<1>5. f \in Seq(S) /\ Len(f) = j
  BY ONLY <1>4, j \in Nat DEF Seq
<1> QED
  BY <1>1, <1>2, <1>5 DEF S

LEMMA HashAppend ==
  ASSUME NEW m, NEW j \in Nat, NEW x, x = StepAt(m, j + 1)
  PROVE  Append(HashOf(m, j), x) = HashOf(m, j + 1)
<1> DEFINE S == {StepAt(m, i) : i \in Nat}
<1>1. PICK f : f = HashOf(m, j)
  OBVIOUS
<1>2. PICK g : g = HashOf(m, j + 1)
  OBVIOUS
<1>3. j + 1 \in Nat
  OBVIOUS
<1>4. f \in Seq(S) /\ Len(f) = j /\ \A i \in 1 .. j : f[i] = StepAt(m, i)
  BY <1>1, HashIsSeq
<1>5. g \in Seq(S) /\ Len(g) = j + 1 /\ \A i \in 1 .. j + 1 : g[i] = StepAt(m, i)
  BY <1>2, <1>3, HashIsSeq
<1>6. x \in S
  OBVIOUS
<1> HIDE DEF S
<1>7. PICK a : a = Append(f, x)
  OBVIOUS
<1>8. /\ a \in Seq(S) /\ Len(a) = j + 1
      /\ \A i \in 1 .. j : a[i] = f[i]
      /\ a[j + 1] = x
  BY <1>4, <1>6, <1>7, AppendProperties
<1>9. \A i \in 1 .. j + 1 : a[i] = g[i]
  BY <1>4, <1>5, <1>8
<1>10. a = g
  BY ONLY <1>5, <1>8, <1>9, SeqEqual
<1> QED
  BY <1>1, <1>2, <1>7, <1>10

LEMMA FreshIs ==
  ASSUME NEW m, len[m] \in Nat, keyed \in BOOLEAN
  PROVE  Fresh(m) = LaneAt(m, 0) /\ 0 < Blocks(m)
<1>1. HashOf(m, 0) = <<>>
  BY HashIsSeq, EmptySeq
<1>2. 0 * Block = 0
  BY LanesAssumption
<1>3. ~keyed => Total(m) = len[m]
  BY BlocksAre, <1>2 DEF Keys
<1>4. (keyed /\ 0 = 0) = keyed /\ (IF keyed /\ 0 = 0 THEN len[m] ELSE Total(m) - 0 * Block) = len[m]
  BY <1>2, <1>3
<1>5. 0 < Blocks(m)
  BY BlocksAre
<1> QED
  BY <1>1, <1>2, <1>4, <1>5 DEF Fresh, LaneAt

(* The next block of a message of which j were compressed: the key block,   *)
(* one that is full and not the last, or what is left.                      *)
LEMMA KeyStep ==
  ASSUME NEW m, len[m] \in Nat, keyed = TRUE
  PROVE  /\ StepAt(m, 0 + 1) = Step(KeyBlock, 0 * Block + Block, len[m] = 0)
         /\ (len[m] = 0) = (0 + 1 = Blocks(m))
<1>1. Keys = 1 /\ 1 * Block = Block /\ 0 * Block = 0 /\ Block \in Nat \ {0} /\ 2 * Block = Block + Block
  BY LanesAssumption DEF Keys
<1>2. /\ Total(m) = len[m] + Block
      /\ Blocks(m) \in Nat \ {0}
      /\ Total(m) <= Blocks(m) * Block
      /\ \A j \in Nat \ {0} : Total(m) <= j * Block => Blocks(m) <= j
  BY <1>1, BlocksAre
<1>3. Min2(1 * Block, Total(m)) = Block
  BY <1>1, <1>2 DEF Min2
<1>4. len[m] = 0 => Blocks(m) = 1
  BY <1>1, <1>2
<1>5. Blocks(m) = 1 => len[m] = 0
  BY <1>1, <1>2
<1>6. (len[m] = 0) = (1 = Blocks(m))
  BY <1>4, <1>5
<1>7. 0 + 1 = 1 /\ 0 * Block + Block = Block /\ 1 <= Keys
  BY <1>1
<1> QED
  BY <1>3, <1>6, <1>7 DEF StepAt

Left(m, j) == Total(m) - j * Block
NextFull(m, left, t) == Step(Data(m, len[m] - left, Block), t + Block, FALSE)
NextLast(m, left, t) == Step(Data(m, len[m] - left, left), t + left, TRUE)

LEMMA DataStep ==
  ASSUME NEW m, len[m] \in Nat, keyed \in BOOLEAN,
         NEW j \in Nat, j < Blocks(m), ~(keyed /\ j = 0),
         NEW left, left = Left(m, j)
  PROVE  /\ left \in Nat
         /\ left > Block => j + 1 < Blocks(m) /\ StepAt(m, j + 1) = NextFull(m, left, j * Block)
         /\ left <= Block => j + 1 = Blocks(m) /\ StepAt(m, j + 1) = NextLast(m, left, j * Block)
<1> USE DEF Left, NextFull, NextLast
<1>1. /\ Keys \in {0, 1} /\ Total(m) \in Nat /\ Keys * Block \in Nat
      /\ Total(m) = len[m] + Keys * Block
      /\ Blocks(m) \in Nat \ {0}
      /\ Total(m) <= Blocks(m) * Block
      /\ \A i \in Nat \ {0} : Total(m) <= i * Block => Blocks(m) <= i
  BY BlocksAre
<1>2. Block \in Nat \ {0}
  BY LanesAssumption
<1>3. PICK d \in Nat : j = d + Keys
  <2>1. j >= Keys
    BY DEF Keys
  <2>2. j - Keys \in Nat /\ j = (j - Keys) + Keys
    BY <1>1, <2>1
  <2> QED
    BY <2>2
<1>4. /\ j * Block \in Nat /\ d * Block \in Nat /\ (j + 1) * Block = j * Block + Block
      /\ j * Block = d * Block + Keys * Block /\ 0 * Block = 0
      /\ \A i \in Nat : i <= j + 1 => i * Block <= (j + 1) * Block
  BY <1>1, <1>2, <1>3, Multiples
<1>5. From(j + 1) = d * Block /\ ~(j + 1 <= Keys)
  <2>1. (j + 1) - 1 - Keys = d /\ ~(j + 1 <= Keys)
    BY <1>1, <1>3
  <2> QED
    BY <2>1 DEF From
<1>6. left \in Nat
  <2>1. CASE j = 0
    BY <1>1, <1>4, <2>1
  <2>2. CASE j # 0
    <3>1. ~(Total(m) <= j * Block)
      BY <1>1, <2>2
    <3> QED
      BY <1>1, <1>4, <3>1
  <2> QED
    BY <2>1, <2>2
<1>7. len[m] - left = d * Block /\ len[m] - From(j + 1) = left
  BY <1>1, <1>4, <1>5, <1>6
<1>8. CASE left > Block
  <2>1. Min2(Block, left) = Block /\ Min2((j + 1) * Block, Total(m)) = j * Block + Block
    BY <1>1, <1>2, <1>4, <1>6, <1>8 DEF Min2
  <2>2. j + 1 < Blocks(m)
    <3>1. Total(m) > (j + 1) * Block
      BY <1>1, <1>2, <1>4, <1>6, <1>8
    <3>2. ~(Blocks(m) <= j + 1)
      <4>1. PICK n : n = Blocks(m)
        OBVIOUS
      <4>2. PICK e : e = (j + 1) * Block
        OBVIOUS
      <4>3. ASSUME n <= j + 1 PROVE n * Block <= e
        BY <1>1, <1>4, <4>1, <4>2, <4>3
      <4>4. n * Block \in Nat /\ Total(m) <= n * Block /\ e \in Nat /\ Total(m) > e
        BY <1>1, <1>2, <1>4, <3>1, <4>1, <4>2
      <4> QED
        BY <1>1, <4>1, <4>3, <4>4
    <3> QED
      BY <1>1, <3>2
  <2>3. (j + 1 = Blocks(m)) = FALSE
    BY <1>1, <2>2
  <2>4. StepAt(m, j + 1) = Step(Data(m, len[m] - left, Block), j * Block + Block, FALSE)
    BY <1>5, <1>7, <2>1, <2>3 DEF StepAt
  <2>5. ~(left <= Block)
    BY <1>2, <1>6, <1>8
  <2> QED
    BY <1>6, <1>8, <2>2, <2>4, <2>5
<1>9. CASE left <= Block
  <2>1. Min2(Block, left) = left /\ Min2((j + 1) * Block, Total(m)) = j * Block + left
    BY <1>1, <1>2, <1>4, <1>6, <1>9 DEF Min2
  <2>2. j + 1 = Blocks(m)
    <3>1. Total(m) <= (j + 1) * Block
      BY <1>1, <1>2, <1>4, <1>6, <1>9
    <3> QED
      BY <1>1, <3>1
  <2>3. (j + 1 = Blocks(m)) = TRUE
    BY <1>1, <2>2
  <2>4. StepAt(m, j + 1) = Step(Data(m, len[m] - left, left), j * Block + left, TRUE)
    BY <1>5, <1>7, <2>1, <2>3 DEF StepAt
  <2>5. ~(left > Block)
    BY <1>2, <1>6, <1>9
  <2> QED
    BY <1>6, <1>9, <2>2, <2>4, <2>5
<1>10. left > Block \/ left <= Block
  BY <1>2, <1>6
<1> QED
  BY <1>8, <1>9, <1>10

-----------------------------------------------------------------------------
(* A round compresses the next block of a lane, which ends with the last.   *)
LEMMA CompressedIs ==
  ASSUME NEW m, len[m] \in Nat, keyed \in BOOLEAN,
         NEW j \in Nat, j < Blocks(m), NEW c, c = Compressed(LaneAt(m, j))
  PROVE  /\ c.which = m /\ c.h = HashOf(m, j + 1)
         /\ Ended(c) <=> j + 1 = Blocks(m)
         /\ j + 1 < Blocks(m) => c = LaneAt(m, j + 1)
<1> DEFINE x == LaneAt(m, j)
<1>1. Block \in Nat \ {0} /\ j * Block \in Nat /\ (j + 1) * Block = j * Block + Block
  BY LanesAssumption, Multiples
<1>2. /\ Keys \in {0, 1} /\ Total(m) \in Nat /\ Total(m) = len[m] + Keys * Block
      /\ Blocks(m) \in Nat \ {0}
  BY BlocksAre
<1>3. /\ x.which = m /\ x.t = j * Block /\ x.keyFirst = (keyed /\ j = 0) /\ x.h = HashOf(m, j)
      /\ x.left = IF keyed /\ j = 0 THEN len[m] ELSE Total(m) - j * Block
  BY DEF LaneAt
<1>4. HashOf(m, j + 1) # <<>> /\ Len(HashOf(m, j + 1)) = j + 1
      /\ HashOf(m, j + 1)[j + 1] = StepAt(m, j + 1)
  <2>1. j + 1 \in Nat /\ j + 1 \in 1 .. j + 1
    OBVIOUS
  <2>2. Len(HashOf(m, j + 1)) = j + 1 /\ HashOf(m, j + 1)[j + 1] = StepAt(m, j + 1)
    BY <2>1, HashIsSeq
  <2> QED
    BY <2>2
<1>5. StepAt(m, j + 1).last = (j + 1 = Blocks(m))
  BY DEF StepAt, Step
<1>6. ASSUME c.h = HashOf(m, j + 1) PROVE Ended(c) <=> j + 1 = Blocks(m)
  BY <1>4, <1>5, <1>6 DEF Ended
<1>7. (keyed /\ j + 1 = 0) = FALSE
  OBVIOUS
<1>8. CASE keyed /\ j = 0
  <2>1. c = [x EXCEPT !.t = @ + Block, !.keyFirst = FALSE,
                      !.h = Append(@, Step(KeyBlock, x.t + Block, x.left = 0))]
    BY <1>3, <1>8 DEF Compressed
  <2>2. Append(HashOf(m, j), Step(KeyBlock, x.t + Block, x.left = 0)) = HashOf(m, j + 1)
    <3>1. StepAt(m, j + 1) = Step(KeyBlock, j * Block + Block, len[m] = 0)
      BY <1>8, KeyStep
    <3>2. Step(KeyBlock, x.t + Block, x.left = 0) = StepAt(m, j + 1)
      BY <1>3, <1>8, <3>1
    <3> QED
      BY <3>2, HashAppend
  <2>3. c = [which |-> m, left |-> len[m], t |-> j * Block + Block, keyFirst |-> FALSE,
             h |-> HashOf(m, j + 1)]
    BY <1>8, <2>1, <2>2 DEF LaneAt
  <2>4. c = LaneAt(m, j + 1)
    <3>1. Total(m) - (j + 1) * Block = len[m]
      <4>1. Keys = 1 /\ 1 * Block = Block /\ j + 1 = 1
        BY <1>1, <1>8 DEF Keys
      <4> QED
        BY <1>1, <1>2, <4>1
    <3> QED
      BY <1>1, <1>7, <2>3, <3>1 DEF LaneAt
  <2>5. c.which = m /\ c.h = HashOf(m, j + 1)
    BY <2>3
  <2> QED
    BY <1>6, <2>4, <2>5
<1>9. CASE ~(keyed /\ j = 0)
  <2> DEFINE left == Left(m, j)
  <2>1. x.left = left /\ x.keyFirst = FALSE /\ Read(x) = len[m] - left
    BY <1>3, <1>9 DEF Read, Left
  <2>2. /\ left \in Nat
        /\ left > Block => j + 1 < Blocks(m) /\ StepAt(m, j + 1) = NextFull(m, left, j * Block)
        /\ left <= Block => j + 1 = Blocks(m) /\ StepAt(m, j + 1) = NextLast(m, left, j * Block)
    BY <1>9, DataStep
  <2>3. CASE left > Block
    <3>1. left > Block
      BY <2>3
    <3>2. c = [x EXCEPT !.t = @ + Block, !.left = @ - Block,
                        !.h = Append(@, Step(Data(x.which, Read(x), Block), x.t + Block, FALSE))]
      BY <2>1, <2>2, <2>3, <1>1 DEF Compressed
    <3>3. Append(HashOf(m, j), Step(Data(x.which, Read(x), Block), x.t + Block, FALSE)) = HashOf(m, j + 1)
      <4>1. Step(Data(x.which, Read(x), Block), x.t + Block, FALSE) = StepAt(m, j + 1)
        BY <1>3, <2>1, <2>2, <2>3 DEF NextFull
      <4> QED
        BY <4>1, HashAppend
    <3>4. c = [which |-> m, left |-> left - Block, t |-> j * Block + Block, keyFirst |-> FALSE,
               h |-> HashOf(m, j + 1)]
      <4>1. PICK p : p = j * Block
        OBVIOUS
      <4>2. PICK u : u = left
        OBVIOUS
      <4>3. PICK y : y = x
        OBVIOUS
      <4>4. y = [which |-> m, left |-> u, t |-> p, keyFirst |-> FALSE, h |-> HashOf(m, j)]
        BY <1>9, <4>1, <4>2, <4>3 DEF LaneAt, Left
      <4>5. PICK s : s = Step(Data(x.which, Read(x), Block), x.t + Block, FALSE)
        OBVIOUS
      <4>6. Append(HashOf(m, j), s) = HashOf(m, j + 1)
        BY ONLY <3>3, <4>5
      <4>7. c = [y EXCEPT !.t = @ + Block, !.left = @ - Block, !.h = Append(@, s)]
        BY ONLY <3>2, <4>5, <4>3
      <4>8. c = [which |-> m, left |-> u - Block, t |-> p + Block, keyFirst |-> FALSE,
                 h |-> HashOf(m, j + 1)]
        BY ONLY <4>4, <4>6, <4>7
      <4> QED
        BY ONLY <4>1, <4>2, <4>8
    <3>5. left - Block = Total(m) - (j + 1) * Block
      BY <1>1, <1>2 DEF Left
    <3>6. c = LaneAt(m, j + 1)
      BY <1>1, <1>7, <3>4, <3>5 DEF LaneAt
    <3>7. c.which = m /\ c.h = HashOf(m, j + 1)
      BY <3>4
    <3> QED
      BY <1>6, <3>6, <3>7
  <2>4. CASE ~(left > Block)
    <3> HIDE DEF left
    <3>1. left <= Block
      BY <1>1, <2>2, <2>4
    <3>2. c = [x EXCEPT !.t = @ + x.left,
                        !.h = Append(@, Step(Data(x.which, Read(x), x.left), x.t + x.left, TRUE))]
      BY <2>1, <2>2, <2>4, <1>1 DEF Compressed
    <3>3. Append(HashOf(m, j), Step(Data(x.which, Read(x), x.left), x.t + x.left, TRUE)) = HashOf(m, j + 1)
      <4>1. Step(Data(x.which, Read(x), x.left), x.t + x.left, TRUE) = StepAt(m, j + 1)
        BY <1>3, <2>1, <2>2, <3>1 DEF NextLast
      <4> QED
        BY <4>1, HashAppend
    <3>4. c.which = m /\ c.h = HashOf(m, j + 1)
      BY <3>2, <3>3 DEF LaneAt
    <3>5. j + 1 = Blocks(m)
      BY <2>2, <3>1
    <3>6. ~(j + 1 < Blocks(m))
      BY <1>2, <3>5
    <3>7. Ended(c) <=> j + 1 = Blocks(m)
      BY <1>6, <3>4
    <3> QED
      BY <3>4, <3>6, <3>7
  <2> QED
    BY <2>3, <2>4
<1> QED
  BY <1>8, <1>9

(* The blocks of a message after the first j: the full ones but the last,   *)
(* and what is left.                                                        *)
Full(left) == IF left > 0 THEN (left - 1) \div Block ELSE 0
FullStep(m, left, t, i) ==
  Step(Data(m, (len[m] - left) + (i - 1) * Block, Block), t + i * Block, FALSE)
Whole(m, left, t, full) == [i \in 1 .. full |-> FullStep(m, left, t, i)]
RestStep(m, left, t, full) ==
  Step(Data(m, (len[m] - left) + full * Block, left - full * Block),
       (t + full * Block) + (left - full * Block), TRUE)

LEMMA RestIs ==
  ASSUME NEW m, len[m] \in Nat, keyed \in BOOLEAN,
         NEW j \in Nat, j < Blocks(m), ~(keyed /\ j = 0),
         NEW left, left = Left(m, j), NEW full, full = Full(left)
  PROVE  /\ left \in Nat /\ full \in Nat
         /\ \A i \in 1 .. full : StepAt(m, j + i) = FullStep(m, left, j * Block, i)
         /\ (j + full) + 1 = Blocks(m)
         /\ StepAt(m, (j + full) + 1) = RestStep(m, left, j * Block, full)
<1> USE DEF Left, Full, FullStep, RestStep
<1>1. Block \in Nat \ {0} /\ j * Block \in Nat
  BY LanesAssumption
<1>2. left \in Nat
  BY DataStep
<1>3. /\ full \in Nat /\ full * Block \in Nat
      /\ full * Block <= left /\ left <= full * Block + Block
      /\ full # 0 => full * Block < left
  <2>1. CASE left = 0
    <3>1. full = 0 /\ 0 * Block = 0
      BY <1>1, <2>1
    <3> QED
      BY <1>1, <2>1, <3>1
  <2>2. CASE left # 0
    <3>1. PICK n \in Nat \ {0} : n = left
      BY <1>2, <2>2
    <3>2. PICK b \in Nat \ {0} : b = Block
      BY <1>1
    <3>3. full = (n - 1) \div b
      BY <3>1, <3>2
    <3>4. full \in Nat /\ full * b < n /\ n <= full * b + b
      BY ONLY <3>3, FloorIs
    <3>5. full * b \in Nat
      BY <3>4
    <3> QED
      BY <3>1, <3>2, <3>4, <3>5
  <2> QED
    BY <2>1, <2>2
<1>4. /\ Total(m) \in Nat /\ Blocks(m) \in Nat /\ Total(m) <= Blocks(m) * Block
  BY BlocksAre
<1>5. /\ \A i \in Nat : i * Block \in Nat /\ (i + 1) * Block = i * Block + Block
      /\ \A i \in Nat : (j + i) * Block = j * Block + i * Block
      /\ \A i, l \in Nat : i <= l => i * Block <= l * Block
  BY <1>1, Multiples
<1>6. ASSUME NEW i \in 0 .. full
      PROVE  /\ j + i \in Nat /\ j + i < Blocks(m) /\ ~(keyed /\ j + i = 0)
             /\ left - i * Block = Total(m) - (j + i) * Block
             /\ (len[m] - left) + i * Block = len[m] - (left - i * Block)
             /\ (j + i) * Block = j * Block + i * Block /\ i * Block \in Nat
  <2>1. PICK p \in Nat : p = i * Block
    BY <1>5
  <2>2. PICK r \in Nat : r = j * Block
    BY <1>1
  <2>3. (j + i) * Block = r + p /\ p <= full * Block
    <3>1. i \in Nat /\ full \in Nat /\ i <= full
      BY <1>3
    <3>2. i * Block <= full * Block /\ (j + i) * Block = j * Block + i * Block
      BY ONLY <3>1, <1>5
    <3> QED
      BY ONLY <2>1, <2>2, <3>2
  <2>4. j + i < Blocks(m)
    <3>1. CASE i = 0
      BY <3>1
    <3>2. CASE i # 0
      <4>1. p < left
        BY <1>2, <1>3, <2>3, <3>2
      <4>2. r + p < Total(m)
        BY <1>4, <2>2, <4>1
      <4>3. PICK n \in Nat : n = Blocks(m)
        BY <1>4
      <4>4. n <= j + i => n * Block <= r + p
        BY <1>5, <2>3
      <4>5. Total(m) <= n * Block /\ n * Block \in Nat
        BY <1>4, <1>5, <4>3
      <4> QED
        BY <1>4, <4>2, <4>3, <4>4, <4>5
    <3> QED
      BY <3>1, <3>2
  <2>5. left - p = Total(m) - (r + p) /\ (len[m] - left) + p = len[m] - (left - p)
    BY <1>2, <1>4, <2>2
  <2>6. j + i \in Nat /\ ~(keyed /\ j + i = 0)
    OBVIOUS
  <2> QED
    BY <2>1, <2>2, <2>3, <2>4, <2>5, <2>6
<1>7. ASSUME NEW i \in 1 .. full
      PROVE  StepAt(m, j + i) = Step(Data(m, (len[m] - left) + (i - 1) * Block, Block),
                                     j * Block + i * Block, FALSE)
  <2>1. PICK d \in 0 .. full : d = i - 1
    BY <1>3
  <2>2. PICK e \in Nat : e = j + d
    BY <1>6
  <2>3. PICK u : u = left - d * Block
    OBVIOUS
  <2>4. /\ e < Blocks(m) /\ ~(keyed /\ e = 0) /\ u = Total(m) - e * Block
        /\ (len[m] - left) + d * Block = len[m] - u
        /\ e * Block = j * Block + d * Block
    BY <1>6, <2>2, <2>3
  <2>5. e + 1 = j + i /\ i * Block = d * Block + Block /\ i * Block <= full * Block
        /\ full # 0 /\ d * Block \in Nat
    <3>1. i = d + 1 /\ i \in Nat /\ i <= full /\ d \in Nat
      BY <1>3, <2>1
    <3>2. d * Block \in Nat /\ (d + 1) * Block = d * Block + Block /\ i * Block <= full * Block
      BY ONLY <1>3, <1>5, <3>1
    <3>3. e + 1 = j + i /\ full # 0
      BY <1>3, <2>2, <3>1
    <3> QED
      BY ONLY <3>1, <3>2, <3>3
  <2>6. u > Block
    BY <1>1, <1>2, <1>3, <2>3, <2>5
  <2>7. StepAt(m, e + 1) = Step(Data(m, len[m] - u, Block), e * Block + Block, FALSE)
    <3>1. u = Left(m, e)
      BY <2>4
    <3>2. StepAt(m, e + 1) = NextFull(m, u, e * Block)
      BY ONLY len[m] \in Nat, keyed \in BOOLEAN, <2>2,
              <2>4, <2>6, <3>1, DataStep
    <3> QED
      BY ONLY <3>2 DEF NextFull
  <2>8. e * Block + Block = j * Block + i * Block
    BY <1>1, <2>4, <2>5
  <2> QED
    BY <2>1, <2>4, <2>5, <2>7, <2>8
<1>8. /\ (j + full) + 1 = Blocks(m)
      /\ StepAt(m, (j + full) + 1)
           = Step(Data(m, (len[m] - left) + full * Block, left - full * Block),
                  (j * Block + full * Block) + (left - full * Block), TRUE)
  <2>1. full \in 0 .. full
    BY <1>3
  <2>2. PICK e \in Nat : e = j + full
    BY <1>3
  <2>3. PICK u : u = left - full * Block
    OBVIOUS
  <2>4. /\ e < Blocks(m) /\ ~(keyed /\ e = 0) /\ u = Total(m) - e * Block
        /\ (len[m] - left) + full * Block = len[m] - u
        /\ e * Block = j * Block + full * Block
    BY <1>6, <2>1, <2>2, <2>3
  <2>5. u <= Block
    BY <1>1, <1>2, <1>3, <2>3
  <2>6. e + 1 = Blocks(m) /\ StepAt(m, e + 1) = Step(Data(m, len[m] - u, u), e * Block + u, TRUE)
    <3>1. u = Left(m, e)
      BY <2>4
    <3>2. e + 1 = Blocks(m) /\ StepAt(m, e + 1) = NextLast(m, u, e * Block)
      BY ONLY len[m] \in Nat, keyed \in BOOLEAN, <2>2,
              <2>4, <2>5, <3>1, DataStep
    <3> QED
      BY ONLY <3>2 DEF NextLast
  <2> QED
    BY <2>2, <2>3, <2>4, <2>6
<1> QED
  BY <1>2, <1>3, <1>7, <1>8

HashedBy(m, j, whole, final) == (HashOf(m, j) \o whole) \o <<final>> = Alone(m)

LEMMA RestIsHashed ==
  ASSUME NEW m, len[m] \in Nat, keyed \in BOOLEAN,
         NEW j \in Nat, j < Blocks(m), ~(keyed /\ j = 0),
         NEW left, left = Left(m, j), NEW full, full = Full(left),
         NEW whole, whole = Whole(m, left, j * Block, full),
         NEW final, final = RestStep(m, left, j * Block, full)
  PROVE  HashedBy(m, j, whole, final)
<1> DEFINE S == {StepAt(m, i) : i \in Nat}
<1> USE DEF Whole
<1>1. /\ full \in Nat
      /\ \A i \in 1 .. full : StepAt(m, j + i) = FullStep(m, left, j * Block, i)
      /\ (j + full) + 1 = Blocks(m)
      /\ StepAt(m, (j + full) + 1) = final
  BY RestIs
<1>2. PICK e \in Nat : e = j + full
  BY <1>1
<1>3. DOMAIN whole = 1 .. full /\ \A i \in 1 .. full : whole[i] = StepAt(m, j + i) /\ whole[i] \in S
  <2>1. DOMAIN whole = 1 .. full
    OBVIOUS
  <2>2. ASSUME NEW i \in 1 .. full PROVE whole[i] = StepAt(m, j + i) /\ j + i \in Nat
    <3>1. whole[i] = FullStep(m, left, j * Block, i)
      BY <2>2
    <3>2. StepAt(m, j + i) = FullStep(m, left, j * Block, i)
      BY <1>1, <2>2
    <3>3. j + i \in Nat
      BY <1>1, <2>2
    <3> QED
      BY <3>1, <3>2, <3>3
  <2> QED
    BY <2>1, <2>2
<1>4. PICK f : f = HashOf(m, j)
  OBVIOUS
<1>5. PICK g : g = HashOf(m, e)
  OBVIOUS
<1>6. f \in Seq(S) /\ Len(f) = j /\ \A i \in 1 .. j : f[i] = StepAt(m, i)
  BY <1>4, HashIsSeq
<1>7. g \in Seq(S) /\ Len(g) = e /\ \A i \in 1 .. e : g[i] = StepAt(m, i)
  BY <1>5, HashIsSeq
<1>8. whole = [i \in 1 .. full |-> whole[i]]
  OBVIOUS
<1>9. final \in S
  <2>1. final = StepAt(m, e + 1) /\ e + 1 \in Nat
    BY ONLY <1>1, <1>2
  <2> QED
    BY <2>1
<1> HIDE DEF S
<1>10. whole \in Seq(S) /\ Len(whole) = full
  <2>1. whole \in [1 .. full -> S]
    BY ONLY <1>3, <1>8
  <2> QED
    BY ONLY <2>1, <1>1 DEF Seq
<1>11. PICK a : a = f \o whole
  OBVIOUS
<1>12. /\ a \in Seq(S) /\ Len(a) = j + full
       /\ \A i \in 1 .. j + full : a[i] = IF i <= j THEN f[i] ELSE whole[i - j]
  <2>1. /\ a \in Seq(S) /\ Len(a) = Len(f) + Len(whole)
        /\ \A i \in 1 .. Len(f) + Len(whole) : a[i] = IF i <= Len(f) THEN f[i] ELSE whole[i - Len(f)]
    BY ONLY <1>6, <1>10, <1>11, ConcatProperties
  <2> QED
    BY ONLY <2>1, <1>6, <1>10
<1>13. ASSUME NEW i \in 1 .. e PROVE a[i] = g[i]
  <2>1. i \in Nat /\ 1 <= i /\ i <= j + full
    BY <1>2
  <2>2. CASE i <= j
    <3>1. i \in 1 .. j /\ i \in 1 .. j + full
      BY <1>2, <2>1, <2>2
    <3>2. a[i] = f[i]
      BY ONLY <1>12, <2>2, <3>1
    <3>3. f[i] = StepAt(m, i)
      BY <1>6, <3>1
    <3>4. g[i] = StepAt(m, i)
      BY <1>7
    <3> QED
      BY <3>2, <3>3, <3>4
  <2>3. CASE ~(i <= j)
    <3>1. i - j \in 1 .. full /\ j + (i - j) = i
      BY <1>1, <2>1, <2>3
    <3>2. a[i] = whole[i - j]
      BY <1>2, <1>12, <2>3
    <3>3. whole[i - j] = StepAt(m, j + (i - j))
      BY <1>3, <3>1
    <3> QED
      BY <1>7, <3>1, <3>2, <3>3
  <2> QED
    BY <2>2, <2>3
<1>14. a = g
  BY ONLY <1>2, <1>7, <1>12, <1>13, SeqEqual
<1>15. Append(g, final) = HashOf(m, e + 1)
  BY <1>1, <1>2, <1>5, HashAppend
<1>16. Append(g, final) = g \o <<final>>
  BY ONLY <1>7, <1>9, AppendIsConcat
<1>17. HashOf(m, e + 1) = Alone(m)
  BY <1>1, <1>2, AloneIs DEF HashOf
<1> QED
  BY <1>4, <1>11, <1>14, <1>15, <1>16, <1>17 DEF HashedBy

(* What is left of a message is finished alone, wherever it was left.       *)
LEMMA FinishIs ==
  ASSUME NEW m, len[m] \in Nat, keyed \in BOOLEAN,
         NEW j \in Nat, j < Blocks(m)
  PROVE  Finish(LaneAt(m, j)) = Alone(m)
<1> DEFINE x == LaneAt(m, j)
           blocks == IF x.keyFirst THEN 1 ELSE 0
           key == IF x.keyFirst THEN <<Step(KeyBlock, x.t + Block, x.left = 0)>> ELSE <<>>
           before == x.t + blocks * Block
           full == Full(x.left)
           whole == Whole(m, x.left, before, full)
           final == RestStep(m, x.left, before, full)
<1>1. /\ x.which = m /\ x.t = j * Block /\ x.keyFirst = (keyed /\ j = 0) /\ x.h = HashOf(m, j)
      /\ x.left = IF keyed /\ j = 0 THEN len[m] ELSE Left(m, j)
      /\ Read(x) = len[m] - x.left
  BY DEF LaneAt, Read, Left
<1>2. Finish(x) = IF x.keyFirst /\ x.left = 0 THEN x.h \o key ELSE ((x.h \o key) \o whole) \o <<final>>
  <2>1. x.which = m /\ Read(x) = len[m] - x.left
    BY <1>1
  <2> HIDE DEF x
  <2> QED
    BY <2>1 DEF Finish, Full, FullStep, RestStep, Whole
<1>3. /\ Block \in Nat \ {0} /\ j * Block \in Nat
      /\ 0 * Block = 0 /\ 1 * Block = Block
      /\ Blocks(m) \in Nat \ {0}
      /\ Total(m) \in Nat /\ Total(m) = len[m] + Keys * Block
  BY LanesAssumption, BlocksAre, Multiples
<1> SUFFICES Finish(x) = Alone(m)
  OBVIOUS
<1> HIDE DEF x
<1>4. CASE keyed /\ j = 0
  <2> DEFINE s == Step(KeyBlock, x.t + Block, x.left = 0)
  <2>1. x.left = len[m] /\ x.keyFirst = TRUE /\ key = <<s>> /\ blocks = 1
    BY <1>1, <1>4
  <2>2. s = StepAt(m, 0 + 1) /\ (len[m] = 0) = (0 + 1 = Blocks(m))
    BY <1>1, <1>4, <2>1, KeyStep
  <2>3. x.h \o key = HashOf(m, 1)
    <3>1. PICK f : f = HashOf(m, 0)
      OBVIOUS
    <3>2. 0 \in Nat /\ f \in Seq({StepAt(m, i) : i \in Nat})
      BY <3>1, HashIsSeq
    <3>3. s \in {StepAt(m, i) : i \in Nat}
      BY <2>2
    <3> HIDE DEF s
    <3>4. Append(f, s) = f \o <<s>>
      BY ONLY <3>2, <3>3, AppendIsConcat
    <3>5. Append(f, s) = HashOf(m, 0 + 1)
      BY <2>2, <3>1, HashAppend
    <3> QED
      BY <1>1, <1>4, <2>1, <3>1, <3>4, <3>5
  <2>4. CASE len[m] = 0
    <3>1. Blocks(m) = 1 /\ x.left = 0
      BY <2>1, <2>2, <2>4
    <3>2. Finish(x) = x.h \o key
      BY <1>2, <2>1, <3>1
    <3>3. Finish(x) = HashOf(m, Blocks(m))
      BY ONLY <2>3, <3>1, <3>2
    <3> QED
      BY <3>3, AloneIs DEF HashOf
  <2>5. CASE len[m] # 0
    <3>1. 1 < Blocks(m) /\ ~(keyed /\ 1 = 0)
      BY <1>3, <2>2, <2>5
    <3>2. x.left = Left(m, 1) /\ before = 1 * Block
      BY <1>1, <1>3, <1>4, <2>1 DEF Keys, Left
    <3>3. PICK o : o = 1
      OBVIOUS
    <3>4. PICK w : w = whole
      OBVIOUS
    <3>5. PICK z : z = final
      OBVIOUS
    <3>6. PICK left : left = x.left
      OBVIOUS
    <3>7. PICK n : n = full
      OBVIOUS
    <3>8. /\ o \in Nat /\ o < Blocks(m) /\ ~(keyed /\ o = 0)
          /\ left = Left(m, o) /\ n = Full(left)
          /\ w = Whole(m, left, o * Block, n)
          /\ z = RestStep(m, left, o * Block, n)
      BY <3>1, <3>2, <3>3, <3>4, <3>5, <3>6, <3>7
    <3>9. HashedBy(m, o, w, z)
      BY ONLY <3>8, RestIsHashed, len[m] \in Nat, keyed \in BOOLEAN
    <3>10. Finish(x) = ((x.h \o key) \o w) \o <<z>>
      BY <1>2, <2>1, <2>5, <3>4, <3>5
    <3> QED
      BY ONLY <2>3, <3>3, <3>9, <3>10 DEF HashedBy
  <2> QED
    BY <2>4, <2>5
<1>5. CASE ~(keyed /\ j = 0)
  <2>1. x.left = Left(m, j) /\ x.keyFirst = FALSE /\ key = <<>> /\ before = j * Block
    <3>1. x.left = Left(m, j) /\ x.keyFirst = FALSE
      BY <1>1, <1>5
    <3>2. key = <<>> /\ blocks = 0
      BY <3>1
    <3> QED
      BY <1>1, <1>3, <3>1, <3>2
  <2>2. x.h \o key = HashOf(m, j)
    <3>1. PICK f : f = HashOf(m, j)
      OBVIOUS
    <3>2. f \in Seq({StepAt(m, i) : i \in Nat})
      BY <3>1, HashIsSeq
    <3>3. f \o <<>> = f
      BY ONLY <3>2, ConcatEmptySeq
    <3> QED
      BY <1>1, <2>1, <3>1, <3>3
  <2>3. PICK left : left = x.left
    OBVIOUS
  <2>4. PICK n : n = full
    OBVIOUS
  <2>5. PICK w : w = whole
    OBVIOUS
  <2>6. PICK z : z = final
    OBVIOUS
  <2>7. /\ left = Left(m, j) /\ n = Full(left)
        /\ w = Whole(m, left, j * Block, n)
        /\ z = RestStep(m, left, j * Block, n)
    BY <2>1, <2>3, <2>4, <2>5, <2>6
  <2>8. HashedBy(m, j, w, z)
    BY ONLY <1>5, <2>7, RestIsHashed, len[m] \in Nat, keyed \in BOOLEAN, j \in Nat, j < Blocks(m)
  <2>9. Finish(x) = ((x.h \o key) \o w) \o <<z>>
    BY <1>2, <2>1, <2>5, <2>6
  <2> QED
    BY ONLY <2>2, <2>8, <2>9 DEF HashedBy
<1> QED
  BY <1>4, <1>5

-----------------------------------------------------------------------------
(* The lanes of a set up to one, and how many they are: idle lanes take     *)
(* messages by their ranks.                                                 *)
UpTo(I, l) == {i \in I : i <= l}
Rank(I, l) == Cardinality(UpTo(I, l))
RankedTo(I, q) == {i \in I : Rank(I, i) <= q}

LEMMA RankSteps ==
  ASSUME NEW N \in Nat, NEW I \in SUBSET (1 .. N), NEW l \in Nat
  PROVE  /\ IsFiniteSet(UpTo(I, l)) /\ Rank(I, l) \in Nat
         /\ Rank(I, 0) = 0 /\ UpTo(I, N) = I
         /\ l + 1 \in I => Rank(I, l + 1) = Rank(I, l) + 1
         /\ l + 1 \notin I => Rank(I, l + 1) = Rank(I, l)
<1>1. IsFiniteSet(1 .. N)
  BY ONLY N \in Nat, 1 \in Int, N \in Int, FS_Interval
<1>2. \A i \in I : i \in Nat /\ 1 <= i /\ i <= N
  OBVIOUS
<1>3. \A n : UpTo(I, n) \in SUBSET (1 .. N)
  BY DEF UpTo
<1>4. \A n : IsFiniteSet(UpTo(I, n)) /\ Rank(I, n) \in Nat
  BY <1>1, <1>3, FS_Subset, FS_CardinalityType DEF Rank
<1>5. Rank(I, 0) = 0
  <2>1. UpTo(I, 0) = {}
    <3>1. \A i \in I : ~(i <= 0)
      BY <1>2
    <3> QED
      BY <3>1 DEF UpTo
  <2> QED
    BY <2>1, FS_EmptySet DEF Rank
<1>6. UpTo(I, N) = I
  BY <1>2 DEF UpTo
<1>7. CASE l + 1 \in I
  <2>1. UpTo(I, l + 1) = UpTo(I, l) \cup {l + 1} /\ l + 1 \notin UpTo(I, l)
    <3>1. \A i \in I : i <= l + 1 <=> i <= l \/ i = l + 1
      BY <1>2
    <3>2. ~(l + 1 <= l)
      OBVIOUS
    <3> QED
      BY <1>7, <3>1, <3>2 DEF UpTo
  <2>2. PICK U : U = UpTo(I, l)
    OBVIOUS
  <2>3. PICK x : x = l + 1
    OBVIOUS
  <2>4. Cardinality(U \cup {x}) = Cardinality(U) + 1
    BY <1>4, <2>1, <2>2, <2>3, FS_AddElement
  <2> QED
    BY <1>4, <1>5, <1>6, <1>7, <2>1, <2>2, <2>3, <2>4 DEF Rank
<1>8. CASE l + 1 \notin I
  <2>1. UpTo(I, l + 1) = UpTo(I, l)
    <3>1. \A i \in I : i <= l + 1 <=> i <= l
      BY <1>2, <1>8
    <3> QED
      BY <3>1 DEF UpTo
  <2> QED
    BY <1>4, <1>5, <1>6, <1>8, <2>1 DEF Rank
<1> QED
  BY <1>7, <1>8

LEMMA RankGrows ==
  ASSUME NEW N \in Nat, NEW I \in SUBSET (1 .. N), NEW l \in Nat, NEW p \in Nat
  PROVE  /\ l <= p => Rank(I, l) <= Rank(I, p)
         /\ l < p /\ p \in I => Rank(I, l) < Rank(I, p)
<1>1. ASSUME NEW a \in Nat, NEW b \in Nat, a <= b PROVE Rank(I, a) <= Rank(I, b)
  <2>1. UpTo(I, a) \in SUBSET UpTo(I, b)
    <3>1. \A i \in I : i <= a => i <= b
      BY <1>1
    <3> QED
      BY <3>1 DEF UpTo
  <2> QED
    BY <2>1, RankSteps, FS_Subset DEF Rank
<1>2. ASSUME l < p, p \in I PROVE Rank(I, l) < Rank(I, p)
  <2>1. PICK a \in Nat : p = a + 1
    <3>1. p - 1 \in Nat /\ p = (p - 1) + 1
      BY <1>2
    <3> QED
      BY <3>1
  <2>2. Rank(I, l) <= Rank(I, a)
    BY <1>1, <1>2, <2>1
  <2>3. Rank(I, a + 1) = Rank(I, a) + 1
    BY <1>2, <2>1, RankSteps
  <2>4. Rank(I, l) \in Nat /\ Rank(I, a) \in Nat
    BY RankSteps
  <2> QED
    BY <2>1, <2>2, <2>3, <2>4
<1> QED
  BY <1>1, <1>2

LEMMA RankTaken ==
  ASSUME NEW N \in Nat, NEW I \in SUBSET (1 .. N), NEW s \in 1 .. Cardinality(I)
  PROVE  \E l \in I : Rank(I, l) = s
<1>1. Cardinality(I) = Rank(I, N) /\ Rank(I, 0) = 0
  BY RankSteps DEF Rank
<1>2. \A n \in Nat : Rank(I, n) \in Nat
  BY RankSteps
<1> DEFINE T == {n \in Nat : Rank(I, n) >= s}
<1>3. N \in T
  BY <1>1, <1>2
<1>4. PICK x \in T : \A y \in T : ~(y < x)
  BY <1>3, LeastNat
<1>5. x # 0
  BY <1>1, <1>4
<1>6. PICK a \in Nat : x = a + 1
  <2>1. x - 1 \in Nat /\ x = (x - 1) + 1
    BY <1>5
  <2> QED
    BY <2>1
<1>7. ~(Rank(I, a) >= s)
  BY <1>4, <1>6
<1>8. /\ a + 1 \in I => Rank(I, a + 1) = Rank(I, a) + 1
      /\ a + 1 \notin I => Rank(I, a + 1) = Rank(I, a)
  BY ONLY N \in Nat, I \in SUBSET (1 .. N), a \in Nat, RankSteps
<1>9. x \in I /\ Rank(I, x) = s
  BY <1>2, <1>4, <1>6, <1>7, <1>8
<1> QED
  BY <1>9

(* Those with a rank of at most q are as many as their greatest rank, and   *)
(* have every rank up to it: q, unless they are all.                        *)
IsRanked(I, q, T) ==
  /\ IsFiniteSet(T) /\ Cardinality(T) \in Nat /\ Cardinality(T) <= q
  /\ \A l \in T : Rank(I, l) \in 1 .. Cardinality(T)
  /\ \A r \in 1 .. Cardinality(T) : \E l \in T : Rank(I, l) = r
  /\ T = I \/ Cardinality(T) = q

LEMMA Ranked ==
  ASSUME NEW N \in Nat, NEW I \in SUBSET (1 .. N), NEW q \in Nat,
         NEW T, T = RankedTo(I, q)
  PROVE  IsRanked(I, q, T)
<1> USE DEF RankedTo, IsRanked
<1>1. Rank(I, N) = Cardinality(I) /\ Rank(I, 0) = 0 /\ UpTo(I, N) = I /\ I \subseteq Nat
      /\ \A n \in Nat : Rank(I, n) \in Nat /\ IsFiniteSet(UpTo(I, n))
  BY RankSteps DEF Rank
<1>2. ASSUME NEW l \in I PROVE Rank(I, l) \in 1 .. Cardinality(I)
  <2>1. l \in Nat /\ 0 < l /\ l <= N
    OBVIOUS
  <2>2. Rank(I, 0) < Rank(I, l) /\ Rank(I, l) <= Rank(I, N)
    BY <2>1, RankGrows
  <2> QED
    BY <1>1, <2>1, <2>2
<1>3. PICK p \in Nat : T = UpTo(I, p) /\ Rank(I, p) <= q /\ (T = I \/ Rank(I, p) = q)
  <2>1. CASE q >= Cardinality(I)
    <3>1. T = I
      <4>1. \A l \in I : Rank(I, l) <= q
        BY <1>1, <1>2, <2>1
      <4> QED
        BY <4>1
    <3> QED
      BY <1>1, <2>1, <3>1
  <2>2. CASE q < Cardinality(I)
    <3>1. PICK p \in Nat : Rank(I, p) = q
      <4>1. CASE q = 0
        BY <1>1, <4>1
      <4>2. CASE q # 0
        <5>1. q \in 1 .. Cardinality(I)
          BY <1>1, <2>2, <4>2
        <5> QED
          BY <1>1, <5>1, RankTaken
      <4> QED
        BY <4>1, <4>2
    <3>2. ASSUME NEW l \in I PROVE Rank(I, l) <= q <=> l <= p
      <4>1. l \in Nat
        BY <1>1
      <4>2. l <= p => Rank(I, l) <= Rank(I, p)
        BY <4>1, RankGrows
      <4>3. p < l => Rank(I, p) < Rank(I, l)
        BY <4>1, RankGrows
      <4> QED
        BY <1>1, <3>1, <4>1, <4>2, <4>3
    <3>3. T = UpTo(I, p)
      BY <3>2 DEF UpTo
    <3> QED
      BY <3>1, <3>3
  <2> QED
    BY <1>1, <2>1, <2>2
<1>4. Cardinality(T) = Rank(I, p) /\ IsFiniteSet(T)
  BY <1>1, <1>3 DEF Rank
<1>5. ASSUME NEW l \in T PROVE Rank(I, l) \in 1 .. Cardinality(T)
  <2>1. l \in I /\ l <= p /\ l \in Nat
    BY <1>1, <1>3 DEF UpTo
  <2>2. Rank(I, l) <= Rank(I, p)
    BY <2>1, RankGrows
  <2> QED
    BY <1>1, <1>2, <1>4, <2>1, <2>2
<1>6. ASSUME NEW r \in 1 .. Cardinality(T) PROVE \E l \in T : Rank(I, l) = r
  <2>1. r \in 1 .. Cardinality(I)
    <3>1. T \in SUBSET I /\ IsFiniteSet(I)
      BY <1>1
    <3>2. Cardinality(T) <= Cardinality(I)
      BY <3>1, FS_Subset
    <3> QED
      BY <1>1, <1>4, <3>2
  <2>2. PICK l \in I : Rank(I, l) = r
    BY <2>1, RankTaken
  <2>3. Rank(I, l) <= q
    BY <1>1, <1>3, <1>4, <2>2
  <2> QED
    BY <2>2, <2>3
<1> QED
  BY <1>1, <1>3, <1>4, <1>5, <1>6

-----------------------------------------------------------------------------
(* A busy lane holds a message that was taken, with some of its blocks      *)
(* compressed but not the last; a hash that is written is that of the       *)
(* message alone; and no message that was taken is dropped.                 *)
Holds(l) ==
  lane[l] = Idle \/ \E m \in 1 .. taken : \E j \in Nat : j < Blocks(m) /\ lane[l] = LaneAt(m, j)
Written(m) == out[m] # <<>>

HashType ==
  /\ len \in Seq(Nat) /\ keyed \in BOOLEAN /\ taken \in 0 .. Count
  /\ pc \in {"take", "round", "rest", "one", "done"}
  /\ lane = [l \in LaneSet |-> lane[l]]
  /\ out = [m \in 1 .. Count |-> out[m]]

HashInv ==
  /\ HashType
  /\ \A l \in LaneSet : Holds(l)
  /\ \A m \in 1 .. Count : Written(m) => out[m] = Alone(m)
  /\ pc \in {"take", "round", "rest"} =>
       \A m \in 1 .. taken : Written(m) \/ \E l \in LaneSet : lane[l].which = m
  /\ pc = "one" => \A m \in 1 .. taken : Written(m)
  /\ pc = "rest" => taken = Count
  /\ pc = "done" => \A m \in 1 .. Count : Written(m)

LEMMA HashFacts ==
  ASSUME HashType
  PROVE  /\ Count \in Nat /\ taken \in Nat /\ taken <= Count
         /\ \A m \in 1 .. Count : m \in Nat \ {0} /\ len[m] \in Nat
BY DEF HashType, Count

(* No hash is empty.                                                        *)
LEMMA AloneIsWritten ==
  ASSUME NEW m, len[m] \in Nat, keyed \in BOOLEAN
  PROVE  Alone(m) # <<>>
<1>1. Blocks(m) \in Nat \ {0}
  BY BlocksAre
<1>2. DOMAIN Alone(m) = 1 .. Blocks(m)
  BY AloneIs
<1>3. 1 \in DOMAIN Alone(m)
  BY <1>1, <1>2
<1>4. DOMAIN <<>> = {}
  OBVIOUS
<1> QED
  BY <1>3, <1>4

LEMMA HashStart == HashInit => HashInv
<1> SUFFICES ASSUME HashInit PROVE HashInv
  OBVIOUS
<1>1. len \in Seq(Nat) /\ taken = 0 /\ Count \in Nat
  BY LanesAssumption DEF HashInit, Count
<1>2. \A l \in LaneSet : lane[l] = Idle
  BY DEF HashInit
<1>3. \A m \in 1 .. Count : ~Written(m)
  BY DEF HashInit, Written, Count
<1>4. HashType
  BY <1>1 DEF HashInit, HashType, Count
<1>5. 1 .. taken = {} /\ pc \in {"take", "one"}
  BY <1>1 DEF HashInit
<1> QED
  BY <1>2, <1>3, <1>4, <1>5 DEF HashInv, Holds

(* What a step leaves alone keeps what is known of messages and lanes.      *)
LEMMA HashSame ==
  ASSUME len' = len, keyed' = keyed
  PROVE  /\ Count' = Count
         /\ \A m : Blocks(m)' = Blocks(m) /\ Alone(m)' = Alone(m) /\ Fresh(m)' = Fresh(m)
         /\ \A m, j : LaneAt(m, j)' = LaneAt(m, j)
<1>1. ASSUME NEW m, NEW j PROVE LaneAt(m, j)' = LaneAt(m, j)
  BY DEF LaneAt, HashOf, StepAt, Blocks, Total, Keys, From, Step, Data, KeyBlock, Min2
<1>2. ASSUME NEW m PROVE Blocks(m)' = Blocks(m) /\ Alone(m)' = Alone(m) /\ Fresh(m)' = Fresh(m)
  BY DEF Alone, Blocks, Total, Keys, Step, Data, KeyBlock, Min2, Fresh
<1> QED
  BY <1>1, <1>2 DEF Count

LEMMA HashTakes == HashInv /\ Take => HashInv'
<1> SUFFICES ASSUME HashInv, Take PROVE HashInv'
  OBVIOUS
<1> DEFINE I == LaneSet \ Busy
           Message(l) == taken + Rank(I, l)
           T == {l \in I : Message(l) <= Count}
<1>1. /\ pc = "take" /\ len' = len /\ keyed' = keyed /\ out' = out
      /\ lane' = [l \in LaneSet |-> IF l \in T THEN Fresh(Message(l)) ELSE lane[l]]
      /\ taken' = taken + Cardinality(T)
      /\ pc' = IF Cardinality(Busy \cup T) < 2 THEN "rest" ELSE "round"
  BY DEF Take, Rank, UpTo
<1>2. /\ Count \in Nat /\ taken \in Nat /\ taken <= Count /\ Lanes \in Nat \ {0, 1}
      /\ \A m \in 1 .. Count : m \in Nat \ {0} /\ len[m] \in Nat
  BY HashFacts, LanesAssumption DEF HashInv
<1>3. PICK q \in Nat : q = Count - taken
  BY <1>2
<1>4. I \in SUBSET (1 .. Lanes) /\ \A l \in I : l \in Nat /\ Rank(I, l) \in Nat
  <2>1. I \in SUBSET (1 .. Lanes) /\ Lanes \in Nat
    BY <1>2 DEF LaneSet
  <2>2. \A l \in I : l \in Nat
    BY <2>1
  <2> HIDE DEF I
  <2> QED
    BY <2>1, <2>2, RankSteps
<1> HIDE DEF I
<1>5. T = RankedTo(I, q) /\ T \subseteq I
  <2>1. \A l \in I : Message(l) <= Count <=> Rank(I, l) <= q
    BY <1>2, <1>3, <1>4
  <2> HIDE DEF Message
  <2> QED
    BY <2>1 DEF T, RankedTo
<1> HIDE DEF T
<1>6. /\ IsFiniteSet(T) /\ Cardinality(T) \in Nat /\ Cardinality(T) <= q
      /\ \A l \in T : Rank(I, l) \in 1 .. Cardinality(T)
      /\ \A r \in 1 .. Cardinality(T) : \E l \in T : Rank(I, l) = r
      /\ T = I \/ Cardinality(T) = q
  <2>1. Lanes \in Nat /\ I \in SUBSET (1 .. Lanes)
    BY <1>2, <1>4
  <2> QED
    <3>1. IsRanked(I, q, T)
      BY ONLY <1>3, <1>5, <2>1, Ranked
    <3> QED
      BY ONLY <3>1 DEF IsRanked
<1>7. PICK n \in Nat : n = Cardinality(T)
  BY <1>6
<1>8. taken' = taken + n /\ taken' \in 0 .. Count /\ taken <= taken' /\ Count' = Count
  BY <1>1, <1>2, <1>3, <1>6, <1>7, HashSame
<1>9. \A l \in T : Message(l) \in 1 .. taken' /\ Message(l) \in 1 .. Count /\ Message(l) \in Nat \ {0}
  BY <1>2, <1>6, <1>7, <1>8
<1>10. HashType'
  BY <1>1, <1>8 DEF HashInv, HashType
<1>11. ASSUME NEW l \in LaneSet PROVE Holds(l)'
  <2>1. CASE l \in T
    <3>1. PICK m : m = Message(l)
      OBVIOUS
    <3>2. m \in 1 .. taken' /\ len[m] \in Nat /\ keyed \in BOOLEAN
      BY <1>2, <1>9, <2>1, <3>1 DEF HashInv, HashType
    <3>3. Fresh(m) = LaneAt(m, 0) /\ 0 < Blocks(m)
      BY <3>2, FreshIs
    <3>4. lane'[l] = Fresh(m)
      BY <1>1, <2>1, <3>1
    <3>5. LaneAt(m, 0)' = LaneAt(m, 0) /\ Blocks(m)' = Blocks(m)
      BY <1>1, HashSame
    <3> QED
      BY <3>2, <3>3, <3>4, <3>5 DEF Holds
  <2>2. CASE l \notin T
    <3>1. lane'[l] = lane[l]
      BY <1>1, <2>2
    <3>2. Holds(l)
      BY DEF HashInv
    <3>3. CASE lane[l] = Idle
      BY <3>1, <3>3 DEF Holds, Idle
    <3>4. CASE lane[l] # Idle
      <4>1. PICK m \in 1 .. taken, j \in Nat : j < Blocks(m) /\ lane[l] = LaneAt(m, j)
        BY <3>2, <3>4 DEF Holds
      <4>2. m \in 1 .. taken'
        BY <1>2, <1>8
      <4>3. Blocks(m)' = Blocks(m) /\ LaneAt(m, j)' = LaneAt(m, j)
        BY <1>1, HashSame
      <4> QED
        BY <3>1, <4>1, <4>2, <4>3 DEF Holds
    <3> QED
      BY <3>3, <3>4
  <2> QED
    BY <2>1, <2>2
<1>12. \A m \in 1 .. Count' : Written(m)' => out'[m] = Alone(m)'
  BY <1>1, <1>8, HashSame DEF HashInv, Written
<1>13. ASSUME NEW m \in 1 .. taken' PROVE Written(m)' \/ \E l \in LaneSet : lane'[l].which = m
  <2>1. CASE m <= taken
    <3>1. m \in 1 .. taken
      BY <1>2, <1>8, <2>1
    <3>2. CASE Written(m)
      BY <1>1, <3>2 DEF Written
    <3>3. CASE ~Written(m)
      <4>1. PICK l \in LaneSet : lane[l].which = m
        BY <1>1, <3>1, <3>3 DEF HashInv
      <4>2. l \notin I
        BY <3>1, <4>1 DEF I, Busy
      <4>3. l \notin T
        BY <1>5, <4>2
      <4> QED
        BY <1>1, <4>1, <4>3
    <3> QED
      BY <3>2, <3>3
  <2>2. CASE ~(m <= taken)
    <3>1. m - taken \in 1 .. n
      BY <1>2, <1>8, <2>2
    <3>2. PICK l \in T : Rank(I, l) = m - taken
      BY <1>6, <1>7, <3>1
    <3>3. l \in LaneSet /\ Message(l) = m
      BY <1>2, <1>4, <1>5, <1>8, <3>2 DEF LaneSet
    <3>4. lane'[l] = Fresh(m)
      BY <1>1, <3>2, <3>3
    <3> QED
      BY <3>3, <3>4 DEF Fresh
  <2> QED
    BY <2>1, <2>2
<1>14. ASSUME pc' = "rest" PROVE taken' = Count
  <2>1. Cardinality(Busy \cup T) < 2
    BY <1>1, <1>14
  <2>2. T # I
    <3> SUFFICES ASSUME T = I PROVE FALSE
      OBVIOUS
    <3>1. Busy \cup T = 1 .. Lanes
      BY DEF I, Busy, LaneSet
    <3>2. Cardinality(1 .. Lanes) = Lanes
      <4>1. 1 \in Int /\ Lanes \in Int /\ ~(1 > Lanes) /\ Lanes - 1 + 1 = Lanes
        BY <1>2
      <4>2. Cardinality(1 .. Lanes) = IF 1 > Lanes THEN 0 ELSE Lanes - 1 + 1
        BY ONLY <4>1, FS_Interval
      <4> QED
        BY ONLY <4>1, <4>2
    <3>3. Cardinality(1 .. Lanes) < 2
      BY ONLY <2>1, <3>1
    <3> QED
      BY ONLY <1>2, <3>2, <3>3
  <2> QED
    BY <1>2, <1>3, <1>6, <1>7, <1>8, <2>2
<1>15. pc' \in {"rest", "round"}
  BY <1>1
<1> QED
  BY <1>8, <1>10, <1>11, <1>12, <1>13, <1>14, <1>15 DEF HashInv, LaneSet

(* Lanes that are busy hold messages that were taken; the others are idle.  *)
LEMMA LanesHold ==
  ASSUME HashInv, NEW l \in LaneSet
  PROVE  /\ l \in Busy => \E m \in 1 .. taken : \E j \in Nat : j < Blocks(m) /\ lane[l] = LaneAt(m, j)
         /\ l \notin Busy => lane[l] = Idle
<1>1. Holds(l) /\ taken \in Nat
  BY DEF HashInv, HashType
<1>2. Idle.which = 0
  BY DEF Idle
<1>3. \A m \in 1 .. taken : \A j : LaneAt(m, j).which # 0
  BY <1>1 DEF LaneAt
<1> QED
  BY <1>1, <1>2, <1>3 DEF Holds, Busy

LEMMA HashRounds == HashInv /\ Round => HashInv'
<1> SUFFICES ASSUME HashInv, Round PROVE HashInv'
  OBVIOUS
<1> DEFINE after == [l \in Busy |-> Compressed(lane[l])]
           ended == {l \in Busy : Ended(after[l])}
<1>1. /\ pc = "round" /\ len' = len /\ keyed' = keyed /\ taken' = taken /\ pc' = "take"
      /\ out' = [m \in DOMAIN out |->
                   IF \E l \in ended : after[l].which = m
                   THEN after[CHOOSE l \in ended : after[l].which = m].h ELSE out[m]]
      /\ lane' = [l \in LaneSet |->
                    CASE l \in ended        -> Idle
                      [] l \in Busy \ ended -> after[l]
                      [] OTHER              -> lane[l]]
  BY DEF Round
<1>2. /\ Count \in Nat /\ taken \in Nat /\ taken <= Count /\ keyed \in BOOLEAN
      /\ \A m \in 1 .. Count : m \in Nat \ {0} /\ len[m] \in Nat
      /\ DOMAIN out = 1 .. Count
  BY HashFacts DEF HashInv, HashType
<1>3. ended \subseteq Busy /\ Busy \subseteq LaneSet
  BY DEF Busy
<1>4. ASSUME NEW l \in Busy
      PROVE  \E m \in 1 .. taken : \E j \in Nat :
               /\ j < Blocks(m) /\ lane[l].which = m
               /\ after[l].which = m /\ after[l].h = HashOf(m, j + 1)
               /\ l \in ended <=> j + 1 = Blocks(m)
               /\ j + 1 < Blocks(m) => after[l] = LaneAt(m, j + 1)
  <2>1. PICK m \in 1 .. taken, j \in Nat : j < Blocks(m) /\ lane[l] = LaneAt(m, j)
    BY <1>3, LanesHold
  <2>2. len[m] \in Nat
    BY <1>2
  <2>3. PICK c : c = Compressed(LaneAt(m, j))
    OBVIOUS
  <2>4. /\ c.which = m /\ c.h = HashOf(m, j + 1)
        /\ Ended(c) <=> j + 1 = Blocks(m)
        /\ j + 1 < Blocks(m) => c = LaneAt(m, j + 1)
    BY <1>2, <2>1, <2>2, <2>3, CompressedIs
  <2>5. after[l] = c
    BY <2>1, <2>3
  <2>6. lane[l].which = m
    BY <2>1 DEF LaneAt
  <2>7. l \in ended <=> Ended(c)
    BY <2>5
  <2> HIDE DEF after, ended
  <2> QED
    BY <2>1, <2>4, <2>5, <2>6, <2>7
<1> HIDE DEF after, ended
<1>5. ASSUME NEW l \in ended
      PROVE  after[l].which \in 1 .. taken /\ after[l].h = Alone(after[l].which)
  <2>1. PICK m \in 1 .. taken, j \in Nat :
               /\ after[l].which = m /\ after[l].h = HashOf(m, j + 1)
               /\ j + 1 = Blocks(m)
    BY <1>3, <1>4
  <2> QED
    BY <2>1, AloneIs DEF HashOf
<1>6. ASSUME NEW m \in 1 .. Count
      PROVE  \/ out'[m] = Alone(m) /\ \E l \in ended : after[l].which = m
             \/ out'[m] = out[m] /\ ~\E l \in ended : after[l].which = m
  <2>1. CASE \E l \in ended : after[l].which = m
    <3>1. PICK l : l = CHOOSE i \in ended : after[i].which = m
      OBVIOUS
    <3>2. l \in ended /\ after[l].which = m
      BY <2>1, <3>1
    <3>3. out'[m] = after[l].h
      BY <1>1, <1>2, <2>1, <3>1
    <3> QED
      BY <1>5, <3>2, <3>3
  <2>2. CASE ~\E l \in ended : after[l].which = m
    BY <1>1, <1>2, <2>2
  <2> QED
    BY <2>1, <2>2
<1>7. Count' = Count /\ \A m : Alone(m)' = Alone(m) /\ Blocks(m)' = Blocks(m)
      /\ \A n, j : LaneAt(n, j)' = LaneAt(n, j)
  BY <1>1, HashSame
<1>8. HashType'
  BY <1>1, <1>2, <1>7 DEF HashInv, HashType
<1>9. ASSUME NEW l \in LaneSet PROVE Holds(l)'
  <2>1. CASE l \in ended
    BY <1>1, <2>1 DEF Holds, Idle
  <2>2. CASE l \in Busy \ ended
    <3>1. PICK m \in 1 .. taken, j \in Nat :
               /\ j < Blocks(m)
               /\ l \in ended <=> j + 1 = Blocks(m)
               /\ j + 1 < Blocks(m) => after[l] = LaneAt(m, j + 1)
      <4>1. PICK m \in 1 .. taken, j \in Nat :
               /\ j < Blocks(m) /\ lane[l].which = m
               /\ after[l].which = m /\ after[l].h = HashOf(m, j + 1)
               /\ l \in ended <=> j + 1 = Blocks(m)
               /\ j + 1 < Blocks(m) => after[l] = LaneAt(m, j + 1)
        BY <1>4, <2>2
      <4> QED
        BY ONLY <4>1
    <3>2. Blocks(m) \in Nat
      <4>1. len[m] \in Nat
        BY <1>2
      <4> QED
        BY <1>2, <4>1, BlocksAre
    <3>3. j + 1 < Blocks(m) /\ j + 1 \in Nat
      BY <2>2, <3>1, <3>2
    <3>4. lane'[l] = after[l]
      BY <1>1, <2>2
    <3>5. lane'[l] = LaneAt(m, j + 1)' /\ j + 1 < Blocks(m)' /\ m \in 1 .. taken'
      BY <1>1, <1>7, <3>1, <3>3, <3>4
    <3> QED
      BY <3>3, <3>5 DEF Holds
  <2>3. CASE l \notin Busy
    <3>1. lane'[l] = Idle
      BY <1>1, <1>3, <2>3, LanesHold
    <3> QED
      BY <3>1 DEF Holds, Idle
  <2> QED
    BY <2>1, <2>2, <2>3
<1>10. \A m \in 1 .. Count' : Written(m)' => out'[m] = Alone(m)'
  BY <1>6, <1>7 DEF HashInv, Written
<1>11. ASSUME NEW m \in 1 .. taken' PROVE Written(m)' \/ \E l \in LaneSet : lane'[l].which = m
  <2>1. m \in 1 .. taken /\ m \in 1 .. Count /\ Alone(m) # <<>>
    BY <1>1, <1>2, AloneIsWritten
  <2>2. CASE Written(m)
    BY <1>6, <2>1, <2>2 DEF Written
  <2>3. CASE ~Written(m)
    <3>1. PICK l \in LaneSet : lane[l].which = m
      BY <1>1, <2>1, <2>3 DEF HashInv
    <3>2. l \in Busy
      BY <2>1, <3>1 DEF Busy
    <3>3. after[l].which = m
      BY <1>4, <3>1, <3>2
    <3>4. CASE l \in ended
      BY <1>6, <2>1, <3>3, <3>4 DEF Written
    <3>5. CASE l \notin ended
      <4>1. lane'[l] = after[l]
        BY <1>1, <3>2, <3>5
      <4> QED
        BY <3>3, <4>1
    <3> QED
      BY <3>4, <3>5
  <2> QED
    BY <2>2, <2>3
<1> QED
  BY <1>1, <1>8, <1>9, <1>10, <1>11 DEF HashInv, LaneSet

LEMMA HashRests == HashInv /\ Rest => HashInv'
<1> SUFFICES ASSUME HashInv, Rest PROVE HashInv'
  OBVIOUS
<1>1. /\ pc = "rest" /\ len' = len /\ keyed' = keyed /\ taken' = taken /\ lane' = lane /\ pc' = "done"
      /\ out' = [m \in DOMAIN out |->
                   IF \E l \in Busy : lane[l].which = m
                   THEN Finish(lane[CHOOSE l \in Busy : lane[l].which = m]) ELSE out[m]]
  BY DEF Rest
<1>2. /\ Count \in Nat /\ taken = Count /\ keyed \in BOOLEAN
      /\ \A m \in 1 .. Count : m \in Nat \ {0} /\ len[m] \in Nat
      /\ DOMAIN out = 1 .. Count
  BY <1>1, HashFacts DEF HashInv, HashType
<1>3. ASSUME NEW l \in Busy PROVE Finish(lane[l]) = Alone(lane[l].which)
  <2>1. PICK m \in 1 .. taken, j \in Nat : j < Blocks(m) /\ lane[l] = LaneAt(m, j)
    BY LanesHold DEF Busy
  <2>2. Finish(LaneAt(m, j)) = Alone(m)
    BY <1>2, <2>1, FinishIs
  <2>3. lane[l].which = m
    BY <2>1 DEF LaneAt
  <2> QED
    BY <2>1, <2>2, <2>3
<1>4. ASSUME NEW m \in 1 .. Count
      PROVE  \/ out'[m] = Alone(m)
             \/ out'[m] = out[m] /\ ~\E l \in Busy : lane[l].which = m
  <2>1. CASE \E l \in Busy : lane[l].which = m
    <3>1. PICK l : l = CHOOSE i \in Busy : lane[i].which = m
      OBVIOUS
    <3>2. l \in Busy /\ lane[l].which = m
      BY <2>1, <3>1
    <3>3. out'[m] = Finish(lane[l])
      BY <1>1, <1>2, <2>1, <3>1
    <3> QED
      BY <1>3, <3>2, <3>3
  <2>2. CASE ~\E l \in Busy : lane[l].which = m
    BY <1>1, <1>2, <2>2
  <2> QED
    BY <2>1, <2>2
<1>5. Count' = Count /\ \A m : Alone(m)' = Alone(m) /\ Blocks(m)' = Blocks(m)
      /\ \A n, j : LaneAt(n, j)' = LaneAt(n, j)
  BY <1>1, HashSame
<1>6. HashType'
  BY <1>1, <1>2, <1>5 DEF HashInv, HashType
<1>7. \A l \in LaneSet : Holds(l)'
  BY <1>1, <1>5 DEF HashInv, Holds, Idle
<1>8. \A m \in 1 .. Count' : Written(m)' => out'[m] = Alone(m)'
  BY <1>4, <1>5 DEF HashInv, Written
<1>9. ASSUME NEW m \in 1 .. Count PROVE Written(m)'
  <2>1. Alone(m) # <<>>
    BY <1>2, AloneIsWritten
  <2>2. Written(m) \/ \E l \in LaneSet : lane[l].which = m
    BY <1>1, <1>2 DEF HashInv
  <2>3. \A l \in LaneSet : lane[l].which = m => l \in Busy
    BY <1>2 DEF Busy
  <2> QED
    BY <1>4, <2>1, <2>2, <2>3 DEF Written
<1> QED
  BY <1>1, <1>5, <1>6, <1>7, <1>8, <1>9 DEF HashInv, LaneSet

LEMMA HashOnes == HashInv /\ One => HashInv'
<1> SUFFICES ASSUME HashInv, One PROVE HashInv'
  OBVIOUS
<1>1. pc = "one" /\ len' = len /\ keyed' = keyed /\ lane' = lane
  BY DEF One
<1>2. /\ Count \in Nat /\ taken \in Nat /\ taken <= Count /\ keyed \in BOOLEAN
      /\ \A m \in 1 .. Count : m \in Nat \ {0} /\ len[m] \in Nat
      /\ out = [m \in 1 .. Count |-> out[m]]
  BY HashFacts DEF HashInv, HashType
<1>3. Count' = Count /\ \A m : Alone(m)' = Alone(m) /\ Blocks(m)' = Blocks(m)
      /\ \A n, j : LaneAt(n, j)' = LaneAt(n, j)
  BY <1>1, HashSame
<1>4. taken' \in Nat /\ taken <= taken' => \A l \in LaneSet : Holds(l)'
  <2> SUFFICES ASSUME taken' \in Nat, taken <= taken', NEW l \in LaneSet PROVE Holds(l)'
    OBVIOUS
  <2>1. Holds(l) /\ 1 .. taken \subseteq 1 .. taken'
    BY <1>2 DEF HashInv
  <2> QED
    BY <1>1, <1>3, <2>1 DEF Holds, Idle
<1>5. CASE taken < Count
  <2>1. PICK n : n = taken + 1
    OBVIOUS
  <2>2. n \in 1 .. Count /\ len[n] \in Nat /\ taken' = n /\ pc' = pc
        /\ out' = [out EXCEPT ![n] = Finish(Fresh(n))]
    BY <1>2, <1>5, <2>1 DEF One
  <2>3. Finish(Fresh(n)) = Alone(n) /\ Alone(n) # <<>>
    <3>1. Fresh(n) = LaneAt(n, 0) /\ 0 < Blocks(n)
      BY <1>2, <2>2, FreshIs
    <3> QED
      BY <1>2, <2>2, <3>1, FinishIs, AloneIsWritten
  <2>4. \A m \in 1 .. Count : out'[m] = IF m = n THEN Alone(n) ELSE out[m]
    BY <1>2, <2>2, <2>3
  <2>5. HashType'
    <3>1. out' = [m \in 1 .. Count |-> out'[m]]
      BY <1>2, <2>2
    <3> QED
      BY <1>1, <1>2, <1>3, <2>2, <3>1 DEF HashInv, HashType
  <2>6. \A m \in 1 .. Count' : Written(m)' => out'[m] = Alone(m)'
    BY <1>3, <2>4 DEF HashInv, Written
  <2>7. ASSUME NEW m \in 1 .. taken' PROVE Written(m)'
    <3>1. m \in 1 .. Count /\ (m = n \/ m \in 1 .. taken)
      BY <1>2, <2>1, <2>2
    <3> QED
      BY <1>1, <2>3, <2>4, <3>1 DEF HashInv, Written
  <2> QED
    BY <1>1, <1>2, <1>4, <2>1, <2>2, <2>5, <2>6, <2>7 DEF HashInv, LaneSet
<1>6. CASE ~(taken < Count)
  <2>1. taken' = taken /\ out' = out /\ pc' = "done" /\ taken = Count
    BY <1>2, <1>6 DEF One
  <2>2. HashType'
    BY <1>1, <1>3, <2>1 DEF HashInv, HashType
  <2>3. \A m \in 1 .. Count' : Written(m)' /\ out'[m] = Alone(m)'
    BY <1>1, <1>3, <2>1 DEF HashInv, Written
  <2> QED
    BY <1>2, <1>4, <2>1, <2>2, <2>3 DEF HashInv, LaneSet
<1> QED
  BY <1>5, <1>6

LEMMA HashStutters == HashInv /\ UNCHANGED hashVars => HashInv'
<1> SUFFICES ASSUME HashInv, UNCHANGED hashVars PROVE HashInv'
  OBVIOUS
<1>1. /\ len' = len /\ keyed' = keyed /\ lane' = lane /\ taken' = taken
      /\ out' = out /\ pc' = pc
  BY DEF hashVars
<1>2. Count' = Count /\ \A m : Alone(m)' = Alone(m) /\ Blocks(m)' = Blocks(m)
      /\ \A n, j : LaneAt(n, j)' = LaneAt(n, j)
  BY <1>1, HashSame
<1>3. HashType' /\ \A l \in LaneSet : Holds(l)'
  BY <1>1, <1>2 DEF HashInv, HashType, Holds, Idle
<1> QED
  BY <1>1, <1>2, <1>3 DEF HashInv, Written, LaneSet

(* Whichever lane a message was in, with which others, and wherever it was  *)
(* left to be finished alone, what is written for it is the hash of that    *)
(* message, and when sylzc_blake2s_many ends there is one for each.         *)
THEOREM HashesAreAlone == HashSpec => []HashedAsAlone
<1>1. HashInv => HashedAsAlone
  BY DEF HashInv, HashedAsAlone, Written
<1>2. HashInv /\ [HashNext]_hashVars => HashInv'
  BY HashTakes, HashRounds, HashRests, HashOnes, HashStutters DEF HashNext
<1> QED
  BY <1>1, <1>2, HashStart, PTL DEF HashSpec
=============================================================================
