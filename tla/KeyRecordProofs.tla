-------------------------- MODULE KeyRecordProofs --------------------------
(***************************************************************************)
(* Proofs about KeyRecord, for any passwords and any last generation: the  *)
(* owner is never locked out, and a password that was changed is revoked.  *)
(***************************************************************************)
EXTENDS KeyRecord, TLAPS

Used(rec, s) == rec[s].gen > 0

(* Every used slot, now or after a power loss, has a password the owner may *)
(* try.                                                                     *)
UsedAreKnown ==
  \A s \in Slots : /\ Used(cache, s) => cache[s].pw \in known
                   /\ Used(disk, s) => disk[s].pw \in known

(* Writing one slot back never leaves an empty record on the disk: a slot   *)
(* is empty in the cache only when the other one is used in both places.    *)
NeverBothEmpty ==
  /\ \E s \in Slots : Used(cache, s)
  /\ \E s \in Slots : Used(disk, s)
  /\ \A s \in Slots : ~Used(cache, s) => Used(disk, Other(s)) /\ Used(cache, Other(s))

(* What syc k has written so far. *)
Progress ==
  /\ pc # "idle" => new \in known
  /\ pc \in {"flushBoth", "new", "flushNew"} =>
       Used(cache, Other(slot)) /\ cache[Other(slot)].pw = new
  /\ pc \in {"both", "flushBoth", "new"} => Used(cache, slot)
  /\ pc = "both" => Highest(cache) < MaxGen
  /\ pc = "new" => disk = cache
  /\ pc = "flushNew" => cache[slot] = Empty

(* The generations of the two slots differ, whichever slots a power loss    *)
(* leaves of the cache and of the disk, and none on the disk is above the   *)
(* cache's, from which the next one is taken.                               *)
GensDiffer ==
  /\ \A a, b \in {cache, disk} : a[0].gen = b[1].gen => a[0].gen = 0
  /\ \A s \in Slots : disk[s].gen <= Highest(cache)

(* The slot just written is above the one that the old password opened.     *)
NewAbove ==
  pc \in {"flushBoth", "new"} => cache[Other(slot)].gen > cache[slot].gen

IInv == TypeOK /\ UsedAreKnown /\ NeverBothEmpty /\ Progress

-----------------------------------------------------------------------------
(* A slot is the other one's other, and there are two.                      *)
LEMMA OtherSlot ==
  /\ Slots = {0, 1}
  /\ \A s \in Slots : Other(s) \in Slots /\ Other(s) # s /\ Other(Other(s)) = s
  /\ \A s, t \in Slots : t # s => t = Other(s)
BY DEF Slots, Other

(* A record opens with the password of any slot it uses.                    *)
LEMMA UsedOpens ==
  ASSUME NEW rec \in [Slots -> Slot], NEW s \in Slots, Used(rec, s)
  PROVE  Opens(rec, rec[s].pw)
<1>1. rec[0].gen \in Int /\ rec[1].gen \in Int
  BY KeyRecordAssumption DEF Slots, Slot, Empty
<1>2. CASE OpensIn(rec, rec[s].pw, s)
  BY <1>2 DEF Opens
<1>3. CASE ~OpensIn(rec, rec[s].pw, s)
  <2>1. OpensIn(rec, rec[s].pw, Other(s))
    BY <1>1, <1>3 DEF OpensIn, Used, Slots, Other
  <2> QED
    BY <2>1, OtherSlot DEF Opens
<1> QED
  BY <1>2, <1>3

(* A record opens only with the password of a slot it uses.                 *)
LEMMA OpensUsed ==
  ASSUME NEW rec, NEW p, Opens(rec, p)
  PROVE  \E s \in Slots : Used(rec, s) /\ rec[s].pw = p
BY DEF Opens, OpensIn, Used

(* What RewrapKeyRecord makes of a record is a record.                      *)
LEMMA WithBothType ==
  ASSUME NEW rec \in [Slots -> Slot], NEW s \in Slots, NEW p \in Passwords,
         Highest(rec) < MaxGen
  PROVE  /\ WithBoth(rec, s, p) \in [Slots -> Slot]
         /\ WithBoth(rec, s, p)[s] = rec[s]
         /\ WithBoth(rec, s, p)[Other(s)].pw = p
         /\ Used(WithBoth(rec, s, p), Other(s))
<1>1. rec[0].gen \in 0 .. MaxGen /\ rec[1].gen \in 0 .. MaxGen
  BY KeyRecordAssumption DEF Slots, Slot, Empty
<1>2. Highest(rec) + 1 \in 1 .. MaxGen
  BY <1>1, KeyRecordAssumption DEF Highest, Larger
<1>3. [gen |-> Highest(rec) + 1, pw |-> p] \in Slot
  BY <1>2 DEF Slot
<1> QED
  BY <1>2, <1>3, OtherSlot DEF WithBoth, Used

LEMMA InitInv == Init => IInv
<1> SUFFICES ASSUME Init PROVE IInv
  OBVIOUS
<1>1. PICK p \in Passwords :
        /\ cache = [s \in Slots |-> IF s = 0 THEN [gen |-> 1, pw |-> p] ELSE Empty]
        /\ known = {p} /\ new = p /\ old = p
  BY DEF Init
<1>2. [gen |-> 1, pw |-> p] \in Slot /\ Empty \in Slot
  BY KeyRecordAssumption DEF Slot
<1>3. TypeOK
  BY <1>1, <1>2 DEF Init, TypeOK, Slots
<1>4. cache[0] = [gen |-> 1, pw |-> p] /\ cache[1] = Empty /\ disk = cache
  BY <1>1 DEF Init, Slots
<1>5. UsedAreKnown
  BY <1>1, <1>4 DEF UsedAreKnown, Used, Slots, Empty
<1>6. NeverBothEmpty
  BY <1>4 DEF NeverBothEmpty, Used, Slots, Empty, Other
<1>7. Progress
  BY DEF Init, Progress
<1> QED
  BY <1>3, <1>5, <1>6, <1>7 DEF IInv

LEMMA NextInv == IInv /\ [Next]_vars => IInv'
<1> SUFFICES ASSUME IInv, [Next]_vars PROVE IInv'
  OBVIOUS
<1> USE DEF IInv
<1>1. ASSUME NEW o \in Passwords, NEW n \in Passwords, Begin(o, n)
      PROVE  IInv'
  <2>1. TypeOK'
    BY <1>1 DEF Begin, TypeOK
  <2>2. Used(cache, slot')
    BY <1>1 DEF Begin, OpensIn, Used
  <2>3. UsedAreKnown'
    BY <1>1 DEF Begin, UsedAreKnown, Used
  <2>4. NeverBothEmpty'
    BY <1>1 DEF Begin, NeverBothEmpty, Used
  <2>5. Progress'
    BY <1>1, <2>2 DEF Begin, Progress, Used
  <2> QED
    BY <2>1, <2>3, <2>4, <2>5
<1>2. ASSUME WriteBoth
      PROVE  IInv'
  <2>1. /\ cache' \in [Slots -> Slot]
        /\ cache'[slot] = cache[slot]
        /\ cache'[Other(slot)].pw = new
        /\ Used(cache', Other(slot))
    BY <1>2, WithBothType DEF WriteBoth, Progress, TypeOK
  <2>2. Used(cache', slot)
    BY <1>2, <2>1 DEF WriteBoth, Progress, Used
  <2>3. \A s \in Slots : s = slot \/ s = Other(slot)
    BY OtherSlot DEF TypeOK
  <2>4. TypeOK'
    BY <1>2, <2>1 DEF WriteBoth, TypeOK
  <2>5. UsedAreKnown'
    BY <1>2, <2>1, <2>3 DEF WriteBoth, UsedAreKnown, Progress, Used, TypeOK
  <2>6. NeverBothEmpty'
    BY <1>2, <2>1, <2>2, <2>3 DEF WriteBoth, NeverBothEmpty, TypeOK, Used
  <2>7. Progress'
    BY <1>2, <2>1, <2>2 DEF WriteBoth, Progress, Used
  <2> QED
    BY <2>4, <2>5, <2>6, <2>7
<1>3. ASSUME FlushBoth
      PROVE  IInv'
  BY <1>3 DEF FlushBoth, TypeOK, UsedAreKnown, NeverBothEmpty, Progress, Used
<1>4. ASSUME WriteNew
      PROVE  IInv'
  <2>1. Empty \in Slot /\ ~(Empty.gen > 0)
    BY DEF Slot, Empty
  <2>2. /\ cache' \in [Slots -> Slot]
        /\ cache'[slot] = Empty
        /\ cache'[Other(slot)] = cache[Other(slot)]
    BY <1>4, <2>1, OtherSlot DEF WriteNew, WithNew, TypeOK
  <2>3. \A s \in Slots : s = slot \/ s = Other(slot)
    BY OtherSlot DEF TypeOK
  <2>4. TypeOK'
    BY <1>4, <2>2 DEF WriteNew, TypeOK
  <2>5. UsedAreKnown'
    BY <1>4, <2>1, <2>2, <2>3 DEF WriteNew, UsedAreKnown, Progress, Used
  <2>6. Used(cache', Other(slot)) /\ Used(disk', Other(slot))
    BY <1>4, <2>2 DEF WriteNew, Progress, Used
  <2>7. NeverBothEmpty'
    BY <1>4, <2>3, <2>6, OtherSlot DEF WriteNew, NeverBothEmpty, TypeOK
  <2>8. Progress'
    BY <1>4, <2>2 DEF WriteNew, Progress, Used
  <2> QED
    BY <2>4, <2>5, <2>7, <2>8
<1>5. ASSUME FlushNew
      PROVE  IInv'
  <2>1. Other(slot) \in Slots /\ Used(cache, Other(slot)) /\ cache[Other(slot)].pw = new
    BY <1>5, OtherSlot DEF FlushNew, Progress, TypeOK
  <2>2. \A s \in Slots : Used(cache, s) => cache[s].pw = new
    BY <1>5, <2>1, OtherSlot DEF FlushNew, Progress, TypeOK, Used, Empty
  <2>3. TypeOK'
    BY <1>5 DEF FlushNew, TypeOK
  <2>4. UsedAreKnown'
    BY <1>5, <2>2 DEF FlushNew, UsedAreKnown, Used
  <2>5. NeverBothEmpty'
    BY <1>5, <2>1 DEF FlushNew, NeverBothEmpty, Used
  <2>6. Progress'
    BY <1>5 DEF FlushNew, Progress
  <2> QED
    BY <2>3, <2>4, <2>5, <2>6
<1>6. ASSUME Stopped
      PROVE  IInv'
  BY <1>6 DEF Stopped, TypeOK, UsedAreKnown, NeverBothEmpty, Progress, Used
<1>7. ASSUME PowerLoss
      PROVE  IInv'
  <2>1. \A s \in Slots : ~Used(disk, s) => Used(disk, Other(s))
    BY OtherSlot DEF NeverBothEmpty
  <2> QED
    BY <1>7, <2>1 DEF PowerLoss, TypeOK, UsedAreKnown, NeverBothEmpty, Progress, Used
<1>8. ASSUME NEW s \in Slots, WriteBack(s)
      PROVE  IInv'
  <2>1. /\ disk' \in [Slots -> Slot]
        /\ disk'[s] = cache[s]
        /\ \A t \in Slots : t # s => disk'[t] = disk[t]
    BY <1>8 DEF WriteBack, TypeOK
  <2>2. TypeOK'
    BY <1>8, <2>1 DEF WriteBack, TypeOK
  <2>3. UsedAreKnown'
    BY <1>8, <2>1 DEF WriteBack, UsedAreKnown, Used
  <2>4. \A t \in Slots : ~Used(cache, t) => Used(disk', Other(t))
    BY <2>1, OtherSlot DEF NeverBothEmpty, Used
  <2>5. \E t \in Slots : Used(disk', t)
    BY <2>1, OtherSlot DEF NeverBothEmpty, Used
  <2>6. NeverBothEmpty'
    BY <1>8, <2>4, <2>5 DEF WriteBack, NeverBothEmpty, Used
  <2>7. Progress'
    BY <1>8, <2>1 DEF WriteBack, Progress, Used, Highest
  <2> QED
    BY <2>2, <2>3, <2>6, <2>7
<1>9. ASSUME UNCHANGED vars
      PROVE  IInv'
  BY <1>9 DEF vars, TypeOK, UsedAreKnown, NeverBothEmpty, Progress, Used
<1> QED
  BY <1>1, <1>2, <1>3, <1>4, <1>5, <1>6, <1>7, <1>8, <1>9 DEF Next

LEMMA Invariant == Spec => []IInv
BY InitInv, NextInv, PTL DEF Spec

-----------------------------------------------------------------------------
THEOREM TypeCorrect == Spec => []TypeOK
BY Invariant, PTL DEF IInv

(* Whatever is interrupted, and whatever the disk has of it, the file opens *)
(* with a password of the changes since the last success (ChangeOne writes  *)
(* and flushes the new slot before it zeroes the old one).                  *)
THEOREM OwnerNeverLockedOut == Spec => []NeverLockedOut
<1>1. IInv => NeverLockedOut
  <2> SUFFICES ASSUME IInv PROVE NeverLockedOut
    OBVIOUS
  <2>1. PICK s \in Slots : Used(cache, s)
    BY DEF IInv, NeverBothEmpty
  <2>2. PICK t \in Slots : Used(disk, t)
    BY DEF IInv, NeverBothEmpty
  <2>3. Opens(cache, cache[s].pw) /\ Opens(disk, disk[t].pw)
    BY <2>1, <2>2, UsedOpens DEF IInv, TypeOK
  <2>4. cache[s].pw \in known /\ disk[t].pw \in known
    BY <2>1, <2>2 DEF IInv, UsedAreKnown
  <2> QED
    BY <2>3, <2>4 DEF NeverLockedOut
<1> QED
  BY <1>1, Invariant, PTL

(* After a success only the new password opens the file, and no power loss  *)
(* brings an older one back (the second flush of ChangeOne).                *)
THEOREM OldPasswordsStayRevoked == Spec => []OldPasswordsRevoked
<1>1. IInv => OldPasswordsRevoked
  BY OpensUsed DEF IInv, UsedAreKnown, OldPasswordsRevoked
<1> QED
  BY <1>1, Invariant, PTL

-----------------------------------------------------------------------------
GInv == IInv /\ GensDiffer /\ NewAbove

(* A record's generations are numbers, and the highest is one of them.      *)
LEMMA Gens ==
  ASSUME NEW rec \in [Slots -> Slot]
  PROVE  /\ \A s \in Slots : rec[s].gen \in Nat
         /\ \A s \in Slots : rec[s].gen <= Highest(rec)
         /\ Highest(rec) \in Nat
<1>1. rec[0].gen \in Nat /\ rec[1].gen \in Nat
  BY KeyRecordAssumption DEF Slots, Slot, Empty
<1> QED
  BY <1>1 DEF Highest, Larger, Slots

LEMMA GInvInit == Init => GInv
<1> SUFFICES ASSUME Init PROVE GensDiffer /\ NewAbove
  BY InitInv DEF GInv
<1>1. cache[0].gen = 1 /\ cache[1].gen = 0 /\ disk = cache
  BY DEF Init, Slots, Empty
<1> QED
  BY <1>1 DEF Init, GensDiffer, NewAbove, Highest, Larger, Slots

LEMMA GInvNext == GInv /\ [Next]_vars => GInv'
<1> SUFFICES ASSUME GInv, [Next]_vars PROVE GInv'
  OBVIOUS
<1>1. IInv /\ GensDiffer /\ NewAbove /\ TypeOK /\ Progress
  BY DEF GInv, IInv
<1>2. IInv'
  BY <1>1, NextInv
<1>3. cache \in [Slots -> Slot] /\ disk \in [Slots -> Slot] /\ slot \in Slots
  BY <1>1 DEF TypeOK
<1>4. /\ \A s \in Slots : cache[s].gen \in Nat /\ disk[s].gen \in Nat
      /\ \A s \in Slots : cache[s].gen <= Highest(cache)
      /\ Highest(cache) \in Nat
  BY <1>3, Gens
<1>5. CASE WriteBoth
  <2>1. /\ cache'[Other(slot)].gen = Highest(cache) + 1
        /\ cache'[slot] = cache[slot]
        /\ disk' = disk /\ slot' = slot
    BY <1>3, <1>5, OtherSlot DEF WriteBoth, WithBoth
  <2>2. Highest(cache') = Highest(cache) + 1
    BY <1>3, <1>4, <2>1 DEF Highest, Larger, Slots, Other
  <2>3. GensDiffer'
    BY <1>1, <1>3, <1>4, <2>1, <2>2 DEF GensDiffer, Slots, Other
  <2>4. NewAbove'
    BY <1>3, <1>4, <2>1 DEF NewAbove
  <2> QED
    BY <1>2, <2>3, <2>4 DEF GInv
<1>6. CASE WriteNew
  <2>1. /\ cache'[slot].gen = 0
        /\ cache'[Other(slot)] = cache[Other(slot)]
        /\ disk' = disk /\ disk = cache /\ pc' = "flushNew"
    BY <1>1, <1>3, <1>6, OtherSlot DEF WriteNew, WithNew, Empty, Progress
  <2>2. cache[Other(slot)].gen > cache[slot].gen
    BY <1>1, <1>6 DEF WriteNew, NewAbove
  <2>3. Highest(cache') = Highest(cache)
    BY <1>3, <1>4, <2>1, <2>2 DEF Highest, Larger, Slots, Other
  <2>4. GensDiffer'
    BY <1>1, <1>3, <1>4, <2>1, <2>2, <2>3 DEF GensDiffer, Slots, Other
  <2> QED
    BY <1>2, <2>1, <2>4 DEF GInv, NewAbove
<1>7. CASE \/ \E o, p \in Passwords : Begin(o, p)
           \/ FlushBoth \/ FlushNew \/ Stopped \/ UNCHANGED vars
  <2>1. cache' = cache /\ (disk' = disk \/ disk' = cache)
    BY <1>7 DEF Begin, FlushBoth, FlushNew, Stopped, vars
  <2>2. GensDiffer'
    BY <1>1, <1>4, <2>1 DEF GensDiffer, Highest, Larger
  <2>3. NewAbove'
    BY <1>1, <1>7 DEF Begin, FlushBoth, FlushNew, Stopped, vars, NewAbove
  <2> QED
    BY <1>2, <2>2, <2>3 DEF GInv
<1>8. CASE PowerLoss
  <2>1. GensDiffer'
    BY <1>1, <1>3, <1>8, Gens DEF PowerLoss, GensDiffer
  <2> QED
    BY <1>2, <1>8, <2>1 DEF PowerLoss, GInv, NewAbove
<1>9. CASE \E s \in Slots : WriteBack(s)
  <2>1. PICK s \in Slots : WriteBack(s)
    BY <1>9
  <2>2. /\ cache' = cache /\ pc' = pc /\ slot' = slot
        /\ \A t \in Slots : disk'[t] = disk[t] \/ disk'[t] = cache[t]
    BY <1>3, <2>1 DEF WriteBack
  <2>3. GensDiffer'
    BY <1>1, <1>4, <2>2 DEF GensDiffer, Highest, Larger, Slots
  <2>4. NewAbove'
    BY <1>1, <2>2 DEF NewAbove
  <2> QED
    BY <1>2, <2>3, <2>4 DEF GInv
<1> QED
  BY <1>5, <1>6, <1>7, <1>8, <1>9 DEF Next

(* Whatever interrupted whichever changes, and whichever slots the disk has *)
(* of them, it is never in doubt which slot is the newer, and it is the new *)
(* password's (RewrapKeyRecord takes a generation above both).              *)
THEOREM NewestTriedFirst == Spec => []NewestFirst
<1>1. GInv => NewestFirst
  <2> SUFFICES ASSUME GInv PROVE NewestFirst
    OBVIOUS
  <2>1. IInv /\ GensDiffer /\ NewAbove /\ Progress /\ slot \in Slots
        /\ cache \in [Slots -> Slot]
    BY DEF GInv, IInv, TypeOK
  <2>2. \A s \in Slots : cache[s].gen \in Nat
    BY <2>1, Gens
  <2>3. pc \in {"flushBoth", "new"} => OpensIn(cache, new, Other(slot))
    BY <2>1, <2>2, OtherSlot DEF NewAbove, Progress, OpensIn, Used
  <2> QED
    BY <2>1, <2>3 DEF NewestFirst, GensDiffer
<1> QED
  BY <1>1, GInvInit, GInvNext, PTL DEF Spec
=============================================================================
