----------------------------- MODULE KeyRecord -----------------------------
(***************************************************************************)
(* The key record of an encrypted archive or stream and syc k, which       *)
(* changes its password in place (src/src/syckey.pas, ChangeOne;           *)
(* src/src/sycenc.pas, FillSlot, RewrapKeyRecord, OpenKeyRecordSlot).      *)
(*                                                                         *)
(* The record has two slots; a used one holds a generation and the data    *)
(* key wrapped with a password, an empty one is zero.  syc k writes the    *)
(* slot of the new password beside the old one, flushes, zeroes the old    *)
(* slot and flushes again.                                                 *)
(*                                                                         *)
(* The record is kept twice, as processes see it (cache) and on the disk.  *)
(* The kernel may write either slot back at any time; within a slot a      *)
(* write is taken to be atomic, since header and record lie in the file's  *)
(* first 512-byte sector.                                                  *)
(***************************************************************************)
EXTENDS Integers

CONSTANTS
  Passwords,       \* what users type
  NoPassword,      \* what an empty slot holds
  MaxGen           \* High(UInt32): the last generation

ASSUME KeyRecordAssumption ==
  /\ NoPassword \notin Passwords
  /\ MaxGen \in Nat \ {0}

VARIABLES
  cache,      \* the record as processes see it: slot -> [gen, pw]
  disk,       \* the record on the disk
  pc,         \* where syc k is
  slot,       \* the slot that the old password opened
  new,        \* the password to change to
  old,        \* the password that opened the record
  known       \* every password the owner may have to try: see Begin, Succeed

vars == <<cache, disk, pc, slot, new, old, known>>

Slots == {0, 1}
Empty == [gen |-> 0, pw |-> NoPassword]
Slot == {Empty} \cup [gen : 1 .. MaxGen, pw : Passwords]

Other(s) == 1 - s
Larger(a, b) == IF a > b THEN a ELSE b

-----------------------------------------------------------------------------
(* OpenKeyRecordSlot: of the used slots, the one with the higher generation *)
(* is tried first; a slot opens with its own password.                      *)
OpensIn(rec, p, s) ==
  /\ rec[s].gen > 0 /\ rec[s].pw = p
  /\ rec[Other(s)].gen > 0 /\ rec[Other(s)].pw = p =>
       \/ rec[s].gen > rec[Other(s)].gen
       \/ rec[s].gen = rec[Other(s)].gen /\ s = 0

Opens(rec, p) == \E s \in Slots : OpensIn(rec, p, s)

(* FillSlot, RewrapKeyRecord: the new password goes to the other slot, with *)
(* a generation above both.                                                 *)
Highest(rec) == Larger(rec[0].gen, rec[1].gen)
(* Mistake: the generation is the highest one, not the next. *)
WithBothSameGen(rec, s, p) == [rec EXCEPT ![Other(s)] = [gen |-> Highest(rec), pw |-> p]]
WithBoth(rec, s, p) == [rec EXCEPT ![Other(s)] = [gen |-> Highest(rec) + 1, pw |-> p]]
WithNew(rec, s) == [rec EXCEPT ![s] = Empty]

-----------------------------------------------------------------------------
(* Mistake: the generation's limit is not looked at. *)
BeginUnlimited(o, n) ==
  /\ pc = "idle"
  /\ \E s \in Slots : OpensIn(cache, o, s) /\ slot' = s
  /\ old' = o
  /\ new' = n
  /\ known' = known \cup {n}
  /\ pc' = "both"
  /\ UNCHANGED <<cache, disk>>

(* The record is read and opened with the old password; the file stays      *)
(* locked until syc k ends.  From here on the owner may have to try the new *)
(* password as well.                                                        *)
Begin(o, n) ==
  /\ pc = "idle"
  /\ \E s \in Slots : OpensIn(cache, o, s) /\ slot' = s
  /\ Highest(cache) < MaxGen        \* else Fail: it cannot go higher
  /\ old' = o
  /\ new' = n
  /\ known' = known \cup {n}
  /\ pc' = "both"
  /\ UNCHANGED <<cache, disk>>

(* WriteRecord, twice: write, then flush. *)
WriteBoth ==
  /\ pc = "both"
  /\ cache' = WithBoth(cache, slot, new)
  /\ pc' = "flushBoth"
  /\ UNCHANGED <<disk, slot, new, old, known>>

(* Mistake: no flush before the old slot is zeroed. *)
FlushBothSkipped ==
  /\ pc = "flushBoth"
  /\ pc' = "new"
  /\ UNCHANGED <<cache, disk, slot, new, old, known>>

FlushBoth ==
  /\ pc = "flushBoth"
  /\ disk' = cache
  /\ pc' = "new"
  /\ UNCHANGED <<cache, slot, new, old, known>>

WriteNew ==
  /\ pc = "new"
  /\ cache' = WithNew(cache, slot)
  /\ pc' = "flushNew"
  /\ UNCHANGED <<disk, slot, new, old, known>>

(* Mistake: no flush before success is reported. *)
FlushNewSkipped ==
  /\ pc = "flushNew"
  /\ known' = {new}
  /\ pc' = "idle"
  /\ UNCHANGED <<cache, disk, slot, new, old>>

(* Success: the password is changed, no other is of use to the owner. *)
FlushNew ==
  /\ pc = "flushNew"
  /\ disk' = cache
  /\ known' = {new}
  /\ pc' = "idle"
  /\ UNCHANGED <<cache, slot, new, old>>

(* A write or a flush fails, which syc k reports, or it is killed: what was *)
(* written stays in the cache.                                              *)
Stopped ==
  /\ pc # "idle"
  /\ pc' = "idle"
  /\ UNCHANGED <<cache, disk, slot, new, old, known>>

(* The kernel writes a slot back. *)
WriteBack(s) ==
  /\ disk[s] # cache[s]
  /\ disk' = [disk EXCEPT ![s] = cache[s]]
  /\ UNCHANGED <<cache, pc, slot, new, old, known>>

PowerLoss ==
  /\ cache' = disk
  /\ pc' = "idle"
  /\ UNCHANGED <<disk, slot, new, old, known>>

-----------------------------------------------------------------------------
(* NewKeyRecord: slot 0, generation 1. *)
Init ==
  /\ \E p \in Passwords : /\ cache = [s \in Slots |-> IF s = 0 THEN [gen |-> 1, pw |-> p] ELSE Empty]
                          /\ known = {p}
                          /\ new = p
                          /\ old = p
  /\ disk = cache
  /\ pc = "idle"
  /\ slot = 0

Next ==
  \/ \E o, n \in Passwords : Begin(o, n)
  \/ WriteBoth \/ FlushBoth \/ WriteNew \/ FlushNew
  \/ Stopped \/ PowerLoss
  \/ \E s \in Slots : WriteBack(s)

Spec == Init /\ [][Next]_vars

-----------------------------------------------------------------------------
TypeOK ==
  /\ cache \in [Slots -> Slot]
  /\ disk \in [Slots -> Slot]
  /\ pc \in {"idle", "both", "flushBoth", "new", "flushNew"}
  /\ slot \in Slots
  /\ new \in Passwords
  /\ old \in Passwords
  /\ known \in SUBSET Passwords

(* Whatever interrupted whichever changes, the file opens, now and after a  *)
(* power loss, with a password of the changes since the last success.       *)
NeverLockedOut ==
  /\ \E p \in known : Opens(cache, p)
  /\ \E p \in known : Opens(disk, p)

(* Once syc k has reported success no password but the new one opens the    *)
(* file, and a power loss does not bring an old one back.                   *)
OldPasswordsRevoked ==
  \A p \in known, q \in Passwords :
    known = {p} /\ (Opens(cache, q) \/ Opens(disk, q)) => q = p

(* The used slots' generations differ, so which is the newer is never in    *)
(* doubt; and while both passwords are in the record, the newer is tried    *)
(* first.                                                                   *)
NewestFirst ==
  /\ \A rec \in {cache, disk} : rec[0].gen = rec[1].gen => rec[0].gen = 0
  /\ pc \in {"flushBoth", "new"} => OpensIn(cache, new, Other(slot))

=============================================================================
