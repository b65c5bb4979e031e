----------------------------- MODULE VersionLog -----------------------------
(***************************************************************************)
(* What a .syc archive promises (the comment above AddCommand in           *)
(* src/src/sycarc.pas): it is a log of versions.  syc a adds one at the    *)
(* end; the versions already there are never rewritten; once syc a has     *)
(* reported success its version stays, whatever is killed or loses power   *)
(* afterwards.  A version whose syc a has not reported yet may be lost,    *)
(* and then it is lost whole.                                              *)
(***************************************************************************)
EXTENDS Naturals, Sequences

CONSTANT Session                   \* the runs of syc a that may add a version

VARIABLES
  log,        \* the versions a reader sees, oldest first: who wrote each
  reported    \* how many of them are reported: a success that may not be lost

Init == \E s \in Session : log = <<s>> /\ reported = 1

Add == /\ \E s \in Session : log' = Append(log, s)
       /\ UNCHANGED reported

Report == /\ reported' = Len(log)
          /\ UNCHANGED log

(* An interrupted version disappears. *)
Lose == /\ Len(log) > reported
        /\ log' = SubSeq(log, 1, Len(log) - 1)
        /\ UNCHANGED reported

Next == Add \/ Report \/ Lose

Spec == Init /\ [][Next]_<<log, reported>>
=============================================================================
