------------------------------- MODULE ChainParse ------------------------------
(* Levels 4 to 8 (sylzc_compress_hc): lz4hc's parse. It holds up to three    *)
(* matches that may overlap, asks the search for longer ones that start      *)
(* inside them, and trims and drops them until the first can be written.     *)
(* The search here answers with any match it might find; ChainSearch is the  *)
(* one of the code.                                                          *)
EXTENDS BlockInput

CONSTANT OptimalML       \* HCW_OPTIMAL_ML: 18

ASSUME ChainAssumption == OptimalML \in Nat /\ MinMatch >= 3

VARIABLES
  state,                 \* 0 no match, 2 one (cur), 3 two (cur and second)
  cur,                   \* pos, ref and ml; a match is [at, from, len]
  first,                 \* start0, ref0 and ml0: the match cur took over from
  second,                \* start2, ref2 and ml2
  ask,                   \* what the search is asked: [pos, low, longest]
  hit,                   \* its answer; len = longest: nothing longer
  emitted                \* the last match hc_emit was called with

heldVars == <<cur, first, second>>
chainVars == <<state, heldVars, ask, hit, emitted>>

End(m) == m.at + m.len
(* Mistake: the start is moved, what it repeats is not.                      *)
StartLater(m, k) == [m EXCEPT !.at = @ + k, !.len = @ - k]

Later(m, k) == [at |-> m.at + k, from |-> m.from + k, len |-> m.len - k]
Upto(m, len) == [m EXCEPT !.len = len]

None == [at |-> 0, from |-> 0, len |-> 0]

ChainInit ==
  /\ state = 0
  /\ cur = None /\ first = None /\ second = None
  /\ ask = [pos |-> -1, low |-> 0, longest |-> 0] /\ hit = None
  /\ emitted = None

--------------------------------------------------------------------------------
(* hc_find. The search may start a match before pos, down to low, and finds  *)
(* one that covers MinMatch bytes from pos.                                  *)
Ask(p, low, longest) ==
  /\ ask' = [pos |-> p, low |-> low, longest |-> longest]
  /\ pc' = "search"
  /\ UNCHANGED hit

NoAsk(longest) ==
  /\ hit' = [hit EXCEPT !.len = longest]
  /\ pc' = "found"
  /\ UNCHANGED ask

TrueMatch(m) ==
  /\ 0 <= m.from /\ m.from < m.at /\ m.at - m.from < Window
  /\ End(m) <= n
  /\ SameBytes(m.at, m.from, m.len)

Answers(a) ==
  {m \in [at : a.low .. a.pos, from : 0 .. n, len : a.longest + 1 .. n] :
     End(m) >= a.pos + MinMatch /\ TrueMatch(m)}

SearchFinds ==
  /\ pc = "search"
  /\ hit' \in Answers(ask)
  /\ pc' = "found"
  /\ UNCHANGED <<src, anchor, state, heldVars, ask, emitted>>

(* mpos and spos keep what an earlier search left there.                     *)
SearchFails ==
  /\ pc = "search"
  /\ hit' = [hit EXCEPT !.len = ask.longest]
  /\ pc' = "found"
  /\ UNCHANGED <<src, anchor, state, heldVars, ask, emitted>>

(* hc_emit: what was trimmed below MinMatch stays literals.                  *)
Emit(m) ==
  /\ emitted' = m
  /\ anchor' = IF m.len < MinMatch THEN anchor ELSE End(m)

--------------------------------------------------------------------------------
(* The turns of the loop, each as far as the search it makes.                *)

InLoop == pc = "turn" /\ ~TooShort /\ cur.at < Limit

(* Mistake: the loop ends with the match that reaches the limit.             *)
LeaveEarly ==
  /\ pc = "turn"
  /\ TooShort \/ End(cur) >= Limit
  /\ pc' = "done"
  /\ UNCHANGED <<src, anchor, chainVars>>

Leave ==
  /\ pc = "turn"
  /\ TooShort \/ cur.at >= Limit
  /\ pc' = "done"
  /\ UNCHANGED <<src, anchor, chainVars>>

Turn0 ==
  /\ InLoop /\ state = 0
  /\ Ask(cur.at, cur.at, MinMatch - 1)
  /\ UNCHANGED <<src, anchor, state, heldVars, emitted>>

(* Mistake: the search starts a whole match before the end.                  *)
Turn2Back ==
  /\ InLoop /\ state = 2
  /\ IF End(cur) <= Limit THEN Ask(End(cur) - MinMatch, cur.at, cur.len) ELSE NoAsk(cur.len)
  /\ UNCHANGED <<src, anchor, state, heldVars, emitted>>

Turn2 ==
  /\ InLoop /\ state = 2
  /\ IF End(cur) <= Limit THEN Ask(End(cur) - 2, cur.at, cur.len) ELSE NoAsk(cur.len)
  /\ UNCHANGED <<src, anchor, state, heldVars, emitted>>

(* The length cur keeps, at most OptimalML, so that second keeps MinMatch.   *)
OptimalLen ==
  LET len == IF cur.len > OptimalML THEN OptimalML ELSE cur.len IN
  IF cur.at + len > End(second) - MinMatch
  THEN second.at - cur.at + second.len - MinMatch ELSE len

(* Mistake: second stays where it is.                                        *)
SecondKept(len) == second

(* second, started no earlier than cur ends after len bytes.                 *)
SecondAfter(len) ==
  LET corr == len - (second.at - cur.at) IN
  IF corr > 0 THEN Later(second, corr) ELSE second

Close == second.at - cur.at < OptimalML

Turn3 ==
  /\ InLoop /\ state = 3
  /\ second' = IF Close THEN SecondAfter(OptimalLen) ELSE second
  /\ IF End(second') <= Limit
     THEN Ask(End(second') - 3, second'.at, second'.len)
     ELSE NoAsk(second'.len)
  /\ UNCHANGED <<src, anchor, state, cur, first, emitted>>

Found0 ==
  /\ pc = "found" /\ state = 0
  /\ IF hit.len < MinMatch
     THEN /\ cur' = [cur EXCEPT !.at = @ + 1]
          /\ UNCHANGED <<first, state>>
     ELSE /\ cur' = [at |-> cur.at, from |-> hit.from, len |-> hit.len]
          /\ first' = cur'
          /\ state' = 2
  /\ pc' = "turn"
  /\ UNCHANGED <<src, anchor, second, ask, hit, emitted>>

Longer(m) == hit.len # m.len

(* Nothing better than cur: it is written.                                   *)
Found2Last ==
  /\ pc = "found" /\ state = 2
  /\ ~Longer(cur)
  /\ Emit(cur)
  /\ cur' = [cur EXCEPT !.at = End(cur)]
  /\ state' = 0
  /\ pc' = "turn"
  /\ UNCHANGED <<src, first, second, ask, hit>>

(* A longer one: cur goes back to what it took over from if there is room,   *)
(* or gives way.                                                             *)
Found2 ==
  /\ pc = "found" /\ state = 2
  /\ Longer(cur)
  /\ LET back == first.at < cur.at /\ hit.at < cur.at + first.len
         c == IF back THEN first ELSE cur
     IN  IF hit.at - c.at < 3
         THEN cur' = hit /\ UNCHANGED state
         ELSE cur' = c /\ state' = 3
  /\ second' = hit
  /\ pc' = "turn"
  /\ UNCHANGED <<src, anchor, first, ask, hit, emitted>>

(* Nothing better than second: cur is written as far as it, then second.     *)
Found3Last ==
  /\ pc = "found" /\ state = 3
  /\ ~Longer(second)
  /\ Emit(IF second.at < End(cur) THEN Upto(cur, second.at - cur.at) ELSE cur)
  /\ pc' = "emit2"
  /\ UNCHANGED <<src, state, heldVars, ask, hit>>

Emit2 ==
  /\ pc = "emit2"
  /\ Emit(second)
  /\ cur' = [cur EXCEPT !.at = End(second)]
  /\ state' = 0
  /\ pc' = "turn"
  /\ UNCHANGED <<src, first, second, ask, hit>>

(* No room for second between cur and the third.                             *)
Found3Inside ==
  /\ pc = "found" /\ state = 3
  /\ Longer(second)
  /\ hit.at < End(cur)
  /\ second' = hit
  /\ pc' = "turn"
  /\ UNCHANGED <<src, anchor, state, cur, first, ask, hit, emitted>>

Found3NoRoom ==
  /\ pc = "found" /\ state = 3
  /\ Longer(second)
  /\ hit.at \in End(cur) .. End(cur) + 2
  /\ LET s == SecondAfter(cur.len) IN
     second' = IF second.at < End(cur) /\ s.len < MinMatch THEN hit ELSE s
  /\ Emit(cur)
  /\ cur' = hit
  /\ first' = second'
  /\ state' = 2
  /\ pc' = "turn"
  /\ UNCHANGED <<src, ask, hit>>

(* Three ascending matches: the first is written.                            *)
Found3 ==
  /\ pc = "found" /\ state = 3
  /\ Longer(second)
  /\ hit.at >= End(cur) + 3
  /\ IF second.at < End(cur)
     THEN LET len == IF Close THEN OptimalLen ELSE second.at - cur.at IN
          Emit(Upto(cur, len)) /\ cur' = SecondAfter(len)
     ELSE Emit(cur) /\ cur' = second
  /\ second' = hit
  /\ pc' = "turn"
  /\ UNCHANGED <<src, state, first, ask, hit>>

ParseNext ==
  \/ Leave \/ Turn0 \/ Turn2 \/ Turn3
  \/ Found0 \/ Found2Last \/ Found2
  \/ Found3Last \/ Emit2 \/ Found3Inside \/ Found3NoRoom \/ Found3

Next == ParseNext \/ SearchFinds \/ SearchFails
vars == <<src, anchor, pc, chainVars>>

Spec == InputInit /\ ChainInit /\ pc = "turn" /\ [][Next]_vars

--------------------------------------------------------------------------------
(* Properties.                                                               *)

(* However the matches are trimmed, moved and swapped, what is written as a  *)
(* match repeats the bytes it says it repeats, inside the input.             *)
MatchesTrue == emitted.len >= MinMatch => TrueMatch(emitted)

(* Matches are written in order: none starts before the end of the one       *)
(* before it, so no literal run has a negative length.                       *)
EmittedInOrder ==
  [][emitted' # emitted /\ emitted'.len >= MinMatch =>
       emitted'.at >= anchor /\ anchor' = End(emitted')]_vars

(* The search is never asked about a position it has been asked about, nor   *)
(* one before: its chains are only right if positions are inserted once, in  *)
(* order. Nor does it read past the end, or extend a match into what is in   *)
(* the block.                                                                *)
SearchesForward ==
  [][ask' # ask => /\ ask'.pos > ask.pos
                   /\ ask'.pos + MinMatch <= n
                   /\ anchor' <= ask'.low /\ ask'.low <= ask'.pos]_vars

================================================================================
