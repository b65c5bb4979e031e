------------------------------ MODULE CompressFast -----------------------------
(* Levels 0 and 1 (sylzc_compress_fast): one hash table, the first match     *)
(* that is found is taken, and the probes get further apart while none is.   *)
EXTENDS BlockEmit

CONSTANT SkipStrength    \* 6: the probe step grows every 2^6 misses

ASSUME FastAssumption == 2 ^ SkipStrength \in Nat \ {0}

VARIABLES
  table,                 \* the latest position of each hash, modulo Window
  ip, ref,               \* the match found, and what it repeats
  fwd, probes            \* the next position to probe, 2^SkipStrength + misses

fastVars == <<table, ip, ref, fwd, probes>>

FastInit ==
  /\ table = [h \in Buckets |-> 0]
  /\ ip = 1 /\ ref = 0
  /\ fwd = 1 /\ probes = 2 ^ SkipStrength

(* A turn of the search: the table is looked up and set for this position    *)
(* while the hash of the next one is read.                                   *)
FastProbe ==
  /\ pc = "fast"
  /\ LET h == HashLong(fwd)
         d == FastDist(fwd, table[h])
         next == fwd + (probes \div 2 ^ SkipStrength)
     IN  IF TooShort \/ next > Limit
         THEN /\ pc' = "done"
              /\ UNCHANGED <<fastVars, reach>>
         ELSE /\ reach' = Further(reach, next + HashRead)
              /\ table' = [table EXCEPT ![h] = Stored(fwd)]
              /\ ip' = fwd
              /\ fwd' = next
              /\ probes' = probes + 1
              /\ IF d <= fwd /\ Same(fwd - d, fwd)
                 THEN ref' = fwd - d /\ pc' = "fastBack"
                 ELSE UNCHANGED <<ref, pc>>
  /\ UNCHANGED <<src, out, anchor>>

FastBack ==
  /\ pc = "fastBack"
  /\ LET b == CountBack(ip, ref, anchor) IN ip' = ip - b /\ ref' = ref - b
  /\ pc' = "fastEmit"
  /\ UNCHANGED <<src, out, anchor, reach, table, fwd, probes>>

(* The match is emitted; then straight into one at the next position, or a   *)
(* search from the one after.                                                *)
FastEmit ==
  /\ pc = "fastEmit"
  /\ LET len == MinMatch + CountMatch(ip + MinMatch, ref + MinMatch)
         p == ip + len
         before == [table EXCEPT ![HashLong(p - 2)] = Stored(p - 2)]
         d == FastDist(p, before[HashLong(p)])
     IN  /\ out' = EmitSequence(out, anchor, ip, ip - ref, len)
         /\ anchor' = p
         /\ IF p > Limit
            THEN /\ pc' = "done"
                 /\ UNCHANGED <<fastVars, reach>>
            ELSE /\ table' = [before EXCEPT ![HashLong(p)] = Stored(p)]
                 /\ IF d > p \/ ~Same(p - d, p)
                    THEN /\ reach' = Further(reach, p + 1 + HashRead)
                         /\ ip' = p + 1 /\ fwd' = p + 1 /\ probes' = 2 ^ SkipStrength
                         /\ pc' = "fast"
                         /\ UNCHANGED ref
                    ELSE /\ reach' = Further(reach, p + HashRead)
                         /\ ip' = p /\ ref' = p - d
                         /\ UNCHANGED <<fwd, probes, pc>>
  /\ UNCHANGED src

FastNext == FastProbe \/ FastBack \/ FastEmit

FastSpec ==
  /\ InputInit /\ FastInit /\ pc = "fast"
  /\ out = [ctrl |-> <<>>, lit |-> <<>>] /\ reach = 0
  /\ [][FastNext]_<<src, anchor, pc, out, reach, fastVars>>
================================================================================
