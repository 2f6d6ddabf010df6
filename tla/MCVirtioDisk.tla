---------------------------- MODULE MCVirtioDisk ----------------------------
(* Instances of VirtioDisk for TLC. *)
EXTENDS VirtioDisk, TLC

Perms == Permutations(Procs) \cup Permutations(Blocks)

\* States that differ only in what is left over from earlier requests, in entries
\* that are written before they are read again, count as one.
Between(ring, from, to) ==
  [k \in 0..(((to - from) % IDX) - 1) |-> ring[(from + k) % NUM]]
InUse(f) == [i \in {idx[p][1] : p \in HasChain} |-> f[i]]
InCall == {b[p] : p \in {q \in Procs : pc[q] # "idle" /\ (write[q] = 1 \/ Moved(q) = 1)}}
Current ==
  <<free, desc, InUse(ops), InUse(info), Between(avail, seen, avail_idx),
    Between(used, used_idx, used_ridx), avail_idx, used_ridx, used_idx, seen,
    (IF \E p \in Procs : pc[p] = "publish" THEN avail[avail_idx % NUM] ELSE 0),
    bdisk, [x \in InCall |-> data[x]], lock, panicked, caller, hpc, content, notified, busy, finished, intr>>
=============================================================================
