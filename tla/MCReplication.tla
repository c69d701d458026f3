--------------------------- MODULE MCReplication ---------------------------
(* Bounded instances of Replication for TLC. *)
EXTENDS Replication, TLC

MCOps == [key : Keys, ver : 1..MaxCommits]
OneKey == {<<k>> : k \in Keys}
Symmetry == Permutations(Writers) \cup Permutations(Chans)

\* In one behaviour the follower streams beside the writers, in another a peer asks for
\* snapshots while writers and a restore run (neither looks at what the other changes);
\* and of crashes, skipped entries and restores a behaviour has one at most.
NoStream == cstream = None /\ \A c \in Chans : hpc[c] = "idle"
NoPeer == snap.at = "none" /\ restores = 0
OneFailure == crashes + skips + restores <= 1
Apart == (NoStream' \/ NoPeer') /\ OneFailure'
=============================================================================
