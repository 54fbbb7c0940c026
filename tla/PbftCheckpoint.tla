---------------------------- MODULE PbftCheckpoint ----------------------------
(***************************************************************************)
(* processCheckpoint: collecting the proofs of other replicas, the stable  *)
(* checkpoint, and the truncation of the log that goes with it.            *)
(***************************************************************************)
EXTENDS PbftState

\* A proof replaces the one its sender gave before.
AddProof(proofs, from, d) == {p \in proofs : p.from # from} \cup {[from |-> from, digest |-> d]}

StableQuorum(proofs) == Cardinality(proofs) >= 2 * F + 1

\* Mutant: the digest is not compared.
AcceptsAnyDigest(i, m) == m.seq > stable[i].seq

AcceptsCheckpoint(i, m) ==
    LET c == checkpoints[i][m.seq]
    IN  m.seq > stable[i].seq /\ (c.exists => SameDigest(c.digest, m.digest))

\* Mutant: a whole step too far.
FirstSkipped(s) == s + 1 + CheckpointStep

\* The lowWatermark a checkpoint for number s leaves behind.
FirstKept(s) == s + 1

\* lowWatermark moves past the number, and every slot below it is dropped with the
\* digest it holds; a digest that an overwritten pre-prepare left behind stays.
Truncate(i, s, proofs) ==
    LET dropped == {t \in Seqs : lowWatermark[i] <= t /\ t <= s}
        digests == {log[i][t].prePrepare.digest : t \in dropped}
    IN  /\ stable' = [stable EXCEPT ![i] =
                         [seq |-> s, digest |-> checkpoints[i][s].digest, proofs |-> proofs]]
        /\ checkpoints' = [checkpoints EXCEPT ![i][s] = NoCheckpoint]
        /\ lowWatermark' = [lowWatermark EXCEPT ![i] = FirstKept(s)]
        /\ digestToEntry' = [digestToEntry EXCEPT ![i] =
                                [r \in Req |-> IF r \in digests THEN -1 ELSE @[r]]]
        /\ crashed' = [crashed EXCEPT ![i] = \E t \in dropped : log[i][t].status = "NIL"]

ProcessCheckpoint(i) == \E m \in net :
    LET s == m.seq
        c == checkpoints[i][s]
        proofs == AddProof(c.proofs, m.from, m.digest)
        settled == lastExecuted[i] >= s /\ StableQuorum(proofs)
    IN  /\ Receive(i, m, "CHECKPOINT")
        /\ \/ ~AcceptsCheckpoint(i, m) /\ Ignore({m})
           \/ /\ AcceptsCheckpoint(i, m)
              /\ \/ settled /\ Truncate(i, s, proofs)
                 \/ /\ ~settled
                    /\ checkpoints' = [checkpoints EXCEPT ![i][s] =
                                          [@ EXCEPT !.exists = TRUE, !.proofs = proofs]]
                    /\ UNCHANGED <<stable, lowWatermark, digestToEntry, crashed>>
              /\ Exchange({m}, {})
              /\ UNCHANGED <<viewVars, currentSequence, log, lastExecuted, executed, replies,
                             timerVars, proposed>>

Checkpointing(i) == ProcessCheckpoint(i)
=============================================================================
