------------------------- MODULE PbftCheckpointProofs -------------------------
(* Checkpoints: Spec => []StableIsBacked and Spec => []StableAgreement. *)
EXTENDS PbftAgreementProofs

----------------------------------------------------------------------------
(* The inductive invariant.  A checkpoint digest with a sender attests a    *)
(* prefix of the sender's history, which no later step changes; so every    *)
(* digest under way, every proof kept and every digest a server computed is *)
(* the one of the history as it is now.                                     *)

\* Server j got to number s (it may have stepped over empty slots below), and d is the
\* digest of the balances it had there.
Attests(j, s, d) == lastExecuted[j] >= s /\ d = DigestOf(UpTo(executed[j], s))

MessagesAttest == \A m \in net :
    m.type = "CHECKPOINT" => Attests(m.from, m.seq, m.digest) /\ m.from # m.to
ProofsAttest == \A i \in Server, s \in Seqs : \A p \in checkpoints[i][s].proofs :
    Attests(p.from, s, p.digest) /\ p.from # i
DigestsAttest == \A i \in Server, s \in Seqs :
    /\ checkpoints[i][s].digest.known => Attests(i, s, checkpoints[i][s].digest)
    /\ ~checkpoints[i][s].exists => checkpoints[i][s] = NoCheckpoint

\* All proofs but the one that created the checkpoint were compared with its digest.
ProofsCompared == \A i \in Server, s \in Seqs : \E x \in Server :
    \A p \in checkpoints[i][s].proofs : p.from = x \/ SameDigest(checkpoints[i][s].digest, p.digest)

\* The servers other than i that got to number s, and those that have the balances of i
\* there.
Past(i, s)  == {j \in Server \ {i} : lastExecuted[j] >= s}
Peers(i, s) == {j \in Server : /\ lastExecuted[j] >= s
                               /\ SameBalances(UpTo(executed[j], s), UpTo(executed[i], s))}

StableBacked == \A i \in Server :
    LET c == stable[i]
    IN  c.seq >= 0 => /\ Attests(i, c.seq, c.digest)
                      /\ Cardinality(Past(i, c.seq)) >= 2 * F + 1
                      /\ Cardinality(Peers(i, c.seq)) >= 2 * F + 1

CheckpointInv ==
    /\ MessagesAttest
    /\ ProofsAttest
    /\ DigestsAttest
    /\ ProofsCompared
    /\ StableBacked

----------------------------------------------------------------------------
(* History below lastExecuted is settled. *)

Frozen == \A j \in Server :
    /\ lastExecuted'[j] >= lastExecuted[j]
    /\ \A s \in Seqs : s <= lastExecuted[j] => executed'[j][s] = executed[j][s]

LEMMA FrozenIfUnchanged ==
    ASSUME TypeOK, UNCHANGED <<lastExecuted, executed>>
    PROVE  Frozen
  BY DEF Frozen, TypeOK

LEMMA PrefixLasts ==
    ASSUME TypeOK, TypeOK', Frozen, NEW j \in Server, NEW s \in Int, lastExecuted[j] >= s
    PROVE  lastExecuted'[j] >= s /\ UpTo(executed'[j], s) = UpTo(executed[j], s)
<1>1. lastExecuted[j] \in Int /\ lastExecuted'[j] \in Int
  BY DEF TypeOK
<1>2. lastExecuted'[j] >= s
  BY <1>1 DEF Frozen
<1>3. \A t \in Seqs : t <= s => executed'[j][t] = executed[j][t]
  <2> SUFFICES ASSUME NEW t \in Seqs, t <= s PROVE executed'[j][t] = executed[j][t]
    OBVIOUS
  <2>1. t <= lastExecuted[j]
    BY <1>1 DEF Seqs
  <2> QED
    BY <2>1 DEF Frozen
<1> QED
  BY <1>2, <1>3 DEF UpTo

LEMMA AttestsLasts ==
    ASSUME TypeOK, TypeOK', Frozen, NEW j \in Server, NEW s \in Int, NEW d, Attests(j, s, d)
    PROVE  Attests(j, s, d)'
  BY PrefixLasts DEF Attests

\* A stable checkpoint stays backed: who was past its number stays so, with the same
\* history up to there.
LEMMA BackingLasts ==
    ASSUME TypeOK, TypeOK', Frozen, NEW i \in Server, NEW s \in Int, NEW d,
           Attests(i, s, d), Cardinality(Past(i, s)) >= 2 * F + 1,
           Cardinality(Peers(i, s)) >= 2 * F + 1
    PROVE  /\ Attests(i, s, d)'
           /\ Cardinality(Past(i, s)') >= 2 * F + 1
           /\ Cardinality(Peers(i, s)') >= 2 * F + 1
<1>1. Past(i, s) \subseteq Past(i, s)' /\ Past(i, s)' \subseteq Server
  BY PrefixLasts DEF Past
<1>2. Peers(i, s) \subseteq Peers(i, s)' /\ Peers(i, s)' \subseteq Server
  <2>1. lastExecuted[i] >= s
    BY DEF Attests
  <2> QED
    BY <2>1, PrefixLasts DEF Peers
<1>3. /\ Cardinality(Past(i, s)) <= Cardinality(Past(i, s)')
      /\ Cardinality(Past(i, s)) \in Nat /\ Cardinality(Past(i, s)') \in Nat
  BY <1>1, ServerSets
<1>4. /\ Cardinality(Peers(i, s)) <= Cardinality(Peers(i, s)')
      /\ Cardinality(Peers(i, s)) \in Nat /\ Cardinality(Peers(i, s)') \in Nat
  BY <1>2, ServerSets
<1>5. 2 * F + 1 \in Nat
  BY FAssumption
<1> QED
  BY <1>3, <1>4, <1>5, AttestsLasts

LEMMA StableLasts ==
    ASSUME TypeOK, TypeOK', Frozen, StableBacked, UNCHANGED stable
    PROVE  StableBacked'
<1> SUFFICES ASSUME NEW i \in Server, stable[i].seq >= 0
             PROVE  /\ Attests(i, stable[i].seq, stable[i].digest)'
                    /\ Cardinality(Past(i, stable[i].seq)') >= 2 * F + 1
                    /\ Cardinality(Peers(i, stable[i].seq)') >= 2 * F + 1
  BY DEF StableBacked
<1>1. stable[i].seq \in Int
  BY DEF TypeOK, StableCheckpoint
<1> QED
  BY <1>1, BackingLasts DEF StableBacked

----------------------------------------------------------------------------
(* executePending and checkpoint(): own digests, and messages that carry them. *)

LEMMA ExecutionKeeps ==
    ASSUME TypeOK, TypeOK', CheckpointInv, NEW i \in Server, NEW l \in [Seqs -> Entry],
           NEW in, NEW out, ExecutePending(i, l, in, out),
           \A m \in out : m.type # "CHECKPOINT", UNCHANGED stable
    PROVE  CheckpointInv'
<1>1. lastExecuted[i] \in Int /\ lastExecuted[i] >= -1 /\ currentSequence[i] \in Int
      /\ currentSequence[i] <= MaxSeq /\ MaxSeq \in Nat
  BY BoundAssumption DEF TypeOK
\* S is what is executed, C of it with a checkpoint; h is the history then, d the digests
\* and c the checkpoints.
<1> DEFINE S == Executable(l, lastExecuted[i], currentSequence[i])
           h == [s \in Seqs |-> IF s \in S THEN l[s].m ELSE executed[i][s]]
           C == {s \in S : IsCheckpoint(s)}
           d == [s \in Seqs |-> DigestOf(UpTo(h, s))]
           c == [s \in Seqs |-> IF s \in C
                                THEN [checkpoints[i][s] EXCEPT !.exists = TRUE, !.digest = d[s]]
                                ELSE checkpoints[i][s]]
<1>2. /\ S \subseteq Seqs /\ C \subseteq S
      /\ \A s \in S : s > lastExecuted[i]
      /\ \A s \in Seqs : s \notin S => h[s] = executed[i][s]
      /\ \A s \in S : d[s] = DigestOf(UpTo(h, s))
      /\ \A s \in Seqs : /\ c[s].proofs = checkpoints[i][s].proofs
                         /\ s \in C => c[s].exists /\ c[s].digest = d[s]
                         /\ s \notin C => c[s] = checkpoints[i][s]
      /\ executed' = [executed EXCEPT ![i] = h]
      /\ lastExecuted' = [lastExecuted EXCEPT ![i] = IF S = {} THEN @ ELSE Max(S)]
      /\ checkpoints' = [checkpoints EXCEPT ![i] = c]
      /\ net' = (net \ in) \cup (out \cup UNION {CheckpointToAll(i, s, d[s]) : s \in C})
  <2>1. S \subseteq Seqs /\ \A s \in S : s > lastExecuted[i]
    BY <1>1 DEF Executable, Seqs
  <2>2. /\ executed' = [executed EXCEPT ![i] = h]
        /\ lastExecuted' = [lastExecuted EXCEPT ![i] = IF S = {} THEN @ ELSE Max(S)]
        /\ checkpoints' = [checkpoints EXCEPT ![i] = c]
        /\ net' = (net \ in) \cup (out \cup UNION {CheckpointToAll(i, s, d[s]) : s \in C})
    BY DEF ExecutePending, Exchange
  <2> HIDE DEF S
  <2>3. /\ C \subseteq S
        /\ \A s \in Seqs : s \notin S => h[s] = executed[i][s]
        /\ \A s \in S : d[s] = DigestOf(UpTo(h, s))
    BY <2>1
  <2> HIDE DEF C, h, d
  <2>4. ASSUME NEW s \in Seqs
        PROVE  /\ c[s].proofs = checkpoints[i][s].proofs
               /\ s \in C => c[s].exists /\ c[s].digest = d[s]
               /\ s \notin C => c[s] = checkpoints[i][s]
    <3>1. checkpoints[i][s] \in CheckpointInfo
      BY DEF TypeOK
    <3> QED
      BY <3>1 DEF CheckpointInfo
  <2> HIDE DEF c
  <2> QED
    BY <2>1, <2>2, <2>3, <2>4
<1> HIDE DEF S, C, h, d, c
<1>3. /\ \A j \in Server : j # i => /\ lastExecuted'[j] = lastExecuted[j]
                                   /\ executed'[j] = executed[j]
                                   /\ checkpoints'[j] = checkpoints[j]
      /\ executed'[i] = h /\ checkpoints'[i] = c
      /\ S = {} => lastExecuted'[i] = lastExecuted[i]
      /\ S # {} => lastExecuted'[i] = Max(S)
  BY <1>2 DEF TypeOK
<1>4. \A s \in S : s <= lastExecuted'[i]
  <2> SUFFICES ASSUME S # {} PROVE \A s \in S : s <= Max(S)
    BY <1>3
  <2>1. S \in SUBSET Int /\ MaxSeq \in Int /\ \A x \in S : x <= MaxSeq
    BY <1>1, <1>2 DEF Seqs
  <2> QED
    BY <2>1, MaxOfBounded
<1>5. lastExecuted'[i] \in Int
  BY DEF TypeOK
<1>6. Frozen
  <2> SUFFICES ASSUME NEW j \in Server
               PROVE  /\ lastExecuted'[j] >= lastExecuted[j]
                      /\ \A s \in Seqs : s <= lastExecuted[j] => executed'[j][s] = executed[j][s]
    BY DEF Frozen
  <2>1. CASE j # i
    <3>1. lastExecuted'[j] = lastExecuted[j] /\ executed'[j] = executed[j] /\ lastExecuted[j] \in Int
      BY <1>3, <2>1 DEF TypeOK
    <3> QED
      BY <3>1
  <2>2. CASE j = i
    <3>1. lastExecuted'[i] >= lastExecuted[i]
      <4>1. CASE S = {}
        BY <1>1, <1>3, <4>1
      <4>2. CASE S # {}
        <5>1. PICK s \in S : TRUE
          BY <4>2
        <5>2. s \in Int /\ s > lastExecuted[i] /\ s <= lastExecuted'[i]
          BY <1>2, <1>4 DEF Seqs
        <5> QED
          BY <1>1, <1>5, <5>2
      <4> QED
        BY <4>1, <4>2
    <3>2. ASSUME NEW s \in Seqs, s <= lastExecuted[i] PROVE executed'[i][s] = executed[i][s]
      <4>1. s \in Int
        BY DEF Seqs
      <4>2. s \notin S
        BY <1>1, <1>2, <3>2, <4>1
      <4> QED
        BY <1>2, <1>3, <4>2
    <3> QED
      BY <2>2, <3>1, <3>2
  <2> QED
    BY <2>1, <2>2
<1>7. \A s \in S : lastExecuted'[i] >= s /\ d[s] = DigestOf(UpTo(executed'[i], s))
  <2> SUFFICES ASSUME NEW s \in S PROVE lastExecuted'[i] >= s /\ d[s] = DigestOf(UpTo(executed'[i], s))
    OBVIOUS
  <2>1. s \in Int /\ s <= lastExecuted'[i]
    BY <1>2, <1>4 DEF Seqs
  <2> QED
    BY <1>2, <1>3, <1>5, <2>1
<1>8. MessagesAttest'
  <2> SUFFICES ASSUME NEW m \in net', m.type = "CHECKPOINT"
               PROVE  Attests(m.from, m.seq, m.digest)' /\ m.from # m.to
    BY DEF MessagesAttest
  <2>1. CASE m \in net
    <3>1. m.from \in Server /\ m.seq \in Int
      BY <2>1, MessageForms DEF TypeOK, Seqs
    <3> QED
      BY <1>6, <2>1, <3>1, AttestsLasts DEF CheckpointInv, MessagesAttest
  <2>2. CASE m \notin net
    <3>1. PICK s \in C : m \in CheckpointToAll(i, s, d[s])
      BY <1>2, <2>2
    <3>2. m.from = i /\ m.seq = s /\ m.digest = d[s] /\ m.to # i
      BY <3>1 DEF CheckpointToAll, ToOthers
    <3> QED
      BY <1>2, <1>7, <3>2 DEF Attests
  <2> QED
    BY <2>1, <2>2
<1>9. \A j \in Server, s \in Seqs :
         /\ checkpoints'[j][s].proofs = checkpoints[j][s].proofs
         /\ j = i /\ s \in C => checkpoints'[j][s].exists /\ checkpoints'[j][s].digest = d[s]
         /\ ~(j = i /\ s \in C) => checkpoints'[j][s] = checkpoints[j][s]
  BY <1>2, <1>3
<1>11. ProofsAttest'
  <2> SUFFICES ASSUME NEW j \in Server, NEW s \in Seqs, NEW p \in checkpoints[j][s].proofs
               PROVE  Attests(p.from, s, p.digest)' /\ p.from # j
    BY <1>9 DEF ProofsAttest
  <2>0. checkpoints[j][s] \in CheckpointInfo
    BY DEF TypeOK
  <2>1. s \in Int
    BY DEF Seqs
  <2>2. p.from \in Server
    BY <2>0 DEF CheckpointInfo, CheckpointProof
  <2> QED
    BY <1>6, <2>1, <2>2, AttestsLasts DEF CheckpointInv, ProofsAttest
<1>12. DigestsAttest'
  <2> SUFFICES ASSUME NEW j \in Server, NEW s \in Seqs
               PROVE  /\ checkpoints'[j][s].digest.known =>
                            /\ lastExecuted'[j] >= s
                            /\ checkpoints'[j][s].digest = DigestOf(UpTo(executed'[j], s))
                      /\ ~checkpoints'[j][s].exists => checkpoints'[j][s] = NoCheckpoint
    BY DEF DigestsAttest, Attests
  <2>1. CASE j = i /\ s \in C
    BY <1>2, <1>7, <1>9, <2>1
  <2>2. CASE ~(j = i /\ s \in C)
    <3>1. checkpoints'[j][s] = checkpoints[j][s] /\ s \in Int
      BY <1>9, <2>2 DEF Seqs
    <3>2. checkpoints[j][s].digest.known =>
             /\ lastExecuted[j] >= s
             /\ checkpoints[j][s].digest = DigestOf(UpTo(executed[j], s))
      BY DEF CheckpointInv, DigestsAttest, Attests
    <3>3. checkpoints[j][s].digest.known =>
             /\ lastExecuted'[j] >= s
             /\ checkpoints[j][s].digest = DigestOf(UpTo(executed'[j], s))
      BY <1>6, <3>1, <3>2, PrefixLasts
    <3> QED
      BY <3>1, <3>3 DEF CheckpointInv, DigestsAttest
  <2> QED
    BY <2>1, <2>2
<1>13. ProofsCompared'
  <2> SUFFICES ASSUME NEW j \in Server, NEW s \in Seqs
               PROVE  \E x \in Server : \A p \in checkpoints'[j][s].proofs :
                         p.from = x \/ SameDigest(checkpoints[j][s].digest, p.digest)'
    BY DEF ProofsCompared
  <2>1. PICK x \in Server : \A p \in checkpoints[j][s].proofs :
           p.from = x \/ SameDigest(checkpoints[j][s].digest, p.digest)
    BY DEF CheckpointInv, ProofsCompared
  <2>2. CASE j = i /\ s \in C
    \* The digest was not known before: all proofs are the one nobody compared.
    <3>1. ~checkpoints[i][s].digest.known
      <4>1. s > lastExecuted[i] /\ s \in Int
        BY <1>2, <2>2 DEF Seqs
      <4>2. ~(lastExecuted[i] >= s)
        BY <1>1, <4>1
      <4> QED
        BY <4>2 DEF CheckpointInv, DigestsAttest, Attests
    <3>2. \A p \in checkpoints[i][s].proofs : p.digest = DigestOf(UpTo(executed[p.from], s))
      BY DEF CheckpointInv, ProofsAttest, Attests
    <3>4. \A g : DigestOf(g).known
      BY DEF DigestOf
    <3>3. \A p \in checkpoints[i][s].proofs : p.from = x
      BY <2>1, <2>2, <3>1, <3>2, <3>4 DEF SameDigest
    <3> QED
      BY <1>9, <2>2, <3>3
  <2>3. CASE ~(j = i /\ s \in C)
    <3>1. checkpoints'[j][s] = checkpoints[j][s]
      BY <1>9, <2>3
    <3> QED
      BY <2>1, <3>1 DEF SameDigest
  <2> QED
    BY <2>2, <2>3
<1> QED
  BY <1>6, <1>8, <1>11, <1>12, <1>13, StableLasts DEF CheckpointInv

----------------------------------------------------------------------------
(* Handlers that leave checkpoints alone. *)

Unattested ==
    /\ UNCHANGED <<lastExecuted, executed, checkpoints, stable>>
    /\ \A m \in net' : m.type = "CHECKPOINT" => m \in net

LEMMA UnattestedKeeps ==
    ASSUME TypeOK, CheckpointInv, Unattested
    PROVE  CheckpointInv'
<1> USE DEF Unattested
<1>1. MessagesAttest'
  BY DEF CheckpointInv, MessagesAttest, Attests
<1>2. ProofsAttest' /\ DigestsAttest' /\ ProofsCompared'
  BY DEF CheckpointInv, ProofsAttest, DigestsAttest, ProofsCompared, Attests
<1>3. StableBacked'
  BY DEF CheckpointInv, StableBacked, Attests, Past, Peers
<1> QED
  BY <1>1, <1>2, <1>3 DEF CheckpointInv

----------------------------------------------------------------------------
(* processCheckpoint *)

\* One proof more: the proofs still attest, and those of others are as they were.
LEMMA ProofAdded ==
    ASSUME TypeOK, CheckpointInv, NEW i \in Server, NEW m \in net, Receive(i, m, "CHECKPOINT")
    PROVE  LET proofs == AddProof(checkpoints[i][m.seq].proofs, m.from, m.digest)
           IN  /\ m.seq \in Seqs /\ m.from \in Server /\ m.digest.known
               /\ proofs \subseteq CheckpointProof
               /\ \A p \in proofs : Attests(p.from, m.seq, p.digest) /\ p.from # i
               /\ \A p \in proofs : p \in checkpoints[i][m.seq].proofs \/ p.digest = m.digest
<1> DEFINE proofs == AddProof(checkpoints[i][m.seq].proofs, m.from, m.digest)
<1>1. m \in Message /\ m.type = "CHECKPOINT" /\ m.to = i
  BY DEF TypeOK, Receive
<1>2. m.seq \in Seqs /\ m.from \in Server /\ m.digest \in CheckpointDigest
  BY <1>1, MessageForms
<1>3. Attests(m.from, m.seq, m.digest) /\ m.from # i
  BY <1>1 DEF CheckpointInv, MessagesAttest
<1>4. m.digest.known
  BY <1>3 DEF Attests, DigestOf
<1>5. checkpoints[i][m.seq].proofs \subseteq CheckpointProof
  <2>1. checkpoints[i][m.seq] \in CheckpointInfo
    BY <1>2 DEF TypeOK
  <2> QED
    BY <2>1 DEF CheckpointInfo
<1>6. \A p \in proofs : p \in checkpoints[i][m.seq].proofs \/ p = [from |-> m.from, digest |-> m.digest]
  BY DEF AddProof
<1>7. ASSUME NEW p \in proofs
      PROVE  /\ p \in CheckpointProof
             /\ Attests(p.from, m.seq, p.digest) /\ p.from # i
             /\ p \in checkpoints[i][m.seq].proofs \/ p.digest = m.digest
  <2>1. CASE p \in checkpoints[i][m.seq].proofs
    BY <1>2, <1>5, <2>1 DEF CheckpointInv, ProofsAttest
  <2>2. CASE p = [from |-> m.from, digest |-> m.digest]
    <3>1. p.from = m.from /\ p.digest = m.digest /\ p \in CheckpointProof
      BY <1>2, <2>2 DEF CheckpointProof
    <3> QED
      BY <1>3, <3>1
  <2> QED
    BY <1>6, <2>1, <2>2
<1> QED
  BY <1>2, <1>4, <1>7

\* Proofs that attest come from as many servers as there are proofs.
LEMMA SendersOfProofs ==
    ASSUME NEW proofs \in SUBSET CheckpointProof, NEW s,
           \A p \in proofs : Attests(p.from, s, p.digest)
    PROVE  LET senders == {p.from : p \in proofs}
           IN  /\ senders \subseteq Server
               /\ Cardinality(proofs) \in Nat /\ Cardinality(proofs) <= Cardinality(senders)
<1> DEFINE senders == {p.from : p \in proofs}
           f == [j \in senders |-> [from |-> j, digest |-> DigestOf(UpTo(executed[j], s))]]
<1>1. senders \subseteq Server
  BY DEF CheckpointProof
<1>2. \A p \in proofs : p = [from |-> p.from, digest |-> DigestOf(UpTo(executed[p.from], s))]
  BY DEF Attests, CheckpointProof
<1>3. \A p \in proofs : p.from \in senders
  OBVIOUS
<1>4. \A p \in proofs : f[p.from] = p
  BY <1>2, <1>3
<1>5. \A j \in senders : \E p \in proofs : p.from = j
  OBVIOUS
<1>6. f \in [senders -> proofs]
  <2>1. \A j \in senders : f[j] \in proofs
    BY <1>4, <1>5
  <2>2. DOMAIN f = senders /\ f = [j \in senders |-> f[j]]
    OBVIOUS
  <2> HIDE DEF f, senders
  <2> QED
    BY <2>1, <2>2
<1> HIDE DEF f, senders
<1>7. f \in Surjection(senders, proofs)
  BY <1>3, <1>4, <1>6 DEF Surjection
<1>8. IsFiniteSet(senders)
  BY <1>1, ServerSets
<1>9. Cardinality(proofs) \in Nat /\ Cardinality(proofs) <= Cardinality(senders)
  BY <1>7, <1>8, FS_Surjection, FS_CardinalityType
<1> QED
  BY <1>1, <1>9 DEF senders

LEMMA BalancesCompare ==
    /\ \A g : SameBalances(g, g)
    /\ \A g, h : SameBalances(g, h) => SameBalances(h, g)
    /\ \A g, h, k : SameBalances(g, h) /\ SameBalances(g, k) => SameBalances(h, k)
  BY DEF SameBalances

LEMMA ComparedStill ==
    ASSUME TypeOK, CheckpointInv, NEW i \in Server, NEW m \in net, Receive(i, m, "CHECKPOINT"),
           AcceptsCheckpoint(i, m)
    PROVE  \E x \in Server :
              \A p \in AddProof(checkpoints[i][m.seq].proofs, m.from, m.digest) :
                 p.from = x \/ SameDigest(checkpoints[i][m.seq].digest, p.digest)
<1> DEFINE c == checkpoints[i][m.seq]
           proofs == AddProof(c.proofs, m.from, m.digest)
<1>1. m.seq \in Seqs /\ m.from \in Server
  BY ProofAdded
<1>2. \A p \in proofs : p \in c.proofs \/ p.digest = m.digest
  BY ProofAdded
<1>3. CASE c.exists
  <2>1. SameDigest(c.digest, m.digest)
    BY <1>3 DEF AcceptsCheckpoint
  <2>2. PICK x \in Server : \A p \in c.proofs : p.from = x \/ SameDigest(c.digest, p.digest)
    BY <1>1 DEF CheckpointInv, ProofsCompared
  <2> HIDE DEF c, proofs
  <2>3. \A p \in proofs : p.from = x \/ SameDigest(c.digest, p.digest)
    BY <1>2, <2>1, <2>2
  <2> QED
    BY <2>3 DEF c, proofs
<1>4. CASE ~c.exists
  <2>1. c.proofs = {}
    BY <1>1, <1>4 DEF CheckpointInv, DigestsAttest, NoCheckpoint
  <2>2. \A p \in proofs : p.from = m.from
    BY <2>1 DEF AddProof
  <2> QED
    BY <1>1, <2>2
<1> QED
  BY <1>3, <1>4

\* 2f + 1 proofs with the server past the number: it compared them with a digest of
\* its own, all but one, and takes the place of that one.
LEMMA SettledIsBacked ==
    ASSUME TypeOK, CheckpointInv, NEW i \in Server, NEW m \in net, Receive(i, m, "CHECKPOINT"),
           AcceptsCheckpoint(i, m),
           StableQuorum(AddProof(checkpoints[i][m.seq].proofs, m.from, m.digest))
    PROVE  /\ Attests(i, m.seq, checkpoints[i][m.seq].digest)
           /\ Cardinality(Past(i, m.seq)) >= 2 * F + 1
           /\ Cardinality(Peers(i, m.seq)) >= 2 * F + 1
<1> DEFINE s == m.seq
           c == checkpoints[i][s]
           proofs == AddProof(c.proofs, m.from, m.digest)
           senders == {p.from : p \in proofs}
<1>1. /\ s \in Seqs /\ m.from \in Server /\ m.digest.known
      /\ proofs \subseteq CheckpointProof
      /\ \A p \in proofs : Attests(p.from, s, p.digest) /\ p.from # i
  BY ProofAdded
<1>2. PICK x \in Server : \A p \in proofs : p.from = x \/ SameDigest(c.digest, p.digest)
  BY ComparedStill
<1>3. 2 * F + 1 \in Nat /\ 2 * F + 1 > 1
  BY FAssumption
<1>4. c.exists
  <2> SUFFICES ASSUME ~c.exists PROVE FALSE
    OBVIOUS
  <2>1. c.proofs = {}
    BY <1>1 DEF CheckpointInv, DigestsAttest, NoCheckpoint
  <2>2. proofs = {[from |-> m.from, digest |-> m.digest]}
    BY <2>1 DEF AddProof
  <2>3. Cardinality(proofs) = 1
    BY <2>2, FS_Singleton
  <2> QED
    BY <1>3, <2>3 DEF StableQuorum
<1>5. c.digest.known
  <2>1. SameDigest(c.digest, m.digest)
    BY <1>4 DEF AcceptsCheckpoint
  <2> QED
    BY <1>1, <2>1 DEF SameDigest
<1>6. Attests(i, s, c.digest)
  BY <1>1, <1>5 DEF CheckpointInv, DigestsAttest
<1>7. /\ senders \subseteq Server
      /\ Cardinality(proofs) \in Nat /\ Cardinality(proofs) <= Cardinality(senders)
  BY <1>1, SendersOfProofs
<1>8. IsFiniteSet(senders) /\ Cardinality(senders) \in Nat
  BY <1>7, ServerSets
<1>9. Cardinality(senders) >= 2 * F + 1
  <2>1. Cardinality(proofs) >= 2 * F + 1
    BY DEF StableQuorum
  <2> HIDE DEF proofs, senders
  <2> QED
    BY <1>3, <1>7, <1>8, <2>1
<1>10. /\ \A j \in senders : lastExecuted[j] >= s
       /\ i \notin senders
       /\ \A j \in senders : j # x =>
             SameDigest(c.digest, DigestOf(UpTo(executed[j], s)))
  BY <1>1, <1>2 DEF Attests
<1>11. lastExecuted[i] >= s /\ c.digest = DigestOf(UpTo(executed[i], s))
  BY <1>6 DEF Attests
<1> HIDE DEF s, c, proofs, senders
<1>12. Cardinality(Past(i, s)) >= 2 * F + 1
  <2>1. senders \subseteq Past(i, s) /\ Past(i, s) \subseteq Server
    BY <1>7, <1>10 DEF Past
  <2>2. Cardinality(senders) <= Cardinality(Past(i, s)) /\ Cardinality(Past(i, s)) \in Nat
    BY <2>1, ServerSets
  <2> QED
    BY <1>3, <1>8, <1>9, <2>2
<1>13. Cardinality(Peers(i, s)) >= 2 * F + 1
  <2> DEFINE others == senders \ {x}
             agreed == others \cup {i}
  <2>1. ASSUME NEW j \in others
        PROVE  SameBalances(UpTo(executed[j], s), UpTo(executed[i], s))
    <3>1. SameDigest(DigestOf(UpTo(executed[i], s)), DigestOf(UpTo(executed[j], s)))
      BY <1>10, <1>11
    <3> QED
      BY <3>1, BalancesCompare DEF SameDigest, DigestOf
  <2>2. agreed \subseteq Peers(i, s) /\ Peers(i, s) \subseteq Server
    BY <1>7, <1>10, <1>11, <2>1, BalancesCompare DEF Peers
  <2>3. /\ IsFiniteSet(others) /\ i \notin others
        /\ Cardinality(others) = IF x \in senders THEN Cardinality(senders) - 1
                                 ELSE Cardinality(senders)
    BY <1>8, <1>10, FS_RemoveElement
  <2>4. Cardinality(agreed) = Cardinality(others) + 1
    BY <2>3, FS_AddElement
  <2>5. Cardinality(agreed) <= Cardinality(Peers(i, s)) /\ Cardinality(Peers(i, s)) \in Nat
    BY <2>2, ServerSets
  <2> HIDE DEF others, agreed
  <2> QED
    BY <1>3, <1>8, <1>9, <2>3, <2>4, <2>5
<1> QED
  BY <1>6, <1>12, <1>13 DEF s, c

LEMMA ProcessCheckpointKeeps ==
    ASSUME TypeOK, TypeOK', CheckpointInv, NEW i \in Server, ProcessCheckpoint(i)
    PROVE  CheckpointInv'
<1> DEFINE proofs(m) == AddProof(checkpoints[i][m.seq].proofs, m.from, m.digest)
           kept(m) == [checkpoints[i][m.seq] EXCEPT !.exists = TRUE, !.proofs = proofs(m)]
<1>1. PICK m \in net :
         /\ Receive(i, m, "CHECKPOINT")
         /\ \/ Ignore({m})
            \/ /\ AcceptsCheckpoint(i, m)
               /\ \/ StableQuorum(proofs(m)) /\ Truncate(i, m.seq, proofs(m))
                  \/ /\ checkpoints' = [checkpoints EXCEPT ![i][m.seq] = kept(m)]
                     /\ UNCHANGED stable
               /\ Exchange({m}, {})
               /\ UNCHANGED <<lastExecuted, executed>>
  BY DEF ProcessCheckpoint
<1>2. CASE Ignore({m})
  BY <1>2, UnattestedKeeps DEF Unattested, Ignore, Exchange, execVars, stableVars
<1>3. CASE AcceptsCheckpoint(i, m) /\ ~Ignore({m})
  <2> DEFINE s == m.seq
             c == checkpoints[i][s]
  <2>1. /\ s \in Seqs /\ m.from \in Server
        /\ \A p \in proofs(m) : Attests(p.from, s, p.digest) /\ p.from # i
    BY <1>1, ProofAdded
  <2>2. \E x \in Server : \A p \in proofs(m) : p.from = x \/ SameDigest(c.digest, p.digest)
    BY <1>1, <1>3, ComparedStill
  <2>3. c \in CheckpointInfo
    BY <2>1 DEF TypeOK
  <2>4. UNCHANGED <<lastExecuted, executed>> /\ net' \subseteq net
    BY <1>1, <1>3 DEF Exchange
  <2>5. MessagesAttest'
    BY <2>4 DEF CheckpointInv, MessagesAttest, Attests
  <2> HIDE DEF proofs
  <2>6. PICK d :
           /\ checkpoints' = [checkpoints EXCEPT ![i][s] = d]
           /\ \/ d = NoCheckpoint
              \/ d.exists /\ d.digest = c.digest /\ d.proofs = proofs(m)
    <3>1. kept(m).exists /\ kept(m).digest = c.digest /\ kept(m).proofs = proofs(m)
      BY <2>3 DEF CheckpointInfo
    <3> HIDE DEF kept
    <3>2. CASE Truncate(i, m.seq, proofs(m))
      <4>1. checkpoints' = [checkpoints EXCEPT ![i][s] = NoCheckpoint]
        BY <3>2 DEF Truncate
      <4> QED
        BY <4>1
    <3>3. CASE checkpoints' = [checkpoints EXCEPT ![i][s] = kept(m)]
      BY <3>1, <3>3
    <3> QED
      BY <1>1, <1>3, <3>2, <3>3
  <2>7. /\ checkpoints'[i][s] = d
        /\ \A j \in Server, t \in Seqs : ~(j = i /\ t = s) => checkpoints'[j][t] = checkpoints[j][t]
    BY <2>1, <2>6 DEF TypeOK
  <2>8. /\ NoCheckpoint.proofs = {} /\ ~NoCheckpoint.exists /\ ~NoCheckpoint.digest.known
    BY DEF NoCheckpoint, EmptyDigest
  <2>9. ProofsAttest'
    <3> SUFFICES ASSUME NEW j \in Server, NEW t \in Seqs, NEW p \in checkpoints'[j][t].proofs
                 PROVE  Attests(p.from, t, p.digest) /\ p.from # j
      BY <2>4 DEF ProofsAttest, Attests
    <3>1. CASE j = i /\ t = s
      BY <2>1, <2>6, <2>7, <2>8, <3>1
    <3>2. CASE ~(j = i /\ t = s)
      BY <2>7, <3>2 DEF CheckpointInv, ProofsAttest
    <3> QED
      BY <3>1, <3>2
  <2>10. DigestsAttest'
    <3> SUFFICES ASSUME NEW j \in Server, NEW t \in Seqs
                 PROVE  /\ checkpoints'[j][t].digest.known =>
                              /\ lastExecuted[j] >= t
                              /\ checkpoints'[j][t].digest = DigestOf(UpTo(executed[j], t))
                        /\ ~checkpoints'[j][t].exists => checkpoints'[j][t] = NoCheckpoint
      BY <2>4 DEF DigestsAttest, Attests
    <3>1. CASE j = i /\ t = s
      BY <2>1, <2>6, <2>7, <2>8, <3>1 DEF CheckpointInv, DigestsAttest, Attests
    <3>2. CASE ~(j = i /\ t = s)
      BY <2>7, <3>2 DEF CheckpointInv, DigestsAttest, Attests
    <3> QED
      BY <3>1, <3>2
  <2>11. ProofsCompared'
    <3> SUFFICES ASSUME NEW j \in Server, NEW t \in Seqs
                 PROVE  \E x \in Server : \A p \in checkpoints'[j][t].proofs :
                           p.from = x \/ SameDigest(checkpoints[j][t].digest, p.digest)'
      BY DEF ProofsCompared
    <3>1. CASE j = i /\ t = s
      <4>1. CASE d = NoCheckpoint
        BY <2>1, <2>7, <2>8, <3>1, <4>1
      <4>2. CASE d.digest = c.digest /\ d.proofs = proofs(m)
        BY <2>2, <2>7, <3>1, <4>2 DEF SameDigest
      <4> QED
        BY <2>6, <4>1, <4>2
    <3>2. CASE ~(j = i /\ t = s)
      <4>1. checkpoints'[j][t] = checkpoints[j][t]
        BY <2>7, <3>2
      <4>2. \E x \in Server : \A p \in checkpoints[j][t].proofs :
               p.from = x \/ SameDigest(checkpoints[j][t].digest, p.digest)
        BY DEF CheckpointInv, ProofsCompared
      <4> QED
        BY <4>1, <4>2 DEF SameDigest
    <3> QED
      BY <3>1, <3>2
  <2>12. StableBacked'
    <3>1. CASE UNCHANGED stable
      BY <2>4, <3>1, FrozenIfUnchanged, StableLasts DEF CheckpointInv
    <3>2. CASE StableQuorum(proofs(m)) /\ Truncate(i, s, proofs(m))
      <4>1. stable' = [stable EXCEPT ![i] = [seq |-> s, digest |-> c.digest, proofs |-> proofs(m)]]
        BY <3>2 DEF Truncate
      <4>2. /\ Attests(i, s, c.digest)
            /\ Cardinality(Past(i, s)) >= 2 * F + 1
            /\ Cardinality(Peers(i, s)) >= 2 * F + 1
        BY <1>1, <1>3, <3>2, SettledIsBacked DEF proofs
      <4> SUFFICES ASSUME NEW j \in Server, stable'[j].seq >= 0
                   PROVE  /\ Attests(j, stable'[j].seq, stable'[j].digest)
                          /\ Cardinality(Past(j, stable'[j].seq)) >= 2 * F + 1
                          /\ Cardinality(Peers(j, stable'[j].seq)) >= 2 * F + 1
        BY <2>4 DEF StableBacked, Attests, Past, Peers
      <4>3. CASE j = i
        <5>1. stable'[i].seq = s /\ stable'[i].digest = c.digest
          BY <4>1 DEF TypeOK
        <5> QED
          BY <4>2, <4>3, <5>1
      <4>4. CASE j # i
        <5>1. stable'[j] = stable[j]
          BY <4>1, <4>4 DEF TypeOK
        <5> QED
          BY <5>1 DEF CheckpointInv, StableBacked
      <4> QED
        BY <4>3, <4>4
    <3> QED
      BY <1>1, <1>3, <3>1, <3>2
  <2> QED
    BY <2>5, <2>9, <2>10, <2>11, <2>12 DEF CheckpointInv
<1> QED
  BY <1>1, <1>2, <1>3

----------------------------------------------------------------------------
(* The other handlers. *)

LEMMA SendsNoCheckpoint ==
    ASSUME NEW i, NEW data, NEW sigs, NEW r, NEW vc, NEW v, NEW vcs, NEW os, NEW j
    PROVE  /\ \A t \in ProofType : \A m \in ProofToAll(i, t, data, sigs) : m.type # "CHECKPOINT"
           /\ \A m \in PrePrepareToAll(i, data, r) : m.type # "CHECKPOINT"
           /\ \A m \in ViewChangeToAll(i, vc) : m.type # "CHECKPOINT"
           /\ \A m \in NewViewToAll(i, v, vcs, os) : m.type # "CHECKPOINT"
           /\ \A t \in AckType : Ack(i, j, t, data).type # "CHECKPOINT"
  BY DEF ProofToAll, PrePrepareToAll, ViewChangeToAll, NewViewToAll, ToOthers, ProofType, AckType, Ack

LEMMA IgnoreUnattested ==
    ASSUME NEW in, Ignore(in)
    PROVE  Unattested
  BY DEF Unattested, Ignore, Exchange, execVars, stableVars

LEMMA CrashUnattested ==
    ASSUME NEW i, NEW in, Crash(i, in)
    PROVE  Unattested
  BY DEF Unattested, Crash, Exchange, execVars, stableVars

LEMMA TransferUnattested ==
    ASSUME NEW i \in Server, NEW r \in Req, NEW in, ProcessTransfer(i, r, in)
    PROVE  Unattested
<1>1. CASE Ignore(in)
  BY <1>1, IgnoreUnattested
<1>2. CASE AnswerAgain(i, r, in)
  BY <1>2 DEF AnswerAgain, Unattested, Exchange, stableVars
<1>3. CASE ForwardToLeader(i, r, in)
  BY <1>3 DEF ForwardToLeader, Unattested, Exchange, execVars, stableVars
<1>4. CASE ProposeAgain(i, r, in)
  BY <1>4, SendsNoCheckpoint DEF ProposeAgain, Unattested, Exchange, execVars, stableVars
<1>5. CASE ProposeNew(i, r, in)
  BY <1>5, SendsNoCheckpoint DEF ProposeNew, Unattested, Exchange, execVars, stableVars
<1> QED
  BY <1>1, <1>2, <1>3, <1>4, <1>5 DEF ProcessTransfer

LEMMA PrePrepareUnattested ==
    ASSUME NEW i \in Server, ProcessPrePrepare(i)
    PROVE  Unattested
<1>1. PICK m \in net :
         \/ Ignore({m})
         \/ /\ Exchange({m}, {}) \/ StorePrePrepare(i, m)
            /\ UNCHANGED <<execVars, stableVars>>
  BY DEF ProcessPrePrepare
<1>2. CASE StorePrePrepare(i, m) /\ UNCHANGED <<execVars, stableVars>>
  BY <1>2, SendsNoCheckpoint DEF StorePrePrepare, Unattested, Exchange, execVars, stableVars, AckType
<1>3. CASE Exchange({m}, {}) /\ UNCHANGED <<execVars, stableVars>>
  BY <1>3 DEF Unattested, Exchange, execVars, stableVars
<1> QED
  BY <1>1, <1>2, <1>3, IgnoreUnattested

LEMMA PrePrepareOkUnattested ==
    ASSUME NEW i \in Server, ProcessPrePrepareOk(i)
    PROVE  Unattested
<1>1. PICK m \in net : Ignore({m}) \/ Crash(i, {m}) \/ CountPrePrepareOk(i, m)
  BY DEF ProcessPrePrepareOk
<1>2. CASE CountPrePrepareOk(i, m)
  BY <1>2 DEF CountPrePrepareOk, Unattested, Exchange, execVars, stableVars
<1> QED
  BY <1>1, <1>2, IgnoreUnattested, CrashUnattested

LEMMA OptimisticTimeoutKeeps ==
    ASSUME TypeOK, TypeOK', CheckpointInv, NEW i \in Server, OptimisticTimeout(i)
    PROVE  CheckpointInv'
<1>1. PICK s \in Seqs :
         /\ FastCommit(i, s) \/ SlowPrepare(i, s) \/ UNCHANGED <<execVars, net>>
         /\ UNCHANGED stableVars
  BY DEF OptimisticTimeout
<1>2. CASE FastCommit(i, s)
  <2> DEFINE e == [log[i][s] EXCEPT !.status = "COMMITTED",
                      !.commits = AddVotes(log[i][s].prepares, {i}, log[i][s].prePrepare.view)]
             l == [log[i] EXCEPT ![s] = e]
             out == ProofToAll(i, "COMMIT", e.prePrepare, Voters(e.prepares) \cup {i})
  <2>1. ExecutePending(i, l, {}, out)
    BY <1>2 DEF FastCommit
  <2>2. \A m \in out : m.type # "CHECKPOINT"
    BY SendsNoCheckpoint DEF ProofType
  <2>3. log[i] \in [Seqs -> Entry] /\ log[i][s] \in Entry /\ log[i][s].prePrepare.view \in -1 .. MaxView
    BY EntryAt DEF TypeOK
  <2>4. AddVotes(log[i][s].prepares, {i}, log[i][s].prePrepare.view) \in Votes
    BY <2>3, EntryAt, VotesAdded
  <2>5. e \in Entry
    BY <2>3, <2>4 DEF Entry, Status
  <2> HIDE DEF e
  <2>6. l \in [Seqs -> Entry]
    BY <2>3, <2>5
  <2> HIDE DEF l, out
  <2> QED
    BY <1>1, <2>1, <2>2, <2>6, ExecutionKeeps DEF stableVars
<1>3. CASE SlowPrepare(i, s) /\ UNCHANGED stableVars
  BY <1>3, SendsNoCheckpoint, UnattestedKeeps
     DEF SlowPrepare, Unattested, Exchange, ProofType, execVars, stableVars
<1>4. CASE UNCHANGED <<execVars, net, stableVars>>
  BY <1>4, UnattestedKeeps DEF Unattested, execVars, stableVars
<1> QED
  BY <1>1, <1>2, <1>3, <1>4

LEMMA PrepareUnattested ==
    ASSUME NEW i \in Server, ProcessPrepare(i)
    PROVE  Unattested
<1>1. PICK m \in net :
         \/ Ignore({m})
         \/ /\ \/ Exchange({m}, {Ack(i, Leader(currentView[i]), "PREPARE_OK", m.data)})
               \/ Exchange({m}, {})
            /\ UNCHANGED <<execVars, stableVars>>
  BY DEF ProcessPrepare
<1> QED
  BY <1>1, IgnoreUnattested, SendsNoCheckpoint
     DEF Unattested, Exchange, AckType, execVars, stableVars

LEMMA CommitKeeps ==
    ASSUME TypeOK, TypeOK', CheckpointInv, NEW i \in Server, ProcessCommit(i)
    PROVE  CheckpointInv'
<1> DEFINE e(m) == [log[i][m.data.seq] EXCEPT !.commits = Certified(m, log[i][m.data.seq], @)]
           g(m) == [e(m) EXCEPT !.status = "COMMITTED"]
           l(m) == [log[i] EXCEPT ![m.data.seq] = g(m)]
<1>1. PICK m \in net :
         /\ Receive(i, m, "COMMIT")
         /\ \/ Ignore({m})
            \/ /\ Present(i, m.data.seq)
               /\ \/ Exchange({m}, {}) /\ UNCHANGED execVars
                  \/ ExecutePending(i, l(m), {m}, {})
               /\ UNCHANGED stableVars
  BY DEF ProcessCommit, AcceptsCertificate
<1>2. CASE Ignore({m})
  BY <1>2, IgnoreUnattested, UnattestedKeeps
<1>3. CASE Exchange({m}, {}) /\ UNCHANGED <<execVars, stableVars>>
  BY <1>3, UnattestedKeeps DEF Unattested, Exchange, execVars, stableVars
<1>4. CASE Present(i, m.data.seq) /\ ExecutePending(i, l(m), {m}, {}) /\ UNCHANGED stableVars
  <2>1. m \in Message /\ m.type \in ProofType
    BY <1>1 DEF TypeOK, Receive, ProofType
  <2>2. m.data.seq \in Seqs /\ log[i][m.data.seq] \in Entry /\ log[i][m.data.seq].commits \in Votes
        /\ log[i] \in [Seqs -> Entry]
    BY <1>4, PresentInSeqs, EntryAt DEF TypeOK
  <2>3. Certified(m, log[i][m.data.seq], log[i][m.data.seq].commits) \in Votes
    BY <2>1, <2>2, CertifiedType
  <2>4. g(m) \in Entry
    BY <2>2, <2>3 DEF Entry, Status
  <2> HIDE DEF g
  <2>5. l(m) \in [Seqs -> Entry]
    BY <2>2, <2>4
  <2> HIDE DEF l
  <2> QED
    BY <1>4, <2>5, ExecutionKeeps DEF stableVars
<1> QED
  BY <1>1, <1>2, <1>3, <1>4

LEMMA PrepareOkKeeps ==
    ASSUME TypeOK, TypeOK', CheckpointInv, NEW i \in Server, ProcessPrepareOk(i)
    PROVE  CheckpointInv'
<1>1. PICK m \in net :
         /\ Receive(i, m, "PREPARE_OK")
         /\ \/ Ignore({m})
            \/ Crash(i, {m})
            \/ Present(i, m.data.seq) /\ CountPrepareOk(i, m)
  BY DEF ProcessPrepareOk
<1>2. CASE Present(i, m.data.seq) /\ CountPrepareOk(i, m)
  <2> DEFINE s == m.data.seq
             e == [log[i][s] EXCEPT !.commits = AddVotes(@, {m.from}, m.data.view)]
             g == [e EXCEPT !.status = "COMMITTED"]
             l == [log[i] EXCEPT ![s] = g]
             out == ProofToAll(i, "COMMIT", e.prePrepare, Voters(e.commits))
  <2>1. /\ \/ Exchange({m}, {}) /\ UNCHANGED execVars
           \/ ExecutePending(i, l, {m}, out)
        /\ UNCHANGED stableVars
    BY <1>2 DEF CountPrepareOk
  <2>2. m.from \in Server /\ m.data \in Context
    BY <1>1, MessageForms DEF TypeOK, Receive, AckType
  <2>3. s \in Seqs /\ log[i][s] \in Entry /\ log[i][s].commits \in Votes /\ log[i] \in [Seqs -> Entry]
    BY <1>2, PresentInSeqs, EntryAt DEF TypeOK
  <2>4. AddVotes(log[i][s].commits, {m.from}, m.data.view) \in Votes
    BY <2>2, <2>3, VotesAdded DEF Context
  <2>5. g \in Entry
    BY <2>3, <2>4 DEF Entry, Status
  <2>6. \A x \in out : x.type # "CHECKPOINT"
    BY SendsNoCheckpoint DEF ProofType
  <2> HIDE DEF g, out
  <2>7. l \in [Seqs -> Entry]
    BY <2>3, <2>5
  <2> HIDE DEF l
  <2>8. CASE ExecutePending(i, l, {m}, out) /\ UNCHANGED stableVars
    BY <2>6, <2>7, <2>8, ExecutionKeeps DEF stableVars
  <2>9. CASE Exchange({m}, {}) /\ UNCHANGED <<execVars, stableVars>>
    BY <2>9, UnattestedKeeps DEF Unattested, Exchange, execVars, stableVars
  <2> QED
    BY <2>1, <2>8, <2>9
<1> QED
  BY <1>1, <1>2, IgnoreUnattested, CrashUnattested, UnattestedKeeps

LEMMA ViewChangingUnattested ==
    ASSUME NEW i \in Server, ViewChanging(i)
    PROVE  Unattested
<1> DEFINE NoneSent == \A m \in net' : m.type = "CHECKPOINT" => m \in net
           Frame == UNCHANGED <<execVars, stableVars>>
<1>1. ASSUME NEW v, NEW in, TriggerViewChange(i, v, in) PROVE NoneSent
  BY <1>1, SendsNoCheckpoint DEF TriggerViewChange, Exchange
<1>2. ASSUME NEW t, NEW stop, NEW next, Expire(i, t, stop, next) PROVE NoneSent /\ Frame
  BY <1>1, <1>2 DEF Expire
<1>3. CASE DigestTimeout(i) \/ SeqTimeout(i)
  BY <1>2, <1>3 DEF DigestTimeout, SeqTimeout, Unattested, execVars, stableVars
<1>4. CASE ViewTimeout(i)
  BY <1>4 DEF ViewTimeout, Unattested, execVars, stableVars
<1>5. CASE ProcessViewChange(i)
  <2>1. PICK m \in net :
           \/ Ignore({m})
           \/ /\ \/ \E msgs : JoinViewChange(i, m.request.view, msgs, {m})
                 \/ \E msgs : StartView(i, m.request.view, msgs, {m})
                 \/ Exchange({m}, {})
              /\ Frame
    BY <1>5 DEF ProcessViewChange
  <2>2. ASSUME NEW msgs, JoinViewChange(i, m.request.view, msgs, {m}) PROVE NoneSent
    BY <1>1, <2>2 DEF JoinViewChange
  <2>3. ASSUME NEW msgs, StartView(i, m.request.view, msgs, {m}) PROVE NoneSent
    BY <2>3, SendsNoCheckpoint DEF StartView, Exchange
  <2>4. ASSUME Exchange({m}, {}) PROVE NoneSent
    BY <2>4 DEF Exchange
  <2> QED
    BY <2>1, <2>2, <2>3, <2>4, IgnoreUnattested DEF Unattested, Exchange, execVars, stableVars
<1>6. CASE ProcessNewView(i)
  <2>1. PICK m \in net :
           \/ Ignore({m})
           \/ /\ Exchange({m}, {Ack(i, Leader(m.view), "PRE_PREPARE_OK", c) : c \in m.prePrepares})
              /\ Frame
    BY <1>6 DEF ProcessNewView
  <2> QED
    BY <2>1, IgnoreUnattested, SendsNoCheckpoint
       DEF Unattested, Exchange, AckType, execVars, stableVars
<1> QED
  BY <1>3, <1>4, <1>5, <1>6 DEF ViewChanging

----------------------------------------------------------------------------
LEMMA InitCheckpoint == Init => CheckpointInv
<1> SUFFICES ASSUME Init PROVE CheckpointInv
  OBVIOUS
<1>1. /\ NoCheckpoint.proofs = {} /\ ~NoCheckpoint.digest.known /\ 0 \in Server
  BY ServersFinite, FAssumption DEF NoCheckpoint, EmptyDigest, Server
<1>2. \A i \in Server, s \in Seqs : checkpoints[i][s] = NoCheckpoint
  BY DEF Init
<1>3. MessagesAttest /\ StableBacked
  BY DEF Init, MessagesAttest, StableBacked
<1>4. ProofsAttest /\ DigestsAttest /\ ProofsCompared
  BY <1>1, <1>2 DEF ProofsAttest, DigestsAttest, ProofsCompared
<1> QED
  BY <1>3, <1>4 DEF CheckpointInv

LEMMA NextCheckpoint == TypeOK /\ TypeOK' /\ CheckpointInv /\ [Next]_vars => CheckpointInv'
<1> SUFFICES ASSUME TypeOK, TypeOK', CheckpointInv, [Next]_vars PROVE CheckpointInv'
  OBVIOUS
<1>1. CASE UNCHANGED vars
  BY <1>1, UnattestedKeeps DEF Unattested, vars, execVars, stableVars
<1>2. ASSUME NEW i \in Server, Ordering(i) PROVE CheckpointInv'
  <2>1. CASE ClientTransfer(i)
    BY <2>1, TransferUnattested, UnattestedKeeps DEF ClientTransfer
  <2>2. CASE ForwardedTransfer(i)
    <3>1. PICK m \in net : Receive(i, m, "TRANSFER") /\ ProcessTransfer(i, m.m, {m})
      BY <2>2 DEF ForwardedTransfer
    <3>2. m.m \in Req
      BY <3>1, MessageForms DEF TypeOK, Receive
    <3> QED
      BY <3>1, <3>2, TransferUnattested, UnattestedKeeps
  <2> QED
    BY <1>2, <2>1, <2>2, PrePrepareUnattested, PrePrepareOkUnattested, OptimisticTimeoutKeeps,
       PrepareUnattested, CommitKeeps, PrepareOkKeeps, UnattestedKeeps DEF Ordering
<1>3. ASSUME NEW i \in Server, Checkpointing(i) \/ ViewChanging(i) PROVE CheckpointInv'
  BY <1>3, ProcessCheckpointKeeps, ViewChangingUnattested, UnattestedKeeps DEF Checkpointing
<1> QED
  BY <1>1, <1>2, <1>3 DEF Next, Step

\* What a checkpoint message, a proof or a server's own digest says of a number is the
\* history its sender has, and stable checkpoints are backed by a quorum.
THEOREM CheckpointInvariant == Spec => []CheckpointInv
<1>1. Spec => []TypeOK
  BY TypeCorrect
<1> QED
  BY <1>1, InitCheckpoint, NextCheckpoint, PTL DEF Spec

LEMMA BackingIsBacked == CheckpointInv => StableIsBacked
<1> SUFFICES ASSUME CheckpointInv, NEW i \in Server, stable[i].seq >= 0
             PROVE  LET c == stable[i]
                        reached == {j \in Server : lastExecuted[j] >= c.seq}
                    IN  /\ i \in reached /\ c.digest = DigestOf(UpTo(executed[i], c.seq))
                        /\ Cardinality(reached \ {i}) >= 2 * F + 1
                        /\ Cardinality({j \in reached :
                               SameBalances(UpTo(executed[j], c.seq), c.digest.history)}) >= 2 * F + 1
  BY DEF StableIsBacked
<1> DEFINE s == stable[i].seq
           h == stable[i].digest.history
           reached == {j \in Server : lastExecuted[j] >= s}
<1>1. /\ Attests(i, s, stable[i].digest)
      /\ Cardinality(Past(i, s)) >= 2 * F + 1 /\ Cardinality(Peers(i, s)) >= 2 * F + 1
  BY DEF CheckpointInv, StableBacked
<1>2. i \in reached /\ stable[i].digest = DigestOf(UpTo(executed[i], s))
  BY <1>1 DEF Attests
<1>3. h = UpTo(executed[i], s)
  BY <1>2 DEF DigestOf
<1>4. Past(i, s) = reached \ {i}
  BY DEF Past
<1>5. Peers(i, s) = {j \in reached : SameBalances(UpTo(executed[j], s), h)}
  BY <1>3 DEF Peers
<1> QED
  BY <1>1, <1>2, <1>4, <1>5

\* The backers of two stable checkpoints of a number share a server, whose history has
\* the balances of both.
LEMMA BackedMeansAgreed == CheckpointInv => StableAgreement
<1> SUFFICES ASSUME CheckpointInv, NEW i \in Server, NEW j \in Server,
                    stable[i].seq >= 0, stable[i].seq = stable[j].seq
             PROVE  SameBalances(stable[i].digest.history, stable[j].digest.history)
  BY DEF StableAgreement
<1> DEFINE s == stable[i].seq
<1>1. /\ stable[i].digest.history = UpTo(executed[i], s)
      /\ stable[j].digest.history = UpTo(executed[j], s)
  <2>1. /\ Attests(i, s, stable[i].digest)
        /\ Attests(j, stable[j].seq, stable[j].digest) /\ stable[j].seq = s
    BY DEF CheckpointInv, StableBacked
  <2>2. /\ stable[i].digest = DigestOf(UpTo(executed[i], s))
        /\ stable[j].digest = DigestOf(UpTo(executed[j], s))
    BY <2>1 DEF Attests
  <2> QED
    BY <2>2 DEF DigestOf
<1>2. Cardinality(Peers(i, s)) >= 2 * F + 1 /\ Cardinality(Peers(j, s)) >= 2 * F + 1
  BY DEF CheckpointInv, StableBacked
<1>3. Peers(i, s) \in SUBSET Server /\ Peers(j, s) \in SUBSET Server
  BY DEF Peers
<1>4. PICK k \in Server : k \in Peers(i, s) /\ k \in Peers(j, s)
  BY <1>2, <1>3, QuorumsMeet
<1>5. /\ SameBalances(UpTo(executed[k], s), UpTo(executed[i], s))
      /\ SameBalances(UpTo(executed[k], s), UpTo(executed[j], s))
  BY <1>4 DEF Peers
<1> QED
  BY <1>1, <1>5, BalancesCompare

\* A stable checkpoint is of the balances its server had at that number, and 2f + 1 servers
\* had the same there, for every number of servers, window and checkpoint step; servers
\* that stepped over empty slots are among them only with these balances.
THEOREM StablesAreBacked == Spec => []StableIsBacked
  BY CheckpointInvariant, BackingIsBacked, PTL

\* No two servers have stable checkpoints of one number with different balances, even
\* though the first proof of each may have gone uncompared.
THEOREM StableAgreed == Spec => []StableAgreement
  BY CheckpointInvariant, BackedMeansAgreed, PTL
=============================================================================
