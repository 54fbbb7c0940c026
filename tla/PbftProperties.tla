---------------------------- MODULE PbftProperties ----------------------------
(* What the cluster promises, stated over PbftReplicas. *)
EXTENDS PbftReplicas

Correct == Alive \ Byzantine

Prepared(e)  == e.status \in {"PREPARED", "COMMITTED", "EXECUTED"}
Committed(e) == e.status \in {"COMMITTED", "EXECUTED"}

----------------------------------------------------------------------------
(* Safety. *)

\* Two servers that hold an entry for the same number in the same view hold the
\* same request, whatever was lost, retried or re-proposed: the assignment made
\* by processTransfer and accepted by processPrePrepare is a function of the view
\* and the number.
AgreementInView == \A i, j \in Server, s \in Seqs :
    /\ log[i][s].status # "NIL" /\ log[j][s].status # "NIL"
    /\ log[i][s].prePrepare.view = log[j][s].prePrepare.view
    => log[i][s].prePrepare.digest = log[j][s].prePrepare.digest

\* j holds the assignment of e.
Holds(j, e) == log[j][e.prePrepare.seq].prePrepare = e.prePrepare

\* Why: every entry is an assignment its leader made, the leader keeps what it made
\* as long as it stays in the view, and it never assigns a number twice.  A leader
\* leaves a view for good, and a pre-prepare only travels from leader to backup.
UniqueAssignments == \A p, q \in proposed :
    p.view = q.view /\ p.seq = q.seq => p = q
EntriesAreProposed == \A i \in Server, s \in Seqs :
    log[i][s].status # "NIL" =>
        /\ log[i][s].prePrepare \in proposed
        /\ log[i][s].prePrepare.seq = s
        /\ s <= currentSequence[i]
PrePreparesAreProposed == \A m \in net : m.type = "PRE_PREPARE" =>
    m.data \in proposed /\ m.from = Leader(m.data.view) /\ m.to # m.from
LeadersKeepAssignments == \A p \in proposed :
    LET l == Leader(p.view)
        e == log[l][p.seq]
    IN  /\ p.seq \in Seqs
        /\ currentView[l] >= p.view
        /\ currentView[l] = p.view => e.status # "NIL" /\ e.prePrepare = p /\ e.from = l
DigestsHaveEntries == \A i \in Server, r \in Req :
    Known(i, r) => log[i][digestToEntry[i][r]].status # "NIL"

\* The five together are inductive, and imply AgreementInView.
AssignmentInv ==
    /\ UniqueAssignments
    /\ EntriesAreProposed
    /\ PrePreparesAreProposed
    /\ LeadersKeepAssignments
    /\ DigestsHaveEntries

\* The view of e lasts, and is the first in which its number was proposed.
FirstProposal(e) ==
    /\ \A j \in Server : currentView[j] <= e.prePrepare.view
    /\ \A p \in proposed : p.seq = e.prePrepare.seq => p.view = e.prePrepare.view

\* An entry committed in the view that first proposed it is backed by a certificate:
\* 2f + 1 servers prepared the assignment (slow path), or every server accepted it
\* (fast path, README.md:55), although neither collector checks the view of the
\* acknowledgements it counts.  In a later view this fails: see CommitAgreed.
CommitCertificate == \A i \in Server, s \in Seqs :
    LET e == log[i][s]
    IN  Committed(e) /\ FirstProposal(e) =>
            \/ Cardinality({j \in Server : Holds(j, e) /\ Prepared(log[j][s])}) >= 2 * F + 1
            \/ \A j \in Server : Holds(j, e)

\* The leader of a new view learns of every request a server executed in an
\* earlier view: some request-to-change-view it received proves it prepared.
\* (Checkpoints stand in for numbers up to the highest stable one.)  README.md:30: a
\* committed request "can be recovered after (leader) failures".  From view 1 to view 2
\* it can on the slow path; after the short cut of README.md:55 it is lost.  A third view
\* loses it too: a request for view 3 made before its sender entered view 2 still counts.
ExecutedKnownToNewView == \A m \in net : m.type = "NEW_VIEW" =>
    \A i \in Server, s \in Seqs :
        /\ executed[i][s] # NoReq
        /\ log[i][s].status = "EXECUTED" /\ log[i][s].prePrepare.view < m.view
        => \E vc \in m.vproofs :
              \/ vc.checkpoint.seq >= s
              \/ \E p \in vc.pproofs : p.prePrepare.seq = s /\ p.prePrepare.digest = executed[i][s]

\* The new view proposes again what a server executed in the view before it, under the
\* same number: computeBigO finds the certificate among the 2f + 1 requests although
\* none of them need come from a server that executed it.  The numbers it looks at
\* lie strictly between the stable checkpoint (at least 0) and the highest prepared one.
ExecutedReproposed == \A m \in net : m.type = "NEW_VIEW" =>
    \A i \in Server, s \in Seqs :
        /\ log[i][s].status = "EXECUTED" /\ log[i][s].prePrepare.view = m.view - 1
        /\ s > 0 /\ \A vc \in m.vproofs : s > vc.checkpoint.seq
        /\ \E vc \in m.vproofs : \E p \in vc.pproofs : p.prePrepare.seq > s
        => \E c \in m.prePrepares : c.seq = s /\ c.digest = executed[i][s]

\* A stable checkpoint is of the balances its server really had at that number.  2f + 1
\* servers, itself among them, had the same there, and 2f + 1 others got that far.  A
\* server gets to a number without the slots it steps over because they are empty, and
\* the first proof that comes in may be of such a server and is compared with nothing; the
\* balances themselves are never stable anywhere unless 2f + 1 servers have them.
StableIsBacked == \A i \in Server :
    LET c == stable[i]
        reached == {j \in Server : lastExecuted[j] >= c.seq}
    IN  c.seq >= 0 =>
            /\ i \in reached /\ c.digest = DigestOf(UpTo(executed[i], c.seq))
            /\ Cardinality(reached \ {i}) >= 2 * F + 1
            /\ Cardinality({j \in reached :
                   SameBalances(UpTo(executed[j], c.seq), c.digest.history)}) >= 2 * F + 1

\* Two stable checkpoints of the same number stand for the same balances, although
\* the first proof to come in early is never compared with the server's own digest.
StableAgreement == \A i, j \in Server :
    stable[i].seq >= 0 /\ stable[i].seq = stable[j].seq
    => SameBalances(stable[i].digest.history, stable[j].digest.history)

\* What server i, as leader of view v, has its backups acknowledge: what it found in the
\* requests it started the view with.
Reproposed(i, v) == ComputeBigO({vc \in viewChangeMessages[i] : vc.view = v})

\* A NOP (its number is -1), or a request the server does not have itself.
Unheld(i, c) == c = Nop \/ log[i][c.seq].status = "NIL"

\* Why the index of a handler may be wrong: the slot was truncated, the number lies past
\* the window, or a view the server led began with what it cannot look up.
CrashCause(i) ==
    \/ lowWatermark[i] > 0 \/ currentSequence[i] >= K
    \/ \E v \in 2 .. currentView[i] : Leader(v) = i /\ \E c \in Reproposed(i, v) : Unheld(i, c)

\* The unchecked dereferences of the collector's handlers go wrong for these reasons only;
\* an acknowledgement may come late, twice, or when the leader leads its next view.
CrashHasCause == \A i \in Server : crashed[i] => CrashCause(i)

----------------------------------------------------------------------------
(* Promises of the documentation and the comments that the code breaks; the *)
(* README tells how.                                                        *)

\* README.md:30: "The goal of the commit phase is to ensure safety across views".
ExecutionAgreement == \A i, j \in Server, s \in Seqs :
    executed[i][s] # NoReq /\ executed[j][s] # NoReq => executed[i][s] = executed[j][s]

\* README.md:55: on the short cut "each replica ensures that all non-faulty replicas have
\* received the request and agreed with the order"; on the way through the prepare phase
\* 2f + 1 have prepared it.  So much is behind every commit, in whatever view.
CommitAgreed == \A i \in Server, s \in Seqs :
    LET e == log[i][s]
        agrees(j) == \/ log[j][s].status # "NIL" /\ log[j][s].prePrepare.digest = e.prePrepare.digest
                     \/ log[j][s].prePrepare.view > e.prePrepare.view
    IN  Committed(e) =>
            \/ Cardinality({j \in Server : agrees(j) /\ Prepared(log[j][s])}) >= 2 * F + 1
            \/ \A j \in Server : agrees(j)

\* README.md:34: "If a replica receives 2f + 1 matching checkpoint messages, the
\* checkpoint is stable".  The other 3f servers are past number s, each sent its
\* checkpoint when it got there, and no checkpoint message is under way any more.
ReceivedCheckpointIsStable == \A i \in Server, s \in Seqs :
    /\ Up(i) /\ IsCheckpoint(s)
    /\ \A j \in Server : lastExecuted[j] >= s /\ SameBalances(executed[j], executed[i])
    /\ \A m \in net : m.type # "CHECKPOINT"
    => stable[i].seq >= s

----------------------------------------------------------------------------
(* Action properties. *)

\* An entry that stays in its view keeps its assignment, and once committed it
\* stays committed: no retry, late acknowledgement or second timer takes it back.
\* Only a pre-prepare of a later view may replace it.
Kept(e, f) ==
    \/ f.prePrepare = e.prePrepare /\ (Committed(e) => Committed(f))
    \/ f.prePrepare.view > e.prePrepare.view
EntriesOnlyAdvance == [][\A i \in Server, s \in Seqs :
    log[i][s].status # "NIL" => Kept(log[i][s], log'[i][s])]_vars

----------------------------------------------------------------------------
(* Refinement. *)

\* What the replicas hold and executed, seen as the logs of PbftLog.
Log == INSTANCE PbftLog WITH
    Number    <- Seqs,
    View      <- Views,
    None      <- NoReq,
    assigned  <- proposed,
    accepted  <- [i \in Server |-> [s \in Seqs |-> log[i][s].prePrepare]],
    committed <- [i \in Server |-> {s \in Seqs : Committed(log[i][s])}],
    results   <- executed

\* The handlers, with every message, timer, retry and view change between them, only
\* ever assign, accept, commit and execute as PbftLog allows: a number is assigned once
\* in a view, held or given up for a later view only, and executed at most once, with
\* the request that was committed.
ImplementsLog == Log!Spec

----------------------------------------------------------------------------
(* Liveness.  The event loop takes every message that arrived, every timer *)
(* thread wakes up, and a client repeats its request until it is answered. *)

Fairness == \A i \in Alive :
    /\ WF_vars(ClientTransfer(i)) /\ WF_vars(ForwardedTransfer(i))
    /\ WF_vars(ProcessPrePrepare(i)) /\ WF_vars(ProcessPrePrepareOk(i))
    /\ WF_vars(OptimisticTimeout(i))
    /\ WF_vars(ProcessPrepare(i)) /\ WF_vars(ProcessPrepareOk(i)) /\ WF_vars(ProcessCommit(i))
    /\ WF_vars(ProcessCheckpoint(i))
    /\ WF_vars(DigestTimeout(i)) /\ WF_vars(SeqTimeout(i)) /\ WF_vars(ViewTimeout(i))
    /\ WF_vars(ProcessViewChange(i)) /\ WF_vars(ProcessNewView(i))

FairSpec == Spec /\ Fairness

\* Every request ends up executed by every correct server.
ExecutedAt(i, r) == \E s \in Seqs : executed[i][s] = r
AllServed == \A r \in Req : <>(\A i \in Correct : ExecutedAt(i, r))

\* A leader that is gone is replaced: every correct server gets into a later view.
LeaderReplaced == <>(\A i \in Correct : currentView[i] > 1 /\ state[i] = "NORMAL")

=============================================================================
