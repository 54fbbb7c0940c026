------------------------------ MODULE MCReplicas ------------------------------
(* Instances of PbftProperties for TLC: four servers, one to three requests,   *)
(* and starting points part of the way into view 1.                            *)
EXTENDS PbftProperties

Request(s, r, amt, ts) == [sender |-> s, receiver |-> r, amount |-> amt, timestamp |-> ts]
AB == Request("A", "B", 4, 1)
BA == Request("B", "A", 12, 2)   \* covered only once AB is executed

CA == Request("C", "A", 2, 3)

OneRequest  == {AB}
TwoRequests == {AB, BA}
ThreeRequests == {AB, BA, CA}

\* Which servers the clients reach.
ToLeader1    == Req \X {1}
ToLeader1And3 == ToLeader1 \cup {BA} \X {3}
ToAll        == Req \X Server
Nobody       == {}
ABToLeader2  == {AB} \X {2}
BAToAll      == {BA} \X Server

----------------------------------------------------------------------------
(* Later starting points.  Each is the state Init reaches when the messages *)
(* named arrive in the obvious order; Logs derives from the logs every      *)
(* variable that they determine.                                            *)

Context1(r, s) == [view |-> 1, seq |-> s, digest |-> r]
Signed(from)   == AddVotes(NoVotes, from, 1)
Slot(r, s, status, prepares, commits) ==
    [m |-> r, prePrepare |-> Context1(r, s), from |-> 1, status |-> status,
     prepares |-> Signed(prepares), commits |-> Signed(commits)]

Logs(logs) ==
    LET present(i) == {s \in Seqs : logs[i][s].status # "NIL"}
        done(i) == {s \in Seqs : logs[i][s].status = "EXECUTED"}
        history == [i \in Server |-> [s \in Seqs |-> IF s \in done(i) THEN logs[i][s].m ELSE NoReq]]
    IN  /\ currentView = [i \in Server |-> 1]
        /\ viewChangeMessages = [i \in Server |-> {}]
        /\ currentSequence = [i \in Server |-> Max({-1} \cup present(i))]
        /\ log = logs
        /\ digestToEntry = [i \in Server |->
              [r \in Req |-> Max({-1} \cup {s \in present(i) : logs[i][s].m = r})]]
        /\ executed = history
        /\ lastExecuted = [i \in Server |-> Max({-1} \cup done(i))]
        /\ checkpoints = [i \in Server |-> [s \in Seqs |->
              IF s \in done(i) /\ IsCheckpoint(s)
              THEN [exists |-> TRUE, digest |-> DigestOf(UpTo(history[i], s)), proofs |-> {}]
              ELSE NoCheckpoint]]
        /\ lowWatermark = [i \in Server |-> 0]
        /\ stable = [i \in Server |-> [seq |-> -1, digest |-> EmptyDigest, proofs |-> {}]]
        /\ crashed = [i \in Server |-> FALSE]
        /\ replies = UNION {{[from |-> i, view |-> 1, m |-> logs[i][s].m,
                              ack |-> Succeeds(history[i], s)] : s \in done(i)} : i \in Server}
        /\ proposed = UNION {{logs[i][s].prePrepare : s \in present(i)} : i \in Server}

\* No timer of view 1 has fired: a backup waits for the numbers it accepted, and for
\* the requests it forwarded.
Later(logs, messages) ==
    /\ Logs(logs)
    /\ state = [i \in Server |-> "NORMAL"]
    /\ lastProposedView = [i \in Server |-> 1]
    /\ net = messages
    /\ awaitedDigests = [i \in Server |->
          {m.m : m \in {n \in messages : n.type = "TRANSFER" /\ n.from = i}}]
    /\ timers = [i \in Server |-> IF i = 1 THEN {}
          ELSE {SeqTimer(s, 2) : s \in {t \in Seqs : log[i][t].status # "NIL"}}
               \cup {DigestTimer(r, 2) : r \in awaitedDigests[i]}]

\* Leader 1 stopped after it sent the pre-prepare for AB.
ProposedInit ==
    Later([i \in Server |-> [s \in Seqs |->
              IF i = 1 /\ s = 0 THEN Slot(AB, 0, "PRE_PREPARED", {}, {}) ELSE NilEntry]],
          PrePrepareToAll(1, Context1(AB, 0), AB))

\* Leader 1 has the acknowledgements of 0 and 2 for AB and sent the prepare
\* certificate; everything it sent to 3 was lost.
PreparingInit ==
    Later([i \in Server |-> [s \in Seqs |->
              IF i = 3 \/ s # 0 THEN NilEntry
              ELSE IF i = 1 THEN Slot(AB, 0, "PREPARED", {0, 2}, {1})
              ELSE Slot(AB, 0, "PRE_PREPARED", {i}, {})]],
          {m \in ProofToAll(1, "PREPARE", Context1(AB, 0), {0, 2}) : m.to # 3})
PreparingSpec == PreparingInit /\ [][Next]_vars

\* AB was executed by 0, 1 and 3; every message about it to 2 was lost.
InDarkInit ==
    Later([i \in Server |-> [s \in Seqs |->
              IF i # 2 /\ s = 0 THEN Slot(AB, 0, "EXECUTED", {0, 3}, {0, 1, 3}) ELSE NilEntry]],
          {})
InDarkSpec == InDarkInit /\ [][Next]_vars

\* All but 3 have the pre-prepares of BA and CA, and the leader has prepared them; the
\* prepare certificates, and every message to 3 since AB was executed, were lost.
UnheldInit ==
    LET slot(i, s) ==
            CASE s = 0 -> Slot(AB, 0, "EXECUTED", {0, 2, i} \ {1}, {0, 1, 2})
              [] s # 0 /\ i = 1 -> Slot(IF s = 1 THEN BA ELSE CA, s, "PREPARED", {0, 2}, {1})
              [] s # 0 /\ i = 3 -> NilEntry
              [] OTHER -> Slot(IF s = 1 THEN BA ELSE CA, s, "PRE_PREPARED", {i}, {})
    IN  Later([i \in Server |-> [s \in Seqs |-> slot(i, s)]], {})
UnheldSpec == UnheldInit /\ [][Next]_vars

\* AB and BA were executed by leader 1 and by 0 and are prepared at 2, whose
\* certificates are under way; 3 has the pre-prepare of BA, and those of AB and
\* both certificates are under way to it.
CertificatesInit ==
    LET request(s) == CASE s = 0 -> AB [] s = 1 -> BA [] OTHER -> NoReq
        slot(i, s) ==
            CASE s > 1          -> NilEntry
              [] i \in {0, 1} -> Slot(request(s), s, "EXECUTED", {0, 2}, {0, 1, 2})
              [] i = 2        -> Slot(request(s), s, "PREPARED", {0, 2}, {})
              [] s = 1        -> Slot(request(s), s, "PRE_PREPARED", {3}, {})
              [] OTHER        -> NilEntry
        checkpoint(i) == CheckpointToAll(i, 1, DigestOf([s \in Seqs |-> request(s)]))
        late(m) == m.to \in {2, 3}
    IN  Later([i \in Server |-> [s \in Seqs |-> slot(i, s)]],
              checkpoint(0) \cup checkpoint(1)
              \cup {m \in PrePrepareToAll(1, Context1(AB, 0), AB) : m.to = 3}
              \cup {m \in UNION {ProofToAll(1, "COMMIT", Context1(request(s), s), {0, 1, 2}) :
                                     s \in {0, 1}} : late(m)})
CertificatesSpec == CertificatesInit /\ [][Next]_vars

\* Every server executed both, and the window of the leader is full; an acknowledgement
\* of 3 for each comes last to the leader, and a request that 3 forwarded, among the
\* checkpoints of the others.
LateAcksInit ==
    LET request(s) == CASE s = 0 -> AB [] s = 1 -> BA [] OTHER -> NoReq
        balances   == DigestOf([s \in Seqs |-> request(s)])
    IN  Later([i \in Server |-> [s \in Seqs |->
                  IF s > 1 THEN NilEntry
                  ELSE Slot(request(s), s, "EXECUTED", {0, 2} \cup ({i} \ {1}), {0, 1, 2})]],
              {Ack(3, 1, "PRE_PREPARE_OK", Context1(BA, 1)), Ack(3, 1, "PREPARE_OK", Context1(AB, 0)),
               [type |-> "TRANSFER", from |-> 3, to |-> 1, m |-> CA]}
              \cup {m \in UNION {CheckpointToAll(i, 1, balances) : i \in Server} : m.to = 1})

TruncationSpec == (CertificatesInit \/ LateAcksInit) /\ [][Next]_vars

\* Leader 1 committed AB, CA and perhaps BA between them, executed what has no gap
\* below it, and stopped; its certificates were lost.  0 and 3 prepared what it
\* committed, 2 prepared AB and CA only.  The timers of all three have fired.
StoppedInit == \E open \in BOOLEAN :
    LET request(s) == IF s = 0 THEN AB ELSE IF s = 1 THEN BA ELSE CA
        slot(i, s) ==
            CASE s = 1 /\ open     -> Slot(BA, 1, "PRE_PREPARED", IF i = 1 THEN {} ELSE {i}, {})
              [] s = 1 /\ i = 2    -> Slot(BA, 1, "PRE_PREPARED", {2}, {})
              [] i = 1             -> Slot(request(s), s,
                                           IF open /\ s = 2 THEN "COMMITTED" ELSE "EXECUTED",
                                           {0, 3}, {0, 1, 3})
              [] OTHER             -> Slot(request(s), s, "PREPARED", {0, 3, i}, {})
    IN  /\ Logs([i \in Server |-> [s \in Seqs |-> slot(i, s)]])
        /\ state = [i \in Server |-> IF i = 1 THEN "NORMAL" ELSE "VIEW_CHANGE"]
        /\ lastProposedView = [i \in Server |-> IF i = 1 THEN 1 ELSE 2]
        /\ awaitedDigests = [i \in Server |-> {}]
        /\ timers = [i \in Server |-> IF i = 1 THEN {} ELSE {SeqTimer(0, 3)}]
        /\ net = UNION {ViewChangeToAll(i, ComposeViewChange(i, 2)) : i \in Server \ {1}}

\* The leader is gone after its pre-prepare, or after it committed.
LeaderGoneSpec == (ProposedInit \/ StoppedInit) /\ [][Next]_vars /\ Fairness
=============================================================================
