------------------------- MODULE PbftAgreementProofs -------------------------
(* Type correctness of the replicas, Spec => []TypeOK, and agreement within a  *)
(* view, Spec => []AgreementInView.                                            *)
EXTENDS PbftProperties, WellFoundedInduction, FiniteSetTheorems, TLAPS

----------------------------------------------------------------------------
(* Facts about the operators the replica modules are built from. *)

\* A non-empty set of integers with an upper bound has a greatest element.
LEMMA GreatestExists ==
    ASSUME NEW b \in Int, NEW S \in SUBSET Int, S # {}, \A x \in S : x <= b
    PROVE  \E x \in S : \A y \in S : y <= x
<1> DEFINE T == {b - x : x \in S}
<1>1. T \subseteq Nat
  <2> SUFFICES ASSUME NEW x \in S PROVE b - x \in Nat
    OBVIOUS
  <2>1. x \in Int /\ x <= b
    OBVIOUS
  <2> QED
    BY <2>1
<1>2. T # {}
  OBVIOUS
<1> DEFINE R == OpToRel(<, Nat)
<1>3. IsWellFoundedOn(R, Nat)
  BY NatLessThanWellFounded
<1>4. \A t, u \in Nat : u < t => <<u, t>> \in R
  BY DEF OpToRel
<1> HIDE DEF T, R
<1>5. PICK t \in T : \A u \in T : ~(<<u, t>> \in R)
  BY <1>1, <1>2, <1>3, WFMin
<1>6. ASSUME NEW u \in T PROVE t <= u
  <2>1. t \in Nat /\ u \in Nat
    BY <1>1
  <2>2. ~(u < t)
    BY <1>4, <1>5, <2>1
  <2> QED
    BY <2>1, <2>2
<1>7. PICK x \in S : t = b - x
  BY DEF T
<1>8. \A y \in S : b - y \in T
  BY DEF T
<1> QED
  BY <1>6, <1>7, <1>8

LEMMA MaxOfBounded ==
    ASSUME NEW b \in Int, NEW S \in SUBSET Int, S # {}, \A x \in S : x <= b
    PROVE  Max(S) \in S /\ \A x \in S : x <= Max(S)
  BY GreatestExists DEF Max

LEMMA MaxOfTwo ==
    ASSUME NEW x \in Int, NEW y \in Int
    PROVE  Max({x, y}) \in {x, y} /\ Max({x, y}) >= x /\ Max({x, y}) >= y
<1>1. \E z \in {x, y} : \A w \in {x, y} : z >= w
  <2>1. CASE x >= y
    BY <2>1
  <2>2. CASE y >= x
    BY <2>2
  <2> QED
    BY <2>1, <2>2
<1> QED
  BY <1>1 DEF Max

LEMMA ServersFinite == IsFiniteSet(Server) /\ Cardinality(Server) = 3 * F + 1
<1>1. 3 * F \in Int /\ ~(0 > 3 * F) /\ 3 * F - 0 + 1 = 3 * F + 1
  BY FAssumption
<1> QED
  BY <1>1, FS_Interval DEF Server

LEMMA ServerSets ==
    ASSUME NEW A \in SUBSET Server
    PROVE  /\ IsFiniteSet(A) /\ Cardinality(A) \in Nat
           /\ \A B \in SUBSET A : Cardinality(B) \in Nat /\ Cardinality(B) <= Cardinality(A)
<1>1. IsFiniteSet(A)
  BY ServersFinite, FS_Subset
<1>2. ASSUME NEW B \in SUBSET A
      PROVE  Cardinality(B) \in Nat /\ Cardinality(B) <= Cardinality(A)
  BY <1>1, FS_Subset, FS_CardinalityType
<1> QED
  BY <1>1, <1>2, FS_CardinalityType

\* Two quorums share a server.
LEMMA QuorumsMeet ==
    ASSUME NEW A \in SUBSET Server, NEW B \in SUBSET Server,
           Cardinality(A) >= 2 * F + 1, Cardinality(B) >= 2 * F + 1
    PROVE  \E j \in Server : j \in A /\ j \in B
<1>1. Cardinality(A) + Cardinality(B) > Cardinality(Server)
  BY ServersFinite, ServerSets, FAssumption
<1>2. A \cap B # {}
  BY <1>1, ServersFinite, FS_MajoritiesIntersect
<1> QED
  BY <1>2

----------------------------------------------------------------------------
(* What the messages in net look like, and that every send produces one. *)

LEMMA MessageForms ==
    ASSUME NEW m \in Message
    PROVE  /\ m.from \in Server /\ m.to \in Server
           /\ m.type = "TRANSFER" => m.m \in Req
           /\ m.type = "PRE_PREPARE" => m.data \in Context /\ m.m \in Digest
           /\ m.type \in AckType => m.data \in Context
           /\ m.type \in ProofType => m.data \in Context /\ m.sigs \subseteq Server
           /\ m.type = "CHECKPOINT" => m.seq \in Seqs /\ m.digest \in CheckpointDigest
           /\ m.type = "VIEW_CHANGE" => m.request \in ViewChange
           /\ m.type = "NEW_VIEW" => /\ m.view \in Views
                                     /\ m.vproofs \subseteq ViewChange
                                     /\ m.prePrepares \subseteq Context
  BY DEF Message, AckType, ProofType

LEMMA TransferIsMessage ==
    ASSUME NEW i \in Server, NEW j \in Server, NEW r \in Req
    PROVE  [type |-> "TRANSFER", from |-> i, to |-> j, m |-> r] \in Message
  BY DEF Message

LEMMA AckIsMessage ==
    ASSUME NEW i \in Server, NEW j \in Server, NEW t \in AckType, NEW data \in Context
    PROVE  Ack(i, j, t, data) \in Message
  BY DEF Message, Ack

LEMMA PrePreparesAreMessages ==
    ASSUME NEW i \in Server, NEW data \in Context, NEW r \in Digest
    PROVE  PrePrepareToAll(i, data, r) \subseteq Message
  BY DEF Message, PrePrepareToAll, ToOthers

LEMMA ProofsAreMessages ==
    ASSUME NEW i \in Server, NEW t \in ProofType, NEW data \in Context, NEW sigs \in SUBSET Server
    PROVE  ProofToAll(i, t, data, sigs) \subseteq Message
  BY DEF Message, ProofToAll, ToOthers

LEMMA CheckpointsAreMessages ==
    ASSUME NEW i \in Server, NEW s \in Seqs, NEW d \in CheckpointDigest
    PROVE  CheckpointToAll(i, s, d) \subseteq Message
  BY DEF Message, CheckpointToAll, ToOthers

LEMMA ViewChangesAreMessages ==
    ASSUME NEW i \in Server, NEW vc \in ViewChange
    PROVE  ViewChangeToAll(i, vc) \subseteq Message
  BY DEF Message, ViewChangeToAll, ToOthers

LEMMA NewViewsAreMessages ==
    ASSUME NEW i \in Server, NEW v \in Views, NEW vcs \in SUBSET ViewChange,
           NEW prePrepares \in SUBSET Context
    PROVE  NewViewToAll(i, v, vcs, prePrepares) \subseteq Message
  BY DEF Message, NewViewToAll, ToOthers

----------------------------------------------------------------------------
(* Parts of the state. *)

LEMMA ServerFacts ==
    /\ \A v \in Views : Leader(v) \in Server
    /\ NoVotes \in Votes
    /\ Nop \in Context
    /\ NilEntry \in Entry
    /\ NoHistory \in History
    /\ EmptyDigest \in CheckpointDigest
    /\ NoCheckpoint \in CheckpointInfo
<1>1. 0 \in Server /\ 3 * F + 1 \in Nat \ {0}
  BY FAssumption DEF Server
<1>2. ASSUME NEW v \in Views PROVE Leader(v) \in Server
  BY FAssumption DEF Views, Leader, Server
<1>3. MaxSeq \in Nat /\ MaxView \in Nat \ {0}
  BY BoundAssumption
<1>4. NoVotes \in Votes
  BY <1>3 DEF NoVotes, Votes
<1>5. Nop \in Context
  BY <1>3 DEF Nop, Context, Digest
<1>6. NilEntry \in Entry
  BY <1>1, <1>4, <1>5 DEF NilEntry, Entry, Status, Digest
<1>7. NoHistory \in History /\ EmptyDigest \in CheckpointDigest
  BY DEF NoHistory, History, EmptyDigest, CheckpointDigest, Digest
<1>8. NoCheckpoint \in CheckpointInfo
  BY <1>7 DEF NoCheckpoint, CheckpointInfo
<1> QED
  BY <1>2, <1>4, <1>5, <1>6, <1>7, <1>8

LEMMA VotesAdded ==
    ASSUME NEW votes \in Votes, NEW from \in SUBSET Server, NEW v \in -1 .. MaxView
    PROVE  AddVotes(votes, from, v) \in Votes
  BY DEF Votes, AddVotes

LEMMA VotersAreServers == \A votes : Voters(votes) \subseteq Server
  BY DEF Voters

LEMMA NewEntryType ==
    ASSUME NEW r \in Digest, NEW data \in Context, NEW leader \in Server, NEW votes \in Votes
    PROVE  NewEntry(r, data, leader, votes) \in Entry
  BY ServerFacts DEF NewEntry, Entry, Status

----------------------------------------------------------------------------
(* Init, and the handlers that change nothing. *)

LEMMA InitType == Init => TypeOK
<1> SUFFICES ASSUME Init PROVE TypeOK
  OBVIOUS
<1>1. MaxSeq \in Nat /\ MaxView \in Nat \ {0}
  BY BoundAssumption
<1>2. [i \in Server |-> [s \in Seqs |-> NilEntry]] \in [Server -> [Seqs -> Entry]]
  BY ServerFacts
<1>3. [i \in Server |-> [s \in Seqs |-> NoCheckpoint]] \in [Server -> [Seqs -> CheckpointInfo]]
  BY ServerFacts
<1>4. [seq |-> -1, digest |-> EmptyDigest, proofs |-> {}] \in StableCheckpoint
  BY <1>1, ServerFacts DEF StableCheckpoint
<1> QED
  BY <1>1, <1>2, <1>3, <1>4, ServerFacts DEF Init, TypeOK, Views

LEMMA IgnoreType ==
    ASSUME TypeOK, NEW in, Ignore(in)
    PROVE  TypeOK'
  BY DEF TypeOK, Ignore, Exchange, viewVars, logVars, execVars, stableVars, timerVars

LEMMA CrashType ==
    ASSUME TypeOK, NEW i \in Server, NEW in, Crash(i, in)
    PROVE  TypeOK'
  BY DEF TypeOK, Crash, Exchange, viewVars, logVars, execVars, stableVars, timerVars

\* What executePending leaves behind is well-typed when the log it runs on is.
LEMMA ExecutePendingType ==
    ASSUME TypeOK, NEW i \in Server, NEW l \in [Seqs -> Entry], NEW in,
           NEW out \in SUBSET Message, ExecutePending(i, l, in, out)
    PROVE  /\ log' \in [Server -> [Seqs -> Entry]]
           /\ executed' \in [Server -> History]
           /\ lastExecuted' \in [Server -> -1 .. MaxSeq]
           /\ replies' \subseteq Reply
           /\ checkpoints' \in [Server -> [Seqs -> CheckpointInfo]]
           /\ net' \subseteq Message
<1> DEFINE S == Executable(l, lastExecuted[i], currentSequence[i])
           h == [s \in Seqs |-> IF s \in S THEN l[s].m ELSE executed[i][s]]
           C == {s \in S : IsCheckpoint(s)}
           d == [s \in Seqs |-> DigestOf(UpTo(h, s))]
<1>0. MaxSeq \in Nat
  BY BoundAssumption
<1>1. S \subseteq Seqs /\ S \subseteq -1 .. MaxSeq
  BY <1>0 DEF Executable, TypeOK, Seqs
<1>2. h \in History
  BY DEF TypeOK, History, Entry
<1>3. d \in [Seqs -> CheckpointDigest]
  <2>1. ASSUME NEW s \in Seqs PROVE DigestOf(UpTo(h, s)) \in CheckpointDigest
    <3>1. UpTo(h, s) \in History
      BY <1>2 DEF UpTo, History, Digest
    <3> QED
      BY <3>1 DEF DigestOf, CheckpointDigest
  <2> QED
    BY <2>1
<1>4. S # {} => Max(S) \in -1 .. MaxSeq
  <2>1. MaxSeq \in Int /\ S \in SUBSET Int /\ \A x \in S : x <= MaxSeq
    BY <1>0, <1>1
  <2> HIDE DEF S, h, C, d
  <2>2. S # {} => Max(S) \in S
    BY ONLY <2>1, MaxOfBounded
  <2> QED
    BY <1>1, <2>2
<1>5. \A s \in S : [from |-> i, view |-> currentView[i], m |-> h[s], ack |-> Succeeds(h, s)] \in Reply
  <2> SUFFICES ASSUME NEW s \in S
               PROVE [from |-> i, view |-> currentView[i], m |-> h[s], ack |-> Succeeds(h, s)] \in Reply
    OBVIOUS
  <2>1. h[s] \in Digest
    BY <1>1, <1>2 DEF History
  <2>2. Succeeds(h, s) \in BOOLEAN
    BY DEF Succeeds
  <2>3. currentView[i] \in Views
    BY DEF TypeOK
  <2> HIDE DEF S, h
  <2> QED
    BY <2>1, <2>2, <2>3 DEF Reply
<1>6. UNION {CheckpointToAll(i, s, d[s]) : s \in C} \subseteq Message
  <2>1. ASSUME NEW s \in C PROVE CheckpointToAll(i, s, d[s]) \subseteq Message
    <3>1. s \in Seqs /\ d[s] \in CheckpointDigest
      BY <1>1, <1>3
    <3> HIDE DEF d
    <3> QED
      BY <3>1, CheckpointsAreMessages
  <2> HIDE DEF C, d
  <2> QED
    BY <2>1
<1>e. /\ log' = [log EXCEPT ![i] =
                      [s \in Seqs |-> IF s \in S THEN [l[s] EXCEPT !.status = "EXECUTED"] ELSE l[s]]]
      /\ executed' = [executed EXCEPT ![i] = h]
      /\ lastExecuted' = [lastExecuted EXCEPT ![i] = IF S = {} THEN @ ELSE Max(S)]
      /\ replies' = replies \cup
              {[from |-> i, view |-> currentView[i], m |-> h[s], ack |-> Succeeds(h, s)] : s \in S}
      /\ checkpoints' = [checkpoints EXCEPT ![i] =
              [s \in Seqs |-> IF s \in C
                              THEN [@[s] EXCEPT !.exists = TRUE, !.digest = d[s]]
                              ELSE @[s]]]
      /\ Exchange(in, out \cup UNION {CheckpointToAll(i, s, d[s]) : s \in C})
  BY DEF ExecutePending
<1> HIDE DEF S, h, C, d
<1>7. log' \in [Server -> [Seqs -> Entry]]
  <2>1. ASSUME NEW s \in Seqs
        PROVE  (IF s \in S THEN [l[s] EXCEPT !.status = "EXECUTED"] ELSE l[s]) \in Entry
    BY DEF Entry, Status
  <2>2. log \in [Server -> [Seqs -> Entry]]
    BY DEF TypeOK
  <2> QED
    BY <1>e, <2>1, <2>2
<1>8. executed' \in [Server -> History]
  BY <1>2, <1>e DEF TypeOK
<1>9. lastExecuted' \in [Server -> -1 .. MaxSeq]
  BY <1>4, <1>e DEF TypeOK
<1>10. replies' \subseteq Reply
  BY <1>5, <1>e DEF TypeOK
<1>11. checkpoints' \in [Server -> [Seqs -> CheckpointInfo]]
  <2>1. checkpoints \in [Server -> [Seqs -> CheckpointInfo]]
    BY DEF TypeOK
  <2>2. ASSUME NEW s \in Seqs
        PROVE  (IF s \in C THEN [checkpoints[i][s] EXCEPT !.exists = TRUE, !.digest = d[s]]
                ELSE checkpoints[i][s]) \in CheckpointInfo
    <3>1. checkpoints[i][s] \in CheckpointInfo /\ d[s] \in CheckpointDigest
      BY <1>3, <2>1
    <3> QED
      BY <3>1 DEF CheckpointInfo
  <2> QED
    BY <1>e, <2>1, <2>2
<1>12. net' \subseteq Message
  BY <1>6, <1>e DEF TypeOK, Exchange
<1> QED
  BY <1>7, <1>8, <1>9, <1>10, <1>11, <1>12

----------------------------------------------------------------------------
(* Ordering. *)

LEMMA EntryAt ==
    ASSUME TypeOK, NEW i \in Server, NEW s \in Seqs
    PROVE  /\ log[i][s] \in Entry
           /\ log[i][s].prePrepare \in Context
           /\ log[i][s].prepares \in Votes /\ log[i][s].commits \in Votes
           /\ log[i][s].prePrepare.view \in -1 .. MaxView
  BY DEF TypeOK, Entry, Context

LEMMA PresentInSeqs == \A i, s : Present(i, s) => s \in Seqs
  BY DEF Present

LEMMA ViewInBounds == \A v \in Views : v \in -1 .. MaxView /\ v \in Int
  BY DEF Views

LEMMA AnswerAgainType ==
    ASSUME TypeOK, NEW i \in Server, NEW r \in Req, NEW in, AnswerAgain(i, r, in)
    PROVE  TypeOK'
<1> DEFINE a == [from |-> i, view |-> currentView[i], m |-> r,
                 ack |-> Succeeds(executed[i], digestToEntry[i][r])]
<1>1. a \in Reply
  BY DEF Reply, TypeOK, Succeeds, Digest
<1>2. /\ replies' = replies \cup {a}
      /\ Exchange(in, {})
      /\ UNCHANGED <<viewVars, logVars, lastExecuted, executed, checkpoints, stableVars,
                     timerVars, crashed, proposed>>
  BY DEF AnswerAgain
<1> HIDE DEF a
<1> QED
  BY <1>1, <1>2 DEF TypeOK, Exchange, viewVars, logVars, stableVars, timerVars

LEMMA ForwardToLeaderType ==
    ASSUME TypeOK, NEW i \in Server, NEW r \in Req, NEW in, ForwardToLeader(i, r, in)
    PROVE  TypeOK'
<1>1. currentView[i] \in Views /\ Leader(currentView[i]) \in Server
  BY ServerFacts DEF TypeOK
<1>2. [type |-> "TRANSFER", from |-> i, to |-> Leader(currentView[i]), m |-> r] \in Message
  BY <1>1, TransferIsMessage
<1>3. DigestTimer(r, currentView[i] + 1) \in Timer
  <2>1. currentView[i] + 1 \in 2 .. MaxView + 1 /\ r \in Digest
    BY <1>1, BoundAssumption DEF Views, Digest
  <2> QED
    BY <2>1 DEF Timer
<1>4. net' \subseteq Message
  BY <1>2 DEF TypeOK, ForwardToLeader, Exchange
<1>5. timers' \in [Server -> SUBSET Timer] /\ awaitedDigests' \in [Server -> SUBSET Req]
  BY <1>3 DEF TypeOK, ForwardToLeader
<1> QED
  BY <1>4, <1>5 DEF TypeOK, ForwardToLeader, viewVars, logVars, execVars, stableVars

LEMMA ProposeAgainType ==
    ASSUME TypeOK, NEW i \in Server, NEW r \in Req, NEW in, Known(i, r), ProposeAgain(i, r, in)
    PROVE  TypeOK'
<1> DEFINE s == digestToEntry[i][r]
           data == [log[i][s].prePrepare EXCEPT !.view = currentView[i]]
           e == [log[i][s] EXCEPT !.prePrepare = data, !.from = i,
                                  !.prepares = NoVotes, !.commits = NoVotes]
<1>1. s \in Seqs
  BY BoundAssumption DEF Known, TypeOK, Seqs
<1>2. data \in Context
  <2>1. log[i][s].prePrepare \in Context
    BY <1>1, EntryAt
  <2>2. currentView[i] \in -1 .. MaxView
    BY ViewInBounds DEF TypeOK
  <2> HIDE DEF s
  <2> QED
    BY <2>1, <2>2 DEF Context
<1>3. e \in Entry
  BY <1>1, <1>2, EntryAt, ServerFacts DEF Entry
<1>4. PrePrepareToAll(i, data, r) \subseteq Message
  BY <1>2, PrePreparesAreMessages DEF Digest
<1>5. /\ log' = [log EXCEPT ![i][s] = e]
      /\ proposed' = proposed \cup {data}
      /\ Exchange(in, PrePrepareToAll(i, data, r))
      /\ UNCHANGED <<viewVars, currentSequence, digestToEntry, execVars, stableVars,
                     timerVars, crashed>>
  BY DEF ProposeAgain
<1> HIDE DEF s, data, e
<1>6. log' \in [Server -> [Seqs -> Entry]]
  BY <1>1, <1>3, <1>5 DEF TypeOK
<1>7. net' \subseteq Message /\ proposed' \subseteq Context
  BY <1>2, <1>4, <1>5 DEF TypeOK, Exchange
<1> QED
  BY <1>5, <1>6, <1>7 DEF TypeOK, viewVars, execVars, stableVars, timerVars

LEMMA ProposeNewType ==
    ASSUME TypeOK, NEW i \in Server, NEW r \in Req, NEW in, ProposeNew(i, r, in)
    PROVE  TypeOK'
<1> DEFINE s == NextSequence(i)
           data == [view |-> currentView[i], seq |-> s, digest |-> r]
           e == NewEntry(r, data, i, NoVotes)
<1>1. s \in Seqs /\ s \in -1 .. MaxSeq
  BY BoundAssumption DEF ProposeNew, Seqs
<1>2. data \in Context
  BY <1>1, ViewInBounds DEF Context, TypeOK, Digest
<1>3. e \in Entry
  BY <1>2, NewEntryType, ServerFacts DEF Digest
<1>4. PrePrepareToAll(i, data, r) \subseteq Message
  BY <1>2, PrePreparesAreMessages DEF Digest
<1>5. /\ currentSequence' = [currentSequence EXCEPT ![i] = s]
      /\ log' = [log EXCEPT ![i][s] = e]
      /\ digestToEntry' = [digestToEntry EXCEPT ![i][r] = s]
      /\ crashed' = [crashed EXCEPT ![i] = ~InWindow(i, s)]
      /\ proposed' = proposed \cup {data}
      /\ Exchange(in, PrePrepareToAll(i, data, r)) \/ Exchange(in, {})
      /\ UNCHANGED <<viewVars, execVars, stableVars, timerVars>>
  BY DEF ProposeNew
<1> HIDE DEF s, data, e
<1>6. net' \subseteq Message
  BY <1>4, <1>5 DEF TypeOK, Exchange
<1> QED
  BY <1>1, <1>2, <1>3, <1>5, <1>6 DEF TypeOK, viewVars, execVars, stableVars, timerVars

LEMMA ProcessTransferType ==
    ASSUME TypeOK, NEW i \in Server, NEW r \in Req, NEW in, ProcessTransfer(i, r, in)
    PROVE  TypeOK'
  BY IgnoreType, AnswerAgainType, ForwardToLeaderType, ProposeAgainType, ProposeNewType
     DEF ProcessTransfer

LEMMA ProcessPrePrepareType ==
    ASSUME TypeOK, NEW i \in Server, ProcessPrePrepare(i)
    PROVE  TypeOK'
<1>1. PICK m \in net :
         /\ Receive(i, m, "PRE_PREPARE")
         /\ \/ Ignore({m})
            \/ /\ AcceptsPrePrepare(i, m)
               /\ awaitedDigests' = [awaitedDigests EXCEPT ![i] = @ \ {m.m}]
               /\ currentSequence' = [currentSequence EXCEPT ![i] = Max({@, m.data.seq})]
               /\ \/ Exchange({m}, {}) /\ UNCHANGED <<log, digestToEntry, timers>>
                  \/ StorePrePrepare(i, m)
               /\ UNCHANGED <<viewVars, execVars, stableVars, crashed, proposed>>
  BY DEF ProcessPrePrepare
<1>2. m \in Message /\ m.from \in Server /\ m.data \in Context /\ m.m \in Digest
  BY <1>1, MessageForms DEF TypeOK, Receive
<1>3. CASE Ignore({m})
  BY <1>3, IgnoreType
<1>4. CASE AcceptsPrePrepare(i, m) /\ ~Ignore({m})
  <2> DEFINE s == m.data.seq
  <2>1. s \in Seqs /\ s \in -1 .. MaxSeq
    BY <1>2, <1>4, BoundAssumption DEF AcceptsPrePrepare, InWindow, TypeOK, Context, Seqs
  <2>2. /\ awaitedDigests' = [awaitedDigests EXCEPT ![i] = @ \ {m.m}]
        /\ currentSequence' = [currentSequence EXCEPT ![i] = Max({@, m.data.seq})]
        /\ \/ Exchange({m}, {}) /\ UNCHANGED <<log, digestToEntry, timers>>
           \/ StorePrePrepare(i, m)
        /\ UNCHANGED <<viewVars, execVars, stableVars, crashed, proposed>>
    BY <1>1, <1>4
  <2>3. currentSequence' \in [Server -> -1 .. MaxSeq]
    <3>1. currentSequence[i] \in Int /\ s \in Int
      BY <2>1, BoundAssumption DEF TypeOK
    <3>2. Max({currentSequence[i], s}) \in {currentSequence[i], s}
      BY <3>1, MaxOfTwo
    <3> QED
      BY <2>1, <2>2, <3>2 DEF TypeOK
  <2>4. awaitedDigests' \in [Server -> SUBSET Req]
    BY <2>2 DEF TypeOK
  <2>5. /\ log' \in [Server -> [Seqs -> Entry]]
        /\ digestToEntry' \in [Server -> [Req -> -1 .. MaxSeq]]
        /\ timers' \in [Server -> SUBSET Timer]
        /\ net' \subseteq Message
    <3>1. CASE StorePrePrepare(i, m)
      <4>1. NewEntry(m.m, m.data, m.from, AddVotes(NoVotes, {i}, m.data.view)) \in Entry
        BY <1>2, NewEntryType, VotesAdded, ServerFacts DEF Context
      <4>2. Ack(i, m.from, "PRE_PREPARE_OK", m.data) \in Message
        BY <1>2, AckIsMessage DEF AckType
      <4>3. SeqTimer(s, currentView[i] + 1) \in Timer
        <5>1. currentView[i] + 1 \in 2 .. MaxView + 1
          BY BoundAssumption DEF TypeOK, Views
        <5> QED
          BY <2>1, <5>1 DEF Timer
      <4>4. log' \in [Server -> [Seqs -> Entry]]
        BY <2>1, <3>1, <4>1 DEF StorePrePrepare, TypeOK
      <4>5. digestToEntry' \in [Server -> [Req -> -1 .. MaxSeq]]
        BY <2>1, <3>1 DEF StorePrePrepare, TypeOK
      <4>6. timers' \in [Server -> SUBSET Timer]
        BY <3>1, <4>3 DEF StorePrePrepare, TypeOK
      <4>7. net' \subseteq Message
        BY <3>1, <4>2 DEF StorePrePrepare, TypeOK, Exchange
      <4> QED
        BY <4>4, <4>5, <4>6, <4>7
    <3>2. CASE Exchange({m}, {}) /\ UNCHANGED <<log, digestToEntry, timers>>
      BY <3>2 DEF TypeOK, Exchange
    <3> QED
      BY <2>2, <3>1, <3>2
  <2> QED
    BY <2>2, <2>3, <2>4, <2>5 DEF TypeOK, viewVars, execVars, stableVars
<1> QED
  BY <1>1, <1>3, <1>4

LEMMA ProcessPrePrepareOkType ==
    ASSUME TypeOK, NEW i \in Server, ProcessPrePrepareOk(i)
    PROVE  TypeOK'
<1>1. PICK m \in net :
         /\ Receive(i, m, "PRE_PREPARE_OK")
         /\ \/ Ignore({m})
            \/ Crash(i, {m})
            \/ Present(i, m.data.seq) /\ CountPrePrepareOk(i, m)
  BY DEF ProcessPrePrepareOk
<1>2. m.from \in Server /\ m.data \in Context
  BY <1>1, MessageForms DEF TypeOK, Receive, AckType
<1>3. CASE Present(i, m.data.seq) /\ CountPrePrepareOk(i, m)
  <2> DEFINE s == m.data.seq
             e == [log[i][s] EXCEPT !.prepares = AddVotes(@, {m.from}, m.data.view)]
             quorum == i \notin Byzantine /\ e.status = "PRE_PREPARED" /\ PreparedQuorum(e.prepares)
  <2>1. s \in Seqs
    BY <1>3, PresentInSeqs
  <2>2. log[i][s] \in Entry
    BY <2>1, EntryAt
  <2>3. AddVotes(log[i][s].prepares, {m.from}, m.data.view) \in Votes
    BY <1>2, <2>2, VotesAdded DEF Entry, Context
  <2>4. e \in Entry
    BY <2>2, <2>3 DEF Entry
  <2>5. (IF quorum THEN [e EXCEPT !.status = "PREPARED"] ELSE e) \in Entry
    <3> HIDE DEF e, quorum
    <3> QED
      BY <2>4 DEF Entry, Status
  <2>6. OptimisticTimer(s) \in Timer
    BY <2>1 DEF Timer
  <2>7. /\ log' = [log EXCEPT ![i][s] = IF quorum THEN [e EXCEPT !.status = "PREPARED"] ELSE e]
        /\ timers' = [timers EXCEPT ![i] = IF quorum THEN @ \cup {OptimisticTimer(s)} ELSE @]
        /\ Exchange({m}, {})
        /\ UNCHANGED <<viewVars, currentSequence, digestToEntry, execVars, stableVars,
                       awaitedDigests, crashed, proposed>>
    BY <1>3 DEF CountPrePrepareOk
  <2> HIDE DEF s, e, quorum
  <2>8. log' \in [Server -> [Seqs -> Entry]]
    BY <2>1, <2>5, <2>7 DEF TypeOK
  <2>9. timers' \in [Server -> SUBSET Timer]
    BY <2>6, <2>7 DEF TypeOK
  <2> QED
    BY <2>7, <2>8, <2>9 DEF TypeOK, Exchange, viewVars, execVars, stableVars
<1> QED
  BY <1>1, <1>3, IgnoreType, CrashType

\* The frame of every handler that may run executePending: what it leaves alone.
LEMMA ExecuteFrameType ==
    ASSUME TypeOK, NEW i \in Server,
           log' \in [Server -> [Seqs -> Entry]],
           executed' \in [Server -> History],
           lastExecuted' \in [Server -> -1 .. MaxSeq],
           replies' \subseteq Reply,
           checkpoints' \in [Server -> [Seqs -> CheckpointInfo]],
           net' \subseteq Message,
           timers' \in [Server -> SUBSET Timer],
           crashed' \in [Server -> BOOLEAN],
           UNCHANGED <<viewVars, currentSequence, digestToEntry, stableVars, awaitedDigests, proposed>>
    PROVE  TypeOK'
  BY DEF TypeOK, viewVars, stableVars

LEMMA OptimisticTimeoutType ==
    ASSUME TypeOK, NEW i \in Server, OptimisticTimeout(i)
    PROVE  TypeOK'
<1>1. PICK s \in Seqs :
         /\ timers' = [timers EXCEPT ![i] = @ \ {OptimisticTimer(s)}]
         /\ \/ FastCommit(i, s) /\ UNCHANGED crashed
            \/ SlowPrepare(i, s) /\ UNCHANGED crashed
            \/ /\ crashed' = [crashed EXCEPT ![i] = state[i] = "NORMAL"]
               /\ UNCHANGED <<log, execVars, net>>
         /\ UNCHANGED <<viewVars, currentSequence, digestToEntry, stableVars,
                        awaitedDigests, proposed>>
  BY DEF OptimisticTimeout
<1>2. timers' \in [Server -> SUBSET Timer]
  BY <1>1 DEF TypeOK
<1>3. log[i][s] \in Entry /\ log[i][s].prePrepare \in Context
      /\ log[i][s].prePrepare.view \in -1 .. MaxView
  BY EntryAt
<1>4. CASE FastCommit(i, s) /\ UNCHANGED crashed
  <2> DEFINE e == [log[i][s] EXCEPT !.status = "COMMITTED",
                      !.commits = AddVotes(log[i][s].prepares, {i}, log[i][s].prePrepare.view)]
             out == ProofToAll(i, "COMMIT", e.prePrepare, Voters(e.prepares) \cup {i})
             l == [log[i] EXCEPT ![s] = e]
  <2>1. AddVotes(log[i][s].prepares, {i}, log[i][s].prePrepare.view) \in Votes
    BY <1>3, VotesAdded DEF Entry
  <2>2. e \in Entry /\ e.prePrepare \in Context
    BY <1>3, <2>1 DEF Entry, Status
  <2>3. ExecutePending(i, l, {}, out)
    BY <1>4 DEF FastCommit
  <2> HIDE DEF e
  <2>4. l \in [Seqs -> Entry]
    BY <2>2 DEF TypeOK
  <2>5. out \in SUBSET Message
    BY <2>2, VotersAreServers, ProofsAreMessages DEF ProofType
  <2> HIDE DEF l, out
  <2>6. crashed' \in [Server -> BOOLEAN]
    BY <1>4 DEF TypeOK
  <2> QED
    BY <1>1, <1>2, <2>3, <2>4, <2>5, <2>6, ExecutePendingType, ExecuteFrameType
<1>5. CASE SlowPrepare(i, s) /\ UNCHANGED crashed
  <2> DEFINE e == [log[i][s] EXCEPT !.commits = AddVotes(@, {i}, log[i][s].prePrepare.view)]
             out == ProofToAll(i, "PREPARE", log[i][s].prePrepare, Voters(log[i][s].prepares))
  <2>1. AddVotes(log[i][s].commits, {i}, log[i][s].prePrepare.view) \in Votes
    BY <1>3, VotesAdded DEF Entry
  <2>2. e \in Entry
    BY <1>3, <2>1 DEF Entry
  <2>3. out \subseteq Message
    BY <1>3, VotersAreServers, ProofsAreMessages DEF ProofType
  <2>4. log' = [log EXCEPT ![i][s] = e] /\ Exchange({}, out) /\ UNCHANGED execVars
    BY <1>5 DEF SlowPrepare, TypeOK
  <2> HIDE DEF e, out
  <2>5. log' \in [Server -> [Seqs -> Entry]] /\ net' \subseteq Message
    BY <2>2, <2>3, <2>4 DEF TypeOK, Exchange
  <2> QED
    BY <1>1, <1>2, <1>5, <2>4, <2>5 DEF TypeOK, viewVars, stableVars, execVars
<1>6. CASE /\ crashed' = [crashed EXCEPT ![i] = state[i] = "NORMAL"]
           /\ UNCHANGED <<log, execVars, net>>
  BY <1>1, <1>2, <1>6 DEF TypeOK, viewVars, stableVars, execVars
<1> QED
  BY <1>1, <1>4, <1>5, <1>6

LEMMA CertifiedType ==
    ASSUME NEW m \in Message, m.type \in ProofType, NEW e \in Entry, NEW votes \in Votes
    PROVE  Certified(m, e, votes) \in Votes
<1>1. m.sigs \in SUBSET Server /\ m.data.view \in -1 .. MaxView
  BY MessageForms DEF Context
<1> QED
  BY <1>1, VotesAdded DEF Certified

LEMMA ProcessPrepareType ==
    ASSUME TypeOK, NEW i \in Server, ProcessPrepare(i)
    PROVE  TypeOK'
<1> DEFINE e(m) == [log[i][m.data.seq] EXCEPT !.prepares = Certified(m, log[i][m.data.seq], @)]
           quorum(m) == PreparedQuorum(e(m).prepares)
           f(m) == IF quorum(m) THEN [e(m) EXCEPT !.status = "PREPARED"] ELSE e(m)
           out(m) == IF quorum(m) THEN {Ack(i, Leader(currentView[i]), "PREPARE_OK", m.data)} ELSE {}
<1>1. PICK m \in net :
         /\ Receive(i, m, "PREPARE")
         /\ \/ Ignore({m})
            \/ /\ AcceptsCertificate(i, m, {"PRE_PREPARED"})
               /\ log' = [log EXCEPT ![i][m.data.seq] = f(m)]
               /\ Exchange({m}, out(m))
               /\ UNCHANGED <<viewVars, currentSequence, digestToEntry, execVars, stableVars,
                              timerVars, crashed, proposed>>
  BY DEF ProcessPrepare
<1>2. m \in Message /\ m.data \in Context /\ m.type \in ProofType
  BY <1>1, MessageForms DEF TypeOK, Receive, ProofType
<1>3. CASE AcceptsCertificate(i, m, {"PRE_PREPARED"}) /\ ~Ignore({m})
  <2>1. m.data.seq \in Seqs
    BY <1>3, PresentInSeqs DEF AcceptsCertificate
  <2>2. log[i][m.data.seq] \in Entry
    BY <2>1, EntryAt
  <2>3. Certified(m, log[i][m.data.seq], log[i][m.data.seq].prepares) \in Votes
    BY <1>2, <2>2, CertifiedType DEF Entry
  <2>4. e(m) \in Entry
    BY <2>2, <2>3 DEF Entry
  <2>5. f(m) \in Entry
    <3> HIDE DEF e, quorum
    <3> QED
      BY <2>4 DEF Entry, Status
  <2>6. out(m) \subseteq Message
    <3>1. Leader(currentView[i]) \in Server
      BY ServerFacts DEF TypeOK
    <3>2. Ack(i, Leader(currentView[i]), "PREPARE_OK", m.data) \in Message
      BY <1>2, <3>1, AckIsMessage DEF AckType
    <3> HIDE DEF quorum
    <3> QED
      BY <3>2
  <2> HIDE DEF f, out
  <2>7. log' = [log EXCEPT ![i][m.data.seq] = f(m)] /\ net' = (net \ {m}) \cup out(m)
    BY <1>1, <1>3 DEF Exchange
  <2>8. log' \in [Server -> [Seqs -> Entry]]
    BY <2>1, <2>5, <2>7 DEF TypeOK
  <2>9. net' \subseteq Message
    BY <2>6, <2>7 DEF TypeOK
  <2> QED
    BY <1>1, <1>3, <2>8, <2>9 DEF TypeOK, viewVars, execVars, stableVars, timerVars
<1> QED
  BY <1>1, <1>3, IgnoreType

LEMMA ProcessCommitType ==
    ASSUME TypeOK, NEW i \in Server, ProcessCommit(i)
    PROVE  TypeOK'
<1> DEFINE e(m) == [log[i][m.data.seq] EXCEPT !.commits = Certified(m, log[i][m.data.seq], @)]
           l(m) == [log[i] EXCEPT ![m.data.seq] = [e(m) EXCEPT !.status = "COMMITTED"]]
<1>1. PICK m \in net :
         /\ Receive(i, m, "COMMIT")
         /\ \/ Ignore({m})
            \/ /\ AcceptsCertificate(i, m, {"PRE_PREPARED", "PREPARED"})
               /\ \/ /\ log' = [log EXCEPT ![i][m.data.seq] = e(m)]
                     /\ Exchange({m}, {}) /\ UNCHANGED execVars
                  \/ ExecutePending(i, l(m), {m}, {})
               /\ UNCHANGED <<viewVars, currentSequence, digestToEntry, stableVars,
                              timerVars, crashed, proposed>>
  BY DEF ProcessCommit
<1>2. m \in Message /\ m.type \in ProofType
  BY <1>1, MessageForms DEF TypeOK, Receive, ProofType
<1>3. CASE AcceptsCertificate(i, m, {"PRE_PREPARED", "PREPARED"}) /\ ~Ignore({m})
  <2>1. m.data.seq \in Seqs
    BY <1>3, PresentInSeqs DEF AcceptsCertificate
  <2>2. log[i][m.data.seq] \in Entry
    BY <2>1, EntryAt
  <2>3. Certified(m, log[i][m.data.seq], log[i][m.data.seq].commits) \in Votes
    BY <1>2, <2>2, CertifiedType DEF Entry
  <2>4. e(m) \in Entry
    BY <2>2, <2>3 DEF Entry
  <2> HIDE DEF e
  <2>5. l(m) \in [Seqs -> Entry]
    <3>1. [e(m) EXCEPT !.status = "COMMITTED"] \in Entry
      BY <2>4 DEF Entry, Status
    <3>2. log[i] \in [Seqs -> Entry]
      BY DEF TypeOK
    <3> QED
      BY <2>1, <3>1, <3>2
  <2> HIDE DEF l
  <2>6. CASE /\ log' = [log EXCEPT ![i][m.data.seq] = e(m)]
             /\ Exchange({m}, {}) /\ UNCHANGED execVars
    <3>1. log' \in [Server -> [Seqs -> Entry]] /\ net' \subseteq Message
      BY <2>1, <2>4, <2>6 DEF TypeOK, Exchange
    <3> QED
      BY <1>1, <1>3, <2>6, <3>1 DEF TypeOK, viewVars, execVars, stableVars, timerVars
  <2>7. CASE ExecutePending(i, l(m), {m}, {})
    <3>1. timers' \in [Server -> SUBSET Timer] /\ crashed' \in [Server -> BOOLEAN]
      BY <1>1, <1>3 DEF TypeOK, timerVars
    <3> QED
      BY <1>1, <1>3, <2>5, <2>7, <3>1, ExecutePendingType, ExecuteFrameType DEF timerVars
  <2> QED
    BY <1>1, <1>3, <2>6, <2>7
<1> QED
  BY <1>1, <1>3, IgnoreType

LEMMA ProcessPrepareOkType ==
    ASSUME TypeOK, NEW i \in Server, ProcessPrepareOk(i)
    PROVE  TypeOK'
<1>1. PICK m \in net :
         /\ Receive(i, m, "PREPARE_OK")
         /\ \/ Ignore({m})
            \/ Crash(i, {m})
            \/ Present(i, m.data.seq) /\ CountPrepareOk(i, m)
  BY DEF ProcessPrepareOk
<1>2. m.from \in Server /\ m.data \in Context
  BY <1>1, MessageForms DEF TypeOK, Receive, AckType
<1>3. CASE Present(i, m.data.seq) /\ CountPrepareOk(i, m)
  <2> DEFINE s == m.data.seq
             e == [log[i][s] EXCEPT !.commits = AddVotes(@, {m.from}, m.data.view)]
             l == [log[i] EXCEPT ![s] = [e EXCEPT !.status = "COMMITTED"]]
             out == ProofToAll(i, "COMMIT", e.prePrepare, Voters(e.commits))
  <2>1. s \in Seqs
    BY <1>3, PresentInSeqs
  <2>2. log[i][s] \in Entry /\ log[i][s].prePrepare \in Context
    BY <2>1, EntryAt
  <2>3. AddVotes(log[i][s].commits, {m.from}, m.data.view) \in Votes
    BY <1>2, <2>2, VotesAdded DEF Entry, Context
  <2>4. e \in Entry /\ e.prePrepare \in Context
    BY <2>2, <2>3 DEF Entry
  <2>5. /\ \/ log' = [log EXCEPT ![i][s] = e] /\ Exchange({m}, {}) /\ UNCHANGED execVars
           \/ ExecutePending(i, l, {m}, out)
        /\ UNCHANGED <<viewVars, currentSequence, digestToEntry, stableVars, timerVars,
                       crashed, proposed>>
    BY <1>3 DEF CountPrepareOk
  <2> HIDE DEF s, e
  <2>6. l \in [Seqs -> Entry]
    BY <2>1, <2>4 DEF TypeOK, Entry, Status
  <2>7. out \in SUBSET Message
    BY <2>4, VotersAreServers, ProofsAreMessages DEF ProofType
  <2> HIDE DEF l, out
  <2>8. timers' \in [Server -> SUBSET Timer] /\ crashed' \in [Server -> BOOLEAN]
    BY <2>5 DEF TypeOK, timerVars
  <2>9. CASE log' = [log EXCEPT ![i][s] = e] /\ Exchange({m}, {}) /\ UNCHANGED execVars
    <3>1. log' \in [Server -> [Seqs -> Entry]] /\ net' \subseteq Message
      BY <2>1, <2>4, <2>9 DEF TypeOK, Exchange
    <3> QED
      BY <2>5, <2>9, <3>1 DEF TypeOK, viewVars, execVars, stableVars, timerVars
  <2>10. CASE ExecutePending(i, l, {m}, out)
    BY <2>5, <2>6, <2>7, <2>8, <2>10, ExecutePendingType, ExecuteFrameType DEF timerVars
  <2> QED
    BY <2>5, <2>9, <2>10
<1> QED
  BY <1>1, <1>3, IgnoreType, CrashType

LEMMA OrderingType ==
    ASSUME TypeOK, NEW i \in Server, Ordering(i)
    PROVE  TypeOK'
<1>1. ASSUME ForwardedTransfer(i) PROVE TypeOK'
  <2>1. PICK m \in net : Receive(i, m, "TRANSFER") /\ ProcessTransfer(i, m.m, {m})
    BY <1>1 DEF ForwardedTransfer
  <2>2. m.m \in Req
    BY <2>1, MessageForms DEF TypeOK, Receive
  <2> QED
    BY <2>1, <2>2, ProcessTransferType
<1>2. ASSUME ClientTransfer(i) PROVE TypeOK'
  BY <1>2, ProcessTransferType DEF ClientTransfer
<1> QED
  BY <1>1, <1>2, ProcessPrePrepareType, ProcessPrePrepareOkType, OptimisticTimeoutType,
     ProcessPrepareType, ProcessPrepareOkType, ProcessCommitType DEF Ordering

----------------------------------------------------------------------------
(* Checkpoints. *)

LEMMA ProcessCheckpointType ==
    ASSUME TypeOK, NEW i \in Server, ProcessCheckpoint(i)
    PROVE  TypeOK'
<1> DEFINE proofs(m) == AddProof(checkpoints[i][m.seq].proofs, m.from, m.digest)
           kept(m) == [checkpoints[i][m.seq] EXCEPT !.exists = TRUE, !.proofs = proofs(m)]
<1>1. PICK m \in net :
         /\ Receive(i, m, "CHECKPOINT")
         /\ \/ Ignore({m})
            \/ /\ \/ Truncate(i, m.seq, proofs(m))
                  \/ /\ checkpoints' = [checkpoints EXCEPT ![i][m.seq] = kept(m)]
                     /\ UNCHANGED <<stable, lowWatermark, digestToEntry, crashed>>
               /\ Exchange({m}, {})
               /\ UNCHANGED <<viewVars, currentSequence, log, lastExecuted, executed, replies,
                              timerVars, proposed>>
  <2> HIDE DEF proofs
  <2> QED
    BY DEF ProcessCheckpoint, proofs
<1>2. m.from \in Server /\ m.seq \in Seqs /\ m.digest \in CheckpointDigest
  BY <1>1, MessageForms DEF TypeOK, Receive
<1>3. checkpoints[i][m.seq] \in CheckpointInfo
  BY <1>2 DEF TypeOK
<1>4. proofs(m) \in SUBSET CheckpointProof
  BY <1>2, <1>3 DEF AddProof, CheckpointProof, CheckpointInfo
<1>5. ASSUME Truncate(i, m.seq, proofs(m))
      PROVE  /\ stable' \in [Server -> StableCheckpoint]
             /\ checkpoints' \in [Server -> [Seqs -> CheckpointInfo]]
             /\ lowWatermark' \in [Server -> 0 .. MaxSeq + 1]
             /\ digestToEntry' \in [Server -> [Req -> -1 .. MaxSeq]]
             /\ crashed' \in [Server -> BOOLEAN]
  <2> DEFINE c == [seq |-> m.seq, digest |-> checkpoints[i][m.seq].digest, proofs |-> proofs(m)]
             dropped == {t \in Seqs : lowWatermark[i] <= t /\ t <= m.seq}
             digests == {log[i][t].prePrepare.digest : t \in dropped}
             left == [r \in Req |-> IF r \in digests THEN -1 ELSE digestToEntry[i][r]]
  <2>1. c \in StableCheckpoint
    <3>1. m.seq \in -1 .. MaxSeq
      BY <1>2, BoundAssumption DEF Seqs
    <3> HIDE DEF proofs
    <3> QED
      BY <1>3, <1>4, <3>1 DEF StableCheckpoint, CheckpointInfo
  <2>2. FirstKept(m.seq) \in 0 .. MaxSeq + 1
    BY <1>2, BoundAssumption DEF FirstKept, Seqs
  <2>3. left \in [Req -> -1 .. MaxSeq]
    <3> HIDE DEF digests
    <3> QED
      BY BoundAssumption DEF TypeOK
  <2>4. /\ stable' = [stable EXCEPT ![i] = c]
        /\ checkpoints' = [checkpoints EXCEPT ![i][m.seq] = NoCheckpoint]
        /\ lowWatermark' = [lowWatermark EXCEPT ![i] = FirstKept(m.seq)]
        /\ digestToEntry' = [digestToEntry EXCEPT ![i] = left]
        /\ crashed' = [crashed EXCEPT ![i] = \E t \in dropped : log[i][t].status = "NIL"]
    BY <1>5 DEF Truncate, TypeOK
  <2> HIDE DEF c, dropped, left
  <2> QED
    BY <1>2, <2>1, <2>2, <2>3, <2>4, ServerFacts DEF TypeOK
<1>6. ASSUME /\ checkpoints' = [checkpoints EXCEPT ![i][m.seq] = kept(m)]
             /\ UNCHANGED <<stable, lowWatermark, digestToEntry, crashed>>
      PROVE  /\ stable' \in [Server -> StableCheckpoint]
             /\ checkpoints' \in [Server -> [Seqs -> CheckpointInfo]]
             /\ lowWatermark' \in [Server -> 0 .. MaxSeq + 1]
             /\ digestToEntry' \in [Server -> [Req -> -1 .. MaxSeq]]
             /\ crashed' \in [Server -> BOOLEAN]
  <2>1. kept(m) \in CheckpointInfo
    <3> HIDE DEF proofs
    <3> QED
      BY <1>3, <1>4 DEF CheckpointInfo
  <2> HIDE DEF kept
  <2> QED
    BY <1>2, <1>6, <2>1 DEF TypeOK
<1> HIDE DEF proofs, kept
<1> QED
  BY <1>1, <1>5, <1>6, IgnoreType DEF TypeOK, Exchange, viewVars, timerVars

----------------------------------------------------------------------------
(* View changes. *)

LEMMA ComposeViewChangeType ==
    ASSUME TypeOK, NEW i \in Server, NEW v \in Views
    PROVE  ComposeViewChange(i, v) \in ViewChange
<1>1. PreparedProofs(i) \subseteq PrepareProof
  BY EntryAt, VotersAreServers DEF PreparedProofs, PrepareProof
<1>2. stable[i] \in StableCheckpoint
  BY DEF TypeOK
<1> QED
  BY <1>1, <1>2 DEF ComposeViewChange, ViewChange

\* computeBigO picks its pre-prepares from the proofs it was given: what a new view
\* proposes was proved in one of the requests.
LEMMA BigOIsProved ==
    ASSUME NEW vcs \in SUBSET ViewChange, NEW o \in ComputeBigO(vcs), o # Nop
    PROVE  \E vc \in vcs : \E p \in vc.pproofs : o = p.prePrepare
<1> DEFINE maxStable == Max({0} \cup {vc.checkpoint.seq : vc \in vcs})
           later == {p \in UNION {vc.pproofs : vc \in vcs} : p.prePrepare.seq > maxStable}
           maxSeq == Max({0} \cup {p.prePrepare.seq : p \in later})
           certified(s) == {p.prePrepare : p \in {q \in later : q.prePrepare.seq = s /\ Certifies(q)}}
           newest(s) == CHOOSE c \in certified(s) : \A d \in certified(s) : d.view <= c.view
           chosen(s) == IF certified(s) = {} THEN Nop ELSE newest(s)
<1>1. ComputeBigO(vcs) = {chosen(s) : s \in (maxStable + 1) .. (maxSeq - 1)}
  BY DEF ComputeBigO
<1>2. ASSUME NEW s PROVE certified(s) \subseteq Context
  <2>1. \A vc \in vcs : vc.pproofs \subseteq PrepareProof
    BY DEF ViewChange
  <2>2. later \subseteq PrepareProof
    <3> HIDE DEF maxStable
    <3> QED
      BY <2>1
  <2>3. \A p \in PrepareProof : p.prePrepare \in Context
    BY DEF PrepareProof
  <2> HIDE DEF later
  <2> QED
    BY <2>2, <2>3
<1>3. \A s : \A d \in certified(s) : \E vc \in vcs : \E p \in vc.pproofs : d = p.prePrepare
  OBVIOUS
<1> HIDE DEF maxStable, later, maxSeq, certified
<1>4. ASSUME NEW s, certified(s) # {} PROVE newest(s) \in certified(s)
  <2> DEFINE V == {x.view : x \in certified(s)}
  <2>1. V \in SUBSET Int /\ V # {} /\ \A x \in V : x <= MaxView
    <3>1. \A c \in Context : c.view \in Int /\ c.view <= MaxView
      BY BoundAssumption DEF Context
    <3>2. \A c \in certified(s) : c.view \in Int /\ c.view <= MaxView
      BY <1>2, <3>1
    <3>3. V # {}
      BY <1>4
    <3>4. ASSUME NEW x \in V PROVE x \in Int /\ x <= MaxView
      <4>1. PICK c \in certified(s) : x = c.view
        OBVIOUS
      <4> QED
        BY <3>2, <4>1
    <3> HIDE DEF V
    <3> QED
      BY <3>3, <3>4
  <2>2. \E x \in V : \A y \in V : y <= x
    <3> HIDE DEF V
    <3>1. MaxView \in Int
      BY BoundAssumption
    <3> QED
      BY <2>1, <3>1, GreatestExists
  <2>3. PICK c \in certified(s) : \A y \in V : y <= c.view
    BY <2>2
  <2>4. \A d \in certified(s) : d.view <= c.view
    BY <2>3
  <2> QED
    BY <2>4
<1>5. PICK s : o = chosen(s)
  BY <1>1
<1>6. certified(s) # {} /\ o = newest(s)
  BY <1>5
<1>7. o \in certified(s)
  BY <1>4, <1>6
<1> QED
  BY <1>3, <1>7

LEMMA BigOType ==
    ASSUME NEW vcs \in SUBSET ViewChange
    PROVE  ComputeBigO(vcs) \subseteq Context
<1> SUFFICES ASSUME NEW c \in ComputeBigO(vcs), c # Nop PROVE c \in Context
  BY ServerFacts
<1>1. PICK vc \in vcs : \E p \in vc.pproofs : c = p.prePrepare
  BY BigOIsProved
<1> QED
  BY <1>1 DEF ViewChange, PrepareProof

LEMMA TriggerViewChangeType ==
    ASSUME TypeOK, NEW i \in Server, NEW v \in Views, NEW in, TriggerViewChange(i, v, in)
    PROVE  /\ currentView' \in [Server -> Views]
           /\ state' \in [Server -> {"NORMAL", "VIEW_CHANGE"}]
           /\ lastProposedView' \in [Server -> Views]
           /\ net' \subseteq Message
<1>1. ViewChangeToAll(i, ComposeViewChange(i, v)) \subseteq Message
  BY ComposeViewChangeType, ViewChangesAreMessages
<1> QED
  BY <1>1 DEF TypeOK, TriggerViewChange, Exchange

LEMMA ExpireType ==
    ASSUME TypeOK, NEW i \in Server, NEW t, NEW stop, NEW next \in Timer,
           Expire(i, t, stop, next)
    PROVE  TypeOK'
<1>1. CASE timers' = [timers EXCEPT ![i] = @ \ {t}] /\ UNCHANGED <<viewVars, net>>
  BY <1>1 DEF Expire, TypeOK, viewVars, logVars, execVars, stableVars
<1>2. CASE /\ TriggerViewChange(i, t.newView, {})
           /\ timers' = [timers EXCEPT ![i] = (@ \ {t}) \cup {next}]
           /\ UNCHANGED viewChangeMessages
  <2>1. t.newView \in Views
    BY DEF Expire
  <2>2. timers' \in [Server -> SUBSET Timer]
    BY <1>2 DEF TypeOK
  <2>3. /\ currentView' \in [Server -> Views]
        /\ state' \in [Server -> {"NORMAL", "VIEW_CHANGE"}]
        /\ lastProposedView' \in [Server -> Views]
        /\ net' \subseteq Message
    BY <1>2, <2>1, TriggerViewChangeType
  <2> QED
    BY <1>2, <2>2, <2>3 DEF Expire, TypeOK, logVars, execVars, stableVars
<1> QED
  BY <1>1, <1>2 DEF Expire

\* The timer a thread leaves behind is for the view after the one it proposed.
LEMMA NextTimers ==
    ASSUME NEW v \in Views
    PROVE  /\ \A r \in Req : DigestTimer(r, v + 1) \in Timer
           /\ \A s \in Seqs : SeqTimer(s, v + 1) \in Timer
           /\ ViewTimer(v + 1) \in Timer
<1>1. v + 1 \in 2 .. MaxView + 1
  BY BoundAssumption DEF Views
<1>2. Req \subseteq Digest
  BY DEF Digest
<1> QED
  BY <1>1, <1>2 DEF Timer

LEMMA ViewTimeoutType ==
    ASSUME TypeOK, NEW i \in Server, ViewTimeout(i)
    PROVE  TypeOK'
<1>1. PICK v \in Views :
         /\ \/ timers' = [timers EXCEPT ![i] = @ \ {ViewTimer(v)}] /\ UNCHANGED lastProposedView
            \/ /\ timers' = [timers EXCEPT ![i] = (@ \ {ViewTimer(v)}) \cup {ViewTimer(v + 1)}]
               /\ lastProposedView' = [lastProposedView EXCEPT ![i] = v]
         /\ UNCHANGED <<currentView, state, viewChangeMessages, logVars, execVars, stableVars,
                        awaitedDigests, crashed, net, proposed>>
  BY DEF ViewTimeout
<1>2. timers' \in [Server -> SUBSET Timer]
  <2> DEFINE next == ViewTimer(v + 1)
             old == ViewTimer(v)
  <2>1. next \in Timer
    BY NextTimers
  <2>2. \/ timers' = [timers EXCEPT ![i] = @ \ {old}]
        \/ timers' = [timers EXCEPT ![i] = (@ \ {old}) \cup {next}]
    BY <1>1
  <2>3. timers[i] \subseteq Timer /\ timers \in [Server -> SUBSET Timer]
    BY DEF TypeOK
  <2> HIDE DEF next, old
  <2>4. CASE timers' = [timers EXCEPT ![i] = @ \ {old}]
    BY <2>3, <2>4
  <2>5. CASE timers' = [timers EXCEPT ![i] = (@ \ {old}) \cup {next}]
    BY <2>1, <2>3, <2>5
  <2> QED
    BY <2>2, <2>4, <2>5
<1>3. lastProposedView' \in [Server -> Views]
  BY <1>1, ZenonT(60) DEF TypeOK
<1> QED
  BY <1>1, <1>2, <1>3 DEF TypeOK, logVars, execVars, stableVars

LEMMA ProcessViewChangeType ==
    ASSUME TypeOK, NEW i \in Server, ProcessViewChange(i)
    PROVE  TypeOK'
<1> DEFINE msgs(m) == Remember(i, m.request)
<1>1. PICK m \in net :
         /\ Receive(i, m, "VIEW_CHANGE")
         /\ \/ Ignore({m})
            \/ /\ m.request.view > currentView[i]
               /\ \/ JoinViewChange(i, m.request.view, msgs(m), {m})
                  \/ StartView(i, m.request.view, msgs(m), {m})
                  \/ /\ viewChangeMessages' = [viewChangeMessages EXCEPT ![i] = msgs(m)]
                     /\ Exchange({m}, {})
                     /\ UNCHANGED <<currentView, state, lastProposedView, timers>>
               /\ UNCHANGED <<logVars, execVars, stableVars, awaitedDigests, crashed, proposed>>
  BY DEF ProcessViewChange
<1>2. m.request \in ViewChange
  BY <1>1, MessageForms DEF TypeOK, Receive
<1>3. m.request.view \in Views
  BY <1>2 DEF ViewChange
<1>4. msgs(m) \in SUBSET ViewChange
  BY <1>2 DEF Remember, TypeOK
<1> DEFINE Frame == UNCHANGED <<logVars, execVars, stableVars, awaitedDigests, crashed, proposed>>
<1> HIDE DEF msgs
<1>5. CASE Frame /\ m.request.view > currentView[i] /\ JoinViewChange(i, m.request.view, msgs(m), {m})
  <2>1. m.request.view \in 2 .. MaxView + 1
    BY <1>3, <1>5, BoundAssumption DEF TypeOK, Views
  <2>2. ViewTimer(m.request.view) \in Timer
    BY <2>1 DEF Timer
  <2>3. /\ timers' \in [Server -> SUBSET Timer]
        /\ viewChangeMessages' \in [Server -> SUBSET ViewChange]
    BY <1>4, <1>5, <2>2 DEF JoinViewChange, TypeOK
  <2>4. /\ currentView' \in [Server -> Views]
        /\ state' \in [Server -> {"NORMAL", "VIEW_CHANGE"}]
        /\ lastProposedView' \in [Server -> Views]
        /\ net' \subseteq Message
    BY <1>3, <1>5, TriggerViewChangeType DEF JoinViewChange
  <2> QED
    BY <1>5, <2>3, <2>4 DEF TypeOK, logVars, execVars, stableVars
<1>6. CASE Frame /\ StartView(i, m.request.view, msgs(m), {m})
  <2> DEFINE v == m.request.view
             own == ComposeViewChange(i, v)
             vcs == {w \in msgs(m) : w.view = v /\ w.from # i} \cup {own}
  <2>1. own \in ViewChange
    BY <1>3, ComposeViewChangeType
  <2>2. vcs \in SUBSET ViewChange
    BY <1>4, <2>1
  <2>3. NewViewToAll(i, v, vcs, ComputeBigO(vcs)) \subseteq Message
    BY <1>3, <2>2, BigOType, NewViewsAreMessages
  <2>4. /\ viewChangeMessages' = [viewChangeMessages EXCEPT ![i] = msgs(m) \cup {own}]
        /\ state' = [state EXCEPT ![i] = "NORMAL"]
        /\ currentView' = [currentView EXCEPT ![i] = v]
        /\ Exchange({m}, NewViewToAll(i, v, vcs, ComputeBigO(vcs)))
        /\ UNCHANGED <<lastProposedView, timers>>
    BY <1>6 DEF StartView
  <2> HIDE DEF own, vcs
  <2>5. /\ viewChangeMessages' \in [Server -> SUBSET ViewChange]
        /\ state' \in [Server -> {"NORMAL", "VIEW_CHANGE"}]
        /\ currentView' \in [Server -> Views]
    BY <1>3, <1>4, <2>1, <2>4 DEF TypeOK
  <2>6. net' \subseteq Message
    BY <2>3, <2>4 DEF TypeOK, Exchange
  <2> QED
    BY <1>6, <2>4, <2>5, <2>6 DEF TypeOK, logVars, execVars, stableVars
<1>7. CASE /\ Frame
           /\ viewChangeMessages' = [viewChangeMessages EXCEPT ![i] = msgs(m)]
           /\ Exchange({m}, {})
           /\ UNCHANGED <<currentView, state, lastProposedView, timers>>
  BY <1>4, <1>7 DEF TypeOK, Exchange, logVars, execVars, stableVars
<1> QED
  BY <1>1, <1>5, <1>6, <1>7, IgnoreType

LEMMA ProcessNewViewType ==
    ASSUME TypeOK, NEW i \in Server, ProcessNewView(i)
    PROVE  TypeOK'
<1>1. PICK m \in net :
         /\ Receive(i, m, "NEW_VIEW")
         /\ \/ Ignore({m})
            \/ /\ state' = [state EXCEPT ![i] = "NORMAL"]
               /\ currentView' = [currentView EXCEPT ![i] = m.view]
               /\ viewChangeMessages' = [viewChangeMessages EXCEPT ![i] =
                                            {w \in @ : w.view # m.view} \cup m.vproofs]
               /\ Exchange({m}, {Ack(i, Leader(m.view), "PRE_PREPARE_OK", c) : c \in m.prePrepares})
               /\ UNCHANGED <<lastProposedView, logVars, execVars, stableVars, timerVars,
                              crashed, proposed>>
  BY DEF ProcessNewView
<1>2. m.view \in Views /\ m.vproofs \subseteq ViewChange /\ m.prePrepares \subseteq Context
  BY <1>1, MessageForms DEF TypeOK, Receive
<1>3. {Ack(i, Leader(m.view), "PRE_PREPARE_OK", c) : c \in m.prePrepares} \subseteq Message
  BY <1>2, AckIsMessage, ServerFacts DEF AckType
<1>4. CASE ~Ignore({m})
  <2>1. /\ state' \in [Server -> {"NORMAL", "VIEW_CHANGE"}]
        /\ currentView' \in [Server -> Views]
    BY <1>1, <1>2, <1>4 DEF TypeOK
  <2>3. viewChangeMessages' \in [Server -> SUBSET ViewChange]
    <3>1. {w \in viewChangeMessages[i] : w.view # m.view} \cup m.vproofs \in SUBSET ViewChange
      BY <1>2 DEF TypeOK
    <3> QED
      BY <1>1, <1>4, <3>1, ZenonT(60) DEF TypeOK
  <2>2. net' \subseteq Message
    BY <1>1, <1>3, <1>4 DEF TypeOK, Exchange
  <2> QED
    BY <1>1, <1>4, <2>1, <2>2, <2>3 DEF TypeOK, logVars, execVars, stableVars, timerVars
<1> QED
  BY <1>1, <1>4, IgnoreType

LEMMA ViewChangingType ==
    ASSUME TypeOK, NEW i \in Server, ViewChanging(i)
    PROVE  TypeOK'
<1>1. ASSUME DigestTimeout(i) PROVE TypeOK'
  BY <1>1, ExpireType, NextTimers DEF DigestTimeout
<1>2. ASSUME SeqTimeout(i) PROVE TypeOK'
  BY <1>2, ExpireType, NextTimers DEF SeqTimeout
<1> QED
  BY <1>1, <1>2, ViewTimeoutType, ProcessViewChangeType, ProcessNewViewType DEF ViewChanging

----------------------------------------------------------------------------
LEMMA NextType == TypeOK /\ [Next]_vars => TypeOK'
<1>1. ASSUME TypeOK, NEW i \in Server, Step(i) PROVE TypeOK'
  BY <1>1, OrderingType, ProcessCheckpointType, ViewChangingType DEF Step, Checkpointing
<1>2. ASSUME TypeOK, UNCHANGED vars PROVE TypeOK'
  BY <1>2 DEF TypeOK, vars, viewVars, logVars, execVars, stableVars, timerVars
<1> QED
  BY <1>1, <1>2 DEF Next

\* Every reachable state is well-typed, whatever the number of faults, the window and
\* the bounds: no handler stores a number outside the log, a view beyond those proposed,
\* or sends a message with a field of the wrong kind.
THEOREM TypeCorrect == Spec => []TypeOK
<1> QED
  BY InitType, NextType, PTL DEF Spec

----------------------------------------------------------------------------
(* Agreement: the steps that assign nothing.                                 *)

\* f is the entry e with other votes or another status.
SameAssignment(e, f) ==
    /\ f.prePrepare = e.prePrepare /\ f.m = e.m
    /\ f.from = e.from
    /\ f.status = "NIL" <=> e.status = "NIL"

\* Steps that assign nothing: entries keep their assignments, views only go up,
\* digests are at most dropped and no pre-prepare is sent.
Quiet ==
    /\ \A i \in Server, s \in Seqs : SameAssignment(log[i][s], log'[i][s])
    /\ \A i \in Server : currentView'[i] >= currentView[i]
    /\ \A i \in Server, r \in Req : digestToEntry'[i][r] \in {-1, digestToEntry[i][r]}
    /\ UNCHANGED <<currentSequence, proposed>>
    /\ \A m \in net' : m.type = "PRE_PREPARE" => m \in net

LEMMA LeaderIsServer == \A v \in Int : Leader(v) \in Server
  BY FAssumption DEF Leader, Server

\* What TypeOK says of the numbers the argument compares.
LEMMA NumberFacts ==
    ASSUME TypeOK
    PROVE  /\ \A p \in proposed : p \in Context /\ p.view \in Int /\ Leader(p.view) \in Server
           /\ \A i \in Server : currentView[i] \in Int /\ currentSequence[i] \in Int
           /\ \A s \in Seqs : s \in Int /\ s # -1
           /\ \A i \in Server, r \in Req : Known(i, r) => digestToEntry[i][r] \in Seqs
<1>1. ASSUME NEW p \in proposed PROVE p \in Context /\ p.view \in Int
  BY DEF TypeOK, Context
<1>2. \A i \in Server : currentView[i] \in Int /\ currentSequence[i] \in Int
  BY DEF TypeOK, Views
<1>3. \A i \in Server, r \in Req : Known(i, r) => digestToEntry[i][r] \in Seqs
  BY BoundAssumption DEF TypeOK, Known, Seqs
<1> QED
  BY <1>1, <1>2, <1>3, LeaderIsServer DEF Seqs

LEMMA QuietKeeps ==
    ASSUME TypeOK, TypeOK', AssignmentInv, Quiet
    PROVE  AssignmentInv'
<1>1. UniqueAssignments'
  BY DEF Quiet, AssignmentInv, UniqueAssignments
<1>2. EntriesAreProposed'
  BY DEF Quiet, AssignmentInv, EntriesAreProposed, SameAssignment
<1>3. PrePreparesAreProposed'
  BY DEF Quiet, AssignmentInv, PrePreparesAreProposed
<1>4. LeadersKeepAssignments'
  <2> SUFFICES ASSUME NEW p \in proposed
               PROVE  /\ p.seq \in Seqs
                      /\ currentView'[Leader(p.view)] >= p.view
                      /\ currentView'[Leader(p.view)] = p.view =>
                            /\ log'[Leader(p.view)][p.seq].status # "NIL"
                            /\ log'[Leader(p.view)][p.seq].prePrepare = p
                            /\ log'[Leader(p.view)][p.seq].from = Leader(p.view)
    BY DEF LeadersKeepAssignments, Quiet
  <2> DEFINE l == Leader(p.view)
  <2>1. l \in Server /\ p.view \in Int /\ currentView[l] \in Int
    BY NumberFacts
  <2>2. /\ p.seq \in Seqs
        /\ currentView[l] >= p.view
        /\ currentView[l] = p.view =>
              /\ log[l][p.seq].status # "NIL"
              /\ log[l][p.seq].prePrepare = p
              /\ log[l][p.seq].from = l
    BY DEF AssignmentInv, LeadersKeepAssignments
  <2>3. currentView'[l] >= currentView[l] /\ SameAssignment(log[l][p.seq], log'[l][p.seq])
    BY <2>1, <2>2 DEF Quiet
  <2>0. currentView'[l] \in Int
    BY <2>1 DEF TypeOK, Views
  <2>4. currentView'[l] = p.view => currentView[l] = p.view
    BY <2>1, <2>2, <2>3
  <2>5. currentView'[l] >= p.view
    BY <2>0, <2>1, <2>2, <2>3
  <2> QED
    BY <2>2, <2>3, <2>4, <2>5 DEF SameAssignment
<1>5. DigestsHaveEntries'
  <2> SUFFICES ASSUME NEW i \in Server, NEW r \in Req, digestToEntry'[i][r] # -1
               PROVE  log'[i][digestToEntry'[i][r]].status # "NIL"
    BY DEF DigestsHaveEntries, Known
  <2>1. digestToEntry'[i][r] = digestToEntry[i][r]
    BY DEF Quiet
  <2>2. Known(i, r) /\ digestToEntry[i][r] \in Seqs
    BY <2>1, NumberFacts DEF Known
  <2> QED
    BY <2>1, <2>2 DEF AssignmentInv, DigestsHaveEntries, Quiet, SameAssignment
<1> QED
  BY <1>1, <1>2, <1>3, <1>4, <1>5 DEF AssignmentInv

----------------------------------------------------------------------------
(* Which handlers are quiet. *)

LEMMA SendsNoPrePrepare ==
    ASSUME NEW i, NEW data, NEW sigs, NEW s, NEW d, NEW vc, NEW v, NEW vcs, NEW os, NEW j
    PROVE  /\ \A t \in ProofType : \A m \in ProofToAll(i, t, data, sigs) : m.type # "PRE_PREPARE"
           /\ \A m \in CheckpointToAll(i, s, d) : m.type # "PRE_PREPARE"
           /\ \A m \in ViewChangeToAll(i, vc) : m.type # "PRE_PREPARE"
           /\ \A m \in NewViewToAll(i, v, vcs, os) : m.type # "PRE_PREPARE"
           /\ \A t \in AckType : Ack(i, j, t, data).type # "PRE_PREPARE"
  BY DEF ProofToAll, CheckpointToAll, ViewChangeToAll, NewViewToAll, ToOthers, ProofType, AckType, Ack

\* The handlers that leave views, digests and numbers alone and change one entry.
LEMMA QuietEntry ==
    ASSUME TypeOK, NEW i \in Server, NEW s \in Seqs, NEW e,
           log' = [log EXCEPT ![i][s] = e], SameAssignment(log[i][s], e),
           UNCHANGED <<currentView, currentSequence, digestToEntry, proposed>>,
           \A m \in net' : m.type = "PRE_PREPARE" => m \in net
    PROVE  Quiet
<1>1. \A j \in Server, t \in Seqs : SameAssignment(log[j][t], log'[j][t])
  BY DEF TypeOK, SameAssignment
<1> QED
  BY <1>1, NumberFacts DEF Quiet

LEMMA QuietIfUnchanged ==
    ASSUME TypeOK, UNCHANGED <<log, currentView, currentSequence, digestToEntry, proposed>>,
           \A m \in net' : m.type = "PRE_PREPARE" => m \in net
    PROVE  Quiet
  BY NumberFacts DEF Quiet, SameAssignment

LEMMA QuietExecution ==
    ASSUME TypeOK, NEW i \in Server, NEW l \in [Seqs -> Entry], NEW in, NEW out,
           ExecutePending(i, l, in, out),
           \A s \in Seqs : SameAssignment(log[i][s], l[s]),
           \A m \in out : m.type # "PRE_PREPARE",
           UNCHANGED <<currentView, currentSequence, digestToEntry, proposed>>
    PROVE  Quiet
<1> DEFINE S == Executable(l, lastExecuted[i], currentSequence[i])
           f == [s \in Seqs |-> IF s \in S THEN [l[s] EXCEPT !.status = "EXECUTED"] ELSE l[s]]
<1>1. log' = [log EXCEPT ![i] = f]
  BY DEF ExecutePending
<1>2. \A s \in S : l[s].status = "COMMITTED"
  BY DEF Executable
<1> HIDE DEF S
<1>3. ASSUME NEW s \in Seqs PROVE SameAssignment(log[i][s], f[s])
  <2>1. l[s] \in Entry /\ SameAssignment(log[i][s], l[s])
    OBVIOUS
  <2>2. CASE s \in S
    BY <1>2, <2>1, <2>2 DEF SameAssignment, Entry
  <2> QED
    BY <2>1, <2>2
<1> HIDE DEF f
<1>4. \A j \in Server, t \in Seqs : SameAssignment(log[j][t], log'[j][t])
  BY <1>1, <1>3 DEF TypeOK, SameAssignment
<1>5. \A m \in net' : m.type = "PRE_PREPARE" => m \in net
  <2> DEFINE h == [s \in Seqs |-> IF s \in S THEN l[s].m ELSE executed[i][s]]
             C == {s \in S : IsCheckpoint(s)}
             d == [s \in Seqs |-> DigestOf(UpTo(h, s))]
             sent == UNION {CheckpointToAll(i, s, d[s]) : s \in C}
  <2>1. net' = (net \ in) \cup (out \cup sent)
    BY DEF ExecutePending, Exchange, S
  <2>2. \A m \in sent : m.type # "PRE_PREPARE"
    <3> HIDE DEF C, d
    <3> QED
      BY SendsNoPrePrepare
  <2> HIDE DEF sent
  <2> QED
    BY <2>1, <2>2
<1> QED
  BY <1>4, <1>5, NumberFacts DEF Quiet

LEMMA QuietIgnore ==
    ASSUME TypeOK, NEW in, Ignore(in)
    PROVE  Quiet
  BY QuietIfUnchanged DEF Ignore, Exchange, viewVars, logVars

LEMMA QuietCrash ==
    ASSUME TypeOK, NEW i, NEW in, Crash(i, in)
    PROVE  Quiet
  BY QuietIfUnchanged DEF Crash, Exchange, viewVars, logVars

LEMMA QuietPrePrepareOk ==
    ASSUME TypeOK, NEW i \in Server, ProcessPrePrepareOk(i)
    PROVE  Quiet
<1>1. PICK m \in net :
         \/ Ignore({m})
         \/ Crash(i, {m})
         \/ Present(i, m.data.seq) /\ CountPrePrepareOk(i, m)
  BY DEF ProcessPrePrepareOk
<1>2. CASE Present(i, m.data.seq) /\ CountPrePrepareOk(i, m)
  <2> DEFINE s == m.data.seq
             e == [log[i][s] EXCEPT !.prepares = AddVotes(@, {m.from}, m.data.view)]
             quorum == i \notin Byzantine /\ e.status = "PRE_PREPARED" /\ PreparedQuorum(e.prepares)
             f == IF quorum THEN [e EXCEPT !.status = "PREPARED"] ELSE e
  <2>1. s \in Seqs /\ log[i][s] \in Entry
    BY <1>2, PresentInSeqs, EntryAt
  <2>2. SameAssignment(log[i][s], f)
    BY <2>1 DEF Entry, SameAssignment
  <2>3. /\ log' = [log EXCEPT ![i][s] = f]
        /\ Exchange({m}, {})
        /\ UNCHANGED <<viewVars, currentSequence, digestToEntry, proposed>>
    BY <1>2 DEF CountPrePrepareOk
  <2> HIDE DEF s, f
  <2> QED
    BY <2>1, <2>2, <2>3, QuietEntry DEF Exchange, viewVars
<1> QED
  BY <1>1, <1>2, QuietIgnore, QuietCrash

LEMMA QuietOptimisticTimeout ==
    ASSUME TypeOK, NEW i \in Server, OptimisticTimeout(i)
    PROVE  Quiet
<1>1. PICK s \in Seqs :
         /\ \/ Present(i, s) /\ FastCommit(i, s)
            \/ SlowPrepare(i, s)
            \/ UNCHANGED <<log, net>>
         /\ UNCHANGED <<viewVars, currentSequence, digestToEntry, proposed>>
  BY DEF OptimisticTimeout
<1>2. log[i][s] \in Entry /\ log[i] \in [Seqs -> Entry]
      /\ log[i][s].prePrepare.view \in -1 .. MaxView
  BY EntryAt DEF TypeOK
<1>3. CASE Present(i, s) /\ FastCommit(i, s)
  <2> DEFINE votes == AddVotes(log[i][s].prepares, {i}, log[i][s].prePrepare.view)
             e == [log[i][s] EXCEPT !.status = "COMMITTED", !.commits = votes]
             out == ProofToAll(i, "COMMIT", e.prePrepare, Voters(e.prepares) \cup {i})
             l == [log[i] EXCEPT ![s] = e]
  <2>1. votes \in Votes
    BY <1>2, VotesAdded DEF Entry
  <2>2. ExecutePending(i, l, {}, out)
    BY <1>3 DEF FastCommit
  <2>3. log[i][s].status # "NIL"
    BY <1>3 DEF Present
  <2> HIDE DEF votes
  <2>4. e \in Entry /\ SameAssignment(log[i][s], e)
    BY <1>2, <2>1, <2>3 DEF Entry, Status, SameAssignment
  <2>5. \A m \in out : m.type # "PRE_PREPARE"
    BY SendsNoPrePrepare DEF ProofType
  <2> HIDE DEF e, out
  <2>6. l \in [Seqs -> Entry] /\ \A t \in Seqs : SameAssignment(log[i][t], l[t])
    BY <1>2, <2>4 DEF SameAssignment
  <2> HIDE DEF l
  <2> QED
    BY <1>1, <2>2, <2>5, <2>6, QuietExecution DEF viewVars
<1>4. CASE SlowPrepare(i, s)
  <2> DEFINE e == [log[i][s] EXCEPT !.commits = AddVotes(@, {i}, log[i][s].prePrepare.view)]
  <2>1. SameAssignment(log[i][s], e)
    BY <1>2 DEF Entry, SameAssignment
  <2>2. log' = [log EXCEPT ![i][s] = e]
    BY <1>4 DEF SlowPrepare, TypeOK
  <2>3. \A m \in net' : m.type = "PRE_PREPARE" => m \in net
    BY <1>4, SendsNoPrePrepare DEF SlowPrepare, Exchange, ProofType
  <2> HIDE DEF e
  <2> QED
    BY <1>1, <2>1, <2>2, <2>3, QuietEntry DEF viewVars
<1> QED
  BY <1>1, <1>3, <1>4, QuietIfUnchanged DEF viewVars

LEMMA QuietPrepare ==
    ASSUME TypeOK, NEW i \in Server, ProcessPrepare(i)
    PROVE  Quiet
<1> DEFINE e(m) == [log[i][m.data.seq] EXCEPT !.prepares = Certified(m, log[i][m.data.seq], @)]
           quorum(m) == PreparedQuorum(e(m).prepares)
           f(m) == IF quorum(m) THEN [e(m) EXCEPT !.status = "PREPARED"] ELSE e(m)
           out(m) == IF quorum(m) THEN {Ack(i, Leader(currentView[i]), "PREPARE_OK", m.data)} ELSE {}
<1>1. PICK m \in net :
         \/ Ignore({m})
         \/ /\ AcceptsCertificate(i, m, {"PRE_PREPARED"})
            /\ log' = [log EXCEPT ![i][m.data.seq] = f(m)]
            /\ Exchange({m}, out(m))
            /\ UNCHANGED <<viewVars, currentSequence, digestToEntry, proposed>>
  BY DEF ProcessPrepare
<1>2. CASE AcceptsCertificate(i, m, {"PRE_PREPARED"}) /\ ~Ignore({m})
  <2>1. m.data.seq \in Seqs /\ log[i][m.data.seq] \in Entry /\ log[i][m.data.seq].status # "NIL"
    BY <1>2, PresentInSeqs, EntryAt DEF AcceptsCertificate
  <2>2. SameAssignment(log[i][m.data.seq], f(m))
    BY <2>1 DEF Entry, SameAssignment
  <2>3. \A x \in out(m) : x.type # "PRE_PREPARE"
    BY SendsNoPrePrepare DEF AckType
  <2>4. log' = [log EXCEPT ![i][m.data.seq] = f(m)] /\ net' = (net \ {m}) \cup out(m)
    BY <1>1, <1>2 DEF Exchange
  <2>5. UNCHANGED <<currentView, currentSequence, digestToEntry, proposed>>
    BY <1>1, <1>2 DEF viewVars
  <2> HIDE DEF f, out
  <2>6. \A x \in net' : x.type = "PRE_PREPARE" => x \in net
    BY <2>3, <2>4
  <2> QED
    BY <2>1, <2>2, <2>4, <2>5, <2>6, QuietEntry
<1> QED
  BY <1>1, <1>2, QuietIgnore

LEMMA QuietCommit ==
    ASSUME TypeOK, NEW i \in Server, ProcessCommit(i)
    PROVE  Quiet
<1> DEFINE e(m) == [log[i][m.data.seq] EXCEPT !.commits = Certified(m, log[i][m.data.seq], @)]
           l(m) == [log[i] EXCEPT ![m.data.seq] = [e(m) EXCEPT !.status = "COMMITTED"]]
<1>1. PICK m \in net :
         /\ Receive(i, m, "COMMIT")
         /\ \/ Ignore({m})
            \/ /\ AcceptsCertificate(i, m, {"PRE_PREPARED", "PREPARED"})
               /\ \/ log' = [log EXCEPT ![i][m.data.seq] = e(m)] /\ Exchange({m}, {})
                  \/ ExecutePending(i, l(m), {m}, {})
               /\ UNCHANGED <<viewVars, currentSequence, digestToEntry, proposed>>
  BY DEF ProcessCommit
<1>2. m \in Message /\ m.type \in ProofType
  BY <1>1 DEF TypeOK, Receive, ProofType
<1>3. CASE AcceptsCertificate(i, m, {"PRE_PREPARED", "PREPARED"}) /\ ~Ignore({m})
  <2> DEFINE s == m.data.seq
             g == [e(m) EXCEPT !.status = "COMMITTED"]
  <2>1. s \in Seqs /\ log[i][s] \in Entry /\ log[i][s].status # "NIL"
    BY <1>3, PresentInSeqs, EntryAt DEF AcceptsCertificate
  <2>2. Certified(m, log[i][s], log[i][s].commits) \in Votes
    BY <1>2, <2>1, CertifiedType DEF Entry
  <2>3. SameAssignment(log[i][s], e(m)) /\ SameAssignment(log[i][s], g) /\ g \in Entry
    BY <2>1, <2>2 DEF Entry, Status, SameAssignment
  <2>4. UNCHANGED <<currentView, currentSequence, digestToEntry, proposed>>
    BY <1>1, <1>3 DEF viewVars
  <2>5. CASE log' = [log EXCEPT ![i][m.data.seq] = e(m)] /\ Exchange({m}, {})
    <3> HIDE DEF e
    <3> QED
      BY <2>1, <2>3, <2>4, <2>5, QuietEntry DEF Exchange
  <2>6. CASE ExecutePending(i, l(m), {m}, {})
    <3>1. log[i] \in [Seqs -> Entry]
      BY DEF TypeOK
    <3>2. l(m) = [log[i] EXCEPT ![s] = g]
      OBVIOUS
    <3> HIDE DEF g, l
    <3>3. l(m) \in [Seqs -> Entry] /\ \A t \in Seqs : SameAssignment(log[i][t], l(m)[t])
      BY <2>1, <2>3, <3>1, <3>2 DEF SameAssignment
    <3> QED
      BY <2>4, <2>6, <3>3, QuietExecution
  <2> QED
    BY <1>1, <1>3, <2>5, <2>6
<1> QED
  BY <1>1, <1>3, QuietIgnore

LEMMA QuietPrepareOk ==
    ASSUME TypeOK, NEW i \in Server, ProcessPrepareOk(i)
    PROVE  Quiet
<1>1. PICK m \in net :
         /\ Receive(i, m, "PREPARE_OK")
         /\ \/ Ignore({m})
            \/ Crash(i, {m})
            \/ Present(i, m.data.seq) /\ CountPrepareOk(i, m)
  BY DEF ProcessPrepareOk
<1>2. m.from \in Server /\ m.data \in Context
  BY <1>1, MessageForms DEF TypeOK, Receive, AckType
<1>3. CASE Present(i, m.data.seq) /\ CountPrepareOk(i, m)
  <2> DEFINE s == m.data.seq
             e == [log[i][s] EXCEPT !.commits = AddVotes(@, {m.from}, m.data.view)]
             g == [e EXCEPT !.status = "COMMITTED"]
             l == [log[i] EXCEPT ![s] = g]
             out == ProofToAll(i, "COMMIT", e.prePrepare, Voters(e.commits))
  <2>1. s \in Seqs /\ log[i][s] \in Entry /\ log[i][s].status # "NIL"
    BY <1>3, PresentInSeqs, EntryAt DEF Present
  <2>2. AddVotes(log[i][s].commits, {m.from}, m.data.view) \in Votes
    BY <1>2, <2>1, VotesAdded DEF Entry, Context
  <2>3. SameAssignment(log[i][s], e) /\ SameAssignment(log[i][s], g) /\ g \in Entry
    BY <2>1, <2>2 DEF Entry, Status, SameAssignment
  <2>4. /\ \/ log' = [log EXCEPT ![i][s] = e] /\ Exchange({m}, {})
           \/ ExecutePending(i, l, {m}, out)
        /\ UNCHANGED <<currentView, currentSequence, digestToEntry, proposed>>
    BY <1>3 DEF CountPrepareOk, viewVars
  <2>5. \A x \in out : x.type # "PRE_PREPARE"
    BY SendsNoPrePrepare DEF ProofType
  <2> HIDE DEF s, e, g, out
  <2>6. CASE log' = [log EXCEPT ![i][s] = e] /\ Exchange({m}, {})
    BY <2>1, <2>3, <2>4, <2>6, QuietEntry DEF Exchange
  <2>7. CASE ExecutePending(i, l, {m}, out)
    <3>1. log[i] \in [Seqs -> Entry]
      BY DEF TypeOK
    <3>2. l \in [Seqs -> Entry] /\ \A t \in Seqs : SameAssignment(log[i][t], l[t])
      BY <2>1, <2>3, <3>1 DEF SameAssignment
    <3> HIDE DEF l
    <3> QED
      BY <2>4, <2>5, <2>7, <3>2, QuietExecution
  <2> QED
    BY <2>4, <2>6, <2>7
<1> QED
  BY <1>1, <1>3, QuietIgnore, QuietCrash

LEMMA QuietCheckpoint ==
    ASSUME TypeOK, NEW i \in Server, ProcessCheckpoint(i)
    PROVE  Quiet
<1>1. PICK m \in net :
         \/ Ignore({m})
         \/ /\ \/ \E proofs : Truncate(i, m.seq, proofs)
               \/ UNCHANGED digestToEntry
            /\ Exchange({m}, {})
            /\ UNCHANGED <<viewVars, currentSequence, log, proposed>>
  BY DEF ProcessCheckpoint
<1>2. CASE ~Ignore({m})
  <2>1. \A j \in Server, r \in Req : digestToEntry'[j][r] \in {-1, digestToEntry[j][r]}
    <3>1. CASE UNCHANGED digestToEntry
      BY <3>1
    <3>2. CASE \E proofs : Truncate(i, m.seq, proofs)
      <4>1. PICK D : digestToEntry' = [digestToEntry EXCEPT ![i] =
                                          [r \in Req |-> IF r \in D THEN -1 ELSE @[r]]]
        BY <3>2 DEF Truncate
      <4> QED
        BY <4>1 DEF TypeOK
    <3> QED
      BY <1>1, <1>2, <3>1, <3>2
  <2>2. \A j \in Server : currentView'[j] >= currentView[j]
    BY <1>1, <1>2, NumberFacts DEF viewVars
  <2> QED
    BY <1>1, <1>2, <2>1, <2>2 DEF Quiet, SameAssignment, Exchange
<1> QED
  BY <1>2, QuietIgnore

\* View changes touch the views alone, and views only grow.
LEMMA QuietViewChanging ==
    ASSUME TypeOK, NEW i \in Server, ViewChanging(i)
    PROVE  Quiet
<1> DEFINE Silent == \A m \in net' : m.type = "PRE_PREPARE" => m \in net
           Frame == UNCHANGED <<log, currentSequence, digestToEntry, proposed>>
<1>1. ASSUME NEW t, NEW stop, NEW next, Expire(i, t, stop, next)
      PROVE  Frame /\ UNCHANGED currentView /\ Silent
  <2>1. CASE UNCHANGED <<viewVars, net>>
    BY <1>1, <2>1 DEF Expire, viewVars, logVars
  <2>2. CASE TriggerViewChange(i, t.newView, {})
    <3>1. Silent /\ UNCHANGED currentView
      BY <2>2, SendsNoPrePrepare DEF TriggerViewChange, Exchange
    <3> QED
      BY <1>1, <3>1 DEF Expire, logVars
  <2> QED
    BY <1>1, <2>1, <2>2 DEF Expire
<1>2. CASE DigestTimeout(i) \/ SeqTimeout(i)
  BY <1>1, <1>2, QuietIfUnchanged DEF DigestTimeout, SeqTimeout
<1>3. CASE ViewTimeout(i)
  BY <1>3, QuietIfUnchanged DEF ViewTimeout, logVars
<1>4. ASSUME NEW m \in net, m \in Message, NEW v \in Views, v > currentView[i],
             currentView' = [currentView EXCEPT ![i] = v], Frame, Silent
      PROVE  Quiet
  <2>1. \A j \in Server : currentView'[j] >= currentView[j]
    BY <1>4, NumberFacts DEF TypeOK, Views
  <2> QED
    BY <1>4, <2>1 DEF Quiet, SameAssignment
<1>5. CASE ProcessViewChange(i)
  <2>1. PICK m \in net :
           /\ Receive(i, m, "VIEW_CHANGE")
           /\ \/ Ignore({m})
              \/ /\ m.request.view > currentView[i]
                 /\ \/ \E msgs : JoinViewChange(i, m.request.view, msgs, {m})
                    \/ \E msgs : StartView(i, m.request.view, msgs, {m})
                    \/ Exchange({m}, {}) /\ UNCHANGED currentView
                 /\ UNCHANGED <<logVars, proposed>>
    BY <1>5 DEF ProcessViewChange
  <2>2. m \in Message /\ m.request.view \in Views
    BY <2>1, MessageForms DEF TypeOK, Receive, ViewChange
  <2>3. CASE UNCHANGED <<logVars, proposed>> /\ \E msgs : JoinViewChange(i, m.request.view, msgs, {m})
    BY <2>3, SendsNoPrePrepare, QuietIfUnchanged
       DEF JoinViewChange, TriggerViewChange, Exchange, logVars
  <2>4. CASE /\ UNCHANGED <<logVars, proposed>> /\ m.request.view > currentView[i]
             /\ \E msgs : StartView(i, m.request.view, msgs, {m})
    <3>1. Silent /\ currentView' = [currentView EXCEPT ![i] = m.request.view]
      BY <2>4, SendsNoPrePrepare DEF StartView, Exchange
    <3> QED
      BY <1>4, <2>2, <2>4, <3>1 DEF logVars
  <2>5. CASE UNCHANGED <<logVars, proposed>> /\ Exchange({m}, {}) /\ UNCHANGED currentView
    BY <2>5, QuietIfUnchanged DEF Exchange, logVars
  <2> QED
    BY <2>1, <2>3, <2>4, <2>5, QuietIgnore
<1>6. CASE ProcessNewView(i)
  <2>1. PICK m \in net :
           /\ Receive(i, m, "NEW_VIEW")
           /\ \/ Ignore({m})
              \/ /\ AcceptsNewView(i, m)
                 /\ currentView' = [currentView EXCEPT ![i] = m.view]
                 /\ Exchange({m}, {Ack(i, Leader(m.view), "PRE_PREPARE_OK", c) : c \in m.prePrepares})
                 /\ UNCHANGED <<logVars, proposed>>
    BY <1>6 DEF ProcessNewView
  <2>2. m \in Message /\ m.view \in Views
    BY <2>1, MessageForms DEF TypeOK, Receive
  <2>3. CASE ~Ignore({m})
    <3>1. Silent
      BY <2>1, <2>3, SendsNoPrePrepare DEF Exchange, AckType
    <3> QED
      BY <1>4, <2>1, <2>2, <2>3, <3>1 DEF AcceptsNewView, logVars
  <2> QED
    BY <2>3, QuietIgnore
<1> QED
  BY <1>2, <1>3, <1>5, <1>6 DEF ViewChanging

----------------------------------------------------------------------------
(* The handlers that assign numbers, and the one that accepts assignments. *)

\* Leader i makes the assignment p of number s, which it has not assigned in its view,
\* and its log gets the entry e for it.
Assigns(i, s, e, p) ==
    /\ IsLeader(i) /\ p.view = currentView[i] /\ p.seq = s
    /\ log[i][s].from # i \/ s > currentSequence[i]
    /\ e.prePrepare = p /\ e.from = i /\ e.status # "NIL"
    /\ log' = [log EXCEPT ![i][s] = e]
    /\ proposed' = proposed \cup {p}
    /\ currentView' = currentView
    /\ \A j \in Server : currentSequence'[j] >= currentSequence[j]
    /\ currentSequence'[i] >= s
    /\ \A j \in Server, q \in Req :
          digestToEntry'[j][q] = digestToEntry[j][q] \/ (j = i /\ digestToEntry'[j][q] = s)
    /\ \A m \in net' : m.type = "PRE_PREPARE" =>
          m \in net \/ (m.data = p /\ m.from = i /\ m.to # i)

LEMMA AssignKeeps ==
    ASSUME TypeOK, TypeOK', AssignmentInv, NEW i \in Server, NEW s \in Seqs, NEW e, NEW p,
           Assigns(i, s, e, p)
    PROVE  AssignmentInv'
<1> USE DEF Assigns
<1>1. Leader(p.view) = i
  BY DEF IsLeader
<1>2. \A q \in proposed : ~(q.view = p.view /\ q.seq = s)
  <2> SUFFICES ASSUME NEW q \in proposed, q.view = p.view, q.seq = s PROVE FALSE
    OBVIOUS
  <2>1. log[i][s].status # "NIL" /\ log[i][s].from = i
    BY <1>1 DEF AssignmentInv, LeadersKeepAssignments
  <2>2. s <= currentSequence[i]
    BY <2>1 DEF AssignmentInv, EntriesAreProposed
  <2> QED
    BY <2>1, <2>2, NumberFacts
<1>3. UniqueAssignments'
  BY <1>2 DEF AssignmentInv, UniqueAssignments
<1>4. \A j \in Server, t \in Seqs :
         log'[j][t] = IF j = i /\ t = s THEN e ELSE log[j][t]
  BY DEF TypeOK
<1>5. EntriesAreProposed'
  <2> SUFFICES ASSUME NEW j \in Server, NEW t \in Seqs, log'[j][t].status # "NIL"
               PROVE  /\ log'[j][t].prePrepare \in proposed'
                      /\ log'[j][t].prePrepare.seq = t
                      /\ t <= currentSequence'[j]
    BY DEF EntriesAreProposed
  <2>1. CASE j = i /\ t = s
    BY <1>4, <2>1
  <2>2. CASE ~(j = i /\ t = s)
    <3>1. log'[j][t] = log[j][t]
      BY <1>4, <2>2
    <3>2. log[j][t].prePrepare \in proposed /\ log[j][t].prePrepare.seq = t /\ t <= currentSequence[j]
      BY <3>1 DEF AssignmentInv, EntriesAreProposed
    <3>3. currentSequence[j] \in Int /\ currentSequence'[j] \in Int /\ t \in Int
      BY NumberFacts DEF TypeOK
    <3>4. currentSequence'[j] >= currentSequence[j]
      OBVIOUS
    <3>5. t <= currentSequence'[j]
      BY <3>2, <3>3, <3>4
    <3> QED
      BY <3>1, <3>2, <3>5
  <2> QED
    BY <2>1, <2>2
<1>6. PrePreparesAreProposed'
  BY <1>1 DEF AssignmentInv, PrePreparesAreProposed
<1>7. LeadersKeepAssignments'
  <2> SUFFICES ASSUME NEW q \in proposed'
               PROVE  /\ q.seq \in Seqs
                      /\ currentView[Leader(q.view)] >= q.view
                      /\ currentView[Leader(q.view)] = q.view =>
                            /\ log'[Leader(q.view)][q.seq].status # "NIL"
                            /\ log'[Leader(q.view)][q.seq].prePrepare = q
                            /\ log'[Leader(q.view)][q.seq].from = Leader(q.view)
    BY DEF LeadersKeepAssignments
  <2>1. CASE q = p
    BY <1>1, <1>4, <2>1, NumberFacts
  <2>2. CASE q # p
    <3>1. q \in proposed /\ Leader(q.view) \in Server
      BY <2>2, NumberFacts
    <3>2. /\ q.seq \in Seqs
          /\ currentView[Leader(q.view)] >= q.view
          /\ currentView[Leader(q.view)] = q.view =>
                /\ log[Leader(q.view)][q.seq].status # "NIL"
                /\ log[Leader(q.view)][q.seq].prePrepare = q
                /\ log[Leader(q.view)][q.seq].from = Leader(q.view)
      BY <3>1 DEF AssignmentInv, LeadersKeepAssignments
    <3>3. ASSUME currentView[Leader(q.view)] = q.view
          PROVE  log'[Leader(q.view)][q.seq] = log[Leader(q.view)][q.seq]
      BY <1>2, <1>4, <3>1, <3>2, <3>3
    <3> QED
      BY <3>2, <3>3
  <2> QED
    BY <2>1, <2>2
<1>8. DigestsHaveEntries'
  <2> SUFFICES ASSUME NEW j \in Server, NEW q \in Req, digestToEntry'[j][q] # -1
               PROVE  log'[j][digestToEntry'[j][q]].status # "NIL"
    BY DEF DigestsHaveEntries, Known
  <2>1. CASE j = i /\ digestToEntry'[j][q] = s
    BY <1>4, <2>1
  <2>2. CASE digestToEntry'[j][q] = digestToEntry[j][q]
    <3>1. Known(j, q) /\ digestToEntry[j][q] \in Seqs
      BY <2>2, NumberFacts DEF Known
    <3> QED
      BY <1>4, <2>2, <3>1 DEF AssignmentInv, DigestsHaveEntries
  <2> QED
    BY <2>1, <2>2
<1> QED
  BY <1>3, <1>5, <1>6, <1>7, <1>8 DEF AssignmentInv

LEMMA ProposeNewAssigns ==
    ASSUME TypeOK, TypeOK', NEW i \in Server, NEW r \in Req, NEW in,
           IsLeader(i), ProposeNew(i, r, in)
    PROVE  LET s == NextSequence(i)
               p == [view |-> currentView[i], seq |-> s, digest |-> r]
           IN  s \in Seqs /\ Assigns(i, s, NewEntry(r, p, i, NoVotes), p)
<1> DEFINE s == NextSequence(i)
           p == [view |-> currentView[i], seq |-> s, digest |-> r]
           e == NewEntry(r, p, i, NoVotes)
<1>1. /\ s \in Seqs
      /\ currentSequence' = [currentSequence EXCEPT ![i] = s]
      /\ log' = [log EXCEPT ![i][s] = e]
      /\ digestToEntry' = [digestToEntry EXCEPT ![i][r] = s]
      /\ proposed' = proposed \cup {p}
      /\ currentView' = currentView
      /\ Exchange(in, PrePrepareToAll(i, p, r)) \/ Exchange(in, {})
  BY DEF ProposeNew, viewVars
<1>2. e.prePrepare = p /\ e.from = i /\ e.status # "NIL"
  BY DEF NewEntry
<1>3. s > currentSequence[i] /\ s \in Int
  BY NumberFacts DEF NextSequence
<1>4. p.view = currentView[i] /\ p.seq = s
  OBVIOUS
<1> HIDE DEF s, p, e
<1>5. \A m \in net' : m.type = "PRE_PREPARE" => m \in net \/ (m.data = p /\ m.from = i /\ m.to # i)
  BY <1>1 DEF Exchange, PrePrepareToAll, ToOthers
<1>6. /\ \A j \in Server : currentSequence'[j] >= currentSequence[j]
      /\ currentSequence'[i] >= s
  BY <1>1, <1>3, NumberFacts DEF TypeOK
<1>7. \A j \in Server, q \in Req :
         digestToEntry'[j][q] = digestToEntry[j][q] \/ (j = i /\ digestToEntry'[j][q] = s)
  BY <1>1 DEF TypeOK
<1>8. Assigns(i, s, e, p)
  BY <1>1, <1>2, <1>3, <1>4, <1>5, <1>6, <1>7 DEF Assigns
<1> QED
  BY <1>1, <1>8 DEF s, p, e

LEMMA ProposeAgainAssigns ==
    ASSUME TypeOK, TypeOK', AssignmentInv, NEW i \in Server, NEW r \in Req, NEW in,
           IsLeader(i), Known(i, r), ~AlreadyProposed(i, digestToEntry[i][r]), ProposeAgain(i, r, in)
    PROVE  LET s == digestToEntry[i][r]
               p == [log[i][s].prePrepare EXCEPT !.view = currentView[i]]
           IN  /\ s \in Seqs
               /\ Assigns(i, s, [log[i][s] EXCEPT !.prePrepare = p, !.from = i,
                                                  !.prepares = NoVotes, !.commits = NoVotes], p)
<1> DEFINE s == digestToEntry[i][r]
           p == [log[i][s].prePrepare EXCEPT !.view = currentView[i]]
           e == [log[i][s] EXCEPT !.prePrepare = p, !.from = i,
                                  !.prepares = NoVotes, !.commits = NoVotes]
<1>1. /\ log' = [log EXCEPT ![i][s] = e]
      /\ proposed' = proposed \cup {p}
      /\ Exchange(in, PrePrepareToAll(i, p, r))
      /\ UNCHANGED <<currentView, currentSequence, digestToEntry>>
  BY DEF ProposeAgain, viewVars
<1>2. s \in Seqs
  BY NumberFacts
<1>3. log[i][s] \in Entry /\ log[i][s].prePrepare \in Context
  BY <1>2, EntryAt
<1>4. log[i][s].status # "NIL"
  BY DEF AssignmentInv, DigestsHaveEntries
<1>5. log[i][s].prePrepare.seq = s /\ s <= currentSequence[i]
  BY <1>2, <1>4 DEF AssignmentInv, EntriesAreProposed
<1>6. log[i][s].from # i
  BY DEF AlreadyProposed, IsLeader
<1>7. p.view = currentView[i] /\ p.seq = s
  <2> HIDE DEF s
  <2> QED
    BY <1>3, <1>5 DEF Context
<1>8. e.prePrepare = p /\ e.from = i /\ e.status # "NIL"
  <2> HIDE DEF s, p
  <2> QED
    BY <1>3, <1>4 DEF Entry
<1> HIDE DEF s, p, e
<1>9. \A m \in net' : m.type = "PRE_PREPARE" => m \in net \/ (m.data = p /\ m.from = i /\ m.to # i)
  BY <1>1 DEF Exchange, PrePrepareToAll, ToOthers
<1>10. /\ \A j \in Server : currentSequence'[j] >= currentSequence[j]
       /\ currentSequence'[i] >= s
  BY <1>1, <1>2, <1>5, NumberFacts
<1>11. \A j \in Server, q \in Req : digestToEntry'[j][q] = digestToEntry[j][q]
  BY <1>1
<1>12. Assigns(i, s, e, p)
  BY <1>1, <1>6, <1>7, <1>8, <1>9, <1>10, <1>11 DEF Assigns
<1> QED
  BY <1>2, <1>12 DEF s, p, e

LEMMA ProcessTransferKeeps ==
    ASSUME TypeOK, TypeOK', AssignmentInv, NEW i \in Server, NEW r \in Req, NEW in,
           ProcessTransfer(i, r, in)
    PROVE  AssignmentInv'
<1>1. CASE Ignore(in)
  BY <1>1, QuietIgnore, QuietKeeps
<1>2. CASE AnswerAgain(i, r, in)
  BY <1>2, QuietIfUnchanged, QuietKeeps DEF AnswerAgain, Exchange, viewVars, logVars
<1>3. CASE ForwardToLeader(i, r, in)
  BY <1>3, QuietIfUnchanged, QuietKeeps DEF ForwardToLeader, Exchange, viewVars, logVars
<1>4. CASE /\ IsLeader(i) /\ Known(i, r) /\ ~AlreadyProposed(i, digestToEntry[i][r])
           /\ ProposeAgain(i, r, in)
  BY <1>4, ProposeAgainAssigns, AssignKeeps
<1>5. CASE IsLeader(i) /\ ProposeNew(i, r, in)
  BY <1>5, ProposeNewAssigns, AssignKeeps
<1> QED
  BY <1>1, <1>2, <1>3, <1>4, <1>5 DEF ProcessTransfer

LEMMA ProcessPrePrepareKeeps ==
    ASSUME TypeOK, TypeOK', AssignmentInv, NEW i \in Server, ProcessPrePrepare(i)
    PROVE  AssignmentInv'
<1>1. PICK m \in net :
         /\ Receive(i, m, "PRE_PREPARE")
         /\ \/ Ignore({m})
            \/ /\ AcceptsPrePrepare(i, m)
               /\ currentSequence' = [currentSequence EXCEPT ![i] = Max({@, m.data.seq})]
               /\ \/ Exchange({m}, {}) /\ UNCHANGED <<log, digestToEntry>>
                  \/ StorePrePrepare(i, m)
               /\ UNCHANGED <<viewVars, proposed>>
  BY DEF ProcessPrePrepare
<1>2. CASE Ignore({m})
  BY <1>2, QuietIgnore, QuietKeeps
<1>3. CASE AcceptsPrePrepare(i, m) /\ ~Ignore({m})
  <2> DEFINE s == m.data.seq
             e == NewEntry(m.m, m.data, m.from, AddVotes(NoVotes, {i}, m.data.view))
  <2>1. m.data \in proposed /\ m.data \in Context
    BY <1>1, MessageForms DEF AssignmentInv, PrePreparesAreProposed, Receive, TypeOK
  <2>2. s \in Seqs
    BY <2>1 DEF AssignmentInv, LeadersKeepAssignments
  <2>3. ~IsLeader(i)
    BY <1>1, <1>3 DEF AssignmentInv, PrePreparesAreProposed, Receive, AcceptsPrePrepare, IsLeader
  <2>4. /\ \A j \in Server : currentSequence'[j] >= currentSequence[j]
        /\ currentSequence'[i] >= s
    <3>1. currentSequence[i] \in Int /\ s \in Int
      BY <2>2, NumberFacts
    <3>2. Max({currentSequence[i], s}) >= currentSequence[i] /\ Max({currentSequence[i], s}) >= s
      BY <3>1, MaxOfTwo
    <3>3. currentSequence' = [currentSequence EXCEPT ![i] = Max({currentSequence[i], s})]
      BY <1>1, <1>3
    <3> HIDE DEF s
    <3>4. currentSequence'[i] >= currentSequence[i] /\ currentSequence'[i] >= s
      BY <3>2, <3>3 DEF TypeOK
    <3>5. \A j \in Server \ {i} : currentSequence'[j] = currentSequence[j]
      BY <3>3 DEF TypeOK
    <3> QED
      BY <3>4, <3>5, NumberFacts
  <2>5. /\ \/ UNCHANGED <<log, digestToEntry>>
           \/ /\ log' = [log EXCEPT ![i][s] = e]
              /\ digestToEntry' = [digestToEntry EXCEPT ![i][m.m] = s]
        /\ UNCHANGED <<currentView, proposed>>
    BY <1>1, <1>3 DEF StorePrePrepare, viewVars
  <2>6. \A x \in net' : x.type = "PRE_PREPARE" => x \in net
    <3>1. Ack(i, m.from, "PRE_PREPARE_OK", m.data).type # "PRE_PREPARE"
      BY DEF Ack
    <3> QED
      BY <1>1, <1>3, <3>1 DEF StorePrePrepare, Exchange
  <2>7. e.prePrepare = m.data /\ e.status # "NIL"
    BY DEF NewEntry
  <2> HIDE DEF e
  <2>8. \A j \in Server, t \in Seqs : log'[j][t] = log[j][t] \/ (j = i /\ t = s /\ log'[j][t] = e)
    BY <2>2, <2>5 DEF TypeOK
  <2>9. \A j \in Server, q \in Req :
           \/ digestToEntry'[j][q] = digestToEntry[j][q]
           \/ j = i /\ digestToEntry'[j][q] = s /\ log'[i][s] = e
    BY <2>2, <2>5 DEF TypeOK
  <2>10. UniqueAssignments' /\ PrePreparesAreProposed'
    BY <2>5, <2>6 DEF AssignmentInv, UniqueAssignments, PrePreparesAreProposed
  <2>11. EntriesAreProposed'
    <3> SUFFICES ASSUME NEW j \in Server, NEW t \in Seqs, log'[j][t].status # "NIL"
                 PROVE  /\ log'[j][t].prePrepare \in proposed
                        /\ log'[j][t].prePrepare.seq = t
                        /\ t <= currentSequence'[j]
      BY <2>5 DEF EntriesAreProposed
    <3>1. CASE log'[j][t] = log[j][t]
      <4>1. log[j][t].prePrepare \in proposed /\ log[j][t].prePrepare.seq = t /\ t <= currentSequence[j]
        BY <3>1 DEF AssignmentInv, EntriesAreProposed
      <4>2. currentSequence[j] \in Int /\ currentSequence'[j] \in Int /\ t \in Int
        BY NumberFacts DEF TypeOK
      <4>3. currentSequence'[j] >= currentSequence[j]
        BY <2>4
      <4>4. t <= currentSequence'[j]
        BY <4>1, <4>2, <4>3
      <4> QED
        BY <3>1, <4>1, <4>4
    <3>2. CASE j = i /\ t = s /\ log'[j][t] = e
      BY <2>1, <2>4, <2>7, <3>2
    <3> QED
      BY <2>8, <3>1, <3>2
  <2>12. LeadersKeepAssignments'
    <3> SUFFICES ASSUME NEW q \in proposed
                 PROVE  /\ q.seq \in Seqs
                        /\ currentView[Leader(q.view)] >= q.view
                        /\ currentView[Leader(q.view)] = q.view =>
                              /\ log'[Leader(q.view)][q.seq].status # "NIL"
                              /\ log'[Leader(q.view)][q.seq].prePrepare = q
                              /\ log'[Leader(q.view)][q.seq].from = Leader(q.view)
      BY <2>5 DEF LeadersKeepAssignments
    <3>1. currentView[Leader(q.view)] = q.view => Leader(q.view) # i
      BY <2>3 DEF IsLeader
    <3>2. Leader(q.view) \in Server
      BY NumberFacts
    <3> QED
      BY <2>8, <3>1, <3>2 DEF AssignmentInv, LeadersKeepAssignments
  <2>13. DigestsHaveEntries'
    <3> SUFFICES ASSUME NEW j \in Server, NEW q \in Req, digestToEntry'[j][q] # -1
                 PROVE  log'[j][digestToEntry'[j][q]].status # "NIL"
      BY DEF DigestsHaveEntries, Known
    <3>1. CASE j = i /\ digestToEntry'[j][q] = s /\ log'[i][s] = e
      BY <2>7, <3>1
    <3>2. CASE digestToEntry'[j][q] = digestToEntry[j][q]
      <4>1. Known(j, q) /\ digestToEntry[j][q] \in Seqs
        BY <3>2, NumberFacts DEF Known
      <4> QED
        BY <2>7, <2>8, <3>2, <4>1 DEF AssignmentInv, DigestsHaveEntries
    <3> QED
      BY <2>9, <3>1, <3>2
  <2> QED
    BY <2>10, <2>11, <2>12, <2>13 DEF AssignmentInv
<1> QED
  BY <1>1, <1>2, <1>3

----------------------------------------------------------------------------
LEMMA InitAssignment == Init => AssignmentInv
  BY DEF Init, AssignmentInv, UniqueAssignments, EntriesAreProposed, PrePreparesAreProposed,
         LeadersKeepAssignments, DigestsHaveEntries, Known, NilEntry

LEMMA NextAssignment == TypeOK /\ TypeOK' /\ AssignmentInv /\ [Next]_vars => AssignmentInv'
<1> SUFFICES ASSUME TypeOK, TypeOK', AssignmentInv, [Next]_vars PROVE AssignmentInv'
  OBVIOUS
<1>1. CASE UNCHANGED vars
  BY <1>1, QuietIfUnchanged, QuietKeeps DEF vars, viewVars, logVars
<1>2. ASSUME NEW i \in Server, Ordering(i) PROVE AssignmentInv'
  <2>1. CASE ClientTransfer(i)
    BY <2>1, ProcessTransferKeeps DEF ClientTransfer
  <2>2. CASE ForwardedTransfer(i)
    <3>1. PICK m \in net : Receive(i, m, "TRANSFER") /\ ProcessTransfer(i, m.m, {m})
      BY <2>2 DEF ForwardedTransfer
    <3>2. m.m \in Req
      BY <3>1, MessageForms DEF TypeOK, Receive
    <3> QED
      BY <3>1, <3>2, ProcessTransferKeeps
  <2>3. CASE ProcessPrePrepare(i)
    BY <2>3, ProcessPrePrepareKeeps
  <2> QED
    BY <1>2, <2>1, <2>2, <2>3, QuietKeeps, QuietPrePrepareOk, QuietOptimisticTimeout,
       QuietPrepare, QuietPrepareOk, QuietCommit DEF Ordering
<1>3. ASSUME NEW i \in Server, Checkpointing(i) \/ ViewChanging(i) PROVE AssignmentInv'
  BY <1>3, QuietCheckpoint, QuietViewChanging, QuietKeeps DEF Checkpointing
<1> QED
  BY <1>1, <1>2, <1>3 DEF Next, Step

\* Leaders never give a number of their view to two requests, keep what they assigned,
\* and everything in any log was assigned by its leader.
THEOREM AssignmentInvariant == Spec => []AssignmentInv
<1>1. Spec => []TypeOK
  BY TypeCorrect
<1> QED
  BY <1>1, InitAssignment, NextAssignment, PTL DEF Spec

LEMMA AssignmentMeansAgreement == AssignmentInv => AgreementInView
  BY DEF AssignmentInv, UniqueAssignments, EntriesAreProposed, AgreementInView

\* Safety within the view: any two servers that hold a request under the same view and
\* number hold the same one, for every number of servers, window and set of requests.
THEOREM Agreement == Spec => []AgreementInView
  BY AssignmentInvariant, AssignmentMeansAgreement, PTL
=============================================================================
