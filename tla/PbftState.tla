------------------------------ MODULE PbftState ------------------------------
(***************************************************************************)
(* The state of the replicas of the linear-PBFT bank: one function per     *)
(* field of PbftServerImpl (src/server/async_server.h:412-460), the        *)
(* messages of src/proto/pbft.proto that travel between replicas, and the  *)
(* initial state built by the constructor.                                 *)
(*                                                                         *)
(* A request stands for a TransactionData record; its digest is a          *)
(* collision-free hash, so the request is its own digest.  Signatures and  *)
(* MACs are not modelled: every replica runs this program, nobody forges.  *)
(***************************************************************************)
EXTENDS Integers, FiniteSets, FiniteSetsExt

CONSTANTS
    F,              \* f: faults tolerated; the cluster has 3f + 1 servers
    K,              \* k: size of the sequence number window
    CheckpointStep, \* checkpointStepSize
    Req,            \* the client requests
    NoReq,          \* no request: the empty digest
    Byzantine,      \* servers started with the isByzantine flag (they stay mute)
    Alive,          \* servers that were started at all
    ClientSends,    \* <<request, server>> pairs: whom the open clients may ask, for ever
    InitialBalance, \* units on every account at the start
    MaxSeq,         \* bound: highest sequence number a leader hands out
    MaxView         \* bound: highest view a timer may propose

Server == 0 .. 3 * F
Seqs   == 0 .. MaxSeq
Views  == 1 .. MaxView

ASSUME FAssumption     == F \in Nat \ {0}
ASSUME WindowAssumption == K \in Nat \ {0} /\ CheckpointStep \in Nat \ {0}
ASSUME BoundAssumption == MaxSeq \in Nat /\ MaxView \in Nat \ {0}
ASSUME ReqAssumption   == NoReq \notin Req
ASSUME ClientAssumption == ClientSends \subseteq Req \X Server
ASSUME FaultAssumption == Byzantine \subseteq Server /\ Alive \subseteq Server

VARIABLES
    currentView, state, lastProposedView, viewChangeMessages,
    currentSequence, log, digestToEntry,
    lastExecuted, checkpoints, lowWatermark, stable,
    awaitedDigests, timers,
    crashed,        \* the process met a null or out-of-range log entry
    net,            \* messages sent between replicas and not yet received
    replies,        \* every Notify sent to a client
    executed,       \* history: the request executed under each number
    proposed        \* history: every assignment (view, number, request)

viewVars  == <<currentView, state, lastProposedView, viewChangeMessages>>
logVars   == <<currentSequence, log, digestToEntry>>
execVars  == <<lastExecuted, executed, replies, checkpoints>>
stableVars == <<lowWatermark, stable>>
timerVars == <<awaitedDigests, timers>>
vars == <<viewVars, logVars, execVars, stableVars, timerVars, crashed, net, proposed>>

----------------------------------------------------------------------------
(* Views, windows and requests. *)

Leader(v) == v % (3 * F + 1)
IsLeader(i) == Leader(currentView[i]) = i

\* Mutant: the watermark itself is left out.
InWindowOpen(i, s) == lowWatermark[i] < s /\ s <= lowWatermark[i] + K - 1
InWindow(i, s) == lowWatermark[i] <= s /\ s <= lowWatermark[i] + K - 1

Up(i) == i \in Alive /\ ~crashed[i]

Digest == Req \cup {NoReq}

\* Context of pbft.proto: the (view, number, digest) every ordering message is about.
Context == [view : -1 .. MaxView, seq : -1 .. MaxSeq, digest : Digest]

\* What a view-change request sends for a slot it cannot fill: "(-1, -1, "") indicates NOP".
Nop == [view |-> -1, seq |-> -1, digest |-> NoReq]

----------------------------------------------------------------------------
(* Log entries.  A MessageInfo is never freed, and a slot gets at most one *)
(* over its life, so log[i][s] is the object created for number s at i,    *)
(* "NIL" while there is none; it is reachable through the vector only      *)
(* while InWindow(i, s), and through digestToEntry for ever.               *)

Status == {"NIL", "PRE_PREPARED", "PREPARED", "COMMITTED", "EXECUTED"}

\* Proofs map a server to the view of the acknowledgement kept for it, -1 for none.
Votes   == [Server -> -1 .. MaxView]
NoVotes == [j \in Server |-> -1]
Voters(votes)  == {j \in Server : votes[j] # -1}
Count(votes)   == Cardinality(Voters(votes))
PreparedQuorum(votes)  == Count(votes) >= 2 * F

\* Mutants: one signature short, and everybody's signature.
CommittedEarly(votes)  == Count(votes) >= 2 * F
CommittedByAll(votes)  == Count(votes) >= 3 * F + 1
CommittedQuorum(votes) == Count(votes) >= 2 * F + 1
FastQuorum(votes)      == Count(votes) = 3 * F
AddVotes(votes, from, v) == [j \in Server |-> IF j \in from THEN v ELSE votes[j]]

Entry == [m : Digest, prePrepare : Context, from : Server, status : Status,
          prepares : Votes, commits : Votes]

NilEntry == [m |-> NoReq, prePrepare |-> Nop, from |-> 0, status |-> "NIL",
             prepares |-> NoVotes, commits |-> NoVotes]

NewEntry(r, data, leader, prepares) ==
    [m |-> r, prePrepare |-> data, from |-> leader, status |-> "PRE_PREPARED",
     prepares |-> prepares, commits |-> NoVotes]

\* log[index] may be dereferenced: inside the vector and not null.
Present(i, s) == s \in Seqs /\ InWindow(i, s) /\ log[i][s].status # "NIL"

----------------------------------------------------------------------------
(* The bank.  Balances are a function of the executed requests, in number  *)
(* order; a transfer without cover changes nothing.  The digest of a       *)
(* checkpoint is the hash of the balances, so two histories have the same  *)
(* digest exactly when they lead to the same balances.                     *)

History   == [Seqs -> Digest]
NoHistory == [s \in Seqs |-> NoReq]
Account   == {r.sender : r \in Req} \cup {r.receiver : r \in Req}

Transfer(b, r) ==
    IF b[r.sender] >= r.amount
    THEN [b EXCEPT ![r.sender] = @ - r.amount, ![r.receiver] = @ + r.amount]
    ELSE b

\* Balances after the executed requests with numbers up to n.
Balances(h, n) ==
    LET bal[s \in -1 .. MaxSeq] ==
          IF s = -1 THEN [a \in Account |-> InitialBalance]
          ELSE IF h[s] = NoReq THEN bal[s - 1]
          ELSE Transfer(bal[s - 1], h[s])
    IN  bal[n]

\* What was executed under numbers up to n.
UpTo(h, n) == [s \in Seqs |-> IF s <= n THEN h[s] ELSE NoReq]

\* The result of the transfer executed under number s, settled by what came before it.
Succeeds(h, s) ==
    h[s] # NoReq /\ Balances(UpTo(h, s - 1), s - 1)[h[s].sender] >= h[s].amount

SameBalances(g, h) == Balances(g, MaxSeq) = Balances(h, MaxSeq)

----------------------------------------------------------------------------
(* Checkpoints.  A CheckpointInfo that an early CheckpointReq created has  *)
(* the empty digest until this replica reaches the number itself.          *)

CheckpointDigest == [known : BOOLEAN, history : History]
EmptyDigest      == [known |-> FALSE, history |-> NoHistory]
DigestOf(h)      == [known |-> TRUE, history |-> h]

SameDigest(c, d) == c.known = d.known /\ (c.known => SameBalances(c.history, d.history))

CheckpointProof == [from : Server, digest : CheckpointDigest]
CheckpointInfo  == [exists : BOOLEAN, digest : CheckpointDigest, proofs : SUBSET CheckpointProof]
NoCheckpoint    == [exists |-> FALSE, digest |-> EmptyDigest, proofs |-> {}]
StableCheckpoint == [seq : -1 .. MaxSeq, digest : CheckpointDigest, proofs : SUBSET CheckpointProof]

----------------------------------------------------------------------------
(* View change requests. *)

PrepareProof == [prePrepare : Context, prepares : SUBSET Server]
ViewChange   == [from : Server, view : Views, checkpoint : StableCheckpoint,
                 pproofs : SUBSET PrepareProof]

----------------------------------------------------------------------------
(* Messages.  Sends are one-way gRPC calls with a one second deadline and  *)
(* no retry: a message that stays in net for ever is a lost one.           *)

AckType   == {"PRE_PREPARE_OK", "PREPARE_OK"}
ProofType == {"PREPARE", "COMMIT"}

Message ==
         [type : {"TRANSFER"}, from : Server, to : Server, m : Req]
    \cup [type : {"PRE_PREPARE"}, from : Server, to : Server, data : Context, m : Digest]
    \cup [type : AckType, from : Server, to : Server, data : Context]
    \cup [type : ProofType, from : Server, to : Server, data : Context, sigs : SUBSET Server]
    \cup [type : {"CHECKPOINT"}, from : Server, to : Server, seq : Seqs, digest : CheckpointDigest]
    \cup [type : {"VIEW_CHANGE"}, from : Server, to : Server, request : ViewChange]
    \cup [type : {"NEW_VIEW"}, from : Server, to : Server, view : Views,
          vproofs : SUBSET ViewChange, prePrepares : SUBSET Context]

Reply == [from : Server, view : Views, m : Digest, ack : BOOLEAN]

\* Copies of a message for every server but the sender.
ToOthers(i, msg) == {[msg EXCEPT !.to = j] : j \in Server \ {i}}

PrePrepareToAll(i, data, r) ==
    ToOthers(i, [type |-> "PRE_PREPARE", from |-> i, to |-> i, data |-> data, m |-> r])
ProofToAll(i, t, data, sigs) ==
    ToOthers(i, [type |-> t, from |-> i, to |-> i, data |-> data, sigs |-> sigs])
Ack(i, j, t, data) == [type |-> t, from |-> i, to |-> j, data |-> data]

\* m is the next message server i takes from its queue, for the handler of type t.
Receive(i, m, t) == m \in net /\ m.type = t /\ m.to = i /\ Up(i)

\* The event is consumed and `out` is sent.
Exchange(in, out) == net' = (net \ in) \cup out

\* The handler returns without a change.
Ignore(in) ==
    /\ Exchange(in, {})
    /\ UNCHANGED <<viewVars, logVars, execVars, stableVars, timerVars, crashed, proposed>>

\* The handler dereferences a null or out-of-range log entry.
Crash(i, in) ==
    /\ crashed' = [crashed EXCEPT ![i] = TRUE]
    /\ Exchange(in, {})
    /\ UNCHANGED <<viewVars, logVars, execVars, stableVars, timerVars, proposed>>

----------------------------------------------------------------------------
(* Threads that sleep and then run a check (std::async). *)

DigestTimer(d, v)  == [kind |-> "digest", digest |-> d, newView |-> v]
SeqTimer(s, v)     == [kind |-> "seq", seq |-> s, newView |-> v]
ViewTimer(v)       == [kind |-> "view", newView |-> v]
OptimisticTimer(s) == [kind |-> "optimistic", seq |-> s]

Timer == {DigestTimer(d, v) : d \in Digest, v \in 2 .. MaxView + 1}
    \cup {SeqTimer(s, v) : s \in Seqs, v \in 2 .. MaxView + 1}
    \cup {ViewTimer(v) : v \in 2 .. MaxView + 1}
    \cup {OptimisticTimer(s) : s \in Seqs}

----------------------------------------------------------------------------
Init ==
    /\ currentView = [i \in Server |-> 1]
    /\ state = [i \in Server |-> "NORMAL"]
    /\ lastProposedView = [i \in Server |-> 1]
    /\ viewChangeMessages = [i \in Server |-> {}]
    /\ currentSequence = [i \in Server |-> -1]
    /\ log = [i \in Server |-> [s \in Seqs |-> NilEntry]]
    /\ digestToEntry = [i \in Server |-> [r \in Req |-> -1]]
    /\ lastExecuted = [i \in Server |-> -1]
    /\ checkpoints = [i \in Server |-> [s \in Seqs |-> NoCheckpoint]]
    /\ lowWatermark = [i \in Server |-> 0]
    /\ stable = [i \in Server |-> [seq |-> -1, digest |-> EmptyDigest, proofs |-> {}]]
    /\ awaitedDigests = [i \in Server |-> {}]
    /\ timers = [i \in Server |-> {}]
    /\ crashed = [i \in Server |-> FALSE]
    /\ net = {}
    /\ replies = {}
    /\ executed = [i \in Server |-> NoHistory]
    /\ proposed = {}

TypeOK ==
    /\ currentView \in [Server -> Views]
    /\ state \in [Server -> {"NORMAL", "VIEW_CHANGE"}]
    /\ lastProposedView \in [Server -> Views]
    /\ viewChangeMessages \in [Server -> SUBSET ViewChange]
    /\ currentSequence \in [Server -> -1 .. MaxSeq]
    /\ log \in [Server -> [Seqs -> Entry]]
    /\ digestToEntry \in [Server -> [Req -> -1 .. MaxSeq]]
    /\ lastExecuted \in [Server -> -1 .. MaxSeq]
    /\ checkpoints \in [Server -> [Seqs -> CheckpointInfo]]
    /\ lowWatermark \in [Server -> 0 .. MaxSeq + 1]
    /\ stable \in [Server -> StableCheckpoint]
    /\ awaitedDigests \in [Server -> SUBSET Req]
    /\ timers \in [Server -> SUBSET Timer]
    /\ crashed \in [Server -> BOOLEAN]
    /\ net \subseteq Message
    /\ replies \subseteq Reply
    /\ executed \in [Server -> History]
    /\ proposed \subseteq Context
=============================================================================
