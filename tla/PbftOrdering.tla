---------------------------- MODULE PbftOrdering ----------------------------
(***************************************************************************)
(* The ordering handlers of PbftServerImpl: processTransfer, the           *)
(* pre-prepare / prepare / commit phases through the leader as collector,  *)
(* the optimistic timer that skips the prepare phase, and executePending   *)
(* with the checkpoints it takes.  Each action is one whole handler.       *)
(***************************************************************************)
EXTENDS PbftState

----------------------------------------------------------------------------
(* executePending() and checkpoint(). *)

\* Mutant: a prepared entry is enough.
ExecutablePrepared(l, last, current) ==
    {s \in (last + 1) .. current :
        /\ l[s].status \in {"PREPARED", "COMMITTED"}
        /\ \A t \in (last + 1) .. (s - 1) : l[t].status \in {"NIL", "PREPARED", "COMMITTED", "EXECUTED"}}

\* Numbers the loop executes when it meets the log l: it stops at the first
\* entry that is neither committed nor executed and steps over null slots.
Executable(l, last, current) ==
    {s \in (last + 1) .. current :
        /\ l[s].status = "COMMITTED"
        /\ \A t \in (last + 1) .. (s - 1) : l[t].status \in {"NIL", "COMMITTED", "EXECUTED"}}

IsCheckpoint(s) == s % CheckpointStep = CheckpointStep - 1

CheckpointToAll(i, s, d) ==
    ToOthers(i, [type |-> "CHECKPOINT", from |-> i, to |-> i, seq |-> s, digest |-> d])

\* Server i runs executePending() on the log l, having consumed the messages
\* `in` and sent `out`.
ExecutePending(i, l, in, out) ==
    LET S == Executable(l, lastExecuted[i], currentSequence[i])
        h == [s \in Seqs |-> IF s \in S THEN l[s].m ELSE executed[i][s]]
        C == {s \in S : IsCheckpoint(s)}
        d == [s \in Seqs |-> DigestOf(UpTo(h, s))]
    IN  /\ log' = [log EXCEPT ![i] =
                      [s \in Seqs |-> IF s \in S THEN [l[s] EXCEPT !.status = "EXECUTED"] ELSE l[s]]]
        /\ executed' = [executed EXCEPT ![i] = h]
        /\ lastExecuted' = [lastExecuted EXCEPT ![i] = IF S = {} THEN @ ELSE Max(S)]
        /\ replies' = replies \cup
              {[from |-> i, view |-> currentView[i], m |-> h[s], ack |-> Succeeds(h, s)] : s \in S}
        /\ checkpoints' = [checkpoints EXCEPT ![i] =
              [s \in Seqs |-> IF s \in C
                              THEN [@[s] EXCEPT !.exists = TRUE, !.digest = d[s]]
                              ELSE @[s]]]
        /\ Exchange(in, out \cup UNION {CheckpointToAll(i, s, d[s]) : s \in C})

----------------------------------------------------------------------------
(* processTransfer: a request arrives from its client (in = {}) or is      *)
(* forwarded by a backup (in holds the message).                           *)

\* notifyClient for a request whose entry is executed already.
AnswerAgain(i, r, in) ==
    /\ replies' = replies \cup
          {[from |-> i, view |-> currentView[i], m |-> r,
            ack |-> Succeeds(executed[i], digestToEntry[i][r])]}
    /\ Exchange(in, {})
    /\ UNCHANGED <<viewVars, logVars, lastExecuted, executed, checkpoints, stableVars,
                   timerVars, crashed, proposed>>

\* A backup passes the request on and waits for the leader's pre-prepare.
ForwardToLeader(i, r, in) ==
    /\ Exchange(in, {[type |-> "TRANSFER", from |-> i, to |-> Leader(currentView[i]), m |-> r]})
    /\ awaitedDigests' = [awaitedDigests EXCEPT ![i] = @ \cup {r}]
    /\ timers' = [timers EXCEPT ![i] = @ \cup {DigestTimer(r, currentView[i] + 1)}]
    /\ UNCHANGED <<viewVars, logVars, execVars, stableVars, crashed, proposed>>

\* A leader re-issues an entry an earlier leader created; mstatus stays as it is.
ProposeAgain(i, r, in) ==
    LET s    == digestToEntry[i][r]
        data == [log[i][s].prePrepare EXCEPT !.view = currentView[i]]
    IN  /\ log' = [log EXCEPT ![i][s] =
                      [@ EXCEPT !.prePrepare = data, !.from = i,
                                !.prepares = NoVotes, !.commits = NoVotes]]
        /\ proposed' = proposed \cup {data}
        /\ Exchange(in, PrePrepareToAll(i, data, r))
        /\ UNCHANGED <<viewVars, currentSequence, digestToEntry, execVars, stableVars,
                       timerVars, crashed>>

\* Mutant: counting on from the last execution.
NextUnexecuted(i) == lastExecuted[i] + 1
NextSequence(i)   == currentSequence[i] + 1

\* A leader gives the request the next number.  Nothing checks the window: an
\* index of k or more writes past the vector, after which the process is undefined
\* and may or may not still send the pre-prepare.
ProposeNew(i, r, in) ==
    LET s    == NextSequence(i)
        data == [view |-> currentView[i], seq |-> s, digest |-> r]
    IN  /\ s \in Seqs
        /\ currentSequence' = [currentSequence EXCEPT ![i] = s]
        /\ log' = [log EXCEPT ![i][s] = NewEntry(r, data, i, NoVotes)]
        /\ digestToEntry' = [digestToEntry EXCEPT ![i][r] = s]
        /\ crashed' = [crashed EXCEPT ![i] = ~InWindow(i, s)]
        /\ proposed' = proposed \cup {data}
        /\ \/ Exchange(in, PrePrepareToAll(i, data, r))
           \/ ~InWindow(i, s) /\ Exchange(in, {})
        /\ UNCHANGED <<viewVars, execVars, stableVars, timerVars>>

\* Mutant: every repetition of the request is proposed again.
NeverProposed(i, s) == FALSE

\* The leader of this view has sent the pre-prepare of entry s already.
AlreadyProposed(i, s) == log[i][s].from = Leader(currentView[i])

\* Mutant: requests are not recognised.
NeverKnown(i, r) == FALSE

\* The server has an entry for the request.
Known(i, r) == digestToEntry[i][r] # -1

ProcessTransfer(i, r, in) ==
    LET s     == digestToEntry[i][r]
        known == Known(i, r)
        done  == known /\ log[i][s].status = "EXECUTED"
    IN  \/ state[i] = "VIEW_CHANGE" /\ Ignore(in)
        \/ state[i] = "NORMAL" /\ done /\ AnswerAgain(i, r, in)
        \/ state[i] = "NORMAL" /\ ~done /\ ~IsLeader(i) /\ ForwardToLeader(i, r, in)
        \/ /\ state[i] = "NORMAL" /\ IsLeader(i) /\ known /\ ~done
           /\ \/ (AlreadyProposed(i, s) \/ i \in Byzantine) /\ Ignore(in)
              \/ ~AlreadyProposed(i, s) /\ i \notin Byzantine /\ ProposeAgain(i, r, in)
        \/ state[i] = "NORMAL" /\ IsLeader(i) /\ ~known /\ ProposeNew(i, r, in)

\* The request comes straight from a client, who may send it at any time and as
\* often as it likes.
ClientTransfer(i) ==
    Up(i) /\ \E r \in Req : <<r, i>> \in ClientSends /\ ProcessTransfer(i, r, {})

ForwardedTransfer(i) ==
    \E m \in net : Receive(i, m, "TRANSFER") /\ ProcessTransfer(i, m.m, {m})

----------------------------------------------------------------------------
(* processPrePrepare *)

\* Mutant: the sender is held against the view of the message, not of the server.
AcceptsOwnView(i, m) ==
    /\ state[i] = "NORMAL"
    /\ m.from = Leader(m.data.view)
    /\ InWindow(i, m.data.seq)
    /\ m.data.digest = m.m

AcceptsPrePrepare(i, m) ==
    /\ state[i] = "NORMAL"
    /\ m.from = Leader(currentView[i])
    /\ m.data.view = currentView[i]
    /\ InWindow(i, m.data.seq)
    /\ m.data.digest = m.m

\* The slot holds another request of the same or a later view.
SlotTaken(i, m) ==
    LET e == log[i][m.data.seq]
    IN  e.status # "NIL" /\ m.data.view <= e.prePrepare.view /\ m.data.digest # e.prePrepare.digest

StorePrePrepare(i, m) ==
    LET s == m.data.seq
    IN  /\ log' = [log EXCEPT ![i][s] =
                      NewEntry(m.m, m.data, m.from, AddVotes(NoVotes, {i}, m.data.view))]
        /\ digestToEntry' = [digestToEntry EXCEPT ![i][m.m] = s]
        /\ timers' = [timers EXCEPT ![i] = @ \cup {SeqTimer(s, currentView[i] + 1)}]
        /\ Exchange({m}, IF i \in Byzantine THEN {}
                         ELSE {Ack(i, m.from, "PRE_PREPARE_OK", m.data)})

ProcessPrePrepare(i) == \E m \in net :
    /\ Receive(i, m, "PRE_PREPARE")
    /\ \/ ~AcceptsPrePrepare(i, m) /\ Ignore({m})
       \/ /\ AcceptsPrePrepare(i, m)
          /\ awaitedDigests' = [awaitedDigests EXCEPT ![i] = @ \ {m.m}]
          /\ currentSequence' = [currentSequence EXCEPT ![i] = Max({@, m.data.seq})]
          /\ \/ SlotTaken(i, m) /\ Exchange({m}, {}) /\ UNCHANGED <<log, digestToEntry, timers>>
             \/ ~SlotTaken(i, m) /\ StorePrePrepare(i, m)
          /\ UNCHANGED <<viewVars, execVars, stableVars, crashed, proposed>>

----------------------------------------------------------------------------
(* processPrePrepareOk: the collector checks neither the view of the       *)
(* acknowledgement nor that its own slot is there.                         *)

CountPrePrepareOk(i, m) ==
    LET s == m.data.seq
        e == [log[i][s] EXCEPT !.prepares = AddVotes(@, {m.from}, m.data.view)]
        quorum == i \notin Byzantine /\ e.status = "PRE_PREPARED" /\ PreparedQuorum(e.prepares)
    IN  /\ log' = [log EXCEPT ![i][s] = IF quorum THEN [e EXCEPT !.status = "PREPARED"] ELSE e]
        /\ timers' = [timers EXCEPT ![i] = IF quorum THEN @ \cup {OptimisticTimer(s)} ELSE @]
        /\ Exchange({m}, {})
        /\ UNCHANGED <<viewVars, currentSequence, digestToEntry, execVars, stableVars,
                       awaitedDigests, crashed, proposed>>

ProcessPrePrepareOk(i) == \E m \in net :
    LET active  == state[i] = "NORMAL" /\ IsLeader(i)
        present == Present(i, m.data.seq)
        matches == log[i][m.data.seq].prePrepare.digest = m.data.digest
    IN  /\ Receive(i, m, "PRE_PREPARE_OK")
        /\ \/ (~active \/ (present /\ ~matches)) /\ Ignore({m})
           \/ active /\ ~present /\ Crash(i, {m})
           \/ active /\ present /\ matches /\ CountPrePrepareOk(i, m)

----------------------------------------------------------------------------
(* The optimistic timer: 2 s after 2f acknowledgements, all 3f of them     *)
(* commit at once, fewer go through the prepare phase.                     *)

FastCommit(i, s) ==
    LET e == [log[i][s] EXCEPT !.status = "COMMITTED",
                               !.commits = AddVotes(log[i][s].prepares, {i}, log[i][s].prePrepare.view)]
    IN  ExecutePending(i, [log[i] EXCEPT ![s] = e], {},
                       ProofToAll(i, "COMMIT", e.prePrepare, Voters(e.prepares) \cup {i}))

SlowPrepare(i, s) ==
    LET e == log[i][s]
    IN  /\ log' = [log EXCEPT ![i][s].commits = AddVotes(@, {i}, e.prePrepare.view)]
        /\ Exchange({}, ProofToAll(i, "PREPARE", e.prePrepare, Voters(e.prepares)))
        /\ UNCHANGED execVars

OptimisticTimeout(i) == \E s \in Seqs :
    /\ Up(i) /\ OptimisticTimer(s) \in timers[i]
    /\ timers' = [timers EXCEPT ![i] = @ \ {OptimisticTimer(s)}]
    /\ \/ /\ state[i] = "NORMAL" /\ Present(i, s)
          /\ \/ FastQuorum(log[i][s].prepares) /\ FastCommit(i, s)
             \/ ~FastQuorum(log[i][s].prepares) /\ SlowPrepare(i, s)
          /\ UNCHANGED crashed
       \/ /\ ~(state[i] = "NORMAL" /\ Present(i, s))
          /\ crashed' = [crashed EXCEPT ![i] = state[i] = "NORMAL"]
          /\ UNCHANGED <<log, execVars, net>>
    /\ UNCHANGED <<viewVars, currentSequence, digestToEntry, stableVars, awaitedDigests, proposed>>

----------------------------------------------------------------------------
(* processPrepare and processCommit: a certificate from the collector. *)

\* The signatures of a certificate count when it is about the entry's own context.
Certified(m, e, votes) ==
    IF m.data.view = e.prePrepare.view /\ m.data.digest = e.prePrepare.digest
    THEN AddVotes(votes, m.sigs, m.data.view) ELSE votes

AcceptsCertificate(i, m, statuses) ==
    /\ state[i] = "NORMAL" /\ i \notin Byzantine
    /\ m.data.view = currentView[i]
    /\ Present(i, m.data.seq)
    /\ log[i][m.data.seq].status \in statuses

ProcessPrepare(i) == \E m \in net :
    LET s == m.data.seq
        e == [log[i][s] EXCEPT !.prepares = Certified(m, log[i][s], @)]
        quorum == PreparedQuorum(e.prepares)
    IN  /\ Receive(i, m, "PREPARE")
        /\ \/ ~AcceptsCertificate(i, m, {"PRE_PREPARED"}) /\ Ignore({m})
           \/ /\ AcceptsCertificate(i, m, {"PRE_PREPARED"})
              /\ log' = [log EXCEPT ![i][s] = IF quorum THEN [e EXCEPT !.status = "PREPARED"] ELSE e]
              /\ Exchange({m}, IF quorum THEN {Ack(i, Leader(currentView[i]), "PREPARE_OK", m.data)}
                               ELSE {})
              /\ UNCHANGED <<viewVars, currentSequence, digestToEntry, execVars, stableVars,
                             timerVars, crashed, proposed>>

ProcessCommit(i) == \E m \in net :
    LET s == m.data.seq
        e == [log[i][s] EXCEPT !.commits = Certified(m, log[i][s], @)]
        quorum == CommittedQuorum(e.commits)
    IN  /\ Receive(i, m, "COMMIT")
        /\ \/ ~AcceptsCertificate(i, m, {"PRE_PREPARED", "PREPARED"}) /\ Ignore({m})
           \/ /\ AcceptsCertificate(i, m, {"PRE_PREPARED", "PREPARED"})
              /\ \/ ~quorum /\ log' = [log EXCEPT ![i][s] = e] /\ Exchange({m}, {}) /\ UNCHANGED execVars
                 \/ /\ quorum
                    /\ ExecutePending(i, [log[i] EXCEPT ![s] = [e EXCEPT !.status = "COMMITTED"]], {m}, {})
              /\ UNCHANGED <<viewVars, currentSequence, digestToEntry, stableVars,
                             timerVars, crashed, proposed>>

----------------------------------------------------------------------------
(* processPrepareOk: the collector gathers 2f + 1 commit signatures. *)

CountPrepareOk(i, m) ==
    LET s == m.data.seq
        e == [log[i][s] EXCEPT !.commits = AddVotes(@, {m.from}, m.data.view)]
        quorum == e.status = "PREPARED" /\ CommittedQuorum(e.commits)
    IN  /\ \/ ~quorum /\ log' = [log EXCEPT ![i][s] = e] /\ Exchange({m}, {}) /\ UNCHANGED execVars
           \/ /\ quorum
              /\ ExecutePending(i, [log[i] EXCEPT ![s] = [e EXCEPT !.status = "COMMITTED"]], {m},
                                ProofToAll(i, "COMMIT", e.prePrepare, Voters(e.commits)))
        /\ UNCHANGED <<viewVars, currentSequence, digestToEntry, stableVars, timerVars,
                       crashed, proposed>>

ProcessPrepareOk(i) == \E m \in net :
    LET active  == state[i] = "NORMAL" /\ IsLeader(i)
        present == Present(i, m.data.seq)
        matches == log[i][m.data.seq].prePrepare.digest = m.data.digest
    IN  /\ Receive(i, m, "PREPARE_OK")
        /\ \/ (~active \/ (present /\ ~matches)) /\ Ignore({m})
           \/ active /\ ~present /\ Crash(i, {m})
           \/ active /\ present /\ matches /\ CountPrepareOk(i, m)

Ordering(i) ==
    \/ ClientTransfer(i) \/ ForwardedTransfer(i)
    \/ ProcessPrePrepare(i) \/ ProcessPrePrepareOk(i)
    \/ OptimisticTimeout(i)
    \/ ProcessPrepare(i) \/ ProcessPrepareOk(i) \/ ProcessCommit(i)
=============================================================================
