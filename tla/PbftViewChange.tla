---------------------------- MODULE PbftViewChange ----------------------------
(***************************************************************************)
(* View changes of PbftServerImpl: the timer threads that suspect a        *)
(* leader, triggerViewChange, processViewChange at joiners and at the new  *)
(* leader, processNewView, and the pure functions between them.            *)
(***************************************************************************)
EXTENDS PbftState

----------------------------------------------------------------------------
(* composeViewChangeRequest, verifyViewChange and computeBigO. *)

\* Mutant: only committed entries are reported.
CommittedOnly(e) == e.status \in {"COMMITTED", "EXECUTED"}

\* Entries that are prepared or further.
Provable(e) == e.status \in {"PREPARED", "COMMITTED", "EXECUTED"}

\* The proof attached for every slot of the window that is prepared or further.
PreparedProofs(i) ==
    {[prePrepare |-> log[i][s].prePrepare, prepares |-> Voters(log[i][s].prepares)] :
        s \in {t \in Seqs : InWindow(i, t) /\ Provable(log[i][t])}}

ComposeViewChange(i, v) ==
    [from |-> i, view |-> v, checkpoint |-> stable[i], pproofs |-> PreparedProofs(i)]

\* Mutant: one signature more.
CertifiesMore(p) == Cardinality(p.prepares) >= 2 * F + 1

\* A prepare proof carries 2f signatures.
Certifies(p) == Cardinality(p.prepares) >= 2 * F

\* A prepare proof is only held to its 2f signatures once a checkpoint is stable.
VerifyViewChange(vc) ==
    LET c == vc.checkpoint
        valid == {p \in c.proofs : SameDigest(p.digest, c.digest)}
    IN  c.seq # -1 =>
            /\ Cardinality(valid) >= 2 * F + 1
            /\ \A p \in vc.pproofs : Certifies(p)

\* The pre-prepares of a new view.  Both bounds are the code's: maxStableCheckpoint
\* starts at 0, and the loop ends before maxSequenceNum.
ComputeBigO(vcs) ==
    LET maxStable == Max({0} \cup {vc.checkpoint.seq : vc \in vcs})
        later == {p \in UNION {vc.pproofs : vc \in vcs} : p.prePrepare.seq > maxStable}
        maxSeq == Max({0} \cup {p.prePrepare.seq : p \in later})
        certified(s) == {p.prePrepare : p \in {q \in later : q.prePrepare.seq = s /\ Certifies(q)}}
        newest(s) == CHOOSE c \in certified(s) : \A d \in certified(s) : d.view <= c.view
    IN  {IF certified(s) = {} THEN Nop ELSE newest(s) : s \in (maxStable + 1) .. (maxSeq - 1)}

----------------------------------------------------------------------------
(* triggerViewChange *)

ViewChangeToAll(i, vc) ==
    ToOthers(i, [type |-> "VIEW_CHANGE", from |-> i, to |-> i, request |-> vc])

TriggerViewChange(i, v, in) ==
    /\ state' = [state EXCEPT ![i] = "VIEW_CHANGE"]
    /\ lastProposedView' = [lastProposedView EXCEPT ![i] = v]
    /\ Exchange(in, ViewChangeToAll(i, ComposeViewChange(i, v)))
    /\ UNCHANGED currentView

\* The check every timer starts with: view v is reached or already asked for.
Overtaken(i, v) ==
    \/ state[i] = "NORMAL" /\ currentView[i] >= v
    \/ state[i] = "VIEW_CHANGE" /\ lastProposedView[i] >= v

\* The timer thread ends, or proposes view v and leaves a timer for the next one.
Expire(i, t, stop, next) ==
    /\ Up(i) /\ t \in timers[i] /\ t.newView \in Views
    /\ \/ stop /\ timers' = [timers EXCEPT ![i] = @ \ {t}] /\ UNCHANGED <<viewVars, net>>
       \/ /\ ~stop
          /\ TriggerViewChange(i, t.newView, {})
          /\ timers' = [timers EXCEPT ![i] = (@ \ {t}) \cup {next}]
          /\ UNCHANGED viewChangeMessages
    /\ UNCHANGED <<logVars, execVars, stableVars, awaitedDigests, crashed, proposed>>

\* setViewChangeTimer(digest, newView, timeout): no pre-prepare came for a forwarded request.
DigestTimeout(i) == \E r \in Req, v \in Views :
    Expire(i, DigestTimer(r, v),
           Overtaken(i, v) \/ r \notin awaitedDigests[i] \/ IsLeader(i),
           DigestTimer(r, v + 1))

\* setViewChangeTimer(seqNum, newView, timeout): a pre-prepared request is not executed.
SeqTimeout(i) == \E s \in Seqs, v \in Views :
    Expire(i, SeqTimer(s, v),
           Overtaken(i, v) \/ lastExecuted[i] >= s \/ log[i][s].status = "EXECUTED",
           SeqTimer(s, v + 1))

\* setViewChangeTimer(newView, timeout): only moves lastProposedView on, nothing is sent.
ViewTimeout(i) == \E v \in Views :
    /\ Up(i) /\ ViewTimer(v) \in timers[i]
    /\ IF Overtaken(i, v) \/ state[i] = "NORMAL"
       THEN timers' = [timers EXCEPT ![i] = @ \ {ViewTimer(v)}] /\ UNCHANGED lastProposedView
       ELSE /\ timers' = [timers EXCEPT ![i] = (@ \ {ViewTimer(v)}) \cup {ViewTimer(v + 1)}]
            /\ lastProposedView' = [lastProposedView EXCEPT ![i] = v]
    /\ UNCHANGED <<currentView, state, viewChangeMessages, logVars, execVars, stableVars,
                   awaitedDigests, crashed, net, proposed>>

----------------------------------------------------------------------------
(* processViewChange *)

\* A replica keeps one request per view and sender, the last one.
Remember(i, vc) ==
    {w \in viewChangeMessages[i] : ~(w.view = vc.view /\ w.from = vc.from)} \cup {vc}

\* f + 1 servers want view v: a replica that is not its leader joins them.
JoinViewChange(i, v, msgs, in) ==
    /\ viewChangeMessages' = [viewChangeMessages EXCEPT ![i] = msgs]
    /\ TriggerViewChange(i, v, in)
    /\ timers' = [timers EXCEPT ![i] = @ \cup {ViewTimer(v)}]

\* Mutant: the leader pads its pre-prepares with a NOP.
NewViewPadded(i, v, vcs, prePrepares) ==
    ToOthers(i, [type |-> "NEW_VIEW", from |-> i, to |-> i, view |-> v,
                 vproofs |-> vcs, prePrepares |-> prePrepares \cup {Nop}])

NewViewToAll(i, v, vcs, prePrepares) ==
    ToOthers(i, [type |-> "NEW_VIEW", from |-> i, to |-> i, view |-> v,
                 vproofs |-> vcs, prePrepares |-> prePrepares])

\* 2f servers want view v: its leader adds its own request and starts the view.
\* The pre-prepares go out but not into the leader's own log.
StartView(i, v, msgs, in) ==
    LET own == ComposeViewChange(i, v)
        vcs == {w \in msgs : w.view = v /\ w.from # i} \cup {own}
    IN  /\ viewChangeMessages' = [viewChangeMessages EXCEPT ![i] = msgs \cup {own}]
        /\ state' = [state EXCEPT ![i] = "NORMAL"]
        /\ currentView' = [currentView EXCEPT ![i] = v]
        /\ Exchange(in, NewViewToAll(i, v, vcs, ComputeBigO(vcs)))
        /\ UNCHANGED <<lastProposedView, timers>>

\* Mutant: the leader's own request is not counted in.
MoreToLead(count) == count = 2 * F + 1

\* The requests of others a new leader waits for.
EnoughToLead(count) == count = 2 * F

ProcessViewChange(i) == \E m \in net :
    LET v     == m.request.view
        msgs  == Remember(i, m.request)
        count == Cardinality({w \in msgs : w.view = v})
        join  == Leader(v) # i /\ count = F + 1 /\ state[i] # "VIEW_CHANGE"
        lead  == Leader(v) = i /\ EnoughToLead(count) /\ i \notin Byzantine
        accepted == VerifyViewChange(m.request) /\ v > currentView[i]
    IN  /\ Receive(i, m, "VIEW_CHANGE")
        /\ \/ ~accepted /\ Ignore({m})
           \/ /\ accepted
              /\ \/ join /\ JoinViewChange(i, v, msgs, {m})
                 \/ lead /\ StartView(i, v, msgs, {m})
                 \/ /\ ~join /\ ~lead
                    /\ viewChangeMessages' = [viewChangeMessages EXCEPT ![i] = msgs]
                    /\ Exchange({m}, {})
                    /\ UNCHANGED <<currentView, state, lastProposedView, timers>>
              /\ UNCHANGED <<logVars, execVars, stableVars, awaitedDigests, crashed, proposed>>

----------------------------------------------------------------------------
(* processNewView: enter the view and acknowledge its pre-prepares to the  *)
(* leader, under the view they were first proposed in.                     *)

AcceptsNewView(i, m) ==
    /\ m.view > currentView[i]
    /\ Cardinality({vc \in m.vproofs : VerifyViewChange(vc)}) >= 2 * F + 1
    /\ ComputeBigO(m.vproofs) \subseteq m.prePrepares

ProcessNewView(i) == \E m \in net :
    /\ Receive(i, m, "NEW_VIEW")
    /\ \/ ~AcceptsNewView(i, m) /\ Ignore({m})
       \/ /\ AcceptsNewView(i, m)
          /\ state' = [state EXCEPT ![i] = "NORMAL"]
          /\ currentView' = [currentView EXCEPT ![i] = m.view]
          /\ viewChangeMessages' = [viewChangeMessages EXCEPT ![i] =
                                       {w \in @ : w.view # m.view} \cup m.vproofs]
          /\ Exchange({m}, {Ack(i, Leader(m.view), "PRE_PREPARE_OK", c) : c \in m.prePrepares})
          /\ UNCHANGED <<lastProposedView, logVars, execVars, stableVars, timerVars, crashed, proposed>>

ViewChanging(i) ==
    \/ DigestTimeout(i) \/ SeqTimeout(i) \/ ViewTimeout(i)
    \/ ProcessViewChange(i) \/ ProcessNewView(i)
=============================================================================
