---------------------------- MODULE PbftViewProofs ----------------------------
(* What survives the first change of view: unless all servers are correct, so  *)
(* that the short cut is open, what was executed in view 1 is known to view 2. *)
EXTENDS PbftCommitProofs

\* Nobody has gone further than the second view.
FirstTwo == \A j \in Server : currentView[j] <= 2

\* Every request to change the view there is, sent, kept or shown.
Requests ==
    {m.request : m \in {n \in net : n.type = "VIEW_CHANGE"}}
    \cup (UNION {viewChangeMessages[j] : j \in Server})
    \cup (UNION {m.vproofs : m \in {n \in net : n.type = "NEW_VIEW"}})

\* The request shows a certificate for p, or a checkpoint that makes it needless.
Shows(vc, p) ==
    \/ vc.checkpoint.seq >= p.seq
    \/ \E q \in vc.pproofs : q.prePrepare = p /\ Certifies(q)

\* Server j prepared p in view 1, and whatever it asks the second view with shows it.
Pledged(j, p) ==
    /\ \A vc \in Requests : vc.from = j /\ vc.view = 2 => Shows(vc, p)
    /\ currentView[j] = 1 =>
          LET e == log[j][p.seq]
          IN  e.prePrepare = p /\ Prepared(e) /\ PreparedQuorum(e.prepares)

Pledgers(p) == {j \in Server : Pledged(j, p)}
Secured(p)  == Cardinality(Pledgers(p)) >= 2 * F + 1

\* The leader of the second view has found p and has it acknowledged again.
Found(p) == Repeated(Leader(2), p)

\* What is not found yet and has to be.
Open(p) == p \in proposed /\ p.view = 1 /\ ~Found(p)

MessagePledged(m) ==
    /\ m.type = "PRE_PREPARE_OK" /\ Open(m.data) => m.from \in Correct \ {m.to}
    /\ m.type = "PREPARE_OK" /\ Open(m.data)     => Pledged(m.from, m.data)
    /\ m.type = "PREPARE" /\ Open(m.data)        => m.to # Leader(1)
    /\ m.type = "COMMIT" /\ Open(m.data)         => Secured(m.data)

\* The votes of an entry for p at server i.
VotesPledged(i, e, p) ==
    /\ Voters(e.commits) \subseteq Pledgers(p) \/ Secured(p)
    /\ Committed(e) => Secured(p)
    /\ i = Leader(1) => Voters(e.prepares) \subseteq Correct \ {i}

\* The short cut is a matter of the first leader, who prepared.
TimerPledged(i, p) == i = Leader(1) /\ i \in Correct /\ Pledged(i, p)

EntryPledged(i, s) ==
    LET e == log[i][s]
        p == e.prePrepare
    IN  e.status # "NIL" /\ Open(p) =>
            /\ VotesPledged(i, e, p)
            /\ OptimisticTimer(s) \in timers[i] => TimerPledged(i, p)

Pledges ==
    /\ \A m \in net : MessagePledged(m)
    /\ \A i \in Server, s \in Seqs : EntryPledged(i, s)

PledgeInv == FirstTwo => Pledges

----------------------------------------------------------------------------
ProposedInViews == \A p \in proposed : p.view >= 1

\* What is executed is what the entry says, as long as its status says so.
ExecutedIsHeld == \A i \in Server, s \in Seqs :
    log[i][s].status = "EXECUTED" => executed[i][s] = log[i][s].prePrepare.digest

\* Everything a server holds is below the top of its window, or it is gone.
BelowTop == \A i \in Server :
    /\ lowWatermark[i] = stable[i].seq + 1
    /\ \A s \in Seqs : log[i][s].status # "NIL" => s <= lowWatermark[i] + K - 1 \/ crashed[i]

\* Who asked for the second view has left the first.
AskedHaveLeft == \A vc \in Requests : vc.view = 2 =>
    state[vc.from] = "VIEW_CHANGE" \/ currentView[vc.from] >= 2

OneEach(vcs) == \A vc, w \in vcs : vc.view = w.view /\ vc.from = w.from => vc = w

Later(i) == {vc \in viewChangeMessages[i] : vc.view > currentView[i]}

\* A NEW_VIEW message shows the requests its leader keeps for the view, 2f + 1 of them.
Shown(m) ==
    /\ m.vproofs = {vc \in viewChangeMessages[Leader(m.view)] : vc.view = m.view}
    /\ Cardinality({vc.from : vc \in m.vproofs}) >= 2 * F + 1

EnoughShown ==
    /\ \A i \in Server : OneEach(Later(i))
    /\ \A m \in net : m.type = "NEW_VIEW" => Shown(m)

SurveyInv ==
    /\ ProposedInViews
    /\ ExecutedIsHeld
    /\ BelowTop
    /\ AskedHaveLeft
    /\ EnoughShown

----------------------------------------------------------------------------
(* What a step of server i does to its log.                                  *)

\* f is e with more votes, or another assignment.
Grown(e, f) == f.prePrepare = e.prePrepare =>
    Voters(e.prepares) \subseteq Voters(f.prepares) /\ (Prepared(e) => Prepared(f))

Tidy(i) == \A s \in Seqs :
    LET e == log[i][s]
        f == log'[i][s]
    IN  /\ Grown(e, f)
        /\ f.status # "NIL" => e.status # "NIL" \/ InWindow(i, s) \/ crashed'[i]
        /\ f.status = "EXECUTED" => executed'[i][s] = f.prePrepare.digest

LEMMA IdleIsTidy ==
    ASSUME Inv, ExecutedIsHeld, NEW i \in Server, UNCHANGED <<log, executed>>
    PROVE  Tidy(i)
  BY DEF Tidy, Grown, ExecutedIsHeld

LEMMA WritingIsTidy ==
    ASSUME Inv, ExecutedIsHeld, NEW i \in Server, NEW s \in Seqs, NEW e,
           log' = [log EXCEPT ![i][s] = e], UNCHANGED executed, Grown(log[i][s], e),
           e.status # "NIL" => log[i][s].status # "NIL" \/ InWindow(i, s) \/ crashed'[i],
           e.status = "EXECUTED" => log[i][s].status = "EXECUTED" /\ e.prePrepare = log[i][s].prePrepare
    PROVE  Tidy(i)
<1>1. \A t \in Seqs : log'[i][t] = IF t = s THEN e ELSE log[i][t]
  BY DEF Inv, TypeOK
<1> QED
  BY <1>1 DEF Tidy, Grown, ExecutedIsHeld

LEMMA ExecutingIsTidy ==
    ASSUME Inv, ExecutedIsHeld, NEW i \in Server, NEW s \in Seqs, NEW e \in Entry, NEW in, NEW out,
           SameAssignment(log[i][s], e), log[i][s].status # "NIL", e.status = "COMMITTED",
           e.prepares = log[i][s].prepares,
           ExecutePending(i, [log[i] EXCEPT ![s] = e], in, out)
    PROVE  Tidy(i)
<1> DEFINE l == [log[i] EXCEPT ![s] = e]
           S == Executable(l, lastExecuted[i], currentSequence[i])
<1>1. /\ log' = [log EXCEPT ![i] =
                    [t \in Seqs |-> IF t \in S THEN [l[t] EXCEPT !.status = "EXECUTED"] ELSE l[t]]]
      /\ executed' = [executed EXCEPT ![i] =
                         [t \in Seqs |-> IF t \in S THEN l[t].m ELSE executed[i][t]]]
  BY DEF ExecutePending
<1>2. \A t \in S : l[t].status = "COMMITTED"
  BY DEF Executable
<1>3. \A t \in Seqs : l[t] \in Entry /\ l[t] = IF t = s THEN e ELSE log[i][t]
  BY DEF Inv, TypeOK
<1> HIDE DEF S, l
<1>4. \A t \in Seqs : /\ log'[i][t] = IF t \in S THEN [l[t] EXCEPT !.status = "EXECUTED"] ELSE l[t]
                      /\ executed'[i][t] = IF t \in S THEN l[t].m ELSE executed[i][t]
  BY <1>1 DEF Inv, TypeOK
<1> SUFFICES ASSUME NEW t \in Seqs
             PROVE  /\ Grown(log[i][t], log'[i][t])
                    /\ log[i][t].status = "NIL" => log'[i][t].status = "NIL"
                    /\ log'[i][t].status = "EXECUTED" => executed'[i][t] = log'[i][t].prePrepare.digest
  BY DEF Tidy
<1>5. /\ l[t].prePrepare = log[i][t].prePrepare /\ l[t].m = log[i][t].m
      /\ l[t].prepares = log[i][t].prepares
      /\ Prepared(log[i][t]) => Prepared(l[t])
      /\ log[i][t].status = "NIL" => l[t].status = "NIL"
      /\ l[t].status = "EXECUTED" => log[i][t].status = "EXECUTED"
  BY <1>3 DEF SameAssignment, Prepared
<1>6. log[i][t].m = log[i][t].prePrepare.digest
  BY DEF Inv, LogInv, EntriesHoldDigests
<1>7. CASE t \in S
  <2>1. /\ log'[i][t] = [l[t] EXCEPT !.status = "EXECUTED"] /\ l[t] \in Entry
        /\ executed'[i][t] = l[t].m /\ l[t].status = "COMMITTED"
    BY <1>2, <1>3, <1>4, <1>7
  <2>2. /\ log'[i][t].status = "EXECUTED" /\ log'[i][t].prePrepare = l[t].prePrepare
        /\ log'[i][t].prepares = l[t].prepares
    BY <2>1 DEF Entry
  <2> QED
    BY <1>5, <1>6, <2>1, <2>2 DEF Grown, Prepared
<1>8. CASE t \notin S
  BY <1>4, <1>5, <1>8 DEF Grown, ExecutedIsHeld
<1> QED
  BY <1>7, <1>8

\* A leader proposes an entry again in a later view than the entry's own.
LEMMA AgainIsLater ==
    ASSUME Inv, NEW i \in Server, NEW s \in Seqs, log[i][s].status # "NIL",
           IsLeader(i), ~AlreadyProposed(i, s)
    PROVE  log[i][s].prePrepare.view < currentView[i]
<1> DEFINE p == log[i][s].prePrepare
<1>1. p \in proposed /\ p.seq = s
  BY DEF Inv, AssignmentInv, EntriesAreProposed
<1>2. p.view # currentView[i]
  BY <1>1 DEF Inv, AssignmentInv, LeadersKeepAssignments, IsLeader, AlreadyProposed
<1>3. p.view <= currentView[i]
  BY DEF Inv, LogInv, EntriesAreOfPastViews
<1> QED
  BY <1>1, <1>2, <1>3, NumberFacts DEF Inv

LEMMA TransferIsTidy ==
    ASSUME Inv, ExecutedIsHeld, NEW i \in Server, NEW r \in Req, NEW in, ProcessTransfer(i, r, in)
    PROVE  Tidy(i)
<1>1. CASE Ignore(in) \/ AnswerAgain(i, r, in) \/ ForwardToLeader(i, r, in)
  BY <1>1, IdleIsTidy DEF Ignore, AnswerAgain, ForwardToLeader, logVars, execVars
<1>2. CASE /\ Known(i, r) /\ IsLeader(i) /\ ~AlreadyProposed(i, digestToEntry[i][r])
           /\ log[i][digestToEntry[i][r]].status # "EXECUTED" /\ ProposeAgain(i, r, in)
  <2>1. PICK s \in Seqs : s = digestToEntry[i][r]
    BY <1>2, NumberFacts DEF Inv
  <2>2. PICK p : p = [log[i][s].prePrepare EXCEPT !.view = currentView[i]]
    OBVIOUS
  <2>3. PICK e : e = [log[i][s] EXCEPT !.prePrepare = p, !.from = i,
                                       !.prepares = NoVotes, !.commits = NoVotes]
    OBVIOUS
  <2>4. log' = [log EXCEPT ![i][s] = e] /\ UNCHANGED executed
    <3>1. log' = [log EXCEPT ![i][s] =
                    [@ EXCEPT !.prePrepare = p, !.from = i, !.prepares = NoVotes, !.commits = NoVotes]]
      BY <1>2, <2>1, <2>2 DEF ProposeAgain
    <3>2. log' = [log EXCEPT ![i][s] = e]
      BY <2>3, <3>1 DEF Inv, TypeOK
    <3> QED
      BY <1>2, <3>2 DEF ProposeAgain, execVars
  <2>5. log[i][s].status \notin {"NIL", "EXECUTED"}
    BY <1>2, <2>1 DEF Inv, AssignmentInv, DigestsHaveEntries
  <2>6. log[i][s] \in Entry /\ log[i][s].prePrepare \in Context
    BY EntryAt DEF Inv
  <2>7. e.status = log[i][s].status /\ e.prePrepare = p /\ p.view = currentView[i]
    BY <2>2, <2>3, <2>6 DEF Entry, Context
  <2>8. p # log[i][s].prePrepare
    <3>1. log[i][s].prePrepare.view < currentView[i]
      BY <1>2, <2>1, <2>5, AgainIsLater
    <3>2. currentView[i] \in Int
      BY NumberFacts DEF Inv
    <3> QED
      BY <2>7, <3>1, <3>2
  <2> QED
    BY <2>4, <2>5, <2>7, <2>8, WritingIsTidy DEF Grown
<1>3. CASE ProposeNew(i, r, in)
  <2>1. PICK s \in Seqs : s = NextSequence(i)
    BY <1>3 DEF ProposeNew
  <2>2. PICK e : e = NewEntry(r, [view |-> currentView[i], seq |-> s, digest |-> r], i, NoVotes)
    OBVIOUS
  <2>3. /\ log' = [log EXCEPT ![i][s] = e] /\ UNCHANGED executed
        /\ crashed' = [crashed EXCEPT ![i] = ~InWindow(i, s)]
    BY <1>3, <2>1, <2>2 DEF ProposeNew, execVars
  <2>4. log[i][s].status = "NIL"
    <3>1. s \in Int /\ currentSequence[i] \in Int /\ s > currentSequence[i]
      BY <2>1, NumberFacts DEF NextSequence, Inv
    <3> QED
      BY <3>1 DEF Inv, AssignmentInv, EntriesAreProposed
  <2>5. log[i][s].prePrepare = Nop
    BY <2>4 DEF Inv, LogInv, NilIsEmpty
  <2>6. e.status = "PRE_PREPARED" /\ e.prePrepare # Nop
    <3>1. e.status = "PRE_PREPARED" /\ e.prePrepare.seq = s
      BY <2>2 DEF NewEntry
    <3> QED
      BY <3>1, NumberFacts DEF Nop, Inv
  <2>7. InWindow(i, s) \/ crashed'[i]
    BY <2>3 DEF Inv, TypeOK
  <2> QED
    BY <2>3, <2>5, <2>6, <2>7, WritingIsTidy DEF Grown
<1> QED
  BY <1>1, <1>2, <1>3 DEF ProcessTransfer

LEMMA PrePrepareIsTidy ==
    ASSUME Inv, ExecutedIsHeld, NEW i \in Server, ProcessPrePrepare(i)
    PROVE  Tidy(i)
<1>1. PICK m \in net :
         /\ Receive(i, m, "PRE_PREPARE")
         /\ \/ UNCHANGED <<log, executed>>
            \/ AcceptsPrePrepare(i, m) /\ StorePrePrepare(i, m) /\ UNCHANGED executed
  BY DEF ProcessPrePrepare, Ignore, logVars, execVars
<1>2. CASE AcceptsPrePrepare(i, m) /\ StorePrePrepare(i, m) /\ UNCHANGED executed
  <2>1. PICK s \in Seqs : s = m.data.seq
    BY <1>1 DEF Inv, AssignmentInv, PrePreparesAreProposed, LeadersKeepAssignments, Receive
  <2>2. PICK e : e = NewEntry(m.m, m.data, m.from, AddVotes(NoVotes, {i}, m.data.view))
    OBVIOUS
  <2>3. log' = [log EXCEPT ![i][s] = e]
    BY <1>2, <2>1, <2>2 DEF StorePrePrepare
  <2>4. e.status = "PRE_PREPARED" /\ e.prePrepare = m.data
    BY <2>2 DEF NewEntry
  <2>5. log[i][s].prePrepare # m.data /\ InWindow(i, s)
    BY <1>1, <1>2, <2>1 DEF Inv, LogInv, PrePreparesAreNew, Receive, AcceptsPrePrepare
  <2> QED
    BY <1>2, <2>3, <2>4, <2>5, WritingIsTidy DEF Grown
<1> QED
  BY <1>1, <1>2, IdleIsTidy

\* The votes of an entry, and the status they give it, are all a collector or a
\* certificate changes.
LEMMA VotingIsTidy ==
    ASSUME Inv, ExecutedIsHeld, NEW i \in Server, NEW s \in Seqs, NEW e,
           log' = [log EXCEPT ![i][s] = e], UNCHANGED executed,
           log[i][s].status # "NIL", e.prePrepare = log[i][s].prePrepare,
           e.status = log[i][s].status \/ (log[i][s].status = "PRE_PREPARED" /\ e.status = "PREPARED"),
           Voters(log[i][s].prepares) \subseteq Voters(e.prepares)
    PROVE  Tidy(i)
  BY WritingIsTidy DEF Grown, Prepared

LEMMA VotersGrow ==
    ASSUME NEW votes, NEW from \in SUBSET Server, NEW v, v # -1
    PROVE  Voters(votes) \subseteq Voters(AddVotes(votes, from, v))
  BY DEF Voters, AddVotes

\* What is acknowledged or certified for a number was proposed in some view.
LEMMA CountedIsProposed ==
    ASSUME Inv, CommitInv, ProposedInViews, NEW m \in net, m.data.seq \in Seqs,
           m.type \in AckType \cup ProofType
    PROVE  m.data \in proposed /\ m.data.view # -1
<1>1. m.data # Nop
  BY NumberFacts DEF Inv, Nop
<1>2. m.data \in proposed
  BY <1>1 DEF CommitInv, MessageBacked, AckBacked, PrepareOkBacked, PrepareBacked, CommitBacked,
     AckType, ProofType
<1> QED
  BY <1>2 DEF ProposedInViews

LEMMA CountingIsTidy ==
    ASSUME Inv, CommitInv, ProposedInViews, ExecutedIsHeld, NEW i \in Server, NEW m \in net,
           m.type = "PRE_PREPARE_OK", Present(i, m.data.seq), CountPrePrepareOk(i, m)
    PROVE  Tidy(i)
<1>1. PICK s \in Seqs : s = m.data.seq
  BY PresentInSeqs
<1>2. PICK v : v = AddVotes(log[i][s].prepares, {m.from}, m.data.view)
  OBVIOUS
<1>3. PICK e :
         /\ \/ e = [log[i][s] EXCEPT !.prepares = v]
            \/ /\ log[i][s].status = "PRE_PREPARED"
               /\ e = [log[i][s] EXCEPT !.prepares = v, !.status = "PREPARED"]
         /\ log' = [log EXCEPT ![i][s] = e]
         /\ UNCHANGED executed
  <2> DEFINE g == [log[i][s] EXCEPT !.prepares = v]
             quorum == i \notin Byzantine /\ g.status = "PRE_PREPARED" /\ PreparedQuorum(g.prepares)
  <2>1. g = [log[i][s] EXCEPT !.prepares = AddVotes(@, {m.from}, m.data.view)]
    BY <1>2
  <2>2. log' = [log EXCEPT ![i][s] = IF quorum THEN [g EXCEPT !.status = "PREPARED"] ELSE g]
    BY <1>1, <2>1 DEF CountPrePrepareOk
  <2>3. quorum => log[i][s].status = "PRE_PREPARED"
    BY EntryAt DEF Inv, Entry
  <2> QED
    BY <2>2, <2>3 DEF CountPrePrepareOk, execVars
<1>4. log[i][s].status # "NIL" /\ log[i][s] \in Entry
  BY <1>1, EntryAt DEF Present, Inv
<1>5. /\ e.prePrepare = log[i][s].prePrepare /\ e.prepares = v
      /\ e.status = log[i][s].status \/ (log[i][s].status = "PRE_PREPARED" /\ e.status = "PREPARED")
  BY <1>3, <1>4 DEF Entry
<1>6. Voters(log[i][s].prepares) \subseteq Voters(v)
  <2>1. m.data.view # -1
    BY <1>1, CountedIsProposed DEF AckType
  <2>2. m.from \in Server
    BY MessageForms DEF Inv, TypeOK
  <2> QED
    BY <1>2, <2>1, <2>2, VotersGrow
<1> QED
  BY <1>3, <1>4, <1>5, <1>6, VotingIsTidy

LEMMA TimeoutIsTidy ==
    ASSUME Inv, ExecutedIsHeld, NEW i \in Server, OptimisticTimeout(i)
    PROVE  Tidy(i)
<1>1. PICK s \in Seqs : \/ Present(i, s) /\ FastCommit(i, s)
                        \/ Present(i, s) /\ SlowPrepare(i, s)
                        \/ UNCHANGED <<log, executed>>
  BY DEF OptimisticTimeout, execVars
<1>2. log[i][s] \in Entry /\ log[i][s].prePrepare.view \in -1 .. MaxView
  BY EntryAt DEF Inv
<1>3. CASE Present(i, s) /\ FastCommit(i, s)
  <2>1. PICK c \in Votes : c = AddVotes(log[i][s].prepares, {i}, log[i][s].prePrepare.view)
    BY <1>2, VotesAdded DEF Entry
  <2>2. PICK e : e = [log[i][s] EXCEPT !.status = "COMMITTED", !.commits = c]
    OBVIOUS
  <2>3. /\ e \in Entry /\ SameAssignment(log[i][s], e) /\ log[i][s].status # "NIL"
        /\ e.status = "COMMITTED" /\ e.prepares = log[i][s].prepares
    BY <1>2, <1>3, <2>1, <2>2 DEF Entry, Status, SameAssignment, Present
  <2>4. \E out : ExecutePending(i, [log[i] EXCEPT ![s] = e], {}, out)
    BY <1>3, <2>1, <2>2 DEF FastCommit
  <2> QED
    BY <2>3, <2>4, ExecutingIsTidy
<1>4. CASE Present(i, s) /\ SlowPrepare(i, s)
  <2>1. PICK c : c = AddVotes(log[i][s].commits, {i}, log[i][s].prePrepare.view)
    OBVIOUS
  <2>2. PICK e : e = [log[i][s] EXCEPT !.commits = c]
    OBVIOUS
  <2>3. log' = [log EXCEPT ![i][s] = e] /\ UNCHANGED executed
    BY <1>4, <2>1, <2>2 DEF SlowPrepare, execVars, Inv, TypeOK
  <2>4. /\ e.prePrepare = log[i][s].prePrepare /\ e.prepares = log[i][s].prepares
        /\ e.status = log[i][s].status /\ log[i][s].status # "NIL"
    BY <1>2, <1>4, <2>2 DEF Entry, Present
  <2> QED
    BY <2>3, <2>4, VotingIsTidy
<1> QED
  BY <1>1, <1>3, <1>4, IdleIsTidy

LEMMA PrepareIsTidy ==
    ASSUME Inv, CommitInv, ProposedInViews, ExecutedIsHeld, NEW i \in Server, ProcessPrepare(i)
    PROVE  Tidy(i)
<1> DEFINE certified(m) == Certified(m, log[i][m.data.seq], log[i][m.data.seq].prepares)
           entry(m) == [log[i][m.data.seq] EXCEPT !.prepares = certified(m)]
<1>1. PICK m \in net :
         /\ Receive(i, m, "PREPARE")
         /\ \/ UNCHANGED <<log, executed>>
            \/ /\ AcceptsCertificate(i, m, {"PRE_PREPARED"})
               /\ \/ log' = [log EXCEPT ![i][m.data.seq] = entry(m)]
                  \/ log' = [log EXCEPT ![i][m.data.seq] = [entry(m) EXCEPT !.status = "PREPARED"]]
               /\ UNCHANGED executed
  BY DEF ProcessPrepare, Ignore, logVars, execVars
<1>2. CASE ~UNCHANGED <<log, executed>>
  <2>1. PICK s \in Seqs : s = m.data.seq
    BY <1>1, <1>2, PresentInSeqs DEF AcceptsCertificate
  <2>2. log[i][s].status = "PRE_PREPARED" /\ log[i][s] \in Entry
    BY <1>1, <1>2, <2>1, EntryAt DEF AcceptsCertificate, Inv
  <2>3. PICK v : v = Certified(m, log[i][s], log[i][s].prepares)
    OBVIOUS
  <2>4. PICK e : /\ e \in {[log[i][s] EXCEPT !.prepares = v],
                           [log[i][s] EXCEPT !.prepares = v, !.status = "PREPARED"]}
                 /\ log' = [log EXCEPT ![i][s] = e]
                 /\ UNCHANGED executed
    BY <1>1, <1>2, <2>1, <2>3
  <2>5. /\ e.prePrepare = log[i][s].prePrepare /\ e.prepares = v
        /\ e.status \in {"PRE_PREPARED", "PREPARED"}
    BY <2>2, <2>4 DEF Entry
  <2>6. Voters(log[i][s].prepares) \subseteq Voters(v)
    <3>1. m.data.view # -1
      BY <1>1, <2>1, CountedIsProposed DEF Receive, ProofType
    <3>2. m.sigs \in SUBSET Server
      BY <1>1, MessageForms DEF Receive, ProofType, Inv, TypeOK
    <3> QED
      BY <2>3, <3>1, <3>2, VotersGrow DEF Certified
  <2> QED
    BY <2>2, <2>4, <2>5, <2>6, VotingIsTidy
<1> QED
  BY <1>1, <1>2, IdleIsTidy

LEMMA CommitIsTidy ==
    ASSUME Inv, ExecutedIsHeld, NEW i \in Server, ProcessCommit(i)
    PROVE  Tidy(i)
<1> DEFINE certified(m) == Certified(m, log[i][m.data.seq], log[i][m.data.seq].commits)
           entry(m) == [log[i][m.data.seq] EXCEPT !.commits = certified(m)]
           done(m) == [entry(m) EXCEPT !.status = "COMMITTED"]
<1>1. PICK m \in net :
         /\ Receive(i, m, "COMMIT")
         /\ \/ UNCHANGED <<log, executed>>
            \/ /\ AcceptsCertificate(i, m, {"PRE_PREPARED", "PREPARED"})
               /\ \/ log' = [log EXCEPT ![i][m.data.seq] = entry(m)] /\ UNCHANGED executed
                  \/ ExecutePending(i, [log[i] EXCEPT ![m.data.seq] = done(m)], {m}, {})
  BY DEF ProcessCommit, Ignore, logVars, execVars
<1>2. CASE AcceptsCertificate(i, m, {"PRE_PREPARED", "PREPARED"})
  <2>1. PICK s \in Seqs : s = m.data.seq
    BY <1>2, PresentInSeqs DEF AcceptsCertificate
  <2>2. log[i][s].status # "NIL" /\ log[i][s] \in Entry
    BY <1>2, <2>1, EntryAt DEF AcceptsCertificate, Inv
  <2>3. PICK c \in Votes : c = Certified(m, log[i][s], log[i][s].commits)
    <3>1. m \in Message /\ m.type \in ProofType
      BY <1>1 DEF Inv, TypeOK, Receive, ProofType
    <3> QED
      BY <2>2, <3>1, CertifiedType DEF Entry
  <2>4. CASE log' = [log EXCEPT ![i][m.data.seq] = entry(m)] /\ UNCHANGED executed
    <3>1. PICK e : e = [log[i][s] EXCEPT !.commits = c]
      OBVIOUS
    <3>2. log' = [log EXCEPT ![i][s] = e]
      BY <2>1, <2>3, <2>4, <3>1
    <3>3. /\ e.prePrepare = log[i][s].prePrepare /\ e.prepares = log[i][s].prepares
          /\ e.status = log[i][s].status
      BY <2>2, <3>1 DEF Entry
    <3> QED
      BY <2>2, <2>4, <3>2, <3>3, VotingIsTidy
  <2>5. CASE ExecutePending(i, [log[i] EXCEPT ![m.data.seq] = done(m)], {m}, {})
    <3>1. PICK e : e = done(m)
      OBVIOUS
    <3>2. /\ e \in Entry /\ SameAssignment(log[i][s], e) /\ e.status = "COMMITTED"
          /\ e.prepares = log[i][s].prepares
      BY <2>1, <2>2, <2>3, <3>1 DEF Entry, Status, SameAssignment
    <3>3. ExecutePending(i, [log[i] EXCEPT ![s] = e], {m}, {})
      BY <2>1, <2>5, <3>1
    <3> QED
      BY <2>2, <3>2, <3>3, ExecutingIsTidy
  <2> QED
    BY <1>1, <1>2, <2>4, <2>5, IdleIsTidy
<1> QED
  BY <1>1, <1>2, IdleIsTidy

LEMMA PrepareOkIsTidy ==
    ASSUME Inv, ExecutedIsHeld, NEW i \in Server, NEW m \in net, m.type = "PREPARE_OK",
           Present(i, m.data.seq), CountPrepareOk(i, m)
    PROVE  Tidy(i)
<1>1. PICK s \in Seqs : s = m.data.seq
  BY PresentInSeqs
<1>2. log[i][s].status # "NIL" /\ log[i][s] \in Entry
  BY <1>1, EntryAt DEF Present, Inv
<1>3. PICK c \in Votes : c = AddVotes(log[i][s].commits, {m.from}, m.data.view)
  <2>1. m.from \in Server /\ m.data \in Context
    BY MessageForms DEF Inv, TypeOK, AckType
  <2> QED
    BY <1>2, <2>1, VotesAdded DEF Entry, Context
<1>4. PICK e : e = [log[i][s] EXCEPT !.commits = c]
  OBVIOUS
<1>5. PICK g : g = [e EXCEPT !.status = "COMMITTED"]
  OBVIOUS
<1>6. /\ e.prePrepare = log[i][s].prePrepare /\ e.prepares = log[i][s].prepares
      /\ e.status = log[i][s].status
  BY <1>2, <1>4 DEF Entry
<1>7. /\ g \in Entry /\ SameAssignment(log[i][s], g) /\ g.status = "COMMITTED"
      /\ g.prepares = log[i][s].prepares
  BY <1>2, <1>4, <1>5 DEF Entry, Status, SameAssignment
<1>8. \/ log' = [log EXCEPT ![i][s] = e] /\ UNCHANGED executed
      \/ \E out : ExecutePending(i, [log[i] EXCEPT ![s] = g], {m}, out)
  <2>1. e = [log[i][s] EXCEPT !.commits = AddVotes(@, {m.from}, m.data.view)]
    BY <1>3, <1>4
  <2> QED
    BY <1>1, <1>5, <2>1 DEF CountPrepareOk, execVars
<1> QED
  BY <1>2, <1>6, <1>7, <1>8, VotingIsTidy, ExecutingIsTidy

LEMMA StepIsTidy ==
    ASSUME Inv, CommitInv, ProposedInViews, ExecutedIsHeld, NEW i \in Server, Step(i)
    PROVE  Tidy(i)
<1>1. CASE ClientTransfer(i)
  BY <1>1, TransferIsTidy DEF ClientTransfer
<1>2. CASE ForwardedTransfer(i)
  <2>1. PICK m \in net : Receive(i, m, "TRANSFER") /\ ProcessTransfer(i, m.m, {m})
    BY <1>2 DEF ForwardedTransfer
  <2>2. m.m \in Req
    BY <2>1, MessageForms DEF Inv, TypeOK, Receive
  <2> QED
    BY <2>1, <2>2, TransferIsTidy
<1>3. CASE ProcessPrePrepareOk(i)
  <2>1. PICK m \in net : /\ m.type = "PRE_PREPARE_OK"
                         /\ \/ UNCHANGED <<log, executed>>
                            \/ Present(i, m.data.seq) /\ CountPrePrepareOk(i, m)
    BY <1>3 DEF ProcessPrePrepareOk, Receive, Ignore, Crash, logVars, execVars
  <2> QED
    BY <2>1, IdleIsTidy, CountingIsTidy
<1>4. CASE ProcessPrepareOk(i)
  <2>1. PICK m \in net : /\ m.type = "PREPARE_OK"
                         /\ \/ UNCHANGED <<log, executed>>
                            \/ Present(i, m.data.seq) /\ CountPrepareOk(i, m)
    BY <1>4 DEF ProcessPrepareOk, Receive, Ignore, Crash, logVars, execVars
  <2> QED
    BY <2>1, IdleIsTidy, PrepareOkIsTidy
<1>5. CASE Checkpointing(i) \/ ViewChanging(i)
  <2>1. UNCHANGED <<log, executed>>
    BY <1>5 DEF Checkpointing, ProcessCheckpoint, Ignore, ViewChanging, DigestTimeout, SeqTimeout,
       Expire, ViewTimeout, ProcessViewChange, ProcessNewView, logVars, execVars
  <2> QED
    BY <2>1, IdleIsTidy
<1> QED
  BY <1>1, <1>2, <1>3, <1>4, <1>5, PrePrepareIsTidy, TimeoutIsTidy, PrepareIsTidy, CommitIsTidy
     DEF Step, Ordering

----------------------------------------------------------------------------
(* What a step of server i does to its views and to the requests there are.  *)

\* What server i may ask for, and has left its view when it does.
Asked(i) == {ComposeViewChange(i, v) : v \in {w \in Views : w > currentView[i]}}
HasLeft(i) == state[i] = "VIEW_CHANGE" \/ currentView[i] >= 2

Notes(i) ==
    /\ currentView'[i] >= currentView[i]
    /\ \A vc : vc.view <= currentView[i] =>
          (vc \in viewChangeMessages'[i] <=> vc \in viewChangeMessages[i])
    /\ HasLeft(i) => HasLeft(i)'
    /\ OneEach(Later(i))'
    /\ \A vc \in Requests' : vc \in Requests \/ (vc \in Asked(i) /\ HasLeft(i)')
    /\ \A m \in net' : m.type = "NEW_VIEW" => m \in net \/ Shown(m)'

\* The requests after the step, when what is new in messages and notes is known.
LEMMA RequestsGrow ==
    ASSUME NEW i \in Server, StillBut(i), NEW new,
           \A m \in net' : \/ m \in net
                           \/ m.type \notin {"VIEW_CHANGE", "NEW_VIEW"}
                           \/ m.type = "VIEW_CHANGE" /\ m.request \in new
                           \/ m.type = "NEW_VIEW" /\ m.vproofs \subseteq Requests \cup new,
           viewChangeMessages'[i] \subseteq Requests \cup new
    PROVE  Requests' \subseteq Requests \cup new
<1>1. ASSUME NEW m \in net', m.type = "VIEW_CHANGE" PROVE m.request \in Requests \cup new
  BY <1>1 DEF Requests
<1>2. ASSUME NEW m \in net', m.type = "NEW_VIEW" PROVE m.vproofs \subseteq Requests \cup new
  <2>1. CASE m \in net
    BY <1>2, <2>1 DEF Requests
  <2> QED
    BY <1>2, <2>1
<1>3. ASSUME NEW j \in Server PROVE viewChangeMessages'[j] \subseteq Requests \cup new
  <2>1. CASE j # i
    <3>1. viewChangeMessages'[j] = viewChangeMessages[j]
      BY <2>1 DEF StillBut, Still
    <3> QED
      BY <3>1 DEF Requests
  <2> QED
    BY <2>1
<1>4. Requests' = {m.request : m \in {n \in net' : n.type = "VIEW_CHANGE"}}
                    \cup (UNION {viewChangeMessages'[j] : j \in Server})
                    \cup (UNION {m.vproofs : m \in {n \in net' : n.type = "NEW_VIEW"}})
  BY DEF Requests
<1> HIDE DEF Requests
<1>5. {m.request : m \in {n \in net' : n.type = "VIEW_CHANGE"}} \subseteq Requests \cup new
  BY <1>1
<1>6. UNION {viewChangeMessages'[j] : j \in Server} \subseteq Requests \cup new
  BY <1>3
<1>7. UNION {m.vproofs : m \in {n \in net' : n.type = "NEW_VIEW"}} \subseteq Requests \cup new
  BY <1>2
<1> QED
  BY <1>4, <1>5, <1>6, <1>7

\* A step that leaves the views alone.
LEMMA QuietNotes ==
    ASSUME Inv, EnoughShown, NEW i \in Server, StillBut(i),
           UNCHANGED <<currentView, state, viewChangeMessages>>,
           \A m \in net' : m \in net \/ m.type \notin {"VIEW_CHANGE", "NEW_VIEW"}
    PROVE  Notes(i)
<1>1. Requests' \subseteq Requests \cup {}
  <2>1. viewChangeMessages'[i] \subseteq Requests
    BY DEF Requests
  <2> QED
    BY <2>1, RequestsGrow
<1>2. currentView'[i] >= currentView[i]
  BY NumberFacts DEF Inv
<1>3. OneEach(Later(i))'
  BY DEF EnoughShown, OneEach, Later
<1> QED
  BY <1>1, <1>2, <1>3 DEF Notes, HasLeft

\* A server that asks for a view.
LEMMA TriggerNotes ==
    ASSUME Inv, EnoughShown, NEW i \in Server, StillBut(i), NEW v \in Views, v > currentView[i],
           NEW in, TriggerViewChange(i, v, in),
           \A vc : vc.view <= currentView[i] =>
              (vc \in viewChangeMessages'[i] <=> vc \in viewChangeMessages[i]),
           OneEach(Later(i))', viewChangeMessages'[i] \subseteq Requests
    PROVE  Notes(i)
<1>1. PICK vc : vc = ComposeViewChange(i, v)
  OBVIOUS
<1>2. /\ state' = [state EXCEPT ![i] = "VIEW_CHANGE"]
      /\ net' = (net \ in) \cup ViewChangeToAll(i, vc)
      /\ UNCHANGED currentView
  BY <1>1 DEF TriggerViewChange, Exchange
<1>3. \A m \in ViewChangeToAll(i, vc) : m.type = "VIEW_CHANGE" /\ m.request = vc
  BY DEF ViewChangeToAll, ToOthers
<1>4. Requests' \subseteq Requests \cup {vc}
  BY <1>2, <1>3, RequestsGrow
<1>5. vc \in Asked(i)
  BY <1>1 DEF Asked
<1>6. state'[i] = "VIEW_CHANGE" /\ currentView'[i] >= currentView[i]
  BY <1>2, NumberFacts DEF Inv, TypeOK
<1>7. \A m \in net' : m.type = "NEW_VIEW" => m \in net
  BY <1>2, <1>3
<1> QED
  BY <1>4, <1>5, <1>6, <1>7 DEF Notes, HasLeft

LEMMA ExpireNotes ==
    ASSUME Inv, CommitInv, EnoughShown, NEW i \in Server, StillBut(i),
           NEW t, NEW stop, NEW next, Expire(i, t, stop, next), Overtaken(i, t.newView) => stop
    PROVE  Notes(i)
<1>1. /\ t.newView \in Views
      /\ \/ UNCHANGED <<viewVars, net>>
         \/ ~stop /\ TriggerViewChange(i, t.newView, {}) /\ UNCHANGED viewChangeMessages
  BY DEF Expire
<1>2. CASE UNCHANGED <<viewVars, net>>
  BY <1>2, QuietNotes DEF viewVars
<1>3. CASE ~stop /\ TriggerViewChange(i, t.newView, {}) /\ UNCHANGED viewChangeMessages
  <2>1. t.newView > currentView[i]
    BY <1>1, <1>3, NotOvertaken
  <2>2. OneEach(Later(i))'
    BY <1>3 DEF EnoughShown, OneEach, Later, TriggerViewChange
  <2>3. viewChangeMessages'[i] \subseteq Requests
    BY <1>3 DEF Requests
  <2>4. \A vc : vc \in viewChangeMessages'[i] <=> vc \in viewChangeMessages[i]
    BY <1>3
  <2> QED
    BY <1>1, <1>3, <2>1, <2>2, <2>3, <2>4, TriggerNotes
<1> QED
  BY <1>1, <1>2, <1>3

\* The senders of the 2f requests a leader waits for, and the leader itself.
LEMMA EnoughSenders ==
    ASSUME NEW i \in Server, NEW A \in SUBSET ViewChange, NEW own, own.from = i,
           \A vc \in A : vc.from # i, \A vc, w \in A : vc.from = w.from => vc = w,
           Cardinality(A) = 2 * F
    PROVE  Cardinality({vc.from : vc \in A \cup {own}}) >= 2 * F + 1
<1> DEFINE B == {vc.from : vc \in A}
           f == [vc \in A |-> vc.from]
<1>1. B \in SUBSET Server
  BY DEF ViewChange
<1>2. IsFiniteSet(B) /\ Cardinality(B) \in Nat
  BY <1>1, ServerSets
<1>3. f \in Injection(A, B)
  BY DEF Injection, IsInjective
<1>4. Cardinality(A) <= Cardinality(B)
  BY <1>2, <1>3, FS_Injection
<1>5. i \notin B
  OBVIOUS
<1>6. Cardinality(B \cup {i}) = Cardinality(B) + 1
  BY <1>2, <1>5, FS_AddElement
<1>7. {vc.from : vc \in A \cup {own}} = B \cup {i}
  OBVIOUS
<1> HIDE DEF B
<1>8. PICK b \in Nat : b = Cardinality(B) /\ 2 * F <= b
  BY <1>2, <1>4
<1>9. Cardinality({vc.from : vc \in A \cup {own}}) = b + 1
  BY <1>6, <1>7, <1>8
<1>10. 2 * F \in Int /\ b + 1 >= 2 * F + 1
  BY <1>8, FAssumption
<1> QED
  BY <1>9, <1>10

LEMMA RememberIsOne ==
    ASSUME EnoughShown, NEW i \in Server, NEW r
    PROVE  OneEach({vc \in Remember(i, r) : vc.view > currentView[i]})
<1>1. \A vc, w \in Later(i) : vc.view = w.view /\ vc.from = w.from => vc = w
  BY DEF EnoughShown, OneEach
<1> QED
  BY <1>1 DEF OneEach, Remember, Later

LEMMA RememberIsRequested ==
    ASSUME NEW i \in Server, NEW m \in net, m.type = "VIEW_CHANGE"
    PROVE  Remember(i, m.request) \subseteq Requests
  BY DEF Remember, Requests

\* A leader that starts a view.
LEMMA StartNotes ==
    ASSUME Inv, EnoughShown, NEW i \in Server, StillBut(i),
           NEW v \in Views, v > currentView[i], Leader(v) = i,
           NEW msgs \in SUBSET ViewChange, msgs \subseteq Requests,
           \A vc \in msgs : vc.view = v => vc.from # i,
           OneEach({vc \in msgs : vc.view > currentView[i]}),
           Cardinality({vc \in msgs : vc.view = v}) = 2 * F,
           \A vc : vc.view <= currentView[i] => (vc \in msgs <=> vc \in viewChangeMessages[i]),
           NEW in, StartView(i, v, msgs, in)
    PROVE  Notes(i)
<1>1. PICK own : own = ComposeViewChange(i, v)
  OBVIOUS
<1>2. own.view = v /\ own.from = i /\ own \in Asked(i)
  BY <1>1 DEF ComposeViewChange, Asked
<1>3. PICK A \in SUBSET ViewChange : A = {w \in msgs : w.view = v}
  OBVIOUS
<1>4. PICK vcs : vcs = A \cup {own}
  OBVIOUS
<1>5. PICK out : out = NewViewToAll(i, v, vcs, ComputeBigO(vcs))
  OBVIOUS
<1>6. {w \in msgs : w.view = v /\ w.from # i} \cup {own} = vcs
  BY <1>3, <1>4
<1>7. /\ viewChangeMessages' = [viewChangeMessages EXCEPT ![i] = msgs \cup {own}]
      /\ currentView' = [currentView EXCEPT ![i] = v]
      /\ net' = (net \ in) \cup out
  BY <1>1, <1>5, <1>6 DEF StartView, Exchange
<1>8. viewChangeMessages'[i] = msgs \cup {own} /\ currentView'[i] = v
  BY <1>7 DEF Inv, TypeOK
<1>9. v \in Int /\ currentView[i] \in Int /\ currentView[i] >= 1 /\ v >= 2
  BY DEF Inv, TypeOK, Views
<1>10. \A m \in out : m.type = "NEW_VIEW" /\ m.view = v /\ m.vproofs = vcs
  BY <1>5 DEF NewViewToAll, ToOthers
<1>11. vcs = {vc \in viewChangeMessages'[i] : vc.view = v}
  BY <1>2, <1>3, <1>4, <1>8
<1>12. Cardinality({vc.from : vc \in vcs}) >= 2 * F + 1
  <2>1. \A vc \in A : vc.from # i
    BY <1>3
  <2>2. \A vc, w \in A : vc.from = w.from => vc = w
    BY <1>3 DEF OneEach
  <2>3. Cardinality(A) = 2 * F
    BY <1>3
  <2> QED
    BY <1>2, <1>4, <2>1, <2>2, <2>3, EnoughSenders
<1>13. \A m \in out : Shown(m)'
  BY <1>10, <1>11, <1>12 DEF Shown
<1>14. Requests' \subseteq Requests \cup {own}
  <2>1. vcs \subseteq Requests \cup {own}
    BY <1>3, <1>4
  <2>2. \A m \in net' : m \in net \/ (m.type = "NEW_VIEW" /\ m.vproofs \subseteq Requests \cup {own})
    BY <1>7, <1>10, <2>1
  <2>3. viewChangeMessages'[i] \subseteq Requests \cup {own}
    BY <1>8
  <2> HIDE DEF Requests
  <2> QED
    BY <2>2, <2>3, RequestsGrow
<1>15. OneEach(Later(i))'
  <2> SUFFICES ASSUME NEW vc \in msgs \cup {own}, NEW w \in msgs \cup {own}, vc.view > v, w.view > v,
                      vc.view = w.view, vc.from = w.from
               PROVE  vc = w
    BY <1>8 DEF OneEach, Later
  <2>1. vc \in msgs /\ w \in msgs
    BY <1>2, <1>9
  <2>2. vc.view \in Int
    BY <2>1 DEF ViewChange, Views
  <2>3. vc.view > currentView[i]
    BY <1>9, <2>2
  <2> QED
    BY <2>1, <2>3 DEF OneEach
<1>16. \A vc : vc.view <= currentView[i] =>
          (vc \in viewChangeMessages'[i] <=> vc \in viewChangeMessages[i])
  BY <1>2, <1>8, <1>9
<1>17. HasLeft(i)' /\ currentView'[i] >= currentView[i]
  BY <1>8, <1>9 DEF HasLeft
<1>18. \A m \in net' : m.type = "NEW_VIEW" => m \in net \/ Shown(m)'
  BY <1>7, <1>13
<1>19. \A vc \in Requests' : vc \in Requests \/ (vc \in Asked(i) /\ HasLeft(i)')
  <2> HIDE DEF Requests, Asked, HasLeft
  <2> QED
    BY <1>2, <1>14, <1>17
<1> QED
  BY <1>15, <1>16, <1>17, <1>18, <1>19 DEF Notes

LEMMA ViewChangeNotes ==
    ASSUME Inv, CauseInv, EnoughShown, NEW i \in Server, StillBut(i), ProcessViewChange(i)
    PROVE  Notes(i)
<1>1. PICK m \in net :
         /\ Receive(i, m, "VIEW_CHANGE")
         /\ \/ Ignore({m})
            \/ /\ m.request.view > currentView[i]
               /\ \/ JoinViewChange(i, m.request.view, Remember(i, m.request), {m})
                  \/ /\ Leader(m.request.view) = i
                     /\ Cardinality({w \in Remember(i, m.request) : w.view = m.request.view}) = 2 * F
                     /\ StartView(i, m.request.view, Remember(i, m.request), {m})
                  \/ /\ viewChangeMessages' = [viewChangeMessages EXCEPT ![i] = Remember(i, m.request)]
                     /\ Exchange({m}, {})
                     /\ UNCHANGED <<currentView, state>>
  BY DEF ProcessViewChange, EnoughToLead
<1>2. m.request \in ViewChange /\ m.request.from # i /\ m.type = "VIEW_CHANGE"
  BY <1>1, MessageForms DEF Inv, TypeOK, Receive, CauseInv, Addressed
<1>3. PICK v \in Views : v = m.request.view
  BY <1>2 DEF ViewChange
<1>4. PICK msgs \in SUBSET ViewChange : msgs = Remember(i, m.request)
  BY <1>2 DEF Remember, Inv, TypeOK
<1>5. msgs \subseteq Requests /\ OneEach({vc \in msgs : vc.view > currentView[i]})
  BY <1>2, <1>4, RememberIsRequested, RememberIsOne
<1>6. v \in Int /\ currentView[i] \in Int
  BY DEF Inv, TypeOK, Views
<1>7. ASSUME v > currentView[i]
      PROVE  \A vc : vc.view <= currentView[i] => (vc \in msgs <=> vc \in viewChangeMessages[i])
  BY <1>3, <1>4, <1>6, <1>7 DEF Remember
<1>8. CASE v > currentView[i] /\ JoinViewChange(i, v, msgs, {m})
  <2>1. viewChangeMessages'[i] = msgs /\ UNCHANGED currentView
    BY <1>8 DEF JoinViewChange, TriggerViewChange, Inv, TypeOK
  <2>2. OneEach(Later(i))'
    BY <1>5, <2>1 DEF Later
  <2> QED
    BY <1>5, <1>7, <1>8, <2>1, <2>2, TriggerNotes DEF JoinViewChange
<1>9. CASE /\ v > currentView[i] /\ Leader(v) = i
           /\ Cardinality({w \in msgs : w.view = v}) = 2 * F
           /\ StartView(i, v, msgs, {m})
  <2>1. \A vc \in msgs : vc.view = v => vc.from # i
    BY <1>2, <1>4, <1>9 DEF Remember, CauseInv, OthersAsk
  <2> QED
    BY <1>5, <1>7, <1>9, <2>1, StartNotes
<1>10. CASE /\ v > currentView[i]
            /\ viewChangeMessages' = [viewChangeMessages EXCEPT ![i] = msgs]
            /\ Exchange({m}, {})
            /\ UNCHANGED <<currentView, state>>
  <2>1. viewChangeMessages'[i] = msgs
    BY <1>10 DEF Inv, TypeOK
  <2>2. \A x \in net' : x \in net
    BY <1>10 DEF Exchange
  <2>3. Requests' \subseteq Requests \cup {}
    BY <1>5, <2>1, <2>2, RequestsGrow
  <2>4. OneEach(Later(i))'
    BY <1>5, <1>10, <2>1 DEF Later
  <2>5. currentView'[i] >= currentView[i] /\ (HasLeft(i) => HasLeft(i)')
    BY <1>6, <1>10 DEF HasLeft
  <2> QED
    BY <1>7, <1>10, <2>1, <2>2, <2>3, <2>4, <2>5 DEF Notes
<1>11. CASE Ignore({m})
  BY <1>11, QuietNotes DEF Ignore, Exchange, viewVars
<1> QED
  BY <1>1, <1>3, <1>4, <1>8, <1>9, <1>10, <1>11

\* A server that enters a view takes over the requests it is shown.
LEMMA NewViewNotes ==
    ASSUME Inv, CauseInv, EnoughShown, NEW i \in Server, StillBut(i), ProcessNewView(i)
    PROVE  Notes(i)
<1>1. PICK m \in net :
         /\ Receive(i, m, "NEW_VIEW")
         /\ \/ Ignore({m})
            \/ /\ m.view > currentView[i]
               /\ currentView' = [currentView EXCEPT ![i] = m.view]
               /\ viewChangeMessages' = [viewChangeMessages EXCEPT ![i] =
                                            {w \in @ : w.view # m.view} \cup m.vproofs]
               /\ net' = (net \ {m}) \cup {Ack(i, Leader(m.view), "PRE_PREPARE_OK", c) : c \in m.prePrepares}
  BY DEF ProcessNewView, AcceptsNewView, Exchange
<1>2. PICK v \in Views : v = m.view
  BY <1>1, MessageForms DEF Inv, TypeOK, Receive
<1>3. (\A vc \in m.vproofs : vc.view = v) /\ m.vproofs \subseteq Requests
  BY <1>1, <1>2 DEF Receive, CauseInv, Addressed, Started, Requests
<1>4. CASE Ignore({m})
  BY <1>4, QuietNotes DEF Ignore, Exchange, viewVars
<1>5. CASE ~Ignore({m})
  <2>1. PICK msgs : msgs = {w \in viewChangeMessages[i] : w.view # v} \cup m.vproofs
    OBVIOUS
  <2>2. v > currentView[i] /\ currentView'[i] = v /\ viewChangeMessages'[i] = msgs
    BY <1>1, <1>2, <1>5, <2>1 DEF Inv, TypeOK
  <2>3. v \in Int /\ currentView[i] \in Int /\ currentView[i] >= 1 /\ v >= 2
    BY <2>2 DEF Inv, TypeOK, Views
  <2>4. \A c : Ack(i, Leader(m.view), "PRE_PREPARE_OK", c).type = "PRE_PREPARE_OK"
    BY DEF Ack
  <2>5. \A x \in net' : x \in net \/ x.type = "PRE_PREPARE_OK"
    BY <1>1, <1>5, <2>4
  <2>6. Requests' \subseteq Requests \cup {}
    <3>1. viewChangeMessages'[i] \subseteq Requests
      BY <1>3, <2>1, <2>2 DEF Requests
    <3> QED
      BY <2>5, <3>1, RequestsGrow
  <2>7. OneEach(Later(i))'
    <3> SUFFICES ASSUME NEW vc \in msgs, NEW w \in msgs, vc.view > v, w.view > v,
                        vc.view = w.view, vc.from = w.from
                 PROVE  vc = w
      BY <2>2 DEF OneEach, Later
    <3>1. vc \in viewChangeMessages[i] /\ w \in viewChangeMessages[i]
      BY <1>3, <2>1, <2>3
    <3>2. vc.view \in Int
      BY <3>1 DEF Inv, TypeOK, ViewChange, Views
    <3>3. vc.view > currentView[i]
      BY <2>2, <2>3, <3>2
    <3> QED
      BY <3>1, <3>3 DEF EnoughShown, OneEach, Later
  <2>8. \A vc : vc.view <= currentView[i] =>
           (vc \in viewChangeMessages'[i] <=> vc \in viewChangeMessages[i])
    BY <1>3, <2>1, <2>2, <2>3
  <2>9. HasLeft(i)' /\ currentView'[i] >= currentView[i]
    BY <2>2, <2>3 DEF HasLeft
  <2> QED
    BY <2>5, <2>6, <2>7, <2>8, <2>9 DEF Notes
<1> QED
  BY <1>4, <1>5

\* What no ordering handler sends.
Moving == {"VIEW_CHANGE", "NEW_VIEW"}

LEMMA ExecutionSends ==
    ASSUME NEW i, NEW l, NEW in, NEW out, ExecutePending(i, l, in, out)
    PROVE  \A m \in net' : m \in net \/ m \in out \/ m.type = "CHECKPOINT"
<1> DEFINE S == Executable(l, lastExecuted[i], currentSequence[i])
           h == [t \in Seqs |-> IF t \in S THEN l[t].m ELSE executed[i][t]]
           C == {t \in S : IsCheckpoint(t)}
           d == [t \in Seqs |-> DigestOf(UpTo(h, t))]
           sent == UNION {CheckpointToAll(i, t, d[t]) : t \in C}
<1>1. net' = (net \ in) \cup (out \cup sent)
  BY DEF ExecutePending, Exchange
<1>2. \A m \in sent : m.type = "CHECKPOINT"
  <2>1. \A t, x : \A m \in CheckpointToAll(i, t, x) : m.type = "CHECKPOINT"
    BY DEF CheckpointToAll, ToOthers
  <2> HIDE DEF C, d
  <2> QED
    BY <2>1
<1> HIDE DEF sent
<1> QED
  BY <1>1, <1>2

LEMMA OrderingIsQuiet ==
    ASSUME NEW i \in Server, Ordering(i) \/ Checkpointing(i)
    PROVE  /\ UNCHANGED <<currentView, state, viewChangeMessages>>
           /\ \A m \in net' : m \in net \/ m.type \notin Moving
<1> DEFINE quiet == /\ UNCHANGED <<currentView, state, viewChangeMessages>>
                    /\ \A m \in net' : m \in net \/ m.type \notin Moving
<1>1. ASSUME NEW in, Ignore(in) \/ Crash(i, in) PROVE quiet
  BY <1>1 DEF Ignore, Crash, Exchange, viewVars
<1>2. /\ \A t \in ProofType : \A data, sigs : \A m \in ProofToAll(i, t, data, sigs) : m.type \notin Moving
      /\ \A data, r : \A m \in PrePrepareToAll(i, data, r) : m.type \notin Moving
      /\ \A j, data : \A t \in AckType : Ack(i, j, t, data).type \notin Moving
      /\ "CHECKPOINT" \notin Moving
  BY DEF ProofToAll, PrePrepareToAll, ToOthers, Ack, ProofType, AckType, Moving
<1>3. ASSUME NEW r, NEW in, ProcessTransfer(i, r, in) PROVE quiet
  <2>1. CASE AnswerAgain(i, r, in)
    BY <2>1 DEF AnswerAgain, Exchange, viewVars
  <2>2. CASE ForwardToLeader(i, r, in)
    BY <2>2 DEF ForwardToLeader, Exchange, viewVars, Moving
  <2>3. CASE ProposeAgain(i, r, in)
    BY <1>2, <2>3 DEF ProposeAgain, Exchange, viewVars
  <2>4. CASE ProposeNew(i, r, in)
    BY <1>2, <2>4 DEF ProposeNew, Exchange, viewVars
  <2> QED
    BY <1>1, <1>3, <2>1, <2>2, <2>3, <2>4 DEF ProcessTransfer
<1>4. CASE ClientTransfer(i) \/ ForwardedTransfer(i)
  BY <1>3, <1>4 DEF ClientTransfer, ForwardedTransfer
<1>5. CASE ProcessPrePrepare(i)
  BY <1>1, <1>2, <1>5 DEF ProcessPrePrepare, StorePrePrepare, Exchange, viewVars, AckType
<1>6. CASE ProcessPrePrepareOk(i)
  BY <1>1, <1>6 DEF ProcessPrePrepareOk, CountPrePrepareOk, Exchange, viewVars
<1>7. CASE OptimisticTimeout(i)
  <2>1. ASSUME NEW s, FastCommit(i, s) \/ SlowPrepare(i, s)
        PROVE  \A m \in net' : m \in net \/ m.type \notin Moving
    <3>1. CASE FastCommit(i, s)
      <4>1. PICK l, out : /\ ExecutePending(i, l, {}, out)
                          /\ \E data, sigs : out = ProofToAll(i, "COMMIT", data, sigs)
        BY <3>1 DEF FastCommit
      <4> QED
        BY <1>2, <4>1, ExecutionSends DEF ProofType
    <3>2. CASE SlowPrepare(i, s)
      BY <1>2, <3>2 DEF SlowPrepare, Exchange, ProofType
    <3> QED
      BY <2>1, <3>1, <3>2
  <2> QED
    BY <1>7, <2>1 DEF OptimisticTimeout, viewVars
<1>8. CASE ProcessPrepare(i)
  BY <1>1, <1>2, <1>8 DEF ProcessPrepare, Exchange, viewVars, AckType
<1>9. CASE ProcessCommit(i)
  <2>1. PICK m \in net : \/ Ignore({m})
                         \/ /\ Exchange({m}, {}) \/ \E l : ExecutePending(i, l, {m}, {})
                            /\ UNCHANGED viewVars
    BY <1>9 DEF ProcessCommit
  <2>2. \A l : ExecutePending(i, l, {m}, {}) =>
           \A x \in net' : x \in net \/ x.type \notin Moving
    BY <1>2, ExecutionSends
  <2> QED
    BY <1>1, <2>1, <2>2 DEF Exchange, viewVars
<1>10. CASE ProcessPrepareOk(i)
  <2>1. PICK m \in net : \/ Ignore({m}) \/ Crash(i, {m})
                         \/ CountPrepareOk(i, m)
    BY <1>10 DEF ProcessPrepareOk
  <2>2. CASE CountPrepareOk(i, m)
    <3>1. /\ \/ Exchange({m}, {})
             \/ \E l, data, sigs : ExecutePending(i, l, {m}, ProofToAll(i, "COMMIT", data, sigs))
          /\ UNCHANGED viewVars
      BY <2>2 DEF CountPrepareOk
    <3>2. \A l, data, sigs : ExecutePending(i, l, {m}, ProofToAll(i, "COMMIT", data, sigs)) =>
             \A x \in net' : x \in net \/ x.type \notin Moving
      BY <1>2, ExecutionSends DEF ProofType
    <3> QED
      BY <3>1, <3>2 DEF Exchange, viewVars
  <2> QED
    BY <1>1, <2>1, <2>2
<1>11. CASE Checkpointing(i)
  BY <1>1, <1>11 DEF Checkpointing, ProcessCheckpoint, Exchange, viewVars
<1> QED
  BY <1>4, <1>5, <1>6, <1>7, <1>8, <1>9, <1>10, <1>11 DEF Ordering

LEMMA StepNotes ==
    ASSUME Inv, CommitInv, CauseInv, EnoughShown, NEW i \in Server, Step(i)
    PROVE  Notes(i)
<1>1. StillBut(i)
  BY OthersStill DEF Inv
<1>2. CASE Ordering(i) \/ Checkpointing(i)
  BY <1>1, <1>2, OrderingIsQuiet, QuietNotes DEF Moving
<1>3. CASE DigestTimeout(i)
  <2>1. PICK r \in Req, v \in Views :
           Expire(i, DigestTimer(r, v),
                  Overtaken(i, v) \/ r \notin awaitedDigests[i] \/ IsLeader(i), DigestTimer(r, v + 1))
    BY <1>3 DEF DigestTimeout
  <2>2. DigestTimer(r, v).newView = v
    BY DEF DigestTimer
  <2> QED
    BY <1>1, <2>1, <2>2, ExpireNotes
<1>4. CASE SeqTimeout(i)
  <2>1. PICK s \in Seqs, v \in Views :
           Expire(i, SeqTimer(s, v),
                  Overtaken(i, v) \/ lastExecuted[i] >= s \/ log[i][s].status = "EXECUTED",
                  SeqTimer(s, v + 1))
    BY <1>4 DEF SeqTimeout
  <2>2. SeqTimer(s, v).newView = v
    BY DEF SeqTimer
  <2> QED
    BY <1>1, <2>1, <2>2, ExpireNotes
<1>5. CASE ViewTimeout(i)
  <2>1. UNCHANGED <<currentView, state, viewChangeMessages, net>>
    BY <1>5 DEF ViewTimeout
  <2> QED
    BY <1>1, <2>1, QuietNotes
<1> QED
  BY <1>1, <1>2, <1>3, <1>4, <1>5, ViewChangeNotes, NewViewNotes DEF Step, ViewChanging

----------------------------------------------------------------------------
(* The survey: what a new view is started with.                              *)

LEMMA RequestsTyped == TypeOK => Requests \subseteq ViewChange
<1> SUFFICES ASSUME TypeOK PROVE Requests \subseteq ViewChange
  OBVIOUS
<1>1. ASSUME NEW m \in net
      PROVE  /\ m.type = "VIEW_CHANGE" => m.request \in ViewChange
             /\ m.type = "NEW_VIEW" => m.vproofs \subseteq ViewChange
  BY MessageForms DEF TypeOK
<1>2. \A j \in Server : viewChangeMessages[j] \subseteq ViewChange
  BY DEF TypeOK
<1> QED
  BY <1>1, <1>2 DEF Requests

\* The window only moves up, with the stable checkpoint.
LEMMA WindowMoves ==
    ASSUME Inv, BelowTop, NEW i \in Server, Step(i)
    PROVE  /\ lowWatermark'[i] = stable'[i].seq + 1
           /\ lowWatermark'[i] >= lowWatermark[i]
<1>1. /\ lowWatermark[i] = stable[i].seq + 1
      /\ lowWatermark[i] \in Int /\ stable[i].seq \in Int
  BY DEF BelowTop, Inv, TypeOK, StableCheckpoint
<1>2. CASE UNCHANGED stableVars
  BY <1>1, <1>2 DEF stableVars
<1>3. CASE ProcessCheckpoint(i)
  <2>1. PICK m \in net : /\ Receive(i, m, "CHECKPOINT")
                         /\ \/ UNCHANGED stableVars
                            \/ /\ m.seq > stable[i].seq
                               /\ \E proofs : Truncate(i, m.seq, proofs)
    BY <1>3 DEF ProcessCheckpoint, Ignore, AcceptsCheckpoint, stableVars
  <2>2. m.seq \in Int
    BY <2>1, MessageForms, NumberFacts DEF Inv, TypeOK, Receive
  <2>3. CASE m.seq > stable[i].seq /\ \E proofs : Truncate(i, m.seq, proofs)
    <3>1. PICK c : stable' = [stable EXCEPT ![i] = c] /\ c.seq = m.seq
      <4>1. PICK proofs : Truncate(i, m.seq, proofs)
        BY <2>3
      <4>2. PICK c : c = [seq |-> m.seq, digest |-> checkpoints[i][m.seq].digest, proofs |-> proofs]
        OBVIOUS
      <4>3. c.seq = m.seq
        BY <4>2
      <4>4. stable' = [stable EXCEPT ![i] = c]
        BY <4>1, <4>2, Zenon DEF Truncate
      <4> QED
        BY <4>3, <4>4
    <3>2. lowWatermark' = [lowWatermark EXCEPT ![i] = m.seq + 1]
      BY <2>3 DEF Truncate, FirstKept
    <3>3. stable'[i].seq = m.seq /\ lowWatermark'[i] = m.seq + 1
      BY <3>1, <3>2 DEF Inv, TypeOK
    <3> QED
      BY <1>1, <2>2, <2>3, <3>3
  <2> QED
    BY <1>2, <2>1, <2>3
<1>4. CASE Ordering(i)
  <2>1. \A in : Ignore(in) \/ Crash(i, in) => UNCHANGED stableVars
    BY DEF Ignore, Crash
  <2>2. \A r, in : ProcessTransfer(i, r, in) => UNCHANGED stableVars
    BY <2>1 DEF ProcessTransfer, AnswerAgain, ForwardToLeader, ProposeAgain, ProposeNew
  <2> QED
    BY <1>2, <1>4, <2>1, <2>2 DEF Ordering, ClientTransfer, ForwardedTransfer, ProcessPrePrepare,
       ProcessPrePrepareOk, CountPrePrepareOk, OptimisticTimeout, ProcessPrepare, ProcessPrepareOk,
       CountPrepareOk, ProcessCommit
<1>5. CASE ViewChanging(i)
  BY <1>2, <1>5 DEF ViewChanging, DigestTimeout, SeqTimeout, Expire, ViewTimeout, ProcessViewChange,
     ProcessNewView, Ignore
<1> QED
  BY <1>3, <1>4, <1>5 DEF Step, Checkpointing

LEMMA ProposedLasts ==
    ASSUME Inv, TypeOK', ProposedInViews, [Next]_vars
    PROVE  ProposedInViews'
<1>1. [Log!Next]_(Log!logVars)
  BY NextLog DEF Stepped
<1>2. \A c \in Log!Assignment : c.view >= 1
  BY DEF Log!Assignment, Views
<1>3. \A p \in proposed' : p \in proposed \/ p \in Log!Assignment
  BY <1>1 DEF Log!Next, Log!Assign, Log!Accept, Log!Hold, Log!Commit, Log!logVars
<1> QED
  BY <1>2, <1>3 DEF ProposedInViews

LEMMA SurveyStep ==
    ASSUME Inv, Inv', CommitInv, CauseInv, SurveyInv, NEW i \in Server, Step(i), ProposedInViews'
    PROVE  SurveyInv'
<1>1. Tidy(i) /\ Notes(i) /\ ~crashed[i] /\ StillBut(i)
  BY StepIsTidy, StepNotes, OthersStill DEF SurveyInv, Inv
<1>2. ExecutedIsHeld'
  <2> SUFFICES ASSUME NEW j \in Server, NEW s \in Seqs, log'[j][s].status = "EXECUTED"
               PROVE  executed'[j][s] = log'[j][s].prePrepare.digest
    BY DEF ExecutedIsHeld
  <2>1. CASE j = i
    BY <1>1, <2>1 DEF Tidy
  <2>2. CASE j # i
    BY <1>1, <2>2 DEF StillBut, Still, SurveyInv, ExecutedIsHeld
  <2> QED
    BY <2>1, <2>2
<1>3. BelowTop'
  <2>1. ASSUME NEW s \in Seqs, log'[i][s].status # "NIL", ~crashed'[i]
        PROVE  s <= lowWatermark'[i] + K - 1
    <3>1. lowWatermark'[i] >= lowWatermark[i]
      BY WindowMoves DEF SurveyInv
    <3>2. lowWatermark'[i] \in Int /\ lowWatermark[i] \in Int /\ s \in Int /\ K \in Int
      BY WindowAssumption, NumberFacts DEF Inv, TypeOK
    <3>3. log[i][s].status # "NIL" \/ InWindow(i, s)
      BY <1>1, <2>1 DEF Tidy
    <3>4. s <= lowWatermark[i] + K - 1
      BY <1>1, <3>3 DEF SurveyInv, BelowTop, InWindow
    <3> QED
      BY <3>1, <3>2, <3>4
  <2>2. lowWatermark'[i] = stable'[i].seq + 1
    BY WindowMoves DEF SurveyInv
  <2>3. ASSUME NEW j \in Server \ {i}
        PROVE  /\ lowWatermark'[j] = stable'[j].seq + 1
               /\ \A s \in Seqs : log'[j][s].status # "NIL" => s <= lowWatermark'[j] + K - 1 \/ crashed'[j]
    BY <1>1 DEF StillBut, Still, SurveyInv, BelowTop
  <2>4. ASSUME NEW j \in Server PROVE lowWatermark'[j] = stable'[j].seq + 1
    BY <2>2, <2>3
  <2>5. ASSUME NEW j \in Server, NEW s \in Seqs, log'[j][s].status # "NIL"
        PROVE  s <= lowWatermark'[j] + K - 1 \/ crashed'[j]
    BY <2>1, <2>3, <2>5
  <2> QED
    BY <2>4, <2>5 DEF BelowTop
<1>4. AskedHaveLeft'
  <2> SUFFICES ASSUME NEW vc \in Requests', vc.view = 2 PROVE HasLeft(vc.from)'
    BY DEF AskedHaveLeft, HasLeft
  <2>1. CASE vc \in Requests
    <3>1. HasLeft(vc.from) /\ vc.from \in Server
      BY <2>1, RequestsTyped DEF SurveyInv, AskedHaveLeft, HasLeft, Inv, ViewChange
    <3>2. CASE vc.from = i
      BY <1>1, <3>1, <3>2 DEF Notes
    <3>3. CASE vc.from # i
      BY <1>1, <3>1, <3>3 DEF StillBut, Still, HasLeft
    <3> QED
      BY <3>2, <3>3
  <2>2. CASE vc \in Asked(i) /\ HasLeft(i)'
    <3>1. vc.from = i
      BY <2>2 DEF Asked, ComposeViewChange
    <3> QED
      BY <2>2, <3>1
  <2> QED
    BY <1>1, <2>1, <2>2 DEF Notes
<1>5. ASSUME NEW j \in Server PROVE OneEach(Later(j))'
  <2>1. CASE j = i
    BY <1>1, <2>1 DEF Notes
  <2>2. CASE j # i
    BY <1>1, <2>2 DEF StillBut, Still, SurveyInv, EnoughShown, OneEach, Later
  <2> QED
    BY <2>1, <2>2
<1>6. ASSUME NEW m \in net', m.type = "NEW_VIEW" PROVE Shown(m)'
  <2>1. CASE m \in net
    <3>1. PICK l : l = Leader(m.view)
      OBVIOUS
    <3>2. Shown(m) /\ m.view \in 2 .. currentView[l] /\ m.view \in Views
      BY <1>6, <2>1, <3>1, MessageForms DEF SurveyInv, EnoughShown, CauseInv, Addressed, Started, Inv, TypeOK
    <3>3. l \in Server
      BY <3>1, <3>2, LeaderIsServer, ViewInBounds
    <3>4. m.view <= currentView[l]
      BY <3>2
    <3>5. \A vc : vc.view = m.view => (vc \in viewChangeMessages'[l] <=> vc \in viewChangeMessages[l])
      BY <1>1, <3>3, <3>4 DEF Notes, StillBut, Still
    <3>6. {vc \in viewChangeMessages'[l] : vc.view = m.view} = {vc \in viewChangeMessages[l] : vc.view = m.view}
      BY <3>5
    <3> QED
      BY <3>1, <3>2, <3>6 DEF Shown
  <2> QED
    BY <1>1, <1>6, <2>1 DEF Notes
<1> QED
  BY <1>2, <1>3, <1>4, <1>5, <1>6 DEF SurveyInv, EnoughShown

LEMMA InitSurvey == Init => SurveyInv
<1> SUFFICES ASSUME Init PROVE SurveyInv
  OBVIOUS
<1>1. ProposedInViews /\ ExecutedIsHeld
  BY DEF Init, ProposedInViews, ExecutedIsHeld, NilEntry
<1>2. BelowTop
  BY DEF Init, BelowTop, NilEntry
<1>3. Requests = {}
  BY DEF Init, Requests
<1>4. EnoughShown
  BY DEF Init, EnoughShown, OneEach, Later
<1> QED
  BY <1>1, <1>2, <1>3, <1>4 DEF SurveyInv, AskedHaveLeft

LEMMA NextSurvey == Inv /\ Inv' /\ CommitInv /\ CauseInv /\ SurveyInv /\ [Next]_vars => SurveyInv'
<1> SUFFICES ASSUME Inv, Inv', CommitInv, CauseInv, SurveyInv, [Next]_vars PROVE SurveyInv'
  OBVIOUS
<1>1. CASE UNCHANGED vars
  <2> USE <1>1 DEF vars, viewVars, logVars, execVars, stableVars
  <2>1. ProposedInViews' /\ ExecutedIsHeld' /\ BelowTop'
    BY DEF SurveyInv, ProposedInViews, ExecutedIsHeld, BelowTop
  <2>2. AskedHaveLeft'
    BY DEF SurveyInv, AskedHaveLeft, Requests
  <2>3. EnoughShown'
    BY DEF SurveyInv, EnoughShown, OneEach, Later, Shown
  <2> QED
    BY <2>1, <2>2, <2>3 DEF SurveyInv
<1>2. CASE \E i \in Server : Step(i)
  BY <1>2, ProposedLasts, SurveyStep DEF SurveyInv, Inv
<1> QED
  BY <1>1, <1>2 DEF Next

\* Whatever is lost, late or repeated, the leader of a view started it with requests of
\* 2f + 1 different servers (processViewChange counts 2f it kept, and adds its own), which
\* its NEW_VIEW messages show; and who asked for the second view has left the first.
THEOREM SurveyInvariant == Spec => []SurveyInv
<1>1. Spec => [](Inv /\ CommitInv /\ CauseInv)
  BY AllInvariants, CommitInvariant, CauseInvariant, PTL
<1> QED
  BY <1>1, InitSurvey, NextSurvey, PTL DEF Spec

----------------------------------------------------------------------------
(* The first two views.                                                      *)

LEMMA TwoLeaders == Leader(1) = 1 /\ Leader(2) = 2 /\ 1 \in Server /\ 2 \in Server
<1>1. PICK n \in Nat : n = 3 * F + 1 /\ n >= 4
  BY FAssumption
<1>2. 1 % n = 1 /\ 2 % n = 2
  BY <1>1
<1>3. 1 \in 0 .. 3 * F /\ 2 \in 0 .. 3 * F
  BY FAssumption
<1> QED
  BY <1>1, <1>2, <1>3 DEF Leader, Server

LEMMA ViewsSoFar ==
    ASSUME Inv, ProposedInViews, FirstTwo
    PROVE  /\ \A j \in Server : currentView[j] \in {1, 2}
           /\ \A p \in proposed : p.view \in {1, 2}
           /\ \A p \in proposed : p.view = currentView[Leader(p.view)] \/ p.view = 1
<1>1. ASSUME NEW j \in Server PROVE currentView[j] \in {1, 2}
  <2>1. currentView[j] \in Int /\ currentView[j] >= 1
    BY DEF Inv, TypeOK, Views
  <2>2. currentView[j] <= 2
    BY DEF FirstTwo
  <2> QED
    BY <2>1, <2>2
<1>2. ASSUME NEW p \in proposed
      PROVE  p.view \in {1, 2} /\ (p.view = currentView[Leader(p.view)] \/ p.view = 1)
  <2>1. p.view \in Int /\ Leader(p.view) \in Server /\ p.view >= 1
    BY NumberFacts DEF Inv, ProposedInViews
  <2>2. currentView[Leader(p.view)] >= p.view
    BY DEF Inv, AssignmentInv, LeadersKeepAssignments
  <2>3. currentView[Leader(p.view)] \in {1, 2}
    BY <1>1, <2>1
  <2> QED
    BY <2>1, <2>2, <2>3
<1> QED
  BY <1>1, <1>2

\* Steps leave what is found found, and who pledged has pledged.
Steady ==
    /\ proposed \subseteq proposed'
    /\ \A p \in proposed : Open(p)' => Open(p)
    /\ \A p \in proposed : p.view = 1 =>
          Pledgers(p) \subseteq Pledgers(p)' /\ (Secured(p) => Secured(p)')

LEMMA FoundLasts ==
    ASSUME Inv, Inv', NEW i \in Server, Notes(i), StillBut(i), NEW l \in Server, NEW p, Repeated(l, p)
    PROVE  Repeated(l, p)'
<1>1. PICK v \in 2 .. currentView[l] : Leader(v) = l /\ p \in Reproposed(l, v)
  BY DEF Repeated
<1>2. /\ currentView'[l] >= currentView[l]
      /\ \A vc : vc.view <= currentView[l] =>
            (vc \in viewChangeMessages'[l] <=> vc \in viewChangeMessages[l])
  <2>1. CASE l = i
    BY <2>1 DEF Notes
  <2>2. CASE l # i
    BY <2>2, NumberFacts DEF StillBut, Still, Inv
  <2> QED
    BY <2>1, <2>2
<1>3. v \in Int /\ v <= currentView[l] /\ currentView[l] \in Int
  BY <1>1, NumberFacts DEF Inv
<1>4. Reproposed(l, v)' = Reproposed(l, v)
  BY <1>2, <1>3, ReproposedLasts
<1>5. v \in 2 .. currentView'[l]
  <2>1. \A x \in Int : x >= currentView[l] => v \in 2 .. x
    BY <1>1, <1>3
  <2>2. currentView'[l] \in Int
    BY DEF Inv, TypeOK, Views
  <2> QED
    BY <1>2, <2>1, <2>2
<1> QED
  BY <1>1, <1>4, <1>5 DEF Repeated

\* A server that asks for the second view shows what it prepared in the first.
LEMMA AskingShows ==
    ASSUME Inv, SurveyInv, NEW i \in Server, ~crashed[i], NEW vc \in Asked(i), vc.view = 2,
           NEW p \in proposed, Pledged(i, p)
    PROVE  Shows(vc, p)
<1>1. PICK v \in Views : v > currentView[i] /\ vc = ComposeViewChange(i, v)
  BY DEF Asked
<1>2. v = 2 /\ vc.checkpoint = stable[i] /\ vc.pproofs = PreparedProofs(i)
  BY <1>1 DEF ComposeViewChange
<1>3. currentView[i] = 1
  BY <1>1, <1>2 DEF Inv, TypeOK, Views
<1>4. PICK s \in Seqs : s = p.seq
  BY DEF Inv, AssignmentInv, LeadersKeepAssignments
<1>5. log[i][s].prePrepare = p /\ Prepared(log[i][s]) /\ PreparedQuorum(log[i][s].prepares)
  BY <1>3, <1>4 DEF Pledged
<1>6. /\ s \in Int /\ K \in Int /\ lowWatermark[i] \in Int /\ stable[i].seq \in Int
      /\ lowWatermark[i] = stable[i].seq + 1
      /\ s <= lowWatermark[i] + K - 1
  <2>1. log[i][s].status # "NIL"
    BY <1>5 DEF Prepared
  <2>2. lowWatermark[i] = stable[i].seq + 1 /\ s <= lowWatermark[i] + K - 1
    BY <2>1 DEF SurveyInv, BelowTop
  <2>3. lowWatermark[i] \in Int /\ stable[i].seq \in Int
    BY DEF Inv, TypeOK, StableCheckpoint
  <2> QED
    BY <2>2, <2>3, NumberFacts, WindowAssumption DEF Inv
<1>7. CASE lowWatermark[i] <= s
  <2>1. InWindow(i, s) /\ Provable(log[i][s])
    BY <1>5, <1>6, <1>7 DEF InWindow, Provable, Prepared
  <2>2. PICK q : q = [prePrepare |-> p, prepares |-> Voters(log[i][s].prepares)]
    OBVIOUS
  <2>3. q \in vc.pproofs
    BY <1>2, <1>5, <2>1, <2>2 DEF PreparedProofs
  <2>4. q.prePrepare = p /\ Certifies(q)
    BY <1>5, <2>2 DEF Certifies, PreparedQuorum, Count
  <2> QED
    BY <2>3, <2>4 DEF Shows
<1>8. CASE ~(lowWatermark[i] <= s)
  <2>1. stable[i].seq >= s
    BY <1>6, <1>8
  <2> QED
    BY <1>2, <1>4, <2>1 DEF Shows
<1> QED
  BY <1>7, <1>8

LEMMA PledgeIsKept ==
    ASSUME Inv, Inv', SurveyInv, [Next]_vars, NEW i \in Server, Notes(i), Tidy(i), StillBut(i), ~crashed[i],
           NEW j \in Server, NEW p \in proposed, p.view = 1, Pledged(j, p)
    PROVE  Pledged(j, p)'
<1>1. ASSUME NEW vc \in Requests', vc.from = j, vc.view = 2 PROVE Shows(vc, p)
  <2>1. CASE vc \in Requests
    BY <1>1, <2>1 DEF Pledged
  <2>2. CASE vc \in Asked(i)
    <3>1. j = i
      BY <1>1, <2>2 DEF Asked, ComposeViewChange
    <3> QED
      BY <1>1, <2>2, <3>1, AskingShows
  <2> QED
    BY <2>1, <2>2 DEF Notes
<1>2. ASSUME currentView'[j] = 1
      PROVE  LET f == log'[j][p.seq]
             IN  f.prePrepare = p /\ Prepared(f) /\ PreparedQuorum(f.prepares)
  <2>1. PICK s \in Seqs : s = p.seq
    BY DEF Inv, AssignmentInv, LeadersKeepAssignments
  <2>2. currentView[j] = 1
    <3>1. currentView'[j] >= currentView[j]
      BY NumberFacts DEF Notes, StillBut, Still, Inv
    <3> QED
      BY <1>2, <3>1 DEF Inv, TypeOK, Views
  <2>3. PICK e : e = log[j][s]
    OBVIOUS
  <2>4. PICK f : f = log'[j][s]
    OBVIOUS
  <2>5. e.prePrepare = p /\ Prepared(e) /\ PreparedQuorum(e.prepares)
    BY <2>1, <2>2, <2>3 DEF Pledged
  <2>6. f.prePrepare = p
    <3>1. [Log!Next]_(Log!logVars)
      BY NextLog DEF Inv, Stepped
    <3>2. Kept(e, f)
      BY <2>3, <2>4, <2>5, <3>1, LogStepKeeps DEF Inv, Prepared
    <3>3. f.prePrepare.view <= 1 /\ f.prePrepare.view \in Int
      <4>1. f.prePrepare.view \in -1 .. MaxView
        BY <2>4 DEF Inv, TypeOK, Entry, Context
      <4>2. f.prePrepare.view <= currentView'[j]
        BY <2>4 DEF Inv, LogInv, EntriesAreOfPastViews
      <4> QED
        BY <1>2, <4>1, <4>2, BoundAssumption
    <3> QED
      BY <2>5, <3>2, <3>3 DEF Kept
  <2>7. Grown(e, f)
    BY <2>3, <2>4 DEF Tidy, StillBut, Still, Grown
  <2>8. PreparedQuorum(f.prepares)
    <3>1. Voters(e.prepares) \subseteq Voters(f.prepares)
      BY <2>5, <2>6, <2>7 DEF Grown
    <3>2. Cardinality(Voters(e.prepares)) <= Cardinality(Voters(f.prepares))
      BY <3>1, ServerSets, VotersAreServers
    <3>3. Cardinality(Voters(e.prepares)) \in Nat /\ Cardinality(Voters(f.prepares)) \in Nat
      BY ServerSets, VotersAreServers
    <3> QED
      BY <2>5, <3>2, <3>3, FAssumption DEF PreparedQuorum, Count
  <2> QED
    BY <2>1, <2>4, <2>5, <2>6, <2>7, <2>8 DEF Grown
<1> QED
  BY <1>1, <1>2 DEF Pledged

LEMMA StepIsSteady ==
    ASSUME Inv, Inv', CommitInv, CauseInv, SurveyInv, NEW i \in Server, Step(i)
    PROVE  Steady
<1>1. Tidy(i) /\ Notes(i) /\ ~crashed[i] /\ StillBut(i) /\ [Next]_vars
  BY StepIsTidy, StepNotes, OthersStill DEF SurveyInv, Inv, Next
<1>2. proposed \subseteq proposed'
  BY <1>1, EntriesLast DEF Lasting
<1>3. ASSUME NEW p \in proposed, Open(p)' PROVE Open(p)
  <2>1. Leader(2) \in Server
    BY TwoLeaders
  <2>2. ~Found(p)
    BY <1>1, <1>3, <2>1, FoundLasts DEF Open, Found
  <2> QED
    BY <1>3, <2>2 DEF Open
<1>4. ASSUME NEW p \in proposed, p.view = 1
      PROVE  Pledgers(p) \subseteq Pledgers(p)' /\ (Secured(p) => Secured(p)')
  <2>1. Pledgers(p) \subseteq Pledgers(p)'
    BY <1>1, <1>4, PledgeIsKept DEF Pledgers
  <2>2. Pledgers(p)' \subseteq Server
    BY DEF Pledgers
  <2>3. /\ Cardinality(Pledgers(p)) <= Cardinality(Pledgers(p)')
        /\ Cardinality(Pledgers(p)) \in Nat /\ Cardinality(Pledgers(p)') \in Nat
    BY <2>1, <2>2, ServerSets
  <2>4. Secured(p) => Secured(p)'
    BY <2>3, FAssumption DEF Secured
  <2> QED
    BY <2>1, <2>4
<1> QED
  BY <1>2, <1>3, <1>4 DEF Steady

----------------------------------------------------------------------------
(* The pledges of the first view, while nobody is past the second.           *)

\* A step of server i, with what is known before and after it.
Underway(i) ==
    /\ Inv /\ Inv' /\ CommitInv /\ CauseInv /\ SurveyInv /\ SurveyInv'
    /\ FirstTwo /\ FirstTwo' /\ Pledges /\ Steady
    /\ StillBut(i) /\ ~crashed[i]

LEMMA MessagePledgeLasts ==
    ASSUME Inv, CommitInv, Steady, Pledges, NEW m \in net
    PROVE  MessagePledged(m)'
<1>1. ASSUME m.type \in AckType \cup ProofType, Open(m.data)'
      PROVE  m.data \in proposed /\ m.data.view = 1 /\ Open(m.data)
  <2>1. m.data.view = 1 /\ m.data # Nop
    BY <1>1 DEF Open, Nop
  <2>2. m.data \in proposed
    BY <1>1, <2>1 DEF CommitInv, MessageBacked, AckBacked, PrepareOkBacked, PrepareBacked, CommitBacked,
       AckType, ProofType
  <2> QED
    BY <1>1, <2>1, <2>2 DEF Steady
<1>2. MessagePledged(m)
  BY DEF Pledges
<1>3. m.type = "PRE_PREPARE_OK" /\ Open(m.data)' => m.from \in Correct \ {m.to}
  BY <1>1, <1>2 DEF MessagePledged, AckType
<1>4. ASSUME m.type = "PREPARE_OK", Open(m.data)' PROVE Pledged(m.from, m.data)'
  <2>1. m.data \in proposed /\ m.data.view = 1 /\ Pledged(m.from, m.data)
    BY <1>1, <1>2, <1>4 DEF MessagePledged, AckType
  <2>2. m.from \in Server
    BY MessageForms DEF Inv, TypeOK
  <2>3. Pledgers(m.data) \subseteq Pledgers(m.data)'
    BY <2>1 DEF Steady
  <2> QED
    BY <2>1, <2>2, <2>3 DEF Pledgers
<1>5. m.type = "PREPARE" /\ Open(m.data)' => m.to # Leader(1)
  BY <1>1, <1>2 DEF MessagePledged, ProofType
<1>6. m.type = "COMMIT" /\ Open(m.data)' => Secured(m.data)'
  BY <1>1, <1>2 DEF MessagePledged, ProofType, Steady
<1> QED
  BY <1>3, <1>4, <1>5, <1>6 DEF MessagePledged

\* What is known of an entry whose assignment is still open after the step.
LEMMA OldPledge ==
    ASSUME NEW i \in Server, Underway(i), NEW j \in Server, NEW s \in Seqs, log[j][s].status # "NIL",
           NEW p, p = log[j][s].prePrepare, Open(p)'
    PROVE  /\ Open(p) /\ p \in proposed /\ p.view = 1 /\ p.seq = s
           /\ VotesPledged(j, log[j][s], p)
           /\ Pledgers(p) \subseteq Pledgers(p)' /\ (Secured(p) => Secured(p)')
           /\ OptimisticTimer(s) \in timers[j] => TimerPledged(j, p)
<1>1. p \in proposed /\ p.seq = s
  BY DEF Underway, Inv, AssignmentInv, EntriesAreProposed
<1>2. Open(p) /\ p.view = 1
  BY <1>1 DEF Underway, Steady, Open
<1>3. Pledgers(p) \subseteq Pledgers(p)' /\ (Secured(p) => Secured(p)')
  BY <1>1, <1>2 DEF Underway, Steady
<1>4. VotesPledged(j, log[j][s], p) /\ (OptimisticTimer(s) \in timers[j] => TimerPledged(j, p))
  BY <1>2 DEF Underway, Pledges, EntryPledged
<1> QED
  BY <1>1, <1>2, <1>3, <1>4

LEMMA VotesPledgeLasts ==
    ASSUME NEW j, NEW e, NEW p, VotesPledged(j, e, p),
           Pledgers(p) \subseteq Pledgers(p)', Secured(p) => Secured(p)'
    PROVE  VotesPledged(j, e, p)'
  BY DEF VotesPledged

LEMMA TimerPledgeLasts ==
    ASSUME NEW j \in Server, NEW p, TimerPledged(j, p), Pledgers(p) \subseteq Pledgers(p)'
    PROVE  TimerPledged(j, p)'
  BY DEF TimerPledged, Pledgers

LEMMA EntryPledgeLasts ==
    ASSUME NEW i \in Server, Underway(i), NEW j \in Server, NEW s \in Seqs,
           SameVotes(log[j][s], log'[j][s]),
           OptimisticTimer(s) \in timers'[j] => OptimisticTimer(s) \in timers[j]
    PROVE  EntryPledged(j, s)'
<1> SUFFICES ASSUME NEW f, f = log'[j][s], NEW p, p = f.prePrepare, f.status # "NIL", Open(p)'
             PROVE  /\ VotesPledged(j, f, p)'
                    /\ OptimisticTimer(s) \in timers'[j] => TimerPledged(j, p)'
  BY DEF EntryPledged
<1>1. PICK e : e = log[j][s]
  OBVIOUS
<1>2. /\ e.status # "NIL" /\ p = e.prePrepare /\ f.prepares = e.prepares /\ f.commits = e.commits
      /\ Committed(f) => Committed(e)
  BY <1>1 DEF SameVotes
<1>3. /\ VotesPledged(j, e, p)
      /\ Pledgers(p) \subseteq Pledgers(p)' /\ (Secured(p) => Secured(p)')
      /\ OptimisticTimer(s) \in timers[j] => TimerPledged(j, p)
  BY <1>1, <1>2, OldPledge
<1>4. VotesPledged(j, e, p)'
  BY <1>3, VotesPledgeLasts
<1>5. VotesPledged(j, f, p)'
  BY <1>2, <1>4 DEF VotesPledged
<1>6. OptimisticTimer(s) \in timers'[j] => TimerPledged(j, p)'
  BY <1>3, TimerPledgeLasts
<1> QED
  BY <1>5, <1>6

\* A step keeps the pledges when it keeps to them in what it sends and writes.
LEMMA PledgesLast ==
    ASSUME NEW i \in Server, Underway(i),
           \A m \in net' : m \in net \/ MessagePledged(m)',
           \A s \in Seqs :
              \/ /\ SameVotes(log[i][s], log'[i][s])
                 /\ OptimisticTimer(s) \in timers'[i] => OptimisticTimer(s) \in timers[i]
              \/ EntryPledged(i, s)'
    PROVE  Pledges'
<1>1. \A m \in net' : MessagePledged(m)'
  BY MessagePledgeLasts DEF Underway
<1>2. ASSUME NEW s \in Seqs PROVE EntryPledged(i, s)'
  BY EntryPledgeLasts
<1>3. ASSUME NEW j \in Server \ {i}, NEW s \in Seqs PROVE EntryPledged(j, s)'
  <2>1. log'[j] = log[j] /\ timers'[j] = timers[j]
    BY DEF Underway, StillBut, Still
  <2>2. SameVotes(log[j][s], log'[j][s])
    BY <2>1 DEF SameVotes
  <2> QED
    BY <2>1, <2>2, EntryPledgeLasts
<1>4. \A j \in Server, s \in Seqs : EntryPledged(j, s)'
  BY <1>2, <1>3
<1> QED
  BY <1>1, <1>4 DEF Pledges

LEMMA EntryPledges ==
    ASSUME NEW i \in Server, NEW s \in Seqs, NEW e, SameVotes(e, log'[i][s]), NEW p, p = e.prePrepare,
           Open(p)' => /\ VotesPledged(i, e, p)'
                       /\ OptimisticTimer(s) \in timers'[i] => TimerPledged(i, p)'
    PROVE  EntryPledged(i, s)'
<1> SUFFICES ASSUME NEW f, f = log'[i][s], f.status # "NIL", Open(f.prePrepare)'
             PROVE  /\ VotesPledged(i, f, f.prePrepare)'
                    /\ OptimisticTimer(s) \in timers'[i] => TimerPledged(i, f.prePrepare)'
  BY DEF EntryPledged
<1>1. /\ f.prePrepare = p /\ f.prepares = e.prepares /\ f.commits = e.commits
      /\ Committed(f) => Committed(e)
  BY DEF SameVotes
<1>2. VotesPledged(i, e, p)' /\ (OptimisticTimer(s) \in timers'[i] => TimerPledged(i, p)')
  BY <1>1
<1> QED
  BY <1>1, <1>2 DEF VotesPledged

\* The step writes the entry e and keeps to the pledges with it.
LEMMA WritingPledges ==
    ASSUME NEW i \in Server, Underway(i), NEW s \in Seqs, NEW e, NEW p, p = e.prePrepare,
           SameVotes(e, log'[i][s]),
           \A t \in Seqs \ {s} : SameVotes(log[i][t], log'[i][t]),
           \A t \in Seqs \ {s} : OptimisticTimer(t) \in timers'[i] => OptimisticTimer(t) \in timers[i],
           Open(p)' => /\ VotesPledged(i, e, p)'
                       /\ OptimisticTimer(s) \in timers'[i] => TimerPledged(i, p)',
           \A m \in net' : m \in net \/ MessagePledged(m)'
    PROVE  Pledges'
<1>1. EntryPledged(i, s)'
  BY EntryPledges
<1> QED
  BY <1>1, PledgesLast

LEMMA IdlePledges ==
    ASSUME NEW i \in Server, Underway(i), UNCHANGED log,
           \A s \in Seqs : OptimisticTimer(s) \in timers'[i] => OptimisticTimer(s) \in timers[i],
           \A m \in net' : m \in net \/ MessagePledged(m)'
    PROVE  Pledges'
<1>1. \A s \in Seqs : SameVotes(log[i][s], log'[i][s])
  BY DEF SameVotes
<1> QED
  BY <1>1, PledgesLast

LEMMA IgnorePledges ==
    ASSUME NEW i \in Server, Underway(i), NEW in, Ignore(in) \/ Crash(i, in)
    PROVE  Pledges'
  BY IdlePledges DEF Ignore, Crash, Exchange, logVars, timerVars

\* Messages that pledge nothing.
LEMMA PledgesNothing ==
    ASSUME NEW m, m.type \in {"TRANSFER", "PRE_PREPARE", "CHECKPOINT"} \cup Moving
    PROVE  MessagePledged(m)'
  BY DEF MessagePledged, Moving

----------------------------------------------------------------------------
(* The pledges: ordering, handler by handler.                                *)

\* A server that prepared p in view 1 and is still there pledges.
LEMMA PledgesNow ==
    ASSUME AskedHaveLeft', NEW j \in Server, state'[j] = "NORMAL", currentView'[j] = 1,
           NEW p, NEW f, f = log'[j][p.seq], f.prePrepare = p, Prepared(f), PreparedQuorum(f.prepares)
    PROVE  Pledged(j, p)'
<1>1. \A vc \in Requests' : vc.from = j => vc.view # 2
  BY DEF AskedHaveLeft
<1> QED
  BY <1>1 DEF Pledged

\* The leaders of the first two views are where they lead.
LEMMA LeadsOwnView ==
    ASSUME NEW i \in Server, Underway(i), NEW j \in Server, IsLeader(j)
    PROVE  /\ (j = 1 /\ currentView[j] = 1) \/ (j = 2 /\ currentView[j] = 2)
           /\ \A q \in proposed : Leader(q.view) = j => q.view = currentView[j]
           /\ \A c : Repeated(j, c) => j = 2 /\ Found(c)
<1>1. currentView[j] \in {1, 2} /\ \A q \in proposed : q.view \in {1, 2}
  BY ViewsSoFar DEF Underway, SurveyInv
<1>2. (j = 1 /\ currentView[j] = 1) \/ (j = 2 /\ currentView[j] = 2)
  <2>1. Leader(currentView[j]) = j
    BY DEF IsLeader
  <2>2. CASE currentView[j] = 1
    <3>1. j = Leader(1)
      BY <2>1, <2>2
    <3> QED
      BY <2>2, <3>1, TwoLeaders
  <2>3. CASE currentView[j] = 2
    <3>1. j = Leader(2)
      BY <2>1, <2>3
    <3> QED
      BY <2>3, <3>1, TwoLeaders
  <2> QED
    BY <1>1, <2>2, <2>3
<1>3. ASSUME NEW q \in proposed, Leader(q.view) = j PROVE q.view = currentView[j]
  BY <1>1, <1>2, <1>3, TwoLeaders
<1>4. ASSUME NEW c, Repeated(j, c) PROVE j = 2 /\ Found(c)
  <2>1. PICK v \in 2 .. currentView[j] : Leader(v) = j
    BY <1>4 DEF Repeated
  <2>2. v = 2
    BY <1>1, <2>1
  <2> QED
    BY <1>4, <2>1, <2>2, TwoLeaders DEF Found
<1> QED
  BY <1>2, <1>3, <1>4

LEMMA NobodyPledges ==
    ASSUME NEW i, NEW e, e.prepares = NoVotes, e.commits = NoVotes, ~Committed(e), NEW p
    PROVE  VotesPledged(i, e, p)'
  BY NobodyVoted DEF VotesPledged

LEMMA ProposalsPledgeNothing ==
    ASSUME NEW i, NEW data, NEW r, NEW m \in PrePrepareToAll(i, data, r)
    PROVE  MessagePledged(m)'
<1>1. m.type = "PRE_PREPARE"
  BY DEF PrePrepareToAll, ToOthers
<1> QED
  BY <1>1, PledgesNothing

LEMMA ProposeNewPledges ==
    ASSUME NEW i \in Server, Underway(i), NEW r \in Req, NEW in, ProposeNew(i, r, in)
    PROVE  Pledges'
<1>1. PICK p : p = [view |-> currentView[i], seq |-> NextSequence(i), digest |-> r]
  OBVIOUS
<1>2. PICK e : e = NewEntry(r, p, i, NoVotes)
  OBVIOUS
<1>3. PICK s \in Seqs : s = NextSequence(i)
  BY DEF ProposeNew
<1>4. /\ log' = [log EXCEPT ![i][s] = e]
      /\ UNCHANGED timers
      /\ \/ Exchange(in, PrePrepareToAll(i, p, r))
         \/ Exchange(in, {})
  BY <1>1, <1>2, <1>3 DEF ProposeNew, timerVars
<1>5. e.prePrepare = p /\ e.prepares = NoVotes /\ e.commits = NoVotes /\ ~Committed(e)
  BY <1>2 DEF NewEntry, Committed
<1>6. log[i][s].status = "NIL"
  <2>1. s \in Int /\ currentSequence[i] \in Int /\ s > currentSequence[i]
    BY <1>3, NumberFacts DEF NextSequence, Inv, Underway
  <2> QED
    BY <1>3, <2>1 DEF Underway, Inv, AssignmentInv, EntriesAreProposed
<1>7. OptimisticTimer(s) \notin timers[i]
  BY <1>6 DEF Underway, CommitInv, TimerBacked
<1>8. \A t \in Seqs : log'[i][t] = IF t = s THEN e ELSE log[i][t]
  BY <1>4 DEF Underway, Inv, TypeOK
<1>9. SameVotes(e, log'[i][s]) /\ \A t \in Seqs \ {s} : SameVotes(log[i][t], log'[i][t])
  BY <1>8 DEF SameVotes
<1>10. VotesPledged(i, e, p)'
  BY <1>5, NobodyPledges
<1>11. \A m \in net' : m \in net \/ MessagePledged(m)'
  BY <1>4, ProposalsPledgeNothing DEF Exchange
<1> QED
  BY <1>4, <1>5, <1>7, <1>9, <1>10, <1>11, WritingPledges

LEMMA ProposeAgainPledges ==
    ASSUME NEW i \in Server, Underway(i), NEW r \in Req, NEW in, IsLeader(i),
           Known(i, r), ~AlreadyProposed(i, digestToEntry[i][r]), ProposeAgain(i, r, in)
    PROVE  Pledges'
<1>1. PICK s \in Seqs : s = digestToEntry[i][r]
  BY NumberFacts DEF Underway, Inv
<1>2. PICK p : p = [log[i][s].prePrepare EXCEPT !.view = currentView[i]]
  OBVIOUS
<1>3. PICK e : e = [log[i][s] EXCEPT !.prePrepare = p, !.from = i,
                                     !.prepares = NoVotes, !.commits = NoVotes]
  OBVIOUS
<1>4. /\ log' = [log EXCEPT ![i][s] = e]
      /\ UNCHANGED timers
      /\ Exchange(in, PrePrepareToAll(i, p, r))
  <2>1. log' = [log EXCEPT ![i][s] =
                  [@ EXCEPT !.prePrepare = p, !.from = i, !.prepares = NoVotes, !.commits = NoVotes]]
    BY <1>1, <1>2 DEF ProposeAgain
  <2>2. log' = [log EXCEPT ![i][s] = e]
    BY <1>3, <2>1 DEF Underway, Inv, TypeOK
  <2> QED
    BY <1>1, <1>2, <2>2 DEF ProposeAgain, timerVars
<1>5. log[i][s] \in Entry /\ log[i][s].prePrepare \in Context
  BY EntryAt DEF Underway, Inv
<1>6. e.prePrepare = p /\ p.view = currentView[i]
  BY <1>2, <1>3, <1>5 DEF Entry, Context
<1>7. log[i][s].status # "NIL"
  BY <1>1 DEF Underway, Inv, AssignmentInv, DigestsHaveEntries
<1>8. p.view # 1
  <2>1. log[i][s].prePrepare.view < currentView[i]
    BY <1>1, <1>7, AgainIsLater DEF Underway
  <2>2. log[i][s].prePrepare.view >= 1
    BY <1>7 DEF Underway, SurveyInv, ProposedInViews, Inv, AssignmentInv, EntriesAreProposed
  <2>3. log[i][s].prePrepare.view \in Int /\ currentView[i] \in Int
    BY <1>5, NumberFacts DEF Context, Underway, Inv
  <2> QED
    BY <1>6, <2>1, <2>2, <2>3
<1>9. \A t \in Seqs : log'[i][t] = IF t = s THEN e ELSE log[i][t]
  BY <1>4 DEF Underway, Inv, TypeOK
<1>10. SameVotes(e, log'[i][s]) /\ \A t \in Seqs \ {s} : SameVotes(log[i][t], log'[i][t])
  BY <1>9 DEF SameVotes
<1>11. ~Open(p)'
  BY <1>8 DEF Open
<1>12. \A m \in net' : m \in net \/ MessagePledged(m)'
  BY <1>4, ProposalsPledgeNothing DEF Exchange
<1> QED
  BY <1>4, <1>6, <1>10, <1>11, <1>12, WritingPledges

LEMMA TransferPledges ==
    ASSUME NEW i \in Server, Underway(i), NEW r \in Req, NEW in, ProcessTransfer(i, r, in)
    PROVE  Pledges'
<1>1. CASE AnswerAgain(i, r, in)
  BY <1>1, IdlePledges DEF AnswerAgain, Exchange, logVars, timerVars
<1>2. CASE ForwardToLeader(i, r, in)
  <2>1. \A s \in Seqs : OptimisticTimer(s) \in timers'[i] => OptimisticTimer(s) \in timers[i]
    BY <1>2, TimersDiffer DEF ForwardToLeader, Underway, Inv, TypeOK
  <2>2. \A m \in net' : m \in net \/ m.type = "TRANSFER"
    BY <1>2 DEF ForwardToLeader, Exchange
  <2> QED
    BY <1>2, <2>1, <2>2, PledgesNothing, IdlePledges DEF ForwardToLeader, logVars
<1> QED
  BY <1>1, <1>2, IgnorePledges, ProposeAgainPledges, ProposeNewPledges DEF ProcessTransfer

\* A backup that acknowledges an assignment of the first view has no timer for its number.
LEMMA PrePreparePledges ==
    ASSUME NEW i \in Server, Underway(i), ProcessPrePrepare(i)
    PROVE  Pledges'
<1>1. PICK m \in net :
         /\ Receive(i, m, "PRE_PREPARE")
         /\ \/ Ignore({m})
            \/ /\ AcceptsPrePrepare(i, m)
               /\ \/ Exchange({m}, {}) /\ UNCHANGED <<log, timers>>
                  \/ StorePrePrepare(i, m)
               /\ UNCHANGED <<viewVars, proposed>>
  BY DEF ProcessPrePrepare
<1>2. CASE Exchange({m}, {}) /\ UNCHANGED <<log, timers>>
  BY <1>2, IdlePledges DEF Exchange
<1>3. CASE AcceptsPrePrepare(i, m) /\ StorePrePrepare(i, m)
  <2>1. PICK p \in proposed : p = m.data
    BY <1>1 DEF Underway, Inv, AssignmentInv, PrePreparesAreProposed, Receive
  <2>2. /\ p.seq \in Seqs /\ i # Leader(p.view) /\ m.m = p.digest /\ log[i][p.seq].prePrepare # p
        /\ m.from = Leader(p.view) /\ p.view = currentView[i]
    BY <1>1, <1>3, <2>1 DEF Underway, Inv, AssignmentInv, PrePreparesAreProposed, LeadersKeepAssignments,
       LogInv, PrePreparesAreNew, Receive, AcceptsPrePrepare
  <2>3. PICK s \in Seqs : s = p.seq
    BY <2>2
  <2>4. PICK e : e = NewEntry(m.m, p, m.from, AddVotes(NoVotes, {i}, p.view))
    OBVIOUS
  <2>5. PICK a : a = Ack(i, m.from, "PRE_PREPARE_OK", p)
    OBVIOUS
  <2>6. /\ log' = [log EXCEPT ![i][s] = e]
        /\ timers' = [timers EXCEPT ![i] = @ \cup {SeqTimer(s, currentView[i] + 1)}]
        /\ \A x \in net' : x \in net \/ (x = a /\ i \notin Byzantine)
    BY <1>3, <2>1, <2>3, <2>4, <2>5 DEF StorePrePrepare, Exchange
  <2>7. /\ ~Committed(e) /\ e.prePrepare = p /\ e.commits = NoVotes
    BY <2>4 DEF NewEntry, Committed
  <2>8. \A t \in Seqs : log'[i][t] = IF t = s THEN e ELSE log[i][t]
    BY <2>6 DEF Underway, Inv, TypeOK
  <2>9. SameVotes(e, log'[i][s]) /\ \A t \in Seqs \ {s} : SameVotes(log[i][t], log'[i][t])
    BY <2>8 DEF SameVotes
  <2>10. \A t \in Seqs : OptimisticTimer(t) \in timers'[i] => OptimisticTimer(t) \in timers[i]
    BY <2>6, TimersDiffer DEF Underway, Inv, TypeOK
  <2>11. ASSUME Open(p)'
         PROVE  VotesPledged(i, e, p)' /\ OptimisticTimer(s) \notin timers'[i]
    <3>1. p.view = 1
      BY <2>11 DEF Open
    <3>2. VotesPledged(i, e, p)'
      BY <2>2, <2>7, <3>1, NobodyVoted DEF VotesPledged
    <3>3. ASSUME OptimisticTimer(s) \in timers[i] PROVE FALSE
      <4>1. log[i][s].status # "NIL"
        BY <3>3 DEF Underway, CommitInv, TimerBacked
      <4>2. PICK q \in proposed : q = log[i][s].prePrepare /\ q.seq = s
        BY <4>1, EntryFacts DEF Underway
      <4>3. q.view <= 1 /\ q.view >= 1 /\ q.view \in Int
        BY <2>2, <3>1, <4>2, NumberFacts DEF Underway, Inv, LogInv, EntriesAreOfPastViews, SurveyInv, ProposedInViews
      <4>4. q.view = p.view
        BY <3>1, <4>3
      <4>5. q = p
        BY <2>3, <4>2, <4>4 DEF Underway, Inv, AssignmentInv, UniqueAssignments
      <4> QED
        BY <2>2, <2>3, <4>2, <4>5
    <3> QED
      BY <2>10, <3>2, <3>3
  <2>12. \A x \in net' : x \in net \/ MessagePledged(x)'
    <3>1. a.type = "PRE_PREPARE_OK" /\ a.from = i /\ a.to = m.from /\ a.data = p
      BY <2>5 DEF Ack
    <3>2. i \notin Byzantine => i \in Correct \ {m.from}
      BY <1>1, <2>2 DEF Correct, Receive, Up
    <3> QED
      BY <2>6, <3>1, <3>2 DEF MessagePledged
  <2> QED
    BY <2>7, <2>9, <2>10, <2>11, <2>12, WritingPledges
<1> QED
  BY <1>1, <1>2, <1>3, IgnorePledges

\* Acknowledgements that the first leader counts are for its own assignments, those that the
\* second one counts for its own or for what it has found.
LEMMA CountedAcks ==
    ASSUME NEW i \in Server, Underway(i), NEW j \in Server, IsLeader(j), NEW s \in Seqs,
           NEW p \in proposed, p = log[j][s].prePrepare, p.seq = s, Open(p),
           NEW m \in net, m.type = "PRE_PREPARE_OK", m.to = j, m.data.seq = s
    PROVE  j = 1 /\ currentView[j] = 1 /\ m.from \in Correct \ {j}
<1>1. m.data \in proposed
  BY CountedIsProposed DEF AckType, Underway, SurveyInv
<1>2. PICK q \in proposed : q = m.data /\ q.seq = s
  BY <1>1
<1>3. Own(j, q) \/ Repeated(j, q)
  BY <1>2 DEF Underway, CauseInv, Addressed
<1>4. q.view = p.view => q = p
  BY <1>2 DEF Underway, Inv, AssignmentInv, UniqueAssignments
<1>5. p.view = 1 /\ ~Found(p)
  BY DEF Open
<1>6. ASSUME Own(j, q) PROVE j = 1 /\ currentView[j] = 1 /\ q = p
  <2>1. Leader(q.view) = j
    BY <1>6 DEF Own
  <2>2. q.view = currentView[j]
    BY <2>1, LeadsOwnView
  <2>3. log[j][s].prePrepare = q
    BY <1>2, <2>1, <2>2 DEF Underway, Inv, AssignmentInv, LeadersKeepAssignments
  <2>4. currentView[j] = 1
    BY <1>5, <2>2, <2>3
  <2>5. j = 1
    BY <2>4, LeadsOwnView
  <2> QED
    BY <2>3, <2>4, <2>5
<1>7. ASSUME Repeated(j, q) PROVE Own(j, q)
  <2>1. j = 2 /\ Found(q)
    BY <1>7, LeadsOwnView
  <2>2. q.view # 1
    BY <1>4, <1>5, <2>1
  <2>3. q.view = 2
    BY <2>2, ViewsSoFar DEF Underway, SurveyInv
  <2> QED
    BY <2>1, <2>3, TwoLeaders DEF Own
<1>8. j = 1 /\ currentView[j] = 1 /\ q = p
  BY <1>3, <1>6, <1>7
<1>9. m.from \in Correct \ {m.to}
  BY <1>2, <1>8 DEF Underway, Pledges, MessagePledged
<1> QED
  BY <1>8, <1>9

LEMMA PrePrepareOkPledges ==
    ASSUME NEW i \in Server, Underway(i), ProcessPrePrepareOk(i)
    PROVE  Pledges'
<1>1. PICK m \in net :
         /\ Receive(i, m, "PRE_PREPARE_OK")
         /\ \/ Ignore({m})
            \/ Crash(i, {m})
            \/ /\ state[i] = "NORMAL" /\ IsLeader(i) /\ Present(i, m.data.seq)
               /\ CountPrePrepareOk(i, m)
  BY DEF ProcessPrePrepareOk
<1>2. CASE state[i] = "NORMAL" /\ IsLeader(i) /\ Present(i, m.data.seq) /\ CountPrePrepareOk(i, m)
  <2>1. PICK s \in Seqs : s = m.data.seq
    BY <1>2, PresentInSeqs
  <2>2. PICK p \in proposed : p = log[i][s].prePrepare /\ p.seq = s
    BY <1>2, <2>1, EntryFacts DEF Present, Underway
  <2>3. PICK v : v = AddVotes(log[i][s].prepares, {m.from}, m.data.view)
    OBVIOUS
  <2>4. PICK e :
           LET g == [log[i][s] EXCEPT !.prepares = v]
               quorum == i \notin Byzantine /\ g.status = "PRE_PREPARED" /\ PreparedQuorum(g.prepares)
           IN  /\ e = IF quorum THEN [g EXCEPT !.status = "PREPARED"] ELSE g
               /\ timers' = [timers EXCEPT ![i] = IF quorum THEN @ \cup {OptimisticTimer(s)} ELSE @]
               /\ log' = [log EXCEPT ![i][s] = e]
               /\ Exchange({m}, {})
               /\ UNCHANGED viewVars
    <3>1. [log[i][s] EXCEPT !.prepares = v]
             = [log[i][s] EXCEPT !.prepares = AddVotes(@, {m.from}, m.data.view)]
      BY <2>3
    <3> QED
      BY <1>2, <2>1, <3>1 DEF CountPrePrepareOk
  <2>5. log[i][s] \in Entry /\ log[i][s].status # "NIL"
    BY <1>2, <2>1, EntryAt DEF Underway, Inv, Present
  <2>6. /\ e.prePrepare = p /\ e.prepares = v /\ e.commits = log[i][s].commits
        /\ Committed(e) => Committed(log[i][s])
    BY <2>2, <2>4, <2>5 DEF Entry, Committed
  <2>7. \A t \in Seqs : OptimisticTimer(t) \in timers'[i] =>
           OptimisticTimer(t) \in timers[i]
           \/ (t = s /\ i \notin Byzantine /\ Prepared(e) /\ PreparedQuorum(e.prepares))
    <3>1. ASSUME OptimisticTimer(s) \in timers'[i], OptimisticTimer(s) \notin timers[i]
          PROVE  i \notin Byzantine /\ Prepared(e) /\ PreparedQuorum(e.prepares)
      BY <2>4, <2>5, <3>1 DEF Underway, Inv, TypeOK, Entry, Prepared
    <3>2. \A t \in Seqs : OptimisticTimer(t) \in timers'[i] =>
             OptimisticTimer(t) \in timers[i] \/ OptimisticTimer(t) = OptimisticTimer(s)
      BY <2>4 DEF Underway, Inv, TypeOK
    <3> QED
      BY <3>1, <3>2, TimersDiffer
  <2>8. \A t \in Seqs : log'[i][t] = IF t = s THEN e ELSE log[i][t]
    BY <2>4 DEF Underway, Inv, TypeOK
  <2>9. SameVotes(e, log'[i][s]) /\ \A t \in Seqs \ {s} : SameVotes(log[i][t], log'[i][t])
    BY <2>8 DEF SameVotes
  <2>10. ASSUME Open(p)'
         PROVE  /\ VotesPledged(i, e, p)'
                /\ OptimisticTimer(s) \in timers'[i] => TimerPledged(i, p)'
    <3>1. /\ Open(p) /\ VotesPledged(i, log[i][s], p)
          /\ Pledgers(p) \subseteq Pledgers(p)' /\ (Secured(p) => Secured(p)')
          /\ OptimisticTimer(s) \in timers[i] => TimerPledged(i, p)
      BY <2>2, <2>5, <2>10, OldPledge
    <3>2. i = 1 /\ currentView[i] = 1 /\ m.from \in Correct \ {i}
      BY <1>1, <1>2, <2>1, <2>2, <3>1, CountedAcks DEF Receive
    <3>3. Voters(v) \subseteq Voters(log[i][s].prepares) \cup {m.from}
      BY <2>3, VotersAdded
    <3>4. VotesPledged(i, e, p)
      BY <2>6, <3>1, <3>2, <3>3 DEF VotesPledged
    <3>5. VotesPledged(i, e, p)'
      BY <3>1, <3>4, VotesPledgeLasts
    <3>6. ASSUME i \notin Byzantine, Prepared(e), PreparedQuorum(e.prepares)
          PROVE  TimerPledged(i, p)'
      <4>1. state'[i] = "NORMAL" /\ currentView'[i] = 1
        BY <1>2, <2>4, <3>2 DEF viewVars
      <4>2. Pledged(i, p)'
        BY <2>2, <2>6, <2>8, <3>6, <4>1, PledgesNow DEF Underway, SurveyInv
      <4>3. i \in Correct /\ i = Leader(1)
        BY <1>1, <3>2, <3>6, TwoLeaders DEF Receive, Up, Correct
      <4> QED
        BY <4>2, <4>3 DEF TimerPledged
    <3> QED
      BY <2>7, <3>1, <3>5, <3>6, TimerPledgeLasts
  <2>11. \A x \in net' : x \in net
    BY <2>4 DEF Exchange
  <2>12. \A t \in Seqs \ {s} : OptimisticTimer(t) \in timers'[i] => OptimisticTimer(t) \in timers[i]
    BY <2>7
  <2> QED
    BY <2>6, <2>9, <2>10, <2>11, <2>12, WritingPledges
<1> QED
  BY <1>1, <1>2, IgnorePledges

\* Without a server that is wrong, silent or down there are no 3f acknowledgements of
\* correct backups.
LEMMA NeverFast ==
    ASSUME Correct # Server, NEW j \in Correct, NEW votes, Voters(votes) \subseteq Correct \ {j}
    PROVE  ~FastQuorum(votes)
<1>1. Correct \in SUBSET Server
  BY FaultAssumption DEF Correct
<1>2. PICK k \in Server : k \notin Correct
  BY <1>1
<1>3. /\ Server \ {k} \in SUBSET Server /\ Cardinality(Server \ {k}) = 3 * F
      /\ IsFiniteSet(Server \ {k})
  BY ServersFinite, ServerSets, FS_RemoveElement, FAssumption
<1>4. j \in Server \ {k} /\ Cardinality((Server \ {k}) \ {j}) = 3 * F - 1
  BY <1>1, <1>2, <1>3, FS_RemoveElement, FAssumption
<1>5. Voters(votes) \subseteq (Server \ {k}) \ {j}
  BY <1>1, <1>2
<1>6. Cardinality(Voters(votes)) <= 3 * F - 1 /\ Cardinality(Voters(votes)) \in Nat
  BY <1>4, <1>5, ServerSets
<1> QED
  BY <1>6, FAssumption DEF FastQuorum, Count

\* Certificates for what is not open pledge nothing.
LEMMA ClosedProofs ==
    ASSUME NEW i, NEW t \in ProofType, NEW p, NEW sigs, ~Open(p)', NEW m \in ProofToAll(i, t, p, sigs)
    PROVE  MessagePledged(m)'
<1>1. m.type = t /\ m.data = p
  BY DEF ProofToAll, ToOthers
<1> QED
  BY <1>1 DEF MessagePledged, ProofType

LEMMA TimeoutPledges ==
    ASSUME Correct # Server, NEW i \in Server, Underway(i), OptimisticTimeout(i)
    PROVE  Pledges'
<1>1. PICK s \in Seqs :
         /\ OptimisticTimer(s) \in timers[i]
         /\ timers' = [timers EXCEPT ![i] = @ \ {OptimisticTimer(s)}]
         /\ \/ Present(i, s) /\ FastQuorum(log[i][s].prepares) /\ FastCommit(i, s)
            \/ Present(i, s) /\ SlowPrepare(i, s)
            \/ UNCHANGED <<log, net>>
         /\ UNCHANGED <<viewVars, proposed>>
  BY DEF OptimisticTimeout
<1>2. \A t \in Seqs : OptimisticTimer(t) \in timers'[i] => OptimisticTimer(t) \in timers[i]
  BY <1>1 DEF Underway, Inv, TypeOK
<1>3. CASE UNCHANGED <<log, net>>
  BY <1>2, <1>3, IdlePledges
<1>4. CASE ~UNCHANGED <<log, net>>
  <2>1. log[i][s].status # "NIL"
    BY <1>1, <1>4 DEF Present
  <2>2. PICK p \in proposed : p = log[i][s].prePrepare /\ p.seq = s
    BY <2>1, EntryFacts DEF Underway
  <2>3. log[i][s] \in Entry /\ log[i][s].prePrepare.view \in -1 .. MaxView
    BY EntryAt DEF Underway, Inv
  <2>4. PICK v \in Votes : v = log[i][s].prepares
    BY <2>3 DEF Entry
  <2>5. Open(p)' => /\ VotesPledged(i, log[i][s], p)
                    /\ Pledgers(p) \subseteq Pledgers(p)' /\ (Secured(p) => Secured(p)')
                    /\ TimerPledged(i, p) /\ TimerPledged(i, p)'
    BY <1>1, <2>1, <2>2, OldPledge, TimerPledgeLasts
  <2>6. CASE FastQuorum(log[i][s].prepares) /\ FastCommit(i, s)
    <3>1. PICK c \in Votes : c = AddVotes(v, {i}, p.view)
      BY <2>2, <2>3, <2>4, VotesAdded
    <3>2. PICK e : e = [log[i][s] EXCEPT !.status = "COMMITTED", !.commits = c]
      OBVIOUS
    <3>3. PICK out : out = ProofToAll(i, "COMMIT", p, Voters(v) \cup {i})
      OBVIOUS
    <3>4. /\ e \in Entry /\ SameAssignment(log[i][s], e) /\ e.status = "COMMITTED"
          /\ e.prePrepare = p /\ e.prepares = v /\ e.commits = c
      BY <2>1, <2>2, <2>3, <2>4, <3>1, <3>2 DEF Entry, Status, SameAssignment
    <3>5. ExecutePending(i, [log[i] EXCEPT ![s] = e], {}, out)
      <4>1. e = [log[i][s] EXCEPT !.status = "COMMITTED",
                   !.commits = AddVotes(log[i][s].prepares, {i}, log[i][s].prePrepare.view)]
        BY <2>2, <2>4, <3>1, <3>2
      <4>2. ExecutePending(i, [log[i] EXCEPT ![s] = e], {},
                           ProofToAll(i, "COMMIT", e.prePrepare, Voters(e.prepares) \cup {i}))
        BY <2>6, <4>1 DEF FastCommit
      <4> QED
        BY <3>3, <3>4, <4>2
    <3>6. Writes(i, s, e)
      BY <1>1, <3>4, <3>5, WritesAndExecutes DEF Underway
    <3>7. ~Open(p)'
      <4> SUFFICES ASSUME Open(p)' PROVE FALSE
        OBVIOUS
      <4>1. i = Leader(1) /\ i \in Correct /\ Voters(v) \subseteq Correct \ {i}
        BY <2>4, <2>5 DEF VotesPledged, TimerPledged
      <4> QED
        BY <2>4, <2>6, <4>1, NeverFast
    <3>8. \A m \in net' : m \in net \/ MessagePledged(m)'
      BY <3>3, <3>5, <3>7, ExecutionSends, ClosedProofs, PledgesNothing DEF ProofType
    <3> QED
      BY <1>2, <3>4, <3>6, <3>7, <3>8, WritingPledges DEF Writes
  <2>7. CASE SlowPrepare(i, s)
    <3>1. PICK c : c = AddVotes(log[i][s].commits, {i}, p.view)
      OBVIOUS
    <3>2. PICK e : e = [log[i][s] EXCEPT !.commits = c]
      OBVIOUS
    <3>3. PICK out : out = ProofToAll(i, "PREPARE", p, Voters(v))
      OBVIOUS
    <3>4. /\ e.prePrepare = p /\ e.prepares = v /\ e.commits = c
          /\ Committed(e) => Committed(log[i][s])
      BY <2>2, <2>3, <2>4, <3>2 DEF Entry, Committed
    <3>5. log' = [log EXCEPT ![i][s] = e] /\ net' = net \cup out
      <4>1. log' = [log EXCEPT ![i][s].commits = AddVotes(@, {i}, p.view)]
        BY <2>2, <2>7 DEF SlowPrepare
      <4>2. log' = [log EXCEPT ![i][s] = e]
        BY <3>1, <3>2, <4>1 DEF Underway, Inv, TypeOK
      <4>3. net' = net \cup out
        BY <2>2, <2>4, <2>7, <3>3 DEF SlowPrepare, Exchange
      <4> QED
        BY <4>2, <4>3
    <3>6. \A t \in Seqs : log'[i][t] = IF t = s THEN e ELSE log[i][t]
      BY <3>5 DEF Underway, Inv, TypeOK
    <3>7. SameVotes(e, log'[i][s]) /\ \A t \in Seqs \ {s} : SameVotes(log[i][t], log'[i][t])
      BY <3>6 DEF SameVotes
    <3>8. ASSUME Open(p)' PROVE VotesPledged(i, e, p)' /\ TimerPledged(i, p)'
      <4>1. i \in Pledgers(p)
        BY <2>5, <3>8 DEF TimerPledged, Pledgers
      <4>2. Voters(c) \subseteq Voters(log[i][s].commits) \cup {i}
        BY <3>1, VotersAdded
      <4>3. VotesPledged(i, log[i][s], p)
        BY <2>5, <3>8
      <4>4. VotesPledged(i, e, p)
        BY <2>4, <3>4, <4>1, <4>2, <4>3 DEF VotesPledged
      <4> QED
        BY <2>5, <3>8, <4>4, VotesPledgeLasts
    <3>9. \A m \in out : MessagePledged(m)'
      <4>1. \A m \in out : m.type = "PREPARE" /\ m.data = p /\ m.to # i
        <5>1. ASSUME NEW m \in out PROVE m.type = "PREPARE" /\ m.data = p /\ m.to # i
          BY <3>3 DEF ProofToAll, ToOthers
        <5> QED
          BY <5>1
      <4>2. Open(p)' => i = Leader(1)
        BY <2>5 DEF TimerPledged
      <4> QED
        BY <4>1, <4>2 DEF MessagePledged
    <3> QED
      BY <1>2, <3>4, <3>5, <3>7, <3>8, <3>9, WritingPledges
  <2> QED
    BY <1>1, <1>4, <2>6, <2>7
<1> QED
  BY <1>3, <1>4

\* In the first view a certificate and the entry it is for are of one assignment.
LEMMA CertifiedIsHeld ==
    ASSUME NEW i \in Server, Underway(i), NEW s \in Seqs,
           NEW p \in proposed, p = log[i][s].prePrepare, p.seq = s,
           NEW q \in proposed, q.seq = s
    PROVE  /\ q.view = p.view => q = p
           /\ q.view = 1 /\ currentView[i] = 1 => q = p
<1>1. q.view = p.view => q = p
  BY DEF Underway, Inv, AssignmentInv, UniqueAssignments
<1>2. p.view \in {1, 2} /\ p.view <= currentView[i]
  BY ViewsSoFar DEF Underway, SurveyInv, Inv, LogInv, EntriesAreOfPastViews
<1>3. q.view = 1 /\ currentView[i] = 1 => p.view = 1
  BY <1>2
<1> QED
  BY <1>1, <1>3

LEMMA PreparePledges ==
    ASSUME NEW i \in Server, Underway(i), ProcessPrepare(i)
    PROVE  Pledges'
<1> DEFINE certified(m) == Certified(m, log[i][m.data.seq], log[i][m.data.seq].prepares)
           entry(m) == [log[i][m.data.seq] EXCEPT !.prepares = certified(m)]
           quorum(m) == PreparedQuorum(entry(m).prepares)
<1>1. PICK m \in net :
         /\ Receive(i, m, "PREPARE")
         /\ \/ Ignore({m})
            \/ /\ AcceptsCertificate(i, m, {"PRE_PREPARED"})
               /\ log' = [log EXCEPT ![i][m.data.seq] =
                             IF quorum(m) THEN [entry(m) EXCEPT !.status = "PREPARED"] ELSE entry(m)]
               /\ Exchange({m}, IF quorum(m) THEN {Ack(i, Leader(currentView[i]), "PREPARE_OK", m.data)}
                                ELSE {})
               /\ UNCHANGED <<viewVars, timerVars, proposed>>
  BY DEF ProcessPrepare
<1>2. CASE AcceptsCertificate(i, m, {"PRE_PREPARED"}) /\ ~Ignore({m})
  <2>1. PICK s \in Seqs : s = m.data.seq
    BY <1>2, PresentInSeqs DEF AcceptsCertificate
  <2>2. log[i][s].status = "PRE_PREPARED" /\ log[i][s] \in Entry
    BY <1>2, <2>1, EntryAt DEF AcceptsCertificate, Underway, Inv
  <2>3. PICK p \in proposed : p = log[i][s].prePrepare /\ p.seq = s
    BY <2>2, EntryFacts DEF Underway
  <2>4. PICK v : v = certified(m)
    OBVIOUS
  <2>5. PICK e : e = IF quorum(m) THEN [entry(m) EXCEPT !.status = "PREPARED"] ELSE entry(m)
    OBVIOUS
  <2>6. /\ e.prePrepare = p /\ e.prepares = v /\ e.commits = log[i][s].commits /\ ~Committed(e)
        /\ quorum(m) => Prepared(e) /\ PreparedQuorum(v)
    BY <2>1, <2>2, <2>3, <2>4, <2>5 DEF Entry, Prepared, Committed
  <2>7. log' = [log EXCEPT ![i][s] = e] /\ UNCHANGED <<viewVars, timerVars, proposed>>
    BY <1>1, <1>2, <2>1, <2>5
  <2>8. \A t \in Seqs : log'[i][t] = IF t = s THEN e ELSE log[i][t]
    BY <2>7 DEF Underway, Inv, TypeOK
  <2>9. SameVotes(e, log'[i][s]) /\ \A t \in Seqs \ {s} : SameVotes(log[i][t], log'[i][t])
    BY <2>8 DEF SameVotes
  <2>10. PICK q \in proposed : q = m.data /\ q.seq = s
    BY <1>1, <2>1 DEF Underway, CommitInv, MessageBacked, PrepareBacked, Receive
  <2>11. ASSUME Open(p)'
         PROVE  /\ VotesPledged(i, e, p)'
                /\ OptimisticTimer(s) \in timers'[i] => TimerPledged(i, p)'
    <3>1. /\ Open(p) /\ VotesPledged(i, log[i][s], p)
          /\ Pledgers(p) \subseteq Pledgers(p)' /\ (Secured(p) => Secured(p)')
          /\ OptimisticTimer(s) \in timers[i] => TimerPledged(i, p)
      BY <2>2, <2>3, <2>11, OldPledge
    <3>2. ASSUME i = Leader(1) PROVE v = log[i][s].prepares
      <4>1. q # p
        BY <1>1, <2>10, <3>1, <3>2 DEF Underway, Pledges, MessagePledged, Receive
      <4>2. q.view # p.view
        BY <2>3, <2>10, <4>1, CertifiedIsHeld
      <4> QED
        BY <2>1, <2>3, <2>4, <2>10, <4>2 DEF Certified
    <3>3. VotesPledged(i, e, p)
      BY <2>6, <3>1, <3>2 DEF VotesPledged
    <3>4. timers' = timers
      BY <2>7 DEF timerVars
    <3> QED
      BY <3>1, <3>3, <3>4, VotesPledgeLasts, TimerPledgeLasts
  <2>12. ASSUME quorum(m) PROVE MessagePledged(Ack(i, Leader(currentView[i]), "PREPARE_OK", q))'
    <3>1. ASSUME Open(q)' PROVE Pledged(i, q)'
      <4>1. q.view = 1
        BY <3>1 DEF Open
      <4>2. currentView[i] = 1 /\ state[i] = "NORMAL"
        BY <1>2, <2>10, <4>1 DEF AcceptsCertificate
      <4>3. q = p
        BY <2>3, <2>10, <4>1, <4>2, CertifiedIsHeld
      <4>4. currentView'[i] = 1 /\ state'[i] = "NORMAL"
        BY <2>7, <4>2 DEF viewVars
      <4> QED
        BY <2>3, <2>6, <2>8, <2>12, <4>3, <4>4, PledgesNow DEF Underway, SurveyInv
    <3>2. PICK a : a = Ack(i, Leader(currentView[i]), "PREPARE_OK", q)
      OBVIOUS
    <3>3. a.type = "PREPARE_OK" /\ a.from = i /\ a.data = q
      BY <3>2 DEF Ack
    <3>4. MessagePledged(a)'
      BY <3>1, <3>3 DEF MessagePledged
    <3>5. currentView'[i] = currentView[i]
      BY <2>7 DEF viewVars
    <3> QED
      BY <3>2, <3>4, <3>5
  <2>13. \A x \in net' : x \in net \/ MessagePledged(x)'
    <3>1. currentView'[i] = currentView[i]
      BY <2>7 DEF viewVars
    <3> QED
      BY <1>1, <1>2, <2>10, <2>12, <3>1 DEF Exchange
  <2>14. \A t \in Seqs : OptimisticTimer(t) \in timers'[i] => OptimisticTimer(t) \in timers[i]
    BY <2>7 DEF timerVars
  <2> QED
    BY <2>6, <2>9, <2>11, <2>13, <2>14, WritingPledges
<1> QED
  BY <1>1, <1>2, IgnorePledges

LEMMA PledgersSecure ==
    ASSUME NEW votes, NEW p, Voters(votes) \subseteq Pledgers(p), CommittedQuorum(votes)
    PROVE  Secured(p)
<1>1. Pledgers(p) \in SUBSET Server
  BY DEF Pledgers
<1>2. /\ Cardinality(Voters(votes)) \in Nat /\ Cardinality(Pledgers(p)) \in Nat
      /\ Cardinality(Voters(votes)) <= Cardinality(Pledgers(p))
  BY <1>1, ServerSets
<1> QED
  BY <1>2, FAssumption DEF Secured, CommittedQuorum, Count

\* The step that adds commit votes of servers that pledged, and may commit the entry.
LEMMA CommitVotesPledge ==
    ASSUME NEW i \in Server, Underway(i), NEW s \in Seqs, log[i][s].status # "NIL",
           NEW p \in proposed, p = log[i][s].prePrepare, p.seq = s,
           NEW c, Open(p) => Voters(c) \subseteq Pledgers(p) \/ Secured(p),
           NEW e, e.prePrepare = p, e.prepares = log[i][s].prepares, e.commits = c,
           Committed(e) => Committed(log[i][s]) \/ CommittedQuorum(c),
           Writes(i, s, e), UNCHANGED timerVars,
           NEW out, \A m \in net' : m \in net \/ m \in out \/ m.type = "CHECKPOINT",
           out = {} \/ (CommittedQuorum(c) /\ out = ProofToAll(i, "COMMIT", p, Voters(c)))
    PROVE  Pledges'
<1>1. ASSUME Open(p)'
      PROVE  /\ VotesPledged(i, e, p)'
             /\ OptimisticTimer(s) \in timers'[i] => TimerPledged(i, p)'
             /\ CommittedQuorum(c) => Secured(p)'
  <2>1. /\ Open(p) /\ VotesPledged(i, log[i][s], p)
        /\ Pledgers(p) \subseteq Pledgers(p)' /\ (Secured(p) => Secured(p)')
        /\ OptimisticTimer(s) \in timers[i] => TimerPledged(i, p)
    BY <1>1, OldPledge
  <2>2. CommittedQuorum(c) => Secured(p)
    BY <2>1, PledgersSecure
  <2>3. VotesPledged(i, e, p)
    BY <2>1, <2>2 DEF VotesPledged
  <2>4. timers' = timers
    BY DEF timerVars
  <2> QED
    BY <2>1, <2>2, <2>3, <2>4, VotesPledgeLasts, TimerPledgeLasts
<1>2. ASSUME NEW m \in out PROVE MessagePledged(m)'
  <2>1. m.type = "COMMIT" /\ m.data = p /\ CommittedQuorum(c)
    BY <1>2 DEF ProofToAll, ToOthers
  <2> QED
    BY <1>1, <2>1 DEF MessagePledged
<1>3. \A m \in net' : m \in net \/ MessagePledged(m)'
  BY <1>2, PledgesNothing
<1>4. \A t \in Seqs : OptimisticTimer(t) \in timers'[i] => OptimisticTimer(t) \in timers[i]
  BY DEF timerVars
<1> QED
  BY <1>1, <1>3, <1>4, WritingPledges DEF Writes

LEMMA CommitPledges ==
    ASSUME NEW i \in Server, Underway(i), ProcessCommit(i)
    PROVE  Pledges'
<1> DEFINE certified(m) == Certified(m, log[i][m.data.seq], log[i][m.data.seq].commits)
           entry(m) == [log[i][m.data.seq] EXCEPT !.commits = certified(m)]
           done(m) == [entry(m) EXCEPT !.status = "COMMITTED"]
<1>1. PICK m \in net :
         /\ Receive(i, m, "COMMIT")
         /\ \/ Ignore({m})
            \/ /\ AcceptsCertificate(i, m, {"PRE_PREPARED", "PREPARED"})
               /\ \/ log' = [log EXCEPT ![i][m.data.seq] = entry(m)] /\ Exchange({m}, {})
                  \/ /\ CommittedQuorum(entry(m).commits)
                     /\ ExecutePending(i, [log[i] EXCEPT ![m.data.seq] = done(m)], {m}, {})
               /\ UNCHANGED <<viewVars, timerVars, proposed>>
  BY DEF ProcessCommit
<1>2. CASE AcceptsCertificate(i, m, {"PRE_PREPARED", "PREPARED"}) /\ ~Ignore({m})
  <2>1. PICK s \in Seqs : s = m.data.seq
    BY <1>2, PresentInSeqs DEF AcceptsCertificate
  <2>2. log[i][s].status # "NIL" /\ log[i][s] \in Entry
    BY <1>2, <2>1, EntryAt DEF AcceptsCertificate, Underway, Inv
  <2>3. PICK p \in proposed : p = log[i][s].prePrepare /\ p.seq = s
    BY <2>2, EntryFacts DEF Underway
  <2>4. PICK c \in Votes : c = certified(m)
    <3>1. m \in Message /\ m.type \in ProofType
      BY <1>1 DEF Underway, Inv, TypeOK, Receive, ProofType
    <3>2. Certified(m, log[i][s], log[i][s].commits) \in Votes
      BY <2>2, <3>1, CertifiedType DEF Entry
    <3> QED
      BY <2>1, <3>2
  <2>5. Open(p) => Voters(c) \subseteq Pledgers(p) \/ Secured(p)
    <3> SUFFICES ASSUME Open(p), ~Secured(p) PROVE Voters(c) \subseteq Pledgers(p)
      OBVIOUS
    <3>1. PICK q \in proposed : q = m.data /\ q.seq = s
      BY <1>1, <2>1 DEF Underway, CommitInv, MessageBacked, CommitBacked, Receive
    <3>2. q # p
      BY <1>1, <3>1 DEF Underway, Pledges, MessagePledged, Receive
    <3>3. q.view # p.view
      BY <2>3, <3>1, <3>2, CertifiedIsHeld
    <3>4. c = log[i][s].commits
      BY <2>1, <2>3, <2>4, <3>1, <3>3 DEF Certified
    <3> QED
      BY <2>2, <2>3, <3>4 DEF Underway, Pledges, EntryPledged, VotesPledged
  <2>6. UNCHANGED <<viewVars, timerVars, proposed>>
    BY <1>1, <1>2
  <2>7. CASE log' = [log EXCEPT ![i][m.data.seq] = entry(m)] /\ Exchange({m}, {})
    <3>1. PICK e : e = entry(m)
      OBVIOUS
    <3>2. /\ SameAssignment(log[i][s], e) /\ e.prePrepare = p
          /\ e.prepares = log[i][s].prepares /\ e.commits = c
          /\ (Prepared(log[i][s]) => Prepared(e)) /\ (Committed(e) => Committed(log[i][s]))
      BY <2>1, <2>2, <2>3, <2>4, <3>1 DEF Entry, SameAssignment, Prepared, Committed
    <3>3. log' = [log EXCEPT ![i][s] = e] /\ \A x \in net' : x \in net
      BY <2>1, <2>7, <3>1 DEF Exchange
    <3>4. Writes(i, s, e)
      BY <2>6, <3>2, <3>3, WritesEntry DEF Underway
    <3> QED
      BY <2>2, <2>3, <2>5, <2>6, <3>2, <3>3, <3>4, CommitVotesPledge
  <2>8. CASE /\ CommittedQuorum(entry(m).commits)
             /\ ExecutePending(i, [log[i] EXCEPT ![m.data.seq] = done(m)], {m}, {})
    <3>1. PICK e : e = done(m)
      OBVIOUS
    <3>2. /\ e \in Entry /\ SameAssignment(log[i][s], e) /\ e.status = "COMMITTED"
          /\ e.prePrepare = p /\ e.prepares = log[i][s].prepares /\ e.commits = c
          /\ CommittedQuorum(c)
      BY <2>1, <2>2, <2>3, <2>4, <2>8, <3>1 DEF Entry, Status, SameAssignment
    <3>3. ExecutePending(i, [log[i] EXCEPT ![s] = e], {m}, {})
      BY <2>1, <2>8, <3>1
    <3>4. Writes(i, s, e) /\ \A x \in net' : x \in net \/ x \in {} \/ x.type = "CHECKPOINT"
      BY <2>6, <3>2, <3>3, WritesAndExecutes, ExecutionSends DEF Underway
    <3> QED
      BY <2>2, <2>3, <2>5, <2>6, <3>2, <3>4, CommitVotesPledge
  <2> QED
    BY <1>1, <1>2, <2>7, <2>8
<1> QED
  BY <1>1, <1>2, IgnorePledges

LEMMA PrepareOkPledges ==
    ASSUME NEW i \in Server, Underway(i), ProcessPrepareOk(i)
    PROVE  Pledges'
<1>1. PICK m \in net :
         /\ Receive(i, m, "PREPARE_OK")
         /\ \/ Ignore({m})
            \/ Crash(i, {m})
            \/ IsLeader(i) /\ Present(i, m.data.seq) /\ CountPrepareOk(i, m)
  BY DEF ProcessPrepareOk
<1>2. CASE IsLeader(i) /\ Present(i, m.data.seq) /\ CountPrepareOk(i, m)
  <2>1. PICK s \in Seqs : s = m.data.seq
    BY <1>2, PresentInSeqs
  <2>2. log[i][s].status # "NIL" /\ log[i][s] \in Entry
    BY <1>2, <2>1, EntryAt DEF Present, Underway, Inv
  <2>3. PICK p \in proposed : p = log[i][s].prePrepare /\ p.seq = s
    BY <2>2, EntryFacts DEF Underway
  <2>4. PICK c \in Votes : c = AddVotes(log[i][s].commits, {m.from}, m.data.view)
    <3>1. m.from \in Server /\ m.data \in Context
      BY <1>1, MessageForms DEF Underway, Inv, TypeOK, Receive, AckType
    <3> QED
      BY <2>2, <3>1, VotesAdded DEF Entry, Context
  <2>5. Open(p) => Voters(c) \subseteq Pledgers(p) \/ Secured(p)
    <3> SUFFICES ASSUME Open(p) PROVE Voters(c) \subseteq Pledgers(p) \/ Secured(p)
      OBVIOUS
    <3>1. m.data \in proposed /\ Leader(m.data.view) = i
      BY <1>1 DEF Underway, CauseInv, Addressed, Own, Receive
    <3>2. m.data.view = currentView[i]
      BY <1>2, <3>1, LeadsOwnView
    <3>3. m.data = p
      BY <2>1, <2>3, <3>1, <3>2 DEF Underway, Inv, AssignmentInv, LeadersKeepAssignments
    <3>4. Pledged(m.from, p) /\ m.from \in Server
      BY <1>1, <3>3, MessageForms DEF Underway, Pledges, MessagePledged, Receive, Inv, TypeOK
    <3>5. Voters(c) \subseteq Voters(log[i][s].commits) \cup {m.from}
      BY <2>4, VotersAdded
    <3>6. Voters(log[i][s].commits) \subseteq Pledgers(p) \/ Secured(p)
      BY <2>2, <2>3 DEF Underway, Pledges, EntryPledged, VotesPledged
    <3> QED
      BY <3>4, <3>5, <3>6 DEF Pledgers
  <2>6. PICK e : e = [log[i][s] EXCEPT !.commits = c]
    OBVIOUS
  <2>7. PICK g : g = [e EXCEPT !.status = "COMMITTED"]
    OBVIOUS
  <2>8. /\ SameAssignment(log[i][s], e) /\ e.prePrepare = p
        /\ e.prepares = log[i][s].prepares /\ e.commits = c
        /\ (Prepared(log[i][s]) => Prepared(e)) /\ (Committed(e) => Committed(log[i][s]))
    BY <2>2, <2>3, <2>6 DEF Entry, SameAssignment, Prepared, Committed
  <2>9. /\ g \in Entry /\ SameAssignment(log[i][s], g) /\ g.status = "COMMITTED"
        /\ g.prePrepare = p /\ g.prepares = log[i][s].prepares /\ g.commits = c
    BY <2>2, <2>3, <2>6, <2>7 DEF Entry, Status, SameAssignment
  <2>10. /\ \/ log' = [log EXCEPT ![i][s] = e] /\ Exchange({m}, {})
            \/ /\ CommittedQuorum(e.commits)
               /\ ExecutePending(i, [log[i] EXCEPT ![s] = g], {m},
                                 ProofToAll(i, "COMMIT", e.prePrepare, Voters(e.commits)))
         /\ UNCHANGED <<viewVars, timerVars, proposed>>
    <3>1. e = [log[i][s] EXCEPT !.commits = AddVotes(@, {m.from}, m.data.view)]
      BY <2>4, <2>6
    <3> QED
      BY <1>2, <2>1, <2>7, <3>1 DEF CountPrepareOk
  <2>11. CASE log' = [log EXCEPT ![i][s] = e] /\ Exchange({m}, {})
    <3>1. \A x \in net' : x \in net
      BY <2>11 DEF Exchange
    <3>2. Writes(i, s, e)
      BY <2>8, <2>10, <2>11, WritesEntry DEF Underway
    <3> QED
      BY <2>2, <2>3, <2>5, <2>8, <2>10, <3>1, <3>2, CommitVotesPledge
  <2>12. CASE /\ CommittedQuorum(e.commits)
              /\ ExecutePending(i, [log[i] EXCEPT ![s] = g], {m},
                                ProofToAll(i, "COMMIT", e.prePrepare, Voters(e.commits)))
    <3>1. PICK out : out = ProofToAll(i, "COMMIT", p, Voters(c))
      OBVIOUS
    <3>2. ExecutePending(i, [log[i] EXCEPT ![s] = g], {m}, out) /\ CommittedQuorum(c)
      BY <2>8, <2>12, <3>1
    <3>3. Writes(i, s, g) /\ \A x \in net' : x \in net \/ x \in out \/ x.type = "CHECKPOINT"
      BY <2>9, <2>10, <3>2, WritesAndExecutes, ExecutionSends DEF Underway
    <3> QED
      BY <2>2, <2>3, <2>5, <2>9, <2>10, <3>1, <3>2, <3>3, CommitVotesPledge
  <2> QED
    BY <2>10, <2>11, <2>12
<1> QED
  BY <1>1, <1>2, IgnorePledges

----------------------------------------------------------------------------
(* The pledges: checkpoints, and changes of view.                            *)

LEMMA CheckpointPledges ==
    ASSUME NEW i \in Server, Underway(i), ProcessCheckpoint(i)
    PROVE  Pledges'
<1>1. UNCHANGED <<log, timers>> /\ \A m \in net' : m \in net
  BY DEF ProcessCheckpoint, Ignore, Exchange, logVars, timerVars
<1> QED
  BY <1>1, IdlePledges

\* Steps of a view change send nothing that pledges, but for the acknowledgements of a
\* new view, and start no short cut.
LEMMA MovingPledges ==
    ASSUME NEW i \in Server, Underway(i), UNCHANGED log, NoTimer,
           \A m \in net' : m \in net \/ m.type \in Moving
    PROVE  Pledges'
<1>1. \A m \in net' : m \in net \/ MessagePledged(m)'
  BY PledgesNothing
<1> QED
  BY <1>1, IdlePledges DEF NoTimer

LEMMA AskingMoves ==
    ASSUME NEW i, NEW v, NEW in, TriggerViewChange(i, v, in)
    PROVE  \A m \in net' : m \in net \/ m.type \in Moving
<1>1. \A m \in ViewChangeToAll(i, ComposeViewChange(i, v)) : m.type \in Moving
  BY DEF ViewChangeToAll, ToOthers, Moving
<1> QED
  BY <1>1 DEF TriggerViewChange, Exchange

LEMMA ExpirePledges ==
    ASSUME NEW i \in Server, Underway(i), NEW t, NEW stop, NEW next, Expire(i, t, stop, next),
           \A s : OptimisticTimer(s) # next
    PROVE  Pledges'
<1>1. /\ UNCHANGED log
      /\ \/ timers' = [timers EXCEPT ![i] = @ \ {t}] /\ UNCHANGED net
         \/ /\ TriggerViewChange(i, t.newView, {})
            /\ timers' = [timers EXCEPT ![i] = (@ \ {t}) \cup {next}]
  BY DEF Expire, logVars
<1>2. NoTimer
  BY <1>1, NoTimerAdded DEF Underway, Inv
<1>3. \A m \in net' : m \in net \/ m.type \in Moving
  BY <1>1, AskingMoves
<1> QED
  BY <1>1, <1>2, <1>3, MovingPledges

LEMMA ViewChangePledges ==
    ASSUME NEW i \in Server, Underway(i), ProcessViewChange(i)
    PROVE  Pledges'
<1>1. PICK m \in net :
         \/ Ignore({m})
         \/ /\ \/ \E v, msgs : JoinViewChange(i, v, msgs, {m}) \/ StartView(i, v, msgs, {m})
               \/ Exchange({m}, {}) /\ UNCHANGED timers
            /\ UNCHANGED log
  BY DEF ProcessViewChange, logVars
<1>2. ASSUME NEW v, NEW msgs, JoinViewChange(i, v, msgs, {m}), UNCHANGED log PROVE Pledges'
  <2>1. timers' = [timers EXCEPT ![i] = @ \cup {ViewTimer(v)}]
    BY <1>2 DEF JoinViewChange
  <2>2. NoTimer
    BY <2>1, TimersDiffer DEF NoTimer, Underway, Inv, TypeOK
  <2>3. \A x \in net' : x \in net \/ x.type \in Moving
    BY <1>2, AskingMoves DEF JoinViewChange
  <2> QED
    BY <1>2, <2>2, <2>3, MovingPledges
<1>3. ASSUME NEW v, NEW msgs, StartView(i, v, msgs, {m}), UNCHANGED log PROVE Pledges'
  <2>1. \E vcs, os : net' = (net \ {m}) \cup NewViewToAll(i, v, vcs, os)
    BY <1>3 DEF StartView, Exchange
  <2>2. \A vcs, os : \A x \in NewViewToAll(i, v, vcs, os) : x.type \in Moving
    BY DEF NewViewToAll, ToOthers, Moving
  <2>3. \A x \in net' : x \in net \/ x.type \in Moving
    BY <2>1, <2>2
  <2>4. NoTimer
    BY <1>3 DEF StartView, NoTimer
  <2> QED
    BY <1>3, <2>3, <2>4, MovingPledges
<1>4. CASE Exchange({m}, {}) /\ UNCHANGED <<log, timers>>
  BY <1>4, IdlePledges DEF Exchange
<1> QED
  BY <1>1, <1>2, <1>3, <1>4, IgnorePledges

\* What a server acknowledges to the second leader is found.
LEMMA NewViewPledges ==
    ASSUME NEW i \in Server, Underway(i), ProcessNewView(i)
    PROVE  Pledges'
<1>1. PICK m \in net :
         /\ Receive(i, m, "NEW_VIEW")
         /\ \/ Ignore({m})
            \/ /\ Exchange({m}, {Ack(i, Leader(m.view), "PRE_PREPARE_OK", c) : c \in m.prePrepares})
               /\ UNCHANGED <<log, timers, proposed>>
  BY DEF ProcessNewView, logVars, timerVars
<1>2. CASE /\ Exchange({m}, {Ack(i, Leader(m.view), "PRE_PREPARE_OK", c) : c \in m.prePrepares})
           /\ UNCHANGED <<log, timers, proposed>>
  <2>1. m.view = 2 /\ m.prePrepares = Reproposed(Leader(2), 2) /\ 2 \in 2 .. currentView[Leader(2)]
    <3>1. Started(m)
      BY <1>1 DEF Underway, CauseInv, Addressed, Receive
    <3>2. m.view \in 2 .. currentView[Leader(m.view)] /\ Leader(m.view) \in Server
      BY <1>1, <3>1, MessageForms, LeaderIsServer, ViewInBounds DEF Started, Receive, Underway, Inv, TypeOK
    <3>3. currentView[Leader(m.view)] \in {1, 2}
      BY <3>2, ViewsSoFar DEF Underway, SurveyInv
    <3>4. m.view = 2
      BY <3>2, <3>3
    <3> QED
      BY <3>1, <3>2, <3>4 DEF Started
  <2>2. ASSUME NEW c \in m.prePrepares PROVE ~Open(c)'
    <3>1. Found(c)
      BY <2>1 DEF Found, Repeated
    <3> QED
      BY <1>2, <3>1 DEF Underway, Steady, Open
  <2>3. ASSUME NEW c \in m.prePrepares PROVE MessagePledged(Ack(i, Leader(m.view), "PRE_PREPARE_OK", c))'
    <3>1. PICK a : a = Ack(i, Leader(m.view), "PRE_PREPARE_OK", c)
      OBVIOUS
    <3>2. a.type = "PRE_PREPARE_OK" /\ a.data = c
      BY <3>1 DEF Ack
    <3>3. MessagePledged(a)'
      BY <2>2, <3>2 DEF MessagePledged
    <3> QED
      BY <3>1, <3>3
  <2>4. \A x \in net' : x \in net \/ MessagePledged(x)'
    BY <1>2, <2>3 DEF Exchange
  <2> QED
    BY <1>2, <2>4, IdlePledges
<1> QED
  BY <1>1, <1>2, IgnorePledges

----------------------------------------------------------------------------
(* The pledges: the invariant.                                               *)

LEMMA StepPledges ==
    ASSUME Correct # Server, NEW i \in Server, Underway(i), Step(i)
    PROVE  Pledges'
<1>1. CASE ClientTransfer(i)
  BY <1>1, TransferPledges DEF ClientTransfer
<1>2. CASE ForwardedTransfer(i)
  <2>1. PICK m \in net : Receive(i, m, "TRANSFER") /\ ProcessTransfer(i, m.m, {m})
    BY <1>2 DEF ForwardedTransfer
  <2>2. m.m \in Req
    BY <2>1, MessageForms DEF Underway, Inv, TypeOK, Receive
  <2> QED
    BY <2>1, <2>2, TransferPledges
<1>3. CASE Checkpointing(i)
  BY <1>3, CheckpointPledges DEF Checkpointing
<1>4. CASE DigestTimeout(i) \/ SeqTimeout(i)
  <2>1. PICK t, stop, next : Expire(i, t, stop, next) /\ \A s : OptimisticTimer(s) # next
    BY <1>4, TimersDiffer DEF DigestTimeout, SeqTimeout
  <2> QED
    BY <2>1, ExpirePledges
<1>5. CASE ViewTimeout(i)
  <2>1. UNCHANGED <<log, net>>
    BY <1>5 DEF ViewTimeout, logVars
  <2>2. NoTimer
    <3>1. PICK v \in Views :
             \/ timers' = [timers EXCEPT ![i] = @ \ {ViewTimer(v)}]
             \/ timers' = [timers EXCEPT ![i] = (@ \ {ViewTimer(v)}) \cup {ViewTimer(v + 1)}]
      BY <1>5 DEF ViewTimeout
    <3>2. PICK next : next = ViewTimer(v + 1)
      OBVIOUS
    <3>3. \A s : OptimisticTimer(s) # next
      BY <3>2, TimersDiffer
    <3> QED
      BY <3>1, <3>2, <3>3, NoTimerAdded DEF Underway, Inv
  <2> QED
    BY <2>1, <2>2, MovingPledges
<1> QED
  BY <1>1, <1>2, <1>3, <1>4, <1>5, PrePreparePledges, PrePrepareOkPledges, TimeoutPledges, PreparePledges,
     PrepareOkPledges, CommitPledges, ViewChangePledges, NewViewPledges DEF Step, Ordering, ViewChanging

LEMMA InitPledge == Init => PledgeInv
  BY DEF Init, PledgeInv, Pledges, EntryPledged, NilEntry

LEMMA NextPledge ==
    ASSUME Correct # Server
    PROVE  /\ Inv /\ CommitInv /\ CauseInv /\ SurveyInv
           /\ Inv' /\ SurveyInv' /\ PledgeInv /\ [Next]_vars
           => PledgeInv'
<1> SUFFICES ASSUME Inv, Inv', CommitInv, CauseInv, SurveyInv, SurveyInv', PledgeInv, [Next]_vars, FirstTwo'
             PROVE  Pledges'
  BY DEF PledgeInv
<1>1. CASE UNCHANGED vars
  <2> USE <1>1 DEF vars, viewVars, logVars, execVars, stableVars, timerVars
  <2>1. Requests' = Requests
    BY DEF Requests
  <2>3. \A j, p : Pledged(j, p)' <=> Pledged(j, p)
    BY <2>1 DEF Pledged
  <2>4. \A p : Pledgers(p)' = Pledgers(p)
    BY <2>3 DEF Pledgers
  <2>5. \A p : (Secured(p)' <=> Secured(p)) /\ (Open(p)' <=> Open(p))
    BY <2>4 DEF Secured, Open, Found, Repeated, Reproposed
  <2>6. FirstTwo
    BY DEF FirstTwo
  <2>7. \A m \in net' : MessagePledged(m)'
    BY <2>3, <2>5, <2>6 DEF PledgeInv, Pledges, MessagePledged
  <2>8. ASSUME NEW i \in Server, NEW s \in Seqs PROVE EntryPledged(i, s)'
    <3>1. EntryPledged(i, s)
      BY <2>6 DEF PledgeInv, Pledges
    <3> QED
      BY <2>3, <2>4, <2>5, <3>1 DEF EntryPledged, VotesPledged, TimerPledged
  <2> QED
    BY <2>7, <2>8 DEF Pledges
<1>2. CASE \E i \in Server : Step(i)
  <2>1. PICK i \in Server : Step(i)
    BY <1>2
  <2>2. StillBut(i) /\ ~crashed[i] /\ Notes(i)
    BY <2>1, OthersStill, StepNotes DEF Inv, SurveyInv
  <2>3. Steady
    BY <2>1, StepIsSteady
  <2>4. FirstTwo
    <3>1. ASSUME NEW j \in Server PROVE currentView[j] <= 2
      <4>1. currentView'[j] >= currentView[j]
        BY <2>2, NumberFacts DEF Notes, StillBut, Still, Inv
      <4>2. currentView'[j] <= 2
        BY DEF FirstTwo
      <4>3. currentView[j] \in Int /\ currentView'[j] \in Int
        BY DEF Inv, TypeOK, Views
      <4> QED
        BY <4>1, <4>2, <4>3
    <3> QED
      BY <3>1 DEF FirstTwo
  <2> QED
    BY <2>1, <2>2, <2>3, <2>4, StepPledges DEF Underway, PledgeInv
<1> QED
  BY <1>1, <1>2 DEF Next

----------------------------------------------------------------------------
(* What follows from the pledges.                                            *)

\* While nobody is past the second view, every open assignment that may still be
\* committed is pledged by a quorum: those servers show it to the leader of view 2, and
\* keep it prepared until they ask for that view.  One Byzantine server closes the
\* short cut, which commits without anybody having prepared.
THEOREM PledgeInvariant ==
    ASSUME Correct # Server
    PROVE  Spec => []PledgeInv
<1>1. Spec => [](Inv /\ CommitInv /\ CauseInv /\ SurveyInv)
  BY AllInvariants, CommitInvariant, CauseInvariant, SurveyInvariant, PTL
<1>2. Init => PledgeInv
  BY InitPledge
<1>3. /\ Inv /\ CommitInv /\ CauseInv /\ SurveyInv
      /\ Inv' /\ SurveyInv' /\ PledgeInv /\ [Next]_vars
      => PledgeInv'
  BY NextPledge
<1> QED
  BY <1>1, <1>2, <1>3, PTL DEF Spec

\* computeBigO finds a certificate wherever there is one between the stable checkpoints
\* and the highest proof, if all that is proved for that number is one pre-prepare.
LEMMA CertifiedIsReproposed ==
    ASSUME NEW vcs \in SUBSET ViewChange, NEW p, p.seq \in Int, p.seq > 0,
           \A vc \in vcs : p.seq > vc.checkpoint.seq,
           \E vc \in vcs : \E x \in vc.pproofs : x.prePrepare.seq > p.seq,
           \E vc \in vcs : \E q \in vc.pproofs : q.prePrepare = p /\ Certifies(q),
           \A vc \in vcs : \A x \in vc.pproofs : x.prePrepare.seq = p.seq => x.prePrepare = p
    PROVE  p \in ComputeBigO(vcs)
<1> DEFINE C == {0} \cup {vc.checkpoint.seq : vc \in vcs}
           maxStable == Max(C)
           all == UNION {vc.pproofs : vc \in vcs}
           later == {x \in all : x.prePrepare.seq > maxStable}
           L == {0} \cup {x.prePrepare.seq : x \in later}
           maxSeq == Max(L)
           certified(s) == {x.prePrepare : x \in {y \in later : y.prePrepare.seq = s /\ Certifies(y)}}
           newest(s) == CHOOSE c \in certified(s) : \A d \in certified(s) : d.view <= c.view
           chosen(s) == IF certified(s) = {} THEN Nop ELSE newest(s)
<1>1. ComputeBigO(vcs) = {chosen(s) : s \in (maxStable + 1) .. (maxSeq - 1)}
  BY DEF ComputeBigO
<1>2. maxStable \in Int /\ maxStable < p.seq
  <2>1. \A vc \in vcs : vc.checkpoint.seq \in Int /\ vc.checkpoint.seq <= p.seq
    BY BoundAssumption DEF ViewChange, StableCheckpoint
  <2>2. C \in SUBSET Int /\ C # {} /\ \A x \in C : x <= p.seq
    BY <2>1
  <2>3. \A x \in C : x # p.seq
    BY <2>1
  <2> HIDE DEF C
  <2>4. Max(C) \in C
    BY <2>2, MaxOfBounded
  <2> QED
    BY <2>2, <2>3, <2>4
<1>3. \A x \in all : x \in PrepareProof /\ x.prePrepare \in Context
  BY DEF ViewChange, PrepareProof
<1>4. \A x \in all : x.prePrepare.seq \in Int /\ x.prePrepare.seq <= MaxSeq /\ x.prePrepare.view \in Int
  BY <1>3, BoundAssumption DEF Context
<1>5. \A x \in all : x.prePrepare.seq = p.seq => x.prePrepare = p
  OBVIOUS
<1>6. PICK q \in all : q.prePrepare = p /\ Certifies(q)
  OBVIOUS
<1>7. PICK z \in all : z.prePrepare.seq > p.seq
  OBVIOUS
<1> HIDE DEF C, maxStable, all
<1>8. maxSeq \in Int /\ maxSeq > p.seq
  <2>1. z \in later
    BY <1>2, <1>4, <1>7
  <2>2. L \in SUBSET Int /\ L # {} /\ \A x \in L : x <= MaxSeq
    BY <1>4, BoundAssumption
  <2>3. z.prePrepare.seq \in L
    BY <2>1
  <2> HIDE DEF L
  <2>4. Max(L) \in L /\ \A x \in L : x <= Max(L)
    <3>1. MaxSeq \in Int
      BY BoundAssumption
    <3> QED
      BY <2>2, <3>1, MaxOfBounded
  <2>5. Max(L) \in Int /\ Max(L) >= z.prePrepare.seq /\ z.prePrepare.seq \in Int
    BY <1>4, <2>2, <2>3, <2>4
  <2> QED
    BY <1>7, <2>5
<1>9. certified(p.seq) = {p}
  <2>1. q \in later
    BY <1>2, <1>6
  <2>2. p \in certified(p.seq)
    BY <1>6, <2>1
  <2>3. \A c \in certified(p.seq) : c = p
    BY <1>5
  <2> HIDE DEF certified
  <2> QED
    BY <2>2, <2>3
<1> HIDE DEF later, L, maxSeq, certified
<1>10. newest(p.seq) = p
  <2>1. p.view <= p.view
    BY <1>4, <1>6
  <2> QED
    BY <1>9, <2>1
<1>11. chosen(p.seq) = p
  BY <1>9, <1>10
<1>12. p.seq \in (maxStable + 1) .. (maxSeq - 1)
  BY <1>2, <1>8
<1> HIDE DEF chosen
<1> QED
  BY <1>1, <1>11, <1>12

\* The state of the servers while the second view is the last.
Second ==
    /\ Inv /\ CommitInv /\ CauseInv /\ SurveyInv
    /\ FirstTwo /\ Pledges

\* A NEW_VIEW message is then about view 2, and shows what its leader keeps.
LEMMA SecondViewShown ==
    ASSUME Second, NEW m \in net, m.type = "NEW_VIEW"
    PROVE  /\ m.view = 2
           /\ m.vproofs \in SUBSET ViewChange
           /\ \A vc \in m.vproofs : vc.view = 2 /\ vc \in Requests /\ Earlier(vc)
           /\ {vc.from : vc \in m.vproofs} \in SUBSET Server
           /\ Cardinality({vc.from : vc \in m.vproofs}) >= 2 * F + 1
           /\ m.prePrepares = ComputeBigO(m.vproofs)
           /\ m.prePrepares = Reproposed(Leader(2), 2)
<1>1. Started(m) /\ Shown(m) /\ NewViewEarlier(m)
  BY DEF Second, CauseInv, Addressed, SurveyInv, EnoughShown, CommitInv, MessageBacked
<1>2. m.view \in Views /\ m.vproofs \in SUBSET ViewChange
  BY MessageForms DEF Second, Inv, TypeOK
<1>3. m.view = 2
  <2>1. Leader(m.view) \in Server /\ m.view \in Int
    BY <1>2, LeaderIsServer DEF Views
  <2>2. currentView[Leader(m.view)] \in {1, 2}
    BY <2>1, ViewsSoFar DEF Second, SurveyInv
  <2> QED
    BY <1>1, <2>1, <2>2 DEF Started
<1>4. \A vc \in m.vproofs : vc.view = 2 /\ Earlier(vc)
  BY <1>1, <1>3 DEF Started, NewViewEarlier
<1>5. \A vc \in m.vproofs : vc \in Requests
  BY DEF Requests
<1>6. m.prePrepares = Reproposed(Leader(2), 2)
  BY <1>1, <1>3 DEF Started
<1>7. m.vproofs = {vc \in viewChangeMessages[Leader(2)] : vc.view = 2}
  BY <1>1, <1>3 DEF Shown
<1>8. m.prePrepares = ComputeBigO(m.vproofs)
  BY <1>6, <1>7 DEF Reproposed
<1>9. {vc.from : vc \in m.vproofs} \in SUBSET Server
  BY <1>2 DEF ViewChange
<1>10. Cardinality({vc.from : vc \in m.vproofs}) >= 2 * F + 1
  BY <1>1 DEF Shown
<1> QED
  BY <1>2, <1>3, <1>4, <1>5, <1>6, <1>8, <1>9, <1>10

\* What was executed in view 1 is proposed again, or shown by one of the requests.
LEMMA ExecutedIsShown ==
    ASSUME Second, NEW m \in net, m.type = "NEW_VIEW",
           NEW i \in Server, NEW s \in Seqs, NEW p, p = log[i][s].prePrepare,
           log[i][s].status = "EXECUTED", p.view < 2
    PROVE  /\ p \in proposed /\ p.seq = s /\ p.view = 1 /\ p.digest = executed[i][s]
           /\ p \in m.prePrepares \/ \E vc \in m.vproofs : Shows(vc, p)
<1>1. p \in proposed /\ p.seq = s
  BY DEF Second, Inv, AssignmentInv, EntriesAreProposed
<1>2. p.view = 1
  BY <1>1, ViewsSoFar DEF Second, SurveyInv
<1>3. p.digest = executed[i][s]
  BY DEF Second, SurveyInv, ExecutedIsHeld
<1>4. CASE Found(p)
  <2>1. PICK v \in 2 .. currentView[Leader(2)] : p \in Reproposed(Leader(2), v)
    BY <1>4 DEF Found, Repeated
  <2>2. Leader(2) \in Server
    BY LeaderIsServer
  <2>3. currentView[Leader(2)] \in {1, 2}
    BY <2>2, ViewsSoFar DEF Second, SurveyInv
  <2>4. v = 2
    BY <2>1, <2>3
  <2> QED
    BY <1>1, <1>2, <1>3, <2>1, <2>4, SecondViewShown
<1>5. CASE ~Found(p)
  <2>1. Open(p)
    BY <1>1, <1>2, <1>5 DEF Open
  <2>2. EntryPledged(i, s)
    BY DEF Second, Pledges
  <2>3. VotesPledged(i, log[i][s], p)
    BY <2>1, <2>2 DEF EntryPledged
  <2>4. Secured(p)
    BY <2>3 DEF VotesPledged, Committed
  <2>5. PICK A \in SUBSET Server : A = {vc.from : vc \in m.vproofs} /\ Cardinality(A) >= 2 * F + 1
    BY SecondViewShown
  <2>6. PICK j \in Server : j \in Pledgers(p) /\ j \in A
    <3>1. Pledgers(p) \in SUBSET Server /\ Cardinality(Pledgers(p)) >= 2 * F + 1
      BY <2>4 DEF Secured, Pledgers
    <3> QED
      BY <2>5, <3>1, QuorumsMeet
  <2>7. PICK vc \in m.vproofs : vc.from = j
    BY <2>5, <2>6
  <2>8. vc \in Requests /\ vc.view = 2
    BY SecondViewShown
  <2>9. Pledged(j, p)
    BY <2>6 DEF Pledgers
  <2>10. Shows(vc, p)
    BY <2>7, <2>8, <2>9 DEF Pledged
  <2> QED
    BY <1>1, <1>2, <1>3, <2>10
<1> QED
  BY <1>4, <1>5

LEMMA SecondKnows == Second => ExecutedKnownToNewView
<1> SUFFICES ASSUME Second, NEW m \in net, m.type = "NEW_VIEW", NEW i \in Server, NEW s \in Seqs,
                    log[i][s].status = "EXECUTED", log[i][s].prePrepare.view < m.view
             PROVE  \E vc \in m.vproofs :
                       \/ vc.checkpoint.seq >= s
                       \/ \E q \in vc.pproofs : q.prePrepare.seq = s /\ q.prePrepare.digest = executed[i][s]
  BY DEF ExecutedKnownToNewView
<1>1. PICK p : p = log[i][s].prePrepare
  OBVIOUS
<1>2. p.view < 2
  BY <1>1, SecondViewShown
<1>3. /\ p \in proposed /\ p.seq = s /\ p.view = 1 /\ p.digest = executed[i][s]
      /\ p \in m.prePrepares \/ \E vc \in m.vproofs : Shows(vc, p)
  BY <1>1, <1>2, ExecutedIsShown
<1>4. CASE p \in m.prePrepares
  <2>1. p \in ComputeBigO(m.vproofs) /\ m.vproofs \in SUBSET ViewChange
    BY <1>4, SecondViewShown
  <2>2. p # Nop
    BY <1>3 DEF Nop
  <2> QED
    BY <1>3, <2>1, <2>2, BigOIsProved
<1>5. CASE \E vc \in m.vproofs : Shows(vc, p)
  BY <1>3, <1>5 DEF Shows
<1> QED
  BY <1>3, <1>4, <1>5

LEMMA SecondReproposes == Second => ExecutedReproposed
<1> SUFFICES ASSUME Second, NEW m \in net, m.type = "NEW_VIEW", NEW i \in Server, NEW s \in Seqs,
                    log[i][s].status = "EXECUTED", log[i][s].prePrepare.view = m.view - 1,
                    s > 0, \A vc \in m.vproofs : s > vc.checkpoint.seq,
                    \E vc \in m.vproofs : \E x \in vc.pproofs : x.prePrepare.seq > s
             PROVE  \E c \in m.prePrepares : c.seq = s /\ c.digest = executed[i][s]
  BY DEF ExecutedReproposed
<1>1. PICK p : p = log[i][s].prePrepare
  OBVIOUS
<1>2. p.view < 2
  <2>1. m.view = 2
    BY SecondViewShown
  <2>2. p.view = 2 - 1
    BY <1>1, <2>1
  <2> QED
    BY <2>2
<1>3. /\ p \in proposed /\ p.seq = s /\ p.view = 1 /\ p.digest = executed[i][s]
      /\ p \in m.prePrepares \/ \E vc \in m.vproofs : Shows(vc, p)
  BY <1>1, <1>2, ExecutedIsShown
<1>4. /\ m.vproofs \in SUBSET ViewChange /\ m.prePrepares = ComputeBigO(m.vproofs)
      /\ \A vc \in m.vproofs : vc.view = 2 /\ Earlier(vc)
  BY SecondViewShown
<1>5. CASE \E vc \in m.vproofs : Shows(vc, p)
  <2>1. \E vc \in m.vproofs : \E q \in vc.pproofs : q.prePrepare = p /\ Certifies(q)
    <3>1. PICK vc \in m.vproofs : Shows(vc, p)
      BY <1>5
    <3>2. s \in Int /\ vc.checkpoint.seq \in Int
      BY <1>4 DEF ViewChange, StableCheckpoint, Seqs
    <3>3. ~(vc.checkpoint.seq >= p.seq)
      BY <1>3, <3>2
    <3> QED
      BY <3>1, <3>3 DEF Shows
  <2>2. ASSUME NEW vc \in m.vproofs, NEW x \in vc.pproofs, x.prePrepare.seq = p.seq
        PROVE  x.prePrepare = p
    <3>1. x.prePrepare \in proposed /\ x.prePrepare.view < 2
      BY <1>4 DEF Earlier
    <3>2. x.prePrepare.view = 1
      BY <3>1, ViewsSoFar DEF Second, SurveyInv
    <3> QED
      BY <1>3, <2>2, <3>1, <3>2 DEF Second, Inv, AssignmentInv, UniqueAssignments
  <2>3. p \in ComputeBigO(m.vproofs)
    BY <1>3, <1>4, <2>1, <2>2, CertifiedIsReproposed DEF Seqs
  <2> QED
    BY <1>3, <1>4, <2>3
<1> QED
  BY <1>3, <1>5

\* Unless all servers are correct, so that the short cut is open: as long as no server is
\* past view 2, the leader of view 2 learns of every request that was executed in view 1,
\* from the 2f + 1 requests to change the view it waited for or from a checkpoint.
THEOREM SecondViewKnows ==
    ASSUME Correct # Server
    PROVE  Spec => [](FirstTwo => ExecutedKnownToNewView)
<1>1. Inv /\ CommitInv /\ CauseInv /\ SurveyInv /\ PledgeInv /\ FirstTwo => ExecutedKnownToNewView
  BY SecondKnows DEF Second, PledgeInv
<1>2. Spec => []PledgeInv
  BY PledgeInvariant
<1> QED
  BY <1>1, <1>2, AllInvariants, CommitInvariant, CauseInvariant, SurveyInvariant, PTL

\* And it proposes them again under the same numbers, where computeBigO looks.
THEOREM SecondViewReproposes ==
    ASSUME Correct # Server
    PROVE  Spec => [](FirstTwo => ExecutedReproposed)
<1>1. Inv /\ CommitInv /\ CauseInv /\ SurveyInv /\ PledgeInv /\ FirstTwo => ExecutedReproposed
  BY SecondReproposes DEF Second, PledgeInv
<1>2. Spec => []PledgeInv
  BY PledgeInvariant
<1> QED
  BY <1>1, <1>2, AllInvariants, CommitInvariant, CauseInvariant, SurveyInvariant, PTL
=============================================================================
