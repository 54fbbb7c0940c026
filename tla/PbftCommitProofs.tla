--------------------------- MODULE PbftCommitProofs ---------------------------
(* What is behind a commit, Spec => []CommitCertificate, and behind a crash,   *)
(* Spec => []CrashHasCause.                                                    *)
EXTENDS PbftLogProofs

----------------------------------------------------------------------------
(* The inductive invariant.  While the view of an assignment lasts that is the *)
(* first of its number, nothing else is in any slot of that number: a server   *)
(* that has an entry there holds the assignment.  What a collector counts,     *)
(* without a look at the view, is then of this assignment.                     *)

First(p) ==
    /\ \A j \in Server : currentView[j] <= p.view
    /\ \A q \in proposed : q.seq = p.seq => q.view = p.view

Holders(s)    == {j \in Server : log[j][s].status # "NIL"}
Backups(p)    == Holders(p.seq) \ {Leader(p.view)}
PreparedAt(s) == {j \in Server : Prepared(log[j][s])}

\* Commit signatures come from servers that prepared, or from a short cut.
Backed(sigs, s) == sigs \subseteq PreparedAt(s) \/ Holders(s) = Server
Certificate(s)  == Cardinality(PreparedAt(s)) >= 2 * F + 1 \/ Holders(s) = Server

\* What a request to change the view proves was proposed in views before the one asked for.
Earlier(vc) == \A p \in vc.pproofs : p.prePrepare \in proposed /\ p.prePrepare.view < vc.view

AckBacked(m) == m.data # Nop =>
    m.data \in proposed /\ (First(m.data) => m.from \in Backups(m.data))
PrepareOkBacked(m) == 
    m.data \in proposed /\ (First(m.data) => m.from \in PreparedAt(m.data.seq))
PrepareBacked(m) ==
    m.data \in proposed /\ (First(m.data) => m.sigs \subseteq Backups(m.data))
CommitBacked(m) ==
    m.data \in proposed /\ (First(m.data) => Backed(m.sigs, m.data.seq))
NewViewEarlier(m) ==
    /\ \A vc \in m.vproofs : Earlier(vc)
    /\ \A c \in m.prePrepares : c # Nop => c \in proposed /\ c.view < m.view

\* What m says holds of its sender, or of those whose signatures it carries.
MessageBacked(m) ==
    /\ m.type = "PRE_PREPARE_OK" => AckBacked(m)
    /\ m.type = "PREPARE_OK"     => PrepareOkBacked(m)
    /\ m.type = "PREPARE"        => PrepareBacked(m)
    /\ m.type = "COMMIT"         => CommitBacked(m)
    /\ m.type = "VIEW_CHANGE"    => Earlier(m.request)
    /\ m.type = "NEW_VIEW"       => NewViewEarlier(m)

EntryBacked(i, s) ==
    LET e == log[i][s]
    IN  e.status # "NIL" /\ First(e.prePrepare) =>
            /\ Voters(e.prepares) \subseteq Backups(e.prePrepare)
            /\ Backed(Voters(e.commits), s)
            /\ Committed(e) => Certificate(s)

\* The short cut is a matter of the leader that prepared.
TimerBacked(i, s) ==
    LET e == log[i][s]
    IN  OptimisticTimer(s) \in timers[i] =>
            /\ e.status # "NIL"
            /\ First(e.prePrepare) => Prepared(e) /\ i = Leader(e.prePrepare.view)

ViewsBacked(i) ==
    /\ \A vc \in viewChangeMessages[i] : Earlier(vc)
    /\ state[i] = "VIEW_CHANGE" => lastProposedView[i] > currentView[i]

CommitInv ==
    /\ \A m \in net : MessageBacked(m)
    /\ \A i \in Server, s \in Seqs : EntryBacked(i, s) /\ TimerBacked(i, s)
    /\ \A i \in Server : ViewsBacked(i)

----------------------------------------------------------------------------
(* While p is the first of its number, its number is its own.               *)

FirstOnly == \A p \in proposed : First(p) =>
    /\ p.seq \in Seqs /\ p \in Context
    /\ \A q \in proposed : q.seq = p.seq => q = p
    /\ \A j \in Server : log[j][p.seq].status # "NIL" => log[j][p.seq].prePrepare = p

LEMMA FirstIsOnly == Inv => FirstOnly
<1> SUFFICES ASSUME Inv, NEW p \in proposed, First(p)
             PROVE  /\ p.seq \in Seqs /\ p \in Context
                    /\ \A q \in proposed : q.seq = p.seq => q = p
                    /\ \A j \in Server : log[j][p.seq].status # "NIL" => log[j][p.seq].prePrepare = p
  BY DEF FirstOnly
<1>1. p.seq \in Seqs /\ p \in Context
  BY DEF Inv, AssignmentInv, LeadersKeepAssignments, TypeOK
<1>2. ASSUME NEW q \in proposed, q.seq = p.seq PROVE q = p
  BY <1>2 DEF First, Inv, AssignmentInv, UniqueAssignments
<1>3. ASSUME NEW j \in Server, log[j][p.seq].status # "NIL" PROVE log[j][p.seq].prePrepare = p
  BY <1>1, <1>2, <1>3 DEF Inv, AssignmentInv, EntriesAreProposed
<1> QED
  BY <1>1, <1>2, <1>3

LEMMA FirstIsOnlyNext == Inv' => FirstOnly'
  BY FirstIsOnly, PTL

\* What every step does: no entry is taken away, and an entry that keeps its assignment
\* stays prepared.
Grows ==
    /\ proposed \subseteq proposed'
    /\ \A j \in Server : currentView'[j] >= currentView[j]
    /\ \A j \in Server, s \in Seqs : log[j][s].status # "NIL" =>
           /\ log'[j][s].status # "NIL"
           /\ log'[j][s].prePrepare = log[j][s].prePrepare /\ Prepared(log[j][s])
                 => Prepared(log'[j][s])

LEMMA FirstLasts ==
    ASSUME Inv, Inv', Grows, NEW p \in proposed, First(p)'
    PROVE  /\ First(p) /\ p \in proposed' /\ p.seq \in Seqs
           /\ Holders(p.seq) \subseteq Holders(p.seq)'
           /\ PreparedAt(p.seq) \subseteq PreparedAt(p.seq)'
<1>1. p \in proposed'
  BY DEF Grows
<1>2. First(p)
  <2>1. ASSUME NEW j \in Server PROVE currentView[j] <= p.view
    <3>1. currentView[j] \in Int /\ currentView'[j] \in Int /\ p.view \in Int
      BY NumberFacts DEF Inv, TypeOK, Views
    <3>2. currentView'[j] <= p.view /\ currentView'[j] >= currentView[j]
      BY DEF First, Grows
    <3> QED
      BY <3>1, <3>2
  <2> QED
    BY <2>1 DEF First, Grows
<1>3. p.seq \in Seqs
  BY <1>2, FirstIsOnly DEF FirstOnly
<1>4. Holders(p.seq) \subseteq Holders(p.seq)'
  BY <1>3 DEF Holders, Grows
<1>5. ASSUME NEW j \in Server, Prepared(log[j][p.seq]) PROVE Prepared(log'[j][p.seq])
  <2>1. log[j][p.seq].status # "NIL"
    BY <1>5 DEF Prepared
  <2>2. log[j][p.seq].prePrepare = p
    BY <1>2, <2>1, FirstIsOnly DEF FirstOnly
  <2>3. log'[j][p.seq].status # "NIL"
    BY <1>3, <2>1 DEF Grows
  <2>4. log'[j][p.seq].prePrepare = p
    BY <1>1, <2>3, FirstIsOnlyNext DEF FirstOnly
  <2> QED
    BY <1>3, <1>5, <2>1, <2>2, <2>4 DEF Grows
<1>6. PreparedAt(p.seq) \subseteq PreparedAt(p.seq)'
  BY <1>5 DEF PreparedAt
<1> QED
  BY <1>1, <1>2, <1>3, <1>4, <1>6

\* So what was behind p stays behind p.
LEMMA BackingLasts ==
    ASSUME Inv, Inv', Grows, NEW p \in proposed, First(p)'
    PROVE  /\ Backups(p) \subseteq Backups(p)'
           /\ \A sigs : Backed(sigs, p.seq) => Backed(sigs, p.seq)'
           /\ Certificate(p.seq) => Certificate(p.seq)'
<1> DEFINE s == p.seq
<1>1. Holders(s) \subseteq Holders(s)' /\ PreparedAt(s) \subseteq PreparedAt(s)'
  BY FirstLasts
<1>2. Holders(s) \in SUBSET Server /\ Holders(s)' \in SUBSET Server
      /\ PreparedAt(s) \in SUBSET Server /\ PreparedAt(s)' \in SUBSET Server
  BY DEF Holders, PreparedAt
<1>3. Backups(p) \subseteq Backups(p)'
  BY <1>1 DEF Backups
<1>4. Holders(s) = Server => Holders(s)' = Server
  BY <1>1, <1>2
<1>5. \A sigs : Backed(sigs, s) => Backed(sigs, s)'
  BY <1>1, <1>4 DEF Backed
<1>6. Certificate(s) => Certificate(s)'
  <2>1. Cardinality(PreparedAt(s)) <= Cardinality(PreparedAt(s)')
    BY <1>1, <1>2, ServerSets
  <2>2. Cardinality(PreparedAt(s)) \in Nat /\ Cardinality(PreparedAt(s)') \in Nat
    BY <1>2, ServerSets
  <2> QED
    BY <1>4, <2>1, <2>2, FAssumption DEF Certificate
<1> QED
  BY <1>3, <1>5, <1>6

----------------------------------------------------------------------------
(* What a step does not touch keeps its backing.                             *)

LEMMA EarlierLasts ==
    ASSUME Grows, NEW vc, Earlier(vc)
    PROVE  Earlier(vc)'
  BY DEF Grows, Earlier

LEMMA MessageLasts ==
    ASSUME Inv, Inv', Grows, NEW m \in net, MessageBacked(m)
    PROVE  MessageBacked(m)'
<1>1. ASSUME m.type = "PRE_PREPARE_OK" PROVE AckBacked(m)'
  <2> SUFFICES ASSUME NEW p, p = m.data, p # Nop
               PROVE  p \in proposed' /\ (First(p)' => m.from \in Backups(p)')
    BY DEF AckBacked
  <2>1. p \in proposed /\ (First(p) => m.from \in Backups(p))
    BY <1>1 DEF MessageBacked, AckBacked
  <2> QED
    BY <2>1, FirstLasts, BackingLasts DEF Grows
<1>2. ASSUME m.type = "PREPARE_OK" PROVE PrepareOkBacked(m)'
  <2> SUFFICES ASSUME NEW p, p = m.data
               PROVE  p \in proposed' /\ (First(p)' => m.from \in PreparedAt(p.seq)')
    BY DEF PrepareOkBacked
  <2>1. p \in proposed /\ (First(p) => m.from \in PreparedAt(p.seq))
    BY <1>2 DEF MessageBacked, PrepareOkBacked
  <2> QED
    BY <2>1, FirstLasts DEF Grows
<1>3. ASSUME m.type = "PREPARE" PROVE PrepareBacked(m)'
  <2> SUFFICES ASSUME NEW p, p = m.data
               PROVE  p \in proposed' /\ (First(p)' => m.sigs \subseteq Backups(p)')
    BY DEF PrepareBacked
  <2>1. p \in proposed /\ (First(p) => m.sigs \subseteq Backups(p))
    BY <1>3 DEF MessageBacked, PrepareBacked
  <2> QED
    BY <2>1, FirstLasts, BackingLasts DEF Grows
<1>4. ASSUME m.type = "COMMIT" PROVE CommitBacked(m)'
  <2> SUFFICES ASSUME NEW p, p = m.data
               PROVE  p \in proposed' /\ (First(p)' => Backed(m.sigs, p.seq)')
    BY DEF CommitBacked
  <2>1. p \in proposed /\ (First(p) => Backed(m.sigs, p.seq))
    BY <1>4 DEF MessageBacked, CommitBacked
  <2> QED
    BY <2>1, FirstLasts, BackingLasts DEF Grows
<1>5. m.type = "VIEW_CHANGE" => Earlier(m.request)'
  BY EarlierLasts DEF MessageBacked
<1>6. m.type = "NEW_VIEW" => NewViewEarlier(m)'
  BY EarlierLasts DEF MessageBacked, NewViewEarlier, Grows
<1> QED
  BY <1>1, <1>2, <1>3, <1>4, <1>5, <1>6 DEF MessageBacked

\* f has no more to back than e.
SameVotes(e, f) ==
    /\ f.prePrepare = e.prePrepare /\ f.prepares = e.prepares /\ f.commits = e.commits
    /\ Committed(f) => Committed(e)
    /\ f.status # "NIL" => e.status # "NIL"

LEMMA EntryLasts ==
    ASSUME Inv, Inv', Grows, NEW i \in Server, NEW s \in Seqs, EntryBacked(i, s),
           SameVotes(log[i][s], log'[i][s])
    PROVE  EntryBacked(i, s)'
<1> DEFINE e == log[i][s]
<1> SUFFICES ASSUME NEW f, f = log'[i][s], NEW p, p = f.prePrepare, f.status # "NIL", First(p)'
             PROVE  /\ Voters(f.prepares) \subseteq Backups(p)'
                    /\ Backed(Voters(f.commits), s)'
                    /\ Committed(f) => Certificate(s)'
  BY DEF EntryBacked
<1>1. p = e.prePrepare /\ e.status # "NIL"
  BY DEF SameVotes
<1>2. p \in proposed /\ p.seq = s
  BY <1>1 DEF Inv, AssignmentInv, EntriesAreProposed
<1>3. First(p)
  BY <1>2, FirstLasts
<1>4. /\ Voters(e.prepares) \subseteq Backups(p)
      /\ Backed(Voters(e.commits), s)
      /\ Committed(e) => Certificate(s)
  BY <1>1, <1>3 DEF EntryBacked
<1> QED
  BY <1>1, <1>2, <1>4, BackingLasts DEF SameVotes

\* A timer that was there: the entry cannot have been replaced by a first proposal.
LEMMA TimerLasts ==
    ASSUME Inv, Inv', Grows, NEW i \in Server, NEW s \in Seqs, TimerBacked(i, s),
           OptimisticTimer(s) \in timers'[i] => OptimisticTimer(s) \in timers[i]
    PROVE  TimerBacked(i, s)'
<1> DEFINE e == log[i][s]
           f == log'[i][s]
<1> SUFFICES ASSUME OptimisticTimer(s) \in timers[i], NEW p, p = f.prePrepare
             PROVE  /\ f.status # "NIL"
                    /\ First(p)' => Prepared(f) /\ i = Leader(p.view)
  BY DEF TimerBacked
<1>1. e.status # "NIL" /\ (First(e.prePrepare) => Prepared(e) /\ i = Leader(e.prePrepare.view))
  BY DEF TimerBacked
<1>2. f.status # "NIL"
  BY <1>1 DEF Grows
<1>3. /\ e.prePrepare \in proposed /\ e.prePrepare.seq = s
      /\ p \in proposed' /\ p.seq = s
  BY <1>1, <1>2 DEF Inv, AssignmentInv, EntriesAreProposed
<1>4. ASSUME First(p)' PROVE Prepared(f) /\ i = Leader(p.view)
  <2>1. e.prePrepare \in proposed'
    BY <1>3 DEF Grows
  <2>2. e.prePrepare = p
    BY <1>3, <1>4, <2>1, FirstIsOnlyNext DEF FirstOnly
  <2>3. First(p)
    BY <1>3, <1>4, <2>2, FirstLasts
  <2> QED
    BY <1>1, <2>2, <2>3 DEF Grows
<1> QED
  BY <1>2, <1>4

LEMMA ViewsLast ==
    ASSUME Grows, UNCHANGED viewVars, NEW i \in Server, ViewsBacked(i)
    PROVE  ViewsBacked(i)'
  BY EarlierLasts DEF ViewsBacked, viewVars

\* A step keeps the invariant when everything it makes is backed.
LEMMA Keeps ==
    ASSUME Inv, Inv', CommitInv, Grows,
           \A m \in net' : m \in net \/ MessageBacked(m)',
           \A i \in Server, s \in Seqs : SameVotes(log[i][s], log'[i][s]) \/ EntryBacked(i, s)',
           \A i \in Server, s \in Seqs : OptimisticTimer(s) \in timers'[i] =>
              OptimisticTimer(s) \in timers[i] \/ TimerBacked(i, s)',
           UNCHANGED viewVars \/ \A i \in Server : ViewsBacked(i)'
    PROVE  CommitInv'
<1>1. \A m \in net' : MessageBacked(m)'
  BY MessageLasts DEF CommitInv
<1>2. \A i \in Server, s \in Seqs : EntryBacked(i, s)'
  BY EntryLasts DEF CommitInv
<1>3. \A i \in Server, s \in Seqs : TimerBacked(i, s)'
  BY TimerLasts DEF CommitInv
<1>4. \A i \in Server : ViewsBacked(i)'
  BY ViewsLast DEF CommitInv
<1> QED
  BY <1>1, <1>2, <1>3, <1>4 DEF CommitInv

----------------------------------------------------------------------------
(* What a step makes.                                                        *)

LEMMA VotersAdded ==
    ASSUME NEW votes, NEW from, NEW v
    PROVE  Voters(AddVotes(votes, from, v)) \subseteq Voters(votes) \cup from
  BY DEF Voters, AddVotes

LEMMA VotersCertified ==
    ASSUME NEW m, NEW e, NEW votes
    PROVE  Voters(Certified(m, e, votes)) \subseteq Voters(votes) \cup m.sigs
  BY VotersAdded DEF Certified

LEMMA NobodyVoted == Voters(NoVotes) = {}
  BY DEF Voters, NoVotes

\* Whoever sends something backs it.
Made == \A i \in Server, p \in proposed : \A sigs, j :
    /\ (First(p) => i \in Backups(p)) => MessageBacked(Ack(i, j, "PRE_PREPARE_OK", p))
    /\ (First(p) => i \in PreparedAt(p.seq)) => MessageBacked(Ack(i, j, "PREPARE_OK", p))
    /\ (First(p) => sigs \subseteq Backups(p)) =>
          \A m \in ProofToAll(i, "PREPARE", p, sigs) : MessageBacked(m)
    /\ (First(p) => Backed(sigs, p.seq)) =>
          \A m \in ProofToAll(i, "COMMIT", p, sigs) : MessageBacked(m)

LEMMA MadeIsBacked == Made
<1> SUFFICES ASSUME NEW i \in Server, NEW p \in proposed, NEW sigs, NEW j
             PROVE /\ (First(p) => i \in Backups(p)) => MessageBacked(Ack(i, j, "PRE_PREPARE_OK", p))
                   /\ (First(p) => i \in PreparedAt(p.seq)) => MessageBacked(Ack(i, j, "PREPARE_OK", p))
                   /\ (First(p) => sigs \subseteq Backups(p)) =>
                         \A m \in ProofToAll(i, "PREPARE", p, sigs) : MessageBacked(m)
                   /\ (First(p) => Backed(sigs, p.seq)) =>
                         \A m \in ProofToAll(i, "COMMIT", p, sigs) : MessageBacked(m)
  BY DEF Made
<1>1. (First(p) => i \in Backups(p)) => MessageBacked(Ack(i, j, "PRE_PREPARE_OK", p))
  BY DEF Ack, MessageBacked, AckBacked
<1>2. (First(p) => i \in PreparedAt(p.seq)) => MessageBacked(Ack(i, j, "PREPARE_OK", p))
  BY DEF Ack, MessageBacked, PrepareOkBacked
<1>3. ASSUME First(p) => sigs \subseteq Backups(p), NEW m \in ProofToAll(i, "PREPARE", p, sigs)
      PROVE  MessageBacked(m)
  BY <1>3 DEF ProofToAll, ToOthers, MessageBacked, PrepareBacked
<1>4. ASSUME First(p) => Backed(sigs, p.seq), NEW m \in ProofToAll(i, "COMMIT", p, sigs)
      PROVE  MessageBacked(m)
  BY <1>4 DEF ProofToAll, ToOthers, MessageBacked, CommitBacked
<1> QED
  BY <1>1, <1>2, <1>3, <1>4

LEMMA MadeIsBackedNext == Made'
  BY MadeIsBacked, PTL

LEMMA SaysNothing ==
    ASSUME NEW m, m.type \in {"TRANSFER", "PRE_PREPARE", "CHECKPOINT"}
    PROVE  MessageBacked(m)'
  BY DEF MessageBacked

\* Votes for p at its entry e.
VotesBacked(e, p, s) ==
    /\ Voters(e.prepares) \subseteq Backups(p)
    /\ Backed(Voters(e.commits), s)
    /\ Committed(e) => Certificate(s)

LEMMA EntryChanged ==
    ASSUME NEW i \in Server, NEW s \in Seqs, NEW e, SameVotes(e, log'[i][s]),
           NEW p, p = e.prePrepare, First(p)' => VotesBacked(e, p, s)'
    PROVE  EntryBacked(i, s)'
<1> SUFFICES ASSUME NEW f, f = log'[i][s], NEW q, q = f.prePrepare, f.status # "NIL", First(q)'
             PROVE  /\ Voters(f.prepares) \subseteq Backups(q)'
                    /\ Backed(Voters(f.commits), s)'
                    /\ Committed(f) => Certificate(s)'
  BY DEF EntryBacked
<1>1. q = p /\ f.prepares = e.prepares /\ f.commits = e.commits /\ (Committed(f) => Committed(e))
  BY DEF SameVotes
<1>2. VotesBacked(e, p, s)'
  BY <1>1
<1> QED
  BY <1>1, <1>2 DEF VotesBacked

\* The step writes the entry e for number s at server i, and leaves the others as they are
\* but for the commits it executes.
Writes(i, s, e) ==
    /\ SameVotes(e, log'[i][s])
    /\ \A j \in Server, t \in Seqs : ~(j = i /\ t = s) => SameVotes(log[j][t], log'[j][t])
    /\ Grows
    /\ UNCHANGED <<viewVars, proposed>>

LEMMA WritesEntry ==
    ASSUME Inv, NEW i \in Server, NEW s \in Seqs, NEW e,
           log' = [log EXCEPT ![i][s] = e], SameAssignment(log[i][s], e),
           Prepared(log[i][s]) => Prepared(e), UNCHANGED <<viewVars, proposed>>
    PROVE  Writes(i, s, e)
<1>1. \A j \in Server, t \in Seqs : log'[j][t] = IF j = i /\ t = s THEN e ELSE log[j][t]
  BY DEF Inv, TypeOK
<1>2. \A j \in Server : currentView'[j] >= currentView[j]
  BY NumberFacts DEF Inv, viewVars
<1>3. Grows
  BY <1>1, <1>2 DEF Grows, SameAssignment
<1> QED
  BY <1>1, <1>3 DEF Writes, SameVotes

LEMMA WritesAndExecutes ==
    ASSUME Inv, NEW i \in Server, NEW s \in Seqs, NEW e \in Entry, NEW in, NEW out,
           SameAssignment(log[i][s], e), e.status = "COMMITTED",
           ExecutePending(i, [log[i] EXCEPT ![s] = e], in, out), UNCHANGED <<viewVars, proposed>>
    PROVE  /\ Writes(i, s, e)
           /\ \A m \in net' : m \in net \/ m \in out \/ MessageBacked(m)'
<1> DEFINE l == [log[i] EXCEPT ![s] = e]
           S == Executable(l, lastExecuted[i], currentSequence[i])
           h == [t \in Seqs |-> IF t \in S THEN l[t].m ELSE executed[i][t]]
           C == {t \in S : IsCheckpoint(t)}
           d == [t \in Seqs |-> DigestOf(UpTo(h, t))]
           g == [t \in Seqs |-> IF t \in S THEN [l[t] EXCEPT !.status = "EXECUTED"] ELSE l[t]]
<1>1. log' = [log EXCEPT ![i] = g] /\ net' = (net \ in) \cup (out \cup UNION {CheckpointToAll(i, t, d[t]) : t \in C})
  BY DEF ExecutePending, Exchange
<1>2. \A t \in S : l[t].status = "COMMITTED"
  BY DEF Executable
<1>3. \A m \in UNION {CheckpointToAll(i, t, d[t]) : t \in C} : m.type = "CHECKPOINT"
  <2>1. \A t, x : \A m \in CheckpointToAll(i, t, x) : m.type = "CHECKPOINT"
    BY DEF CheckpointToAll, ToOthers
  <2> HIDE DEF C, d
  <2> QED
    BY <2>1
<1> HIDE DEF S, C, d
<1>4. \A t \in Seqs : l[t] \in Entry /\ l[t] = IF t = s THEN e ELSE log[i][t]
  BY DEF Inv, TypeOK
<1> HIDE DEF l
<1>5. ASSUME NEW t \in Seqs
      PROVE  /\ g[t].prePrepare = l[t].prePrepare /\ g[t].prepares = l[t].prepares
             /\ g[t].commits = l[t].commits
             /\ Committed(g[t]) <=> Committed(l[t])
             /\ Prepared(g[t]) <=> Prepared(l[t])
             /\ g[t].status # "NIL" <=> l[t].status # "NIL"
  <2>1. CASE t \in S
    BY <1>2, <1>4, <2>1 DEF Entry, Committed, Prepared
  <2> QED
    BY <2>1
<1> HIDE DEF g
<1>6. \A j \in Server, t \in Seqs : log'[j][t] = IF j = i THEN g[t] ELSE log[j][t]
  BY <1>1 DEF Inv, TypeOK
<1>7. SameVotes(e, log'[i][s])
  BY <1>4, <1>5, <1>6 DEF SameVotes
<1>8. \A j \in Server, t \in Seqs : ~(j = i /\ t = s) => SameVotes(log[j][t], log'[j][t])
  BY <1>4, <1>5, <1>6 DEF SameVotes
<1>9. ASSUME NEW j \in Server, NEW t \in Seqs, log[j][t].status # "NIL"
      PROVE  log'[j][t].status # "NIL" /\ (Prepared(log[j][t]) => Prepared(log'[j][t]))
  <2>1. CASE j = i /\ t = s
    BY <1>4, <1>5, <1>6, <2>1 DEF Prepared
  <2>2. CASE j = i /\ t # s
    BY <1>4, <1>5, <1>6, <1>9, <2>2
  <2>3. CASE j # i
    BY <1>6, <1>9, <2>3
  <2> QED
    BY <2>1, <2>2, <2>3
<1>10. Grows
  <2>1. \A j \in Server : currentView'[j] >= currentView[j]
    BY NumberFacts DEF Inv, viewVars
  <2> QED
    BY <1>9, <2>1 DEF Grows
<1>11. \A m \in net' : m \in net \/ m \in out \/ m.type = "CHECKPOINT"
  BY <1>1, <1>3
<1> QED
  BY <1>7, <1>8, <1>10, <1>11, SaysNothing DEF Writes

LEMMA WritingKeeps ==
    ASSUME Inv, Inv', CommitInv, NEW i \in Server, NEW s \in Seqs, NEW e, Writes(i, s, e),
           NEW p, p = e.prePrepare, First(p)' => VotesBacked(e, p, s)',
           \A m \in net' : m \in net \/ MessageBacked(m)',
           \A j \in Server, t \in Seqs : OptimisticTimer(t) \in timers'[j] =>
              OptimisticTimer(t) \in timers[j] \/ TimerBacked(j, t)'
    PROVE  CommitInv'
<1>1. EntryBacked(i, s)'
  BY EntryChanged DEF Writes
<1>2. \A j \in Server, t \in Seqs : SameVotes(log[j][t], log'[j][t]) \/ EntryBacked(j, t)'
  BY <1>1 DEF Writes
<1> QED
  BY <1>2, Keeps DEF Writes

\* Acknowledgements and certificates for the number of p are for p.
LEMMA CountedIsOwn ==
    ASSUME Inv, CommitInv, NEW p \in proposed, First(p), NEW m \in net, m.data.seq = p.seq
    PROVE  /\ m.type = "PRE_PREPARE_OK" => m.data = p /\ m.from \in Backups(p)
           /\ m.type = "PREPARE_OK" => m.data = p /\ m.from \in PreparedAt(p.seq)
           /\ m.type = "PREPARE" => m.data = p /\ m.sigs \subseteq Backups(p)
           /\ m.type = "COMMIT" => m.data = p /\ Backed(m.sigs, p.seq)
<1>1. /\ p.seq \in Seqs
      /\ \A q \in proposed : q.seq = p.seq => q = p
  BY FirstIsOnly DEF FirstOnly
<1>2. m.data # Nop
  BY <1>1, NumberFacts DEF Inv, Nop
<1>3. MessageBacked(m)
  BY DEF CommitInv
<1>4. m.type = "PRE_PREPARE_OK" => m.data = p /\ m.from \in Backups(p)
  BY <1>1, <1>2, <1>3 DEF MessageBacked, AckBacked
<1>5. m.type = "PREPARE_OK" => m.data = p /\ m.from \in PreparedAt(p.seq)
  BY <1>1, <1>3 DEF MessageBacked, PrepareOkBacked
<1>6. m.type = "PREPARE" => m.data = p /\ m.sigs \subseteq Backups(p)
  BY <1>1, <1>3 DEF MessageBacked, PrepareBacked
<1>7. m.type = "COMMIT" => m.data = p /\ Backed(m.sigs, p.seq)
  BY <1>1, <1>3 DEF MessageBacked, CommitBacked
<1> QED
  BY <1>4, <1>5, <1>6, <1>7

----------------------------------------------------------------------------
(* Ordering: the handlers one by one.                                        *)

NoTimer == \A i \in Server, s \in Seqs :
    OptimisticTimer(s) \in timers'[i] => OptimisticTimer(s) \in timers[i]

LEMMA IdleKeeps ==
    ASSUME Inv, Inv', CommitInv, UNCHANGED <<log, viewVars, proposed>>, NoTimer,
           \A m \in net' : m \in net \/ MessageBacked(m)'
    PROVE  CommitInv'
<1>1. Grows
  BY NumberFacts DEF Grows, Inv, viewVars
<1>2. \A i \in Server, s \in Seqs : SameVotes(log[i][s], log'[i][s])
  BY DEF SameVotes
<1> QED
  BY <1>1, <1>2, Keeps DEF NoTimer

LEMMA IgnoreKeeps ==
    ASSUME Inv, Inv', CommitInv, NEW in, Ignore(in)
    PROVE  CommitInv'
  BY IdleKeeps DEF Ignore, Exchange, logVars, timerVars, NoTimer

LEMMA CrashKeeps ==
    ASSUME Inv, Inv', CommitInv, NEW i, NEW in, Crash(i, in)
    PROVE  CommitInv'
  BY IdleKeeps DEF Crash, Exchange, logVars, timerVars, NoTimer

\* Only the timer of number s is the timer of number s.
LEMMA TimersDiffer ==
    /\ \A s, t : OptimisticTimer(s) = OptimisticTimer(t) => s = t
    /\ \A s, t, v : /\ OptimisticTimer(s) # DigestTimer(t, v)
                    /\ OptimisticTimer(s) # SeqTimer(t, v)
                    /\ OptimisticTimer(s) # ViewTimer(v)
<1>1. ASSUME NEW s, NEW t, OptimisticTimer(s) = OptimisticTimer(t) PROVE s = t
  <2>1. OptimisticTimer(s).seq = OptimisticTimer(t).seq
    BY <1>1
  <2> QED
    BY <2>1 DEF OptimisticTimer
<1>2. ASSUME NEW s, NEW t, NEW v
      PROVE  /\ OptimisticTimer(s).kind = "optimistic"
             /\ DigestTimer(t, v).kind = "digest"
             /\ SeqTimer(t, v).kind = "seq"
             /\ ViewTimer(v).kind = "view"
  BY DEF OptimisticTimer, DigestTimer, SeqTimer, ViewTimer
<1> QED
  BY <1>1, <1>2

LEMMA ForwardKeeps ==
    ASSUME Inv, Inv', CommitInv, NEW i \in Server, NEW r \in Req, NEW in, ForwardToLeader(i, r, in)
    PROVE  CommitInv'
<1>1. NoTimer
  BY TimersDiffer DEF ForwardToLeader, NoTimer, Inv, TypeOK
<1>2. \A m \in net' : m \in net \/ MessageBacked(m)'
  BY SaysNothing DEF ForwardToLeader, Exchange
<1> QED
  BY <1>1, <1>2, IdleKeeps DEF ForwardToLeader, logVars

LEMMA ProposalsSayNothing ==
    ASSUME NEW i, NEW data, NEW r, NEW m \in PrePrepareToAll(i, data, r)
    PROVE  MessageBacked(m)'
<1>1. m.type = "PRE_PREPARE"
  BY DEF PrePrepareToAll, ToOthers
<1> QED
  BY <1>1, SaysNothing

LEMMA NobodyBacked ==
    ASSUME NEW e, e.prepares = NoVotes, e.commits = NoVotes, NEW p, NEW s,
           Committed(e) => Certificate(s)'
    PROVE  VotesBacked(e, p, s)'
  BY NobodyVoted DEF VotesBacked, Backed

LEMMA ProposeNewKeeps ==
    ASSUME Inv, Inv', CommitInv, NEW i \in Server, NEW r \in Req, NEW in, ProposeNew(i, r, in)
    PROVE  CommitInv'
<1>1. PICK p : p = [view |-> currentView[i], seq |-> NextSequence(i), digest |-> r]
  OBVIOUS
<1>2. PICK e : e = NewEntry(r, p, i, NoVotes)
  OBVIOUS
<1>3. PICK s \in Seqs : s = NextSequence(i)
  BY DEF ProposeNew
<1>4. /\ log' = [log EXCEPT ![i][s] = e]
      /\ UNCHANGED <<viewVars, timerVars>>
      /\ proposed' = proposed \cup {p}
      /\ \/ Exchange(in, PrePrepareToAll(i, p, r))
         \/ Exchange(in, {})
  BY <1>1, <1>2, <1>3 DEF ProposeNew
<1>5. /\ e.status = "PRE_PREPARED" /\ e.prePrepare = p
      /\ e.prepares = NoVotes /\ e.commits = NoVotes
  BY <1>2 DEF NewEntry
<1>6. log[i][s].status = "NIL"
  <2>1. s \in Int /\ currentSequence[i] \in Int /\ s > currentSequence[i]
    BY <1>3, NumberFacts DEF NextSequence, Inv
  <2> QED
    BY <1>3, <2>1 DEF Inv, AssignmentInv, EntriesAreProposed
<1>7. \A j \in Server, t \in Seqs : log'[j][t] = IF j = i /\ t = s THEN e ELSE log[j][t]
  BY <1>4 DEF Inv, TypeOK
<1>8. Grows
  <2>1. \A j \in Server : currentView'[j] >= currentView[j]
    BY <1>4, NumberFacts DEF Inv, viewVars
  <2> QED
    BY <1>4, <1>6, <1>7, <2>1 DEF Grows
<1>9. EntryBacked(i, s)'
  <2>1. SameVotes(e, log'[i][s])
    BY <1>7 DEF SameVotes
  <2>2. VotesBacked(e, p, s)'
    BY <1>5, NobodyBacked DEF Committed
  <2> QED
    BY <1>5, <2>1, <2>2, EntryChanged
<1>10. \A j \in Server, t \in Seqs : SameVotes(log[j][t], log'[j][t]) \/ EntryBacked(j, t)'
  BY <1>7, <1>9 DEF SameVotes
<1>11. \A m \in net' : m \in net \/ MessageBacked(m)'
  BY <1>4, ProposalsSayNothing DEF Exchange
<1> QED
  BY <1>4, <1>8, <1>10, <1>11, Keeps DEF timerVars

\* What a leader proposes again is not the first proposal of its number, unless it is the
\* old one.
LEMMA ProposeAgainKeeps ==
    ASSUME Inv, Inv', CommitInv, NEW i \in Server, NEW r \in Req, NEW in,
           Known(i, r), ProposeAgain(i, r, in)
    PROVE  CommitInv'
<1>1. PICK s \in Seqs : s = digestToEntry[i][r]
  BY NumberFacts DEF Inv
<1>2. PICK p : p = [log[i][s].prePrepare EXCEPT !.view = currentView[i]]
  OBVIOUS
<1>3. PICK e : e = [log[i][s] EXCEPT !.prePrepare = p, !.from = i,
                                     !.prepares = NoVotes, !.commits = NoVotes]
  OBVIOUS
<1>4. /\ log' = [log EXCEPT ![i][s] = e]
      /\ UNCHANGED <<viewVars, timerVars>>
      /\ proposed' = proposed \cup {p}
      /\ Exchange(in, PrePrepareToAll(i, p, r))
  <2>1. log' = [log EXCEPT ![i][s] =
                  [@ EXCEPT !.prePrepare = p, !.from = i, !.prepares = NoVotes, !.commits = NoVotes]]
    BY <1>1, <1>2 DEF ProposeAgain
  <2>2. log' = [log EXCEPT ![i][s] = e]
    BY <1>3, <2>1 DEF Inv, TypeOK
  <2> QED
    BY <1>1, <1>2, <2>2 DEF ProposeAgain
<1>5. /\ e.status = log[i][s].status /\ e.prePrepare = p
      /\ e.prepares = NoVotes /\ e.commits = NoVotes
  BY <1>3, EntryAt DEF Inv, Entry
<1>6. log[i][s].status # "NIL"
  BY <1>1 DEF Inv, AssignmentInv, DigestsHaveEntries
<1>7. \A j \in Server, t \in Seqs : log'[j][t] = IF j = i /\ t = s THEN e ELSE log[j][t]
  BY <1>4 DEF Inv, TypeOK
<1>8. Grows
  <2>1. \A j \in Server : currentView'[j] >= currentView[j]
    BY <1>4, NumberFacts DEF Inv, viewVars
  <2> QED
    BY <1>4, <1>5, <1>7, <2>1 DEF Grows, Prepared
<1>9. EntryBacked(i, s)'
  <2>1. SameVotes(e, log'[i][s])
    BY <1>7 DEF SameVotes
  <2>2. ASSUME First(p)', Committed(e) PROVE Certificate(s)'
    <3>1. PICK q \in proposed : q = log[i][s].prePrepare /\ q.seq = s
      BY <1>6 DEF Inv, AssignmentInv, EntriesAreProposed
    <3>2. p \in proposed' /\ q \in proposed' /\ p.seq = s
      <4>1. p = log'[i][s].prePrepare /\ log'[i][s].status # "NIL"
        BY <1>5, <1>6, <1>7
      <4> QED
        BY <1>4, <4>1 DEF Inv, AssignmentInv, EntriesAreProposed
    <3>3. q = p
      BY <2>2, <3>1, <3>2, FirstIsOnlyNext DEF FirstOnly
    <3>4. First(q)
      BY <2>2, <1>8, <3>1, <3>3, FirstLasts
    <3>5. Certificate(s)
      BY <1>5, <1>6, <2>2, <3>1, <3>4 DEF CommitInv, EntryBacked, Committed
    <3> QED
      BY <1>8, <2>2, <3>1, <3>3, <3>5, BackingLasts
  <2>3. First(p)' => VotesBacked(e, p, s)'
    BY <1>5, <2>2, NobodyBacked
  <2> QED
    BY <1>5, <2>1, <2>3, EntryChanged
<1>10. \A j \in Server, t \in Seqs : SameVotes(log[j][t], log'[j][t]) \/ EntryBacked(j, t)'
  BY <1>7, <1>9 DEF SameVotes
<1>11. \A m \in net' : m \in net \/ MessageBacked(m)'
  BY <1>4, ProposalsSayNothing DEF Exchange
<1> QED
  BY <1>4, <1>8, <1>10, <1>11, Keeps DEF timerVars

LEMMA TransferKeeps ==
    ASSUME Inv, Inv', CommitInv, NEW i \in Server, NEW r \in Req, NEW in, ProcessTransfer(i, r, in)
    PROVE  CommitInv'
<1>1. CASE AnswerAgain(i, r, in)
  BY <1>1, IdleKeeps DEF AnswerAgain, Exchange, logVars, timerVars, NoTimer
<1> QED
  BY <1>1, IgnoreKeeps, ForwardKeeps, ProposeAgainKeeps, ProposeNewKeeps DEF ProcessTransfer

LEMMA PrePrepareKeeps ==
    ASSUME Inv, Inv', CommitInv, NEW i \in Server, ProcessPrePrepare(i)
    PROVE  CommitInv'
<1>1. PICK m \in net :
         /\ Receive(i, m, "PRE_PREPARE")
         /\ \/ Ignore({m})
            \/ /\ AcceptsPrePrepare(i, m)
               /\ \/ Exchange({m}, {}) /\ UNCHANGED <<log, timers>>
                  \/ StorePrePrepare(i, m)
               /\ UNCHANGED <<viewVars, proposed>>
  BY DEF ProcessPrePrepare
<1>2. CASE Exchange({m}, {}) /\ UNCHANGED <<log, timers, viewVars, proposed>>
  BY <1>2, IdleKeeps DEF Exchange, NoTimer
<1>3. CASE AcceptsPrePrepare(i, m) /\ StorePrePrepare(i, m) /\ UNCHANGED <<viewVars, proposed>>
  <2>1. PICK p \in proposed : p = m.data
    BY <1>1 DEF Inv, AssignmentInv, PrePreparesAreProposed, Receive
  <2>2. p.seq \in Seqs /\ i # Leader(p.view) /\ m.m = p.digest /\ log[i][p.seq].prePrepare # p
    BY <1>1, <1>3, <2>1 DEF Inv, AssignmentInv, PrePreparesAreProposed, LeadersKeepAssignments,
       LogInv, PrePreparesAreNew, Receive, AcceptsPrePrepare
  <2>3. PICK s \in Seqs : s = p.seq
    BY <2>2
  <2>4. PICK e : e = NewEntry(m.m, p, m.from, AddVotes(NoVotes, {i}, p.view))
    OBVIOUS
  <2>5. /\ log' = [log EXCEPT ![i][s] = e]
        /\ timers' = [timers EXCEPT ![i] = @ \cup {SeqTimer(s, currentView[i] + 1)}]
        /\ Exchange({m}, IF i \in Byzantine THEN {} ELSE {Ack(i, m.from, "PRE_PREPARE_OK", p)})
    BY <1>3, <2>1, <2>3, <2>4 DEF StorePrePrepare
  <2>6. /\ e.status = "PRE_PREPARED" /\ e.prePrepare = p /\ e.commits = NoVotes
        /\ Voters(e.prepares) \subseteq {i}
    BY <2>4, VotersAdded, NobodyVoted DEF NewEntry
  <2>7. \A j \in Server, t \in Seqs : log'[j][t] = IF j = i /\ t = s THEN e ELSE log[j][t]
    BY <2>5 DEF Inv, TypeOK
  <2>8. Grows
    <3>1. \A j \in Server : currentView'[j] >= currentView[j]
      BY <1>3, NumberFacts DEF Inv, viewVars
    <3> QED
      BY <1>3, <2>2, <2>3, <2>6, <2>7, <3>1 DEF Grows
  <2>9. i \in Backups(p)'
    BY <2>2, <2>3, <2>6, <2>7 DEF Backups, Holders
  <2>10. EntryBacked(i, s)'
    <3>1. SameVotes(e, log'[i][s])
      BY <2>7 DEF SameVotes
    <3>2. VotesBacked(e, p, s)'
      BY <2>6, <2>9, NobodyVoted DEF VotesBacked, Backed, Committed
    <3> QED
      BY <2>6, <3>1, <3>2, EntryChanged
  <2>11. \A j \in Server, t \in Seqs : SameVotes(log[j][t], log'[j][t]) \/ EntryBacked(j, t)'
    BY <2>7, <2>10 DEF SameVotes
  <2>12. MessageBacked(Ack(i, m.from, "PRE_PREPARE_OK", p))'
    BY <1>3, <2>9, MadeIsBackedNext DEF Made
  <2>13. \A x \in net' : x \in net \/ MessageBacked(x)'
    BY <2>5, <2>12 DEF Exchange
  <2>14. NoTimer
    BY <2>5, TimersDiffer DEF NoTimer, Inv, TypeOK
  <2> QED
    BY <1>3, <2>8, <2>11, <2>13, <2>14, Keeps DEF NoTimer
<1> QED
  BY <1>1, <1>2, <1>3, IgnoreKeeps

\* What is known of an entry that a handler goes on with: its assignment is proposed, and
\* while it is the first of its number its votes are backed, before and after the step.
LEMMA EntryFacts ==
    ASSUME Inv, Inv', CommitInv, NEW i \in Server, NEW s \in Seqs, log[i][s].status # "NIL"
    PROVE  /\ log[i][s].prePrepare \in proposed /\ log[i][s].prePrepare.seq = s
           /\ First(log[i][s].prePrepare) => VotesBacked(log[i][s], log[i][s].prePrepare, s)
           /\ IsLeader(i) /\ First(log[i][s].prePrepare) => i = Leader(log[i][s].prePrepare.view)
<1> DEFINE p == log[i][s].prePrepare
<1>1. p \in proposed /\ p.seq = s
  BY DEF Inv, AssignmentInv, EntriesAreProposed
<1>2. First(p) => VotesBacked(log[i][s], p, s)
  BY DEF CommitInv, EntryBacked, VotesBacked
<1>3. ASSUME First(p) PROVE p.view = currentView[i]
  <2>1. currentView[i] <= p.view
    BY <1>3 DEF First
  <2>2. p.view <= currentView[i]
    BY DEF Inv, LogInv, EntriesAreOfPastViews
  <2> QED
    BY <1>1, <2>1, <2>2, NumberFacts DEF Inv
<1> QED
  BY <1>1, <1>2, <1>3 DEF IsLeader

LEMMA VotesLast ==
    ASSUME Inv, Inv', Grows, NEW e, NEW p \in proposed, First(p)', VotesBacked(e, p, p.seq)
    PROVE  VotesBacked(e, p, p.seq)'
  BY BackingLasts DEF VotesBacked

LEMMA PrePrepareOkKeeps ==
    ASSUME Inv, Inv', CommitInv, NEW i \in Server, ProcessPrePrepareOk(i)
    PROVE  CommitInv'
<1>1. PICK m \in net :
         /\ Receive(i, m, "PRE_PREPARE_OK")
         /\ \/ Ignore({m})
            \/ Crash(i, {m})
            \/ IsLeader(i) /\ Present(i, m.data.seq) /\ CountPrePrepareOk(i, m)
  BY DEF ProcessPrePrepareOk
<1>2. CASE IsLeader(i) /\ Present(i, m.data.seq) /\ CountPrePrepareOk(i, m)
  <2>1. PICK s \in Seqs : s = m.data.seq
    BY <1>2, PresentInSeqs
  <2>2. PICK p \in proposed : p = log[i][s].prePrepare /\ p.seq = s
    BY <1>2, <2>1, EntryFacts DEF Present
  <2>3. PICK v : v = AddVotes(log[i][s].prepares, {m.from}, m.data.view)
    OBVIOUS
  <2>4. PICK e :
           LET g == [log[i][s] EXCEPT !.prepares = v]
               quorum == i \notin Byzantine /\ g.status = "PRE_PREPARED" /\ PreparedQuorum(g.prepares)
           IN  /\ e = IF quorum THEN [g EXCEPT !.status = "PREPARED"] ELSE g
               /\ timers' = [timers EXCEPT ![i] = IF quorum THEN @ \cup {OptimisticTimer(s)} ELSE @]
               /\ log' = [log EXCEPT ![i][s] = e]
               /\ Exchange({m}, {})
               /\ UNCHANGED <<viewVars, proposed>>
    <3>1. [log[i][s] EXCEPT !.prepares = v]
             = [log[i][s] EXCEPT !.prepares = AddVotes(@, {m.from}, m.data.view)]
      BY <2>3
    <3> QED
      BY <1>2, <2>1, <3>1 DEF CountPrePrepareOk
  <2>5. log[i][s] \in Entry
    BY EntryAt DEF Inv
  <2>6. /\ SameAssignment(log[i][s], e) /\ e.prepares = v /\ e.commits = log[i][s].commits
        /\ (Prepared(log[i][s]) => Prepared(e)) /\ (Committed(e) => Committed(log[i][s]))
    BY <2>4, <2>5 DEF Entry, SameAssignment, Prepared, Committed
  <2>7. \A j \in Server, t \in Seqs : OptimisticTimer(t) \in timers'[j] =>
           OptimisticTimer(t) \in timers[j] \/ (j = i /\ t = s /\ Prepared(e))
    <3>1. ASSUME OptimisticTimer(s) \in timers'[i], OptimisticTimer(s) \notin timers[i]
          PROVE  Prepared(e)
      BY <2>4, <2>5, <3>1 DEF Inv, TypeOK, Entry, Prepared
    <3>2. \A j \in Server, t \in Seqs : OptimisticTimer(t) \in timers'[j] =>
             OptimisticTimer(t) \in timers[j] \/ (j = i /\ OptimisticTimer(t) = OptimisticTimer(s))
      BY <2>4 DEF Inv, TypeOK
    <3> QED
      BY <3>1, <3>2, TimersDiffer
  <2>8. Writes(i, s, e)
    BY <2>4, <2>6, WritesEntry
  <2>9. ASSUME First(p)' PROVE VotesBacked(e, p, s)' /\ i = Leader(p.view)
    <3>1. First(p) /\ Grows
      BY <2>8, <2>9, FirstLasts DEF Writes
    <3>2. VotesBacked(log[i][s], p, s) /\ i = Leader(p.view)
      BY <1>2, <2>1, <2>2, <3>1, EntryFacts DEF Present
    <3>3. m.from \in Backups(p)
      BY <1>1, <2>1, <2>2, <3>1, CountedIsOwn DEF Receive
    <3>4. VotesBacked(e, p, s)
      BY <2>3, <2>6, <3>2, <3>3, VotersAdded DEF VotesBacked
    <3> QED
      BY <2>2, <2>9, <3>1, <3>2, <3>4, VotesLast
  <2>10. TimerBacked(i, s)' \/ ~Prepared(e)
    <3>1. log'[i][s] = e
      BY <2>4 DEF Inv, TypeOK
    <3>2. e.status # "NIL" /\ e.prePrepare = p
      BY <1>2, <2>1, <2>2, <2>6 DEF SameAssignment, Present
    <3> SUFFICES ASSUME Prepared(e), NEW q, q = log'[i][s].prePrepare
                 PROVE  First(q)' => i = Leader(q.view)
      BY <3>1, <3>2 DEF TimerBacked
    <3> QED
      BY <2>9, <3>1, <3>2
  <2> QED
    BY <2>2, <2>4, <2>6, <2>7, <2>8, <2>9, <2>10, WritingKeeps DEF SameAssignment, Exchange
<1> QED
  BY <1>1, <1>2, IgnoreKeeps, CrashKeeps

\* 3f acknowledgements of backups, and the leader itself: everybody.
LEMMA FastMeansAll ==
    ASSUME NEW p, NEW votes, Voters(votes) \subseteq Backups(p), FastQuorum(votes),
           Leader(p.view) \in Holders(p.seq)
    PROVE  Holders(p.seq) = Server
<1> DEFINE B == Voters(votes) \cup {Leader(p.view)}
<1>1. Holders(p.seq) \in SUBSET Server
  BY DEF Holders
<1>2. B \in SUBSET Server /\ Leader(p.view) \notin Voters(votes) /\ B \subseteq Holders(p.seq)
  BY <1>1 DEF Backups
<1>3. IsFiniteSet(Voters(votes)) /\ Cardinality(Voters(votes)) = 3 * F
  BY VotersAreServers, ServerSets DEF FastQuorum, Count
<1>4. Cardinality(B) = 3 * F + 1
  BY <1>2, <1>3, FS_AddElement
<1>5. B = Server
  BY <1>2, <1>4, ServersFinite, FS_Subset
<1> QED
  BY <1>1, <1>2, <1>5

LEMMA TimeoutKeeps ==
    ASSUME Inv, Inv', CommitInv, NEW i \in Server, OptimisticTimeout(i)
    PROVE  CommitInv'
<1>1. PICK s \in Seqs :
         /\ OptimisticTimer(s) \in timers[i]
         /\ timers' = [timers EXCEPT ![i] = @ \ {OptimisticTimer(s)}]
         /\ \/ Present(i, s) /\ FastQuorum(log[i][s].prepares) /\ FastCommit(i, s)
            \/ Present(i, s) /\ SlowPrepare(i, s)
            \/ UNCHANGED <<log, net>>
         /\ UNCHANGED <<viewVars, proposed>>
  BY DEF OptimisticTimeout
<1>2. NoTimer
  BY <1>1 DEF NoTimer, Inv, TypeOK
<1>3. CASE UNCHANGED <<log, net>>
  BY <1>1, <1>2, <1>3, IdleKeeps
<1>4. CASE ~UNCHANGED <<log, net>>
  <2>1. log[i][s].status # "NIL"
    BY <1>1, <1>4 DEF Present
  <2>2. PICK p \in proposed : p = log[i][s].prePrepare /\ p.seq = s
    BY <2>1, EntryFacts
  <2>3. log[i][s] \in Entry /\ log[i][s].prePrepare.view \in -1 .. MaxView
    BY EntryAt DEF Inv
  <2>4. PICK v \in Votes : v = log[i][s].prepares
    BY <2>3 DEF Entry
  <2>5. First(p) => /\ Prepared(log[i][s]) /\ i = Leader(p.view)
                    /\ VotesBacked(log[i][s], p, s)
    BY <1>1, <2>1, <2>2, EntryFacts DEF CommitInv, TimerBacked
  <2>6. i \in Holders(s)
    BY <2>1 DEF Holders
  <2>7. CASE FastQuorum(log[i][s].prepares) /\ FastCommit(i, s)
    <3>1. PICK c \in Votes : c = AddVotes(v, {i}, p.view)
      BY <2>2, <2>3, <2>4, VotesAdded
    <3>2. PICK e : e = [log[i][s] EXCEPT !.status = "COMMITTED", !.commits = c]
      OBVIOUS
    <3>3. PICK out : out = ProofToAll(i, "COMMIT", p, Voters(v) \cup {i})
      OBVIOUS
    <3>4. /\ e \in Entry /\ SameAssignment(log[i][s], e) /\ e.status = "COMMITTED"
          /\ e.prePrepare = p /\ e.prepares = v /\ e.commits = c
      BY <2>1, <2>2, <2>3, <2>4, <3>1, <3>2 DEF Entry, Status, SameAssignment
    <3>5. ExecutePending(i, [log[i] EXCEPT ![s] = e], {}, out)
      <4>1. e = [log[i][s] EXCEPT !.status = "COMMITTED",
                   !.commits = AddVotes(log[i][s].prepares, {i}, log[i][s].prePrepare.view)]
        BY <2>2, <2>4, <3>1, <3>2
      <4>2. ExecutePending(i, [log[i] EXCEPT ![s] = e], {},
                           ProofToAll(i, "COMMIT", e.prePrepare, Voters(e.prepares) \cup {i}))
        BY <2>7, <4>1 DEF FastCommit
      <4> QED
        BY <3>3, <3>4, <4>2
    <3>6. /\ Writes(i, s, e)
          /\ \A m \in net' : m \in net \/ m \in out \/ MessageBacked(m)'
      BY <1>1, <3>4, <3>5, WritesAndExecutes
    <3>7. ASSUME First(p)'
          PROVE  VotesBacked(e, p, s)' /\ Backed(Voters(v) \cup {i}, p.seq)'
      <4>1. First(p) /\ Grows
        BY <3>6, <3>7, FirstLasts DEF Writes
      <4>2. Voters(v) \subseteq Backups(p) /\ i = Leader(p.view)
        BY <2>4, <2>5, <4>1 DEF VotesBacked
      <4>3. Holders(s) = Server
        BY <2>2, <2>4, <2>6, <2>7, <4>2, FastMeansAll
      <4>4. VotesBacked(e, p, s) /\ Backed(Voters(v) \cup {i}, p.seq)
        BY <2>2, <3>4, <4>2, <4>3 DEF VotesBacked, Backed, Certificate
      <4> QED
        BY <2>2, <3>7, <4>1, <4>4, VotesLast, BackingLasts
    <3>8. \A m \in out : MessageBacked(m)'
      <4>1. p \in proposed'
        BY <1>1
      <4> QED
        BY <3>3, <3>7, <4>1, MadeIsBackedNext DEF Made
    <3> QED
      BY <1>2, <3>4, <3>6, <3>7, <3>8, WritingKeeps DEF NoTimer
  <2>8. CASE SlowPrepare(i, s)
    <3>1. PICK c : c = AddVotes(log[i][s].commits, {i}, p.view)
      OBVIOUS
    <3>2. PICK e : e = [log[i][s] EXCEPT !.commits = c]
      OBVIOUS
    <3>3. PICK out : out = ProofToAll(i, "PREPARE", p, Voters(v))
      OBVIOUS
    <3>4. /\ SameAssignment(log[i][s], e) /\ e.prePrepare = p /\ e.prepares = v /\ e.commits = c
          /\ (Prepared(log[i][s]) <=> Prepared(e)) /\ (Committed(log[i][s]) <=> Committed(e))
      BY <2>2, <2>3, <2>4, <3>2 DEF Entry, SameAssignment, Prepared, Committed
    <3>5. log' = [log EXCEPT ![i][s] = e] /\ net' = net \cup out
      <4>1. log' = [log EXCEPT ![i][s].commits = AddVotes(@, {i}, p.view)]
        BY <2>2, <2>8 DEF SlowPrepare
      <4>2. log' = [log EXCEPT ![i][s] = e]
        BY <3>1, <3>2, <4>1 DEF Inv, TypeOK
      <4>3. net' = net \cup out
        BY <2>2, <2>4, <2>8, <3>3 DEF SlowPrepare, Exchange
      <4> QED
        BY <4>2, <4>3
    <3>6. Writes(i, s, e)
      BY <1>1, <3>4, <3>5, WritesEntry
    <3>7. ASSUME First(p)' PROVE VotesBacked(e, p, s)' /\ Voters(v) \subseteq Backups(p)'
      <4>1. First(p) /\ Grows
        BY <3>6, <3>7, FirstLasts DEF Writes
      <4>2. VotesBacked(log[i][s], p, s) /\ i \in PreparedAt(s)
        BY <2>5, <4>1 DEF PreparedAt
      <4>3. Voters(c) \subseteq Voters(log[i][s].commits) \cup {i}
        BY <3>1, VotersAdded
      <4>4. VotesBacked(e, p, s) /\ Voters(v) \subseteq Backups(p)
        BY <2>4, <3>4, <4>2, <4>3 DEF VotesBacked, Backed
      <4> QED
        BY <2>2, <3>7, <4>1, <4>4, VotesLast, BackingLasts
    <3>8. \A m \in out : MessageBacked(m)'
      <4>1. p \in proposed'
        BY <1>1
      <4> QED
        BY <3>3, <3>7, <4>1, MadeIsBackedNext DEF Made
    <3> QED
      BY <1>2, <3>4, <3>5, <3>6, <3>7, <3>8, WritingKeeps DEF NoTimer
  <2> QED
    BY <1>1, <1>4, <2>7, <2>8
<1> QED
  BY <1>3, <1>4

LEMMA PrepareKeeps ==
    ASSUME Inv, Inv', CommitInv, NEW i \in Server, ProcessPrepare(i)
    PROVE  CommitInv'
<1> DEFINE certified(m) == Certified(m, log[i][m.data.seq], log[i][m.data.seq].prepares)
           entry(m) == [log[i][m.data.seq] EXCEPT !.prepares = certified(m)]
           quorum(m) == PreparedQuorum(entry(m).prepares)
<1>1. PICK m \in net :
         /\ Receive(i, m, "PREPARE")
         /\ \/ Ignore({m})
            \/ /\ AcceptsCertificate(i, m, {"PRE_PREPARED"})
               /\ log' = [log EXCEPT ![i][m.data.seq] =
                             IF quorum(m) THEN [entry(m) EXCEPT !.status = "PREPARED"] ELSE entry(m)]
               /\ Exchange({m}, IF quorum(m) THEN {Ack(i, Leader(currentView[i]), "PREPARE_OK", m.data)}
                                ELSE {})
               /\ UNCHANGED <<viewVars, timerVars, proposed>>
  BY DEF ProcessPrepare
<1>2. CASE AcceptsCertificate(i, m, {"PRE_PREPARED"}) /\ ~Ignore({m})
  <2>1. PICK s \in Seqs : s = m.data.seq
    BY <1>2, PresentInSeqs DEF AcceptsCertificate
  <2>2. log[i][s].status = "PRE_PREPARED" /\ log[i][s] \in Entry
    BY <1>2, <2>1, EntryAt DEF AcceptsCertificate, Inv
  <2>3. PICK p \in proposed : p = log[i][s].prePrepare /\ p.seq = s
    BY <2>2, EntryFacts
  <2>4. PICK v : v = certified(m)
    OBVIOUS
  <2>5. PICK e : e = IF quorum(m) THEN [entry(m) EXCEPT !.status = "PREPARED"] ELSE entry(m)
    OBVIOUS
  <2>6. /\ SameAssignment(log[i][s], e) /\ e.prepares = v /\ e.commits = log[i][s].commits
        /\ ~Prepared(log[i][s]) /\ ~Committed(e) /\ e.prePrepare = p
        /\ quorum(m) => Prepared(e)
    BY <2>1, <2>2, <2>3, <2>4, <2>5 DEF Entry, SameAssignment, Prepared, Committed
  <2>7. log' = [log EXCEPT ![i][s] = e] /\ UNCHANGED <<viewVars, timerVars, proposed>>
    BY <1>1, <1>2, <2>1, <2>5
  <2>8. Writes(i, s, e)
    BY <2>6, <2>7, WritesEntry
  <2>9. ASSUME First(p)' PROVE VotesBacked(e, p, s)'
    <3>1. First(p) /\ Grows
      BY <2>8, <2>9, FirstLasts DEF Writes
    <3>2. VotesBacked(log[i][s], p, s)
      BY <2>2, <2>3, <3>1, EntryFacts
    <3>3. m.sigs \subseteq Backups(p)
      BY <1>1, <2>1, <2>3, <3>1, CountedIsOwn DEF Receive
    <3>4. Voters(v) \subseteq Voters(log[i][s].prepares) \cup m.sigs
      BY <2>1, <2>4, VotersCertified
    <3>5. VotesBacked(e, p, s)
      BY <2>6, <3>2, <3>3, <3>4 DEF VotesBacked
    <3> QED
      BY <2>3, <2>9, <3>1, <3>5, VotesLast
  <2>10. PICK q \in proposed : q = m.data /\ q.seq = s
    BY <1>1, <2>1 DEF CommitInv, MessageBacked, PrepareBacked, Receive
  <2>11. ASSUME quorum(m) PROVE MessageBacked(Ack(i, Leader(currentView[i]), "PREPARE_OK", q))'
    <3>1. Prepared(log'[i][s])
      BY <2>6, <2>7, <2>11 DEF Inv, TypeOK
    <3>2. q \in proposed' /\ i \in PreparedAt(q.seq)'
      BY <2>7, <2>10, <3>1 DEF PreparedAt
    <3>3. \A j : MessageBacked(Ack(i, j, "PREPARE_OK", q))'
      BY <3>2, MadeIsBackedNext DEF Made
    <3>4. PICK j : j = Leader(currentView[i])
      OBVIOUS
    <3>5. currentView'[i] = currentView[i]
      BY <2>7 DEF viewVars
    <3> QED
      BY <3>3, <3>4, <3>5
  <2>12. \A x \in net' : x \in net \/ MessageBacked(x)'
    <3>1. currentView'[i] = currentView[i]
      BY <2>7 DEF viewVars
    <3> QED
      BY <1>1, <1>2, <2>10, <2>11, <3>1 DEF Exchange
  <2>13. NoTimer
    BY <2>7 DEF NoTimer, timerVars
  <2> QED
    BY <2>3, <2>6, <2>8, <2>9, <2>12, <2>13, WritingKeeps DEF NoTimer
<1> QED
  BY <1>1, <1>2, IgnoreKeeps

\* A quorum of commit votes is a certificate.
LEMMA QuorumCertifies ==
    ASSUME NEW votes, NEW s, CommittedQuorum(votes), Backed(Voters(votes), s)
    PROVE  Certificate(s)
<1>1. CASE Voters(votes) \subseteq PreparedAt(s)
  <2>1. PreparedAt(s) \in SUBSET Server
    BY DEF PreparedAt
  <2>2. /\ Cardinality(Voters(votes)) \in Nat /\ Cardinality(PreparedAt(s)) \in Nat
        /\ Cardinality(Voters(votes)) <= Cardinality(PreparedAt(s))
    BY <1>1, <2>1, ServerSets
  <2> QED
    BY <2>2, FAssumption DEF Certificate, CommittedQuorum, Count
<1> QED
  BY <1>1 DEF Backed, Certificate

\* The step that adds backed commit votes to the entry for s and may commit it.
LEMMA CommitVotesKeep ==
    ASSUME Inv, Inv', CommitInv, NEW i \in Server, NEW s \in Seqs, log[i][s].status # "NIL",
           NEW p \in proposed, p = log[i][s].prePrepare,
           NEW c \in Votes, First(p) => Backed(Voters(c), s),
           NEW e \in Entry, SameAssignment(log[i][s], e),
           e.prepares = log[i][s].prepares, e.commits = c,
           Prepared(log[i][s]) => Prepared(e),
           Committed(e) => Committed(log[i][s]) \/ CommittedQuorum(c),
           Writes(i, s, e), UNCHANGED timerVars,
           NEW out, \A m \in net' : m \in net \/ m \in out \/ MessageBacked(m)',
           out = {} \/ out = ProofToAll(i, "COMMIT", p, Voters(c))
    PROVE  CommitInv'
<1>1. p.seq = s /\ e.prePrepare = p
  BY EntryFacts DEF SameAssignment
<1>2. ASSUME First(p)' PROVE VotesBacked(e, p, s)' /\ Backed(Voters(c), p.seq)'
  <2>1. First(p) /\ Grows
    BY <1>2, FirstLasts DEF Writes
  <2>2. VotesBacked(log[i][s], p, s)
    BY <2>1, EntryFacts
  <2>3. Backed(Voters(c), s)
    BY <2>1
  <2>4. Committed(e) => Certificate(s)
    BY <2>2, <2>3, QuorumCertifies DEF VotesBacked
  <2>5. VotesBacked(e, p, s)
    BY <2>2, <2>3, <2>4 DEF VotesBacked
  <2> QED
    BY <1>1, <1>2, <2>1, <2>3, <2>5, VotesLast, BackingLasts
<1>3. \A m \in out : MessageBacked(m)'
  <2>1. p \in proposed'
    BY DEF Writes
  <2>2. \A m \in ProofToAll(i, "COMMIT", p, Voters(c)) : MessageBacked(m)'
    BY <1>2, <2>1, MadeIsBackedNext DEF Made
  <2> QED
    BY <2>2
<1>4. NoTimer
  BY DEF NoTimer, timerVars
<1> QED
  BY <1>1, <1>2, <1>3, <1>4, WritingKeeps DEF NoTimer

LEMMA CommitKeeps ==
    ASSUME Inv, Inv', CommitInv, NEW i \in Server, ProcessCommit(i)
    PROVE  CommitInv'
<1> DEFINE certified(m) == Certified(m, log[i][m.data.seq], log[i][m.data.seq].commits)
           entry(m) == [log[i][m.data.seq] EXCEPT !.commits = certified(m)]
           done(m) == [entry(m) EXCEPT !.status = "COMMITTED"]
<1>1. PICK m \in net :
         /\ Receive(i, m, "COMMIT")
         /\ \/ Ignore({m})
            \/ /\ AcceptsCertificate(i, m, {"PRE_PREPARED", "PREPARED"})
               /\ \/ log' = [log EXCEPT ![i][m.data.seq] = entry(m)] /\ Exchange({m}, {})
                  \/ /\ CommittedQuorum(entry(m).commits)
                     /\ ExecutePending(i, [log[i] EXCEPT ![m.data.seq] = done(m)], {m}, {})
               /\ UNCHANGED <<viewVars, timerVars, proposed>>
  BY DEF ProcessCommit
<1>2. CASE AcceptsCertificate(i, m, {"PRE_PREPARED", "PREPARED"}) /\ ~Ignore({m})
  <2>1. PICK s \in Seqs : s = m.data.seq
    BY <1>2, PresentInSeqs DEF AcceptsCertificate
  <2>2. log[i][s].status # "NIL" /\ log[i][s] \in Entry
    BY <1>2, <2>1, EntryAt DEF AcceptsCertificate, Inv
  <2>3. PICK p \in proposed : p = log[i][s].prePrepare /\ p.seq = s
    BY <2>2, EntryFacts
  <2>4. PICK c \in Votes : c = certified(m)
    <3>1. m \in Message /\ m.type \in ProofType
      BY <1>1 DEF Inv, TypeOK, Receive, ProofType
    <3>2. Certified(m, log[i][s], log[i][s].commits) \in Votes
      BY <2>2, <3>1, CertifiedType DEF Entry
    <3> QED
      BY <2>1, <3>2
  <2>5. First(p) => Backed(Voters(c), s)
    <3> SUFFICES ASSUME First(p) PROVE Backed(Voters(c), s)
      OBVIOUS
    <3>1. Backed(Voters(log[i][s].commits), s)
      BY <2>2, <2>3, EntryFacts DEF VotesBacked
    <3>2. Backed(m.sigs, s)
      BY <1>1, <2>1, <2>3, CountedIsOwn DEF Receive
    <3>3. Voters(c) \subseteq Voters(log[i][s].commits) \cup m.sigs
      BY <2>1, <2>4, VotersCertified
    <3> QED
      BY <3>1, <3>2, <3>3 DEF Backed
  <2>6. UNCHANGED <<viewVars, timerVars, proposed>>
    BY <1>1, <1>2
  <2>7. CASE log' = [log EXCEPT ![i][m.data.seq] = entry(m)] /\ Exchange({m}, {})
    <3>1. PICK e : e = entry(m)
      OBVIOUS
    <3>2. /\ e \in Entry /\ SameAssignment(log[i][s], e)
          /\ e.prepares = log[i][s].prepares /\ e.commits = c
          /\ (Prepared(log[i][s]) => Prepared(e)) /\ (Committed(e) => Committed(log[i][s]))
      BY <2>1, <2>2, <2>4, <3>1 DEF Entry, SameAssignment, Prepared, Committed
    <3>3. log' = [log EXCEPT ![i][s] = e] /\ \A x \in net' : x \in net
      BY <2>1, <2>7, <3>1 DEF Exchange
    <3>4. Writes(i, s, e)
      BY <2>6, <3>2, <3>3, WritesEntry
    <3> QED
      BY <2>2, <2>3, <2>5, <2>6, <3>2, <3>3, <3>4, CommitVotesKeep
  <2>8. CASE /\ CommittedQuorum(entry(m).commits)
             /\ ExecutePending(i, [log[i] EXCEPT ![m.data.seq] = done(m)], {m}, {})
    <3>1. PICK e : e = done(m)
      OBVIOUS
    <3>2. /\ e \in Entry /\ SameAssignment(log[i][s], e) /\ e.status = "COMMITTED"
          /\ e.prepares = log[i][s].prepares /\ e.commits = c
          /\ Prepared(e) /\ CommittedQuorum(c)
      BY <2>1, <2>2, <2>4, <2>8, <3>1 DEF Entry, Status, SameAssignment, Prepared
    <3>3. ExecutePending(i, [log[i] EXCEPT ![s] = e], {m}, {})
      BY <2>1, <2>8, <3>1
    <3>4. /\ Writes(i, s, e)
          /\ \A x \in net' : x \in net \/ x \in {} \/ MessageBacked(x)'
      BY <2>6, <3>2, <3>3, WritesAndExecutes
    <3> QED
      BY <2>2, <2>3, <2>5, <2>6, <3>2, <3>4, CommitVotesKeep
  <2> QED
    BY <1>1, <1>2, <2>7, <2>8
<1> QED
  BY <1>1, <1>2, IgnoreKeeps

LEMMA PrepareOkKeeps ==
    ASSUME Inv, Inv', CommitInv, NEW i \in Server, ProcessPrepareOk(i)
    PROVE  CommitInv'
<1>1. PICK m \in net :
         /\ Receive(i, m, "PREPARE_OK")
         /\ \/ Ignore({m})
            \/ Crash(i, {m})
            \/ Present(i, m.data.seq) /\ CountPrepareOk(i, m)
  BY DEF ProcessPrepareOk
<1>2. CASE Present(i, m.data.seq) /\ CountPrepareOk(i, m)
  <2>1. PICK s \in Seqs : s = m.data.seq
    BY <1>2, PresentInSeqs
  <2>2. log[i][s].status # "NIL" /\ log[i][s] \in Entry
    BY <1>2, <2>1, EntryAt DEF Present, Inv
  <2>3. PICK p \in proposed : p = log[i][s].prePrepare /\ p.seq = s
    BY <2>2, EntryFacts
  <2>4. PICK c \in Votes : c = AddVotes(log[i][s].commits, {m.from}, m.data.view)
    <3>1. m.from \in Server /\ m.data \in Context
      BY <1>1, MessageForms DEF Inv, TypeOK, Receive, AckType
    <3> QED
      BY <2>2, <3>1, VotesAdded DEF Entry, Context
  <2>5. First(p) => Backed(Voters(c), s)
    <3> SUFFICES ASSUME First(p) PROVE Backed(Voters(c), s)
      OBVIOUS
    <3>1. Backed(Voters(log[i][s].commits), s)
      BY <2>2, <2>3, EntryFacts DEF VotesBacked
    <3>2. m.from \in PreparedAt(s)
      BY <1>1, <2>1, <2>3, CountedIsOwn DEF Receive
    <3>3. Voters(c) \subseteq Voters(log[i][s].commits) \cup {m.from}
      BY <2>4, VotersAdded
    <3> QED
      BY <3>1, <3>2, <3>3 DEF Backed
  <2>6. PICK e : e = [log[i][s] EXCEPT !.commits = c]
    OBVIOUS
  <2>7. PICK g : g = [e EXCEPT !.status = "COMMITTED"]
    OBVIOUS
  <2>8. /\ e \in Entry /\ SameAssignment(log[i][s], e)
        /\ e.prepares = log[i][s].prepares /\ e.commits = c
        /\ (Prepared(log[i][s]) => Prepared(e)) /\ (Committed(e) => Committed(log[i][s]))
    BY <2>2, <2>6 DEF Entry, SameAssignment, Prepared, Committed
  <2>9. /\ g \in Entry /\ SameAssignment(log[i][s], g) /\ g.status = "COMMITTED"
        /\ g.prepares = log[i][s].prepares /\ g.commits = c /\ Prepared(g)
    BY <2>2, <2>6, <2>7 DEF Entry, Status, SameAssignment, Prepared
  <2>10. /\ \/ log' = [log EXCEPT ![i][s] = e] /\ Exchange({m}, {})
            \/ /\ CommittedQuorum(e.commits)
               /\ ExecutePending(i, [log[i] EXCEPT ![s] = g], {m},
                                 ProofToAll(i, "COMMIT", e.prePrepare, Voters(e.commits)))
         /\ UNCHANGED <<viewVars, timerVars, proposed>>
    <3>1. e = [log[i][s] EXCEPT !.commits = AddVotes(@, {m.from}, m.data.view)]
      BY <2>4, <2>6
    <3> QED
      BY <1>2, <2>1, <2>7, <3>1 DEF CountPrepareOk
  <2>11. CASE log' = [log EXCEPT ![i][s] = e] /\ Exchange({m}, {})
    <3>1. \A x \in net' : x \in net
      BY <2>11 DEF Exchange
    <3>2. Writes(i, s, e)
      BY <2>8, <2>10, <2>11, WritesEntry
    <3> QED
      BY <2>2, <2>3, <2>5, <2>8, <2>10, <3>1, <3>2, CommitVotesKeep
  <2>12. CASE /\ CommittedQuorum(e.commits)
              /\ ExecutePending(i, [log[i] EXCEPT ![s] = g], {m},
                                ProofToAll(i, "COMMIT", e.prePrepare, Voters(e.commits)))
    <3>1. PICK out : out = ProofToAll(i, "COMMIT", p, Voters(c))
      OBVIOUS
    <3>2. e.prePrepare = p /\ e.commits = c
      BY <2>3, <2>8 DEF SameAssignment
    <3>3. ExecutePending(i, [log[i] EXCEPT ![s] = g], {m}, out) /\ CommittedQuorum(c)
      BY <2>12, <3>1, <3>2
    <3>4. /\ Writes(i, s, g)
          /\ \A x \in net' : x \in net \/ x \in out \/ MessageBacked(x)'
      BY <2>9, <2>10, <3>3, WritesAndExecutes
    <3> QED
      BY <2>2, <2>3, <2>5, <2>9, <2>10, <3>1, <3>3, <3>4, CommitVotesKeep
  <2> QED
    BY <2>10, <2>11, <2>12
<1> QED
  BY <1>1, <1>2, IgnoreKeeps, CrashKeeps

----------------------------------------------------------------------------
(* Checkpoints, and changes of view.                                         *)

LEMMA CheckpointKeeps ==
    ASSUME Inv, Inv', CommitInv, NEW i \in Server, ProcessCheckpoint(i)
    PROVE  CommitInv'
<1>1. UNCHANGED <<log, viewVars, timerVars, proposed>> /\ \A m \in net' : m \in net
  BY DEF ProcessCheckpoint, Ignore, Exchange, logVars
<1> QED
  BY <1>1, IdleKeeps DEF NoTimer, timerVars

\* A step that changes nothing but what server i knows of views.
LEMMA MovingKeeps ==
    ASSUME Inv, Inv', CommitInv, NEW i \in Server, UNCHANGED <<log, proposed>>, NoTimer,
           currentView'[i] >= currentView[i], ViewsBacked(i)',
           \A j \in Server \ {i} :
              /\ currentView'[j] = currentView[j] /\ state'[j] = state[j]
              /\ lastProposedView'[j] = lastProposedView[j]
              /\ viewChangeMessages'[j] = viewChangeMessages[j],
           \A m \in net' : m \in net \/ MessageBacked(m)'
    PROVE  CommitInv'
<1>1. Grows
  <2>1. \A j \in Server : currentView'[j] >= currentView[j]
    BY NumberFacts DEF Inv
  <2> QED
    BY <2>1 DEF Grows
<1>2. \A j \in Server, s \in Seqs : SameVotes(log[j][s], log'[j][s])
  BY DEF SameVotes
<1>3. ASSUME NEW j \in Server PROVE ViewsBacked(j)'
  <2>1. CASE j = i
    BY <2>1
  <2>2. CASE j # i
    <3>1. ViewsBacked(j)
      BY DEF CommitInv
    <3> QED
      BY <1>1, <2>2, <3>1, EarlierLasts DEF ViewsBacked
  <2> QED
    BY <2>1, <2>2
<1> QED
  BY <1>1, <1>2, <1>3, Keeps DEF NoTimer

\* What a server reports was proposed in the views it has been in.
LEMMA ReportIsEarlier ==
    ASSUME Inv, NEW i \in Server, NEW v \in Views, v > currentView[i], UNCHANGED proposed,
           NEW vc, vc = ComposeViewChange(i, v)
    PROVE  Earlier(vc)'
<1> SUFFICES ASSUME NEW p \in vc.pproofs
             PROVE  p.prePrepare \in proposed /\ p.prePrepare.view < vc.view
  BY DEF Earlier
<1>1. vc.view = v /\ vc.pproofs = PreparedProofs(i)
  BY DEF ComposeViewChange
<1>2. PICK s \in Seqs : Provable(log[i][s]) /\ p.prePrepare = log[i][s].prePrepare
  BY <1>1 DEF PreparedProofs
<1>3. p.prePrepare \in proposed
  BY <1>2 DEF Provable, Inv, AssignmentInv, EntriesAreProposed
<1>4. p.prePrepare.view \in Int /\ currentView[i] \in Int /\ v \in Int
  BY <1>3, NumberFacts DEF Inv, Views
<1>5. p.prePrepare.view <= currentView[i]
  BY <1>2 DEF Inv, LogInv, EntriesAreOfPastViews
<1> QED
  BY <1>1, <1>3, <1>4, <1>5

\* Asking for a later view.
LEMMA TriggerKeeps ==
    ASSUME Inv, Inv', CommitInv, NEW i \in Server, NEW v \in Views, v > currentView[i], NEW in,
           TriggerViewChange(i, v, in), UNCHANGED <<log, proposed>>, NoTimer,
           NEW msgs, viewChangeMessages' = [viewChangeMessages EXCEPT ![i] = msgs],
           \A vc \in msgs : Earlier(vc)
    PROVE  CommitInv'
<1>1. PICK vc : vc = ComposeViewChange(i, v)
  OBVIOUS
<1>2. Earlier(vc)'
  BY <1>1, ReportIsEarlier
<1>3. /\ state' = [state EXCEPT ![i] = "VIEW_CHANGE"]
      /\ lastProposedView' = [lastProposedView EXCEPT ![i] = v]
      /\ net' = (net \ in) \cup ViewChangeToAll(i, vc)
      /\ UNCHANGED currentView
  BY <1>1 DEF TriggerViewChange, Exchange
<1>4. ASSUME NEW m \in ViewChangeToAll(i, vc) PROVE MessageBacked(m)'
  <2>1. m.type = "VIEW_CHANGE" /\ m.request = vc
    BY DEF ViewChangeToAll, ToOthers
  <2> QED
    BY <1>2, <2>1 DEF MessageBacked
<1>5. \A m \in net' : m \in net \/ MessageBacked(m)'
  BY <1>3, <1>4
<1>6. ViewsBacked(i)'
  <2>1. lastProposedView'[i] = v /\ viewChangeMessages'[i] = msgs /\ currentView'[i] = currentView[i]
    BY <1>3 DEF Inv, TypeOK
  <2>2. \A w \in msgs : Earlier(w)'
    BY DEF Earlier
  <2> QED
    BY <2>1, <2>2 DEF ViewsBacked
<1>7. \A j \in Server \ {i} :
         /\ currentView'[j] = currentView[j] /\ state'[j] = state[j]
         /\ lastProposedView'[j] = lastProposedView[j]
         /\ viewChangeMessages'[j] = viewChangeMessages[j]
  BY <1>3 DEF Inv, TypeOK
<1>8. currentView'[i] >= currentView[i]
  BY <1>3, NumberFacts DEF Inv
<1> QED
  BY <1>5, <1>6, <1>7, <1>8, MovingKeeps

\* A timer thread that ends, with or without a successor.
LEMMA NoTimerAdded ==
    ASSUME TypeOK, NEW i \in Server, NEW old, NEW next, \A s : OptimisticTimer(s) # next,
           \/ timers' = [timers EXCEPT ![i] = @ \ {old}]
           \/ timers' = [timers EXCEPT ![i] = (@ \ {old}) \cup {next}]
    PROVE  NoTimer
<1>1. \A j \in Server : timers'[j] \subseteq timers[j] \cup {next}
  BY DEF TypeOK
<1> QED
  BY <1>1 DEF NoTimer

\* A view that is not overtaken is later than the server's own.
LEMMA NotOvertaken ==
    ASSUME Inv, CommitInv, NEW i \in Server, NEW v \in Views, ~Overtaken(i, v)
    PROVE  v > currentView[i]
<1>1. /\ state[i] \in {"NORMAL", "VIEW_CHANGE"}
      /\ currentView[i] \in Int /\ lastProposedView[i] \in Int /\ v \in Int
  BY DEF Inv, TypeOK, Views
<1>2. state[i] = "VIEW_CHANGE" => lastProposedView[i] > currentView[i]
  BY DEF CommitInv, ViewsBacked
<1> QED
  BY <1>1, <1>2 DEF Overtaken

LEMMA ExpireKeeps ==
    ASSUME Inv, Inv', CommitInv, NEW i \in Server, NEW t, NEW stop, NEW next, Expire(i, t, stop, next),
           Overtaken(i, t.newView) => stop, \A s : OptimisticTimer(s) # next
    PROVE  CommitInv'
<1>1. /\ t.newView \in Views /\ UNCHANGED <<log, proposed>>
      /\ \/ timers' = [timers EXCEPT ![i] = @ \ {t}] /\ UNCHANGED <<viewVars, net>>
         \/ /\ ~stop
            /\ TriggerViewChange(i, t.newView, {})
            /\ timers' = [timers EXCEPT ![i] = (@ \ {t}) \cup {next}]
            /\ UNCHANGED viewChangeMessages
  BY DEF Expire, logVars
<1>2. NoTimer
  BY <1>1, NoTimerAdded DEF Inv
<1>3. CASE UNCHANGED <<viewVars, net>>
  BY <1>1, <1>2, <1>3, IdleKeeps
<1>4. CASE ~stop /\ TriggerViewChange(i, t.newView, {}) /\ UNCHANGED viewChangeMessages
  <2>1. t.newView > currentView[i]
    BY <1>1, <1>4, NotOvertaken
  <2>2. viewChangeMessages' = [viewChangeMessages EXCEPT ![i] = viewChangeMessages[i]]
    BY <1>4 DEF Inv, TypeOK
  <2>3. \A vc \in viewChangeMessages[i] : Earlier(vc)
    BY DEF CommitInv, ViewsBacked
  <2> QED
    BY <1>1, <1>2, <1>4, <2>1, <2>2, <2>3, TriggerKeeps
<1> QED
  BY <1>1, <1>3, <1>4

LEMMA ViewTimeoutKeeps ==
    ASSUME Inv, Inv', CommitInv, NEW i \in Server, ViewTimeout(i)
    PROVE  CommitInv'
<1>1. PICK v \in Views :
         /\ \/ timers' = [timers EXCEPT ![i] = @ \ {ViewTimer(v)}] /\ UNCHANGED lastProposedView
            \/ /\ ~Overtaken(i, v)
               /\ timers' = [timers EXCEPT ![i] = (@ \ {ViewTimer(v)}) \cup {ViewTimer(v + 1)}]
               /\ lastProposedView' = [lastProposedView EXCEPT ![i] = v]
         /\ UNCHANGED <<currentView, state, viewChangeMessages, log, net, proposed>>
  BY DEF ViewTimeout, logVars
<1>2. NoTimer
  <2>1. PICK old : old = ViewTimer(v)
    OBVIOUS
  <2>2. PICK next : next = ViewTimer(v + 1)
    OBVIOUS
  <2>3. \A s : OptimisticTimer(s) # next
    BY <2>2, TimersDiffer
  <2>4. \/ timers' = [timers EXCEPT ![i] = @ \ {old}]
        \/ timers' = [timers EXCEPT ![i] = (@ \ {old}) \cup {next}]
    BY <1>1, <2>1, <2>2
  <2> QED
    BY <2>3, <2>4, NoTimerAdded DEF Inv
<1>3. ViewsBacked(i)
  BY DEF CommitInv
<1>4. CASE UNCHANGED lastProposedView
  BY <1>1, <1>2, <1>4, IdleKeeps DEF viewVars
<1>5. CASE ~Overtaken(i, v) /\ lastProposedView' = [lastProposedView EXCEPT ![i] = v]
  <2>1. v > currentView[i]
    BY <1>5, NotOvertaken
  <2>2. lastProposedView'[i] = v /\ \A j \in Server \ {i} : lastProposedView'[j] = lastProposedView[j]
    BY <1>5 DEF Inv, TypeOK
  <2>3. ViewsBacked(i)'
    BY <1>1, <1>3, <2>1, <2>2 DEF ViewsBacked, Earlier
  <2>4. currentView'[i] >= currentView[i]
    BY <1>1, NumberFacts DEF Inv
  <2> QED
    BY <1>1, <1>2, <2>2, <2>3, <2>4, MovingKeeps
<1> QED
  BY <1>1, <1>4, <1>5

LEMMA JoinKeeps ==
    ASSUME Inv, Inv', CommitInv, NEW i \in Server, NEW v \in Views, v > currentView[i],
           NEW msgs, \A vc \in msgs : Earlier(vc), NEW in,
           JoinViewChange(i, v, msgs, in), UNCHANGED <<log, proposed>>
    PROVE  CommitInv'
<1>1. NoTimer
  <2>1. PICK next : next = ViewTimer(v)
    OBVIOUS
  <2>2. \A s : OptimisticTimer(s) # next
    BY <2>1, TimersDiffer
  <2>3. timers' = [timers EXCEPT ![i] = @ \cup {next}]
    BY <2>1 DEF JoinViewChange
  <2> QED
    BY <2>2, <2>3 DEF NoTimer, Inv, TypeOK
<1> QED
  BY <1>1, TriggerKeeps DEF JoinViewChange

\* What a new view proposes was proposed before it.
LEMMA NewViewIsEarlier ==
    ASSUME NEW vcs \in SUBSET ViewChange, NEW v, \A vc \in vcs : vc.view = v /\ Earlier(vc)'
    PROVE  \A c \in ComputeBigO(vcs) : c # Nop => c \in proposed' /\ c.view < v
<1> SUFFICES ASSUME NEW c \in ComputeBigO(vcs), c # Nop PROVE c \in proposed' /\ c.view < v
  OBVIOUS
<1>1. PICK vc \in vcs : \E p \in vc.pproofs : c = p.prePrepare
  BY BigOIsProved
<1> QED
  BY <1>1 DEF Earlier

LEMMA StartKeeps ==
    ASSUME Inv, Inv', CommitInv, NEW i \in Server, NEW v \in Views, v > currentView[i],
           NEW msgs \in SUBSET ViewChange, \A vc \in msgs : Earlier(vc), NEW in,
           StartView(i, v, msgs, in), UNCHANGED <<log, proposed, timers>>
    PROVE  CommitInv'
<1>1. PICK own : own = ComposeViewChange(i, v)
  OBVIOUS
<1>2. own \in ViewChange /\ own.view = v /\ Earlier(own)'
  BY <1>1, ComposeViewChangeType, ReportIsEarlier DEF Inv, ComposeViewChange
<1>3. \A vc \in msgs : Earlier(vc)'
  BY DEF Earlier
<1>4. PICK vcs : vcs = {w \in msgs : w.view = v /\ w.from # i} \cup {own}
  OBVIOUS
<1>5. vcs \in SUBSET ViewChange /\ \A vc \in vcs : vc.view = v /\ Earlier(vc)'
  BY <1>2, <1>3, <1>4
<1>6. PICK out : out = NewViewToAll(i, v, vcs, ComputeBigO(vcs))
  OBVIOUS
<1>7. /\ viewChangeMessages' = [viewChangeMessages EXCEPT ![i] = msgs \cup {own}]
      /\ state' = [state EXCEPT ![i] = "NORMAL"]
      /\ currentView' = [currentView EXCEPT ![i] = v]
      /\ net' = (net \ in) \cup out
      /\ UNCHANGED lastProposedView
  BY <1>1, <1>4, <1>6 DEF StartView, Exchange
<1>8. ASSUME NEW m \in out PROVE MessageBacked(m)'
  <2>1. /\ m.type = "NEW_VIEW" /\ m.view = v
        /\ m.vproofs = vcs /\ m.prePrepares = ComputeBigO(vcs)
    BY <1>6 DEF NewViewToAll, ToOthers
  <2>2. \A c \in m.prePrepares : c # Nop => c \in proposed' /\ c.view < m.view
    BY <1>5, <2>1, NewViewIsEarlier
  <2>3. NewViewEarlier(m)'
    BY <1>5, <2>1, <2>2 DEF NewViewEarlier
  <2> QED
    BY <2>1, <2>3 DEF MessageBacked
<1>9. \A m \in net' : m \in net \/ MessageBacked(m)'
  BY <1>7, <1>8
<1>10. ViewsBacked(i)'
  <2>1. state'[i] = "NORMAL" /\ viewChangeMessages'[i] = msgs \cup {own}
    BY <1>7 DEF Inv, TypeOK
  <2> QED
    BY <1>2, <1>3, <2>1 DEF ViewsBacked
<1>11. \A j \in Server \ {i} :
          /\ currentView'[j] = currentView[j] /\ state'[j] = state[j]
          /\ lastProposedView'[j] = lastProposedView[j]
          /\ viewChangeMessages'[j] = viewChangeMessages[j]
  BY <1>7 DEF Inv, TypeOK
<1>12. currentView'[i] >= currentView[i]
  BY <1>7, NumberFacts DEF Inv, TypeOK, Views
<1> QED
  BY <1>9, <1>10, <1>11, <1>12, MovingKeeps DEF NoTimer

LEMMA ViewChangeKeeps ==
    ASSUME Inv, Inv', CommitInv, NEW i \in Server, ProcessViewChange(i)
    PROVE  CommitInv'
<1>1. PICK m \in net :
         /\ Receive(i, m, "VIEW_CHANGE")
         /\ \/ Ignore({m})
            \/ /\ m.request.view > currentView[i]
               /\ \/ JoinViewChange(i, m.request.view, Remember(i, m.request), {m})
                  \/ StartView(i, m.request.view, Remember(i, m.request), {m})
                  \/ /\ viewChangeMessages' = [viewChangeMessages EXCEPT ![i] = Remember(i, m.request)]
                     /\ Exchange({m}, {})
                     /\ UNCHANGED <<currentView, state, lastProposedView, timers>>
               /\ UNCHANGED <<log, proposed>>
  BY DEF ProcessViewChange, logVars
<1>2. m.request \in ViewChange /\ Earlier(m.request)
  BY <1>1, MessageForms DEF Inv, TypeOK, Receive, CommitInv, MessageBacked
<1>3. PICK v \in Views : v = m.request.view
  BY <1>2 DEF ViewChange
<1>4. PICK msgs \in SUBSET ViewChange : msgs = Remember(i, m.request)
  BY <1>2 DEF Remember, Inv, TypeOK
<1>5. \A vc \in msgs : Earlier(vc)
  BY <1>2, <1>4 DEF Remember, CommitInv, ViewsBacked
<1>6. CASE v > currentView[i] /\ JoinViewChange(i, v, msgs, {m}) /\ UNCHANGED <<log, proposed>>
  BY <1>5, <1>6, JoinKeeps
<1>7. CASE v > currentView[i] /\ StartView(i, v, msgs, {m}) /\ UNCHANGED <<log, proposed>>
  <2>1. UNCHANGED timers
    BY <1>7 DEF StartView
  <2> QED
    BY <1>5, <1>7, <2>1, StartKeeps
<1>8. CASE /\ viewChangeMessages' = [viewChangeMessages EXCEPT ![i] = msgs]
           /\ Exchange({m}, {})
           /\ UNCHANGED <<currentView, state, lastProposedView, timers, log, proposed>>
  <2>1. /\ viewChangeMessages'[i] = msgs
        /\ \A j \in Server \ {i} : viewChangeMessages'[j] = viewChangeMessages[j]
    BY <1>8 DEF Inv, TypeOK
  <2>2. ViewsBacked(i)
    BY DEF CommitInv
  <2>3. ViewsBacked(i)'
    BY <1>5, <1>8, <2>1, <2>2 DEF ViewsBacked, Earlier
  <2>4. currentView'[i] >= currentView[i]
    BY <1>8, NumberFacts DEF Inv
  <2> QED
    BY <1>8, <2>1, <2>3, <2>4, MovingKeeps DEF NoTimer, Exchange
<1> QED
  BY <1>1, <1>3, <1>4, <1>6, <1>7, <1>8, IgnoreKeeps

\* A server acknowledges to the leader of a new view what was proposed in earlier ones.
LEMMA NewViewKeeps ==
    ASSUME Inv, Inv', CommitInv, NEW i \in Server, ProcessNewView(i)
    PROVE  CommitInv'
<1>1. PICK m \in net :
         /\ Receive(i, m, "NEW_VIEW")
         /\ \/ Ignore({m})
            \/ /\ m.view > currentView[i]
               /\ state' = [state EXCEPT ![i] = "NORMAL"]
               /\ currentView' = [currentView EXCEPT ![i] = m.view]
               /\ viewChangeMessages' = [viewChangeMessages EXCEPT ![i] =
                                            {w \in @ : w.view # m.view} \cup m.vproofs]
               /\ Exchange({m}, {Ack(i, Leader(m.view), "PRE_PREPARE_OK", c) : c \in m.prePrepares})
               /\ UNCHANGED <<lastProposedView, log, timers, proposed>>
  BY DEF ProcessNewView, AcceptsNewView, logVars, timerVars
<1>2. m.view \in Views /\ NewViewEarlier(m)
  BY <1>1, MessageForms DEF Inv, TypeOK, Receive, CommitInv, MessageBacked
<1>3. CASE ~Ignore({m})
  <2>1. PICK v \in Views : v = m.view
    BY <1>2
  <2>2. PICK k : k = Leader(v)
    OBVIOUS
  <2>3. PICK msgs : msgs = {w \in viewChangeMessages[i] : w.view # m.view} \cup m.vproofs
    OBVIOUS
  <2>4. /\ v > currentView[i]
        /\ state' = [state EXCEPT ![i] = "NORMAL"]
        /\ currentView' = [currentView EXCEPT ![i] = v]
        /\ viewChangeMessages' = [viewChangeMessages EXCEPT ![i] = msgs]
        /\ net' = (net \ {m}) \cup {Ack(i, k, "PRE_PREPARE_OK", c) : c \in m.prePrepares}
        /\ UNCHANGED <<lastProposedView, log, timers, proposed>>
    BY <1>1, <1>3, <2>1, <2>2, <2>3 DEF Exchange
  <2>5. /\ currentView'[i] = v /\ state'[i] = "NORMAL" /\ viewChangeMessages'[i] = msgs
        /\ \A j \in Server \ {i} :
              /\ currentView'[j] = currentView[j] /\ state'[j] = state[j]
              /\ lastProposedView'[j] = lastProposedView[j]
              /\ viewChangeMessages'[j] = viewChangeMessages[j]
    BY <2>4 DEF Inv, TypeOK
  <2>6. ASSUME NEW c \in m.prePrepares PROVE MessageBacked(Ack(i, k, "PRE_PREPARE_OK", c))'
    <3>1. ASSUME c # Nop PROVE c \in proposed' /\ ~First(c)'
      <4>1. c \in proposed /\ c.view < v /\ c.view \in Int /\ v \in Int
        BY <1>2, <2>1, <3>1, NumberFacts DEF NewViewEarlier, Inv, Views
      <4> QED
        BY <2>4, <2>5, <4>1 DEF First
    <3>2. PICK a : a = Ack(i, k, "PRE_PREPARE_OK", c)
      OBVIOUS
    <3>3. a.type = "PRE_PREPARE_OK" /\ a.data = c
      BY <3>2 DEF Ack
    <3>4. AckBacked(a)'
      BY <3>1, <3>3 DEF AckBacked
    <3>5. MessageBacked(a)'
      BY <3>3, <3>4 DEF MessageBacked
    <3> QED
      BY <3>2, <3>5
  <2>7. \A x \in net' : x \in net \/ MessageBacked(x)'
    BY <2>4, <2>6
  <2>8. ViewsBacked(i)'
    <3>1. \A vc \in msgs : Earlier(vc)
      BY <1>2, <2>3 DEF NewViewEarlier, CommitInv, ViewsBacked
    <3> QED
      BY <2>4, <2>5, <3>1 DEF ViewsBacked, Earlier
  <2>9. currentView'[i] >= currentView[i]
    BY <2>4, <2>5, NumberFacts DEF Inv, Views
  <2> QED
    BY <2>4, <2>5, <2>7, <2>8, <2>9, MovingKeeps DEF NoTimer
<1> QED
  BY <1>1, <1>3, IgnoreKeeps

LEMMA ViewChangingKeeps ==
    ASSUME Inv, Inv', CommitInv, NEW i \in Server, ViewChanging(i)
    PROVE  CommitInv'
<1>1. ASSUME NEW v \in Views, NEW t, NEW next, NEW stop \in BOOLEAN, t.newView = v,
             Overtaken(i, v) => stop, Expire(i, t, stop, next), \A s : OptimisticTimer(s) # next
      PROVE  CommitInv'
  BY <1>1, ExpireKeeps
<1>2. CASE DigestTimeout(i)
  <2>1. PICK r \in Req, v \in Views :
           Expire(i, DigestTimer(r, v),
                  Overtaken(i, v) \/ r \notin awaitedDigests[i] \/ IsLeader(i), DigestTimer(r, v + 1))
    BY <1>2 DEF DigestTimeout
  <2>2. PICK stop \in BOOLEAN : stop <=> Overtaken(i, v) \/ r \notin awaitedDigests[i] \/ IsLeader(i)
    OBVIOUS
  <2>3. PICK t : t = DigestTimer(r, v)
    OBVIOUS
  <2>4. PICK next : next = DigestTimer(r, v + 1)
    OBVIOUS
  <2>5. t.newView = v /\ \A s : OptimisticTimer(s) # next
    BY <2>3, <2>4, TimersDiffer DEF DigestTimer
  <2>6. Expire(i, t, stop, next)
    BY <2>1, <2>2, <2>3, <2>4 DEF Expire
  <2> QED
    BY <1>1, <2>2, <2>5, <2>6
<1>3. CASE SeqTimeout(i)
  <2>1. PICK s \in Seqs, v \in Views :
           Expire(i, SeqTimer(s, v),
                  Overtaken(i, v) \/ lastExecuted[i] >= s \/ log[i][s].status = "EXECUTED",
                  SeqTimer(s, v + 1))
    BY <1>3 DEF SeqTimeout
  <2>2. PICK stop \in BOOLEAN :
           stop <=> Overtaken(i, v) \/ lastExecuted[i] >= s \/ log[i][s].status = "EXECUTED"
    OBVIOUS
  <2>3. PICK t : t = SeqTimer(s, v)
    OBVIOUS
  <2>4. PICK next : next = SeqTimer(s, v + 1)
    OBVIOUS
  <2>5. t.newView = v /\ \A u : OptimisticTimer(u) # next
    BY <2>3, <2>4, TimersDiffer DEF SeqTimer
  <2>6. Expire(i, t, stop, next)
    BY <2>1, <2>2, <2>3, <2>4 DEF Expire
  <2> QED
    BY <1>1, <2>2, <2>5, <2>6
<1> QED
  BY <1>2, <1>3, ViewTimeoutKeeps, ViewChangeKeeps, NewViewKeeps DEF ViewChanging

----------------------------------------------------------------------------
LEMMA InitCommit == Init => CommitInv
<1> SUFFICES ASSUME Init PROVE CommitInv
  OBVIOUS
<1>1. \A i \in Server, s \in Seqs : EntryBacked(i, s) /\ TimerBacked(i, s)
  BY DEF Init, EntryBacked, TimerBacked, NilEntry
<1>2. \A i \in Server : ViewsBacked(i)
  BY DEF Init, ViewsBacked
<1> QED
  BY <1>1, <1>2 DEF Init, CommitInv

LEMMA NextCommit == Inv /\ Inv' /\ CommitInv /\ [Next]_vars => CommitInv'
<1> SUFFICES ASSUME Inv, Inv', CommitInv, [Next]_vars PROVE CommitInv'
  OBVIOUS
<1>1. CASE UNCHANGED vars
  BY <1>1, IdleKeeps DEF vars, logVars, timerVars, NoTimer
<1>2. ASSUME NEW i \in Server, Ordering(i) PROVE CommitInv'
  <2>1. CASE ClientTransfer(i)
    BY <2>1, TransferKeeps DEF ClientTransfer
  <2>2. CASE ForwardedTransfer(i)
    <3>1. PICK m \in net : Receive(i, m, "TRANSFER") /\ ProcessTransfer(i, m.m, {m})
      BY <2>2 DEF ForwardedTransfer
    <3>2. m.m \in Req
      BY <3>1, MessageForms DEF Inv, TypeOK, Receive
    <3> QED
      BY <3>1, <3>2, TransferKeeps
  <2> QED
    BY <1>2, <2>1, <2>2, PrePrepareKeeps, PrePrepareOkKeeps, TimeoutKeeps,
       PrepareKeeps, PrepareOkKeeps, CommitKeeps DEF Ordering
<1>3. ASSUME NEW i \in Server, Checkpointing(i) \/ ViewChanging(i) PROVE CommitInv'
  BY <1>3, CheckpointKeeps, ViewChangingKeeps DEF Checkpointing
<1> QED
  BY <1>1, <1>2, <1>3 DEF Next, Step

\* Backing: while the view lasts in which a number was first proposed, whatever is said
\* of it in a message, counted in an entry or watched by an optimistic timer is true of
\* the servers named: backups that acknowledged hold the assignment, those that signed a
\* commit prepared it, and a committed entry has its quorum or everybody behind it.
THEOREM CommitInvariant == Spec => []CommitInv
<1>1. Spec => []Inv
  BY AllInvariants
<1>2. Init => CommitInv
  BY InitCommit
<1>3. Inv /\ Inv' /\ CommitInv /\ [Next]_vars => CommitInv'
  BY NextCommit
<1> QED
  BY <1>1, <1>2, <1>3, PTL DEF Spec

LEMMA BackedIsCertified == Inv /\ CommitInv => CommitCertificate
<1> SUFFICES ASSUME Inv, CommitInv, NEW i \in Server, NEW s \in Seqs,
                    Committed(log[i][s]), FirstProposal(log[i][s])
             PROVE  \/ Cardinality({j \in Server : Holds(j, log[i][s]) /\ Prepared(log[j][s])}) >= 2 * F + 1
                    \/ \A j \in Server : Holds(j, log[i][s])
  BY DEF CommitCertificate
<1> DEFINE e == log[i][s]
           p == e.prePrepare
<1>1. e.status # "NIL" /\ p \in proposed /\ p.seq = s
  BY DEF Committed, Inv, AssignmentInv, EntriesAreProposed
<1>2. First(p)
  BY DEF FirstProposal, First
<1>3. \A j \in Server : log[j][s].status # "NIL" => Holds(j, e)
  BY <1>1, <1>2, FirstIsOnly DEF FirstOnly, Holds
<1>4. Certificate(s)
  BY <1>1, <1>2 DEF CommitInv, EntryBacked
<1>5. CASE Holders(s) = Server
  BY <1>3, <1>5 DEF Holders
<1>6. CASE Cardinality(PreparedAt(s)) >= 2 * F + 1
  <2>1. PreparedAt(s) = {j \in Server : Holds(j, e) /\ Prepared(log[j][s])}
    BY <1>3 DEF PreparedAt, Prepared
  <2> QED
    BY <1>6, <2>1
<1> QED
  BY <1>4, <1>5, <1>6 DEF Certificate

\* Certified commits: an entry committed in the view that first proposed its number has
\* 2f + 1 prepared servers behind it, or all of them hold it.  The two collectors count
\* acknowledgements without a look at their view (async_server.cc:508, :593), on both
\* ways to a commit, with any number of servers, requests and views.
THEOREM CommitsAreCertified == Spec => []CommitCertificate
<1>1. Inv /\ CommitInv => CommitCertificate
  BY BackedIsCertified
<1> QED
  BY <1>1, AllInvariants, CommitInvariant, PTL
----------------------------------------------------------------------------
(* What is behind a crash.  An acknowledgement that reaches a collector is of  *)
(* an assignment it made, and then it has the entry, or of what a view it      *)
(* started proposed again; what it found when it started that view lasts, for  *)
(* it takes requests and messages of later views only.                         *)

Own(i, p)      == p \in proposed /\ Leader(p.view) = i
Repeated(i, c) == \E v \in 2 .. currentView[i] : Leader(v) = i /\ c \in Reproposed(i, v)

\* A NEW_VIEW message of its leader, who did start the view.
Started(m) ==
    LET l == Leader(m.view)
    IN  /\ l # m.to /\ m.view \in 2 .. currentView[l]
        /\ \A vc \in m.vproofs : vc.view = m.view
        /\ m.prePrepares = Reproposed(l, m.view)

Addressed(m) ==
    /\ m.type = "PRE_PREPARE_OK" => Own(m.to, m.data) \/ Repeated(m.to, m.data)
    /\ m.type = "PREPARE_OK"     => Own(m.to, m.data)
    /\ m.type = "VIEW_CHANGE"    => m.request.from # m.to
    /\ m.type = "NEW_VIEW"       => Started(m)

\* Before it starts a view a leader has no request of its own for it.
OthersAsk(i) == \A vc \in viewChangeMessages[i] :
    vc.view > currentView[i] /\ Leader(vc.view) = i => vc.from # i

\* What a leader assigned stays in its log, in whatever view.
LeadersHold == \A p \in proposed : log[Leader(p.view)][p.seq].status # "NIL"

CauseInv ==
    /\ \A m \in net : Addressed(m)
    /\ \A i \in Server : OthersAsk(i)
    /\ LeadersHold
    /\ CrashHasCause

\* What no step takes back.
Lasting ==
    /\ proposed \subseteq proposed'
    /\ \A j \in Server, s \in Seqs : log[j][s].status # "NIL" => log'[j][s].status # "NIL"

LEMMA EntriesLast == Inv /\ Inv' /\ [Next]_vars => Lasting
<1> SUFFICES ASSUME Inv, Inv', [Next]_vars PROVE Lasting
  OBVIOUS
<1>1. [Log!Next]_(Log!logVars)
  BY NextLog DEF Inv, Stepped
<1>2. proposed \subseteq proposed'
  BY <1>1 DEF Log!Next, Log!Assign, Log!Accept, Log!Hold, Log!Commit, Log!logVars
<1>3. ASSUME NEW j \in Server, NEW s \in Seqs, log[j][s].status # "NIL"
      PROVE  log'[j][s].status # "NIL"
  <2> DEFINE e == log[j][s]
             f == log'[j][s]
  <2>1. Kept(e, f)
    BY <1>1, <1>3, LogStepKeeps DEF Inv
  <2>2. e.prePrepare \in proposed /\ e.prePrepare.seq = s
    BY <1>3 DEF Inv, AssignmentInv, EntriesAreProposed
  <2>3. e.prePrepare.view >= -1 /\ e.prePrepare.view \in Int
    BY <2>2, NumberFacts DEF Inv, Context
  <2>4. f.status = "NIL" => f.prePrepare = Nop
    BY DEF Inv, LogInv, NilIsEmpty
  <2>5. e.prePrepare # Nop
    BY <2>2, NumberFacts DEF Inv, Nop
  <2> QED
    BY <2>1, <2>3, <2>4, <2>5 DEF Kept, Nop
<1> QED
  BY <1>2, <1>3 DEF Lasting

\* A step of one server leaves what the cause of a crash is made of alone at the others,
\* and a crashed server takes none.
Still(j) ==
    /\ currentView'[j] = currentView[j] /\ viewChangeMessages'[j] = viewChangeMessages[j]
    /\ currentSequence'[j] = currentSequence[j] /\ lowWatermark'[j] = lowWatermark[j]
    /\ log'[j] = log[j] /\ crashed'[j] = crashed[j]
    /\ state'[j] = state[j] /\ timers'[j] = timers[j]
    /\ executed'[j] = executed[j] /\ stable'[j] = stable[j]

StillBut(i) == \A j \in Server \ {i} : Still(j)

LEMMA OthersStill ==
    ASSUME TypeOK, NEW i \in Server, Step(i)
    PROVE  ~crashed[i] /\ StillBut(i)
<1> USE DEF StillBut, Still, viewVars, logVars, stableVars, execVars, timerVars
<1>1. ASSUME NEW in, Ignore(in) PROVE StillBut(i)
  BY <1>1 DEF Ignore
<1>2. ASSUME NEW in, Crash(i, in) PROVE StillBut(i)
  BY <1>2 DEF Crash, TypeOK
<1>3. ASSUME NEW l, NEW in, NEW out, ExecutePending(i, l, in, out)
      PROVE  \A j \in Server \ {i} : log'[j] = log[j] /\ executed'[j] = executed[j]
  BY <1>3 DEF ExecutePending, TypeOK
<1>4. ASSUME NEW r, NEW in, ProcessTransfer(i, r, in) PROVE StillBut(i)
  <2>1. CASE AnswerAgain(i, r, in)
    BY <2>1 DEF AnswerAgain
  <2>2. CASE ForwardToLeader(i, r, in)
    BY <2>2 DEF ForwardToLeader
  <2>3. CASE ProposeAgain(i, r, in)
    BY <2>3 DEF ProposeAgain, TypeOK
  <2>4. CASE ProposeNew(i, r, in)
    BY <2>4 DEF ProposeNew, TypeOK
  <2> QED
    BY <1>1, <1>4, <2>1, <2>2, <2>3, <2>4 DEF ProcessTransfer
<1>5. CASE ClientTransfer(i) \/ ForwardedTransfer(i)
  BY <1>4, <1>5 DEF ClientTransfer, ForwardedTransfer, Receive, Up
<1>6. CASE ProcessPrePrepare(i)
  BY <1>1, <1>6 DEF ProcessPrePrepare, Receive, Up, StorePrePrepare, TypeOK
<1>7. CASE ProcessPrePrepareOk(i)
  BY <1>1, <1>2, <1>7 DEF ProcessPrePrepareOk, Receive, Up, CountPrePrepareOk, TypeOK
<1>8. CASE OptimisticTimeout(i)
  BY <1>3, <1>8 DEF OptimisticTimeout, Up, FastCommit, SlowPrepare, TypeOK
<1>9. CASE ProcessPrepare(i)
  BY <1>1, <1>9 DEF ProcessPrepare, Receive, Up, TypeOK
<1>10. CASE ProcessPrepareOk(i)
  <2>1. PICK m \in net : /\ Receive(i, m, "PREPARE_OK")
                         /\ Ignore({m}) \/ Crash(i, {m}) \/ CountPrepareOk(i, m)
    BY <1>10 DEF ProcessPrepareOk
  <2>2. CASE CountPrepareOk(i, m)
    <3>1. /\ \/ \E s, e : log' = [log EXCEPT ![i][s] = e] /\ UNCHANGED executed
             \/ \E l, in, out : ExecutePending(i, l, in, out)
          /\ UNCHANGED <<viewVars, currentSequence, stableVars, timerVars, crashed>>
      BY <2>2 DEF CountPrepareOk
    <3>2. \A j \in Server \ {i} : log'[j] = log[j] /\ executed'[j] = executed[j]
      <4>1. CASE \E s, e : log' = [log EXCEPT ![i][s] = e] /\ UNCHANGED executed
        BY <4>1 DEF TypeOK
      <4>2. CASE \E l, in, out : ExecutePending(i, l, in, out)
        BY <1>3, <4>2
      <4> QED
        BY <3>1, <4>1, <4>2
    <3> QED
      BY <2>1, <3>1, <3>2 DEF Receive, Up
  <2> QED
    BY <1>1, <1>2, <2>1, <2>2 DEF Receive, Up
<1>11. CASE ProcessCommit(i)
  BY <1>1, <1>3, <1>11 DEF ProcessCommit, Receive, Up, TypeOK
<1>12. CASE Checkpointing(i)
  BY <1>1, <1>12 DEF Checkpointing, ProcessCheckpoint, Receive, Up, Truncate, TypeOK
<1>13. ASSUME NEW v, NEW in, TriggerViewChange(i, v, in)
       PROVE  UNCHANGED currentView /\ \A j \in Server \ {i} : state'[j] = state[j]
  BY <1>13 DEF TriggerViewChange, TypeOK
<1>14. CASE DigestTimeout(i) \/ SeqTimeout(i)
  <2>1. PICK t, stop, next : Expire(i, t, stop, next)
    BY <1>14 DEF DigestTimeout, SeqTimeout
  <2> QED
    BY <1>13, <2>1 DEF Expire, Up, TypeOK
<1>15. CASE ViewTimeout(i)
  BY <1>15 DEF ViewTimeout, Up, TypeOK
<1>16. CASE ProcessViewChange(i)
  <2>1. PICK m \in net :
           /\ Receive(i, m, "VIEW_CHANGE")
           /\ \/ Ignore({m})
              \/ /\ \/ \E v, msgs : JoinViewChange(i, v, msgs, {m}) \/ StartView(i, v, msgs, {m})
                    \/ /\ \E msgs : viewChangeMessages' = [viewChangeMessages EXCEPT ![i] = msgs]
                       /\ UNCHANGED <<currentView, state, timers>>
                 /\ UNCHANGED <<logVars, execVars, stableVars, crashed>>
    BY <1>16 DEF ProcessViewChange
  <2>2. ASSUME NEW v, NEW msgs, JoinViewChange(i, v, msgs, {m}) \/ StartView(i, v, msgs, {m})
        PROVE  \A j \in Server \ {i} : /\ currentView'[j] = currentView[j]
                                       /\ viewChangeMessages'[j] = viewChangeMessages[j]
                                       /\ state'[j] = state[j] /\ timers'[j] = timers[j]
    BY <1>13, <2>2 DEF JoinViewChange, StartView, TypeOK
  <2> QED
    BY <1>1, <2>1, <2>2 DEF Receive, Up, TypeOK
<1>17. CASE ProcessNewView(i)
  BY <1>1, <1>17 DEF ProcessNewView, Receive, Up, TypeOK
<1> QED
  BY <1>5, <1>6, <1>7, <1>8, <1>9, <1>10, <1>11, <1>12, <1>14, <1>15, <1>16, <1>17
     DEF Step, Ordering, ViewChanging

\* A step of server i keeps the invariant when what it found in the views it led lasts,
\* what it sends is well addressed, and a crash has its cause.
LEMMA CauseKeeps ==
    ASSUME Inv, Inv', CauseInv, Lasting, NEW i \in Server, ~crashed[i], StillBut(i),
           currentView'[i] >= currentView[i],
           \A v \in 2 .. currentView[i] : Reproposed(i, v)' = Reproposed(i, v),
           OthersAsk(i)',
           crashed'[i] => CrashCause(i)',
           \A p \in proposed' : p \in proposed \/ currentView'[Leader(p.view)] = p.view,
           \A m \in net' : m \in net \/ Addressed(m)'
    PROVE  CauseInv'
<1>1. ASSUME NEW j \in Server, NEW v \in 2 .. currentView[j]
      PROVE  v \in 2 .. currentView'[j] /\ Reproposed(j, v)' = Reproposed(j, v)
  <2>1. currentView[j] \in Int /\ currentView'[j] \in Int
    BY DEF Inv, TypeOK, Views
  <2>2. CASE j = i
    BY <2>1, <2>2
  <2>3. CASE j # i
    BY <2>1, <2>3 DEF StillBut, Still, Reproposed
  <2> QED
    BY <2>2, <2>3
<1>2. ASSUME NEW m \in net PROVE Addressed(m)'
  <2>1. m.to \in Server /\ (m.type = "NEW_VIEW" => Leader(m.view) \in Server)
    BY MessageForms, LeaderIsServer, ViewInBounds DEF Inv, TypeOK
  <2>2. Addressed(m)
    BY DEF CauseInv
  <2>3. Own(m.to, m.data) => Own(m.to, m.data)'
    BY DEF Own, Lasting
  <2>4. Repeated(m.to, m.data) => Repeated(m.to, m.data)'
    BY <1>1, <2>1 DEF Repeated
  <2>5. m.type = "NEW_VIEW" => Started(m)'
    BY <1>1, <2>1, <2>2 DEF Addressed, Started
  <2> QED
    BY <2>2, <2>3, <2>4, <2>5 DEF Addressed
<1>3. ASSUME NEW j \in Server PROVE OthersAsk(j)'
  <2>1. CASE j # i
    BY <2>1 DEF CauseInv, OthersAsk, StillBut, Still
  <2> QED
    BY <2>1
<1>4. LeadersHold'
  <2> SUFFICES ASSUME NEW p \in proposed' PROVE log'[Leader(p.view)][p.seq].status # "NIL"
    BY DEF LeadersHold
  <2>1. CASE p \in proposed
    <3>1. p.seq \in Seqs /\ Leader(p.view) \in Server
      BY <2>1, NumberFacts DEF Inv, AssignmentInv, LeadersKeepAssignments
    <3> QED
      BY <2>1, <3>1 DEF CauseInv, LeadersHold, Lasting
  <2>2. CASE currentView'[Leader(p.view)] = p.view
    BY <2>2 DEF Inv, AssignmentInv, LeadersKeepAssignments
  <2> QED
    BY <2>1, <2>2
<1>5. ASSUME NEW j \in Server, crashed'[j] PROVE CrashCause(j)'
  <2>1. CASE j # i
    <3>1. CrashCause(j)
      BY <1>5, <2>1 DEF CauseInv, CrashHasCause, StillBut, Still
    <3>2. Still(j)
      BY <2>1 DEF StillBut
    <3>3. \A v : Reproposed(j, v)' = Reproposed(j, v)
      BY <3>2 DEF Reproposed, Still
    <3>4. \A c : Unheld(j, c)' <=> Unheld(j, c)
      BY <3>2 DEF Unheld, Still
    <3> QED
      BY <3>1, <3>2, <3>3, <3>4 DEF CrashCause, Still
  <2> QED
    BY <1>5, <2>1
<1> QED
  BY <1>2, <1>3, <1>4, <1>5 DEF CauseInv, CrashHasCause

\* The same for a step that leaves the views alone.
LEMMA OrderingKeepsCause ==
    ASSUME Inv, Inv', CauseInv, Lasting, NEW i \in Server, ~crashed[i], StillBut(i),
           UNCHANGED <<currentView, viewChangeMessages>>,
           crashed'[i] => CrashCause(i)',
           \A p \in proposed' : p \in proposed \/ currentView'[Leader(p.view)] = p.view,
           \A m \in net' : m \in net \/ Addressed(m)'
    PROVE  CauseInv'
<1>1. currentView'[i] >= currentView[i]
  BY NumberFacts DEF Inv
<1>2. \A v \in 2 .. currentView[i] : Reproposed(i, v)' = Reproposed(i, v)
  BY DEF Reproposed
<1>3. OthersAsk(i)'
  BY DEF CauseInv, OthersAsk
<1> QED
  BY <1>1, <1>2, <1>3, CauseKeeps

----------------------------------------------------------------------------
(* Crashes. *)

\* A slot outside the window, or an empty one that was not assigned by the server.
LEMMA MissingHasCause ==
    ASSUME Inv, NEW i \in Server, NEW s \in Seqs, ~Present(i, s), log[i][s].status # "NIL"
    PROVE  lowWatermark[i] > 0 \/ currentSequence[i] >= K
<1>1. ~InWindow(i, s)
  BY DEF Present
<1>2. s <= currentSequence[i]
  BY DEF Inv, AssignmentInv, EntriesAreProposed
<1>3. /\ s \in Int /\ s >= 0 /\ currentSequence[i] \in Int /\ K \in Int
      /\ lowWatermark[i] \in Int /\ lowWatermark[i] >= 0
  BY NumberFacts, WindowAssumption, BoundAssumption DEF Inv, TypeOK, Seqs
<1> QED
  BY <1>1, <1>2, <1>3 DEF InWindow

\* What is acknowledged and not present.
LEMMA AckHasCause ==
    ASSUME Inv, CommitInv, CauseInv, NEW i \in Server, NEW c, ~Present(i, c.seq),
           Own(i, c) \/ Repeated(i, c)
    PROVE  CrashCause(i)
<1>1. CASE Own(i, c)
  <2>1. c.seq \in Seqs /\ log[i][c.seq].status # "NIL"
    BY <1>1 DEF Own, CauseInv, LeadersHold, Inv, AssignmentInv, LeadersKeepAssignments
  <2> QED
    BY <2>1, MissingHasCause DEF CrashCause
<1>2. CASE Repeated(i, c)
  <2>1. PICK v \in 2 .. currentView[i] : Leader(v) = i /\ c \in Reproposed(i, v)
    BY <1>2 DEF Repeated
  <2>2. CASE Unheld(i, c)
    BY <2>1, <2>2 DEF CrashCause
  <2>3. CASE ~Unheld(i, c)
    <3>1. PICK vcs \in SUBSET ViewChange : /\ vcs = {vc \in viewChangeMessages[i] : vc.view = v}
                                           /\ c \in ComputeBigO(vcs)
      BY <2>1 DEF Reproposed, Inv, TypeOK
    <3>2. PICK vc \in vcs : \E p \in vc.pproofs : c = p.prePrepare
      BY <2>3, <3>1, BigOIsProved DEF Unheld
    <3>3. c \in proposed
      BY <3>1, <3>2 DEF CommitInv, ViewsBacked, Earlier
    <3>4. c.seq \in Seqs /\ log[i][c.seq].status # "NIL"
      BY <2>3, <3>3 DEF Unheld, Inv, AssignmentInv, LeadersKeepAssignments
    <3> QED
      BY <3>4, MissingHasCause DEF CrashCause
  <2> QED
    BY <2>2, <2>3
<1> QED
  BY <1>1, <1>2

\* The step in which a server finds an index wrong leaves the cause as it is.
LEMMA CauseStays ==
    ASSUME NEW i \in Server, CrashCause(i), UNCHANGED <<viewVars, logVars, stableVars>>
    PROVE  CrashCause(i)'
  BY DEF CrashCause, Reproposed, Unheld, viewVars, logVars, stableVars

LEMMA CrashKeepsCause ==
    ASSUME Inv, Inv', CauseInv, Lasting, NEW i \in Server, ~crashed[i], StillBut(i),
           NEW in, Crash(i, in), CrashCause(i)
    PROVE  CauseInv'
<1>1. CrashCause(i)'
  BY CauseStays DEF Crash
<1> QED
  BY <1>1, OrderingKeepsCause DEF Crash, Exchange, viewVars

LEMMA IgnoreKeepsCause ==
    ASSUME Inv, Inv', CauseInv, Lasting, NEW i \in Server, ~crashed[i], StillBut(i),
           NEW in, Ignore(in)
    PROVE  CauseInv'
  BY OrderingKeepsCause DEF Ignore, Exchange, viewVars

----------------------------------------------------------------------------
(* Ordering and checkpoints. *)

\* Messages that nothing is asked of here.
Plain == {"TRANSFER", "PRE_PREPARE", "PREPARE", "COMMIT", "CHECKPOINT"}

LEMMA PlainIsAddressed == \A m : m.type \in Plain => Addressed(m)'
  BY DEF Plain, Addressed

LEMMA PlainMessages ==
    ASSUME NEW i, NEW data, NEW sigs, NEW r, NEW s, NEW d
    PROVE  /\ \A m \in PrePrepareToAll(i, data, r) : m.type \in Plain
           /\ \A t \in ProofType : \A m \in ProofToAll(i, t, data, sigs) : m.type \in Plain
           /\ \A m \in CheckpointToAll(i, s, d) : m.type \in Plain
  BY DEF Plain, PrePrepareToAll, ProofToAll, CheckpointToAll, ToOthers, ProofType

LEMMA ExecutionIsAddressed ==
    ASSUME NEW i, NEW l, NEW in, NEW out, ExecutePending(i, l, in, out), \A m \in out : m.type \in Plain
    PROVE  \A m \in net' : m \in net \/ Addressed(m)'
<1> DEFINE S == Executable(l, lastExecuted[i], currentSequence[i])
           h == [t \in Seqs |-> IF t \in S THEN l[t].m ELSE executed[i][t]]
           C == {t \in S : IsCheckpoint(t)}
           d == [t \in Seqs |-> DigestOf(UpTo(h, t))]
           sent == UNION {CheckpointToAll(i, t, d[t]) : t \in C}
<1>1. net' = (net \ in) \cup (out \cup sent)
  BY DEF ExecutePending, Exchange
<1>2. \A m \in sent : m.type \in Plain
  <2> HIDE DEF C, d
  <2> QED
    BY PlainMessages
<1> HIDE DEF sent
<1> QED
  BY <1>1, <1>2, PlainIsAddressed

LEMMA TransferKeepsCause ==
    ASSUME Inv, Inv', CauseInv, Lasting, NEW i \in Server, ~crashed[i], StillBut(i),
           NEW r \in Req, NEW in, ProcessTransfer(i, r, in)
    PROVE  CauseInv'
<1>1. CASE AnswerAgain(i, r, in)
  BY <1>1, OrderingKeepsCause DEF AnswerAgain, Exchange, viewVars
<1>2. CASE ForwardToLeader(i, r, in)
  <2>1. \A m \in net' : m \in net \/ m.type = "TRANSFER"
    BY <1>2 DEF ForwardToLeader, Exchange
  <2> QED
    BY <1>2, <2>1, PlainIsAddressed, OrderingKeepsCause DEF ForwardToLeader, viewVars, Plain
<1>3. CASE IsLeader(i) /\ Known(i, r) /\ ProposeAgain(i, r, in)
  <2>1. PICK e : e = log[i][digestToEntry[i][r]].prePrepare
    OBVIOUS
  <2>2. PICK p : p = [e EXCEPT !.view = currentView[i]]
    OBVIOUS
  <2>3. /\ proposed' = proposed \cup {p}
        /\ net' = (net \ in) \cup PrePrepareToAll(i, p, r)
        /\ UNCHANGED <<currentView, viewChangeMessages, crashed>>
    BY <1>3, <2>1, <2>2 DEF ProposeAgain, Exchange, viewVars
  <2>4. p.view = currentView[i]
    <3>1. e \in Context
      BY <1>3, <2>1, NumberFacts, EntryAt DEF Inv
    <3> QED
      BY <2>2, <3>1 DEF Context
  <2>5. \A q \in proposed' : q \in proposed \/ currentView'[Leader(q.view)] = q.view
    BY <1>3, <2>3, <2>4 DEF IsLeader
  <2>6. \A m \in net' : m \in net \/ Addressed(m)'
    BY <2>3, PlainMessages, PlainIsAddressed
  <2> QED
    BY <2>3, <2>5, <2>6, OrderingKeepsCause
<1>4. CASE IsLeader(i) /\ ProposeNew(i, r, in)
  <2>1. PICK s \in Seqs : s = NextSequence(i)
    BY <1>4 DEF ProposeNew
  <2>2. PICK p : p = [view |-> currentView[i], seq |-> s, digest |-> r]
    OBVIOUS
  <2>3. /\ currentSequence' = [currentSequence EXCEPT ![i] = s]
        /\ crashed' = [crashed EXCEPT ![i] = ~InWindow(i, s)]
        /\ proposed' = proposed \cup {p}
        /\ net' = (net \ in) \cup PrePrepareToAll(i, p, r) \/ net' = (net \ in) \cup {}
        /\ UNCHANGED <<viewVars, lowWatermark>>
    BY <1>4, <2>1, <2>2 DEF ProposeNew, Exchange, stableVars
  <2>4. ASSUME crashed'[i] PROVE CrashCause(i)'
    <3>1. ~InWindow(i, s)
      BY <2>3, <2>4 DEF Inv, TypeOK
    <3>2. currentSequence'[i] = s /\ lowWatermark'[i] = lowWatermark[i]
      BY <2>3 DEF Inv, TypeOK
    <3>3. /\ s \in Int /\ s >= 0 /\ K \in Int
          /\ lowWatermark[i] \in Int /\ lowWatermark[i] >= 0
      BY WindowAssumption, BoundAssumption DEF Inv, TypeOK, Seqs
    <3> QED
      BY <3>1, <3>2, <3>3 DEF InWindow, CrashCause
  <2>5. \A q \in proposed' : q \in proposed \/ currentView'[Leader(q.view)] = q.view
    BY <1>4, <2>2, <2>3 DEF IsLeader, viewVars
  <2>6. \A m \in net' : m \in net \/ Addressed(m)'
    BY <2>3, PlainMessages, PlainIsAddressed
  <2> QED
    BY <2>3, <2>4, <2>5, <2>6, OrderingKeepsCause DEF viewVars
<1> QED
  BY <1>1, <1>2, <1>3, <1>4, IgnoreKeepsCause DEF ProcessTransfer

\* A backup acknowledges an assignment to the leader that made it.
LEMMA PrePrepareKeepsCause ==
    ASSUME Inv, Inv', CauseInv, Lasting, NEW i \in Server, ~crashed[i], StillBut(i),
           ProcessPrePrepare(i)
    PROVE  CauseInv'
<1>1. PICK m \in net :
         /\ Receive(i, m, "PRE_PREPARE")
         /\ \/ Ignore({m})
            \/ /\ \/ Exchange({m}, {})
                  \/ StorePrePrepare(i, m)
               /\ UNCHANGED <<viewVars, crashed, proposed>>
  BY DEF ProcessPrePrepare
<1>2. m.data \in proposed /\ m.from = Leader(m.data.view)
  BY <1>1 DEF Inv, AssignmentInv, PrePreparesAreProposed, Receive
<1>3. CASE UNCHANGED <<viewVars, crashed, proposed>> /\ Exchange({m}, {})
  BY <1>3, OrderingKeepsCause DEF Exchange, viewVars
<1>4. CASE UNCHANGED <<viewVars, crashed, proposed>> /\ StorePrePrepare(i, m)
  <2>1. PICK a : a = Ack(i, m.from, "PRE_PREPARE_OK", m.data)
    OBVIOUS
  <2>2. a.type = "PRE_PREPARE_OK" /\ a.to = m.from /\ a.data = m.data
    BY <2>1 DEF Ack
  <2>3. Addressed(a)'
    BY <1>2, <1>4, <2>2 DEF Addressed, Own
  <2>4. \A x \in net' : x \in net \/ x = a
    BY <1>4, <2>1 DEF StorePrePrepare, Exchange
  <2> QED
    BY <1>4, <2>3, <2>4, OrderingKeepsCause DEF viewVars
<1> QED
  BY <1>1, <1>3, <1>4, IgnoreKeepsCause

LEMMA PrePrepareOkKeepsCause ==
    ASSUME Inv, Inv', CommitInv, CauseInv, Lasting, NEW i \in Server, ~crashed[i], StillBut(i),
           ProcessPrePrepareOk(i)
    PROVE  CauseInv'
<1>1. PICK m \in net :
         /\ Receive(i, m, "PRE_PREPARE_OK")
         /\ \/ Ignore({m})
            \/ ~Present(i, m.data.seq) /\ Crash(i, {m})
            \/ CountPrePrepareOk(i, m)
  BY DEF ProcessPrePrepareOk
<1>2. CASE ~Present(i, m.data.seq) /\ Crash(i, {m})
  <2>1. Own(i, m.data) \/ Repeated(i, m.data)
    BY <1>1 DEF CauseInv, Addressed, Receive
  <2> QED
    BY <1>2, <2>1, AckHasCause, CrashKeepsCause
<1>3. CASE CountPrePrepareOk(i, m)
  BY <1>3, OrderingKeepsCause DEF CountPrePrepareOk, Exchange, viewVars
<1> QED
  BY <1>1, <1>2, <1>3, IgnoreKeepsCause

LEMMA PrepareOkKeepsCause ==
    ASSUME Inv, Inv', CommitInv, CauseInv, Lasting, NEW i \in Server, ~crashed[i], StillBut(i),
           ProcessPrepareOk(i)
    PROVE  CauseInv'
<1>1. PICK m \in net :
         /\ Receive(i, m, "PREPARE_OK")
         /\ \/ Ignore({m})
            \/ ~Present(i, m.data.seq) /\ Crash(i, {m})
            \/ CountPrepareOk(i, m)
  BY DEF ProcessPrepareOk
<1>2. CASE ~Present(i, m.data.seq) /\ Crash(i, {m})
  <2>1. Own(i, m.data)
    BY <1>1 DEF CauseInv, Addressed, Receive
  <2> QED
    BY <1>2, <2>1, AckHasCause, CrashKeepsCause
<1>3. CASE CountPrepareOk(i, m)
  <2>1. /\ \/ net' = (net \ {m}) \cup {}
           \/ \E l, data, sigs : ExecutePending(i, l, {m}, ProofToAll(i, "COMMIT", data, sigs))
        /\ UNCHANGED <<viewVars, crashed, proposed>>
    BY <1>3 DEF CountPrepareOk, Exchange
  <2>2. \A x \in net' : x \in net \/ Addressed(x)'
    BY <2>1, ExecutionIsAddressed, PlainMessages DEF ProofType
  <2> QED
    BY <2>1, <2>2, OrderingKeepsCause DEF viewVars
<1> QED
  BY <1>1, <1>2, <1>3, IgnoreKeepsCause

\* The entry an optimistic timer was set for is there, and may be out of the window.
LEMMA TimeoutKeepsCause ==
    ASSUME Inv, Inv', CommitInv, CauseInv, Lasting, NEW i \in Server, ~crashed[i], StillBut(i),
           OptimisticTimeout(i)
    PROVE  CauseInv'
<1>1. PICK s \in Seqs :
         /\ OptimisticTimer(s) \in timers[i]
         /\ \/ FastCommit(i, s) /\ UNCHANGED crashed
            \/ SlowPrepare(i, s) /\ UNCHANGED crashed
            \/ /\ crashed' = [crashed EXCEPT ![i] = state[i] = "NORMAL"]
               /\ state[i] # "NORMAL" \/ ~Present(i, s)
               /\ UNCHANGED <<log, net>>
         /\ UNCHANGED <<viewVars, currentSequence, digestToEntry, stableVars, proposed>>
  BY DEF OptimisticTimeout
<1>2. CASE FastCommit(i, s) /\ UNCHANGED crashed
  <2>1. \E l, data, sigs : ExecutePending(i, l, {}, ProofToAll(i, "COMMIT", data, sigs))
    BY <1>2 DEF FastCommit
  <2>2. \A m \in net' : m \in net \/ Addressed(m)'
    BY <2>1, ExecutionIsAddressed, PlainMessages DEF ProofType
  <2> QED
    BY <1>1, <1>2, <2>2, OrderingKeepsCause DEF viewVars
<1>3. CASE SlowPrepare(i, s) /\ UNCHANGED crashed
  <2>1. \E data, sigs : net' = (net \ {}) \cup ProofToAll(i, "PREPARE", data, sigs)
    BY <1>3 DEF SlowPrepare, Exchange
  <2>2. \A m \in net' : m \in net \/ Addressed(m)'
    BY <2>1, PlainMessages, PlainIsAddressed DEF ProofType
  <2> QED
    BY <1>1, <1>3, <2>2, OrderingKeepsCause DEF viewVars
<1>4. CASE /\ crashed' = [crashed EXCEPT ![i] = state[i] = "NORMAL"]
           /\ state[i] # "NORMAL" \/ ~Present(i, s)
           /\ UNCHANGED <<log, net>>
  <2>1. ASSUME crashed'[i] PROVE CrashCause(i)'
    <3>1. ~Present(i, s)
      BY <1>4, <2>1 DEF Inv, TypeOK
    <3>2. log[i][s].status # "NIL"
      BY <1>1 DEF CommitInv, TimerBacked
    <3>3. CrashCause(i)
      BY <3>1, <3>2, MissingHasCause DEF CrashCause
    <3> QED
      BY <1>1, <1>4, <3>3, CauseStays DEF logVars
  <2> QED
    BY <1>1, <1>4, <2>1, OrderingKeepsCause DEF viewVars
<1> QED
  BY <1>1, <1>2, <1>3, <1>4

\* A backup answers the certificate of its leader, for an assignment of that leader.
LEMMA PrepareKeepsCause ==
    ASSUME Inv, Inv', CommitInv, CauseInv, Lasting, NEW i \in Server, ~crashed[i], StillBut(i),
           ProcessPrepare(i)
    PROVE  CauseInv'
<1>1. PICK m \in net :
         /\ Receive(i, m, "PREPARE")
         /\ \/ Ignore({m})
            \/ /\ m.data.view = currentView[i]
               /\ \/ net' = (net \ {m}) \cup {Ack(i, Leader(currentView[i]), "PREPARE_OK", m.data)}
                  \/ net' = (net \ {m}) \cup {}
               /\ UNCHANGED <<viewVars, crashed, proposed>>
  BY DEF ProcessPrepare, AcceptsCertificate, Exchange
<1>2. CASE /\ m.data.view = currentView[i]
           /\ \/ net' = (net \ {m}) \cup {Ack(i, Leader(currentView[i]), "PREPARE_OK", m.data)}
              \/ net' = (net \ {m}) \cup {}
           /\ UNCHANGED <<viewVars, crashed, proposed>>
  <2>1. m.data \in proposed
    BY <1>1 DEF Receive, CommitInv, MessageBacked, PrepareBacked
  <2>2. PICK a : a = Ack(i, Leader(currentView[i]), "PREPARE_OK", m.data)
    OBVIOUS
  <2>3. a.type = "PREPARE_OK" /\ a.to = Leader(m.data.view) /\ a.data = m.data
    BY <1>2, <2>2 DEF Ack
  <2>4. Addressed(a)'
    BY <1>2, <2>1, <2>3 DEF Addressed, Own
  <2>5. \A x \in net' : x \in net \/ x = a
    BY <1>2, <2>2
  <2> QED
    BY <1>2, <2>4, <2>5, OrderingKeepsCause DEF viewVars
<1> QED
  BY <1>1, <1>2, IgnoreKeepsCause

LEMMA CommitKeepsCause ==
    ASSUME Inv, Inv', CauseInv, Lasting, NEW i \in Server, ~crashed[i], StillBut(i),
           ProcessCommit(i)
    PROVE  CauseInv'
<1>1. PICK m \in net :
         \/ Ignore({m})
         \/ /\ \/ net' = (net \ {m}) \cup {}
               \/ \E l : ExecutePending(i, l, {m}, {})
            /\ UNCHANGED <<viewVars, crashed, proposed>>
  BY DEF ProcessCommit, Exchange
<1>2. CASE /\ \/ net' = (net \ {m}) \cup {}
              \/ \E l : ExecutePending(i, l, {m}, {})
           /\ UNCHANGED <<viewVars, crashed, proposed>>
  <2>1. \A x \in net' : x \in net \/ Addressed(x)'
    BY <1>2, ExecutionIsAddressed
  <2> QED
    BY <1>2, <2>1, OrderingKeepsCause DEF viewVars
<1> QED
  BY <1>1, <1>2, IgnoreKeepsCause

\* A checkpoint that meets a hole has moved the low watermark.
LEMMA CheckpointKeepsCause ==
    ASSUME Inv, Inv', CauseInv, Lasting, NEW i \in Server, ~crashed[i], StillBut(i),
           ProcessCheckpoint(i)
    PROVE  CauseInv'
<1>1. PICK m \in net :
         /\ Receive(i, m, "CHECKPOINT")
         /\ \/ Ignore({m})
            \/ /\ \/ \E proofs : Truncate(i, m.seq, proofs)
                  \/ UNCHANGED crashed
               /\ Exchange({m}, {})
               /\ UNCHANGED <<viewVars, proposed>>
  BY DEF ProcessCheckpoint
<1>2. CASE /\ \E proofs : Truncate(i, m.seq, proofs)
           /\ Exchange({m}, {})
           /\ UNCHANGED <<viewVars, proposed>>
  <2>1. m.seq \in Seqs
    BY <1>1, MessageForms DEF Receive, Inv, TypeOK
  <2>2. lowWatermark'[i] = m.seq + 1
    BY <1>2 DEF Truncate, FirstKept, Inv, TypeOK
  <2>3. CrashCause(i)'
    BY <2>1, <2>2 DEF CrashCause, Seqs
  <2> QED
    BY <1>2, <2>3, OrderingKeepsCause DEF Exchange, viewVars
<1>3. CASE Exchange({m}, {}) /\ UNCHANGED <<viewVars, crashed, proposed>>
  BY <1>3, OrderingKeepsCause DEF Exchange, viewVars
<1> QED
  BY <1>1, <1>2, <1>3, IgnoreKeepsCause

----------------------------------------------------------------------------
(* View changes. *)

\* A server asks the others only, for itself.
LEMMA RequestsAreAddressed ==
    ASSUME NEW i, NEW v, NEW m \in ViewChangeToAll(i, ComposeViewChange(i, v))
    PROVE  Addressed(m)'
<1>1. m.type = "VIEW_CHANGE" /\ m.request = ComposeViewChange(i, v) /\ m.to # i
  BY DEF ViewChangeToAll, ToOthers
<1>2. m.request.from = i
  BY <1>1 DEF ComposeViewChange
<1> QED
  BY <1>1, <1>2 DEF Addressed

\* What a server reads of the requests for views up to its own.
LEMMA ReproposedLasts ==
    ASSUME NEW i, NEW v, \A vc : vc.view = v =>
              (vc \in viewChangeMessages'[i] <=> vc \in viewChangeMessages[i])
    PROVE  Reproposed(i, v)' = Reproposed(i, v)
<1>1. {vc \in viewChangeMessages'[i] : vc.view = v} = {vc \in viewChangeMessages[i] : vc.view = v}
  OBVIOUS
<1> QED
  BY <1>1 DEF Reproposed

\* A server takes note of requests for views after its own, of other servers only if it
\* is to lead them.
LEMMA NotingKeepsCause ==
    ASSUME Inv, Inv', CauseInv, Lasting, NEW i \in Server, ~crashed[i], StillBut(i),
           UNCHANGED <<crashed, proposed>>, currentView'[i] >= currentView[i],
           \A vc : vc.view <= currentView[i] =>
              (vc \in viewChangeMessages'[i] <=> vc \in viewChangeMessages[i]),
           OthersAsk(i)',
           \A m \in net' : m \in net \/ Addressed(m)'
    PROVE  CauseInv'
<1>1. ASSUME NEW v \in 2 .. currentView[i] PROVE Reproposed(i, v)' = Reproposed(i, v)
  <2>1. v <= currentView[i]
    BY DEF Inv, TypeOK, Views
  <2> QED
    BY <2>1, ReproposedLasts
<1> QED
  BY <1>1, CauseKeeps

LEMMA ExpireKeepsCause ==
    ASSUME Inv, Inv', CauseInv, Lasting, NEW i \in Server, ~crashed[i], StillBut(i),
           NEW t, NEW stop, NEW next, Expire(i, t, stop, next)
    PROVE  CauseInv'
<1>1. /\ \/ UNCHANGED net
         \/ net' = (net \ {}) \cup ViewChangeToAll(i, ComposeViewChange(i, t.newView))
      /\ UNCHANGED <<currentView, viewChangeMessages, crashed, proposed>>
  BY DEF Expire, TriggerViewChange, Exchange, viewVars
<1>2. \A m \in net' : m \in net \/ Addressed(m)'
  BY <1>1, RequestsAreAddressed
<1> QED
  BY <1>1, <1>2, OrderingKeepsCause

\* A view starts with what its leader has the others acknowledge.
LEMMA StartKeepsCause ==
    ASSUME Inv, Inv', CauseInv, Lasting, NEW i \in Server, ~crashed[i], StillBut(i),
           NEW v \in Views, v > currentView[i], Leader(v) = i,
           NEW msgs, \A vc \in msgs : vc.view > currentView[i] /\ Leader(vc.view) = i => vc.from # i,
           \A vc : vc.view <= currentView[i] => (vc \in msgs <=> vc \in viewChangeMessages[i]),
           NEW in, StartView(i, v, msgs, in), UNCHANGED <<crashed, proposed>>
    PROVE  CauseInv'
<1>1. PICK own : own = ComposeViewChange(i, v)
  OBVIOUS
<1>2. own.view = v /\ own.from = i
  BY <1>1 DEF ComposeViewChange
<1>3. PICK vcs : vcs = {w \in msgs : w.view = v /\ w.from # i} \cup {own}
  OBVIOUS
<1>4. PICK out : out = NewViewToAll(i, v, vcs, ComputeBigO(vcs))
  OBVIOUS
<1>5. /\ viewChangeMessages' = [viewChangeMessages EXCEPT ![i] = msgs \cup {own}]
      /\ currentView' = [currentView EXCEPT ![i] = v]
      /\ net' = (net \ in) \cup out
  BY <1>1, <1>3, <1>4 DEF StartView, Exchange
<1>6. viewChangeMessages'[i] = msgs \cup {own} /\ currentView'[i] = v
  BY <1>5 DEF Inv, TypeOK
<1>7. v \in Int /\ currentView[i] \in Int /\ currentView[i] >= 1
  BY DEF Inv, TypeOK, Views
<1>8. vcs = {vc \in viewChangeMessages'[i] : vc.view = v}
  BY <1>2, <1>3, <1>6
<1>9. ASSUME NEW m \in out PROVE Addressed(m)'
  <2>1. /\ m.type = "NEW_VIEW" /\ m.to # i /\ m.view = v
        /\ m.vproofs = vcs /\ m.prePrepares = ComputeBigO(vcs)
    BY <1>4 DEF NewViewToAll, ToOthers
  <2>2. m.prePrepares = Reproposed(i, v)'
    BY <1>8, <2>1 DEF Reproposed
  <2>3. v \in 2 .. currentView'[i]
    BY <1>6, <1>7
  <2>4. \A vc \in vcs : vc.view = v
    BY <1>8
  <2>5. Started(m)'
    BY <2>1, <2>2, <2>3, <2>4 DEF Started
  <2> QED
    BY <2>1, <2>5 DEF Addressed
<1>10. \A m \in net' : m \in net \/ Addressed(m)'
  BY <1>5, <1>9
<1>11. OthersAsk(i)'
  <2> SUFFICES ASSUME NEW vc \in msgs \cup {own}, vc.view > v, Leader(vc.view) = i
               PROVE  vc.from # i
    BY <1>6 DEF OthersAsk
  <2>1. vc \in msgs
    BY <1>2, <1>7
  <2>2. vc \in ViewChange
    BY <1>6 DEF Inv, TypeOK
  <2>3. vc.view \in Int
    BY <2>2 DEF ViewChange, Views
  <2> QED
    BY <1>7, <2>1, <2>3
<1>12. \A vc : vc.view <= currentView[i] =>
          (vc \in viewChangeMessages'[i] <=> vc \in viewChangeMessages[i])
  BY <1>2, <1>6, <1>7
<1> QED
  BY <1>6, <1>7, <1>10, <1>11, <1>12, NotingKeepsCause

LEMMA ViewChangeKeepsCause ==
    ASSUME Inv, Inv', CauseInv, Lasting, NEW i \in Server, ~crashed[i], StillBut(i),
           ProcessViewChange(i)
    PROVE  CauseInv'
<1>1. PICK m \in net :
         /\ Receive(i, m, "VIEW_CHANGE")
         /\ \/ Ignore({m})
            \/ /\ m.request.view > currentView[i]
               /\ \/ JoinViewChange(i, m.request.view, Remember(i, m.request), {m})
                  \/ /\ Leader(m.request.view) = i
                     /\ StartView(i, m.request.view, Remember(i, m.request), {m})
                  \/ /\ viewChangeMessages' = [viewChangeMessages EXCEPT ![i] = Remember(i, m.request)]
                     /\ Exchange({m}, {})
                     /\ UNCHANGED currentView
               /\ UNCHANGED <<crashed, proposed>>
  BY DEF ProcessViewChange
<1>2. m.request.view \in Views /\ m.request.from # i
  BY <1>1, MessageForms DEF Inv, TypeOK, Receive, CauseInv, Addressed, ViewChange
<1>3. PICK v \in Views : v = m.request.view
  BY <1>2
<1>4. PICK msgs : msgs = Remember(i, m.request)
  OBVIOUS
<1>5. \A vc \in msgs : vc.view > currentView[i] /\ Leader(vc.view) = i => vc.from # i
  BY <1>2, <1>4 DEF Remember, CauseInv, OthersAsk
<1>6. v \in Int /\ currentView[i] \in Int
  BY DEF Inv, TypeOK, Views
<1>7. ASSUME v > currentView[i]
      PROVE  \A vc : vc.view <= currentView[i] => (vc \in msgs <=> vc \in viewChangeMessages[i])
  BY <1>3, <1>4, <1>6, <1>7 DEF Remember
<1>8. CASE /\ v > currentView[i] /\ Leader(v) = i /\ StartView(i, v, msgs, {m})
           /\ UNCHANGED <<crashed, proposed>>
  BY <1>5, <1>7, <1>8, StartKeepsCause
<1>9. CASE /\ v > currentView[i]
           /\ viewChangeMessages' = [viewChangeMessages EXCEPT ![i] = msgs]
           /\ \/ net' = (net \ {m}) \cup ViewChangeToAll(i, ComposeViewChange(i, v))
              \/ net' = (net \ {m}) \cup {}
           /\ UNCHANGED <<currentView, crashed, proposed>>
  <2>1. viewChangeMessages'[i] = msgs
    BY <1>9 DEF Inv, TypeOK
  <2>2. OthersAsk(i)'
    BY <1>5, <1>9, <2>1 DEF OthersAsk
  <2>3. \A x \in net' : x \in net \/ Addressed(x)'
    BY <1>9, RequestsAreAddressed
  <2>4. \A vc : vc.view <= currentView[i] =>
           (vc \in viewChangeMessages'[i] <=> vc \in viewChangeMessages[i])
    BY <1>7, <1>9, <2>1
  <2> QED
    BY <1>6, <1>9, <2>2, <2>3, <2>4, NotingKeepsCause
<1> QED
  <2>1. ASSUME JoinViewChange(i, v, msgs, {m})
        PROVE  /\ viewChangeMessages' = [viewChangeMessages EXCEPT ![i] = msgs]
               /\ net' = (net \ {m}) \cup ViewChangeToAll(i, ComposeViewChange(i, v))
               /\ UNCHANGED currentView
    BY <2>1 DEF JoinViewChange, TriggerViewChange, Exchange
  <2> QED
    BY <1>1, <1>3, <1>4, <1>8, <1>9, <2>1, IgnoreKeepsCause DEF Exchange

\* A backup has the leader of the new view to answer, with what that leader proposed again.
LEMMA NewViewKeepsCause ==
    ASSUME Inv, Inv', CauseInv, Lasting, NEW i \in Server, ~crashed[i], StillBut(i),
           ProcessNewView(i)
    PROVE  CauseInv'
<1>1. PICK m \in net :
         /\ Receive(i, m, "NEW_VIEW")
         /\ \/ Ignore({m})
            \/ /\ m.view > currentView[i]
               /\ currentView' = [currentView EXCEPT ![i] = m.view]
               /\ viewChangeMessages' = [viewChangeMessages EXCEPT ![i] =
                                            {w \in @ : w.view # m.view} \cup m.vproofs]
               /\ net' = (net \ {m}) \cup {Ack(i, Leader(m.view), "PRE_PREPARE_OK", c) : c \in m.prePrepares}
               /\ UNCHANGED <<crashed, proposed>>
  BY DEF ProcessNewView, AcceptsNewView, Exchange
<1>2. PICK v \in Views : v = m.view
  BY <1>1, MessageForms DEF Inv, TypeOK, Receive
<1>3. PICK l \in Server : l = Leader(v)
  BY LeaderIsServer, ViewInBounds
<1>4. /\ l # i /\ v \in 2 .. currentView[l]
      /\ \A vc \in m.vproofs : vc.view = v
      /\ m.prePrepares = Reproposed(l, v)
  BY <1>1, <1>2, <1>3 DEF Receive, CauseInv, Addressed, Started
<1>5. CASE ~Ignore({m})
  <2>1. PICK msgs : msgs = {w \in viewChangeMessages[i] : w.view # v} \cup m.vproofs
    OBVIOUS
  <2>2. /\ v > currentView[i]
        /\ currentView' = [currentView EXCEPT ![i] = v]
        /\ viewChangeMessages' = [viewChangeMessages EXCEPT ![i] = msgs]
        /\ net' = (net \ {m}) \cup {Ack(i, l, "PRE_PREPARE_OK", c) : c \in m.prePrepares}
        /\ UNCHANGED <<crashed, proposed>>
    BY <1>1, <1>2, <1>3, <1>5, <2>1
  <2>3. currentView'[i] = v /\ viewChangeMessages'[i] = msgs
    BY <2>2 DEF Inv, TypeOK
  <2>4. v \in Int /\ currentView[i] \in Int
    BY DEF Inv, TypeOK, Views
  <2>5. \A vc : vc.view <= currentView[i] =>
           (vc \in viewChangeMessages'[i] <=> vc \in viewChangeMessages[i])
    BY <1>4, <2>1, <2>2, <2>3, <2>4
  <2>6. OthersAsk(i)'
    <3> SUFFICES ASSUME NEW vc \in msgs, vc.view > v, Leader(vc.view) = i
                 PROVE  vc.from # i
      BY <2>3 DEF OthersAsk
    <3>1. vc \in viewChangeMessages[i]
      BY <1>4, <2>1, <2>4
    <3>2. vc.view \in Int
      BY <3>1 DEF Inv, TypeOK, ViewChange, Views
    <3> QED
      BY <2>2, <2>4, <3>1, <3>2 DEF CauseInv, OthersAsk
  <2>7. ASSUME NEW c \in m.prePrepares PROVE Addressed(Ack(i, l, "PRE_PREPARE_OK", c))'
    <3>1. PICK a : a = Ack(i, l, "PRE_PREPARE_OK", c)
      OBVIOUS
    <3>2. a.type = "PRE_PREPARE_OK" /\ a.to = l /\ a.data = c
      BY <3>1 DEF Ack
    <3>3. Still(l)
      BY <1>4 DEF StillBut
    <3>4. Repeated(l, c)'
      BY <1>3, <1>4, <3>3 DEF Repeated, Reproposed, Still
    <3>5. Addressed(a)'
      BY <3>2, <3>4 DEF Addressed
    <3> QED
      BY <3>1, <3>5
  <2>8. \A x \in net' : x \in net \/ Addressed(x)'
    BY <2>2, <2>7
  <2> QED
    BY <2>2, <2>3, <2>4, <2>5, <2>6, <2>8, NotingKeepsCause
<1> QED
  BY <1>5, IgnoreKeepsCause

----------------------------------------------------------------------------
LEMMA InitCause == Init => CauseInv
  BY DEF Init, CauseInv, OthersAsk, LeadersHold, CrashHasCause

LEMMA NextCause == Inv /\ Inv' /\ CommitInv /\ CauseInv /\ [Next]_vars => CauseInv'
<1> SUFFICES ASSUME Inv, Inv', CommitInv, CauseInv, [Next]_vars PROVE CauseInv'
  OBVIOUS
<1>1. Lasting
  BY EntriesLast
<1>2. CASE UNCHANGED vars
  BY <1>2 DEF vars, viewVars, logVars, stableVars, CauseInv, Addressed, Own, Repeated, Started,
     Reproposed, OthersAsk, LeadersHold, CrashHasCause, CrashCause, Unheld
<1>3. ASSUME NEW i \in Server, Step(i) PROVE CauseInv'
  <2>1. ~crashed[i] /\ StillBut(i)
    BY <1>3, OthersStill DEF Inv
  <2>2. ASSUME NEW t, NEW stop, NEW next, Expire(i, t, stop, next) PROVE CauseInv'
    BY <1>1, <2>1, <2>2, ExpireKeepsCause
  <2>3. CASE Ordering(i)
    <3>1. CASE ClientTransfer(i)
      BY <1>1, <2>1, <3>1, TransferKeepsCause DEF ClientTransfer
    <3>2. CASE ForwardedTransfer(i)
      <4>1. PICK m \in net : Receive(i, m, "TRANSFER") /\ ProcessTransfer(i, m.m, {m})
        BY <3>2 DEF ForwardedTransfer
      <4>2. m.m \in Req
        BY <4>1, MessageForms DEF Inv, TypeOK, Receive
      <4> QED
        BY <1>1, <2>1, <4>1, <4>2, TransferKeepsCause
    <3> QED
      BY <1>1, <2>1, <2>3, <3>1, <3>2, PrePrepareKeepsCause, PrePrepareOkKeepsCause,
         TimeoutKeepsCause, PrepareKeepsCause, PrepareOkKeepsCause, CommitKeepsCause DEF Ordering
  <2>4. CASE Checkpointing(i)
    BY <1>1, <2>1, <2>4, CheckpointKeepsCause DEF Checkpointing
  <2>5. CASE ViewTimeout(i)
    <3>1. UNCHANGED <<currentView, viewChangeMessages, crashed, net, proposed>>
      BY <2>5 DEF ViewTimeout
    <3> QED
      BY <1>1, <2>1, <3>1, OrderingKeepsCause
  <2>6. CASE DigestTimeout(i) \/ SeqTimeout(i)
    BY <2>2, <2>6 DEF DigestTimeout, SeqTimeout
  <2> QED
    BY <1>1, <1>3, <2>1, <2>3, <2>4, <2>5, <2>6, ViewChangeKeepsCause, NewViewKeepsCause
       DEF Step, ViewChanging
<1> QED
  BY <1>2, <1>3 DEF Next

\* Addressing: an acknowledgement that is under way to a collector, whenever it comes, is
\* of an assignment the collector made itself and still has an entry for, or of what it
\* had the servers acknowledge in a view it started.
THEOREM CauseInvariant == Spec => []CauseInv
<1>1. Init => CauseInv
  BY InitCause
<1>2. Inv /\ Inv' /\ CommitInv /\ CauseInv /\ [Next]_vars => CauseInv'
  BY NextCause
<1> QED
  BY <1>1, <1>2, AllInvariants, CommitInvariant, PTL DEF Spec

\* Crashes: the handlers of the collector (async_server.cc:523, :609), the optimistic timer
\* (:1071), the leader that stores a new request (:435) and the truncation (:846) go wrong
\* with an index only when slots were truncated, a number lies past the window, or a view
\* the server led began with a NOP or a request it does not hold.
THEOREM CrashesHaveCauses == Spec => []CrashHasCause
<1>1. CauseInv => CrashHasCause
  BY DEF CauseInv
<1> QED
  BY <1>1, CauseInvariant, PTL
=============================================================================
