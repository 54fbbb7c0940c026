---------------------------- MODULE PbftLogProofs ----------------------------
(* The replicas implement PbftLog: Spec => ImplementsLog. *)
EXTENDS PbftAgreementProofs

----------------------------------------------------------------------------
(* The inductive invariant: beside AssignmentInv, what an assignment that   *)
(* arrives or is made meets in the log, and that executePending only goes   *)
(* up.                                                                      *)

NilIsEmpty == \A i \in Server, s \in Seqs :
    log[i][s].status = "NIL" => log[i][s].prePrepare = Nop
EntriesHoldDigests == \A i \in Server, s \in Seqs :
    log[i][s].m = log[i][s].prePrepare.digest
EntriesAreOfPastViews == \A i \in Server, s \in Seqs :
    log[i][s].prePrepare.view <= currentView[i]
PrePreparesAreNew == \A m \in net :
    m.type = "PRE_PREPARE" /\ m.m = m.data.digest => log[m.to][m.data.seq].prePrepare # m.data
ExecutedIsPast == \A i \in Server, s \in Seqs :
    executed[i][s] # NoReq => s <= lastExecuted[i]

LogInv ==
    /\ NilIsEmpty
    /\ EntriesHoldDigests
    /\ EntriesAreOfPastViews
    /\ PrePreparesAreNew
    /\ ExecutedIsPast

Inv == TypeOK /\ AssignmentInv /\ LogInv

LEMMA QuietKeepsEntries ==
    ASSUME Inv, TypeOK', Quiet
    PROVE  NilIsEmpty' /\ EntriesHoldDigests' /\ EntriesAreOfPastViews' /\ PrePreparesAreNew'
<1> USE DEF Inv, LogInv
<1>1. NilIsEmpty' /\ EntriesHoldDigests'
  BY DEF NilIsEmpty, EntriesHoldDigests, Quiet, SameAssignment
<1>2. EntriesAreOfPastViews'
  <2> SUFFICES ASSUME NEW i \in Server, NEW s \in Seqs
               PROVE  log'[i][s].prePrepare.view <= currentView'[i]
    BY DEF EntriesAreOfPastViews
  <2>1. log'[i][s].prePrepare.view = log[i][s].prePrepare.view
    BY DEF Quiet, SameAssignment
  <2>2. log[i][s].prePrepare.view \in Int
    BY EntryAt
  <2>3. log[i][s].prePrepare.view <= currentView[i] /\ currentView'[i] >= currentView[i]
    BY DEF EntriesAreOfPastViews, Quiet
  <2>4. currentView[i] \in Int /\ currentView'[i] \in Int
    BY DEF TypeOK, Views
  <2> QED
    BY <2>1, <2>2, <2>3, <2>4
<1>3. PrePreparesAreNew'
  <2> SUFFICES ASSUME NEW m \in net', m.type = "PRE_PREPARE", m.m = m.data.digest
               PROVE  log'[m.to][m.data.seq].prePrepare # m.data
    BY DEF PrePreparesAreNew
  <2>1. m \in net /\ m \in Message /\ m.data \in proposed
    BY DEF Quiet, TypeOK, AssignmentInv, PrePreparesAreProposed
  <2>2. m.to \in Server /\ m.data.seq \in Seqs
    BY <2>1, MessageForms DEF AssignmentInv, LeadersKeepAssignments
  <2> QED
    BY <2>1, <2>2 DEF PrePreparesAreNew, Quiet, SameAssignment
<1> QED
  BY <1>1, <1>2, <1>3

----------------------------------------------------------------------------
(* Steps that PbftLog does not see. *)

\* Nothing is committed or executed.
Silent ==
    /\ \A i \in Server, s \in Seqs : Committed(log'[i][s]) <=> Committed(log[i][s])
    /\ UNCHANGED <<executed, lastExecuted>>

LEMMA SilentStep ==
    ASSUME Inv, TypeOK', Quiet, Silent
    PROVE  LogInv' /\ UNCHANGED Log!logVars
<1>1. ExecutedIsPast'
  BY DEF Inv, LogInv, ExecutedIsPast, Silent
<1>2. UNCHANGED [i \in Server |-> [s \in Seqs |-> log[i][s].prePrepare]]
  BY DEF Quiet, SameAssignment
<1>3. UNCHANGED [i \in Server |-> {s \in Seqs : Committed(log[i][s])}]
  BY DEF Silent
<1>4. UNCHANGED <<proposed, executed>>
  BY DEF Quiet, Silent
<1> QED
  BY <1>1, <1>2, <1>3, <1>4, QuietKeepsEntries DEF LogInv, Log!logVars
----------------------------------------------------------------------------
(* Steps that commit a number: executePending runs on the log with its      *)
(* entry committed.                                                         *)

LEMMA CommitStep ==
    ASSUME Inv, TypeOK', Quiet, NEW i \in Server, NEW s \in Seqs, NEW e \in Entry, NEW in, NEW out,
           log[i][s].status # "NIL", SameAssignment(log[i][s], e), e.status = "COMMITTED",
           ExecutePending(i, [log[i] EXCEPT ![s] = e], in, out)
    PROVE  LogInv' /\ Log!Commit(i, s)
<1> DEFINE l == [log[i] EXCEPT ![s] = e]
           S == Executable(l, lastExecuted[i], currentSequence[i])
           held(j) == [t \in Seqs |-> log[j][t].prePrepare]
           done(j) == {t \in Seqs : Committed(log[j][t])}
<1> USE DEF Inv
<1>1. lastExecuted[i] \in Int /\ lastExecuted[i] >= -1 /\ currentSequence[i] \in Int
      /\ currentSequence[i] <= MaxSeq /\ MaxSeq \in Nat
  BY BoundAssumption DEF TypeOK
<1>2. S \subseteq Seqs /\ \A t \in S : t > lastExecuted[i] /\ l[t].status = "COMMITTED"
  BY <1>1 DEF Executable, Seqs
<1>3. /\ l \in [Seqs -> Entry]
      /\ l[s] = e
      /\ \A t \in Seqs : t # s => l[t] = log[i][t]
      /\ \A t \in Seqs : l[t].m = log[i][t].m
  BY DEF TypeOK, SameAssignment
<1>4. /\ log' = [log EXCEPT ![i] =
                    [t \in Seqs |-> IF t \in S THEN [l[t] EXCEPT !.status = "EXECUTED"] ELSE l[t]]]
      /\ executed' = [executed EXCEPT ![i] =
                         [t \in Seqs |-> IF t \in S THEN l[t].m ELSE executed[i][t]]]
      /\ lastExecuted' = [lastExecuted EXCEPT ![i] = IF S = {} THEN @ ELSE Max(S)]
  BY DEF ExecutePending
<1> HIDE DEF S, l
<1>5. \A t \in Seqs : Committed(log'[i][t]) <=> Committed(log[i][t]) \/ t = s
  <2> SUFFICES ASSUME NEW t \in Seqs
               PROVE  Committed(log'[i][t]) <=> Committed(log[i][t]) \/ t = s
    OBVIOUS
  <2>1. log'[i][t] = IF t \in S THEN [l[t] EXCEPT !.status = "EXECUTED"] ELSE l[t]
    BY <1>4 DEF TypeOK
  <2>2. l[t] \in Entry
    BY <1>3
  <2>3. Committed(log'[i][t]) <=> Committed(l[t])
    BY <1>2, <2>1, <2>2 DEF Committed, Entry
  <2>4. Committed(l[t]) <=> Committed(log[i][t]) \/ t = s
    BY <1>3 DEF Committed
  <2> QED
    BY <2>3, <2>4
<1>6. \A j \in Server : j # i => log'[j] = log[j]
  BY <1>4 DEF TypeOK
<1>7. \A j \in Server : done(j)' = IF j = i THEN done(i) \cup {s} ELSE done(j)
  BY <1>5, <1>6
<1>8. \A j \in Server : held(j)' = held(j)
  BY DEF Quiet, SameAssignment
<1>9. \A t \in S : executed[i][t] = NoReq
  <2> SUFFICES ASSUME NEW t \in S, executed[i][t] # NoReq PROVE FALSE
    OBVIOUS
  <2>1. t \in Seqs /\ t <= lastExecuted[i] /\ t > lastExecuted[i]
    BY <1>2 DEF LogInv, ExecutedIsPast
  <2> QED
    BY <1>1, <2>1 DEF Seqs
<1>10. \A t \in Seqs : l[t].m = held(i)[t].digest
  BY <1>3 DEF LogInv, EntriesHoldDigests
<1>11. \A t \in S : t \in done(i) \cup {s}
  <2> SUFFICES ASSUME NEW t \in S, t # s PROVE t \in done(i)
    OBVIOUS
  <2> QED
    BY <1>2, <1>3 DEF Committed
<1>12. held(i)[s] # Nop
  <2>1. log[i][s].prePrepare \in proposed
    BY DEF AssignmentInv, EntriesAreProposed
  <2>2. log[i][s].prePrepare.seq \in Seqs
    BY <2>1 DEF AssignmentInv, LeadersKeepAssignments
  <2> QED
    BY <2>2 DEF Nop, Seqs
<1>13. ExecutedIsPast'
  <2> SUFFICES ASSUME NEW j \in Server, NEW t \in Seqs, executed'[j][t] # NoReq
               PROVE  t <= lastExecuted'[j]
    BY DEF ExecutedIsPast
  <2>1. CASE j # i \/ S = {}
    <3>1. executed'[j][t] = executed[j][t] /\ lastExecuted'[j] = lastExecuted[j]
      BY <1>4, <2>1 DEF TypeOK, History
    <3> QED
      BY <3>1 DEF LogInv, ExecutedIsPast
  <2>2. CASE j = i /\ S # {}
    <3>1. Max(S) \in S /\ \A x \in S : x <= Max(S)
      <4>1. \A x \in S : x <= MaxSeq
        BY <1>1, <1>2 DEF Seqs
      <4>2. S \in SUBSET Int
        BY <1>2 DEF Seqs
      <4> QED
        BY <1>1, <2>2, <4>1, <4>2, MaxOfBounded
    <3>2. lastExecuted'[i] = Max(S)
      BY <1>4, <2>2 DEF TypeOK
    <3>3. CASE t \in S
      BY <2>2, <3>1, <3>2, <3>3
    <3>4. CASE t \notin S
      <4>1. executed[i][t] # NoReq
        BY <1>4, <2>2, <3>4 DEF TypeOK
      <4>2. t <= lastExecuted[i]
        BY <4>1 DEF LogInv, ExecutedIsPast
      <4>3. Max(S) > lastExecuted[i] /\ Max(S) \in Seqs
        BY <1>2, <3>1
      <4>4. Max(S) \in Int /\ t \in Int
        BY <4>3, NumberFacts
      <4> QED
        BY <1>1, <2>2, <3>2, <4>2, <4>3, <4>4
    <3> QED
      BY <3>3, <3>4
  <2> QED
    BY <2>1, <2>2
<1>14. Log!Commit(i, s)
  <2>1. S \in SUBSET (done(i) \cup {s})
    BY <1>11
  <2>2. executed' = [executed EXCEPT ![i] =
           [t \in Seqs |-> IF t \in S THEN held(i)[t].digest ELSE executed[i][t]]]
    BY <1>4, <1>10
  <2>3. [j \in Server |-> done(j)]' = [[j \in Server |-> done(j)] EXCEPT ![i] = done(i) \cup {s}]
    BY <1>7
  <2>4. UNCHANGED <<proposed, [j \in Server |-> held(j)]>>
    BY <1>8 DEF Quiet
  <2> QED
    BY <1>9, <1>12, <2>1, <2>2, <2>3, <2>4 DEF Log!Commit, Log!Execute, Log!Nothing, Nop
<1> QED
  BY <1>13, <1>14, QuietKeepsEntries DEF LogInv
----------------------------------------------------------------------------
(* Steps that put an assignment in a log.                                   *)

\* Server i gets the entry e under number s, in place of nothing or of an entry of an
\* earlier view.
Replaces(i, s, e) ==
    /\ e.status # "NIL" /\ e.m = e.prePrepare.digest
    /\ e.prePrepare.seq = s /\ e.prePrepare.view = currentView[i]
    /\ log[i][s].prePrepare.view < e.prePrepare.view
    /\ \/ ~Committed(e)
       \/ /\ e.prePrepare.digest = log[i][s].prePrepare.digest
          /\ Committed(e) <=> Committed(log[i][s])
    /\ log' = [log EXCEPT ![i][s] = e]
    /\ UNCHANGED <<currentView, executed, lastExecuted>>

LEMMA ReplaceStep ==
    ASSUME Inv, TypeOK', NEW i \in Server, NEW s \in Seqs, NEW e \in Entry, Replaces(i, s, e)
    PROVE  /\ NilIsEmpty' /\ EntriesHoldDigests' /\ EntriesAreOfPastViews' /\ ExecutedIsPast'
           /\ Log!Hold(i, e.prePrepare)
<1> USE DEF Inv, LogInv
<1>1. \A j \in Server, t \in Seqs : log'[j][t] = IF j = i /\ t = s THEN e ELSE log[j][t]
  BY DEF Replaces, TypeOK
<1>2. currentView' = currentView /\ executed' = executed /\ lastExecuted' = lastExecuted
  BY DEF Replaces
<1>3. e.status # "NIL" /\ e.m = e.prePrepare.digest /\ e.prePrepare.seq = s
      /\ e.prePrepare.view = currentView[i]
  BY DEF Replaces
<1>4. NilIsEmpty'
  BY <1>1, <1>3 DEF NilIsEmpty
<1>5. EntriesHoldDigests'
  BY <1>1, <1>3 DEF EntriesHoldDigests
<1>6. EntriesAreOfPastViews'
  <2>1. currentView[i] <= currentView[i]
    BY NumberFacts
  <2> QED
    BY <1>1, <1>2, <1>3, <2>1 DEF EntriesAreOfPastViews
<1>7. ExecutedIsPast'
  BY <1>2 DEF ExecutedIsPast
<1>8. Log!Hold(i, e.prePrepare)
  <2> DEFINE held(j) == [t \in Seqs |-> log[j][t].prePrepare]
             done(j) == {t \in Seqs : Committed(log[j][t])}
  <2>1. [j \in Server |-> held(j)]' = [[j \in Server |-> held(j)] EXCEPT ![i][s] = e.prePrepare]
    <3>1. held(i)' = [held(i) EXCEPT ![s] = e.prePrepare]
      BY <1>1
    <3>2. \A j \in Server : j # i => held(j)' = held(j)
      BY <1>1
    <3> HIDE DEF held
    <3>3. [j \in Server |-> held(j)]' = [[j \in Server |-> held(j)] EXCEPT ![i] = held(i)']
      BY <3>2
    <3> QED
      BY <3>1, <3>3
  <2>2. \A j \in Server : j # i => done(j)' = done(j)
    BY <1>1
  <2>3. CASE ~Committed(e)
    <3>1. done(i)' = done(i) \ {s}
      BY <1>1, <2>3
    <3>2. [j \in Server |-> done(j)]' = [[j \in Server |-> done(j)] EXCEPT ![i] = @ \ {s}]
      BY <2>2, <3>1
    <3> QED
      BY <1>2, <1>3, <2>1, <3>2 DEF Log!Hold, Replaces
  <2>4. CASE /\ e.prePrepare.digest = log[i][s].prePrepare.digest
             /\ Committed(e) <=> Committed(log[i][s])
    <3>1. done(i)' = done(i)
      BY <1>1, <2>4
    <3>2. [j \in Server |-> done(j)]' = [j \in Server |-> done(j)]
      BY <2>2, <3>1
    <3> QED
      BY <1>2, <1>3, <2>1, <2>4, <3>2 DEF Log!Hold, Replaces
  <2> QED
    BY <2>3, <2>4 DEF Replaces
<1> QED
  BY <1>4, <1>5, <1>6, <1>7, <1>8

\* A leader assigns: no log and no message holds the new assignment yet.
LEMMA AssignStep ==
    ASSUME Inv, TypeOK', NEW i \in Server, NEW s \in Seqs, NEW e \in Entry,
           Replaces(i, s, e), Assigns(i, s, e, e.prePrepare)
    PROVE  LogInv' /\ Log!Assign(i, e.prePrepare)
<1> DEFINE p == e.prePrepare
<1> USE DEF Inv, LogInv
<1>1. \A q \in proposed : ~(q.view = p.view /\ q.seq = p.seq)
  <2> SUFFICES ASSUME NEW q \in proposed, q.view = p.view, q.seq = s PROVE FALSE
    BY DEF Assigns
  <2>1. Leader(q.view) = i /\ currentView[i] = q.view
    BY DEF Assigns, IsLeader
  <2>2. log[i][s].status # "NIL" /\ log[i][s].from = i
    BY <2>1 DEF AssignmentInv, LeadersKeepAssignments
  <2>3. s <= currentSequence[i]
    BY <2>2 DEF AssignmentInv, EntriesAreProposed
  <2> QED
    BY <2>2, <2>3, NumberFacts DEF Assigns
<1>2. PrePreparesAreNew'
  <2> SUFFICES ASSUME NEW m \in net', m.type = "PRE_PREPARE", m.m = m.data.digest
               PROVE  log'[m.to][m.data.seq].prePrepare # m.data
    BY DEF PrePreparesAreNew
  <2>1. \A j \in Server, t \in Seqs : log'[j][t] = IF j = i /\ t = s THEN e ELSE log[j][t]
    BY DEF Replaces, TypeOK
  <2>2. m \in Message /\ m.to \in Server
    BY MessageForms DEF TypeOK
  <2>3. CASE m \in net
    <3>1. m.data \in proposed /\ m.data.seq \in Seqs
      BY <2>3 DEF AssignmentInv, PrePreparesAreProposed, LeadersKeepAssignments
    <3>2. m.data # p
      BY <1>1, <3>1
    <3>3. log[m.to][m.data.seq].prePrepare # m.data
      BY <2>3 DEF PrePreparesAreNew
    <3> QED
      BY <2>1, <2>2, <3>1, <3>2, <3>3
  <2>4. CASE m.data = p /\ m.to # i
    <3>1. m.data.seq = s
      BY <2>4 DEF Assigns
    <3>2. log'[m.to][s] = log[m.to][s]
      BY <2>1, <2>2, <2>4
    <3>3. CASE log[m.to][s].status = "NIL"
      <4>1. log[m.to][s].prePrepare.seq = -1
        BY <2>2, <3>3 DEF NilIsEmpty, Nop
      <4> QED
        BY <2>4, <3>1, <3>2, <4>1, NumberFacts
    <3>4. CASE log[m.to][s].status # "NIL"
      BY <1>1, <2>2, <2>4, <3>1, <3>2, <3>4 DEF AssignmentInv, EntriesAreProposed
    <3> QED
      BY <3>3, <3>4
  <2> QED
    BY <2>3, <2>4 DEF Assigns
<1>3. proposed' = proposed \cup {p}
  BY DEF Assigns
<1> QED
  BY <1>1, <1>2, <1>3, ReplaceStep DEF Log!Assign

LEMMA AcceptStep ==
    ASSUME Inv, TypeOK', NEW i \in Server, NEW s \in Seqs, NEW e \in Entry,
           Replaces(i, s, e), e.prePrepare \in proposed, UNCHANGED proposed,
           \A m \in net' : m.type = "PRE_PREPARE" =>
              m \in net /\ ~(m.to = i /\ m.data = e.prePrepare /\ m.m = m.data.digest)
    PROVE  LogInv' /\ Log!Accept(i, e.prePrepare)
<1> USE DEF Inv, LogInv
<1>1. PrePreparesAreNew'
  <2> SUFFICES ASSUME NEW m \in net', m.type = "PRE_PREPARE", m.m = m.data.digest
               PROVE  log'[m.to][m.data.seq].prePrepare # m.data
    BY DEF PrePreparesAreNew
  <2>1. \A j \in Server, t \in Seqs : log'[j][t] = IF j = i /\ t = s THEN e ELSE log[j][t]
    BY DEF Replaces, TypeOK
  <2>2. m \in net /\ m.to \in Server /\ m.data \in proposed /\ m.data.seq \in Seqs
    BY MessageForms DEF TypeOK, AssignmentInv, PrePreparesAreProposed, LeadersKeepAssignments
  <2>3. log[m.to][m.data.seq].prePrepare # m.data
    BY <2>2 DEF PrePreparesAreNew
  <2> QED
    BY <2>1, <2>2, <2>3
<1> QED
  BY <1>1, ReplaceStep DEF Log!Accept
----------------------------------------------------------------------------
(* Every handler takes a step of PbftLog, or none.                          *)

Stepped == LogInv' /\ [Log!Next]_(Log!logVars)

LEMMA SilentIsStep ==
    ASSUME Inv, TypeOK', Quiet, Silent
    PROVE  Stepped
  BY SilentStep DEF Stepped

LEMMA SilentIfUnchanged ==
    ASSUME Inv, TypeOK', Quiet, UNCHANGED <<log, executed, lastExecuted>>
    PROVE  Stepped
  BY SilentIsStep DEF Silent

LEMMA SilentEntry ==
    ASSUME Inv, TypeOK', Quiet, NEW i \in Server, NEW s \in Seqs, NEW e,
           log' = [log EXCEPT ![i][s] = e], Committed(e) <=> Committed(log[i][s]),
           UNCHANGED <<executed, lastExecuted>>
    PROVE  Stepped
<1>1. \A j \in Server, t \in Seqs : log'[j][t] = IF j = i /\ t = s THEN e ELSE log[j][t]
  BY DEF Inv, TypeOK
<1>2. Silent
  BY <1>1 DEF Silent
<1> QED
  BY <1>2, SilentIsStep

LEMMA CommitIsStep ==
    ASSUME Inv, TypeOK', Quiet, NEW i \in Server, NEW s \in Seqs, NEW e \in Entry, NEW in, NEW out,
           log[i][s].status # "NIL", SameAssignment(log[i][s], e), e.status = "COMMITTED",
           ExecutePending(i, [log[i] EXCEPT ![s] = e], in, out)
    PROVE  Stepped
  BY CommitStep DEF Stepped, Log!Next

LEMMA AssignIsStep ==
    ASSUME Inv, TypeOK', NEW i \in Server, NEW s \in Seqs, NEW e \in Entry, NEW p,
           p = e.prePrepare, Replaces(i, s, e), Assigns(i, s, e, p)
    PROVE  Stepped
<1>1. LogInv' /\ Log!Assign(i, p)
  BY AssignStep
<1>2. p \in Log!Assignment
  <2>1. p \in Context /\ p.seq \in Seqs /\ p.view \in Views
    BY DEF Entry, Replaces, Inv, TypeOK
  <2> QED
    BY <2>1 DEF Log!Assignment, Context
<1> QED
  BY <1>1, <1>2 DEF Stepped, Log!Next

LEMMA IgnoreStep ==
    ASSUME Inv, TypeOK', NEW in, Ignore(in)
    PROVE  Stepped
<1>1. Quiet
  BY QuietIgnore DEF Inv
<1> QED
  BY <1>1, SilentIfUnchanged DEF Ignore, logVars, execVars

LEMMA CrashStep ==
    ASSUME Inv, TypeOK', NEW i \in Server, NEW in, Crash(i, in)
    PROVE  Stepped
<1>1. Quiet
  BY QuietCrash DEF Inv
<1> QED
  BY <1>1, SilentIfUnchanged DEF Crash, logVars, execVars

LEMMA ProposeNewStep ==
    ASSUME Inv, TypeOK', NEW i \in Server, NEW r \in Req, NEW in,
           IsLeader(i), ProposeNew(i, r, in)
    PROVE  Stepped
<1> DEFINE s == NextSequence(i)
           p == [view |-> currentView[i], seq |-> s, digest |-> r]
           e == NewEntry(r, p, i, NoVotes)
<1> USE DEF Inv
<1>1. s \in Seqs
  BY DEF ProposeNew
<1>2. Assigns(i, s, e, p)
  BY ProposeNewAssigns
<1>3. e \in Entry /\ e.prePrepare = p
  <2>1. p \in Context /\ r \in Digest
    BY <1>1, ViewInBounds, BoundAssumption DEF Context, Digest, TypeOK, Seqs
  <2> HIDE DEF p
  <2> QED
    BY <2>1, NewEntryType, ServerFacts DEF NewEntry
<1>4. log[i][s].prePrepare.view < currentView[i]
  <2>1. log[i][s].status = "NIL"
    <3>1. s \in Int /\ currentSequence[i] \in Int /\ s > currentSequence[i]
      BY NumberFacts DEF NextSequence
    <3> QED
      BY <1>1, <3>1 DEF AssignmentInv, EntriesAreProposed
  <2>2. log[i][s].prePrepare.view = -1
    BY <1>1, <2>1 DEF LogInv, NilIsEmpty, Nop
  <2> QED
    BY <2>2 DEF TypeOK, Views
<1>5. Replaces(i, s, e)
  BY <1>4 DEF Replaces, NewEntry, ProposeNew, viewVars, execVars, Committed
<1> HIDE DEF s, p, e
<1> QED
  BY <1>1, <1>2, <1>3, <1>5, AssignIsStep

\* The entry a leader proposes again is of an earlier view: its own view's are its own.
LEMMA ProposeAgainStep ==
    ASSUME Inv, TypeOK', NEW i \in Server, NEW r \in Req, NEW in, IsLeader(i), Known(i, r),
           ~AlreadyProposed(i, digestToEntry[i][r]), ProposeAgain(i, r, in)
    PROVE  Stepped
<1> DEFINE s == digestToEntry[i][r]
           o == log[i][s]
           p == [o.prePrepare EXCEPT !.view = currentView[i]]
           e == [o EXCEPT !.prePrepare = p, !.from = i, !.prepares = NoVotes, !.commits = NoVotes]
<1> USE DEF Inv
<1>1. s \in Seqs /\ Assigns(i, s, e, p)
  BY ProposeAgainAssigns
<1>2. /\ log' = [log EXCEPT ![i][s] = e]
      /\ UNCHANGED <<currentView, executed, lastExecuted>>
  BY DEF ProposeAgain, viewVars, execVars
<1>3. o \in Entry /\ o.prePrepare \in Context /\ currentView[i] \in Views
  BY <1>1, EntryAt DEF TypeOK
<1>4. o.status # "NIL" /\ o.m = o.prePrepare.digest /\ o.prePrepare \in proposed /\ o.prePrepare.seq = s
  <2>1. o.status # "NIL"
    BY DEF AssignmentInv, DigestsHaveEntries
  <2> QED
    BY <1>1, <2>1 DEF AssignmentInv, EntriesAreProposed, LogInv, EntriesHoldDigests
<1>5. o.prePrepare.view < currentView[i]
  <2>1. o.prePrepare.view \in Int /\ currentView[i] \in Int
    BY <1>1, EntryAt, NumberFacts
  <2>2. o.prePrepare.view <= currentView[i]
    BY <1>1 DEF LogInv, EntriesAreOfPastViews
  <2>3. ASSUME o.prePrepare.view = currentView[i] PROVE FALSE
    <3>1. Leader(o.prePrepare.view) = i
      BY <2>3 DEF IsLeader
    <3>2. o.from = i
      BY <1>4, <2>3, <3>1 DEF AssignmentInv, LeadersKeepAssignments
    <3> QED
      BY <3>2 DEF AlreadyProposed, IsLeader
  <2> QED
    BY <2>1, <2>2, <2>3
<1> HIDE DEF s, o
<1>6. /\ p \in Context /\ p.view = currentView[i] /\ p.seq = s
      /\ p.digest = o.prePrepare.digest
  BY <1>3, <1>4, ViewInBounds DEF Context
<1> HIDE DEF p
<1>7. /\ e \in Entry /\ e.prePrepare = p /\ e.status = o.status /\ e.m = o.m
  BY <1>3, <1>6, ServerFacts DEF Entry
<1> HIDE DEF e
<1>8. Replaces(i, s, e)
  BY <1>2, <1>4, <1>5, <1>6, <1>7 DEF Replaces, Committed, o
<1> QED
  BY <1>1, <1>7, <1>8, AssignIsStep

LEMMA ProcessTransferStep ==
    ASSUME Inv, TypeOK', NEW i \in Server, NEW r \in Req, NEW in, ProcessTransfer(i, r, in)
    PROVE  Stepped
<1>1. CASE Ignore(in)
  BY <1>1, IgnoreStep
<1>2. CASE AnswerAgain(i, r, in)
  <2>1. Quiet
    BY <1>2, QuietIfUnchanged DEF Inv, AnswerAgain, Exchange, viewVars, logVars
  <2> QED
    BY <1>2, <2>1, SilentIfUnchanged DEF AnswerAgain, logVars
<1>3. CASE ForwardToLeader(i, r, in)
  <2>1. Quiet
    BY <1>3, QuietIfUnchanged DEF Inv, ForwardToLeader, Exchange, viewVars, logVars
  <2> QED
    BY <1>3, <2>1, SilentIfUnchanged DEF ForwardToLeader, logVars, execVars
<1>4. CASE /\ IsLeader(i) /\ Known(i, r) /\ ~AlreadyProposed(i, digestToEntry[i][r])
           /\ ProposeAgain(i, r, in)
  BY <1>4, ProposeAgainStep
<1>5. CASE IsLeader(i) /\ ProposeNew(i, r, in)
  BY <1>5, ProposeNewStep
<1> QED
  BY <1>1, <1>2, <1>3, <1>4, <1>5 DEF ProcessTransfer

\* The entry that a pre-prepare of the current view meets is of an earlier view: an
\* entry of this view would be the same assignment, and the pre-prepare not new.
LEMMA ProcessPrePrepareStep ==
    ASSUME Inv, TypeOK', NEW i \in Server, ProcessPrePrepare(i)
    PROVE  Stepped
<1> USE DEF Inv
<1>1. PICK m \in net :
         /\ Receive(i, m, "PRE_PREPARE")
         /\ \/ Ignore({m})
            \/ /\ AcceptsPrePrepare(i, m)
               /\ currentSequence' = [currentSequence EXCEPT ![i] = Max({@, m.data.seq})]
               /\ \/ Exchange({m}, {}) /\ UNCHANGED <<log, digestToEntry>>
                  \/ StorePrePrepare(i, m)
               /\ UNCHANGED <<viewVars, execVars, proposed>>
  BY DEF ProcessPrePrepare
<1>2. m.data \in proposed /\ m.data \in Context /\ m.m \in Digest /\ m.to = i /\ m.from \in Server
  BY <1>1, MessageForms DEF AssignmentInv, PrePreparesAreProposed, Receive, TypeOK
<1> DEFINE s == m.data.seq
           e == NewEntry(m.m, m.data, m.from, AddVotes(NoVotes, {i}, m.data.view))
<1>3. s \in Seqs
  BY <1>2 DEF AssignmentInv, LeadersKeepAssignments
<1>4. CASE /\ Exchange({m}, {}) /\ UNCHANGED <<log, digestToEntry>>
           /\ UNCHANGED <<viewVars, execVars, proposed>>
  <2>1. UNCHANGED <<log, currentView, executed, lastExecuted, proposed>> /\ net' \subseteq net
    BY <1>4 DEF Exchange, viewVars, execVars
  <2>2. LogInv'
    BY <2>1 DEF LogInv, NilIsEmpty, EntriesHoldDigests, EntriesAreOfPastViews, PrePreparesAreNew,
                ExecutedIsPast
  <2>3. UNCHANGED Log!logVars
    BY <2>1 DEF Log!logVars
  <2> QED
    BY <2>2, <2>3 DEF Stepped
<1>5. CASE /\ AcceptsPrePrepare(i, m) /\ StorePrePrepare(i, m)
           /\ UNCHANGED <<viewVars, execVars, proposed>>
  <2>1. e \in Entry /\ e.prePrepare = m.data /\ e.m = m.m /\ e.status = "PRE_PREPARED"
    <3>1. AddVotes(NoVotes, {i}, m.data.view) \in Votes
      BY <1>2, ServerFacts, VotesAdded DEF Context
    <3> QED
      BY <1>2, <3>1, NewEntryType DEF NewEntry
  <2>2. m.data.view = currentView[i] /\ m.data.digest = m.m
    BY <1>5 DEF AcceptsPrePrepare
  <2>3. /\ log' = [log EXCEPT ![i][s] = e]
        /\ UNCHANGED <<currentView, executed, lastExecuted, proposed>>
        /\ Exchange({m}, IF i \in Byzantine THEN {} ELSE {Ack(i, m.from, "PRE_PREPARE_OK", m.data)})
    BY <1>5 DEF StorePrePrepare, viewVars, execVars
  <2>4. log[i][s].prePrepare.view < m.data.view
    <3>1. log[i][s].prePrepare.view \in Int /\ currentView[i] \in Int
      BY <1>3, EntryAt, NumberFacts
    <3>2. log[i][s].prePrepare.view <= currentView[i]
      BY <1>3 DEF LogInv, EntriesAreOfPastViews
    <3>3. ASSUME log[i][s].prePrepare.view = currentView[i] PROVE FALSE
      <4>1. log[i][s].status # "NIL"
        <5>1. currentView[i] # -1
          BY DEF TypeOK, Views
        <5> QED
          BY <1>3, <3>3, <5>1 DEF LogInv, NilIsEmpty, Nop
      <4>2. log[i][s].prePrepare \in proposed /\ log[i][s].prePrepare.seq = s
        BY <1>3, <4>1 DEF AssignmentInv, EntriesAreProposed
      <4>3. log[i][s].prePrepare = m.data
        BY <1>2, <2>2, <3>3, <4>2 DEF AssignmentInv, UniqueAssignments
      <4> QED
        BY <1>1, <1>2, <2>2, <4>3 DEF LogInv, PrePreparesAreNew, Receive
    <3> QED
      BY <2>2, <3>1, <3>2, <3>3
  <2>5. ASSUME NEW x \in net', x.type = "PRE_PREPARE"
        PROVE  x \in net /\ ~(x.to = i /\ x.data = m.data /\ x.m = x.data.digest)
    <3>1. x \in net \ {m}
      <4>1. Ack(i, m.from, "PRE_PREPARE_OK", m.data).type # "PRE_PREPARE"
        BY DEF Ack
      <4> QED
        BY <2>3, <2>5, <4>1 DEF Exchange
    <3>2. ASSUME x.to = i, x.data = m.data, x.m = x.data.digest PROVE x = m
      <4>1. x.from = m.from /\ x.to = m.to /\ x.m = m.m /\ x.type = m.type
        BY <1>1, <1>2, <2>2, <2>5, <3>1, <3>2 DEF AssignmentInv, PrePreparesAreProposed, Receive
      <4>2. x \in Message /\ m \in Message
        BY <3>1 DEF TypeOK
      <4>3. /\ x \in [type : {"PRE_PREPARE"}, from : Server, to : Server, data : Context, m : Digest]
            /\ m \in [type : {"PRE_PREPARE"}, from : Server, to : Server, data : Context, m : Digest]
        BY <1>1, <2>5, <4>2 DEF Message, Receive, AckType, ProofType
      <4> QED
        BY <3>2, <4>1, <4>3
    <3> HIDE DEF s, e
    <3> QED
      BY <3>1, <3>2
  <2> HIDE DEF s, e
  <2>6. Replaces(i, s, e)
    BY <2>1, <2>2, <2>3, <2>4 DEF Replaces, Committed, s
  <2>7. LogInv' /\ Log!Accept(i, e.prePrepare)
    BY <1>2, <1>3, <2>1, <2>3, <2>5, <2>6, AcceptStep
  <2> QED
    BY <1>2, <2>1, <2>7 DEF Stepped, Log!Next
<1> QED
  BY <1>1, <1>4, <1>5, IgnoreStep

LEMMA ProcessPrePrepareOkStep ==
    ASSUME Inv, TypeOK', NEW i \in Server, ProcessPrePrepareOk(i)
    PROVE  Stepped
<1> USE DEF Inv
<1>1. Quiet
  BY QuietPrePrepareOk
<1>2. PICK m \in net :
         \/ Ignore({m})
         \/ Crash(i, {m})
         \/ Present(i, m.data.seq) /\ CountPrePrepareOk(i, m)
  BY DEF ProcessPrePrepareOk
<1>3. CASE Present(i, m.data.seq) /\ CountPrePrepareOk(i, m)
  <2> DEFINE s == m.data.seq
             e == [log[i][s] EXCEPT !.prepares = AddVotes(@, {m.from}, m.data.view)]
             quorum == i \notin Byzantine /\ e.status = "PRE_PREPARED" /\ PreparedQuorum(e.prepares)
             f == IF quorum THEN [e EXCEPT !.status = "PREPARED"] ELSE e
  <2>1. s \in Seqs /\ log[i][s] \in Entry
    BY <1>3, PresentInSeqs, EntryAt
  <2>2. Committed(f) <=> Committed(log[i][s])
    BY <2>1 DEF Entry, Committed
  <2>3. log' = [log EXCEPT ![i][s] = f] /\ UNCHANGED <<executed, lastExecuted>>
    BY <1>3 DEF CountPrePrepareOk, execVars
  <2> HIDE DEF s, f
  <2> QED
    BY <1>1, <2>1, <2>2, <2>3, SilentEntry
<1> QED
  BY <1>2, <1>3, IgnoreStep, CrashStep

LEMMA OptimisticTimeoutStep ==
    ASSUME Inv, TypeOK', NEW i \in Server, OptimisticTimeout(i)
    PROVE  Stepped
<1> USE DEF Inv
<1>1. Quiet
  BY QuietOptimisticTimeout
<1>2. PICK s \in Seqs :
         \/ Present(i, s) /\ FastCommit(i, s)
         \/ SlowPrepare(i, s)
         \/ UNCHANGED <<log, execVars>>
  BY DEF OptimisticTimeout
<1>3. log[i][s] \in Entry /\ log[i][s].prePrepare.view \in -1 .. MaxView
  BY EntryAt
<1>4. CASE Present(i, s) /\ FastCommit(i, s)
  <2> DEFINE votes == AddVotes(log[i][s].prepares, {i}, log[i][s].prePrepare.view)
             e == [log[i][s] EXCEPT !.status = "COMMITTED", !.commits = votes]
             out == ProofToAll(i, "COMMIT", e.prePrepare, Voters(e.prepares) \cup {i})
  <2>1. votes \in Votes
    BY <1>3, VotesAdded DEF Entry
  <2>2. ExecutePending(i, [log[i] EXCEPT ![s] = e], {}, out)
    BY <1>4 DEF FastCommit
  <2>3. log[i][s].status # "NIL"
    BY <1>4 DEF Present
  <2> HIDE DEF votes
  <2>4. e \in Entry /\ SameAssignment(log[i][s], e) /\ e.status = "COMMITTED"
    BY <1>3, <2>1, <2>3 DEF Entry, Status, SameAssignment
  <2> HIDE DEF e, out
  <2> QED
    BY <1>1, <2>2, <2>3, <2>4, CommitIsStep
<1>5. CASE SlowPrepare(i, s)
  <2> DEFINE e == [log[i][s] EXCEPT !.commits = AddVotes(@, {i}, log[i][s].prePrepare.view)]
  <2>1. Committed(e) <=> Committed(log[i][s])
    BY <1>3 DEF Entry, Committed
  <2>2. log' = [log EXCEPT ![i][s] = e] /\ UNCHANGED <<executed, lastExecuted>>
    BY <1>5 DEF SlowPrepare, TypeOK, execVars
  <2> HIDE DEF e
  <2> QED
    BY <1>1, <2>1, <2>2, SilentEntry
<1>6. CASE UNCHANGED <<log, execVars>>
  BY <1>1, <1>6, SilentIfUnchanged DEF execVars
<1> QED
  BY <1>2, <1>4, <1>5, <1>6

LEMMA ProcessPrepareStep ==
    ASSUME Inv, TypeOK', NEW i \in Server, ProcessPrepare(i)
    PROVE  Stepped
<1> USE DEF Inv
<1> DEFINE e(m) == [log[i][m.data.seq] EXCEPT !.prepares = Certified(m, log[i][m.data.seq], @)]
           quorum(m) == PreparedQuorum(e(m).prepares)
           f(m) == IF quorum(m) THEN [e(m) EXCEPT !.status = "PREPARED"] ELSE e(m)
<1>1. Quiet
  BY QuietPrepare
<1>2. PICK m \in net :
         \/ Ignore({m})
         \/ /\ AcceptsCertificate(i, m, {"PRE_PREPARED"})
            /\ log' = [log EXCEPT ![i][m.data.seq] = f(m)]
            /\ UNCHANGED execVars
  BY DEF ProcessPrepare
<1>3. CASE AcceptsCertificate(i, m, {"PRE_PREPARED"}) /\ ~Ignore({m})
  <2>1. m.data.seq \in Seqs /\ log[i][m.data.seq] \in Entry /\ log[i][m.data.seq].status = "PRE_PREPARED"
    BY <1>3, PresentInSeqs, EntryAt DEF AcceptsCertificate
  <2>2. Committed(f(m)) <=> Committed(log[i][m.data.seq])
    BY <2>1 DEF Entry, Committed
  <2>3. log' = [log EXCEPT ![i][m.data.seq] = f(m)] /\ UNCHANGED <<executed, lastExecuted>>
    BY <1>2, <1>3 DEF execVars
  <2> HIDE DEF f
  <2> QED
    BY <1>1, <2>1, <2>2, <2>3, SilentEntry
<1> QED
  BY <1>2, <1>3, IgnoreStep

LEMMA ProcessCommitStep ==
    ASSUME Inv, TypeOK', NEW i \in Server, ProcessCommit(i)
    PROVE  Stepped
<1> USE DEF Inv
<1> DEFINE e(m) == [log[i][m.data.seq] EXCEPT !.commits = Certified(m, log[i][m.data.seq], @)]
           g(m) == [e(m) EXCEPT !.status = "COMMITTED"]
<1>1. Quiet
  BY QuietCommit
<1>2. PICK m \in net :
         /\ Receive(i, m, "COMMIT")
         /\ \/ Ignore({m})
            \/ /\ AcceptsCertificate(i, m, {"PRE_PREPARED", "PREPARED"})
               /\ \/ log' = [log EXCEPT ![i][m.data.seq] = e(m)] /\ UNCHANGED execVars
                  \/ ExecutePending(i, [log[i] EXCEPT ![m.data.seq] = g(m)], {m}, {})
  BY DEF ProcessCommit
<1>3. m \in Message /\ m.type \in ProofType
  BY <1>2 DEF TypeOK, Receive, ProofType
<1>4. CASE AcceptsCertificate(i, m, {"PRE_PREPARED", "PREPARED"}) /\ ~Ignore({m})
  <2> DEFINE s == m.data.seq
  <2>1. s \in Seqs /\ log[i][s] \in Entry /\ log[i][s].status # "NIL"
    BY <1>4, PresentInSeqs, EntryAt DEF AcceptsCertificate
  <2>2. Certified(m, log[i][s], log[i][s].commits) \in Votes
    BY <1>3, <2>1, CertifiedType DEF Entry
  <2>3. /\ Committed(e(m)) <=> Committed(log[i][s])
        /\ SameAssignment(log[i][s], g(m)) /\ g(m) \in Entry /\ g(m).status = "COMMITTED"
    BY <2>1, <2>2 DEF Entry, Status, SameAssignment, Committed
  <2>4. CASE log' = [log EXCEPT ![i][s] = e(m)] /\ UNCHANGED execVars
    <3> HIDE DEF e
    <3> QED
      BY <1>1, <2>1, <2>3, <2>4, SilentEntry DEF execVars
  <2>5. CASE ExecutePending(i, [log[i] EXCEPT ![s] = g(m)], {m}, {})
    <3> HIDE DEF g
    <3> QED
      BY <1>1, <2>1, <2>3, <2>5, CommitIsStep
  <2> QED
    BY <1>2, <1>4, <2>4, <2>5
<1> QED
  BY <1>2, <1>4, IgnoreStep

LEMMA ProcessPrepareOkStep ==
    ASSUME Inv, TypeOK', NEW i \in Server, ProcessPrepareOk(i)
    PROVE  Stepped
<1> USE DEF Inv
<1>1. Quiet
  BY QuietPrepareOk
<1>2. PICK m \in net :
         /\ Receive(i, m, "PREPARE_OK")
         /\ \/ Ignore({m})
            \/ Crash(i, {m})
            \/ Present(i, m.data.seq) /\ CountPrepareOk(i, m)
  BY DEF ProcessPrepareOk
<1>3. m.from \in Server /\ m.data \in Context
  BY <1>2, MessageForms DEF TypeOK, Receive, AckType
<1>4. CASE Present(i, m.data.seq) /\ CountPrepareOk(i, m)
  <2> DEFINE s == m.data.seq
             e == [log[i][s] EXCEPT !.commits = AddVotes(@, {m.from}, m.data.view)]
             g == [e EXCEPT !.status = "COMMITTED"]
             out == ProofToAll(i, "COMMIT", e.prePrepare, Voters(e.commits))
  <2>1. s \in Seqs /\ log[i][s] \in Entry /\ log[i][s].status # "NIL"
    BY <1>4, PresentInSeqs, EntryAt DEF Present
  <2>2. AddVotes(log[i][s].commits, {m.from}, m.data.view) \in Votes
    BY <1>3, <2>1, VotesAdded DEF Entry, Context
  <2>3. /\ Committed(e) <=> Committed(log[i][s])
        /\ SameAssignment(log[i][s], g) /\ g \in Entry /\ g.status = "COMMITTED"
    BY <2>1, <2>2 DEF Entry, Status, SameAssignment, Committed
  <2>4. \/ log' = [log EXCEPT ![i][s] = e] /\ UNCHANGED <<executed, lastExecuted>>
        \/ ExecutePending(i, [log[i] EXCEPT ![s] = g], {m}, out)
    BY <1>4 DEF CountPrepareOk, execVars
  <2> HIDE DEF s, e, g, out
  <2> QED
    BY <1>1, <2>1, <2>3, <2>4, SilentEntry, CommitIsStep
<1> QED
  BY <1>2, <1>4, IgnoreStep, CrashStep

LEMMA CheckpointStepped ==
    ASSUME Inv, TypeOK', NEW i \in Server, ProcessCheckpoint(i)
    PROVE  Stepped
<1>1. UNCHANGED <<log, executed, lastExecuted>>
  BY DEF ProcessCheckpoint, Ignore, logVars, execVars
<1>2. Quiet
  BY QuietCheckpoint DEF Inv
<1> QED
  BY <1>1, <1>2, SilentIfUnchanged

LEMMA ViewChangingStep ==
    ASSUME Inv, TypeOK', NEW i \in Server, ViewChanging(i)
    PROVE  Stepped
<1>1. UNCHANGED <<logVars, execVars>>
  <2>1. CASE DigestTimeout(i) \/ SeqTimeout(i)
    BY <2>1 DEF DigestTimeout, SeqTimeout, Expire
  <2>2. CASE ViewTimeout(i)
    BY <2>2 DEF ViewTimeout
  <2>3. CASE ProcessViewChange(i)
    BY <2>3 DEF ProcessViewChange, Ignore
  <2>4. CASE ProcessNewView(i)
    BY <2>4 DEF ProcessNewView, Ignore
  <2> QED
    BY <2>1, <2>2, <2>3, <2>4 DEF ViewChanging
<1>2. Quiet
  BY QuietViewChanging DEF Inv
<1> QED
  BY <1>1, <1>2, SilentIfUnchanged DEF logVars, execVars

----------------------------------------------------------------------------
LEMMA InitLog == Init => LogInv /\ Log!Init
<1> SUFFICES ASSUME Init PROVE LogInv /\ Log!Init
  OBVIOUS
<1>1. LogInv
  <2>1. NilIsEmpty /\ EntriesHoldDigests
    BY DEF Init, NilIsEmpty, EntriesHoldDigests, NilEntry, Nop
  <2>2. EntriesAreOfPastViews
    BY DEF Init, EntriesAreOfPastViews, NilEntry, Nop
  <2>3. PrePreparesAreNew /\ ExecutedIsPast
    BY DEF Init, PrePreparesAreNew, ExecutedIsPast, NoHistory
  <2> QED
    BY <2>1, <2>2, <2>3 DEF LogInv
<1>2. Log!Init
  <2>1. \A i \in Server, s \in Seqs : log[i][s].prePrepare = Log!Nothing /\ ~Committed(log[i][s])
    BY DEF Init, NilEntry, Nop, Log!Nothing, Committed
  <2>2. proposed = {} /\ executed = [i \in Server |-> [s \in Seqs |-> NoReq]]
    BY DEF Init, NoHistory
  <2> QED
    BY <2>1, <2>2 DEF Log!Init
<1> QED
  BY <1>1, <1>2

LEMMA NextLog == Inv /\ TypeOK' /\ [Next]_vars => Stepped
<1> SUFFICES ASSUME Inv, TypeOK', [Next]_vars PROVE Stepped
  OBVIOUS
<1>1. CASE UNCHANGED vars
  <2>1. UNCHANGED <<log, net, proposed, executed, lastExecuted, currentView, currentSequence, digestToEntry>>
    BY <1>1 DEF vars, viewVars, logVars, execVars
  <2>2. Quiet
    BY <2>1, QuietIfUnchanged DEF Inv
  <2> QED
    BY <2>1, <2>2, SilentIfUnchanged
<1>2. ASSUME NEW i \in Server, Ordering(i) PROVE Stepped
  <2>1. CASE ClientTransfer(i)
    BY <2>1, ProcessTransferStep DEF ClientTransfer
  <2>2. CASE ForwardedTransfer(i)
    <3>1. PICK m \in net : Receive(i, m, "TRANSFER") /\ ProcessTransfer(i, m.m, {m})
      BY <2>2 DEF ForwardedTransfer
    <3>2. m.m \in Req
      BY <3>1, MessageForms DEF Inv, TypeOK, Receive
    <3> QED
      BY <3>1, <3>2, ProcessTransferStep
  <2> QED
    BY <1>2, <2>1, <2>2, ProcessPrePrepareStep, ProcessPrePrepareOkStep, OptimisticTimeoutStep,
       ProcessPrepareStep, ProcessPrepareOkStep, ProcessCommitStep DEF Ordering
<1>3. ASSUME NEW i \in Server, Checkpointing(i) \/ ViewChanging(i) PROVE Stepped
  BY <1>3, CheckpointStepped, ViewChangingStep DEF Checkpointing
<1> QED
  BY <1>1, <1>2, <1>3 DEF Next, Step

\* Refinement: every behaviour of the replicas, for every number of servers, window,
\* set of requests, clients and mute servers, is one of PbftLog: each number assigned once
\* in a view, kept until a later view, executed at most once and as committed.
THEOREM Refinement == Spec => ImplementsLog
<1>1. Spec => [](TypeOK /\ AssignmentInv)
  BY TypeCorrect, AssignmentInvariant, PTL
<1>2. Init => LogInv /\ Log!Init
  BY InitLog
<1>3. TypeOK /\ AssignmentInv /\ LogInv /\ TypeOK' /\ [Next]_vars
         => LogInv' /\ [Log!Next]_(Log!logVars)
  BY NextLog DEF Inv, Stepped
<1> QED
  BY <1>1, <1>2, <1>3, PTL DEF Spec, ImplementsLog, Log!Spec

\* The invariants that other proofs rest on.
LEMMA AllInvariants == Spec => []Inv
<1>1. Spec => [](TypeOK /\ AssignmentInv)
  BY TypeCorrect, AssignmentInvariant, PTL
<1>2. Init => LogInv
  BY InitLog
<1>3. TypeOK /\ AssignmentInv /\ LogInv /\ TypeOK' /\ [Next]_vars => LogInv'
  BY NextLog DEF Inv, Stepped
<1>4. TypeOK /\ AssignmentInv /\ LogInv => Inv
  BY DEF Inv
<1> QED
  BY <1>1, <1>2, <1>3, <1>4, PTL DEF Spec

\* A step of PbftLog keeps what the logs hold and committed, or moves on to a later view.
LEMMA LogStepKeeps ==
    ASSUME TypeOK, TypeOK', [Log!Next]_(Log!logVars)
    PROVE  \A i \in Server, s \in Seqs : log[i][s].status # "NIL" => Kept(log[i][s], log'[i][s])
<1> SUFFICES ASSUME NEW i \in Server, NEW s \in Seqs PROVE Kept(log[i][s], log'[i][s])
  OBVIOUS
<1> DEFINE held == [j \in Server |-> [t \in Seqs |-> log[j][t].prePrepare]]
           done == [j \in Server |-> {t \in Seqs : Committed(log[j][t])}]
<1>1. held[i][s] = log[i][s].prePrepare /\ held'[i][s] = log'[i][s].prePrepare
  OBVIOUS
<1>2. (s \in done[i] <=> Committed(log[i][s])) /\ (s \in done'[i] <=> Committed(log'[i][s]))
  OBVIOUS
<1>3. held \in [Server -> [Seqs -> Context]] /\ DOMAIN done = Server
  BY EntryAt
<1>4. CASE UNCHANGED Log!logVars
  <2>1. held' = held /\ done' = done
    BY <1>4 DEF Log!logVars
  <2> QED
    BY <1>1, <1>2, <2>1 DEF Kept
<1>5. ASSUME NEW j \in Server, NEW c, c \in Log!Assignment \/ c \in proposed, Log!Hold(j, c)
      PROVE  Kept(log[i][s], log'[i][s])
  <2>1. /\ held[j][c.seq].view < c.view
        /\ held' = [held EXCEPT ![j][c.seq] = c]
        /\ \/ done' = [done EXCEPT ![j] = @ \ {c.seq}]
           \/ held[j][c.seq].digest = c.digest /\ done' = done
    BY <1>5 DEF Log!Hold
  <2> HIDE DEF held, done
  <2>2. CASE i = j /\ s = c.seq
    <3>1. held'[i][s] = c
      BY <1>3, <2>1, <2>2
    <3> QED
      BY <1>1, <2>1, <2>2, <3>1, EntryAt DEF Kept, Context
  <2>3. CASE ~(i = j /\ s = c.seq)
    <3>1. held'[i][s] = held[i][s]
      BY <1>3, <2>1, <2>3
    <3>2. s \in done[i] => s \in done'[i]
      BY <1>3, <2>1, <2>3
    <3> QED
      BY <1>1, <1>2, <3>1, <3>2 DEF Kept
  <2> QED
    BY <2>2, <2>3
<1>6. ASSUME NEW j \in Server, NEW t \in Seqs, Log!Commit(j, t)
      PROVE  Kept(log[i][s], log'[i][s])
  <2>1. held' = held /\ done' = [done EXCEPT ![j] = @ \cup {t}]
    BY <1>6 DEF Log!Commit
  <2> HIDE DEF held, done
  <2>2. s \in done[i] => s \in done'[i]
    BY <1>3, <2>1
  <2> QED
    BY <1>1, <1>2, <2>1, <2>2 DEF Kept
<1> QED
  BY <1>4, <1>5, <1>6 DEF Log!Next, Log!Assign, Log!Accept

\* What an entry was assigned and whether it is committed is taken back by a later view
\* only, in every step of every handler.
THEOREM OnlyAdvance == Spec => EntriesOnlyAdvance
<1>1. Spec => []TypeOK
  BY TypeCorrect
<1>2. Spec => [][Log!Next]_(Log!logVars)
  BY Refinement, PTL DEF ImplementsLog, Log!Spec
<1>3. TypeOK /\ TypeOK' /\ [Log!Next]_(Log!logVars) =>
         [\A i \in Server, s \in Seqs : log[i][s].status # "NIL" => Kept(log[i][s], log'[i][s])]_vars
  BY LogStepKeeps
<1> QED
  BY <1>1, <1>2, <1>3, PTL DEF EntriesOnlyAdvance
=============================================================================
