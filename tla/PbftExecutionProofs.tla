------------------------- MODULE PbftExecutionProofs -------------------------
(***************************************************************************)
(* Threads that share executePending without a lock still take the numbers *)
(* without a gap and leave nothing behind, and what they do alone is what  *)
(* one step would do: for every number of requests and every interleaving  *)
(* in which no pass outlasts an optimistic timer.                          *)
(***************************************************************************)
EXTENDS PbftExecution, WellFoundedInduction, TLAPS

\* The points at which a thread has marked its entry executed.
Marked == Inside \ {"enter", "look", "mark"}

LEMMA InitInv == Init => ExecutionInv
<1> USE BoundAssumption DEF Seqs, Loop, Thread, Inside
<1> SUFFICES ASSUME Init PROVE ExecutionInv
  OBVIOUS
<1>1. ExecutionTypeOK
  <2>1. -1 \in -1 .. MaxSeq
    OBVIOUS
  <2>2. pc \in [Thread -> Points]
    BY DEF Init, Points
  <2> QED
    BY <2>1, <2>2 DEF Init, ExecutionTypeOK, Status
<1>2. \A t \in Thread : pc[t] \notin Inside
  BY DEF Init
<1>3. \A s \in Seqs : status[s] = "NIL" /\ pc[s] = "unset" /\ s > currentSequence
  BY DEF Init
<1>4. SlotsAreFilled /\ TimersFollowStatus
  BY <1>3 DEF Init, SlotsAreFilled, TimersFollowStatus
<1>5. PassedIsExecuted /\ EntryInHand
  BY <1>2 DEF PassedIsExecuted, EntryInHand
<1>6. LastIsExecuted
  BY DEF Init, LastIsExecuted
<1>7. ExecutedWithoutGap /\ CommittedIsReached
  BY <1>3 DEF ExecutedWithoutGap, CommittedIsReached
<1> QED
  BY <1>1, <1>4, <1>5, <1>6, <1>7 DEF ExecutionInv

LEMMA AssignNumberKeeps ==
  ASSUME ExecutionInv, AssignNumber
  PROVE  ExecutionInv'
<1> USE BoundAssumption DEF Seqs, Loop, Thread, Inside, Points, Status, Goto, shared, locals,
           AssignNumber
<1> USE DEF ExecutionInv
<1>1. ExecutionTypeOK'
  BY DEF ExecutionTypeOK, EntryInHand
<1>2. SlotsAreFilled'
  BY DEF ExecutionTypeOK, SlotsAreFilled, TimersFollowStatus, EntryInHand
<1>3. TimersFollowStatus'
  BY DEF ExecutionTypeOK, SlotsAreFilled, TimersFollowStatus, EntryInHand
<1>4. PassedIsExecuted'
  BY DEF ExecutionTypeOK, SlotsAreFilled, TimersFollowStatus, PassedIsExecuted,
     EntryInHand, LastIsExecuted, ExecutedWithoutGap, Blocked
<1>5. EntryInHand'
  BY DEF ExecutionTypeOK, SlotsAreFilled, TimersFollowStatus, EntryInHand
<1>6. LastIsExecuted'
  BY DEF ExecutionTypeOK, LastIsExecuted, EntryInHand, ExecutedWithoutGap
<1>7. ExecutedWithoutGap'
  BY DEF ExecutionTypeOK, ExecutedWithoutGap, PassedIsExecuted, EntryInHand,
     TimersFollowStatus, Blocked
<1>8. CommittedIsReached'
  BY DEF ExecutionTypeOK, CommittedIsReached, Reaches, SlotsAreFilled,
     TimersFollowStatus, EntryInHand, LastIsExecuted, ExecutedWithoutGap
<1> QED
  BY <1>1, <1>2, <1>3, <1>4, <1>5, <1>6, <1>7, <1>8

LEMMA StoreEntryKeeps ==
  ASSUME ExecutionInv, StoreEntry
  PROVE  ExecutionInv'
<1> USE BoundAssumption DEF Seqs, Loop, Thread, Inside, Points, Status, Goto, shared, locals,
           StoreEntry
<1> USE DEF ExecutionInv
<1>1. ExecutionTypeOK'
  BY DEF ExecutionTypeOK, EntryInHand
<1>2. SlotsAreFilled'
  BY DEF ExecutionTypeOK, SlotsAreFilled, TimersFollowStatus, EntryInHand
<1>3. TimersFollowStatus'
  BY DEF ExecutionTypeOK, SlotsAreFilled, TimersFollowStatus, EntryInHand
<1>4. PassedIsExecuted'
  BY DEF ExecutionTypeOK, SlotsAreFilled, TimersFollowStatus, PassedIsExecuted,
     EntryInHand, LastIsExecuted, ExecutedWithoutGap, Blocked
<1>5. EntryInHand'
  BY DEF ExecutionTypeOK, SlotsAreFilled, TimersFollowStatus, EntryInHand
<1>6. LastIsExecuted'
  <2>1. currentSequence \in Seqs /\ status[currentSequence] = "NIL"
    BY DEF StoreEntry, SlotsAreFilled, ExecutionTypeOK
  <2> QED
    BY <2>1 DEF ExecutionTypeOK, LastIsExecuted
<1>7. ExecutedWithoutGap'
  <2>1. currentSequence \in Seqs /\ status[currentSequence] = "NIL"
    BY DEF StoreEntry, SlotsAreFilled, ExecutionTypeOK
  <2> QED
    BY <2>1 DEF ExecutionTypeOK, ExecutedWithoutGap
<1>8. CommittedIsReached'
  <2>1. currentSequence \in Seqs /\ status[currentSequence] = "NIL"
    BY DEF StoreEntry, SlotsAreFilled, ExecutionTypeOK
  <2> SUFFICES ASSUME NEW s \in Seqs, status'[s] = "COMMITTED",
                      \A t \in Thread : ~Reaches(t, s)'
               PROVE  \E r \in 0 .. s - 1 : status'[r] \notin {"COMMITTED", "EXECUTED"}
    BY DEF CommittedIsReached
  <2>2. status[s] = "COMMITTED"
    BY <2>1 DEF ExecutionTypeOK
  <2>3. \A t \in Thread : ~Reaches(t, s)
    BY DEF Reaches, ExecutionTypeOK
  <2>4. PICK r \in 0 .. s - 1 : status[r] \notin {"COMMITTED", "EXECUTED"}
    BY <2>2, <2>3 DEF CommittedIsReached
  <2> QED
    BY <2>4 DEF ExecutionTypeOK
<1> QED
  BY <1>1, <1>2, <1>3, <1>4, <1>5, <1>6, <1>7, <1>8

LEMMA PrepareKeeps ==
  ASSUME ExecutionInv, Prepare
  PROVE  ExecutionInv'
<1> USE BoundAssumption DEF Seqs, Loop, Thread, Inside, Points, Status, Goto, shared, locals,
           Prepare
<1> USE DEF ExecutionInv
<1>1. ExecutionTypeOK'
  BY DEF ExecutionTypeOK, EntryInHand
<1>2. SlotsAreFilled'
  BY DEF ExecutionTypeOK, SlotsAreFilled, TimersFollowStatus, EntryInHand
<1>3. TimersFollowStatus'
  BY DEF ExecutionTypeOK, SlotsAreFilled, TimersFollowStatus, EntryInHand
<1>4. PassedIsExecuted'
  BY DEF ExecutionTypeOK, SlotsAreFilled, TimersFollowStatus, PassedIsExecuted,
     EntryInHand, LastIsExecuted, ExecutedWithoutGap, Blocked
<1>5. EntryInHand'
  BY DEF ExecutionTypeOK, SlotsAreFilled, TimersFollowStatus, EntryInHand
<1>6. LastIsExecuted'
  BY DEF ExecutionTypeOK, LastIsExecuted, EntryInHand, ExecutedWithoutGap
<1>7. ExecutedWithoutGap'
  BY DEF ExecutionTypeOK, ExecutedWithoutGap, PassedIsExecuted, EntryInHand,
     TimersFollowStatus, Blocked
<1>8. CommittedIsReached'
  <2>1. PICK p \in Seqs :
          /\ status[p] = "PRE_PREPARED"
          /\ status' = [status EXCEPT ![p] = "PREPARED"]
          /\ Goto(p, "asleep")
    OBVIOUS
  <2>2. pc[p] = "unset"
    BY <2>1 DEF TimersFollowStatus
  <2> SUFFICES ASSUME NEW s \in Seqs, status'[s] = "COMMITTED",
                      \A t \in Thread : ~Reaches(t, s)'
               PROVE  \E r \in 0 .. s - 1 : status'[r] \notin {"COMMITTED", "EXECUTED"}
    BY DEF CommittedIsReached
  <2>3. status[s] = "COMMITTED"
    BY <2>1 DEF ExecutionTypeOK
  <2>4. \A t \in Thread : ~Reaches(t, s)
    BY <2>1, <2>2 DEF Reaches, ExecutionTypeOK
  <2>5. PICK r \in 0 .. s - 1 : status[r] \notin {"COMMITTED", "EXECUTED"}
    BY <2>3, <2>4 DEF CommittedIsReached
  <2> QED
    BY <2>1, <2>5 DEF ExecutionTypeOK
<1> QED
  BY <1>1, <1>2, <1>3, <1>4, <1>5, <1>6, <1>7, <1>8

LEMMA SlowCommitKeeps ==
  ASSUME ExecutionInv, SlowCommit
  PROVE  ExecutionInv'
<1> USE BoundAssumption DEF Seqs, Loop, Thread, Inside, Points, Status, Goto, shared, locals,
           SlowCommit, Commit
<1> USE DEF ExecutionInv
<1>1. ExecutionTypeOK'
  BY DEF ExecutionTypeOK, EntryInHand
<1>2. SlotsAreFilled'
  BY DEF ExecutionTypeOK, SlotsAreFilled, TimersFollowStatus, EntryInHand
<1>3. TimersFollowStatus'
  BY DEF ExecutionTypeOK, SlotsAreFilled, TimersFollowStatus, EntryInHand
<1>4. PassedIsExecuted'
  BY DEF ExecutionTypeOK, SlotsAreFilled, TimersFollowStatus, PassedIsExecuted,
     EntryInHand, LastIsExecuted, ExecutedWithoutGap, Blocked
<1>5. EntryInHand'
  BY DEF ExecutionTypeOK, SlotsAreFilled, TimersFollowStatus, EntryInHand
<1>6. LastIsExecuted'
  BY DEF ExecutionTypeOK, LastIsExecuted, EntryInHand, ExecutedWithoutGap
<1>7. ExecutedWithoutGap'
  BY DEF ExecutionTypeOK, ExecutedWithoutGap, PassedIsExecuted, EntryInHand,
     TimersFollowStatus, Blocked
<1>8. CommittedIsReached'
  BY DEF ExecutionTypeOK, CommittedIsReached, Reaches, SlotsAreFilled,
     TimersFollowStatus, EntryInHand, LastIsExecuted, ExecutedWithoutGap
<1> QED
  BY <1>1, <1>2, <1>3, <1>4, <1>5, <1>6, <1>7, <1>8

LEMMA FastCommitKeeps ==
  ASSUME ExecutionInv, NEW p \in Seqs, FastCommit(p)
  PROVE  ExecutionInv'
<1> USE BoundAssumption DEF Seqs, Loop, Thread, Inside, Points, Status, Goto, shared, locals,
           FastCommit, Awake, Commit
<1> USE DEF ExecutionInv
<1>1. ExecutionTypeOK'
  BY DEF ExecutionTypeOK, EntryInHand
<1>2. SlotsAreFilled'
  BY DEF ExecutionTypeOK, SlotsAreFilled, TimersFollowStatus, EntryInHand
<1>3. TimersFollowStatus'
  BY DEF ExecutionTypeOK, SlotsAreFilled, TimersFollowStatus, EntryInHand
<1>4. PassedIsExecuted'
  BY DEF ExecutionTypeOK, SlotsAreFilled, TimersFollowStatus, PassedIsExecuted,
     EntryInHand, LastIsExecuted, ExecutedWithoutGap, Blocked
<1>5. EntryInHand'
  BY DEF ExecutionTypeOK, SlotsAreFilled, TimersFollowStatus, EntryInHand
<1>6. LastIsExecuted'
  <2>1. status[p] = "PREPARED"
    BY DEF TimersFollowStatus
  <2> QED
    BY <2>1 DEF ExecutionTypeOK, LastIsExecuted
<1>7. ExecutedWithoutGap'
  BY DEF ExecutionTypeOK, ExecutedWithoutGap, PassedIsExecuted, EntryInHand,
     TimersFollowStatus, Blocked
<1>8. CommittedIsReached'
  BY DEF ExecutionTypeOK, CommittedIsReached, Reaches, SlotsAreFilled,
     TimersFollowStatus, EntryInHand, LastIsExecuted, ExecutedWithoutGap
<1> QED
  BY <1>1, <1>2, <1>3, <1>4, <1>5, <1>6, <1>7, <1>8

LEMMA SlowPrepareKeeps ==
  ASSUME ExecutionInv, NEW p \in Seqs, SlowPrepare(p)
  PROVE  ExecutionInv'
<1> USE BoundAssumption DEF Seqs, Loop, Thread, Inside, Points, Status, Goto, shared, locals,
           SlowPrepare, Awake
<1> USE DEF ExecutionInv
<1>1. ExecutionTypeOK'
  BY DEF ExecutionTypeOK, EntryInHand
<1>2. SlotsAreFilled'
  BY DEF ExecutionTypeOK, SlotsAreFilled, TimersFollowStatus, EntryInHand
<1>3. TimersFollowStatus'
  BY DEF ExecutionTypeOK, SlotsAreFilled, TimersFollowStatus, EntryInHand
<1>4. PassedIsExecuted'
  BY DEF ExecutionTypeOK, SlotsAreFilled, TimersFollowStatus, PassedIsExecuted,
     EntryInHand, LastIsExecuted, ExecutedWithoutGap, Blocked
<1>5. EntryInHand'
  BY DEF ExecutionTypeOK, SlotsAreFilled, TimersFollowStatus, EntryInHand
<1>6. LastIsExecuted'
  BY DEF ExecutionTypeOK, LastIsExecuted, EntryInHand, ExecutedWithoutGap
<1>7. ExecutedWithoutGap'
  BY DEF ExecutionTypeOK, ExecutedWithoutGap, PassedIsExecuted, EntryInHand,
     TimersFollowStatus, Blocked
<1>8. CommittedIsReached'
  BY DEF ExecutionTypeOK, CommittedIsReached, Reaches, SlotsAreFilled,
     TimersFollowStatus, EntryInHand, LastIsExecuted, ExecutedWithoutGap
<1> QED
  BY <1>1, <1>2, <1>3, <1>4, <1>5, <1>6, <1>7, <1>8

LEMMA MarkedKeeps ==
  ASSUME ExecutionInv, NEW u \in Thread, pc[u] \in Marked,
         NEW point \in Marked, Goto(u, point),
         UNCHANGED <<currentSequence, lastExecuted, status, asked, seq, before>>
  PROVE  ExecutionInv'
<1> USE BoundAssumption DEF Seqs, Loop, Thread, Inside, Points, Status, Goto, shared, locals,
           Marked
<1> USE DEF ExecutionInv
<1>1. ExecutionTypeOK'
  BY DEF ExecutionTypeOK, EntryInHand
<1>2. SlotsAreFilled'
  BY DEF ExecutionTypeOK, SlotsAreFilled, TimersFollowStatus, EntryInHand
<1>3. TimersFollowStatus'
  BY DEF ExecutionTypeOK, SlotsAreFilled, TimersFollowStatus, EntryInHand
<1>4. PassedIsExecuted'
  BY DEF ExecutionTypeOK, SlotsAreFilled, TimersFollowStatus, PassedIsExecuted,
     EntryInHand, LastIsExecuted, ExecutedWithoutGap, Blocked
<1>5. EntryInHand'
  BY DEF ExecutionTypeOK, SlotsAreFilled, TimersFollowStatus, EntryInHand
<1>6. LastIsExecuted'
  BY DEF ExecutionTypeOK, LastIsExecuted, EntryInHand, ExecutedWithoutGap
<1>7. ExecutedWithoutGap'
  BY DEF ExecutionTypeOK, ExecutedWithoutGap, PassedIsExecuted, EntryInHand,
     TimersFollowStatus, Blocked
<1>8. CommittedIsReached'
  BY DEF ExecutionTypeOK, CommittedIsReached, Reaches, SlotsAreFilled,
     TimersFollowStatus, EntryInHand, LastIsExecuted, ExecutedWithoutGap
<1> QED
  BY <1>1, <1>2, <1>3, <1>4, <1>5, <1>6, <1>7, <1>8

LEMMA EnterKeeps ==
  ASSUME ExecutionInv, NEW u \in Thread, Enter(u)
  PROVE  ExecutionInv'
<1> USE BoundAssumption DEF Seqs, Loop, Thread, Inside, Points, Status, Goto, shared, locals,
           Enter
<1> USE DEF ExecutionInv
<1>1. ExecutionTypeOK'
  BY DEF ExecutionTypeOK, EntryInHand
<1>2. SlotsAreFilled'
  BY DEF ExecutionTypeOK, SlotsAreFilled, TimersFollowStatus, EntryInHand
<1>3. TimersFollowStatus'
  BY DEF ExecutionTypeOK, SlotsAreFilled, TimersFollowStatus, EntryInHand
<1>4. PassedIsExecuted'
  BY DEF ExecutionTypeOK, SlotsAreFilled, TimersFollowStatus, PassedIsExecuted,
     EntryInHand, LastIsExecuted, ExecutedWithoutGap, Blocked
<1>5. EntryInHand'
  BY DEF ExecutionTypeOK, SlotsAreFilled, TimersFollowStatus, EntryInHand
<1>6. LastIsExecuted'
  BY DEF ExecutionTypeOK, LastIsExecuted, EntryInHand, ExecutedWithoutGap
<1>7. ExecutedWithoutGap'
  BY DEF ExecutionTypeOK, ExecutedWithoutGap, PassedIsExecuted, EntryInHand,
     TimersFollowStatus, Blocked
<1>8. CommittedIsReached'
  BY DEF ExecutionTypeOK, CommittedIsReached, Reaches, SlotsAreFilled,
     TimersFollowStatus, EntryInHand, LastIsExecuted, ExecutedWithoutGap
<1> QED
  BY <1>1, <1>2, <1>3, <1>4, <1>5, <1>6, <1>7, <1>8

LEMMA LeaveKeeps ==
  ASSUME ExecutionInv, NEW u \in Thread, pc[u] = "look",
         InRange(seq[u]) => Stops(seq[u]), Leave(u), UNCHANGED <<shared, seq>>
  PROVE  ExecutionInv'
<1> USE BoundAssumption DEF Seqs, Loop, Thread, Inside, Points, Status, Goto, shared, locals,
           Leave, Stops, InRange
<1> USE DEF ExecutionInv
<1>1. ExecutionTypeOK'
  BY DEF ExecutionTypeOK, EntryInHand
<1>2. SlotsAreFilled'
  BY DEF ExecutionTypeOK, SlotsAreFilled, TimersFollowStatus, EntryInHand
<1>3. TimersFollowStatus'
  BY DEF ExecutionTypeOK, SlotsAreFilled, TimersFollowStatus, EntryInHand
<1>4. PassedIsExecuted'
  BY SMTT(30) DEF ExecutionTypeOK, SlotsAreFilled, TimersFollowStatus,
     PassedIsExecuted, EntryInHand, LastIsExecuted, ExecutedWithoutGap, Blocked
<1>5. EntryInHand'
  BY DEF ExecutionTypeOK, SlotsAreFilled, TimersFollowStatus, EntryInHand
<1>6. LastIsExecuted'
  BY DEF ExecutionTypeOK, LastIsExecuted, EntryInHand, ExecutedWithoutGap
<1>7. ExecutedWithoutGap'
  BY DEF ExecutionTypeOK, ExecutedWithoutGap, PassedIsExecuted, EntryInHand,
     TimersFollowStatus, Blocked
<1>8. CommittedIsReached'
  <2> SUFFICES ASSUME NEW s \in Seqs, status[s] = "COMMITTED",
                      \A t \in Thread : ~Reaches(t, s)'
               PROVE  \E r \in 0 .. s - 1 : status[r] \notin {"COMMITTED", "EXECUTED"}
    BY DEF CommittedIsReached
  <2>1. CASE \E t \in Thread : Reaches(t, s)
    <3>1. Reaches(u, s)
      BY <2>1 DEF Reaches, ExecutionTypeOK
    <3>2. seq[u] \in Nat /\ seq[u] <= s /\ s <= currentSequence
      BY <3>1 DEF Reaches, SlotsAreFilled, ExecutionTypeOK
    <3>3. status[seq[u]] \in {"PRE_PREPARED", "PREPARED"}
      BY <3>2 DEF ExecutionTypeOK
    <3> QED
      BY <3>2, <3>3
  <2>2. CASE \A t \in Thread : ~Reaches(t, s)
    BY <2>2 DEF CommittedIsReached
  <2> QED
    BY <2>1, <2>2
<1> QED
  BY <1>1, <1>2, <1>3, <1>4, <1>5, <1>6, <1>7, <1>8

LEMMA PassKeeps ==
  ASSUME ExecutionInv, NEW u \in Thread, pc[u] = "look",
         InRange(seq[u]), Passes(seq[u]), seq' = [seq EXCEPT ![u] = @ + 1], UNCHANGED <<shared, pc, before>>
  PROVE  ExecutionInv'
<1> USE BoundAssumption DEF Seqs, Loop, Thread, Inside, Points, Status, Goto, shared, locals,
           Passes, InRange
<1> USE DEF ExecutionInv
<1>1. ExecutionTypeOK'
  BY DEF ExecutionTypeOK, EntryInHand
<1>2. SlotsAreFilled'
  BY DEF ExecutionTypeOK, SlotsAreFilled, TimersFollowStatus, EntryInHand
<1>3. TimersFollowStatus'
  BY DEF ExecutionTypeOK, SlotsAreFilled, TimersFollowStatus, EntryInHand
<1>4. PassedIsExecuted'
  <2>1. seq[u] \in Seqs
    BY DEF ExecutionTypeOK
  <2>2. status[seq[u]] = "EXECUTED" \/ \A s \in seq[u] .. MaxSeq : Blocked(u, s)
    BY <2>1 DEF SlotsAreFilled, Blocked, ExecutionTypeOK
  <2>3. \A t \in Thread, s \in Seqs : Blocked(t, s)' <=> Blocked(t, s)
    BY DEF Blocked
  <2>4. ASSUME NEW t \in Thread, pc[t] \in Inside \ {"enter"},
               NEW r \in Seqs, r < seq'[t]
        PROVE  status[r] = "EXECUTED" \/ \A s \in r .. MaxSeq : Blocked(t, s)
    <3>1. CASE t = u /\ r = seq[u]
      BY <3>1, <2>2
    <3>2. CASE ~(t = u /\ r = seq[u])
      <4>1. r < seq[t]
        BY <2>4, <3>2 DEF ExecutionTypeOK
      <4> QED
        BY <4>1, <2>4 DEF PassedIsExecuted
    <3> QED
      BY <3>1, <3>2
  <2> QED
    BY <2>3, <2>4 DEF PassedIsExecuted
<1>5. EntryInHand'
  BY DEF ExecutionTypeOK, SlotsAreFilled, TimersFollowStatus, EntryInHand
<1>6. LastIsExecuted'
  BY DEF ExecutionTypeOK, LastIsExecuted, EntryInHand, ExecutedWithoutGap
<1>7. ExecutedWithoutGap'
  BY DEF ExecutionTypeOK, ExecutedWithoutGap, PassedIsExecuted, EntryInHand,
     TimersFollowStatus, Blocked
<1>8. CommittedIsReached'
  <2> SUFFICES ASSUME NEW s \in Seqs, status[s] = "COMMITTED",
                      \A t \in Thread : ~Reaches(t, s)'
               PROVE  \E r \in 0 .. s - 1 : status[r] \notin {"COMMITTED", "EXECUTED"}
    BY DEF CommittedIsReached
  <2>1. ASSUME NEW t \in Thread PROVE ~Reaches(t, s)
    BY <2>1 DEF Reaches, ExecutionTypeOK
  <2> QED
    BY <2>1 DEF CommittedIsReached
<1> QED
  BY <1>1, <1>2, <1>3, <1>4, <1>5, <1>6, <1>7, <1>8

LEMMA FindKeeps ==
  ASSUME ExecutionInv, NEW u \in Thread, pc[u] = "look",
         InRange(seq[u]), status[seq[u]] = "COMMITTED", Goto(u, "mark"), UNCHANGED <<shared, seq, before>>
  PROVE  ExecutionInv'
<1> USE BoundAssumption DEF Seqs, Loop, Thread, Inside, Points, Status, Goto, shared, locals,
           InRange
<1> USE DEF ExecutionInv
<1>1. ExecutionTypeOK'
  BY DEF ExecutionTypeOK, EntryInHand
<1>2. SlotsAreFilled'
  BY DEF ExecutionTypeOK, SlotsAreFilled, TimersFollowStatus, EntryInHand
<1>3. TimersFollowStatus'
  BY DEF ExecutionTypeOK, SlotsAreFilled, TimersFollowStatus, EntryInHand
<1>4. PassedIsExecuted'
  BY SMTT(30) DEF ExecutionTypeOK, SlotsAreFilled, TimersFollowStatus,
     PassedIsExecuted, EntryInHand, LastIsExecuted, ExecutedWithoutGap, Blocked
<1>5. EntryInHand'
  BY DEF ExecutionTypeOK, SlotsAreFilled, TimersFollowStatus, EntryInHand
<1>6. LastIsExecuted'
  BY DEF ExecutionTypeOK, LastIsExecuted, EntryInHand, ExecutedWithoutGap
<1>7. ExecutedWithoutGap'
  BY DEF ExecutionTypeOK, ExecutedWithoutGap, PassedIsExecuted, EntryInHand,
     TimersFollowStatus, Blocked
<1>8. CommittedIsReached'
  BY DEF ExecutionTypeOK, CommittedIsReached, Reaches, SlotsAreFilled,
     TimersFollowStatus, EntryInHand, LastIsExecuted, ExecutedWithoutGap
<1> QED
  BY <1>1, <1>2, <1>3, <1>4, <1>5, <1>6, <1>7, <1>8

LEMMA MarkKeeps ==
  ASSUME ExecutionInv, NEW u \in Thread, Mark(u)
  PROVE  ExecutionInv'
<1> USE BoundAssumption DEF Seqs, Loop, Thread, Inside, Points, Status, Goto, shared, locals,
           Mark
<1> USE DEF ExecutionInv
<1>1. ExecutionTypeOK'
  BY DEF ExecutionTypeOK, EntryInHand
<1>2. SlotsAreFilled'
  BY DEF ExecutionTypeOK, SlotsAreFilled, TimersFollowStatus, EntryInHand
<1>3. TimersFollowStatus'
  BY DEF ExecutionTypeOK, SlotsAreFilled, TimersFollowStatus, EntryInHand
<1>4. PassedIsExecuted'
  BY DEF ExecutionTypeOK, SlotsAreFilled, TimersFollowStatus, PassedIsExecuted,
     EntryInHand, LastIsExecuted, ExecutedWithoutGap, Blocked
<1>5. EntryInHand'
  BY DEF ExecutionTypeOK, SlotsAreFilled, TimersFollowStatus, EntryInHand
<1>6. LastIsExecuted'
  BY DEF ExecutionTypeOK, LastIsExecuted, EntryInHand, ExecutedWithoutGap
<1>7. ExecutedWithoutGap'
  <2>1. seq[u] \in Seqs /\ status[seq[u]] \in {"COMMITTED", "EXECUTED"}
    BY DEF EntryInHand
  <2>2. ~Blocked(u, seq[u])
    BY <2>1 DEF Blocked, TimersFollowStatus
  <2>3. \A r \in Seqs : r < seq[u] => status[r] = "EXECUTED"
    BY <2>1, <2>2 DEF PassedIsExecuted
  <2> QED
    BY <2>1, <2>3 DEF ExecutedWithoutGap, ExecutionTypeOK
<1>8. CommittedIsReached'
  <2>1. seq[u] \in Seqs /\ status[seq[u]] \in {"COMMITTED", "EXECUTED"}
    BY DEF EntryInHand
  <2> SUFFICES ASSUME NEW s \in Seqs, status'[s] = "COMMITTED",
                      \A t \in Thread : ~Reaches(t, s)'
               PROVE  \E r \in 0 .. s - 1 : status'[r] \notin {"COMMITTED", "EXECUTED"}
    BY DEF CommittedIsReached
  <2>2. status[s] = "COMMITTED"
    BY <2>1 DEF ExecutionTypeOK
  <2>3. \A t \in Thread : ~Reaches(t, s)
    BY DEF Reaches, ExecutionTypeOK
  <2>4. PICK r \in 0 .. s - 1 : status[r] \notin {"COMMITTED", "EXECUTED"}
    BY <2>2, <2>3 DEF CommittedIsReached
  <2> QED
    BY <2>1, <2>4 DEF ExecutionTypeOK
<1> QED
  BY <1>1, <1>2, <1>3, <1>4, <1>5, <1>6, <1>7, <1>8

LEMMA FinishKeeps ==
  ASSUME ExecutionInv, NEW u \in Thread, Finish(u)
  PROVE  ExecutionInv'
<1> USE BoundAssumption DEF Seqs, Loop, Thread, Inside, Points, Status, Goto, shared, locals,
           Finish
<1> USE DEF ExecutionInv
<1>1. ExecutionTypeOK'
  BY DEF ExecutionTypeOK, EntryInHand
<1>2. SlotsAreFilled'
  BY DEF ExecutionTypeOK, SlotsAreFilled, TimersFollowStatus, EntryInHand
<1>3. TimersFollowStatus'
  BY DEF ExecutionTypeOK, SlotsAreFilled, TimersFollowStatus, EntryInHand
<1>4. PassedIsExecuted'
  BY DEF ExecutionTypeOK, SlotsAreFilled, TimersFollowStatus, PassedIsExecuted,
     EntryInHand, LastIsExecuted, ExecutedWithoutGap, Blocked
<1>5. EntryInHand'
  BY DEF ExecutionTypeOK, SlotsAreFilled, TimersFollowStatus, EntryInHand
<1>6. LastIsExecuted'
  <2>1. seq[u] \in Seqs /\ status[seq[u]] = "EXECUTED"
    BY DEF EntryInHand
  <2>2. \A r \in 0 .. seq[u] - 1 : status[r] = "EXECUTED"
    BY <2>1 DEF ExecutedWithoutGap
  <2> QED
    BY <2>1, <2>2 DEF LastIsExecuted, ExecutionTypeOK
<1>7. ExecutedWithoutGap'
  BY DEF ExecutionTypeOK, ExecutedWithoutGap, PassedIsExecuted, EntryInHand,
     TimersFollowStatus, Blocked
<1>8. CommittedIsReached'
  BY DEF ExecutionTypeOK, CommittedIsReached, Reaches, SlotsAreFilled,
     TimersFollowStatus, EntryInHand, LastIsExecuted, ExecutedWithoutGap
<1> QED
  BY <1>1, <1>2, <1>3, <1>4, <1>5, <1>6, <1>7, <1>8

LEMMA ContinueKeeps ==
  ASSUME ExecutionInv, NEW u \in Thread, Continue(u)
  PROVE  ExecutionInv'
<1> USE BoundAssumption DEF Seqs, Loop, Thread, Inside, Points, Status, Goto, shared, locals,
           Continue
<1> USE DEF ExecutionInv
<1>1. ExecutionTypeOK'
  BY SMTT(30) DEF ExecutionTypeOK, EntryInHand
<1>2. SlotsAreFilled'
  BY DEF ExecutionTypeOK, SlotsAreFilled, TimersFollowStatus, EntryInHand
<1>3. TimersFollowStatus'
  BY DEF ExecutionTypeOK, SlotsAreFilled, TimersFollowStatus, EntryInHand
<1>4. PassedIsExecuted'
  <2>1. seq[u] \in Seqs /\ status[seq[u]] = "EXECUTED"
    BY DEF EntryInHand
  <2>2. \A r \in 0 .. seq[u] - 1 : status[r] = "EXECUTED"
    BY <2>1 DEF ExecutedWithoutGap
  <2>3. \A t \in Thread, s \in Seqs : Blocked(t, s)' <=> Blocked(t, s)
    BY DEF Blocked, ExecutionTypeOK
  <2>4. ASSUME NEW t \in Thread, pc'[t] \in Inside \ {"enter"},
               NEW r \in Seqs, r < seq'[t]
        PROVE  status'[r] = "EXECUTED" \/ \A s \in r .. MaxSeq : Blocked(t, s)'
    <3>1. CASE t = u
      BY <2>1, <2>2, <2>4, <3>1 DEF ExecutionTypeOK
    <3>2. CASE t # u
      <4>1. pc[t] \in Inside \ {"enter"} /\ r < seq[t]
        BY <2>4, <3>2 DEF ExecutionTypeOK
      <4> QED
        BY <4>1, <2>3 DEF PassedIsExecuted
    <3> QED
      BY <3>1, <3>2
  <2> QED
    BY <2>4 DEF PassedIsExecuted
<1>5. EntryInHand'
  BY DEF ExecutionTypeOK, SlotsAreFilled, TimersFollowStatus, EntryInHand
<1>6. LastIsExecuted'
  BY SMTT(30) DEF ExecutionTypeOK, LastIsExecuted, EntryInHand, ExecutedWithoutGap
<1>7. ExecutedWithoutGap'
  BY DEF ExecutionTypeOK, ExecutedWithoutGap, PassedIsExecuted, EntryInHand,
     TimersFollowStatus, Blocked
<1>8. CommittedIsReached'
  BY DEF ExecutionTypeOK, CommittedIsReached, Reaches, SlotsAreFilled,
     TimersFollowStatus, EntryInHand, LastIsExecuted, ExecutedWithoutGap
<1> QED
  BY <1>1, <1>2, <1>3, <1>4, <1>5, <1>6, <1>7, <1>8

----------------------------------------------------------------------------

LEMMA StepKeepsInv == ExecutionInv /\ [Next]_vars => ExecutionInv'
<1> SUFFICES ASSUME ExecutionInv, [Next]_vars PROVE ExecutionInv'
  OBVIOUS
<1>1. CASE AssignNumber \/ StoreEntry \/ Prepare \/ SlowCommit
  BY <1>1, AssignNumberKeeps, StoreEntryKeeps, PrepareKeeps, SlowCommitKeeps
<1>2. ASSUME NEW p \in Seqs, Timer(p) PROVE ExecutionInv'
  BY <1>2, FastCommitKeeps, SlowPrepareKeeps DEF Timer
<1>3. ASSUME NEW u \in Thread, ExecutePending(u) PROVE ExecutionInv'
  <2>1. CASE Enter(u) \/ Mark(u) \/ Finish(u) \/ Continue(u)
    BY <2>1, EnterKeeps, MarkKeeps, FinishKeeps, ContinueKeeps
  <2>2. CASE Look(u)
    BY <2>2, LeaveKeeps, PassKeeps, FindKeeps DEF Look
  <2>3. CASE Check(u) \/ Debit(u) \/ Credit(u) \/ Checkpoint(u)
    <3>1. /\ pc[u] \in Marked
          /\ \E point \in Marked : Goto(u, point)
          /\ UNCHANGED <<currentSequence, lastExecuted, status, asked, seq, before>>
      BY <2>3 DEF Check, Debit, Credit, Checkpoint, Load, Store, Marked, Inside, shared
    <3> QED
      BY <3>1, MarkedKeeps
  <2> QED
    BY <1>3, <2>1, <2>2, <2>3 DEF ExecutePending
<1>4. CASE UNCHANGED vars
  BY <1>4 DEF vars, shared, locals, ExecutionInv, ExecutionTypeOK, SlotsAreFilled,
     TimersFollowStatus, PassedIsExecuted, Blocked, EntryInHand, LastIsExecuted,
     ExecutedWithoutGap, CommittedIsReached, Reaches
<1> QED
  BY <1>1, <1>2, <1>3, <1>4 DEF Next

THEOREM ExecutionInvariant == Spec => []ExecutionInv
  BY InitInv, StepKeepsInv, PTL DEF Spec

\* However many timers fire together, numbers are marked executed without a gap
\* (executePending, cc:1133-1166, entered by the event loop and by timer threads).
THEOREM WithoutGap == Spec => []ExecutedWithoutGap
<1>1. ExecutionInv => ExecutedWithoutGap
  BY DEF ExecutionInv
<1> QED
  BY <1>1, ExecutionInvariant, PTL

\* No thread leaves executePending with a committed number that it, or another
\* thread that is still inside, should have executed.
THEOREM LeavesNothing == Spec => []NothingLeftBehind
<1>1. ExecutionInv => NothingLeftBehind
  BY DEF ExecutionInv, CommittedIsReached, NothingLeftBehind, AtRest, Reaches, Inside
<1> QED
  BY <1>1, ExecutionInvariant, PTL

----------------------------------------------------------------------------
(* What the transfers leave that are taken one after the other: Sequential is  *)
(* defined for every number, by the one before it.                             *)

Opening == [a \in Account |-> InitialBalance]

\* f is the history of the accounts before transfer n.
Takes(f, n) == f = [k \in -1 .. n - 1 |->
    IF k = -1 THEN Opening ELSE Settled(f[k - 1], Request[k])]

\* Induction over the numbers goes by the least one.
LEMMA NaturalsAreWellOrdered ==
    ASSUME NEW S \in SUBSET Nat, S # {}
    PROVE  \E m \in S : \A k \in S : m <= k
<1> DEFINE R == OpToRel(<, Nat)
<1>1. IsWellFoundedOn(R, Nat)
  BY NatLessThanWellFounded
<1>2. \A m, k \in Nat : k < m => <<k, m>> \in R
  BY DEF OpToRel
<1> HIDE DEF R
<1>3. PICK m \in S : \A k \in S : ~(<<k, m>> \in R)
  BY <1>1, WFMin
<1>4. ASSUME NEW k \in S PROVE m <= k
  <2>1. m \in Nat /\ k \in Nat /\ ~(k < m)
    BY <1>2, <1>3
  <2> QED
    BY <2>1
<1> QED
  BY <1>4

LEMMA TakesOneMore ==
    ASSUME NEW n \in Nat, NEW f, Takes(f, n)
    PROVE  \E g : Takes(g, n + 1)
<1> DEFINE g == [k \in -1 .. n |-> IF k = -1 THEN Opening
                                 ELSE Settled(f[k - 1], Request[k])]
<1>1. \A k \in -1 .. n - 1 : g[k] = f[k]
  BY DEF Takes
<1>2. ASSUME NEW k \in -1 .. n, k # -1 PROVE g[k - 1] = f[k - 1]
  <2>1. k - 1 \in -1 .. n - 1
    BY <1>2
  <2> HIDE DEF g
  <2> QED
    BY <1>1, <2>1
<1>3. g = [k \in -1 .. n |-> IF k = -1 THEN Opening ELSE Settled(g[k - 1], Request[k])]
  BY <1>2
<1>4. (n + 1) - 1 = n
  OBVIOUS
<1>5. Takes(g, n + 1)
  BY <1>3, <1>4 DEF Takes
<1> QED
  BY <1>5

LEMMA TakesAll == \A n \in Nat : \E f : Takes(f, n)
<1> DEFINE S == {n \in Nat : ~ \E f : Takes(f, n)}
<1> SUFFICES ASSUME S # {} PROVE FALSE
  OBVIOUS
<1>1. PICK m \in S : \A k \in S : m <= k
  BY NaturalsAreWellOrdered
<1>2. CASE m = 0
  <2>1. Takes([k \in -1 .. -1 |-> Opening], 0)
    BY DEF Takes
  <2> QED
    BY <1>2, <2>1
<1>3. CASE m # 0
  <2>1. m - 1 \in Nat /\ m - 1 \notin S
    BY <1>1, <1>3
  <2>2. PICK f : Takes(f, m - 1)
    BY <2>1
  <2>3. \E g : Takes(g, (m - 1) + 1)
    BY <2>1, <2>2, TakesOneMore
  <2>4. (m - 1) + 1 = m
    BY <1>1
  <2> QED
    BY <2>3, <2>4
<1> QED
  BY <1>2, <1>3

\* The recursive definition defines.
LEMMA SequentialTakes == Takes(Sequential, MaxSeq + 1)
<1>1. MaxSeq + 1 \in Nat /\ (MaxSeq + 1) - 1 = MaxSeq
  BY BoundAssumption
<1>2. PICK f : Takes(f, MaxSeq + 1)
  BY <1>1, TakesAll
<1>3. Takes(f, MaxSeq + 1) <=> f = [n \in -1 .. MaxSeq |->
        IF n = -1 THEN [a \in Account |-> InitialBalance]
        ELSE Settled(f[n - 1], Request[n])]
  BY <1>1 DEF Takes, Opening
<1>4. Sequential = [n \in -1 .. MaxSeq |->
        IF n = -1 THEN [a \in Account |-> InitialBalance]
        ELSE Settled(Sequential[n - 1], Request[n])]
  BY <1>2, <1>3 DEF Sequential
<1> QED
  BY <1>1, <1>4 DEF Takes, Opening

LEMMA SequentialSteps ==
    /\ Sequential[-1] = [a \in Account |-> InitialBalance]
    /\ \A n \in Seqs : Sequential[n] = Settled(Sequential[n - 1], Request[n])
<1>1. MaxSeq \in Nat /\ (MaxSeq + 1) - 1 = MaxSeq
  BY BoundAssumption
<1>2. Sequential = [n \in -1 .. MaxSeq |-> IF n = -1 THEN Opening
                                          ELSE Settled(Sequential[n - 1], Request[n])]
  BY <1>1, SequentialTakes DEF Takes
<1> DEFINE Value(n) == IF n = -1 THEN Opening ELSE Settled(Sequential[n - 1], Request[n])
<1> HIDE DEF Value
<1>3. \A n \in -1 .. MaxSeq : Sequential[n] = Value(n)
  BY <1>2 DEF Value
<1>4. -1 \in -1 .. MaxSeq /\ \A n \in Seqs : n \in -1 .. MaxSeq /\ n # -1
  BY <1>1 DEF Seqs
<1> QED
  BY <1>3, <1>4 DEF Value, Opening

LEMMA SequentialType == \A n \in -1 .. MaxSeq : Sequential[n] \in [Account -> Int]
<1> DEFINE S == {n \in Nat : n <= MaxSeq + 1 /\ Sequential[n - 1] \notin [Account -> Int]}
<1>1. ASSUME S # {} PROVE FALSE
  <2>1. PICK m \in S : \A k \in S : m <= k
    BY <1>1, NaturalsAreWellOrdered
  <2>2. m \in Nat /\ m <= MaxSeq + 1 /\ MaxSeq \in Nat /\ Sequential[m - 1] \notin [Account -> Int]
    BY <2>1, BoundAssumption
  <2>3. m # 0
    <3>1. [a \in Account |-> InitialBalance] \in [Account -> Int]
      BY RequestAssumption
    <3>2. Sequential[-1] \in [Account -> Int]
      BY <3>1, SequentialSteps
    <3> QED
      BY <2>2, <3>2
  <2>4. m - 1 \in Seqs /\ m - 1 \in Nat /\ (m - 1) - 1 = m - 2
    BY <2>2, <2>3 DEF Seqs
  <2>5. m - 1 \notin S
    BY <2>1, <2>2
  <2>6. Sequential[m - 2] \in [Account -> Int]
    BY <2>2, <2>4, <2>5
  <2> DEFINE b == Sequential[m - 2]
             r == Request[m - 1]
  <2>7. Sequential[m - 1] = Settled(b, r)
    BY <2>4, SequentialSteps
  <2>8. r.amount \in Int
    BY <2>4, RequestAssumption
  <2> HIDE DEF b, r
  <2>9. Settled(b, r) \in [Account -> Int]
    <3>2. b \in [Account -> Int]
      BY <2>6 DEF b
    <3>3. CASE r.sender \in Account /\ r.receiver \in Account
      BY <2>8, <3>2, <3>3 DEF Settled, Debited, Credited
    <3>4. r.sender \in Account /\ r.receiver \in Account
      BY <2>4 DEF r, Account
    <3> QED
      BY <3>3, <3>4
  <2> QED
    BY <2>2, <2>7, <2>9
<1> SUFFICES ASSUME NEW n \in -1 .. MaxSeq PROVE Sequential[n] \in [Account -> Int]
  OBVIOUS
<1>2. n + 1 \in Nat /\ n + 1 <= MaxSeq + 1 /\ (n + 1) - 1 = n
  BY BoundAssumption
<1> QED
  BY <1>1, <1>2

\* A transfer as its two halves.
LEMMA TransferFacts ==
    ASSUME NEW b \in [Account -> Int], NEW s \in Seqs
    PROVE  LET r == Request[s]
           IN  /\ r.sender \in Account /\ r.receiver \in Account /\ r.amount \in Int
               /\ b[r.sender] >= r.amount => Settled(b, r) = Credited(Debited(b, r), r)
               /\ ~(b[r.sender] >= r.amount) => Settled(b, r) = b
               /\ Debited(b, r) \in [Account -> Int]
<1> DEFINE r == Request[s]
<1>1. r.sender \in Account /\ r.receiver \in Account /\ r.amount \in Int
  BY RequestAssumption DEF Account
<1> HIDE DEF r
<1>2. b[r.sender] \in Int
  BY <1>1
<1>3. /\ ~(b[r.sender] >= r.amount) => Settled(b, r) = b
      /\ b[r.sender] >= r.amount => Settled(b, r) = Credited(Debited(b, r), r)
  BY <1>1, <1>2 DEF Settled
<1>4. Debited(b, r) \in [Account -> Int]
  BY <1>1, <1>2 DEF Debited
<1> QED
  BY <1>1, <1>3, <1>4 DEF r

----------------------------------------------------------------------------
(* One thread at a time.  While no two threads were in executePending at once, *)
(* the accounts are at a known point of the transfer that is being executed.   *)

Active == Inside \ {"enter"}
InHand == {"check", "debit", "debited", "credit", "credited", "finish"}

\* Nothing was executed beyond the last number but what thread t has in hand, which
\* follows it.
InTurn(t) ==
    /\ \A s \in Seqs : status[s] = "EXECUTED" =>
           s <= lastExecuted \/ (pc[t] \in InHand /\ seq[t] = s)
    /\ pc[t] = "look" => seq[t] > lastExecuted
    /\ pc[t] \in InHand \cup {"mark"} => seq[t] = lastExecuted + 1
    /\ pc[t] \in {"checkpoint", "next"} => seq[t] = lastExecuted

\* What the accounts hold at each point of thread t.
Halfway(t) ==
    LET b == Sequential[lastExecuted]
        r == Current(t)
    IN  /\ pc[t] \in Active \ {"credit", "credited", "finish"} => balances = b
        /\ pc[t] \in {"debit", "debited", "credit", "credited"} => b[r.sender] >= r.amount
        /\ pc[t] = "debited" => loaded[t] = b[r.sender] - r.amount
        /\ pc[t] \in {"credit", "credited"} => balances = Debited(b, r)
        /\ pc[t] = "credited" => loaded[t] = balances[r.receiver] + r.amount
        /\ pc[t] = "finish" => balances = Sequential[seq[t]]

AtLast ==
    /\ balances = Sequential[lastExecuted]
    /\ \A s \in Seqs : status[s] = "EXECUTED" => s <= lastExecuted

Alone(t) == \A u \in Thread \ {t} : pc[u] \notin Active

AloneInv == ~overlapped =>
    /\ \A t \in Thread : pc[t] \in Active => Alone(t) /\ InTurn(t) /\ Halfway(t)
    /\ (\A t \in Thread : pc[t] \notin Active) => AtLast
    /\ \A c \in checkpoints : c.balances = Sequential[c.seq]

LoadedOK == DOMAIN loaded = Thread

LEMMA InitAlone == Init => AloneInv
<1> SUFFICES ASSUME Init PROVE AloneInv
  OBVIOUS
<1>1. \A t \in Thread : pc[t] \notin Active
  BY DEF Init, Active, Inside
<1>2. AtLast
  BY SequentialSteps DEF Init, AtLast
<1> QED
  BY <1>1, <1>2 DEF AloneInv, Init

\* Steps that leave executePending as it is.
LEMMA OutsideAlone ==
    ASSUME ExecutionInv, AloneInv,
           UNCHANGED <<lastExecuted, balances, checkpoints, seq, loaded, overlapped>>,
           \A t \in Thread : pc'[t] = pc[t] \/ {pc[t], pc'[t]} \cap Active = {},
           \A s \in Seqs : status'[s] = "EXECUTED" <=> status[s] = "EXECUTED"
    PROVE  AloneInv'
<1>1. \A t \in Thread : /\ pc'[t] \in Active <=> pc[t] \in Active
                        /\ pc[t] \in Active => pc'[t] = pc[t]
  OBVIOUS
<1>2. AtLast => AtLast'
  BY DEF AtLast
<1>3. ASSUME NEW t \in Thread, pc[t] \in Active, Alone(t), InTurn(t), Halfway(t)
      PROVE  Alone(t)' /\ InTurn(t)' /\ Halfway(t)'
  BY <1>1, <1>3 DEF Alone, InTurn, Halfway, Current
<1> QED
  BY <1>1, <1>2, <1>3 DEF AloneInv

\* A step of thread t in executePending.
LEMMA InsideAlone ==
    ASSUME ExecutionInv, NEW t \in Thread, NEW point \in Points, Goto(t, point),
           Alone(t), 
           point \in Active => InTurn(t)' /\ Halfway(t)',
           point \notin Active => AtLast',
           ~overlapped' => \A c \in checkpoints' : c.balances = Sequential[c.seq]
    PROVE  AloneInv'
<1>1. /\ pc'[t] = point
      /\ \A u \in Thread \ {t} : pc'[u] = pc[u] /\ pc'[u] \notin Active
  BY DEF Goto, ExecutionInv, ExecutionTypeOK, Alone
<1>2. Alone(t)'
  BY <1>1 DEF Alone
<1>3. ASSUME NEW u \in Thread, pc'[u] \in Active
      PROVE  Alone(u)' /\ InTurn(u)' /\ Halfway(u)'
  <2>1. u = t
    BY <1>1, <1>3
  <2>2. Alone(t)' /\ InTurn(t)' /\ Halfway(t)'
    BY <1>1, <1>2, <1>3, <2>1
  <2> QED
    BY <2>1, <2>2
<1>4. (\A u \in Thread : pc'[u] \notin Active) => AtLast'
  BY <1>1
<1> QED
  BY <1>3, <1>4 DEF AloneInv

LEMMA LoopAlone ==
    ASSUME ExecutionInv, AloneInv, AssignNumber \/ StoreEntry \/ Prepare \/ SlowCommit
    PROVE  AloneInv'
<1> USE BoundAssumption DEF Active, Inside, Goto, ExecutionTypeOK, Thread, Loop
<1>1. CASE AssignNumber
  BY <1>1, OutsideAlone DEF AssignNumber, ExecutionInv
<1>2. CASE StoreEntry
  <2>1. status[currentSequence] # "EXECUTED"
    BY <1>2 DEF StoreEntry, ExecutionInv, SlotsAreFilled
  <2> QED
    BY <1>2, <2>1, OutsideAlone DEF StoreEntry, ExecutionInv
<1>3. CASE Prepare
  <2>1. PICK s \in Seqs : /\ pc[Loop] = "idle" /\ status[s] = "PRE_PREPARED"
                          /\ status' = [status EXCEPT ![s] = "PREPARED"]
                          /\ Goto(s, "asleep")
                          /\ UNCHANGED <<lastExecuted, balances, checkpoints, seq, loaded, overlapped>>
    BY <1>3 DEF Prepare
  <2>2. pc[s] = "unset"
    BY <2>1 DEF ExecutionInv, TimersFollowStatus
  <2> QED
    BY <2>1, <2>2, OutsideAlone DEF ExecutionInv
<1>4. CASE SlowCommit
  <2>1. PICK s \in asked : pc[Loop] = "idle" /\ status[s] = "PREPARED" /\ Commit(Loop, s)
    BY <1>4 DEF SlowCommit
  <2> QED
    BY <2>1, OutsideAlone DEF ExecutionInv, Commit
<1> QED
  BY <1>1, <1>2, <1>3, <1>4

LEMMA TimerAlone ==
    ASSUME ExecutionInv, AloneInv, NEW s \in Seqs, Timer(s)
    PROVE  AloneInv'
<1> USE DEF Active, Inside, Goto, ExecutionTypeOK, Thread
<1>1. pc[s] = "asleep" /\ status[s] = "PREPARED"
  BY DEF Timer, FastCommit, SlowPrepare, Awake, ExecutionInv, TimersFollowStatus
<1>2. CASE FastCommit(s)
  BY <1>1, <1>2, OutsideAlone DEF FastCommit, Commit, ExecutionInv
<1>3. CASE SlowPrepare(s)
  BY <1>1, <1>3, OutsideAlone DEF SlowPrepare, ExecutionInv
<1> QED
  BY <1>2, <1>3 DEF Timer

\* A thread goes in: it is alone, or this is what overlapped stands for.
LEMMA EnterAlone ==
    ASSUME ExecutionInv, AloneInv, NEW t \in Thread, Enter(t)
    PROVE  AloneInv'
<1> SUFFICES ASSUME ~overlapped' PROVE AloneInv'
  BY DEF AloneInv
<1>1. ~overlapped /\ Alone(t) /\ pc[t] = "enter"
  BY DEF Enter, Alone, Active
<1>2. \A u \in Thread : pc[u] \notin Active
  BY <1>1 DEF Alone, Active
<1>3. AtLast /\ \A c \in checkpoints : c.balances = Sequential[c.seq]
  BY <1>1, <1>2 DEF AloneInv
<1>4. /\ pc'[t] = "look" /\ seq'[t] = lastExecuted + 1 /\ lastExecuted \in Int
      /\ UNCHANGED <<lastExecuted, status, balances, checkpoints>>
  BY DEF Enter, Goto, ExecutionInv, ExecutionTypeOK, shared
<1>5. InTurn(t)' /\ Halfway(t)'
  BY <1>3, <1>4 DEF AtLast, InTurn, Halfway, InHand
<1>6. Goto(t, "look") /\ "look" \in Points /\ "look" \in Active
  BY DEF Enter, Points, Active, Inside
<1> QED
  BY <1>1, <1>3, <1>4, <1>5, <1>6, InsideAlone

\* What a thread that is inside relies on.
Within(t) ==
    /\ Alone(t) /\ InTurn(t) /\ Halfway(t)
    /\ \A c \in checkpoints : c.balances = Sequential[c.seq]

\* When it finds a committed number, that is the next one.
LEMMA LookAlone ==
    ASSUME ExecutionInv, NEW t \in Thread, Within(t), Look(t)
    PROVE  AloneInv'
<1> USE DEF Look
<1>1. /\ UNCHANGED <<lastExecuted, status, balances, checkpoints>>
      /\ pc[t] = "look" /\ seq[t] \in Nat /\ lastExecuted \in -1 .. MaxSeq
      /\ MaxSeq \in Nat /\ currentSequence \in -1 .. MaxSeq
  BY BoundAssumption DEF shared, ExecutionInv, ExecutionTypeOK
<1>2. balances = Sequential[lastExecuted] /\ seq[t] > lastExecuted
  BY <1>1 DEF Within, Halfway, InTurn, Active, Inside
<1>3. AtLast
  BY <1>1, <1>2 DEF Within, InTurn, AtLast, InHand
<1>4. CASE Leave(t)
  <2>1. PICK point \in {"idle", "done"} : Goto(t, point)
    BY <1>4 DEF Leave
  <2>2. point \in Points /\ point \notin Active
    BY <2>1 DEF Points, Active, Inside
  <2>3. AtLast'
    BY <1>1, <1>3 DEF AtLast
  <2> QED
    BY <1>1, <2>1, <2>2, <2>3, InsideAlone DEF Within
<1>5. CASE seq' = [seq EXCEPT ![t] = @ + 1] /\ UNCHANGED pc
  <2>1. Goto(t, "look") /\ "look" \in Points /\ "look" \in Active /\ pc'[t] = "look"
    BY <1>1, <1>5 DEF Goto, ExecutionInv, ExecutionTypeOK, Points, Active, Inside
  <2>2. seq'[t] > lastExecuted'
    BY <1>1, <1>2, <1>5 DEF ExecutionInv, ExecutionTypeOK
  <2>3. InTurn(t)' /\ Halfway(t)'
    BY <1>1, <1>2, <1>3, <2>1, <2>2 DEF AtLast, InTurn, Halfway, InHand
  <2> QED
    BY <1>1, <2>1, <2>3, InsideAlone DEF Within
<1>6. CASE InRange(seq[t]) /\ status[seq[t]] = "COMMITTED" /\ Goto(t, "mark") /\ UNCHANGED seq
  <2>1. seq[t] \in Seqs
    BY <1>1, <1>6 DEF InRange, Seqs
  <2>2. \A r \in Seqs : r < seq[t] => status[r] = "EXECUTED"
    <3> SUFFICES ASSUME NEW r \in Seqs, r < seq[t], status[r] # "EXECUTED" PROVE FALSE
      OBVIOUS
    <3>1. seq[t] \in r .. MaxSeq
      BY <2>1, <1>1 DEF Seqs
    <3>2. Blocked(t, seq[t])
      BY <1>1, <3>1 DEF ExecutionInv, PassedIsExecuted, Inside
    <3> QED
      BY <1>6, <2>1, <3>2 DEF Blocked, ExecutionInv, TimersFollowStatus
  <2>3. seq[t] = lastExecuted + 1
    <3> SUFFICES ASSUME seq[t] > lastExecuted + 1 PROVE FALSE
      BY <1>1, <1>2
    <3>1. seq[t] - 1 \in Seqs /\ seq[t] - 1 < seq[t] /\ ~(seq[t] - 1 <= lastExecuted)
      BY <1>1, <2>1 DEF Seqs
    <3> QED
      BY <1>3, <2>2, <3>1 DEF AtLast
  <2>4. "mark" \in Points /\ "mark" \in Active /\ pc'[t] = "mark"
    BY <1>6 DEF Goto, ExecutionInv, ExecutionTypeOK, Points, Active, Inside
  <2>5. InTurn(t)' /\ Halfway(t)'
    BY <1>1, <1>2, <1>3, <1>6, <2>3, <2>4 DEF AtLast, InTurn, Halfway, InHand
  <2> QED
    BY <1>1, <1>6, <2>4, <2>5, InsideAlone DEF Within
<1> QED
  BY <1>4, <1>5, <1>6

\* The number a thread has in hand, and the accounts when it took it.
LEMMA InHandFacts ==
    ASSUME ExecutionInv, NEW t \in Thread, Within(t), pc[t] \in InHand \cup {"mark"}
    PROVE  /\ seq[t] \in Seqs /\ seq[t] = lastExecuted + 1 /\ lastExecuted = seq[t] - 1
           /\ lastExecuted \in -1 .. MaxSeq
           /\ Sequential[lastExecuted] \in [Account -> Int]
           /\ Sequential[seq[t]] = Settled(Sequential[lastExecuted], Current(t))
<1>1. lastExecuted \in -1 .. MaxSeq /\ MaxSeq \in Nat
  BY BoundAssumption DEF ExecutionInv, ExecutionTypeOK
<1>2. seq[t] \in Seqs
  BY DEF ExecutionInv, EntryInHand, InHand, Inside
<1>3. seq[t] = lastExecuted + 1
  BY DEF Within, InTurn
<1>4. lastExecuted = seq[t] - 1
  BY <1>1, <1>2, <1>3 DEF Seqs
<1> QED
  BY <1>1, <1>2, <1>3, <1>4, SequentialSteps, SequentialType DEF Current

LEMMA MarkAlone ==
    ASSUME ExecutionInv, NEW t \in Thread, Within(t), Mark(t)
    PROVE  AloneInv'
<1>1. /\ pc[t] = "mark" /\ status' = [status EXCEPT ![seq[t]] = "EXECUTED"] /\ Goto(t, "check")
      /\ UNCHANGED <<lastExecuted, balances, checkpoints, seq, loaded>>
  BY DEF Mark
<1>2. "check" \in Points /\ "check" \in Active /\ pc'[t] = "check"
  BY <1>1 DEF Goto, ExecutionInv, ExecutionTypeOK, Points, Active, Inside
<1>3. \A s \in Seqs : status'[s] = "EXECUTED" => status[s] = "EXECUTED" \/ s = seq[t]
  BY <1>1 DEF ExecutionInv, ExecutionTypeOK
<1>4. seq[t] = lastExecuted + 1
  BY <1>1, InHandFacts
<1>5. InTurn(t)'
  BY <1>1, <1>2, <1>3, <1>4 DEF Within, InTurn, InHand
<1>6. Halfway(t)'
  BY <1>1, <1>2 DEF Within, Halfway, Active, Inside
<1> QED
  BY <1>1, <1>2, <1>5, <1>6, InsideAlone DEF Within

LEMMA CheckAlone ==
    ASSUME ExecutionInv, NEW t \in Thread, Within(t), Check(t)
    PROVE  AloneInv'
<1> DEFINE b == Sequential[lastExecuted]
           r == Current(t)
           point == IF Covered(t) THEN "debit" ELSE "finish"
<1>1. /\ pc[t] = "check" /\ Goto(t, point)
      /\ UNCHANGED <<lastExecuted, status, balances, checkpoints, seq, loaded>>
  BY DEF Check, shared
<1>2. point \in Points /\ point \in Active /\ pc'[t] = point /\ point \in {"debit", "finish"}
  BY <1>1 DEF Goto, ExecutionInv, ExecutionTypeOK, Points, Active, Inside
<1>3. /\ seq[t] = lastExecuted + 1 /\ b \in [Account -> Int]
      /\ Sequential[seq[t]] = Settled(b, r) /\ seq[t] \in Seqs
  BY <1>1, InHandFacts DEF InHand
<1>4. balances = b
  BY <1>1 DEF Within, Halfway, Active, Inside
<1>5. InTurn(t)'
  BY <1>1, <1>2 DEF Within, InTurn, InHand
<1>6. Covered(t) <=> b[r.sender] >= r.amount
  BY <1>4 DEF Covered
<1>7. CASE Covered(t)
  <2>1. Halfway(t)'
    BY <1>1, <1>2, <1>4, <1>6, <1>7 DEF Halfway, Current
  <2> QED
    BY <1>1, <1>2, <1>5, <2>1, InsideAlone DEF Within
<1>8. CASE ~Covered(t)
  <2>1. Sequential[seq[t]] = b
    BY <1>3, <1>6, <1>8, TransferFacts DEF Current
  <2>2. Halfway(t)'
    BY <1>1, <1>2, <1>4, <1>8, <2>1 DEF Halfway
  <2> QED
    BY <1>1, <1>2, <1>5, <2>2, InsideAlone DEF Within
<1> QED
  BY <1>7, <1>8

LEMMA DebitAlone ==
    ASSUME ExecutionInv, NEW t \in Thread, Within(t), t \in DOMAIN loaded, Debit(t)
    PROVE  AloneInv'
<1> DEFINE b == Sequential[lastExecuted]
           r == Current(t)
<1>1. /\ pc[t] \in {"debit", "debited"}
      /\ UNCHANGED <<lastExecuted, status, checkpoints, seq>>
  BY DEF Debit, Load, Store, shared
<1>2. /\ seq[t] = lastExecuted + 1 /\ b \in [Account -> Int] /\ seq[t] \in Seqs
      /\ r.sender \in Account /\ r.amount \in Int
  BY <1>1, InHandFacts, TransferFacts DEF InHand, Current
<1>3. balances = b /\ b[r.sender] >= r.amount
  BY <1>1 DEF Within, Halfway, Active, Inside
<1>4. r' = r /\ b' = b
  BY <1>1 DEF Current
<1>5. CASE Load(t, "debit", r.sender, -r.amount, "debited")
  <2>1. /\ Goto(t, "debited") /\ UNCHANGED balances
        /\ loaded' = [loaded EXCEPT ![t] = balances[r.sender] + -r.amount]
    BY <1>5 DEF Load, shared
  <2>2. "debited" \in Points /\ "debited" \in Active /\ pc'[t] = "debited"
    BY <2>1 DEF Goto, ExecutionInv, ExecutionTypeOK, Points, Active, Inside
  <2>3. InTurn(t)'
    BY <1>1, <2>2 DEF Within, InTurn, InHand
  <2>4. b[r.sender] \in Int /\ b[r.sender] + -r.amount = b[r.sender] - r.amount
    BY <1>2
  <2>5. loaded'[t] = b[r.sender] - r.amount
    BY <1>3, <2>1, <2>4
  <2>6. Halfway(t)'
    BY <1>1, <1>3, <1>4, <2>1, <2>2, <2>5 DEF Halfway
  <2> QED
    BY <1>1, <2>1, <2>2, <2>3, <2>6, InsideAlone DEF Within
<1>6. CASE Store(t, "debited", r.sender, "credit")
  <2>1. /\ pc[t] = "debited" /\ Goto(t, "credit")
        /\ balances' = [balances EXCEPT ![r.sender] = loaded[t]]
    BY <1>6 DEF Store
  <2>2. "credit" \in Points /\ "credit" \in Active /\ pc'[t] = "credit"
    BY <2>1 DEF Goto, ExecutionInv, ExecutionTypeOK, Points, Active, Inside
  <2>3. InTurn(t)'
    BY <1>1, <2>2 DEF Within, InTurn, InHand
  <2>4. loaded[t] = b[r.sender] - r.amount
    BY <2>1 DEF Within, Halfway
  <2>5. balances' = Debited(b, r)
    BY <1>3, <2>1, <2>4 DEF Debited
  <2>6. Halfway(t)'
    BY <1>1, <1>3, <1>4, <2>2, <2>5 DEF Halfway
  <2> QED
    BY <1>1, <2>1, <2>2, <2>3, <2>6, InsideAlone DEF Within
<1> QED
  BY <1>5, <1>6 DEF Debit

LEMMA CreditAlone ==
    ASSUME ExecutionInv, NEW t \in Thread, Within(t), t \in DOMAIN loaded, Credit(t)
    PROVE  AloneInv'
<1> DEFINE b == Sequential[lastExecuted]
           r == Current(t)
<1>1. /\ pc[t] \in {"credit", "credited"}
      /\ UNCHANGED <<lastExecuted, status, checkpoints, seq>>
  BY DEF Credit, Load, Store, shared
<1>2. /\ seq[t] = lastExecuted + 1 /\ b \in [Account -> Int] /\ seq[t] \in Seqs
      /\ Sequential[seq[t]] = Settled(b, r)
  BY <1>1, InHandFacts DEF InHand
<1>3. balances = Debited(b, r) /\ b[r.sender] >= r.amount
  BY <1>1 DEF Within, Halfway
<1>4. r' = r /\ b' = b
  BY <1>1 DEF Current
<1>5. CASE Load(t, "credit", r.receiver, r.amount, "credited")
  <2>1. /\ Goto(t, "credited") /\ UNCHANGED balances
        /\ loaded' = [loaded EXCEPT ![t] = balances[r.receiver] + r.amount]
    BY <1>5 DEF Load, shared
  <2>2. "credited" \in Points /\ "credited" \in Active /\ pc'[t] = "credited"
    BY <2>1 DEF Goto, ExecutionInv, ExecutionTypeOK, Points, Active, Inside
  <2>3. InTurn(t)'
    BY <1>1, <2>2 DEF Within, InTurn, InHand
  <2>4. Halfway(t)'
    BY <1>1, <1>3, <1>4, <2>1, <2>2 DEF Halfway
  <2> QED
    BY <1>1, <2>1, <2>2, <2>3, <2>4, InsideAlone DEF Within
<1>6. CASE Store(t, "credited", r.receiver, "finish")
  <2>1. /\ pc[t] = "credited" /\ Goto(t, "finish")
        /\ balances' = [balances EXCEPT ![r.receiver] = loaded[t]]
    BY <1>6 DEF Store
  <2>2. "finish" \in Points /\ "finish" \in Active /\ pc'[t] = "finish"
    BY <2>1 DEF Goto, ExecutionInv, ExecutionTypeOK, Points, Active, Inside
  <2>3. InTurn(t)'
    BY <1>1, <2>2 DEF Within, InTurn, InHand
  <2>4. loaded[t] = balances[r.receiver] + r.amount
    BY <2>1 DEF Within, Halfway
  <2>5. balances' = Credited(Debited(b, r), r)
    BY <1>3, <2>1, <2>4 DEF Credited
  <2>6. balances' = Sequential[seq[t]]
    BY <1>2, <1>3, <2>5, TransferFacts DEF Current
  <2>7. Halfway(t)'
    BY <1>1, <2>2, <2>6 DEF Halfway
  <2> QED
    BY <1>1, <2>1, <2>2, <2>3, <2>7, InsideAlone DEF Within
<1> QED
  BY <1>5, <1>6 DEF Credit

LEMMA FinishAlone ==
    ASSUME ExecutionInv, NEW t \in Thread, Within(t), Finish(t)
    PROVE  AloneInv'
<1> DEFINE point == IF IsCheckpoint(seq[t]) THEN "checkpoint" ELSE "next"
<1>1. /\ pc[t] = "finish" /\ lastExecuted' = seq[t] /\ Goto(t, point)
      /\ UNCHANGED <<status, balances, checkpoints, seq, loaded>>
  BY DEF Finish
<1>2. /\ point \in Points /\ point \in Active /\ pc'[t] = point
      /\ point \in {"checkpoint", "next"}
  BY <1>1 DEF Goto, ExecutionInv, ExecutionTypeOK, Points, Active, Inside
<1>3. seq[t] = lastExecuted + 1 /\ lastExecuted \in Int /\ balances = Sequential[seq[t]]
  BY <1>1, InHandFacts DEF InHand, Within, Halfway
<1>4. \A s \in Seqs : s <= lastExecuted => s <= seq[t]
  BY <1>3, BoundAssumption DEF Seqs
<1>5. \A s \in Seqs : status'[s] = "EXECUTED" => s <= lastExecuted'
  <2> SUFFICES ASSUME NEW s \in Seqs, status[s] = "EXECUTED" PROVE s <= seq[t]
    BY <1>1
  <2>1. s <= lastExecuted \/ s = seq[t]
    BY DEF Within, InTurn
  <2> QED
    BY <1>3, <1>4, <2>1
<1>6. InTurn(t)'
  BY <1>1, <1>2, <1>5 DEF InTurn, InHand
<1>7. Halfway(t)'
  BY <1>1, <1>2, <1>3 DEF Halfway
<1> QED
  BY <1>1, <1>2, <1>6, <1>7, InsideAlone DEF Within

LEMMA CheckpointAlone ==
    ASSUME ExecutionInv, NEW t \in Thread, Within(t), Checkpoint(t)
    PROVE  AloneInv'
<1>1. /\ pc[t] = "checkpoint" /\ Goto(t, "next")
      /\ checkpoints' = checkpoints \cup {[seq |-> lastExecuted, balances |-> balances]}
      /\ UNCHANGED <<lastExecuted, status, balances, seq, loaded>>
  BY DEF Checkpoint
<1>2. "next" \in Points /\ "next" \in Active /\ pc'[t] = "next"
  BY <1>1 DEF Goto, ExecutionInv, ExecutionTypeOK, Points, Active, Inside
<1>3. seq[t] = lastExecuted /\ balances = Sequential[lastExecuted]
  BY <1>1 DEF Within, InTurn, Halfway, Active, Inside
<1>4. \A c \in checkpoints' : c.balances = Sequential[c.seq]
  BY <1>1, <1>3 DEF Within
<1>5. InTurn(t)'
  BY <1>1, <1>2 DEF Within, InTurn, InHand
<1>6. Halfway(t)'
  BY <1>1, <1>2, <1>3 DEF Halfway
<1> QED
  BY <1>1, <1>2, <1>4, <1>5, <1>6, InsideAlone DEF Within

LEMMA ContinueAlone ==
    ASSUME ExecutionInv, NEW t \in Thread, Within(t), Continue(t)
    PROVE  AloneInv'
<1>1. /\ pc[t] = "next" /\ Goto(t, "look")
      /\ lastExecuted' = seq[t] /\ seq' = [seq EXCEPT ![t] = @ + 1]
      /\ UNCHANGED <<status, balances, checkpoints>>
  BY DEF Continue
<1>2. "look" \in Points /\ "look" \in Active /\ pc'[t] = "look"
  BY <1>1 DEF Goto, ExecutionInv, ExecutionTypeOK, Points, Active, Inside
<1>3. seq[t] = lastExecuted /\ balances = Sequential[lastExecuted]
  BY <1>1 DEF Within, InTurn, Halfway, Active, Inside
<1>4. seq'[t] = lastExecuted' + 1 /\ lastExecuted' \in Int
  BY <1>1 DEF ExecutionInv, ExecutionTypeOK
<1>5. InTurn(t)'
  BY <1>1, <1>2, <1>3, <1>4 DEF Within, InTurn, InHand
<1>6. Halfway(t)'
  BY <1>1, <1>2, <1>3 DEF Halfway
<1> QED
  BY <1>1, <1>2, <1>5, <1>6, InsideAlone DEF Within

LEMMA StepAlone ==
    ASSUME ExecutionInv, LoadedOK, AloneInv, [Next]_vars
    PROVE  AloneInv'
<1>1. CASE AssignNumber \/ StoreEntry \/ Prepare \/ SlowCommit
  BY <1>1, LoopAlone
<1>2. ASSUME NEW s \in Seqs, Timer(s) PROVE AloneInv'
  BY <1>2, TimerAlone
<1>3. ASSUME NEW t \in Thread, ExecutePending(t) PROVE AloneInv'
  <2>1. CASE Enter(t)
    BY <2>1, EnterAlone
  <2>2. CASE ~Enter(t)
    <3>1. /\ \/ Look(t) \/ Mark(t) \/ Check(t) \/ Debit(t) \/ Credit(t)
             \/ Finish(t) \/ Checkpoint(t) \/ Continue(t)
          /\ pc[t] \in Active /\ UNCHANGED overlapped
      BY <1>3, <2>2 DEF ExecutePending, Look, Mark, Check, Debit, Credit, Finish, Checkpoint,
         Continue, Load, Store, Active, Inside
    <3>2. CASE overlapped
      BY <3>1, <3>2 DEF AloneInv
    <3>3. CASE ~overlapped
      <4>1. Within(t)
        BY <3>1, <3>3 DEF AloneInv, Within
      <4>2. t \in DOMAIN loaded
        BY DEF LoadedOK
      <4> QED
        BY <3>1, <4>1, <4>2, LookAlone, MarkAlone, CheckAlone, DebitAlone, CreditAlone, FinishAlone,
           CheckpointAlone, ContinueAlone
    <3> QED
      BY <3>2, <3>3
  <2> QED
    BY <2>1, <2>2
<1>4. CASE UNCHANGED vars
  BY <1>4, OutsideAlone DEF vars, shared, locals
<1> QED
  BY <1>1, <1>2, <1>3, <1>4 DEF Next

LEMMA LoadedDomain == Spec => []LoadedOK
<1>1. Init => LoadedOK
  BY DEF Init, LoadedOK
<1>2. LoadedOK /\ [Next]_vars => LoadedOK'
  <2> SUFFICES ASSUME [Next]_vars PROVE DOMAIN loaded' = DOMAIN loaded
    BY DEF LoadedOK
  <2>1. ASSUME NEW t \in Thread, ExecutePending(t) PROVE DOMAIN loaded' = DOMAIN loaded
    BY <2>1 DEF ExecutePending, Enter, Look, Mark, Check, Debit, Credit, Finish, Checkpoint,
       Continue, Load, Store
  <2>2. ASSUME NEW s \in Seqs, Timer(s) PROVE loaded' = loaded
    BY <2>2 DEF Timer, FastCommit, SlowPrepare, Commit
  <2> QED
    BY <2>1, <2>2 DEF Next, AssignNumber, StoreEntry, Prepare, SlowCommit, Commit, vars, locals
<1> QED
  BY <1>1, <1>2, PTL DEF Spec

LEMMA AloneInvariant == Spec => []AloneInv
  BY InitAlone, StepAlone, ExecutionInvariant, LoadedDomain, PTL DEF Spec

\* As long as no two threads were in executePending at once, it is one step, as
\* PbftOrdering has it: accounts and checkpoints hold what the transfers leave that are
\* taken one after the other, in the order of their numbers.
THEOREM OneAtATime == Spec => []AloneIsAtomic
<1>1. AloneInv => AloneIsAtomic
  <2>1. AtRest => \A t \in Thread : pc[t] \notin Active
    BY DEF AtRest, Active
  <2> QED
    BY <2>1 DEF AloneInv, AloneIsAtomic, AtLast
<1> QED
  BY <1>1, AloneInvariant, PTL
=============================================================================
