---------------------------- MODULE PbftExecution ----------------------------
(***************************************************************************)
(* executePending of src/server/async_server.cc, statement by statement.   *)
(* PbftOrdering takes it as one step.  At a leader it is entered by the    *)
(* event loop, when 2f + 1 commit signatures are there, and by the thread  *)
(* of every optimistic timer that finds 3f of them, 2 s after the number   *)
(* was prepared.  No lock is taken: the threads share currentSequence,     *)
(* lastExecuted, the status of the entries and the balances.               *)
(*                                                                         *)
(* One leader, in its view and within its window.  The entry of number s   *)
(* holds Request[s]; acknowledgements are left to PbftOrdering, so that    *)
(* any number of them may be there when a timer wakes up.                  *)
(***************************************************************************)
EXTENDS Integers, Sequences

CONSTANTS
    MaxSeq,         \* bound: highest sequence number handed out
    Request,        \* [0 .. MaxSeq -> [sender, receiver, amount]]
    InitialBalance, \* units on every account at the start
    CheckpointStep  \* checkpointStepSize

Seqs    == 0 .. MaxSeq
Loop    == -1
Thread  == Seqs \cup {Loop}   \* the event loop, and the optimistic timer of each number
Account == {Request[s].sender : s \in Seqs} \cup {Request[s].receiver : s \in Seqs}

ASSUME BoundAssumption   == MaxSeq \in Nat /\ CheckpointStep \in Nat \ {0}
ASSUME RequestAssumption ==
    /\ DOMAIN Request = Seqs
    /\ \A s \in Seqs : Request[s].amount \in Int
    /\ InitialBalance \in Int

VARIABLES
    currentSequence, lastExecuted, status, balances,
    checkpoints, \* the checkpoint requests sent: number and balances
    asked,      \* numbers whose timer asked for commit signatures
    pc,         \* where each thread is
    seq,        \* executePending's loop variable, per thread
    before,     \* per sleeping timer: threads that were executing when it was set
    loaded,     \* the balance a thread has computed and not yet stored
    applied,    \* history: the numbers in the order their cover was looked at
    overlapped  \* history: two threads were in executePending at once

shared == <<currentSequence, lastExecuted, status, balances, checkpoints, asked>>
locals == <<pc, seq, loaded, before>>
vars   == <<shared, locals, applied, overlapped>>

Status == {"NIL", "PRE_PREPARED", "PREPARED", "COMMITTED", "EXECUTED"}

\* Points of executePending; a thread at any other is outside.
Inside == {"enter", "look", "mark", "check", "debit", "debited", "credit", "credited",
           "finish", "checkpoint", "next"}

Init ==
    /\ currentSequence = -1
    /\ lastExecuted = -1
    /\ status = [s \in Seqs |-> "NIL"]
    /\ balances = [a \in Account |-> InitialBalance]
    /\ checkpoints = {}
    /\ asked = {}
    /\ pc = [t \in Thread |-> IF t = Loop THEN "idle" ELSE "unset"]
    /\ seq = [t \in Thread |-> 0]
    /\ loaded = [t \in Thread |-> 0]
    /\ before = [s \in Seqs |-> {}]
    /\ applied = <<>>
    /\ overlapped = FALSE

----------------------------------------------------------------------------
(* The event loop: a new number, its entry, 2f acknowledgements (which set *)
(* the timer), 2f + 1 commit signatures.  Each is a step of a handler that *)
(* runs while the loop is not in executePending.                           *)

Goto(t, point) == pc' = [pc EXCEPT ![t] = point]

\* ++currentSequence; the entry follows once the pre-prepare is signed.
AssignNumber ==
    /\ pc[Loop] = "idle" /\ currentSequence < MaxSeq
    /\ currentSequence' = currentSequence + 1
    /\ Goto(Loop, "store")
    /\ UNCHANGED <<lastExecuted, status, balances, checkpoints, asked, seq, loaded, before,
                   applied, overlapped>>

StoreEntry ==
    /\ pc[Loop] = "store"
    /\ status' = [status EXCEPT ![currentSequence] = "PRE_PREPARED"]
    /\ Goto(Loop, "idle")
    /\ UNCHANGED <<currentSequence, lastExecuted, balances, checkpoints, asked, seq, loaded, before,
                   applied, overlapped>>

Prepare == \E s \in Seqs :
    /\ pc[Loop] = "idle" /\ status[s] = "PRE_PREPARED"
    /\ status' = [status EXCEPT ![s] = "PREPARED"]
    /\ Goto(s, "asleep")
    /\ before' = [before EXCEPT ![s] = {t \in Thread : pc[t] \in Inside}]
    /\ UNCHANGED <<currentSequence, lastExecuted, balances, checkpoints, asked, seq, loaded,
                   applied, overlapped>>

\* Thread t marks s committed, then calls executePending.
Commit(t, s) ==
    /\ status' = [status EXCEPT ![s] = "COMMITTED"]
    /\ Goto(t, "enter")
    /\ UNCHANGED <<currentSequence, lastExecuted, balances, checkpoints, asked, seq, loaded, before,
                   applied, overlapped>>

SlowCommit == \E s \in asked :
    pc[Loop] = "idle" /\ status[s] = "PREPARED" /\ Commit(Loop, s)

\* A timer sleeps for 2 s, more than a pass of executePending takes: the threads
\* that were executing when it was set have left by then.
Awake(s) == pc[s] = "asleep" /\ before[s] = {}

\* The optimistic timer: everybody's acknowledgement, or the prepare phase.
FastCommit(s) == Awake(s) /\ Commit(s, s)

SlowPrepare(s) ==
    /\ Awake(s)
    /\ asked' = asked \cup {s}
    /\ Goto(s, "done")
    /\ UNCHANGED <<currentSequence, lastExecuted, status, balances, checkpoints, seq, loaded, before,
                   applied, overlapped>>

----------------------------------------------------------------------------
(* executePending, by thread t. *)

Current(t) == Request[seq[t]]
Leave(t) ==
    /\ Goto(t, IF t = Loop THEN "idle" ELSE "done")
    /\ before' = [s \in Seqs |-> before[s] \ {t}]

Enter(t) ==
    /\ pc[t] = "enter"
    /\ seq' = [seq EXCEPT ![t] = lastExecuted + 1]
    /\ overlapped' = (overlapped \/ \E u \in Thread \ {t} : pc[u] \in Inside \ {"enter"})
    /\ Goto(t, "look")
    /\ UNCHANGED <<shared, loaded, before, applied>>

\* Mutants: the last number is left out; an entry that is not committed is passed.
BelowCurrent(s) == s < currentSequence
Uncommitted(s)  == status[s] # "COMMITTED"

\* A slot without an entry and an executed one are passed, an entry that is not
\* committed ends the loop.
InRange(s) == s <= currentSequence
Passes(s)  == status[s] \in {"NIL", "EXECUTED"}
Stops(s)   == status[s] \in {"PRE_PREPARED", "PREPARED"}

Look(t) ==
    /\ pc[t] = "look"
    /\ \/ (InRange(seq[t]) => Stops(seq[t])) /\ Leave(t) /\ UNCHANGED seq
       \/ /\ InRange(seq[t]) /\ Passes(seq[t])
          /\ seq' = [seq EXCEPT ![t] = @ + 1]
          /\ UNCHANGED <<pc, before>>
       \/ /\ InRange(seq[t]) /\ status[seq[t]] = "COMMITTED"
          /\ Goto(t, "mark")
          /\ UNCHANGED <<seq, before>>
    /\ UNCHANGED <<shared, loaded, applied, overlapped>>

Mark(t) ==
    /\ pc[t] = "mark"
    /\ status' = [status EXCEPT ![seq[t]] = "EXECUTED"]
    /\ Goto(t, "check")
    /\ UNCHANGED <<currentSequence, lastExecuted, balances, checkpoints, asked, seq, loaded, before,
                   applied, overlapped>>

\* Mutant: the last unit stays on the account.
CoveredAndMore(t) == balances[Current(t).sender] > Current(t).amount
Covered(t)        == balances[Current(t).sender] >= Current(t).amount

Check(t) ==
    /\ pc[t] = "check"
    /\ applied' = Append(applied, seq[t])
    /\ Goto(t, IF Covered(t) THEN "debit" ELSE "finish")
    /\ UNCHANGED <<shared, seq, loaded, before, overlapped>>

\* balances[account] += amount loads and stores.
Load(t, from, account, amount, to) ==
    /\ pc[t] = from
    /\ loaded' = [loaded EXCEPT ![t] = balances[account] + amount]
    /\ Goto(t, to)
    /\ UNCHANGED <<shared, seq, before, applied, overlapped>>

Store(t, from, account, to) ==
    /\ pc[t] = from
    /\ balances' = [balances EXCEPT ![account] = loaded[t]]
    /\ Goto(t, to)
    /\ UNCHANGED <<currentSequence, lastExecuted, status, checkpoints, asked, seq, loaded, before,
                   applied, overlapped>>

Debit(t)  == \/ Load(t, "debit", Current(t).sender, -Current(t).amount, "debited")
             \/ Store(t, "debited", Current(t).sender, "credit")
Credit(t) == \/ Load(t, "credit", Current(t).receiver, Current(t).amount, "credited")
             \/ Store(t, "credited", Current(t).receiver, "finish")

IsCheckpoint(s) == s % CheckpointStep = CheckpointStep - 1

Finish(t) ==
    /\ pc[t] = "finish"
    /\ lastExecuted' = seq[t]
    /\ Goto(t, IF IsCheckpoint(seq[t]) THEN "checkpoint" ELSE "next")
    /\ UNCHANGED <<currentSequence, status, balances, checkpoints, asked, seq, loaded, before,
                   applied, overlapped>>

\* The number of the checkpoint is read again, after the client was notified.
Checkpoint(t) ==
    /\ pc[t] = "checkpoint"
    /\ checkpoints' = checkpoints \cup {[seq |-> lastExecuted, balances |-> balances]}
    /\ Goto(t, "next")
    /\ UNCHANGED <<currentSequence, lastExecuted, status, balances, asked, seq, loaded, before,
                   applied, overlapped>>

Continue(t) ==
    /\ pc[t] = "next"
    /\ lastExecuted' = seq[t]
    /\ seq' = [seq EXCEPT ![t] = @ + 1]
    /\ Goto(t, "look")
    /\ UNCHANGED <<currentSequence, status, balances, checkpoints, asked, loaded, before,
                   applied, overlapped>>

ExecutePending(t) ==
    \/ Enter(t) \/ Look(t) \/ Mark(t) \/ Check(t) \/ Debit(t) \/ Credit(t)
    \/ Finish(t) \/ Checkpoint(t) \/ Continue(t)

----------------------------------------------------------------------------
Timer(s) == FastCommit(s) \/ SlowPrepare(s)

Next ==
    \/ AssignNumber \/ StoreEntry \/ Prepare \/ SlowCommit
    \/ \E s \in Seqs : Timer(s)
    \/ \E t \in Thread : ExecutePending(t)

Spec == Init /\ [][Next]_vars

----------------------------------------------------------------------------
(* Properties. *)

\* Nobody is in executePending, and every timer that is set sleeps.
AtRest == \A t \in Thread : pc[t] \notin Inside /\ pc[Loop] = "idle"

\* What transfer r leaves on the accounts b, taken alone.
Debited(b, r)  == [b EXCEPT ![r.sender] = @ - r.amount]
Credited(b, r) == [b EXCEPT ![r.receiver] = @ + r.amount]
Settled(b, r)  == IF b[r.sender] < r.amount THEN b ELSE Credited(Debited(b, r), r)

\* What the transfers 0 .. n, taken one after the other, leave on the accounts.
Sequential[n \in -1 .. MaxSeq] ==
    IF n = -1 THEN [a \in Account |-> InitialBalance]
    ELSE Settled(Sequential[n - 1], Request[n])

\* However the threads interleave, a number is marked executed only when all lower
\* ones are: a thread may step over the slot that is being filled (cc:1136), but
\* then it finds nothing behind it.
ExecutedWithoutGap ==
    \A s \in Seqs : status[s] = "EXECUTED" => \A r \in 0 .. s - 1 : status[r] = "EXECUTED"

\* Nobody waits for a thread that has left already: when all threads are out of
\* executePending, what is committed and not executed has an uncommitted number below it.
NothingLeftBehind ==
    AtRest => \A s \in Seqs : status[s] = "COMMITTED" =>
                  \E r \in 0 .. s - 1 : status[r] \notin {"COMMITTED", "EXECUTED"}

\* As long as no two threads were in executePending at once, it does what its one-step
\* form in PbftOrdering does: every checkpoint sent holds the balances after its number,
\* and between two passes the accounts hold what the executed transfers leave, in order.
AloneIsAtomic == ~overlapped =>
    /\ \A c \in checkpoints : c.balances = Sequential[c.seq]
    /\ AtRest => balances = Sequential[lastExecuted]

\* README: "If the replica has executed all requests with lower sequence numbers, it
\* executes the request": transfers are applied once each and in the order of their numbers.
AppliedInOrder == \A i \in DOMAIN applied : applied[i] = i - 1

----------------------------------------------------------------------------
(* Why the first two hold: a thread that stepped over the slot being filled *)
(* finds nothing committed behind it, because the timers of those numbers   *)
(* were set while it was executing.                                         *)

Points == {"idle", "store", "unset", "asleep", "done"} \cup Inside

ExecutionTypeOK ==
    /\ currentSequence \in -1 .. MaxSeq
    /\ lastExecuted \in -1 .. MaxSeq
    /\ status \in [Seqs -> Status]
    /\ asked \subseteq Seqs
    /\ pc \in [Thread -> Points]
    /\ seq \in [Thread -> Nat]
    /\ before \in [Seqs -> SUBSET Thread]

\* The slot of the latest number is empty until its entry is stored.
SlotsAreFilled ==
    /\ \A s \in Seqs : status[s] = "NIL" <=>
           (s > currentSequence \/ (s = currentSequence /\ pc[Loop] = "store"))
    /\ pc[Loop] = "store" => currentSequence \in Seqs

TimersFollowStatus == \A s \in Seqs :
    /\ pc[s] = "unset" <=> status[s] \in {"NIL", "PRE_PREPARED"}
    /\ pc[s] = "asleep" => status[s] = "PREPARED"
    /\ s \in asked => pc[s] = "done"

\* Number s cannot be committed while thread t is executing.
Blocked(t, s) ==
    \/ status[s] \in {"NIL", "PRE_PREPARED"}
    \/ pc[s] = "asleep" /\ t \in before[s]

\* What thread t has passed is executed, or nothing from there on can be committed.
PassedIsExecuted ==
    \A t \in Thread : pc[t] \in Inside \ {"enter"} =>
        \A r \in Seqs : r < seq[t] =>
            status[r] = "EXECUTED" \/ \A s \in r .. MaxSeq : Blocked(t, s)

EntryInHand ==
    \A t \in Thread : pc[t] \in Inside \ {"enter", "look"} =>
        /\ seq[t] \in Seqs
        /\ status[seq[t]] \in {"COMMITTED", "EXECUTED"}
        /\ pc[t] # "mark" => status[seq[t]] = "EXECUTED"

LastIsExecuted == \A r \in Seqs : r <= lastExecuted => status[r] = "EXECUTED"

\* Thread t has yet to look at number s.
Reaches(t, s) == pc[t] = "enter" \/ (pc[t] \in Inside /\ seq[t] <= s)

CommittedIsReached ==
    \A s \in Seqs : status[s] = "COMMITTED" =>
        \/ \E r \in 0 .. s - 1 : status[r] \notin {"COMMITTED", "EXECUTED"}
        \/ \E t \in Thread : Reaches(t, s)

ExecutionInv ==
    /\ ExecutionTypeOK /\ SlotsAreFilled /\ TimersFollowStatus
    /\ PassedIsExecuted /\ EntryInHand /\ LastIsExecuted
    /\ ExecutedWithoutGap /\ CommittedIsReached
=============================================================================
