------------------------------- MODULE PbftLog -------------------------------
(***************************************************************************)
(* What the logs of the replicas promise, whatever the messages, quorums,  *)
(* timers and view changes between them do: in a view a number is assigned *)
(* once; a log holds only assignments, and gives one up only for an        *)
(* assignment of a later view; what is committed stays so until then; and  *)
(* a number is executed at most once, as the committed assignment says.    *)
(* PbftReplicas implements this specification.                             *)
(***************************************************************************)
EXTENDS Integers

CONSTANTS
    Server, Number, View, Digest,
    None            \* the digest of no request

Assignment == [view : View, seq : Number, digest : Digest]
Nothing    == [view |-> -1, seq |-> -1, digest |-> None]

VARIABLES
    assigned,       \* every assignment a leader made
    accepted,       \* the assignment each server holds for each number, or Nothing
    committed,      \* the numbers whose assignment each server committed
    results         \* the digest each server executed under each number, or None

logVars == <<assigned, accepted, committed, results>>

Init ==
    /\ assigned = {}
    /\ accepted = [i \in Server |-> [s \in Number |-> Nothing]]
    /\ committed = [i \in Server |-> {}]
    /\ results = [i \in Server |-> [s \in Number |-> None]]

\* Server i takes over c, in place of nothing or of an assignment of an earlier view.
\* It may have to commit the number anew.
Hold(i, c) ==
    /\ accepted[i][c.seq].view < c.view
    /\ accepted' = [accepted EXCEPT ![i][c.seq] = c]
    /\ \/ committed' = [committed EXCEPT ![i] = @ \ {c.seq}]
       \/ accepted[i][c.seq].digest = c.digest /\ UNCHANGED committed
    /\ UNCHANGED results

\* Server i, as leader, assigns a number that is free in its view.
Assign(i, c) ==
    /\ \A a \in assigned : ~(a.view = c.view /\ a.seq = c.seq)
    /\ assigned' = assigned \cup {c}
    /\ Hold(i, c)

\* Server i accepts an assignment that was made.
Accept(i, c) == Hold(i, c) /\ UNCHANGED assigned

\* Server i executes numbers it committed and never executed before.
Execute(i, S) ==
    /\ \A s \in S : results[i][s] = None
    /\ results' = [results EXCEPT ![i] =
                      [s \in Number |-> IF s \in S THEN accepted[i][s].digest ELSE @[s]]]

\* Server i commits the number s it holds an assignment for, and executes some numbers.
Commit(i, s) ==
    /\ accepted[i][s] # Nothing
    /\ committed' = [committed EXCEPT ![i] = @ \cup {s}]
    /\ \E S \in SUBSET (committed[i] \cup {s}) : Execute(i, S)
    /\ UNCHANGED <<assigned, accepted>>

Next == \E i \in Server :
    \/ \E c \in Assignment : Assign(i, c)
    \/ \E c \in assigned : Accept(i, c)
    \/ \E s \in Number : Commit(i, s)

Spec == Init /\ [][Next]_logVars
=============================================================================
