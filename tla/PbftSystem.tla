------------------------------ MODULE PbftSystem ------------------------------
(***************************************************************************)
(* The whole system: the cluster of PbftReplicas with the client program   *)
(* of PbftClient in the place of its open environment.                     *)
(***************************************************************************)
EXTENDS PbftProperties, PbftClient

systemVars == <<vars, clientVars>>

\* Server i takes a Transfer call that a client made.
ReceiveRequest(i) ==
    /\ Up(i)
    /\ \E q \in requests :
          /\ q.to = i
          /\ ProcessTransfer(i, q.m, {})
          /\ requests' = requests \ {q}
          /\ UNCHANGED <<started, transfers, clientView, successes, failures, transferTimers,
                         broadcasting, dead, notified, broadcasts, answered>>

ReplicaStep(i) ==
    \/ ForwardedTransfer(i)
    \/ ProcessPrePrepare(i) \/ ProcessPrePrepareOk(i)
    \/ OptimisticTimeout(i)
    \/ ProcessPrepare(i) \/ ProcessPrepareOk(i) \/ ProcessCommit(i)
    \/ Checkpointing(i) \/ ViewChanging(i)

SystemInit == Init /\ ClientInit

SystemNext ==
    \/ \E i \in Server : ReceiveRequest(i) \/ (ReplicaStep(i) /\ UNCHANGED clientVars)
    \/ \E c \in Client : ClientStep(c) /\ UNCHANGED vars

SystemSpec == SystemInit /\ [][SystemNext]_systemVars

SystemFairness ==
    /\ \A i \in Alive :
          /\ WF_systemVars(ReceiveRequest(i))
          /\ WF_systemVars(ForwardedTransfer(i) /\ UNCHANGED clientVars)
          /\ WF_systemVars(ProcessPrePrepare(i) /\ UNCHANGED clientVars)
          /\ WF_systemVars(ProcessPrePrepareOk(i) /\ UNCHANGED clientVars)
          /\ WF_systemVars(OptimisticTimeout(i) /\ UNCHANGED clientVars)
          /\ WF_systemVars(ProcessPrepare(i) /\ UNCHANGED clientVars)
          /\ WF_systemVars(ProcessPrepareOk(i) /\ UNCHANGED clientVars)
          /\ WF_systemVars(ProcessCommit(i) /\ UNCHANGED clientVars)
    /\ \A c \in Client :
          /\ WF_systemVars(~dead[c] /\ ProcessProcess(c) /\ UNCHANGED vars)
          /\ WF_systemVars(~dead[c] /\ TransferTimeout(c) /\ UNCHANGED vars)
          /\ WF_systemVars(~dead[c] /\ TransferBroadcast(c) /\ UNCHANGED vars)
          /\ WF_systemVars(~dead[c] /\ ProcessNotify(c) /\ UNCHANGED vars)

FairSystemSpec == SystemSpec /\ SystemFairness

----------------------------------------------------------------------------
\* No number was given to two requests, in whatever views.  (A server that becomes leader
\* without all that was ordered before does give one again: see ExecutionAgreement.)
NumbersGivenOnce == \A p, q \in proposed : p.seq = q.seq => p.digest = q.digest

\* A result a client took is one that f + 1 servers reached by executing that very
\* transfer; processNotify goes by the timestamp alone, and a server answers a repetition
\* with what the entry holds that its digest leads to.  (Once a number was given to two
\* requests that entry may be about the other one.)
AnswerIsExecution == NumbersGivenOnce =>
    \A c \in Client : \A k \in 1 .. Len(answered[c]) :
        LET a == answered[c][k]
        IN  Cardinality({j \in Server : \E s \in Seqs :
                executed[j][s] = a.m /\ Succeeds(executed[j], s) = a.ack}) >= F + 1

\* However often a client repeats a transfer, and whoever forwards it, no server
\* executes it twice, as long as the first leader leads and no checkpoint made it drop
\* the digests it goes by.
ExecutedOnce ==
    /\ \A j \in Server : currentView[j] = 1
    /\ lowWatermark[Leader(1)] = 0
    => \A j \in Server : \A s, t \in Seqs :
          s # t /\ executed[j][s] # NoReq => executed[j][s] # executed[j][t]

\* Every transfer of every client is answered in the end.
AllAnswered == \A c \in Client : <>(Len(answered[c]) = Len(Script[c]))
=============================================================================
