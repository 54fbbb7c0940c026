--------------------------- MODULE PbftSystemProofs ---------------------------
(* The whole system implements the cluster with open clients: what is proved *)
(* of PbftReplicas holds with the client program in place.                   *)
EXTENDS PbftSystem, PbftLogProofs, PbftCheckpointProofs

\* The open clients may ask any server for any request.
OpenClients == ClientSends = Req \X Server

----------------------------------------------------------------------------
(* Every step of the system is a step of the cluster or leaves it alone. *)

LEMMA SystemStep ==
    ASSUME OpenClients, ClientTypeOK, [SystemNext]_systemVars
    PROVE  [Next]_vars
<1>1. ASSUME NEW i \in Server, ReceiveRequest(i) PROVE Next
  <2>1. PICK q \in requests : Up(i) /\ q.to = i /\ ProcessTransfer(i, q.m, {})
    BY <1>1 DEF ReceiveRequest
  <2>2. q.m \in Req /\ <<q.m, i>> \in ClientSends
    BY <2>1 DEF ClientTypeOK, OpenClients
  <2> QED
    BY <2>1, <2>2 DEF ClientTransfer, Ordering, Step, Next
<1>2. ASSUME NEW i \in Server, ReplicaStep(i) PROVE Next
  BY <1>2 DEF ReplicaStep, Ordering, Step, Next
<1> QED
  BY <1>1, <1>2 DEF SystemNext, systemVars

----------------------------------------------------------------------------
(* Type correctness of the clients. *)

\* Servers only add to what they told the clients.
LEMMA RepliesGrow ==
    ASSUME [Next]_vars
    PROVE  replies \subseteq replies'
<1>1. ASSUME NEW i, NEW l, NEW in, NEW out, ExecutePending(i, l, in, out)
      PROVE  replies \subseteq replies'
  BY <1>1 DEF ExecutePending
<1>2. ASSUME NEW i, NEW r, NEW in, ProcessTransfer(i, r, in)
      PROVE  replies \subseteq replies'
  BY <1>2 DEF ProcessTransfer, Ignore, AnswerAgain, ForwardToLeader, ProposeAgain, ProposeNew, execVars
<1>3. ASSUME NEW i \in Server, Ordering(i) PROVE replies \subseteq replies'
  <2>1. CASE ClientTransfer(i) \/ ForwardedTransfer(i)
    BY <1>2, <2>1 DEF ClientTransfer, ForwardedTransfer
  <2>2. CASE ProcessPrePrepare(i)
    BY <2>2 DEF ProcessPrePrepare, Ignore, execVars
  <2>3. CASE ProcessPrePrepareOk(i)
    BY <2>3 DEF ProcessPrePrepareOk, CountPrePrepareOk, Ignore, Crash, execVars
  <2>4. CASE OptimisticTimeout(i)
    BY <1>1, <2>4 DEF OptimisticTimeout, FastCommit, SlowPrepare, execVars
  <2>5. CASE ProcessPrepare(i)
    BY <2>5 DEF ProcessPrepare, Ignore, execVars
  <2>6. CASE ProcessPrepareOk(i)
    BY <1>1, <2>6 DEF ProcessPrepareOk, CountPrepareOk, Ignore, Crash, execVars
  <2>7. CASE ProcessCommit(i)
    BY <1>1, <2>7 DEF ProcessCommit, Ignore, execVars
  <2> QED
    BY <1>3, <2>1, <2>2, <2>3, <2>4, <2>5, <2>6, <2>7 DEF Ordering
<1>4. ASSUME NEW i \in Server, Checkpointing(i) PROVE replies \subseteq replies'
  BY <1>4 DEF Checkpointing, ProcessCheckpoint, Ignore, execVars
<1>5. ASSUME NEW i \in Server, ViewChanging(i) PROVE replies \subseteq replies'
  BY <1>5 DEF ViewChanging, DigestTimeout, SeqTimeout, ViewTimeout, Expire, ProcessViewChange,
              ProcessNewView, Ignore, execVars
<1> QED
  BY <1>3, <1>4, <1>5 DEF Next, Step, vars, execVars

\* doTransfers keeps the queue, the timers and the calls well-typed.
LEMMA DoTransfersType ==
    ASSUME ClientTypeOK, NEW c \in Client, NEW q \in Seq(Req), NEW v \in Views, DoTransfers(c, q, v)
    PROVE  /\ transfers' \in [Client -> Seq(Req)]
           /\ transferTimers' \in [Client -> SUBSET Req]
           /\ requests' \subseteq [m : Req, to : Server]
<1>1. transfers' \in [Client -> Seq(Req)]
  BY DEF ClientTypeOK, DoTransfers
<1>2. CASE q = <<>>
  BY <1>1, <1>2 DEF ClientTypeOK, DoTransfers
<1>3. CASE q # <<>>
  <2>1. Head(q) \in Req /\ Leader(v) \in Server
    BY <1>3, ServerFacts
  <2>2. /\ transferTimers' = [transferTimers EXCEPT ![c] = @ \cup {Head(q)}]
        /\ requests' = requests \cup {[m |-> Head(q), to |-> Leader(v)]}
    BY <1>3, Zenon DEF DoTransfers
  <2> DEFINE h == Head(q)
             l == Leader(v)
  <2> HIDE DEF h, l
  <2>3. transferTimers' \in [Client -> SUBSET Req]
    <3>1. h \in Req /\ transferTimers' = [transferTimers EXCEPT ![c] = @ \cup {h}]
      BY <2>1, <2>2 DEF h
    <3> QED
      BY <3>1 DEF ClientTypeOK
  <2>4. requests' \subseteq [m : Req, to : Server]
    <3>1. h \in Req /\ l \in Server /\ requests' = requests \cup {[m |-> h, to |-> l]}
      BY <2>1, <2>2 DEF h, l
    <3> QED
      BY <3>1 DEF ClientTypeOK
  <2> QED
    BY <1>1, <2>3, <2>4
<1> QED
  BY <1>2, <1>3

LEMMA ClientStepType ==
    ASSUME TypeOK, ClientTypeOK, NEW c \in Client, ClientStep(c), UNCHANGED vars
    PROVE  ClientTypeOK'
<1>0. replies' = replies
  BY DEF vars, execVars
<1>1. CASE ProcessProcess(c)
  <2>1. transfers[c] \o Script[c] \in Seq(Req) /\ clientView[c] \in Views
    BY ScriptAssumption DEF ClientTypeOK
  <2>2. /\ transfers' \in [Client -> Seq(Req)]
        /\ transferTimers' \in [Client -> SUBSET Req]
        /\ requests' \subseteq [m : Req, to : Server]
    BY <1>1, <2>1, DoTransfersType DEF ProcessProcess
  <2> QED
    BY <1>0, <1>1, <2>2 DEF ProcessProcess, ClientTypeOK
<1>2. CASE TransferTimeout(c)
  <2>1. PICK r \in transferTimers[c] :
           /\ \/ /\ broadcasts[c] < MaxBroadcasts
                 /\ broadcasts' = [broadcasts EXCEPT ![c] = @ + 1]
                 /\ broadcasting' = [broadcasting EXCEPT ![c] = @ \cup {r}]
              \/ UNCHANGED <<broadcasts, broadcasting>>
           /\ transferTimers' = [transferTimers EXCEPT ![c] = @ \ {r}]
           /\ UNCHANGED <<started, transfers, clientView, successes, failures, dead, requests,
                          notified, answered>>
    BY <1>2 DEF TransferTimeout
  <2>2. r \in Req
    BY DEF ClientTypeOK
  <2>3. broadcasts' \in [Client -> 0 .. MaxBroadcasts]
    <3>1. broadcasts[c] \in 0 .. MaxBroadcasts
      BY DEF ClientTypeOK
    <3>2. broadcasts[c] < MaxBroadcasts => broadcasts[c] + 1 \in 0 .. MaxBroadcasts
      BY <3>1, BroadcastAssumption
    <3>3. CASE broadcasts[c] < MaxBroadcasts /\ broadcasts' = [broadcasts EXCEPT ![c] = @ + 1]
      <4> DEFINE n == broadcasts[c] + 1
      <4>1. n \in 0 .. MaxBroadcasts /\ broadcasts' = [broadcasts EXCEPT ![c] = n]
        BY <3>2, <3>3
      <4> HIDE DEF n
      <4> QED
        BY <4>1 DEF ClientTypeOK
    <3>4. CASE UNCHANGED broadcasts
      BY <3>4 DEF ClientTypeOK
    <3> QED
      BY <2>1, <3>3, <3>4
  <2>4. broadcasting' \in [Client -> SUBSET Req]
    <3>1. CASE broadcasting' = [broadcasting EXCEPT ![c] = @ \cup {r}]
      BY <2>2, <3>1 DEF ClientTypeOK
    <3>2. CASE UNCHANGED broadcasting
      BY <3>2 DEF ClientTypeOK
    <3> QED
      BY <2>1, <3>1, <3>2
  <2>5. transferTimers' \in [Client -> SUBSET Req]
    BY <2>1 DEF ClientTypeOK
  <2> QED
    BY <1>0, <2>1, <2>3, <2>4, <2>5 DEF ClientTypeOK
<1>4. CASE TransferBroadcast(c)
  <2> DEFINE h == Head(transfers[c])
  <2>1. PICK r \in broadcasting[c] :
           /\ broadcasting' = [broadcasting EXCEPT ![c] = @ \ {r}]
           /\ \/ /\ dead' = [dead EXCEPT ![c] = TRUE]
                 /\ UNCHANGED <<requests, transferTimers>>
              \/ /\ transfers[c] # <<>>
                 /\ requests' = requests \cup {[m |-> h, to |-> j] : j \in Server}
                 /\ transferTimers' = [transferTimers EXCEPT ![c] = @ \cup {h}]
                 /\ UNCHANGED dead
           /\ UNCHANGED <<started, transfers, clientView, successes, failures, notified,
                          broadcasts, answered>>
    BY <1>4, Zenon DEF TransferBroadcast
  <2>2. transfers[c] # <<>> => h \in Req
    <3>1. transfers[c] \in Seq(Req)
      BY DEF ClientTypeOK
    <3> QED
      BY <3>1
  <2> HIDE DEF h
  <2>3. broadcasting' \in [Client -> SUBSET Req]
    BY <2>1 DEF ClientTypeOK
  <2>4. /\ requests' \subseteq [m : Req, to : Server]
        /\ transferTimers' \in [Client -> SUBSET Req]
        /\ dead' \in [Client -> BOOLEAN]
    <3>1. CASE dead' = [dead EXCEPT ![c] = TRUE] /\ UNCHANGED <<requests, transferTimers>>
      BY <3>1 DEF ClientTypeOK
    <3>2. CASE /\ transfers[c] # <<>>
               /\ requests' = requests \cup {[m |-> h, to |-> j] : j \in Server}
               /\ transferTimers' = [transferTimers EXCEPT ![c] = @ \cup {h}]
               /\ UNCHANGED dead
      <4>1. transferTimers' \in [Client -> SUBSET Req]
        BY <2>2, <3>2 DEF ClientTypeOK
      <4>2. requests' \subseteq [m : Req, to : Server] /\ dead' \in [Client -> BOOLEAN]
        BY <2>2, <3>2 DEF ClientTypeOK
      <4> QED
        BY <4>1, <4>2
    <3> QED
      BY <2>1, <3>1, <3>2
  <2> QED
    BY <1>0, <2>1, <2>3, <2>4 DEF ClientTypeOK
<1>3. CASE ProcessNotify(c)
  <2> DEFINE front == Head(transfers[c])
             view(a) == ViewOf(c, a)
             Took(good) == answered' = [answered EXCEPT ![c] =
                                           Append(@, [m |-> front, ack |-> Enough(good)])]
  <2>1. PICK a \in replies \ notified :
           /\ notified' = notified \cup {a}
           /\ clientView' = [clientView EXCEPT ![c] = view(a)]
           /\ \E good, bad \in SUBSET Server :
                 \/ /\ transfers[c] # <<>>
                    /\ Took(good)
                    /\ successes' = [successes EXCEPT ![c] = {}]
                    /\ failures' = [failures EXCEPT ![c] = {}]
                    /\ DoTransfers(c, Tail(transfers[c]), view(a))
                 \/ /\ successes' = [successes EXCEPT ![c] = good]
                    /\ failures' = [failures EXCEPT ![c] = bad]
                    /\ UNCHANGED <<transfers, transferTimers, requests, answered>>
           /\ UNCHANGED <<started, broadcasting, dead, broadcasts>>
    <3>1. PICK a \in replies \ notified :
             LET counts  == transfers[c] # <<>> /\ front.timestamp = a.m.timestamp
                 good    == IF counts /\ a.ack THEN successes[c] \cup {a.from} ELSE successes[c]
                 bad     == IF counts /\ ~a.ack THEN failures[c] \cup {a.from} ELSE failures[c]
             IN  /\ notified' = notified \cup {a}
                 /\ clientView' = [clientView EXCEPT ![c] = view(a)]
                 /\ \/ /\ transfers[c] # <<>>
                       /\ Took(good)
                       /\ successes' = [successes EXCEPT ![c] = {}]
                       /\ failures' = [failures EXCEPT ![c] = {}]
                       /\ DoTransfers(c, Tail(transfers[c]), view(a))
                    \/ /\ successes' = [successes EXCEPT ![c] = good]
                       /\ failures' = [failures EXCEPT ![c] = bad]
                       /\ UNCHANGED <<transfers, transferTimers, requests, answered>>
                 /\ UNCHANGED <<started, broadcasting, dead, broadcasts>>
      BY <1>3 DEF ProcessNotify
    <3>2. a.from \in Server /\ successes[c] \subseteq Server /\ failures[c] \subseteq Server
      BY DEF TypeOK, Reply, ClientTypeOK
    <3> HIDE DEF view, Took
    <3> QED
      BY <3>1, <3>2
  <2>2. view(a) \in Views
    <3>1. clientView[c] \in Views /\ a.view \in Views
      BY DEF ClientTypeOK, TypeOK, Reply
    <3>2. clientView[c] \in Int /\ a.view \in Int
      BY <3>1 DEF Views
    <3> QED
      BY <3>1, <3>2, MaxOfTwo DEF ViewOf
  <2> HIDE DEF view
  <2>3. /\ clientView' \in [Client -> Views]
        /\ notified' \subseteq replies'
        /\ successes' \in [Client -> SUBSET Server]
        /\ failures' \in [Client -> SUBSET Server]
    BY <1>0, <2>1, <2>2, ZenonT(60) DEF ClientTypeOK
  <2>4. /\ transfers' \in [Client -> Seq(Req)]
        /\ transferTimers' \in [Client -> SUBSET Req]
        /\ requests' \subseteq [m : Req, to : Server]
        /\ answered' \in [Client -> Seq([m : Req, ack : BOOLEAN])]
    <3>1. CASE \E good \in SUBSET Server : /\ transfers[c] # <<>> /\ Took(good)
                                           /\ DoTransfers(c, Tail(transfers[c]), view(a))
      <4>1. transfers[c] \in Seq(Req) /\ transfers[c] # <<>>
        BY <3>1 DEF ClientTypeOK
      <4>2. front \in Req /\ Tail(transfers[c]) \in Seq(Req)
        BY <4>1
      <4>3. PICK good : Took(good)
        BY <3>1
      <4>4. [m |-> front, ack |-> Enough(good)] \in [m : Req, ack : BOOLEAN]
        BY <4>2 DEF Enough
      <4>5. answered' \in [Client -> Seq([m : Req, ack : BOOLEAN])]
        <5> DEFINE x == [m |-> front, ack |-> Enough(good)]
                   more == Append(answered[c], x)
        <5>1. answered[c] \in Seq([m : Req, ack : BOOLEAN]) /\ x \in [m : Req, ack : BOOLEAN]
          BY <4>4 DEF ClientTypeOK
        <5>2. more \in Seq([m : Req, ack : BOOLEAN])
          <6> HIDE DEF x
          <6> QED
            BY <5>1
        <5>3. answered' = [answered EXCEPT ![c] = more]
          BY <4>3
        <5> HIDE DEF x, more
        <5> QED
          BY <5>2, <5>3 DEF ClientTypeOK
      <4> QED
        BY <2>2, <3>1, <4>2, <4>5, DoTransfersType
    <3>2. CASE UNCHANGED <<transfers, transferTimers, requests, answered>>
      BY <3>2 DEF ClientTypeOK
    <3> QED
      BY <2>1, <3>1, <3>2
  <2> QED
    BY <2>1, <2>3, <2>4 DEF ClientTypeOK
<1> QED
  BY <1>1, <1>2, <1>3, <1>4 DEF ClientStep

SystemTypeOK == TypeOK /\ ClientTypeOK

LEMMA SystemInitType == SystemInit => SystemTypeOK
<1>1. MaxView \in Nat \ {0} /\ MaxBroadcasts \in Nat
  BY BoundAssumption, BroadcastAssumption
<1> QED
  BY <1>1, InitType DEF SystemInit, ClientInit, ClientTypeOK, SystemTypeOK, Views

LEMMA SystemNextType ==
    ASSUME OpenClients, SystemTypeOK, [SystemNext]_systemVars
    PROVE  SystemTypeOK'
<1>1. [Next]_vars
  BY SystemStep DEF SystemTypeOK
<1>2. TypeOK'
  BY <1>1, NextType DEF SystemTypeOK
<1>3. notified \subseteq replies'
  BY <1>1, RepliesGrow DEF SystemTypeOK, ClientTypeOK
<1>4. ASSUME UNCHANGED clientVars PROVE ClientTypeOK'
  BY <1>3, <1>4 DEF SystemTypeOK, ClientTypeOK, clientVars
<1>5. ASSUME NEW i \in Server, ReceiveRequest(i) PROVE ClientTypeOK'
  BY <1>3, <1>5 DEF ReceiveRequest, SystemTypeOK, ClientTypeOK
<1>6. ASSUME NEW c \in Client, ClientStep(c) /\ UNCHANGED vars PROVE ClientTypeOK'
  BY <1>6, ClientStepType DEF SystemTypeOK
<1> QED
  BY <1>2, <1>4, <1>5, <1>6 DEF SystemNext, SystemTypeOK, systemVars

\* Clients keep only transfers of the script, never believe a view no server reached,
\* and record each answer they counted among those that were sent.
THEOREM SystemTypeCorrect ==
    ASSUME OpenClients
    PROVE  SystemSpec => [](TypeOK /\ ClientTypeOK)
<1>1. SystemTypeOK /\ [SystemNext]_systemVars => SystemTypeOK'
  BY SystemNextType
<1>2. SystemTypeOK => TypeOK /\ ClientTypeOK
  BY DEF SystemTypeOK
<1> QED
  BY <1>1, <1>2, SystemInitType, PTL DEF SystemSpec

\* The client program is one of the environments the cluster was verified in: with
\* it, the servers behave as PbftReplicas says they may.
THEOREM SystemImplementsReplicas ==
    ASSUME OpenClients
    PROVE  SystemSpec => Spec
<1>1. TypeOK /\ ClientTypeOK /\ [SystemNext]_systemVars => [Next]_vars
  BY SystemStep
<1>2. SystemInit => Init
  BY DEF SystemInit
<1> QED
  BY <1>1, <1>2, SystemTypeCorrect, PTL DEF SystemSpec, Spec

\* With the client program in place, too, two servers that accepted a pre-prepare for
\* a number in one view hold the same request there.
THEOREM SystemAgreement ==
    ASSUME OpenClients
    PROVE  SystemSpec => []AgreementInView
  BY SystemImplementsReplicas, Agreement, PTL

\* The servers of the whole system, too, implement the logs of PbftLog.
THEOREM SystemImplementsLog ==
    ASSUME OpenClients
    PROVE  SystemSpec => ImplementsLog
  BY SystemImplementsReplicas, Refinement, PTL

----------------------------------------------------------------------------
(* What servers tell the clients.  The inductive invariant: digests lead to a  *)
(* number that was given to the request, whatever is executed was proposed     *)
(* under its number, and every reply reports a result that stands.             *)

OnlyRequests == \A p \in proposed : p.digest \in Req

ProposedFor(s, r) == \E p \in proposed : p.seq = s /\ p.digest = r
DigestsAreProposed == \A i \in Server, r \in Req :
    Known(i, r) => ProposedFor(digestToEntry[i][r], r)
ExecutedHasResult == \A i \in Server, s \in Seqs :
    log[i][s].status = "EXECUTED" => executed[i][s] # NoReq
ExecutedIsProposed == \A i \in Server, s \in Seqs :
    executed[i][s] # NoReq => ProposedFor(s, executed[i][s])

\* The reply is the result of what its sender executed under a number the request was
\* given.  (It need not be the only request that was given the number.)
Reported(a) == \E s \in Seqs :
    /\ executed[a.from][s] # NoReq /\ Succeeds(executed[a.from], s) = a.ack
    /\ ProposedFor(s, a.m)

\* The first leader, with all its digests, gives a request one number.
FirstLeads == (\A j \in Server : currentView[j] = 1) /\ lowWatermark[Leader(1)] = 0
GivenOneNumber == FirstLeads =>
    \A p \in proposed : digestToEntry[Leader(1)][p.digest] = p.seq

ReportInv ==
    /\ OnlyRequests
    /\ DigestsAreProposed
    /\ ExecutedHasResult
    /\ ExecutedIsProposed
    /\ \A a \in replies : Reported(a)
    /\ GivenOneNumber

LEMMA FirstLeader == Leader(1) \in Server /\ 1 \in Views
<1>1. 1 \in Views
  BY BoundAssumption DEF Views
<1> QED
  BY <1>1, ServerFacts

\* Results stand: later steps execute only numbers beyond the last.
LEMMA ReportLasts ==
    ASSUME Inv, Inv', Frozen, proposed \subseteq proposed', NEW a \in replies, Reported(a)
    PROVE  Reported(a)'
<1>1. PICK s \in Seqs : /\ executed[a.from][s] # NoReq /\ Succeeds(executed[a.from], s) = a.ack
                        /\ ProposedFor(s, a.m)
  BY DEF Reported
<1>2. a.from \in Server
  BY DEF Inv, TypeOK, Reply
<1>3. PICK g : g = executed[a.from]
  OBVIOUS
<1>4. PICK h : h = executed'[a.from]
  OBVIOUS
<1>5. s \in Int /\ s - 1 \in Int /\ lastExecuted[a.from] \in Int
  BY <1>2 DEF Inv, TypeOK, Seqs
<1>6. s <= lastExecuted[a.from]
  BY <1>1, <1>2 DEF Inv, LogInv, ExecutedIsPast
<1>7. h[s] = g[s]
  BY <1>2, <1>3, <1>4, <1>6 DEF Frozen
<1>8. UpTo(h, s - 1) = UpTo(g, s - 1)
  <2>1. lastExecuted[a.from] >= s - 1
    BY <1>5, <1>6
  <2> QED
    BY <1>2, <1>3, <1>4, <1>5, <2>1, PrefixLasts DEF Inv
<1>9. Succeeds(h, s) = Succeeds(g, s)
  BY <1>7, <1>8 DEF Succeeds
<1>10. ProposedFor(s, a.m)'
  BY <1>1 DEF ProposedFor
<1> QED
  BY <1>1, <1>3, <1>4, <1>7, <1>9, <1>10 DEF Reported

\* A step keeps the invariant when everything it makes is in order.
LEMMA ReportsKept ==
    ASSUME Inv, Inv', ReportInv, Frozen, proposed \subseteq proposed',
           \A p \in proposed' : p \in proposed \/ p.digest \in Req,
           \A i \in Server, r \in Req :
              digestToEntry'[i][r] \in {-1, digestToEntry[i][r]} \/ ProposedFor(digestToEntry[i][r], r)',
           \A i \in Server, s \in Seqs : log'[i][s].status = "EXECUTED" =>
              log[i][s].status = "EXECUTED" \/ executed'[i][s] # NoReq,
           \A i \in Server, s \in Seqs :
              executed'[i][s] = executed[i][s] \/ ProposedFor(s, executed[i][s])',
           \A a \in replies' : a \in replies \/ Reported(a)',
           GivenOneNumber'
    PROVE  ReportInv'
<1> USE DEF ReportInv
<1>1. OnlyRequests'
  BY DEF OnlyRequests
<1>2. ASSUME NEW s, NEW r, ProposedFor(s, r) PROVE ProposedFor(s, r)'
  BY <1>2 DEF ProposedFor
<1>3. DigestsAreProposed'
  BY <1>2 DEF DigestsAreProposed, Known
<1>4. ExecutedHasResult'
  <2> SUFFICES ASSUME NEW i \in Server, NEW s \in Seqs, log[i][s].status = "EXECUTED"
               PROVE  executed'[i][s] # NoReq
    BY DEF ExecutedHasResult
  <2>1. executed[i][s] # NoReq
    BY DEF ExecutedHasResult
  <2>2. s <= lastExecuted[i]
    BY <2>1 DEF Inv, LogInv, ExecutedIsPast
  <2> QED
    BY <2>1, <2>2 DEF Frozen
<1>5. ExecutedIsProposed'
  BY <1>2 DEF ExecutedIsProposed
<1>6. \A a \in replies' : Reported(a)'
  BY ReportLasts
<1> QED
  BY <1>1, <1>3, <1>4, <1>5, <1>6

\* Views and watermarks only go up, so the first leader led before, with the same digests.
LEMMA FirstLed ==
    ASSUME Inv, Inv', Quiet, FirstLeads',
           \A i \in Server : lowWatermark'[i] = 0 =>
              lowWatermark[i] = 0 /\ digestToEntry'[i] = digestToEntry[i]
    PROVE  FirstLeads /\ digestToEntry'[Leader(1)] = digestToEntry[Leader(1)]
<1>1. ASSUME NEW j \in Server PROVE currentView[j] = 1
  <2>1. currentView[j] \in Int /\ currentView[j] >= 1
    BY DEF Inv, TypeOK, Views
  <2>2. currentView'[j] >= currentView[j] /\ currentView'[j] = 1
    BY DEF Quiet, FirstLeads
  <2> QED
    BY <2>1, <2>2
<1> QED
  BY <1>1, FirstLeader DEF FirstLeads

\* Steps that execute nothing and answer nothing.
LEMMA IdleReports ==
    ASSUME Inv, Inv', ReportInv, Quiet, UNCHANGED <<executed, lastExecuted, replies>>,
           \A i \in Server, s \in Seqs :
              log'[i][s].status = "EXECUTED" => log[i][s].status = "EXECUTED",
           \A i \in Server : lowWatermark'[i] = 0 =>
              lowWatermark[i] = 0 /\ digestToEntry'[i] = digestToEntry[i]
    PROVE  ReportInv'
<1>1. Frozen
  BY FrozenIfUnchanged DEF Inv
<1>2. GivenOneNumber'
  BY FirstLed DEF ReportInv, GivenOneNumber, Quiet
<1>3. \A i \in Server, r \in Req : digestToEntry'[i][r] \in {-1, digestToEntry[i][r]}
  BY DEF Quiet
<1>4. proposed' = proposed
  BY DEF Quiet
<1> QED
  BY <1>1, <1>2, <1>3, <1>4, ReportsKept

\* executePending: what is executed was proposed under its number, and the replies tell of it.
LEMMA ExecutionReports ==
    ASSUME Inv, Inv', ReportInv, Quiet, NEW i \in Server, NEW s \in Seqs, NEW e \in Entry,
           NEW in, NEW out, log[i][s].status # "NIL", SameAssignment(log[i][s], e),
           e.status = "COMMITTED", ExecutePending(i, [log[i] EXCEPT ![s] = e], in, out),
           UNCHANGED <<digestToEntry, lowWatermark>>
    PROVE  ReportInv'
<1> DEFINE l == [log[i] EXCEPT ![s] = e]
           S == Executable(l, lastExecuted[i], currentSequence[i])
           h == [t \in Seqs |-> IF t \in S THEN l[t].m ELSE executed[i][t]]
<1> USE DEF Inv
<1>1. lastExecuted[i] \in Int /\ lastExecuted[i] >= -1 /\ currentSequence[i] \in Int
      /\ currentSequence[i] <= MaxSeq /\ MaxSeq \in Nat
  BY BoundAssumption DEF TypeOK
<1>2. S \subseteq Seqs /\ \A t \in S : t > lastExecuted[i]
  BY <1>1 DEF Executable, Seqs
<1>3. /\ l \in [Seqs -> Entry]
      /\ \A t \in S : l[t].status = "COMMITTED"
      /\ \A t \in Seqs : l[t].m = log[i][t].m /\ (l[t].status = "NIL" <=> log[i][t].status = "NIL")
      /\ \A t \in Seqs : l[t].status = "EXECUTED" => log[i][t].status = "EXECUTED"
  BY DEF TypeOK, SameAssignment, Executable
<1>4. /\ log' = [log EXCEPT ![i] =
                    [t \in Seqs |-> IF t \in S THEN [l[t] EXCEPT !.status = "EXECUTED"] ELSE l[t]]]
      /\ executed' = [executed EXCEPT ![i] = h]
      /\ lastExecuted' = [lastExecuted EXCEPT ![i] = IF S = {} THEN @ ELSE Max(S)]
      /\ replies' = replies \cup
            {[from |-> i, view |-> currentView[i], m |-> h[t], ack |-> Succeeds(h, t)] : t \in S}
  BY DEF ExecutePending
<1> HIDE DEF S, l
<1>5. ASSUME NEW t \in S PROVE h[t] # NoReq /\ ProposedFor(t, h[t])
  <2>1. h[t] = log[i][t].prePrepare.digest
    BY <1>2, <1>3 DEF LogInv, EntriesHoldDigests
  <2>2. log[i][t].status # "NIL"
    BY <1>2, <1>3
  <2>3. log[i][t].prePrepare \in proposed /\ log[i][t].prePrepare.seq = t
    BY <1>2, <2>2 DEF AssignmentInv, EntriesAreProposed
  <2>4. h[t] \in Req
    BY <2>1, <2>3 DEF ReportInv, OnlyRequests
  <2> QED
    BY <2>1, <2>3, <2>4, ReqAssumption DEF ProposedFor
<1>6. \A t \in Seqs : t \notin S => h[t] = executed[i][t]
  OBVIOUS
<1> HIDE DEF h
<1>7. /\ executed'[i] = h
      /\ S = {} => lastExecuted'[i] = lastExecuted[i]
      /\ S # {} => lastExecuted'[i] = Max(S)
      /\ \A j \in Server : j # i => /\ log'[j] = log[j] /\ executed'[j] = executed[j]
                                   /\ lastExecuted'[j] = lastExecuted[j]
  BY <1>4 DEF TypeOK
<1>8. proposed' = proposed
  BY DEF Quiet
<1>9. Frozen
  <2> SUFFICES ASSUME NEW j \in Server
               PROVE  /\ lastExecuted'[j] >= lastExecuted[j]
                      /\ \A t \in Seqs : t <= lastExecuted[j] => executed'[j][t] = executed[j][t]
    BY DEF Frozen
  <2>1. CASE j # i
    <3>1. lastExecuted'[j] = lastExecuted[j] /\ executed'[j] = executed[j] /\ lastExecuted[j] \in Int
      BY <1>7, <2>1 DEF TypeOK
    <3> QED
      BY <3>1
  <2>2. CASE j = i
    <3>1. lastExecuted'[i] >= lastExecuted[i]
      <4>1. CASE S # {}
        <5>1. Max(S) \in S
          <6>1. S \in SUBSET Int /\ MaxSeq \in Int /\ \A x \in S : x <= MaxSeq
            BY <1>1, <1>2 DEF Seqs
          <6> QED
            BY <4>1, <6>1, MaxOfBounded
        <5>2. Max(S) > lastExecuted[i]
          BY <1>2, <5>1
        <5>3. Max(S) \in Int
          <6>1. Max(S) \in Seqs
            BY <1>2, <5>1
          <6> QED
            BY <6>1 DEF Seqs
        <5> QED
          BY <1>1, <1>7, <4>1, <5>2, <5>3
      <4> QED
        BY <1>1, <1>7, <4>1
    <3>2. ASSUME NEW t \in Seqs, t <= lastExecuted[i] PROVE h[t] = executed[i][t]
      <4>1. t \notin S
        BY <1>1, <1>2, <3>2 DEF Seqs
      <4> QED
        BY <1>6, <4>1
    <3> QED
      BY <1>7, <2>2, <3>1, <3>2
  <2> QED
    BY <2>1, <2>2
<1>10. ASSUME NEW j \in Server, NEW t \in Seqs, log'[j][t].status = "EXECUTED"
       PROVE  log[j][t].status = "EXECUTED" \/ executed'[j][t] # NoReq
  <2>1. CASE j = i /\ t \notin S
    <3>1. log'[i][t] = l[t]
      BY <1>4, <2>1 DEF TypeOK
    <3> QED
      BY <1>3, <1>10, <2>1, <3>1
  <2> QED
    BY <1>5, <1>7, <1>10, <2>1
<1>11. ASSUME NEW j \in Server, NEW t \in Seqs
       PROVE  executed'[j][t] = executed[j][t] \/ ProposedFor(t, executed[j][t])'
  <2>1. CASE j = i /\ t \in S
    <3>1. ProposedFor(t, h[t])
      BY <1>5, <2>1
    <3> QED
      BY <1>7, <1>8, <2>1, <3>1 DEF ProposedFor
  <2> QED
    BY <1>6, <1>7, <2>1
<1>12. ASSUME NEW a \in replies' PROVE a \in replies \/ Reported(a)'
  <2> SUFFICES ASSUME NEW t \in S,
                      a = [from |-> i, view |-> currentView[i], m |-> h[t], ack |-> Succeeds(h, t)]
               PROVE  Reported(a)'
    BY <1>4
  <2>1. a.from = i /\ a.m = h[t] /\ a.ack = Succeeds(h, t)
    OBVIOUS
  <2>2. h[t] # NoReq /\ ProposedFor(t, h[t]) /\ t \in Seqs
    BY <1>2, <1>5
  <2>3. ProposedFor(t, a.m)'
    BY <1>8, <2>1, <2>2 DEF ProposedFor
  <2> QED
    BY <1>7, <2>1, <2>2, <2>3 DEF Reported
<1>13. GivenOneNumber'
  BY <1>8, FirstLed DEF ReportInv, GivenOneNumber
<1> QED
  BY <1>8, <1>9, <1>10, <1>11, <1>12, <1>13, ReportsKept

----------------------------------------------------------------------------
(* The handlers. *)

LEMMA SameDigestsReport ==
    ASSUME Inv, Inv', ReportInv, Quiet,
           UNCHANGED <<executed, lastExecuted, replies, lowWatermark, digestToEntry>>,
           \A i \in Server, s \in Seqs :
              log'[i][s].status = "EXECUTED" => log[i][s].status = "EXECUTED"
    PROVE  ReportInv'
  BY IdleReports

LEMMA EntryReports ==
    ASSUME Inv, Inv', ReportInv, Quiet, NEW i \in Server, NEW s \in Seqs, NEW e,
           log' = [log EXCEPT ![i][s] = e], e.status = "EXECUTED" => log[i][s].status = "EXECUTED",
           UNCHANGED <<executed, lastExecuted, replies, lowWatermark, digestToEntry>>
    PROVE  ReportInv'
<1>1. \A j \in Server, t \in Seqs : log'[j][t] = IF j = i /\ t = s THEN e ELSE log[j][t]
  BY DEF Inv, TypeOK
<1> QED
  BY <1>1, SameDigestsReport

LEMMA IgnoreReports ==
    ASSUME Inv, Inv', ReportInv, NEW in, Ignore(in)
    PROVE  ReportInv'
<1>1. Quiet
  BY QuietIgnore DEF Inv
<1> QED
  BY <1>1, SameDigestsReport DEF Ignore, logVars, execVars, stableVars

LEMMA CrashReports ==
    ASSUME Inv, Inv', ReportInv, NEW i, NEW in, Crash(i, in)
    PROVE  ReportInv'
<1>1. Quiet
  BY QuietCrash DEF Inv
<1> QED
  BY <1>1, SameDigestsReport DEF Crash, logVars, execVars, stableVars

LEMMA AnswerAgainReports ==
    ASSUME Inv, Inv', ReportInv, NEW i \in Server, NEW r \in Req, NEW in, Known(i, r),
           log[i][digestToEntry[i][r]].status = "EXECUTED", AnswerAgain(i, r, in)
    PROVE  ReportInv'
<1>1. PICK s : s = digestToEntry[i][r]
  OBVIOUS
<1>2. s \in Seqs
  BY <1>1, NumberFacts DEF Inv
<1>3. PICK a : a = [from |-> i, view |-> currentView[i], m |-> r, ack |-> Succeeds(executed[i], s)]
  OBVIOUS
<1>4. /\ replies' = replies \cup {a}
      /\ UNCHANGED <<log, executed, lastExecuted, proposed, currentView, digestToEntry, lowWatermark>>
  BY <1>1, <1>3 DEF AnswerAgain, viewVars, logVars, stableVars
<1>5. Reported(a)
  <2>1. executed[i][s] # NoReq
    BY <1>1, <1>2 DEF ReportInv, ExecutedHasResult
  <2>2. ProposedFor(s, r)
    BY <1>1 DEF ReportInv, DigestsAreProposed
  <2> QED
    BY <1>2, <1>3, <2>1, <2>2 DEF Reported
<1>6. Reported(a)'
  BY <1>4, <1>5 DEF Reported, ProposedFor
<1>7. GivenOneNumber'
  BY <1>4 DEF ReportInv, GivenOneNumber, FirstLeads
<1>8. Frozen
  BY <1>4, FrozenIfUnchanged DEF Inv
<1> QED
  BY <1>4, <1>6, <1>7, <1>8, ReportsKept

LEMMA ForwardReports ==
    ASSUME Inv, Inv', ReportInv, NEW i \in Server, NEW r \in Req, NEW in, ForwardToLeader(i, r, in)
    PROVE  ReportInv'
<1>1. Quiet
  BY QuietIfUnchanged DEF Inv, ForwardToLeader, Exchange, viewVars, logVars
<1> QED
  BY <1>1, SameDigestsReport DEF ForwardToLeader, logVars, execVars, stableVars

LEMMA ProposeNewReports ==
    ASSUME Inv, Inv', ReportInv, NEW i \in Server, NEW r \in Req, NEW in,
           IsLeader(i), ~Known(i, r), ProposeNew(i, r, in)
    PROVE  ReportInv'
<1>1. PICK s \in Seqs : s = NextSequence(i)
  BY DEF ProposeNew
<1>2. PICK p : p = [view |-> currentView[i], seq |-> s, digest |-> r]
  OBVIOUS
<1>3. PICK e : e = NewEntry(r, p, i, NoVotes)
  OBVIOUS
<1>4. /\ log' = [log EXCEPT ![i][s] = e] /\ e.status = "PRE_PREPARED"
      /\ digestToEntry' = [digestToEntry EXCEPT ![i][r] = s]
      /\ proposed' = proposed \cup {p} /\ p.seq = s /\ p.digest = r
      /\ UNCHANGED <<currentView, executed, lastExecuted, replies, lowWatermark>>
  BY <1>1, <1>2, <1>3 DEF ProposeNew, NewEntry, viewVars, execVars, stableVars
<1>5. \A j \in Server, t \in Seqs : log'[j][t] = IF j = i /\ t = s THEN e ELSE log[j][t]
  BY <1>4 DEF Inv, TypeOK
<1>6. \A j \in Server, q \in Req :
         digestToEntry'[j][q] = IF j = i /\ q = r THEN s ELSE digestToEntry[j][q]
  BY <1>4 DEF Inv, TypeOK
<1>7. GivenOneNumber'
  <2> SUFFICES ASSUME FirstLeads', NEW q \in proposed'
               PROVE  digestToEntry'[Leader(1)][q.digest] = q.seq
    BY DEF GivenOneNumber
  <2>1. FirstLeads
    BY <1>4 DEF FirstLeads
  <2>2. i = Leader(1)
    BY <2>1 DEF FirstLeads, IsLeader
  <2>3. CASE q = p
    BY <1>4, <1>6, <2>2, <2>3
  <2>4. CASE q \in proposed
    <3>1. q.digest \in Req /\ digestToEntry[i][q.digest] = q.seq /\ q.seq \in Seqs
      BY <2>1, <2>2, <2>4 DEF ReportInv, GivenOneNumber, OnlyRequests, Inv, AssignmentInv,
                              LeadersKeepAssignments
    <3>2. q.digest # r
      BY <3>1, NumberFacts DEF Known, Inv
    <3> QED
      BY <1>6, <2>2, <3>1, <3>2
  <2> QED
    BY <1>4, <2>3, <2>4
<1>8. \A j \in Server, q \in Req :
         digestToEntry'[j][q] \in {-1, digestToEntry[j][q]} \/ ProposedFor(digestToEntry[j][q], q)'
  <2>1. ProposedFor(digestToEntry[i][r], r)'
    BY <1>4, <1>6 DEF ProposedFor
  <2> QED
    BY <1>6, <2>1
<1>9. Frozen
  BY <1>4, FrozenIfUnchanged DEF Inv
<1> QED
  BY <1>4, <1>5, <1>7, <1>8, <1>9, ReportsKept

LEMMA ProposeAgainReports ==
    ASSUME Inv, Inv', ReportInv, NEW i \in Server, NEW r \in Req, NEW in,
           Known(i, r), ProposeAgain(i, r, in)
    PROVE  ReportInv'
<1>1. PICK s \in Seqs : s = digestToEntry[i][r]
  BY NumberFacts DEF Inv
<1>2. PICK o : o = log[i][s]
  OBVIOUS
<1>3. PICK p : p = [o.prePrepare EXCEPT !.view = currentView[i]]
  OBVIOUS
<1>4. PICK e : e = [o EXCEPT !.prePrepare = p, !.from = i, !.prepares = NoVotes, !.commits = NoVotes]
  OBVIOUS
<1>5. o \in Entry /\ o.prePrepare \in proposed /\ o.prePrepare.seq = s /\ o.prePrepare \in Context
  <2>1. o.status # "NIL"
    BY <1>1, <1>2 DEF Inv, AssignmentInv, DigestsHaveEntries
  <2> QED
    BY <1>2, <2>1, EntryAt DEF Inv, AssignmentInv, EntriesAreProposed
<1>6. /\ log' = [log EXCEPT ![i][s] = e] /\ proposed' = proposed \cup {p}
      /\ UNCHANGED <<currentView, digestToEntry, executed, lastExecuted, replies, lowWatermark>>
  BY <1>1, <1>2, <1>3, <1>4 DEF ProposeAgain, viewVars, execVars, stableVars
<1>7. e.status = o.status /\ p.seq = s /\ p.digest = o.prePrepare.digest
  BY <1>3, <1>4, <1>5 DEF Entry, Context
<1>8. \A j \in Server, t \in Seqs : log'[j][t] = IF j = i /\ t = s THEN e ELSE log[j][t]
  BY <1>6 DEF Inv, TypeOK
<1>9. GivenOneNumber'
  BY <1>5, <1>6, <1>7 DEF ReportInv, GivenOneNumber, FirstLeads
<1>10. p.digest \in Req
  BY <1>5, <1>7 DEF ReportInv, OnlyRequests
<1>11. Frozen
  BY <1>6, FrozenIfUnchanged DEF Inv
<1> QED
  BY <1>2, <1>6, <1>7, <1>8, <1>9, <1>10, <1>11, ReportsKept

LEMMA TransferReports ==
    ASSUME Inv, Inv', ReportInv, NEW i \in Server, NEW r \in Req, NEW in, ProcessTransfer(i, r, in)
    PROVE  ReportInv'
<1>1. \/ Ignore(in)
      \/ /\ Known(i, r) /\ log[i][digestToEntry[i][r]].status = "EXECUTED"
         /\ AnswerAgain(i, r, in)
      \/ ForwardToLeader(i, r, in)
      \/ Known(i, r) /\ ProposeAgain(i, r, in)
      \/ IsLeader(i) /\ ~Known(i, r) /\ ProposeNew(i, r, in)
  BY DEF ProcessTransfer
<1> QED
  BY <1>1, IgnoreReports, AnswerAgainReports, ForwardReports, ProposeAgainReports, ProposeNewReports

LEMMA PrePrepareReports ==
    ASSUME Inv, Inv', ReportInv, NEW i \in Server, ProcessPrePrepare(i)
    PROVE  ReportInv'
<1>1. PICK m \in net :
         /\ Receive(i, m, "PRE_PREPARE")
         /\ \/ Ignore({m})
            \/ /\ AcceptsPrePrepare(i, m)
               /\ UNCHANGED <<log, digestToEntry>> \/ StorePrePrepare(i, m)
               /\ UNCHANGED <<viewVars, execVars, stableVars, proposed>>
  BY DEF ProcessPrePrepare
<1>2. ASSUME UNCHANGED <<log, digestToEntry>>, UNCHANGED <<viewVars, execVars, stableVars, proposed>>
      PROVE  ReportInv'
  <2>1. /\ Frozen
        /\ UNCHANGED <<log, digestToEntry, currentView, executed, replies, proposed, lowWatermark>>
    BY <1>2, FrozenIfUnchanged DEF Inv, viewVars, execVars, stableVars
  <2>2. GivenOneNumber'
    BY <2>1 DEF ReportInv, GivenOneNumber, FirstLeads
  <2> QED
    BY <2>1, <2>2, ReportsKept
<1>3. ASSUME AcceptsPrePrepare(i, m), StorePrePrepare(i, m),
             UNCHANGED <<viewVars, execVars, stableVars, proposed>>
      PROVE  ReportInv'
  <2>1. PICK p \in proposed : p = m.data
    BY <1>1 DEF Inv, AssignmentInv, PrePreparesAreProposed, Receive
  <2>2. PICK s \in Seqs : s = p.seq
    BY DEF Inv, AssignmentInv, LeadersKeepAssignments
  <2>3. PICK r \in Req : r = p.digest
    BY DEF ReportInv, OnlyRequests
  <2>4. PICK e : e = NewEntry(m.m, m.data, m.from, AddVotes(NoVotes, {i}, m.data.view))
    OBVIOUS
  <2>5. /\ log' = [log EXCEPT ![i][s] = e] /\ e.status = "PRE_PREPARED"
        /\ digestToEntry' = [digestToEntry EXCEPT ![i][r] = s]
        /\ UNCHANGED <<currentView, executed, lastExecuted, replies, proposed, lowWatermark>>
    BY <1>3, <2>1, <2>2, <2>3, <2>4
       DEF AcceptsPrePrepare, StorePrePrepare, NewEntry, viewVars, execVars, stableVars
  <2>6. \A j \in Server, t \in Seqs : log'[j][t] = IF j = i /\ t = s THEN e ELSE log[j][t]
    BY <2>5 DEF Inv, TypeOK
  <2>7. \A j \in Server, q \in Req :
           digestToEntry'[j][q] = IF j = i /\ q = r THEN s ELSE digestToEntry[j][q]
    BY <2>5 DEF Inv, TypeOK
  <2>8. GivenOneNumber'
    <3> SUFFICES ASSUME FirstLeads', NEW q \in proposed'
                 PROVE  digestToEntry'[Leader(1)][q.digest] = q.seq
      BY DEF GivenOneNumber
    <3>1. FirstLeads /\ q \in proposed
      BY <2>5 DEF FirstLeads
    <3>2. q.digest \in Req /\ digestToEntry[Leader(1)][q.digest] = q.seq
      BY <3>1 DEF ReportInv, GivenOneNumber, OnlyRequests
    <3>3. digestToEntry[Leader(1)][r] = s
      BY <2>2, <2>3, <3>1 DEF ReportInv, GivenOneNumber
    <3> QED
      BY <2>7, <3>2, <3>3, FirstLeader
  <2>9. \A j \in Server, q \in Req :
           digestToEntry'[j][q] \in {-1, digestToEntry[j][q]} \/ ProposedFor(digestToEntry[j][q], q)'
    <3>1. ProposedFor(digestToEntry[i][r], r)'
      BY <2>2, <2>3, <2>5, <2>7 DEF ProposedFor
    <3> QED
      BY <2>7, <3>1
  <2>10. Frozen
    BY <2>5, FrozenIfUnchanged DEF Inv
  <2> QED
    BY <2>5, <2>6, <2>8, <2>9, <2>10, ReportsKept
<1> QED
  BY <1>1, <1>2, <1>3, IgnoreReports

LEMMA PrePrepareOkReports ==
    ASSUME Inv, Inv', ReportInv, NEW i \in Server, ProcessPrePrepareOk(i)
    PROVE  ReportInv'
<1>1. Quiet
  BY QuietPrePrepareOk DEF Inv
<1>2. PICK m \in net :
         \/ Ignore({m})
         \/ Crash(i, {m})
         \/ Present(i, m.data.seq) /\ CountPrePrepareOk(i, m)
  BY DEF ProcessPrePrepareOk
<1>3. CASE Present(i, m.data.seq) /\ CountPrePrepareOk(i, m)
  <2> DEFINE s == m.data.seq
             e == [log[i][s] EXCEPT !.prepares = AddVotes(@, {m.from}, m.data.view)]
             quorum == i \notin Byzantine /\ e.status = "PRE_PREPARED" /\ PreparedQuorum(e.prepares)
             f == IF quorum THEN [e EXCEPT !.status = "PREPARED"] ELSE e
  <2>1. s \in Seqs /\ log[i][s] \in Entry
    BY <1>3, PresentInSeqs, EntryAt DEF Inv
  <2>2. f.status = "EXECUTED" => log[i][s].status = "EXECUTED"
    BY <2>1 DEF Entry
  <2>3. /\ log' = [log EXCEPT ![i][s] = f]
        /\ UNCHANGED <<executed, lastExecuted, replies, lowWatermark, digestToEntry>>
    BY <1>3 DEF CountPrePrepareOk, execVars, stableVars
  <2> HIDE DEF s, f
  <2> QED
    BY <1>1, <2>1, <2>2, <2>3, EntryReports
<1> QED
  BY <1>2, <1>3, IgnoreReports, CrashReports

LEMMA TimeoutReports ==
    ASSUME Inv, Inv', ReportInv, NEW i \in Server, OptimisticTimeout(i)
    PROVE  ReportInv'
<1>1. Quiet
  BY QuietOptimisticTimeout DEF Inv
<1>2. PICK s \in Seqs :
         /\ \/ Present(i, s) /\ FastCommit(i, s)
            \/ SlowPrepare(i, s)
            \/ UNCHANGED <<log, execVars>>
         /\ UNCHANGED <<digestToEntry, stableVars>>
  BY DEF OptimisticTimeout
<1>3. log[i][s] \in Entry /\ log[i][s].prePrepare.view \in -1 .. MaxView
  BY EntryAt DEF Inv
<1>4. CASE Present(i, s) /\ FastCommit(i, s)
  <2> DEFINE votes == AddVotes(log[i][s].prepares, {i}, log[i][s].prePrepare.view)
             e == [log[i][s] EXCEPT !.status = "COMMITTED", !.commits = votes]
             out == ProofToAll(i, "COMMIT", e.prePrepare, Voters(e.prepares) \cup {i})
  <2>1. votes \in Votes
    BY <1>3, VotesAdded DEF Entry
  <2>2. ExecutePending(i, [log[i] EXCEPT ![s] = e], {}, out)
    BY <1>4 DEF FastCommit
  <2>3. log[i][s].status # "NIL"
    BY <1>4 DEF Present
  <2> HIDE DEF votes
  <2>4. e \in Entry /\ SameAssignment(log[i][s], e) /\ e.status = "COMMITTED"
    BY <1>3, <2>1, <2>3 DEF Entry, Status, SameAssignment
  <2> HIDE DEF e, out
  <2> QED
    BY <1>1, <1>2, <2>2, <2>3, <2>4, ExecutionReports DEF stableVars
<1>5. CASE SlowPrepare(i, s)
  <2> DEFINE e == [log[i][s] EXCEPT !.commits = AddVotes(@, {i}, log[i][s].prePrepare.view)]
  <2>1. e.status = log[i][s].status
    BY <1>3 DEF Entry
  <2>2. /\ log' = [log EXCEPT ![i][s] = e]
        /\ UNCHANGED <<executed, lastExecuted, replies, lowWatermark, digestToEntry>>
    BY <1>2, <1>5 DEF SlowPrepare, Inv, TypeOK, execVars, stableVars
  <2> HIDE DEF e
  <2> QED
    BY <1>1, <2>1, <2>2, EntryReports
<1>6. CASE UNCHANGED <<log, execVars>>
  BY <1>1, <1>2, <1>6, SameDigestsReport DEF execVars, stableVars
<1> QED
  BY <1>2, <1>4, <1>5, <1>6

LEMMA PrepareReports ==
    ASSUME Inv, Inv', ReportInv, NEW i \in Server, ProcessPrepare(i)
    PROVE  ReportInv'
<1> DEFINE e(m) == [log[i][m.data.seq] EXCEPT !.prepares = Certified(m, log[i][m.data.seq], @)]
           quorum(m) == PreparedQuorum(e(m).prepares)
           f(m) == IF quorum(m) THEN [e(m) EXCEPT !.status = "PREPARED"] ELSE e(m)
<1>1. Quiet
  BY QuietPrepare DEF Inv
<1>2. PICK m \in net :
         \/ Ignore({m})
         \/ /\ AcceptsCertificate(i, m, {"PRE_PREPARED"})
            /\ log' = [log EXCEPT ![i][m.data.seq] = f(m)]
            /\ UNCHANGED <<execVars, digestToEntry, stableVars>>
  BY DEF ProcessPrepare
<1>3. CASE /\ AcceptsCertificate(i, m, {"PRE_PREPARED"})
           /\ log' = [log EXCEPT ![i][m.data.seq] = f(m)]
           /\ UNCHANGED <<execVars, digestToEntry, stableVars>>
  <2>1. m.data.seq \in Seqs /\ log[i][m.data.seq] \in Entry
    BY <1>3, PresentInSeqs, EntryAt DEF AcceptsCertificate, Inv
  <2>2. f(m).status = "EXECUTED" => log[i][m.data.seq].status = "EXECUTED"
    BY <2>1 DEF Entry
  <2>3. /\ log' = [log EXCEPT ![i][m.data.seq] = f(m)]
        /\ UNCHANGED <<executed, lastExecuted, replies, lowWatermark, digestToEntry>>
    BY <1>3 DEF execVars, stableVars
  <2> HIDE DEF f
  <2> QED
    BY <1>1, <2>1, <2>2, <2>3, EntryReports
<1> QED
  BY <1>2, <1>3, IgnoreReports

LEMMA CommitReports ==
    ASSUME Inv, Inv', ReportInv, NEW i \in Server, ProcessCommit(i)
    PROVE  ReportInv'
<1> DEFINE e(m) == [log[i][m.data.seq] EXCEPT !.commits = Certified(m, log[i][m.data.seq], @)]
           g(m) == [e(m) EXCEPT !.status = "COMMITTED"]
<1>1. Quiet
  BY QuietCommit DEF Inv
<1>2. PICK m \in net :
         /\ Receive(i, m, "COMMIT")
         /\ \/ Ignore({m})
            \/ /\ AcceptsCertificate(i, m, {"PRE_PREPARED", "PREPARED"})
               /\ \/ log' = [log EXCEPT ![i][m.data.seq] = e(m)] /\ UNCHANGED execVars
                  \/ ExecutePending(i, [log[i] EXCEPT ![m.data.seq] = g(m)], {m}, {})
               /\ UNCHANGED <<digestToEntry, stableVars>>
  BY DEF ProcessCommit
<1>3. m \in Message /\ m.type \in ProofType
  BY <1>2 DEF Inv, TypeOK, Receive, ProofType
<1>4. ASSUME AcceptsCertificate(i, m, {"PRE_PREPARED", "PREPARED"}),
             \/ log' = [log EXCEPT ![i][m.data.seq] = e(m)] /\ UNCHANGED execVars
             \/ ExecutePending(i, [log[i] EXCEPT ![m.data.seq] = g(m)], {m}, {}),
             UNCHANGED <<digestToEntry, stableVars>>
      PROVE  ReportInv'
  <2> DEFINE s == m.data.seq
  <2>1. s \in Seqs /\ log[i][s] \in Entry /\ log[i][s].status # "NIL"
    BY <1>4, PresentInSeqs, EntryAt DEF AcceptsCertificate, Inv
  <2>2. Certified(m, log[i][s], log[i][s].commits) \in Votes
    BY <1>3, <2>1, CertifiedType DEF Entry
  <2>3. /\ e(m).status = log[i][s].status
        /\ SameAssignment(log[i][s], g(m)) /\ g(m) \in Entry /\ g(m).status = "COMMITTED"
    BY <2>1, <2>2 DEF Entry, Status, SameAssignment
  <2>4. CASE log' = [log EXCEPT ![i][s] = e(m)] /\ UNCHANGED execVars
    <3> HIDE DEF e
    <3> QED
      BY <1>1, <1>4, <2>1, <2>3, <2>4, EntryReports DEF execVars, stableVars
  <2>5. CASE ExecutePending(i, [log[i] EXCEPT ![s] = g(m)], {m}, {})
    <3> HIDE DEF g
    <3> QED
      BY <1>1, <1>4, <2>1, <2>3, <2>5, ExecutionReports DEF stableVars
  <2> QED
    BY <1>4, <2>4, <2>5
<1> QED
  BY <1>2, <1>4, IgnoreReports

LEMMA PrepareOkReports ==
    ASSUME Inv, Inv', ReportInv, NEW i \in Server, ProcessPrepareOk(i)
    PROVE  ReportInv'
<1>1. Quiet
  BY QuietPrepareOk DEF Inv
<1>2. PICK m \in net :
         /\ Receive(i, m, "PREPARE_OK")
         /\ \/ Ignore({m})
            \/ Crash(i, {m})
            \/ Present(i, m.data.seq) /\ CountPrepareOk(i, m)
  BY DEF ProcessPrepareOk
<1>3. m.from \in Server /\ m.data \in Context
  BY <1>2, MessageForms DEF Inv, TypeOK, Receive, AckType
<1>4. CASE Present(i, m.data.seq) /\ CountPrepareOk(i, m)
  <2> DEFINE s == m.data.seq
             e == [log[i][s] EXCEPT !.commits = AddVotes(@, {m.from}, m.data.view)]
             g == [e EXCEPT !.status = "COMMITTED"]
             out == ProofToAll(i, "COMMIT", e.prePrepare, Voters(e.commits))
  <2>1. s \in Seqs /\ log[i][s] \in Entry /\ log[i][s].status # "NIL"
    BY <1>4, PresentInSeqs, EntryAt DEF Present, Inv
  <2>2. AddVotes(log[i][s].commits, {m.from}, m.data.view) \in Votes
    BY <1>3, <2>1, VotesAdded DEF Entry, Context
  <2>3. /\ e.status = log[i][s].status
        /\ SameAssignment(log[i][s], g) /\ g \in Entry /\ g.status = "COMMITTED"
    BY <2>1, <2>2 DEF Entry, Status, SameAssignment
  <2>4. /\ \/ log' = [log EXCEPT ![i][s] = e] /\ UNCHANGED <<executed, lastExecuted, replies>>
           \/ ExecutePending(i, [log[i] EXCEPT ![s] = g], {m}, out)
        /\ UNCHANGED <<digestToEntry, lowWatermark>>
    BY <1>4 DEF CountPrepareOk, execVars, stableVars
  <2> HIDE DEF s, e, g, out
  <2> QED
    BY <1>1, <2>1, <2>3, <2>4, EntryReports, ExecutionReports
<1> QED
  BY <1>2, <1>4, IgnoreReports, CrashReports

\* A checkpoint that becomes stable drops digests, and moves the watermark off zero.
LEMMA CheckpointReports ==
    ASSUME Inv, Inv', ReportInv, NEW i \in Server, ProcessCheckpoint(i)
    PROVE  ReportInv'
<1>1. Quiet
  BY QuietCheckpoint DEF Inv
<1>2. PICK m \in net :
         /\ Receive(i, m, "CHECKPOINT")
         /\ \/ Ignore({m})
            \/ /\ \/ lowWatermark' = [lowWatermark EXCEPT ![i] = FirstKept(m.seq)]
                     /\ \A j \in Server : j # i => digestToEntry'[j] = digestToEntry[j]
                  \/ UNCHANGED <<lowWatermark, digestToEntry>>
               /\ UNCHANGED <<log, lastExecuted, executed, replies>>
  <2>1. PICK m \in net :
           /\ Receive(i, m, "CHECKPOINT")
           /\ \/ Ignore({m})
              \/ /\ \/ \E proofs : Truncate(i, m.seq, proofs)
                    \/ UNCHANGED <<lowWatermark, digestToEntry>>
                 /\ UNCHANGED <<log, lastExecuted, executed, replies>>
    BY DEF ProcessCheckpoint
  <2>2. ASSUME NEW proofs, Truncate(i, m.seq, proofs)
        PROVE  /\ lowWatermark' = [lowWatermark EXCEPT ![i] = FirstKept(m.seq)]
               /\ \A j \in Server : j # i => digestToEntry'[j] = digestToEntry[j]
    BY <2>2 DEF Truncate, Inv, TypeOK
  <2> QED
    BY <2>1, <2>2
<1>3. m.seq \in Seqs
  BY <1>2, MessageForms DEF Inv, TypeOK, Receive
<1>4. FirstKept(m.seq) # 0
  BY <1>3 DEF FirstKept, Seqs
<1>5. CASE lowWatermark' = [lowWatermark EXCEPT ![i] = FirstKept(m.seq)]
           /\ (\A j \in Server : j # i => digestToEntry'[j] = digestToEntry[j])
           /\ UNCHANGED <<log, lastExecuted, executed, replies>>
  <2>1. \A j \in Server : lowWatermark'[j] = 0 =>
           lowWatermark[j] = 0 /\ digestToEntry'[j] = digestToEntry[j]
    BY <1>4, <1>5 DEF Inv, TypeOK
  <2> QED
    BY <1>1, <1>5, <2>1, IdleReports
<1>6. CASE UNCHANGED <<lowWatermark, digestToEntry, log, lastExecuted, executed, replies>>
  BY <1>1, <1>6, SameDigestsReport
<1> QED
  BY <1>2, <1>5, <1>6, IgnoreReports

LEMMA ViewChangingReports ==
    ASSUME Inv, Inv', ReportInv, NEW i \in Server, ViewChanging(i)
    PROVE  ReportInv'
<1>1. UNCHANGED <<logVars, execVars, stableVars>>
  <2>1. CASE DigestTimeout(i) \/ SeqTimeout(i)
    BY <2>1 DEF DigestTimeout, SeqTimeout, Expire
  <2>2. CASE ViewTimeout(i)
    BY <2>2 DEF ViewTimeout
  <2>3. CASE ProcessViewChange(i)
    BY <2>3 DEF ProcessViewChange, Ignore
  <2>4. CASE ProcessNewView(i)
    BY <2>4 DEF ProcessNewView, Ignore
  <2> QED
    BY <2>1, <2>2, <2>3, <2>4 DEF ViewChanging
<1>2. Quiet
  BY QuietViewChanging DEF Inv
<1> QED
  BY <1>1, <1>2, SameDigestsReport DEF logVars, execVars, stableVars

----------------------------------------------------------------------------

LEMMA InitReport == Init => ReportInv
<1> SUFFICES ASSUME Init PROVE ReportInv
  OBVIOUS
<1>1. OnlyRequests /\ DigestsAreProposed /\ GivenOneNumber /\ \A a \in replies : Reported(a)
  BY DEF Init, OnlyRequests, DigestsAreProposed, Known, GivenOneNumber
<1>2. ExecutedHasResult /\ ExecutedIsProposed
  BY DEF Init, ExecutedHasResult, ExecutedIsProposed, NilEntry, NoHistory
<1> QED
  BY <1>1, <1>2 DEF ReportInv

LEMMA NextReport == Inv /\ Inv' /\ ReportInv /\ [Next]_vars => ReportInv'
<1> SUFFICES ASSUME Inv, Inv', ReportInv, [Next]_vars PROVE ReportInv'
  OBVIOUS
<1>1. CASE UNCHANGED vars
  <2>1. Quiet
    BY <1>1, QuietIfUnchanged DEF vars, viewVars, logVars, Inv
  <2> QED
    BY <1>1, <2>1, SameDigestsReport DEF vars, logVars, execVars, stableVars
<1>2. ASSUME NEW i \in Server, Ordering(i) PROVE ReportInv'
  <2>1. CASE ClientTransfer(i)
    BY <2>1, TransferReports DEF ClientTransfer
  <2>2. CASE ForwardedTransfer(i)
    <3>1. PICK m \in net : Receive(i, m, "TRANSFER") /\ ProcessTransfer(i, m.m, {m})
      BY <2>2 DEF ForwardedTransfer
    <3>2. m.m \in Req
      BY <3>1, MessageForms DEF Inv, TypeOK, Receive
    <3> QED
      BY <3>1, <3>2, TransferReports
  <2> QED
    BY <1>2, <2>1, <2>2, PrePrepareReports, PrePrepareOkReports, TimeoutReports,
       PrepareReports, PrepareOkReports, CommitReports DEF Ordering
<1>3. ASSUME NEW i \in Server, Checkpointing(i) \/ ViewChanging(i) PROVE ReportInv'
  BY <1>3, CheckpointReports, ViewChangingReports DEF Checkpointing
<1> QED
  BY <1>1, <1>2, <1>3 DEF Next, Step

\* Every reply under way reports a result that stands, and the number it stands under
\* was given to the request it is about (notifyClient, called by executePending and, for a
\* repetition, by processTransfer).
THEOREM ReportInvariant == Spec => []ReportInv
  BY AllInvariants, InitReport, NextReport, PTL DEF Spec

\* What a server executed was proposed for that number, and no request for two.
LEMMA ReportsMeanOnce == Inv /\ ReportInv => ExecutedOnce
<1> SUFFICES ASSUME Inv, ReportInv, FirstLeads,
                    NEW j \in Server, NEW s \in Seqs, NEW t \in Seqs,
                    executed[j][s] # NoReq, executed[j][s] = executed[j][t]
             PROVE  s = t
  BY DEF ExecutedOnce, FirstLeads
<1>1. PICK p \in proposed : p.seq = s /\ p.digest = executed[j][s]
  BY DEF ReportInv, ExecutedIsProposed, ProposedFor
<1>2. PICK q \in proposed : q.seq = t /\ q.digest = executed[j][s]
  BY DEF ReportInv, ExecutedIsProposed, ProposedFor
<1> QED
  BY <1>1, <1>2 DEF ReportInv, GivenOneNumber

\* A server executes no request under two numbers, whoever repeats or forwards it, as
\* long as the first leader leads with all its digests (digestToEntry, cc:341 on).
THEOREM NeverTwice == Spec => []ExecutedOnce
  BY AllInvariants, ReportInvariant, ReportsMeanOnce, PTL

\* The client program does not change that: the system has nothing but runs of the cluster.
THEOREM SystemNeverTwice ==
    ASSUME OpenClients
    PROVE  SystemSpec => []ExecutedOnce
  BY SystemImplementsReplicas, NeverTwice, PTL

----------------------------------------------------------------------------
(* What clients take for an answer.  The invariant of a client: every server it *)
(* counted told it so about the transfer at the front of its queue.             *)

\* A client's timestamps are nanoseconds of the clock: no two of its transfers share one.
DistinctTimes == \A q, r \in Req : q.sender = r.sender /\ q.timestamp = r.timestamp => q = r

\* The servers that told of result ok for request r.
Tellers(r, ok) == {j \in Server : \E a \in replies : a.from = j /\ a.m = r /\ a.ack = ok}

OwnTransfers == \A c \in Client : \A k \in 1 .. Len(transfers[c]) : transfers[c][k].sender = c
CountedTold == \A c \in Client :
    IF transfers[c] = <<>>
    THEN successes[c] = {} /\ failures[c] = {}
    ELSE /\ successes[c] \subseteq Tellers(Head(transfers[c]), TRUE)
         /\ failures[c] \subseteq Tellers(Head(transfers[c]), FALSE)
AnsweredTold == \A c \in Client : \A k \in 1 .. Len(answered[c]) :
    Cardinality(Tellers(answered[c][k].m, answered[c][k].ack)) >= F + 1

ClientInv == OwnTransfers /\ CountedTold /\ AnsweredTold

LEMMA MoreServers ==
    ASSUME NEW A \in SUBSET Server, NEW B \in SUBSET Server, B \subseteq A,
           Cardinality(B) >= F + 1
    PROVE  Cardinality(A) >= F + 1
  BY ServerSets, FAssumption

LEMMA TellersRemain ==
    ASSUME replies \subseteq replies', NEW r, NEW ok
    PROVE  /\ Tellers(r, ok) \subseteq Tellers(r, ok)'
           /\ Cardinality(Tellers(r, ok)) >= F + 1 => Cardinality(Tellers(r, ok)') >= F + 1
<1>1. Tellers(r, ok) \subseteq Tellers(r, ok)'
  BY DEF Tellers
<1>2. Tellers(r, ok) \in SUBSET Server /\ Tellers(r, ok)' \in SUBSET Server
  BY DEF Tellers
<1> QED
  BY <1>1, <1>2, MoreServers

\* A client that changes nothing of its own still has what it had.
LEMMA ClientKeeps ==
    ASSUME TypeOK, ClientTypeOK, ClientInv, replies \subseteq replies',
           UNCHANGED <<transfers, successes, failures, answered>>
    PROVE  ClientInv'
<1>1. OwnTransfers'
  BY DEF ClientInv, OwnTransfers
<1>2. CountedTold'
  BY TellersRemain DEF ClientInv, CountedTold
<1>3. AnsweredTold'
  BY TellersRemain DEF ClientInv, AnsweredTold
<1> QED
  BY <1>1, <1>2, <1>3 DEF ClientInv

LEMMA ScriptsAreOwn ==
    ASSUME NEW c \in Client, NEW q \in Seq(Req), \A k \in 1 .. Len(q) : q[k].sender = c
    PROVE  LET w == q \o Script[c]
           IN  /\ \A k \in 1 .. Len(w) : w[k].sender = c
               /\ q # <<>> => w # <<>> /\ Head(w) = Head(q)
<1>1. PICK z \in Seq(Req) : z = Script[c] /\ \A k \in 1 .. Len(z) : z[k].sender = c
  BY ScriptAssumption
<1> DEFINE w == q \o z
<1>2. ASSUME NEW k \in 1 .. Len(w) PROVE w[k].sender = c
  BY <1>1
<1>3. q # <<>> => w # <<>> /\ Head(w) = Head(q)
  BY <1>1
<1> QED
  BY <1>1, <1>2, <1>3

LEMMA ProcessKeeps ==
    ASSUME TypeOK, ClientTypeOK, ClientInv, replies' = replies, NEW c \in Client, ProcessProcess(c)
    PROVE  ClientInv'
<1>1. PICK q \in Seq(Req) : q = transfers[c]
  BY DEF ClientTypeOK
<1>2. PICK w : w = q \o Script[c]
  OBVIOUS
<1>3. /\ \A k \in 1 .. Len(w) : w[k].sender = c
      /\ q # <<>> => w # <<>> /\ Head(w) = Head(q)
  BY <1>1, <1>2, ScriptsAreOwn DEF ClientInv, OwnTransfers
<1>4. /\ transfers' = [transfers EXCEPT ![c] = w]
      /\ UNCHANGED <<successes, failures, answered>>
  BY <1>1, <1>2 DEF ProcessProcess, DoTransfers
<1>5. \A d \in Client : transfers'[d] = IF d = c THEN w ELSE transfers[d]
  BY <1>4 DEF ClientTypeOK
<1>6. OwnTransfers'
  BY <1>3, <1>5 DEF ClientInv, OwnTransfers
<1>7. CountedTold'
  <2>1. \A r, ok : Tellers(r, ok)' = Tellers(r, ok)
    BY DEF Tellers
  <2> SUFFICES ASSUME NEW d \in Client
               PROVE  IF transfers'[d] = <<>>
                      THEN successes[d] = {} /\ failures[d] = {}
                      ELSE /\ successes[d] \subseteq Tellers(Head(transfers'[d]), TRUE)
                           /\ failures[d] \subseteq Tellers(Head(transfers'[d]), FALSE)
    BY <1>4, <2>1 DEF CountedTold
  <2> QED
    BY <1>1, <1>3, <1>5 DEF ClientInv, CountedTold
<1>8. AnsweredTold'
  BY <1>4, TellersRemain DEF ClientInv, AnsweredTold
<1> QED
  BY <1>6, <1>7, <1>8 DEF ClientInv

\* processNotify: the servers counted told it of the front transfer, whose timestamp is its own.
LEMMA NotifyKeeps ==
    ASSUME DistinctTimes, TypeOK, ReportInv, ClientTypeOK, ClientInv, replies' = replies,
           NEW c \in Client, ProcessNotify(c)
    PROVE  ClientInv'
<1>1. PICK a \in replies : 
         LET front   == Head(transfers[c])
             counts  == transfers[c] # <<>> /\ front.timestamp = a.m.timestamp
             good    == IF counts /\ a.ack THEN successes[c] \cup {a.from} ELSE successes[c]
             bad     == IF counts /\ ~a.ack THEN failures[c] \cup {a.from} ELSE failures[c]
             settled == counts /\ (Enough(good) \/ Enough(bad))
         IN  /\ a.m.sender = c
             /\ \/ /\ settled
                   /\ answered' = [answered EXCEPT ![c] =
                                      Append(@, [m |-> front, ack |-> Enough(good)])]
                   /\ successes' = [successes EXCEPT ![c] = {}]
                   /\ failures' = [failures EXCEPT ![c] = {}]
                   /\ transfers' = [transfers EXCEPT ![c] = Tail(transfers[c])]
                \/ /\ ~settled
                   /\ successes' = [successes EXCEPT ![c] = good]
                   /\ failures' = [failures EXCEPT ![c] = bad]
                   /\ UNCHANGED <<transfers, answered>>
  BY DEF ProcessNotify, DoTransfers
<1>2. PICK q \in Seq(Req) : q = transfers[c] /\ \A k \in 1 .. Len(q) : q[k].sender = c
  BY DEF ClientTypeOK, ClientInv, OwnTransfers
<1>3. PICK counts : counts = (q # <<>> /\ Head(q).timestamp = a.m.timestamp)
  OBVIOUS
<1>4. PICK good : good = IF counts /\ a.ack THEN successes[c] \cup {a.from} ELSE successes[c]
  OBVIOUS
<1>5. PICK bad : bad = IF counts /\ ~a.ack THEN failures[c] \cup {a.from} ELSE failures[c]
  OBVIOUS
<1>6. a.from \in Server /\ a.ack \in BOOLEAN /\ a.m \in Req
  <2>1. PICK p \in proposed : p.digest = a.m
    BY DEF ReportInv, Reported, ProposedFor
  <2> QED
    BY <2>1 DEF TypeOK, Reply, ReportInv, OnlyRequests
<1>7. q # <<>> => /\ Head(q) \in Req /\ Head(q).sender = c /\ Tail(q) \in Seq(Req)
                  /\ \A k \in 1 .. Len(Tail(q)) : Tail(q)[k].sender = c
  <2> SUFFICES ASSUME q # <<>>
               PROVE  /\ Head(q) \in Req /\ Head(q).sender = c /\ Tail(q) \in Seq(Req)
                      /\ \A k \in 1 .. Len(Tail(q)) : Tail(q)[k].sender = c
    OBVIOUS
  <2>1. Len(q) \in Nat /\ Len(q) >= 1 /\ Head(q) = q[1] /\ q[1] \in Req /\ Tail(q) \in Seq(Req)
    OBVIOUS
  <2>2. \A k \in 1 .. Len(Tail(q)) : Tail(q)[k] = q[k + 1] /\ k + 1 \in 1 .. Len(q)
    OBVIOUS
  <2> QED
    BY <1>2, <2>1, <2>2
<1>8. counts => a.m = Head(q)
  BY <1>1, <1>3, <1>6, <1>7 DEF DistinctTimes
<1>9. \A r, ok : Tellers(r, ok)' = Tellers(r, ok)
  BY DEF Tellers
<1>10. IF q = <<>>
       THEN good = {} /\ bad = {}
       ELSE good \subseteq Tellers(Head(q), TRUE) /\ bad \subseteq Tellers(Head(q), FALSE)
  <2>1. IF q = <<>>
        THEN successes[c] = {} /\ failures[c] = {}
        ELSE /\ successes[c] \subseteq Tellers(Head(q), TRUE)
             /\ failures[c] \subseteq Tellers(Head(q), FALSE)
    BY <1>2 DEF ClientInv, CountedTold
  <2>2. counts => a.from \in Tellers(Head(q), a.ack)
    BY <1>6, <1>8 DEF Tellers
  <2> QED
    BY <1>3, <1>4, <1>5, <1>6, <2>1, <2>2
<1>11. ASSUME counts, Enough(good) \/ Enough(bad),
              answered' = [answered EXCEPT ![c] = Append(@, [m |-> Head(q), ack |-> Enough(good)])],
              successes' = [successes EXCEPT ![c] = {}], failures' = [failures EXCEPT ![c] = {}],
              transfers' = [transfers EXCEPT ![c] = Tail(q)]
       PROVE  ClientInv'
  <2>1. PICK x : x = [m |-> Head(q), ack |-> Enough(good)]
    OBVIOUS
  <2>2. Cardinality(Tellers(x.m, x.ack)) >= F + 1
    <3>0. Enough(good) \in BOOLEAN
      BY DEF Enough
    <3>1. good \subseteq Tellers(Head(q), TRUE) /\ bad \subseteq Tellers(Head(q), FALSE)
      BY <1>3, <1>10, <1>11
    <3>2. \A ok : Tellers(Head(q), ok) \in SUBSET Server
      BY DEF Tellers
    <3>3. CASE Enough(good)
      <4>1. x.m = Head(q) /\ x.ack = TRUE
        BY <2>1, <3>0, <3>3
      <4>2. Cardinality(Tellers(Head(q), TRUE)) >= F + 1
        BY <3>1, <3>2, <3>3, MoreServers, Zenon DEF Enough
      <4> QED
        BY <4>1, <4>2, Zenon
    <3>4. CASE ~Enough(good)
      <4>1. x.m = Head(q) /\ x.ack = FALSE
        BY <2>1, <3>0, <3>4
      <4>2. Cardinality(Tellers(Head(q), FALSE)) >= F + 1
        BY <1>11, <3>1, <3>2, <3>4, MoreServers, Zenon DEF Enough
      <4> QED
        BY <4>1, <4>2, Zenon
    <3> QED
      BY <3>3, <3>4
  <2>3. PICK w : w = Append(answered[c], x)
    OBVIOUS
  <2>4. \A k \in 1 .. Len(w) : \/ k \in 1 .. Len(answered[c]) /\ w[k] = answered[c][k]
                              \/ w[k] = x
    <3>1. PICK z \in Seq([m : Req, ack : BOOLEAN]) : z = answered[c]
      BY DEF ClientTypeOK
    <3>2. x \in [m : Req, ack : BOOLEAN]
      <4>1. Enough(good) \in BOOLEAN
        BY DEF Enough
      <4> QED
        BY <1>3, <1>7, <1>11, <2>1, <4>1
    <3> QED
      BY <2>3, <3>1, <3>2
  <2>5. \A d \in Client : /\ transfers'[d] = IF d = c THEN Tail(q) ELSE transfers[d]
                          /\ successes'[d] = IF d = c THEN {} ELSE successes[d]
                          /\ failures'[d] = IF d = c THEN {} ELSE failures[d]
                          /\ answered'[d] = IF d = c THEN w ELSE answered[d]
    BY <1>11, <2>1, <2>3 DEF ClientTypeOK
  <2>6. OwnTransfers'
    BY <1>3, <1>7, <1>11, <2>5 DEF ClientInv, OwnTransfers
  <2>7. CountedTold'
    <3> SUFFICES ASSUME NEW d \in Client
                 PROVE  IF transfers'[d] = <<>>
                        THEN successes'[d] = {} /\ failures'[d] = {}
                        ELSE /\ successes'[d] \subseteq Tellers(Head(transfers'[d]), TRUE)
                             /\ failures'[d] \subseteq Tellers(Head(transfers'[d]), FALSE)
      BY <1>9 DEF CountedTold
    <3> QED
      BY <2>5 DEF ClientInv, CountedTold
  <2>8. AnsweredTold'
    <3> SUFFICES ASSUME NEW d \in Client, NEW k \in 1 .. Len(answered'[d])
                 PROVE  Cardinality(Tellers(answered'[d][k].m, answered'[d][k].ack)) >= F + 1
      BY <1>9 DEF AnsweredTold
    <3> QED
      BY <2>2, <2>4, <2>5 DEF ClientInv, AnsweredTold
  <2> QED
    BY <2>6, <2>7, <2>8 DEF ClientInv
<1>12. ASSUME successes' = [successes EXCEPT ![c] = good], failures' = [failures EXCEPT ![c] = bad],
              UNCHANGED <<transfers, answered>>
       PROVE  ClientInv'
  <2>1. \A d \in Client : /\ successes'[d] = IF d = c THEN good ELSE successes[d]
                          /\ failures'[d] = IF d = c THEN bad ELSE failures[d]
    BY <1>12 DEF ClientTypeOK
  <2>2. OwnTransfers' /\ AnsweredTold'
    BY <1>12, TellersRemain DEF ClientInv, OwnTransfers, AnsweredTold
  <2>3. CountedTold'
    <3> SUFFICES ASSUME NEW d \in Client
                 PROVE  IF transfers[d] = <<>>
                        THEN successes'[d] = {} /\ failures'[d] = {}
                        ELSE /\ successes'[d] \subseteq Tellers(Head(transfers[d]), TRUE)
                             /\ failures'[d] \subseteq Tellers(Head(transfers[d]), FALSE)
      BY <1>9, <1>12 DEF CountedTold
    <3> QED
      BY <1>2, <1>10, <2>1 DEF ClientInv, CountedTold
  <2> QED
    BY <2>2, <2>3 DEF ClientInv
<1> QED
  BY <1>1, <1>2, <1>3, <1>4, <1>5, <1>11, <1>12

LEMMA ClientStepKeeps ==
    ASSUME DistinctTimes, TypeOK, ReportInv, ClientTypeOK, ClientInv, UNCHANGED vars,
           NEW c \in Client, ClientStep(c)
    PROVE  ClientInv'
<1>1. replies' = replies
  BY DEF vars, execVars
<1>2. CASE TransferTimeout(c)
  BY <1>1, <1>2, ClientKeeps DEF TransferTimeout
<1>3. CASE TransferBroadcast(c)
  BY <1>1, <1>3, ClientKeeps DEF TransferBroadcast
<1> QED
  BY <1>1, <1>2, <1>3, ProcessKeeps, NotifyKeeps DEF ClientStep

LEMMA InitClient == SystemInit => ClientInv
  BY DEF SystemInit, ClientInit, ClientInv, OwnTransfers, CountedTold, AnsweredTold

LEMMA NextClient ==
    ASSUME OpenClients, DistinctTimes, TypeOK, ReportInv, ClientTypeOK, ClientInv,
           [SystemNext]_systemVars
    PROVE  ClientInv'
<1>1. replies \subseteq replies'
  BY SystemStep, RepliesGrow
<1>2. CASE UNCHANGED clientVars
  BY <1>1, <1>2, ClientKeeps DEF clientVars
<1>3. ASSUME NEW i \in Server, ReceiveRequest(i) PROVE ClientInv'
  BY <1>1, <1>3, ClientKeeps DEF ReceiveRequest
<1>4. ASSUME NEW c \in Client, ClientStep(c), UNCHANGED vars PROVE ClientInv'
  BY <1>4, ClientStepKeeps
<1> QED
  BY <1>2, <1>3, <1>4 DEF SystemNext, systemVars

\* Each of the f + 1 servers behind an answer has executed the transfer with that result.
LEMMA ToldMeansExecuted ==
    ASSUME TypeOK, ReportInv, ClientTypeOK, ClientInv
    PROVE  AnswerIsExecution
<1> SUFFICES ASSUME NumbersGivenOnce, NEW c \in Client, NEW k \in 1 .. Len(answered[c]),
                    NEW a, a = answered[c][k]
             PROVE  Cardinality({j \in Server : \E s \in Seqs :
                       executed[j][s] = a.m /\ Succeeds(executed[j], s) = a.ack}) >= F + 1
  BY DEF AnswerIsExecution
<1> DEFINE E == {j \in Server : \E s \in Seqs :
                    executed[j][s] = a.m /\ Succeeds(executed[j], s) = a.ack}
<1>1. Cardinality(Tellers(a.m, a.ack)) >= F + 1
  BY DEF ClientInv, AnsweredTold
<1>2. ASSUME NEW j \in Tellers(a.m, a.ack) PROVE j \in E
  <2>1. PICK b \in replies : b.from = j /\ b.m = a.m /\ b.ack = a.ack
    BY DEF Tellers
  <2>2. PICK s \in Seqs : /\ executed[j][s] # NoReq /\ Succeeds(executed[j], s) = a.ack
                          /\ ProposedFor(s, a.m)
    BY <2>1 DEF ReportInv, Reported
  <2>3. j \in Server /\ ProposedFor(s, executed[j][s])
    BY <2>2 DEF Tellers, ReportInv, ExecutedIsProposed
  <2>4. executed[j][s] = a.m
    BY <2>2, <2>3 DEF ProposedFor, NumbersGivenOnce
  <2> QED
    BY <2>2, <2>3, <2>4
<1>3. E \in SUBSET Server /\ Tellers(a.m, a.ack) \in SUBSET Server /\ Tellers(a.m, a.ack) \subseteq E
  BY <1>2 DEF Tellers
<1> HIDE DEF E
<1>4. Cardinality(E) >= F + 1
  BY <1>1, <1>3, MoreServers
<1> QED
  BY <1>4 DEF E

\* The result a client takes for its transfer (processNotify) is the result f + 1 servers
\* reached by executing that transfer, however its messages were repeated, lost or
\* overtaken and whoever leads, unless a number was given to two requests.
THEOREM AnsweredIsExecuted ==
    ASSUME OpenClients, DistinctTimes
    PROVE  SystemSpec => []AnswerIsExecution
<1>1. SystemSpec => [](TypeOK /\ ClientTypeOK)
  BY SystemTypeCorrect
<1>2. SystemSpec => []ReportInv
  BY SystemImplementsReplicas, ReportInvariant, PTL
<1>3. TypeOK /\ ClientTypeOK /\ ReportInv /\ ClientInv /\ [SystemNext]_systemVars => ClientInv'
  BY NextClient
<1>4. TypeOK /\ ClientTypeOK /\ ReportInv /\ ClientInv => AnswerIsExecution
  BY ToldMeansExecuted
<1> QED
  BY <1>1, <1>2, <1>3, <1>4, InitClient, PTL DEF SystemSpec
=============================================================================
