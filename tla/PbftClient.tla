------------------------------ MODULE PbftClient ------------------------------
(***************************************************************************)
(* The client processes (src/client/pbft_client.cc): each works through    *)
(* its own transfers one at a time, sends the front one to the server it   *)
(* takes for the leader, broadcasts it when ten seconds pass, and drops it *)
(* when f + 1 servers reported the same result.                            *)
(* What servers answer is the variable replies of PbftState.               *)
(***************************************************************************)
EXTENDS PbftState, Sequences

CONSTANTS
    Client,         \* the client processes
    Script,         \* for each client, the transfers the driver hands it
    MaxBroadcasts   \* bound: how often a client broadcasts in all

ASSUME ScriptAssumption ==
    /\ Script \in [Client -> Seq(Req)]
    /\ \A c \in Client : \A k \in 1 .. Len(Script[c]) : Script[c][k].sender = c
ASSUME BroadcastAssumption == MaxBroadcasts \in Nat

VARIABLES
    started,        \* processProcess has run
    transfers,      \* the queue of transfers not answered yet
    clientView,     \* currentView of the client
    successes, failures, \* servers that reported each result of the front transfer
    transferTimers, \* transfers a timer thread is waiting for
    broadcasting,   \* transfers a timer thread found at the front and is about to broadcast
    dead,           \* the process read the front of its empty queue
    requests,       \* Transfer messages on their way from clients to servers
    notified,       \* replies the client has received
    broadcasts,     \* history: number of broadcasts, for the bound
    answered        \* history: the transfers dropped and the result taken for them

clientVars == <<started, transfers, clientView, successes, failures, transferTimers,
                broadcasting, dead, requests, notified, broadcasts, answered>>

ClientInit ==
    /\ started = [c \in Client |-> FALSE]
    /\ transfers = [c \in Client |-> <<>>]
    /\ clientView = [c \in Client |-> 1]
    /\ successes = [c \in Client |-> {}]
    /\ failures = [c \in Client |-> {}]
    /\ transferTimers = [c \in Client |-> {}]
    /\ broadcasting = [c \in Client |-> {}]
    /\ dead = [c \in Client |-> FALSE]
    /\ requests = {}
    /\ notified = {}
    /\ broadcasts = [c \in Client |-> 0]
    /\ answered = [c \in Client |-> <<>>]

ClientTypeOK ==
    /\ started \in [Client -> BOOLEAN]
    /\ transfers \in [Client -> Seq(Req)]
    /\ clientView \in [Client -> Views]
    /\ successes \in [Client -> SUBSET Server]
    /\ failures \in [Client -> SUBSET Server]
    /\ transferTimers \in [Client -> SUBSET Req]
    /\ broadcasting \in [Client -> SUBSET Req]
    /\ dead \in [Client -> BOOLEAN]
    /\ requests \subseteq [m : Req, to : Server]
    /\ notified \subseteq replies
    /\ broadcasts \in [Client -> 0 .. MaxBroadcasts]
    /\ answered \in [Client -> Seq([m : Req, ack : BOOLEAN])]

\* doTransfers() for the queue q and the view v: a timer, then the request to the leader.
DoTransfers(c, q, v) ==
    /\ transfers' = [transfers EXCEPT ![c] = q]
    /\ IF q = <<>>
       THEN UNCHANGED <<transferTimers, requests>>
       ELSE /\ transferTimers' = [transferTimers EXCEPT ![c] = @ \cup {Head(q)}]
            /\ requests' = requests \cup {[m |-> Head(q), to |-> Leader(v)]}

\* processProcess: the driver's transactions, of which the client keeps its own.
ProcessProcess(c) ==
    /\ ~started[c]
    /\ started' = [started EXCEPT ![c] = TRUE]
    /\ DoTransfers(c, transfers[c] \o Script[c], clientView[c])
    /\ UNCHANGED <<clientView, successes, failures, broadcasting, dead, notified, broadcasts, answered>>

\* r is still waiting at the front of the queue.
AtFront(c, r) == transfers[c] # <<>> /\ Head(transfers[c]) = r

\* setTransferTimer's thread wakes up and compares: its transfer is still at the front,
\* or the thread ends.
TransferTimeout(c) == \E r \in transferTimers[c] :
    /\ \/ /\ AtFront(c, r)
          /\ broadcasts[c] < MaxBroadcasts
          /\ broadcasts' = [broadcasts EXCEPT ![c] = @ + 1]
          /\ broadcasting' = [broadcasting EXCEPT ![c] = @ \cup {r}]
       \/ ~AtFront(c, r) /\ UNCHANGED <<broadcasts, broadcasting>>
    /\ transferTimers' = [transferTimers EXCEPT ![c] = @ \ {r}]
    /\ UNCHANGED <<started, transfers, clientView, successes, failures, dead, requests, notified,
                   answered>>

\* transferBroadcast() in that thread.  It reads the front once more, without a lock: an
\* answer that came in between has put the next transfer there, which goes out early and
\* gets a second timer, or left the queue empty; then the slot read was never written.
TransferBroadcast(c) == \E r \in broadcasting[c] :
    /\ broadcasting' = [broadcasting EXCEPT ![c] = @ \ {r}]
    /\ IF transfers[c] = <<>>
       THEN /\ dead' = [dead EXCEPT ![c] = TRUE]
            /\ UNCHANGED <<requests, transferTimers>>
       ELSE /\ requests' = requests \cup {[m |-> Head(transfers[c]), to |-> j] : j \in Server}
            /\ transferTimers' = [transferTimers EXCEPT ![c] = @ \cup {Head(transfers[c])}]
            /\ UNCHANGED dead
    /\ UNCHANGED <<started, transfers, clientView, successes, failures, notified, broadcasts, answered>>

\* Mutants: one server is enough, and every server must answer.
OneIsEnough(servers) == Cardinality(servers) >= F
AllAreEnough(servers) == Cardinality(servers) >= 3 * F + 1

\* f + 1 servers reported the same result.
Enough(servers) == Cardinality(servers) >= F + 1

\* Mutant: the client runs ahead of the servers.
ViewAfter(c, a) == Max({clientView[c], a.view + 1})

\* The client follows the highest view it hears of.
ViewOf(c, a) == Max({clientView[c], a.view})

\* processNotify: a reply counts for the front transfer when the timestamps agree.
ProcessNotify(c) == \E a \in replies \ notified :
    LET front   == Head(transfers[c])
        counts  == transfers[c] # <<>> /\ front.timestamp = a.m.timestamp
        good    == IF counts /\ a.ack THEN successes[c] \cup {a.from} ELSE successes[c]
        bad     == IF counts /\ ~a.ack THEN failures[c] \cup {a.from} ELSE failures[c]
        settled == counts /\ (Enough(good) \/ Enough(bad))
        view    == ViewOf(c, a)
    IN  /\ a.m.sender = c
        /\ notified' = notified \cup {a}
        /\ clientView' = [clientView EXCEPT ![c] = view]
        /\ \/ /\ settled
              /\ answered' = [answered EXCEPT ![c] =
                                 Append(@, [m |-> front, ack |-> Enough(good)])]
              /\ successes' = [successes EXCEPT ![c] = {}]
              /\ failures' = [failures EXCEPT ![c] = {}]
              /\ DoTransfers(c, Tail(transfers[c]), view)
           \/ /\ ~settled
              /\ successes' = [successes EXCEPT ![c] = good]
              /\ failures' = [failures EXCEPT ![c] = bad]
              /\ UNCHANGED <<transfers, transferTimers, requests, answered>>
        /\ UNCHANGED <<started, broadcasting, dead, broadcasts>>

ClientStep(c) ==
    /\ ~dead[c]
    /\ ProcessProcess(c) \/ TransferTimeout(c) \/ TransferBroadcast(c) \/ ProcessNotify(c)
=============================================================================
