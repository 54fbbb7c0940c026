# A verification project for the linear-PBFT bank

TLA+ models of the replicas and clients in `src/`, TLC runs that check them on small
clusters, and TLAPS proofs of what holds for every cluster. File and line numbers are
those of the repository; `cc` is `src/server/async_server.cc`, `h` is
`src/server/async_server.h`, `client` is `src/client/pbft_client.cc` (all below `src/src/`;
README:n is line n of the repository's `src/README.md`).

## 1. The system

Seven servers (3f + 1, f = 2) keep the accounts of ten clients. Every transfer is a
consensus instance of *linear* PBFT: backups talk to the leader of the view (the
*collector*), never to each other, and the leader distributes certificates.

| Component | State | Operations | Hard behaviour |
|---|---|---|---|
| Ordering (cc:351-679, 1062-1228) | `currentSequence`, `log` (a window of k slots), `digestToEntry`, `lastExecuted`, `balances` | `processTransfer`, `processPrePrepare(Ok)`, `processPrepare(Ok)`, `processCommit`, optimistic timer, `executePending`, `checkpoint`, `notifyClient` | lost and reordered messages, repeated requests, acknowledgements of another view, a 2 s timer that decides between two paths, unchecked indexes |
| Checkpoints (cc:814-856) | `checkpoints`, `lowWatermark`, last stable checkpoint | `processCheckpoint` | proofs that come before the server's own checkpoint, truncation under late messages |
| View change (cc:681-812, 858-1060) | `currentView`, `state_`, `lastProposedView`, `viewChangeMessages`, `awaitedDigests`, timers | three timers, `triggerViewChange`, `processViewChange`, `processNewView`, `computeBigO` | view changes that race commits, a new leader that missed requests, what may be proposed again |
| Event loop (cc:67-140, h:93-390) | two completion queues, `futures` | one whole handler at a time; timer bodies on threads of their own | interleaving; data races of timer threads |
| Client (client:101-264) | queue of transfers, `currentView`, results of the front transfer | `processProcess`, `doTransfers`, transfer timer and `transferBroadcast`, `processNotify` | retries, late answers of an earlier transfer, a timer thread that reads the queue twice |
| Driver (`driver.cc`, `app_client.cc`) | `firstSet`, `set`, `serverName` | seven commands; `ProcessTransactions` | any operation may throw and drop the rest of a command |
| CSV reader, command parser (`utils/`) | position, set number, one set read ahead | `readNextSet`, `parseCommand` | a set begins with the line that ended the last one; a line that does not parse |
| Process control (`utils/utils.cc`) | `serverPIDs`, `clientPIDs` | start and kill of servers and clients | processes that die by themselves, that cannot be started, or that the maps do not know |
| Cryptography (`crypto/`) | - | OpenSSL wrappers | outside the protocol; not modelled |

Interaction: calls between servers are one-way gRPC calls with a one second deadline and
no retry. Clients call `Transfer`; servers call `Notify` on the client. Timer threads share
the server's memory with the event loop. The driver kills the servers and clients of one set
of transactions and starts those of the next; nothing is persisted, so every set begins with
the constructors (`Init` of the other modules).

What makes the parts correct: one request per number and view at every server; a
certificate behind every commit; nothing committed is taken back; what was executed
survives a view change; a stable checkpoint is of balances that 2f + 1 servers had at its
number; a client's answer stands for f + 1 executions; no request is executed twice; every
request is answered while at most f servers are mute or down, and a leader that is gone is
replaced; entries are executed without a gap and each once, although several threads
execute; and the driver hands a set out to the servers and clients it was written for, and
leaves nothing running.

## 2. The modules

| Module | What it models |
|---|---|
| `PbftState` | the fields of `PbftServerImpl`, messages of `pbft.proto`, votes, balances, timers; `Init` is the constructor; `TypeOK` |
| `PbftOrdering` | the ordering handlers, each a whole action, with `executePending` and `checkpoint` inside the actions that call them |
| `PbftCheckpoint` | `processCheckpoint` and the truncation |
| `PbftViewChange` | the view-change timers and handlers, `computeBigO`, `verifyViewChange` |
| `PbftReplicas` | composition: every server takes any of these steps; clients are open (any request, any server, any number of times) |
| `PbftProperties` | the properties of the cluster, its fairness, the strengthened invariant |
| `PbftClient` | the client program |
| `PbftSystem` | composition of replicas and clients; end-to-end properties |
| `PbftLog` | abstract specification: what the logs of the replicas promise, without messages, quorums, timers or views to change |
| `PbftExecution` | `executePending` and `checkpoint`, statement by statement, entered by the event loop and by the optimistic timers of a leader |
| `PbftDriver` | the driver's loop with CSV reader, command parser, process control and application client |
| `MCReplicas`, `MCSystem`, `MCExecution`, `MCDriver` | instances for TLC; `MCReplicas` also has starting points part of the way into view 1 |
| `PbftAgreementProofs` | proofs: the lemmas about quorums, maxima, votes and the log; type correctness; agreement |
| `PbftLogProofs`, `PbftCommitProofs`, `PbftCheckpointProofs`, `PbftViewProofs` | proofs of the cluster: the refinement; what is behind a commit and a crash; what is behind a stable checkpoint; what the second view knows of the first |
| `PbftSystemProofs` | proofs of the cluster with its clients |
| `PbftExecutionProofs`, `PbftDriverProofs` | proofs of the threads and of the driver |

`PbftReplicas` is where the handlers meet; `PbftSystem` puts the client program in the place of its
open environment; `PbftExecution` opens up the one step of `PbftOrdering` that other threads
can enter; a run of `PbftSystem` is what happens between two sets of `PbftDriver`.

How state corresponds to the code:

- `log[i][s]` is the `MessageInfo` created for number s at server i, not the vector cell.
  Objects are never freed and a slot gets at most one, so the vector is `log` seen through
  `InWindow`, and `digestToEntry` holds numbers for pointers. A pre-prepare of a later view
  overwrites the object in place; the old digest keeps pointing to it, as in the code.
- `Present(i, s)` says that `log[index]` may be dereferenced. Where the code does not ask,
  the model does, and the process is `crashed` if it is not: from there on it takes no step.
- `prepares` and `commits` keep, for each server, the view of the acknowledgement stored
  under its id (`prepareProofs`, `commitProofs`).
- The digest of a request is the request, that of a checkpoint is the history of executed
  requests, compared by the balances it leads to (`SameDigest`): two histories with equal
  balances have equal digests in the code as well. A record created by an early proof has the
  empty digest.
- `net` is the set of messages not taken yet; a message that stays there is lost. gRPC does not
  deliver a call twice, so taking a message removes it. Times are not modelled: a timer may
  fire at any moment after it was set, a message may be taken at any moment after it was sent.
- `timers` holds the threads that sleep. A timer body is one step, like a handler; the two in
  which a step in between matters most are opened up: `executePending` in `PbftExecution`, and
  the client's timer, which compares the front of the queue in one step (`TransferTimeout`)
  and broadcasts what is at the front in another (`TransferBroadcast`). If the queue is empty
  by then the client is `dead`. The test for an empty queue and the read of the front before it (client:250-252) are
  in the one step of `TransferTimeout`; a client that crashes between the two, on a transfer that was
  just answered, does not show, and no property depends on it.
- `PbftLog` sees `proposed` as the assignments made, the context of each entry as what a
  server holds, the entries `COMMITTED` or further as committed, and `executed` as results.
- `PbftExecution` has a thread for the event loop and one for the optimistic timer of each
  number. `pc` is the statement, `seq` the loop variable; `balances[a] += x` is a load and a store.
  The acknowledgements are left out: a timer that wakes up may find 3f of them or fewer.
- `PbftExecution` has one assumption on time, `Awake`: the timer of a number that was prepared while
  some thread executed wakes up after that thread left, because it sleeps two seconds
  (cc:1064). A thread that steps over a slot the event loop is filling, and then is not scheduled
  for two seconds, could otherwise execute what comes behind the slot and leave it out for ever.
- In `PbftDriver` a command is a `plan`, the list of process operations that mainloop makes for it;
  `Throw` is the catch of `driver.cc:194`, which drops the rest. An alive server that the set also
  names as byzantine is passed over (`Passed`, `driver.cc:57`). A line is its set number, its
  servers and its transaction, or `BadLine`. `serverPIDs` and `clientPIDs` are 0 where the map has
  no entry; a dereference of the end of a map ends the program or throws. `running` are the
  processes themselves, which may die.
- `executed`, `proposed`, `replies`, `answered` and `broadcasts` are history variables (or
  sent answers); no guard of a server reads them except the result of an executed request,
  which the code keeps in the entry.
- Operators marked "Mutant" are not used; they are variants of the operator after them that
  a plausible slip would produce, and each property is shown to notice one of them.

Abstractions: signatures are always valid, since every replica runs this program
(`verifyMAC` returns true without looking, `src/crypto/crypto.cc:254`). A server with the
`isByzantine` flag does what that flag does in the code: it stays mute in the acknowledgement
and collector roles. `retryNewView` has no caller. Reporting calls only read; of theirs the
driver's model has what may end the program (a server's name used as an index).

## 3. The runs

The runs of replicas have four servers (F = 1), where a quorum is three and the fast path
needs all. Four servers have every kind of quorum the code distinguishes (f + 1 = 2, 2f = 2, 2f + 1 = 3,
3f = 3); what they cannot show is a second faulty leader. One to three requests, of which the
second is covered only after the first, so that order shows in balances and results. The
window has two or three slots; `CheckpointStep` is 2 where checkpoints matter, else
out of reach. `MaxSeq` and `MaxView` bound the numbers handed out and the views that a timer
proposes; two views are the least in which something can be lost between them. `Alive` with
three servers is the case in which no server's answer can be spared.

Runs that pass:

| Run | Question | Properties |
|---|---|---|
| `ordering` | view 1, two requests, one of them forwarded by a backup as well, one mute backup: retries, loss, reordering, slow path | `AgreementInView`, `CommitCertificate`, `EntriesOnlyAdvance`, `ImplementsLog` |
| `checkpoint` | four servers finish two commits in every order, one with a gap, while checkpoints are exchanged; acknowledgements race the truncation of their slot, and a request more than the window holds races it too | `TypeOK`, `StableIsBacked`, `StableAgreement`, `CrashHasCause` |
| `leader_gone` | the leader is gone after its pre-prepare, or after it committed up to three numbers with or without a hole; view changes at any moment, a client that tries the next leader, fair scheduling | `AssignmentInv`, `ExecutedReproposed`, `CrashHasCause`, `EntriesOnlyAdvance`, `LeaderReplaced` |
| `after_execution` | slow-path commits race a view change | `ExecutedKnownToNewView` |
| `system` | a client with two transfers and a broadcast, one server down, fair scheduling | `AnswerIsExecution`, `ExecutedOnce`, `ClientTypeOK`, `AllServed`, `AllAnswered` |
| `execution` | two optimistic timers and the event loop in `executePending` at once | `ExecutedWithoutGap`, `NothingLeftBehind`, `AloneIsAtomic` |
| `driver` | up to four commands over three files; forks fail, processes die | `DriverTypeOK`, `SetsAsWritten`, `NoneForgotten`, `NothingLeftRunning`, `ServersOfTheSet`, `OneSetPerClient` |

`EntriesOnlyAdvance` is checked twice: in `ordering` requests compete for slots,
in `leader_gone` pre-prepares of two views meet in one slot. `CrashHasCause` is checked twice:
in `checkpoint` slots are truncated and a number leaves the window, in `leader_gone` a new
leader gets acknowledgements of a NOP (number -1).

`execution` has two numbers, which is what three threads can be at once in; the second transfer is
covered, to the last unit, only after the first, and a checkpoint follows it. `AloneIsAtomic` is what the
other models rest on when they take `executePending` for one step: without overlap it is
one. `driver` has three servers, two clients, and three files: one as in
`src/test/lab2_Test.csv`, one with a line that does not parse, one that names a server
that does not exist. Four commands are two sets with another command before them and an exit. Its properties
except the type are about runs in which the first set did not fail with processes started
(`brokenStart`): then `firstSet` stays true, the next set starts everything again without killing, and
the driver loses the processes of the first (`driver.cc:48`, `utils.cc:64`).

The runs that start inside view 1 do so from states that a run from `Init` reaches
when the messages named in `MCReplicas` arrive in the obvious order; `Logs` derives every
variable from the logs. They exist because the way from `Init` to a second view with something to lose
has too many states to be explored together with what follows.

Deadlock is checked where clients may repeat a request for ever. It is switched off
where nobody sends anything any more, so that the cluster comes to rest, where a leader goes
down, and where a client's script ends.

Fairness (`Fairness`, `SystemFairness`): weak fairness of each handler and each timer of a
started server, and of each step of the client. The event loop polls both queues for ever (cc:112-139)
and takes what is there, and a sleeping thread wakes up. For liveness no message is lost for
ever: what was sent is taken some time. In `system` `MaxView` is 1: the 30 s timers of the
servers do not fire before the transfers are ordered, which is the case that the client's
10 s and the leader's 2 s are there for. In `leader_gone` the client repeats
its request for ever, as transferBroadcast does every 10 s.

### What the code does not keep

Each of these runs finds one promise of the README or of a comment broken:

| Run | Promise | What happens |
|---|---|---|
| `race` | "executed all requests with lower sequence numbers" (README:30) | two optimistic timers both look at an entry before either marks it (cc:1140): a transfer is applied twice, or after a later one |
| `diverging` | "safety across views" (README:30) | a new leader that missed a request reuses its number (cc:410) |
| `unheld` | "waits for signed messages from all 3f + 1 replicas", "all non-faulty replicas have received the request" (README:55) | a new leader counts its own acknowledgement of the old view and the answers to its NEW_VIEW (cc:807, 1080), and commits what one server never received |
| `fast_path_lost` | "can be recovered after (leader) failures" (README:30) | after the short cut only the leader can report the request (cc:1097) |
| `unstable` | "2f + 1 matching checkpoint messages, the checkpoint is stable" (README:34) | proofs that come before the server's own checkpoint never make it stable (cc:823, 830) |

More disagreements that the models have, without a run of their own:

- `executePending` also steps over a slot that is empty because a pre-prepare was lost
  (cc:1136): a backup then executes the next number first, against README:30. `checkpoint`
  starts from such a backup. Its `lastExecuted` counts in `StableIsBacked` as having got to the
  number; its balances, which differ, must not be stable anywhere, although its proof may come first.
- "A pre-prepare message for each request that should be processed" (README:32):
  `computeBigO` leaves out number 0 and the highest prepared number (cc:899, 938).
  `ExecutedReproposed` is about the numbers in between.
- A leader that proposes an old entry again clears its proofs and not its status
  (cc:396-403): an entry that was committed stays so in the new view, with the backups still
  to accept it. This too breaks `CommitAgreed` when the backups replace theirs.
  `CommitCertificate` is therefore about the view that first proposes a number.
- "Ignore the request if the protocol is already initiated for it" (cc:385): truncation
  forgets the digests of what it covers (cc:846), so a request repeated after a stable
  checkpoint gets a second number.
- k is the "max size of the sequence number window" (h:424), but nothing looks at the window
  when a number is handed out (cc:427); in `checkpoint` this brings the leader down, unless
  the truncation comes first.
- "Check request validity" (cc:519, 605) is followed by no check: a late acknowledgement is
  an index below the window, or a slot that is gone (`checkpoint`).
- Checkpoints are there to "restore in-dark replicas" (README:54), but the state transfer is
  commented out: nothing a server in the dark receives moves `lastExecuted`.
- README:54 names a checkpoint every 50 transactions; the constructor says 10 (cc:42).
- The client counts answers to a transfer by its timestamp alone (client:191). Two transfers
  queued within one tick of the clock would share theirs; `AnswerIsExecution` is checked and
  proved for distinct timestamps.
- The digest of a request that a later one replaced in its slot still leads to that entry (cc:369), and a
  repetition is answered with the result of the other request. `AnswerIsExecution` is about runs in which no number was given to two
  requests (`NumbersGivenOnce`), `ExecutedOnce` about the time in which the first leader leads and has all its digests.
- A server that asks for one more view before NEW_VIEW reaches it enters the older view all the same: `processNewView`
  looks at `currentView` (cc:757) and not at what the server asked for last. Its last request, made before it
  prepared anything in the view it enters, still counts. With three views a request executed on the slow path is lost
  like this, against README:30: 0 and 3 ask for views 2 and 3, 1 joins them for view 3 only; 0 and 1 enter view 2 and
  execute a request with its leader; the leader of view 3, in the dark, then takes their old requests. TLC
  found it with `MaxView = 3`, in 15 states from where the view changes stand like that. No run has three views: the runs
  about `ExecutedKnownToNewView` and `ExecutedReproposed` speak of the step from the first view to the second.

`ExecutedKnownToNewView` both passes and fails: from view 1 to view 2 it holds on the slow path (`after_execution`,
where one server is in the dark and the fast path cannot be taken) and fails on the fast
path.

## 4. The proofs

What is proved of the cluster holds for every f >= 1, every window, step and bound, every set of requests, of
mute and of started servers, and every pattern of loss, delay, retry, crash and view change. What is
proved of the threads holds for every number of entries and every set of transfers, and what is proved of
the driver for all files, names and numbers of commands. Assumptions are the named ASSUMEs of `PbftState`, `PbftClient`,
`PbftExecution` and `PbftDriver`, and three hypotheses of theorems:

- `OpenClients` (everything about `PbftSystem`): the environment of `PbftReplicas` may ask any server for any
  request. `PbftReplicas` is parameterised by who asks whom; the client program asks as it likes.
- `DistinctTimes` (`AnsweredIsExecuted`): a client's transfers differ in their timestamps, which are
  nanoseconds of the clock (client:221); `processNotify` goes by nothing else.
- `Correct # Server` (`PledgeInvariant` and what follows from it): some server, any one, is mute or was not started. This closes
  the short cut, which wants 3f acknowledgements (cc:1080). With all servers correct the promise is broken:
  `fast_path_lost`.

`SecondViewKnows` and `SecondViewReproposes` speak of any run for as long as no server has entered a third view (`FirstTwo`),
whatever views were asked for; from then on what they say is false (section 3).

The ASSUMEs of `PbftDriver` say that the names are a list, those of the clients without repetition (they are the keys of
a map), and that a file is a list of lines.

### The cluster

- `TypeCorrect`: `Spec => []TypeOK`. `TypeOK` is inductive. The interesting parts are that
  the maximum in `executePending` exists and stays in range (`MaxOfBounded`) and that what
  `computeBigO` selects are contexts (its CHOOSE picks a certificate of the highest view, which exists
  because a non-empty set of bounded views has a maximum).
- `AssignmentInvariant` and `Agreement`: `AgreementInView` is not inductive: an entry at a
  backup says nothing of what the leader will do next. `AssignmentInv` adds why it holds:
  what was proposed is unique per view and number (`UniqueAssignments`); entries and
  pre-prepares on their way are proposals (`EntriesAreProposed`, `PrePreparesAreProposed`);
  the leader of a view that is still in it holds everything it proposed there, under numbers
  up to its `currentSequence` (`LeadersKeepAssignments`); and a known digest leads to an entry
  (`DigestsHaveEntries`), so that proposing again changes an entry that is there. The one step
  that could break it is the leader's own: a new number is above every entry it
  has, and a re-proposal is of an entry of an *earlier* view, because in its own view the entry has
  the leader as sender and is ignored. TLC checks `AssignmentInv` in run `leader_gone`.
- `Refinement` (`ImplementsLog`) and `OnlyAdvance` (`EntriesOnlyAdvance`): the replicas implement
  `PbftLog`. A step of a server is at most one of its actions, or stutters there: a new or
  repeated proposal assigns, a pre-prepare is held, a quorum commits, and `executePending`
  executes a set of committed numbers. `AssignmentInv` supplies what the abstract steps ask
  for: that an accepted context was assigned, that a new number is free, and that a re-proposal is
  of an earlier view. `OnlyAdvance` follows from the same case analysis.
- `CommitInvariant` and `CommitsAreCertified` (`CommitCertificate`): the collectors count acknowledgements by
  sender, not by view, so a count proves nothing by itself. `CommitInv` says what it does prove while the view of
  the first assignment of a number lasts (`First`): no slot of that number holds anything else (`FirstIsOnly`,
  from `AssignmentInv`), so each acknowledgement, signature list, entry and optimistic timer speaks the truth of the
  servers it names (`MessageBacked`, `EntryBacked`, `TimerBacked`): those that acknowledged hold the assignment, those that
  signed a commit prepared it, and the short cut has everybody. A view change makes `First` false, never true; that this is
  so for what a new leader proposes again needs `Earlier` and `NewViewEarlier`: a request to change the view proves only what was
  proposed in views before the one asked for.
- `CauseInvariant` and `CrashesHaveCauses` (`CrashHasCause`): the collectors use the number of an acknowledgement as an index.
  `CauseInv` says what that number can be whenever the acknowledgement comes (`Addressed`): it is of an assignment the
  collector made, which is in its log for good (`LeadersHold`), or of what it had the others acknowledge when it started a view
  (`Repeated`). The latter lasts: a server only takes note of requests for views after its own, and a leader has no request
  of its own for a view before it starts it (`OthersAsk`), so that the requests it starts with are those it keeps (`Started`).
  An acknowledgement of an older view may reach a server when it leads its next one, 3f + 1 views later; that is why the cause names
  any view the server led, and why two views would not have shown it. A crashed server takes no step (`OthersStill`), so the cause
  is still there to be seen.
- `SurveyInvariant`, `PledgeInvariant`, `SecondViewKnows` and `SecondViewReproposes` (`ExecutedKnownToNewView`, `ExecutedReproposed`): a
  request executed in view 1 must be found among 2f + 1 requests none of which need come from a server that executed it. The
  textbook argument intersects those that prepared with those that asked; here a server may have prepared and forgotten, because
  a view change, a truncation or a pre-prepare of the new view came in between, so the invariant speaks of what a server is pledged to.
  Server j is `Pledged` to an assignment p if every request for view 2 that j ever sent, wherever it is now (`Requests`), shows a certificate for p or a
  checkpoint that covers it (`Shows`), and, as long as j is in view 1, its entry is p, prepared, with 2f signatures. A
  request is composed from the whole window, so a pledged server that asks stays pledged (`AskingShows`: its
  entry is in the window, or below it and so below the checkpoint it sends, `BelowTop`).
  `Pledges` says that each commit signature on its way or counted, for an assignment of view 1 that is still `Open`, comes from a
  pledged server, unless 2f + 1 are pledged already (`Secured`), and that they are behind every committed entry and commit certificate. A server signs only what it has prepared, and signs no more in view 1 once
  it asked for view 2, because the handlers look at `state_`; that is `AskedHaveLeft`. An assignment stops to be open when the leader of view 2
  has `Found` it: then it is acknowledged again, by servers that never prepared it in view 1, and counts as known by
  what that leader started with. `SurveyInv` ties the requests in a NEW_VIEW message to 2f + 1 different senders. The quorums meet (`QuorumsMeet`): one
  of the requests the leader started with shows p. `SecondViewReproposes` adds what `computeBigO` does with it (`CertifiedIsReproposed`):
  between the stable checkpoints and the highest proof it finds every certificate, and all proofs for the number are of the same
  pre-prepare, since view 1 has one per number (`UniqueAssignments`).
- `CheckpointInvariant`, `StablesAreBacked` (`StableIsBacked`) and `StableAgreed` (`StableAgreement`):
  `CheckpointInv` says that a digest, wherever it is (under way, in a proof, a server's own), is that of
  the history of its sender up to the number (`Attests`); history below `lastExecuted` does not change
  (`Frozen`), so this lasts. All proofs kept but one, the one that made the record, were compared with each
  other's digest (`ProofsCompared`), and a stable checkpoint is backed by 2f + 1 other servers that got there and by
  2f + 1 (itself among them) that had the same balances (`StableBacked`). Two such sets share a server. Nothing is
  said, because it is false, of every lower number having been executed: the loop at cc:1136 steps over an empty slot, so the
  2f + 1 others that got there may include one with other balances, whose proof came first.

### The cluster with its clients

- `SystemTypeCorrect`, `SystemImplementsReplicas`, `SystemAgreement`, `SystemImplementsLog`: every step of the
  system is a step of `PbftReplicas` or leaves the servers alone, so what is proved of the
  cluster holds with the client program in place.
- `ReportInvariant`, `NeverTwice` and `SystemNeverTwice` (`ExecutedOnce`): `ReportInv` ties digests, history and replies to the
  proposals: a known digest leads to a number that was given to the request (`DigestsAreProposed`), what is executed was proposed
  under its number, and a reply reports a result that stands there (`Reported`). While the first leader leads
  and no checkpoint made it drop digests, its `digestToEntry` is the inverse of what it proposed (`GivenOneNumber`), hence one
  number per request.
- `AnsweredIsExecuted` (`AnswerIsExecution`): the client counts by timestamp and result; `ClientInv` says that every
  server it counted for the front transfer told it so of *this* transfer. Moving on to the next transfer clears the counts, and a late answer has
  another timestamp. `Reported` then makes f + 1 executions of f + 1 answers. The property is stated for as long as no number was given to two requests
  (`NumbersGivenOnce`): once `ExecutionAgreement` is broken (run `diverging`), the entry a digest leads to may
  be about another request, and a repetition is answered with that one's result.

### The threads

- `ExecutionInvariant`, `WithoutGap` (`ExecutedWithoutGap`) and `LeavesNothing` (`NothingLeftBehind`): neither is inductive.
  `ExecutionInv` adds why they hold: a thread that has passed a number that is not executed can
  meet nothing committed from there on (`PassedIsExecuted`), since a number that
  gets prepared meanwhile has a timer that outlasts the pass (`Blocked`); and a
  committed number has an uncommitted one below it or a thread that has yet to look at it
  (`CommittedIsReached`).
- `OneAtATime` (`AloneIsAtomic`): `AloneInv` follows the only thread inside through its transfer: which
  number it has in hand (the one after `lastExecuted`, by `PassedIsExecuted`), and what the accounts hold at each point (`Halfway`). `Sequential` is a recursive
  function; that it exists is proved by hand (`TakesAll`): the least number for which there is no such function is
  not 0, and has no predecessor.

### The driver

- `DriverInvariant` and what follows from it: `AllWithinReach` (`NoneForgotten`), `ExitLeavesNone` (`NothingLeftRunning`), `RightServers`
  (`ServersOfTheSet`), `OneSetEach` (`OneSetPerClient`), `DriverTypeCorrect`. The properties speak of the end of a command; in the middle of one
  there are processes of two sets. `DriverInv` knows the rest of a command by what may follow what (`InOrder`: kills before starts,
  transactions last, nothing after an exit), and says of each name that it is either as the set wants
  it or that the plan has an operation for it: a client that will be started is not in the map or will be killed before
  (`NoneTwice`), an old process has its kill ahead (`OldOnesGo`), a wanted server runs or has its
  start ahead, with the flag the set names (`WantedOnesCome`), and before an exit all that is in a map has its kill ahead (`AllGoAtExit`).
  `NothingYet` is why a first set that failed at once may be tried again as the first.
- `FileAsWritten` (`SetsAsWritten`): between two calls the reader has read up to the first line of the next set, which it
  keeps, or to the end (`AsWrittenInv`). The first lines of a well-formed file are numbered upwards because a
  number counts the first lines up to it.

TLC checked each of these invariants on an instance of its module before it was proved.

### Only model-checked

- Liveness (`AllServed`, `AllAnswered`, `LeaderReplaced`): fairness and ENABLED are out of the prover's reach.
- `ExecutedKnownToNewView` and `ExecutedReproposed` are not theorems of `Spec` alone: the fast path breaks them
  (`fast_path_lost`), and so does a third view (section 3). The theorems about them have the hypotheses above. The runs cover a little
  more: in `after_execution` all servers are correct and the short cut is closed by one of them being in the dark; in `leader_gone` the leader
  committed with everybody's help before it went down.
- The violated promises of section 3 are, of course, no theorems.
- What `Balances` computes is not proved about: the proofs use only that equal histories have equal balances.

## 5. Not modelled

- Data races other than those of `executePending` and of the client's timer: the view-change
  timers are atomic here, and what a race does to a map or to `futures` is not modelled.
- Restarting a single server: the driver kills all and starts all afresh between sets; nothing
  is persisted, so a restart is a new `Init`.
- A child of the driver whose exec fails: the exception makes it a second driver
  (`utils.cc:48`). It is taken for a process that dies.
- Cryptography (`crypto.cc`): wrappers of OpenSSL without state. Collisions, wrong keys, and amounts that
  overflow an int (initial balances are 10 each and the sum is constant).
- Reporting calls of the servers, and what the driver prints of them.

## 6. Plan

1. (done) State, ordering, checkpoints, view changes, clients, their composition; runs;
   type correctness, agreement within a view, the client refinement.
2. (done) The abstract log, checked and proved; `executePending` and the client's timer opened
   up at their shared reads; driver, process control, CSV reader and command parser.
3. (done) Proofs of every safety property the passing runs check but two (section 4).
4. (done) `ExecutedKnownToNewView` and `ExecutedReproposed` as theorems about what holds of them: while nobody is past the
   second view and not all servers are correct.
5. The recovery of a prepared request in the second view as liveness (a pre-prepare that
   overtakes NEW_VIEW; an entry whose status is not reset when proposed again), view-change
   requests that are refused after the first stable checkpoint, and a client that gets the result of
   another request after a view change. A start state of its own for each.
