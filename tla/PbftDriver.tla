----------------------------- MODULE PbftDriver -----------------------------
(***************************************************************************)
(* The driver (src/driver.cc) with what it is made of: the CSV reader, the *)
(* command parser, process control and the application client.  It starts  *)
(* and kills the servers and clients that the other modules describe: a    *)
(* run of PbftSystem is what happens between two sets.                     *)
(*                                                                         *)
(* The driver is one thread; a set is a plan of process operations, each a *)
(* step, among which processes may die by themselves.  Any of them may     *)
(* throw: the loop drops the rest of the plan and asks for a command.      *)
(***************************************************************************)
EXTENDS Integers, Sequences, SequencesExt, FiniteSets, FiniteSetsExt

CONSTANTS
    Servers,     \* serverNames, in the order of Constants
    Clients,     \* the names in clientAddresses, in their order
    Files,       \* the CSV files: sequences of lines
    MaxCommands  \* bound: commands the user types

IsSequence(s) == s \in Seq(Range(s))

\* The names of the clients are keys of a map.
ASSUME NamesAssumption == IsSequence(Servers) /\ IsSequence(Clients) /\ IsInjective(Clients)
ASSUME FilesAssumption ==
    \A f \in Files : IsSequence(f) /\ \A p \in DOMAIN f :
        f[p].ok => IsSequence(f[p].alive) /\ IsSequence(f[p].byzantine)
ASSUME CommandsAssumption == MaxCommands \in Nat

NoName == ""

\* A line of the file; the number is -1 where the first column is empty, and ok is
\* FALSE where parseCSVLine throws (a blank line, a missing column, a bad number).
Line(no, txn, alive, byzantine) ==
    [ok |-> TRUE, no |-> no, txn |-> txn, alive |-> alive, byzantine |-> byzantine]
BadLine == [ok |-> FALSE]

VARIABLES
    file,        \* the file the driver was started with
    position,    \* the next line of it
    currentSetNo, nextSet,             \* the reader: the set that was begun by looking ahead
    set,         \* the transaction set read last
    firstSet, serverName,              \* locals of mainloop
    plan,        \* operations left of the command
    driver,      \* "running", "exited" or "dead"
    commands,    \* commands typed
    serverPIDs, clientPIDs,            \* 0 where the map has no entry
    running,     \* the processes there are
    lastPid,
    received,    \* history: the sets that reached each client process
    brokenStart  \* history: the first set failed with processes started

readerVars  == <<file, position, currentSetNo, nextSet>>
loopVars    == <<set, firstSet, serverName, driver, commands>>
processVars == <<serverPIDs, clientPIDs, running, lastPid>>
vars == <<readerVars, loopVars, plan, processVars, received, brokenStart>>

NoSet == [no |-> 0, transactions |-> <<>>, alive |-> <<>>, byzantine |-> <<>>]

Init ==
    /\ file \in Files
    /\ position = 1 /\ currentSetNo = 0 /\ nextSet = NoSet
    /\ set = NoSet
    /\ firstSet = TRUE /\ serverName = NoName
    /\ plan = <<>> /\ driver = "running" /\ commands = 0
    /\ serverPIDs = [s \in Range(Servers) |-> 0]
    /\ clientPIDs = [c \in Range(Clients) |-> 0]
    /\ running = {} /\ lastPid = 0
    /\ received = {} /\ brokenStart = FALSE

----------------------------------------------------------------------------
(* Commands. *)

Op(op, name, byzantine) == [op |-> op, name |-> name, byzantine |-> byzantine]
ForEach(op, names, byzantine) == [i \in DOMAIN names |-> Op(op, names[i], byzantine)]

\* Mutant: the loop begins with the second server.
KillOtherServers == ForEach("killServer", Tail(Servers), FALSE)

KillAllClients == ForEach("killClient", Clients, FALSE)
KillAllServers == ForEach("killServer", Servers, FALSE)

Type == driver = "running" /\ plan = <<>> /\ commands < MaxCommands /\ commands' = commands + 1

\* Mutant: firstSet is not reset.
GoOn(ops) == plan' = ops /\ UNCHANGED firstSet

\* The command goes on with the operations ops, or is over.
Go(ops) == plan' = ops /\ firstSet' = (firstSet /\ ops # <<>>)

Started ==
    \/ \E s \in DOMAIN serverPIDs : serverPIDs[s] # 0
    \/ \E c \in DOMAIN clientPIDs : clientPIDs[c] # 0

\* An exception that mainloop catches: what is left of the command is dropped.
Throw ==
    /\ plan' = <<>>
    /\ brokenStart' = (brokenStart \/ (firstSet /\ Started))
    /\ UNCHANGED firstSet

\* Undefined behaviour, or an exception that ends the program.
Die == driver' = "dead" /\ plan' = <<>>

\* Mutant: the clients of the last set stay.
StartBeside(s) ==
    ForEach("startClient", Clients, FALSE)
    \o (IF firstSet THEN <<>> ELSE KillAllServers)
    \o ForEach("startServer", s.alive, FALSE)
    \o ForEach("process", Clients, FALSE)

\* What PROCESS_NEXT_SET does with set s.
StartSet(s) ==
    (IF firstSet THEN <<>> ELSE KillAllClients)
    \o ForEach("startClient", Clients, FALSE)
    \o (IF firstSet THEN <<>> ELSE KillAllServers)
    \o ForEach("startServer", s.byzantine, TRUE)
    \o ForEach("startServer", s.alive, FALSE)
    \o ForEach("process", Clients, FALSE)

----------------------------------------------------------------------------
(* readNextSet, for the set number n.  It reads up to the first line that  *)
(* begins set n + 1, which it keeps; every line before that belongs to set *)
(* n, whatever number it has.                                              *)

Ends(p, n) == ~file[p].ok \/ file[p].no = n + 1

Stop(n)   == Min({p \in position .. Len(file) : Ends(p, n)} \cup {Len(file) + 1})
AtEnd(n)  == Stop(n) > Len(file)
Broken(n) == ~AtEnd(n) /\ ~file[Stop(n)].ok

\* The lines of set n, after those read ahead, and the line that says who runs.
Body(n) == SubSeq(file, position, Stop(n) - 1)
Header(n) ==
    LET heads == {i \in DOMAIN Body(n) : Body(n)[i].no = n}
    IN  IF heads = {} THEN nextSet ELSE Body(n)[Max(heads)]

CurrentSet(n) ==
    [no |-> n,
     transactions |-> nextSet.transactions \o [i \in DOMAIN Body(n) |-> Body(n)[i].txn],
     alive |-> Header(n).alive, byzantine |-> Header(n).byzantine]

\* Mutant: the line that ended the last set is lost.
NothingAhead(n) == NoSet

LookAhead(n) ==
    IF AtEnd(n) \/ Broken(n) THEN NoSet
    ELSE LET l == file[Stop(n)]
         IN  [no |-> 0, transactions |-> <<l.txn>>, alive |-> l.alive, byzantine |-> l.byzantine]

ProcessNextSet ==
    LET n == currentSetNo + 1
    IN  /\ Type
        /\ currentSetNo' = n
        /\ position' = Stop(n) + 1
        /\ nextSet' = LookAhead(n)
        /\ \/ Broken(n) /\ Throw /\ UNCHANGED set
           \/ /\ ~Broken(n) /\ CurrentSet(n).transactions = <<>>
              /\ Go(<<>>) /\ UNCHANGED <<set, brokenStart>>
           \/ /\ ~Broken(n) /\ CurrentSet(n).transactions # <<>>
              /\ set' = CurrentSet(n)
              /\ Go(StartSet(CurrentSet(n))) /\ UNCHANGED brokenStart
        /\ UNCHANGED <<file, serverName, driver, processVars, received>>

----------------------------------------------------------------------------
(* The other commands. *)

\* A command that does not match any pattern is asked for again; a number that is
\* too large for stoi matches, and what it throws is not caught in mainloop.
InvalidCommand == Type /\ UNCHANGED <<readerVars, set, firstSet, serverName, driver, plan,
                                      processVars, received, brokenStart>>

HugeNumber == Type /\ Die /\ UNCHANGED <<readerVars, set, firstSet, serverName, processVars,
                                         received, brokenStart>>

\* The calls of the application client read and print; only the server's name is used
\* without a look, as an index (S1 to S9 match the pattern).
PrintReport ==
    /\ Type /\ Go(<<>>)
    /\ UNCHANGED <<readerVars, set, serverName, driver, processVars, received, brokenStart>>

PrintLog == \E known \in BOOLEAN :
    /\ Type
    /\ IF known THEN Go(<<>>) /\ UNCHANGED driver ELSE Die /\ UNCHANGED firstSet
    /\ UNCHANGED <<readerVars, set, serverName, processVars, received, brokenStart>>

\* printView asks the first alive server without the flag, or else the one it asked before.
Honest(s) == SelectSeq(s.alive, LAMBDA n : n \notin Range(s.byzantine))
Picked == IF Honest(set) = <<>> THEN serverName ELSE Head(Honest(set))

PrintView ==
    /\ Type
    /\ serverName' = Picked
    /\ IF Picked \in Range(Servers) THEN Go(<<>>) /\ UNCHANGED driver ELSE Die /\ UNCHANGED firstSet
    /\ UNCHANGED <<readerVars, set, processVars, received, brokenStart>>

Exit ==
    /\ Type
    /\ Go(KillAllServers \o KillAllClients \o <<Op("exit", NoName, FALSE)>>)
    /\ UNCHANGED <<readerVars, set, serverName, driver, processVars, received, brokenStart>>

----------------------------------------------------------------------------
(* Process control: the first operation of the plan. *)

Doing(op) == driver = "running" /\ plan # <<>> /\ Head(plan).op = op
Name      == Head(plan).name

\* Mutant: the number of the child is not kept.
ForkUnseen(kind, name, byzantine) ==
    /\ UNCHANGED lastPid
    /\ running' = running \cup {[pid |-> lastPid + 1, kind |-> kind, name |-> name,
                                 byzantine |-> byzantine, set |-> set.no]}

Fork(kind, name, byzantine) ==
    /\ lastPid' = lastPid + 1
    /\ running' = running \cup {[pid |-> lastPid + 1, kind |-> kind, name |-> name,
                                 byzantine |-> byzantine, set |-> set.no]}

Kill(pid) == running' = {p \in running : p.pid # pid}

\* Mutant: the entry of a killed process stays.
Remember(pids, name) == pids

Forget(pids, name) == [pids EXCEPT ![name] = 0]

\* map::insert leaves an entry that is there.
Insert(pids, name, pid) == [pids EXCEPT ![name] = IF @ = 0 THEN pid ELSE @]

Done == Go(Tail(plan)) /\ UNCHANGED brokenStart

\* fork fails.
NoFork == Throw /\ UNCHANGED <<clientPIDs, serverPIDs, running, lastPid>>

StartClient ==
    /\ Doing("startClient")
    /\ \/ /\ Fork("client", Name, FALSE)
          /\ clientPIDs' = Insert(clientPIDs, Name, lastPid + 1)
          /\ Done /\ UNCHANGED serverPIDs
       \/ NoFork
    /\ UNCHANGED driver

\* mainloop passes over an alive server that the set names as byzantine, too.
Passed == ~Head(plan).byzantine /\ Name \in Range(set.byzantine)

StartServer ==
    /\ Doing("startServer")
    /\ \/ Passed /\ Done /\ UNCHANGED processVars
       \/ ~Passed /\ Name \notin Range(Servers) /\ Throw /\ UNCHANGED processVars
       \/ ~Passed /\ Name \in Range(Servers) /\ serverPIDs[Name] # 0 /\ Done /\ UNCHANGED processVars
       \/ /\ ~Passed /\ Name \in Range(Servers) /\ serverPIDs[Name] = 0
          /\ \/ /\ Fork("server", Name, Head(plan).byzantine)
                /\ serverPIDs' = Insert(serverPIDs, Name, lastPid + 1)
                /\ Done /\ UNCHANGED clientPIDs
             \/ NoFork
    /\ UNCHANGED driver

KillServer ==
    /\ Doing("killServer")
    /\ Kill(serverPIDs[Name])
    /\ serverPIDs' = Forget(serverPIDs, Name)
    /\ Done /\ UNCHANGED <<clientPIDs, lastPid, driver>>

\* A client that is not in the map: the end of the map is dereferenced.  There is no such
\* process, or the program ends, and with it all its children if what it read was 0.
KillClient ==
    /\ Doing("killClient")
    /\ \/ /\ clientPIDs[Name] # 0
          /\ Kill(clientPIDs[Name])
          /\ clientPIDs' = Forget(clientPIDs, Name)
          /\ Done /\ UNCHANGED <<serverPIDs, lastPid, driver>>
       \/ /\ clientPIDs[Name] = 0
          /\ \/ Throw /\ UNCHANGED <<driver, running>>
             \/ Die /\ running' \in {running, {}} /\ UNCHANGED <<firstSet, brokenStart>>
          /\ UNCHANGED <<serverPIDs, clientPIDs, lastPid>>

Leave ==
    /\ Doing("exit")
    /\ driver' = "exited"
    /\ Done /\ UNCHANGED processVars

\* Process: the call fails, or one of the processes with the client's name has it.
Process ==
    /\ Doing("process")
    /\ \/ UNCHANGED received
       \/ \E p \in running : p.kind = "client" /\ p.name = Name /\ received' = received \cup {<<p.pid, set.no>>}
    /\ Done /\ UNCHANGED <<processVars, driver>>

\* A server or client comes down by itself; until it is waited for, its number is not reused.
ProcessDies == \E p \in running :
    /\ driver = "running"
    /\ running' = running \ {p}
    /\ UNCHANGED <<readerVars, loopVars, plan, serverPIDs, clientPIDs, lastPid, received, brokenStart>>

Operate ==
    /\ \/ (StartClient \/ StartServer \/ KillServer \/ KillClient \/ Leave) /\ UNCHANGED received
       \/ Process
    /\ UNCHANGED <<readerVars, set, serverName, commands>>

Command == ProcessNextSet \/ InvalidCommand \/ HugeNumber \/ PrintReport \/ PrintLog \/ PrintView \/ Exit

Next == Command \/ Operate \/ ProcessDies

Spec == Init /\ [][Next]_vars

----------------------------------------------------------------------------
(* Properties. *)

DriverTypeOK ==
    /\ file \in Files /\ position \in 1 .. Len(file) + 2
    /\ currentSetNo \in 0 .. MaxCommands /\ set.no \in 0 .. currentSetNo
    /\ firstSet \in BOOLEAN /\ brokenStart \in BOOLEAN
    /\ driver \in {"running", "exited", "dead"} /\ commands \in 0 .. MaxCommands
    /\ \A s \in Range(Servers) : serverPIDs[s] \in 0 .. lastPid
    /\ \A c \in Range(Clients) : clientPIDs[c] \in 0 .. lastPid
    /\ \A p \in running : p.pid \in 1 .. lastPid /\ p.set \in 1 .. set.no
    /\ received \subseteq (1 .. lastPid) \X (1 .. set.no)

\* What the file says of set n, if every line parses and the sets are numbered 1, 2, ...
\* in their first lines only.
WellFormed ==
    /\ \A p \in DOMAIN file : file[p].ok
    /\ LET heads == {p \in DOMAIN file : file[p].no # -1}
       IN  1 \in heads /\ \A p \in heads : file[p].no = Cardinality({q \in heads : q <= p})

Written(n) ==
    LET first == CHOOSE p \in DOMAIN file : file[p].no = n
        end   == Min({p \in DOMAIN file : file[p].no = n + 1} \cup {Len(file) + 1})
    IN  [no |-> n, transactions |-> [i \in 1 .. end - first |-> file[first + i - 1].txn],
         alive |-> file[first].alive, byzantine |-> file[first].byzantine]

\* The reader keeps one line of the next set and swaps its two sets at every call
\* (readNextSet): a well-formed file is still handed out set by set, as written.
SetsAsWritten == WellFormed /\ set.no # 0 => set = Written(set.no)

\* The processes of p's name that the driver could still kill.
PidOf(p) == IF p.kind = "server" THEN serverPIDs[p.name] ELSE clientPIDs[p.name]

\* startClient does not look whether there is a client already, and insert would not
\* replace it: still no process is out of the driver's reach, unless the first set failed.
NoneForgotten == ~brokenStart => \A p \in running : PidOf(p) = p.pid

\* After a regular exit nothing is left running, unless the first set failed.
NothingLeftRunning == driver = "exited" /\ ~brokenStart => running = {}

\* When transactions are handed out, all that runs was started for this set, with the flags
\* that it names, and every server of the set was started.
ServersOfTheSet ==
    plan # <<>> /\ Head(plan).op = "process" /\ ~brokenStart =>
        /\ \A p \in running : p.set = set.no
        /\ \A p \in running : p.kind = "server" => (p.byzantine <=> p.name \in Range(set.byzantine))
        /\ {s \in Range(Servers) : serverPIDs[s] # 0} = Range(set.alive) \cup Range(set.byzantine)

\* No client process is given the transactions of two sets.
OneSetPerClient == ~brokenStart => \A x, y \in received : x[1] = y[1] => x[2] = y[2]
=============================================================================
