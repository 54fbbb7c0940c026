--------------------------- MODULE PbftDriverProofs ---------------------------
(* The driver, for every file, every set of servers and clients and any number *)
(* of commands: it hands a file out as written, keeps every process within     *)
(* reach, leaves nothing running, and gives a set to what was started for it. *)
EXTENDS PbftDriver, SequenceTheorems, FiniteSetTheorems, WellFoundedInduction, TLAPS

----------------------------------------------------------------------------
(* The inductive invariant.  A plan is known by the operations that are left   *)
(* in it and by what may follow what: clients and servers are killed before    *)
(* they are started, transactions go out last, and nothing follows an exit.    *)

Starts == {"startClient", "startServer"}

Follows(o, q) ==
    /\ o.op = "startClient" => q.op # "killClient" /\ (q.op = "startClient" => q.name # o.name)
    /\ o.op = "startServer" => q.op # "killServer"
    /\ o.op = "process" => q.op = "process"
    /\ o.op \in Starts => q.op # "exit"
    /\ o.op # "exit"

InOrder(ops) == \A i, j \in DOMAIN ops : i < j => Follows(ops[i], ops[j])

Wanted(s) == Range(s.alive) \cup Range(s.byzantine)

OperationOK(o) ==
    /\ o.op \in {"startClient", "killClient", "process"} => o.name \in Range(Clients)
    /\ o.op = "killServer" => o.name \in Range(Servers)
    /\ o.op = "startServer" => /\ o.name \in Wanted(set)
                               /\ o.byzantine \in BOOLEAN
                               /\ o.byzantine => o.name \in Range(set.byzantine)
    /\ o.op \in Starts \cup {"process"} => set.no # 0

PlanInv == IsSequence(plan) /\ InOrder(plan) /\ \A o \in Range(plan) : OperationOK(o)

ReaderInv ==
    /\ currentSetNo <= commands
    /\ IsSequence(nextSet.alive) /\ IsSequence(nextSet.byzantine)

ProcessInv ==
    /\ lastPid \in Nat
    /\ serverPIDs \in [Range(Servers) -> 0 .. lastPid]
    /\ clientPIDs \in [Range(Clients) -> 0 .. lastPid]
    /\ \A p \in running : \/ p.kind = "server" /\ p.name \in Range(Servers)
                          \/ p.kind = "client" /\ p.name \in Range(Clients)
    /\ \A p, q \in running : p.pid = q.pid => p = q
    /\ \A p \in running : p.kind = "server" /\ p.set = set.no =>
           (p.byzantine <=> p.name \in Range(set.byzantine))

\* What is left to be done to a name.
Left(op)          == \E o \in Range(plan) : o.op = op
Pending(op, name) == \E o \in Range(plan) : o.op = op /\ o.name = name
Starting(name)    == \E o \in Range(plan) :
    o.op = "startServer" /\ o.name = name /\ (o.byzantine <=> name \in Range(set.byzantine))

WithinReach == \A p \in running : PidOf(p) = p.pid

\* A first set that failed before it started anything may be tried again as the first.
NothingYet == firstSet /\ driver = "running" /\ plan = <<>> => ~Started

NoneTwice == \A c \in Range(Clients) :
    Pending("startClient", c) => clientPIDs[c] = 0 \/ Pending("killClient", c)

AllGoAtExit ==
    /\ Left("exit") => /\ \A s \in Range(Servers) : serverPIDs[s] = 0 \/ Pending("killServer", s)
                       /\ \A c \in Range(Clients) : clientPIDs[c] = 0 \/ Pending("killClient", c)
    /\ driver = "exited" => running = {}

OldOnesGo == Left("process") => \A p \in running :
    \/ p.set = set.no
    \/ p.kind = "server" /\ Pending("killServer", p.name)
    \/ p.kind = "client" /\ Pending("killClient", p.name)

WantedOnesCome == Left("process") =>
    /\ \A s \in Wanted(set) : \/ Starting(s)
                              \/ /\ s \in Range(Servers) /\ serverPIDs[s] # 0
                                 /\ ~Pending("killServer", s)
    /\ \A s \in Range(Servers) \ Wanted(set) : serverPIDs[s] = 0 \/ Pending("killServer", s)

HandedOut ==
    /\ \A x \in received, p \in running : p.pid = x[1] => p.set = x[2]
    /\ \A x, y \in received : x[1] = y[1] => x[2] = y[2]

InCharge ==
    ~brokenStart =>
        /\ WithinReach /\ NothingYet /\ NoneTwice /\ AllGoAtExit
        /\ OldOnesGo /\ WantedOnesCome /\ HandedOut

DriverInv == DriverTypeOK /\ PlanInv /\ ReaderInv /\ ProcessInv /\ InCharge

----------------------------------------------------------------------------
(* Sequences of operations.                                                    *)

LEMMA Elements ==
    ASSUME NEW s, IsSequence(s)
    PROVE  /\ Len(s) \in Nat /\ DOMAIN s = 1 .. Len(s)
           /\ \A x \in Range(s) : \E i \in DOMAIN s : s[i] = x
           /\ \A i \in DOMAIN s : s[i] \in Range(s)
  BY LenProperties DEF IsSequence, Range

LEMMA Empty == IsSequence(<<>>) /\ InOrder(<<>>) /\ Range(<<>>) = {}
<1>1. <<>> \in Seq({}) /\ DOMAIN <<>> = {}
  OBVIOUS
<1>2. Range(<<>>) = {}
  BY <1>1 DEF Range
<1> QED
  BY <1>1, <1>2 DEF IsSequence, InOrder

LEMMA FirstAndRest ==
    ASSUME NEW s, IsSequence(s), s # <<>>
    PROVE  /\ IsSequence(Tail(s))
           /\ Head(s) \in Range(s) /\ Range(s) = {Head(s)} \cup Range(Tail(s))
           /\ InOrder(s) => /\ InOrder(Tail(s))
                            /\ \A o \in Range(Tail(s)) : Follows(Head(s), o)
<1>1. s \in Seq(Range(s)) /\ Len(s) \in Nat \ {0} /\ DOMAIN s = 1 .. Len(s)
  BY LenProperties, EmptySeq DEF IsSequence
<1>2. /\ Tail(s) \in Seq(Range(s))
      /\ Len(Tail(s)) = Len(s) - 1
      /\ \A i \in 1 .. Len(Tail(s)) : Tail(s)[i] = s[i + 1]
  BY <1>1, HeadTailProperties
<1>3. DOMAIN Tail(s) = 1 .. Len(s) - 1
  BY <1>2, LenProperties
<1>4. Head(s) = s[1]
  BY <1>1
<1> DEFINE t == Tail(s)
<1> HIDE DEF t
<1>5. /\ DOMAIN t = 1 .. Len(s) - 1 /\ Len(t) = Len(s) - 1
      /\ \A i \in DOMAIN t : i + 1 \in DOMAIN s /\ t[i] = s[i + 1]
      /\ \A i \in DOMAIN s \ {1} : i - 1 \in DOMAIN t /\ t[i - 1] = s[i]
  <2>1. DOMAIN t = 1 .. Len(s) - 1 /\ Len(t) = Len(s) - 1
    BY <1>2, <1>3 DEF t
  <2>2. \A i \in 1 .. Len(s) - 1 : t[i] = s[i + 1]
    BY <1>2 DEF t
  <2>3. ASSUME NEW i \in DOMAIN s \ {1} PROVE i - 1 \in 1 .. Len(s) - 1 /\ (i - 1) + 1 = i
    BY <1>1
  <2> QED
    BY <1>1, <2>1, <2>2, <2>3
<1>6. Range(s) = {Head(s)} \cup Range(t)
  <2>1. ASSUME NEW x \in Range(s) PROVE x = Head(s) \/ x \in Range(t)
    BY <1>4, <1>5 DEF Range
  <2>2. ASSUME NEW x \in Range(t) PROVE x \in Range(s)
    BY <1>5 DEF Range
  <2>3. Head(s) \in Range(s)
    BY <1>1, <1>4 DEF Range
  <2> QED
    BY <2>1, <2>2, <2>3
<1>7. IsSequence(t)
  <2>1. \A i \in 1 .. Len(t) : t[i] \in Range(t)
    BY <1>5 DEF Range
  <2>2. PICK n \in Nat : n = Len(t)
    <3>1. Len(s) \in Nat \ {0} /\ Len(t) = Len(s) - 1
      BY <1>1, <1>5
    <3> QED
      BY <3>1
  <2>3. t = [i \in 1 .. n |-> t[i]]
    BY <1>2, <2>2, LenProperties DEF t
  <2> QED
    BY <2>1, <2>2, <2>3 DEF IsSequence
<1>8. ASSUME InOrder(s) PROVE InOrder(t) /\ \A o \in Range(t) : Follows(Head(s), o)
  <2>1. ASSUME NEW i \in DOMAIN t, NEW j \in DOMAIN t, i < j PROVE Follows(t[i], t[j])
    <3>1. i + 1 \in DOMAIN s /\ j + 1 \in DOMAIN s /\ i + 1 < j + 1
      BY <1>1, <1>5, <2>1
    <3> QED
      BY <1>5, <1>8, <3>1 DEF InOrder
  <2>2. ASSUME NEW j \in DOMAIN t PROVE Follows(s[1], t[j])
    <3>1. 1 \in DOMAIN s /\ j + 1 \in DOMAIN s /\ 1 < j + 1
      BY <1>1, <1>5
    <3> QED
      BY <1>5, <1>8, <3>1 DEF InOrder
  <2> QED
    BY <1>4, <2>1, <2>2 DEF InOrder, Range
<1> QED
  BY <1>6, <1>7, <1>8 DEF t

LEMMA Joined ==
    ASSUME NEW s, NEW t, IsSequence(s), IsSequence(t)
    PROVE  /\ IsSequence(s \o t) /\ Range(s \o t) = Range(s) \cup Range(t)
           /\ /\ InOrder(s) /\ InOrder(t)
              /\ \A x \in Range(s), y \in Range(t) : Follows(x, y)
              => InOrder(s \o t)
<1> DEFINE X == Range(s) \cup Range(t)
<1>1. s \in Seq(X) /\ t \in Seq(X)
  <2> HIDE DEF X
  <2>1. Range(s) \subseteq X /\ Range(t) \subseteq X
    BY DEF X
  <2> QED
    BY <2>1, SeqMonotonic DEF IsSequence
<1> HIDE DEF X
<1>2. PICK w : w = s \o t
  OBVIOUS
<1>3. /\ w \in Seq(X) /\ Len(w) = Len(s) + Len(t)
      /\ \A i \in 1 .. Len(s) + Len(t) : w[i] = IF i <= Len(s) THEN s[i] ELSE t[i - Len(s)]
  BY <1>1, <1>2, ConcatProperties
<1>4. /\ Len(s) \in Nat /\ DOMAIN s = 1 .. Len(s)
      /\ Len(t) \in Nat /\ DOMAIN t = 1 .. Len(t)
      /\ DOMAIN w = 1 .. Len(s) + Len(t)
  BY <1>1, <1>3, LenProperties
<1>5. /\ \A i \in DOMAIN s : i \in DOMAIN w /\ w[i] = s[i]
      /\ \A i \in DOMAIN t : i + Len(s) \in DOMAIN w /\ w[i + Len(s)] = t[i]
      /\ \A i \in DOMAIN w : \/ i \in DOMAIN s /\ w[i] = s[i]
                             \/ i > Len(s) /\ i - Len(s) \in DOMAIN t /\ w[i] = t[i - Len(s)]
  <2>1. \A i \in DOMAIN t : i + Len(s) > Len(s) /\ (i + Len(s)) - Len(s) = i
    BY <1>4
  <2>2. ASSUME NEW i \in DOMAIN t PROVE i + Len(s) \in DOMAIN w /\ w[i + Len(s)] = t[i]
    <3>1. i + Len(s) \in 1 .. Len(s) + Len(t) /\ ~(i + Len(s) <= Len(s))
      BY <1>4
    <3> QED
      BY <1>3, <1>4, <2>1, <3>1
  <2>3. ASSUME NEW i \in DOMAIN w, i > Len(s) PROVE i - Len(s) \in DOMAIN t
    BY <1>4, <2>3
  <2>4. ASSUME NEW i \in DOMAIN w, ~(i > Len(s)) PROVE i \in DOMAIN s /\ i <= Len(s)
    BY <1>4, <2>4
  <2>5. \A i \in DOMAIN s : i \in DOMAIN w /\ i <= Len(s)
    BY <1>4
  <2> QED
    BY <1>3, <1>4, <2>2, <2>3, <2>4, <2>5
<1>6. Range(w) = X
  BY <1>5 DEF Range, X
<1>7. ASSUME InOrder(s), InOrder(t), \A x \in Range(s), y \in Range(t) : Follows(x, y)
      PROVE  InOrder(w)
  <2> SUFFICES ASSUME NEW i \in DOMAIN w, NEW j \in DOMAIN w, i < j
               PROVE  Follows(w[i], w[j])
    BY DEF InOrder
  <2>1. CASE i \in DOMAIN s /\ j \in DOMAIN s
    BY <1>5, <1>4, <1>7, <2>1 DEF InOrder
  <2>2. CASE i \in DOMAIN s /\ j > Len(s)
    <3>1. w[i] \in Range(s) /\ w[j] \in Range(t)
      BY <1>4, <1>5, <2>2 DEF Range
    <3> QED
      BY <1>7, <3>1
  <2>3. CASE i > Len(s)
    <3>1. /\ i - Len(s) \in DOMAIN t /\ w[i] = t[i - Len(s)]
          /\ j - Len(s) \in DOMAIN t /\ w[j] = t[j - Len(s)] /\ i - Len(s) < j - Len(s)
      BY <1>4, <1>5, <2>3
    <3> QED
      BY <1>7, <3>1 DEF InOrder
  <2> QED
    BY <1>4, <2>1, <2>2, <2>3
<1> QED
  BY <1>2, <1>3, <1>6, <1>7 DEF X, IsSequence

LEMMA One ==
    ASSUME NEW o
    PROVE  IsSequence(<<o>>) /\ Range(<<o>>) = {o} /\ InOrder(<<o>>)
<1>1. DOMAIN <<o>> = {1} /\ <<o>>[1] = o /\ <<o>> \in Seq({o})
  OBVIOUS
<1>2. Range(<<o>>) = {o}
  BY <1>1 DEF Range
<1> QED
  BY <1>1, <1>2 DEF IsSequence, InOrder

Each(op, names, b) == {Op(op, n, b) : n \in Range(names)}

LEMMA OneEach ==
    ASSUME NEW op, NEW b, NEW names, IsSequence(names),
           op # "exit", op = "startClient" => IsInjective(names)
    PROVE  /\ IsSequence(ForEach(op, names, b)) /\ InOrder(ForEach(op, names, b))
           /\ Range(ForEach(op, names, b)) = Each(op, names, b)
           /\ \A o \in Range(ForEach(op, names, b)) : o.op = op
<1> PICK ops : ops = [i \in DOMAIN names |-> Op(op, names[i], b)]
  OBVIOUS
<1>1. Len(names) \in Nat /\ DOMAIN names = 1 .. Len(names)
  BY Elements
<1>2. \A i \in DOMAIN names : ops[i].op = op /\ ops[i].name = names[i]
  BY DEF Op
<1>3. Range(ops) = Each(op, names, b)
  BY DEF Range, Each
<1>4. IsSequence(ops)
  <2>1. \A i \in 1 .. Len(names) : ops[i] \in Range(ops)
    BY <1>1 DEF Range
  <2>2. ops = [i \in 1 .. Len(names) |-> ops[i]]
    BY <1>1
  <2> QED
    BY <1>1, <2>1, <2>2 DEF IsSequence
<1>5. InOrder(ops)
  <2> SUFFICES ASSUME NEW i \in DOMAIN names, NEW j \in DOMAIN names, i < j
               PROVE  Follows(ops[i], ops[j])
    BY DEF InOrder
  <2>1. op = "startClient" => names[i] # names[j]
    BY <1>1 DEF IsInjective
  <2> QED
    BY <1>2, <2>1 DEF Follows, Starts
<1>6. \A o \in Range(ops) : o.op = op
  BY <1>2 DEF Range
<1> QED
  BY <1>3, <1>4, <1>5, <1>6 DEF ForEach

SetOperations(s) ==
    (IF firstSet THEN {} ELSE Each("killClient", Clients, FALSE) \cup Each("killServer", Servers, FALSE))
    \cup Each("startClient", Clients, FALSE)
    \cup Each("startServer", s.byzantine, TRUE) \cup Each("startServer", s.alive, FALSE)
    \cup Each("process", Clients, FALSE)

\* The plan for a set is in order, whatever servers the set names.
LEMMA PlanOfSet ==
    ASSUME NEW s, IsSequence(s.alive), IsSequence(s.byzantine)
    PROVE  /\ IsSequence(StartSet(s)) /\ InOrder(StartSet(s))
           /\ Range(StartSet(s)) = SetOperations(s)
<1>1. PICK a : a = IF firstSet THEN <<>> ELSE KillAllClients
  OBVIOUS
<1>2. PICK b : b = ForEach("startClient", Clients, FALSE)
  OBVIOUS
<1>3. PICK c : c = IF firstSet THEN <<>> ELSE KillAllServers
  OBVIOUS
<1>4. PICK d : d = ForEach("startServer", s.byzantine, TRUE)
  OBVIOUS
<1>5. PICK e : e = ForEach("startServer", s.alive, FALSE)
  OBVIOUS
<1>6. PICK f : f = ForEach("process", Clients, FALSE)
  OBVIOUS
<1>7. StartSet(s) = a \o b \o c \o d \o e \o f
  BY <1>1, <1>2, <1>3, <1>4, <1>5, <1>6 DEF StartSet
<1>a. /\ IsSequence(a) /\ InOrder(a)
      /\ Range(a) = IF firstSet THEN {} ELSE Each("killClient", Clients, FALSE)
      /\ \A o \in Range(a) : o.op = "killClient"
  BY <1>1, Empty, OneEach, NamesAssumption DEF KillAllClients
<1>b. /\ IsSequence(b) /\ InOrder(b) /\ Range(b) = Each("startClient", Clients, FALSE)
      /\ \A o \in Range(b) : o.op = "startClient"
  BY <1>2, OneEach, NamesAssumption
<1>c. /\ IsSequence(c) /\ InOrder(c)
      /\ Range(c) = IF firstSet THEN {} ELSE Each("killServer", Servers, FALSE)
      /\ \A o \in Range(c) : o.op = "killServer"
  BY <1>3, Empty, OneEach, NamesAssumption DEF KillAllServers
<1>d. /\ IsSequence(d) /\ InOrder(d) /\ Range(d) = Each("startServer", s.byzantine, TRUE)
      /\ \A o \in Range(d) : o.op = "startServer"
  BY <1>4, OneEach
<1>e. /\ IsSequence(e) /\ InOrder(e) /\ Range(e) = Each("startServer", s.alive, FALSE)
      /\ \A o \in Range(e) : o.op = "startServer"
  BY <1>5, OneEach
<1>f. /\ IsSequence(f) /\ InOrder(f) /\ Range(f) = Each("process", Clients, FALSE)
      /\ \A o \in Range(f) : o.op = "process"
  BY <1>6, OneEach, NamesAssumption
<1> DEFINE May(x, y) == \A o \in Range(x), q \in Range(y) : Follows(o, q)
<1>9. IsSequence(a \o b) /\ InOrder(a \o b) /\ Range(a \o b) = Range(a) \cup Range(b)
  <2>1. May(a, b)
    BY <1>a, <1>b DEF Follows, Starts
  <2> QED
    BY <1>a, <1>b, <2>1, Joined
<1>10. PICK g : g = a \o b
  OBVIOUS
<1>11. IsSequence(g \o c) /\ InOrder(g \o c) /\ Range(g \o c) = Range(g) \cup Range(c)
  <2>1. \A o \in Range(g) : o.op \in {"killClient", "startClient"}
    BY <1>a, <1>b, <1>9, <1>10
  <2>2. May(g, c)
    BY <1>c, <2>1 DEF Follows, Starts
  <2> QED
    BY <1>c, <1>9, <1>10, <2>2, Joined
<1>12. PICK h : h = g \o c
  OBVIOUS
<1>13. IsSequence(h \o d) /\ InOrder(h \o d) /\ Range(h \o d) = Range(h) \cup Range(d)
  <2>1. \A o \in Range(h) : o.op \in {"killClient", "startClient", "killServer"}
    BY <1>a, <1>b, <1>c, <1>9, <1>10, <1>11, <1>12
  <2>2. May(h, d)
    BY <1>d, <2>1 DEF Follows, Starts
  <2> QED
    BY <1>d, <1>11, <1>12, <2>2, Joined
<1>14. PICK j : j = h \o d
  OBVIOUS
<1>15. IsSequence(j \o e) /\ InOrder(j \o e) /\ Range(j \o e) = Range(j) \cup Range(e)
  <2>1. \A o \in Range(j) : o.op \in {"killClient", "startClient", "killServer", "startServer"}
    BY <1>a, <1>b, <1>c, <1>d, <1>9, <1>10, <1>11, <1>12, <1>13, <1>14
  <2>2. May(j, e)
    BY <1>e, <2>1 DEF Follows, Starts
  <2> QED
    BY <1>e, <1>13, <1>14, <2>2, Joined
<1>16. PICK k : k = j \o e
  OBVIOUS
<1>17. IsSequence(k \o f) /\ InOrder(k \o f) /\ Range(k \o f) = Range(k) \cup Range(f)
  <2>1. \A o \in Range(k) : o.op \in {"killClient", "startClient", "killServer", "startServer"}
    BY <1>a, <1>b, <1>c, <1>d, <1>e, <1>9, <1>10, <1>11, <1>12, <1>13, <1>14, <1>15, <1>16
  <2>2. May(k, f)
    BY <1>f, <2>1 DEF Follows, Starts
  <2> QED
    BY <1>f, <1>15, <1>16, <2>2, Joined
<1>18. Range(k \o f) = SetOperations(s)
  BY <1>a, <1>b, <1>c, <1>d, <1>e, <1>f, <1>9, <1>10, <1>11, <1>12, <1>13, <1>14, <1>15,
     <1>16, <1>17 DEF SetOperations
<1> QED
  BY <1>7, <1>10, <1>12, <1>14, <1>16, <1>17, <1>18

ExitOperations ==
    Each("killServer", Servers, FALSE) \cup Each("killClient", Clients, FALSE)
    \cup {Op("exit", NoName, FALSE)}

LEMMA PlanOfExit ==
    LET p == KillAllServers \o KillAllClients \o <<Op("exit", NoName, FALSE)>>
    IN  IsSequence(p) /\ InOrder(p) /\ Range(p) = ExitOperations
<1>1. PICK a : a = KillAllServers
  OBVIOUS
<1>2. PICK b : b = KillAllClients
  OBVIOUS
<1>3. PICK c : c = <<Op("exit", NoName, FALSE)>>
  OBVIOUS
<1>4. Op("exit", NoName, FALSE).op = "exit"
  BY DEF Op
<1>a. /\ IsSequence(a) /\ InOrder(a) /\ Range(a) = Each("killServer", Servers, FALSE)
      /\ \A o \in Range(a) : o.op = "killServer"
  BY <1>1, <1>4, OneEach, NamesAssumption DEF KillAllServers
<1>b. /\ IsSequence(b) /\ InOrder(b) /\ Range(b) = Each("killClient", Clients, FALSE)
      /\ \A o \in Range(b) : o.op = "killClient"
  BY <1>2, <1>4, OneEach, NamesAssumption DEF KillAllClients
<1>c. /\ IsSequence(c) /\ InOrder(c) /\ Range(c) = {Op("exit", NoName, FALSE)}
      /\ \A o \in Range(c) : o.op = "exit"
  BY <1>3, <1>4, One
<1>5. IsSequence(a \o b) /\ InOrder(a \o b) /\ Range(a \o b) = Range(a) \cup Range(b)
  <2>1. \A o \in Range(a), q \in Range(b) : Follows(o, q)
    BY <1>a, <1>b DEF Follows, Starts
  <2> QED
    BY <1>a, <1>b, <2>1, Joined
<1>6. PICK g : g = a \o b
  OBVIOUS
<1>7. IsSequence(g \o c) /\ InOrder(g \o c) /\ Range(g \o c) = Range(g) \cup Range(c)
  <2>1. \A o \in Range(g), q \in Range(c) : Follows(o, q)
    BY <1>a, <1>b, <1>c, <1>5, <1>6 DEF Follows, Starts
  <2> QED
    BY <1>c, <1>5, <1>6, <2>1, Joined
<1> QED
  BY <1>1, <1>2, <1>3, <1>a, <1>b, <1>c, <1>5, <1>6, <1>7 DEF ExitOperations

----------------------------------------------------------------------------
(* What the reader hands out.                                                  *)

LEMMA LeastExists ==
    ASSUME NEW b \in Int, NEW S \in SUBSET Int, S # {}, \A x \in S : b <= x
    PROVE  Min(S) \in S /\ \A x \in S : Min(S) <= x
<1> DEFINE T == {x - b : x \in S}
<1>1. T \subseteq Nat
  <2> SUFFICES ASSUME NEW x \in S PROVE x - b \in Nat
    OBVIOUS
  <2>1. x \in Int /\ b <= x
    OBVIOUS
  <2> QED
    BY <2>1
<1>2. T # {}
  OBVIOUS
<1> DEFINE R == OpToRel(<, Nat)
<1>3. IsWellFoundedOn(R, Nat)
  BY NatLessThanWellFounded
<1>4. \A t, u \in Nat : u < t => <<u, t>> \in R
  BY DEF OpToRel
<1>5. /\ \A t \in T : \E x \in S : t = x - b
      /\ \A x \in S : x - b \in T
  OBVIOUS
<1> HIDE DEF T, R
<1>6. PICK t \in T : \A u \in T : ~(<<u, t>> \in R)
  BY <1>1, <1>2, <1>3, WFMin
<1>7. ASSUME NEW u \in T PROVE t <= u
  <2>1. t \in Nat /\ u \in Nat
    BY <1>1
  <2>2. ~(u < t)
    BY <1>4, <1>6, <2>1
  <2> QED
    BY <2>1, <2>2
<1>8. PICK x \in S : t = x - b
  BY <1>5
<1>9. \A y \in S : x <= y
  <2> SUFFICES ASSUME NEW y \in S PROVE x <= y
    OBVIOUS
  <2>1. x - b <= y - b
    BY <1>5, <1>7, <1>8
  <2> QED
    BY <2>1
<1> QED
  BY <1>9 DEF Min

LEMMA GreatestExists ==
    ASSUME NEW b \in Int, NEW S \in SUBSET Int, S # {}, \A x \in S : x <= b
    PROVE  Max(S) \in S /\ \A x \in S : x <= Max(S)
<1> DEFINE T == {0 - x : x \in S}
<1>1. \A x \in S : 0 - x \in Int /\ 0 - b <= 0 - x
  <2> SUFFICES ASSUME NEW x \in S PROVE 0 - x \in Int /\ 0 - b <= 0 - x
    OBVIOUS
  <2>1. x \in Int /\ x <= b
    OBVIOUS
  <2> QED
    BY <2>1
<1>2. /\ \A t \in T : \E x \in S : t = 0 - x
      /\ \A x \in S : 0 - x \in T
  OBVIOUS
<1> HIDE DEF T
<1>3. Min(T) \in T /\ \A t \in T : Min(T) <= t
  <2>1. T \in SUBSET Int /\ T # {} /\ 0 - b \in Int /\ \A t \in T : 0 - b <= t
    <3>1. ASSUME NEW t \in T PROVE t \in Int /\ 0 - b <= t
      <4>1. PICK x \in S : t = 0 - x
        BY <1>2
      <4> QED
        BY <1>1, <4>1
    <3>2. T # {}
      BY <1>2
    <3> QED
      BY <3>1, <3>2
  <2> QED
    BY <2>1, LeastExists
<1>4. PICK x \in S : Min(T) = 0 - x
  BY <1>2, <1>3
<1>5. \A y \in S : y <= x
  <2> SUFFICES ASSUME NEW y \in S PROVE y <= x
    OBVIOUS
  <2>1. 0 - x <= 0 - y
    BY <1>2, <1>3, <1>4
  <2> QED
    BY <2>1
<1> QED
  BY <1>5 DEF Max

Reading == file \in Files /\ position \in 1 .. Len(file) + 2

LEMMA FileLines ==
    ASSUME Reading
    PROVE  /\ Len(file) \in Nat /\ DOMAIN file = 1 .. Len(file)
           /\ \A p \in DOMAIN file : file[p] \in Range(file)
  BY FilesAssumption, Elements DEF Reading

LEMMA ReadsUpTo ==
    ASSUME Reading, NEW n
    PROVE  /\ Stop(n) \in 1 .. Len(file) + 1
           /\ \A p \in position .. Stop(n) - 1 : p \in DOMAIN file /\ ~Ends(p, n)
           /\ ~AtEnd(n) => Stop(n) \in position .. Len(file) /\ Ends(Stop(n), n)
<1> DEFINE E == {p \in position .. Len(file) : Ends(p, n)}
           S == E \cup {Len(file) + 1}
<1>1. Len(file) \in Nat /\ DOMAIN file = 1 .. Len(file) /\ position \in 1 .. Len(file) + 2
  BY FileLines DEF Reading
<1>2. S \in SUBSET Int /\ S # {} /\ \A p \in S : 1 <= p
  BY <1>1
<1>3. Stop(n) \in S /\ \A p \in S : Stop(n) <= p
  <2> HIDE DEF S
  <2>1. Stop(n) = Min(S)
    BY DEF Stop, S
  <2> QED
    BY <1>2, <2>1, LeastExists
<1>4. PICK q : q = Stop(n)
  OBVIOUS
<1>5. q \in 1 .. Len(file) + 1 /\ (q \in E \/ q = Len(file) + 1)
  BY <1>1, <1>3, <1>4
<1>6. ASSUME NEW p \in position .. q - 1 PROVE p \in DOMAIN file /\ ~Ends(p, n)
  <2>1. p \in position .. Len(file) /\ p \in Int /\ p < q /\ p \in DOMAIN file
    BY <1>1, <1>5
  <2>2. p \notin E
    BY <1>3, <1>4, <1>5, <2>1
  <2> QED
    BY <2>1, <2>2
<1>7. ~AtEnd(n) => q <= Len(file)
  BY <1>1, <1>4, <1>5 DEF AtEnd
<1> QED
  BY <1>1, <1>4, <1>5, <1>6, <1>7

LEMMA BodyLines ==
    ASSUME Reading, NEW n \in Int
    PROVE  /\ Len(Body(n)) = IF position <= Stop(n) - 1 THEN Stop(n) - position ELSE 0
           /\ DOMAIN Body(n) = 1 .. Len(Body(n))
           /\ \A i \in DOMAIN Body(n) : /\ position + i - 1 \in DOMAIN file
                                        /\ Body(n)[i] = file[position + i - 1]
                                        /\ ~Ends(position + i - 1, n)
<1>1. Len(file) \in Nat /\ DOMAIN file = 1 .. Len(file) /\ position \in 1 .. Len(file) + 2
  BY FileLines DEF Reading
<1>2. PICK q : q = Stop(n)
  OBVIOUS
<1>3. q \in 1 .. Len(file) + 1 /\ \A p \in position .. q - 1 : p \in DOMAIN file /\ ~Ends(p, n)
  BY <1>2, ReadsUpTo
<1>4. PICK b : b = SubSeq(file, position, q - 1)
  OBVIOUS
<1>5. \A p \in position .. q - 1 : file[p] \in Range(file)
  BY <1>3, FileLines
<1>6. position \in Int /\ q - 1 \in Int
  BY <1>1, <1>3
<1>7. /\ b \in Seq(Range(file))
      /\ position <= q - 1 => Len(b) = (q - 1) - position + 1
      /\ ~(position <= q - 1) => Len(b) = 0
      /\ \A i \in 1 .. (q - 1) - position + 1 : b[i] = file[position + i - 1]
  BY <1>4, <1>5, <1>6, SubSeqProperties
<1>8. DOMAIN b = 1 .. Len(b)
  BY <1>7, LenProperties
<1>9. position \in Int /\ q \in Int
  BY <1>1, <1>3
<1>10. Len(b) = IF position <= q - 1 THEN q - position ELSE 0
  <2>1. (q - 1) - position + 1 = q - position
    BY <1>9
  <2> QED
    BY <1>7, <2>1
<1>11. ASSUME NEW i \in DOMAIN b
       PROVE  i \in 1 .. (q - 1) - position + 1 /\ position + i - 1 \in position .. q - 1
  <2>1. i \in 1 .. Len(b)
    BY <1>8
  <2>2. i \in Int /\ 1 <= i /\ i <= q - position /\ position <= q - 1
    BY <1>9, <1>10, <2>1
  <2> QED
    BY <1>9, <2>2
<1> QED
  BY <1>2, <1>3, <1>4, <1>7, <1>8, <1>10, <1>11 DEF Body

\* The servers of a set are those of one line of the file.
LEMMA SetsHaveServers ==
    ASSUME Reading, ReaderInv, NEW n \in Int
    PROVE  /\ IsSequence(CurrentSet(n).alive) /\ IsSequence(CurrentSet(n).byzantine)
           /\ IsSequence(LookAhead(n).alive) /\ IsSequence(LookAhead(n).byzantine)
<1>1. \A p \in DOMAIN file : file[p].ok => IsSequence(file[p].alive) /\ IsSequence(file[p].byzantine)
  BY FilesAssumption DEF Reading
<1>2. IsSequence(Header(n).alive) /\ IsSequence(Header(n).byzantine)
  <2> DEFINE heads == {i \in DOMAIN Body(n) : Body(n)[i].no = n}
  <2>1. CASE heads = {}
    BY <2>1 DEF Header, ReaderInv
  <2>2. CASE heads # {}
    <3>1. heads \in SUBSET Int /\ Len(Body(n)) \in Int /\ \A i \in heads : i <= Len(Body(n))
      <4>1. DOMAIN Body(n) = 1 .. Len(Body(n))
        BY BodyLines
      <4>2. Len(Body(n)) \in Int
        <5>1. position \in Int /\ Stop(n) \in Int
          BY FileLines, ReadsUpTo DEF Reading
        <5> QED
          BY <5>1, BodyLines
      <4> QED
        BY <4>1, <4>2
    <3>2. Max(heads) \in heads
      <4> HIDE DEF heads
      <4> QED
        BY <2>2, <3>1, GreatestExists
    <3>3. PICK i \in DOMAIN Body(n) : Header(n) = Body(n)[i]
      BY <2>2, <3>2 DEF Header
    <3>4. position + i - 1 \in DOMAIN file /\ Header(n) = file[position + i - 1]
          /\ file[position + i - 1].ok
      BY <3>3, BodyLines DEF Ends
    <3> QED
      BY <1>1, <3>4
  <2> QED
    BY <2>1, <2>2
<1>3. IsSequence(LookAhead(n).alive) /\ IsSequence(LookAhead(n).byzantine)
  <2>1. CASE AtEnd(n) \/ Broken(n)
    BY <2>1, Empty DEF LookAhead, NoSet
  <2>2. CASE ~AtEnd(n) /\ ~Broken(n)
    <3>1. Stop(n) \in DOMAIN file /\ file[Stop(n)].ok
      <4>1. Stop(n) \in position .. Len(file) /\ position \in Int /\ 1 <= position
        BY <2>2, ReadsUpTo, FileLines DEF Reading
      <4>2. Stop(n) \in DOMAIN file
        BY <4>1, FileLines
      <4> QED
        BY <2>2, <4>2 DEF Broken
    <3> QED
      BY <1>1, <2>2, <3>1 DEF LookAhead
  <2> QED
    BY <2>1, <2>2
<1> QED
  BY <1>2, <1>3 DEF CurrentSet

----------------------------------------------------------------------------
(* The steps of a plan.                                                        *)

LEMMA NextOperation ==
    ASSUME PlanInv, plan # <<>>, plan' = Tail(plan), set' = set
    PROVE  /\ PlanInv'
           /\ Head(plan) \in Range(plan) /\ OperationOK(Head(plan))
           /\ Range(plan) = {Head(plan)} \cup Range(plan')
           /\ \A o \in Range(plan') : Follows(Head(plan), o)
  BY FirstAndRest DEF PlanInv, OperationOK, Wanted

LEMMA NoOperation ==
    ASSUME plan' = <<>>
    PROVE  PlanInv' /\ Range(plan') = {}
  BY Empty DEF PlanInv

\* An exception leaves the processes as they are, and the driver with no plan.
LEMMA ThrowKeeps ==
    ASSUME DriverInv, driver = "running", Throw,
           UNCHANGED <<readerVars, set, driver, commands, processVars, received>>
    PROVE  DriverInv'
<1>1. PlanInv' /\ Range(plan') = {}
  BY NoOperation DEF Throw
<1>2. DriverTypeOK' /\ ReaderInv' /\ ProcessInv'
  <2>1. DriverTypeOK'
    BY DEF DriverInv, DriverTypeOK, Throw, readerVars, processVars
  <2>2. ReaderInv'
    BY DEF DriverInv, ReaderInv, readerVars
  <2>3. ProcessInv'
    BY DEF DriverInv, ProcessInv, processVars
  <2> QED
    BY <2>1, <2>2, <2>3
<1>3. InCharge'
  <2> SUFFICES ASSUME ~brokenStart'
               PROVE  /\ WithinReach' /\ NothingYet' /\ NoneTwice' /\ AllGoAtExit'
                      /\ OldOnesGo' /\ WantedOnesCome' /\ HandedOut'
    BY DEF InCharge
  <2>1. ~brokenStart /\ (firstSet => ~Started)
    BY DEF Throw
  <2>2. InCharge /\ WithinReach /\ HandedOut
    BY <2>1 DEF DriverInv, InCharge
  <2>3. WithinReach'
    BY <2>2 DEF WithinReach, PidOf, processVars
  <2>4. HandedOut'
    BY <2>2 DEF HandedOut, processVars
  <2>5. NothingYet'
    BY <2>1 DEF NothingYet, Started, Throw, processVars
  <2>6. NoneTwice' /\ OldOnesGo' /\ WantedOnesCome'
    BY <1>1 DEF NoneTwice, OldOnesGo, WantedOnesCome, Pending, Left
  <2>7. AllGoAtExit'
    BY <1>1 DEF AllGoAtExit, Left
  <2> QED
    BY <2>3, <2>4, <2>5, <2>6, <2>7
<1> QED
  BY <1>1, <1>2, <1>3 DEF DriverInv

Kept == UNCHANGED <<readerVars, set, serverName, commands>>

LEMMA StartClientKeeps ==
    ASSUME DriverInv, StartClient, UNCHANGED received, Kept
    PROVE  DriverInv'
<1>1. CASE NoFork
  BY <1>1, ThrowKeeps DEF NoFork, StartClient, Doing, Kept, processVars
<1>2. CASE ~NoFork
  <2> PICK c : c = Name
    OBVIOUS
  <2> PICK n : n = lastPid + 1
    OBVIOUS
  <2> PICK new : new = [pid |-> n, kind |-> "client", name |-> c, byzantine |-> FALSE, set |-> set.no]
    OBVIOUS
  <2>1. /\ plan # <<>> /\ Head(plan).op = "startClient" /\ Head(plan).name = c
        /\ driver = "running" /\ driver' = driver /\ set' = set
        /\ plan' = Tail(plan) /\ firstSet' = (firstSet /\ Tail(plan) # <<>>)
        /\ lastPid' = n /\ running' = running \cup {new} /\ serverPIDs' = serverPIDs
        /\ clientPIDs' = Insert(clientPIDs, c, n) /\ brokenStart' = brokenStart
    BY <1>2 DEF StartClient, Doing, Name, Done, Go, Fork, Kept
  <2>2. /\ PlanInv' /\ OperationOK(Head(plan)) /\ Head(plan) \in Range(plan)
        /\ Range(plan) = {Head(plan)} \cup Range(plan')
        /\ \A o \in Range(plan') : Follows(Head(plan), o)
    BY <2>1, NextOperation DEF DriverInv
  <2>3. c \in Range(Clients) /\ set.no # 0
    BY <2>1, <2>2 DEF OperationOK, Starts
  <2>4. /\ lastPid \in Nat /\ n \in Nat /\ n = lastPid + 1
        /\ serverPIDs \in [Range(Servers) -> 0 .. lastPid]
        /\ clientPIDs \in [Range(Clients) -> 0 .. lastPid]
        /\ \A p \in running : p.pid \in 1 .. lastPid /\ p.set \in 1 .. set.no
        /\ set.no \in Nat
    BY DEF DriverInv, ProcessInv, DriverTypeOK
  <2>5. \A d \in Range(Clients) : clientPIDs'[d] = IF d = c /\ clientPIDs[d] = 0 THEN n ELSE clientPIDs[d]
    BY <2>1, <2>3, <2>4 DEF Insert
  <2>6. ProcessInv'
    <3>1. clientPIDs' \in [Range(Clients) -> 0 .. n] /\ serverPIDs' \in [Range(Servers) -> 0 .. n]
      BY <2>1, <2>3, <2>4 DEF Insert
    <3>2. new.pid = n /\ new.kind = "client" /\ new.name = c
      OBVIOUS
    <3>3. \A p, q \in running' : p.pid = q.pid => p = q
      <4>1. \A p \in running : p.pid # n
        BY <2>4
      <4>2. \A p, q \in running : p.pid = q.pid => p = q
        BY DEF DriverInv, ProcessInv
      <4>3. \A p \in running' : p \in running \/ p = new
        BY <2>1
      <4> QED
        BY <3>2, <4>1, <4>2, <4>3
    <3> QED
      BY <2>1, <2>3, <2>4, <3>1, <3>2, <3>3 DEF DriverInv, ProcessInv
  <2>7. DriverTypeOK'
    <3>1. \A s \in Range(Servers) : serverPIDs'[s] \in 0 .. lastPid'
      BY <2>1, <2>4
    <3>2. \A d \in Range(Clients) : clientPIDs'[d] \in 0 .. lastPid'
      BY <2>1, <2>4, <2>5
    <3>3. \A p \in running' : p.pid \in 1 .. lastPid' /\ p.set \in 1 .. set'.no
      BY <2>1, <2>3, <2>4
    <3>4. received' \subseteq (1 .. lastPid') \X (1 .. set'.no)
      BY <2>1, <2>4 DEF DriverInv, DriverTypeOK
    <3>5. firstSet' \in BOOLEAN /\ brokenStart' \in BOOLEAN
      BY <2>1 DEF DriverInv, DriverTypeOK
    <3> QED
      BY <2>1, <3>1, <3>2, <3>3, <3>4, <3>5 DEF DriverInv, DriverTypeOK, Kept, readerVars
  <2>8. ReaderInv'
    BY DEF DriverInv, ReaderInv, Kept, readerVars
  <2>9. InCharge'
    <3> SUFFICES ASSUME ~brokenStart'
                 PROVE  /\ WithinReach' /\ NothingYet' /\ NoneTwice' /\ AllGoAtExit'
                        /\ OldOnesGo' /\ WantedOnesCome' /\ HandedOut'
      BY DEF InCharge
    <3>1. /\ WithinReach /\ NothingYet /\ NoneTwice /\ AllGoAtExit
          /\ OldOnesGo /\ WantedOnesCome /\ HandedOut
      BY <2>1 DEF DriverInv, InCharge
    <3>2. clientPIDs[c] = 0
      <4>1. Pending("startClient", c)
        BY <2>1, <2>2 DEF Pending
      <4>2. ~Pending("killClient", c)
        BY <2>1, <2>2 DEF Pending, Follows
      <4> QED
        BY <2>3, <3>1, <4>1, <4>2 DEF NoneTwice
    <3>3. WithinReach'
      <4> SUFFICES ASSUME NEW p \in running' PROVE PidOf(p)' = p.pid
        BY DEF WithinReach
      <4>1. CASE p = new
        BY <2>1, <2>3, <2>5, <3>2, <4>1 DEF PidOf
      <4>2. CASE p \in running
        <5>1. PidOf(p) = p.pid /\ p.pid # 0
          BY <2>4, <3>1, <4>2 DEF WithinReach
        <5>2. p.kind # "server" => p.name \in Range(Clients) /\ clientPIDs[p.name] # 0
          BY <4>2, <5>1 DEF PidOf, DriverInv, ProcessInv
        <5>3. p.kind # "server" => clientPIDs'[p.name] = clientPIDs[p.name]
          BY <2>5, <5>2
        <5> QED
          BY <2>1, <5>1, <5>3 DEF PidOf
      <4> QED
        BY <2>1, <4>1, <4>2
    <3>4. NothingYet'
      BY <2>1 DEF NothingYet
    <3>5. NoneTwice'
      <4> SUFFICES ASSUME NEW d \in Range(Clients), Pending("startClient", d)'
                   PROVE  clientPIDs'[d] = 0 \/ Pending("killClient", d)'
        BY DEF NoneTwice
      <4>1. d # c /\ Pending("startClient", d)
        BY <2>1, <2>2 DEF Pending, Follows
      <4>2. clientPIDs[d] = 0 \/ Pending("killClient", d)
        BY <3>1, <4>1 DEF NoneTwice
      <4>3. Pending("killClient", d) => Pending("killClient", d)'
        BY <2>1, <2>2 DEF Pending
      <4> QED
        BY <2>5, <4>1, <4>2, <4>3
    <3>6. AllGoAtExit'
      <4>1. ~Left("exit")'
        BY <2>1, <2>2 DEF Left, Follows, Starts
      <4> QED
        BY <2>1, <4>1 DEF AllGoAtExit
    <3>7. \A op, d : op # "startClient" /\ Pending(op, d) => Pending(op, d)'
      BY <2>1, <2>2 DEF Pending
    <3>8. Left("process")' => Left("process")
      BY <2>2 DEF Left
    <3>9. OldOnesGo'
      BY <2>1, <3>1, <3>7, <3>8 DEF OldOnesGo
    <3>10. WantedOnesCome'
      <4>1. \A s : Starting(s) => Starting(s)'
        BY <2>1, <2>2 DEF Starting
      <4>2. \A s : Pending("killServer", s)' => Pending("killServer", s)
        BY <2>2 DEF Pending
      <4> QED
        BY <2>1, <3>1, <3>7, <3>8, <4>1, <4>2 DEF WantedOnesCome, Wanted
    <3>11. HandedOut'
      <4>1. \A x \in received : x[1] # n
        BY <2>4 DEF DriverInv, DriverTypeOK
      <4> QED
        BY <2>1, <3>1, <4>1 DEF HandedOut
    <3> QED
      BY <3>3, <3>4, <3>5, <3>6, <3>9, <3>10, <3>11
  <2> QED
    BY <2>2, <2>6, <2>7, <2>8, <2>9 DEF DriverInv
<1> QED
  BY <1>1, <1>2

\* The next name of the plan needs no new server.
LEMMA PassKeeps ==
    ASSUME DriverInv, Doing("startServer"), Done, UNCHANGED <<processVars, driver, received>>, Kept,
           Passed \/ (Name \in Range(Servers) /\ serverPIDs[Name] # 0)
    PROVE  DriverInv'
<1>1. /\ plan # <<>> /\ Head(plan).op = "startServer" /\ Head(plan).name = Name
      /\ driver = "running" /\ driver' = driver /\ set' = set /\ received' = received
      /\ plan' = Tail(plan) /\ firstSet' = (firstSet /\ Tail(plan) # <<>>)
      /\ lastPid' = lastPid /\ running' = running /\ serverPIDs' = serverPIDs
      /\ clientPIDs' = clientPIDs /\ brokenStart' = brokenStart
  BY DEF Doing, Name, Done, Go, Kept, processVars
<1>2. /\ PlanInv' /\ OperationOK(Head(plan)) /\ Head(plan) \in Range(plan)
      /\ Range(plan) = {Head(plan)} \cup Range(plan')
      /\ \A o \in Range(plan') : Follows(Head(plan), o)
  BY <1>1, NextOperation DEF DriverInv
<1>3. DriverTypeOK'
  BY <1>1 DEF DriverInv, DriverTypeOK, Kept, readerVars
<1>4. ReaderInv' /\ ProcessInv'
  BY <1>1 DEF DriverInv, ReaderInv, ProcessInv, Kept, readerVars
<1>5. InCharge'
  <2> SUFFICES ASSUME ~brokenStart'
               PROVE  /\ WithinReach' /\ NothingYet' /\ NoneTwice' /\ AllGoAtExit'
                      /\ OldOnesGo' /\ WantedOnesCome' /\ HandedOut'
    BY DEF InCharge
  <2>1. /\ WithinReach /\ NothingYet /\ NoneTwice /\ AllGoAtExit
        /\ OldOnesGo /\ WantedOnesCome /\ HandedOut
    BY <1>1 DEF DriverInv, InCharge
  <2>2. WithinReach' /\ HandedOut'
    BY <1>1, <2>1 DEF WithinReach, PidOf, HandedOut
  <2>3. NothingYet'
    BY <1>1 DEF NothingYet
  <2>4. /\ \A op, d : op # "startServer" => (Pending(op, d) <=> Pending(op, d)')
        /\ Left("process")' => Left("process")
    BY <1>1, <1>2 DEF Pending, Left
  <2>5. NoneTwice' /\ OldOnesGo'
    BY <1>1, <2>1, <2>4 DEF NoneTwice, OldOnesGo
  <2>6. AllGoAtExit'
    <3>1. ~Left("exit")'
      BY <1>1, <1>2 DEF Left, Follows, Starts
    <3> QED
      BY <1>1, <3>1 DEF AllGoAtExit
  <2>7. WantedOnesCome'
    <3> SUFFICES ASSUME Left("process")'
                 PROVE  /\ \A s \in Wanted(set) : \/ Starting(s)'
                                                  \/ /\ s \in Range(Servers) /\ serverPIDs[s] # 0
                                                     /\ ~Pending("killServer", s)'
                        /\ \A s \in Range(Servers) \ Wanted(set) :
                               serverPIDs[s] = 0 \/ Pending("killServer", s)'
      BY <1>1 DEF WantedOnesCome, Wanted
    <3>1. ASSUME NEW s \in Wanted(set), ~Starting(s)'
          PROVE  /\ s \in Range(Servers) /\ serverPIDs[s] # 0
                 /\ ~Pending("killServer", s)'
      <4>1. CASE Starting(s)
        <5>1. s = Name /\ (Head(plan).byzantine <=> s \in Range(set.byzantine))
          BY <1>1, <1>2, <3>1, <4>1 DEF Starting
        <5>2. s \in Range(Servers) /\ serverPIDs[s] # 0
          BY <5>1 DEF Passed
        <5>3. ~Pending("killServer", s)'
          BY <1>1, <1>2 DEF Pending, Follows
        <5> QED
          BY <5>2, <5>3
      <4>2. CASE ~Starting(s)
        BY <2>1, <2>4, <3>1, <4>2 DEF WantedOnesCome
      <4> QED
        BY <4>1, <4>2
    <3> QED
      BY <2>1, <2>4, <3>1 DEF WantedOnesCome
  <2> QED
    BY <2>2, <2>3, <2>5, <2>6, <2>7
<1> QED
  BY <1>2, <1>3, <1>4, <1>5 DEF DriverInv

LEMMA ForkServerKeeps ==
    ASSUME DriverInv, Doing("startServer"), Done, UNCHANGED <<driver, received, clientPIDs>>, Kept,
           ~Passed, Name \in Range(Servers), serverPIDs[Name] = 0,
           Fork("server", Name, Head(plan).byzantine),
           serverPIDs' = Insert(serverPIDs, Name, lastPid + 1)
    PROVE  DriverInv'
<1> PICK c : c = Name
  OBVIOUS
<1> PICK b : b = Head(plan).byzantine
  OBVIOUS
<1> PICK n : n = lastPid + 1
  OBVIOUS
<1> PICK new : new = [pid |-> n, kind |-> "server", name |-> c, byzantine |-> b, set |-> set.no]
  OBVIOUS
<1>1. /\ plan # <<>> /\ Head(plan).op = "startServer" /\ Head(plan).name = c
      /\ c \in Range(Servers) /\ serverPIDs[c] = 0
      /\ driver = "running" /\ driver' = driver /\ set' = set /\ received' = received
      /\ plan' = Tail(plan) /\ firstSet' = (firstSet /\ Tail(plan) # <<>>)
      /\ lastPid' = n /\ running' = running \cup {new} /\ clientPIDs' = clientPIDs
      /\ serverPIDs' = Insert(serverPIDs, c, n) /\ brokenStart' = brokenStart
  BY DEF Doing, Name, Done, Go, Fork, Kept
<1>2. /\ PlanInv' /\ OperationOK(Head(plan)) /\ Head(plan) \in Range(plan)
      /\ Range(plan) = {Head(plan)} \cup Range(plan')
      /\ \A o \in Range(plan') : Follows(Head(plan), o)
  BY <1>1, NextOperation DEF DriverInv
<1>3. set.no # 0 /\ b \in BOOLEAN /\ (b <=> c \in Range(set.byzantine)) /\ c \in Wanted(set)
  <2>1. /\ set.no # 0 /\ b \in BOOLEAN /\ (b => c \in Range(set.byzantine)) /\ c \in Wanted(set)
    BY <1>1, <1>2 DEF OperationOK, Starts
  <2> QED
    BY <2>1 DEF Passed
<1>4. /\ lastPid \in Nat /\ n \in Nat /\ n = lastPid + 1
      /\ serverPIDs \in [Range(Servers) -> 0 .. lastPid]
      /\ clientPIDs \in [Range(Clients) -> 0 .. lastPid]
      /\ \A p \in running : p.pid \in 1 .. lastPid /\ p.set \in 1 .. set.no
      /\ set.no \in Nat
  BY DEF DriverInv, ProcessInv, DriverTypeOK
<1>5. \A d \in Range(Servers) : serverPIDs'[d] = IF d = c THEN n ELSE serverPIDs[d]
  BY <1>1, <1>4 DEF Insert
<1>6. new.pid = n /\ new.kind = "server" /\ new.name = c /\ new.byzantine = b /\ new.set = set.no
  OBVIOUS
<1>7. \A p \in running' : p \in running \/ p = new
  BY <1>1
<1>8. ProcessInv'
  <2>1. serverPIDs' \in [Range(Servers) -> 0 .. n] /\ clientPIDs' \in [Range(Clients) -> 0 .. n]
    BY <1>1, <1>4 DEF Insert
  <2>2. \A p, q \in running' : p.pid = q.pid => p = q
    <3>1. \A p \in running : p.pid # n
      BY <1>4
    <3>2. \A p, q \in running : p.pid = q.pid => p = q
      BY DEF DriverInv, ProcessInv
    <3> QED
      BY <1>6, <1>7, <3>1, <3>2
  <2>3. \A p \in running' : \/ p.kind = "server" /\ p.name \in Range(Servers)
                            \/ p.kind = "client" /\ p.name \in Range(Clients)
    BY <1>1, <1>6, <1>7 DEF DriverInv, ProcessInv
  <2>4. \A p \in running' : p.kind = "server" /\ p.set = set.no =>
            (p.byzantine <=> p.name \in Range(set.byzantine))
    BY <1>3, <1>6, <1>7 DEF DriverInv, ProcessInv
  <2> QED
    BY <1>1, <1>4, <2>1, <2>2, <2>3, <2>4 DEF ProcessInv
<1>9. DriverTypeOK'
  <2>1. \A s \in Range(Servers) : serverPIDs'[s] \in 0 .. lastPid'
    BY <1>1, <1>4, <1>5
  <2>2. \A d \in Range(Clients) : clientPIDs'[d] \in 0 .. lastPid'
    BY <1>1, <1>4
  <2>3. \A p \in running' : p.pid \in 1 .. lastPid' /\ p.set \in 1 .. set'.no
    BY <1>1, <1>3, <1>4, <1>6, <1>7
  <2>4. received' \subseteq (1 .. lastPid') \X (1 .. set'.no)
    BY <1>1, <1>4 DEF DriverInv, DriverTypeOK
  <2>5. firstSet' \in BOOLEAN /\ brokenStart' \in BOOLEAN
    BY <1>1 DEF DriverInv, DriverTypeOK
  <2> QED
    BY <1>1, <2>1, <2>2, <2>3, <2>4, <2>5 DEF DriverInv, DriverTypeOK, Kept, readerVars
<1>10. ReaderInv'
  BY DEF DriverInv, ReaderInv, Kept, readerVars
<1>11. InCharge'
  <2> SUFFICES ASSUME ~brokenStart'
               PROVE  /\ WithinReach' /\ NothingYet' /\ NoneTwice' /\ AllGoAtExit'
                      /\ OldOnesGo' /\ WantedOnesCome' /\ HandedOut'
    BY DEF InCharge
  <2>1. /\ WithinReach /\ NothingYet /\ NoneTwice /\ AllGoAtExit
        /\ OldOnesGo /\ WantedOnesCome /\ HandedOut
    BY <1>1 DEF DriverInv, InCharge
  <2>2. WithinReach'
    <3> SUFFICES ASSUME NEW p \in running' PROVE PidOf(p)' = p.pid
      BY DEF WithinReach
    <3>1. CASE p = new
      BY <1>1, <1>5, <1>6, <3>1 DEF PidOf
    <3>2. CASE p \in running
      <4>1. PidOf(p) = p.pid /\ p.pid # 0
        BY <1>4, <2>1, <3>2 DEF WithinReach
      <4>2. p.kind = "server" => p.name \in Range(Servers) /\ p.name # c
        BY <1>1, <3>2, <4>1 DEF PidOf, DriverInv, ProcessInv
      <4>3. p.kind = "server" => serverPIDs'[p.name] = serverPIDs[p.name]
        BY <1>5, <4>2
      <4> QED
        BY <1>1, <4>1, <4>3 DEF PidOf
    <3> QED
      BY <1>7, <3>1, <3>2
  <2>3. NothingYet'
    BY <1>1 DEF NothingYet
  <2>4. /\ \A op, d : op # "startServer" => (Pending(op, d) <=> Pending(op, d)')
        /\ Left("process")' => Left("process")
    BY <1>1, <1>2 DEF Pending, Left
  <2>5. NoneTwice'
    BY <1>1, <2>1, <2>4 DEF NoneTwice
  <2>6. AllGoAtExit'
    <3>1. ~Left("exit")'
      BY <1>1, <1>2 DEF Left, Follows, Starts
    <3> QED
      BY <1>1, <3>1 DEF AllGoAtExit
  <2>7. OldOnesGo'
    BY <1>1, <1>6, <1>7, <2>1, <2>4 DEF OldOnesGo
  <2>8. WantedOnesCome'
    <3>1. ASSUME NEW s \in Wanted(set), Left("process")', ~Starting(s)'
          PROVE  /\ s \in Range(Servers) /\ serverPIDs'[s] # 0
                 /\ ~Pending("killServer", s)'
      <4>1. CASE s = c
        <5>1. ~Pending("killServer", s)'
          BY <1>1, <1>2 DEF Pending, Follows
        <5> QED
          BY <1>1, <1>4, <1>5, <4>1, <5>1
      <4>2. CASE s # c
        <5>1. ~Starting(s)
          BY <1>1, <1>2, <3>1, <4>2 DEF Starting
        <5> QED
          BY <1>5, <2>1, <2>4, <3>1, <4>2, <5>1 DEF WantedOnesCome
      <4> QED
        BY <4>1, <4>2
    <3>2. ASSUME NEW s \in Range(Servers) \ Wanted(set), Left("process")'
          PROVE  serverPIDs'[s] = 0 \/ Pending("killServer", s)'
      <4>1. s # c
        BY <1>3
      <4> QED
        BY <1>5, <2>1, <2>4, <3>2, <4>1 DEF WantedOnesCome
    <3> QED
      BY <1>1, <3>1, <3>2 DEF WantedOnesCome, Wanted
  <2>9. HandedOut'
    <3>1. \A x \in received : x[1] # n
      BY <1>4 DEF DriverInv, DriverTypeOK
    <3> QED
      BY <1>1, <1>6, <1>7, <2>1, <3>1 DEF HandedOut
  <2> QED
    BY <2>2, <2>3, <2>5, <2>6, <2>7, <2>8, <2>9
<1> QED
  BY <1>2, <1>8, <1>9, <1>10, <1>11 DEF DriverInv

LEMMA StartServerKeeps ==
    ASSUME DriverInv, StartServer, UNCHANGED received, Kept
    PROVE  DriverInv'
<1>1. CASE Throw /\ UNCHANGED processVars
  BY <1>1, ThrowKeeps DEF StartServer, Doing, Kept
<1>2. CASE /\ Done /\ UNCHANGED processVars
           /\ Passed \/ (Name \in Range(Servers) /\ serverPIDs[Name] # 0)
  BY <1>2, PassKeeps DEF StartServer
<1>3. CASE /\ ~Passed /\ Name \in Range(Servers) /\ serverPIDs[Name] = 0
           /\ Fork("server", Name, Head(plan).byzantine) /\ Done /\ UNCHANGED clientPIDs
           /\ serverPIDs' = Insert(serverPIDs, Name, lastPid + 1)
  BY <1>3, ForkServerKeeps DEF StartServer
<1> QED
  BY <1>1, <1>2, <1>3 DEF StartServer, NoFork, processVars

LEMMA KillServerKeeps ==
    ASSUME DriverInv, KillServer, UNCHANGED received, Kept
    PROVE  DriverInv'
<1> PICK c : c = Name
  OBVIOUS
<1>1. /\ plan # <<>> /\ Head(plan).op = "killServer" /\ Head(plan).name = c
      /\ driver = "running" /\ driver' = driver /\ set' = set /\ received' = received
      /\ plan' = Tail(plan) /\ firstSet' = (firstSet /\ Tail(plan) # <<>>)
      /\ lastPid' = lastPid /\ clientPIDs' = clientPIDs /\ brokenStart' = brokenStart
      /\ serverPIDs' = Forget(serverPIDs, c) /\ running' = {p \in running : p.pid # serverPIDs[c]}
  BY DEF KillServer, Doing, Name, Done, Go, Kill, Kept
<1>2. /\ PlanInv' /\ OperationOK(Head(plan)) /\ Head(plan) \in Range(plan)
      /\ Range(plan) = {Head(plan)} \cup Range(plan')
      /\ \A o \in Range(plan') : Follows(Head(plan), o)
  BY <1>1, NextOperation DEF DriverInv
<1>3. c \in Range(Servers)
  BY <1>1, <1>2 DEF OperationOK
<1>4. /\ lastPid \in Nat
      /\ serverPIDs \in [Range(Servers) -> 0 .. lastPid]
      /\ clientPIDs \in [Range(Clients) -> 0 .. lastPid]
  BY DEF DriverInv, ProcessInv
<1>5. \A d \in Range(Servers) : serverPIDs'[d] = IF d = c THEN 0 ELSE serverPIDs[d]
  BY <1>1, <1>4 DEF Forget
<1>6. running' \subseteq running
  BY <1>1
<1>7. ProcessInv'
  <2>1. serverPIDs' \in [Range(Servers) -> 0 .. lastPid]
    <3>1. 0 \in 0 .. lastPid
      BY <1>4
    <3> QED
      BY <1>1, <1>4, <3>1 DEF Forget
  <2> QED
    BY <1>1, <1>6, <2>1 DEF DriverInv, ProcessInv
<1>8. DriverTypeOK'
  <2>1. \A s \in Range(Servers) : serverPIDs'[s] \in 0 .. lastPid
    BY <1>4, <1>5
  <2> QED
    BY <1>1, <1>6, <2>1 DEF DriverInv, DriverTypeOK, Kept, readerVars
<1>9. ReaderInv'
  BY DEF DriverInv, ReaderInv, Kept, readerVars
<1>10. InCharge'
  <2> SUFFICES ASSUME ~brokenStart'
               PROVE  /\ WithinReach' /\ NothingYet' /\ NoneTwice' /\ AllGoAtExit'
                      /\ OldOnesGo' /\ WantedOnesCome' /\ HandedOut'
    BY DEF InCharge
  <2>1. /\ WithinReach /\ NothingYet /\ NoneTwice /\ AllGoAtExit
        /\ OldOnesGo /\ WantedOnesCome /\ HandedOut
    BY <1>1 DEF DriverInv, InCharge
  <2>2. \A p \in running' : p.kind = "server" => p.name \in Range(Servers) /\ p.name # c
    BY <1>1, <1>6, <2>1 DEF WithinReach, PidOf, DriverInv, ProcessInv
  <2>3. WithinReach'
    <3> SUFFICES ASSUME NEW p \in running' PROVE PidOf(p)' = p.pid
      BY DEF WithinReach
    <3>1. PidOf(p) = p.pid
      BY <1>6, <2>1 DEF WithinReach
    <3>2. p.kind = "server" => serverPIDs'[p.name] = serverPIDs[p.name]
      BY <1>5, <2>2
    <3> QED
      BY <1>1, <3>1, <3>2 DEF PidOf
  <2>4. NothingYet'
    BY <1>1 DEF NothingYet
  <2>5. /\ \A op, d : op # "killServer" \/ d # c => (Pending(op, d) <=> Pending(op, d)')
        /\ Left("process")' => Left("process")
        /\ Left("exit")' => Left("exit")
        /\ Pending("killServer", c)
    BY <1>1, <1>2 DEF Pending, Left
  <2>6. NoneTwice'
    BY <1>1, <2>1, <2>5 DEF NoneTwice
  <2>7. AllGoAtExit'
    BY <1>1, <1>5, <2>1, <2>5 DEF AllGoAtExit
  <2>8. OldOnesGo'
    BY <1>1, <1>6, <2>1, <2>2, <2>5 DEF OldOnesGo
  <2>9. WantedOnesCome'
    <3>1. ASSUME NEW s \in Wanted(set), Left("process")', ~Starting(s)'
          PROVE  /\ s \in Range(Servers) /\ serverPIDs'[s] # 0
                 /\ ~Pending("killServer", s)'
      <4>1. ~Starting(s)
        BY <1>1, <1>2, <3>1 DEF Starting
      <4>2. s \in Range(Servers) /\ serverPIDs[s] # 0 /\ ~Pending("killServer", s)
        BY <2>1, <2>5, <3>1, <4>1 DEF WantedOnesCome
      <4>3. s # c
        BY <2>5, <4>2
      <4> QED
        BY <1>5, <2>5, <4>2, <4>3
    <3>2. ASSUME NEW s \in Range(Servers) \ Wanted(set), Left("process")'
          PROVE  serverPIDs'[s] = 0 \/ Pending("killServer", s)'
      BY <1>5, <2>1, <2>5, <3>2 DEF WantedOnesCome
    <3> QED
      BY <1>1, <3>1, <3>2 DEF WantedOnesCome, Wanted
  <2>10. HandedOut'
    BY <1>1, <1>6, <2>1 DEF HandedOut
  <2> QED
    BY <2>3, <2>4, <2>6, <2>7, <2>8, <2>9, <2>10
<1> QED
  BY <1>2, <1>7, <1>8, <1>9, <1>10 DEF DriverInv

\* Whatever ends the program leaves the two maps as they are.
LEMMA DieKeeps ==
    ASSUME DriverInv, Die, running' \in {running, {}},
           UNCHANGED <<readerVars, set, firstSet, brokenStart, serverPIDs, clientPIDs, lastPid, received>>,
           commands' \in {commands, commands + 1}, commands' <= MaxCommands
    PROVE  DriverInv'
<1>1. /\ plan' = <<>> /\ driver' = "dead" /\ running' \subseteq running /\ set' = set
      /\ received' = received /\ firstSet' = firstSet /\ lastPid' = lastPid
      /\ serverPIDs' = serverPIDs /\ clientPIDs' = clientPIDs /\ brokenStart' = brokenStart
      /\ file' = file /\ position' = position /\ currentSetNo' = currentSetNo /\ nextSet' = nextSet
  BY DEF Die, readerVars
<1>2. PlanInv' /\ Range(plan') = {}
  BY <1>1, NoOperation
<1>3. commands' \in 0 .. MaxCommands /\ currentSetNo' <= commands'
  BY <1>1, CommandsAssumption DEF DriverInv, DriverTypeOK, ReaderInv
<1>4. DriverTypeOK'
  BY <1>1, <1>3 DEF DriverInv, DriverTypeOK
<1>5. ReaderInv' /\ ProcessInv'
  BY <1>1, <1>3 DEF DriverInv, ReaderInv, ProcessInv
<1>6. InCharge'
  <2> SUFFICES ASSUME ~brokenStart'
               PROVE  /\ WithinReach' /\ NothingYet' /\ NoneTwice' /\ AllGoAtExit'
                      /\ OldOnesGo' /\ WantedOnesCome' /\ HandedOut'
    BY DEF InCharge
  <2>1. WithinReach /\ HandedOut
    BY <1>1 DEF DriverInv, InCharge
  <2>2. WithinReach' /\ HandedOut'
    BY <1>1, <2>1 DEF WithinReach, PidOf, HandedOut
  <2>3. NothingYet'
    BY <1>1 DEF NothingYet
  <2>4. NoneTwice' /\ AllGoAtExit' /\ OldOnesGo' /\ WantedOnesCome'
    BY <1>1, <1>2 DEF NoneTwice, AllGoAtExit, OldOnesGo, WantedOnesCome, Pending, Left
  <2> QED
    BY <2>2, <2>3, <2>4
<1> QED
  BY <1>2, <1>4, <1>5, <1>6 DEF DriverInv

LEMMA KillClientKeeps ==
    ASSUME DriverInv, KillClient, UNCHANGED received, Kept
    PROVE  DriverInv'
<1> PICK c : c = Name
  OBVIOUS
<1>1. CASE clientPIDs[c] # 0
  <2>1. /\ plan # <<>> /\ Head(plan).op = "killClient" /\ Head(plan).name = c
        /\ driver = "running" /\ driver' = driver /\ set' = set /\ received' = received
        /\ plan' = Tail(plan) /\ firstSet' = (firstSet /\ Tail(plan) # <<>>)
        /\ lastPid' = lastPid /\ serverPIDs' = serverPIDs /\ brokenStart' = brokenStart
        /\ clientPIDs' = Forget(clientPIDs, c) /\ running' = {p \in running : p.pid # clientPIDs[c]}
    BY <1>1 DEF KillClient, Doing, Name, Done, Go, Kill, Kept
  <2>2. /\ PlanInv' /\ OperationOK(Head(plan)) /\ Head(plan) \in Range(plan)
        /\ Range(plan) = {Head(plan)} \cup Range(plan')
        /\ \A o \in Range(plan') : Follows(Head(plan), o)
    BY <2>1, NextOperation DEF DriverInv
  <2>3. c \in Range(Clients)
    BY <2>1, <2>2 DEF OperationOK
  <2>4. /\ lastPid \in Nat
        /\ serverPIDs \in [Range(Servers) -> 0 .. lastPid]
        /\ clientPIDs \in [Range(Clients) -> 0 .. lastPid]
    BY DEF DriverInv, ProcessInv
  <2>5. \A d \in Range(Clients) : clientPIDs'[d] = IF d = c THEN 0 ELSE clientPIDs[d]
    BY <2>1, <2>4 DEF Forget
  <2>6. running' \subseteq running
    BY <2>1
  <2>7. ProcessInv'
    <3>1. clientPIDs' \in [Range(Clients) -> 0 .. lastPid]
      <4>1. 0 \in 0 .. lastPid
        BY <2>4
      <4> QED
        BY <2>1, <2>4, <4>1 DEF Forget
    <3> QED
      BY <2>1, <2>6, <3>1 DEF DriverInv, ProcessInv
  <2>8. DriverTypeOK'
    <3>1. \A d \in Range(Clients) : clientPIDs'[d] \in 0 .. lastPid
      BY <2>4, <2>5
    <3> QED
      BY <2>1, <2>6, <3>1 DEF DriverInv, DriverTypeOK, Kept, readerVars
  <2>9. ReaderInv'
    BY DEF DriverInv, ReaderInv, Kept, readerVars
  <2>10. InCharge'
    <3> SUFFICES ASSUME ~brokenStart'
                 PROVE  /\ WithinReach' /\ NothingYet' /\ NoneTwice' /\ AllGoAtExit'
                        /\ OldOnesGo' /\ WantedOnesCome' /\ HandedOut'
      BY DEF InCharge
    <3>1. /\ WithinReach /\ NothingYet /\ NoneTwice /\ AllGoAtExit
          /\ OldOnesGo /\ WantedOnesCome /\ HandedOut
      BY <2>1 DEF DriverInv, InCharge
    <3>2. \A p \in running' : p.kind # "server" => /\ p.kind = "client" /\ p.name \in Range(Clients)
                                                  /\ p.name # c
      BY <2>1, <2>6, <3>1 DEF WithinReach, PidOf, DriverInv, ProcessInv
    <3>3. WithinReach'
      <4> SUFFICES ASSUME NEW p \in running' PROVE PidOf(p)' = p.pid
        BY DEF WithinReach
      <4>1. PidOf(p) = p.pid
        BY <2>6, <3>1 DEF WithinReach
      <4>2. p.kind # "server" => clientPIDs'[p.name] = clientPIDs[p.name]
        BY <2>5, <3>2
      <4> QED
        BY <2>1, <4>1, <4>2 DEF PidOf
    <3>4. NothingYet'
      BY <2>1 DEF NothingYet
    <3>5. /\ \A op, d : op # "killClient" \/ d # c => (Pending(op, d) <=> Pending(op, d)')
          /\ Left("process")' => Left("process")
          /\ Left("exit")' => Left("exit")
      BY <2>1, <2>2 DEF Pending, Left
    <3>6. NoneTwice'
      BY <2>5, <3>1, <3>5 DEF NoneTwice
    <3>7. AllGoAtExit'
      BY <2>1, <2>5, <3>1, <3>5 DEF AllGoAtExit
    <3>8. OldOnesGo'
      BY <2>1, <2>6, <3>1, <3>2, <3>5 DEF OldOnesGo
    <3>9. WantedOnesCome'
      <4>1. \A s : Starting(s) => Starting(s)'
        BY <2>1, <2>2 DEF Starting
      <4> QED
        BY <2>1, <3>1, <3>5, <4>1 DEF WantedOnesCome, Wanted
    <3>10. HandedOut'
      BY <2>1, <2>6, <3>1 DEF HandedOut
    <3> QED
      BY <3>3, <3>4, <3>6, <3>7, <3>8, <3>9, <3>10
  <2> QED
    BY <2>2, <2>7, <2>8, <2>9, <2>10 DEF DriverInv
<1>2. CASE clientPIDs[c] = 0 /\ Throw /\ UNCHANGED <<driver, running>>
  <2>1. driver = "running" /\ UNCHANGED <<serverPIDs, clientPIDs, lastPid>>
    BY <1>2 DEF KillClient, Doing
  <2> QED
    BY <1>2, <2>1, ThrowKeeps DEF Kept, processVars
<1>3. CASE /\ clientPIDs[c] = 0 /\ Die /\ running' \in {running, {}}
           /\ UNCHANGED <<firstSet, brokenStart>>
  <2>1. commands' = commands /\ commands' <= MaxCommands
    BY CommandsAssumption DEF Kept, DriverInv, DriverTypeOK
  <2>2. UNCHANGED <<serverPIDs, clientPIDs, lastPid>>
    BY <1>3 DEF KillClient
  <2> QED
    BY <1>3, <2>1, <2>2, DieKeeps DEF Kept
<1>4. clientPIDs[c] = 0 =>
          \/ Throw /\ UNCHANGED <<driver, running>>
          \/ Die /\ running' \in {running, {}} /\ UNCHANGED <<firstSet, brokenStart>>
  BY DEF KillClient
<1> QED
  BY <1>1, <1>2, <1>3, <1>4

LEMMA LeaveKeeps ==
    ASSUME DriverInv, Leave, UNCHANGED received, Kept
    PROVE  DriverInv'
<1>1. /\ plan # <<>> /\ Head(plan).op = "exit" /\ driver' = "exited" /\ set' = set
      /\ received' = received /\ plan' = Tail(plan)
      /\ firstSet' = (firstSet /\ Tail(plan) # <<>>)
      /\ lastPid' = lastPid /\ running' = running /\ serverPIDs' = serverPIDs
      /\ clientPIDs' = clientPIDs /\ brokenStart' = brokenStart
  BY DEF Leave, Doing, Done, Go, Kept, processVars
<1>2. /\ PlanInv' /\ Head(plan) \in Range(plan)
      /\ Range(plan) = {Head(plan)} \cup Range(plan')
      /\ \A o \in Range(plan') : Follows(Head(plan), o)
  BY <1>1, NextOperation DEF DriverInv
<1>3. Range(plan') = {}
  BY <1>1, <1>2 DEF Follows
<1>4. DriverTypeOK'
  BY <1>1 DEF DriverInv, DriverTypeOK, Kept, readerVars
<1>5. ReaderInv' /\ ProcessInv'
  BY <1>1 DEF DriverInv, ReaderInv, ProcessInv, Kept, readerVars
<1>6. InCharge'
  <2> SUFFICES ASSUME ~brokenStart'
               PROVE  /\ WithinReach' /\ NothingYet' /\ NoneTwice' /\ AllGoAtExit'
                      /\ OldOnesGo' /\ WantedOnesCome' /\ HandedOut'
    BY DEF InCharge
  <2>1. WithinReach /\ AllGoAtExit /\ HandedOut
    BY <1>1 DEF DriverInv, InCharge
  <2>2. WithinReach' /\ HandedOut'
    BY <1>1, <2>1 DEF WithinReach, PidOf, HandedOut
  <2>3. NothingYet'
    BY <1>1 DEF NothingYet
  <2>4. NoneTwice' /\ OldOnesGo' /\ WantedOnesCome'
    BY <1>3 DEF NoneTwice, OldOnesGo, WantedOnesCome, Pending, Left
  <2>5. running = {}
    <3> SUFFICES ASSUME NEW p \in running PROVE FALSE
      OBVIOUS
    <3>1. Left("exit")
      BY <1>1, <1>2 DEF Left
    <3>2. \A op, d : Pending(op, d) => op = "exit"
      BY <1>1, <1>2, <1>3 DEF Pending
    <3>3. /\ \A s \in Range(Servers) : serverPIDs[s] = 0
          /\ \A d \in Range(Clients) : clientPIDs[d] = 0
      BY <2>1, <3>1, <3>2 DEF AllGoAtExit
    <3>4. PidOf(p) = 0
      BY <3>3 DEF PidOf, DriverInv, ProcessInv
    <3>5. p.pid # 0
      BY DEF DriverInv, DriverTypeOK
    <3> QED
      BY <2>1, <3>4, <3>5 DEF WithinReach
  <2>6. AllGoAtExit'
    BY <1>1, <1>3, <2>5 DEF AllGoAtExit, Left
  <2> QED
    BY <2>2, <2>3, <2>4, <2>6
<1> QED
  BY <1>2, <1>4, <1>5, <1>6 DEF DriverInv

LEMMA ProcessKeeps ==
    ASSUME DriverInv, Process, Kept
    PROVE  DriverInv'
<1>1. /\ plan # <<>> /\ Head(plan).op = "process" /\ driver' = driver /\ set' = set
      /\ driver = "running" /\ plan' = Tail(plan)
      /\ firstSet' = (firstSet /\ Tail(plan) # <<>>)
      /\ lastPid' = lastPid /\ running' = running /\ serverPIDs' = serverPIDs
      /\ clientPIDs' = clientPIDs /\ brokenStart' = brokenStart
  BY DEF Process, Doing, Done, Go, Kept, processVars
<1>2. /\ PlanInv' /\ OperationOK(Head(plan)) /\ Head(plan) \in Range(plan)
      /\ Range(plan) = {Head(plan)} \cup Range(plan')
      /\ \A o \in Range(plan') : Follows(Head(plan), o)
  BY <1>1, NextOperation DEF DriverInv
<1>3. set.no # 0 /\ \A o \in Range(plan) : o.op = "process"
  BY <1>1, <1>2 DEF OperationOK, Starts, Follows
<1>4. received' = received \/ \E p \in running : received' = received \cup {<<p.pid, set.no>>}
  BY DEF Process
<1>5. DriverTypeOK'
  <2>1. received' \subseteq (1 .. lastPid) \X (1 .. set.no)
    <3>1. \A p \in running : <<p.pid, set.no>> \in (1 .. lastPid) \X (1 .. set.no)
      <4>1. set.no \in 1 .. set.no
        BY <1>3 DEF DriverInv, DriverTypeOK
      <4> QED
        BY <4>1 DEF DriverInv, DriverTypeOK
    <3>2. received \subseteq (1 .. lastPid) \X (1 .. set.no)
      BY DEF DriverInv, DriverTypeOK
    <3> QED
      BY <1>4, <3>1, <3>2
  <2> QED
    BY <1>1, <2>1 DEF DriverInv, DriverTypeOK, Kept, readerVars
<1>6. ReaderInv' /\ ProcessInv'
  BY <1>1 DEF DriverInv, ReaderInv, ProcessInv, Kept, readerVars
<1>7. InCharge'
  <2> SUFFICES ASSUME ~brokenStart'
               PROVE  /\ WithinReach' /\ NothingYet' /\ NoneTwice' /\ AllGoAtExit'
                      /\ OldOnesGo' /\ WantedOnesCome' /\ HandedOut'
    BY DEF InCharge
  <2>1. /\ WithinReach /\ NothingYet /\ NoneTwice /\ AllGoAtExit
        /\ OldOnesGo /\ WantedOnesCome /\ HandedOut
    BY <1>1 DEF DriverInv, InCharge
  <2>2. /\ \A op, d : op # "process" => ~Pending(op, d) /\ ~Pending(op, d)'
        /\ \A s : ~Starting(s)
        /\ Left("process") /\ ~Left("exit")'
    BY <1>1, <1>2, <1>3 DEF Pending, Starting, Left
  <2>3. WithinReach' /\ NothingYet' /\ NoneTwice'
    BY <1>1, <2>1, <2>2 DEF WithinReach, PidOf, NothingYet, NoneTwice
  <2>4. AllGoAtExit'
    BY <1>1, <2>2 DEF AllGoAtExit
  <2>5. OldOnesGo' /\ WantedOnesCome'
    BY <1>1, <2>1, <2>2 DEF OldOnesGo, WantedOnesCome, Wanted
  <2>6. HandedOut'
    <3>1. CASE received' = received
      BY <1>1, <2>1, <3>1 DEF HandedOut
    <3>2. ASSUME NEW p \in running, received' = received \cup {<<p.pid, set.no>>} PROVE HandedOut'
      <4>1. p.set = set.no
        BY <2>1, <2>2 DEF OldOnesGo
      <4>2. \A q \in running : q.pid = p.pid => q.set = set.no
        BY <4>1 DEF DriverInv, ProcessInv
      <4>3. \A x \in received : x[1] = p.pid => x[2] = set.no
        BY <2>1, <4>1 DEF HandedOut
      <4>4. \A x \in received' : x \in received \/ (x[1] = p.pid /\ x[2] = set.no)
        BY <3>2
      <4> QED
        BY <1>1, <2>1, <4>2, <4>3, <4>4 DEF HandedOut
    <3> QED
      BY <1>4, <3>1, <3>2
  <2> QED
    BY <2>3, <2>4, <2>5, <2>6
<1> QED
  BY <1>2, <1>5, <1>6, <1>7 DEF DriverInv

LEMMA DeathKeeps ==
    ASSUME DriverInv, ProcessDies
    PROVE  DriverInv'
<1>1. /\ running' \subseteq running /\ driver' = driver /\ plan' = plan
      /\ UNCHANGED <<readerVars, set, firstSet, serverName, commands, serverPIDs, clientPIDs, lastPid, received, brokenStart>>
      /\ driver = "running"
  BY DEF ProcessDies, loopVars
<1>2. DriverTypeOK' /\ ReaderInv' /\ PlanInv' /\ ProcessInv'
  <2>1. DriverTypeOK'
    BY <1>1 DEF DriverInv, DriverTypeOK, readerVars
  <2>2. ReaderInv' /\ PlanInv'
    BY <1>1 DEF DriverInv, ReaderInv, PlanInv, OperationOK, Wanted, readerVars
  <2>3. ProcessInv'
    BY <1>1 DEF DriverInv, ProcessInv
  <2> QED
    BY <2>1, <2>2, <2>3
<1>3. InCharge'
  <2> SUFFICES ASSUME ~brokenStart'
               PROVE  /\ WithinReach' /\ NothingYet' /\ NoneTwice' /\ AllGoAtExit'
                      /\ OldOnesGo' /\ WantedOnesCome' /\ HandedOut'
    BY DEF InCharge
  <2>1. /\ WithinReach /\ NothingYet /\ NoneTwice /\ AllGoAtExit
        /\ OldOnesGo /\ WantedOnesCome /\ HandedOut
    BY <1>1 DEF DriverInv, InCharge
  <2>2. /\ \A op, d : Pending(op, d)' <=> Pending(op, d)
        /\ \A op : Left(op)' <=> Left(op)
        /\ \A s : Starting(s)' <=> Starting(s)
    BY <1>1 DEF Pending, Left, Starting
  <2>3. WithinReach' /\ NothingYet' /\ NoneTwice' /\ HandedOut'
    BY <1>1, <2>1, <2>2 DEF WithinReach, PidOf, NothingYet, Started, NoneTwice, HandedOut
  <2>4. AllGoAtExit' /\ OldOnesGo'
    BY <1>1, <2>1, <2>2 DEF AllGoAtExit, OldOnesGo
  <2>5. WantedOnesCome'
    BY <1>1, <2>1, <2>2 DEF WantedOnesCome, Wanted
  <2> QED
    BY <2>3, <2>4, <2>5
<1> QED
  BY <1>2, <1>3 DEF DriverInv

----------------------------------------------------------------------------
(* The commands.                                                               *)

ReaderStep ==
    /\ file' = file /\ position' \in 1 .. Len(file) + 2
    /\ currentSetNo' \in {currentSetNo, currentSetNo + 1}
    /\ IsSequence(nextSet'.alive) /\ IsSequence(nextSet'.byzantine)

LEMMA ReaderStays == DriverInv /\ UNCHANGED readerVars => ReaderStep
  BY DEF DriverInv, DriverTypeOK, ReaderInv, ReaderStep, readerVars

LEMMA CommandTypes ==
    ASSUME DriverInv, Type, ReaderStep
    PROVE  /\ driver = "running" /\ plan = <<>>
           /\ commands' \in 0 .. MaxCommands /\ currentSetNo' <= commands'
           /\ currentSetNo' \in 0 .. MaxCommands /\ currentSetNo \in Nat
           /\ set.no \in 0 .. currentSetNo /\ set.no \in 0 .. currentSetNo'
           /\ ReaderInv'
  BY CommandsAssumption DEF DriverInv, DriverTypeOK, ReaderInv, ReaderStep, Type

\* A command that leaves nothing to do.
LEMMA IdleKeeps ==
    ASSUME DriverInv, Type, ReaderStep, plan' = <<>>,
           UNCHANGED <<set, driver, processVars, received>>,
           firstSet' \in BOOLEAN, brokenStart' \in BOOLEAN,
           ~brokenStart' => ~brokenStart /\ (firstSet' => ~Started)
    PROVE  DriverInv'
<1>1. PlanInv' /\ Range(plan') = {}
  BY NoOperation
<1>2. DriverTypeOK'
  BY CommandTypes DEF DriverInv, DriverTypeOK, ReaderStep, processVars
<1>3. ReaderInv' /\ ProcessInv'
  BY CommandTypes DEF DriverInv, ProcessInv, processVars
<1>4. InCharge'
  <2> SUFFICES ASSUME ~brokenStart'
               PROVE  /\ WithinReach' /\ NothingYet' /\ NoneTwice' /\ AllGoAtExit'
                      /\ OldOnesGo' /\ WantedOnesCome' /\ HandedOut'
    BY DEF InCharge
  <2>1. WithinReach /\ AllGoAtExit /\ HandedOut
    BY DEF DriverInv, InCharge
  <2>2. WithinReach' /\ HandedOut'
    BY <2>1 DEF WithinReach, PidOf, HandedOut, processVars
  <2>3. NothingYet'
    BY DEF NothingYet, Started, processVars
  <2>4. NoneTwice' /\ OldOnesGo' /\ WantedOnesCome'
    BY <1>1 DEF NoneTwice, OldOnesGo, WantedOnesCome, Pending, Left
  <2>5. AllGoAtExit'
    BY <1>1, <2>1 DEF AllGoAtExit, Left, processVars
  <2> QED
    BY <2>2, <2>3, <2>4, <2>5
<1> QED
  BY <1>1, <1>2, <1>3, <1>4 DEF DriverInv

LEMMA NothingRuns ==
    ASSUME DriverInv, ~brokenStart, ~Started
    PROVE  running = {}
<1> SUFFICES ASSUME NEW p \in running PROVE FALSE
  OBVIOUS
<1>1. PidOf(p) = p.pid /\ p.pid # 0
  BY DEF DriverInv, InCharge, WithinReach, DriverTypeOK
<1>2. PidOf(p) = 0
  BY DEF PidOf, Started, DriverInv, ProcessInv
<1> QED
  BY <1>1, <1>2

LEMMA SetKeeps ==
    ASSUME DriverInv, Type, ReaderStep, NEW s,
           currentSetNo' = currentSetNo + 1, s.no = currentSetNo + 1,
           IsSequence(s.alive), IsSequence(s.byzantine),
           set' = s, Go(StartSet(s)),
           UNCHANGED <<driver, processVars, received, brokenStart>>
    PROVE  DriverInv'
<1>1. IsSequence(plan') /\ InOrder(plan') /\ Range(plan') = SetOperations(s)
  BY PlanOfSet DEF Go
<1>2. /\ driver = "running" /\ plan = <<>> /\ set.no \in 0 .. currentSetNo /\ currentSetNo \in Nat
      /\ s.no # 0 /\ s.no > set.no /\ s.no \in 0 .. currentSetNo' /\ s.no \in Nat
  BY CommandTypes
<1>4. PlanInv'
  <2>1. \A o \in Range(plan') : OperationOK(o)'
    <3> SUFFICES ASSUME NEW o \in SetOperations(s) PROVE OperationOK(o)'
      BY <1>1
    <3>1. CASE \/ o \in Each("killClient", Clients, FALSE) \/ o \in Each("startClient", Clients, FALSE)
               \/ o \in Each("process", Clients, FALSE)
      <4>1. o.op \in {"killClient", "startClient", "process"} /\ o.name \in Range(Clients)
        BY <3>1 DEF Each, Op
      <4> QED
        BY <1>2, <4>1 DEF OperationOK
    <3>2. CASE o \in Each("killServer", Servers, FALSE)
      <4>1. o.op = "killServer" /\ o.name \in Range(Servers)
        BY <3>2 DEF Each, Op
      <4> QED
        BY <4>1 DEF OperationOK, Starts
    <3>3. CASE o \in Each("startServer", s.byzantine, TRUE)
      <4>1. o.op = "startServer" /\ o.byzantine = TRUE /\ o.name \in Range(s.byzantine)
        BY <3>3 DEF Each, Op
      <4> QED
        BY <1>2, <4>1 DEF OperationOK, Wanted
    <3>4. CASE o \in Each("startServer", s.alive, FALSE)
      <4>1. o.op = "startServer" /\ o.byzantine = FALSE /\ o.name \in Range(s.alive)
        BY <3>4 DEF Each, Op
      <4> QED
        BY <1>2, <4>1 DEF OperationOK, Wanted
    <3> QED
      BY <3>1, <3>2, <3>3, <3>4 DEF SetOperations
  <2> QED
    BY <1>1, <2>1 DEF PlanInv
<1>5. \A p \in running : p.set # s.no
  BY <1>2 DEF DriverInv, DriverTypeOK
<1>6. DriverTypeOK'
  <2>1. \A p \in running : p.pid \in 1 .. lastPid /\ p.set \in 1 .. s.no
    BY <1>2 DEF DriverInv, DriverTypeOK
  <2>2. received \subseteq (1 .. lastPid) \X (1 .. s.no)
    BY <1>2 DEF DriverInv, DriverTypeOK
  <2>3. firstSet' \in BOOLEAN
    BY DEF Go, DriverInv, DriverTypeOK
  <2> QED
    BY <1>2, <2>1, <2>2, <2>3, CommandTypes DEF DriverInv, DriverTypeOK, ReaderStep, processVars
<1>7. ReaderInv'
  BY CommandTypes
<1>8. ProcessInv'
  BY <1>5 DEF DriverInv, ProcessInv, processVars
<1>9. InCharge'
  <2> SUFFICES ASSUME ~brokenStart'
               PROVE  /\ WithinReach' /\ NothingYet' /\ NoneTwice' /\ AllGoAtExit'
                      /\ OldOnesGo' /\ WantedOnesCome' /\ HandedOut'
    BY DEF InCharge
  <2>1. WithinReach /\ NothingYet /\ HandedOut
    BY DEF DriverInv, InCharge
  <2>2. firstSet => ~Started /\ running = {}
    BY <1>2, <2>1, NothingRuns DEF NothingYet
  <2>3. WithinReach' /\ HandedOut'
    BY <2>1 DEF WithinReach, PidOf, HandedOut, processVars
  <2>4. NothingYet'
    BY DEF NothingYet, Go
  <2>5. ~firstSet => /\ \A c \in Range(Clients) : Pending("killClient", c)'
                     /\ \A d \in Range(Servers) : Pending("killServer", d)'
    <3> SUFFICES ASSUME ~firstSet
                 PROVE  /\ \A c \in Range(Clients) : Pending("killClient", c)'
                        /\ \A d \in Range(Servers) : Pending("killServer", d)'
      OBVIOUS
    <3>1. /\ \A c \in Range(Clients) : Op("killClient", c, FALSE) \in Range(plan')
          /\ \A d \in Range(Servers) : Op("killServer", d, FALSE) \in Range(plan')
      BY <1>1 DEF SetOperations, Each
    <3> QED
      BY <3>1 DEF Pending, Op
  <2>6. NoneTwice'
    <3>1. firstSet => \A c \in Range(Clients) : clientPIDs'[c] = 0
      BY <2>2 DEF Started, processVars, DriverInv, ProcessInv
    <3> QED
      BY <2>5, <3>1 DEF NoneTwice
  <2>7. AllGoAtExit'
    <3>1. ~Left("exit")'
      BY <1>1 DEF SetOperations, Each, Left, Op
    <3> QED
      BY <1>2, <3>1 DEF AllGoAtExit
  <2>8. OldOnesGo'
    BY <2>2, <2>5 DEF OldOnesGo, DriverInv, ProcessInv, processVars
  <2>9. WantedOnesCome'
    <3>1. ASSUME NEW d \in Wanted(s) PROVE Starting(d)'
      <4>1. CASE d \in Range(s.byzantine)
        <5>1. Op("startServer", d, TRUE) \in Range(plan')
          BY <1>1, <4>1 DEF SetOperations, Each
        <5> QED
          BY <4>1, <5>1 DEF Starting, Op
      <4>2. CASE d \notin Range(s.byzantine)
        <5>1. Op("startServer", d, FALSE) \in Range(plan')
          BY <1>1, <3>1, <4>2 DEF SetOperations, Each, Wanted
        <5> QED
          BY <4>2, <5>1 DEF Starting, Op
      <4> QED
        BY <4>1, <4>2
    <3>2. firstSet => \A d \in Range(Servers) : serverPIDs'[d] = 0
      BY <2>2 DEF Started, processVars, DriverInv, ProcessInv
    <3> QED
      BY <2>5, <3>1, <3>2 DEF WantedOnesCome, Wanted
  <2> QED
    BY <2>3, <2>4, <2>6, <2>7, <2>8, <2>9
<1> QED
  BY <1>4, <1>6, <1>7, <1>8, <1>9 DEF DriverInv

LEMMA ExitKeeps ==
    ASSUME DriverInv, Exit
    PROVE  DriverInv'
<1>1. /\ Type /\ ReaderStep /\ set' = set /\ UNCHANGED <<driver, processVars, received, brokenStart>>
      /\ Go(KillAllServers \o KillAllClients \o <<Op("exit", NoName, FALSE)>>)
  BY ReaderStays DEF Exit
<1>2. IsSequence(plan') /\ InOrder(plan') /\ Range(plan') = ExitOperations
  BY <1>1, PlanOfExit DEF Go
<1>3. driver = "running" /\ plan = <<>> /\ set.no \in 0 .. currentSetNo'
  BY <1>1, CommandTypes
<1>4. \A o \in Range(plan') :
          \/ o.op = "killServer" /\ o.name \in Range(Servers)
          \/ o.op = "killClient" /\ o.name \in Range(Clients)
          \/ o.op = "exit"
  BY <1>2 DEF ExitOperations, Each, Op
<1>5. PlanInv'
  <2>1. \A o \in Range(plan') : OperationOK(o)'
    BY <1>4 DEF OperationOK, Starts
  <2> QED
    BY <1>2, <2>1 DEF PlanInv
<1>6. DriverTypeOK'
  <2>1. firstSet' \in BOOLEAN
    BY <1>1 DEF Go, DriverInv, DriverTypeOK
  <2> QED
    BY <1>1, <1>3, <2>1, CommandTypes DEF DriverInv, DriverTypeOK, ReaderStep, processVars
<1>7. ReaderInv' /\ ProcessInv'
  BY <1>1, CommandTypes DEF DriverInv, ProcessInv, processVars
<1>8. InCharge'
  <2> SUFFICES ASSUME ~brokenStart'
               PROVE  /\ WithinReach' /\ NothingYet' /\ NoneTwice' /\ AllGoAtExit'
                      /\ OldOnesGo' /\ WantedOnesCome' /\ HandedOut'
    BY DEF InCharge
  <2>1. WithinReach /\ HandedOut
    BY <1>1 DEF DriverInv, InCharge
  <2>2. WithinReach' /\ HandedOut'
    BY <1>1, <2>1 DEF WithinReach, PidOf, HandedOut, processVars
  <2>3. NothingYet'
    BY <1>1 DEF NothingYet, Go
  <2>4. /\ ~Left("process")'
        /\ \A c : ~Pending("startClient", c)'
    BY <1>4 DEF Left, Pending
  <2>5. NoneTwice' /\ OldOnesGo' /\ WantedOnesCome'
    BY <2>4 DEF NoneTwice, OldOnesGo, WantedOnesCome
  <2>6. AllGoAtExit'
    <3>1. /\ \A c \in Range(Clients) : Pending("killClient", c)'
          /\ \A d \in Range(Servers) : Pending("killServer", d)'
      <4>1. /\ \A c \in Range(Clients) : Op("killClient", c, FALSE) \in Range(plan')
            /\ \A d \in Range(Servers) : Op("killServer", d, FALSE) \in Range(plan')
        BY <1>2 DEF ExitOperations, Each
      <4> QED
        BY <4>1 DEF Pending, Op
    <3> QED
      BY <1>1, <1>3, <3>1 DEF AllGoAtExit
  <2> QED
    BY <2>2, <2>3, <2>5, <2>6
<1> QED
  BY <1>5, <1>6, <1>7, <1>8 DEF DriverInv

LEMMA ProcessNextSetKeeps ==
    ASSUME DriverInv, ProcessNextSet
    PROVE  DriverInv'
<1> PICK n : n = currentSetNo + 1
  OBVIOUS
<1> PICK s : s = CurrentSet(n)
  OBVIOUS
<1>1. /\ Type /\ currentSetNo' = n /\ position' = Stop(n) + 1 /\ nextSet' = LookAhead(n)
      /\ file' = file /\ UNCHANGED <<driver, processVars, received>>
      /\ \/ Throw /\ UNCHANGED set
         \/ Go(<<>>) /\ UNCHANGED <<set, brokenStart>>
         \/ set' = s /\ Go(StartSet(s)) /\ UNCHANGED brokenStart
  BY DEF ProcessNextSet
<1>2. Reading /\ currentSetNo \in Int /\ n \in Int
  BY CommandsAssumption DEF DriverInv, DriverTypeOK, Reading
<1>3. /\ IsSequence(s.alive) /\ IsSequence(s.byzantine)
      /\ IsSequence(nextSet'.alive) /\ IsSequence(nextSet'.byzantine)
  BY <1>1, <1>2, SetsHaveServers DEF DriverInv
<1>4. ReaderStep
  <2>1. Stop(n) \in 1 .. Len(file) + 1 /\ Len(file) \in Nat
    BY <1>2, ReadsUpTo, FileLines
  <2>2. position' \in 1 .. Len(file) + 2
    BY <1>1, <2>1
  <2> QED
    BY <1>1, <1>3, <2>2 DEF ReaderStep
<1>5. firstSet \in BOOLEAN /\ brokenStart \in BOOLEAN
  BY DEF DriverInv, DriverTypeOK
<1>6. CASE Throw /\ UNCHANGED set
  <2>1. firstSet' = firstSet /\ brokenStart' = (brokenStart \/ (firstSet /\ Started)) /\ plan' = <<>>
    BY <1>6 DEF Throw
  <2>2. brokenStart' \in BOOLEAN
    BY <1>5, <2>1 DEF Started
  <2> QED
    BY <1>1, <1>4, <1>5, <1>6, <2>1, <2>2, IdleKeeps
<1>7. CASE Go(<<>>) /\ UNCHANGED <<set, brokenStart>>
  <2>1. plan' = <<>> /\ firstSet' = FALSE
    BY <1>5, <1>7 DEF Go
  <2> QED
    BY <1>1, <1>4, <1>5, <1>7, <2>1, IdleKeeps
<1>8. CASE set' = s /\ Go(StartSet(s)) /\ UNCHANGED brokenStart
  <2>1. s.no = currentSetNo + 1
    BY DEF CurrentSet
  <2> QED
    BY <1>1, <1>3, <1>4, <1>8, <2>1, SetKeeps
<1> QED
  BY <1>1, <1>6, <1>7, <1>8

LEMMA OtherCommandsKeep ==
    ASSUME DriverInv, InvalidCommand \/ HugeNumber \/ PrintReport \/ PrintLog \/ PrintView
    PROVE  DriverInv'
<1>1. Type /\ ReaderStep /\ UNCHANGED <<readerVars, set, processVars, received, brokenStart>>
  BY ReaderStays DEF InvalidCommand, HugeNumber, PrintReport, PrintLog, PrintView
<1>2. /\ firstSet \in BOOLEAN /\ brokenStart \in BOOLEAN
      /\ driver = "running" /\ plan = <<>>
      /\ ~brokenStart => (firstSet => ~Started)
  BY <1>1, CommandTypes DEF DriverInv, DriverTypeOK, InCharge, NothingYet
<1>3. CASE Go(<<>>) /\ UNCHANGED driver
  <2>1. plan' = <<>> /\ firstSet' = FALSE
    BY <1>2, <1>3 DEF Go
  <2> QED
    BY <1>1, <1>2, <1>3, <2>1, IdleKeeps
<1>4. CASE UNCHANGED <<firstSet, driver, plan>>
  BY <1>1, <1>2, <1>4, IdleKeeps
<1>5. CASE Die /\ UNCHANGED firstSet
  <2>1. commands' \in {commands, commands + 1} /\ commands' <= MaxCommands
    BY <1>1, CommandsAssumption DEF Type, DriverInv, DriverTypeOK
  <2>2. running' = running
    BY <1>1 DEF processVars
  <2> QED
    BY <1>1, <1>5, <2>1, <2>2, DieKeeps DEF processVars
<1> QED
  BY <1>3, <1>4, <1>5 DEF InvalidCommand, HugeNumber, PrintReport, PrintLog, PrintView

----------------------------------------------------------------------------

LEMMA InitDriver == Init => DriverInv
<1> SUFFICES ASSUME Init PROVE DriverInv
  OBVIOUS
<1>1. Len(file) \in Nat
  BY FilesAssumption, Elements DEF Init
<1>2. PlanInv
  BY Empty DEF Init, PlanInv
<1>3. ReaderInv
  BY Empty DEF Init, ReaderInv, NoSet
<1>4. DriverTypeOK
  <2>1. position \in 1 .. Len(file) + 2
    BY <1>1 DEF Init
  <2>2. currentSetNo \in 0 .. MaxCommands /\ set.no \in 0 .. currentSetNo /\ commands \in 0 .. MaxCommands
    BY CommandsAssumption DEF Init, NoSet
  <2>3. received \subseteq (1 .. lastPid) \X (1 .. set.no) /\ running = {}
    BY DEF Init
  <2>4. /\ \A s \in Range(Servers) : serverPIDs[s] \in 0 .. lastPid
        /\ \A c \in Range(Clients) : clientPIDs[c] \in 0 .. lastPid
    BY DEF Init
  <2>5. /\ file \in Files /\ firstSet \in BOOLEAN /\ brokenStart \in BOOLEAN
        /\ driver \in {"running", "exited", "dead"}
    BY DEF Init
  <2> QED
    BY <2>1, <2>2, <2>3, <2>4, <2>5 DEF DriverTypeOK
<1>5. ProcessInv
  BY DEF Init, ProcessInv
<1>6. InCharge
  <2>1. \A op, d : ~Pending(op, d) /\ ~Left(op)
    BY Empty DEF Init, Pending, Left
  <2> QED
    BY <2>1 DEF Init, InCharge, WithinReach, NothingYet, Started, NoneTwice, AllGoAtExit,
                OldOnesGo, WantedOnesCome, HandedOut
<1> QED
  BY <1>2, <1>3, <1>4, <1>5, <1>6 DEF DriverInv

LEMMA NextDriver == DriverInv /\ [Next]_vars => DriverInv'
<1> SUFFICES ASSUME DriverInv, [Next]_vars PROVE DriverInv'
  OBVIOUS
<1>1. CASE Command
  BY <1>1, ProcessNextSetKeeps, ExitKeeps, OtherCommandsKeep DEF Command
<1>2. CASE Operate
  <2>1. Kept
    BY <1>2 DEF Operate, Kept
  <2> QED
    BY <1>2, <2>1, StartClientKeeps, StartServerKeeps, KillServerKeeps, KillClientKeeps, LeaveKeeps,
       ProcessKeeps DEF Operate
<1>3. CASE ProcessDies
  BY <1>3, DeathKeeps
<1>4. CASE UNCHANGED vars
  BY <1>4 DEF vars, loopVars, processVars, readerVars, DriverInv, DriverTypeOK, PlanInv, OperationOK,
     Wanted, ReaderInv, ProcessInv, InCharge, WithinReach, PidOf, NothingYet, Started, NoneTwice,
     AllGoAtExit, OldOnesGo, WantedOnesCome, HandedOut, Pending, Left, Starting
<1> QED
  BY <1>1, <1>2, <1>3, <1>4 DEF Next

\* The driver is in charge of its processes at every step: what is planned, what runs
\* and what the two maps hold agree (mainloop and Utils).
THEOREM DriverInvariant == Spec => []DriverInv
  BY InitDriver, NextDriver, PTL DEF Spec

\* The reader stays within its file and the process numbers are those that were given.
THEOREM DriverTypeCorrect == Spec => []DriverTypeOK
<1>1. DriverInv => DriverTypeOK
  BY DEF DriverInv
<1> QED
  BY <1>1, DriverInvariant, PTL

\* Unless the first set fails, killServer and killClient can reach every process there is,
\* although startClient does not look for one and insert replaces none.
THEOREM AllWithinReach == Spec => []NoneForgotten
<1>1. DriverInv => NoneForgotten
  BY DEF DriverInv, InCharge, WithinReach, NoneForgotten
<1> QED
  BY <1>1, DriverInvariant, PTL

\* A regular exit takes every server and client with it (EXIT in mainloop).
THEOREM ExitLeavesNone == Spec => []NothingLeftRunning
<1>1. DriverInv => NothingLeftRunning
  BY DEF DriverInv, InCharge, AllGoAtExit, NothingLeftRunning
<1> QED
  BY <1>1, DriverInvariant, PTL

\* Transactions are handed out to the servers and clients of their own set only, and to
\* all its servers, with the flags it names (PROCESS_NEXT_SET).
THEOREM RightServers == Spec => []ServersOfTheSet
<1>1. DriverInv => ServersOfTheSet
  <2> SUFFICES ASSUME DriverInv, plan # <<>>, Head(plan).op = "process", ~brokenStart
               PROVE  /\ \A p \in running : p.set = set.no
                      /\ \A p \in running : p.kind = "server" =>
                             (p.byzantine <=> p.name \in Range(set.byzantine))
                      /\ {s \in Range(Servers) : serverPIDs[s] # 0} = Wanted(set)
    BY DEF ServersOfTheSet, Wanted
  <2>1. \A o \in Range(plan) : o.op = "process"
    BY FirstAndRest DEF DriverInv, PlanInv, Follows
  <2>2. Left("process")
    BY <2>1, FirstAndRest DEF DriverInv, PlanInv, Left
  <2>3. \A op, d : op # "process" => ~Pending(op, d)
    BY <2>1 DEF Pending
  <2>4. \A d : ~Starting(d)
    BY <2>1 DEF Starting
  <2>5. OldOnesGo /\ WantedOnesCome
    BY DEF DriverInv, InCharge
  <2>6. \A p \in running : p.set = set.no
    BY <2>2, <2>3, <2>5 DEF OldOnesGo
  <2>7. \A p \in running : p.kind = "server" => (p.byzantine <=> p.name \in Range(set.byzantine))
    BY <2>6 DEF DriverInv, ProcessInv
  <2> QED
    BY <2>2, <2>3, <2>4, <2>5, <2>6, <2>7 DEF WantedOnesCome
<1> QED
  BY <1>1, DriverInvariant, PTL

\* A client process sees one set in its life.
THEOREM OneSetEach == Spec => []OneSetPerClient
<1>1. DriverInv => OneSetPerClient
  BY DEF DriverInv, InCharge, HandedOut, OneSetPerClient
<1> QED
  BY <1>1, DriverInvariant, PTL

----------------------------------------------------------------------------
(* What the reader hands out of a well-formed file.  Between two calls it has  *)
(* read up to the first line of the next set, which it keeps, or to the end.   *)

AtHead(h) ==
    /\ h \in DOMAIN file /\ file[h].no = currentSetNo + 1
    /\ \/ position = h /\ nextSet.transactions = <<>>
       \/ position = h + 1 /\ nextSet = [no |-> 0, transactions |-> <<file[h].txn>>,
                                        alive |-> file[h].alive, byzantine |-> file[h].byzantine]

ReadOut == position = Len(file) + 2 /\ nextSet.transactions = <<>>

AsWrittenInv == WellFormed => SetsAsWritten /\ (ReadOut \/ \E h \in DOMAIN file : AtHead(h))

\* The first lines of the sets are numbered upwards.
LEMMA HeadsInOrder ==
    ASSUME Reading, WellFormed
    PROVE  /\ 1 \in DOMAIN file /\ file[1].no = 1
           /\ \A p \in DOMAIN file : file[p].no \in Int
           /\ \A p, q \in DOMAIN file : file[p].no > 0 /\ p < q => file[q].no # file[p].no
           /\ \A p, q \in DOMAIN file : file[p].no > 0 /\ file[q].no > file[p].no => p < q
<1> DEFINE heads == {p \in DOMAIN file : file[p].no # -1}
           Upto(p) == {q \in heads : q <= p}
<1>1. DOMAIN file = 1 .. Len(file) /\ Len(file) \in Nat
  BY FileLines
<1>2. /\ 1 \in heads
      /\ \A p \in heads : file[p].no = Cardinality(Upto(p))
  BY DEF WellFormed
<1>3. \A p \in heads : p \in Int /\ p \in DOMAIN file
  BY <1>1
<1>4. IsFiniteSet(heads)
  <2>1. IsFiniteSet(1 .. Len(file))
    BY <1>1, FS_Interval
  <2>2. heads \subseteq 1 .. Len(file)
    BY <1>1
  <2> QED
    BY <2>1, <2>2, FS_Subset
<1>5. \A p \in Int : IsFiniteSet(Upto(p)) /\ Cardinality(Upto(p)) \in Nat
  BY <1>4, FS_Subset, FS_CardinalityType
<1>6. ASSUME NEW p \in heads, NEW q \in heads, p < q
      PROVE  Cardinality(Upto(p)) < Cardinality(Upto(q))
  <2>1. Upto(p) \subseteq Upto(q) /\ q \in Upto(q) /\ q \notin Upto(p)
    BY <1>3, <1>6
  <2>2. /\ IsFiniteSet(Upto(q)) /\ Cardinality(Upto(p)) \in Nat /\ Cardinality(Upto(q)) \in Nat
    BY <1>3, <1>5
  <2> HIDE DEF Upto, heads
  <2>3. /\ Cardinality(Upto(p)) <= Cardinality(Upto(q))
        /\ Cardinality(Upto(p)) = Cardinality(Upto(q)) => Upto(p) = Upto(q)
    BY <2>1, <2>2, FS_Subset
  <2> QED
    BY <2>1, <2>2, <2>3
<1>7. file[1].no = 1
  <2>1. Upto(1) = {1}
    BY <1>1, <1>2
  <2>2. Cardinality({1}) = 1
    BY FS_Singleton
  <2> QED
    BY <1>2, <2>1, <2>2
<1>8. \A p \in DOMAIN file : (p \in heads /\ file[p].no \in Nat) \/ file[p].no = -1
  BY <1>2, <1>3, <1>5
<1> HIDE DEF Upto, heads
<1>9. \A p \in DOMAIN file : file[p].no > 0 => p \in heads
  BY <1>8
<1>10. ASSUME NEW p \in heads, NEW q \in heads, p < q PROVE file[p].no < file[q].no
  BY <1>2, <1>6, <1>10
<1>11. ASSUME NEW p \in DOMAIN file, NEW q \in DOMAIN file, file[p].no > 0, p < q
       PROVE  file[q].no # file[p].no
  <2>1. file[p].no \in Int /\ file[q].no \in Int
    BY <1>8
  <2> QED
    BY <1>8, <1>9, <1>10, <1>11, <2>1
<1>12. ASSUME NEW p \in DOMAIN file, NEW q \in DOMAIN file, file[p].no > 0, file[q].no > file[p].no
       PROVE  p < q
  <2>1. file[p].no \in Int /\ file[q].no \in Int /\ p \in Int /\ q \in Int
    BY <1>1, <1>8
  <2>2. p \in heads /\ q \in heads
    BY <1>9, <1>12, <2>1
  <2>3. ~(q < p) /\ p # q
    BY <1>10, <1>12, <2>1, <2>2
  <2> QED
    BY <2>1, <2>3
<1> QED
  BY <1>1, <1>2, <1>7, <1>8, <1>11, <1>12 DEF heads

\* A head is where its set begins in the file, and Stop is where it ends.
LEMMA HeadOfSet ==
    ASSUME Reading, WellFormed, NEW h \in DOMAIN file, NEW n \in Nat,
           n > 0, file[h].no = n, position \in {h, h + 1}
    PROVE  /\ Stop(n) > h /\ Stop(n) \in Int /\ ~Broken(n)
           /\ Written(n) = [no |-> n,
                            transactions |-> [i \in 1 .. Stop(n) - h |-> file[h + i - 1].txn],
                            alive |-> file[h].alive, byzantine |-> file[h].byzantine]
<1>1. DOMAIN file = 1 .. Len(file) /\ Len(file) \in Nat /\ h \in Int
  BY FileLines
<1>2. PICK q : q = Stop(n)
  OBVIOUS
<1>3. /\ q \in 1 .. Len(file) + 1
      /\ q # Len(file) + 1 => q \in position .. Len(file) /\ file[q].no = n + 1
      /\ \A p \in position .. q - 1 : file[p].no # n + 1
      /\ ~Broken(n)
  <2>1. q \in 1 .. Len(file) + 1 /\ \A p \in position .. q - 1 : p \in DOMAIN file /\ ~Ends(p, n)
    BY <1>2, ReadsUpTo
  <2>2. ~AtEnd(n) => q \in position .. Len(file) /\ Ends(q, n)
    BY <1>2, ReadsUpTo
  <2>3. ~AtEnd(n) <=> q # Len(file) + 1
    BY <1>1, <1>2, <2>1 DEF AtEnd
  <2>4. \A p \in DOMAIN file : file[p].ok
    BY DEF WellFormed
  <2>5. ~AtEnd(n) => q \in DOMAIN file
    BY <1>1, <2>1, <2>3
  <2> QED
    BY <1>2, <2>1, <2>2, <2>3, <2>4, <2>5 DEF Ends, Broken
<1>4. h < q
  <2>1. CASE q = Len(file) + 1
    BY <1>1, <2>1
  <2>2. CASE q # Len(file) + 1
    <3>1. q \in DOMAIN file /\ file[q].no > file[h].no /\ file[h].no > 0
      BY <1>1, <1>3, <2>2
    <3> QED
      BY <3>1, HeadsInOrder
  <2> QED
    BY <2>1, <2>2
<1>5. (CHOOSE p \in DOMAIN file : file[p].no = n) = h
  <2>1. ASSUME NEW p \in DOMAIN file, file[p].no = n PROVE p = h
    <3>1. ~(p < h) /\ ~(h < p) /\ p \in Int
      BY <1>1, <2>1, HeadsInOrder
    <3> QED
      BY <1>1, <3>1
  <2> QED
    BY <2>1
<1>6. Min({p \in DOMAIN file : file[p].no = n + 1} \cup {Len(file) + 1}) = q
  <2> DEFINE S == {p \in DOMAIN file : file[p].no = n + 1} \cup {Len(file) + 1}
  <2>1. q \in S
    BY <1>1, <1>3
  <2>2. ASSUME NEW p \in S PROVE q <= p
    <3>1. CASE p = Len(file) + 1
      BY <1>1, <1>3, <3>1
    <3>2. CASE p # Len(file) + 1
      <4>1. p \in DOMAIN file /\ file[p].no = n + 1
        BY <3>2
      <4>2. h < p
        <5>1. file[p].no > file[h].no /\ file[h].no > 0
          BY <4>1
        <5> QED
          BY <4>1, <5>1, HeadsInOrder
      <4>3. p \notin position .. q - 1
        BY <1>3, <4>1
      <4> QED
        BY <1>1, <1>3, <4>1, <4>2, <4>3
    <3> QED
      BY <3>1, <3>2
  <2>3. \A p \in S : p \in Int
    BY <1>1
  <2> HIDE DEF S
  <2>4. \A x \in S : (\A y \in S : x <= y) => x = q
    <3> SUFFICES ASSUME NEW x \in S, \A y \in S : x <= y PROVE x = q
      OBVIOUS
    <3>1. x <= q /\ q <= x /\ x \in Int /\ q \in Int
      BY <2>1, <2>2, <2>3
    <3> QED
      BY <3>1
  <2>5. Min(S) = q
    BY <2>1, <2>2, <2>4 DEF Min
  <2> QED
    BY <2>5 DEF S
<1>7. Written(n) = [no |-> n, transactions |-> [i \in 1 .. q - h |-> file[h + i - 1].txn],
                    alive |-> file[h].alive, byzantine |-> file[h].byzantine]
  BY <1>5, <1>6 DEF Written
<1> QED
  BY <1>2, <1>3, <1>4, <1>7

LEMMA BodyOfSet ==
    ASSUME Reading, WellFormed, currentSetNo \in Nat, NEW n \in Nat, n = currentSetNo + 1,
           NEW h, AtHead(h)
    PROVE  CurrentSet(n) = Written(n) /\ CurrentSet(n).transactions # <<>>
<1> PICK q : q = Stop(n)
  OBVIOUS
<1> PICK b : b = Body(n)
  OBVIOUS
<1>1. h \in DOMAIN file /\ file[h].no = n /\ n > 0 /\ position \in {h, h + 1}
  BY DEF AtHead
<1>2. DOMAIN file = 1 .. Len(file) /\ Len(file) \in Nat /\ h \in Int /\ 1 <= h
  BY <1>1, FileLines
<1>3. /\ q > h /\ q \in Int
      /\ Written(n) = [no |-> n, transactions |-> [i \in 1 .. q - h |-> file[h + i - 1].txn],
                        alive |-> file[h].alive, byzantine |-> file[h].byzantine]
  BY <1>1, HeadOfSet
<1>4. /\ Len(b) = IF position <= q - 1 THEN q - position ELSE 0
      /\ DOMAIN b = 1 .. Len(b)
      /\ \A i \in DOMAIN b : position + i - 1 \in DOMAIN file /\ b[i] = file[position + i - 1]
  BY BodyLines
<1>5. Len(b) = q - position /\ Len(b) \in Nat
  BY <1>1, <1>2, <1>3, <1>4
<1> DEFINE heads == {i \in DOMAIN b : b[i].no = n}
<1>6. Header(n) = IF heads = {} THEN nextSet ELSE b[Max(heads)]
  BY DEF Header
<1> DEFINE S == {file[p].txn : p \in DOMAIN file}
           t == [i \in DOMAIN b |-> b[i].txn]
<1>7. CurrentSet(n) = [no |-> n, transactions |-> nextSet.transactions \o t,
                       alive |-> Header(n).alive, byzantine |-> Header(n).byzantine]
  BY DEF CurrentSet
<1>8. t \in Seq(S) /\ Len(t) = q - position /\ \A i \in 1 .. Len(t) : t[i] = file[position + i - 1].txn
  <2>1. t = [i \in 1 .. Len(b) |-> b[i].txn]
    BY <1>4
  <2>2. \A i \in 1 .. Len(b) : b[i].txn \in S
    BY <1>4
  <2> HIDE DEF S
  <2>3. t \in Seq(S) /\ Len(t) = Len(b)
    BY <1>5, <2>1, <2>2
  <2> QED
    BY <1>4, <1>5, <2>1, <2>3
<1> PICK u : u = nextSet.transactions \o t
  OBVIOUS
<1> PICK w : w = [i \in 1 .. q - h |-> file[h + i - 1].txn]
  OBVIOUS
<1>9. w \in Seq(S) /\ Len(w) = q - h /\ \A i \in 1 .. Len(w) : w[i] = file[h + i - 1].txn
  <2>1. ASSUME NEW i \in 1 .. q - h PROVE h + i - 1 \in DOMAIN file
    <3>1. q <= Len(file) + 1
      BY ReadsUpTo, <1>2
    <3> QED
      BY <1>2, <1>3, <2>1, <3>1
  <2>2. \A i \in 1 .. q - h : file[h + i - 1].txn \in S
    BY <2>1
  <2>3. q - h \in Nat
    BY <1>2, <1>3
  <2> HIDE DEF S
  <2> QED
    BY <2>2, <2>3
<1>14. CurrentSet(n).transactions = u
  BY DEF CurrentSet
<1> HIDE DEF t, S
<1>12. w # <<>>
  BY <1>2, <1>3, <1>9
<1>13. Written(n) = [no |-> n, transactions |-> w, alive |-> file[h].alive,
                     byzantine |-> file[h].byzantine]
  BY <1>3
<1> HIDE DEF heads
<1>10. CASE position = h
  <2>1. nextSet.transactions = <<>>
    BY <1>2, <1>10 DEF AtHead
  <2>2. u = t
    BY <1>8, <2>1, ConcatEmptySeq
  <2>3. u = w
    BY <1>8, <1>9, <1>10, <2>2, SeqEqual
  <2>4. Header(n) = file[h]
    <3> USE DEF heads
    <3>1. 1 \in heads
      <4>1. 1 \in DOMAIN b
        BY <1>2, <1>3, <1>4, <1>5, <1>10
      <4>2. b[1] = file[h]
        BY <1>2, <1>4, <1>10, <4>1
      <4> QED
        BY <1>1, <4>1, <4>2
    <3>2. ASSUME NEW i \in heads PROVE i = 1
      <4>1. i \in Int /\ i >= 1 /\ h + i - 1 \in DOMAIN file /\ file[h + i - 1].no = n
        BY <1>4, <1>5, <1>10
      <4>2. ~(h < h + i - 1)
        BY <1>1, <4>1, HeadsInOrder
      <4> QED
        BY <1>2, <4>1, <4>2
    <3>3. heads = {1}
      BY <3>1, <3>2
    <3>4. Max({1}) = 1
      <4>1. \A x \in {1} : (\A y \in {1} : x >= y) <=> x = 1
        OBVIOUS
      <4> QED
        BY <4>1 DEF Max
    <3>5. 1 \in DOMAIN b
      BY <3>1
    <3> HIDE DEF heads
    <3> QED
      BY <1>2, <1>4, <1>6, <1>10, <3>3, <3>4, <3>5
  <2>5. CurrentSet(n) = [no |-> n, transactions |-> w, alive |-> file[h].alive,
                         byzantine |-> file[h].byzantine]
    BY <1>7, <2>3, <2>4
  <2>8. CurrentSet(n) = Written(n)
    BY <1>13, <2>5, Zenon
  <2>9. CurrentSet(n).transactions = w
    BY <1>14, <2>3
  <2> QED
    BY <1>12, <2>8, <2>9
<1>11. CASE position = h + 1
  <2>1. nextSet = [no |-> 0, transactions |-> <<file[h].txn>>,
                   alive |-> file[h].alive, byzantine |-> file[h].byzantine]
    BY <1>2, <1>11 DEF AtHead
  <2>2. <<file[h].txn>> \in Seq(S) /\ Len(<<file[h].txn>>) = 1 /\ <<file[h].txn>>[1] = file[h].txn
    <3>1. file[h].txn \in S
      BY <1>1 DEF S
    <3> QED
      BY <3>1
  <2>3. /\ u \in Seq(S) /\ Len(u) = 1 + (q - (h + 1))
        /\ \A i \in 1 .. Len(u) : u[i] = IF i <= 1 THEN file[h].txn ELSE t[i - 1]
    <3>1. PICK v : v = <<file[h].txn>>
      OBVIOUS
    <3>2. u = v \o t /\ v \in Seq(S) /\ Len(v) = 1 /\ v[1] = file[h].txn
      BY <2>1, <2>2, <3>1
    <3>3. /\ v \o t \in Seq(S) /\ Len(v \o t) = Len(v) + Len(t)
          /\ \A i \in 1 .. Len(v) + Len(t) : (v \o t)[i] = IF i <= Len(v) THEN v[i] ELSE t[i - Len(v)]
      BY <1>8, <3>2, ConcatProperties
    <3>4. \A i \in 1 .. Len(u) : i <= 1 => i = 1
      BY <1>2, <1>3, <1>8, <1>11, <3>2, <3>3
    <3> QED
      BY <1>8, <1>11, <3>2, <3>3, <3>4
  <2>4. u = w
    <3>1. Len(u) = Len(w) /\ Len(u) = q - h /\ Len(t) = q - h - 1
      BY <1>2, <1>3, <1>8, <1>9, <1>11, <2>3
    <3>2. ASSUME NEW i \in 1 .. Len(u) PROVE u[i] = w[i]
      <4>1. CASE i = 1
        <5>1. u[i] = file[h].txn /\ h + i - 1 = h
          BY <1>2, <2>3, <3>2, <4>1
        <5> QED
          BY <1>9, <3>1, <3>2, <5>1
      <4>2. CASE i # 1
        <5>1. i \in Int /\ i > 1 /\ i <= q - h
          BY <3>1, <3>2, <4>2
        <5>2. i - 1 \in 1 .. Len(t)
          BY <1>2, <1>3, <3>1, <5>1
        <5>3. u[i] = t[i - 1]
          BY <2>3, <3>2, <5>1
        <5>4. (h + 1) + (i - 1) - 1 = h + i - 1
          BY <1>2, <5>1
        <5>5. t[i - 1] = file[(h + 1) + (i - 1) - 1].txn
          BY <1>8, <1>11, <5>2
        <5> QED
          BY <1>9, <3>1, <3>2, <5>3, <5>4, <5>5
      <4> QED
        BY <4>1, <4>2
    <3> QED
      BY <1>9, <2>3, <3>1, <3>2, SeqEqual
  <2>5. heads = {}
    <3> SUFFICES ASSUME NEW i \in DOMAIN b, b[i].no = n PROVE FALSE
      BY DEF heads
    <3>1. /\ i \in Int /\ i >= 1 /\ (h + 1) + i - 1 \in DOMAIN file
          /\ file[(h + 1) + i - 1].no = n
      BY <1>4, <1>5, <1>11
    <3>2. h < (h + 1) + i - 1
      BY <1>2, <3>1
    <3> QED
      BY <1>1, <3>1, <3>2, HeadsInOrder
  <2>6. Header(n).alive = file[h].alive /\ Header(n).byzantine = file[h].byzantine
    BY <1>6, <2>1, <2>5
  <2>7. CurrentSet(n) = [no |-> n, transactions |-> w, alive |-> file[h].alive,
                         byzantine |-> file[h].byzantine]
    BY <1>7, <2>4, <2>6
  <2>8. CurrentSet(n) = Written(n)
    BY <1>13, <2>7, Zenon
  <2>9. CurrentSet(n).transactions = w
    BY <1>14, <2>4
  <2> QED
    BY <1>12, <2>8, <2>9
<1> QED
  BY <1>1, <1>10, <1>11

LEMMA NextAsWritten == DriverInv /\ AsWrittenInv /\ [Next]_vars => AsWrittenInv'
<1> SUFFICES ASSUME DriverInv, AsWrittenInv, [Next]_vars, WellFormed'
             PROVE  SetsAsWritten' /\ (ReadOut' \/ \E h \in DOMAIN file' : AtHead(h)')
  BY DEF AsWrittenInv
<1>1. file' = file
  BY DEF Next, Command, ProcessNextSet, InvalidCommand, HugeNumber, PrintReport, PrintLog, PrintView,
         Exit, Operate, ProcessDies, vars, readerVars
<1>2. WellFormed /\ SetsAsWritten /\ (ReadOut \/ \E h \in DOMAIN file : AtHead(h))
  BY <1>1 DEF WellFormed, AsWrittenInv
<1>3. \A k : Written(k)' = Written(k)
  BY <1>1 DEF Written
<1>4. CASE UNCHANGED <<readerVars, set>>
  BY <1>2, <1>3, <1>4 DEF SetsAsWritten, WellFormed, ReadOut, AtHead, readerVars
<1>5. CASE ProcessNextSet
  <2> PICK n : n = currentSetNo + 1
    OBVIOUS
  <2>1. Reading /\ currentSetNo \in Nat /\ n \in Nat /\ n > 0
    BY CommandsAssumption DEF DriverInv, DriverTypeOK, Reading
  <2>2. /\ currentSetNo' = n /\ position' = Stop(n) + 1 /\ nextSet' = LookAhead(n)
        /\ \/ Broken(n) /\ UNCHANGED set
           \/ CurrentSet(n).transactions = <<>> /\ UNCHANGED set
           \/ CurrentSet(n).transactions # <<>> /\ ~Broken(n) /\ set' = CurrentSet(n)
    BY <1>5 DEF ProcessNextSet
  <2>3. Len(file) \in Nat /\ DOMAIN file = 1 .. Len(file)
    BY <2>1, FileLines
  <2>4. CASE ReadOut
    <3>1. position = Len(file) + 2 /\ nextSet.transactions = <<>>
      BY <2>4 DEF ReadOut
    <3>2. AtEnd(n) /\ ~Broken(n)
      <4>1. position .. Len(file) = {}
        BY <2>3, <3>1
      <4> QED
        BY <2>1, <4>1, ReadsUpTo DEF Broken
    <3>3. Stop(n) = Len(file) + 1
      <4>1. Stop(n) \in 1 .. Len(file) + 1 /\ Stop(n) > Len(file)
        BY <2>1, <3>2, ReadsUpTo DEF AtEnd
      <4> QED
        BY <2>3, <4>1
    <3>4. position' = Len(file) + 2 /\ nextSet' = NoSet
      BY <2>2, <2>3, <3>2, <3>3 DEF LookAhead
    <3>5. CurrentSet(n).transactions = <<>>
      <4>1. Len(Body(n)) = 0 /\ DOMAIN Body(n) = 1 .. Len(Body(n))
        BY <2>1, <2>3, <3>1, <3>3, BodyLines
      <4>2. DOMAIN Body(n) = {}
        BY <4>1
      <4>3. PICK t : t = [i \in DOMAIN Body(n) |-> Body(n)[i].txn]
        OBVIOUS
      <4>4. t = <<>>
        BY <4>2, <4>3
      <4>5. CurrentSet(n).transactions = <<>> \o t
        BY <3>1, <4>3 DEF CurrentSet
      <4>6. <<>> \o <<>> = <<>>
        OBVIOUS
      <4> QED
        BY <4>4, <4>5, <4>6
    <3>6. set' = set
      BY <2>2, <3>5
    <3>7. SetsAsWritten'
      BY <1>2, <1>3, <3>6 DEF SetsAsWritten
    <3>8. ReadOut'
      BY <1>1, <3>4 DEF ReadOut, NoSet
    <3> QED
      BY <3>7, <3>8
  <2>5. ASSUME NEW h \in DOMAIN file, AtHead(h)
        PROVE  SetsAsWritten' /\ (ReadOut' \/ \E k \in DOMAIN file' : AtHead(k)')
    <3>1. CurrentSet(n) = Written(n) /\ CurrentSet(n).transactions # <<>>
      BY <1>2, <2>1, <2>5, BodyOfSet
    <3>2. file[h].no = n /\ position \in {h, h + 1}
      BY <2>5 DEF AtHead
    <3>3. Stop(n) > h /\ Stop(n) \in Int /\ ~Broken(n)
      BY <1>2, <2>1, <3>2, HeadOfSet
    <3>4. set' = Written(n)
      BY <2>2, <3>1, <3>3
    <3>5. SetsAsWritten'
      <4>1. Written(n).no = n
        BY DEF Written
      <4> QED
        BY <1>3, <3>4, <4>1 DEF SetsAsWritten
    <3>6. CASE AtEnd(n)
      <4>1. Stop(n) = Len(file) + 1
        <5>1. Stop(n) \in 1 .. Len(file) + 1 /\ Stop(n) > Len(file)
          BY <2>1, <3>6, ReadsUpTo DEF AtEnd
        <5> QED
          BY <2>3, <5>1
      <4>2. position' = Len(file) + 2 /\ nextSet' = NoSet
        BY <2>2, <2>3, <3>6, <4>1 DEF LookAhead
      <4>3. ReadOut'
        BY <1>1, <4>2 DEF ReadOut, NoSet
      <4> QED
        BY <3>5, <4>3
    <3>7. CASE ~AtEnd(n)
      <4> PICK q : q = Stop(n)
        OBVIOUS
      <4>1. q \in DOMAIN file /\ file[q].no = n + 1
        <5>1. q \in position .. Len(file) /\ Ends(q, n)
          BY <2>1, <3>7, ReadsUpTo
        <5>2. q \in DOMAIN file
          BY <2>1, <2>3, <5>1 DEF Reading
        <5>3. file[q].ok
          BY <1>2, <5>2 DEF WellFormed
        <5> QED
          BY <5>1, <5>2, <5>3 DEF Ends
      <4>2. /\ position' = q + 1
            /\ nextSet' = [no |-> 0, transactions |-> <<file[q].txn>>, alive |-> file[q].alive,
                           byzantine |-> file[q].byzantine]
        BY <2>2, <3>3, <3>7 DEF LookAhead
      <4>3. AtHead(q)'
        BY <1>1, <2>2, <4>1, <4>2 DEF AtHead
      <4> QED
        BY <1>1, <3>5, <4>1, <4>3
    <3> QED
      BY <3>6, <3>7
  <2> QED
    BY <1>2, <2>4, <2>5
<1>6. ProcessNextSet \/ UNCHANGED <<readerVars, set>>
  BY DEF Next, Command, InvalidCommand, HugeNumber, PrintReport, PrintLog, PrintView,
         Exit, Operate, ProcessDies, vars, loopVars
<1> QED
  BY <1>4, <1>5, <1>6

\* A well-formed file is handed out set by set, as written, although readNextSet keeps
\* one line of the next set and swaps its two sets at every call.
THEOREM FileAsWritten == Spec => []SetsAsWritten
<1>1. Init => AsWrittenInv
  <2> SUFFICES ASSUME Init, WellFormed
               PROVE  SetsAsWritten /\ \E h \in DOMAIN file : AtHead(h)
    BY DEF AsWrittenInv
  <2>1. Reading
    BY InitDriver DEF DriverInv, DriverTypeOK, Reading
  <2>2. 1 \in DOMAIN file /\ file[1].no = 1
    BY <2>1, HeadsInOrder
  <2>3. AtHead(1)
    BY <2>2 DEF AtHead, Init, NoSet
  <2>4. SetsAsWritten
    BY DEF SetsAsWritten, Init, NoSet
  <2> QED
    BY <2>2, <2>3, <2>4
<1>2. AsWrittenInv => SetsAsWritten
  BY DEF AsWrittenInv, SetsAsWritten
<1> QED
  BY <1>1, <1>2, DriverInvariant, NextAsWritten, PTL DEF Spec
=============================================================================
