-------------------------- MODULE DataServerProofs --------------------------
(***************************************************************************)
(* The data server for every number of clients, descriptors and threads.   *)
(*                                                                         *)
(* Two invariants.  Owned: a connection or a file is under one number only *)
(* and that is the one its thread knows, whatever has been mixed up.       *)
(* Honest: until a close hits what somebody else opened, the converse: the *)
(* number a thread knows is its own as long as it uses it, and so each     *)
(* client gets its own answer.                                             *)
(***************************************************************************)
EXTENDS DataServer, SequenceTheorems, WellFoundedInduction, TLAPS

\* What is open has its thread, at a place from which it goes on to close it.
Traced(c) ==
    \A n \in Numbers :
        /\ fds[n] = Conn(c) =>
            /\ sock[c] = n
            /\ pc[c] \notin {"queued", "done"}
            /\ pc[c] = "unserved" => threads = 0
        /\ fds[n] = File(c) =>
            file[c] = n /\ pc[c] \in {"read", "send", "closeFile", "spin"}

Owned == \A c \in Clients : Traced(c)

\* Who is refused does not come back to the path of those who are served, and
\* who was read for is not read for again.
RefusedEnd ==
    \A c \in Clients :
        /\ c \in refusals => pc[c] \in {"sendFailure", "closeFirst", "closeSock", "done"}
        /\ pc[c] \in {"sendFailure", "closeFirst"} => c \in refusals
        /\ c \in misread => pc[c] \in {"send", "closeFile", "closeSock", "done"}

\* A thread may still use the number of its connection; one that was refused
\* uses it once more after closing it.
Holds(c) ==
    \/ pc[c] \in {"unserved", "recv", "check", "read", "send", "closeFile", "sendFailure",
                  "closeFirst", "spin"}
    \/ pc[c] = "closeSock" /\ c \notin refusals

Own(c) ==
    /\ Holds(c) => At(sock[c]) = Conn(c)
    /\ pc[c] \in {"read", "send", "closeFile"} => At(file[c]) = File(c)
    /\ want[c] = c
    /\ pc[c] = "send" => data[c] = IF c \in misread THEN Other ELSE c

OutOwn == outFd \in Numbers => fds[outFd] = Output

\* What a client has been sent, given where its thread is.
Answered(c) ==
    /\ got[c] \in {<<>>, <<Answer(c)>>}
    /\ Waiting(c) => got[c] = <<>>
    /\ up /\ ~Waiting(c) /\ c \notin gone => got[c] # <<>>

Honest ==
    /\ stray => refusals # {}
    /\ ~stray =>
        /\ OutOwn
        /\ \A c \in Clients : Own(c) /\ Answered(c)

-----------------------------------------------------------------------------
(* Descriptors. *)

\* A set of numbers has a least one: the order of the numbers is well-founded.
LEMMA LeastNumber ==
    ASSUME NEW S, S \subseteq Nat, S # {}
    PROVE  \E n \in S : \A k \in S : n <= k
<1> DEFINE R == {ss \in Nat \X Nat : ss[1] < ss[2]}
<1>1. IsWellFoundedOn(R, Nat)
    BY NatLessThanWellFounded DEF OpToRel
<1>2. \A k, n \in Nat : k < n => <<k, n>> \in R
    OBVIOUS
<1> HIDE DEF R
<1>3. PICK n \in S : \A k \in S : <<k, n>> \notin R
    BY <1>1, WFMin
<1>4. ASSUME NEW k \in S PROVE n <= k
    <2>1. ~(k < n) /\ k \in Nat /\ n \in Nat
        BY <1>2, <1>3
    <2>2. QED
        BY <2>1
<1>5. QED
    BY <1>4

\* accept and open give out a number that is free.
LEMMA LowestIsFree ==
    ASSUME FreeNumbers # {}
    PROVE  Lowest \in Numbers /\ fds[Lowest] = Closed
<1>1. FreeNumbers \subseteq Nat
    BY ServerAssumption DEF FreeNumbers, Numbers
<1>2. \E n \in FreeNumbers : \A k \in FreeNumbers : n <= k
    BY <1>1, LeastNumber
<1>3. Lowest \in FreeNumbers
    BY <1>2 DEF Lowest
<1>4. QED
    BY <1>3 DEF FreeNumbers

\* What numbers refer to is told apart by its kind and its owner.
LEMMA ObjectFacts ==
    /\ {Closed, Listener, Output} \subseteq Objects
    /\ Closed # Output
    /\ \A c \in Clients :
        /\ Conn(c) \in Objects /\ File(c) \in Objects
        /\ Conn(c).kind = "conn" /\ Conn(c).of = c
        /\ File(c).kind = "file" /\ File(c).of = c
        /\ \A d \in Clients : Conn(c) # File(d)
        /\ {Conn(c), File(c)} \cap {Closed, Listener, Output} = {}
    /\ Closed.kind = "closed" /\ Output.kind = "output"
    /\ \A x \in Objects : x.kind = "conn" => x.of \in Clients /\ x = Conn(x.of)
<1>1. /\ {Closed, Listener, Output} \subseteq Objects
      /\ \A c \in Clients : Conn(c) \in Objects /\ File(c) \in Objects
    BY DEF Objects
<1>2. /\ Closed.kind = "closed" /\ Output.kind = "output" /\ Listener.kind = "listener"
      /\ \A c \in Clients :
            /\ Conn(c).kind = "conn" /\ Conn(c).of = c
            /\ File(c).kind = "file" /\ File(c).of = c
    BY DEF Closed, Listener, Output, Conn, File
<1>3. \A x \in Objects : x.kind = "conn" => x.of \in Clients /\ x = Conn(x.of)
    BY <1>2 DEF Objects
<1>4. QED
    BY <1>1, <1>2, <1>3

\* A connection is of one client.
LEMMA ConnIsOfOne == \A c, d \in Clients : Conn(c) = Conn(d) => c = d
BY DEF Conn

\* The table of numbers, and the number that stands for none.
LEMMA NumberFacts ==
    /\ Numbers \subseteq Nat /\ NoFd \notin Numbers /\ ListenFd \in Numbers
BY ServerAssumption DEF Numbers, NoFd, ListenFd

\* What a number refers to.
LEMMA AtFacts ==
    ASSUME TypeOK, NEW n
    PROVE  /\ At(n) \in Objects
           /\ n \in Numbers => At(n) = fds[n]
           /\ n \notin Numbers => At(n) = Closed
BY ObjectFacts DEF At, TypeOK

\* Whoever closes a number closes what it opened, or nothing, or goes astray.
LEMMA Closing ==
    ASSUME TypeOK, NEW n, NEW own, Close(n, own)
    PROVE  /\ fds' \in [Numbers -> Objects] /\ stray' \in BOOLEAN
           /\ stray => stray'
           /\ \A k \in Numbers : fds'[k] = IF k = n THEN Closed ELSE fds[k]
           /\ ~stray' =>
                \A k \in Numbers : fds[k] \notin {own, Closed} => fds'[k] = fds[k]
           /\ At(n) \in {own, Closed} => stray' = stray
<1>1. fds' \in [Numbers -> Objects] /\ \A k \in Numbers : fds'[k] = IF k = n THEN Closed ELSE fds[k]
    BY ObjectFacts DEF Close, TypeOK
<1>2. stray' = (stray \/ At(n) \notin {own, Closed})
    BY DEF Close
<1>3. stray \in BOOLEAN
    BY DEF TypeOK
<1>4. stray' \in BOOLEAN /\ (stray => stray') /\ (At(n) \in {own, Closed} => stray' = stray)
    BY <1>2, <1>3
<1>5. ~stray' => At(n) \in {own, Closed}
    BY <1>2
<1>6. QED
    BY <1>1, <1>4, <1>5, AtFacts

\* A new number was free, and no other is touched.
LEMMA Opening ==
    ASSUME TypeOK, FreeNumbers # {}, NEW x \in Objects, fds' = [fds EXCEPT ![Lowest] = x]
    PROVE  /\ Lowest \in Numbers /\ fds[Lowest] = Closed /\ fds'[Lowest] = x
           /\ fds' \in [Numbers -> Objects]
           /\ \A k \in Numbers : fds'[k] = IF k = Lowest THEN x ELSE fds[k]
           /\ \A k \in Numbers : fds[k] # Closed => fds'[k] = fds[k]
BY LowestIsFree DEF TypeOK

\* What is sent goes to one client at most.
LEMMA Delivering ==
    ASSUME TypeOK, NEW n, NEW b \in Clients \cup {Other, Failure}, Deliver(n, b)
    PROVE  /\ got' \in [Clients -> Seq(Clients \cup {Other, Failure})]
           /\ At(n).kind # "conn" => got' = got
           /\ \A c \in Clients :
                At(n) = Conn(c) =>
                    /\ \A d \in Clients \ {c} : got'[d] = got[d]
                    /\ got'[c] = IF c \in gone THEN got[c] ELSE Append(got[c], b)
<1>1. CASE At(n).kind = "conn" /\ At(n).of \notin gone
    <2>1. PICK c \in Clients : At(n) = Conn(c) /\ At(n).of = c
        BY <1>1, AtFacts, ObjectFacts
    <2>2. got' = [got EXCEPT ![c] = Append(got[c], b)]
        BY <1>1, <2>1 DEF Deliver
    <2>3. Append(got[c], b) \in Seq(Clients \cup {Other, Failure})
        BY AppendProperties DEF TypeOK
    <2>4. \A d \in Clients : At(n) = Conn(d) => d = c
        BY <2>1, ObjectFacts
    <2>5. QED
        BY <1>1, <2>1, <2>2, <2>3, <2>4 DEF TypeOK
<1>2. CASE ~(At(n).kind = "conn" /\ At(n).of \notin gone)
    <2>1. got' = got
        BY <1>2 DEF Deliver
    <2>2. \A c \in Clients : At(n) = Conn(c) => c \in gone
        BY <1>2, ObjectFacts
    <2>3. QED
        BY <2>1, <2>2 DEF TypeOK
<1>3. QED
    BY <1>1, <1>2

\* The first answer to a client.
LEMMA FirstAnswer == \A b : Append(<<>>, b) = <<b>>
OBVIOUS

-----------------------------------------------------------------------------
(* Types. *)

\* The steps of a thread that leave the table of descriptors alone.
Works(c) ==
    \/ Recv(c) \/ RecvError(c) \/ RecvSpins(c) \/ Refuse(c)
    \/ ReadFile(c) \/ ReadFails(c) \/ ReadBlocks(c) \/ Send(c) \/ SendFailure(c)

Closes(c) == CloseFile(c) \/ CloseFirst(c) \/ CloseSock(c)

\* The steps, one thread at a time.
LEMMA Steps ==
    ASSUME [Next]_vars
    PROVE  \/ (Exit /\ up) \/ OutOpen \/ OutWrite \/ OutClose \/ UNCHANGED vars
           \/ \E c \in Clients : Accept(c) \/ OpenFile(c) \/ Works(c) \/ Closes(c) \/ Leave(c)
BY DEF Next, Acceptor, AcceptFails, OutStep, Serve, SendBreaks, Reached, Works, Closes

\* The end of the process keeps the types.
LEMMA ExitTyped ==
    ASSUME TypeOK, Exit
    PROVE  TypeOK'
BY NumberFacts, ObjectFacts
   DEF TypeOK, Exit, Labels, NoNumbers, OwnRequests, NoData

\* accept, and open for the file of a request, keep the types.
LEMMA OpenTyped ==
    ASSUME TypeOK, NEW c \in Clients, Accept(c) \/ OpenFile(c)
    PROVE  TypeOK'
<1>1. CASE Accept(c)
    <2>1. fds' \in [Numbers -> Objects] /\ Lowest \in Numbers
        BY <1>1, Opening, ObjectFacts DEF Accept
    <2>2. threads' \in 0 .. MaxThreads /\ pc' \in [Clients -> Labels]
        <3>1. \/ threads > 0 /\ threads' = threads - 1 /\ pc' = [pc EXCEPT ![c] = "recv"]
              \/ threads' = threads /\ pc' = [pc EXCEPT ![c] = "unserved"]
            BY <1>1, Zenon DEF Accept
        <3>2. pc \in [Clients -> Labels] /\ threads \in 0 .. MaxThreads /\ MaxThreads \in Nat
            BY ServerAssumption DEF TypeOK
        <3>3. threads' \in 0 .. MaxThreads
            BY <3>1, <3>2
        <3>4. QED
            BY <3>1, <3>2, <3>3 DEF Labels
    <2>3. QED
        BY <1>1, <2>1, <2>2 DEF Accept, TypeOK, outVars
<1>2. CASE OpenFile(c)
    <2>1. fds' \in [Numbers -> Objects] /\ Lowest \in Numbers
        BY <1>2, Opening, ObjectFacts DEF OpenFile
    <2>2. pc' \in [Clients -> Labels]
        BY <1>2 DEF OpenFile, Goto, TypeOK, Labels
    <2>3. QED
        BY <1>2, <2>1, <2>2 DEF OpenFile, TypeOK, outVars
<1>3. QED
    BY <1>1, <1>2

\* Reading a request and sending its answer keep the types.
LEMMA WorkTyped ==
    ASSUME TypeOK, NEW c \in Clients, Works(c)
    PROVE  TypeOK'
<1>1. pc' \in [Clients -> Labels]
    BY DEF Works, Recv, RecvError, RecvSpins, Refuse, ReadFile, ReadFails, ReadBlocks, Send,
       SendFailure,
       Goto, TypeOK, Labels
<1>2. UNCHANGED <<up, fds, gone, sock, file, threads, out, outFd, stray>>
    BY DEF Works, Recv, RecvError, RecvSpins, Refuse, ReadFile, ReadFails, ReadBlocks, Send,
       SendFailure,
       outVars
<1>3. asked' \subseteq asked /\ refusals' \subseteq Clients /\ misread' \subseteq Clients
    BY DEF Works, Recv, RecvError, RecvSpins, Refuse, ReadFile, ReadFails, ReadBlocks, Send,
       SendFailure,
       TypeOK
<1>4. want' \in [Clients -> Clients]
    BY DEF Works, Recv, RecvError, RecvSpins, Refuse, ReadFile, ReadFails, ReadBlocks, Send,
       SendFailure,
       TypeOK
<1>5. data' \in [Clients -> Clients \cup {Other}]
    BY DEF Works, Recv, RecvError, RecvSpins, Refuse, ReadFile, ReadFails, ReadBlocks, Send,
       SendFailure,
       TypeOK
<1>6. got' \in [Clients -> Seq(Clients \cup {Other, Failure})]
    <2>1. CASE Send(c) \/ SendFailure(c)
        BY <2>1, Delivering DEF Send, SendFailure, TypeOK
    <2>2. CASE ~(Send(c) \/ SendFailure(c))
        BY <2>2 DEF Works, Recv, RecvError, RecvSpins, Refuse, ReadFile, ReadFails, ReadBlocks,
           TypeOK
    <2>3. QED
        BY <2>1, <2>2
<1>7. QED
    BY <1>1, <1>2, <1>3, <1>4, <1>5, <1>6 DEF TypeOK

\* The number a thread closes, and as what.
LEMMA CloseFrame ==
    ASSUME TypeOK, NEW c \in Clients, Closes(c)
    PROVE  /\ up /\ UNCHANGED <<up, asked, gone, got, want, data, threads, outVars,
                           refusals, misread>>
           /\ \/ /\ pc[c] = "closeFile" /\ pc'[c] = "closeSock" /\ Close(file[c], File(c))
                 /\ file'[c] = NoFd /\ UNCHANGED sock
              \/ /\ pc[c] = "closeFirst" /\ pc'[c] = "closeSock" /\ Close(sock[c], Conn(c))
                 /\ UNCHANGED <<sock, file>>
              \/ /\ pc[c] = "closeSock" /\ pc'[c] = "done" /\ Close(sock[c], Conn(c))
                 /\ sock'[c] = NoFd /\ UNCHANGED file
           /\ pc' \in [Clients -> Labels]
           /\ sock' \in [Clients -> Numbers \cup {NoFd}] /\ file' \in [Clients -> Numbers \cup {NoFd}]
           /\ \A d \in Clients \ {c} : pc'[d] = pc[d] /\ sock'[d] = sock[d] /\ file'[d] = file[d]
BY DEF Closes, CloseFile, CloseFirst, CloseSock, Reached, Goto, TypeOK, Labels

\* The closes of a thread keep the types.
LEMMA CloseTyped ==
    ASSUME TypeOK, NEW c \in Clients, Closes(c)
    PROVE  TypeOK'
<1>1. fds' \in [Numbers -> Objects] /\ stray' \in BOOLEAN
    BY CloseFrame, Closing
<1>2. QED
    BY <1>1, CloseFrame DEF TypeOK, outVars

\* The output file of a download keeps the types.
LEMMA OutTyped ==
    ASSUME TypeOK, OutOpen \/ OutWrite \/ OutClose
    PROVE  TypeOK'
<1>1. CASE OutOpen
    <2>1. fds' \in [Numbers -> Objects] /\ outFd' \in Numbers \cup {NoFd}
        <3>1. CASE FreeNumbers = {}
            BY <1>1, <3>1 DEF OutOpen, TypeOK
        <3>2. CASE FreeNumbers # {}
            BY <1>1, <3>2, Opening, ObjectFacts DEF OutOpen
        <3>3. QED
            BY <3>1, <3>2
    <2>2. QED
        BY <1>1, <2>1 DEF OutOpen, TypeOK, threadVars
<1>2. CASE OutWrite
    <2>1. got' \in [Clients -> Seq(Clients \cup {Other, Failure})]
        BY <1>2, Delivering DEF OutWrite
    <2>2. QED
        BY <1>2, <2>1 DEF OutWrite, TypeOK, threadVars
<1>3. CASE OutClose
    <2>1. fds' \in [Numbers -> Objects] /\ stray' \in BOOLEAN
        BY <1>3, Closing DEF OutClose
    <2>2. QED
        BY <1>3, <2>1 DEF OutClose, TypeOK, threadVars
<1>4. QED
    BY <1>1, <1>2, <1>3

\* Every step keeps the types.
LEMMA StepTyped == TypeOK /\ [Next]_vars => TypeOK'
<1> SUFFICES ASSUME TypeOK, [Next]_vars PROVE TypeOK'
    OBVIOUS
<1>1. CASE UNCHANGED vars
    BY <1>1 DEF TypeOK, vars, threadVars, outVars
<1>2. ASSUME NEW c \in Clients, Leave(c) PROVE TypeOK'
    BY <1>2 DEF Leave, TypeOK, threadVars, outVars
<1>3. QED
    BY <1>1, <1>2, Steps, ExitTyped, OpenTyped, WorkTyped, CloseTyped, OutTyped

\* The types at the start.
LEMMA InitTyped == Init => TypeOK
<1> SUFFICES ASSUME Init PROVE TypeOK
    OBVIOUS
<1>1. got \in [Clients -> Seq(Clients \cup {Other, Failure})]
    BY EmptySeq DEF Init
<1>2. fds \in [Numbers -> Objects]
    BY ObjectFacts DEF Init
<1>3. up \in BOOLEAN /\ stray \in BOOLEAN
    BY DEF Init
<1>4. QED
    BY <1>1, <1>2, <1>3, NumberFacts
       DEF Init, TypeOK, Labels, NoNumbers, OwnRequests, NoData

\* The server keeps its types: a number that is given out is one the process
\* may have, and is known as what it refers to.
THEOREM TypeCorrect == Spec => []TypeOK
BY InitTyped, StepTyped, PTL DEF Spec

-----------------------------------------------------------------------------
(* Owned is inductive. *)

\* What a thread's objects are under does not change with a step of another.
LEMMA TracedKept ==
    ASSUME TypeOK, TypeOK', NEW c \in Clients, Traced(c),
           pc'[c] = pc[c], sock'[c] = sock[c], file'[c] = file[c], threads' <= threads,
           \A n \in Numbers : fds'[n] \in {Conn(c), File(c)} => fds'[n] = fds[n]
    PROVE  Traced(c)'
<1>1. threads = 0 => threads' = 0
    BY ServerAssumption DEF TypeOK
<1>2. QED
    BY <1>1 DEF Traced

\* What is opened is known to the thread that opened it.
LEMMA OpenOwned ==
    ASSUME TypeOK, TypeOK', Owned, NEW c \in Clients, Accept(c) \/ OpenFile(c)
    PROVE  Owned'
<1> DEFINE x == IF pc[c] = "queued" THEN Conn(c) ELSE File(c)
<1>1. x \in Objects /\ \A d \in Clients \ {c} : x # Conn(d) /\ x # File(d)
    BY ObjectFacts
<1>2. FreeNumbers # {} /\ fds' = [fds EXCEPT ![Lowest] = x]
    BY DEF Accept, OpenFile, Reached
<1>3. threads' <= threads
    <2>1. threads' = threads \/ threads' = threads - 1
        BY DEF Accept, OpenFile
    <2>2. QED
        BY <2>1, ServerAssumption DEF TypeOK
<1>4. Traced(c)'
    <2>1. CASE Accept(c)
        <3>1. /\ pc[c] = "queued" /\ sock'[c] = Lowest
              /\ pc'[c] \in {"recv", "unserved"} /\ (pc'[c] = "unserved" => threads' = 0)
            <4>1. /\ pc[c] = "queued" /\ sock' = [sock EXCEPT ![c] = Lowest]
                  /\ \/ pc' = [pc EXCEPT ![c] = "recv"]
                     \/ pc' = [pc EXCEPT ![c] = "unserved"] /\ threads' = 0
                BY <2>1 DEF Accept, Reached
            <4>2. QED
                BY <4>1 DEF TypeOK
        <3>2. ASSUME NEW n \in Numbers PROVE fds'[n] # File(c) /\ (fds'[n] = Conn(c) => n = Lowest)
            BY <1>1, <1>2, <3>1, Opening, ObjectFacts DEF Owned, Traced
        <3>3. QED
            BY <3>1, <3>2 DEF Traced
    <2>2. CASE OpenFile(c)
        <3>1. /\ pc[c] = "check" /\ pc'[c] = "read" /\ sock'[c] = sock[c] /\ file'[c] = Lowest
            BY <2>2 DEF OpenFile, Reached, Goto, TypeOK
        <3>2. ASSUME NEW n \in Numbers
              PROVE  /\ fds'[n] = File(c) => n = Lowest
                     /\ fds'[n] = Conn(c) => fds[n] = Conn(c)
            BY <1>1, <1>2, <3>1, Opening, ObjectFacts DEF Owned, Traced
        <3>3. QED
            BY <3>1, <3>2 DEF Owned, Traced
    <2>3. QED
        BY <2>1, <2>2
<1>5. ASSUME NEW d \in Clients \ {c} PROVE Traced(d)'
    <2>1. pc'[d] = pc[d] /\ sock'[d] = sock[d] /\ file'[d] = file[d]
        <3>1. \E p \in Labels : pc' = [pc EXCEPT ![c] = p]
            BY DEF Accept, OpenFile, Goto, Labels
        <3>2. \/ sock' = [sock EXCEPT ![c] = Lowest] /\ file' = file
              \/ file' = [file EXCEPT ![c] = Lowest] /\ sock' = sock
            BY DEF Accept, OpenFile
        <3>3. QED
            BY <3>1, <3>2 DEF TypeOK
    <2>2. \A n \in Numbers : fds'[n] \in {Conn(d), File(d)} => fds'[n] = fds[n]
        BY <1>1, <1>2, Opening
    <2>3. QED
        BY <1>3, <2>1, <2>2, TracedKept DEF Owned
<1>6. QED
    BY <1>4, <1>5 DEF Owned

\* Where a thread goes that leaves the table alone.
LEMMA WorkFrame ==
    ASSUME TypeOK, NEW c \in Clients, Works(c)
    PROVE  /\ up /\ UNCHANGED <<up, fds, gone, sock, file, threads, outVars, stray>>
           /\ pc[c] \in {"recv", "check", "read", "send", "sendFailure"}
           /\ pc[c] = "read" => pc'[c] \in {"send", "spin"}
           /\ pc[c] = "send" => pc'[c] = "closeFile"
           /\ pc'[c] \in {"check", "spin", "sendFailure", "send", "closeFile", "closeFirst"}
           /\ \A d \in Clients \ {c} :
                pc'[d] = pc[d] /\ want'[d] = want[d] /\ data'[d] = data[d]
<1>1. /\ up /\ UNCHANGED <<up, fds, gone, sock, file, threads, outVars, stray>>
      /\ pc[c] \in {"recv", "check", "read", "send", "sendFailure"}
    BY DEF Works, Recv, RecvError, RecvSpins, Refuse, ReadFile, ReadFails, ReadBlocks, Send,
       SendFailure,
       Reached
<1>2. \E p \in {"check", "spin", "sendFailure", "send", "closeFile", "closeFirst"} :
        /\ pc' = [pc EXCEPT ![c] = p]
        /\ pc[c] = "read" => p \in {"send", "spin"}
        /\ pc[c] = "send" => p = "closeFile"
    BY DEF Works, Recv, RecvError, RecvSpins, Refuse, ReadFile, ReadFails, ReadBlocks, Send,
       SendFailure,
       Reached, Goto
<1>3. want' = want \/ \E d \in Clients : want' = [want EXCEPT ![c] = d]
    BY DEF Works, Recv, RecvError, RecvSpins, Refuse, ReadFile, ReadFails, ReadBlocks, Send,
       SendFailure,
       TypeOK
<1>4. data' = data \/ \E b : data' = [data EXCEPT ![c] = b]
    BY DEF Works, Recv, RecvError, RecvSpins, Refuse, ReadFile, ReadFails, ReadBlocks, Send,
       SendFailure
<1>5. QED
    BY <1>1, <1>2, <1>3, <1>4 DEF TypeOK

\* Work on a request closes nothing.
LEMMA WorkOwned ==
    ASSUME TypeOK, TypeOK', Owned, NEW c \in Clients, Works(c)
    PROVE  Owned'
<1>1. UNCHANGED <<fds, sock, file, threads>>
    BY WorkFrame
<1>2. Traced(c)'
    BY <1>1, WorkFrame DEF Owned, Traced
<1>3. ASSUME NEW d \in Clients \ {c} PROVE Traced(d)'
    <2>1. threads' <= threads
        BY <1>1, ServerAssumption DEF TypeOK
    <2>2. QED
        BY <1>1, <2>1, WorkFrame, TracedKept DEF Owned
<1>4. QED
    BY <1>2, <1>3 DEF Owned

\* A close takes away one object, and the number of the thread that had it.
LEMMA CloseOwned ==
    ASSUME TypeOK, TypeOK', Owned, NEW c \in Clients, Closes(c)
    PROVE  Owned'
<1>1. PICK n, own :
        /\ Close(n, own)
        /\ \/ n = file[c] /\ pc[c] = "closeFile" /\ pc'[c] = "closeSock" /\ UNCHANGED sock
           \/ /\ n = sock[c] /\ pc[c] \in {"closeFirst", "closeSock"}
              /\ pc'[c] = "done" \/ (pc'[c] = "closeSock" /\ UNCHANGED sock)
    BY CloseFrame
<1>2. \A k \in Numbers : fds'[k] = IF k = n THEN Closed ELSE fds[k]
    BY <1>1, Closing
<1>3. threads' <= threads
    BY CloseFrame, ServerAssumption DEF TypeOK
<1>4. Traced(c)'
    BY <1>1, <1>2, ObjectFacts DEF Owned, Traced
<1>5. ASSUME NEW d \in Clients \ {c} PROVE Traced(d)'
    BY <1>2, <1>3, CloseFrame, ObjectFacts, TracedKept DEF Owned
<1>6. QED
    BY <1>4, <1>5 DEF Owned

\* The output file is no client's.
LEMMA OutOwned ==
    ASSUME TypeOK, TypeOK', Owned, OutOpen \/ OutWrite \/ OutClose
    PROVE  Owned'
<1>1. UNCHANGED <<pc, sock, file, threads>>
    BY DEF OutOpen, OutWrite, OutClose, threadVars
<1>2. \A n \in Numbers : fds'[n] \in {fds[n], Closed, Output}
    <2>1. CASE OutOpen
        BY <2>1, Opening, ObjectFacts DEF OutOpen
    <2>2. CASE OutWrite
        BY <2>2 DEF OutWrite
    <2>3. CASE OutClose
        BY <2>3, Closing DEF OutClose
    <2>4. QED
        BY <2>1, <2>2, <2>3
<1>3. threads' <= threads
    BY <1>1, ServerAssumption DEF TypeOK
<1>4. QED
    BY <1>1, <1>2, <1>3, ObjectFacts, TracedKept DEF Owned

\* Every step keeps each open object known to a thread.
LEMMA StepOwned == TypeOK /\ TypeOK' /\ Owned /\ [Next]_vars => Owned'
<1> SUFFICES ASSUME TypeOK, TypeOK', Owned, [Next]_vars PROVE Owned'
    OBVIOUS
<1>1. CASE Exit
    BY <1>1, ObjectFacts DEF Exit, Owned, Traced
<1>2. CASE UNCHANGED vars \/ \E c \in Clients : Leave(c)
    BY <1>2 DEF Leave, Owned, Traced, vars, threadVars
<1>3. QED
    BY <1>1, <1>2, Steps, OpenOwned, WorkOwned, CloseOwned, OutOwned

\* Nothing is open at the start.
LEMMA InitOwned == Init => Owned
<1> SUFFICES ASSUME Init PROVE Owned
    OBVIOUS
<1>1. \A n \in Numbers : fds[n] \in {Listener, Closed}
    BY DEF Init
<1>2. \A c \in Clients : {Conn(c), File(c)} \cap {Closed, Listener} = {}
    BY ObjectFacts
<1>3. QED
    BY <1>1, <1>2 DEF Owned, Traced

\* Nothing is left open that nobody will close, mixed up or not: an open
\* connection or file has a thread that knows its number.
THEOREM DescriptorsDoNotLeak == Spec => []NothingLeaks
<1>1. TypeOK /\ Owned => NothingLeaks
    BY DEF Owned, Traced, NothingLeaks
<1>2. QED
    BY <1>1, InitTyped, StepTyped, InitOwned, StepOwned, PTL DEF Spec

-----------------------------------------------------------------------------
(* RefusedEnd and Honest are inductive. *)

\* Only a refused thread closes its connection a second time.
LEMMA StepRefusedEnd == TypeOK /\ RefusedEnd /\ [Next]_vars => RefusedEnd'
<1> SUFFICES ASSUME TypeOK, RefusedEnd, [Next]_vars PROVE RefusedEnd'
    OBVIOUS
<1>1. ASSUME NEW c \in Clients, Refuse(c) PROVE RefusedEnd'
    <2>1. /\ refusals' = refusals \cup {c} /\ pc' = [pc EXCEPT ![c] = "sendFailure"]
          /\ pc[c] = "check" /\ UNCHANGED misread
        BY <1>1 DEF Refuse, Goto, Reached
    <2>2. QED
        BY <2>1 DEF RefusedEnd, TypeOK
<1>2. ASSUME NEW c \in Clients, Accept(c) \/ OpenFile(c) PROVE RefusedEnd'
    <2>1. /\ UNCHANGED <<refusals, misread>> /\ pc[c] \in {"queued", "check"}
          /\ \E p \in {"recv", "unserved", "read"} : pc' = [pc EXCEPT ![c] = p]
        BY <1>2 DEF Accept, OpenFile, Goto, Reached
    <2>2. QED
        BY <2>1 DEF RefusedEnd, TypeOK
<1>3. ASSUME NEW c \in Clients, Works(c), ~Refuse(c) PROVE RefusedEnd'
    <2>1. /\ UNCHANGED refusals
          /\ \/ pc[c] \in {"recv", "read", "send"} /\ pc'[c] \in {"check", "send", "spin", "closeFile"}
             \/ pc[c] = "sendFailure" /\ pc'[c] = "closeFirst"
          /\ \/ UNCHANGED misread /\ pc[c] # "send"
             \/ UNCHANGED misread /\ pc'[c] = "closeFile"
             \/ misread' = misread \cup {c} /\ pc'[c] = "send"
        BY <1>3 DEF Works, Recv, RecvError, RecvSpins, ReadFile, ReadFails, ReadBlocks, Send,
           SendFailure,
           Goto, Reached, TypeOK
    <2>2. QED
        BY <1>3, <2>1, WorkFrame DEF RefusedEnd
<1>4. ASSUME NEW c \in Clients, Closes(c) PROVE RefusedEnd'
    BY <1>4, CloseFrame DEF RefusedEnd
<1>5. CASE Exit
    BY <1>5 DEF Exit, RefusedEnd
<1>6. CASE UNCHANGED vars \/ OutOpen \/ OutWrite \/ OutClose \/ \E c \in Clients : Leave(c)
    BY <1>6 DEF OutOpen, OutWrite, OutClose, Leave, RefusedEnd, vars, threadVars
<1>7. QED
    BY <1>1, <1>2, <1>3, <1>4, <1>5, <1>6, Steps

\* A thread keeps what it has, and its client its answer, when another moves.
LEMMA OwnKept ==
    ASSUME TypeOK, NEW c \in Clients, Own(c), Answered(c),
           pc'[c] = pc[c], sock'[c] = sock[c], file'[c] = file[c], want'[c] = want[c],
           data'[c] = data[c], got'[c] = got[c], c \in refusals' <=> c \in refusals,
           c \in misread' <=> c \in misread,
           gone \subseteq gone', up' => up,
           \A n \in Numbers : fds[n] \in {Conn(c), File(c)} => fds'[n] = fds[n]
    PROVE  Own(c)' /\ Answered(c)'
<1>1. Holds(c)' = Holds(c) /\ Waiting(c)' = Waiting(c)
    BY DEF Holds, Waiting
<1>2. ASSUME NEW n, At(n) \in {Conn(c), File(c)} PROVE At(n)' = At(n)
    BY <1>2, ObjectFacts DEF At
<1>3. Own(c)'
    <2>1. Holds(c)' => At(sock[c])' = Conn(c)
        BY <1>1, <1>2 DEF Own, At
    <2>2. pc'[c] \in {"read", "send", "closeFile"} => At(file[c])' = File(c)
        BY <1>2 DEF Own, At
    <2>3. QED
        BY <2>1, <2>2 DEF Own
<1>4. Answered(c)'
    BY <1>1 DEF Answered, Answer
<1>5. QED
    BY <1>3, <1>4

\* A new descriptor was closed, and so was nobody's.
LEMMA OpenHonest ==
    ASSUME TypeOK, Honest, NEW c \in Clients, Accept(c) \/ OpenFile(c)
    PROVE  Honest'
<1>1. PICK x \in Objects : FreeNumbers # {} /\ fds' = [fds EXCEPT ![Lowest] = x]
    BY ObjectFacts DEF Accept, OpenFile
<1>2. /\ Lowest \in Numbers /\ fds'[Lowest] = x
      /\ \A k \in Numbers : fds[k] # Closed => fds'[k] = fds[k]
    BY <1>1, Opening
<1>3. UNCHANGED <<up, gone, got, want, data, outVars, refusals, misread, stray>>
    BY DEF Accept, OpenFile
<1>4. SUFFICES ASSUME ~stray PROVE OutOwn' /\ \A d \in Clients : Own(d)' /\ Answered(d)'
    BY <1>3 DEF Honest
<1>5. OutOwn'
    BY <1>2, <1>3, <1>4, ObjectFacts DEF Honest, OutOwn, outVars
<1>6. Own(c)' /\ Answered(c)'
    <2>1. CASE Accept(c)
        <3>1. /\ pc[c] = "queued" /\ pc'[c] \in {"recv", "unserved"} /\ sock'[c] = Lowest
              /\ fds'[Lowest] = Conn(c)
            <4>1. /\ pc[c] = "queued" /\ sock' = [sock EXCEPT ![c] = Lowest]
                  /\ fds' = [fds EXCEPT ![Lowest] = Conn(c)]
                  /\ pc' = [pc EXCEPT ![c] = "recv"] \/ pc' = [pc EXCEPT ![c] = "unserved"]
                BY <2>1 DEF Accept, Reached
            <4>2. QED
                BY <1>2, <4>1 DEF TypeOK
        <3>2. At(sock[c])' = Conn(c)
            BY <1>2, <3>1 DEF At
        <3>3. QED
            BY <1>3, <1>4, <3>1, <3>2 DEF Honest, Own, Answered, Answer, Waiting
    <2>2. CASE OpenFile(c)
        <3>1. /\ pc[c] = "check" /\ pc'[c] = "read" /\ UNCHANGED sock
              /\ file'[c] = Lowest /\ fds'[Lowest] = File(c)
            BY <1>2, <2>2 DEF OpenFile, Reached, Goto, TypeOK
        <3>2. At(file[c])' = File(c)
            BY <1>2, <3>1 DEF At
        <3>3. At(sock[c])' = Conn(c)
            BY <1>2, <1>4, <3>1, ObjectFacts DEF Honest, Own, Holds, At
        <3>4. QED
            BY <1>3, <1>4, <3>1, <3>2, <3>3 DEF Honest, Own, Answered, Answer, Waiting
    <2>3. QED
        BY <2>1, <2>2
<1>7. ASSUME NEW d \in Clients \ {c} PROVE Own(d)' /\ Answered(d)'
    <2>1. pc'[d] = pc[d] /\ sock'[d] = sock[d] /\ file'[d] = file[d]
        <3>1. \E p \in Labels : pc' = [pc EXCEPT ![c] = p]
            BY DEF Accept, OpenFile, Goto, Labels
        <3>2. \/ sock' = [sock EXCEPT ![c] = Lowest] /\ file' = file
              \/ file' = [file EXCEPT ![c] = Lowest] /\ sock' = sock
            BY DEF Accept, OpenFile
        <3>3. QED
            BY <3>1, <3>2 DEF TypeOK
    <2>2. \A n \in Numbers : fds[n] \in {Conn(d), File(d)} => fds'[n] = fds[n]
        BY <1>2, ObjectFacts
    <2>3. QED
        BY <1>3, <1>4, <2>1, <2>2, OwnKept DEF Honest
<1>8. QED
    BY <1>5, <1>6, <1>7

\* A thread that uses its own numbers reads its client's request and its file,
\* and answers its client.
LEMMA WorkHonest ==
    ASSUME TypeOK, RefusedEnd, Honest, NEW c \in Clients, Works(c)
    PROVE  Honest'
<1>1. UNCHANGED <<up, fds, gone, sock, file, threads, outVars, stray>>
    BY WorkFrame
<1>2. /\ refusals \subseteq refusals'
      /\ \A d \in Clients \ {c} :
            (d \in refusals' <=> d \in refusals) /\ (d \in misread' <=> d \in misread)
    BY DEF Works, Recv, RecvError, RecvSpins, Refuse, ReadFile, ReadFails, ReadBlocks, Send,
       SendFailure
<1>3. SUFFICES ASSUME ~stray PROVE OutOwn' /\ \A d \in Clients : Own(d)' /\ Answered(d)'
    BY <1>1, <1>2 DEF Honest
<1>4. OutOwn' /\ \A n : At(n)' = At(n)
    BY <1>1, <1>3 DEF Honest, OutOwn, outVars, At
<1>5. Own(c) /\ Answered(c)
    BY <1>3 DEF Honest
<1>6. At(sock[c]) = Conn(c) /\ (pc[c] \in {"read", "send"} => At(file[c]) = File(c))
    BY <1>5, WorkFrame DEF Own, Holds
<1>7. got[c] = <<>> /\ want[c] = c
    BY <1>5, WorkFrame DEF Answered, Answer, Waiting, Own
<1>8. At(sock[c])' = Conn(c) /\ (pc[c] \in {"read", "send"} => At(file[c])' = File(c))
    BY <1>1, <1>4, <1>6
<1>9. /\ Own(c)' /\ Answered(c)'
      /\ \A d \in Clients \ {c} : got'[d] = got[d]
    <2>1. CASE Recv(c)
        <3>1. PICK d \in Clients : At(sock[c]) = Conn(d) /\ want' = [want EXCEPT ![c] = d]
            BY <2>1 DEF Recv, TypeOK
        <3>2. d = c
            BY <1>6, <3>1, ConnIsOfOne
        <3>3. pc'[c] = "check" /\ UNCHANGED got /\ want'[c] = c /\ UNCHANGED refusals
            BY <2>1, <3>1, <3>2 DEF Recv, Goto, TypeOK
        <3>4. QED
            BY <1>7, <1>8, <3>3 DEF Own, Answered, Answer, Waiting
    <2>2. CASE RecvError(c)
        BY <1>6, <2>2, ObjectFacts DEF RecvError
    <2>3. CASE RecvSpins(c)
        <3>1. PICK d \in gone : At(sock[c]) = Conn(d) /\ d \in Clients
            BY <2>3, ServerAssumption DEF RecvSpins, TypeOK
        <3>2. c \in gone
            BY <1>6, <3>1, ConnIsOfOne
        <3>3. pc'[c] = "spin" /\ UNCHANGED <<got, want, refusals>>
            BY <2>3 DEF RecvSpins, Goto, TypeOK
        <3>4. QED
            BY <1>1, <1>7, <1>8, <3>2, <3>3 DEF Own, Answered, Answer, Waiting
    <2>4. CASE Refuse(c)
        <3>1. pc'[c] = "sendFailure" /\ UNCHANGED got /\ want'[c] = c
            BY <2>4 DEF Refuse, Goto, TypeOK
        <3>2. QED
            BY <1>7, <1>8, <3>1 DEF Own, Answered, Answer, Waiting
    <2>5. CASE ReadFile(c)
        <3>1. /\ pc[c] = "read" /\ pc'[c] = "send" /\ UNCHANGED <<got, refusals, misread>>
              /\ want'[c] = c /\ c \notin misread
            BY <2>5 DEF ReadFile, Reached, Goto, TypeOK, RefusedEnd
        <3>2. ~Shared(c)
            <4>1. SUFFICES ASSUME NEW d \in Clients \ {c}, pc[d] = "read", file[d] = file[c]
                           PROVE  FALSE
                BY DEF Shared
            <4>2. At(file[d]) = File(d)
                BY <1>3, <4>1 DEF Honest, Own
            <4>3. QED
                BY <1>6, <3>1, <4>1, <4>2, ObjectFacts
        <3>3. data'[c] = c
            BY <1>6, <1>7, <2>5, <3>1, <3>2 DEF ReadFile, TypeOK
        <3>4. QED
            BY <1>7, <1>8, <3>1, <3>3 DEF Own, Answered, Answer, Waiting
    <2>9. CASE ReadFails(c)
        <3>1. /\ pc[c] = "read" /\ pc'[c] = "send" /\ UNCHANGED <<got, refusals>>
              /\ want'[c] = c /\ data'[c] = Other /\ c \in misread'
            BY <2>9 DEF ReadFails, Reached, Goto, TypeOK
        <3>2. QED
            BY <1>7, <1>8, <3>1 DEF Own, Answered, Answer, Waiting
    <2>6. CASE ReadBlocks(c)
        BY <1>6, <2>6, ObjectFacts DEF ReadBlocks, Reached
    <2>7. CASE Send(c)
        <3> DEFINE b == IF c \in misread THEN Other ELSE c
        <3>1. /\ pc[c] = "send" /\ pc'[c] = "closeFile" /\ UNCHANGED <<want, refusals, misread>>
              /\ Deliver(sock[c], b)
            BY <1>5, <2>7 DEF Send, Reached, Goto, TypeOK, Own
        <3>2. /\ \A d \in Clients \ {c} : got'[d] = got[d]
              /\ got'[c] = IF c \in gone THEN got[c] ELSE Append(got[c], b)
            BY <1>6, <3>1, Delivering
        <3>3. c \notin refusals /\ (got'[c] = <<b>> \/ (c \in gone /\ got'[c] = <<>>))
            BY <1>7, <3>1, <3>2, FirstAnswer DEF RefusedEnd
        <3>4. QED
            BY <1>1, <1>7, <1>8, <3>1, <3>2, <3>3 DEF Own, Answered, Answer, Waiting
    <2>8. CASE SendFailure(c)
        <3>1. /\ pc[c] = "sendFailure" /\ pc'[c] = "closeFirst" /\ UNCHANGED <<want, refusals>>
              /\ Deliver(sock[c], Failure) /\ UNCHANGED misread
            BY <2>8 DEF SendFailure, Reached, Goto, TypeOK
        <3>2. /\ \A d \in Clients \ {c} : got'[d] = got[d]
              /\ got'[c] = IF c \in gone THEN got[c] ELSE Append(got[c], Failure)
            BY <1>6, <3>1, Delivering
        <3>3. c \in refusals /\ (got'[c] = <<Failure>> \/ (c \in gone /\ got'[c] = <<>>))
            BY <1>7, <3>1, <3>2, FirstAnswer DEF RefusedEnd
        <3>4. QED
            BY <1>1, <1>7, <1>8, <3>1, <3>2, <3>3 DEF Own, Answered, Answer, Waiting
    <2>10. QED
        BY <2>1, <2>2, <2>3, <2>4, <2>5, <2>6, <2>7, <2>8, <2>9 DEF Works
<1>10. ASSUME NEW d \in Clients \ {c} PROVE Own(d)' /\ Answered(d)'
    BY <1>1, <1>2, <1>3, <1>9, WorkFrame, OwnKept DEF Honest
<1>11. QED
    BY <1>4, <1>9, <1>10

\* A close goes astray only after a refusal, when the number of a connection
\* is closed for the second time.
LEMMA CloseHonest ==
    ASSUME TypeOK, RefusedEnd, Honest, NEW c \in Clients, Closes(c)
    PROVE  Honest'
<1> DEFINE n == IF pc[c] = "closeFile" THEN file[c] ELSE sock[c]
           own == IF pc[c] = "closeFile" THEN File(c) ELSE Conn(c)
<1>1. /\ Close(n, own) /\ own \in {Conn(c), File(c)}
      /\ \/ /\ n = file[c] /\ own = File(c) /\ sock'[c] = sock[c]
            /\ pc[c] = "closeFile" /\ pc'[c] = "closeSock"
         \/ /\ n = sock[c] /\ own = Conn(c)
            /\ \/ pc[c] = "closeFirst" /\ pc'[c] = "closeSock"
               \/ pc[c] = "closeSock" /\ pc'[c] = "done"
    <2>1. CASE pc[c] = "closeFile"
        BY <2>1, CloseFrame
    <2>2. CASE pc[c] # "closeFile"
        BY <2>2, CloseFrame
    <2>3. QED
        BY <2>1, <2>2
<1> HIDE DEF n, own
<1>2. UNCHANGED <<up, asked, gone, got, want, data, threads, outVars,
                           refusals, misread>>
    BY CloseFrame
<1>3. ~stray /\ stray' => refusals # {}
    <2>1. SUFFICES ASSUME ~stray, c \notin refusals PROVE At(n) = own
        BY <1>1, Closing
    <2>2. QED
        BY <1>1, <2>1 DEF Honest, Own, Holds, RefusedEnd
<1>4. stray' => refusals' # {}
    BY <1>2, <1>3 DEF Honest
<1>5. SUFFICES ASSUME ~stray' PROVE OutOwn' /\ \A d \in Clients : Own(d)' /\ Answered(d)'
    BY <1>4 DEF Honest
<1>6. ~stray /\ \A k \in Numbers : fds[k] \notin {own, Closed} => fds'[k] = fds[k]
    BY <1>1, <1>5, Closing
<1>7. OutOwn'
    BY <1>1, <1>2, <1>6, ObjectFacts DEF Honest, OutOwn, outVars
<1>8. Own(c)' /\ Answered(c)'
    <2>1. Own(c) /\ Answered(c)
        BY <1>6 DEF Honest
    <2>2. Answered(c)'
        BY <1>1, <1>2, <2>1 DEF Answered, Answer, Waiting
    <2>3. Holds(c)' => At(sock[c])' = Conn(c)
        <3>1. CASE pc[c] = "closeFile"
            <4>1. At(sock[c]) = Conn(c) /\ sock'[c] = sock[c] /\ own = File(c)
                BY <1>1, <2>1, <3>1 DEF Own, Holds
            <4>2. QED
                BY <1>6, <4>1, ObjectFacts DEF At
        <3>2. CASE pc[c] # "closeFile"
            BY <1>1, <1>2, <3>2 DEF Holds, RefusedEnd
        <3>3. QED
            BY <3>1, <3>2
    <2>4. QED
        BY <1>1, <1>2, <2>1, <2>2, <2>3 DEF Own
<1>9. ASSUME NEW d \in Clients \ {c} PROVE Own(d)' /\ Answered(d)'
    <2>1. {Conn(d), File(d)} \cap {own, Closed} = {}
        BY ObjectFacts
    <2>2. QED
        BY <1>2, <1>6, <2>1, CloseFrame, OwnKept DEF Honest
<1>10. QED
    BY <1>7, <1>8, <1>9

\* The RPC thread's file is its own too.
LEMMA OutHonest ==
    ASSUME TypeOK, Honest, OutOpen \/ OutWrite \/ OutClose
    PROVE  Honest'
<1>1. UNCHANGED <<up, asked, gone, threadVars, threads, refusals, misread>>
    BY DEF OutOpen, OutWrite, OutClose
<1>2. /\ stray' => stray
      /\ ~stray =>
            /\ OutOwn' /\ UNCHANGED got
            /\ \A k \in Numbers : fds[k] \notin {Output, Closed} => fds'[k] = fds[k]
    <2>1. CASE OutOpen
        <3>1. CASE FreeNumbers = {}
            BY <2>1, <3>1 DEF OutOpen, Honest, OutOwn
        <3>2. CASE FreeNumbers # {}
            BY <2>1, <3>2, Opening, ObjectFacts DEF OutOpen, OutOwn
        <3>3. QED
            BY <3>1, <3>2
    <2>2. CASE OutWrite
        <3>1. UNCHANGED <<fds, outFd, stray>> /\ Deliver(outFd, Other)
            BY <2>2 DEF OutWrite
        <3>2. ~stray => At(outFd).kind # "conn"
            BY ObjectFacts DEF Honest, OutOwn, At
        <3>3. QED
            BY <3>1, <3>2, Delivering DEF Honest, OutOwn
    <2>3. CASE OutClose
        <3>1. Close(outFd, Output) /\ UNCHANGED got /\ outFd' = NoFd
            BY <2>3 DEF OutClose
        <3>2. ~stray => At(outFd) \in {Output, Closed}
            BY DEF Honest, OutOwn, At
        <3>3. stray' => stray
            BY <3>1, <3>2, Closing
        <3>4. QED
            BY <3>1, <3>3, Closing, NumberFacts DEF OutOwn
    <2>4. QED
        BY <2>1, <2>2, <2>3
<1>3. SUFFICES ASSUME ~stray' PROVE OutOwn' /\ \A d \in Clients : Own(d)' /\ Answered(d)'
    BY <1>1, <1>2 DEF Honest
<1>4. ~stray
    <2>1. CASE OutClose
        BY <1>3, <2>1, Closing DEF OutClose
    <2>2. CASE OutOpen \/ OutWrite
        BY <1>3, <2>2 DEF OutOpen, OutWrite
    <2>3. QED
        BY <2>1, <2>2
<1>5. ASSUME NEW d \in Clients PROVE Own(d)' /\ Answered(d)'
    <2>1. {Conn(d), File(d)} \cap {Output, Closed} = {}
        BY ObjectFacts
    <2>2. QED
        BY <1>1, <1>2, <1>4, <2>1, OwnKept DEF Honest, threadVars
<1>6. QED
    BY <1>2, <1>4, <1>5

\* A step mixes no descriptors up, or a refusal has come before.
LEMMA StepHonest == TypeOK /\ RefusedEnd /\ Honest /\ [Next]_vars => Honest'
<1> SUFFICES ASSUME TypeOK, RefusedEnd, Honest, [Next]_vars PROVE Honest'
    OBVIOUS
<1>1. CASE Exit
    BY <1>1, NumberFacts
       DEF Exit, Honest, OutOwn, Own, Answered, Answer, Holds, Waiting, OwnRequests, NoData
<1>2. CASE UNCHANGED vars \/ \E c \in Clients : Leave(c)
    <2>1. /\ UNCHANGED <<up, fds, got, threadVars, threads, outVars, refusals, misread, stray>>
          /\ gone \subseteq gone'
        BY <1>2 DEF Leave, vars
    <2>2. \A d \in Clients : ~stray => Own(d)' /\ Answered(d)'
        BY <2>1, OwnKept DEF Honest, threadVars
    <2>3. QED
        BY <2>1, <2>2 DEF Honest, OutOwn, outVars
<1>3. QED
    BY <1>1, <1>2, Steps, OpenHonest, WorkHonest, CloseHonest, OutHonest

\* Nothing is refused or mixed up at the start.
LEMMA InitHonest == Init => RefusedEnd /\ Honest
BY NumberFacts
   DEF Init, RefusedEnd, Honest, OutOwn, Own, Answered, Answer, Holds, Waiting, OwnRequests

\* The three invariants together.
LEMMA HonestInvariant == Spec => [](TypeOK /\ RefusedEnd /\ Honest)
BY InitTyped, StepTyped, StepRefusedEnd, InitHonest, StepHonest, PTL DEF Spec

\* Descriptors are mixed up by the double close of a refused request only.
THEOREM StrayComesFromRefusal == Spec => []StrayNeedsRefusal
<1>1. Honest => StrayNeedsRefusal
    BY DEF Honest, StrayNeedsRefusal
<1>2. QED
    BY <1>1, HonestInvariant, PTL

\* Until descriptors are mixed up, a client gets at most one answer, the one it
\* asked for, and is not left without one.
THEOREM ClientsAreAnsweredOnce == Spec => []AnsweredOnce
<1>1. Honest => AnsweredOnce
    BY DEF Honest, Answered, AnsweredOnce
<1>2. QED
    BY <1>1, HonestInvariant, PTL

=============================================================================
