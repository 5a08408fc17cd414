----------------------------- MODULE DataServer -----------------------------
(***************************************************************************)
(* The data server of a dnode (src/dnode/data_server.cpp): a thread that    *)
(* accepts connections and gives each one to a thread of its own, which     *)
(* reads a request, and answers it with a piece of a file or with a failure *)
(* reply.                                                                   *)
(*                                                                          *)
(* All threads of the process share one table of descriptors.  A number     *)
(* that is closed is given out again by the next accept or open, so that a  *)
(* thread that uses a number after closing it works on somebody else's      *)
(* connection or file.  The RPC server's thread, with the output file of a  *)
(* download (src/dnode/rpc_server.cpp), stands for the rest of the process. *)
(*                                                                          *)
(* A client stands for one connection with its one request.  The bytes it   *)
(* asks for are named by the client.                                        *)
(***************************************************************************)
EXTENDS Naturals, Sequences, FiniteSets

CONSTANTS
    Clients,      \* connections made to the server
    Refused,      \* those whose request the server cannot serve: out of the
                  \* range of the file, or of a file it does not have
    Leavers,      \* those that may close their end, or die, at any time
    Nobody,       \* no client
    MaxFd,        \* the largest descriptor number the process may have
    MaxThreads,   \* bound: threads left of those the process can create
    MaxMisreads   \* bound: reads of a file that fail

ASSUME ServerAssumption ==
    /\ Refused \subseteq Clients /\ Leavers \subseteq Clients
    /\ Nobody \notin Clients
    /\ MaxFd \in Nat \ {0}
    /\ MaxThreads \in Nat /\ MaxMisreads \in Nat

VARIABLES
    up,       \* the process runs
    fds,      \* what each descriptor number refers to
    asked,    \* clients whose request is sent and not yet received
    gone,     \* clients that closed their end or died
    got,      \* what each client was sent
    pc,       \* where each connection is, and then its thread
    sock,     \* the descriptor of the connection, as the thread knows it
    file,     \* the descriptor of the file, as the thread knows it
    want,     \* the client whose request the thread has in hand
    data,     \* what is in the thread's buffer
    threads,  \* threads that can still be created: none is joined or detached
    out,      \* where the RPC thread is with its output file
    outFd,    \* its descriptor, as the RPC thread knows it
    refusals, \* history: connections that took the failure path
    misread,  \* history: those whose piece of the file could not be read
    stray     \* history: a close hit a descriptor of somebody else

threadVars == <<pc, sock, file, want, data>>
outVars == <<out, outFd>>
vars == <<up, fds, asked, gone, got, threadVars, threads, outVars, refusals, misread, stray>>

-----------------------------------------------------------------------------
(* Descriptors *)

Numbers == 1 .. MaxFd
ListenFd == 1
NoFd == 0     \* what a failed open returns

\* What a descriptor number may refer to.
Closed == [kind |-> "closed", of |-> Nobody]
Listener == [kind |-> "listener", of |-> Nobody]
Output == [kind |-> "output", of |-> Nobody]
Conn(c) == [kind |-> "conn", of |-> c]
File(c) == [kind |-> "file", of |-> c]
Objects == {Closed, Listener, Output} \cup {Conn(c) : c \in Clients} \cup {File(c) : c \in Clients}

FreeNumbers == {n \in Numbers : fds[n] = Closed}

\* accept and open give out the lowest number that is free.
Lowest == CHOOSE n \in FreeNumbers : \A k \in FreeNumbers : n <= k

\* What the number a thread has in hand refers to now.
At(n) == IF n \in Numbers THEN fds[n] ELSE Closed

\* close(n) by somebody for whom n is what it opened as "own".
Close(n, own) ==
    /\ fds' = IF n \in Numbers THEN [fds EXCEPT ![n] = Closed] ELSE fds
    /\ stray' = (stray \/ At(n) \notin {own, Closed})

Other == "other bytes"
Failure == "failure reply"

-----------------------------------------------------------------------------
NoNumbers == [c \in Clients |-> NoFd]
OwnRequests == [c \in Clients |-> c]
NoData == [c \in Clients |-> Other]

Init ==
    /\ up = TRUE
    /\ fds = [n \in Numbers |-> IF n = ListenFd THEN Listener ELSE Closed]
    /\ asked = Clients
    /\ gone = {}
    /\ got = [c \in Clients |-> <<>>]
    /\ pc = [c \in Clients |-> "queued"]
    /\ sock = NoNumbers /\ file = NoNumbers
    /\ want = OwnRequests /\ data = NoData
    /\ threads \in 0 .. MaxThreads
    /\ out = "idle" /\ outFd = NoFd
    /\ refusals = {} /\ misread = {}
    /\ stray = FALSE

\* The end of the process: no thread is left, and the kernel closes everything.
Exit ==
    /\ up' = FALSE
    /\ fds' = [n \in Numbers |-> Closed]
    /\ pc' = [c \in Clients |-> "done"]
    /\ sock' = NoNumbers /\ file' = NoNumbers
    /\ want' = OwnRequests /\ data' = NoData
    /\ out' = "done" /\ outFd' = NoFd
    /\ UNCHANGED <<asked, gone, got, threads, refusals, misread, stray>>

Reached(c, label) == up /\ pc[c] = label

Goto(c, label) == pc' = [pc EXCEPT ![c] = label]

-----------------------------------------------------------------------------
(* The accepting thread *)

\* Mutant: the limit of threads is seen one too late.
AcceptOneMore(c) ==
    /\ Reached(c, "queued")
    /\ FreeNumbers # {}
    /\ sock' = [sock EXCEPT ![c] = Lowest]
    /\ fds' = [fds EXCEPT ![Lowest] = Conn(c)]
    /\ threads' = threads - 1
    /\ Goto(c, "recv")
    /\ UNCHANGED <<up, asked, gone, got, file, want, data, outVars, refusals, misread,
                   stray>>

\* A connection, and a thread for it.  When no thread can be created the
\* connection is left open and nobody serves it.
Accept(c) ==
    /\ Reached(c, "queued")
    /\ FreeNumbers # {}
    /\ sock' = [sock EXCEPT ![c] = Lowest]
    /\ fds' = [fds EXCEPT ![Lowest] = Conn(c)]
    /\ \/ /\ threads > 0
          /\ threads' = threads - 1
          /\ pc' = [pc EXCEPT ![c] = "recv"]
       \/ /\ threads = 0
          /\ pc' = [pc EXCEPT ![c] = "unserved"]
          /\ UNCHANGED threads
    /\ UNCHANGED <<up, asked, gone, got, file, want, data, outVars, refusals, misread,
                   stray>>

\* accept fails for want of a descriptor: the whole dnode exits.
AcceptFails ==
    /\ \E c \in Clients : Reached(c, "queued")
    /\ FreeNumbers = {}
    /\ Exit

-----------------------------------------------------------------------------
(* A thread that serves a connection.  What it does not use again is reset. *)

\* The request arrives, on whatever connection the number refers to.
Recv(c) ==
    /\ Reached(c, "recv")
    /\ \E d \in asked :
        /\ At(sock[c]) = Conn(d)
        /\ asked' = asked \ {d}
        /\ want' = [want EXCEPT ![c] = d]
    /\ Goto(c, "check")
    /\ UNCHANGED <<up, fds, gone, got, sock, file, data, threads, outVars, refusals,
                   misread, stray>>

\* The number is closed, or not a connection: the error is not looked at, and
\* the request is what the stack held, perhaps one of an earlier thread.
RecvError(c) ==
    /\ Reached(c, "recv")
    /\ At(sock[c]).kind # "conn"
    /\ \E d \in Clients : want' = [want EXCEPT ![c] = d]
    /\ Goto(c, "check")
    /\ UNCHANGED <<up, fds, asked, gone, got, sock, file, data, threads, outVars,
                   refusals, misread, stray>>

\* The client is gone and sent no whole request: recv_full does not stop.
RecvSpins(c) ==
    /\ Reached(c, "recv")
    /\ \E d \in gone \ asked : At(sock[c]) = Conn(d)
    /\ Goto(c, "spin")
    /\ UNCHANGED <<up, fds, asked, gone, got, sock, file, want, data, threads, outVars,
                   refusals, misread, stray>>

\* The range is checked and the file opened for reading.
OpenFile(c) ==
    /\ Reached(c, "check")
    /\ want[c] \notin Refused
    /\ FreeNumbers # {}
    /\ file' = [file EXCEPT ![c] = Lowest]
    /\ fds' = [fds EXCEPT ![Lowest] = File(c)]
    /\ Goto(c, "read")
    /\ UNCHANGED <<up, asked, gone, got, sock, want, data, threads, outVars, refusals,
                   misread, stray>>

\* Mutant: a request is refused without a reply.
RefuseSilently(c) ==
    /\ Reached(c, "check")
    /\ want[c] \in Refused \/ FreeNumbers = {}
    /\ refusals' = refusals \cup {c}
    /\ want' = [want EXCEPT ![c] = c]
    /\ Goto(c, "closeFirst")
    /\ UNCHANGED <<up, fds, asked, gone, got, sock, file, data, threads, outVars,
                   misread, stray>>

\* Out of range, no such file, or no descriptor for it.
Refuse(c) ==
    /\ Reached(c, "check")
    /\ want[c] \in Refused \/ FreeNumbers = {}
    /\ refusals' = refusals \cup {c}
    /\ Goto(c, "sendFailure")
    /\ want' = [want EXCEPT ![c] = c]
    /\ UNCHANGED <<up, fds, asked, gone, got, sock, file, data, threads, outVars,
                   misread, stray>>

\* Another thread works with the same file descriptor: the two move each
\* other's offset between lseek and read.
Shared(c) ==
    \E d \in Clients \ {c} : pc[d] = "read" /\ file[d] = file[c]

\* lseek, read: what was asked for, if the number still is the thread's own.
ReadFile(c) ==
    /\ Reached(c, "read")
    /\ \E bytes \in {want[c], Other} :
        /\ At(file[c]) = File(c) /\ ~Shared(c) => bytes = want[c]
        /\ At(file[c]).kind # "file" => bytes = Other
        /\ data' = [data EXCEPT ![c] = bytes]
    /\ want' = [want EXCEPT ![c] = c]
    /\ At(file[c]).kind # "conn"
    /\ Goto(c, "send")
    /\ UNCHANGED <<up, fds, asked, gone, got, sock, file, threads, outVars, refusals,
                   misread, stray>>

\* The read of the file fails; nobody looks at that, and what the buffer held
\* is sent in its place.
ReadFails(c) ==
    /\ Reached(c, "read")
    /\ At(file[c]).kind = "file"
    /\ data' = [data EXCEPT ![c] = Other]
    /\ want' = [want EXCEPT ![c] = c]
    /\ Cardinality(misread) < MaxMisreads
    /\ misread' = misread \cup {c}
    /\ Goto(c, "send")
    /\ UNCHANGED <<up, fds, asked, gone, got, sock, file, threads, outVars, refusals,
                   stray>>

\* The number has become a connection: its request is swallowed, and
\* fread_full waits for the rest of a chunk.
ReadBlocks(c) ==
    /\ Reached(c, "read")
    /\ At(file[c]).kind = "conn"
    /\ asked' = asked \ {At(file[c]).of}
    /\ Goto(c, "spin")
    /\ want' = [want EXCEPT ![c] = c]
    /\ UNCHANGED <<up, fds, gone, got, sock, file, data, threads, outVars, refusals,
                   misread, stray>>

\* What a send through number n brings about: errors are not looked at.
Deliver(n, bytes) ==
    got' = IF At(n).kind = "conn" /\ At(n).of \notin gone
           THEN [got EXCEPT ![At(n).of] = Append(@, bytes)]
           ELSE got

Send(c) ==
    /\ Reached(c, "send")
    /\ Deliver(sock[c], data[c])
    /\ Goto(c, "closeFile")
    /\ data' = [data EXCEPT ![c] = Other]
    /\ UNCHANGED <<up, fds, asked, gone, sock, file, want, threads, outVars, refusals,
                   misread, stray>>

\* A chunk does not fit in one segment: the client that is gone answers the
\* first with a reset, and the next raises SIGPIPE.
SendBreaks(c) ==
    /\ Reached(c, "send")
    /\ At(sock[c]).kind = "conn" /\ At(sock[c]).of \in gone
    /\ Exit

\* Mutant: the file is not closed.
CloseFileForgets(c) ==
    /\ Reached(c, "closeFile")
    /\ file' = [file EXCEPT ![c] = NoFd]
    /\ Goto(c, "closeSock")
    /\ UNCHANGED <<up, fds, asked, gone, got, sock, want, data, threads, outVars,
                   refusals, misread, stray>>

\* Mutant: the connection is closed at the end of handle_data_transfer too.
CloseFileAndSock(c) ==
    /\ Reached(c, "closeFile")
    /\ Close(file[c], File(c))
    /\ file' = [file EXCEPT ![c] = NoFd]
    /\ Goto(c, "closeFirst")
    /\ UNCHANGED <<up, asked, gone, got, sock, want, data, threads, outVars, refusals,
                   misread>>

CloseFile(c) ==
    /\ Reached(c, "closeFile")
    /\ Close(file[c], File(c))
    /\ Goto(c, "closeSock")
    /\ file' = [file EXCEPT ![c] = NoFd]
    /\ UNCHANGED <<up, asked, gone, got, sock, want, data, threads, outVars, refusals,
                   misread>>

\* Mutant: no return after the failure reply.
SendFailureFallsThrough(c) ==
    /\ Reached(c, "sendFailure")
    /\ Deliver(sock[c], Failure)
    /\ Goto(c, "send")
    /\ UNCHANGED <<up, fds, asked, gone, sock, file, want, data, threads, outVars,
                   refusals, misread, stray>>

SendFailure(c) ==
    /\ Reached(c, "sendFailure")
    /\ Deliver(sock[c], Failure)
    /\ Goto(c, "closeFirst")
    /\ UNCHANGED <<up, fds, asked, gone, sock, file, want, data, threads, outVars,
                   refusals, misread, stray>>

\* The failure path closes the connection in handle_data_transfer ...
CloseFirst(c) ==
    /\ Reached(c, "closeFirst")
    /\ Close(sock[c], Conn(c))
    /\ Goto(c, "closeSock")
    /\ UNCHANGED <<up, asked, gone, got, sock, file, want, data, threads, outVars,
                   refusals, misread>>

\* ... and every path in socket_handler_threaded: the number may be
\* somebody else's by then.
CloseSock(c) ==
    /\ Reached(c, "closeSock")
    /\ Close(sock[c], Conn(c))
    /\ Goto(c, "done")
    /\ sock' = [sock EXCEPT ![c] = NoFd]
    /\ UNCHANGED <<up, asked, gone, got, file, want, data, threads, outVars, refusals,
                   misread>>

-----------------------------------------------------------------------------
(* The clients and the RPC thread *)

\* A client closes its end, or dies before or after its request is sent.
Leave(c) ==
    /\ up
    /\ c \in Leavers \ gone
    /\ gone' = gone \cup {c}
    /\ asked' \in {asked, asked \ {c}}
    /\ UNCHANGED <<up, fds, got, threadVars, threads, outVars, refusals, misread, stray>>

OutOpen ==
    /\ up /\ out = "idle"
    /\ out' = "open"
    /\ IF FreeNumbers = {}
       THEN UNCHANGED <<fds, outFd>>
       ELSE outFd' = Lowest /\ fds' = [fds EXCEPT ![Lowest] = Output]
    /\ UNCHANGED <<up, asked, gone, got, threadVars, threads, refusals, misread, stray>>

\* Errors are not looked at here either; a number that has become a
\* connection sends the file to its client.
OutWrite ==
    /\ up /\ out = "open"
    /\ out' = "close"
    /\ Deliver(outFd, Other)
    /\ UNCHANGED <<up, fds, asked, gone, threadVars, threads, outFd, refusals, misread,
                   stray>>

OutClose ==
    /\ up /\ out = "close"
    /\ out' = "done"
    /\ outFd' = NoFd
    /\ Close(outFd, Output)
    /\ UNCHANGED <<up, asked, gone, got, threadVars, threads, refusals, misread>>

-----------------------------------------------------------------------------
Serve(c) ==
    \/ Recv(c) \/ RecvError(c) \/ RecvSpins(c)
    \/ OpenFile(c) \/ Refuse(c)
    \/ ReadFile(c) \/ ReadFails(c) \/ ReadBlocks(c)
    \/ Send(c) \/ SendBreaks(c) \/ CloseFile(c)
    \/ SendFailure(c) \/ CloseFirst(c) \/ CloseSock(c)

Acceptor == AcceptFails \/ \E c \in Clients : Accept(c)

OutStep == OutOpen \/ OutWrite \/ OutClose

Next ==
    \/ Acceptor
    \/ OutStep
    \/ \E c \in Clients : Serve(c) \/ Leave(c)

Spec == Init /\ [][Next]_vars

\* The operating system runs every thread of the server that can go on.  Nobody
\* waits for the rest of the process.
FairSpec ==
    /\ Spec
    /\ WF_vars(Acceptor)
    /\ \A c \in Clients : WF_vars(Serve(c))

-----------------------------------------------------------------------------
(* Properties *)

Labels ==
    {"queued", "unserved", "recv", "check", "read", "send", "closeFile",
     "sendFailure", "closeFirst", "closeSock", "spin", "done"}

TypeOK ==
    /\ up \in BOOLEAN
    /\ fds \in [Numbers -> Objects]
    /\ asked \subseteq Clients /\ gone \subseteq Leavers
    /\ got \in [Clients -> Seq(Clients \cup {Other, Failure})]
    /\ pc \in [Clients -> Labels]
    /\ sock \in [Clients -> Numbers \cup {NoFd}]
    /\ file \in [Clients -> Numbers \cup {NoFd}]
    /\ want \in [Clients -> Clients]
    /\ data \in [Clients -> Clients \cup {Other}]
    /\ threads \in 0 .. MaxThreads
    /\ out \in {"idle", "open", "close", "done"}
    /\ outFd \in Numbers \cup {NoFd}
    /\ refusals \subseteq Clients /\ misread \subseteq Clients
    /\ stray \in BOOLEAN

\* Somebody who can still be answered.
Waiting(c) == pc[c] \in {"queued", "unserved", "recv", "check", "read", "send", "sendFailure"}

\* The one answer a client may have.
Answer(c) ==
    CASE c \in refusals -> Failure
      [] c \in misread \ refusals -> Other
      [] OTHER -> c

\* As long as no close has hit somebody else's descriptor, whatever the
\* threads do at the same time: a client is sent at most one answer, the bytes
\* it asked for or, if the server had to refuse, the failure reply; other bytes
\* only if the read for that very client failed; and it is not left without an
\* answer, unless it left itself.
AnsweredOnce ==
    ~stray =>
        \A c \in Clients :
            /\ got[c] \in {<<>>, <<Answer(c)>>}
            /\ up /\ ~Waiting(c) /\ c \notin gone => got[c] # <<>>

\* Descriptors are mixed up by refused requests only: while every request was
\* served, no close of any thread has hit what another one opened, although
\* numbers are closed and given out again all the time.
StrayNeedsRefusal == stray => refusals # {}

\* Every descriptor that is open has somebody who will close it: it leaks only
\* with a thread that never goes on, or with a connection for which no thread
\* could be created.  That holds even after descriptors have been mixed up.
NothingLeaks ==
    \A n \in Numbers, c \in Clients :
        /\ fds[n] = Conn(c) =>
            /\ pc[c] \notin {"queued", "done"}
            /\ pc[c] = "unserved" => threads = 0
        /\ fds[n] = File(c) => pc[c] \in {"read", "send", "closeFile", "spin"}

\* Every client that stays is answered in the end, unless the process has
\* exited, descriptors were mixed up, or no thread could be created for it.
EveryoneAnswered ==
    \A c \in Clients \ Leavers :
        <>(got[c] # <<>> \/ stray \/ ~up \/ pc[c] = "unserved")

\* What the comment at src/dnode/data_server.cpp:86 says: "send the entire
\* requested chunk in one go".  When the thread of a connection ends, the client
\* has had its chunk, unless it was refused or the file could not be read.
EntireChunkSent ==
    \A c \in Clients \ (Refused \cup refusals \cup gone \cup misread) :
        up /\ pc[c] = "done" => got[c] = <<c>>

=============================================================================
