------------------------------- MODULE Sharing -------------------------------
(***************************************************************************)
(* Uploads and downloads of several dnodes put together: the files on their *)
(* disks (src/dnode/rpc_server.cpp), the hub's lists of names and sources   *)
(* (src/hub/dnode_req_server.cpp) and the data servers (data_server.cpp).   *)
(*                                                                          *)
(* A file is kept and served under its name, but listed under the hash of   *)
(* its content.  An existing file is written over from its start and never  *)
(* shortened.  A dnode serves one RPC request at a time; its data server    *)
(* reads its files at any time, also while they are being written.          *)
(*                                                                          *)
(* The threads of a download (ChunkDownload) appear as what they promise    *)
(* (DownloadWindow): each chunk of the window is fetched from a listed      *)
(* source, in any order, or lost.                                           *)
(*                                                                          *)
(* The unit of size is a piece, of which a chunk has ChunkSize and the last *)
(* chunk of a content possibly fewer.  Reads and writes may fail, also in   *)
(* the middle of a chunk; nobody looks.  (A read of the file to upload that *)
(* fails leaves the buffer as it was: what is hashed, written and posted is *)
(* another content then, as UploadIndex shows, and Upload takes any.)       *)
(***************************************************************************)
EXTENDS Integers, Sequences, SequencesExt

CONSTANTS
    Dnodes, Names, Contents,
    Length,        \* the number of pieces of each content
    ChunkSize,     \* pieces in a chunk
    Window,        \* pieces in the download buffer
    Nil,           \* no entry in a map
    MaxRequests,   \* bound: RPC requests
    MaxFaults      \* bound: dnodes killed, reads and writes that fail

ASSUME SharingAssumption ==
    /\ Length \in [Contents -> Nat \ {0}]
    /\ {ChunkSize, Window} \subseteq Nat \ {0}
    /\ Window % ChunkSize = 0
    /\ Nil \notin Contents
    /\ {MaxRequests, MaxFaults} \subseteq Nat

VARIABLES
    files,     \* the files of each dnode, by name: the pieces they hold
    running,   \* the dnodes whose process runs
    fname,     \* fname_map: the content a name stands for
    sources,   \* fhash_map: the dnodes listed for a content
    rpc,       \* what each dnode's RPC server is doing
    uploaded,  \* history: the names uploads gave to contents
    lossy,     \* history: contents of which something was lost, misread or not written
    torn,      \* history: names under which an upload could not write everything
    requests, faults

hubVars == <<fname, sources>>
history == <<uploaded, lossy, torn>>
vars == <<files, running, hubVars, rpc, history, requests, faults>>

-----------------------------------------------------------------------------
(* Files *)

Piece(c, i) == [content |-> c, index |-> i]
Garbage == [content |-> Nil, index |-> 0]     \* bytes of a buffer that was not filled
Pieces == {Garbage} \cup UNION {{Piece(c, i) : i \in 1 .. Length[c]} : c \in Contents}

Whole(c) == [i \in 1 .. Length[c] |-> Piece(c, i)]

ChunkOf(i) == (i - 1) \div ChunkSize

\* Mutant: the file is opened with O_APPEND.
PutAtEnd(f, i, piece) == Append(f, piece)

\* write: over what is there, or behind it; a gap is not possible here.
Put(f, i, piece) == IF i <= Len(f) THEN [f EXCEPT ![i] = piece] ELSE Append(f, piece)

-----------------------------------------------------------------------------
(* What the RPC server of a dnode is doing *)

Idle == [at |-> "idle"]

\* Copying "buffer" into the file "name", from its piece "next" on to the place
\* "offset" of the file, then telling the hub ("post" is upload or ack).
Copying(post, n, c, buffer) ==
    [at |-> "copying", post |-> post, name |-> n, content |-> c,
     buffer |-> buffer, next |-> 1, offset |-> 1]

\* The request has been reported to the RPC client as a success.
Reported(r) == [at |-> "reported", post |-> r.post, name |-> r.name, content |-> r.content]

\* A piece of the window: not fetched, lost, or of a chunk that is read from a
\* source that does not send the whole of it (which lasts for ever).
Missing == [content |-> Nil, index |-> -1]
Lost == [content |-> Nil, index |-> -2]
Hung == [content |-> Nil, index |-> -3]

\* "from" is the list of sources as the hub sent it, "refused" the places in
\* it to which a connection failed.
Fetching(n, c, from) ==
    [at |-> "fetching", name |-> n, content |-> c, from |-> from, refused |-> {},
     window |-> [i \in 1 .. IF Length[c] < Window THEN Length[c] ELSE Window |-> Missing]]

Init ==
    /\ files = [d \in Dnodes |-> [n \in Names |-> <<>>]]
    /\ running = Dnodes
    /\ fname = [n \in Names |-> Nil]
    /\ sources = [c \in Contents |-> <<>>]
    /\ rpc = [d \in Dnodes |-> Idle]
    /\ uploaded = {} /\ lossy = {} /\ torn = {}
    /\ requests = 0 /\ faults = 0

NewRequest(d) ==
    /\ d \in running
    /\ rpc[d].at \in {"idle", "reported"}
    /\ requests < MaxRequests
    /\ requests' = requests + 1

-----------------------------------------------------------------------------
(* Upload *)

\* The name is the last part of the path, the content whatever the file holds.
Upload(d, n, c) ==
    /\ NewRequest(d)
    /\ rpc' = [rpc EXCEPT ![d] = Copying("upload", n, c, Whole(c))]
    /\ uploaded' = uploaded \cup {<<n, c>>}
    /\ UNCHANGED <<files, running, hubVars, lossy, torn, faults>>

\* One piece goes to the file.  Neither open truncates it.
Copy(d) ==
    /\ d \in running
    /\ rpc[d].at = "copying"
    /\ LET r == rpc[d]
       IN /\ r.next <= Len(r.buffer)
          /\ files' = [files EXCEPT ![d][r.name] = Put(@, r.offset, r.buffer[r.next])]
          /\ rpc' = [rpc EXCEPT ![d].next = @ + 1, ![d].offset = @ + 1]
    /\ UNCHANGED <<running, hubVars, history, requests, faults>>

\* Where one call of fwrite_full ends that is at the piece "next": an upload
\* writes chunk by chunk, a download its whole buffer.
Ends(r, i) ==
    \/ i = Len(r.buffer)
    \/ r.post = "upload" /\ i % ChunkSize = 0

\* The call fails, or the file could not be opened: the rest of what it should
\* write is left out, and the next call goes on at the same place of the file.
WriteFails(d) ==
    /\ d \in running
    /\ rpc[d].at = "copying"
    /\ faults < MaxFaults
    /\ faults' = faults + 1
    /\ LET r == rpc[d]
       IN /\ \E i \in r.next .. Len(r.buffer) :
                /\ Ends(r, i) /\ \A j \in r.next .. i - 1 : ~Ends(r, j)
                /\ rpc' = [rpc EXCEPT ![d].next = i + 1]
          /\ lossy' = lossy \cup {r.content}
          /\ torn' = IF r.post = "upload" THEN torn \cup {r.name} ELSE torn
    /\ UNCHANGED <<files, running, hubVars, uploaded, requests>>

\* What the hub does with an upload: one more source, also if it is listed
\* already, and the first content given to a name stays.
HandleUpload(d, n, c) ==
    /\ sources' = [sources EXCEPT ![c] = Append(@, d)]
    /\ fname' = IF fname[n] = Nil THEN [fname EXCEPT ![n] = c] ELSE fname

HandleAck(d, c) ==
    /\ sources' = [sources EXCEPT ![c] = Append(@, d)]
    /\ UNCHANGED fname

\* Mutant: the hub is told before the file is written.
PostEarly(d) ==
    /\ d \in running
    /\ rpc[d].at = "copying"
    /\ \/ rpc[d].post = "upload" /\ HandleUpload(d, rpc[d].name, rpc[d].content)
       \/ rpc[d].post = "ack" /\ HandleAck(d, rpc[d].content)
       \/ UNCHANGED hubVars
    /\ rpc' = [rpc EXCEPT ![d] = Reported(@)]
    /\ UNCHANGED <<files, running, history, requests, faults>>

\* Everything is written, or nobody looked; the hub is told, or cannot be reached: nothing is
\* answered, and the client is told of a success in both cases.
Post(d) ==
    /\ d \in running
    /\ rpc[d].at = "copying"
    /\ rpc[d].next > Len(rpc[d].buffer)
    /\ \/ rpc[d].post = "upload" /\ HandleUpload(d, rpc[d].name, rpc[d].content)
       \/ rpc[d].post = "ack" /\ HandleAck(d, rpc[d].content)
       \/ UNCHANGED hubVars
    /\ rpc' = [rpc EXCEPT ![d] = Reported(@)]
    /\ UNCHANGED <<files, running, history, requests, faults>>

-----------------------------------------------------------------------------
(* Download *)

\* The hub's answer: the content the name stands for and its list of sources.
\* (A name nobody uploaded faults the hub: see HubRegistry.)
Download(d, n) ==
    /\ NewRequest(d)
    /\ fname[n] # Nil
    /\ rpc' = [rpc EXCEPT ![d] = Fetching(n, fname[n], sources[fname[n]])]
    /\ UNCHANGED <<files, running, hubVars, history, faults>>

\* The source a thread takes for a chunk: the first that is not known to be
\* offline, or one that was when the thread chose it.
MayAsk(r, j) == \A k \in 1 .. j - 1 : k \in r.refused

\* The pieces of the k-th chunk of the window.
Part(r, k) == {i \in DOMAIN r.window : ChunkOf(i) = k - 1}

\* The window with other pieces for the k-th chunk.
Filled(r, k, pieces) ==
    [i \in DOMAIN r.window |-> IF i \in Part(r, k) THEN pieces[i] ELSE r.window[i]]

Marked(r, k, mark) == Filled(r, k, [i \in Part(r, k) |-> mark])

Busy(d, k) ==
    /\ d \in running
    /\ rpc[d].at = "fetching"
    /\ Part(rpc[d], k) # {}
    /\ \A i \in Part(rpc[d], k) : rpc[d].window[i] = Missing

\* The source's file of that name.
Asked(d, j) == files[rpc[d].from[j]][rpc[d].name]

Answers(d, j) == MayAsk(rpc[d], j) /\ rpc[d].from[j] \in running

\* The data server looks the file up by its name, checks the range and sends
\* what is there.
Fetch(d, k) ==
    /\ Busy(d, k)
    /\ \E j \in DOMAIN rpc[d].from :
        /\ Answers(d, j)
        /\ Part(rpc[d], k) \subseteq DOMAIN Asked(d, j)
        /\ rpc' = [rpc EXCEPT ![d].window = Filled(rpc[d], k, Asked(d, j))]
    /\ UNCHANGED <<files, running, hubVars, history, requests, faults>>

\* It cannot read all of it and sends its buffer all the same.
FetchMisread(d, k) ==
    /\ Busy(d, k)
    /\ faults < MaxFaults
    /\ faults' = faults + 1
    /\ \E j \in DOMAIN rpc[d].from, i \in Part(rpc[d], k) :
        /\ Answers(d, j)
        /\ Part(rpc[d], k) \subseteq DOMAIN Asked(d, j)
        /\ rpc' = [rpc EXCEPT ![d].window =
                    Filled(rpc[d], k, [l \in Part(rpc[d], k) |->
                                        IF l < i THEN Asked(d, j)[l] ELSE Garbage])]
    /\ lossy' = lossy \cup {rpc[d].content}
    /\ UNCHANGED <<files, running, hubVars, uploaded, torn, requests>>

\* Its file is too short and it sends a failure, which is shorter than a chunk:
\* the thread waits for the rest for ever, or takes it for a short last chunk.
FetchTooShort(d, k) ==
    /\ Busy(d, k)
    /\ \E j \in DOMAIN rpc[d].from :
        /\ Answers(d, j)
        /\ ~(Part(rpc[d], k) \subseteq DOMAIN Asked(d, j))
    /\ \E mark \in {Hung, Garbage} :
        /\ mark = Garbage => \E i \in DOMAIN rpc[d].window : i = Length[rpc[d].content]
                                /\ i \in Part(rpc[d], k) /\ i % ChunkSize # 0
        /\ rpc' = [rpc EXCEPT ![d].window = Marked(rpc[d], k, mark)]
    /\ UNCHANGED <<files, running, hubVars, history, requests, faults>>

\* A source that was killed does not answer, and one that runs fails to do so
\* only by a fault: this dnode has no descriptor left, or the data server no
\* thread for the connection.
Fails(s) ==
    IF s \notin running THEN UNCHANGED faults
    ELSE faults < MaxFaults /\ faults' = faults + 1

\* An answer that does not come, or ends early, leaves the thread reading for
\* ever.
FetchCutOff(d, k) ==
    /\ Busy(d, k)
    /\ \E j \in DOMAIN rpc[d].from : MayAsk(rpc[d], j) /\ Fails(rpc[d].from[j])
    /\ rpc' = [rpc EXCEPT ![d].window = Marked(rpc[d], k, Hung)]
    /\ UNCHANGED <<files, running, hubVars, history, requests>>

\* The connection cannot be made: this place in the list is marked offline.
Refusal(d, k) ==
    /\ Busy(d, k)
    /\ \E j \in DOMAIN rpc[d].from :
        /\ MayAsk(rpc[d], j)
        /\ Fails(rpc[d].from[j])
        /\ rpc' = [rpc EXCEPT ![d].refused = @ \cup {j}]
    /\ UNCHANGED <<files, running, hubVars, history, requests>>

\* Nobody is left to ask.
Lose(d, k) ==
    /\ Busy(d, k)
    /\ rpc[d].refused = DOMAIN rpc[d].from
    /\ rpc' = [rpc EXCEPT ![d].window = Marked(rpc[d], k, Lost)]
    /\ lossy' = lossy \cup {rpc[d].content}
    /\ UNCHANGED <<files, running, hubVars, uploaded, torn, requests, faults>>

Complete(r) ==
    Len(r.window) = Length[r.content] /\ \A i \in DOMAIN r.window : r.window[i] # Lost

\* Mutant: what was fetched is written, also where nothing was.
ToWriteUnchecked(r) == r.window

\* What goes to the file when the threads have left: the byte count modulo the
\* buffer's size if the file is complete, else the whole buffer.
ToWrite(r) ==
    IF Complete(r)
    THEN SubSeq(r.window, 1, Len(r.window) % Window)
    ELSE [i \in 1 .. Window |->
            IF i \in DOMAIN r.window /\ r.window[i] # Lost THEN r.window[i] ELSE Garbage]

WriteWindow(d) ==
    /\ d \in running
    /\ rpc[d].at = "fetching"
    /\ \A i \in DOMAIN rpc[d].window : rpc[d].window[i] \notin {Missing, Hung}
    /\ rpc' = [rpc EXCEPT ![d] = Copying("ack", @.name, @.content, ToWrite(@))]
    /\ UNCHANGED <<files, running, hubVars, history, requests, faults>>

-----------------------------------------------------------------------------
(* Crashes: what is on disk stays as far as it was written, within a chunk *)
(* also                                                                    *)

Kill(d) ==
    /\ d \in running
    /\ faults < MaxFaults
    /\ faults' = faults + 1
    /\ running' = running \ {d}
    /\ rpc' = [rpc EXCEPT ![d] = Idle]
    /\ UNCHANGED <<files, hubVars, history, requests>>

Start(d) ==
    /\ d \notin running
    /\ running' = running \cup {d}
    /\ UNCHANGED <<files, hubVars, rpc, history, requests, faults>>

Next ==
    \E d \in Dnodes :
        \/ \E n \in Names : Download(d, n) \/ \E c \in Contents : Upload(d, n, c)
        \/ Copy(d) \/ WriteFails(d) \/ Post(d) \/ WriteWindow(d)
        \/ \E k \in 1 .. Window \div ChunkSize :
            \/ Fetch(d, k) \/ FetchMisread(d, k) \/ FetchTooShort(d, k)
            \/ FetchCutOff(d, k) \/ Refusal(d, k) \/ Lose(d, k)
        \/ Kill(d) \/ Start(d)

Spec == Init /\ [][Next]_vars

-----------------------------------------------------------------------------
(* Properties *)

Requests ==
    {Idle}
    \cup [at : {"copying"}, post : {"upload", "ack"}, name : Names, content : Contents,
          buffer : Seq(Pieces), next : Nat, offset : Nat]
    \cup [at : {"reported"}, post : {"upload", "ack"}, name : Names, content : Contents]
    \cup [at : {"fetching"}, name : Names, content : Contents, from : Seq(Dnodes),
          refused : SUBSET Nat, window : Seq(Pieces \cup {Missing, Lost, Hung})]

TypeOK ==
    /\ files \in [Dnodes -> [Names -> Seq(Pieces)]]
    /\ running \subseteq Dnodes
    /\ fname \in [Names -> Contents \cup {Nil}]
    /\ sources \in [Contents -> Seq(Dnodes)]
    /\ rpc \in [Dnodes -> Requests]
    /\ uploaded \subseteq Names \X Contents
    /\ lossy \subseteq Contents /\ torn \subseteq Names
    /\ requests \in 0 .. MaxRequests
    /\ faults \in 0 .. MaxFaults

\* Whatever dnodes overwrite, download from each other half-written, lose or
\* are killed over, in the middle of a chunk also: each piece of a file is
\* garbage or that place's piece of a content that was uploaded under the
\* file's name.  Only if an upload under that name, on whatever dnode, could
\* not write a chunk are pieces found at other places, and then nearer to the
\* start than they belong.
PiecesKeepTheirPlace ==
    \A d \in Dnodes, n \in Names :
        \A i \in DOMAIN files[d][n] :
            \/ files[d][n][i] = Garbage
            \/ \E c \in Contents : \E k \in i .. Length[c] :
                /\ <<n, c>> \in uploaded
                /\ files[d][n][i] = Piece(c, k)
                /\ k = i \/ n \in torn

\* A name and a content that were only ever given to each other.
OneToOne(n, c) ==
    \A u \in uploaded : u[1] = n \/ u[2] = c => u = <<n, c>>

\* As long as a name stands for one content and the content has one name, the
\* content is shorter than the buffer, and no piece of it was lost, misread or
\* left unwritten by anybody: every source the hub lists holds the whole file
\* and nothing else, and so does every dnode that reported an upload or a
\* download of it, however often it was written over or left half-written by
\* a dnode that was killed.
SourcesSeed ==
    \A n \in Names, c \in Contents :
        <<n, c>> \in uploaded /\ OneToOne(n, c) /\ Length[c] < Window /\ c \notin lossy =>
            \A d \in Dnodes :
                \/ d \in ToSet(sources[c])
                \/ rpc[d].at = "reported" /\ rpc[d].name = n
                => files[d][n] = Whole(c)

\* README:121-123 says of an upload: "check file hash similar file present,
\* check filename and size ( replication ), add as another peer for file".
\* A peer that is listed for the content of a name has a file of that name.
PeersHaveTheName ==
    \A n \in Names :
        fname[n] # Nil => \A d \in ToSet(sources[fname[n]]) : files[d][n] # <<>>

=============================================================================
