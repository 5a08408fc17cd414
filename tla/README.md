# A TLA+ model of the peer-to-peer distributed file system

The program (`src/src`) is a small file-sharing system. *Hubs* keep an in-memory
index of names, contents and sources; *dnodes* store files, serve chunks of them to
each other, and take orders from a command-line *RPC client*. This directory holds
TLA+ models of its core, TLC configurations that check them on small instances, and
TLAPS proofs that some of the properties hold for every instance.

Paths below are relative to the repository's root; line numbers are those of the
commit the models were written from.

## 1. Inventory

| component | source | state | operations |
|---|---|---|---|
| chunk layout | `src/dnode/rpc_server.cpp` 46-51, 321-357; `src/hub/hub.h` 11 | none (computed) | sizes and offsets of chunks |
| multi-threaded download | `src/dnode/rpc_server.cpp` 150-446; `src/dnode/dnode.h` 20-24 | chunk table, source table, count and bytes, three mutexes, the download buffer, the output file | spawn, claim, select, connect, fail, receive, mark, count, join, write |
| dnode request server of the hub | `src/hub/dnode_req_server.cpp`; `src/hub.cpp` 31-48 | `dnodes_map`, `fhash_map`, `file_metadata_map`, `file_indexdata_map`, `fname_map` (memory only) | join, hello, upload, download, downloaded-ack |
| dnode start-up | `src/dnode.cpp` | `dnode_details.uid`, the uid file | read uid file, join or hello, save uid, spawn the servers |
| RPC server of the dnode | `src/dnode/rpc_server.cpp` 25-148, 497-640 | files directory | upload, download, kill, one request at a time |
| data server of the dnode | `src/dnode/data_server.cpp` | one thread and descriptor per request; the process's table of descriptors | accept, serve a byte range, refuse, close |
| hub-to-hub server | `src/hub/hub_req_server.cpp` | `peer_hubs_map`, reads the maps above | hub join, query for sources |
| socket, hash and file helpers | `src/util` | none | `recv_full`, `send_full`, `connect_to_server`, `compute_hash`, `random64bit`, `fread_full`, `fwrite_full`, `get_file_size` |
| RPC client | `src/rpc.cpp` | none | send a request, print the reply |

**How they interact.** The RPC client calls a dnode's RPC server. For an upload the
dnode copies the file, hashes its chunks and sends name, hash, size and chunk hashes
to the hub; nothing is answered. For a download it asks the hub for the name, gets
metadata, chunk hashes and the list of sources, fetches the chunks from the data
servers of these sources with four threads, and tells the hub that it is a source
now (again without an answer). A dnode connects to its hub once when it starts: *join*
without a uid on disk, *hello* with one. Every exchange is a connection of its own.

**What is hard.**

- *Threads.* The download threads share three tables under three mutexes and a
  buffer under none; claiming, failing and delivering a chunk are separate critical
  sections, and two nestings of the mutexes are opposite.
- *Failing peers.* A source may refuse, send a failure reply, send other bytes, close
  early or fall silent; there are no timeouts, and `recv_full` does not stop at end of
  file.
- *Local failures.* Nobody looks at a failed read, write, `connect` or `pthread_create`:
  what should have followed is left out, and the rest goes on.
- *Crashes.* Dnodes persist only their uid (created and written in two steps), the
  hub nothing; neither is told of the other's restart.
- *Order.* Uploads and acknowledgements have no answer; the hub dereferences what
  earlier requests should have stored.
- *Descriptors and threads.* All threads of a dnode share one table of descriptors, and
  a refused connection is closed twice; nobody joins or detaches the data server's
  threads.
- *Two servers on one set of maps.* The hub's two server threads take no lock.
- *Names and contents.* Files are kept and served by name and listed by hash.
- *Boundaries.* A partial last chunk, files longer than the buffer (10 chunks) or
  exactly as long, empty files, sizes cut to `int`.

**What makes each component correct.**

- layout: chunks tile the file; no request reaches beyond its end.
- download: one owner per chunk; the count is the downloaded prefix; a handed-back
  chunk is fetched by somebody; one source that can be connected to is enough; it
  returns; the bytes on disk are the file.
- registry: names it stores can be answered for; addresses lead to the dnode that
  holds the uid; a request does not kill it.
- start-up: a uid is unique, kept for ever, and one a hub gave; start-up ends.
- upload: the copy is the file, the index is the copy's, a hash is never the hub's 0.
- sharing: what the hub lists as a source of a content holds it; chunks of different
  contents, or of different places, are not mixed up on the way.
- data server: replies to the client that asked, once; a close hits one's own
  descriptor; every descriptor is closed by somebody.
- hub-to-hub server: what it does between two operations of the other thread loses no
  source and leads to no missing record.

## 2. Modules

| module | kind | content |
|---|---|---|
| `ChunkLayout` | constants and operators | the layout of a file in chunks and in the buffer |
| `ChunkLayoutProofs` | proofs | division facts, `ChunksTile` |
| `DownloadWindow` | abstract specification | what a download promises about the chunks of a window |
| `ChunkDownload` | component | threads, mutexes, sources and buffer of one download |
| `ChunkDownloadProofs` | proofs | the inductive invariant, the safety theorems, the refinement |
| `FileIntactProofs` | proofs | what is written is the file |
| `HubRegistry` | component | a hub, its backlog, and the dnodes that start, upload, download, crash |
| `HubRegistryProofs` | proofs | connections, uids and addresses, names |
| `UploadIndex` | component | one upload in bytes: size, copy, index, hashes |
| `UploadIndexProofs` | proofs | the copy, the index, and that no hash is zero |
| `Sharing` | composition | uploads and downloads of several dnodes: files, the hub's lists, crashes |
| `SharingProofs` | proofs | what stays in place, and what the listed sources hold |
| `DataServer` | component | connections, threads and the table of descriptors of a dnode |
| `DataServerProofs` | proofs | who owns a descriptor, and what a client receives |
| `HubServers` | component | the hub's two server threads, operation by operation |
| `HubServersProofs` | proofs | what a thread may rely on between two operations |
| `MC...` | for TLC | symmetry sets, lengths of contents, files |

Definitions introduced by a comment that begins with *Mutant* are faulty variants of
the definition they stand before. No specification uses them: `PROJECT.json` names the
property that must fail when one of them takes the place of the original.

### ChunkDownload

Each label of `pc` is a place of `download_thread_handler`:

| label | lines | what happens in the step out of it |
|---|---|---|
| `absent` | 413-415 | `pthread_create` failed: the thread never runs |
| `check` | 171-183 | under the count's mutex: leave when everything is counted |
| `claim` | 187-204 | under the chunk list's mutex: mark the first free chunk, or leave |
| `select` | 206-227 | under the source list's mutex: the first source online, or start again with the chunk still marked |
| `connect` | 231-258 | connected, or refused |
| `failSrc`, `failChunks` | 237-246 | lock the source list, then the chunk list; source offline, chunk free |
| `recv` | 260-283 | the chunk's bytes, other bytes, or end of file |
| `spin` | `net.cpp` 173-188 | `recv_full` after end of file: no step leads out |
| `silent` | `net.cpp` 173-188 | `recv_full` waits for bytes that do not come: no step leads out |
| `doneChunks`, `doneNum`, `doneSrc` | 286-291 | lock chunk list, count, source list, in this order; mark the chunk |
| `count` | 293-307 | count the downloaded prefix, one chunk a step; release all three |
| `exit` | 180, 203 | the thread has returned |

The main thread (`main`) spawns the threads, joins them, and writes the buffer. Its
loop is left after one iteration in the code (line 432), and so it is here. Any of the
threads may fail to be created; the join of its uninitialised identifier is an error
nobody looks at, or undefined (`JoinNobody`, after which `main` is `lost`). `Write`
writes all of what the code wants to write, or a part (`diskError`), since the results
of `open` and `fwrite_full` are not looked at.

*Granularity.* What a thread does under one mutex is one step: nobody else can see
the table meanwhile. Where the code nests mutexes, each acquisition is a step, so
that the opposite nestings can meet. The buffer is written under no mutex; that
each write is one step is justified by `ChunkOwnership`, which says no other thread
writes or reads that slot. `max_chunk_index` bounds the scan of the chunk list.

*Data.* A buffer slot holds the number of the chunk whose bytes it has, or `Garbage`.
Sizes are in units: only the ratio of file size, chunk size and buffer size matters.
`served` of a source is compared with `ServedCeiling` (1000000), the initial value
of the minimum in the scan.

*The other end.* To connect may fail with every peer, also for want of a descriptor in
this dnode; `refused` records with which it did. Once connected, a peer in `Steady`
answers correctly. Any other peer may, at each request, send something else (this
includes the 16-byte failure reply of the data server, and an error of `recv` nobody
looks at), close early, or leave the connection open and send no more, as a data server
does that has no thread for it.

### DownloadWindow

A chunk is *wanted*, *taken*, *done* or *lost*. `ChunkDownload` implements it: a chunk
is taken while some thread is busy with it; it is lost when it stays marked as
downloading with nobody busy with it, and that happens only when no source is left.

### HubRegistry

The hub is one loop (`handle_dnode_req_server`): accept, read, serve, close. The
backlog holds the connections not yet served, each with the request the client sends
and how the client's end is: `open` (waiting for the answer), `closed` (everything
sent, gone) or `cut` (gone before everything was sent). Serving one request is one
step; since the hub is the only one to touch its maps in these handlers, and answers
one client at a time, nothing can be seen in between.

| action | code |
|---|---|
| `StartDnode`, `SendJoin`, `JoinUnreachable`, `CreateUidFile`, `WriteUidFile`, `SendHello`, `HelloUnreachable` | `dnode.cpp` 69-141 |
| `CutOff` | an answer that never comes, in the three places that wait for one |
| `Upload`, `SendDownload`, `DownloadUnreachable`, `Acknowledge` | the hub's side of `handle_file_upload`, `handle_file_download` |
| `HandleJoin` ... `HandleDownload` | the handlers of `dnode_req_server.cpp` |
| `DownloadCrashes` | the null pointers `handle_file_download_req` may dereference |
| `AnswerBreaks` | the second `send` to a client that is gone (SIGPIPE ends the hub) |
| `HubSpins` | `recv_full` on a client that died within its request |
| `KillDnode`, `KillSendingDnode`, `KillHub`, `StartHub` | a kill at any point, at both ends of a connection |

*Values.* A uid is the second in which `random64bit` was called, because it seeds
`rand` with `time(NULL)` on each call. An uninitialised uid is 0 (which the code
takes for "no uid") or `Junk` (anything else). An existing but empty uid file is
`Torn`. A file is its hash; `want` is the hash the downloading dnode has in hand. The
fetching itself is `ChunkDownload`; whether it was complete makes no difference to
what the hub is told.

*Who is registered.* Hub and dnodes are started in any order. To connect may fail also
while the hub is alive (`Unreachable`: no descriptor, or a full backlog); the dnode runs
on and posts all the same, under a uid the hub has no address for. `registered` records
which dnodes this hub has answered since they started, `strangers` the uids under which
others posted to it.

*Bounds.* `MaxNow` (seconds), `MaxBacklog`, `MaxPosts` (uploads and acknowledgements),
`MaxFaults` (kills of dnodes, and connects to a live hub that fail), `MaxStarts` (of the
hub).

### UploadIndex

`handle_file_upload` up to line 107, one system call a step. A file is a sequence of
bytes; `read` and `write` take any number of the bytes they are asked for, or fail, and
the upload goes on with the next chunk after a failure, as the code does. `Stat` cuts the
size to an `int` of at most `MaxInt`; a file that does not exist has any size
(`get_file_size` does not look at `stat`'s result), and then each read fails. `Shrink`
is another program: the file ends before the upload has come to its end, and
`fread_full` does not stop. `HashIndex` ends the dnode when the size of the index is
negative (`malloc` returns null, and the length is huge).

Of a hash the model has the low byte. Exclusive or and multiplication never carry
downwards, so this is exact: it depends on the low bytes of the words only, and the
low bytes of the FNV constants are those of the code (179; 37, 37, 197, 37). The
exclusive or is written bit by bit with sums and remainders (`HalfXor`), so that the
prover's arithmetic can follow it.

### Sharing

`ChunkDownload` appears as `DownloadWindow` has it (chunks are fetched in any order, or
lost when no source is left), `HubRegistry` as two maps: uploads and acknowledgements
are served at once, or lost when there is no hub. What is added is the files.

The unit of size is a *piece*, of which a chunk has `ChunkSize` and the last chunk of a
content possibly fewer, so that a kill or a failing call within a chunk, and a shorter
content over a longer one, leave parts of two contents in one chunk. `Copy` writes one
piece over what is there (`open` without `O_TRUNC`). `WriteFails` is a call of
`fwrite_full` that fails, at once or after some pieces, or a file that could not be
opened: the next call goes on at the same place of the file, so that what it writes is
displaced. `Fetch` reads what the source's file of that *name* holds at that moment,
also while the source is copying. `FetchMisread` is a source that cannot read all of
it, `FetchTooShort` one whose file is too short: its failure reply is shorter than a
chunk, for the rest of which the thread waits for ever, unless the last chunk is so
short that it is taken for it. `WriteWindow` takes the buffer as the code does: to the
byte count modulo the buffer's size when the count is complete, else all of it. `Hung`
is a thread that reads for ever. A failing read of the file to upload leaves the
buffer as it was: another content is hashed, written and posted then, and `Upload` takes
any. A name nobody uploaded is not asked for (`HubRegistry` has what happens then).

*Histories.* `lossy` has the contents of which somebody lost a chunk, read one wrong or
did not write all; `torn` the names under which an upload did not write all. *Bounds.*
`MaxRequests`; `MaxFaults` (kills, failing reads and writes, and connections to running
sources that fail).

| action | code |
|---|---|
| `Upload`, `Copy`, `WriteFails`, `Post` | `handle_file_upload` |
| `Download`, `Fetch`, `FetchMisread`, `FetchTooShort`, `FetchCutOff`, `Refusal`, `Lose` | `handle_file_download`, `download_thread_handler`, `handle_data_transfer` |
| `WriteWindow`, then `Copy`, `WriteFails`, `Post` | `multi_threaded_download` 423-437, `handle_file_download` 548-573 |
| `HandleUpload`, `HandleAck` (within `Post`) | `dnode_req_server.cpp` 112-156, 220-237 |
| `Kill`, `Start` | the process; files stay as far as they were written |

### DataServer

`fds` is the kernel's table: what each number refers to. `accept` and `open` give out
the lowest free number, `close` frees it for anybody. A thread knows numbers, not
objects (`sock`, `file`): each use looks up what the number refers to *now*. One
step is one system call on a descriptor. What a thread does with a number that is
closed or somebody else's follows the code, which looks at no error: a failed
`recv` leaves the request as the stack held it, a failed `send` is ignored, a `read` on
a connection swallows its request, and a `read` that fails leaves in the buffer what was
there (`ReadFails`, of which `misread` keeps the clients). `stray` records that a close has hit what another
thread opened. `OutOpen`, `OutWrite` and `OutClose` are the output file of a download,
which stands for the rest of the process. A client that leaves may raise SIGPIPE
(`SendBreaks`), and `accept` without a free number exits (`AcceptFails`): both end the
dnode.

### HubServers

Each operation on a map, or on a list or record in it, has a beginning (`Begin`) and an
end. `Writes` and `Reads` say what an operation touches; two that overlap, of which one
writes what the other touches, set `raced`, after which the hub may crash at any time.
`operator[]` writes when the key is missing. `overrun` records that the answer to a
query was written past its memory: it is counted in `peer_dnode_struct` (20 bytes)
and filled with `src_dnode_struct` (32 bytes), `hub_req_server.cpp` 94-104.
The requests themselves come from anybody at any time. `uploaded` stands for the maps
of metadata and names, which only one of the threads uses; `Zero` is the hash a name
nobody uploaded gives, whose metadata is a null pointer (`HeadNull`). An answer that
has more than its header is sent in two steps: when the client left after the first,
the second raises SIGPIPE and ends the hub (`BodyBreaks`; the index and the list that a
download sends are one step, since it is the first send after the reset that ends it).

## 3. Runs

`tlc -config X.cfg M` for the module named in `PROJECT.json`.

| run | instance | what it shows |
|---|---|---|
| `download_failures` | 3 threads, 4 chunks (the last partial), buffer of 5, 2 sources that may fail in every way; threads symmetric | `TypeOK`, `ChunkOwnership`, `PrefixCounted`, `NothingForgotten`, `ServedOnce`, `FileIntact`; implements `DownloadWindow` (`KeepsPromise`) |
| `download_ends` | 2 threads, 4 chunks, window of 3, 3 sources that may fail in every way; fair | `OneSourceSuffices`; `DownloadEnds`: the download returns, or a thread spins on a closed connection or waits on a silent one, or the two nestings have met, or a thread was joined that was not created |
| `hub_crashes` | 2 dnodes, 2 seconds, backlog of 2, 2 posts, 2 faults, 2 starts of the hub; symmetric | `TypeOK`, `SourceAddressed`, `NamesAnswerable`, `UidKept` |
| `hub_startup` | 2 dnodes, 1 fault, 2 starts of the hub; fair | `StartupEnds` |
| `upload_index` | words of 2 bytes, chunks of 4, `int` of 4 bits; every file of two byte values up to 6 bytes, and longer ones to 35; 2 failing calls; fair | `CopyIsFile`, `IndexIsOfCopy`, `HashNeverZero`, `UploadEnds` |
| `sharing` | 3 dnodes, 2 names, contents of 3 and 4 pieces, chunks of 2, window of 4, 3 requests, 2 faults; symmetric | `PiecesKeepTheirPlace`, `SourcesSeed` |
| `data_server` | 3 connections (one refused, one that may leave), 5 numbers, 0 to 3 threads, 1 failing read; fair | `AnsweredOnce`, `StrayNeedsRefusal`, `NothingLeaks`, `EveryoneAnswered` |
| `hub_servers` | 2 uids, 2 hashes, 1 peer hub, 5 requests of dnodes, 2 of hubs; symmetric | `LookupsSucceed`, `SourcesKept` |
| `download_refused` | 2 threads, 1 source that may fail, 1 steady; fair | *violated:* a refused chunk is fetched from elsewhere (README 169-170): opposite nestings deadlock |
| `download_long` | 2 threads, 1 steady source; 4 chunks with a buffer of 3 | *violated:* the whole file is written (README 151-153): the loop is left after one round |
| `data_server_double_close` | 1 served and 1 refused connection, a thread for each | *violated:* "send the entire requested chunk in one go" (`data_server.cpp` 86): the second close of the refused request closes the file of the served one, which is sent other bytes |
| `sharing_names` | 2 dnodes, 2 names, window of 2 | *violated:* a listed peer has the file (README 121-123): a content under two names is listed for both |

**Why the bounds are enough.** *Download.* Two threads are needed for each of the
races, the third to leave while two others meet; with four chunks some thread comes back
for a second one while another still fetches; two failing sources give every order of
failure up to no source at all; three sources let a wrong index in the source table
hit one that was never refused. A partial last chunk and a file on either side of the buffer's size
are in the instances. The proofs below then cover every other size. *Registry.* The
properties relate one source, one name and one uid; the second dnode is there to take
its uid or its place in the backlog. Two seconds give equal and distinct uids; two
faults reach a crash in the middle of a request followed by one during the next
start-up, or an unregistered dnode that is killed; two posts list a source twice, or let an acknowledgement follow an upload;
two starts separate the lives of two hubs, and dnodes may start before either. Contents differ in nothing the handlers
look at, save for the first upload of a name keeping it, for which one content is
enough: the name and its sources are compared, not the bytes. *Upload.* Two complete
chunks and a partial one with a torn word fit below the largest `int`; sizes on either
side of it, of twice and of four times it give a negative, an empty and a wrapped
size. Two failures reach a failed read followed by a failed write. *Sharing.* Three
requests make an upload, a download of it and an overwrite or a download from the
downloader; the contents are one shorter than the buffer, with a partial last chunk,
and one as long, so that an overwritten file keeps a longer tail and a chunk may have
parts of both; two faults kill a writer within a chunk and another one after it, or
displace a write and then lose it. *Data server.* The double close needs one refused
connection and one victim; with five numbers the listener, three connections and one
file use the table up, so that `accept` and `open` fail too; a start with fewer
threads than connections leaves one unserved. *Hub servers.* A hello, an upload, an
acknowledgement by a second dnode and a download need four requests and a spare;
queries race with any of them, also twice; two contents and the unknown name give each
kind of answer.

**Fairness.** `ChunkDownload!FairSpec`: the main thread and each thread, when they can
take a step, do in the end. Threads are the operating system's; a thread that waits
for a mutex that is released again and again is scheduled in the end, and each thread
here takes a bounded number of turns. Nothing is assumed of the peers: to answer
wrongly, to close and to fall silent are outcomes of their own. `HubRegistry!FairSpec`: the hub serves its backlog, and a starting dnode goes on.
`DataServer!FairSpec`: the accepting thread and the thread of each connection go on
when they can; the RPC thread, which nobody waits for here, need not. A client that stays has sent its request;
nothing is assumed of one that may leave. `UploadIndex!FairSpec`: the RPC thread goes
on; only finitely many calls fail. No fairness is assumed of kills, restarts, uploads or downloads, which a user or an
accident brings about.

**Deadlock** is not checked: a finished download stops, the registry stops when its
bounds are used up, servers wait for clients, and the ways in which a download does stop
(`Abba`, `spin`, `silent`, `lost`) are what `DownloadEnds` is about.

## 4. Proofs

The modules named `...Proofs` are checked by `tlapm` to the last leaf. Their theorems
hold for every number of threads, dnodes, requests and so on; nothing is assumed but
the named assumptions of the components, which the constants of the code satisfy.

| component | assumption | what it says |
|---|---|---|
| `ChunkLayout` | `LayoutAssumption` | sizes are naturals, chunk size and window at least 1 |
| `ChunkDownload` | `DownloadAssumption` | `DOWNLOAD_THREADS` is not 0 (that any is created is not assumed); a mutex's free value is no thread; the window is no longer than `ServedCeiling`, which ten chunks are not |
| `HubRegistry` | `RegistryAssumption` | "nothing" is no dnode, name, hash or number; there is at least one second; the bounds are naturals |
| `DataServer` | `ServerAssumption` | refused and leaving clients are clients, "nobody" is none; there is at least one number; the bounds are naturals |
| `HubServers` | `ServersAssumption` | "nothing" is no hash or uid, and no content has the hash 0 (`HashesAreNotZero`); the bounds are naturals |
| `UploadIndex` | `UploadAssumption` | chunks are whole words; files and what a buffer holds at first are bytes; the largest `int` and the bound are naturals |
| `Sharing` | `SharingAssumption` | contents have at least one piece, chunks and window too, and the window is of whole chunks; "nothing" is no content; the bounds are naturals |

Hardly any of the properties is inductive as it stands. Each proof strengthens it until
it is, by what each actor may rely on in the middle of what it does. The strengthened
invariants were checked by TLC on the instances of the runs before they were proved.

### Chunk layout and download

`ChunksTile` says that the chunks tile the file. That no two threads own a chunk does
not by itself say who may write which mutex, and that nobody forgets a chunk needs to
say why a marked chunk without an owner means that there is no source left. The
inductive invariant `IInv` adds

- `Locks`: each mutex is held by exactly the threads whose program counter says so;
- `Assigned`: a thread past the selection has a source, a failing one a refused one;
- `Counted`: the next chunk to count is missing, or some thread is counting;
- `Marks`: a chunk marked, not downloaded and held by nobody means no candidate is left;
- `Sources`: a source that was never refused is online, and nobody served more chunks
  than there are;
- `Leaving`: when all threads that were created have left there is nothing to claim. This is the heart of
  `NothingForgotten`: the *last* thread to leave leaves no chunk behind, although
  earlier ones may leave while others can still hand chunks back.

There is one lemma per action. From `Invariance` follow `TypeCorrect`,
`OneThreadPerChunk`, `PrefixIsCounted`, `NothingIsForgotten`, `OneSourceIsEnough`.
`EveryChunkIsServedOnce` adds the source of each chunk, as the witness that `ServedOnce`
asks for: a thread credits the source it picked earlier with a chunk that had none.
`Refinement` proves `Spec => KeepsPromise`: claims, refusals, giving up, marking and the
write map to a step of `DownloadWindow`, all others to a stutter. `IntactFile` uses two
more invariants: a slot is its own chunk or garbage and its own chunk only once that is
delivered (`Buffered`), and the file is written once, in full or after an error of the
disk in part (`WrittenOnce`).

### Hub registry

Three invariants, each on top of the one before.

- `Connected`: a request whose client still waits is of the kind that client waits for,
  and carries the client's uid. Types need it: what the hub answers goes into the
  client's variables (`TypeCorrect`).
- `Owned`: a dnode works under the uid on its disk, and both were handed to it; a dnode
  that joins has no such uid on its disk; every upload and acknowledgement under way, and
  every listed source, carries a uid that some dnode has on its disk. Hence
  `SourcesAreAddressed`: with the uid handed to one dnode only, that dnode's is the only
  hello which can set the address. `UidsAreKept` is an action property from the same
  invariant: the uid file is only written by a dnode that joined, and such a dnode had no
  handed uid there.
- `Registered`: in whatever order hub and dnodes were started, and unless the hub hangs
  in a request (`Free`), a dnode this hub has answered since it started has an address
  and is past its start-up; every uid of an upload or acknowledgement under way, and
  every listed one, has an address or is a stranger's (`Accounted`); every stored name
  has metadata and sources (`Stored`). Hence `NamesAreAnswerable`. What makes it work is
  the backlog's order of service: what a dnode posts, it posts after its join or hello
  was answered, or as a stranger.

### The hub's servers

`Invariance` is a rely/guarantee argument. What one thread has found out by one operation
must still be so at its next, whatever the other did in between: a uid it works with is
known or a stranger's (`KnownRegistered`, `SourcesSound`), a list it is about to assign is
still empty (`ListsKeyed`: only this thread assigns lists), its place in a copied list
is within it (`Formed`), and the hash it works with has metadata, or is that of a name
nobody uploaded (`Named`). `LookupsDoSucceed` and `SourcesAreKept` follow.

### Data server

- `Owned`: every open connection or file is known to one thread, by its number. It is
  preserved although numbers are used again, and also after they were mixed up, because
  a thread that closes a number that is not its own only makes less open
  (`DescriptorsDoNotLeak`).
- `RefusedEnd`: a second close is to come only where a request was refused, and nobody is
  read for again after a read that failed.
- `Honest`: until a close hits what is another's (`stray`), each thread's numbers refer to
  what it opened, and the client has received what the thread's place in its code says:
  the piece of the file, the failure reply when it was refused, other bytes when the read
  failed.
  It is the step of a refused thread, and no other, that can break this
  (`StrayComesFromRefusal`, `ClientsAreAnsweredOnce`).

`accept` and `open` return the least free number; that there is one is proved from the
well-foundedness of the order on the naturals (`LeastNumber`).

### Sharing

- `Named`: requests, lists and files exist only for what was uploaded under that name.
- `Placed`: a piece is at its place in the source's file, in the window, in the buffer and
  in the file that is written, or nearer to the start if an upload under that name did not
  write all (`torn`). A writer's place in the file is never past its place in the buffer,
  behind it only after a failed write, and at most one piece past the end of the file,
  which no other action shortens (`Growth`). This gives `TypeCorrect` and
  `PiecesAreKeptInPlace`.
- `Seeded`: for a name and a content that were only given to each other, a file of the name
  is a first part of the content, and the whole of it where the hub lists the dnode or
  the dnode reported a success; a writer's buffer is the whole content; a window has
  nothing but the content's pieces. The argument for `SourcesDoSeed` goes round: a
  window is right because the sources' files are (in part, which is enough: a missing
  piece is waited for), what is written is right because the window is, and the hub is
  told after the last piece. It breaks exactly where the property makes an exception:
  where the name stands for another content too (an overwrite), where the content has
  another name (its sources lack this one), where it fills the buffer (the count is taken
  modulo its size), and where a piece was lost, misread or not written (`lossy`).

### Upload

- `Placed` and `Copied`: where the upload is in the file, and, as long as no write
  failed, how long the copy is. With the arithmetic of the chunks (`ChunkFacts`: they end
  where the size ends) this gives `TypeCorrect`.
- `Clean`: as long as nothing failed, what is in the buffer and in the copy is what the
  file has in that place. `CopiesAreFiles` follows, with what the cast to `int` makes of
  a size (`IntOfSize`: itself, or less).
- `Indexed`: as long as no write failed, the index is that of the complete chunks of
  the copy, and the chunk in work is in the buffer as it was hashed. Nothing is said of
  what was read: `IndexDescribesCopy` holds also for a file that is not there.
- `Hashed`: the lower bits of the hashes so far. `HashFacts` is about the hash itself,
  for data of any length: two lanes that start alike in their six lower bits, or differ
  in the sixth, stay so whatever words they take (`MixedFacts`, `LaneFacts`); three lanes
  are alike and one differs, so that the exclusive or has the sixth bit and none below it
  (`HashesAreNotZero`). What holds of each word of a lane is carried to its end by the
  least number for which it does not (`LeastNumber`), without an induction theorem.

### What is only model-checked

`DownloadEnds`, `StartupEnds`, `UploadEnds`, `EveryoneAnswered`: liveness under fairness
is out of the prover's reach. Every invariant and every action property that a passing
run checks, and the refinement, are proved.

## 5. What the models show about the code

The violated runs show where a document or a comment and the code disagree: the opposite
nestings, the loop that is left after ten chunks, the second close, and the content under
two names. The models contain, besides, what follows.

*Download.*

- The chunk's hash is assigned, not compared (line 275): wrong bytes are taken for the
  chunk, although README 151 has "verify each chunk". A file exactly as long as the
  buffer is not written at all (line 426, remainder 0). `FileIntact` therefore speaks
  of downloads whose bytes were right, of files shorter than the buffer, and says of a
  disk error only that no more than the file is written.
- To connect may fail for want of a descriptor in this dnode (`net.cpp` 91): the source
  is marked offline all the same (line 241), for good. `OneSourceSuffices` counts such a
  failure as one of the source's. A failed `connect` also leaves its socket open
  (`net.cpp` 107).
- There is no timeout. A thread waits for ever for a source that is connected and silent
  (a data server without a thread for the connection), and reads for ever from one that
  closed (`net.cpp` 177), although README 169-170 has the chunk restarted from another
  peer. The join of a thread that was not created is undefined. `DownloadEnds` names
  each of these.
- The scan for the source with the fewest chunks served keeps the first source it meets
  (line 215), so that one source serves everything while it is online.
- A thread that finds no source leaves its chunk marked (line 225). Nobody takes it up
  again; the download ends because every round uses up a chunk.

*Registry and start-up.*

- Two joins within a second get the same uid (`hash.cpp` 36); `SourceAddressed` speaks
  of uids that were given once.
- A dnode that cannot connect to the hub when it starts runs on unregistered
  (`dnode.cpp` 87, 119). What it posts is listed under a uid without an address, and a
  download of it ends the hub with a null pointer; so does, after a restart of the hub,
  what an earlier dnode posts, and at any time the download of a name nobody uploaded.
  `NamesAnswerable` says that a *stored* name meets a null pointer in no other way.
- A dnode killed between creating and writing its uid file comes back with an
  uninitialised uid, and so does one that joins while there is no hub; it may say hello
  under it (`dnode.cpp` 72, 107).
- An upload is reported as a success whether or not there is a hub (line 110).
- A client that dies within a request stops the hub for everybody, and one that dies
  before the answer to its download ends it.

*Upload.*

- The upload of a file that does not exist is a success: bytes of the stack are
  copied and indexed, as many as an uninitialised size says, and the index even matches
  them (`IndexIsOfCopy`).
- A file past the largest `int` ends the dnode or is uploaded in part; a failed read or
  write is not noticed, and after a failed write the rest of the copy is displaced.
- Every hash has its five low bits zero and the sixth one set (`HashNeverZero`); the
  bytes of a last word that is not whole are not in any hash (a TODO in `hash.cpp` 6).

*Sharing.* An overwritten file goes on being listed under its old content, and keeps the
end of a longer one. Downloads that lost pieces, or could not write them, are
acknowledged like others, and uploads that could not write all are posted; what follows
a failed write is displaced. The antecedents of `SourcesSeed` are exactly these cases;
without any one of them it fails.

*Data server.* A read of the file that fails is not noticed, and the client is sent what
the buffer held (line 88). Threads are neither joined nor detached, so that their number
is limited (`NothingLeaks`, `EveryoneAnswered` name the connections left open); a
client that leaves and a table that is full end the whole dnode.

*Hub servers.* Overlapping operations of the two threads are data races. The answer to a
query overruns its memory, and what is sent is the pointer and what lies behind it, not
the list (`hub_req_server.cpp` 112). The second part of an answer to a client that has
left ends the hub.

## 6. Not modelled, and the plan

Next: an abstract specification of the registry (names that keep their content, sources
that are only added), implemented by `HubServers` while no operations collide; the
refinement of an upload that meets no error to one that copies the file at once.

Left out: the messages of the RPC client and the checks of its arguments,
`naive_download` (not called), parsing of addresses and command lines, the making of
directories, wording of messages, `handle_hub_hello` (empty), lengths of names (taken
to fit their fields, 64 bytes), and an answer of the hub that arrives in pieces (line 515: a short
`recv` leaves every count and size of the download arbitrary). Of failing calls: the
read of an intact uid file (`dnode.cpp` 71-73, so that `UidKept` is about kills and not
about the disk), the hub's `accept`, `close`, and the sockets that failed connects leave
open, of which only the effect is modelled (connects that fail).
