---------------------------- MODULE SharingProofs ----------------------------
(***************************************************************************)
(* Uploads and downloads for every number of dnodes, names, contents,      *)
(* requests and faults, and every size of chunks and buffers.              *)
(*                                                                         *)
(* Three invariants, each on top of the one before.  Named: nothing goes   *)
(* under a name or a content that was not uploaded so.  Placed: a piece    *)
(* stays at its index on the way from a disk over the window of a download *)
(* and the buffer of its writer to another disk, and gets nearer to the    *)
(* start where a writer has left a part of its buffer out.  Seeded: for a  *)
(* name and a content given to each other only, each file of that name is  *)
(* a first part of the content, and the whole of it with every listed      *)
(* source.                                                                 *)
(***************************************************************************)
EXTENDS Sharing, SequenceTheorems, TLAPS

\* Requests are for what was uploaded, and so are entries of the hub.
Named ==
    /\ \A d \in Dnodes : rpc[d].at # "idle" => <<rpc[d].name, rpc[d].content>> \in uploaded
    /\ \A n \in Names : fname[n] # Nil => <<n, fname[n]>> \in uploaded
    /\ \A c \in Contents : sources[c] # <<>> => \E n \in Names : <<n, c>> \in uploaded
    /\ \A d \in Dnodes, n \in Names :
        files[d][n] # <<>> => \E c \in Contents : <<n, c>> \in uploaded

\* What PiecesKeepTheirPlace asks of a piece.
InPlace(n, i, x) ==
    \/ x = Garbage
    \/ \E c \in Contents : \E k \in i .. Length[c] :
        <<n, c>> \in uploaded /\ x = Piece(c, k) /\ (k = i \/ n \in torn)

WindowSize(c) == IF Length[c] < Window THEN Length[c] ELSE Window

\* A writer has written what it is past; a fetcher's sources are still listed.
PlacedRequest(d, r) ==
    /\ r.at = "copying" =>
        /\ r.next \in 1 .. Len(r.buffer) + 1
        /\ r.offset \in 1 .. r.next /\ r.offset <= Len(files[d][r.name]) + 1
        /\ r.offset = r.next \/ r.next > Len(r.buffer) \/ r.name \in torn
        /\ \A i \in DOMAIN r.buffer : InPlace(r.name, i, r.buffer[i])
    /\ r.at = "fetching" =>
        /\ DOMAIN r.window = 1 .. WindowSize(r.content)
        /\ \A i \in DOMAIN r.window :
            r.window[i] \in {Missing, Lost, Hung} \/ InPlace(r.name, i, r.window[i])
        /\ \A j \in DOMAIN r.from : r.from[j] \in ToSet(sources[r.content])

Placed ==
    /\ \A d \in Dnodes : PlacedRequest(d, rpc[d])
    /\ \A d \in Dnodes, n \in Names :
        \A i \in DOMAIN files[d][n] : InPlace(n, i, files[d][n][i])

\* What SourcesSeed asks of a name and a content.
Solo(n, c) == <<n, c>> \in uploaded /\ OneToOne(n, c) /\ Length[c] < Window /\ c \notin lossy

SeededRequest(r, c) ==
    /\ r.at = "copying" => r.buffer = Whole(c) /\ r.offset = r.next
    /\ r.at = "fetching" =>
        \A i \in DOMAIN r.window : r.window[i] \in {Missing, Hung, Piece(c, i)}

SeededFile(d, n, c) ==
    /\ Len(files[d][n]) <= Length[c]
    /\ \A i \in DOMAIN files[d][n] : files[d][n][i] = Piece(c, i)
    /\ \/ d \in ToSet(sources[c])
       \/ rpc[d].at = "reported" /\ rpc[d].name = n
       => Len(files[d][n]) = Length[c]

SeededAt(d, n, c) ==
    /\ SeededFile(d, n, c)
    /\ rpc[d].at # "idle" /\ rpc[d].name = n => SeededRequest(rpc[d], c)

Seeded ==
    \A n \in Names, c \in Contents : Solo(n, c) => \A d \in Dnodes : SeededAt(d, n, c)

-----------------------------------------------------------------------------
(* Pieces, files and requests. *)

Fetched == Pieces \cup {Missing, Lost, Hung}

\* Pieces of different contents or places differ, and none is a mark of the window.
LEMMA PieceFacts ==
    /\ Garbage \in Pieces
    /\ \A c \in Contents : \A i \in 1 .. Length[c] : Piece(c, i) \in Pieces
    /\ \A c, d, i, j : Piece(c, i) = Piece(d, j) => c = d /\ i = j
    /\ Missing # Lost /\ Missing # Hung /\ Lost # Hung
    /\ {Missing, Lost, Hung} \cap Pieces = {}
    /\ \A c \in Contents : \A i : Piece(c, i) \notin {Garbage, Missing, Lost, Hung}
<1>1. /\ Garbage \in Pieces
      /\ \A c \in Contents : \A i \in 1 .. Length[c] : Piece(c, i) \in Pieces
    BY DEF Pieces
<1>2. \A c, d, i, j : Piece(c, i) = Piece(d, j) => c = d /\ i = j
    BY DEF Piece
<1>3. Missing # Lost /\ Missing # Hung /\ Lost # Hung
    BY DEF Missing, Lost, Hung
<1>4. \A c \in Contents : \A i : Piece(c, i) \notin {Garbage, Missing, Lost, Hung}
    BY SharingAssumption DEF Piece, Garbage, Missing, Lost, Hung
<1>5. Garbage \notin {Missing, Lost, Hung}
    BY DEF Garbage, Missing, Lost, Hung
<1>6. {Missing, Lost, Hung} \cap Pieces = {}
    BY <1>4, <1>5 DEF Pieces
<1>7. QED
    BY <1>1, <1>2, <1>3, <1>4, <1>6

\* A whole content, place by place.
LEMMA WholeFacts ==
    ASSUME NEW c \in Contents
    PROVE  /\ Length[c] \in Nat \ {0}
           /\ Whole(c) \in Seq(Pieces) /\ Len(Whole(c)) = Length[c]
           /\ DOMAIN Whole(c) = 1 .. Length[c]
           /\ \A i \in 1 .. Length[c] : Whole(c)[i] = Piece(c, i)
<1>1. Length[c] \in Nat \ {0}
    BY SharingAssumption
<1>2. Whole(c) \in [1 .. Length[c] -> Pieces]
    BY PieceFacts DEF Whole
<1>3. Whole(c) \in Seq(Pieces)
    BY <1>1, <1>2, SeqDef
<1>4. DOMAIN Whole(c) = 1 .. Length[c]
    BY <1>2
<1>5. Len(Whole(c)) = Length[c]
    BY <1>1, <1>3, <1>4, LenProperties
<1>6. QED
    BY <1>1, <1>3, <1>4, <1>5 DEF Whole

\* The size of a window.
LEMMA WindowFacts ==
    ASSUME NEW c \in Contents
    PROVE  /\ WindowSize(c) \in Nat \ {0}
           /\ WindowSize(c) <= Window /\ WindowSize(c) <= Length[c]
           /\ Length[c] < Window => WindowSize(c) = Length[c]
BY SharingAssumption DEF WindowSize

\* What each kind of request has.
LEMMA RequestFacts ==
    ASSUME NEW r \in Requests
    PROVE  /\ r.at \in {"idle", "copying", "reported", "fetching"}
           /\ r.at # "idle" => r.name \in Names /\ r.content \in Contents
           /\ r.at \in {"copying", "reported"} => r.post \in {"upload", "ack"}
           /\ r.at = "copying" => r.buffer \in Seq(Pieces) /\ r.next \in Nat /\ r.offset \in Nat
           /\ r.at = "fetching" =>
                /\ r.from \in Seq(Dnodes) /\ r.refused \in SUBSET Nat
                /\ r.window \in Seq(Fetched)
BY DEF Requests, Idle, Fetched

\* The requests that the actions make.
LEMMA NewCopying ==
    ASSUME NEW n \in Names, NEW c \in Contents, NEW post \in {"upload", "ack"},
           NEW b \in Seq(Pieces)
    PROVE  LET r == Copying(post, n, c, b) IN
           /\ r \in Requests
           /\ r.at = "copying" /\ r.post = post /\ r.name = n /\ r.content = c
           /\ r.buffer = b /\ r.next = 1 /\ r.offset = 1
BY DEF Requests, Copying

\* A download that starts has nothing yet.
LEMMA NewFetching ==
    ASSUME NEW n \in Names, NEW c \in Contents, NEW from \in Seq(Dnodes)
    PROVE  LET r == Fetching(n, c, from) IN
           /\ r \in Requests
           /\ r.at = "fetching" /\ r.name = n /\ r.content = c /\ r.from = from
           /\ r.refused = {} /\ DOMAIN r.window = 1 .. WindowSize(c)
           /\ \A i \in DOMAIN r.window : r.window[i] = Missing
<1> DEFINE w == [i \in 1 .. WindowSize(c) |-> Missing]
<1>1. w \in [1 .. WindowSize(c) -> Fetched] /\ WindowSize(c) \in Nat
    BY WindowFacts DEF Fetched
<1>2. w \in Seq(Fetched)
    BY <1>1, SeqDef
<1>3. DOMAIN w = 1 .. WindowSize(c) /\ \A i \in 1 .. WindowSize(c) : w[i] = Missing
    OBVIOUS
<1>4. Fetching(n, c, from) =
        [at |-> "fetching", name |-> n, content |-> c, from |-> from, refused |-> {},
         window |-> w]
    BY DEF Fetching, WindowSize
<1> HIDE DEF w
<1>5. QED
    BY <1>2, <1>3, <1>4 DEF Requests, Fetched

\* A write moves no other piece, and is over or right behind what is there.
LEMMA PutFacts ==
    ASSUME NEW f \in Seq(Pieces), NEW i \in 1 .. Len(f) + 1, NEW x \in Pieces
    PROVE  /\ Put(f, i, x) \in Seq(Pieces)
           /\ Len(Put(f, i, x)) = IF i <= Len(f) THEN Len(f) ELSE i
           /\ Put(f, i, x)[i] = x
           /\ \A j \in 1 .. Len(f) : j # i => Put(f, i, x)[j] = f[j]
<1>1. Len(f) \in Nat /\ DOMAIN f = 1 .. Len(f)
    BY LenProperties
<1>2. CASE i <= Len(f)
    <2>1. Put(f, i, x) = [f EXCEPT ![i] = x] /\ i \in 1 .. Len(f)
        BY <1>1, <1>2 DEF Put
    <2>2. /\ [f EXCEPT ![i] = x] \in Seq(Pieces)
          /\ Len([f EXCEPT ![i] = x]) = Len(f)
          /\ [f EXCEPT ![i] = x][i] = x
          /\ \A j \in 1 .. Len(f) : j # i => [f EXCEPT ![i] = x][j] = f[j]
        BY <1>1, <2>1, ExceptSeq
    <2>3. QED
        BY <1>1, <1>2, <2>1, <2>2
<1>3. CASE ~(i <= Len(f))
    <2>1. Put(f, i, x) = Append(f, x) /\ i = Len(f) + 1
        BY <1>1, <1>3 DEF Put
    <2>2. /\ Append(f, x) \in Seq(Pieces) /\ Len(Append(f, x)) = Len(f) + 1
          /\ \A j \in 1 .. Len(f) : Append(f, x)[j] = f[j]
          /\ Append(f, x)[Len(f) + 1] = x
        BY AppendProperties
    <2>3. QED
        BY <1>3, <2>1, <2>2
<1>4. QED
    BY <1>2, <1>3

\* The rest of a division, as % computes it.
LEMMA ModFacts ==
    ASSUME NEW a \in Nat, NEW b \in Nat \ {0}
    PROVE  a % b \in Nat /\ a % b < b /\ (a < b => a % b = a) /\ (a = b => a % b = 0)
OBVIOUS

\* What is written of a window is what it holds, at the same places.
LEMMA ToWriteFacts ==
    ASSUME NEW r \in Requests, r.at = "fetching", DOMAIN r.window = 1 .. WindowSize(r.content),
           \A i \in DOMAIN r.window : r.window[i] \notin {Missing, Hung}
    PROVE  /\ ToWrite(r) \in Seq(Pieces)
           /\ \A i \in DOMAIN ToWrite(r) :
                \/ ToWrite(r)[i] = Garbage
                \/ i \in DOMAIN r.window /\ r.window[i] # Lost /\ ToWrite(r)[i] = r.window[i]
           /\ Length[r.content] < Window /\ (\A i \in DOMAIN r.window : r.window[i] # Lost) =>
                /\ DOMAIN ToWrite(r) = 1 .. Length[r.content]
                /\ \A i \in DOMAIN ToWrite(r) : ToWrite(r)[i] = r.window[i]
<1> DEFINE w == r.window
           k == WindowSize(r.content)
<1>1. /\ r.content \in Contents /\ w \in Seq(Fetched) /\ k \in Nat \ {0} /\ k <= Window
      /\ Window \in Nat \ {0} /\ Length[r.content] \in Nat
      /\ Length[r.content] < Window => k = Length[r.content]
    BY RequestFacts, WindowFacts, SharingAssumption
<1>2. DOMAIN w = 1 .. k /\ Len(w) = k
    BY <1>1, LenProperties
<1>3. \A i \in 1 .. k : w[i] # Lost => w[i] \in Pieces
    <2>1. \A i \in 1 .. k : w[i] \in Fetched
        BY <1>1, <1>2, ElementOfSeq
    <2>2. QED
        BY <1>2, <2>1 DEF Fetched
<1>4. Complete(r) <=> k = Length[r.content] /\ \A i \in 1 .. k : w[i] # Lost
    BY <1>2 DEF Complete
<1>5. CASE Complete(r)
    <2> DEFINE m == k % Window
    <2>1. m \in Nat /\ m <= k /\ (k < Window => m = k)
        BY <1>1, ModFacts
    <2>2. ToWrite(r) = SubSeq(w, 1, m)
        BY <1>2, <1>5 DEF ToWrite
    <2> HIDE DEF m
    <2>3. \A i \in 1 .. m : w[i] \in Pieces /\ i \in 1 .. k /\ w[i] # Lost
        BY <1>1, <1>3, <1>4, <1>5, <2>1
    <2>4. /\ SubSeq(w, 1, m) \in Seq(Pieces)
          /\ Len(SubSeq(w, 1, m)) = m
          /\ \A i \in 1 .. m : SubSeq(w, 1, m)[i] = w[i]
        <3>1. /\ SubSeq(w, 1, m) \in Seq(Pieces)
              /\ Len(SubSeq(w, 1, m)) = IF 1 <= m THEN m - 1 + 1 ELSE 0
              /\ \A i \in 1 .. m - 1 + 1 : SubSeq(w, 1, m)[i] = w[1 + i - 1]
            BY <2>1, <2>3, SubSeqProperties
        <3>2. QED
            BY <2>1, <3>1
    <2>5. DOMAIN SubSeq(w, 1, m) = 1 .. m
        BY <2>4, LenProperties
    <2>6. QED
        BY <1>1, <1>2, <1>4, <1>5, <2>1, <2>2, <2>3, <2>4, <2>5
<1>6. CASE ~Complete(r)
    <2> DEFINE v == [i \in 1 .. Window |-> IF i \in DOMAIN w /\ w[i] # Lost THEN w[i] ELSE Garbage]
    <2>1. ToWrite(r) = v
        BY <1>6 DEF ToWrite
    <2>2. v \in [1 .. Window -> Pieces]
        BY <1>2, <1>3, PieceFacts
    <2>3. v \in Seq(Pieces)
        BY <1>1, <2>2, SeqDef
    <2>4. \A i \in DOMAIN v : v[i] = Garbage \/ (i \in DOMAIN w /\ w[i] # Lost /\ v[i] = w[i])
        OBVIOUS
    <2>5. ~(Length[r.content] < Window /\ \A i \in DOMAIN w : w[i] # Lost)
        BY <1>1, <1>2, <1>4, <1>6
    <2> HIDE DEF v
    <2>6. QED
        BY <2>1, <2>3, <2>4, <2>5
<1>7. QED
    BY <1>5, <1>6

-----------------------------------------------------------------------------
(* What the actions do. *)

\* Nobody but d moves.
Others(d) == \A e \in Dnodes \ {d} : rpc'[e] = rpc[e]

Turns(d, r) == rpc' = [rpc EXCEPT ![d] = r]

\* The request of one dnode changes.
LEMMA TurnFrame ==
    ASSUME TypeOK, NEW d \in Dnodes, NEW r \in Requests, Turns(d, r)
    PROVE  rpc' \in [Dnodes -> Requests] /\ rpc'[d] = r /\ Others(d)
BY DEF TypeOK, Turns, Others

\* The hub, told of a content, lists one more source at the end.
LEMMA ListFrame ==
    ASSUME TypeOK, NEW d \in Dnodes, NEW c \in Contents,
           sources' = [sources EXCEPT ![c] = Append(sources[c], d)]
    PROVE  /\ sources' \in [Contents -> Seq(Dnodes)]
           /\ \A b \in Contents \ {c} : sources'[b] = sources[b]
           /\ ToSet(sources'[c]) = ToSet(sources[c]) \cup {d}
<1>1. sources[c] \in Seq(Dnodes)
    BY DEF TypeOK
<1> DEFINE s == Append(sources[c], d)
<1>2. /\ s \in Seq(Dnodes) /\ Len(s) = Len(sources[c]) + 1
      /\ \A i \in 1 .. Len(sources[c]) : s[i] = sources[c][i]
      /\ s[Len(sources[c]) + 1] = d
    BY <1>1, AppendProperties
<1>3. DOMAIN s = 1 .. Len(sources[c]) + 1 /\ DOMAIN sources[c] = 1 .. Len(sources[c])
    BY <1>1, <1>2, LenProperties
<1>4. Len(sources[c]) \in Nat
    BY <1>1, LenProperties
<1> HIDE DEF s
<1>5. ToSet(s) = ToSet(sources[c]) \cup {d}
    BY <1>2, <1>3, <1>4 DEF ToSet
<1>6. sources' = [sources EXCEPT ![c] = s]
    BY DEF s
<1>7. QED
    BY <1>2, <1>5, <1>6 DEF TypeOK

\* A piece is copied to its place in the file of the request.
LEMMA CopyFrame ==
    ASSUME TypeOK, Placed, NEW d \in Dnodes, Copy(d)
    PROVE  LET r == rpc[d]
               q == rpc'[d]
               f == files[d][r.name]
               x == r.buffer[r.next]
           IN
           /\ UNCHANGED <<running, hubVars, history, requests, faults>>
           /\ rpc' \in [Dnodes -> Requests] /\ Others(d)
           /\ r.at = "copying" /\ r.next \in 1 .. Len(r.buffer)
           /\ r.offset \in 1 .. r.next /\ r.offset \in 1 .. Len(f) + 1
           /\ q.at = "copying" /\ q.name = r.name /\ q.content = r.content
           /\ q.buffer = r.buffer /\ q.next = r.next + 1 /\ q.offset = r.offset + 1
           /\ x \in Pieces /\ f \in Seq(Pieces) /\ r.name \in Names
           /\ files' \in [Dnodes -> [Names -> Seq(Pieces)]]
           /\ files'[d][r.name] = Put(f, r.offset, x)
           /\ \A e \in Dnodes, n \in Names :
                ~(e = d /\ n = r.name) => files'[e][n] = files[e][n]
<1> DEFINE r == rpc[d]
           f == files[d][r.name]
           x == r.buffer[r.next]
           C == [at : {"copying"}, post : {"upload", "ack"}, name : Names, content : Contents,
                 buffer : Seq(Pieces), next : Nat, offset : Nat]
           q == [r EXCEPT !.next = r.next + 1, !.offset = r.offset + 1]
<1>1. /\ r.at = "copying" /\ r.next <= Len(r.buffer)
      /\ files' = [files EXCEPT ![d][r.name] = Put(f, r.offset, x)]
      /\ UNCHANGED <<running, hubVars, history, requests, faults>>
    BY DEF Copy
<1>2. /\ r \in Requests /\ r.name \in Names /\ f \in Seq(Pieces)
      /\ r.buffer \in Seq(Pieces) /\ r.next \in Nat /\ r.offset \in Nat
    BY <1>1, RequestFacts DEF TypeOK
<1>3. rpc' = [rpc EXCEPT ![d] = q]
    BY <1>2 DEF Copy, TypeOK
<1>4. /\ r.next \in 1 .. Len(r.buffer)
      /\ r.offset \in 1 .. r.next /\ r.offset \in 1 .. Len(f) + 1
    <2>1. /\ r.next \in 1 .. Len(r.buffer) + 1 /\ r.offset \in 1 .. r.next
          /\ r.offset <= Len(f) + 1
        BY <1>1 DEF Placed, PlacedRequest
    <2>2. Len(r.buffer) \in Nat /\ Len(f) \in Nat
        BY <1>2, LenProperties
    <2>3. QED
        BY <1>1, <2>1, <2>2
<1>5. x \in Pieces
    BY <1>2, <1>4, ElementOfSeq
<1> HIDE DEF x
<1>6. Put(f, r.offset, x) \in Seq(Pieces)
    BY <1>2, <1>4, <1>5, PutFacts
<1>7. /\ files' \in [Dnodes -> [Names -> Seq(Pieces)]]
      /\ files'[d][r.name] = Put(f, r.offset, x)
      /\ \A e \in Dnodes, n \in Names :
            ~(e = d /\ n = r.name) => files'[e][n] = files[e][n]
    BY <1>1, <1>2, <1>6 DEF TypeOK
<1>8. r \in C
    BY <1>1, <1>2 DEF Requests, Idle
<1>9. /\ q \in C /\ q.at = "copying" /\ q.name = r.name /\ q.content = r.content
      /\ q.buffer = r.buffer /\ q.next = r.next + 1 /\ q.offset = r.offset + 1
    <2>1. r.next + 1 \in Nat /\ r.offset + 1 \in Nat
        BY <1>2
    <2> HIDE DEF r
    <2>2. QED
        BY <1>1, <1>8, <2>1
<1>10. q \in Requests
    BY <1>9 DEF Requests
<1>11. rpc' \in [Dnodes -> Requests] /\ rpc'[d] = q /\ Others(d)
    BY <1>3, <1>10, TurnFrame DEF Turns
<1> HIDE DEF q
<1>12. QED
    BY <1>1, <1>2, <1>4, <1>5, <1>7, <1>9, <1>11 DEF x

\* The file a writer writes, piece by piece.
LEMMA CopyPut ==
    ASSUME TypeOK, Placed, NEW d \in Dnodes, Copy(d)
    PROVE  LET r == rpc[d]
               f == files[d][r.name]
               g == files'[d][r.name]
           IN
           /\ Len(f) \in Nat /\ r.offset \in 1 .. Len(f) + 1 /\ r.next \in DOMAIN r.buffer
           /\ Len(g) = IF r.offset <= Len(f) THEN Len(f) ELSE r.offset
           /\ g[r.offset] = r.buffer[r.next]
           /\ \A j \in 1 .. Len(f) : j # r.offset => g[j] = f[j]
<1> DEFINE r == rpc[d]
           f == files[d][r.name]
<1>1. /\ r.next \in 1 .. Len(r.buffer) /\ r.offset \in 1 .. Len(f) + 1
      /\ r.buffer[r.next] \in Pieces /\ f \in Seq(Pieces) /\ r.at = "copying"
      /\ files'[d][r.name] = Put(f, r.offset, r.buffer[r.next])
    BY CopyFrame
<1>2. r.buffer \in Seq(Pieces) /\ Len(f) \in Nat
    BY <1>1, RequestFacts, LenProperties DEF TypeOK
<1>3. r.next \in DOMAIN r.buffer
    BY <1>1, <1>2, LenProperties
<1>4. PICK old, k, y : old = f /\ k = r.offset /\ y = r.buffer[r.next]
    OBVIOUS
<1>5. /\ Len(Put(old, k, y)) = IF k <= Len(old) THEN Len(old) ELSE k
      /\ Put(old, k, y)[k] = y
      /\ \A j \in 1 .. Len(old) : j # k => Put(old, k, y)[j] = old[j]
    <2>1. old \in Seq(Pieces) /\ k \in 1 .. Len(old) + 1 /\ y \in Pieces
        BY <1>1, <1>4
    <2>2. Len(Put(old, k, y)) = IF k <= Len(old) THEN Len(old) ELSE k
        BY <2>1, PutFacts
    <2>3. Put(old, k, y)[k] = y
        BY <2>1, PutFacts
    <2>4. ASSUME NEW j \in 1 .. Len(old), j # k PROVE Put(old, k, y)[j] = old[j]
        BY <2>1, <2>4, PutFacts
    <2>5. QED
        BY <2>2, <2>3, <2>4
<1>6. QED
    BY <1>1, <1>2, <1>3, <1>4, <1>5

\* A call that fails leaves a part of the buffer out.
LEMMA FailFrame ==
    ASSUME TypeOK, Placed, NEW d \in Dnodes, WriteFails(d)
    PROVE  LET r == rpc[d]
               q == rpc'[d]
           IN
           /\ UNCHANGED <<files, running, hubVars, uploaded, requests>>
           /\ faults' \in 0 .. MaxFaults
           /\ rpc' \in [Dnodes -> Requests] /\ Others(d)
           /\ r.at = "copying" /\ r.name \in Names /\ r.content \in Contents
           /\ q.at = "copying" /\ q.name = r.name /\ q.content = r.content
           /\ q.buffer = r.buffer /\ q.offset = r.offset
           /\ r.next \in Nat /\ Len(r.buffer) \in Nat
           /\ q.next \in r.next + 1 .. Len(r.buffer) + 1
           /\ lossy' = lossy \cup {r.content}
           /\ torn' \in {torn, torn \cup {r.name}}
           /\ q.next > Len(r.buffer) \/ r.name \in torn'
<1> DEFINE r == rpc[d]
           C == [at : {"copying"}, post : {"upload", "ack"}, name : Names, content : Contents,
                 buffer : Seq(Pieces), next : Nat, offset : Nat]
<1>1. PICK i \in r.next .. Len(r.buffer) :
        Ends(r, i) /\ rpc' = [rpc EXCEPT ![d] = [r EXCEPT !.next = i + 1]]
    BY DEF WriteFails, TypeOK
<1> DEFINE q == [r EXCEPT !.next = i + 1]
<1>2. /\ r.at = "copying" /\ lossy' = lossy \cup {r.content}
      /\ torn' = IF r.post = "upload" THEN torn \cup {r.name} ELSE torn
      /\ UNCHANGED <<files, running, hubVars, uploaded, requests>>
      /\ faults < MaxFaults /\ faults' = faults + 1
    BY DEF WriteFails
<1>3. faults' \in 0 .. MaxFaults
    BY <1>2, SharingAssumption DEF TypeOK
<1>4. /\ r \in Requests /\ r.name \in Names /\ r.content \in Contents
      /\ r.buffer \in Seq(Pieces) /\ r.next \in Nat /\ r.offset \in Nat
    BY <1>2, RequestFacts DEF TypeOK
<1>5. r \in C
    BY <1>2, <1>4 DEF Requests, Idle
<1>6. Len(r.buffer) \in Nat
    BY <1>4, LenProperties
<1>7. i + 1 \in Nat /\ i + 1 \in r.next + 1 .. Len(r.buffer) + 1
    BY <1>4, <1>6
<1>8. /\ q \in C /\ q.at = "copying" /\ q.name = r.name /\ q.content = r.content
      /\ q.buffer = r.buffer /\ q.next = i + 1 /\ q.offset = r.offset
    BY <1>5, <1>7
<1>9. q \in Requests
    BY <1>8 DEF Requests
<1>10. rpc' \in [Dnodes -> Requests] /\ Others(d) /\ rpc'[d] = q
    BY <1>1, <1>9, TurnFrame DEF Turns
<1>11. i + 1 > Len(r.buffer) \/ r.name \in torn'
    BY <1>1, <1>2, <1>6 DEF Ends
<1> HIDE DEF q
<1>12. QED
    BY <1>2, <1>3, <1>4, <1>6, <1>7, <1>8, <1>10, <1>11

\* The whole buffer is written; the hub may be told.
LEMMA PostFrame ==
    ASSUME TypeOK, NEW d \in Dnodes, Post(d)
    PROVE  LET r == rpc[d]
               q == rpc'[d]
           IN
           /\ UNCHANGED <<files, running, history, requests, faults>>
           /\ rpc' \in [Dnodes -> Requests] /\ Others(d)
           /\ r.at = "copying" /\ r.next > Len(r.buffer)
           /\ r.name \in Names /\ r.content \in Contents
           /\ q.at = "reported" /\ q.name = r.name /\ q.content = r.content
           /\ sources' \in [Contents -> Seq(Dnodes)]
           /\ \A c \in Contents :
                \/ ToSet(sources'[c]) = ToSet(sources[c]) /\ sources'[c] = sources[c]
                \/ c = r.content /\ ToSet(sources'[c]) = ToSet(sources[c]) \cup {d}
           /\ fname' \in [Names -> Contents \cup {Nil}]
           /\ \A n \in Names : fname'[n] = fname[n] \/ (n = r.name /\ fname'[n] = r.content)
<1> DEFINE r == rpc[d]
           q == Reported(r)
<1>1. /\ r.at = "copying" /\ r.next > Len(r.buffer) /\ Turns(d, q)
      /\ UNCHANGED <<files, running, history, requests, faults>>
    BY DEF Post, Turns, TypeOK
<1>2. r.name \in Names /\ r.content \in Contents /\ r.post \in {"upload", "ack"}
    BY <1>1, RequestFacts DEF TypeOK
<1>3. q \in Requests /\ q.at = "reported" /\ q.name = r.name /\ q.content = r.content
    BY <1>2 DEF Reported, Requests
<1> HIDE DEF q
<1>4. rpc' \in [Dnodes -> Requests] /\ Others(d) /\ rpc'[d] = q
    BY <1>1, <1>3, TurnFrame
<1>5. \/ sources' = [sources EXCEPT ![r.content] = Append(sources[r.content], d)]
      \/ sources' = sources
    BY <1>2 DEF Post, HandleUpload, HandleAck, hubVars, TypeOK
<1>6. /\ sources' \in [Contents -> Seq(Dnodes)]
      /\ \A c \in Contents :
                \/ ToSet(sources'[c]) = ToSet(sources[c]) /\ sources'[c] = sources[c]
                \/ c = r.content /\ ToSet(sources'[c]) = ToSet(sources[c]) \cup {d}
    <2>1. CASE sources' = sources
        BY <2>1 DEF TypeOK
    <2>2. CASE sources' = [sources EXCEPT ![r.content] = Append(sources[r.content], d)]
        BY <1>2, <2>2, ListFrame
    <2>3. QED
        BY <1>5, <2>1, <2>2
<1>7. fname' = fname \/ fname' = [fname EXCEPT ![r.name] = r.content]
    BY DEF Post, HandleUpload, HandleAck, hubVars
<1>8. QED
    BY <1>1, <1>2, <1>3, <1>4, <1>6, <1>7 DEF TypeOK


\* Where a piece of a window comes from: a source's file of the same name.
FromSource(r, i, x) ==
    \E j \in DOMAIN r.from :
        i \in DOMAIN files[r.from[j]][r.name] /\ x = files[r.from[j]][r.name][i]

\* A source's file ends within the window.
TooShort(r) ==
    \E j \in DOMAIN r.from : ~(DOMAIN r.window \subseteq DOMAIN files[r.from[j]][r.name])

\* What a thread may put into a window.
Fetchable(r, i, x) ==
    \/ x = Hung
    \/ x = Lost /\ r.content \in lossy'
    \/ FromSource(r, i, x)
    \/ x = Garbage /\ (r.content \in lossy' \/ TooShort(r))

\* The steps of the threads of a download.
Answered(d, k) == Fetch(d, k) \/ FetchMisread(d, k)
Unanswered(d, k) == FetchTooShort(d, k) \/ FetchCutOff(d, k) \/ Lose(d, k)
Fetches(d) ==
    \E k \in 1 .. Window \div ChunkSize :
        Answered(d, k) \/ Unanswered(d, k) \/ Refusal(d, k)

\* A request with one piece of its window filled.
LEMMA SetPart ==
    ASSUME NEW r \in Requests, r.at = "fetching", NEW k, NEW v,
           \A i \in Part(r, k) : v[i] \in Fetched
    PROVE  LET q == [r EXCEPT !.window = Filled(r, k, v)] IN
           /\ q \in Requests
           /\ q.at = "fetching" /\ q.name = r.name /\ q.content = r.content
           /\ q.from = r.from /\ q.refused = r.refused
           /\ DOMAIN q.window = DOMAIN r.window
           /\ \A i \in DOMAIN r.window :
                q.window[i] = r.window[i] \/ (i \in Part(r, k) /\ q.window[i] = v[i])
<1> DEFINE w == Filled(r, k, v)
           F == [at : {"fetching"}, name : Names, content : Contents, from : Seq(Dnodes),
                 refused : SUBSET Nat, window : Seq(Fetched)]
<1>1. r.window \in Seq(Fetched) /\ r \in F
    BY RequestFacts DEF Requests, Idle, Fetched
<1>2. DOMAIN r.window = 1 .. Len(r.window) /\ Len(r.window) \in Nat
    BY <1>1, LenProperties
<1>3. \A i \in DOMAIN r.window : r.window[i] \in Fetched
    BY <1>1, <1>2, ElementOfSeq
<1>4. w \in [1 .. Len(r.window) -> Fetched]
    BY <1>2, <1>3 DEF Filled
<1>5. w \in Seq(Fetched)
    BY <1>2, <1>4, SeqDef
<1>6. /\ DOMAIN w = DOMAIN r.window
      /\ \A i \in DOMAIN r.window : w[i] = r.window[i] \/ (i \in Part(r, k) /\ w[i] = v[i])
    BY DEF Filled
<1> HIDE DEF w
<1> DEFINE q == [r EXCEPT !.window = w]
<1>7. /\ q \in F /\ q.at = "fetching" /\ q.name = r.name /\ q.content = r.content
      /\ q.from = r.from /\ q.refused = r.refused /\ q.window = w
    BY <1>1, <1>5
<1>8. q \in Requests
    BY <1>7 DEF Requests, Fetched
<1> HIDE DEF q
<1>9. QED
    BY <1>6, <1>7, <1>8 DEF q, w

\* A data server's answer comes from its file, or its reading failed.
LEMMA AnsweredPieces ==
    ASSUME TypeOK, NEW d \in Dnodes, NEW k, Answered(d, k)
    PROVE  \E v :
            /\ rpc' = [rpc EXCEPT ![d] = [rpc[d] EXCEPT !.window = Filled(rpc[d], k, v)]]
            /\ \A i \in Part(rpc[d], k) : v[i] \in Fetched /\ Fetchable(rpc[d], i, v[i])
<1> DEFINE r == rpc[d]
<1>1. r \in Requests /\ r.at = "fetching"
    BY DEF Answered, Fetch, FetchMisread, Busy, TypeOK
<1>2. PICK j \in DOMAIN r.from :
        /\ Part(r, k) \subseteq DOMAIN Asked(d, j)
        /\ \/ rpc' = [rpc EXCEPT ![d].window = Filled(r, k, Asked(d, j))]
           \/ /\ r.content \in lossy'
              /\ \E i \in Part(r, k) :
                    rpc' = [rpc EXCEPT ![d].window =
                            Filled(r, k, [l \in Part(r, k) |->
                                            IF l < i THEN Asked(d, j)[l] ELSE Garbage])]
    BY DEF Answered, Fetch, FetchMisread
<1>3. Asked(d, j) \in Seq(Pieces)
    BY <1>1, RequestFacts, LenProperties DEF Asked, TypeOK
<1>4. \A i \in Part(r, k) : Asked(d, j)[i] \in Pieces /\ FromSource(r, i, Asked(d, j)[i])
    <2>1. DOMAIN Asked(d, j) = 1 .. Len(Asked(d, j))
        BY <1>3, LenProperties
    <2>2. \A i \in DOMAIN Asked(d, j) : Asked(d, j)[i] \in Pieces
        BY <1>3, <2>1, ElementOfSeq
    <2>3. QED
        BY <1>2, <2>2 DEF FromSource, Asked
<1>5. CASE rpc' = [rpc EXCEPT ![d].window = Filled(r, k, Asked(d, j))]
    BY <1>4, <1>5 DEF TypeOK, Fetched, Fetchable
<1>6. ASSUME r.content \in lossy', NEW i \in Part(r, k),
             rpc' = [rpc EXCEPT ![d].window =
                        Filled(r, k, [l \in Part(r, k) |->
                                        IF l < i THEN Asked(d, j)[l] ELSE Garbage])]
      PROVE  \E v :
                /\ rpc' = [rpc EXCEPT ![d] = [r EXCEPT !.window = Filled(r, k, v)]]
                /\ \A l \in Part(r, k) : v[l] \in Fetched /\ Fetchable(r, l, v[l])
    <2> DEFINE v == [l \in Part(r, k) |-> IF l < i THEN Asked(d, j)[l] ELSE Garbage]
    <2>1. \A l \in Part(r, k) : v[l] \in Fetched /\ Fetchable(r, l, v[l])
        <3>1. \A l \in Part(r, k) : v[l] = Asked(d, j)[l] \/ v[l] = Garbage
            OBVIOUS
        <3> HIDE DEF v
        <3>2. QED
            BY <1>4, <1>6, <3>1, PieceFacts DEF Fetched, Fetchable
    <2>2. rpc' = [rpc EXCEPT ![d] = [r EXCEPT !.window = Filled(r, k, v)]]
        BY <1>6 DEF TypeOK
    <2>3. QED
        BY <2>1, <2>2
<1>7. QED
    BY <1>2, <1>5, <1>6

\* Without an answer the pieces are lost or waited for, or a failure is taken
\* for them.
LEMMA UnansweredPieces ==
    ASSUME TypeOK, NEW d \in Dnodes, NEW k, Unanswered(d, k)
    PROVE  \E v :
            /\ rpc' = [rpc EXCEPT ![d] = [rpc[d] EXCEPT !.window = Filled(rpc[d], k, v)]]
            /\ \A i \in Part(rpc[d], k) : v[i] \in Fetched /\ Fetchable(rpc[d], i, v[i])
<1> DEFINE r == rpc[d]
<1>1. PICK mark \in {Hung, Lost, Garbage} :
        /\ rpc' = [rpc EXCEPT ![d].window = Marked(r, k, mark)]
        /\ mark = Lost => r.content \in lossy'
        /\ mark = Garbage =>
            \E j \in DOMAIN r.from : ~(Part(r, k) \subseteq DOMAIN Asked(d, j))
    <2>1. CASE FetchTooShort(d, k)
        BY <2>1, PieceFacts DEF FetchTooShort
    <2>2. CASE FetchCutOff(d, k)
        BY <2>2, PieceFacts DEF FetchCutOff
    <2>3. CASE Lose(d, k)
        BY <2>3, PieceFacts DEF Lose
    <2>4. QED
        BY <2>1, <2>2, <2>3 DEF Unanswered
<1>2. mark = Garbage => TooShort(r)
    BY <1>1 DEF TooShort, Part, Asked
<1> DEFINE v == [i \in Part(r, k) |-> mark]
<1>3. \A i \in Part(r, k) : v[i] \in Fetched /\ Fetchable(r, i, v[i])
    BY <1>1, <1>2, PieceFacts DEF Fetched, Fetchable
<1>4. rpc' = [rpc EXCEPT ![d] = [r EXCEPT !.window = Filled(r, k, v)]]
    BY <1>1 DEF TypeOK, Marked
<1>5. QED
    BY <1>3, <1>4

\* A thread sets one piece of the window, or marks a source offline.
LEMMA FetchFrame ==
    ASSUME TypeOK, NEW d \in Dnodes, Fetches(d)
    PROVE  LET r == rpc[d]
               q == rpc'[d]
           IN
           /\ UNCHANGED <<files, running, hubVars, uploaded, torn, requests>>
           /\ lossy' \in {lossy, lossy \cup {r.content}} /\ faults' \in 0 .. MaxFaults
           /\ rpc' \in [Dnodes -> Requests] /\ Others(d)
           /\ r.at = "fetching" /\ r.name \in Names /\ r.content \in Contents
           /\ q.at = "fetching" /\ q.name = r.name /\ q.content = r.content /\ q.from = r.from
           /\ DOMAIN q.window = DOMAIN r.window
           /\ \A i \in DOMAIN r.window :
                q.window[i] = r.window[i] \/ Fetchable(r, i, q.window[i])
<1> DEFINE r == rpc[d]
<1>1. PICK k \in 1 .. Window \div ChunkSize :
        Answered(d, k) \/ Unanswered(d, k) \/ Refusal(d, k)
    BY DEF Fetches
<1>2. r \in Requests /\ r.at = "fetching"
    BY <1>1 DEF Answered, Unanswered, Fetch, FetchMisread, FetchTooShort, FetchCutOff, Refusal,
                Lose, Busy, TypeOK
<1>3. r.name \in Names /\ r.content \in Contents /\ r.from \in Seq(Dnodes)
    BY <1>2, RequestFacts
<1>4. /\ UNCHANGED <<files, running, hubVars, uploaded, torn, requests>>
      /\ lossy' \in {lossy, lossy \cup {r.content}}
    BY <1>1 DEF Answered, Unanswered, Fetch, FetchMisread, FetchTooShort, FetchCutOff, Refusal,
                Lose, history
<1>5. faults' \in 0 .. MaxFaults
    <2>1. faults' = faults \/ (faults < MaxFaults /\ faults' = faults + 1)
        BY <1>1 DEF Answered, Unanswered, Fetch, FetchMisread, FetchTooShort, FetchCutOff,
                    Refusal, Lose, Fails
    <2>2. QED
        BY <2>1, SharingAssumption DEF TypeOK
<1>6. CASE Refusal(d, k)
    <2>1. PICK j \in DOMAIN r.from : rpc' = [rpc EXCEPT ![d] = [r EXCEPT !.refused = r.refused \cup {j}]]
        BY <1>6 DEF Refusal, TypeOK
    <2> DEFINE F == [at : {"fetching"}, name : Names, content : Contents, from : Seq(Dnodes),
                     refused : SUBSET Nat, window : Seq(Fetched)]
               q == [r EXCEPT !.refused = r.refused \cup {j}]
    <2>2. r \in F /\ j \in Nat
        <3>1. r \in F
            BY <1>2 DEF Requests, Idle, Fetched
        <3>2. j \in Nat
            BY <1>3, LenProperties
        <3>3. QED
            BY <3>1, <3>2
    <2>3. /\ q \in F /\ q.at = "fetching" /\ q.name = r.name /\ q.content = r.content
          /\ q.from = r.from /\ q.window = r.window
        BY <2>2
    <2>4. q \in Requests
        BY <2>3 DEF Requests, Fetched
    <2>5. rpc' \in [Dnodes -> Requests] /\ Others(d) /\ rpc'[d] = q
        BY <2>1, <2>4, TurnFrame DEF Turns
    <2> HIDE DEF q
    <2>6. QED
        BY <1>2, <1>3, <1>4, <1>5, <2>3, <2>5
<1>7. CASE Answered(d, k) \/ Unanswered(d, k)
    <2>1. PICK v :
            /\ rpc' = [rpc EXCEPT ![d] = [r EXCEPT !.window = Filled(r, k, v)]]
            /\ \A i \in Part(r, k) : v[i] \in Fetched /\ Fetchable(r, i, v[i])
        BY <1>7, AnsweredPieces, UnansweredPieces
    <2> DEFINE q == [r EXCEPT !.window = Filled(r, k, v)]
    <2>2. /\ q \in Requests
          /\ q.at = "fetching" /\ q.name = r.name /\ q.content = r.content /\ q.from = r.from
          /\ DOMAIN q.window = DOMAIN r.window
          /\ \A i \in DOMAIN r.window :
                q.window[i] = r.window[i] \/ (i \in Part(r, k) /\ q.window[i] = v[i])
        BY <1>2, <2>1, SetPart
    <2>3. rpc' \in [Dnodes -> Requests] /\ Others(d) /\ rpc'[d] = q
        BY <2>1, <2>2, TurnFrame DEF Turns
    <2> HIDE DEF q
    <2>4. \A i \in DOMAIN r.window : q.window[i] = r.window[i] \/ Fetchable(r, i, q.window[i])
        BY <2>1, <2>2
    <2>5. QED
        BY <1>2, <1>3, <1>4, <1>5, <2>2, <2>3, <2>4
<1>8. QED
    BY <1>1, <1>6, <1>7

\* The window of a download that has all it will get becomes a buffer to write.
LEMMA WriteFrame ==
    ASSUME TypeOK, Placed, NEW d \in Dnodes, WriteWindow(d)
    PROVE  LET r == rpc[d]
               q == rpc'[d]
           IN
           /\ UNCHANGED <<files, running, hubVars, history, requests, faults>>
           /\ rpc' \in [Dnodes -> Requests] /\ Others(d)
           /\ r \in Requests /\ r.at = "fetching" /\ DOMAIN r.window = 1 .. WindowSize(r.content)
           /\ \A i \in DOMAIN r.window : r.window[i] \notin {Missing, Hung}
           /\ r.name \in Names /\ r.content \in Contents
           /\ q.at = "copying" /\ q.name = r.name /\ q.content = r.content
           /\ q.buffer = ToWrite(r) /\ q.next = 1 /\ q.offset = 1
<1> DEFINE r == rpc[d]
           q == Copying("ack", r.name, r.content, ToWrite(r))
<1>1. /\ r \in Requests /\ r.at = "fetching" /\ Turns(d, q)
      /\ \A i \in DOMAIN r.window : r.window[i] \notin {Missing, Hung}
      /\ UNCHANGED <<files, running, hubVars, history, requests, faults>>
    BY DEF WriteWindow, Turns, TypeOK
<1>2. r.name \in Names /\ r.content \in Contents /\ DOMAIN r.window = 1 .. WindowSize(r.content)
    BY <1>1, RequestFacts DEF Placed, PlacedRequest
<1>3. ToWrite(r) \in Seq(Pieces)
    BY <1>1, <1>2, ToWriteFacts
<1>4. /\ q \in Requests /\ q.at = "copying" /\ q.name = r.name /\ q.content = r.content
      /\ q.buffer = ToWrite(r) /\ q.next = 1 /\ q.offset = 1
    BY <1>2, <1>3, NewCopying
<1> HIDE DEF q
<1>5. rpc' \in [Dnodes -> Requests] /\ Others(d) /\ rpc'[d] = q
    BY <1>1, <1>4, TurnFrame
<1>6. QED
    BY <1>1, <1>2, <1>4, <1>5

\* An upload is taken up.
LEMMA UploadFrame ==
    ASSUME TypeOK, NEW d \in Dnodes, NEW n \in Names, NEW c \in Contents, Upload(d, n, c)
    PROVE  LET q == rpc'[d] IN
           /\ UNCHANGED <<files, running, hubVars, lossy, torn, faults>>
           /\ uploaded' = uploaded \cup {<<n, c>>} /\ requests' \in 0 .. MaxRequests
           /\ rpc' \in [Dnodes -> Requests] /\ Others(d)
           /\ q.at = "copying" /\ q.name = n /\ q.content = c
           /\ q.buffer = Whole(c) /\ q.next = 1 /\ q.offset = 1
<1> DEFINE q == Copying("upload", n, c, Whole(c))
<1>1. /\ Turns(d, q) /\ UNCHANGED <<files, running, hubVars, lossy, torn, faults>>
      /\ uploaded' = uploaded \cup {<<n, c>>}
      /\ requests < MaxRequests /\ requests' = requests + 1
    BY DEF Upload, NewRequest, Turns
<1>2. requests' \in 0 .. MaxRequests
    BY <1>1, SharingAssumption DEF TypeOK
<1>3. /\ q \in Requests /\ q.at = "copying" /\ q.name = n /\ q.content = c
      /\ q.buffer = Whole(c) /\ q.next = 1 /\ q.offset = 1
    BY WholeFacts, NewCopying
<1> HIDE DEF q
<1>4. rpc' \in [Dnodes -> Requests] /\ Others(d) /\ rpc'[d] = q
    BY <1>1, <1>3, TurnFrame
<1>5. QED
    BY <1>1, <1>2, <1>3, <1>4

\* A download is taken up.
LEMMA DownloadFrame ==
    ASSUME TypeOK, NEW d \in Dnodes, NEW n \in Names, Download(d, n)
    PROVE  LET q == rpc'[d]
               c == fname[n]
           IN
           /\ UNCHANGED <<files, running, hubVars, history, faults>>
           /\ requests' \in 0 .. MaxRequests
           /\ rpc' \in [Dnodes -> Requests] /\ Others(d)
           /\ c # Nil /\ c \in Contents
           /\ q.at = "fetching" /\ q.name = n /\ q.content = c /\ q.from = sources[c]
           /\ DOMAIN q.window = 1 .. WindowSize(c)
           /\ \A i \in DOMAIN q.window : q.window[i] = Missing
<1> DEFINE c == fname[n]
           q == Fetching(n, c, sources[c])
<1>1. /\ Turns(d, q) /\ UNCHANGED <<files, running, hubVars, history, faults>>
      /\ requests < MaxRequests /\ requests' = requests + 1 /\ c # Nil
    BY DEF Download, NewRequest, Turns
<1>2. requests' \in 0 .. MaxRequests /\ c \in Contents
    BY <1>1, SharingAssumption DEF TypeOK
<1>3. sources[c] \in Seq(Dnodes)
    BY <1>2 DEF TypeOK
<1>4. /\ q \in Requests /\ q.at = "fetching" /\ q.name = n /\ q.content = c
      /\ q.from = sources[c] /\ DOMAIN q.window = 1 .. WindowSize(c)
      /\ \A i \in DOMAIN q.window : q.window[i] = Missing
    BY <1>2, <1>3, NewFetching
<1> HIDE DEF q
<1>5. rpc' \in [Dnodes -> Requests] /\ Others(d) /\ rpc'[d] = q
    BY <1>1, <1>4, TurnFrame
<1>6. QED
    BY <1>1, <1>2, <1>4, <1>5

\* A dnode is killed or started again.
LEMMA KillFrame ==
    ASSUME TypeOK, NEW d \in Dnodes, Kill(d) \/ Start(d)
    PROVE  /\ UNCHANGED <<files, hubVars, history, requests>>
           /\ rpc' \in [Dnodes -> Requests] /\ Others(d)
           /\ rpc'[d] = rpc[d] \/ rpc'[d].at = "idle"
           /\ running' \subseteq Dnodes /\ faults' \in 0 .. MaxFaults
<1>1. CASE Kill(d)
    <2>1. Idle \in Requests /\ Idle.at = "idle"
        BY DEF Requests, Idle
    <2>2. faults' \in 0 .. MaxFaults
        BY <1>1, SharingAssumption DEF Kill, TypeOK
    <2>3. QED
        BY <1>1, <2>1, <2>2, TurnFrame DEF Kill, Turns, TypeOK
<1>2. CASE Start(d)
    BY <1>2 DEF Start, TypeOK, Others
<1>3. QED
    BY <1>1, <1>2

\* The steps, one dnode at a time.
LEMMA Steps ==
    ASSUME [Next]_vars
    PROVE  \/ UNCHANGED vars
           \/ \E d \in Dnodes :
                \/ \E n \in Names : Download(d, n) \/ \E c \in Contents : Upload(d, n, c)
                \/ Copy(d) \/ WriteFails(d) \/ Post(d) \/ Fetches(d) \/ WriteWindow(d)
                \/ Kill(d) \/ Start(d)
BY DEF Next, Fetches, Answered, Unanswered

-----------------------------------------------------------------------------
(* Placed is inductive. *)

\* Uploads and sources are never forgotten, and no file gets shorter.
Growth ==
    /\ uploaded \subseteq uploaded' /\ lossy \subseteq lossy' /\ torn \subseteq torn'
    /\ \A c \in Contents : ToSet(sources[c]) \subseteq ToSet(sources'[c])
    /\ \A d \in Dnodes, n \in Names : Len(files[d][n]) <= Len(files'[d][n])

\* A file is a sequence of pieces.
LEMMA FilesFacts ==
    ASSUME TypeOK, NEW d \in Dnodes, NEW n \in Names
    PROVE  /\ files[d][n] \in Seq(Pieces)
           /\ Len(files[d][n]) \in Nat /\ DOMAIN files[d][n] = 1 .. Len(files[d][n])
BY LenProperties DEF TypeOK

\* Nothing that was listed, uploaded or written goes away.
LEMMA StepGrows ==
    ASSUME TypeOK, Placed, [Next]_vars
    PROVE  Growth
<1>1. ASSUME UNCHANGED <<files, hubVars>>, uploaded \subseteq uploaded', lossy \subseteq lossy',
             torn \subseteq torn'
      PROVE  Growth
    BY <1>1, FilesFacts DEF Growth, hubVars
<1>2. ASSUME NEW d \in Dnodes, Copy(d) PROVE Growth
    <2>1. ASSUME NEW e \in Dnodes, NEW n \in Names PROVE Len(files[e][n]) <= Len(files'[e][n])
        <3>1. CASE e = d /\ n = rpc[d].name
            <4>1. /\ Len(files[d][n]) \in Nat /\ rpc[d].offset \in 1 .. Len(files[d][n]) + 1
                  /\ Len(files'[d][n]) = IF rpc[d].offset <= Len(files[d][n])
                                         THEN Len(files[d][n]) ELSE rpc[d].offset
                BY <1>2, <3>1, CopyPut
            <4>2. QED
                BY <3>1, <4>1
        <3>2. CASE ~(e = d /\ n = rpc[d].name)
            BY <1>2, <3>2, CopyFrame, FilesFacts
        <3>3. QED
            BY <3>1, <3>2
    <2>2. UNCHANGED <<hubVars, history>>
        BY <1>2, CopyFrame
    <2>3. QED
        BY <2>1, <2>2 DEF Growth, hubVars, history
<1>3. ASSUME NEW d \in Dnodes, Post(d) PROVE Growth
    <2>1. UNCHANGED <<files, history>>
        BY <1>3, PostFrame
    <2>2. \A c \in Contents : ToSet(sources[c]) \subseteq ToSet(sources'[c])
        BY <1>3, PostFrame
    <2>3. \A e \in Dnodes, n \in Names : Len(files[e][n]) <= Len(files'[e][n])
        BY <2>1, FilesFacts
    <2>4. QED
        BY <2>1, <2>2, <2>3 DEF Growth, history
<1>4. ASSUME NEW d \in Dnodes, NEW n \in Names, Download(d, n) PROVE Growth
    BY <1>1, <1>4, DownloadFrame DEF history
<1>5. ASSUME NEW d \in Dnodes, NEW n \in Names, NEW c \in Contents, Upload(d, n, c) PROVE Growth
    BY <1>1, <1>5, UploadFrame
<1>6. ASSUME NEW d \in Dnodes, Fetches(d) PROVE Growth
    BY <1>1, <1>6, FetchFrame
<1>7. ASSUME NEW d \in Dnodes, WriteWindow(d) PROVE Growth
    BY <1>1, <1>7, WriteFrame DEF history
<1>8. ASSUME NEW d \in Dnodes, Kill(d) \/ Start(d) PROVE Growth
    BY <1>1, <1>8, KillFrame DEF history
<1>9. ASSUME NEW d \in Dnodes, WriteFails(d) PROVE Growth
    BY <1>1, <1>9, FailFrame
<1>10. CASE UNCHANGED vars
    BY <1>1, <1>10 DEF vars, history
<1>11. QED
    BY <1>2, <1>3, <1>4, <1>5, <1>6, <1>7, <1>8, <1>10, <1>9, Steps

\* What is in place stays so.
LEMMA InPlaceKept ==
    ASSUME Growth, NEW n, NEW i, NEW x, InPlace(n, i, x)
    PROVE  InPlace(n, i, x)'
BY DEF Growth, InPlace

\* The same of a buffer that stays what it is, or is handed on.
LEMMA BufferKept ==
    ASSUME Growth, NEW d \in Dnodes, NEW n, NEW b, rpc'[d].name = n, rpc'[d].buffer = b,
           \A i \in DOMAIN b : InPlace(n, i, b[i])
    PROVE  \A i \in DOMAIN rpc'[d].buffer : InPlace(rpc[d].name, i, rpc[d].buffer[i])'
<1> SUFFICES ASSUME NEW i \in DOMAIN b
             PROVE  InPlace(rpc[d].name, i, rpc[d].buffer[i])'
    OBVIOUS
<1>1. \/ b[i] = Garbage
      \/ \E c \in Contents : \E k \in i .. Length[c] :
            <<n, c>> \in uploaded /\ b[i] = Piece(c, k) /\ (k = i \/ n \in torn)
    BY DEF InPlace
<1>2. uploaded \subseteq uploaded' /\ torn \subseteq torn'
    BY DEF Growth
<1>3. QED
    BY <1>1, <1>2 DEF InPlace

\* What a request holds stays in place while others move.
LEMMA RequestKept ==
    ASSUME TypeOK, TypeOK', Growth, NEW d \in Dnodes, rpc'[d] = rpc[d],
           PlacedRequest(d, rpc[d])
    PROVE  PlacedRequest(d, rpc[d])'
<1> DEFINE r == rpc[d]
<1>1. r \in Requests
    BY DEF TypeOK
<1>2. CASE r.at = "copying"
    <2>1. /\ r.next \in 1 .. Len(r.buffer) + 1 /\ r.offset \in 1 .. r.next
          /\ r.offset <= Len(files[d][r.name]) + 1
          /\ r.offset = r.next \/ r.next > Len(r.buffer) \/ r.name \in torn
          /\ \A i \in DOMAIN r.buffer : InPlace(r.name, i, r.buffer[i])
          /\ r.name \in Names /\ r.offset \in Nat
        BY <1>1, <1>2, RequestFacts DEF PlacedRequest
    <2>2. r.offset <= Len(files'[d][r.name]) + 1
        <3>1. Len(files[d][r.name]) \in Nat /\ Len(files'[d][r.name]) \in Nat
            BY <2>1, LenProperties DEF TypeOK
        <3>2. Len(files[d][r.name]) <= Len(files'[d][r.name])
            BY <2>1 DEF Growth
        <3>3. \A a, b, o \in Nat : a <= b /\ o <= a + 1 => o <= b + 1
            OBVIOUS
        <3> HIDE DEF r
        <3>4. QED
            BY <2>1, <3>1, <3>2, <3>3
    <2>3. \A i \in DOMAIN r.buffer : InPlace(r.name, i, r.buffer[i])'
        BY <2>1, BufferKept
    <2>4. r.offset = r.next \/ r.next > Len(r.buffer) \/ r.name \in torn'
        BY <2>1 DEF Growth
    <2>5. QED
        BY <1>2, <2>1, <2>2, <2>3, <2>4 DEF PlacedRequest, InPlace
<1>3. CASE r.at = "fetching"
    <2>1. /\ DOMAIN r.window = 1 .. WindowSize(r.content)
          /\ \A i \in DOMAIN r.window :
                r.window[i] \in {Missing, Lost, Hung} \/ InPlace(r.name, i, r.window[i])
          /\ \A j \in DOMAIN r.from : r.from[j] \in ToSet(sources[r.content])
          /\ r.content \in Contents
        BY <1>1, <1>3, RequestFacts DEF PlacedRequest
    <2>2. \A i \in DOMAIN r.window :
            r.window[i] \in {Missing, Lost, Hung} \/ InPlace(r.name, i, r.window[i])'
        BY <2>1 DEF Growth, InPlace
    <2>3. \A j \in DOMAIN r.from : r.from[j] \in ToSet(sources'[r.content])
        BY <2>1 DEF Growth
    <2>4. QED
        BY <1>3, <2>1, <2>2, <2>3 DEF PlacedRequest, InPlace
<1>4. CASE r.at \notin {"copying", "fetching"}
    BY <1>4 DEF PlacedRequest
<1>5. QED
    BY <1>2, <1>3, <1>4

\* So do the pieces of files that are not written.
LEMMA FilesKept ==
    ASSUME TypeOK, Placed, Growth, UNCHANGED files, NEW d \in Dnodes, NEW n \in Names,
           NEW i \in DOMAIN files[d][n]
    PROVE  InPlace(n, i, files[d][n][i])'
BY InPlaceKept DEF Placed

\* The request of the dnode that moved is the one to look at, if no file is
\* written.
LEMMA PlacedKept ==
    ASSUME TypeOK, TypeOK', Placed, Growth, UNCHANGED files, NEW d \in Dnodes, Others(d),
           PlacedRequest(d, rpc[d])'
    PROVE  Placed'
<1>1. ASSUME NEW e \in Dnodes PROVE PlacedRequest(e, rpc[e])'
    <2>1. CASE e = d
        BY <2>1
    <2>2. CASE e # d
        BY <2>2, RequestKept DEF Placed, Others
    <2>3. QED
        BY <2>1, <2>2
<1>2. ASSUME NEW e \in Dnodes, NEW n \in Names, NEW i \in DOMAIN files'[e][n]
      PROVE  InPlace(n, i, files[e][n][i])'
    BY <1>2, FilesKept
<1>3. QED
    BY <1>1, <1>2 DEF Placed

\* Each action keeps the types.
LEMMA StepTyped ==
    ASSUME TypeOK, Placed, [Next]_vars
    PROVE  TypeOK'
<1>1. ASSUME NEW d \in Dnodes, Copy(d) PROVE TypeOK'
    BY <1>1, CopyFrame DEF TypeOK, hubVars, history
<1>2. ASSUME NEW d \in Dnodes, Post(d) PROVE TypeOK'
    BY <1>2, PostFrame DEF TypeOK, history
<1>3. ASSUME NEW d \in Dnodes, NEW n \in Names, Download(d, n) PROVE TypeOK'
    BY <1>3, DownloadFrame DEF TypeOK, hubVars, history
<1>4. ASSUME NEW d \in Dnodes, NEW n \in Names, NEW c \in Contents, Upload(d, n, c)
      PROVE  TypeOK'
    BY <1>4, UploadFrame DEF TypeOK, hubVars
<1>5. ASSUME NEW d \in Dnodes, Fetches(d) PROVE TypeOK'
    BY <1>5, FetchFrame DEF TypeOK, hubVars
<1>6. ASSUME NEW d \in Dnodes, WriteFails(d) PROVE TypeOK'
    BY <1>6, FailFrame DEF TypeOK, hubVars
<1>7. ASSUME NEW d \in Dnodes, WriteWindow(d) PROVE TypeOK'
    BY <1>7, WriteFrame DEF TypeOK, hubVars, history
<1>8. ASSUME NEW d \in Dnodes, Kill(d) \/ Start(d) PROVE TypeOK'
    BY <1>8, KillFrame DEF TypeOK, hubVars, history
<1>9. CASE UNCHANGED vars
    BY <1>9 DEF TypeOK, vars, hubVars, history
<1>10. QED
    BY <1>1, <1>2, <1>3, <1>4, <1>5, <1>7, <1>8, <1>9, <1>6, Steps

\* A piece is copied from its place in the buffer to the same place of the file.
LEMMA CopyPlaced ==
    ASSUME TypeOK, TypeOK', Placed, Growth, NEW d \in Dnodes, Copy(d)
    PROVE  Placed'
<1> DEFINE r == rpc[d]
           q == rpc'[d]
<1>1. /\ r.at = "copying" /\ r.name \in Names /\ q.at = "copying" /\ q.name = r.name
      /\ q.buffer = r.buffer /\ q.next = r.next + 1 /\ q.offset = r.offset + 1
      /\ r.next \in 1 .. Len(r.buffer) /\ r.offset \in 1 .. r.next /\ Others(d)
    BY CopyFrame
<1>2. /\ \A i \in DOMAIN r.buffer : InPlace(r.name, i, r.buffer[i])
      /\ r.offset = r.next \/ r.next > Len(r.buffer) \/ r.name \in torn
    BY <1>1 DEF Placed, PlacedRequest
<1>3. /\ Len(files[d][r.name]) \in Nat /\ r.offset \in 1 .. Len(files[d][r.name]) + 1
      /\ r.next \in DOMAIN r.buffer
      /\ Len(files'[d][r.name]) =
            IF r.offset <= Len(files[d][r.name]) THEN Len(files[d][r.name]) ELSE r.offset
      /\ files'[d][r.name][r.offset] = r.buffer[r.next]
      /\ \A j \in 1 .. Len(files[d][r.name]) :
            j # r.offset => files'[d][r.name][j] = files[d][r.name][j]
    BY CopyPut
<1>4. Len(r.buffer) \in Nat /\ r.next \in Nat /\ r.offset \in Nat
    BY <1>1, RequestFacts, LenProperties DEF TypeOK
<1>5. r.offset = r.next \/ r.name \in torn
    BY <1>1, <1>2, <1>4
<1>6. InPlace(r.name, r.offset, r.buffer[r.next])
    <2>1. InPlace(r.name, r.next, r.buffer[r.next])
        BY <1>2, <1>3
    <2>2. CASE r.buffer[r.next] = Garbage
        BY <2>2 DEF InPlace
    <2>3. ASSUME NEW c \in Contents, NEW k \in r.next .. Length[c],
                 <<r.name, c>> \in uploaded, r.buffer[r.next] = Piece(c, k),
                 k = r.next \/ r.name \in torn
          PROVE  InPlace(r.name, r.offset, r.buffer[r.next])
        <3>1. Length[c] \in Nat
            BY SharingAssumption
        <3>2. k \in r.offset .. Length[c]
            BY <1>1, <1>4, <3>1
        <3>3. k = r.offset \/ r.name \in torn
            BY <1>5, <2>3
        <3>4. QED
            BY <2>3, <3>2, <3>3 DEF InPlace
    <2>4. QED
        BY <2>1, <2>2, <2>3 DEF InPlace
<1>7. ASSUME NEW e \in Dnodes PROVE PlacedRequest(e, rpc[e])'
    <2>1. CASE e = d
        <3>1. q.next \in 1 .. Len(q.buffer) + 1 /\ q.offset \in 1 .. q.next
            BY <1>1, <1>4
        <3>2. q.offset <= Len(files'[d][q.name]) + 1
            BY <1>1, <1>3
        <3>3. \A i \in DOMAIN q.buffer : InPlace(rpc[d].name, i, rpc[d].buffer[i])'
            BY <1>1, <1>2, BufferKept
        <3>4. q.offset = q.next \/ q.name \in torn'
            BY <1>1, <1>5 DEF Growth
        <3>5. QED
            BY <1>1, <2>1, <3>1, <3>2, <3>3, <3>4 DEF PlacedRequest, InPlace
    <2>2. CASE e # d
        BY <1>1, <2>2, RequestKept DEF Placed, Others
    <2>3. QED
        BY <2>1, <2>2
<1>8. ASSUME NEW e \in Dnodes, NEW n \in Names, NEW i \in DOMAIN files'[e][n]
      PROVE  InPlace(n, i, files[e][n][i])'
    <2>1. DOMAIN files[e][n] = 1 .. Len(files[e][n]) /\ Len(files[e][n]) \in Nat
        BY FilesFacts
    <2>2. i \in 1 .. Len(files'[e][n])
        BY LenProperties DEF TypeOK
    <2>3. InPlace(n, i, files'[e][n][i])
        <3>1. CASE e = d /\ n = r.name /\ i = r.offset
            BY <1>3, <1>6, <3>1
        <3>2. CASE e = d /\ n = r.name /\ i # r.offset
            <4>1. i \in 1 .. Len(files[d][r.name])
                BY <1>3, <2>2, <3>2
            <4>2. files'[e][n][i] = files[e][n][i] /\ i \in DOMAIN files[e][n]
                BY <1>3, <2>1, <3>2, <4>1
            <4>3. QED
                BY <4>2 DEF Placed
        <3>3. CASE ~(e = d /\ n = r.name)
            <4>1. files'[e][n] = files[e][n]
                BY <3>3, CopyFrame
            <4>2. QED
                BY <4>1 DEF Placed
        <3>4. QED
            BY <3>1, <3>2, <3>3
    <2>4. QED
        BY <2>3 DEF Growth, InPlace
<1>9. QED
    BY <1>7, <1>8 DEF Placed

\* After a call that failed the rest of the buffer goes to other places, if the
\* call was one of an upload.
LEMMA FailPlaced ==
    ASSUME TypeOK, TypeOK', Placed, Growth, NEW d \in Dnodes, WriteFails(d)
    PROVE  Placed'
<1> DEFINE r == rpc[d]
           q == rpc'[d]
<1>1. /\ UNCHANGED files /\ Others(d)
      /\ r.at = "copying" /\ r.name \in Names
      /\ q.at = "copying" /\ q.name = r.name /\ q.buffer = r.buffer /\ q.offset = r.offset
      /\ r.next \in Nat /\ Len(r.buffer) \in Nat
      /\ q.next \in r.next + 1 .. Len(r.buffer) + 1
      /\ q.next > Len(r.buffer) \/ r.name \in torn'
    BY FailFrame
<1>2. /\ \A i \in DOMAIN r.buffer : InPlace(r.name, i, r.buffer[i])
      /\ r.offset \in 1 .. r.next /\ r.offset <= Len(files[d][r.name]) + 1
    BY <1>1 DEF Placed, PlacedRequest
<1>3. q.next \in 1 .. Len(q.buffer) + 1 /\ q.offset \in 1 .. q.next
    BY <1>1, <1>2
<1>4. \A i \in DOMAIN q.buffer : InPlace(rpc[d].name, i, rpc[d].buffer[i])'
    BY <1>1, <1>2, BufferKept
<1>5. PlacedRequest(d, rpc[d])'
    BY <1>1, <1>2, <1>3, <1>4 DEF PlacedRequest, InPlace
<1>6. QED
    BY <1>1, <1>5, PlacedKept

\* A finished request holds nothing.
LEMMA PostPlaced ==
    ASSUME TypeOK, TypeOK', Placed, Growth, NEW d \in Dnodes, Post(d)
    PROVE  Placed'
<1>1. UNCHANGED files /\ Others(d) /\ rpc'[d].at = "reported"
    BY PostFrame
<1>2. PlacedRequest(d, rpc[d])'
    BY <1>1 DEF PlacedRequest
<1>3. QED
    BY <1>1, <1>2, PlacedKept

\* The buffer of an upload is the content, place by place.
LEMMA UploadPlaced ==
    ASSUME TypeOK, TypeOK', Placed, Growth, NEW d \in Dnodes, NEW n \in Names,
           NEW c \in Contents, Upload(d, n, c)
    PROVE  Placed'
<1> DEFINE q == rpc'[d]
<1>1. /\ UNCHANGED files /\ Others(d) /\ uploaded' = uploaded \cup {<<n, c>>}
      /\ q.at = "copying" /\ q.name = n /\ q.buffer = Whole(c)
      /\ q.next = 1 /\ q.offset = 1
    BY UploadFrame
<1>2. \A i \in DOMAIN Whole(c) : InPlace(n, i, Whole(c)[i])'
    <2>1. ASSUME NEW i \in 1 .. Length[c] PROVE InPlace(n, i, Whole(c)[i])'
        <3>1. i \in i .. Length[c] /\ Whole(c)[i] = Piece(c, i)
            BY WholeFacts
        <3>2. QED
            BY <1>1, <3>1 DEF InPlace
    <2>2. QED
        BY <2>1, WholeFacts
<1>3. q.next \in 1 .. Len(q.buffer) + 1 /\ q.offset \in 1 .. q.next
    <2>1. Len(Whole(c)) \in Nat
        BY WholeFacts
    <2>2. QED
        BY <1>1, <2>1
<1>4. q.offset <= Len(files'[d][n]) + 1
    <2>1. Len(files'[d][n]) \in Nat
        BY <1>1, FilesFacts
    <2>2. QED
        BY <1>1, <2>1
<1>5. PlacedRequest(d, rpc[d])'
    BY <1>1, <1>2, <1>3, <1>4 DEF PlacedRequest, InPlace
<1>6. QED
    BY <1>1, <1>5, PlacedKept

\* A download starts with the sources that are listed.
LEMMA DownloadPlaced ==
    ASSUME TypeOK, TypeOK', Placed, Growth, NEW d \in Dnodes, NEW n \in Names, Download(d, n)
    PROVE  Placed'
<1> DEFINE q == rpc'[d]
           c == fname[n]
<1>1. /\ UNCHANGED files /\ UNCHANGED hubVars /\ Others(d)
      /\ q.at = "fetching" /\ q.content = c /\ q.from = sources[c]
      /\ DOMAIN q.window = 1 .. WindowSize(c) /\ \A i \in DOMAIN q.window : q.window[i] = Missing
    BY DownloadFrame
<1>2. \A j \in DOMAIN q.from : q.from[j] \in ToSet(sources'[q.content])
    BY <1>1 DEF ToSet, hubVars
<1>3. PlacedRequest(d, rpc[d])'
    BY <1>1, <1>2 DEF PlacedRequest
<1>4. QED
    BY <1>1, <1>3, PlacedKept

\* A source holds what it sends under the name it is asked for.
LEMMA FetchesPlaced ==
    ASSUME TypeOK, TypeOK', Placed, Growth, NEW d \in Dnodes, Fetches(d)
    PROVE  Placed'
<1> DEFINE r == rpc[d]
           q == rpc'[d]
<1>1. /\ UNCHANGED files /\ UNCHANGED hubVars /\ UNCHANGED <<uploaded, torn>> /\ Others(d)
      /\ r.at = "fetching" /\ r.name \in Names /\ r.content \in Contents
      /\ q.at = "fetching" /\ q.name = r.name /\ q.content = r.content /\ q.from = r.from
      /\ DOMAIN q.window = DOMAIN r.window
    BY FetchFrame
<1>2. \A k \in DOMAIN r.window :
            q.window[k] = r.window[k] \/ Fetchable(r, k, q.window[k])
    BY FetchFrame
<1>3. /\ DOMAIN r.window = 1 .. WindowSize(r.content)
      /\ \A i \in DOMAIN r.window :
            r.window[i] \in {Missing, Lost, Hung} \/ InPlace(r.name, i, r.window[i])
      /\ \A j \in DOMAIN r.from : r.from[j] \in ToSet(sources[r.content])
    BY <1>1 DEF Placed, PlacedRequest
<1>4. r.from \in Seq(Dnodes)
    BY <1>1, RequestFacts DEF TypeOK
<1>5. ASSUME NEW k \in DOMAIN r.window
      PROVE  q.window[k] \in {Missing, Lost, Hung} \/ InPlace(r.name, k, q.window[k])
    <2>1. CASE q.window[k] \in {r.window[k], Hung, Lost, Garbage}
        BY <1>3, <2>1 DEF InPlace
    <2>2. CASE FromSource(r, k, q.window[k])
        <3>1. PICK j \in DOMAIN r.from :
                /\ k \in DOMAIN files[r.from[j]][r.name]
                /\ q.window[k] = files[r.from[j]][r.name][k]
            BY <2>2 DEF FromSource
        <3>2. r.from[j] \in Dnodes
            BY <1>4, LenProperties
        <3>3. QED
            BY <1>1, <3>1, <3>2 DEF Placed
    <2>3. QED
        BY <1>2, <2>1, <2>2 DEF Fetchable
<1>6. \A k \in DOMAIN q.window :
        q.window[k] \in {Missing, Lost, Hung} \/ InPlace(rpc[d].name, k, rpc[d].window[k])'
    BY <1>1, <1>5 DEF InPlace
<1>7. \A j \in DOMAIN q.from : q.from[j] \in ToSet(sources'[q.content])
    BY <1>1, <1>3 DEF hubVars
<1>8. PlacedRequest(d, rpc[d])'
    BY <1>1, <1>3, <1>6, <1>7 DEF PlacedRequest, InPlace
<1>9. QED
    BY <1>1, <1>8, PlacedKept

\* What is written of a window stays at its place.
LEMMA WritePlaced ==
    ASSUME TypeOK, TypeOK', Placed, Growth, NEW d \in Dnodes, WriteWindow(d)
    PROVE  Placed'
<1> DEFINE r == rpc[d]
           q == rpc'[d]
           b == ToWrite(r)
<1>1. /\ UNCHANGED files /\ UNCHANGED history /\ Others(d)
      /\ r \in Requests /\ r.at = "fetching" /\ DOMAIN r.window = 1 .. WindowSize(r.content)
      /\ \A i \in DOMAIN r.window : r.window[i] \notin {Missing, Hung}
      /\ r.name \in Names
      /\ q.at = "copying" /\ q.name = r.name /\ q.buffer = b
      /\ q.next = 1 /\ q.offset = 1
    BY WriteFrame
<1>2. b \in Seq(Pieces)
    BY <1>1, ToWriteFacts
<1>3. \A i \in DOMAIN b :
            b[i] = Garbage \/ (i \in DOMAIN r.window /\ r.window[i] # Lost /\ b[i] = r.window[i])
    BY <1>1, ToWriteFacts
<1>4. \A i \in DOMAIN r.window :
            r.window[i] \in {Missing, Lost, Hung} \/ InPlace(r.name, i, r.window[i])
    BY <1>1 DEF Placed, PlacedRequest
<1> HIDE DEF b
<1>5. \A i \in DOMAIN b : InPlace(r.name, i, b[i])
    BY <1>1, <1>3, <1>4 DEF InPlace
<1>6. \A i \in DOMAIN q.buffer : InPlace(rpc[d].name, i, rpc[d].buffer[i])'
    BY <1>1, <1>5 DEF InPlace, history
<1>7. q.next \in 1 .. Len(q.buffer) + 1 /\ q.offset \in 1 .. q.next
    <2>1. Len(b) \in Nat
        BY <1>2, LenProperties
    <2>2. QED
        BY <1>1, <2>1
<1>8. q.offset <= Len(files'[d][q.name]) + 1
    <2>1. Len(files'[d][r.name]) \in Nat
        BY <1>1, FilesFacts
    <2>2. QED
        BY <1>1, <2>1
<1>9. PlacedRequest(d, rpc[d])'
    BY <1>1, <1>6, <1>7, <1>8 DEF PlacedRequest, InPlace
<1>10. QED
    BY <1>1, <1>9, PlacedKept

\* A killed dnode has no request.
LEMMA KillPlaced ==
    ASSUME TypeOK, TypeOK', Placed, Growth, NEW d \in Dnodes, Kill(d) \/ Start(d)
    PROVE  Placed'
<1>1. UNCHANGED files /\ Others(d) /\ (rpc'[d] = rpc[d] \/ rpc'[d].at = "idle")
    BY KillFrame
<1>2. PlacedRequest(d, rpc[d])'
    <2>1. CASE rpc'[d] = rpc[d]
        BY <2>1, RequestKept DEF Placed
    <2>2. CASE rpc'[d].at = "idle"
        BY <2>2 DEF PlacedRequest
    <2>3. QED
        BY <1>1, <2>1, <2>2
<1>3. QED
    BY <1>1, <1>2, PlacedKept

\* The types and Placed are inductive together.
LEMMA StepPlaced ==
    ASSUME TypeOK, Placed, [Next]_vars
    PROVE  TypeOK' /\ Placed' /\ Growth
<1>1. TypeOK' /\ Growth
    BY StepTyped, StepGrows
<1>2. CASE UNCHANGED vars
    <2>1. \A e \in Dnodes : PlacedRequest(e, rpc[e])'
        BY <1>1, <1>2, RequestKept DEF Placed, vars
    <2>2. QED
        BY <1>1, <1>2, <2>1, FilesKept DEF Placed, vars
<1>3. QED
    BY <1>1, <1>2, Steps, CopyPlaced, FailPlaced, PostPlaced, UploadPlaced, DownloadPlaced,
       FetchesPlaced,
       WritePlaced, KillPlaced

\* The types and Placed, at the start.
LEMMA InitPlaced == Init => TypeOK /\ Placed
<1> SUFFICES ASSUME Init PROVE TypeOK /\ Placed
    OBVIOUS
<1>1. Idle \in Requests /\ Idle.at = "idle"
    BY DEF Requests, Idle
<1>2. <<>> \in Seq(Pieces) /\ <<>> \in Seq(Dnodes)
    OBVIOUS
<1>3. 0 \in 0 .. MaxRequests /\ 0 \in 0 .. MaxFaults
    BY SharingAssumption
<1>4. TypeOK
    BY <1>1, <1>2, <1>3 DEF Init, TypeOK
<1>5. \A d \in Dnodes : PlacedRequest(d, rpc[d])
    BY <1>1 DEF Init, PlacedRequest
<1>6. \A d \in Dnodes, n \in Names : DOMAIN files[d][n] = {}
    BY DEF Init
<1>7. QED
    BY <1>4, <1>5, <1>6 DEF Placed

\* The requests, the files and the hub keep the types, at every step.
THEOREM TypeCorrect == Spec => []TypeOK
<1>1. TypeOK /\ Placed /\ [Next]_vars => (TypeOK /\ Placed)'
    BY StepPlaced
<1>2. QED
    BY InitPlaced, <1>1, PTL DEF Spec

\* Overwriting, half-written sources, lost pieces, misread ones and kills never
\* move a piece to another place of a file, nor bring it under a name its content
\* was not uploaded under: the overlapping writes of handle_file_upload and
\* multi_threaded_download and the reads of the data server all go by the same
\* offsets.  Only a write of an upload that failed, which nobody looks at, moves
\* what comes after it, and only towards the start.
THEOREM PiecesAreKeptInPlace == Spec => []PiecesKeepTheirPlace
<1>1. TypeOK /\ Placed /\ [Next]_vars => (TypeOK /\ Placed)'
    BY StepPlaced
<1>2. Placed => PiecesKeepTheirPlace
    BY DEF Placed, InPlace, PiecesKeepTheirPlace
<1>3. QED
    BY InitPlaced, <1>1, <1>2, PTL DEF Spec

-----------------------------------------------------------------------------
(* Named is inductive. *)

\* Named, for a step of one dnode that names only what was uploaded.
LEMMA NamedKept ==
    ASSUME TypeOK, Named, Growth, NEW d \in Dnodes, Others(d),
           rpc'[d].at # "idle" => <<rpc'[d].name, rpc'[d].content>> \in uploaded',
           \A n \in Names : fname'[n] = fname[n] \/ <<n, fname'[n]>> \in uploaded',
           \A c \in Contents :
                sources'[c] = sources[c] \/ \E n \in Names : <<n, c>> \in uploaded',
           \A e \in Dnodes, n \in Names :
                files'[e][n] = files[e][n] \/ \E c \in Contents : <<n, c>> \in uploaded'
    PROVE  Named'
<1>1. uploaded \subseteq uploaded'
    BY DEF Growth
<1>2. ASSUME NEW e \in Dnodes, rpc'[e].at # "idle"
      PROVE  <<rpc'[e].name, rpc'[e].content>> \in uploaded'
    <2>1. CASE e = d
        BY <1>2, <2>1
    <2>2. CASE e # d
        BY <1>1, <1>2, <2>2 DEF Named, Others
    <2>3. QED
        BY <2>1, <2>2
<1>3. \A n \in Names : fname'[n] # Nil => <<n, fname'[n]>> \in uploaded'
    BY <1>1 DEF Named
<1>4. \A c \in Contents : sources'[c] # <<>> => \E n \in Names : <<n, c>> \in uploaded'
    BY <1>1 DEF Named
<1>5. \A e \in Dnodes, n \in Names :
            files'[e][n] # <<>> => \E c \in Contents : <<n, c>> \in uploaded'
    BY <1>1 DEF Named
<1>6. QED
    BY <1>2, <1>3, <1>4, <1>5 DEF Named

\* Named is inductive.
LEMMA StepNamed ==
    ASSUME TypeOK, Placed, Named, Growth, [Next]_vars
    PROVE  Named'
<1>1. ASSUME NEW d \in Dnodes, Copy(d) PROVE Named'
    <2>1. /\ UNCHANGED <<hubVars, history>> /\ Others(d)
          /\ rpc[d].at = "copying" /\ rpc[d].name \in Names
          /\ rpc'[d].name = rpc[d].name /\ rpc'[d].content = rpc[d].content
          /\ \A e \in Dnodes, n \in Names :
                ~(e = d /\ n = rpc[d].name) => files'[e][n] = files[e][n]
        BY <1>1, CopyFrame
    <2>2. rpc[d].content \in Contents
        BY <2>1, RequestFacts DEF TypeOK
    <2>3. <<rpc[d].name, rpc[d].content>> \in uploaded
        BY <2>1 DEF Named
    <2>4. \A e \in Dnodes, n \in Names :
            files'[e][n] = files[e][n] \/ \E c \in Contents : <<n, c>> \in uploaded'
        BY <2>1, <2>2, <2>3 DEF history
    <2>5. QED
        BY <2>1, <2>3, <2>4, NamedKept DEF hubVars, history
<1>2. ASSUME NEW d \in Dnodes, Post(d) PROVE Named'
    <2>1. /\ UNCHANGED <<files, history>> /\ Others(d)
          /\ rpc[d].at = "copying" /\ rpc[d].name \in Names /\ rpc[d].content \in Contents
          /\ rpc'[d].name = rpc[d].name /\ rpc'[d].content = rpc[d].content
          /\ \A c \in Contents : sources'[c] = sources[c] \/ c = rpc[d].content
          /\ \A n \in Names :
                fname'[n] = fname[n] \/ (n = rpc[d].name /\ fname'[n] = rpc[d].content)
        BY <1>2, PostFrame
    <2>2. <<rpc[d].name, rpc[d].content>> \in uploaded
        BY <2>1 DEF Named
    <2>3. QED
        BY <2>1, <2>2, NamedKept DEF history
<1>3. ASSUME NEW d \in Dnodes, NEW n \in Names, Download(d, n) PROVE Named'
    <2>1. /\ UNCHANGED <<files, hubVars, history>> /\ Others(d)
          /\ fname[n] # Nil /\ rpc'[d].name = n /\ rpc'[d].content = fname[n]
        BY <1>3, DownloadFrame
    <2>2. <<n, fname[n]>> \in uploaded
        BY <2>1 DEF Named
    <2>3. QED
        BY <2>1, <2>2, NamedKept DEF hubVars, history
<1>4. ASSUME NEW d \in Dnodes, NEW n \in Names, NEW c \in Contents, Upload(d, n, c)
      PROVE  Named'
    <2>1. /\ UNCHANGED <<files, hubVars>> /\ Others(d) /\ <<n, c>> \in uploaded'
          /\ rpc'[d].name = n /\ rpc'[d].content = c
        BY <1>4, UploadFrame
    <2>2. QED
        BY <2>1, NamedKept DEF hubVars
<1>5. ASSUME NEW d \in Dnodes, Fetches(d) \/ WriteWindow(d) PROVE Named'
    <2>1. /\ UNCHANGED <<files, hubVars, uploaded>> /\ Others(d) /\ rpc[d].at = "fetching"
          /\ rpc'[d].name = rpc[d].name /\ rpc'[d].content = rpc[d].content
        BY <1>5, FetchFrame, WriteFrame DEF history
    <2>2. <<rpc[d].name, rpc[d].content>> \in uploaded
        BY <2>1 DEF Named
    <2>3. QED
        BY <2>1, <2>2, NamedKept DEF hubVars
<1>6. ASSUME NEW d \in Dnodes, Kill(d) \/ Start(d) PROVE Named'
    <2>1. /\ UNCHANGED <<files, hubVars, history>> /\ Others(d)
          /\ rpc'[d] = rpc[d] \/ rpc'[d].at = "idle"
        BY <1>6, KillFrame
    <2>2. rpc'[d].at # "idle" => <<rpc'[d].name, rpc'[d].content>> \in uploaded'
        BY <2>1 DEF Named, history
    <2>3. QED
        BY <2>1, <2>2, NamedKept DEF hubVars
<1>7. ASSUME NEW d \in Dnodes, WriteFails(d) PROVE Named'
    <2>1. /\ UNCHANGED <<files, hubVars, uploaded>> /\ Others(d) /\ rpc[d].at = "copying"
          /\ rpc'[d].name = rpc[d].name /\ rpc'[d].content = rpc[d].content
        BY <1>7, FailFrame
    <2>2. <<rpc[d].name, rpc[d].content>> \in uploaded
        BY <2>1 DEF Named
    <2>3. QED
        BY <2>1, <2>2, NamedKept DEF hubVars
<1>8. CASE UNCHANGED vars
    BY <1>8 DEF Named, vars, hubVars, history
<1>9. QED
    BY <1>1, <1>2, <1>3, <1>4, <1>5, <1>6, <1>8, <1>7, Steps

-----------------------------------------------------------------------------
(* Seeded is inductive. *)

\* A request for one of a pair given to each other only is for both.
LEMMA SoloRequest ==
    ASSUME Named, NEW n \in Names, NEW c \in Contents, Solo(n, c), NEW d \in Dnodes,
           rpc[d].at # "idle", rpc[d].name = n \/ rpc[d].content = c
    PROVE  rpc[d].name = n /\ rpc[d].content = c
<1>1. <<rpc[d].name, rpc[d].content>> \in uploaded
    BY DEF Named
<1>2. <<rpc[d].name, rpc[d].content>> = <<n, c>>
    BY <1>1 DEF Solo, OneToOne
<1>3. QED
    BY <1>2

\* Who was given to each other only now, and before, was so before.
LEMMA SoloBefore ==
    ASSUME Growth, NEW n \in Names, NEW c \in Contents, Solo(n, c)', <<n, c>> \in uploaded
    PROVE  Solo(n, c)
BY DEF Growth, Solo, OneToOne

\* The file of a dnode that neither writes it nor reports it.
LEMMA SeededFileKept ==
    ASSUME Seeded, NEW n \in Names, NEW c \in Contents, Solo(n, c), NEW d \in Dnodes,
           files'[d][n] = files[d][n],
           d \in ToSet(sources'[c]) => d \in ToSet(sources[c]),
           rpc'[d].at = "reported" /\ rpc'[d].name = n => rpc'[d] = rpc[d]
    PROVE  SeededFile(d, n, c)'
<1>1. SeededFile(d, n, c)
    BY DEF Seeded, SeededAt
<1>2. QED
    BY <1>1 DEF SeededFile

\* A dnode that does not move keeps the file and its request.
LEMMA SeededKept ==
    ASSUME Seeded, NEW n \in Names, NEW c \in Contents, Solo(n, c), NEW d \in Dnodes,
           files'[d][n] = files[d][n],
           d \in ToSet(sources'[c]) => d \in ToSet(sources[c]),
           rpc'[d] = rpc[d]
    PROVE  SeededAt(d, n, c)'
<1>1. SeededFile(d, n, c)'
    BY SeededFileKept
<1>2. SeededAt(d, n, c)
    BY DEF Seeded
<1>3. QED
    BY <1>1, <1>2 DEF SeededAt, SeededRequest


\* A writer of the pair writes the next piece of the content, over the same
\* piece or behind the last one.
LEMMA CopySeeded ==
    ASSUME TypeOK, Placed, Named, Seeded, NEW d \in Dnodes, Copy(d),
           NEW n \in Names, NEW c \in Contents, Solo(n, c), NEW e \in Dnodes
    PROVE  SeededAt(e, n, c)'
<1> DEFINE r == rpc[d]
           q == rpc'[d]
           f == files[d][n]
           g == files'[d][n]
<1>1. /\ r.at = "copying" /\ q.at = "copying" /\ q.name = r.name /\ q.buffer = r.buffer
      /\ q.next = r.next + 1 /\ q.offset = r.offset + 1
      /\ Others(d) /\ UNCHANGED hubVars
      /\ ~(e = d /\ n = r.name) => files'[e][n] = files[e][n]
    BY CopyFrame
<1>2. CASE e # d
    BY <1>1, <1>2, SeededKept DEF hubVars, Others
<1>3. CASE e = d /\ r.name # n
    <2>1. SeededFile(d, n, c)'
        BY <1>1, <1>3, SeededFileKept DEF hubVars
    <2>2. QED
        BY <1>1, <1>3, <2>1 DEF SeededAt
<1>4. CASE e = d /\ r.name = n
    <2>1. r.buffer = Whole(c) /\ r.offset = r.next /\ SeededFile(d, n, c)
        BY <1>1, <1>4 DEF Seeded, SeededAt, SeededRequest
    <2>2. /\ Len(f) \in Nat /\ r.next \in 1 .. Len(f) + 1 /\ r.next \in DOMAIN r.buffer
          /\ Len(g) = IF r.next <= Len(f) THEN Len(f) ELSE r.next
          /\ g[r.next] = r.buffer[r.next]
          /\ \A j \in 1 .. Len(f) : j # r.next => g[j] = f[j]
        BY <1>4, <2>1, CopyPut
    <2>3. /\ r.next \in 1 .. Length[c] /\ r.buffer[r.next] = Piece(c, r.next)
          /\ Length[c] \in Nat
        BY <2>1, <2>2, WholeFacts
    <2>4. DOMAIN f = 1 .. Len(f) /\ DOMAIN g = 1 .. Len(g)
        <3>1. f \in Seq(Pieces) /\ g \in Seq(Pieces)
            BY <1>4, FilesFacts, CopyFrame
        <3>2. QED
            BY <3>1, LenProperties
    <2>5. Len(f) <= Length[c] /\ \A j \in 1 .. Len(f) : f[j] = Piece(c, j)
        BY <2>1, <2>4 DEF SeededFile
    <2>6. Len(g) <= Length[c]
        BY <2>2, <2>3, <2>5
    <2>7. ASSUME NEW j \in 1 .. Len(g) PROVE g[j] = Piece(c, j)
        <3>1. CASE j = r.next
            BY <2>2, <2>3, <3>1
        <3>2. CASE j # r.next
            <4>1. j \in 1 .. Len(f)
                BY <2>2, <3>2
            <4>2. QED
                BY <2>2, <2>5, <3>2, <4>1
        <3>3. QED
            BY <3>1, <3>2
    <2>8. d \in ToSet(sources'[c]) => Len(g) = Length[c]
        <3>1. d \in ToSet(sources'[c]) => Len(f) = Length[c]
            BY <1>1, <2>1 DEF SeededFile, hubVars
        <3>2. QED
            BY <2>2, <2>3, <2>6, <3>1
    <2>9. SeededFile(d, n, c)'
        BY <1>1, <2>4, <2>6, <2>7, <2>8 DEF SeededFile
    <2>10. QED
        BY <1>1, <1>4, <2>1, <2>9 DEF SeededAt, SeededRequest
<1>5. QED
    BY <1>2, <1>3, <1>4

\* Who has written the last piece of the pair has the whole content.
LEMMA PostSeeded ==
    ASSUME TypeOK, Placed, Named, Seeded, NEW d \in Dnodes, Post(d),
           NEW n \in Names, NEW c \in Contents, Solo(n, c), NEW e \in Dnodes
    PROVE  SeededAt(e, n, c)'
<1> DEFINE r == rpc[d]
           q == rpc'[d]
<1>1. /\ r.at = "copying" /\ r.next > Len(r.buffer) /\ r.name \in Names /\ r.content \in Contents
      /\ q.at = "reported" /\ q.name = r.name /\ Others(d) /\ UNCHANGED files
      /\ \/ ToSet(sources'[c]) = ToSet(sources[c])
         \/ c = r.content /\ ToSet(sources'[c]) = ToSet(sources[c]) \cup {d}
    BY PostFrame
<1>2. CASE e # d
    BY <1>1, <1>2, SeededKept DEF Others
<1>3. CASE e = d /\ r.name # n
    <2>1. r.content # c
        BY <1>1, <1>3, SoloRequest
    <2>2. SeededFile(d, n, c)'
        BY <1>1, <1>3, <2>1, SeededFileKept
    <2>3. QED
        BY <1>1, <1>3, <2>2 DEF SeededAt
<1>4. CASE e = d /\ r.name = n
    <2>1. r.buffer = Whole(c) /\ r.offset = r.next /\ SeededFile(d, n, c)
        BY <1>1, <1>4 DEF Seeded, SeededAt, SeededRequest
    <2>2. r.offset <= Len(files[d][n]) + 1 /\ r.next \in 1 .. Len(r.buffer) + 1
        BY <1>1, <1>4 DEF Placed, PlacedRequest
    <2>3. Len(r.buffer) = Length[c] /\ Length[c] \in Nat /\ Len(files[d][n]) \in Nat
        BY <2>1, WholeFacts, FilesFacts
    <2>4. Len(files[d][n]) <= Length[c]
        BY <2>1 DEF SeededFile
    <2>5. Len(files[d][n]) = Length[c]
        BY <1>1, <2>1, <2>2, <2>3, <2>4
    <2>6. SeededFile(d, n, c)'
        BY <1>1, <2>1, <2>5 DEF SeededFile
    <2>7. QED
        BY <1>1, <1>4, <2>6 DEF SeededAt, SeededRequest
<1>5. QED
    BY <1>2, <1>3, <1>4

\* An upload of the pair for the first time finds nothing under either.
LEMMA UploadSeeded ==
    ASSUME TypeOK, Named, Seeded, Growth, NEW d \in Dnodes, NEW m \in Names,
           NEW b \in Contents, Upload(d, m, b),
           NEW n \in Names, NEW c \in Contents, Solo(n, c)', NEW e \in Dnodes
    PROVE  SeededAt(e, n, c)'
<1> DEFINE q == rpc'[d]
<1>1. /\ UNCHANGED files /\ UNCHANGED hubVars /\ uploaded' = uploaded \cup {<<m, b>>} /\ Others(d)
      /\ q.at = "copying" /\ q.name = m /\ q.content = b /\ q.buffer = Whole(b)
      /\ q.next = 1 /\ q.offset = 1
    BY UploadFrame
<1>2. m = n => b = c
    BY <1>1 DEF Solo, OneToOne
<1>3. SeededFile(e, n, c)'
    <2>1. CASE <<n, c>> \in uploaded
        <3>1. Solo(n, c)
            BY <2>1, SoloBefore
        <3>2. rpc'[e].at = "reported" => rpc'[e] = rpc[e]
            BY <1>1 DEF Others
        <3>3. QED
            BY <1>1, <3>1, <3>2, SeededFileKept DEF hubVars
    <2>2. CASE <<n, c>> \notin uploaded
        <3>1. \A u \in uploaded : u[1] # n /\ u[2] # c
            BY <1>1, <2>2 DEF Solo, OneToOne
        <3>2. files[e][n] = <<>> /\ sources[c] = <<>>
            BY <3>1 DEF Named
        <3>3. ~(rpc'[e].at = "reported" /\ rpc'[e].name = n)
            BY <1>1, <3>1 DEF Named, Others
        <3>4. Len(files'[e][n]) = 0 /\ DOMAIN files'[e][n] = {} /\ ToSet(sources'[c]) = {}
            BY <1>1, <3>2 DEF hubVars, ToSet
        <3>5. Length[c] \in Nat
            BY SharingAssumption
        <3>6. QED
            BY <3>3, <3>4, <3>5 DEF SeededFile
    <2>3. QED
        BY <2>1, <2>2
<1>4. rpc'[e].at # "idle" /\ rpc'[e].name = n => SeededRequest(rpc[e], c)'
    <2>1. CASE e = d
        BY <1>1, <1>2, <2>1 DEF SeededRequest
    <2>2. CASE e # d
        <3>1. SUFFICES ASSUME rpc[e].at # "idle", rpc[e].name = n
                       PROVE  SeededRequest(rpc[e], c)'
            BY <1>1, <2>2 DEF Others
        <3>2. <<rpc[e].name, rpc[e].content>> \in uploaded
            BY <3>1 DEF Named
        <3>3. <<n, c>> \in uploaded
            BY <1>1, <3>1, <3>2 DEF Solo, OneToOne
        <3>4. SeededRequest(rpc[e], c)
            BY <3>1, <3>3, SoloBefore DEF Seeded, SeededAt
        <3>5. QED
            BY <1>1, <2>2, <3>4 DEF SeededRequest, Others
    <2>3. QED
        BY <2>1, <2>2
<1>5. QED
    BY <1>3, <1>4 DEF SeededAt

\* A download of the pair starts with nothing fetched.
LEMMA DownloadSeeded ==
    ASSUME TypeOK, Seeded, NEW d \in Dnodes, NEW m \in Names, Download(d, m),
           NEW n \in Names, NEW c \in Contents, Solo(n, c), NEW e \in Dnodes
    PROVE  SeededAt(e, n, c)'
<1>1. /\ UNCHANGED <<files, hubVars>> /\ Others(d) /\ rpc'[d].at = "fetching"
      /\ \A i \in DOMAIN rpc'[d].window : rpc'[d].window[i] = Missing
    BY DownloadFrame
<1>2. CASE e # d
    BY <1>1, <1>2, SeededKept DEF hubVars, Others
<1>3. CASE e = d
    <2>1. SeededFile(d, n, c)'
        BY <1>1, SeededFileKept DEF hubVars
    <2>2. SeededRequest(rpc[d], c)'
        BY <1>1 DEF SeededRequest
    <2>3. QED
        BY <1>3, <2>1, <2>2 DEF SeededAt
<1>4. QED
    BY <1>2, <1>3

\* A listed source sends the content's own piece, or nothing; a lost one would
\* show in lossy.
LEMMA FetchesSeeded ==
    ASSUME TypeOK, Placed, Named, Seeded, Growth, NEW d \in Dnodes, Fetches(d),
           NEW n \in Names, NEW c \in Contents, Solo(n, c)', Solo(n, c), NEW e \in Dnodes
    PROVE  SeededAt(e, n, c)'
<1> DEFINE r == rpc[d]
           q == rpc'[d]
<1>1. /\ UNCHANGED <<files, hubVars, uploaded>> /\ Others(d)
      /\ r.at = "fetching" /\ r.name \in Names /\ r.content \in Contents
      /\ q.at = "fetching" /\ q.name = r.name
      /\ DOMAIN q.window = DOMAIN r.window
    BY FetchFrame
<1>2. \A k \in DOMAIN r.window :
            q.window[k] = r.window[k] \/ Fetchable(r, k, q.window[k])
    BY FetchFrame
<1>3. CASE e # d
    BY <1>1, <1>3, SeededKept DEF hubVars, Others
<1>4. CASE e = d
    <2>1. SeededFile(d, n, c)'
        BY <1>1, SeededFileKept DEF hubVars
    <2>2. ASSUME r.name = n, NEW k \in DOMAIN r.window
          PROVE  q.window[k] \in {Missing, Hung, Piece(c, k)}
        <3>1. r.content = c
            BY <1>1, <2>2, SoloRequest
        <3>2. CASE q.window[k] = r.window[k] \/ q.window[k] = Hung
            BY <1>1, <2>2, <3>2 DEF Seeded, SeededAt, SeededRequest
        <3>3. r.content \notin lossy'
            BY <3>1 DEF Solo
        <3>4. ~TooShort(r)
            <4>1. ASSUME NEW j \in DOMAIN r.from
                  PROVE  DOMAIN r.window \subseteq DOMAIN files[r.from[j]][r.name]
                <5>1. r.from[j] \in Dnodes
                    BY <1>1, RequestFacts, LenProperties DEF TypeOK
                <5>2. r.from[j] \in ToSet(sources[c]) /\ DOMAIN r.window = 1 .. WindowSize(c)
                    BY <1>1, <3>1 DEF Placed, PlacedRequest
                <5>3. Len(files[r.from[j]][n]) = Length[c]
                    BY <5>1, <5>2 DEF Seeded, SeededAt, SeededFile
                <5>4. DOMAIN files[r.from[j]][n] = 1 .. Length[c]
                    BY <5>1, <5>3, FilesFacts
                <5>5. WindowSize(c) <= Length[c] /\ WindowSize(c) \in Nat /\ Length[c] \in Nat
                    BY WindowFacts, SharingAssumption
                <5>6. QED
                    BY <2>2, <5>2, <5>4, <5>5
            <4>2. QED
                BY <4>1 DEF TooShort
        <3>5. CASE FromSource(r, k, q.window[k])
            <4>1. PICK j \in DOMAIN r.from :
                    /\ k \in DOMAIN files[r.from[j]][r.name]
                    /\ q.window[k] = files[r.from[j]][r.name][k]
                BY <3>5 DEF FromSource
            <4>2. r.from[j] \in Dnodes
                BY <1>1, RequestFacts, LenProperties DEF TypeOK
            <4>3. SeededFile(r.from[j], n, c)
                BY <4>2 DEF Seeded, SeededAt
            <4>4. QED
                BY <2>2, <4>1, <4>3 DEF SeededFile
        <3>6. QED
            BY <1>2, <3>2, <3>3, <3>5, <3>4 DEF Fetchable
    <2>3. rpc'[d].name = n => SeededRequest(rpc[d], c)'
        BY <1>1, <2>2 DEF SeededRequest
    <2>4. QED
        BY <1>4, <2>1, <2>3 DEF SeededAt
<1>5. QED
    BY <1>3, <1>4

\* A window with a piece of the content at each place is the content.
LEMMA WriteSeeded ==
    ASSUME TypeOK, Placed, Named, Seeded, NEW d \in Dnodes, WriteWindow(d),
           NEW n \in Names, NEW c \in Contents, Solo(n, c), NEW e \in Dnodes
    PROVE  SeededAt(e, n, c)'
<1> DEFINE r == rpc[d]
           q == rpc'[d]
           b == ToWrite(r)
<1>1. /\ UNCHANGED <<files, hubVars, history>> /\ Others(d)
      /\ r \in Requests /\ r.at = "fetching" /\ DOMAIN r.window = 1 .. WindowSize(r.content)
      /\ \A i \in DOMAIN r.window : r.window[i] \notin {Missing, Hung}
      /\ q.at = "copying" /\ q.name = r.name /\ q.buffer = b
      /\ q.next = 1 /\ q.offset = 1
    BY WriteFrame
<1>2. CASE e # d
    BY <1>1, <1>2, SeededKept DEF hubVars, Others
<1>3. CASE e = d
    <2>1. SeededFile(d, n, c)'
        BY <1>1, SeededFileKept DEF hubVars
    <2>2. ASSUME r.name = n PROVE b = Whole(c)
        <3>1. r.content = c /\ Length[c] < Window
            BY <1>1, <2>2, SoloRequest DEF Solo
        <3>2. \A i \in DOMAIN r.window : r.window[i] = Piece(c, i)
            BY <1>1, <2>2 DEF Seeded, SeededAt, SeededRequest
        <3>3. \A i \in DOMAIN r.window : r.window[i] # Lost
            BY <3>2, PieceFacts
        <3>4. b \in Seq(Pieces)
            BY <1>1, ToWriteFacts
        <3>5. DOMAIN b = 1 .. Length[c] /\ \A i \in DOMAIN b : b[i] = r.window[i]
            BY <1>1, <3>1, <3>3, ToWriteFacts
        <3>6. DOMAIN r.window = 1 .. Length[c]
            BY <1>1, <3>1, WindowFacts
        <3> HIDE DEF b
        <3>7. Len(b) = Length[c]
            BY <3>4, <3>5, LenProperties, WholeFacts
        <3>8. \A i \in 1 .. Len(b) : b[i] = Whole(c)[i]
            BY <3>2, <3>5, <3>6, <3>7, WholeFacts
        <3>9. QED
            BY <3>4, <3>7, <3>8, WholeFacts, SeqEqual
    <2>3. rpc'[d].name = n => SeededRequest(rpc[d], c)'
        BY <1>1, <2>2 DEF SeededRequest
    <2>4. QED
        BY <1>3, <2>1, <2>3 DEF SeededAt
<1>4. QED
    BY <1>2, <1>3

\* A content that could not be written is not asked about any more.
LEMMA FailSeeded ==
    ASSUME TypeOK, Placed, Named, Seeded, NEW d \in Dnodes, WriteFails(d),
           NEW n \in Names, NEW c \in Contents, Solo(n, c), Solo(n, c)', NEW e \in Dnodes
    PROVE  SeededAt(e, n, c)'
<1> DEFINE r == rpc[d]
           q == rpc'[d]
<1>1. /\ UNCHANGED <<files, hubVars>> /\ Others(d)
      /\ r.at = "copying" /\ q.at = "copying" /\ q.name = r.name /\ r.content \in lossy'
    BY FailFrame
<1>2. r.content # c
    BY <1>1 DEF Solo
<1>3. r.name # n
    BY <1>1, <1>2, SoloRequest
<1>4. CASE e # d
    BY <1>1, <1>4, SeededKept DEF hubVars, Others
<1>5. CASE e = d
    <2>1. SeededFile(d, n, c)'
        BY <1>1, SeededFileKept DEF hubVars
    <2>2. QED
        BY <1>1, <1>3, <1>5, <2>1 DEF SeededAt
<1>6. QED
    BY <1>4, <1>5

\* A killed dnode keeps the first part that it has.
LEMMA KillSeeded ==
    ASSUME TypeOK, Seeded, NEW d \in Dnodes, Kill(d) \/ Start(d),
           NEW n \in Names, NEW c \in Contents, Solo(n, c), NEW e \in Dnodes
    PROVE  SeededAt(e, n, c)'
<1>1. /\ UNCHANGED <<files, hubVars>> /\ Others(d)
      /\ rpc'[d] = rpc[d] \/ rpc'[d].at = "idle"
    BY KillFrame
<1>2. CASE rpc'[e] = rpc[e]
    BY <1>1, <1>2, SeededKept DEF hubVars
<1>3. CASE rpc'[e].at = "idle"
    <2>1. SeededFile(e, n, c)'
        BY <1>1, <1>3, SeededFileKept DEF hubVars
    <2>2. QED
        BY <1>3, <2>1 DEF SeededAt
<1>4. QED
    BY <1>1, <1>2, <1>3 DEF Others


\* Seeded is inductive.
LEMMA StepSeeded ==
    ASSUME TypeOK, Placed, Named, Seeded, Growth, [Next]_vars
    PROVE  Seeded'
<1>1. SUFFICES ASSUME NEW n \in Names, NEW c \in Contents, Solo(n, c)', NEW e \in Dnodes
               PROVE  SeededAt(e, n, c)'
    BY DEF Seeded
<1>2. ASSUME NEW d \in Dnodes, NEW m \in Names, NEW b \in Contents, Upload(d, m, b)
      PROVE  SeededAt(e, n, c)'
    BY <1>1, <1>2, UploadSeeded
<1>3. ASSUME UNCHANGED uploaded PROVE Solo(n, c)
    BY <1>1, <1>3, SoloBefore DEF Solo
<1>4. ASSUME NEW d \in Dnodes, Copy(d) PROVE SeededAt(e, n, c)'
    BY <1>3, <1>4, CopyFrame, CopySeeded DEF history
<1>5. ASSUME NEW d \in Dnodes, Post(d) PROVE SeededAt(e, n, c)'
    BY <1>3, <1>5, PostFrame, PostSeeded DEF history
<1>6. ASSUME NEW d \in Dnodes, NEW m \in Names, Download(d, m) PROVE SeededAt(e, n, c)'
    BY <1>3, <1>6, DownloadFrame, DownloadSeeded DEF history
<1>7. ASSUME NEW d \in Dnodes, Fetches(d) PROVE SeededAt(e, n, c)'
    BY <1>1, <1>3, <1>7, FetchFrame, FetchesSeeded
<1>8. ASSUME NEW d \in Dnodes, WriteWindow(d) PROVE SeededAt(e, n, c)'
    BY <1>3, <1>8, WriteFrame, WriteSeeded DEF history
<1>9. ASSUME NEW d \in Dnodes, Kill(d) \/ Start(d) PROVE SeededAt(e, n, c)'
    BY <1>3, <1>9, KillFrame, KillSeeded DEF history
<1>10. ASSUME NEW d \in Dnodes, WriteFails(d) PROVE SeededAt(e, n, c)'
    BY <1>1, <1>3, <1>10, FailFrame, FailSeeded
<1>11. CASE UNCHANGED vars
    BY <1>3, <1>11, SeededKept DEF vars, hubVars, history
<1>12. QED
    BY <1>2, <1>4, <1>5, <1>6, <1>7, <1>8, <1>9, <1>11, <1>10, Steps

\* Nothing is uploaded at the start.
LEMMA InitSeeded == Init => Named /\ Seeded
<1> SUFFICES ASSUME Init PROVE Named /\ Seeded
    OBVIOUS
<1>1. \A d \in Dnodes : rpc[d].at = "idle"
    BY DEF Init, Idle
<1>2. Named
    BY <1>1 DEF Init, Named
<1>3. Seeded
    BY DEF Init, Seeded, Solo
<1>4. QED
    BY <1>2, <1>3

\* A first part as long as the content is the content.
LEMMA SeededSuffices ==
    ASSUME TypeOK, Seeded
    PROVE  SourcesSeed
<1>1. ASSUME NEW n \in Names, NEW c \in Contents, Solo(n, c), NEW d \in Dnodes,
             d \in ToSet(sources[c]) \/ (rpc[d].at = "reported" /\ rpc[d].name = n)
      PROVE  files[d][n] = Whole(c)
    <2>1. /\ Len(files[d][n]) = Length[c]
          /\ \A i \in DOMAIN files[d][n] : files[d][n][i] = Piece(c, i)
        BY <1>1 DEF Seeded, SeededAt, SeededFile
    <2>2. files[d][n] \in Seq(Pieces) /\ DOMAIN files[d][n] = 1 .. Len(files[d][n])
        BY FilesFacts
    <2>3. \A i \in 1 .. Len(files[d][n]) : files[d][n][i] = Whole(c)[i]
        BY <2>1, <2>2, WholeFacts
    <2>4. QED
        BY <2>1, <2>2, <2>3, WholeFacts, SeqEqual
<1>2. QED
    BY <1>1 DEF SourcesSeed, Solo

\* As long as a name and a content are given to each other only, the content
\* fits in the buffer and no piece of it was lost, misread or left unwritten:
\* each dnode the hub lists, and each that told its client of a success, has the
\* file whole.  The upload and download handlers tell the hub after the copy,
\* never before, and a second copy of the same content, whole or cut off by a
\* kill, never harms the first.
THEOREM SourcesDoSeed == Spec => []SourcesSeed
<1>1. Init => TypeOK /\ Placed /\ Named /\ Seeded
    BY InitPlaced, InitSeeded
<1>2. TypeOK /\ Placed /\ Named /\ Seeded /\ [Next]_vars => (TypeOK /\ Placed /\ Named /\ Seeded)'
    BY StepPlaced, StepNamed, StepSeeded
<1>3. TypeOK /\ Seeded => SourcesSeed
    BY SeededSuffices
<1>4. QED
    BY <1>1, <1>2, <1>3, PTL DEF Spec

=============================================================================
