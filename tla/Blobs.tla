--------------------------------- MODULE Blobs ---------------------------------
(******************************************************************************)
(* The blob adapters step by step: packages/blob-fs, blob-opfs, blob-s3 and   *)
(* the R2 adapter of packages/runtime-workers.  Storage takes what they do    *)
(* for one step or two; here are the file created before it is written, the   *)
(* sidecar that holds the digest, the limit and the digest checked while the  *)
(* body streams in, byte ranges, and a process that dies anywhere.            *)
(*                                                                            *)
(* The final key of an upload holds its version, so one name stands for the   *)
(* operation, its staged key and its final key.  A body is its length.        *)
(******************************************************************************)
EXTENDS Integers, FiniteSets

CONSTANTS
  BlobCallers,  \* concurrent calls of the adapter
  OpIds,        \* uploads
  MaxSize       \* bound: bytes of a body

BlobsAssumption == MaxSize \in Nat

VARIABLES
  adapter,  \* "fs", "opfs", "s3" or "r2"
  body,     \* the length of each upload's body
  limit,    \* maxBytes
  drafts,   \* staged files
  object,   \* final files
  sidecar,  \* final keys whose digest is stored
  begun,    \* uploads begun
  blobCall, \* the local state of each call
  read      \* the answer of the last open()

blobsVars == <<adapter, body, limit, drafts, object, sidecar, begun, blobCall, read>>

Absent == [there |-> FALSE, bytes |-> 0]
File(n) == [there |-> TRUE, bytes |-> n]
NoRange == [first |-> 0, last |-> -1, kind |-> "none"]
NoBlobCall ==
  [pc |-> "idle", op |-> "none", got |-> 0, total |-> 0, range |-> NoRange, names |-> {}]
NoRead  == [op |-> "none", range |-> NoRange, total |-> 0, digest |-> "none", status |-> "none",
            bytes |-> {}]

BlobsInit ==
  /\ adapter \in {"fs", "opfs", "s3", "r2"}
  /\ body \in [OpIds -> 0..MaxSize] /\ limit \in 0..MaxSize
  /\ drafts = [o \in OpIds |-> Absent] /\ object = [o \in OpIds |-> Absent] /\ sidecar = {}
  /\ begun = {} /\ blobCall = [c \in BlobCallers |-> NoBlobCall] /\ read = NoRead

BlobAt(c, l)     == blobCall[c].pc = l
BlobGoesOn(c, l) == blobCall' = [blobCall EXCEPT ![c].pc = l]
Returns(c)       == blobCall' = [blobCall EXCEPT ![c] = NoBlobCall]
InMemory         == adapter # "fs"

--------------------------------------------------------------------------------
(* putStaged().  The file system writes as the body arrives and takes the     *)
(* file back when the body is refused; the others collect the body first.     *)

Begins(c, o) ==
  /\ BlobAt(c, "idle") /\ o \notin begun /\ begun' = begun \cup {o}
  /\ blobCall' = [blobCall EXCEPT ![c] = [NoBlobCall EXCEPT !.pc = "body", !.op = o]]
  /\ UNCHANGED <<adapter, body, limit, object, sidecar, read>>

PutDraft(c, o) == ~InMemory /\ Begins(c, o) /\ drafts' = [drafts EXCEPT ![o] = File(0)]
Collect(c, o)   == InMemory /\ Begins(c, o) /\ UNCHANGED drafts

\* The next byte, written or kept.
Chunk(c) ==
  LET o == blobCall[c].op
      n == blobCall[c].got + 1
  IN  /\ BlobAt(c, "body") /\ n <= body[o] /\ n <= limit
      /\ blobCall' = [blobCall EXCEPT ![c].got = n]
      /\ drafts' = IF InMemory THEN drafts ELSE [drafts EXCEPT ![o] = File(n)]
      /\ UNCHANGED <<adapter, body, limit, object, sidecar, begun, read>>

\* One byte too many.
TooLarge(c) ==
  /\ BlobAt(c, "body") /\ blobCall[c].got = limit /\ limit < body[blobCall[c].op]
  /\ IF InMemory THEN Returns(c) ELSE BlobGoesOn(c, "takeBack")
  /\ UNCHANGED <<adapter, body, limit, drafts, object, sidecar, begun, read>>

AllRead(c) == BlobAt(c, "body") /\ blobCall[c].got = body[blobCall[c].op]

\* The digest is not the one the caller expected.
Mismatch(c) ==
  /\ AllRead(c)
  /\ IF InMemory THEN Returns(c) ELSE BlobGoesOn(c, "takeBack")
  /\ UNCHANGED <<adapter, body, limit, drafts, object, sidecar, begun, read>>

\* The file system has written it all; OPFS creates the file; S3 and R2 write the object.
Accept(c) ==
  LET o == blobCall[c].op
  IN  /\ AllRead(c) /\ BlobGoesOn(c, IF adapter = "opfs" THEN "fill" ELSE "staged")
      /\ drafts' = [drafts EXCEPT ![o] = IF adapter = "opfs" THEN File(0) ELSE File(body[o])]
      /\ UNCHANGED <<adapter, body, limit, object, sidecar, begun, read>>

\* OPFS: the file was created empty; close() puts the bytes in.
FillStaged(c) ==
  /\ BlobAt(c, "fill") /\ BlobGoesOn(c, "staged")
  /\ drafts' = [drafts EXCEPT ![blobCall[c].op] = File(body[blobCall[c].op])]
  /\ UNCHANGED <<adapter, body, limit, object, sidecar, begun, read>>

TakeBack(c) ==
  /\ BlobAt(c, "takeBack") /\ Returns(c)
  /\ drafts' = [drafts EXCEPT ![blobCall[c].op] = Absent]
  /\ UNCHANGED <<adapter, body, limit, object, sidecar, begun, read>>

--------------------------------------------------------------------------------
(* promote(): a rename and a sidecar; a file created, filled and given its    *)
(* sidecar; a copy inside the store; a read and a write with the digest.      *)

PromoteFs(c) ==
  LET o == blobCall[c].op
  IN  /\ adapter = "fs" /\ BlobAt(c, "staged") /\ BlobGoesOn(c, "sidecar")
      /\ object' = [object EXCEPT ![o] = drafts[o]]
      /\ drafts' = [drafts EXCEPT ![o] = Absent]
      /\ UNCHANGED <<adapter, body, limit, sidecar, begun, read>>

PromoteOpfs(c) ==
  LET o == blobCall[c].op
  IN  /\ adapter = "opfs" /\ BlobAt(c, "staged") /\ BlobGoesOn(c, "pour")
      /\ object' = IF object[o].there THEN object ELSE [object EXCEPT ![o] = File(0)]
      /\ UNCHANGED <<adapter, body, limit, drafts, sidecar, begun, read>>

PromoteS3(c) ==
  LET o == blobCall[c].op
  IN  /\ adapter = "s3" /\ BlobAt(c, "staged") /\ BlobGoesOn(c, "unstage")
      /\ object' = [object EXCEPT ![o] = drafts[o]]
      /\ UNCHANGED <<adapter, body, limit, drafts, sidecar, begun, read>>

PromoteR2(c) ==
  /\ adapter = "r2" /\ BlobAt(c, "staged") /\ BlobGoesOn(c, "put")
  /\ UNCHANGED <<adapter, body, limit, object, drafts, sidecar, begun, read>>

\* OPFS: the bytes, unless somebody removed the file meanwhile.
Pour(c) ==
  LET o == blobCall[c].op
  IN  /\ BlobAt(c, "pour")
      /\ IF object[o].there
         THEN BlobGoesOn(c, "sidecar") /\ object' = [object EXCEPT ![o] = File(drafts[o].bytes)]
         ELSE Returns(c) /\ UNCHANGED object
      /\ UNCHANGED <<adapter, body, limit, drafts, sidecar, begun, read>>

WriteSidecar(c) ==
  /\ BlobAt(c, "sidecar")
  /\ sidecar' = sidecar \cup {blobCall[c].op}
  /\ IF adapter = "opfs" THEN BlobGoesOn(c, "unstage") ELSE Returns(c)
  /\ UNCHANGED <<adapter, body, limit, object, drafts, begun, read>>

\* R2: the bytes and the digest in one write.
PutFinal(c) ==
  LET o == blobCall[c].op
  IN  /\ BlobAt(c, "put") /\ BlobGoesOn(c, "unstage")
      /\ object' = [object EXCEPT ![o] = drafts[o]] /\ sidecar' = sidecar \cup {o}
      /\ UNCHANGED <<adapter, body, limit, drafts, begun, read>>

\* The staged bytes go; an error is swallowed, or thrown once the object is there.
Unstage(c) ==
  /\ BlobAt(c, "unstage") /\ Returns(c)
  /\ \/ drafts' = [drafts EXCEPT ![blobCall[c].op] = Absent]
     \/ UNCHANGED drafts
  /\ UNCHANGED <<adapter, body, limit, object, sidecar, begun, read>>

--------------------------------------------------------------------------------
(* delete(): the file, then its sidecar where that is another file.           *)

Delete(c, o) ==
  /\ adapter \in {"fs", "opfs"} /\ BlobAt(c, "idle")
  /\ object' = [object EXCEPT ![o] = Absent]
  /\ blobCall' = [blobCall EXCEPT ![c] = [NoBlobCall EXCEPT !.pc = "drop", !.op = o]]
  /\ UNCHANGED <<adapter, body, limit, drafts, sidecar, begun, read>>

DeleteObject(c, o) ==
  /\ adapter \in {"s3", "r2"} /\ BlobAt(c, "idle")
  /\ object' = [object EXCEPT ![o] = Absent] /\ sidecar' = sidecar \ {o}
  /\ UNCHANGED <<adapter, body, limit, drafts, begun, blobCall, read>>

DropSidecar(c) ==
  /\ BlobAt(c, "drop") /\ Returns(c)
  /\ sidecar' = sidecar \ {blobCall[c].op}
  /\ UNCHANGED <<adapter, body, limit, object, drafts, begun, read>>

--------------------------------------------------------------------------------
(* open(): the size first, then the digest and the bytes.  parseRangeHeader() *)
(* turns "bytes=-n" into a start of -n.                                       *)

Ranges == {NoRange} \cup [first : 0..MaxSize, last : 0..MaxSize, kind : {"closed"}]
            \cup [first : 0..MaxSize, last : {-1}, kind : {"open"}]
            \cup [first : {-n : n \in 1..MaxSize}, last : {-1}, kind : {"suffix"}]

\* Mutant: the end is exclusive.
ResolveShort(range, total) ==
  LET first == IF range.first < 0 THEN 0 ELSE range.first
      last  == IF range.last = -1 \/ range.last >= total THEN total - 1 ELSE range.last - 1
  IN  [first |-> first, last |-> last,
       kind |-> IF first > last \/ first >= total THEN "unsatisfiable" ELSE "part"]

\* The range as the file system, OPFS and R2 adapters cut it to the object.
Resolve(range, total) ==
  LET first == IF range.first < 0 THEN 0 ELSE range.first
      last  == IF range.last = -1 \/ range.last >= total THEN total - 1 ELSE range.last
  IN  [first |-> first, last |-> last,
       kind |-> IF first > last \/ first >= total THEN "unsatisfiable" ELSE "part"]

\* S3 is sent "bytes=first-last"; it ignores what is no range, "bytes=-n-" among others.
Malformed(range) == range.kind = "suffix" \/ (range.kind = "closed" /\ range.first > range.last)

\* The answer for an object of that size.  A stream from 0 to -1 is refused by the file system.
AnswerFor(range, total) ==
  LET whole == [status |-> "200", bytes |-> 0..(total - 1)]
      cut   == Resolve(range, total)
  IN  CASE range.kind = "none" ->
             IF adapter = "fs" /\ total = 0 THEN [status |-> "error", bytes |-> {}] ELSE whole
        [] range.kind # "none" /\ adapter = "s3" /\ Malformed(range) -> whole
        [] OTHER -> IF cut.kind = "unsatisfiable" THEN [status |-> "416", bytes |-> {}]
                    ELSE [status |-> "206", bytes |-> cut.first..cut.last]

\* The file system and OPFS look at the file, R2 asks for the head.
OpenSize(c, o) ==
  /\ adapter # "s3" /\ BlobAt(c, "idle") /\ object[o].there
  /\ \E range \in Ranges :
       blobCall' = [blobCall EXCEPT ![c] = [NoBlobCall EXCEPT !.pc = "open", !.op = o,
                                              !.range = range, !.total = object[o].bytes]]
  /\ UNCHANGED <<adapter, body, limit, drafts, object, sidecar, begun, read>>

Opened(o, range, total) ==
  LET a == AnswerFor(range, total)
  IN  [op |-> o, range |-> range, total |-> total, status |-> a.status, bytes |-> a.bytes,
       digest |-> IF o \in sidecar THEN "sha256" ELSE "none"]

\* Nothing is answered when the object went meanwhile.
OpenRest(c) ==
  LET k == blobCall[c]
  IN  /\ BlobAt(c, "open") /\ Returns(c)
      /\ read' = IF object[k.op].there THEN Opened(k.op, k.range, k.total) ELSE NoRead
      /\ UNCHANGED <<adapter, body, limit, drafts, object, sidecar, begun>>

\* S3 answers one request.
OpenAtOnce(c, o) ==
  /\ adapter = "s3" /\ BlobAt(c, "idle") /\ object[o].there
  /\ \E range \in Ranges : read' = Opened(o, range, object[o].bytes)
  /\ UNCHANGED <<adapter, body, limit, drafts, object, sidecar, begun, blobCall>>

--------------------------------------------------------------------------------
(* listStaged() of the file system and of OPFS: the names, then each file; an *)
(* entry that went meanwhile fails the listing.                               *)

ListNames(c) ==
  /\ adapter \in {"fs", "opfs"} /\ BlobAt(c, "idle") /\ \E o \in OpIds : drafts[o].there
  /\ blobCall' = [blobCall EXCEPT ![c] =
                    [NoBlobCall EXCEPT !.pc = "list", !.names = {o \in OpIds : drafts[o].there}]]
  /\ UNCHANGED <<adapter, body, limit, drafts, object, sidecar, begun, read>>

ListOne(c) ==
  \E o \in blobCall[c].names :
    /\ BlobAt(c, "list")
    /\ IF ~drafts[o].there \/ blobCall[c].names = {o} THEN Returns(c)
       ELSE blobCall' = [blobCall EXCEPT ![c].names = @ \ {o}]
    /\ UNCHANGED <<adapter, body, limit, drafts, object, sidecar, begun, read>>

\* The process dies: the files stay as they are.
Die ==
  /\ \E c \in BlobCallers : ~BlobAt(c, "idle")
  /\ blobCall' = [c \in BlobCallers |-> NoBlobCall] /\ read' = NoRead
  /\ UNCHANGED <<adapter, body, limit, drafts, object, sidecar, begun>>

BlobsNext ==
  \/ Die
  \/ \E c \in BlobCallers :
       \/ Chunk(c) \/ TooLarge(c) \/ Mismatch(c) \/ Accept(c) \/ FillStaged(c) \/ TakeBack(c)
       \/ PromoteFs(c) \/ PromoteOpfs(c) \/ PromoteS3(c) \/ PromoteR2(c)
       \/ Pour(c) \/ WriteSidecar(c) \/ PutFinal(c) \/ Unstage(c)
       \/ DropSidecar(c) \/ OpenRest(c) \/ ListNames(c) \/ ListOne(c)
       \/ \E o \in OpIds :
            \/ PutDraft(c, o) \/ Collect(c, o) \/ Delete(c, o) \/ DeleteObject(c, o)
            \/ OpenSize(c, o) \/ OpenAtOnce(c, o)

BlobsSpec == BlobsInit /\ [][BlobsNext]_blobsVars

--------------------------------------------------------------------------------
\* The bytes a range asks for.
Wanted(range, n) ==
  CASE range.kind = "none"   -> 0..(n - 1)
    [] range.kind = "closed" -> {i \in 0..(n - 1) : range.first <= i /\ i <= range.last}
    [] range.kind = "open"   -> {i \in 0..(n - 1) : range.first <= i}
    [] range.kind = "suffix" -> {i \in 0..(n - 1) : n + range.first <= i}

\* What no adapter can be held to: a suffix range, which nothing resolves (range.ts:12, its
\* caller never calls resolveRange); an empty object of the file system; on S3, a range that
\* ends before it starts, answered in full.
KnownLimit(r) ==
  \/ r.range.kind = "suffix"
  \/ adapter = "fs" /\ r.total = 0 /\ r.range.kind = "none"
  \/ adapter = "s3" /\ Malformed(r.range)

\* Whatever uploads, deletions, dying processes and other readers did, an open() that is
\* answered is answered for the whole body that was staged, within its limit, and with exactly
\* the bytes asked for, 416 when there are none.  Only OPFS, which creates the final file before
\* it fills it, may show a file that is still empty (promote, open of the adapters).
ReadsTrue ==
  read.op # "none" =>
    /\ \/ read.total = body[read.op] /\ body[read.op] <= limit
       \/ adapter = "opfs" /\ read.total = 0
    /\ \/ KnownLimit(read)
       \/ /\ read.bytes = Wanted(read.range, read.total) /\ read.status # "error"
          /\ read.range.kind # "none" => (read.status = "416" <=> read.bytes = {})
================================================================================
