------------------------------- MODULE Download -------------------------------
(***************************************************************************)
(* Downloading an artifact in blocks (client/src/lib/range.ts,             *)
(* resume-db.ts, stream-disk.ts) from a server that answers ranges         *)
(* (api/artifacts.py), while the artifact is replaced.  The server reads   *)
(* the size, then the fingerprint, then opens the object: three steps.     *)
(*                                                                         *)
(* Simplifications, by name.                                               *)
(*  - A block is RangeChunk units; contents are told apart by version.     *)
(*  - One download at a time; the artifact is plain and its backend gives  *)
(*    a fingerprint.                                                       *)
(*  - Workers of an attempt that was given up are not followed: their      *)
(*    blocks go nowhere.                                                   *)
(***************************************************************************)
EXTENDS Naturals, FiniteSets

CONSTANTS
  Sizes,              \* sizes an artifact may have, in units
  Workers,            \* requests at a time in parallel mode
  RangeRetry,         \* RANGE_RETRY
  MaxRestart,         \* restarts of one download (3 in the code)
  MaxReplaced,        \* bound: times the artifact is replaced
  MaxDownloads,       \* bound: downloads begun
  MaxDownloadFaults   \* bound: failures

ASSUME DownloadBounds ==
  /\ RangeRetry \in Nat /\ MaxRestart \in Nat
  /\ MaxReplaced \in Nat /\ MaxDownloads \in Nat /\ MaxDownloadFaults \in Nat

RangeChunk == 2
Mode == {"serial", "parallel", "persisted", "disk"}
Longest == CHOOSE n \in Sizes : \A m \in Sizes : m <= n
BlockNo == 0 .. (Longest - 1) \div RangeChunk
Ver == 0 .. MaxReplaced + 1  \* 0: not there

VARIABLES
  file,        \* the artifact; size 0: there is none
  download,    \* the download in hand
  request,     \* the server's work on each block that is asked for
  kept,        \* IndexedDB: blocks kept under their ETag
  crossed,        \* history: a response was sent with the fingerprint of another version
  downloads, downloadFaults

downloadVars == <<file, download, request, kept, crossed, downloads, downloadFaults>>

Etag == [size : {0} \cup Sizes, ver : Ver]
Nothing == [size |-> 0, ver |-> 0]
NoBlocks == [b \in BlockNo |-> 0]
NoRequest == [stage |-> "none", size |-> 0, ver |-> 0, tries |-> 0]
NoRequests == [b \in BlockNo |-> NoRequest]
Kept == [etag : Etag, got : [BlockNo -> Ver], last : BlockNo, complete : BOOLEAN]
Idle == [pc |-> "idle", mode |-> "serial", etag |-> Nothing, got |-> NoBlocks, restarts |-> 0, saving |-> FALSE]

DownloadTypeOK ==
  /\ file \in Etag
  /\ download \in [pc : {"idle", "sized", "blocks", "done", "failed"}, mode : Mode, etag : Etag,
                   got : [BlockNo -> Ver], restarts : 0 .. MaxRestart, saving : BOOLEAN]
  /\ request \in [BlockNo -> [stage : {"none", "asked", "sized", "tagged"}, size : {0} \cup Sizes, ver : Ver,
                            tries : 0 .. RangeRetry]]
  /\ kept \subseteq Kept
  /\ crossed \in BOOLEAN /\ downloads \in 0 .. MaxDownloads /\ downloadFaults \in 0 .. MaxDownloadFaults

DownloadInit ==
  /\ \E n \in Sizes : file = [size |-> n, ver |-> 1]
  /\ download = Idle /\ request = NoRequests /\ kept = {} /\ crossed = FALSE
  /\ downloads = 0 /\ downloadFaults = 0

-----------------------------------------------------------------------------
Start(b) == b * RangeChunk
End(b, size) == IF Start(b) + RangeChunk <= size THEN Start(b) + RangeChunk ELSE size
Length(b, size) == IF End(b, size) > Start(b) THEN End(b, size) - Start(b) ELSE 0
BlocksOf(size) == {b \in BlockNo : Start(b) < size}
Wanted == {b \in BlocksOf(download.etag.size) : download.got[b] = 0}
Under(etag) == {k \in kept : k.etag = etag}

\* Somebody puts another version, or removes the artifact.
Replace ==
  /\ file.ver <= MaxReplaced
  /\ \E n \in {0} \cup Sizes : file' = [size |-> n, ver |-> file.ver + 1]
  /\ UNCHANGED <<download, request, kept, crossed, downloads, downloadFaults>>

Ended(result) == download' = [download EXCEPT !.pc = result] /\ request' = NoRequests
Becomes(d) == download' = d /\ UNCHANGED request

\* HEAD: the size; then the fingerprint, and the client takes up what it kept under this ETag.
ProbeSize(mode) ==
  /\ download.pc \in {"idle", "done", "failed"} /\ downloads < MaxDownloads
  /\ downloads' = downloads + 1
  /\ Becomes([Idle EXCEPT !.mode = mode, !.etag.size = file.size, !.pc = IF file.size = 0 THEN "failed" ELSE "sized"])
  /\ UNCHANGED <<file, kept, crossed, downloadFaults>>
\* probe and readChunks: kept blocks count as long as none is missing before the last.
Taken(etag) ==
  LET usable == {k \in Under(etag) : ~k.complete /\ \A b \in 0 .. k.last : k.got[b] # 0} IN
    IF usable = {} THEN NoBlocks ELSE (CHOOSE k \in usable : TRUE).got
ProbeTag ==
  /\ download.pc = "sized"
  /\ LET etag == [download.etag EXCEPT !.ver = file.ver]
         saves == download.mode = "persisted"
     IN IF etag.size <= RangeChunk /\ download.mode # "disk"
        THEN Becomes([download EXCEPT !.etag = [size |-> file.size, ver |-> file.ver],
               !.got = [b \in BlockNo |-> IF b \in BlocksOf(file.size) THEN file.ver ELSE 0],
               !.pc = IF file.size = 0 THEN "failed" ELSE "done"])
        ELSE Becomes([download EXCEPT !.etag = etag, !.saving = saves, !.pc = "blocks",
                                      !.got = IF saves THEN Taken(etag) ELSE NoBlocks])
  /\ UNCHANGED <<file, kept, crossed, downloads, downloadFaults>>

\* One block after the other; in parallel mode several are under way.
InFlight == {b \in BlockNo : request[b].stage # "none"}
AskBlock(b) ==
  /\ download.pc = "blocks" /\ b \in Wanted \ InFlight
  /\ \A c \in Wanted \ InFlight : b <= c
  /\ Cardinality(InFlight) < (IF download.mode = "parallel" THEN Workers ELSE 1)
  /\ request' = [request EXCEPT ![b].stage = "asked"]
  /\ UNCHANGED <<file, download, kept, crossed, downloads, downloadFaults>>

Drops(etag) == kept' = IF download.saving THEN kept \ Under(etag) ELSE kept
\* The file has changed: from the beginning, with the same ETag, a few times.
Restarts ==
  /\ Drops(download.etag)
  /\ IF download.restarts < MaxRestart /\ download.mode # "disk"
     THEN download' = [download EXCEPT !.got = NoBlocks, !.restarts = @ + 1] /\ request' = NoRequests
     ELSE Ended("failed")
TriesAgain(b) ==
  /\ IF request[b].tries + 1 < RangeRetry /\ download.mode # "disk"
     THEN request' = [request EXCEPT ![b] = [NoRequest EXCEPT !.stage = "asked", !.tries = request[b].tries + 1]]
          /\ UNCHANGED download
     ELSE Ended("failed")
  /\ UNCHANGED kept

\* The server: 404, 416, or the size that the answer states; then its fingerprint.
AnswerSize(b) ==
  /\ request[b].stage = "asked"
  /\ \/ file.size = 0 /\ Ended("failed") /\ UNCHANGED kept
     \/ 0 < file.size /\ file.size <= Start(b) /\ Restarts
     \/ /\ Start(b) < file.size
        /\ request' = [request EXCEPT ![b].stage = "sized", ![b].size = file.size]
        /\ UNCHANGED <<download, kept>>
  /\ UNCHANGED <<file, crossed, downloads, downloadFaults>>
AnswerTag(b) ==
  /\ request[b].stage = "sized"
  /\ request' = [request EXCEPT ![b].stage = "tagged", ![b].ver = file.ver]
  /\ UNCHANGED <<file, download, kept, crossed, downloads, downloadFaults>>

\* Mutant: the ETag of a block is not compared.
AnyEtag(b) == TRUE
SameEtag(b) == [size |-> request[b].size, ver |-> request[b].ver] = download.etag
\* append keeps the block, or the download goes on in memory.
Keeps(b, got) ==
  LET etag == download.etag
      before == IF Under(etag) = {} THEN NoBlocks ELSE (CHOOSE k \in Under(etag) : TRUE).got
      entry == [etag |-> etag, got |-> [before EXCEPT ![b] = got[b]], last |-> b, complete |-> FALSE]
  IN \/ download.saving /\ kept' = (kept \ Under(etag)) \cup {entry}
        /\ UNCHANGED downloadFaults /\ download' = [download EXCEPT !.got = got]
     \/ download.saving /\ downloadFaults < MaxDownloadFaults /\ downloadFaults' = downloadFaults + 1
        /\ kept' = kept \ Under(etag) /\ download' = [download EXCEPT !.got = got, !.saving = FALSE]
     \/ ~download.saving /\ download' = [download EXCEPT !.got = got] /\ UNCHANGED <<kept, downloadFaults>>
Accepts(b) ==
  /\ Keeps(b, [download.got EXCEPT ![b] = file.ver])
  /\ request' = [request EXCEPT ![b] = NoRequest]

\* The server opens the object and sends it; the client checks the length, then the ETag.  A
\* body that is too short for its header breaks the transfer.  The page that writes to the
\* disk checks nothing.
Receives(b) ==
  /\ request[b].stage = "tagged"
  /\ crossed' = (crossed \/ file.ver # request[b].ver)
  /\ LET length == Length(b, request[b].size)
         whole == Length(b, file.size) >= length
         expected == length = Length(b, download.etag.size)
         disk == download.mode = "disk"
     IN \/ ~whole /\ Ended("failed") /\ UNCHANGED <<kept, downloadFaults>>
        \/ whole /\ ~disk /\ ~expected /\ TriesAgain(b) /\ UNCHANGED downloadFaults
        \/ whole /\ ~disk /\ expected /\ ~SameEtag(b) /\ Restarts /\ UNCHANGED downloadFaults
        \/ whole /\ (disk \/ (expected /\ SameEtag(b))) /\ Accepts(b)
  /\ UNCHANGED <<file, downloads>>
RequestFails(b) ==
  /\ request[b].stage # "none" /\ downloadFaults < MaxDownloadFaults /\ downloadFaults' = downloadFaults + 1
  /\ TriesAgain(b)
  /\ UNCHANGED <<file, crossed, downloads>>

Complete ==
  /\ download.pc = "blocks" /\ Wanted = {} /\ Ended("done")
  /\ kept' = IF download.saving THEN (kept \ Under(download.etag)) \cup {[k EXCEPT !.complete = TRUE] : k \in Under(download.etag)}
             ELSE kept
  /\ UNCHANGED <<file, crossed, downloads, downloadFaults>>
\* cleanup removes what is old; the page is closed and loses what is in memory.
CleanUp ==
  /\ \E k \in kept : kept' = kept \ {k}
  /\ UNCHANGED <<file, download, request, crossed, downloads, downloadFaults>>
ClosePage ==
  /\ download.pc \in {"sized", "blocks"} /\ download' = Idle /\ request' = NoRequests
  /\ UNCHANGED <<file, kept, crossed, downloads, downloadFaults>>

DownloadNext ==
  \/ Replace \/ ProbeTag \/ Complete \/ CleanUp \/ ClosePage \/ \E mode \in Mode : ProbeSize(mode)
  \/ \E b \in BlockNo : AskBlock(b) \/ AnswerSize(b) \/ AnswerTag(b) \/ Receives(b) \/ RequestFails(b)
DownloadSpec == DownloadInit /\ [][DownloadNext]_downloadVars

-----------------------------------------------------------------------------
\* A download that ends well is one version of the artifact, all of it, however often it was
\* replaced, begun again or taken up from what was kept, unless the server sent a body under
\* another version's fingerprint.  (fetchBlock, fetchResumable, persistedDownloadArtifact)
OneVersion == \A b \in BlocksOf(download.etag.size) : download.got[b] = download.etag.ver
WholeOrError == download.pc = "done" /\ download.mode # "disk" /\ ~crossed => OneVersion
=============================================================================
