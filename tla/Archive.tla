------------------------------ MODULE Archive ------------------------------
(***************************************************************************)
(* The synchronous Archive of python/newtua/_archive.py on POSIX: lazy     *)
(* opening, the spilled copy of an archive that has no path of its own,    *)
(* the counted `_TempFile`, the password setter, streams that outlive the  *)
(* archive, close, and collection without close.                           *)
(*                                                                         *)
(* The operations of one archive run one at a time, except that the wait   *)
(* inside open_stream (the GIL is free there), the streams' close() and    *)
(* the worker threads interleave with everything else.  The pipe itself is *)
(* module StreamPipe; the engine (newtua-core) is external and answers     *)
(* whatever EngineOpen allows.                                             *)
(***************************************************************************)
EXTENDS Integers, FiniteSets

CONSTANTS
  Files,        (* names NamedTemporaryFile may hand out, each used once   *)
  Streams,      (* the streams open(..., stream=True) may return           *)
  NoFile,       (* None where a _TempFile is expected                      *)
  Owner,        (* the archive, as a claimant beside the streams           *)
  Sources,      (* kinds of source explored                                *)
  SpillFaults,  (* may writing the copy fail (disk full, source raises)?   *)
  Reaping       (* may another program remove files from the temp folder?  *)

ASSUME FilesAssumption == IsFiniteSet(Files) /\ NoFile \notin Files
ASSUME StreamsAssumption == IsFiniteSet(Streams) /\ Owner \notin Streams
ASSUME SourcesAssumption == Sources \subseteq {"path", "bytes", "stream"}
ASSUME FaultsAssumption == SpillFaults \in BOOLEAN /\ Reaping \in BOOLEAN

VARIABLES
  source, content, reopens,  (* fixed at construction                      *)
  drained,     (* the source stream has been read to its end               *)
  password,    (* self._password                                           *)
  reader,      (* self._reader: "none", or the password it was opened with *)
  entries,     (* self._entries is not None                                *)
  closed,      (* self._closed                                             *)
  dropped,     (* the archive object was collected without close()         *)
  tempfile,    (* self._tempfile                                           *)
  disk,        (* the spilled files on disk                                *)
  holders,     (* _TempFile._holders                                       *)
  stream,      (* where each stream is in its life                         *)
  held,        (* the _TempFile whose release is the stream's _on_close    *)
  worker,      (* the stream's worker thread, as far as the file goes      *)
  answer,      (* what the operation just made answered                    *)
  (* history, read by no operation:                                        *)
  reaped,      (* files another program removed                            *)
  orphans,     (* copies that failed before a _TempFile knew of them       *)
  mishaps      (* "spill": a copy failed; else what the engine answered    *)
               (* when it refused a copy                                   *)

fixed   == <<source, content, reopens>>
spill   == <<drained, tempfile, disk, holders, orphans, mishaps>>
streams == <<stream, held, worker>>
vars    == <<fixed, spill, streams, password, reader, entries, closed, dropped,
             answer, reaped>>

(* None and a wrong password are refused alike.                            *)
Passwords == {"wrong", "right"}
OnDisk(f) == disk[f] \in {"whole", "damaged"}

TypeOK ==
  /\ source \in Sources
  /\ content \in {"plain", "sealed", "junk"}
  /\ reopens \in BOOLEAN /\ drained \in BOOLEAN /\ entries \in BOOLEAN
  /\ closed \in BOOLEAN /\ dropped \in BOOLEAN
  /\ password \in Passwords
  /\ reader \in Passwords \cup {"none"}
  /\ tempfile \in Files \cup {NoFile}
  /\ disk \in [Files -> {"unused", "whole", "damaged", "gone"}]
  /\ holders \in [Files -> Int]
  /\ stream \in [Streams -> {"unused", "opening", "open", "ended",
                             "releasing", "closed", "gone"}]
  /\ held \in [Streams -> Files \cup {NoFile}]
  /\ worker \in [Streams -> {"none", "ready", "served", "starved"}]
  /\ answer \in {"none", "ok", "yes", "value_error", "not_found", "io",
                 "password", "bad_archive", "panic"}
  /\ reaped \subseteq Files
  /\ orphans \subseteq Files
  /\ mishaps \subseteq {"spill", "io", "password", "bad_archive"}

Init ==
  /\ source \in Sources
  /\ content \in {"plain", "sealed", "junk"}
  /\ reopens \in BOOLEAN
  /\ password \in Passwords
  /\ drained = FALSE /\ entries = FALSE /\ closed = FALSE /\ dropped = FALSE
  /\ reader = "none"
  /\ tempfile = NoFile
  /\ disk = [f \in Files |-> "unused"]
  /\ holders = [f \in Files |-> 0]
  /\ stream = [s \in Streams |-> "unused"]
  /\ held = [s \in Streams |-> NoFile]
  /\ worker = [s \in Streams |-> "none"]
  /\ answer = "none"
  /\ reaped = {} /\ orphans = {} /\ mishaps = {}

-----------------------------------------------------------------------------
(* _newtua.open on a file in that condition.  The headers of a "sealed"    *)
(* archive are encrypted; a damaged copy may still open.  "panic" is what  *)
(* is no Exception: the engine's PanicException, or a KeyboardInterrupt.   *)
EngineOpen(condition) ==
  {"io", "panic"} \cup
  (IF condition = "damaged" THEN {"ok", "bad_archive"}
   ELSE IF content = "junk" THEN {"bad_archive"}
   ELSE IF content = "sealed" /\ password # "right" THEN {"password"}
   ELSE {"ok"})

(* A reader that was not created is kept as if it had been.                *)
FaultyNewReader(r) == r

NewReader(r) == IF r = "ok" THEN password ELSE "none"

(* _TempFile.release with n holders counted: how the file ends up.         *)
FaultyAfterRelease(n, condition) == IF n > 1 THEN "gone" ELSE condition

AfterRelease(n, condition) ==
  IF n - 1 > 0 \/ condition = "unused" THEN condition ELSE "gone"

(* What a fresh copy of the source holds.                                  *)
Copied == IF drained THEN "damaged" ELSE "whole"

(* _open on a closed archive, and with a reader already there.             *)
OpenShut(r) == closed /\ r = "value_error" /\ UNCHANGED <<spill, reader>>
OpenWarm(r) == ~closed /\ reader # "none" /\ r = "ok" /\ UNCHANGED <<spill, reader>>

(* _open of a path source: no copy is made.                                *)
OpenOwnPath(r) ==
  /\ ~closed /\ reader = "none" /\ source = "path"
  /\ r \in {"not_found"} \cup EngineOpen("whole")
  /\ reader' = NewReader(r)
  /\ UNCHANGED spill

(* The spilled copy is never looked at again: every reopening makes one.   *)
FaultyReusable == FALSE

(* The copy _backing_path may use again.                                   *)
Reusable == tempfile # NoFile /\ OnDisk(tempfile)

(* `except Exception` lets a panic pass: the copy stays the archive's.     *)
KeepsCopy(r) == r \in {"ok", "panic"}

(* The archive's claim is not given up when the engine refuses the copy.   *)
FaultyEngineOpens(f, condition, n, r) ==
  /\ r \in EngineOpen(condition)
  /\ reader' = NewReader(r)
  /\ mishaps' = mishaps \cup {x \in {r} : ~KeepsCopy(x)}
  /\ tempfile' = IF KeepsCopy(r) THEN f ELSE NoFile
  /\ holders' = [holders EXCEPT ![f] = n]
  /\ disk' = [disk EXCEPT ![f] = condition]

(* The engine opens copy f, on which n claims are counted; when it refuses *)
(* the archive gives its claim up and forgets the copy.                    *)
EngineOpens(f, condition, n, r) ==
  /\ r \in EngineOpen(condition)
  /\ reader' = NewReader(r)
  /\ mishaps' = mishaps \cup {x \in {r} : ~KeepsCopy(x)}
  /\ tempfile' = IF KeepsCopy(r) THEN f ELSE NoFile
  /\ holders' = [holders EXCEPT ![f] = IF KeepsCopy(r) THEN n ELSE n - 1]
  /\ disk' = [disk EXCEPT ![f] =
                IF KeepsCopy(r) THEN condition ELSE AfterRelease(n, condition)]

OpenReuse(r) ==
  /\ ~closed /\ reader = "none" /\ source # "path"
  /\ Reusable
  /\ EngineOpens(tempfile, disk[tempfile], holders[tempfile], r)
  /\ UNCHANGED <<drained, orphans>>

(* _backing_path has to make a copy, in the fresh file f.                  *)
Spilling(f) ==
  /\ ~closed /\ reader = "none" /\ source # "path"
  /\ ~Reusable
  /\ disk[f] = "unused"
  /\ drained' = (drained \/ source = "stream")

OpenFresh(f, r) ==
  /\ Spilling(f)
  /\ EngineOpens(f, Copied, 1, r)
  /\ UNCHANGED orphans

(* Writing the copy raises before the _TempFile exists, or (flushing at    *)
(* the end of the `with`) just after it was recorded.                      *)
SpillFails(f, r) ==
  /\ SpillFaults
  /\ Spilling(f)
  /\ r = "io"
  /\ disk' = [disk EXCEPT ![f] = "damaged"]
  /\ mishaps' = mishaps \cup {"spill"}
  /\ \/ /\ orphans' = orphans \cup {f}
        /\ UNCHANGED <<tempfile, holders>>
     \/ /\ tempfile' = f
        /\ holders' = [holders EXCEPT ![f] = 1]
        /\ UNCHANGED orphans
  /\ UNCHANGED reader

Opening(r) ==
  \/ OpenShut(r) \/ OpenWarm(r) \/ OpenOwnPath(r) \/ OpenReuse(r)
  \/ \E f \in Files : OpenFresh(f, r) \/ SpillFails(f, r)

Answers == {"ok", "value_error", "not_found", "io", "password", "bad_archive",
            "panic"}

idle == <<fixed, streams, password, closed, dropped, reaped>>

(* `format`, `detected_encoding`: the reader is enough.                    *)
Peek ==
  /\ ~dropped
  /\ \E r \in Answers : Opening(r) /\ answer' = r
  /\ UNCHANGED <<idle, entries>>

(* _listing, behind len, iteration, lookup and __enter__; needs_password   *)
(* asks the same and takes a refusal over the password for a yes.          *)
List ==
  /\ ~dropped
  /\ \/ /\ entries
        /\ answer' = "ok"
        /\ UNCHANGED <<spill, reader, entries>>
     \/ /\ ~entries
        /\ \E r \in Answers :
             /\ Opening(r)
             /\ entries' = (r = "ok")
             /\ answer' \in {r} \cup (IF r = "password" THEN {"yes"} ELSE {})
  /\ UNCHANGED idle

(* read, extract, open, up to the engine's own work on the entry: _open    *)
(* first, then the listing for the index.                                  *)
Use ==
  /\ ~dropped
  /\ \E r \in Answers :
       /\ Opening(r)
       /\ entries' = (entries \/ r = "ok")
       /\ answer' = r
  /\ UNCHANGED idle

(* The list built under the previous password survives the setter.         *)
FaultySetPassword(p) ==
  /\ ~dropped
  /\ password' = p
  /\ reader' = "none" /\ answer' = "none"
  /\ UNCHANGED <<fixed, spill, streams, closed, dropped, reaped, entries>>

(* The reader made with the previous password survives it.                 *)
FaultyKeepReader(p) ==
  /\ ~dropped
  /\ password' = p
  /\ entries' = FALSE /\ answer' = "none"
  /\ UNCHANGED <<fixed, spill, streams, closed, dropped, reaped, reader>>

SetPassword(p) ==
  /\ ~dropped
  /\ password' = p
  /\ reader' = "none" /\ entries' = FALSE /\ answer' = "none"
  /\ UNCHANGED <<fixed, spill, streams, closed, dropped, reaped>>

-----------------------------------------------------------------------------
still == <<fixed, password, reader, entries, closed, dropped, reaped, drained,
           orphans, mishaps>>

(* A step that is no operation of the archive answers nothing.             *)
Silent == UNCHANGED still /\ answer' = "none"

(* The claim is not taken before the worker is started.                    *)
FaultyOpenStream(s) ==
  /\ ~dropped /\ ~closed /\ entries /\ stream[s] = "unused"
  /\ stream' = [stream EXCEPT ![s] = "opening"]
  /\ held' = [held EXCEPT ![s] = tempfile]
  /\ Silent /\ UNCHANGED <<worker, tempfile, disk, holders>>

(* _open_pipe_posix up to the wait in open_stream, after the part shared   *)
(* with every reading operation (Use): the claim comes first.              *)
OpenStream(s) ==
  /\ ~dropped /\ ~closed /\ entries /\ stream[s] = "unused"
  /\ stream' = [stream EXCEPT ![s] = "opening"]
  /\ held' = [held EXCEPT ![s] = tempfile]
  /\ holders' = IF tempfile = NoFile THEN holders
                ELSE [holders EXCEPT ![tempfile] = @ + 1]
  /\ Silent /\ UNCHANGED <<worker, tempfile, disk>>

(* The worker thread has opened the archive again, by path.                *)
StreamReady(s) ==
  /\ stream[s] = "opening"
  /\ held[s] # NoFile => OnDisk(held[s])
  /\ stream' = [stream EXCEPT ![s] = "open"]
  /\ worker' = [worker EXCEPT ![s] = "ready"]
  /\ Silent /\ UNCHANGED <<held, tempfile, disk, holders>>

(* A stream whose pipe is shut, by close(), by collection or because       *)
(* open_stream raised, still has to give its claim up.                     *)
StreamEnds(s) ==
  /\ stream[s] \in {"opening", "open"}
  /\ stream' = [stream EXCEPT ![s] = IF held[s] = NoFile THEN "closed" ELSE "ended"]
  /\ Silent /\ UNCHANGED <<held, worker, tempfile, disk, holders>>

(* The count decides against the wrong bound: it never reaches it.         *)
FaultyStreamRelease(s) ==
  /\ stream[s] = "ended"
  /\ holders' = [holders EXCEPT ![held[s]] = @ - 1]
  /\ stream' = [stream EXCEPT ![s] =
                  IF holders[held[s]] - 1 >= 0 THEN "closed" ELSE "releasing"]
  /\ Silent /\ UNCHANGED <<held, worker, tempfile, disk>>

(* _TempFile.release under its lock, and the deletion after it.            *)
StreamRelease(s) ==
  /\ stream[s] = "ended"
  /\ holders' = [holders EXCEPT ![held[s]] = @ - 1]
  /\ stream' = [stream EXCEPT ![s] =
                  IF holders[held[s]] - 1 > 0 THEN "closed" ELSE "releasing"]
  /\ Silent /\ UNCHANGED <<held, worker, tempfile, disk>>

StreamDelete(s) ==
  /\ stream[s] = "releasing"
  /\ disk' = [disk EXCEPT ![held[s]] = "gone"]
  /\ stream' = [stream EXCEPT ![s] = "closed"]
  /\ Silent /\ UNCHANGED <<held, worker, tempfile, holders>>

(* The closed stream object is let go, and its bound `release` with it.    *)
StreamCollect(s) ==
  /\ stream[s] = "closed"
  /\ stream' = [stream EXCEPT ![s] = "gone"]
  /\ held' = [held EXCEPT ![s] = NoFile]
  /\ Silent /\ UNCHANGED <<worker, tempfile, disk, holders>>

(* The worker reads its entry; 7z and RAR open the file by path for that.  *)
WorkerRead(s) ==
  /\ worker[s] = "ready"
  /\ worker' = [worker EXCEPT ![s] =
       IF reopens /\ held[s] # NoFile /\ ~OnDisk(held[s]) THEN "starved"
       ELSE "served"]
  /\ Silent /\ UNCHANGED <<stream, held, tempfile, disk, holders>>

-----------------------------------------------------------------------------
(* The cached list outlives close().                                       *)
FaultyClose ==
  /\ ~dropped
  /\ reader' = "none" /\ closed' = TRUE /\ answer' = "none"
  /\ tempfile' = NoFile
  /\ holders' = [f \in Files |-> IF f = tempfile THEN holders[f] - 1 ELSE holders[f]]
  /\ disk' = [f \in Files |->
       IF f = tempfile THEN AfterRelease(holders[f], disk[f]) ELSE disk[f]]
  /\ UNCHANGED <<fixed, streams, password, dropped, reaped, drained, orphans,
                 mishaps, entries>>

Close ==
  /\ ~dropped
  /\ reader' = "none" /\ entries' = FALSE /\ closed' = TRUE /\ answer' = "none"
  /\ tempfile' = NoFile
  /\ holders' = [f \in Files |-> IF f = tempfile THEN holders[f] - 1 ELSE holders[f]]
  /\ disk' = [f \in Files |->
       IF f = tempfile THEN AfterRelease(holders[f], disk[f]) ELSE disk[f]]
  /\ UNCHANGED <<fixed, streams, password, dropped, reaped, drained, orphans,
                 mishaps>>

(* The archive is collected without close(); nothing of it is on a stack.  *)
Drop ==
  /\ ~dropped /\ ~closed
  /\ \A s \in Streams : stream[s] # "opening"
  /\ dropped' = TRUE
  /\ tempfile' = NoFile
  /\ reader' = "none" /\ entries' = FALSE /\ answer' = "none"
  /\ UNCHANGED <<fixed, streams, password, closed, reaped, drained, orphans,
                 mishaps, disk, holders>>

(* The finalizer runs although a stream can still reach the _TempFile.     *)
FaultyFinalize(f) ==
  /\ OnDisk(f) /\ f \notin orphans
  /\ tempfile # f
  /\ disk' = [disk EXCEPT ![f] = "gone"]
  /\ Silent /\ UNCHANGED <<streams, tempfile, holders>>

(* weakref.finalize: no reference to the _TempFile is left.                *)
Finalize(f) ==
  /\ OnDisk(f) /\ f \notin orphans
  /\ tempfile # f /\ \A s \in Streams : held[s] # f
  /\ disk' = [disk EXCEPT ![f] = "gone"]
  /\ Silent /\ UNCHANGED <<streams, tempfile, holders>>

(* Another program cleans the temp folder.                                 *)
Reap(f) ==
  /\ Reaping
  /\ OnDisk(f)
  /\ disk' = [disk EXCEPT ![f] = "gone"]
  /\ reaped' = reaped \cup {f}
  /\ answer' = "none"
  /\ UNCHANGED <<fixed, streams, password, reader, entries, closed, dropped,
                 drained, tempfile, holders, orphans, mishaps>>

StreamStep(s) ==
  \/ OpenStream(s) \/ StreamReady(s) \/ StreamEnds(s) \/ StreamRelease(s)
  \/ StreamDelete(s) \/ StreamCollect(s) \/ WorkerRead(s)

Next ==
  \/ Peek \/ List \/ Use \/ Close \/ Drop
  \/ \E p \in Passwords : SetPassword(p)
  \/ \E s \in Streams : StreamStep(s)
  \/ \E f \in Files : Finalize(f) \/ Reap(f)

(* close() of a stream runs to its end; CPython collects by counting       *)
(* references.  Nobody is obliged to call anything, so the rest is free.   *)
Fairness ==
  /\ \A s \in Streams : WF_vars(StreamRelease(s)) /\ WF_vars(StreamDelete(s))
  /\ \A f \in Files : WF_vars(Finalize(f))

Safety == Init /\ [][Next]_vars
Spec   == Safety /\ Fairness

-----------------------------------------------------------------------------
(* Who still needs file f: the archive, and the streams that have not yet  *)
(* given their claim up.                                                   *)
Claims(f) ==
  {c \in {Owner} : tempfile = f} \cup
  {s \in Streams : held[s] = f /\ stream[s] \in {"opening", "open", "ended"}}

(* A spilled file stays on disk while the archive or a live stream needs   *)
(* it ("outlives whoever still needs it", _archive.py:47), whatever the    *)
(* order of password retries, failed opens, closes and collections, unless *)
(* somebody outside removed it.                                            *)
ClaimedFileExists ==
  \A f \in Files : Claims(f) # {} /\ f \notin reaped => OnDisk(f)

(* Once the archive is closed and its streams are closed no copy is left,  *)
(* in whatever order that happened (_archive.py:607), except the copies    *)
(* that failed half-way.                                                   *)
NothingLeftBehind ==
  closed /\ (\A s \in Streams : stream[s] \in {"unused", "closed", "gone"})
    => \A f \in Files : OnDisk(f) => f \in orphans

(* The same without the exception, as the class promises: "close the       *)
(* archive and delete any temporary file it made" (_archive.py:198).       *)
CloseDeletesEveryFile ==
  closed /\ (\A s \in Streams : stream[s] \in {"unused", "closed", "gone"})
    => \A f \in Files : ~OnDisk(f)

(* Writing a copy failed, or a source stream had to be read twice: after a *)
(* refused open or an outside removal.                                     *)
CopyMayBeDamaged ==
  \/ "spill" \in mishaps
  \/ source = "stream" /\ (mishaps # {} \/ reaped # {})

(* No operation answers from what an earlier password opened: an archive   *)
(* with encrypted headers answers only while the right password is set.    *)
(* Only a damaged copy, whose nature is anybody's guess, is excused.       *)
SealedStaysShut ==
  answer = "ok" /\ content = "sealed" /\ ~CopyMayBeDamaged => password = "right"

(* The assertion of __repr__ (_archive.py:359): a cached list always has   *)
(* its reader beside it.                                                   *)
ReprIsSafe == entries => reader # "none"

(* A sound archive is called unrecognisable only when its copy might be    *)
(* damaged before.  Changing the password alone never leads there: the     *)
(* copy is used again instead of a source already read (_archive.py:258).  *)
GoodArchiveRecognised ==
  [][answer' = "bad_archive" /\ content # "junk" => CopyMayBeDamaged]_vars

(* A sound archive with encrypted headers, refused only for want of the    *)
(* password, opens once the right one is set: "changing it simply reopens  *)
(* the archive" (README.md:189), whatever the source.                      *)
RetryRecognisesGoodArchive ==
  content = "sealed" /\ password = "right" /\ mishaps \subseteq {"password", "bad_archive"}
    => answer # "bad_archive"

(* After close() no operation succeeds and no copy is ever made again.     *)
ClosedIsFinal ==
  [][closed => /\ closed'
               /\ answer' # "ok"
               /\ \A f \in Files : disk[f] = "unused" => disk'[f] = "unused"]_vars

(* A worker whose stream is still being read finds its file, closed        *)
(* archive or not, unless somebody outside removed the file.               *)
NoStarvedReader ==
  [][\A s \in Streams :
       worker'[s] = "starved" /\ worker[s] # "starved" /\ stream[s] = "open"
         => held[s] \in reaped]_vars

(* The strengthening that makes ClaimedFileExists inductive: the counter   *)
(* never falls below the number of claims, so the release that reaches     *)
(* zero is the last; nothing can refer to a file that was never made; and  *)
(* a copy that failed before it was recorded was never claimed.            *)
Counted == \A f \in Files : holders[f] >= Cardinality(Claims(f))
Deleting == \A s \in Streams :
  /\ stream[s] = "releasing" => held[s] \in Files /\ holders[held[s]] =< 0
  /\ stream[s] = "ended" => held[s] \in Files
  /\ stream[s] \in {"unused", "gone"} => held[s] = NoFile
Fresh == \A f \in Files :
  /\ disk[f] = "unused" => tempfile # f /\ \A s \in Streams : held[s] # f
  /\ f \in orphans => tempfile # f /\ \A s \in Streams : held[s] # f
  /\ f \in orphans \cup reaped => disk[f] # "unused"
IInv == TypeOK /\ Counted /\ Deleting /\ Fresh /\ ClaimedFileExists

(* What becomes of f is up to the code alone: the archive has let go of it *)
(* and every stream that had a claim is closing or closed.  A stream that  *)
(* outlives an archive collected without close() keeps the file until it   *)
(* is collected itself.                                                    *)
LetGo(f) ==
  /\ OnDisk(f) /\ f \notin orphans /\ tempfile # f
  /\ \A s \in Streams : held[s] = f =>
       ~dropped /\ stream[s] \in {"ended", "releasing", "closed"}

(* ... and then the file goes.                                             *)
LetGoFilesGo == \A f \in Files : LetGo(f) ~> ~OnDisk(f)

(* What TempFileClaims sees of file f.  A copy that failed before it was   *)
(* recorded, or that was removed from outside, is lost to it.              *)
FileState(f) ==
  IF f \in reaped \cup orphans THEN "lost"
  ELSE CASE disk[f] = "unused" -> "unused"
         [] disk[f] = "gone"   -> "removed"
         [] OTHER              -> "present"

LiveClaims(f) == IF f \in reaped \cup orphans THEN {} ELSE Claims(f)

fileState  == [f \in Files |-> FileState(f)]
fileClaims == [f \in Files |-> LiveClaims(f)]

ClaimsOf == INSTANCE TempFileClaims WITH
  Claimants <- Streams \cup {Owner}, state <- fileState, claims <- fileClaims

(* The counter keeps the promise of TempFileClaims: only the last claimant *)
(* takes the file with it.                                                 *)
KeepsClaims == ClaimsOf!Spec
=============================================================================
