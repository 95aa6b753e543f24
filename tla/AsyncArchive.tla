---------------------------- MODULE AsyncArchive ----------------------------
(***************************************************************************)
(* AsyncArchive of python/newtua/_async.py on POSIX, over a source that    *)
(* has to be copied: entering and leaving `async with`, cancellation of an *)
(* await whose thread runs on, entering again, read and extract by path,   *)
(* streams whose context is entered late, and close() of one stream from   *)
(* several threads.                                                        *)
(*                                                                         *)
(* Coroutines run on one thread, the loop; whatever goes through           *)
(* asyncio.to_thread interleaves with it and with the rest.  Copying       *)
(* succeeds here and the pipe is left out: modules Archive and StreamPipe  *)
(* have them.  One block is entered at a time.                             *)
(***************************************************************************)
EXTENDS Integers, FiniteSets

CONSTANTS
  Files,     (* names NamedTemporaryFile may hand out, each used once      *)
  Attempts,  (* the times `async with` is tried on the archive             *)
  Streams,   (* the stream contexts ar.open() may return                   *)
  Calls,     (* the calls of read and extract                              *)
  Closers,   (* the threads that may close one stream                      *)
  NoFile,    (* None where a file is expected                              *)
  Owner      (* the archive, as a claimant beside the streams              *)

ASSUME FilesAssumption == NoFile \notin Files
ASSUME StreamsAssumption == IsFiniteSet(Streams) /\ Owner \notin Streams

VARIABLES
  path,      (* self._path                                                 *)
  closed,    (* self._closed                                               *)
  tempfile,  (* self._sync._tempfile                                       *)
  dropped,   (* the AsyncArchive was collected                             *)
  disk,      (* the copies                                                 *)
  holders,   (* _TempFile._holders                                         *)
  task,      (* the coroutine of each attempt                              *)
  copier,    (* its thread in _backing_path                                *)
  file,      (* the copy in that thread's, later the coroutine's, hands    *)
  call, callPath,            (* each call, and the path it was given       *)
  stage, held, streamPath,   (* each stream: its life, its claim, its path *)
  shut,      (* the stream's `closed`                                      *)
  closer,    (* where each thread in its close() is                        *)
  worker,    (* the stream's worker thread, as far as the copy goes        *)
  (* history, read by no action:                                           *)
  early,     (* streams entered in the block, and open when it was left    *)
  overlap,   (* an attempt began while the thread of another was copying   *)
  together   (* two threads were in one stream's close() at once           *)

entering == <<task, copier, file>>
calls    == <<call, callPath>>
stream   == <<stage, held, streamPath, shut, closer, worker, early, together>>
vars == <<path, closed, tempfile, dropped, disk, holders, entering, calls, stream,
          overlap>>

Busy == {"looking", "copying"}

TypeOK ==
  /\ path \in Files \cup {NoFile} /\ tempfile \in Files \cup {NoFile}
  /\ closed \in BOOLEAN /\ dropped \in BOOLEAN
  /\ overlap \in BOOLEAN /\ together \in BOOLEAN
  /\ disk \in [Files -> {"unused", "copying", "present", "gone"}]
  /\ holders \in [Files -> Int]
  /\ task \in [Attempts -> {"none", "entering", "listing", "inside", "deleting",
                            "forgetting", "left", "cancelled"}]
  /\ copier \in [Attempts -> {"none", "ended"} \cup Busy]
  /\ file \in [Attempts -> Files \cup {NoFile}]
  /\ \A a \in Attempts : copier[a] = "copying" => file[a] \in Files
  /\ call \in [Calls -> {"none", "running", "answered", "missing"}]
  /\ callPath \in [Calls -> Files \cup {NoFile}]
  /\ stage \in [Streams -> {"none", "context", "starting", "grabbed", "claimed",
                            "failing", "deleting", "failed", "open", "collected"}]
  /\ held \in [Streams -> Files \cup {NoFile}]
  /\ streamPath \in [Streams -> Files \cup {NoFile}]
  /\ shut \in [Streams -> BOOLEAN]
  /\ closer \in [Streams -> [Closers -> {"none", "shutting", "releasing", "deleting",
                                         "released", "skipped"}]]
  /\ worker \in [Streams -> {"none", "ready", "served", "starved"}]
  /\ early \subseteq Streams

Init ==
  /\ path = NoFile /\ tempfile = NoFile /\ closed = FALSE /\ dropped = FALSE
  /\ disk = [f \in Files |-> "unused"] /\ holders = [f \in Files |-> 0]
  /\ task = [a \in Attempts |-> "none"] /\ copier = [a \in Attempts |-> "none"]
  /\ file = [a \in Attempts |-> NoFile]
  /\ call = [c \in Calls |-> "none"] /\ callPath = [c \in Calls |-> NoFile]
  /\ stage = [s \in Streams |-> "none"] /\ held = [s \in Streams |-> NoFile]
  /\ streamPath = [s \in Streams |-> NoFile] /\ shut = [s \in Streams |-> FALSE]
  /\ closer = [s \in Streams |-> [c \in Closers |-> "none"]]
  /\ worker = [s \in Streams |-> "none"]
  /\ early = {} /\ overlap = FALSE /\ together = FALSE

-----------------------------------------------------------------------------
Becomes(a, place) == task' = [task EXCEPT ![a] = place]

Inside == \E a \in Attempts : task[a] = "inside"

(* No coroutine is in the middle of close(): the loop can run another.     *)
LoopFree == ~dropped /\ \A a \in Attempts : task[a] \notin {"deleting", "forgetting"}

(* __aenter__ hands _backing_path to a thread.                             *)
Enter(a) ==
  /\ LoopFree /\ task[a] = "none"
  /\ \A b \in Attempts : task[b] \in {"none", "left", "cancelled"}
  /\ Becomes(a, "entering")
  /\ copier' = [copier EXCEPT ![a] = "looking"]
  /\ overlap' = (overlap \/ \E b \in Attempts : copier[b] \in Busy)
  /\ UNCHANGED <<path, closed, tempfile, dropped, disk, holders, file, calls, stream>>

HasCopy == tempfile # NoFile /\ disk[tempfile] = "present"

(* The thread keeps hold of the file it looks at.                          *)
FaultyKeeps(a, f) == UNCHANGED file
Keeps(a, f) == file' = [file EXCEPT ![a] = f]

(* _backing_path: the copy is used again, or a new one begun.              *)
Look(a) ==
  /\ copier[a] = "looking"
  /\ \/ /\ HasCopy
        /\ Keeps(a, tempfile)
        /\ copier' = [copier EXCEPT ![a] = "ended"]
        /\ UNCHANGED disk
     \/ /\ ~HasCopy
        /\ \E f \in Files :
             /\ disk[f] = "unused"
             /\ disk' = [disk EXCEPT ![f] = "copying"]
             /\ Keeps(a, f)
        /\ copier' = [copier EXCEPT ![a] = "copying"]
  /\ UNCHANGED <<path, closed, tempfile, dropped, holders, task, calls, stream, overlap>>

(* The copy is complete and becomes the archive's, in place of any other.  *)
Copied(a) ==
  /\ copier[a] = "copying"
  /\ copier' = [copier EXCEPT ![a] = "ended"]
  /\ disk' = [disk EXCEPT ![file[a]] = "present"]
  /\ holders' = [holders EXCEPT ![file[a]] = 1]
  /\ tempfile' = file[a]
  /\ UNCHANGED <<path, closed, dropped, task, file, calls, stream, overlap>>

(* The await is over: the path, and list_path on another thread.           *)
Resume(a) ==
  /\ LoopFree /\ task[a] = "entering" /\ copier[a] = "ended"
  /\ path' = file[a]
  /\ Becomes(a, "listing")
  /\ UNCHANGED <<closed, tempfile, dropped, disk, holders, copier, file, calls, stream,
                 overlap>>

Listed(a) ==
  /\ LoopFree /\ task[a] = "listing" /\ disk[path] = "present"
  /\ Becomes(a, "inside")
  /\ UNCHANGED <<path, closed, tempfile, dropped, disk, holders, copier, file, calls,
                 stream, overlap>>

(* CancelledError at either await: no handler, and the thread runs on.  A  *)
(* panic of list_path, which is no Exception, leaves in the same way.      *)
Cancel(a) ==
  /\ LoopFree /\ task[a] \in {"entering", "listing"}
  /\ Becomes(a, "cancelled")
  /\ UNCHANGED <<path, closed, tempfile, dropped, disk, holders, copier, file, calls,
                 stream, overlap>>

(* hold(), and release(): the part under the lock -- is the file to be     *)
(* deleted? -- and the deletion after it.                                  *)
FaultyCountedUp(f) == holders
CountedUp(f) == IF f = NoFile THEN holders ELSE [holders EXCEPT ![f] = @ + 1]

Last(f) == f # NoFile /\ holders[f] - 1 =< 0
CountedDown(f) ==
  IF f = NoFile THEN holders ELSE [holders EXCEPT ![f] = @ - 1]
FaultyDeleted(f) == disk
Deleted(f) == [disk EXCEPT ![f] = "gone"]

(* _sync.close(), from __aexit__ or after list_path raised.                *)
Close(a) ==
  /\ LoopFree /\ task[a] \in {"inside", "listing"}
  /\ holders' = CountedDown(tempfile)
  /\ Keeps(a, tempfile)
  /\ Becomes(a, IF Last(tempfile) THEN "deleting" ELSE "forgetting")
  /\ closed' = (closed \/ task[a] = "inside")
  /\ early' = {s \in early : stage[s] = "open"}
  /\ UNCHANGED <<path, tempfile, dropped, disk, copier, calls, stage, held, streamPath,
                 shut, closer, worker, together, overlap>>

(* ... the deletion it decided on, and `_tempfile = None`.                 *)
Forget(a) ==
  /\ task[a] \in {"deleting", "forgetting"}
  /\ disk' = IF task[a] = "deleting" THEN Deleted(file[a]) ELSE disk
  /\ tempfile' = NoFile
  /\ Becomes(a, "left")
  /\ UNCHANGED <<path, closed, dropped, holders, copier, file, calls, stream, overlap>>

(* The object is let go; no frame refers to it.                            *)
Drop ==
  /\ LoopFree
  /\ \A a \in Attempts :
       task[a] \in {"none", "left", "cancelled"} /\ copier[a] \notin Busy
  /\ \A c \in Calls : call[c] # "running"
  /\ \A s \in Streams : stage[s] \in {"none", "open", "failed", "collected"}
  /\ dropped' = TRUE
  /\ tempfile' = NoFile
  /\ UNCHANGED <<path, closed, disk, holders, entering, calls, stream, overlap>>

(* weakref.finalize: no reference to the _TempFile is left.                *)
Finalize(f) ==
  /\ disk[f] = "present"
  /\ tempfile # f /\ \A s \in Streams : held[s] # f
  /\ disk' = Deleted(f)
  /\ UNCHANGED <<path, closed, tempfile, dropped, holders, entering, calls, stream,
                 overlap>>

-----------------------------------------------------------------------------
(* read and extract: _ensure_ready, then a thread that knows the path only.*)
StartCall(c) ==
  /\ LoopFree /\ call[c] = "none"
  /\ path # NoFile /\ ~closed
  /\ call' = [call EXCEPT ![c] = "running"]
  /\ callPath' = [callPath EXCEPT ![c] = path]
  /\ UNCHANGED <<path, closed, tempfile, dropped, disk, holders, entering, stream, overlap>>

RunCall(c) ==
  /\ call[c] = "running"
  /\ call' = [call EXCEPT ![c] =
                IF disk[callPath[c]] = "present" THEN "answered" ELSE "missing"]
  /\ UNCHANGED <<path, closed, tempfile, dropped, disk, holders, entering, callPath,
                 stream, overlap>>

-----------------------------------------------------------------------------
archive == <<path, closed, tempfile, dropped, entering, calls, overlap>>
Stage(s, place) == stage' = [stage EXCEPT ![s] = place]

(* ar.open() checks the archive; the context may be entered much later.    *)
OpenContext(s) ==
  /\ LoopFree /\ stage[s] = "none"
  /\ ~closed /\ Inside
  /\ Stage(s, "context")
  /\ UNCHANGED <<archive, disk, holders, held, streamPath, shut, closer, worker, early,
                 together>>

EnterStream(s) ==
  /\ LoopFree /\ stage[s] = "context"
  /\ Stage(s, "starting")
  /\ early' = IF Inside THEN early \cup {s} ELSE early
  /\ UNCHANGED <<archive, disk, holders, held, streamPath, shut, closer, worker, together>>

(* _open_pipe_sync on its thread: `_sync._tempfile` is read ...            *)
Grab(s) ==
  /\ stage[s] = "starting"
  /\ held' = [held EXCEPT ![s] = tempfile]
  /\ Stage(s, "grabbed")
  /\ UNCHANGED <<archive, disk, holders, streamPath, shut, closer, worker, early, together>>

(* ... and claimed, after os.pipe().                                       *)
Hold(s) ==
  /\ stage[s] = "grabbed"
  /\ holders' = CountedUp(held[s])
  /\ streamPath' = [streamPath EXCEPT ![s] = path]
  /\ Stage(s, "claimed")
  /\ UNCHANGED <<archive, disk, held, shut, closer, worker, early, together>>

(* The worker has the copy open and the handshake is over.                 *)
Opened(s) ==
  /\ stage[s] = "claimed" /\ disk[streamPath[s]] = "present"
  /\ Stage(s, "open")
  /\ worker' = [worker EXCEPT ![s] = "ready"]
  /\ UNCHANGED <<archive, disk, holders, held, streamPath, shut, closer, early, together>>

(* open_stream_path raised: the claim is given up.                         *)
OpenFails(s) ==
  /\ stage[s] = "claimed"
  /\ Stage(s, "failing")
  /\ UNCHANGED <<archive, disk, holders, held, streamPath, shut, closer, worker, early,
                 together>>

FailRelease(s) ==
  /\ stage[s] = "failing"
  /\ holders' = CountedDown(held[s])
  /\ IF Last(held[s])
     THEN Stage(s, "deleting") /\ UNCHANGED held
     ELSE Stage(s, "failed") /\ held' = [held EXCEPT ![s] = NoFile]
  /\ UNCHANGED <<archive, disk, streamPath, shut, closer, worker, early, together>>

FailDelete(s) ==
  /\ stage[s] = "deleting"
  /\ disk' = Deleted(held[s])
  /\ held' = [held EXCEPT ![s] = NoFile]
  /\ Stage(s, "failed")
  /\ UNCHANGED <<archive, holders, streamPath, shut, closer, worker, early, together>>

(* The worker reads the entry; 7z and RAR open the copy again for that.    *)
WorkerRead(s) ==
  /\ worker[s] = "ready"
  /\ worker' = [worker EXCEPT ![s] =
                  IF disk[streamPath[s]] = "present" THEN "served" ELSE "starved"]
  /\ UNCHANGED <<archive, disk, holders, stage, held, streamPath, shut, closer, early,
                 together>>

-----------------------------------------------------------------------------
Moves(s, c, place) == closer' = [closer EXCEPT ![s][c] = place]
apart == <<archive, stage, streamPath, worker, early>>

FaultyAlreadyClosed(s) == FALSE
AlreadyClosed(s) == shut[s]

(* _PipeStream.close: `already_closed` first, ...                          *)
BeginClose(s, c) ==
  /\ stage[s] = "open" /\ closer[s][c] = "none"
  /\ Moves(s, c, IF AlreadyClosed(s) THEN "skipped" ELSE "shutting")
  /\ together' = (together \/ \E d \in Closers : closer[s][d] = "shutting")
  /\ UNCHANGED <<apart, disk, holders, held, shut>>

(* ... the backing and `closed`, ...                                       *)
ShutStream(s, c) ==
  /\ closer[s][c] = "shutting"
  /\ shut' = [shut EXCEPT ![s] = TRUE]
  /\ Moves(s, c, IF held[s] = NoFile THEN "skipped" ELSE "releasing")
  /\ UNCHANGED <<apart, disk, holders, held, together>>

(* ... and _on_close, which is _TempFile.release.                          *)
Release(s, c) ==
  /\ closer[s][c] = "releasing"
  /\ holders' = CountedDown(held[s])
  /\ Moves(s, c, IF Last(held[s]) THEN "deleting" ELSE "released")
  /\ UNCHANGED <<apart, disk, held, shut, together>>

Delete(s, c) ==
  /\ closer[s][c] = "deleting"
  /\ disk' = Deleted(held[s])
  /\ Moves(s, c, "released")
  /\ UNCHANGED <<apart, holders, held, shut, together>>

FaultyForgotten(s) == held
Forgotten(s) == [held EXCEPT ![s] = NoFile]

(* The closed stream is let go, and its bound release with it.             *)
Collect(s) ==
  /\ stage[s] = "open" /\ shut[s]
  /\ \A c \in Closers : closer[s][c] \in {"none", "released", "skipped"}
  /\ Stage(s, "collected")
  /\ held' = Forgotten(s)
  /\ UNCHANGED <<archive, disk, holders, streamPath, shut, closer, worker, early, together>>

-----------------------------------------------------------------------------
AttemptStep(a) ==
  \/ Enter(a) \/ Look(a) \/ Copied(a) \/ Resume(a) \/ Listed(a) \/ Cancel(a)
  \/ Close(a) \/ Forget(a)

OpeningStep(s) ==
  Grab(s) \/ Hold(s) \/ Opened(s) \/ OpenFails(s) \/ FailRelease(s) \/ FailDelete(s)

ClosingStep(s, c) == ShutStream(s, c) \/ Release(s, c) \/ Delete(s, c)

StreamStep(s) ==
  \/ OpenContext(s) \/ EnterStream(s) \/ OpeningStep(s) \/ WorkerRead(s) \/ Collect(s)
  \/ \E c \in Closers : BeginClose(s, c) \/ ClosingStep(s, c)

Next ==
  \/ \E a \in Attempts : AttemptStep(a)
  \/ \E c \in Calls : StartCall(c) \/ RunCall(c)
  \/ \E s \in Streams : StreamStep(s)
  \/ Drop \/ \E f \in Files : Finalize(f)

(* Threads run to their end, close() on the loop too, and what nobody      *)
(* refers to is collected.                                                 *)
Fairness ==
  /\ \A a \in Attempts : WF_vars(Look(a) \/ Copied(a)) /\ WF_vars(Forget(a))
  /\ \A s \in Streams : WF_vars(OpeningStep(s)) /\ WF_vars(Collect(s))
  /\ \A s \in Streams, c \in Closers : WF_vars(ClosingStep(s, c))
  /\ \A f \in Files : WF_vars(Finalize(f))

Safety == Init /\ [][Next]_vars
Spec   == Safety /\ Fairness

-----------------------------------------------------------------------------
(* Nobody entered again while a cancelled attempt was still copying, and   *)
(* no stream was closed by two threads at the same moment.                 *)
Tame == ~overlap /\ ~together

(* Inside the block read and extract find the copy, whatever streams do,   *)
(* and whatever attempts were refused or cancelled before, in Tame steps.  *)
CallsInsideFindTheCopy ==
  [][\A c \in Calls :
       call[c] = "running" /\ call'[c] = "missing" /\ Inside /\ callPath[c] = path
         => ~Tame]_vars

(* A stream entered in the block and open when the block is left is served *)
(* to its end: its claim outlives the archive (_archive.py:57).  A context *)
(* entered while the block is being left has no such promise, the claim    *)
(* may come after the last one was given up; nor has one entered between   *)
(* two blocks, which may claim nothing and read the next block's copy.     *)
OpenedInsideIsServed ==
  [][\A s \in early :
       worker[s] = "ready" /\ worker'[s] = "starved"
       /\ (\A c \in Closers : closer[s][c] = "none")
         => ~Tame]_vars

(* "The holder must release() it exactly once" (_archive.py:71): close()   *)
(* is repeatable and gives the claim up on the first time only             *)
(* (_stream.py:204).                                                       *)
ReleasedOnce ==
  \A s \in Streams : Cardinality({c \in Closers : closer[s][c] = "released"}) =< 1

(* The same where no two closes overlap.                                   *)
ReleasedOnceApart == ~together => ReleasedOnce

(* Once every attempt has been left again, or was refused, and the streams *)
(* are closed no copy is on disk, however late a stream was entered.  A    *)
(* cancelled attempt closes nothing; AbandonedCopyGoes is for it.          *)
AllLeft ==
  /\ \A a \in Attempts : task[a] \in {"none", "left"}
  /\ \A s \in Streams :
       \/ stage[s] \in {"none", "context", "failed", "collected"}
       \/ \E c \in Closers : closer[s][c] = "released"

LeftNothingBehind == AllLeft => \A f \in Files : disk[f] \notin {"copying", "present"}

(* After a cancelled attempt nothing closes the archive; its copy goes     *)
(* with the object, when that is let go and the streams are.               *)
Abandoned(f) ==
  /\ disk[f] = "present" /\ dropped
  /\ \A s \in Streams : held[s] = f => shut[s]

AbandonedCopyGoes == \A f \in Files : Abandoned(f) ~> disk[f] = "gone"

-----------------------------------------------------------------------------
(* The claims the counter stands for: the archive's, until close() decides *)
(* about it, and each stream's, from hold() to its first release().        *)
OwnerClaims(f) ==
  tempfile = f /\ \A a \in Attempts : task[a] \notin {"deleting", "forgetting"}

Unreleased(s) == \A c \in Closers : closer[s][c] \notin {"deleting", "released"}

(* Of the streams only those with a promise are claimants to rely on.      *)
Relying(f) == {s \in early : stage[s] = "open" /\ held[s] = f /\ Unreleased(s)}

FileState(f) ==
  CASE disk[f] = "present" -> "present"
    [] disk[f] = "gone" -> "removed"
    [] OTHER -> "unused"
LiveClaims(f) == Relying(f) \cup (IF OwnerClaims(f) THEN {Owner} ELSE {})

fileState  == [f \in Files |-> FileState(f)]
fileClaims == [f \in Files |-> LiveClaims(f)]

ClaimsOf == INSTANCE TempFileClaims WITH
  Claimants <- Streams \cup {Owner}, state <- fileState, claims <- fileClaims

(* "Counted, not owned" (_archive.py:57): cancelled attempts, late streams *)
(* and deletions decided under the lock but made after it do not take a    *)
(* copy from the archive or from a stream opened in its block, in Tame     *)
(* steps.                                                                  *)
KeepsClaims ==
  /\ ClaimsOf!Init
  /\ [][Tame' => [ClaimsOf!Next]_(ClaimsOf!vars)]_vars
=============================================================================
