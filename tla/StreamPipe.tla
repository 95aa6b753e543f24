----------------------------- MODULE StreamPipe -----------------------------
(***************************************************************************)
(* open(..., stream=True) on POSIX: _open_pipe_posix and _PipeStream       *)
(* (python/newtua/_archive.py, _stream.py) on the calling side,            *)
(* spawn_stream_worker_unix (src/lib.rs) on the decoding side, and between *)
(* them a pipe of the operating system reached through a table of file     *)
(* descriptors that all streams of the process share.  A descriptor is a   *)
(* number: whoever uses one after it was closed meets whatever got the     *)
(* number next.                                                            *)
(*                                                                         *)
(* An entry is a row of units, each written with the name of its stream,   *)
(* so that data read by the wrong stream shows.  Python's read buffer is   *)
(* part of the pipe.                                                       *)
(***************************************************************************)
EXTENDS Integers, Sequences

CONSTANTS
  Streams,     (* the streams that may be opened, each once                *)
  Descriptors, (* the descriptor numbers of the process: a range of Nat    *)
  NoFd,        (* a free descriptor                                        *)
  Capacity,    (* units a pipe holds before a write blocks                 *)
  Lengths,     (* bound: how many units an entry may have                  *)
  Requests,    (* sizes asked of read(), a negative one meaning all of it  *)
  Interrupts   (* may Ctrl-C arrive while a stream is being opened?        *)

ASSUME DescriptorsAssumption == Descriptors \subseteq Nat /\ NoFd \notin Streams \X {"r", "w"}
ASSUME BoundsAssumption == Capacity \in Nat \ {0} /\ Lengths \subseteq Nat
ASSUME RequestsAssumption == Requests \subseteq Int
ASSUME InterruptsAssumption == Interrupts \in BOOLEAN

VARIABLES
  fds,         (* the descriptor table: NoFd, or the pipe end it names     *)
  buf,         (* what each pipe holds                                     *)
  caller,      (* where the thread that opened and reads the stream is     *)
  rfd, wfd,    (* its read_fd and write_fd                                 *)
  claimed,     (* its claim on the spilled file (_TempFile.hold)           *)
  want, taken, (* the read in progress: what it asked, what it has         *)
  total,       (* _read_total                                              *)
  outcome,     (* how the last read ended                                  *)
  worker,      (* where the worker thread is                               *)
  sent,        (* units of the entry written so far                        *)
  length,      (* units the whole entry has                                *)
  expected,    (* Entry.size: the length, or 0 when the format has none    *)
  (* history, read by no action:                                           *)
  alien,       (* streams that read a unit of another entry                *)
  interrupted  (* streams whose opening was interrupted                    *)

entry == <<length, expected>>
reads == <<want, taken, total, outcome, alien>>
opens == <<rfd, wfd, claimed, interrupted>>
vars  == <<fds, buf, caller, worker, sent, entry, reads, opens>>

Ends == Streams \X {"r", "w"}

TypeOK ==
  /\ fds \in [Descriptors -> Ends \cup {NoFd}]
  /\ buf \in [Streams -> Seq(Streams)]
  /\ caller \in [Streams -> {"new", "piped", "waiting", "failing", "half_shut",
                             "adopting", "open", "reading", "closed", "raised"}]
  /\ rfd \in [Streams -> Descriptors \cup {-1}]
  /\ wfd \in [Streams -> Descriptors \cup {-1}]
  /\ claimed \in [Streams -> BOOLEAN]
  /\ want \in [Streams -> Requests \cup {0}]
  /\ taken \in [Streams -> Nat]
  /\ total \in [Streams -> Nat]
  /\ outcome \in [Streams -> {"none", "data", "end", "corrupt", "bad_fd"}]
  /\ worker \in [Streams -> {"none", "starting", "refused", "writing",
                             "finishing", "ended"}]
  /\ length \in [Streams -> Lengths]
  /\ sent \in [Streams -> Nat]
  /\ expected \in [Streams -> Nat]
  /\ alien \subseteq Streams /\ interrupted \subseteq Streams

Init ==
  /\ fds = [n \in Descriptors |-> NoFd]
  /\ buf = [s \in Streams |-> <<>>]
  /\ caller = [s \in Streams |-> "new"]
  /\ rfd = [s \in Streams |-> -1] /\ wfd = [s \in Streams |-> -1]
  /\ claimed = [s \in Streams |-> FALSE]
  /\ want = [s \in Streams |-> 0] /\ taken = [s \in Streams |-> 0]
  /\ total = [s \in Streams |-> 0] /\ outcome = [s \in Streams |-> "none"]
  /\ worker = [s \in Streams |-> "none"]
  /\ sent = [s \in Streams |-> 0]
  /\ length \in [Streams -> Lengths]
  /\ \E known \in [Streams -> BOOLEAN] :
       expected = [s \in Streams |-> IF known[s] THEN length[s] ELSE 0]
  /\ alien = {} /\ interrupted = {}

-----------------------------------------------------------------------------
(* The operating system.                                                   *)
Free == {n \in Descriptors : fds[n] = NoFd}
HasReader(p) == \E n \in Descriptors : fds[n] = <<p, "r">>
HasWriter(p) == \E n \in Descriptors : fds[n] = <<p, "w">>
Shut(n)      == fds' = [fds EXCEPT ![n] = NoFd]

Goes(s, place) == caller' = [caller EXCEPT ![s] = place]

(* os.pipe() takes the two lowest free numbers; then the claim.            *)
MakePipe(s) ==
  /\ caller[s] = "new"
  /\ \E r, w \in Free :
       /\ r < w /\ \A n \in Free : n = r \/ n >= w
       /\ fds' = [fds EXCEPT ![r] = <<s, "r">>, ![w] = <<s, "w">>]
       /\ rfd' = [rfd EXCEPT ![s] = r] /\ wfd' = [wfd EXCEPT ![s] = w]
  /\ claimed' = [claimed EXCEPT ![s] = TRUE]
  /\ Goes(s, "piped")
  /\ UNCHANGED <<buf, worker, sent, entry, reads, interrupted>>

(* Too many open files, here or in the whole system: os.pipe() raises      *)
(* before anything was taken.                                              *)
PipeFails(s) ==
  /\ caller[s] = "new"
  /\ Goes(s, "raised")
  /\ UNCHANGED <<fds, buf, worker, sent, entry, reads, opens>>

(* open_stream refuses the index (or cannot start a thread), or starts the *)
(* worker and waits for it with the GIL released.                          *)
StartWorker(s) ==
  /\ caller[s] = "piped"
  /\ \/ Goes(s, "failing") /\ UNCHANGED worker
     \/ Goes(s, "waiting") /\ worker' = [worker EXCEPT ![s] = "starting"]
  /\ UNCHANGED <<fds, buf, sent, entry, reads, opens>>

(* The caller is told only when the whole entry has been decoded.          *)
FaultyHandshake(s) ==
  /\ caller[s] = "waiting"
  /\ \/ worker[s] = "refused" /\ Goes(s, "failing")
     \/ worker[s] = "ended" /\ Goes(s, "adopting")
  /\ UNCHANGED <<fds, buf, worker, sent, entry, reads, opens>>

(* The wait ends: the worker refused or died, or it has the archive open.  *)
Handshake(s) ==
  /\ caller[s] = "waiting"
  /\ \/ worker[s] = "refused" /\ Goes(s, "failing")
     \/ worker[s] \in {"writing", "finishing", "ended"} /\ Goes(s, "adopting")
  /\ UNCHANGED <<fds, buf, worker, sent, entry, reads, opens>>

(* KeyboardInterrupt: before the try, when open_stream returns although it *)
(* succeeded (the wait itself is not interruptible), or after the try.     *)
Interrupt(s) ==
  /\ Interrupts
  /\ \/ caller[s] \in {"piped", "adopting"} /\ Goes(s, "raised")
     \/ /\ caller[s] = "waiting"
        /\ worker[s] \in {"writing", "finishing", "ended"}
        /\ Goes(s, "failing")
  /\ interrupted' = interrupted \cup {s}
  /\ UNCHANGED <<fds, buf, worker, sent, entry, reads, rfd, wfd, claimed>>

(* The handler forgets the write end.                                      *)
FaultyCleanUp(s) ==
  /\ caller[s] = "failing" /\ fds[rfd[s]] # NoFd /\ Shut(rfd[s])
  /\ Goes(s, "raised")
  /\ claimed' = [claimed EXCEPT ![s] = FALSE]
  /\ UNCHANGED <<buf, worker, sent, entry, reads, rfd, wfd, interrupted>>

(* The handler: os.close(read_fd), os.close(write_fd), release.  Closing a *)
(* number that is free raises, and the rest is skipped.                    *)
CleanUp(s) ==
  /\ \/ /\ caller[s] = "failing" /\ fds[rfd[s]] # NoFd /\ Shut(rfd[s])
        /\ Goes(s, "half_shut") /\ UNCHANGED claimed
     \/ /\ caller[s] = "half_shut" /\ fds[wfd[s]] # NoFd /\ Shut(wfd[s])
        /\ Goes(s, "raised") /\ claimed' = [claimed EXCEPT ![s] = FALSE]
     \/ /\ \/ caller[s] = "failing" /\ fds[rfd[s]] = NoFd
           \/ caller[s] = "half_shut" /\ fds[wfd[s]] = NoFd
        /\ Goes(s, "raised") /\ UNCHANGED <<fds, claimed>>
  /\ UNCHANGED <<buf, worker, sent, entry, reads, rfd, wfd, interrupted>>

(* The write end is closed here too, as if the worker had one of its own.  *)
FaultyFdOpen(s) ==
  /\ caller[s] = "adopting"
  /\ Goes(s, "open")
  /\ Shut(wfd[s])
  /\ UNCHANGED <<buf, worker, sent, entry, reads, opens>>

(* os.fdopen and the _PipeStream around it.                                *)
FdOpen(s) ==
  /\ caller[s] = "adopting"
  /\ Goes(s, "open")
  /\ UNCHANGED <<fds, buf, worker, sent, entry, reads, opens>>

-----------------------------------------------------------------------------
(* read, read1, readinto: BufferedReader asks the pipe until it has what   *)
(* was asked or the data ends.                                             *)
BeginRead(s, n) ==
  /\ caller[s] = "open"
  /\ Goes(s, "reading")
  /\ want'  = [want  EXCEPT ![s] = n]
  /\ outcome' = [outcome EXCEPT ![s] = "none"]
  /\ UNCHANGED <<fds, buf, worker, sent, entry, taken, total, alien, opens>>

WantsMore(s) == want[s] < 0 \/ taken[s] < want[s]

Take(s) ==
  /\ caller[s] = "reading" /\ WantsMore(s)
  /\ \E p \in Streams :
       /\ fds[rfd[s]] = <<p, "r">> /\ buf[p] # <<>>
       /\ buf' = [buf EXCEPT ![p] = Tail(@)]
       /\ alien' = IF Head(buf[p]) = s THEN alien ELSE alien \cup {s}
  /\ taken' = [taken EXCEPT ![s] = @ + 1]
  /\ UNCHANGED <<fds, caller, worker, sent, entry, want, total, outcome, opens>>

DataEnds(s) ==
  \E p \in Streams : fds[rfd[s]] = <<p, "r">> /\ buf[p] = <<>> /\ ~HasWriter(p)

(* _read_chunk and readinto: "exhausted", for n asked and k got.           *)
Exhausted(n, k) == n < 0 \/ k = 0

(* The tally counts what was asked.                                        *)
FaultyTook(s, n, k) ==
  /\ total' = [total EXCEPT ![s] = @ + n]
  /\ outcome' = [outcome EXCEPT ![s] =
       IF ~Exhausted(n, k) THEN "data"
       ELSE IF expected[s] > 0 /\ total'[s] < expected[s] THEN "corrupt" ELSE "end"]

(* The tally remembers the last read only.                                 *)
FaultyCount(s, n, k) ==
  /\ total' = [total EXCEPT ![s] = k]
  /\ outcome' = [outcome EXCEPT ![s] =
       IF ~Exhausted(n, k) THEN "data"
       ELSE IF expected[s] > 0 /\ total'[s] < expected[s] THEN "corrupt" ELSE "end"]

(* The tally is kept but never compared.                                   *)
FaultyTally(s, n, k) ==
  /\ total' = [total EXCEPT ![s] = @ + k]
  /\ outcome' = [outcome EXCEPT ![s] = IF Exhausted(n, k) THEN "end" ELSE "data"]

(* _PipeStream._took.                                                      *)
Took(s, n, k) ==
  /\ total' = [total EXCEPT ![s] = @ + k]
  /\ outcome' = [outcome EXCEPT ![s] =
       IF ~Exhausted(n, k) THEN "data"
       ELSE IF expected[s] > 0 /\ total'[s] < expected[s] THEN "corrupt" ELSE "end"]

ReadEnds(s) ==
  /\ caller[s] = "reading"
  /\ ~WantsMore(s) \/ DataEnds(s)
  /\ Took(s, want[s], taken[s])
  /\ taken' = [taken EXCEPT ![s] = 0]
  /\ Goes(s, "open")
  /\ UNCHANGED <<fds, buf, worker, sent, entry, want, alien, opens>>

(* The read end is not a read end any more: OSError.                       *)
ReadFails(s) ==
  /\ caller[s] = "reading" /\ WantsMore(s)
  /\ \A p \in Streams : fds[rfd[s]] # <<p, "r">>
  /\ outcome' = [outcome EXCEPT ![s] = "bad_fd"]
  /\ taken' = [taken EXCEPT ![s] = 0]
  /\ Goes(s, "open")
  /\ UNCHANGED <<fds, buf, worker, sent, entry, want, total, alien, opens>>

(* close() gives the claim up but leaves the pipe open.                    *)
FaultyCloseStream(s) ==
  /\ caller[s] = "open"
  /\ claimed' = [claimed EXCEPT ![s] = FALSE]
  /\ Goes(s, "closed")
  /\ UNCHANGED <<fds, buf, worker, sent, entry, reads, rfd, wfd, interrupted>>

(* _PipeStream.close, by the user or by collection: the pipe, then the     *)
(* claim.                                                                  *)
CloseStream(s) ==
  /\ caller[s] = "open"
  /\ Shut(rfd[s])
  /\ claimed' = [claimed EXCEPT ![s] = FALSE]
  /\ Goes(s, "closed")
  /\ UNCHANGED <<buf, worker, sent, entry, reads, rfd, wfd, interrupted>>

-----------------------------------------------------------------------------
Becomes(s, place) == worker' = [worker EXCEPT ![s] = place]
onlyWorker == <<caller, entry, reads, opens>>

(* Ownership is taken before the archive is known to open.                 *)
FaultyWorkerOpens(s) ==
  /\ worker[s] = "starting"
  /\ \/ Becomes(s, "refused") /\ Shut(wfd[s])
     \/ Becomes(s, "writing") /\ UNCHANGED fds
  /\ UNCHANGED <<onlyWorker, buf, sent>>

(* core_open: an error or a panic leaves the descriptor alone; otherwise   *)
(* the caller is released and the descriptor is the worker's.              *)
WorkerOpens(s) ==
  /\ worker[s] = "starting"
  /\ Becomes(s, "refused") \/ Becomes(s, "writing")
  /\ UNCHANGED <<onlyWorker, fds, buf, sent>>

(* read_entry writes one unit to whatever write_fd names now.              *)
WorkerWrites(s) ==
  /\ worker[s] = "writing" /\ sent[s] < length[s]
  /\ \E p \in Streams :
       /\ fds[wfd[s]] = <<p, "w">> /\ HasReader(p)
       /\ Len(buf[p]) < Capacity
       /\ buf' = [buf EXCEPT ![p] = Append(@, s)]
  /\ sent' = [sent EXCEPT ![s] = @ + 1]
  /\ UNCHANGED <<onlyWorker, fds, worker>>

(* read_entry is done, or the engine fails between two writes.             *)
WorkerStops(s) ==
  /\ worker[s] = "writing"
  /\ Becomes(s, "finishing")
  /\ UNCHANGED <<onlyWorker, fds, buf, sent>>

(* The write fails: nobody reads the pipe (EPIPE), or write_fd names no    *)
(* write end (EBADF).  read_entry returns the error, which is dropped.     *)
WorkerWriteFails(s) ==
  /\ worker[s] = "writing" /\ sent[s] < length[s]
  /\ \A p \in Streams : fds[wfd[s]] = <<p, "w">> => ~HasReader(p)
  /\ Becomes(s, "finishing")
  /\ UNCHANGED <<onlyWorker, fds, buf, sent>>

(* The descriptor is forgotten instead of dropped.                         *)
FaultyWorkerCloses(s) ==
  /\ worker[s] = "finishing"
  /\ Becomes(s, "ended")
  /\ UNCHANGED <<onlyWorker, fds, buf, sent>>

(* File's drop closes write_fd, whatever it names.                         *)
WorkerCloses(s) ==
  /\ worker[s] = "finishing"
  /\ Shut(wfd[s])
  /\ Becomes(s, "ended")
  /\ UNCHANGED <<onlyWorker, buf, sent>>

-----------------------------------------------------------------------------
(* Steps the caller's thread takes by itself once it is in an operation.   *)
CallerStep(s) ==
  \/ StartWorker(s) \/ Handshake(s) \/ CleanUp(s) \/ FdOpen(s)
  \/ Take(s) \/ ReadEnds(s) \/ ReadFails(s)

WorkerStep(s) ==
  \/ WorkerOpens(s) \/ WorkerWrites(s) \/ WorkerWriteFails(s) \/ WorkerCloses(s)

(* What somebody decides: to open, to read, to close, to press Ctrl-C; and *)
(* the engine's failing in mid-entry.                                      *)
FreeStep(s) ==
  \/ MakePipe(s) \/ PipeFails(s) \/ CloseStream(s) \/ Interrupt(s)
  \/ \E n \in Requests : BeginRead(s, n)

Next == \E s \in Streams :
  CallerStep(s) \/ WorkerStep(s) \/ WorkerStops(s) \/ FreeStep(s)

(* The threads are scheduled, and decoding an entry comes to an end.       *)
Fairness == \A s \in Streams :
  /\ WF_vars(CallerStep(s))
  /\ WF_vars(WorkerStep(s))
  /\ WF_vars(WorkerStops(s) /\ sent[s] = length[s])

Safety == Init /\ [][Next]_vars
Spec   == Safety /\ Fairness

-----------------------------------------------------------------------------
Undisturbed == interrupted = {}

(* The worker writes to its own pipe, always: "From this point the         *)
(* descriptor is ours" (lib.rs:494), and the caller closes "both ends      *)
(* once", only when open_stream failed (_archive.py:504).                  *)
WriteEndIsWorkers ==
  \A s \in Streams : worker[s] \in {"writing", "finishing"} => fds[wfd[s]] = <<s, "w">>

(* The same where no opening was interrupted.                              *)
WriteEndIsWorkersUndisturbed == Undisturbed => WriteEndIsWorkers

(* No stream ever reads a unit of another entry, however descriptor        *)
(* numbers are reused, as long as no opening was interrupted.              *)
ReadsOwnEntry == Undisturbed => alien = {}

(* A stream that failed to open, or was closed, and whose worker is done   *)
(* leaves no descriptor open and no claim on the spilled file behind, as   *)
(* long as no opening was interrupted.                                     *)
NothingLeaks ==
  Undisturbed => \A s \in Streams :
    caller[s] \in {"closed", "raised"} /\ worker[s] \in {"none", "refused", "ended"}
      => ~claimed[s] /\ \A n \in Descriptors : fds[n] \notin {<<s, "r">>, <<s, "w">>}

(* When a stream whose size is known reports the end of the data, the      *)
(* whole entry has been read: an entry that broke off is never taken for   *)
(* a complete one (_stream.py:150), as long as no opening was interrupted. *)
(* Of an unknown size (0) nothing is said.                                 *)
EndMeansWhole ==
  Undisturbed => \A s \in Streams :
    outcome[s] = "end" /\ expected[s] > 0 => total[s] = length[s]

(* "Unpacking did not complete" is said only of an entry that did break    *)
(* off: the tally is compared "once the data actually runs out"            *)
(* (_stream.py:157).                                                       *)
AlarmMeansBroken ==
  \A s \in Streams : outcome[s] = "corrupt" =>
    worker[s] \in {"finishing", "ended"} /\ sent[s] < length[s]

(* The same of every read that asks for at least one byte, as long as no   *)
(* opening was interrupted.                                                *)
AlarmMeansBrokenUnlessZero ==
  Undisturbed => \A s \in Streams : outcome[s] = "corrupt" /\ want[s] # 0 =>
    worker[s] \in {"finishing", "ended"} /\ sent[s] < length[s]

-----------------------------------------------------------------------------
(* The inductive invariant behind these, for openings never interrupted.   *)
(* Both ends are where their owners believe them to be: the write end is   *)
(* the caller's until the handshake and the worker's from then on.         *)
CallerHasWriteEnd(s) == caller[s] \in {"piped", "waiting", "failing", "half_shut"}
                        /\ worker[s] \in {"none", "starting", "refused"}
CallerHasReadEnd(s)  == caller[s] \in {"piped", "waiting", "failing", "adopting",
                                      "open", "reading"}
WorkerHasWriteEnd(s) == worker[s] \in {"writing", "finishing"}

EndsInPlace(s) ==
  /\ CallerHasReadEnd(s) =>
       rfd[s] \in Descriptors /\ fds[rfd[s]] = <<s, "r">>
  /\ CallerHasWriteEnd(s) \/ WorkerHasWriteEnd(s) =>
       wfd[s] \in Descriptors /\ fds[wfd[s]] = <<s, "w">>

(* There is no descriptor of the pipe beside those two.                    *)
NoOtherEnds(s) == \A n \in Descriptors :
  /\ fds[n] = <<s, "r">> => CallerHasReadEnd(s) /\ n = rfd[s]
  /\ fds[n] = <<s, "w">> => (CallerHasWriteEnd(s) \/ WorkerHasWriteEnd(s)) /\ n = wfd[s]

(* The two threads go through the opening together.                        *)
InStep(s) ==
  /\ caller[s] \in {"new", "piped"} => worker[s] = "none"
  /\ caller[s] = "waiting" => worker[s] # "none"
  /\ caller[s] \in {"failing", "half_shut", "raised"} => worker[s] \in {"none", "refused"}
  /\ caller[s] \in {"adopting", "open", "reading", "closed"} =>
       worker[s] \in {"writing", "finishing", "ended"}
  /\ claimed[s] <=> caller[s] \notin {"new", "closed", "raised"}

(* What the worker wrote is read or still in the pipe, unit for unit.      *)
Tally(s) ==
  /\ \A i \in 1 .. Len(buf[s]) : buf[s][i] = s
  /\ caller[s] # "reading" => taken[s] = 0
  /\ total[s] + taken[s] + Len(buf[s]) = sent[s]
  /\ sent[s] =< length[s] /\ expected[s] \in {0, length[s]}
  /\ outcome[s] = "end" /\ expected[s] > 0 => total[s] = length[s]
  /\ outcome[s] = "corrupt" /\ want[s] # 0 => worker[s] = "ended" /\ sent[s] < length[s]

PipeInv ==
  /\ TypeOK
  /\ Undisturbed =>
       /\ alien = {}
       /\ \A s \in Streams : EndsInPlace(s) /\ NoOtherEnds(s) /\ InStep(s) /\ Tally(s)

-----------------------------------------------------------------------------
(* open(..., stream=True) returns or raises, however long the entry and    *)
(* however small the pipe, even if nothing is ever read.                   *)
OpenReturns == \A s \in Streams : caller[s] = "waiting" ~> caller[s] # "waiting"

(* A worker whose stream is closed early, or never came to be, ends: "the  *)
(* writing side then fails on its next write" (_stream.py:148).            *)
AbandonedWorkerEnds == \A s \in Streams :
  caller[s] \in {"closed", "raised"}
    ~> worker[s] \in {"none", "refused", "ended"} \/ ~Undisturbed

(* Every read returns, whether the entry is whole or breaks off.           *)
ReadReturns == \A s \in Streams :
  caller[s] = "reading" ~> caller[s] # "reading" \/ ~Undisturbed
=============================================================================
