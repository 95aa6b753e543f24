# A verification project for newtua-py

newtua-py is the Python binding of the newtua archive engine: a package
(`src/python/newtua`) over a compiled module (`src/src/lib.rs`) over the engine
(`newtua-core`, a separate crate whose source is not in the repository). This
directory holds TLA+ modules translated from the Python and Rust sources, the
TLC configurations that check them on small instances, and TLAPS proofs.
`PROJECT.json` lists components, runs, mutants, the lines each definition
stands for, findings, hazards and theorems; this file explains them.

Paths such as `_archive.py:492` are in `src/python/newtua/`, `lib.rs` is
`src/src/lib.rs`.

## 1. Inventory

| component | state it keeps | operations | what is hard |
|---|---|---|---|
| `Archive` (`_archive.py`) | source, password, `_reader`, `_entries`, `_tempfile`, `_closed` | `_open`, `_listing` and all that goes through them, the password setter, `close`, collection | lazy opening, retries after a refused open, sources that can be read once, an order of closes nobody controls |
| `_TempFile` (`_archive.py:45`) | the path, a counter under a lock, a finalizer | `hold`, `release`, deletion | release decides under the lock and deletes outside it; holders on several threads; collection |
| streaming, POSIX (`_archive.py:488`, `_stream.py:142`, `lib.rs:466`) | a pipe, two descriptor numbers, a claim, a tally; a worker thread | open with a handshake, read, close | who owns the write end when; numbers reused; blocked writers; truncation that only the tally shows |
| streaming, Windows | a pipe made in Rust | the same | ownership is never shared; not modelled |
| `EntryStream` (`_stream.py:41`) | a spooled file | read, seek, close | sequential |
| `AsyncArchive` (`_async.py`) | a sync `Archive` for the source, a cached listing | the same off the event loop | awaits, cancellation, operations that outlive `__aexit__` |
| batch (`_batch.py`) | futures, `out`, `results` | `extract_many`, `list_many` | completion order, `cancel`, panics, lost processes, callbacks |
| selection (`_resolve_index` and its relatives) | none | reference to index | repeated names, positions from the end, several versions that must agree |
| extraction with progress (`_archive.py:561`, `_events.py`, `lib.rs:263`) | the reader's borrow, the stack of the calling thread | `extract`, the handler, abort | exceptions, and a handler that calls back into the archive |
| path primitives (`lib.rs:646-762`) | none | `list_path`, `read_path`, `extract_path` | stateless |
| errors, entry, format, package surface, build | none | | tables and data classes |

How they interact: `Archive` calls the compiled reader on its own thread.
`open(stream=True)` makes a pipe, takes a claim on the spilled copy and hands
the write end to a worker thread, which opens the archive again by path; the
two threads share the descriptor table of the process and the temp file, and
talk through a one-message channel and the pipe. `_PipeStream` gives the claim
back on its first close. `AsyncArchive` uses an `Archive` for its source only
and runs the path primitives on threads. Batch calls run the path primitives
in an executor's workers. `Archive.extract` runs on the caller's thread with the
compiled reader mutably borrowed, and its handler may call back into the archive.

What makes each correct, in a sentence. *Archive*: answers only what the
current password may open, never touches a closed archive, and uses a copy as
long as it is good. *_TempFile*: the copy exists while anybody needs it, and
goes when nobody does. *Streaming*: each end has one owner at a time, a stream
yields its entry or an alarm, and nobody waits for ever. *Batch*: each job's
outcome reaches its own place, whatever happens to the others. *AsyncArchive*:
the same promises with operations still running at `__aexit__`. *Selection*:
every entry point reads a reference the same way. *Extraction*: a handler that
uses the archive neither breaks it nor the extraction it is called from.

The hazards at their lines, with the properties that would catch them, are in
`PROJECT.json`.

## 2. Modules

| module | models | composed of |
|---|---|---|
| `TempFileClaims` | the promise of a counted file: a *set* of claimants; the file goes only with the last | |
| `Archive` | `Archive`, `_TempFile`, and the life of its streams as far as the copy goes | refines `TempFileClaims` |
| `StreamPipe` | the pipe path: caller, worker, descriptor table, reads and the tally | |
| `Batch` | `_run_backend` and the loops around it | refines `BatchPromise` |
| `BatchPromise` | what a batch call promises: jobs handed over one by one, each with its own end, and a list with all of these | |
| `Selection` | references to entries, the lookups, and what a selection hands to the engine: operators, no state | |
| `Extraction` | `Archive.extract` and the progress handler that calls back | extends `Archive` and `Selection` |
| `AsyncArchive` | the asynchronous archive over a copied source: attempts to enter it, calls by path, streams, closers | refines `TempFileClaims`, with the counter of `Archive` seen from several threads |
| `MCArchive`, `MCStreamPipe`, `MCBatch`, `MCAsyncArchive`, `MCExtraction` | finite instances for TLC | |
| `ArchiveProofs`, `ArchiveSafetyProofs`, `StreamPipeProofs`, `SelectionProofs`, `ExtractionProofs`, `BatchProofs`, `AsyncArchiveProofs` | theorems | |
| `Counting` | lemmas about least numbers and the sizes of finite sets | |

`Faulty...` operators stand before the definition they imitate with a bug; no
specification uses them. They are the mutants that show each property can fail.

### Archive

`reader`, `entries`, `closed`, `tempfile`, `password` are the attributes of the
same names (`entries` is whether `_entries` is set; `reader` is the password it
was opened with, since that is what a reader remembers). `holders[f]` is
`_TempFile._holders`; it may go below zero in the model as it may in the code.
`disk[f]` is what `exists()` sees, and whether the copy is whole. A file's name
is used once, as `NamedTemporaryFile` does.

`Opening(r)` is `_open` with its result `r`, the whole of it: closed, already
open, a path of its own, the copy reused, a fresh copy, a copy that fails. The
operations of an archive are synchronous and answered by one step each:
`Peek` (`format`, `detected_encoding`), `List` (everything behind `_listing`,
`needs_password` included), `Use` (`read`, `extract`, `open`: reader first,
then the listing). An open stream is `Use` followed by `OpenStream`, which may
come any time later: the archive may have been changed in between only by
steps that would also be possible before `Use`, and the guards of `OpenStream`
repeat what `Use` established. A stream's close is three steps (`StreamEnds`,
`StreamRelease` under the lock, `StreamDelete` after it), because other threads
run between them. `Close` and the release in a refused open are one step: the
archive's own claim is dropped while the archive, the only one who could hold
the file again, is busy dropping it, so that if the count reaches zero nobody
is left to see the file between the decision and the deletion.

`content` and `reopens` describe the archive file: `plain`, `sealed` (headers
encrypted), `junk`; `reopens` is true of the formats that open the file again
to read an entry (7z, RAR). `EngineOpen` is external: an engine may always
answer with an i/o error, and a damaged copy may open or not. Its answer `panic`
stands for whatever is not an `Exception` (pyo3's `PanicException`, a
`KeyboardInterrupt`): it passes the handler at `_archive.py:292`, so the copy
stays the archive's (`KeepsCopy`) and the next opening uses it.

### StreamPipe

`fds` is the descriptor table: a number names an end of a stream's pipe or is
free, `os.pipe()` takes the two lowest free numbers, and everybody holds
numbers, not ends. `caller[s]` follows `_open_pipe_posix` line by line: `piped`
(pipe made, claim held), `waiting` (in `open_stream`), `failing` and
`half_shut` (in the handler), `adopting` (between the try and `fdopen`), then
`open`, `reading`, `closed`. `worker[s]` follows the thread: `starting`,
`refused`, `writing`, `finishing`, `ended`. A read is `BeginRead`, any number
of `Take`, and `ReadEnds` with `_took`, whose tally decides between data, end
and alarm. `Interrupt` is a `KeyboardInterrupt`: before the try, when
`open_stream` returns, after the try.

An entry is a row of units, each written with the name of its stream, so that
a unit read by the wrong stream is seen (`alien`).

### Batch

`job` is the executor's view of each job, `result` what its future holds,
`rank` its place in the order of completion, `out` and `results` the lists of
those names, `turn` how far the last loop has come. The check of `cancel` and
the submit are two steps. `Collect` is one turn of the `as_completed` loop:
`as_completed` first hands out the futures that are done when it is called
(`early` of them) in the order of a set, that is in any, and then each as it
completes. `Aggregate` is a turn of the last loop, with its callback, which may
raise. `Crash` is a worker process that dies, at work or idle, at any time from
the first submit to the end of the `with`, answered the way
`ProcessPoolExecutor` answers: every job that is not done fails with
`BrokenProcessPool`, each future in turn, and a later submit raises. A backend
`_make_executor` does not know ends the call before anything is submitted. A
call of `list_many` is one with `progress = FALSE`: it has no progress callback
that could be rejected, and its loops are those of `extract_many`. A panic is
an outcome of its own on the thread backend; from a child process it comes back
as an ordinary error, because the exception cannot be pickled. The gevent pool
is the same interface with the same behaviour. An exception passes `_as_typed`
in the worker and again when its outcome is collected.

`BatchPromise` knows jobs, their fate and the reply. `Batch` implements it with
`given <- next - 1`, `fate <- result`, the reply being `results` once the call
has returned: an outcome at another's place, one that is missing or changed on
the way, and a job that ends after the call is over are all steps the promise
does not have.

### Selection

Operators named for the functions. An entry is its index and its name, a
reference a position, a name or an entry; an answer below zero is an exception.
`Meaning` is the reference definition, said of the listing without any order
of search. `_archive.py` and `_async.py` have the same lookups over the same
tuple and index, so one operator stands for both.

### Extraction

`frames` is the stack of running extractions, `at` where each has control.
The engine's steps keep the GIL (`lib.rs:449`), so nothing of Python's runs
between them but the handler; while the handler runs every thread may. Whatever
the handler does is an action of `Archive`, with two changes: it is refused,
without effect, when it needs the compiled reader and that reader is borrowed
(`Lent`), and its effect on the frames is recorded (`Follow`). A reader is
borrowed as long as the archive has not dropped it for another one: the setter
and `close()` only drop the reference, the extraction keeps the reader itself.
`Extraction` says which indices an extraction walks by the operators of
`Selection`. A frame's `copy`, `listed` and `refused`, and `busy`, are history.

### AsyncArchive

Coroutines take turns on the loop, so whatever lies between two awaits is one
step unless another *thread* can see the middle of it; `LoopFree` keeps other
coroutines out while `close()` is between its two steps. Each thread of
`asyncio.to_thread` has steps of its own: `Look` and `Copied` (`_backing_path`),
`Grab`, `Hold` and what follows (`_open_pipe_sync`), `RunCall` (a path
primitive), and the steps of one `close()` of a stream. `Cancel` ends the
coroutine of `__aenter__` at an await and leaves its thread alone; a panic of
`list_path` leaves `__aenter__` the same way, past the `except Exception` that
would close the archive.

The claims are `_TempFile`'s: `holders` counts, `held[s]` is what a stream may
give back, and a file that no attribute and no stream refers to is finalized.
`early`, `overlap` and `together` are history, read by no action. A stream's
`close()` reads `closed` (`BeginClose`), shuts the stream (`ShutStream`) and
releases (`Release`, `Delete`): nothing in the code makes these one step.

`AsyncArchive`, too, implements `TempFileClaims` (`KeepsClaims`), with the
claimants a caller may rely on: the archive as long as `close()` has not decided
about the copy, and the streams entered in its block until their first release.
A stream that comes late, between the blocks or while one is being left, may
raise the counter of a copy whose deletion is decided; it has no promise and is
no claimant, but what it gives back must not take the copy from those who are.
Steps that are not `Tame` (below) are excused.

## 3. Runs

All runs check for errors other than deadlock: callers may stop calling, so a
state with nothing left to do is legitimate in every model.

| run | bounds | what it shows |
|---|---|---|
| `archive` | 2 copies, 1 stream, all sources and contents, failing spills, outside removal | the invariants and action properties of `Archive`, its liveness, and the refinement |
| `stream_pipe` | 2 streams, descriptors 0..3, pipes of 1 unit, entries of 2, reads of 0, 2 and everything, interrupts | ownership, data, leaks, liveness |
| `batch` | 3 jobs, 2 workers, both backends and an unknown one | outcomes, order of callbacks, cancel, ending, and the refinement of `BatchPromise` |
| `async` | 2 copies, 2 attempts, 1 call, 1 stream with 2 closers | entering, leaving, cancelling and collecting against calls and streams; the second refinement of `TempFileClaims` |
| `extraction` | 2 copies, 1 stream, in-memory source of two entries with one name, extractions two deep, two selections; listings of up to 3 names for the lookups | re-entry from a progress handler; the lookups agree |
| `async_double_close` | as `async`, 1 attempt | finding 7 |
| `archive_retry`, `archive_orphan`, `pipe_ctrl_c`, `pipe_zero_read`, `batch_panic`, `selection_batch` | as above | findings, see below |

Why these bounds are enough. *Two copies*: the hazards concern one copy and the
next (a claim on the old one while a new one is made); a third repeats the
second. *One stream in `archive`*: a stream races with the archive; that streams
do not disturb each other is what the theorems show, for any number. *Two
streams in `stream_pipe`, four numbers, one-unit pipes, entries of two units*: a
number freed by one stream is taken by the other, a writer blocks after one
unit while another is still to come, and an entry can break off before, between
and after its units. *Three jobs, two workers*: one queued behind two running,
and completion out of order. *Two extractions deep*: the inner one has a new
reader, the outer one a reader the archive has dropped, which is the one
difference there can be; a third would again find the second's reader. *Three
names of two*: a name that repeats with another before, between or after.

Fairness. `Archive`: the second half of a stream's close runs, and CPython,
which counts references, finalizes what nobody reaches; nobody is obliged to
close anything. `StreamPipe`: threads are scheduled, and an entry that has been
written to its end is finished; the caller is not obliged to read or to close,
and the worker's failing between two writes is free. `Batch`: the calling
thread runs and workers finish what they are given; `cancel` and crashes are
free. `AsyncArchive`: threads run to their end, `close()` on the loop too, and
what nobody refers to is collected; nobody is obliged to leave the block, to
enter or close a stream, or to let the archive go. In `StreamPipe`,
reads that were begun by an interrupted process are excused
(`Undisturbed`), since a closed number may have become anything. `Extraction`
has safety properties only: its handler may never return.

What the violations show (quoted and located in `PROJECT.json`):

1. `archive_retry`: the password retry of an archive with encrypted headers
   given as a stream cannot work: the refused open deletes the copy, and the
   stream is spent.
2. `archive_orphan`: a copy that fails half-way is never deleted.
3. `pipe_ctrl_c`: Ctrl-C during the handshake makes both sides own the write end.
4. `pipe_zero_read`: `read(0)` on a sound stream raises `CorruptArchiveError`.
5. `batch_panic`: a panic in one job ends the batch call.
6. `selection_batch`: a batch job's selection that holds only positions is not
   resolved, so one that counts from the end fails there and nowhere else.
7. `async_double_close`: two overlapping closes of one stream release its claim
   twice, so the copy goes while the archive still needs it.

The passing runs check the same promises without those cases:
`NothingLeftBehind` except failed copies, `GoodArchiveRecognised` except
damaged copies, `LookupsAgree` except such selections,
`WriteEndIsWorkersUndisturbed` and the others without interrupts,
`AlarmMeansBrokenUnlessZero`, `OnlyPanicsAndCrashesRaise`, and `Tame` steps of `AsyncArchive`. `Tame` also excludes entering again while
the thread of a cancelled attempt still copies: without that,
`CallsInsideFindTheCopy` fails, because the copy finished last takes the
archive's place and the other, whose path is in use, is collected. No doc says
an archive may be entered again, so it is listed as a hazard and not as a
finding.

Two sentences of the repository's README differ from the code without a run to
show it. README.md:434 says of the process backend that "a crash in one process
does not take the others down": `ProcessPoolExecutor` ends the other processes
too and fails every job not yet done (`Crash`, `Abandon`). When the crash comes
after the last submit, what the call keeps is that each of these outcomes is in
its place; when it comes while jobs are still being submitted, the next submit
raises (`SubmitRaises`), and the call with it: then every outcome is lost.
README.md:439 says that the progress
handler of `Archive.extract` is called from a worker thread: it runs on the
caller's, inside the call (`lib.rs:449`), which is why it can call back into an
archive that is bound to its thread.

## 4. Proofs

TLAPS proves these for every value of the constants, under the assumptions the
modules state: in `Archive`, files and streams are finite sets and the special
values are not members; in `AsyncArchive`, `NoFile` is no file, streams are finite
and the archive is none of them (files, attempts, calls and closers may be
infinitely many); in
`StreamPipe`, descriptors are natural numbers, a
free number is no pipe end, lengths are natural numbers, requests integers; in
`Batch`, the number of jobs is a natural number and that of workers a positive
one; in `Extraction`, the listing is a sequence of names and the references of a
selection are a caller's (an entry among them is one of the listing).

`ArchiveProofs`. `ClaimedFileExists` is not inductive: a release that reaches
zero must be known to be the last. `IInv` adds `Counted` (the counter is at
least the number of claims), `Deleting` (a stream about to delete saw the
counter at zero), and `Fresh` (nobody refers to a file that was never made, or
whose copy failed). A release that brings the counter to zero then leaves no
claim, by cardinality. From `IInv`: `TypeCorrect`, `ClaimedFileStays`, and
`ImplementsClaims`, where each action maps to a step of `TempFileClaims` or to
a stutter (a reopening that is refused maps to `Unclaim`, or to
`MakeAndDiscard` when the copy was fresh; a failed spill and an outside removal
map to `Lose`).

`StreamPipeProofs`. `PipeInv` says that, with no interrupt so far, each end
stands where its owner believes it to be (`EndsInPlace`), no other number names
an end of the pipe (`NoOtherEnds`), caller and worker pass through the opening
together (`InStep`), and what was written is read or in the pipe, unit for unit
(`Tally`). A step of one stream keeps the others' parts because it closes or
opens ends of its own pipe only, which is what the first two conjuncts give.
From it: `TypeCorrect`, `WriteEndStays`, `OwnEntryOnly`, `NoLeak`,
`EndIsWhole`, `AlarmIsBroken`.

`ArchiveSafetyProofs`, over the same `IInv`. `ReadersAreServed` is an action
property and follows from `Counted`: a worker's stream is a claimant.
`ClosedStaysClosed` needs `Shut` (a closed archive has let go of everything).
`Sound` says what stands between the contents of an archive and its answers:
the reader was opened with the password now set, a copy is damaged or a source
stream spent only for a reason that is named; from it `SealedUntilUnlocked`,
`ReprNeverFails` and `GoodRecognised`. `LeavesNothing` needs the other half of
the counter, `Owing`: until the archive is collected, a copy on disk has a
counter that is exact and somebody who will take it down.

`SelectionProofs`. `ResolveMeans`, `SubscriptAgrees` and `NameAgrees` say that a
reference means the same to `_resolve_index`, to `__getitem__` (by position and
by name) and to the reference definition, for listings of any length, and
`BatchSelectsTheSame` which selections mean the same to a batch job. That the
first entry of a name exists where the name does is a lemma of `Counting`. The
name index is built entry by entry, and what a recursion arrives at would be an
induction over data; here it can be said without one: `Index(listing, k)` is
the index of the first k entries in closed form, `IndexGrows` that one
`setdefault` leads from one to the next, and `ByNameIsIndex` that the recursive
definition has a solution (this one) and that no solution has a least entry
where it differs. The three parts of `LookupsAgree` follow for every listing.

`ExtractionProofs`. `StaysAnArchive`: every step of `Extraction` is one of
`Archive` or leaves the archive alone, so the theorems about `Archive` hold while
extractions run. `Stacked` says that an extraction which has not lost its copy
reads the archive's present one (`CopyKept`), that the borrowed reader is the
archive's own or nobody's, and that a listing lasts as long as the reader it
came from. With `ClaimedFileStays`, `CopyKept` gives `CopyStaysForRunning`:
the archive's own claim is what protects a copy that is being extracted.
`LookupsAlwaysAgree` states `LookupsAgree` with the theorems of
`SelectionProofs`: TLC tries listings of up to three names, the theorem covers
all.

`BatchProofs`. `BatchInv` keeps the executor's books (`JobsInOrder`: who was
handed over, who is done, and distinct ranks), what `out` and `results` hold
(`OutIsTrue`, `Filled`), what is known in each phase (`Staged`), that a job
submitted late is the last (`LateIsLast`), and that whoever was collected after
the first look completed before all who wait (`Ahead`, without which
`CompletionOrder` is not inductive). From it the safety properties and
`ImplementsPromise`: when the last loop is through, every job handed over is in
`out`, so `results` is the futures' outcomes, job by job.

`AsyncArchiveProofs`. The invariant has three parts, because the promises hold
under different conditions.

- `Lives` holds always. It orders what a thread, a stream and its closers do:
  one attempt is active at a time (`OneActive`), threads copy for an attempt
  that is entering or was cancelled (`Threads`), who closes a stream and in
  which phase (`StreamLives`, `CloserLives`), only one of them if no two were in
  `close()` at once (`OneCloser`), and nobody but its thread knows of a copy
  that is not complete (`Fresh`, `Copying`). From it `TypeCorrect` and
  `ClaimGivenUpOnce`.
- `Kept` holds of `Tame` histories. The counter is not below the claims
  (`NotBelow`); the copy an attempt works on is the archive's (`OwnCopy`), and
  no other is made while there is one (`OneCopy`, `CopiesAlone`); a stream
  entered in the block claims while the archive still does (`EarlyLives`, which
  spans the steps from `Grab` to `Hold` where the file is known and not yet
  counted); and a file that somebody with a promise claims is on disk and not
  about to be deleted (`NotUnder`). The last is what a decision under the lock
  and a deletion after it need: a `hold` in between must not be one to rely on.
  From it `CallsFindTheCopy`, `OpenStreamsAreServed` and `ImplementsClaims`.
- `Cleaned` holds as long as nothing was cancelled. The counter is not above the
  claims (`NotAbove`), the archive's copy belongs to an active attempt
  (`HasAttempt`), and a copy on disk is claimed or its deletion decided by
  somebody who has still to make it (`Owed`). From it `NothingLeft`, also when
  closes overlap: two releases may bring the counter too low, never too high.
  After a cancellation nothing closes the archive, and its copy goes at
  collection, which is liveness (`AbandonedCopyGoes`).

`Lives` is inductive by itself, `Kept` and `Cleaned` each together with it.

Every safety invariant, action property and refinement of the passing runs has
its theorem. Only model-checked is liveness, for fairness and ENABLED are out of
the prover's reach: `LetGoFilesGo`, `OpenReturns`, `AbandonedWorkerEnds`,
`ReadReturns`, `Terminates` and `AbandonedCopyGoes`.

## 5. Not modelled

The engine; the Windows pipe (each end has one owner at a time); seeking and the
spooled `EntryStream`, which are sequential; formats, times and other metadata;
error messages and the table of kinds, which are data. In `Extraction`, the
`BytesWritten` event (one more moment like the two that are there), the fields
of events and reports, outside removal of the copy (`Archive` has it), and the
handlers of `extract_path`, whose reader belongs to nobody else. An exception of
a handler aborts the extraction as `False` does, and nothing says it should not.
In `Selection`, slices, an `Entry` that is not the listing's, and the
normalization of names. In `StreamPipe`, a descriptor
leaked to a forked process and two threads closing one stream (`AsyncArchive`
has the latter, without the pipe). In `AsyncArchive`, a source with a path of
its own, a copy that fails, two blocks over one archive at the same time, and
cancelled awaits other than those of `__aenter__`. In
`Batch`, a submit that raises because the system has no thread or process left
to start (the job may then have been queued all the same, which no doc speaks
of), and the progress events of a job. In `Archive`,
two threads in one archive: the compiled reader is `unsendable` and the README
asks for one archive per thread.

## 6. Plan

Done, in this order: the spilled copy, the pipe, the batch, the asynchronous
archive; then selection, extraction, the promise of a batch call; then the
proofs of all safety properties and refinements. What is left:

1. The steps liveness rests on, as action theorems: what fairness is assumed of
   stays possible until it is done.
2. `StreamPipe` with a process forked while a stream is open.
