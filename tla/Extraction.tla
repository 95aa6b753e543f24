----------------------------- MODULE Extraction -----------------------------
(***************************************************************************)
(* Archive.extract with a progress handler, composed with module Archive.  *)
(* The engine calls the handler in the middle of its work, and the handler *)
(* may call back into the archive, on the same thread: then the compiled   *)
(* reader is mutably borrowed by the extraction (PyO3 refuses every other  *)
(* use of it) unless the archive has dropped it for another one.           *)
(*                                                                         *)
(* The engine walks the selected entries in order and announces each, says *)
(* of each that it is done, and may fail on any; BytesWritten is one more  *)
(* moment like these two and is left out, and so is anybody outside who    *)
(* removes the copy (module Archive has that).                             *)
(***************************************************************************)
EXTENDS Archive, Selection

CONSTANTS
  Listing,    (* the names of the archive's entries                        *)
  Selections, (* the selections a caller may ask for                       *)
  MaxDepth    (* how many extractions may be inside one another            *)

ASSUME ListingAssumption == Listing \in Seq(Names)
ASSUME SelectionsAssumption ==
  \A refs \in Selections : \A k \in DOMAIN refs : RefersIn(EntriesOf(Listing), refs[k])
ASSUME MaxDepthAssumption == MaxDepth \in Nat \ {0}

VARIABLES
  frames,  (* the extractions on the thread's stack, the innermost last    *)
  busy     (* history: what the reader was refused for, being borrowed     *)

extraction == <<frames, busy>>
all == <<vars, extraction>>

Indices == 0 .. Len(Listing) - 1

(* `at`: who has control, the engine or the handler; `todo`: the indices   *)
(* still to be extracted; `own`: is the reader it runs on still the        *)
(* archive's?  History: `copy`, the spilled copy it reads; `listed`, was   *)
(* the listing loaded when it began; `refused`, did the engine refuse to   *)
(* reopen the archive since then.                                          *)
Frames == [at: {"engine", "started", "writing", "finished"}, todo: SUBSET Indices,
           own: BOOLEAN, copy: Files \cup {NoFile}, listed: BOOLEAN, refused: BOOLEAN]

StackOK ==
  /\ Len(frames) =< MaxDepth
  /\ frames \in Seq(Frames)
  /\ busy \in {"no", "listing", "reader"}

InitAll == Init /\ frames = <<>> /\ busy = "no"

-----------------------------------------------------------------------------
Depth == Len(frames)
Top   == frames[Depth]

(* Control is with the caller or with a handler, and its thread does not   *)
(* wait in open_stream.                                                    *)
UserCode == Depth > 0 => Top.at \in {"started", "finished"}
Free     == UserCode /\ \A s \in Streams : stream[s] # "opening"

(* self._reader is the reader of an extraction on the stack.               *)
Lent == \E k \in 1 .. Depth : frames[k].own

Refusals == {"not_found", "io", "password", "yes", "bad_archive"}

(* What a step of the archive does to the extractions on the stack.        *)
Frame(f) == [f EXCEPT !.own     = @ /\ reader' # "none",
                      !.refused = @ \/ answer' \in Refusals]
Follow == frames' = [k \in 1 .. Depth |-> Frame(frames[k])]

(* "Already mutably borrowed": a RuntimeError, or a NewtuaError where the  *)
(* call stands in a try; nothing has changed.                              *)
Refused(what) == busy' = what /\ UNCHANGED <<vars, frames>>
Granted == busy' = "no"

(* `format` and `detected_encoding` ask the reader itself.                 *)
PeekInside ==
  /\ Free
  /\ \/ Lent /\ Refused("reader")
     \/ ~Lent /\ Peek /\ Follow /\ Granted

(* A listing already made is at hand; a new one asks the reader.           *)
ListInside ==
  /\ Free
  /\ \/ Lent /\ ~entries /\ Refused("listing")
     \/ (entries \/ ~Lent) /\ List /\ Follow /\ Granted

(* read, open, and through them Entry.read and Entry.open: the listing for *)
(* the index, then the reader.                                             *)
UseInside ==
  /\ Free
  /\ \/ Lent /\ Refused(IF entries THEN "reader" ELSE "listing")
     \/ ~Lent /\ Use /\ Follow /\ Granted

SetPasswordInside(p) == Free /\ SetPassword(p) /\ Follow /\ Granted
CloseInside          == Free /\ Close /\ Follow /\ Granted

(* Nobody collects an archive whose method is on a stack.                  *)
DropOutside == Depth = 0 /\ Drop /\ Follow /\ Granted

Push(todo) ==
  frames' = Append([k \in 1 .. Depth |-> Frame(frames[k])],
                   [at |-> "engine", todo |-> todo, own |-> TRUE,
                    copy |-> tempfile', listed |-> entries', refused |-> FALSE])

(* extract() of everything needs no listing.                               *)
ExtractAll ==
  /\ Free /\ Depth < MaxDepth
  /\ \/ Lent /\ Refused("reader")
     \/ /\ ~Lent /\ Peek /\ Granted
        /\ IF answer' = "ok" THEN Push(Indices) ELSE Follow

(* extract(selection=refs) resolves every reference first; one that means  *)
(* nothing raises before the engine is asked.                              *)
ExtractSelected(refs) ==
  /\ Free /\ Depth < MaxDepth
  /\ \/ Lent /\ Refused(IF entries THEN "reader" ELSE "listing")
     \/ /\ ~Lent /\ Use /\ Granted
        /\ LET indices == SelectedBy(EntriesOf(Listing), refs)
           IN  IF answer' = "ok" /\ Crosses(indices)
               THEN Push({indices[k] : k \in DOMAIN indices}) ELSE Follow

-----------------------------------------------------------------------------
Becomes(f) == frames' = [frames EXCEPT ![Depth] = f]
Ends == frames' = SubSeq(frames, 1, Depth - 1)

(* The engine's steps; extraction keeps the GIL, so nothing of Python's    *)
(* runs meanwhile.                                                         *)
EngineStep == Depth > 0 /\ Granted /\ UNCHANGED vars

AnnounceEntry ==
  /\ EngineStep
  /\ Top.at = "engine" /\ Top.todo # {}
  /\ Becomes([Top EXCEPT !.at = "started"])

(* Formats that open the archive again by path need the copy now.          *)
CopyAtHand == reopens /\ Top.copy # NoFile => OnDisk(Top.copy)

WriteEntry ==
  /\ EngineStep
  /\ Top.at = "writing"
  /\ LET left == Top.todo \ {CHOOSE i \in Top.todo : \A j \in Top.todo : i =< j}
     IN  \/ CopyAtHand /\ Becomes([Top EXCEPT !.at = "finished", !.todo = left])
         \/ Becomes([Top EXCEPT !.at = "engine", !.todo = left])

(* Everything is done, or an entry that strict extraction does not forgive.*)
EndExtraction ==
  /\ EngineStep
  /\ Top.at = "writing" \/ (Top.at = "engine" /\ Top.todo = {})
  /\ Ends

(* build_progress_fn: only False, or an exception, aborts.                 *)
GoesOn(flow) == flow \notin {"false", "raise"}

HandlerReturns ==
  /\ Depth > 0 /\ Free
  /\ Granted /\ UNCHANGED vars
  /\ \E flow \in {"none", "true", "false", "raise"} :
       IF GoesOn(flow)
       THEN Becomes([Top EXCEPT !.at = IF @ = "started" THEN "writing" ELSE "engine"])
       ELSE Ends

(* Other threads of Python's run while user code does, the workers always. *)
StreamInside(s) ==
  /\ \/ StreamReady(s) \/ WorkerRead(s)
     \/ UserCode /\ (StreamEnds(s) \/ StreamRelease(s) \/ StreamDelete(s) \/ StreamCollect(s))
     \/ Free /\ ~Lent /\ OpenStream(s)
  /\ UNCHANGED extraction

FileInside(f) == Finalize(f) /\ UNCHANGED extraction

NextAll ==
  \/ PeekInside \/ ListInside \/ UseInside \/ CloseInside \/ DropOutside
  \/ \E p \in Passwords : SetPasswordInside(p)
  \/ ExtractAll \/ \E refs \in Selections : ExtractSelected(refs)
  \/ AnnounceEntry \/ WriteEntry \/ EndExtraction \/ HandlerReturns
  \/ \E s \in Streams : StreamInside(s)
  \/ \E f \in Files : FileInside(f)

SpecAll == InitAll /\ [][NextAll]_all

-----------------------------------------------------------------------------
(* The copy an extraction reads has no claim of its extraction's.  It      *)
(* stays all the same while the archive does not give it up: only closing  *)
(* the archive from the handler, or a reopening the engine refuses there,  *)
(* takes it away (_archive.py:47).                                         *)
RunningFindsItsCopy ==
  \A k \in 1 .. Depth :
    LET f == frames[k]
    IN  f.copy # NoFile /\ ~closed /\ ~f.refused => OnDisk(f.copy)

(* In the handler of an extraction that began with the listing loaded, as  *)
(* in every `with` block, the archive can always be listed and looked up:  *)
(* either the list is cached or the reader is a new one.                   *)
ListingNeverBusy ==
  busy = "listing" => \E k \in 1 .. Depth : frames[k].own /\ ~frames[k].listed

(* At most one extraction runs on the reader the archive would use, and    *)
(* that reader was opened with the password now set.                       *)
LentReaderIsCurrent ==
  /\ \A j, k \in 1 .. Depth : frames[j].own /\ frames[k].own => j = k
  /\ Lent => ~closed /\ reader = password

(* Once an archive is listed, however a caller names an entry              *)
(* (_entry.py:45, _archive.py:137), every part of the package takes it for *)
(* the same one, whatever the list.  A batch selection of positions only,  *)
(* one of them counted from the end, is left out (BatchSelectsAlike).      *)
LookupsAgree == entries => SameEntry /\ SameMembers /\ SameSelections

(* A job's "parameters are the same as for Archive.extract" (README.md:379)*)
(* and so is what they mean: a selection that is good for the archive just *)
(* listed is good in a batch job, and selects the same entries.            *)
BatchSelectsAlike ==
  entries => \A refs \in Selections :
    Crosses(SelectedBy(EntriesOf(Listing), refs))
      => BatchSelectedBy(EntriesOf(Listing), refs) = SelectedBy(EntriesOf(Listing), refs)
=============================================================================
