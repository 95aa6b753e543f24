-------------------------- MODULE ExtractionProofs --------------------------
(***************************************************************************)
(* What TLAPS proves of module Extraction.  Its steps are steps of Archive *)
(* or leave the archive alone, so that an archive whose progress handlers  *)
(* call back into it keeps all that ArchiveProofs and ArchiveSafetyProofs  *)
(* prove; and a running extraction keeps its reader and its copy.          *)
(***************************************************************************)
EXTENDS Extraction, ArchiveSafetyProofs, SelectionProofs

LEMMA StepOfArchive == [NextAll]_all => [Next]_vars
<1> SUFFICES ASSUME NextAll PROVE [Next]_vars
  BY DEF all
<1>1. CASE PeekInside \/ ListInside \/ UseInside \/ CloseInside \/ DropOutside
  BY <1>1 DEF PeekInside, ListInside, UseInside, CloseInside, DropOutside, Refused, Next
<1>2. ASSUME NEW p \in Passwords, SetPasswordInside(p) PROVE [Next]_vars
  BY <1>2 DEF SetPasswordInside, Next
<1>3. CASE ExtractAll
  BY <1>3 DEF ExtractAll, Refused, Next
<1>4. ASSUME NEW refs \in Selections, ExtractSelected(refs) PROVE [Next]_vars
  BY <1>4 DEF ExtractSelected, Refused, Next
<1>5. CASE AnnounceEntry \/ WriteEntry \/ EndExtraction \/ HandlerReturns
  BY <1>5 DEF AnnounceEntry, WriteEntry, EndExtraction, HandlerReturns, EngineStep
<1>6. ASSUME NEW s \in Streams, StreamInside(s) PROVE [Next]_vars
  BY <1>6 DEF StreamInside, StreamStep, Next
<1>7. ASSUME NEW f \in Files, FileInside(f) PROVE [Next]_vars
  BY <1>7 DEF FileInside, Next
<1> QED
  BY <1>1, <1>2, <1>3, <1>4, <1>5, <1>6, <1>7 DEF NextAll

(* With handlers calling back, an archive behaves as module Archive says,  *)
(* and so keeps what is proved there.                                      *)
THEOREM StaysAnArchive == SpecAll => Safety
BY StepOfArchive, PTL DEF SpecAll, InitAll, Safety

LEMMA ArchiveIsSound == SpecAll => [](IInv /\ Shut /\ Sound)
<1>1. Safety => []Shut
  BY InitShut, StepShut, PTL DEF Safety
<1> QED
  BY <1>1, StaysAnArchive, Inductive, AlwaysSound, PTL

-----------------------------------------------------------------------------
(* While an extraction has not lost its copy the archive still has it, and *)
(* nobody outside removes it; the reader of an extraction on the stack is  *)
(* the archive's or nobody's; a loaded listing stays as long as that is    *)
(* so.                                                                     *)
CopyKept == \A k \in 1 .. Depth :
  frames[k].copy # NoFile /\ ~closed /\ ~frames[k].refused => tempfile = frames[k].copy
OneLent == \A j, k \in 1 .. Depth : frames[j].own /\ frames[k].own => j = k
LentIsOpen == Lent => reader # "none"
ListedStays == \A k \in 1 .. Depth : frames[k].own /\ frames[k].listed => entries
Stacked ==
  /\ StackOK /\ reaped = {} /\ CopyKept /\ OneLent /\ LentIsOpen /\ ListedStays
  /\ ListingNeverBusy

LEMMA InitStacked == InitAll => Stacked
<1> SUFFICES ASSUME InitAll PROVE Stacked
  OBVIOUS
<1>1. frames = <<>> /\ Depth = 0 /\ busy = "no"
  BY DEF InitAll, Depth
<1>2. StackOK
  BY <1>1, MaxDepthAssumption DEF StackOK
<1> QED
  BY <1>1, <1>2 DEF InitAll, Init, Stacked, CopyKept, OneLent, LentIsOpen, Lent,
     ListedStays, ListingNeverBusy

LEMMA FrameFields ==
  ASSUME NEW f \in Frames
  PROVE  /\ Frame(f) \in Frames
         /\ Frame(f).own <=> (f.own /\ reader' # "none")
         /\ Frame(f).refused <=> (f.refused \/ answer' \in Refusals)
         /\ Frame(f).copy = f.copy /\ Frame(f).listed = f.listed
BY DEF Frame, Frames

(* What an operation of the archive leaves to the extractions.             *)
Leaves ==
  /\ reaped' = reaped
  /\ closed => closed'
  /\ Depth > 0 /\ Reusable /\ ~closed /\ answer' \notin Refusals /\ ~closed'
       => tempfile' = tempfile
  /\ entries /\ reader' # "none" => entries'

LEMMA OpeningLeaves ==
  ASSUME IInv, NEW r, Opening(r), Reusable, ~closed,
         r \notin {"not_found", "io", "password", "bad_archive"}
  PROVE  tempfile' = tempfile
<1>1. CASE OpenShut(r) \/ OpenWarm(r) \/ OpenOwnPath(r)
  BY <1>1 DEF OpenShut, OpenWarm, OpenOwnPath, spill
<1>2. CASE OpenReuse(r)
  BY <1>2, EngineAnswers DEF OpenReuse, EngineOpens, KeepsCopy
<1> QED
  BY <1>1, <1>2 DEF Opening, OpenFresh, SpillFails, Spilling

LEMMA OperationLeaves ==
  ASSUME IInv, Peek \/ List \/ Use \/ Close \/ (Drop /\ Depth = 0)
               \/ \E p \in Passwords : SetPassword(p)
  PROVE  Leaves
<1>1. CASE Peek
  BY <1>1, OpeningLeaves DEF Peek, idle, Leaves, Refusals
<1>2. CASE List
  BY <1>2, OpeningLeaves DEF List, idle, spill, Leaves, Refusals
<1>3. CASE Use
  BY <1>3, OpeningLeaves DEF Use, idle, Leaves, Refusals
<1>4. CASE Close
  BY <1>4 DEF Close, Leaves
<1>5. CASE Drop /\ Depth = 0
  BY <1>5 DEF Drop, Leaves
<1>6. ASSUME NEW p \in Passwords, SetPassword(p) PROVE Leaves
  BY <1>6 DEF SetPassword, spill, Leaves
<1> QED
  BY <1>1, <1>2, <1>3, <1>4, <1>5, <1>6

LEMMA Followed ==
  ASSUME Stacked, Follow
  PROVE  /\ frames' \in Seq(Frames) /\ Depth' = Depth /\ Depth \in Nat
         /\ \A k \in 1 .. Depth :
              /\ frames[k] \in Frames
              /\ frames'[k] = Frame(frames[k])
<1>1. frames \in Seq(Frames) /\ Depth \in Nat
  BY DEF Stacked, StackOK, Depth
<1>2. \A k \in 1 .. Depth : frames[k] \in Frames /\ Frame(frames[k]) \in Frames
  BY <1>1, FrameFields DEF Depth
<1>3. frames' \in [1 .. Depth -> Frames] /\ \A k \in 1 .. Depth : frames'[k] = Frame(frames[k])
  BY <1>2 DEF Follow
<1>4. frames' \in Seq(Frames) /\ Len(frames') = Depth
  BY <1>1, <1>3
<1> QED
  BY <1>1, <1>2, <1>3, <1>4 DEF Depth

(* The archive's copy, if an extraction still counts on it.                *)
LEMMA CopyIsReusable ==
  ASSUME IInv, Stacked, tempfile # NoFile
  PROVE  Reusable
<1>1. tempfile \in Files /\ Claims(tempfile) # {}
  BY DEF IInv, TypeOK, Claims
<1> QED
  BY <1>1 DEF Stacked, IInv, ClaimedFileExists, Reusable

LEMMA FollowStacked ==
  ASSUME IInv, Stacked, Leaves, Follow, Granted
  PROVE  Stacked'
<1>1. /\ frames' \in Seq(Frames) /\ Depth' = Depth /\ Depth \in Nat
      /\ \A k \in 1 .. Depth : frames[k] \in Frames /\ frames'[k] = Frame(frames[k])
  BY Followed
<1>2. \A k \in 1 .. Depth :
        /\ frames'[k].own <=> (frames[k].own /\ reader' # "none")
        /\ frames'[k].refused <=> (frames[k].refused \/ answer' \in Refusals)
        /\ frames'[k].copy = frames[k].copy /\ frames'[k].listed = frames[k].listed
  BY <1>1, FrameFields
<1>3. StackOK'
  BY <1>1 DEF Stacked, StackOK, Granted, Depth
<1>4. CopyKept'
  <2> SUFFICES ASSUME NEW k \in 1 .. Depth, frames'[k].copy # NoFile, ~closed',
                      ~frames'[k].refused
               PROVE  tempfile' = frames'[k].copy
    BY <1>1 DEF CopyKept
  <2>1. ~closed /\ ~frames[k].refused /\ answer' \notin Refusals /\ Depth > 0
    BY <1>1, <1>2 DEF Leaves
  <2>2. tempfile = frames[k].copy /\ tempfile # NoFile
    BY <1>2, <2>1 DEF Stacked, CopyKept
  <2>3. tempfile' = tempfile
    BY <2>1, <2>2, CopyIsReusable DEF Leaves
  <2> QED
    BY <1>2, <2>2, <2>3
<1>5. OneLent' /\ LentIsOpen'
  BY <1>1, <1>2 DEF Stacked, OneLent, LentIsOpen, Lent
<1>6. ListedStays'
  BY <1>1, <1>2 DEF Stacked, ListedStays, Leaves
<1> QED
  BY <1>3, <1>4, <1>5, <1>6 DEF Stacked, Leaves, Granted, ListingNeverBusy

(* A new extraction is put on the stack: the archive has just been opened, *)
(* and no extraction was running on its reader.                            *)
LEMMA PushStacked ==
  ASSUME IInv, IInv', Stacked, Leaves, ~Lent, reader' # "none", Granted,
         Depth < MaxDepth, NEW todo \in SUBSET Indices, Push(todo)
  PROVE  Stacked'
<1> DEFINE olds == [k \in 1 .. Depth |-> Frame(frames[k])]
           new  == [at |-> "engine", todo |-> todo, own |-> TRUE,
                    copy |-> tempfile', listed |-> entries', refused |-> FALSE]
<1>1. frames \in Seq(Frames) /\ Depth \in Nat
  BY DEF Stacked, StackOK, Depth
<1>2. \A k \in 1 .. Depth :
        /\ frames[k] \in Frames /\ ~frames[k].own
        /\ Frame(frames[k]) \in Frames /\ ~Frame(frames[k]).own
        /\ Frame(frames[k]).refused <=> (frames[k].refused \/ answer' \in Refusals)
        /\ Frame(frames[k]).copy = frames[k].copy
  BY <1>1, FrameFields DEF Depth, Lent
<1>3. olds \in Seq(Frames) /\ Len(olds) = Depth
  BY <1>1, <1>2
<1>4. new \in Frames
  BY DEF Frames, IInv, TypeOK
<1>5. frames' = Append(olds, new)
  BY DEF Push
<1> HIDE DEF olds
<1>6. frames' \in Seq(Frames) /\ Depth' = Depth + 1
  BY <1>3, <1>4, <1>5 DEF Depth
<1>7. frames'[Depth + 1] = new
  BY <1>1, <1>3, <1>4, <1>5
<1>8. \A k \in 1 .. Depth : frames'[k] = olds[k] /\ olds[k] = Frame(frames[k])
  BY <1>1, <1>3, <1>4, <1>5 DEF olds
<1>9. \A k \in 1 .. Depth' : k = Depth + 1 \/ k \in 1 .. Depth
  BY <1>1, <1>6
<1>10. StackOK'
  BY <1>1, <1>6, MaxDepthAssumption DEF StackOK, Granted, Depth
<1>11. CopyKept'
  <2> SUFFICES ASSUME NEW k \in 1 .. Depth', frames'[k].copy # NoFile, ~closed',
                      ~frames'[k].refused
               PROVE  tempfile' = frames'[k].copy
    BY DEF CopyKept
  <2>1. CASE k = Depth + 1
    BY <1>7, <2>1
  <2>2. CASE k \in 1 .. Depth
    <3>1. /\ ~closed /\ ~frames[k].refused /\ answer' \notin Refusals /\ Depth > 0
          /\ frames'[k].copy = frames[k].copy
      BY <1>1, <1>2, <1>8, <2>2 DEF Leaves
    <3>2. tempfile = frames[k].copy /\ tempfile # NoFile
      BY <2>2, <3>1 DEF Stacked, CopyKept
    <3> QED
      BY <3>1, <3>2, CopyIsReusable DEF Leaves
  <2> QED
    BY <1>9, <2>1, <2>2
<1>12. \A k \in 1 .. Depth' : frames'[k].own => k = Depth + 1
  BY <1>2, <1>8, <1>9
<1>13. OneLent' /\ LentIsOpen'
  BY <1>12 DEF OneLent, LentIsOpen
<1>14. ListedStays'
  BY <1>7, <1>12 DEF ListedStays
<1> QED
  BY <1>10, <1>11, <1>13, <1>14 DEF Stacked, Leaves, Granted, ListingNeverBusy

(* The archive is left alone, and the extractions keep what they know.     *)
LEMMA SameStacked ==
  ASSUME Stacked, UNCHANGED vars, frames' \in Seq(Frames), Depth' =< Depth,
         \A k \in 1 .. Depth' :
           /\ frames'[k].own = frames[k].own /\ frames'[k].copy = frames[k].copy
           /\ frames'[k].listed = frames[k].listed
           /\ frames'[k].refused = frames[k].refused,
         Granted
  PROVE  Stacked'
<1>1. Depth \in Nat /\ Depth' \in Nat /\ 1 .. Depth' \subseteq 1 .. Depth
  BY DEF Stacked, StackOK, Depth
<1>2. StackOK'
  BY <1>1, MaxDepthAssumption DEF Stacked, StackOK, Granted, Depth
<1>3. CopyKept'
  BY <1>1 DEF Stacked, CopyKept, vars, spill
<1>4. OneLent' /\ LentIsOpen' /\ ListedStays'
  BY <1>1 DEF Stacked, OneLent, LentIsOpen, Lent, ListedStays, vars
<1> QED
  BY <1>2, <1>3, <1>4 DEF Stacked, vars, Granted, ListingNeverBusy

LEMMA RefusedStacked ==
  ASSUME Stacked, NEW what \in {"reader", "listing"}, Refused(what), Lent,
         what = "listing" => ~entries
  PROVE  Stacked'
<1>1. StackOK' /\ CopyKept' /\ OneLent' /\ LentIsOpen' /\ ListedStays' /\ reaped' = {}
  BY DEF Stacked, StackOK, CopyKept, OneLent, LentIsOpen, Lent, ListedStays, Refused,
     vars, spill, Depth
<1>2. ListingNeverBusy'
  BY DEF Stacked, Lent, ListedStays, Refused, ListingNeverBusy, Depth
<1> QED
  BY <1>1, <1>2 DEF Stacked

(* Streams and finalizers change nothing an extraction relies on, but for  *)
(* what is on the disk.                                                    *)
LEMMA BesideStacked ==
  ASSUME Stacked, UNCHANGED <<frames, busy, tempfile, closed, reaped, reader, entries>>
  PROVE  Stacked'
BY DEF Stacked, StackOK, CopyKept, OneLent, LentIsOpen, Lent, ListedStays,
   ListingNeverBusy, Depth

-----------------------------------------------------------------------------
(* A selection that crosses to the engine names entries of the listing.    *)
LEMMA SelectedAreIndices ==
  ASSUME NEW refs \in Selections,
         NEW indices, indices = SelectedBy(EntriesOf(Listing), refs), Crosses(indices)
  PROVE  {indices[k] : k \in DOMAIN indices} \in SUBSET Indices
<1> DEFINE entries_ == EntriesOf(Listing)
<1>1. Numbered(entries_) /\ Len(entries_) = Len(Listing) /\ Len(Listing) \in Nat
  BY ListingAssumption, EntriesAreNumbered
<1>2. ASSUME NEW k \in DOMAIN indices
      PROVE  indices[k] \in Indices
  <2>1. RefersIn(entries_, refs[k]) /\ indices[k] = Resolve(entries_, refs[k])
    BY SelectionsAssumption DEF SelectedBy
  <2>2. indices[k] >= 0 /\ Finds(indices[k], Meaning(entries_, refs[k]))
    BY <1>1, <2>1, ResolveMeans DEF Crosses
  <2>3. Meaning(entries_, refs[k]) \subseteq 0 .. Len(entries_) - 1
    BY DEF Meaning
  <2>4. CASE Meaning(entries_, refs[k]) = {}
    <3>1. indices[k] < 0
      BY <2>2, <2>4 DEF Finds
    <3>2. indices[k] \in Int
      BY <1>1, <2>1, ResolveIsNumber
    <3> QED
      BY <2>2, <3>1, <3>2
  <2>5. CASE Meaning(entries_, refs[k]) # {}
    BY <1>1, <2>2, <2>3, <2>5 DEF Finds, Indices
  <2> QED
    BY <2>4, <2>5
<1> QED
  BY <1>2

LEMMA PushedStacked ==
  ASSUME IInv, IInv', Shut, Sound, Stacked, Peek \/ Use, answer' = "ok", ~Lent, Granted,
         Depth < MaxDepth, NEW todo \in SUBSET Indices, Push(todo)
  PROVE  Stacked'
<1>1. PICK r : Opening(r) /\ r = "ok"
  BY DEF Peek, Use
<1>2. reader' # "none"
  BY <1>1, OpeningSound DEF Peek, Use, idle
<1> QED
  BY <1>2, OperationLeaves, PushStacked

LEMMA StepStacked ==
  ASSUME IInv, IInv', Shut, Sound, Stacked, [NextAll]_all
  PROVE  Stacked'
<1>1. CASE PeekInside
  BY <1>1, RefusedStacked, OperationLeaves, FollowStacked DEF PeekInside
<1>2. CASE ListInside
  BY <1>2, RefusedStacked, OperationLeaves, FollowStacked DEF ListInside
<1>3. CASE UseInside
  BY <1>3, RefusedStacked, OperationLeaves, FollowStacked DEF UseInside
<1>4. CASE CloseInside
  BY <1>4, OperationLeaves, FollowStacked DEF CloseInside
<1>5. CASE DropOutside
  BY <1>5, OperationLeaves, FollowStacked DEF DropOutside
<1>6. ASSUME NEW p \in Passwords, SetPasswordInside(p) PROVE Stacked'
  BY <1>6, OperationLeaves, FollowStacked DEF SetPasswordInside
<1>7. CASE ExtractAll
  <2>1. CASE Lent /\ Refused("reader")
    BY <2>1, RefusedStacked
  <2>2. CASE ~Lent /\ Peek /\ Granted /\ answer' = "ok" /\ Push(Indices)
    BY <1>7, <2>2, PushedStacked DEF ExtractAll
  <2>3. CASE Peek /\ Granted /\ Follow
    BY <2>3, OperationLeaves, FollowStacked
  <2> QED
    BY <1>7, <2>1, <2>2, <2>3 DEF ExtractAll
<1>8. ASSUME NEW refs \in Selections, ExtractSelected(refs) PROVE Stacked'
  <2> DEFINE indices == SelectedBy(EntriesOf(Listing), refs)
             todo == {indices[k] : k \in DOMAIN indices}
  <2>1. CASE Lent /\ Refused(IF entries THEN "reader" ELSE "listing")
    BY <2>1, RefusedStacked
  <2>2. CASE /\ ~Lent /\ Use /\ Granted /\ answer' = "ok" /\ Crosses(indices)
             /\ Push(todo)
    <3>1. todo \in SUBSET Indices
      BY <2>2, SelectedAreIndices
    <3> HIDE DEF todo, indices
    <3> QED
      BY <1>8, <2>2, <3>1, PushedStacked DEF ExtractSelected
  <2>3. CASE Use /\ Granted /\ Follow
    BY <2>3, OperationLeaves, FollowStacked
  <2> QED
    BY <1>8, <2>1, <2>2, <2>3 DEF ExtractSelected
<1>9. CASE AnnounceEntry \/ WriteEntry \/ EndExtraction \/ HandlerReturns
  <2>1. UNCHANGED vars /\ Granted /\ Depth > 0
    BY <1>9 DEF AnnounceEntry, WriteEntry, EndExtraction, HandlerReturns, EngineStep
  <2>2. frames \in Seq(Frames) /\ Depth = Len(frames) /\ Depth' = Len(frames')
    BY DEF Stacked, StackOK, Depth
  <2>3. Top \in Frames /\ Depth \in 1 .. Depth
    BY <2>1, <2>2 DEF Top
  <2>4. CASE Ends
    BY <2>1, <2>2, <2>4, SameStacked DEF Ends
  <2>5. ASSUME NEW at \in {"engine", "started", "writing", "finished"},
               NEW todo \in SUBSET Indices, Becomes([Top EXCEPT !.at = at, !.todo = todo])
        PROVE  Stacked'
    <3> DEFINE f == [Top EXCEPT !.at = at, !.todo = todo]
    <3>1. /\ f \in Frames /\ f.own = Top.own /\ f.copy = Top.copy
          /\ f.listed = Top.listed /\ f.refused = Top.refused
      BY <2>3 DEF Frames
    <3> HIDE DEF f
    <3>2. frames' = [frames EXCEPT ![Depth] = f]
      BY <2>5 DEF Becomes, f
    <3>3. frames' \in Seq(Frames) /\ Depth' = Depth
      BY <2>2, <2>3, <3>1, <3>2
    <3>4. \A k \in 1 .. Depth : frames'[k] = IF k = Depth THEN f ELSE frames[k]
      BY <2>2, <2>3, <3>2
    <3> QED
      BY <2>1, <2>2, <3>1, <3>3, <3>4, SameStacked DEF Top
  <2>6. \/ Ends
        \/ \E at \in {"engine", "started", "writing", "finished"}, todo \in SUBSET Indices :
             Becomes([Top EXCEPT !.at = at, !.todo = todo])
    <3>1. Top.todo \in SUBSET Indices /\ Top.at \in {"engine", "started", "writing", "finished"}
      BY <2>3 DEF Frames
    <3>2. \A at : [Top EXCEPT !.at = at] = [Top EXCEPT !.at = at, !.todo = Top.todo]
      BY <2>3 DEF Frames
    <3>3. CASE AnnounceEntry
      BY <3>1, <3>2, <3>3 DEF AnnounceEntry
    <3>4. CASE WriteEntry
      <4> DEFINE left == Top.todo \ {CHOOSE i \in Top.todo : \A j \in Top.todo : i =< j}
      <4>1. left \in SUBSET Indices
        BY <3>1
      <4>2. \/ Becomes([Top EXCEPT !.at = "finished", !.todo = left])
            \/ Becomes([Top EXCEPT !.at = "engine", !.todo = left])
        BY <3>4 DEF WriteEntry
      <4> HIDE DEF left
      <4> QED
        BY <4>1, <4>2
    <3>5. CASE EndExtraction
      BY <3>5 DEF EndExtraction
    <3>6. CASE HandlerReturns
      <4>1. Becomes([Top EXCEPT !.at = IF @ = "started" THEN "writing" ELSE "engine"]) \/ Ends
        BY <3>6 DEF HandlerReturns
      <4>2. \/ Becomes([Top EXCEPT !.at = "writing"])
            \/ Becomes([Top EXCEPT !.at = "engine"]) \/ Ends
        BY <4>1
      <4> QED
        BY <3>1, <3>2, <4>2
    <3> QED
      BY <1>9, <3>3, <3>4, <3>5, <3>6
  <2> QED
    BY <2>4, <2>5, <2>6
<1>10. ASSUME NEW s \in Streams, StreamInside(s) PROVE Stacked'
  BY <1>10, BesideStacked DEF StreamInside, StreamReady, WorkerRead, StreamEnds,
     StreamRelease, StreamDelete, StreamCollect, OpenStream, Silent, still, extraction
<1>11. ASSUME NEW f \in Files, FileInside(f) PROVE Stacked'
  BY <1>11, BesideStacked DEF FileInside, Finalize, Silent, still, extraction
<1>12. CASE UNCHANGED all
  BY <1>12, BesideStacked DEF all, vars, spill, extraction
<1> QED
  BY <1>1, <1>2, <1>3, <1>4, <1>5, <1>6, <1>7, <1>8, <1>9, <1>10, <1>11, <1>12
  DEF NextAll

LEMMA AlwaysStacked == SpecAll => [](IInv /\ Shut /\ Sound /\ Stacked)
<1>1. IInv /\ IInv' /\ Shut /\ Sound /\ Stacked /\ [NextAll]_all => Stacked'
  BY StepStacked
<1> QED
  BY <1>1, InitStacked, ArchiveIsSound, PTL DEF SpecAll

(* The stack of extractions is well formed, whatever selections callers    *)
(* and handlers make: every index the engine is given is an entry's.       *)
THEOREM StackIsOK == SpecAll => []StackOK
<1>1. Stacked => StackOK
  BY DEF Stacked
<1> QED
  BY <1>1, AlwaysStacked, PTL

(* No call of a handler's takes the copy from under an extraction, but     *)
(* close() and a reopening the engine refuses.                             *)
THEOREM CopyStaysForRunning == SpecAll => []RunningFindsItsCopy
<1>1. IInv /\ Stacked => RunningFindsItsCopy
  <2> SUFFICES ASSUME IInv, Stacked, NEW k \in 1 .. Depth, frames[k].copy # NoFile,
                      ~closed, ~frames[k].refused
               PROVE  OnDisk(frames[k].copy)
    BY DEF RunningFindsItsCopy
  <2>1. tempfile = frames[k].copy /\ tempfile # NoFile
    BY DEF Stacked, CopyKept
  <2> QED
    BY <2>1, CopyIsReusable DEF Reusable
<1> QED
  BY <1>1, AlwaysStacked, PTL

(* With the listing loaded beforehand a handler can always look entries up.*)
THEOREM ListingIsFree == SpecAll => []ListingNeverBusy
<1>1. Stacked => ListingNeverBusy
  BY DEF Stacked
<1> QED
  BY <1>1, AlwaysStacked, PTL

(* The reader an extraction shares with its archive is shared with no      *)
(* other extraction, and is the current password's.                        *)
THEOREM LentIsCurrent == SpecAll => []LentReaderIsCurrent
<1>1. Shut /\ Sound /\ Stacked => LentReaderIsCurrent
  <2> SUFFICES ASSUME Shut, Sound, Stacked, Lent
               PROVE  ~closed /\ reader = password
    BY DEF Stacked, OneLent, LentReaderIsCurrent
  <2>1. reader # "none"
    BY DEF Stacked, LentIsOpen
  <2> QED
    BY <2>1 DEF Shut, Sound, Opened
<1> QED
  BY <1>1, AlwaysStacked, PTL

(* However an entry is named, every lookup of the package takes it for the *)
(* same one, whatever the listing (_entry.py:45, _archive.py:137).  A batch*)
(* selection of positions only, one of them from the end, is left out.     *)
THEOREM LookupsAlwaysAgree == SpecAll => []LookupsAgree
<1>1. LookupsAgree
  BY AlwaysSameEntry, AlwaysSameMembers, AlwaysSameSelections DEF LookupsAgree
<1> QED
  BY <1>1, PTL
=============================================================================
