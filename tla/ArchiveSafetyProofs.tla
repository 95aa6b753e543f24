------------------------ MODULE ArchiveSafetyProofs ------------------------
(***************************************************************************)
(* More of what TLAPS proves of module Archive, on top of the inductive    *)
(* invariant of ArchiveProofs: that no reader is starved, that closing     *)
(* leaves nothing behind, and that what is answered comes from the current *)
(* password and from a sound copy.                                         *)
(***************************************************************************)
EXTENDS ArchiveProofs

-----------------------------------------------------------------------------
(* A worker that finds no file although its stream is open has a claim on  *)
(* that file, which only somebody outside can have removed.                *)
THEOREM ReadersAreServed == Safety => NoStarvedReader
<1> DEFINE Good == \A s \in Streams :
             worker'[s] = "starved" /\ worker[s] # "starved" /\ stream[s] = "open"
               => held[s] \in reaped
<1>1. ASSUME IInv, [Next]_vars
      PROVE  Good
  <2> SUFFICES ASSUME NEW s \in Streams, worker'[s] = "starved",
                      worker[s] # "starved", stream[s] = "open"
               PROVE  held[s] \in reaped
    OBVIOUS
  <2>1. worker' # worker
    OBVIOUS
  <2>2. PICK t \in Streams : StreamStep(t)
    BY <1>1, <2>1 DEF Next, Peek, List, Use, Close, Drop, SetPassword, Finalize,
       Reap, idle, streams, vars
  <2>3. StreamReady(t) \/ WorkerRead(t)
    BY <2>1, <2>2 DEF StreamStep, OpenStream, StreamEnds, StreamRelease,
       StreamDelete, StreamCollect
  <2>4. WorkerRead(s) /\ held[s] # NoFile /\ ~OnDisk(held[s])
    BY <1>1, <2>3 DEF StreamReady, WorkerRead, IInv, TypeOK
  <2>5. held[s] \in Files /\ s \in Claims(held[s])
    BY <1>1, <2>4 DEF IInv, TypeOK, Claims
  <2> QED
    BY <1>1, <2>4, <2>5 DEF IInv, ClaimedFileExists
<1> HIDE DEF Good
<1>2. IInv /\ [Next]_vars => [Good]_vars
  BY <1>1
<1>3. Safety => [][Good]_vars
  BY <1>2, Inductive, PTL DEF Safety
<1> QED
  BY <1>3 DEF NoStarvedReader, Good

-----------------------------------------------------------------------------
(* A closed archive has let go of everything.                              *)
Shut == closed => ~dropped /\ tempfile = NoFile /\ reader = "none" /\ ~entries

LEMMA InitShut == Init => Shut
BY DEF Init, Shut

(* An archive that is closed opens nothing.                                *)
LEMMA ClosedOpening ==
  ASSUME closed, NEW r, Opening(r)
  PROVE  r = "value_error" /\ UNCHANGED <<spill, reader>>
BY DEF Opening, OpenShut, OpenWarm, OpenOwnPath, OpenReuse, OpenFresh, SpillFails,
   Spilling

LEMMA StepShut == Shut /\ [Next]_vars => Shut'
<1> SUFFICES ASSUME Shut, [Next]_vars, closed' PROVE Shut'
  BY DEF Shut
<1>1. CASE Peek
  BY <1>1, ClosedOpening DEF Peek, idle, spill, Shut
<1>2. CASE List
  BY <1>2, ClosedOpening DEF List, idle, spill, Shut
<1>3. CASE Use
  BY <1>3, ClosedOpening DEF Use, idle, spill, Shut
<1>4. CASE Close
  BY <1>4 DEF Close, Shut
<1>5. CASE Drop
  BY <1>5 DEF Drop, Shut
<1>6. ASSUME NEW p \in Passwords, SetPassword(p) PROVE Shut'
  BY <1>6 DEF SetPassword, spill, Shut
<1>7. ASSUME NEW s \in Streams, StreamStep(s) PROVE Shut'
  BY <1>7 DEF StreamStep, OpenStream, StreamReady, StreamEnds, StreamRelease,
     StreamDelete, StreamCollect, WorkerRead, Silent, still, Shut
<1>8. ASSUME NEW f \in Files, Finalize(f) PROVE Shut'
  BY <1>8 DEF Finalize, Silent, still, Shut
<1>9. ASSUME NEW f \in Files, Reap(f) PROVE Shut'
  BY <1>9 DEF Reap, Shut
<1>10. CASE UNCHANGED vars
  BY <1>10 DEF vars, spill, Shut
<1> QED
  BY <1>1, <1>2, <1>3, <1>4, <1>5, <1>6, <1>7, <1>8, <1>9, <1>10 DEF Next

(* After close() every operation fails and no file is made.                *)
THEOREM ClosedStaysClosed == Safety => ClosedIsFinal
<1> DEFINE Good == closed => /\ closed'
                             /\ answer' # "ok"
                             /\ \A f \in Files : disk[f] = "unused" => disk'[f] = "unused"
<1>1. ASSUME IInv, Shut, Next, closed
      PROVE  Good
  <2>1. CASE Peek
    BY <1>1, <2>1, ClosedOpening DEF Peek, idle, spill
  <2>2. CASE List
    BY <1>1, <2>2, ClosedOpening DEF List, idle, spill, Shut
  <2>3. CASE Use
    BY <1>1, <2>3, ClosedOpening DEF Use, idle, spill
  <2>4. CASE Close
    BY <1>1, <2>4, FilesAssumption DEF Close, Shut, IInv, TypeOK
  <2>5. CASE Drop
    BY <1>1, <2>5 DEF Drop
  <2>6. ASSUME NEW p \in Passwords, SetPassword(p) PROVE Good
    BY <1>1, <2>6 DEF SetPassword, spill
  <2>7. ASSUME NEW s \in Streams, StreamStep(s) PROVE Good
    <3>1. closed' /\ answer' # "ok"
      BY <1>1, <2>7 DEF StreamStep, OpenStream, StreamReady, StreamEnds, StreamRelease,
         StreamDelete, StreamCollect, WorkerRead, Silent, still
    <3>2. CASE StreamDelete(s)
      <4>1. held[s] \in Files /\ disk[held[s]] # "unused"
        BY <1>1, <3>2 DEF StreamDelete, IInv, Deleting, Fresh
      <4> QED
        BY <1>1, <3>1, <3>2, <4>1 DEF StreamDelete, IInv, TypeOK
    <3>3. CASE ~StreamDelete(s)
      BY <1>1, <2>7, <3>1, <3>3 DEF StreamStep, OpenStream, StreamReady, StreamEnds,
         StreamRelease, StreamCollect, WorkerRead
    <3> QED
      BY <3>2, <3>3
  <2>8. ASSUME NEW f \in Files, Finalize(f) PROVE Good
    BY <1>1, <2>8 DEF Finalize, Silent, still, OnDisk, IInv, TypeOK
  <2>9. ASSUME NEW f \in Files, Reap(f) PROVE Good
    BY <1>1, <2>9 DEF Reap, OnDisk, IInv, TypeOK
  <2> QED
    BY <1>1, <2>1, <2>2, <2>3, <2>4, <2>5, <2>6, <2>7, <2>8, <2>9 DEF Next
<1> HIDE DEF Good
<1>2. ~closed => Good
  BY DEF Good
<1>3. IInv /\ Shut /\ [Next]_vars => [Good]_vars
  BY <1>1, <1>2
<1>4. Safety => [][Good]_vars
  BY <1>3, InitShut, StepShut, Inductive, PTL DEF Safety
<1> QED
  BY <1>4 DEF ClosedIsFinal, Good

-----------------------------------------------------------------------------
(* What stands between the archive's contents and its answers.  The reader *)
(* was opened with the password now set, and with the right one if that    *)
(* matters; a copy is damaged, or a source stream read to its end without  *)
(* a good copy at hand, only for one of the reasons of CopyMayBeDamaged.   *)
Opened ==
  reader # "none" =>
    /\ reader = password
    /\ content = "sealed" /\ ~CopyMayBeDamaged => password = "right"
Intact == \A f \in Files : disk[f] = "damaged" => CopyMayBeDamaged
ReadOnce ==
  drained /\ ~closed /\ ~dropped /\ ~CopyMayBeDamaged =>
    source = "stream" /\ Reusable
Sound == ReprIsSafe /\ Opened /\ Intact /\ ReadOnce

LEMMA InitSound == Init => Sound /\ SealedStaysShut
BY DEF Init, Sound, ReprIsSafe, Opened, Intact, ReadOnce, SealedStaysShut

(* A reason for a damaged copy does not go away.                           *)
LEMMA ReasonsStay ==
  ASSUME CopyMayBeDamaged, UNCHANGED source,
         mishaps \subseteq mishaps', reaped \subseteq reaped'
  PROVE  CopyMayBeDamaged'
BY DEF CopyMayBeDamaged

(* The engine is asked to open a copy, and the copy, if damaged, has a     *)
(* reason.                                                                 *)
LEMMA EngineOpensSoundly ==
  ASSUME IInv, Sound, ~closed, ~dropped, NEW f \in Files, NEW k, NEW n \in Int, NEW r,
         EngineOpens(f, k, n, r), k \in {"whole", "damaged"},
         k = "damaged" => CopyMayBeDamaged,
         drained' => drained \/ source = "stream",
         UNCHANGED <<fixed, password, closed, dropped, reaped>>
  PROVE  /\ r = "ok" => reader' # "none"
         /\ Opened' /\ Intact' /\ ReadOnce'
         /\ r = "bad_archive" /\ content # "junk" => CopyMayBeDamaged
<1>1. r \in EngineOpen(k) /\ r \in {"ok", "io", "password", "bad_archive", "panic"}
  BY EngineAnswers DEF EngineOpens
<1>2. r = "bad_archive" /\ content # "junk" => CopyMayBeDamaged
  BY <1>1 DEF EngineOpen
<1>3. reader' = IF r = "ok" THEN password ELSE "none"
  BY DEF EngineOpens, NewReader
<1>4. password \in {"wrong", "right"}
  BY DEF IInv, TypeOK, Passwords
<1>5. CopyMayBeDamaged => CopyMayBeDamaged'
  BY ReasonsStay DEF EngineOpens, fixed
<1>6. Opened'
  <2>1. r = "ok" /\ content = "sealed" /\ ~CopyMayBeDamaged => password = "right"
    BY <1>1 DEF EngineOpen
  <2> QED
    BY <1>3, <1>5, <2>1 DEF Opened, fixed
<1>7. disk' = [disk EXCEPT ![f] = IF KeepsCopy(r) THEN k ELSE AfterRelease(n, k)]
  BY DEF EngineOpens
<1>8. Intact'
  <2>1. AfterRelease(n, k) = "damaged" => k = "damaged"
    BY DEF AfterRelease
  <2>2. \A g \in Files : disk'[g] = "damaged" => CopyMayBeDamaged
    BY <1>7, <2>1 DEF IInv, TypeOK, Sound, Intact
  <2> QED
    BY <1>5, <2>2 DEF Intact
<1>9. ReadOnce'
  <2> SUFFICES ASSUME drained', ~CopyMayBeDamaged' PROVE (source = "stream" /\ Reusable)'
    BY DEF ReadOnce
  <2>1. source = "stream" /\ source' = "stream"
    BY <1>5 DEF Sound, ReadOnce, fixed
  <2>2. KeepsCopy(r)
    BY <1>1, <2>1 DEF EngineOpens, KeepsCopy, CopyMayBeDamaged
  <2> QED
    BY <1>7, <2>1, <2>2, FilesAssumption DEF EngineOpens, Reusable, OnDisk, IInv, TypeOK
<1> QED
  BY <1>2, <1>3, <1>4, <1>6, <1>8, <1>9

LEMMA OpeningSound ==
  ASSUME IInv, Sound, Shut, ~dropped, NEW r, Opening(r),
         UNCHANGED <<fixed, password, closed, dropped, reaped>>
  PROVE  /\ r = "ok" => reader' # "none"
         /\ reader # "none" => reader' # "none"
         /\ Opened' /\ Intact' /\ ReadOnce'
         /\ r = "bad_archive" /\ content # "junk" => CopyMayBeDamaged
<1> USE DEF fixed
<1>1. CASE OpenShut(r) \/ OpenWarm(r)
  BY <1>1 DEF OpenShut, OpenWarm, spill, Sound, Opened, Intact, ReadOnce, Reusable,
     OnDisk, CopyMayBeDamaged
<1>2. CASE OpenOwnPath(r)
  <2>1. r \in {"not_found"} \cup EngineOpen("whole") /\ UNCHANGED spill
        /\ reader = "none" /\ reader' = IF r = "ok" THEN password ELSE "none"
    BY <1>2 DEF OpenOwnPath, NewReader
  <2>2. password \in {"wrong", "right"}
    BY DEF IInv, TypeOK, Passwords
  <2>3. /\ r = "ok" /\ content = "sealed" => password = "right"
        /\ r = "bad_archive" => content = "junk"
    BY <2>1 DEF EngineOpen
  <2> QED
    BY <2>1, <2>2, <2>3 DEF spill, Sound, Opened, Intact, ReadOnce, Reusable,
       OnDisk, CopyMayBeDamaged
<1>3. CASE OpenReuse(r)
  <2>1. /\ ~closed /\ reader = "none" /\ tempfile \in Files /\ drained' = drained
        /\ disk[tempfile] \in {"whole", "damaged"} /\ holders[tempfile] \in Int
        /\ EngineOpens(tempfile, disk[tempfile], holders[tempfile], r)
    BY <1>3 DEF OpenReuse, Reusable, OnDisk, IInv, TypeOK
  <2>2. disk[tempfile] = "damaged" => CopyMayBeDamaged
    BY <2>1 DEF Sound, Intact
  <2> QED
    BY <2>1, <2>2, EngineOpensSoundly
<1>4. ASSUME NEW f \in Files, Spilling(f)
      PROVE  /\ ~closed /\ reader = "none" /\ ~Reusable
             /\ drained' => drained \/ source = "stream"
             /\ Copied \in {"whole", "damaged"}
             /\ Copied = "damaged" => CopyMayBeDamaged
  BY <1>4 DEF Spilling, Copied, Sound, ReadOnce, IInv, TypeOK
<1>5. ASSUME NEW f \in Files, OpenFresh(f, r)
      PROVE  /\ r = "ok" => reader' # "none"
             /\ reader # "none" => reader' # "none"
             /\ Opened' /\ Intact' /\ ReadOnce'
             /\ r = "bad_archive" /\ content # "junk" => CopyMayBeDamaged
  <2>1. EngineOpens(f, Copied, 1, r) /\ Spilling(f)
    BY <1>5 DEF OpenFresh
  <2> QED
    BY <1>4, <2>1, EngineOpensSoundly
<1>6. ASSUME NEW f \in Files, SpillFails(f, r)
      PROVE  r = "io" /\ reader' = reader /\ reader = "none" /\ CopyMayBeDamaged'
  BY <1>4, <1>6 DEF SpillFails, CopyMayBeDamaged
<1>7. ASSUME NEW f \in Files, SpillFails(f, r)
      PROVE  /\ r = "ok" => reader' # "none"
             /\ reader # "none" => reader' # "none"
             /\ Opened' /\ Intact' /\ ReadOnce'
             /\ r = "bad_archive" /\ content # "junk" => CopyMayBeDamaged
  BY <1>6, <1>7 DEF Opened, Intact, ReadOnce
<1> QED
  BY <1>1, <1>2, <1>3, <1>5, <1>7 DEF Opening

(* A step that leaves reader, listing and copies alone, or forgets them.   *)
LEMMA QuietSound ==
  ASSUME IInv, Sound, UNCHANGED <<fixed, drained>>,
         mishaps \subseteq mishaps', reaped \subseteq reaped',
         closed => closed', dropped => dropped',
         \/ reader' = "none" /\ ~entries'
         \/ UNCHANGED <<reader, entries, password>>,
         \A f \in Files : disk'[f] = "damaged" => disk[f] = "damaged",
         \/ closed' \/ dropped' \/ CopyMayBeDamaged'
         \/ UNCHANGED tempfile /\ (Reusable => Reusable')
  PROVE  Sound'
<1>1. CopyMayBeDamaged => CopyMayBeDamaged'
  BY ReasonsStay DEF fixed
<1> QED
  BY <1>1 DEF Sound, ReprIsSafe, Opened, Intact, ReadOnce, fixed

(* The file a stream deletes is not the archive's own copy.                *)
LEMMA OthersDelete ==
  ASSUME IInv, NEW s \in Streams, StreamDelete(s)
  PROVE  tempfile # held[s]
<1>1. held[s] \in Files /\ holders[held[s]] =< 0
  BY DEF StreamDelete, IInv, Deleting
<1>2. Claims(held[s]) = {}
  BY <1>1, ClaimedIsHeld DEF IInv, TypeOK
<1> QED
  BY <1>2 DEF Claims

LEMMA StreamSound ==
  ASSUME IInv, Sound, NEW s \in Streams, StreamStep(s)
  PROVE  Sound' /\ answer' = "none"
<1>1. answer' = "none" /\ UNCHANGED still
  BY DEF StreamStep, OpenStream, StreamReady, StreamEnds, StreamRelease,
     StreamDelete, StreamCollect, WorkerRead, Silent
<1>2. UNCHANGED tempfile
  BY DEF StreamStep, OpenStream, StreamReady, StreamEnds, StreamRelease,
     StreamDelete, StreamCollect, WorkerRead
<1>3. CASE StreamDelete(s)
  <2>1. disk' = [disk EXCEPT ![held[s]] = "gone"]
    BY <1>3 DEF StreamDelete
  <2>2. Reusable => Reusable'
    BY <1>2, <1>3, <2>1, OthersDelete DEF Reusable, OnDisk, IInv, TypeOK
  <2>3. \A f \in Files : disk'[f] = "damaged" => disk[f] = "damaged"
    BY <2>1 DEF IInv, TypeOK
  <2> QED
    BY <1>1, <1>2, <2>2, <2>3, QuietSound DEF still, fixed
<1>4. CASE ~StreamDelete(s)
  <2>1. UNCHANGED disk
    BY <1>4 DEF StreamStep, OpenStream, StreamReady, StreamEnds, StreamRelease,
       StreamCollect, WorkerRead
  <2>2. Reusable => Reusable'
    BY <1>2, <2>1 DEF Reusable, OnDisk
  <2> QED
    BY <1>1, <1>2, <2>1, <2>2, QuietSound DEF still, fixed
<1> QED
  BY <1>3, <1>4

(* What one step of the archive keeps and answers.                         *)
Kept ==
  /\ Sound'
  /\ SealedStaysShut'
  /\ answer' = "bad_archive" /\ content # "junk" => CopyMayBeDamaged

(* An operation that opens the archive and answers what that gave.         *)
LEMMA AnsweredKept ==
  ASSUME IInv, Sound, Shut, ~dropped, NEW r, Opening(r), UNCHANGED idle,
         entries' => entries \/ r = "ok",
         answer' = r \/ (r = "password" /\ answer' = "yes")
  PROVE  Kept
<1>1. /\ r = "ok" => reader' # "none"
      /\ reader # "none" => reader' # "none"
      /\ Opened' /\ Intact' /\ ReadOnce'
      /\ r = "bad_archive" /\ content # "junk" => CopyMayBeDamaged
  BY OpeningSound DEF idle
<1>2. ReprIsSafe'
  BY <1>1 DEF Sound, ReprIsSafe
<1>3. SealedStaysShut'
  BY <1>1 DEF Opened, SealedStaysShut
<1> QED
  BY <1>1, <1>2, <1>3 DEF Kept, Sound

LEMMA StepKept ==
  ASSUME IInv, Sound, Shut, Next
  PROVE  Kept
<1>1. CASE Peek
  BY <1>1, AnsweredKept DEF Peek
<1>2. CASE List
  <2>1. CASE entries /\ answer' = "ok" /\ UNCHANGED <<spill, reader, entries>>
    <3>1. Sound'
      BY <1>2, <2>1, QuietSound DEF List, idle, fixed, spill, Reusable, OnDisk
    <3>2. reader' # "none"
      BY <2>1 DEF Sound, ReprIsSafe
    <3> QED
      BY <2>1, <3>1, <3>2 DEF Kept, Sound, Opened, SealedStaysShut
  <2>2. CASE ~(entries /\ answer' = "ok" /\ UNCHANGED <<spill, reader, entries>>)
    BY <1>2, <2>2, AnsweredKept DEF List
  <2> QED
    BY <2>1, <2>2
<1>3. CASE Use
  BY <1>3, AnsweredKept DEF Use
<1>4. CASE Close
  <2>1. \A f \in Files : disk'[f] = "damaged" => disk[f] = "damaged"
    BY <1>4 DEF Close, AfterRelease
  <2>2. Sound'
    BY <1>4, <2>1, QuietSound DEF Close
  <2> QED
    BY <1>4, <2>2 DEF Close, Kept, SealedStaysShut
<1>5. CASE Drop
  <2>1. Sound'
    BY <1>5, QuietSound DEF Drop
  <2> QED
    BY <1>5, <2>1 DEF Drop, Kept, SealedStaysShut
<1>6. ASSUME NEW p \in Passwords, SetPassword(p) PROVE Kept
  <2>1. Sound'
    BY <1>6, QuietSound DEF SetPassword, spill, Reusable, OnDisk
  <2> QED
    BY <1>6, <2>1 DEF SetPassword, Kept, SealedStaysShut
<1>7. ASSUME NEW s \in Streams, StreamStep(s) PROVE Kept
  BY <1>7, StreamSound DEF Kept, SealedStaysShut
<1>8. ASSUME NEW f \in Files, Finalize(f) PROVE Kept
  <2>1. \A g \in Files : disk'[g] = "damaged" => disk[g] = "damaged"
    BY <1>8 DEF Finalize, IInv, TypeOK
  <2>2. Reusable => Reusable'
    BY <1>8 DEF Finalize, Reusable, OnDisk, IInv, TypeOK
  <2>3. Sound'
    BY <1>8, <2>1, <2>2, QuietSound DEF Finalize, Silent, still, fixed
  <2> QED
    BY <1>8, <2>3 DEF Finalize, Silent, Kept, SealedStaysShut
<1>9. ASSUME NEW f \in Files, Reap(f) PROVE Kept
  <2>1. \A g \in Files : disk'[g] = "damaged" => disk[g] = "damaged"
    BY <1>9 DEF Reap, IInv, TypeOK
  <2>2. drained /\ ~closed /\ ~dropped => CopyMayBeDamaged'
    BY <1>9 DEF Reap, Sound, ReadOnce, CopyMayBeDamaged, fixed
  <2>3. ReprIsSafe' /\ Opened' /\ Intact' /\ ReadOnce'
    <3>1. CopyMayBeDamaged => CopyMayBeDamaged'
      BY <1>9, ReasonsStay DEF Reap, fixed
    <3> QED
      BY <1>9, <2>1, <2>2, <3>1 DEF Reap, Sound, ReprIsSafe, Opened, Intact, ReadOnce, fixed
  <2> QED
    BY <1>9, <2>3 DEF Reap, Kept, Sound, SealedStaysShut
<1> QED
  BY <1>1, <1>2, <1>3, <1>4, <1>5, <1>6, <1>7, <1>8, <1>9 DEF Next

LEMMA StillSound ==
  ASSUME Sound, SealedStaysShut, UNCHANGED vars
  PROVE  Sound' /\ SealedStaysShut'
BY DEF vars, fixed, spill, Sound, ReprIsSafe, Opened, Intact, ReadOnce, Reusable,
   OnDisk, CopyMayBeDamaged, SealedStaysShut

LEMMA AlwaysSound == Safety => [](Sound /\ SealedStaysShut)
<1>1. IInv /\ Shut /\ Sound /\ SealedStaysShut /\ [Next]_vars
        => (Sound /\ SealedStaysShut)'
  BY StepKept, StillSound DEF Kept
<1> QED
  BY <1>1, InitSound, InitShut, StepShut, Inductive, PTL DEF Safety

(* An archive with encrypted headers answers only while the right password *)
(* is set, whatever was opened and listed under earlier ones.              *)
THEOREM SealedUntilUnlocked == Safety => []SealedStaysShut
BY AlwaysSound, PTL

(* The assertion of __repr__ never fails.                                  *)
THEOREM ReprNeverFails == Safety => []ReprIsSafe
<1>1. Sound => ReprIsSafe
  BY DEF Sound
<1> QED
  BY <1>1, AlwaysSound, PTL

(* A sound archive is called unrecognisable only if a copy failed, or if a *)
(* source stream had to be read again after a refused open or an outside   *)
(* removal: changing the password alone never leads there.                 *)
THEOREM GoodRecognised == Safety => GoodArchiveRecognised
<1> DEFINE Good == answer' = "bad_archive" /\ content # "junk" => CopyMayBeDamaged
<1>1. IInv /\ Shut /\ Sound /\ [Next]_vars => [Good]_vars
  BY StepKept DEF Kept
<1> HIDE DEF Good
<1>2. Safety => [][Good]_vars
  BY <1>1, AlwaysSound, InitShut, StepShut, Inductive, PTL DEF Safety
<1> QED
  BY <1>2 DEF GoodArchiveRecognised, Good

-----------------------------------------------------------------------------
(* Nothing is left behind.  As long as the archive was not collected the   *)
(* counter of a copy on disk is exact, and the copy has a claimant or a    *)
(* stream about to delete it.                                              *)
Going(f) == \E s \in Streams : stream[s] = "releasing" /\ held[s] = f
Owed(f) == holders[f] = Cardinality(Claims(f)) /\ (Claims(f) # {} \/ Going(f))
Owing == ~dropped => \A f \in Files : OnDisk(f) /\ f \notin orphans => Owed(f)

LEMMA InitOwing == Init => Owing
BY DEF Init, Owing, OnDisk

(* A file whose claims, counter and deleters stay.                         *)
LEMMA OwedStays ==
  ASSUME NEW f \in Files, Owed(f), Claims(f)' = Claims(f), holders'[f] = holders[f],
         Going(f) => Going(f)'
  PROVE  Owed(f)'
BY DEF Owed

LEMMA SameOwing ==
  ASSUME Owing, UNCHANGED <<tempfile, disk, holders, orphans, streams>>,
         dropped => dropped'
  PROVE  Owing'
<1>1. \A f : Claims(f)' = Claims(f) /\ Going(f)' = Going(f)
  BY DEF Claims, Going, streams
<1> QED
  BY <1>1 DEF Owing, Owed, OnDisk

LEMMA GiveUpOwing ==
  ASSUME IInv, Owing, UNCHANGED <<orphans, streams, dropped>>,
         NEW f \in Files, tempfile = f, tempfile' = NoFile,
         holders' = [holders EXCEPT ![f] = @ - 1],
         disk' = [disk EXCEPT ![f] = AfterRelease(holders[f], @)]
  PROVE  Owing'
<1> USE FilesAssumption, StreamsAssumption
<1>1. Claims(f)' = Claims(f) \ {Owner} /\ Owner \in Claims(f)
  BY DEF Claims, streams
<1> SUFFICES ASSUME NEW g \in Files, ~dropped, OnDisk(g)', g \notin orphans
             PROVE  Owed(g)'
  BY DEF Owing
<1>2. CASE g = f
  <2>1. disk'[f] = AfterRelease(holders[f], disk[f]) /\ holders'[f] = holders[f] - 1
    BY DEF IInv, TypeOK
  <2>2. OnDisk(f) /\ holders[f] - 1 > 0
    BY <1>2, <2>1 DEF OnDisk, AfterRelease
  <2>3. holders[f] = Cardinality(Claims(f))
    BY <1>2, <2>2 DEF Owing, Owed
  <2>4. Cardinality(Claims(f) \ {Owner}) = Cardinality(Claims(f)) - 1
    BY <1>1, ClaimsFinite, FS_RemoveElement
  <2>5. Claims(f) \ {Owner} # {}
    BY <2>2, <2>3, <2>4, FS_EmptySet
  <2> QED
    BY <1>1, <1>2, <2>1, <2>3, <2>4, <2>5 DEF Owed
<1>3. CASE g # f
  <2>1. Claims(g)' = Claims(g) /\ holders'[g] = holders[g] /\ OnDisk(g)
    BY <1>3 DEF Claims, streams, OnDisk, IInv, TypeOK
  <2> QED
    BY <2>1, OwedStays DEF Owing, Going, streams
<1> QED
  BY <1>2, <1>3

LEMMA NewFileOwing ==
  ASSUME IInv, Owing, UNCHANGED <<streams, dropped>>, ~Reusable,
         NEW f \in Files, disk[f] = "unused",
         NEW k, disk' = [disk EXCEPT ![f] = k],
         NEW n, holders' = [holders EXCEPT ![f] = n],
         \/ tempfile' = f /\ n = 1 /\ UNCHANGED orphans
         \/ tempfile' = NoFile /\ k = "gone" /\ UNCHANGED orphans
         \/ orphans' = orphans \cup {f} /\ UNCHANGED tempfile
  PROVE  Owing'
<1> USE FilesAssumption, StreamsAssumption
<1> SUFFICES ASSUME NEW g \in Files, ~dropped, OnDisk(g)', g \notin orphans'
             PROVE  Owed(g)'
  BY DEF Owing
<1>1. tempfile # f /\ \A s \in Streams : held[s] # f
  BY DEF IInv, Fresh
<1>2. CASE g = f
  <2>1. tempfile' = f /\ n = 1
    BY <1>2 DEF OnDisk, IInv, TypeOK
  <2>2. Claims(f)' = {Owner}
    BY <1>1, <2>1 DEF Claims, streams
  <2>3. holders'[f] = 1
    BY <2>1 DEF IInv, TypeOK
  <2> QED
    BY <1>2, <2>2, <2>3, FS_Singleton DEF Owed
<1>3. CASE g # f
  <2>1. holders'[g] = holders[g] /\ OnDisk(g) /\ g \notin orphans
    BY <1>3 DEF OnDisk, IInv, TypeOK
  <2>2. tempfile # g
    BY <2>1 DEF Reusable
  <2>3. Claims(g)' = Claims(g)
    BY <1>3, <2>2 DEF Claims, streams
  <2> QED
    BY <2>1, <2>3, OwedStays DEF Owing, Going, streams
<1> QED
  BY <1>2, <1>3

LEMMA OpeningOwing ==
  ASSUME IInv, Owing, NEW r, Opening(r), UNCHANGED <<streams, dropped>>
  PROVE  Owing'
<1> USE FilesAssumption
<1>1. CASE OpenShut(r) \/ OpenWarm(r) \/ OpenOwnPath(r)
  BY <1>1, SameOwing DEF OpenShut, OpenWarm, OpenOwnPath, spill
<1>2. CASE OpenReuse(r)
  <2>1. PICK f \in Files : tempfile = f
    BY <1>2 DEF OpenReuse, Reusable, IInv, TypeOK
  <2>2. EngineOpens(f, disk[f], holders[f], r) /\ orphans' = orphans
    BY <1>2, <2>1 DEF OpenReuse
  <2>3. CASE KeepsCopy(r)
    <3>1. tempfile' = tempfile /\ disk' = disk /\ holders' = holders
      BY <2>1, <2>2, <2>3 DEF EngineOpens, IInv, TypeOK
    <3> QED
      BY <2>2, <3>1, SameOwing
  <2>4. CASE ~KeepsCopy(r)
    <3>1. /\ tempfile' = NoFile
          /\ holders' = [holders EXCEPT ![f] = @ - 1]
          /\ disk' = [disk EXCEPT ![f] = AfterRelease(holders[f], @)]
      BY <2>2, <2>4 DEF EngineOpens
    <3> QED
      BY <2>1, <2>2, <3>1, GiveUpOwing
  <2> QED
    BY <2>3, <2>4
<1>3. ASSUME NEW f \in Files, OpenFresh(f, r)
      PROVE  Owing'
  <2> DEFINE k == IF KeepsCopy(r) THEN Copied ELSE AfterRelease(1, Copied)
             n == IF KeepsCopy(r) THEN 1 ELSE 0
  <2>1. disk[f] = "unused" /\ ~Reusable /\ orphans' = orphans
    BY <1>3 DEF OpenFresh, Spilling
  <2>2. /\ disk' = [disk EXCEPT ![f] = k]
        /\ holders' = [holders EXCEPT ![f] = n]
        /\ tempfile' = IF KeepsCopy(r) THEN f ELSE NoFile
    BY <1>3 DEF OpenFresh, EngineOpens
  <2>3. (tempfile' = f /\ n = 1) \/ (tempfile' = NoFile /\ k = "gone")
    BY <2>2 DEF Copied, AfterRelease
  <2> HIDE DEF k, n
  <2> QED
    BY <2>1, <2>2, <2>3, NewFileOwing
<1>4. ASSUME NEW f \in Files, SpillFails(f, r)
      PROVE  Owing'
  <2> DEFINE k == "damaged"
             n == IF tempfile' = f THEN 1 ELSE holders[f]
  <2>1. disk[f] = "unused" /\ ~Reusable /\ disk' = [disk EXCEPT ![f] = k]
    BY <1>4 DEF SpillFails, Spilling
  <2>2. tempfile # f
    BY <2>1 DEF IInv, Fresh
  <2>3. /\ holders' = [holders EXCEPT ![f] = n]
        /\ \/ tempfile' = f /\ n = 1 /\ UNCHANGED orphans
           \/ orphans' = orphans \cup {f} /\ UNCHANGED tempfile
    BY <1>4, <2>2 DEF SpillFails, IInv, TypeOK
  <2> HIDE DEF k, n
  <2> QED
    BY <2>1, <2>3, NewFileOwing
<1> QED
  BY <1>1, <1>2, <1>3, <1>4 DEF Opening

(* A file is gone from the disk, and nothing else changes.                 *)
LEMMA RemovalOwing ==
  ASSUME IInv, Owing, UNCHANGED <<tempfile, holders, orphans, dropped>>,
         NEW f \in Files, disk' = [disk EXCEPT ![f] = "gone"],
         \A g \in Files : g # f => Claims(g)' = Claims(g) /\ (Going(g) => Going(g)')
  PROVE  Owing'
<1> SUFFICES ASSUME NEW g \in Files, ~dropped, OnDisk(g)', g \notin orphans
             PROVE  Owed(g)'
  BY DEF Owing
<1>1. g # f /\ OnDisk(g)
  BY DEF OnDisk, IInv, TypeOK
<1> QED
  BY <1>1, OwedStays DEF Owing

LEMMA StreamOwing ==
  ASSUME IInv, Owing, NEW s \in Streams, StreamStep(s)
  PROVE  Owing'
<1> USE FilesAssumption, StreamsAssumption
<1>1. UNCHANGED <<tempfile, orphans, dropped>>
  BY DEF StreamStep, OpenStream, StreamReady, StreamEnds, StreamRelease,
     StreamDelete, StreamCollect, WorkerRead, Silent, still
<1>2. CASE StreamReady(s) \/ WorkerRead(s) \/ StreamEnds(s) \/ StreamCollect(s)
  <2>1. \A g \in Files : Claims(g)' = Claims(g) /\ (Going(g) => Going(g)')
    BY <1>1, <1>2 DEF StreamReady, WorkerRead, StreamEnds, StreamCollect, Claims,
       Going, IInv, TypeOK
  <2>2. UNCHANGED <<disk, holders>>
    BY <1>2 DEF StreamReady, WorkerRead, StreamEnds, StreamCollect
  <2> QED
    BY <1>1, <2>1, <2>2, OwedStays DEF Owing, OnDisk
<1>3. CASE OpenStream(s)
  <2> SUFFICES ASSUME NEW g \in Files, ~dropped, OnDisk(g)', g \notin orphans
               PROVE  Owed(g)'
    BY <1>1 DEF Owing
  <2>1. /\ stream[s] = "unused" /\ held[s] = NoFile
        /\ held' = [held EXCEPT ![s] = tempfile]
        /\ stream' = [stream EXCEPT ![s] = "opening"]
        /\ OnDisk(g) /\ Owed(g)
    BY <1>3 DEF OpenStream, IInv, Deleting, OnDisk, Owing
  <2>2. CASE g = tempfile
    <3>1. Claims(g)' = Claims(g) \cup {s} /\ s \notin Claims(g)
      BY <1>1, <2>1, <2>2 DEF Claims, IInv, TypeOK
    <3>2. holders'[g] = holders[g] + 1
      BY <1>3, <2>2 DEF OpenStream, IInv, TypeOK
    <3>3. Cardinality(Claims(g)') = Cardinality(Claims(g)) + 1
      BY <3>1, ClaimsFinite, FS_AddElement
    <3> QED
      BY <2>1, <3>1, <3>2, <3>3 DEF Owed
  <2>3. CASE g # tempfile
    <3>1. Claims(g)' = Claims(g) /\ (Going(g) => Going(g)')
      BY <1>1, <2>1, <2>3 DEF Claims, Going, IInv, TypeOK
    <3>2. holders'[g] = holders[g]
      BY <1>3, <2>3 DEF OpenStream, IInv, TypeOK
    <3> QED
      BY <2>1, <3>1, <3>2, OwedStays
  <2> QED
    BY <2>2, <2>3
<1>4. CASE StreamRelease(s)
  <2> SUFFICES ASSUME NEW g \in Files, ~dropped, OnDisk(g)', g \notin orphans
               PROVE  Owed(g)'
    BY <1>1 DEF Owing
  <2>1. PICK f \in Files : held[s] = f
    BY <1>4 DEF StreamRelease, IInv, Deleting
  <2>2. /\ stream[s] = "ended" /\ UNCHANGED held
        /\ holders' = [holders EXCEPT ![f] = @ - 1]
        /\ stream' = [stream EXCEPT ![s] =
                        IF holders[f] - 1 > 0 THEN "closed" ELSE "releasing"]
        /\ OnDisk(g) /\ Owed(g)
    BY <1>4, <2>1 DEF StreamRelease, OnDisk, Owing
  <2>3. CASE g = f
    <3>1. Claims(g)' = Claims(g) \ {s} /\ s \in Claims(g)
      BY <1>1, <2>1, <2>2, <2>3 DEF Claims, IInv, TypeOK
    <3>2. holders'[g] = holders[g] - 1 /\ holders[g] = Cardinality(Claims(g))
      BY <2>2, <2>3 DEF Owed, IInv, TypeOK
    <3>3. Cardinality(Claims(g) \ {s}) = Cardinality(Claims(g)) - 1
      BY <3>1, ClaimsFinite, FS_RemoveElement
    <3>4. CASE holders[f] - 1 > 0
      <4>1. Claims(g) \ {s} # {}
        BY <2>3, <3>2, <3>3, <3>4, FS_EmptySet
      <4> QED
        BY <3>1, <3>2, <3>3, <4>1 DEF Owed
    <3>5. CASE ~(holders[f] - 1 > 0)
      <4>1. Going(g)'
        BY <2>1, <2>2, <2>3, <3>5 DEF Going, IInv, TypeOK
      <4> QED
        BY <3>1, <3>2, <3>3, <4>1 DEF Owed
    <3> QED
      BY <3>4, <3>5
  <2>4. CASE g # f
    <3>1. Claims(g)' = Claims(g) /\ (Going(g) => Going(g)') /\ holders'[g] = holders[g]
      BY <1>1, <2>1, <2>2, <2>4 DEF Claims, Going, IInv, TypeOK
    <3> QED
      BY <2>2, <3>1, OwedStays
  <2> QED
    BY <2>3, <2>4
<1>5. CASE StreamDelete(s)
  <2>1. PICK f \in Files : held[s] = f
    BY <1>5 DEF StreamDelete, IInv, Deleting
  <2>2. /\ disk' = [disk EXCEPT ![f] = "gone"] /\ UNCHANGED <<holders, held>>
        /\ stream[s] = "releasing" /\ stream' = [stream EXCEPT ![s] = "closed"]
    BY <1>5, <2>1 DEF StreamDelete
  <2>3. \A g \in Files : g # f => Claims(g)' = Claims(g) /\ (Going(g) => Going(g)')
    BY <1>1, <2>1, <2>2 DEF Claims, Going, IInv, TypeOK
  <2> QED
    BY <1>1, <2>2, <2>3, RemovalOwing
<1> QED
  BY <1>2, <1>3, <1>4, <1>5 DEF StreamStep

LEMMA StepOwing == IInv /\ Owing /\ [Next]_vars => Owing'
<1> SUFFICES ASSUME IInv, Owing, [Next]_vars PROVE Owing'
  OBVIOUS
<1> USE FilesAssumption
<1>1. CASE Peek
  BY <1>1, OpeningOwing DEF Peek, idle
<1>2. CASE List
  BY <1>2, OpeningOwing, SameOwing DEF List, idle, spill
<1>3. CASE Use
  BY <1>3, OpeningOwing DEF Use, idle
<1>4. CASE Close
  <2>1. UNCHANGED <<orphans, streams, dropped>> /\ tempfile' = NoFile
    BY <1>4 DEF Close
  <2>2. CASE tempfile = NoFile
    <3>1. disk' = disk /\ holders' = holders
      BY <1>4, <2>2 DEF Close, IInv, TypeOK
    <3> QED
      BY <2>1, <2>2, <3>1, SameOwing
  <2>3. ASSUME NEW f \in Files, tempfile = f
        PROVE  Owing'
    <3>1. holders' = [holders EXCEPT ![f] = @ - 1]
      BY <1>4, <2>3 DEF Close, IInv, TypeOK
    <3>2. disk' = [disk EXCEPT ![f] = AfterRelease(holders[f], @)]
      BY <1>4, <2>3 DEF Close, IInv, TypeOK
    <3> QED
      BY <2>1, <2>3, <3>1, <3>2, GiveUpOwing
  <2> QED
    BY <2>2, <2>3 DEF IInv, TypeOK
<1>5. CASE Drop
  BY <1>5 DEF Drop, Owing
<1>6. ASSUME NEW p \in Passwords, SetPassword(p) PROVE Owing'
  BY <1>6, SameOwing DEF SetPassword, spill
<1>7. ASSUME NEW s \in Streams, StreamStep(s) PROVE Owing'
  BY <1>7, StreamOwing
<1>8. ASSUME NEW f \in Files, Finalize(f) PROVE Owing'
  BY <1>8, RemovalOwing DEF Finalize, Silent, still, streams, Claims, Going
<1>9. ASSUME NEW f \in Files, Reap(f) PROVE Owing'
  BY <1>9, RemovalOwing DEF Reap, streams, Claims, Going
<1>10. CASE UNCHANGED vars
  BY <1>10, SameOwing DEF vars, spill
<1> QED
  BY <1>1, <1>2, <1>3, <1>4, <1>5, <1>6, <1>7, <1>8, <1>9, <1>10 DEF Next

(* Once the archive and its streams are closed, in whatever order and with *)
(* whatever retries, only copies that failed half-way are still on disk.   *)
THEOREM LeavesNothing == Safety => []NothingLeftBehind
<1>1. Shut /\ Owing => NothingLeftBehind
  BY FilesAssumption DEF Shut, Owing, Owed, Going, Claims, NothingLeftBehind
<1> QED
  BY <1>1, InitShut, StepShut, InitOwing, StepOwing, Inductive, PTL DEF Safety
=============================================================================
