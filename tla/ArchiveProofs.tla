--------------------------- MODULE ArchiveProofs ---------------------------
(***************************************************************************)
(* What TLAPS proves of module Archive for every number of files and       *)
(* streams: type correctness, that a claimed file is on disk, and that the *)
(* counter of holders implements the claims of TempFileClaims.             *)
(***************************************************************************)
EXTENDS Archive, Counting, FiniteSetTheorems, TLAPS

-----------------------------------------------------------------------------
(* The engine answers one of five things.                                  *)
LEMMA EngineAnswers ==
  ASSUME NEW k, NEW r \in EngineOpen(k)
  PROVE  r \in {"ok", "io", "password", "bad_archive", "panic"}
BY DEF EngineOpen

(* Releasing leaves a file in one of the conditions a file can be in.      *)
LEMMA AfterReleaseType ==
  ASSUME NEW n, NEW k \in {"unused", "whole", "damaged", "gone"}
  PROVE  AfterRelease(n, k) \in {"unused", "whole", "damaged", "gone"}
BY DEF AfterRelease

LEMMA NewReaderType ==
  ASSUME TypeOK, NEW r
  PROVE  NewReader(r) \in Passwords \cup {"none"}
BY DEF NewReader, TypeOK

(* The part of the types an opening can change.                            *)
OpeningTypes ==
  /\ reader \in Passwords \cup {"none"}
  /\ drained \in BOOLEAN
  /\ tempfile \in Files \cup {NoFile}
  /\ disk \in [Files -> {"unused", "whole", "damaged", "gone"}]
  /\ holders \in [Files -> Int]
  /\ orphans \subseteq Files
  /\ mishaps \subseteq {"spill", "io", "password", "bad_archive"}

LEMMA EngineOpensType ==
  ASSUME TypeOK, NEW f \in Files, NEW n \in Int, NEW r,
         NEW k \in {"unused", "whole", "damaged", "gone"},
         EngineOpens(f, k, n, r)
  PROVE  /\ reader' \in Passwords \cup {"none"}
         /\ tempfile' \in Files \cup {NoFile}
         /\ disk' \in [Files -> {"unused", "whole", "damaged", "gone"}]
         /\ holders' \in [Files -> Int]
         /\ mishaps' \subseteq {"spill", "io", "password", "bad_archive"}
<1>1. r \in {"ok", "io", "password", "bad_archive", "panic"}
  BY EngineAnswers DEF EngineOpens
<1>2. AfterRelease(n, k) \in {"unused", "whole", "damaged", "gone"}
  BY AfterReleaseType
<1>3. reader' \in Passwords \cup {"none"}
  BY NewReaderType DEF EngineOpens
<1>4. mishaps' \subseteq {"spill", "io", "password", "bad_archive"}
  BY <1>1 DEF EngineOpens, KeepsCopy, TypeOK
<1> QED
  BY <1>2, <1>3, <1>4 DEF EngineOpens, TypeOK

LEMMA OpeningType ==
  ASSUME TypeOK, NEW r, Opening(r)
  PROVE  OpeningTypes'
<1> USE DEF OpeningTypes
<1>1. CASE OpenShut(r)
  BY <1>1 DEF OpenShut, TypeOK, spill
<1>2. CASE OpenWarm(r)
  BY <1>2 DEF OpenWarm, TypeOK, spill
<1>3. CASE OpenOwnPath(r)
  BY <1>3, NewReaderType DEF OpenOwnPath, TypeOK, spill
<1>4. CASE OpenReuse(r)
  <2>1. /\ tempfile \in Files
        /\ disk[tempfile] \in {"unused", "whole", "damaged", "gone"}
        /\ holders[tempfile] \in Int
    BY <1>4 DEF OpenReuse, Reusable, TypeOK
  <2> QED
    BY <1>4, <2>1, EngineOpensType DEF OpenReuse, TypeOK
<1>5. ASSUME NEW f \in Files, OpenFresh(f, r)
      PROVE  OpeningTypes'
  <2>1. Copied \in {"unused", "whole", "damaged", "gone"}
    BY DEF Copied
  <2>2. drained' \in BOOLEAN /\ orphans' \subseteq Files
    BY <1>5 DEF OpenFresh, Spilling, TypeOK
  <2>3. EngineOpens(f, Copied, 1, r)
    BY <1>5 DEF OpenFresh
  <2> QED
    BY <2>1, <2>2, <2>3, EngineOpensType
<1>6. ASSUME NEW f \in Files, SpillFails(f, r)
      PROVE  OpeningTypes'
  BY <1>6 DEF SpillFails, Spilling, TypeOK
<1> QED
  BY <1>1, <1>2, <1>3, <1>4, <1>5, <1>6 DEF Opening

-----------------------------------------------------------------------------
LEMMA InitType == Init => TypeOK
<1> SUFFICES ASSUME Init PROVE TypeOK
  OBVIOUS
<1>1. /\ disk \in [Files -> {"unused", "whole", "damaged", "gone"}]
      /\ holders \in [Files -> Int]
      /\ stream \in [Streams -> {"unused", "opening", "open", "ended",
                                 "releasing", "closed", "gone"}]
      /\ held \in [Streams -> Files \cup {NoFile}]
      /\ worker \in [Streams -> {"none", "ready", "served", "starved"}]
  BY DEF Init
<1>2. /\ reaped \subseteq Files /\ orphans \subseteq Files
      /\ mishaps \subseteq {"spill", "io", "password", "bad_archive"}
  BY DEF Init
<1> QED
  BY <1>1, <1>2 DEF Init, TypeOK

(* Every step keeps the types.                                             *)
LEMMA StepType == TypeOK /\ [Next]_vars => TypeOK'
<1> SUFFICES ASSUME TypeOK, [Next]_vars PROVE TypeOK'
  OBVIOUS
<1>1. CASE Peek
  <2> PICK r \in Answers : Opening(r) /\ answer' = r
    BY <1>1 DEF Peek
  <2>1. OpeningTypes'
    BY OpeningType
  <2> QED
    BY <1>1, <2>1 DEF Peek, OpeningTypes, TypeOK, idle, fixed, streams, Answers
<1>2. CASE List
  <2>1. CASE entries /\ answer' = "ok" /\ UNCHANGED <<spill, reader, entries>>
    BY <1>2, <2>1 DEF List, TypeOK, idle, fixed, streams, spill
  <2>2. CASE \E r \in Answers :
               /\ Opening(r)
               /\ entries' = (r = "ok")
               /\ answer' \in {r} \cup (IF r = "password" THEN {"yes"} ELSE {})
    <3> PICK r \in Answers :
               /\ Opening(r)
               /\ entries' = (r = "ok")
               /\ answer' \in {r} \cup (IF r = "password" THEN {"yes"} ELSE {})
      BY <2>2
    <3>1. OpeningTypes'
      BY OpeningType
    <3>2. answer' \in Answers \cup {"yes"}
      OBVIOUS
    <3> QED
      BY <1>2, <3>1, <3>2 DEF List, OpeningTypes, TypeOK, idle, fixed, streams, Answers
  <2> QED
    BY <1>2, <2>1, <2>2 DEF List
<1>3. CASE Use
  <2> PICK r \in Answers :
        Opening(r) /\ entries' = (entries \/ r = "ok") /\ answer' = r
    BY <1>3 DEF Use
  <2>1. OpeningTypes'
    BY OpeningType
  <2> QED
    BY <1>3, <2>1 DEF Use, OpeningTypes, TypeOK, idle, fixed, streams, Answers
<1>4. CASE Close
  <2>1. \A f \in Files : AfterRelease(holders[f], disk[f])
                           \in {"unused", "whole", "damaged", "gone"}
    BY AfterReleaseType DEF TypeOK
  <2>2. disk' \in [Files -> {"unused", "whole", "damaged", "gone"}]
    BY <1>4, <2>1 DEF Close, TypeOK
  <2>3. holders' \in [Files -> Int]
    BY <1>4 DEF Close, TypeOK
  <2> QED
    BY <1>4, <2>2, <2>3 DEF Close, TypeOK, fixed, streams
<1>5. CASE Drop
  BY <1>5 DEF Drop, TypeOK, fixed, streams
<1>6. ASSUME NEW p \in Passwords, SetPassword(p)
      PROVE  TypeOK'
  BY <1>6 DEF SetPassword, TypeOK, fixed, spill, streams
<1>7. ASSUME NEW s \in Streams, StreamStep(s)
      PROVE  TypeOK'
  <2> USE DEF TypeOK, Silent, still, fixed
  <2>1. CASE OpenStream(s)
    BY <2>1 DEF OpenStream
  <2>2. CASE StreamReady(s)
    BY <2>2 DEF StreamReady
  <2>3. CASE StreamEnds(s)
    BY <2>3 DEF StreamEnds
  <2>4. CASE StreamRelease(s)
    <3>1. holders' \in [Files -> Int]
      <4>1. CASE held[s] \in Files
        BY <2>4, <4>1 DEF StreamRelease
      <4>2. CASE held[s] \notin Files
        BY <2>4, <4>2 DEF StreamRelease
      <4> QED
        BY <4>1, <4>2
    <3> QED
      BY <2>4, <3>1 DEF StreamRelease
  <2>5. CASE StreamDelete(s)
    BY <2>5 DEF StreamDelete
  <2>6. CASE StreamCollect(s)
    BY <2>6 DEF StreamCollect
  <2>7. CASE WorkerRead(s)
    BY <2>7 DEF WorkerRead
  <2> QED
    BY <1>7, <2>1, <2>2, <2>3, <2>4, <2>5, <2>6, <2>7 DEF StreamStep
<1>8. ASSUME NEW f \in Files, Finalize(f)
      PROVE  TypeOK'
  BY <1>8 DEF Finalize, TypeOK, Silent, still, fixed, streams
<1>9. ASSUME NEW f \in Files, Reap(f)
      PROVE  TypeOK'
  BY <1>9 DEF Reap, TypeOK, fixed, streams
<1>10. CASE UNCHANGED vars
  BY <1>10 DEF vars, fixed, spill, streams, TypeOK
<1> QED
  BY <1>1, <1>2, <1>3, <1>4, <1>5, <1>6, <1>7, <1>8, <1>9, <1>10 DEF Next

(* Every variable of the archive keeps to its values, for every number of  *)
(* files and streams.                                                      *)
THEOREM TypeCorrect == Safety => []TypeOK
BY InitType, StepType, PTL DEF Safety

-----------------------------------------------------------------------------
(* Counting claims.                                                        *)
LEMMA ClaimsFinite == \A f : IsFiniteSet(Claims(f))
<1> TAKE f
<1>1. IsFiniteSet(Streams \cup {Owner})
  BY FS_AddElement, StreamsAssumption
<1>2. Claims(f) \subseteq Streams \cup {Owner}
  BY DEF Claims
<1> QED
  BY <1>1, <1>2, FS_Subset

(* While a file is claimed its counter is positive.                        *)
LEMMA ClaimedIsHeld ==
  ASSUME TypeOK, Counted, NEW f \in Files, Claims(f) # {}
  PROVE  holders[f] >= 1
<1>1. holders[f] \in Int /\ holders[f] >= Cardinality(Claims(f))
  BY DEF TypeOK, Counted
<1>2. Cardinality(Claims(f)) \in Nat /\ Cardinality(Claims(f)) # 0
  BY ClaimsFinite, FS_CardinalityType, FS_EmptySet
<1> QED
  BY <1>1, <1>2

-----------------------------------------------------------------------------
(* The part of the invariant beyond the types.                             *)
Books == Counted /\ Deleting /\ Fresh /\ ClaimedFileExists

LEMMA SameBooks ==
  ASSUME IInv, UNCHANGED <<tempfile, disk, holders, orphans, streams, reaped>>
  PROVE  Books'
<1>1. \A f : Claims(f)' = Claims(f)
  BY DEF Claims, streams
<1> QED
  BY <1>1 DEF IInv, Books, Counted, Deleting, Fresh, ClaimedFileExists, OnDisk, streams

(* The archive gives its claim up (a refused open, or close).              *)
LEMMA GiveUpBooks ==
  ASSUME IInv, UNCHANGED <<orphans, streams, reaped>>,
         NEW f \in Files, tempfile = f, tempfile' = NoFile,
         holders' = [holders EXCEPT ![f] = @ - 1],
         disk' = [disk EXCEPT ![f] = AfterRelease(holders[f], @)]
  PROVE  Books'
<1> USE FilesAssumption, StreamsAssumption
<1>1. Claims(f)' = Claims(f) \ {Owner} /\ Owner \in Claims(f)
  BY DEF Claims, streams
<1>2. \A g \in Files : g # f => Claims(g)' = Claims(g)
  BY DEF Claims, streams
<1>3. holders[f] \in Int /\ holders[f] >= Cardinality(Claims(f))
  BY DEF IInv, TypeOK, Counted
<1>4. holders'[f] >= Cardinality(Claims(f)')
  BY <1>1, <1>3, CountRemove, ClaimsFinite DEF IInv, TypeOK
<1>5. Counted'
  <2> SUFFICES ASSUME NEW g \in Files PROVE (holders[g] >= Cardinality(Claims(g)))'
    BY DEF Counted
  <2>1. CASE g = f
    BY <1>4, <2>1
  <2>2. CASE g # f
    BY <1>2, <2>2 DEF IInv, Counted, TypeOK
  <2> QED
    BY <2>1, <2>2
<1>6. Deleting'
  BY <1>3 DEF IInv, Deleting, TypeOK, streams
<1>7. disk[f] # "unused" /\ disk'[f] # "unused"
  BY DEF IInv, Fresh, TypeOK, AfterRelease
<1>8. Fresh'
  BY <1>7 DEF IInv, Fresh, TypeOK, streams
<1>9. ClaimedFileExists'
  <2> SUFFICES ASSUME NEW g \in Files, (Claims(g) # {})', g \notin reaped
               PROVE  OnDisk(g)'
    BY DEF ClaimedFileExists
  <2>1. CASE g = f
    <3>1. Claims(f) # {} /\ OnDisk(f)
      BY <1>1, <2>1 DEF IInv, ClaimedFileExists
    <3>2. Cardinality(Claims(f)') \in Nat /\ Cardinality(Claims(f)') # 0
      BY <1>1, <2>1, ClaimsFinite, FS_RemoveElement, FS_CardinalityType, FS_EmptySet
    <3>3. holders[f] - 1 > 0
      BY <1>3, <1>4, <3>2 DEF IInv, TypeOK
    <3> QED
      BY <2>1, <3>1, <3>3 DEF AfterRelease, OnDisk, IInv, TypeOK
  <2>2. CASE g # f
    BY <1>2, <2>2 DEF IInv, ClaimedFileExists, OnDisk, TypeOK
  <2> QED
    BY <2>1, <2>2
<1> QED
  BY <1>5, <1>6, <1>8, <1>9 DEF Books

(* A copy is made; the archive keeps it, or has discarded it at once.      *)
LEMMA NewFileBooks ==
  ASSUME IInv, UNCHANGED <<orphans, streams, reaped>>,
         NEW f \in Files, disk[f] = "unused",
         tempfile' \in {f, NoFile},
         NEW n \in Int, holders' = [holders EXCEPT ![f] = n],
         n >= IF tempfile' = f THEN 1 ELSE 0,
         NEW k, disk' = [disk EXCEPT ![f] = k], k # "unused",
         tempfile' = f => k \in {"whole", "damaged"}
  PROVE  Books'
<1> USE FilesAssumption, StreamsAssumption
<1>1. tempfile # f /\ (\A s \in Streams : held[s] # f) /\ f \notin orphans
  BY DEF IInv, Fresh
<1>2. Claims(f)' = IF tempfile' = f THEN {Owner} ELSE {}
  BY <1>1 DEF Claims, streams
<1>3. \A g \in Files : g # f => Claims(g)' \in SUBSET Claims(g)
  BY DEF Claims, streams
<1>4. Counted'
  <2> SUFFICES ASSUME NEW g \in Files PROVE (holders[g] >= Cardinality(Claims(g)))'
    BY DEF Counted
  <2>1. CASE g = f
    <3>1. Cardinality({Owner}) = 1 /\ Cardinality({}) = 0
      BY FS_Singleton, FS_EmptySet
    <3> QED
      BY <1>2, <2>1, <3>1 DEF IInv, TypeOK
  <2>2. CASE g # f
    <3>1. holders'[g] = holders[g] /\ holders[g] \in Int
      BY <2>2 DEF IInv, TypeOK
    <3>2. holders[g] >= Cardinality(Claims(g))
      BY DEF IInv, Counted
    <3> QED
      BY <1>3, <2>2, <3>1, <3>2, CountSubset, ClaimsFinite
  <2> QED
    BY <2>1, <2>2
<1>5. Deleting'
  BY <1>1 DEF IInv, Deleting, TypeOK, streams
<1>6. Fresh'
  BY <1>1 DEF IInv, Fresh, TypeOK, streams
<1>7. ClaimedFileExists'
  BY <1>2, <1>3 DEF IInv, ClaimedFileExists, OnDisk, TypeOK
<1> QED
  BY <1>4, <1>5, <1>6, <1>7 DEF Books

(* Opening the archive keeps the books, in each of its ways.               *)
LEMMA OpeningBooks ==
  ASSUME IInv, NEW r, Opening(r), UNCHANGED <<streams, reaped>>
  PROVE  Books'
<1>1. CASE OpenShut(r) \/ OpenWarm(r) \/ OpenOwnPath(r)
  BY <1>1, SameBooks DEF OpenShut, OpenWarm, OpenOwnPath, spill
<1>2. CASE OpenReuse(r)
  <2>1. tempfile \in Files
    BY <1>2 DEF OpenReuse, Reusable, IInv, TypeOK
  <2>2. EngineOpens(tempfile, disk[tempfile], holders[tempfile], r)
    BY <1>2 DEF OpenReuse
  <2>3. CASE KeepsCopy(r)
    <3>1. tempfile' = tempfile
      BY <2>2, <2>3 DEF EngineOpens
    <3>2. holders' = holders
      BY <2>1, <2>2, <2>3 DEF EngineOpens, IInv, TypeOK
    <3>3. disk' = disk
      BY <2>1, <2>2, <2>3 DEF EngineOpens, IInv, TypeOK
    <3> QED
      BY <1>2, <3>1, <3>2, <3>3, SameBooks DEF OpenReuse
  <2>4. CASE ~KeepsCopy(r)
    <3>1. /\ tempfile' = NoFile
          /\ holders' = [holders EXCEPT ![tempfile] = @ - 1]
          /\ disk' = [disk EXCEPT ![tempfile] = AfterRelease(holders[tempfile], @)]
      BY <2>2, <2>4 DEF EngineOpens
    <3> QED
      BY <1>2, <2>1, <3>1, GiveUpBooks DEF OpenReuse
  <2> QED
    BY <2>3, <2>4
<1>3. ASSUME NEW f \in Files, OpenFresh(f, r)
      PROVE  Books'
  <2>1. disk[f] = "unused" /\ orphans' = orphans
    BY <1>3 DEF OpenFresh, Spilling
  <2>2. /\ tempfile' = IF KeepsCopy(r) THEN f ELSE NoFile
        /\ holders' = [holders EXCEPT ![f] = IF KeepsCopy(r) THEN 1 ELSE 0]
        /\ disk' = [disk EXCEPT ![f] =
                      IF KeepsCopy(r) THEN Copied ELSE AfterRelease(1, Copied)]
    BY <1>3 DEF OpenFresh, EngineOpens
  <2>3. Copied \in {"whole", "damaged"} /\ AfterRelease(1, Copied) = "gone"
    BY DEF Copied, AfterRelease
  <2> DEFINE n == IF KeepsCopy(r) THEN 1 ELSE 0
             k == IF KeepsCopy(r) THEN Copied ELSE AfterRelease(1, Copied)
  <2>4. n \in Int /\ n >= IF tempfile' = f THEN 1 ELSE 0
    BY <2>2, FilesAssumption
  <2>5. k # "unused" /\ (tempfile' = f => k \in {"whole", "damaged"})
    BY <2>2, <2>3, FilesAssumption
  <2>6. tempfile' \in {f, NoFile}
    BY <2>2
  <2> HIDE DEF n, k
  <2> QED
    BY <2>1, <2>2, <2>4, <2>5, <2>6, NewFileBooks DEF n, k
<1>4. ASSUME NEW f \in Files, SpillFails(f, r)
      PROVE  Books'
  <2>1. disk[f] = "unused" /\ disk' = [disk EXCEPT ![f] = "damaged"]
    BY <1>4 DEF SpillFails, Spilling
  <2>2. CASE /\ tempfile' = f
             /\ holders' = [holders EXCEPT ![f] = 1]
             /\ UNCHANGED orphans
    <3> DEFINE n == 1
               k == "damaged"
    <3>1. n \in Int /\ n >= IF tempfile' = f THEN 1 ELSE 0
      OBVIOUS
    <3>2. k # "unused" /\ k \in {"whole", "damaged"}
      OBVIOUS
    <3>3. holders' = [holders EXCEPT ![f] = n] /\ disk' = [disk EXCEPT ![f] = k]
      BY <2>1, <2>2
    <3>4. tempfile' \in {f, NoFile} /\ UNCHANGED <<orphans, streams, reaped>>
      BY <2>2
    <3> HIDE DEF n, k
    <3> QED
      BY <2>1, <3>1, <3>2, <3>3, <3>4, NewFileBooks
  <2>3. CASE orphans' = orphans \cup {f} /\ UNCHANGED <<tempfile, holders>>
    <3>1. \A g : Claims(g)' = Claims(g)
      BY <2>3 DEF Claims, streams
    <3>2. tempfile # f /\ (\A s \in Streams : held[s] # f)
      BY <2>1 DEF IInv, Fresh
    <3>3. Counted' /\ Deleting'
      BY <2>3, <3>1 DEF IInv, Counted, Deleting, streams
    <3>4. Fresh'
      BY <2>1, <2>3, <3>2 DEF IInv, Fresh, TypeOK, streams
    <3>5. ClaimedFileExists'
      BY <2>1, <3>1 DEF IInv, ClaimedFileExists, OnDisk, TypeOK
    <3> QED
      BY <3>3, <3>4, <3>5 DEF Books
  <2> QED
    BY <1>4, <2>2, <2>3 DEF SpillFails
<1> QED
  BY <1>1, <1>2, <1>3, <1>4 DEF Opening


-----------------------------------------------------------------------------
LEMMA InitBooks == Init => Books
<1> SUFFICES ASSUME Init PROVE Books
  OBVIOUS
<1>1. \A f \in Files : Claims(f) = {}
  BY FilesAssumption DEF Init, Claims
<1>2. Cardinality({}) = 0
  BY FS_EmptySet
<1> QED
  BY <1>1, <1>2, FilesAssumption
  DEF Init, Books, Counted, Deleting, Fresh, ClaimedFileExists

(* Each step of a stream keeps the books.                                  *)
LEMMA StreamBooks ==
  ASSUME IInv, NEW s \in Streams, StreamStep(s)
  PROVE  Books'
<1> USE FilesAssumption, StreamsAssumption
<1> USE DEF Silent, still
<1>1. CASE OpenStream(s)
  <2>1. stream[s] = "unused" /\ held[s] = NoFile
    BY <1>1 DEF OpenStream, IInv, Deleting
  <2>2. CASE tempfile = NoFile
    <3>1. \A g \in Files : Claims(g)' = Claims(g)
      BY <1>1, <2>1, <2>2 DEF OpenStream, Claims, IInv, TypeOK
    <3>2. Counted' /\ ClaimedFileExists'
      BY <1>1, <2>2, <3>1 DEF OpenStream, IInv, Counted, ClaimedFileExists, OnDisk
    <3>3. Deleting' /\ Fresh'
      BY <1>1, <2>1, <2>2 DEF OpenStream, IInv, Deleting, Fresh, TypeOK
    <3> QED
      BY <3>2, <3>3 DEF Books
  <2>3. ASSUME NEW f \in Files, tempfile = f
        PROVE  Books'
    <3>1. Claims(f)' = Claims(f) \cup {s} /\ Claims(f) # {}
      BY <1>1, <2>3 DEF OpenStream, Claims, IInv, TypeOK
    <3>2. \A g \in Files : g # f => Claims(g)' = Claims(g)
      BY <1>1, <2>1, <2>3 DEF OpenStream, Claims, IInv, TypeOK
    <3>3. holders[f] \in Int /\ holders[f] >= Cardinality(Claims(f))
      BY DEF IInv, TypeOK, Counted
    <3>4. holders' = [holders EXCEPT ![f] = @ + 1]
      BY <1>1, <2>3 DEF OpenStream
    <3>5. holders[f] + 1 >= Cardinality(Claims(f)')
      BY <3>1, <3>3, CountAdd, ClaimsFinite
    <3>6. Counted'
      BY <3>2, <3>4, <3>5 DEF IInv, Counted, TypeOK
    <3>7. ClaimedFileExists'
      BY <1>1, <3>1, <3>2 DEF OpenStream, IInv, ClaimedFileExists, OnDisk
    <3>8. holders[f] >= 1
      BY <3>1, ClaimedIsHeld DEF IInv
    <3>9. Deleting'
      <4> SUFFICES ASSUME NEW t \in Streams
                   PROVE  (/\ stream[t] = "releasing" =>
                                held[t] \in Files /\ holders[held[t]] =< 0
                           /\ stream[t] = "ended" => held[t] \in Files
                           /\ stream[t] \in {"unused", "gone"} => held[t] = NoFile)'
        BY DEF Deleting
      <4>1. CASE t = s
        BY <1>1, <4>1 DEF OpenStream, IInv, TypeOK
      <4>2. CASE t # s
        <5>1. stream'[t] = stream[t] /\ held'[t] = held[t]
          BY <1>1, <4>2 DEF OpenStream, IInv, TypeOK
        <5>2. stream[t] = "releasing" => held[t] # f
          BY <3>3, <3>8 DEF IInv, Deleting
        <5> QED
          BY <3>4, <5>1, <5>2 DEF IInv, Deleting, TypeOK
      <4> QED
        BY <4>1, <4>2
    <3>10. Fresh'
      BY <1>1, <2>3 DEF OpenStream, IInv, Fresh, TypeOK
    <3> QED
      BY <3>6, <3>7, <3>9, <3>10 DEF Books
  <2> QED
    BY <2>2, <2>3 DEF IInv, TypeOK
<1>2. CASE StreamReady(s) \/ WorkerRead(s)
  <2>1. \A g \in Files : Claims(g)' = Claims(g)
    BY <1>2 DEF StreamReady, WorkerRead, Claims, IInv, TypeOK
  <2>2. Counted' /\ ClaimedFileExists'
    BY <1>2, <2>1
    DEF StreamReady, WorkerRead, IInv, Counted, ClaimedFileExists, OnDisk
  <2>3. Deleting' /\ Fresh'
    BY <1>2 DEF StreamReady, WorkerRead, IInv, Deleting, Fresh, TypeOK
  <2> QED
    BY <2>2, <2>3 DEF Books
<1>3. CASE StreamEnds(s)
  <2>1. \A g \in Files : Claims(g)' = Claims(g)
    BY <1>3 DEF StreamEnds, Claims, IInv, TypeOK
  <2>2. Counted' /\ ClaimedFileExists'
    BY <1>3, <2>1 DEF StreamEnds, IInv, Counted, ClaimedFileExists, OnDisk
  <2>3. Deleting' /\ Fresh'
    BY <1>3 DEF StreamEnds, IInv, Deleting, Fresh, TypeOK
  <2> QED
    BY <2>2, <2>3 DEF Books
<1>4. CASE StreamRelease(s)
  <2>1. PICK f \in Files : held[s] = f
    BY <1>4 DEF StreamRelease, IInv, Deleting
  <2>2. Claims(f)' = Claims(f) \ {s} /\ s \in Claims(f)
    BY <1>4, <2>1 DEF StreamRelease, Claims, IInv, TypeOK
  <2>3. \A g \in Files : g # f => Claims(g)' = Claims(g)
    BY <1>4, <2>1 DEF StreamRelease, Claims, IInv, TypeOK
  <2>4. holders[f] \in Int /\ holders[f] >= Cardinality(Claims(f))
    BY DEF IInv, TypeOK, Counted
  <2>5. holders' = [holders EXCEPT ![f] = @ - 1]
    BY <1>4, <2>1 DEF StreamRelease
  <2>6. holders[f] - 1 >= Cardinality(Claims(f)')
    BY <2>2, <2>4, CountRemove, ClaimsFinite
  <2>7. Counted'
    BY <2>3, <2>5, <2>6 DEF IInv, Counted, TypeOK
  <2>8. ClaimedFileExists'
    BY <1>4, <2>2, <2>3 DEF StreamRelease, IInv, ClaimedFileExists, OnDisk
  <2>9. Deleting'
    BY <1>4, <2>1, <2>4, <2>5 DEF StreamRelease, IInv, Deleting, TypeOK
  <2>10. Fresh'
    BY <1>4 DEF StreamRelease, IInv, Fresh, TypeOK
  <2> QED
    BY <2>7, <2>8, <2>9, <2>10 DEF Books
<1>5. CASE StreamDelete(s)
  <2>1. PICK f \in Files : held[s] = f /\ holders[f] =< 0
    BY <1>5 DEF StreamDelete, IInv, Deleting
  <2>2. Claims(f) = {}
    BY <2>1, ClaimedIsHeld DEF IInv, TypeOK
  <2>3. \A g \in Files : Claims(g)' = Claims(g)
    BY <1>5 DEF StreamDelete, Claims, IInv, TypeOK
  <2>4. Counted'
    BY <1>5, <2>3 DEF StreamDelete, IInv, Counted
  <2>5. ClaimedFileExists'
    BY <1>5, <2>1, <2>2, <2>3
    DEF StreamDelete, IInv, ClaimedFileExists, OnDisk, TypeOK
  <2>6. Deleting' /\ Fresh'
    BY <1>5, <2>1 DEF StreamDelete, IInv, Deleting, Fresh, TypeOK
  <2> QED
    BY <2>4, <2>5, <2>6 DEF Books
<1>6. CASE StreamCollect(s)
  <2>1. \A g \in Files : Claims(g)' = Claims(g)
    BY <1>6 DEF StreamCollect, Claims, IInv, TypeOK
  <2>2. Counted' /\ ClaimedFileExists'
    BY <1>6, <2>1 DEF StreamCollect, IInv, Counted, ClaimedFileExists, OnDisk
  <2>3. Deleting' /\ Fresh'
    BY <1>6 DEF StreamCollect, IInv, Deleting, Fresh, TypeOK
  <2> QED
    BY <2>2, <2>3 DEF Books
<1> QED
  BY <1>1, <1>2, <1>3, <1>4, <1>5, <1>6 DEF StreamStep

(* Every step of the archive keeps the books.                              *)
LEMMA StepBooks == IInv /\ [Next]_vars => Books'
<1> SUFFICES ASSUME IInv, [Next]_vars PROVE Books'
  OBVIOUS
<1> USE FilesAssumption, StreamsAssumption
<1>1. CASE Peek
  BY <1>1, OpeningBooks DEF Peek, idle
<1>2. CASE List
  BY <1>2, OpeningBooks, SameBooks DEF List, idle, spill
<1>3. CASE Use
  BY <1>3, OpeningBooks DEF Use, idle
<1>4. CASE Close
  <2>1. UNCHANGED <<orphans, streams, reaped>> /\ tempfile' = NoFile
    BY <1>4 DEF Close
  <2>2. CASE tempfile = NoFile
    <3>1. holders' = holders
      BY <1>4, <2>2 DEF Close, IInv, TypeOK
    <3>2. disk' = disk
      BY <1>4, <2>2 DEF Close, IInv, TypeOK
    <3> QED
      BY <2>1, <2>2, <3>1, <3>2, SameBooks
  <2>3. ASSUME NEW f \in Files, tempfile = f
        PROVE  Books'
    <3>1. holders' = [holders EXCEPT ![f] = @ - 1]
      BY <1>4, <2>3 DEF Close, IInv, TypeOK
    <3>2. disk' = [disk EXCEPT ![f] = AfterRelease(holders[f], @)]
      BY <1>4, <2>3 DEF Close, IInv, TypeOK
    <3> QED
      BY <2>1, <2>3, <3>1, <3>2, GiveUpBooks
  <2> QED
    BY <2>2, <2>3 DEF IInv, TypeOK
<1>5. CASE Drop
  <2>1. \A g \in Files : Claims(g)' \in SUBSET Claims(g)
    BY <1>5 DEF Drop, Claims, streams
  <2>2. Counted'
    <3> SUFFICES ASSUME NEW g \in Files PROVE (holders[g] >= Cardinality(Claims(g)))'
      BY DEF Counted
    <3>1. holders'[g] = holders[g] /\ holders[g] \in Int
          /\ holders[g] >= Cardinality(Claims(g))
      BY <1>5 DEF Drop, IInv, TypeOK, Counted
    <3> QED
      BY <2>1, <3>1, CountSubset, ClaimsFinite
  <2>3. ClaimedFileExists'
    BY <1>5, <2>1 DEF Drop, IInv, ClaimedFileExists, OnDisk
  <2>4. Deleting' /\ Fresh'
    BY <1>5 DEF Drop, IInv, Deleting, Fresh, streams
  <2> QED
    BY <2>2, <2>3, <2>4 DEF Books
<1>6. ASSUME NEW p \in Passwords, SetPassword(p)
      PROVE  Books'
  BY <1>6, SameBooks DEF SetPassword, spill
<1>7. ASSUME NEW s \in Streams, StreamStep(s)
      PROVE  Books'
  BY <1>7, StreamBooks
<1>8. ASSUME NEW f \in Files, Finalize(f) \/ Reap(f)
      PROVE  Books'
  <2>1. \A g : Claims(g)' = Claims(g)
    BY <1>8 DEF Finalize, Reap, Claims, streams
  <2>2. Counted'
    BY <1>8, <2>1 DEF Finalize, Reap, IInv, Counted
  <2>3. Finalize(f) => Claims(f) = {}
    BY DEF Finalize, Claims
  <2>4. ClaimedFileExists'
    BY <1>8, <2>1, <2>3
    DEF Finalize, Reap, Silent, still, IInv, ClaimedFileExists, OnDisk, TypeOK
  <2>5. Deleting' /\ Fresh'
    BY <1>8 DEF Finalize, Reap, Silent, still, IInv, Deleting, Fresh, OnDisk,
                TypeOK, streams
  <2> QED
    BY <2>2, <2>4, <2>5 DEF Books
<1>9. CASE UNCHANGED vars
  BY <1>9, SameBooks DEF vars, spill
<1> QED
  BY <1>1, <1>2, <1>3, <1>4, <1>5, <1>6, <1>7, <1>8, <1>9 DEF Next

(* The inductive invariant, and with it: while the archive or a live       *)
(* stream needs a spilled file, the file is on disk, unless another        *)
(* program removed it (`_TempFile`, _archive.py:45-81).                    *)
LEMMA Inductive == Safety => []IInv
<1>1. Init => IInv
  BY InitType, InitBooks DEF IInv, Books
<1>2. IInv /\ [Next]_vars => IInv'
  BY StepType, StepBooks DEF IInv, Books
<1> QED
  BY <1>1, <1>2, PTL DEF Safety

THEOREM ClaimedFileStays == Safety => []ClaimedFileExists
<1>1. IInv => ClaimedFileExists
  BY DEF IInv
<1> QED
  BY <1>1, Inductive, PTL


-----------------------------------------------------------------------------
(* File f, and no other, moves to state st and claims cl.                  *)
MovesTo(f, st, cl) ==
  /\ FileState(f)' = st /\ LiveClaims(f)' = cl
  /\ \A g \in Files : g # f =>
       FileState(g)' = FileState(g) /\ LiveClaims(g)' = LiveClaims(g)

LEMMA Moved ==
  ASSUME NEW f \in Files, NEW st, NEW cl, MovesTo(f, st, cl)
  PROVE  /\ fileState'  = [fileState  EXCEPT ![f] = st]
         /\ fileClaims' = [fileClaims EXCEPT ![f] = cl]
         /\ fileState[f] = FileState(f) /\ fileClaims[f] = LiveClaims(f)
BY DEF MovesTo, fileState, fileClaims

(* The abstract step is one of TempFileClaims, or none.                    *)
Maps == ClaimsOf!Next \/ UNCHANGED ClaimsOf!vars

LEMMA Stutters ==
  ASSUME \A g \in Files :
           FileState(g)' = FileState(g) /\ LiveClaims(g)' = LiveClaims(g)
  PROVE  Maps
BY DEF Maps, ClaimsOf!vars, fileState, fileClaims

LEMMA MapsToMake ==
  ASSUME NEW f \in Files, FileState(f) = "unused", MovesTo(f, "present", {Owner})
  PROVE  Maps
BY Moved DEF Maps, ClaimsOf!Next, ClaimsOf!Make

LEMMA MapsToDiscard ==
  ASSUME NEW f \in Files, FileState(f) = "unused", LiveClaims(f) = {},
         MovesTo(f, "removed", {})
  PROVE  Maps
<1>1. fileClaims' = fileClaims
  BY Moved DEF fileClaims
<1> QED
  BY <1>1, Moved DEF Maps, ClaimsOf!Next, ClaimsOf!MakeAndDiscard

LEMMA MapsToLose ==
  ASSUME NEW f \in Files, FileState(f) \in {"unused", "present"},
         MovesTo(f, "lost", {})
  PROVE  Maps
BY Moved DEF Maps, ClaimsOf!Next, ClaimsOf!Lose

LEMMA MapsToClaim ==
  ASSUME NEW f \in Files, NEW c \in Streams \cup {Owner},
         FileState(f) = "present", LiveClaims(f) # {}, c \notin LiveClaims(f),
         MovesTo(f, "present", LiveClaims(f) \cup {c})
  PROVE  Maps
<1>1. fileState' = fileState
  BY Moved DEF fileState
<1> QED
  BY <1>1, Moved DEF Maps, ClaimsOf!Next, ClaimsOf!Claim

LEMMA MapsToUnclaim ==
  ASSUME NEW f \in Files, NEW c \in Streams \cup {Owner},
         FileState(f) = "present", c \in LiveClaims(f),
         NEW st \in {"present", "removed"},
         st = "removed" => LiveClaims(f) = {c},
         MovesTo(f, st, LiveClaims(f) \ {c})
  PROVE  Maps
<1>1. /\ fileState[f] = FileState(f) /\ fileClaims[f] = LiveClaims(f)
      /\ fileState' = [fileState EXCEPT ![f] = st]
      /\ fileClaims' = [fileClaims EXCEPT ![f] = LiveClaims(f) \ {c}]
  BY Moved
<1>2. st = "present" => fileState' = fileState
  BY <1>1 DEF fileState
<1>3. ClaimsOf!Unclaim(f, c)
  BY <1>1, <1>2 DEF ClaimsOf!Unclaim
<1> QED
  BY <1>3 DEF Maps, ClaimsOf!Next

LEMMA MapsToRemove ==
  ASSUME NEW f \in Files, FileState(f) = "present", LiveClaims(f) = {},
         MovesTo(f, "removed", {})
  PROVE  Maps
<1>1. fileClaims' = fileClaims
  BY Moved DEF fileClaims
<1> QED
  BY <1>1, Moved DEF Maps, ClaimsOf!Next, ClaimsOf!Remove


-----------------------------------------------------------------------------
(* Steps that leave files, claims and losses alone are stutters.           *)
LEMMA SameFiles ==
  ASSUME UNCHANGED <<tempfile, disk, orphans, streams, reaped>>
  PROVE  Maps
<1>1. \A g : FileState(g)' = FileState(g) /\ LiveClaims(g)' = LiveClaims(g)
  BY DEF FileState, LiveClaims, Claims, streams
<1> QED
  BY <1>1, Stutters

(* A claimed file that is not lost is present.                             *)
LEMMA ClaimedIsPresent ==
  ASSUME IInv, NEW f \in Files, Claims(f) # {}, f \notin reaped \cup orphans
  PROVE  FileState(f) = "present" /\ LiveClaims(f) = Claims(f)
BY DEF IInv, ClaimedFileExists, OnDisk, FileState, LiveClaims

(* Giving the archive's claim up maps to Unclaim, or to nothing when the   *)
(* file is lost.                                                           *)
LEMMA GiveUpMaps ==
  ASSUME IInv, UNCHANGED <<orphans, streams, reaped>>,
         NEW f \in Files, tempfile = f, tempfile' = NoFile,
         holders' = [holders EXCEPT ![f] = @ - 1],
         disk' = [disk EXCEPT ![f] = AfterRelease(holders[f], @)]
  PROVE  Maps
<1> USE FilesAssumption, StreamsAssumption
<1>1. Claims(f)' = Claims(f) \ {Owner} /\ Owner \in Claims(f)
  BY DEF Claims, streams
<1>2. \A g \in Files : g # f =>
        FileState(g)' = FileState(g) /\ LiveClaims(g)' = LiveClaims(g)
  BY DEF Claims, FileState, LiveClaims, IInv, TypeOK, streams
<1>3. CASE f \in reaped \cup orphans
  BY <1>2, <1>3, Stutters DEF FileState, LiveClaims
<1>4. CASE f \notin reaped \cup orphans
  <2> DEFINE st == FileState(f)'
  <2>1. FileState(f) = "present" /\ LiveClaims(f) = Claims(f)
    BY <1>1, <1>4, ClaimedIsPresent
  <2>2. LiveClaims(f)' = Claims(f) \ {Owner}
    BY <1>1, <1>4 DEF LiveClaims
  <2>3. disk'[f] = AfterRelease(holders[f], disk[f]) /\ OnDisk(f)
    BY <1>1, <1>4 DEF IInv, TypeOK, ClaimedFileExists
  <2>4. st \in {"present", "removed"}
    BY <1>4, <2>3 DEF FileState, AfterRelease, OnDisk
  <2>5. st = "removed" => holders[f] - 1 =< 0
    BY <1>4, <2>3 DEF FileState, AfterRelease, OnDisk, IInv, TypeOK
  <2>6. holders[f] - 1 =< 0 => Claims(f)' = {}
    <3>1. holders[f] \in Int /\ holders[f] >= Cardinality(Claims(f))
      BY DEF IInv, TypeOK, Counted
    <3>2. holders[f] - 1 >= Cardinality(Claims(f) \ {Owner})
      BY <1>1, <3>1, CountRemove, ClaimsFinite
    <3>3. IsFiniteSet(Claims(f) \ {Owner})
      BY ClaimsFinite, FS_RemoveElement
    <3>4. Cardinality(Claims(f) \ {Owner}) \in Nat
      BY <3>3, FS_CardinalityType
    <3>5. holders[f] - 1 =< 0 => Cardinality(Claims(f) \ {Owner}) = 0
      BY <3>1, <3>2, <3>4
    <3> QED
      BY <1>1, <3>3, <3>5, FS_EmptySet
  <2>7. st = "removed" => LiveClaims(f) = {Owner}
    BY <1>1, <2>1, <2>5, <2>6
  <2>8. MovesTo(f, st, LiveClaims(f) \ {Owner})
    BY <1>2, <2>1, <2>2 DEF MovesTo
  <2>9. Owner \in LiveClaims(f)
    BY <1>1, <2>1
  <2> HIDE DEF st
  <2> QED
    BY <2>1, <2>4, <2>7, <2>8, <2>9, MapsToUnclaim
<1> QED
  BY <1>3, <1>4

(* A fresh copy, recorded or discarded at once.                            *)
LEMMA NewFileMaps ==
  ASSUME IInv, UNCHANGED <<orphans, streams, reaped>>, ~Reusable,
         NEW f \in Files, disk[f] = "unused",
         NEW k, disk' = [disk EXCEPT ![f] = k],
         \/ tempfile' = f /\ k \in {"whole", "damaged"}
         \/ tempfile' = NoFile /\ k = "gone"
  PROVE  Maps
<1> USE FilesAssumption, StreamsAssumption
<1>1. /\ tempfile # f /\ \A s \in Streams : held[s] # f
      /\ f \notin orphans /\ f \notin reaped
  BY DEF IInv, Fresh
<1>2. FileState(f) = "unused" /\ LiveClaims(f) = {}
  BY <1>1 DEF FileState, LiveClaims, Claims
<1>3. ASSUME NEW g \in Files, g # f
      PROVE  FileState(g)' = FileState(g) /\ LiveClaims(g)' = LiveClaims(g)
  <2>1. FileState(g)' = FileState(g)
    BY <1>3 DEF FileState, IInv, TypeOK
  <2>2. CASE tempfile = g
    <3>1. Owner \in Claims(g) /\ ~OnDisk(g)
      BY <2>2 DEF Claims, Reusable
    <3>2. g \in reaped
      BY <3>1 DEF IInv, ClaimedFileExists
    <3> QED
      BY <2>1, <3>2 DEF LiveClaims
  <2>3. CASE tempfile # g
    BY <1>3, <2>1, <2>3 DEF LiveClaims, Claims, streams
  <2> QED
    BY <2>2, <2>3
<1>4. disk'[f] = k
  BY DEF IInv, TypeOK
<1>5. CASE tempfile' = f /\ k \in {"whole", "damaged"}
  <2>1. FileState(f)' = "present" /\ LiveClaims(f)' = {Owner}
    BY <1>1, <1>4, <1>5 DEF FileState, LiveClaims, Claims, streams
  <2> QED
    BY <1>2, <1>3, <2>1, MapsToMake DEF MovesTo
<1>6. CASE tempfile' = NoFile /\ k = "gone"
  <2>1. FileState(f)' = "removed" /\ LiveClaims(f)' = {}
    BY <1>1, <1>4, <1>6 DEF FileState, LiveClaims, Claims, streams
  <2> QED
    BY <1>2, <1>3, <2>1, MapsToDiscard DEF MovesTo
<1> QED
  BY <1>5, <1>6

(* A file is lost: its copy failed half-way, or it was taken away.         *)
LEMMA LossMaps ==
  ASSUME IInv, UNCHANGED <<tempfile, streams>>, NEW f \in Files,
         reaped' \cup orphans' = reaped \cup orphans \cup {f},
         NEW k, disk' = [disk EXCEPT ![f] = k],
         disk[f] = "unused" \/ OnDisk(f)
  PROVE  Maps
<1>1. FileState(f)' = "lost" /\ LiveClaims(f)' = {}
  BY DEF FileState, LiveClaims
<1>2. \A g \in Files : g # f =>
        FileState(g)' = FileState(g) /\ LiveClaims(g)' = LiveClaims(g)
  BY DEF Claims, FileState, LiveClaims, IInv, TypeOK, streams
<1>3. CASE f \in reaped \cup orphans
  BY <1>1, <1>2, <1>3, Stutters DEF FileState, LiveClaims
<1>4. CASE f \notin reaped \cup orphans
  <2>1. FileState(f) \in {"unused", "present"}
    BY <1>4 DEF FileState, OnDisk
  <2> QED
    BY <1>1, <1>2, <2>1, MapsToLose DEF MovesTo
<1> QED
  BY <1>3, <1>4

(* A file nobody claims is deleted.                                        *)
LEMMA DeletionMaps ==
  ASSUME IInv, UNCHANGED <<tempfile, orphans, reaped>>, NEW f \in Files,
         Claims(f) = {}, disk[f] # "unused",
         \A g \in Files : Claims(g)' = Claims(g),
         disk' = [disk EXCEPT ![f] = "gone"]
  PROVE  Maps
<1>1. \A g \in Files : g # f =>
        FileState(g)' = FileState(g) /\ LiveClaims(g)' = LiveClaims(g)
  BY DEF FileState, LiveClaims, IInv, TypeOK
<1>2. CASE f \in reaped \cup orphans \/ disk[f] = "gone"
  BY <1>1, <1>2, Stutters DEF FileState, LiveClaims, IInv, TypeOK
<1>3. CASE f \notin reaped \cup orphans /\ disk[f] # "gone"
  <2>1. FileState(f) = "present" /\ LiveClaims(f) = {}
    BY <1>3 DEF FileState, LiveClaims
  <2>2. FileState(f)' = "removed" /\ LiveClaims(f)' = {}
    BY <1>3 DEF FileState, LiveClaims, IInv, TypeOK
  <2> QED
    BY <1>1, <2>1, <2>2, MapsToRemove DEF MovesTo
<1> QED
  BY <1>2, <1>3


LEMMA OpeningMaps ==
  ASSUME IInv, NEW r, Opening(r), UNCHANGED <<streams, reaped>>
  PROVE  Maps
<1> USE FilesAssumption
<1>1. CASE OpenShut(r) \/ OpenWarm(r) \/ OpenOwnPath(r)
  BY <1>1, SameFiles DEF OpenShut, OpenWarm, OpenOwnPath, spill
<1>2. CASE OpenReuse(r)
  <2>1. PICK f \in Files : tempfile = f
    BY <1>2 DEF OpenReuse, Reusable, IInv, TypeOK
  <2>2. EngineOpens(f, disk[f], holders[f], r) /\ orphans' = orphans
    BY <1>2, <2>1 DEF OpenReuse
  <2>3. CASE KeepsCopy(r)
    <3>1. tempfile' = tempfile /\ disk' = disk
      BY <2>1, <2>2, <2>3 DEF EngineOpens, IInv, TypeOK
    <3> QED
      BY <2>2, <3>1, SameFiles
  <2>4. CASE ~KeepsCopy(r)
    <3>1. /\ tempfile' = NoFile
          /\ holders' = [holders EXCEPT ![f] = @ - 1]
          /\ disk' = [disk EXCEPT ![f] = AfterRelease(holders[f], @)]
      BY <2>2, <2>4 DEF EngineOpens
    <3> QED
      BY <2>1, <2>2, <3>1, GiveUpMaps
  <2> QED
    BY <2>3, <2>4
<1>3. ASSUME NEW f \in Files, OpenFresh(f, r)
      PROVE  Maps
  <2> DEFINE k == IF KeepsCopy(r) THEN Copied ELSE AfterRelease(1, Copied)
  <2>1. disk[f] = "unused" /\ ~Reusable /\ orphans' = orphans
    BY <1>3 DEF OpenFresh, Spilling
  <2>2. tempfile' = IF KeepsCopy(r) THEN f ELSE NoFile
    BY <1>3 DEF OpenFresh, EngineOpens
  <2>3. disk' = [disk EXCEPT ![f] = k]
    BY <1>3 DEF OpenFresh, EngineOpens
  <2>4. \/ tempfile' = f /\ k \in {"whole", "damaged"}
        \/ tempfile' = NoFile /\ k = "gone"
    BY <2>2 DEF Copied, AfterRelease
  <2> HIDE DEF k
  <2> QED
    BY <2>1, <2>3, <2>4, NewFileMaps
<1>4. ASSUME NEW f \in Files, SpillFails(f, r)
      PROVE  Maps
  <2>1. disk[f] = "unused" /\ ~Reusable /\ disk' = [disk EXCEPT ![f] = "damaged"]
    BY <1>4 DEF SpillFails, Spilling
  <2>2. CASE tempfile' = f /\ UNCHANGED orphans
    <3> DEFINE k == "damaged"
    <3>1. disk' = [disk EXCEPT ![f] = k] /\ tempfile' = f /\ k \in {"whole", "damaged"}
      BY <2>1, <2>2
    <3>2. UNCHANGED <<orphans, streams, reaped>>
      BY <2>2
    <3> HIDE DEF k
    <3> QED
      BY <2>1, <3>1, <3>2, NewFileMaps
  <2>3. CASE orphans' = orphans \cup {f} /\ UNCHANGED tempfile
    <3>1. reaped' \cup orphans' = reaped \cup orphans \cup {f}
      BY <2>3
    <3> QED
      BY <2>1, <2>3, <3>1, LossMaps
  <2> QED
    BY <1>4, <2>2, <2>3 DEF SpillFails
<1> QED
  BY <1>1, <1>2, <1>3, <1>4 DEF Opening

LEMMA StreamMaps ==
  ASSUME IInv, NEW s \in Streams, StreamStep(s)
  PROVE  Maps
<1> USE FilesAssumption, StreamsAssumption
<1> USE DEF Silent, still
<1>1. CASE OpenStream(s)
  <2>1. stream[s] = "unused" /\ held[s] = NoFile
    BY <1>1 DEF OpenStream, IInv, Deleting
  <2>2. \A g \in Files : FileState(g)' = FileState(g)
    BY <1>1 DEF OpenStream, FileState
  <2>3. \A g \in Files : g # tempfile => LiveClaims(g)' = LiveClaims(g)
    BY <1>1, <2>1 DEF OpenStream, LiveClaims, Claims, IInv, TypeOK
  <2>4. CASE tempfile = NoFile
    BY <2>2, <2>3, <2>4, Stutters
  <2>5. ASSUME NEW f \in Files, tempfile = f
        PROVE  Maps
    <3>1. CASE f \in reaped \cup orphans
      <4>1. LiveClaims(f)' = LiveClaims(f)
        BY <1>1, <3>1 DEF OpenStream, LiveClaims
      <4> QED
        BY <2>2, <2>3, <2>5, <4>1, Stutters
    <3>2. CASE f \notin reaped \cup orphans
      <4>1. Owner \in Claims(f) /\ s \notin Claims(f)
        BY <2>1, <2>5 DEF Claims
      <4>2. FileState(f) = "present" /\ LiveClaims(f) = Claims(f)
        BY <3>2, <4>1, ClaimedIsPresent
      <4>3. Claims(f)' = Claims(f) \cup {s}
        BY <1>1, <2>5 DEF OpenStream, Claims, IInv, TypeOK
      <4>4. LiveClaims(f)' = LiveClaims(f) \cup {s}
        BY <1>1, <3>2, <4>2, <4>3 DEF OpenStream, LiveClaims
      <4>5. MovesTo(f, "present", LiveClaims(f) \cup {s})
        BY <2>2, <2>3, <2>5, <4>2, <4>4 DEF MovesTo
      <4> QED
        BY <4>1, <4>2, <4>5, MapsToClaim
    <3> QED
      BY <3>1, <3>2
  <2> QED
    BY <2>4, <2>5 DEF IInv, TypeOK
<1>2. CASE StreamReady(s) \/ WorkerRead(s) \/ StreamEnds(s) \/ StreamCollect(s)
  <2>1. \A g \in Files : Claims(g)' = Claims(g)
    BY <1>2 DEF StreamReady, WorkerRead, StreamEnds, StreamCollect, Claims, IInv, TypeOK
  <2>2. UNCHANGED <<disk, orphans, reaped>>
    BY <1>2 DEF StreamReady, WorkerRead, StreamEnds, StreamCollect
  <2> QED
    BY <2>1, <2>2, Stutters DEF FileState, LiveClaims
<1>3. CASE StreamRelease(s)
  <2>1. PICK f \in Files : held[s] = f
    BY <1>3 DEF StreamRelease, IInv, Deleting
  <2>2. Claims(f)' = Claims(f) \ {s} /\ s \in Claims(f)
    BY <1>3, <2>1 DEF StreamRelease, Claims, IInv, TypeOK
  <2>3. \A g \in Files : g # f => LiveClaims(g)' = LiveClaims(g)
    BY <1>3, <2>1 DEF StreamRelease, LiveClaims, Claims, IInv, TypeOK
  <2>4. \A g \in Files : FileState(g)' = FileState(g)
    BY <1>3 DEF StreamRelease, FileState
  <2>5. CASE f \in reaped \cup orphans
    <3>1. LiveClaims(f)' = LiveClaims(f)
      BY <1>3, <2>5 DEF StreamRelease, LiveClaims
    <3> QED
      BY <2>3, <2>4, <3>1, Stutters
  <2>6. CASE f \notin reaped \cup orphans
    <3> DEFINE st == "present"
    <3>1. FileState(f) = st /\ LiveClaims(f) = Claims(f)
      BY <2>2, <2>6, ClaimedIsPresent
    <3>2. LiveClaims(f)' = LiveClaims(f) \ {s}
      BY <1>3, <2>2, <2>6, <3>1 DEF StreamRelease, LiveClaims
    <3>3. MovesTo(f, st, LiveClaims(f) \ {s})
      BY <2>3, <2>4, <3>1, <3>2 DEF MovesTo
    <3>4. st \in {"present", "removed"} /\ st # "removed" /\ s \in LiveClaims(f)
      BY <2>2, <3>1
    <3>5. FileState(f) = "present"
      BY <3>1
    <3> HIDE DEF st
    <3> QED
      BY <3>3, <3>4, <3>5, MapsToUnclaim
  <2> QED
    BY <2>5, <2>6
<1>4. CASE StreamDelete(s)
  <2>1. PICK f \in Files : held[s] = f /\ holders[f] =< 0
    BY <1>4 DEF StreamDelete, IInv, Deleting
  <2>2. Claims(f) = {} /\ disk[f] # "unused"
    BY <2>1, ClaimedIsHeld DEF IInv, TypeOK, Fresh
  <2>3. \A g \in Files : Claims(g)' = Claims(g)
    BY <1>4 DEF StreamDelete, Claims, IInv, TypeOK
  <2>4. disk' = [disk EXCEPT ![f] = "gone"] /\ UNCHANGED <<tempfile, orphans, reaped>>
    BY <1>4, <2>1 DEF StreamDelete
  <2> QED
    BY <2>2, <2>3, <2>4, DeletionMaps
<1> QED
  BY <1>1, <1>2, <1>3, <1>4 DEF StreamStep

(* Every step of the archive is a step of TempFileClaims, or none.         *)
LEMMA StepMaps == IInv /\ [Next]_vars => Maps
<1> SUFFICES ASSUME IInv, [Next]_vars PROVE Maps
  OBVIOUS
<1> USE FilesAssumption, StreamsAssumption
<1>1. CASE Peek
  BY <1>1, OpeningMaps DEF Peek, idle
<1>2. CASE List
  BY <1>2, OpeningMaps, SameFiles DEF List, idle, spill
<1>3. CASE Use
  BY <1>3, OpeningMaps DEF Use, idle
<1>4. CASE Close
  <2>1. UNCHANGED <<orphans, streams, reaped>> /\ tempfile' = NoFile
    BY <1>4 DEF Close
  <2>2. CASE tempfile = NoFile
    <3>1. disk' = disk
      BY <1>4, <2>2 DEF Close, IInv, TypeOK
    <3> QED
      BY <2>1, <2>2, <3>1, SameFiles
  <2>3. ASSUME NEW f \in Files, tempfile = f
        PROVE  Maps
    <3>1. holders' = [holders EXCEPT ![f] = @ - 1]
      BY <1>4, <2>3 DEF Close, IInv, TypeOK
    <3>2. disk' = [disk EXCEPT ![f] = AfterRelease(holders[f], @)]
      BY <1>4, <2>3 DEF Close, IInv, TypeOK
    <3> QED
      BY <2>1, <2>3, <3>1, <3>2, GiveUpMaps
  <2> QED
    BY <2>2, <2>3 DEF IInv, TypeOK
<1>5. CASE Drop
  <2>1. UNCHANGED <<disk, orphans, streams, reaped>> /\ tempfile' = NoFile
    BY <1>5 DEF Drop
  <2>2. \A g \in Files : FileState(g)' = FileState(g)
    BY <2>1 DEF FileState
  <2>3. \A g \in Files : g # tempfile => LiveClaims(g)' = LiveClaims(g)
    BY <2>1 DEF LiveClaims, Claims, streams
  <2>4. CASE tempfile = NoFile
    BY <2>2, <2>3, <2>4, Stutters
  <2>5. ASSUME NEW f \in Files, tempfile = f
        PROVE  Maps
    <3>1. Claims(f)' = Claims(f) \ {Owner} /\ Owner \in Claims(f)
      BY <2>1, <2>5 DEF Claims, streams
    <3>2. CASE f \in reaped \cup orphans
      <4>1. LiveClaims(f)' = LiveClaims(f)
        BY <2>1, <3>2 DEF LiveClaims
      <4> QED
        BY <2>2, <2>3, <2>5, <4>1, Stutters
    <3>3. CASE f \notin reaped \cup orphans
      <4> DEFINE st == "present"
      <4>1. FileState(f) = st /\ LiveClaims(f) = Claims(f)
        BY <3>1, <3>3, ClaimedIsPresent
      <4>2. LiveClaims(f)' = LiveClaims(f) \ {Owner}
        BY <2>1, <3>1, <3>3, <4>1 DEF LiveClaims
      <4>3. MovesTo(f, st, LiveClaims(f) \ {Owner})
        BY <2>2, <2>3, <2>5, <4>1, <4>2 DEF MovesTo
      <4>4. st \in {"present", "removed"} /\ st # "removed" /\ Owner \in LiveClaims(f)
        BY <3>1, <4>1
      <4>5. FileState(f) = "present"
        BY <4>1
      <4> HIDE DEF st
      <4> QED
        BY <4>3, <4>4, <4>5, MapsToUnclaim
    <3> QED
      BY <3>2, <3>3
  <2> QED
    BY <2>4, <2>5 DEF IInv, TypeOK
<1>6. ASSUME NEW p \in Passwords, SetPassword(p)
      PROVE  Maps
  BY <1>6, SameFiles DEF SetPassword, spill
<1>7. ASSUME NEW s \in Streams, StreamStep(s)
      PROVE  Maps
  BY <1>7, StreamMaps
<1>8. ASSUME NEW f \in Files, Finalize(f)
      PROVE  Maps
  <2>1. Claims(f) = {} /\ disk[f] # "unused" /\ disk' = [disk EXCEPT ![f] = "gone"]
    BY <1>8 DEF Finalize, Claims, OnDisk
  <2>2. \A g \in Files : Claims(g)' = Claims(g)
    BY <1>8 DEF Finalize, Claims, streams
  <2>3. UNCHANGED <<tempfile, orphans, reaped>>
    BY <1>8 DEF Finalize, Silent, still
  <2> QED
    BY <2>1, <2>2, <2>3, DeletionMaps
<1>9. ASSUME NEW f \in Files, Reap(f)
      PROVE  Maps
  <2> DEFINE k == "gone"
  <2>1. /\ disk' = [disk EXCEPT ![f] = k] /\ OnDisk(f)
        /\ UNCHANGED <<tempfile, streams>>
        /\ reaped' \cup orphans' = reaped \cup orphans \cup {f}
    BY <1>9 DEF Reap
  <2> HIDE DEF k
  <2> QED
    BY <2>1, LossMaps
<1>10. CASE UNCHANGED vars
  BY <1>10, SameFiles DEF vars, spill
<1> QED
  BY <1>1, <1>2, <1>3, <1>4, <1>5, <1>6, <1>7, <1>8, <1>9, <1>10 DEF Next

(* The counter of holders implements the claims: whatever the order of     *)
(* opens, retries, closes and collections, a file is deleted only when its *)
(* last claimant lets go, and only a file still claimed gains a claimant.  *)
THEOREM ImplementsClaims == Safety => KeepsClaims
<1>1. Init => ClaimsOf!Init
  <2> SUFFICES ASSUME Init PROVE ClaimsOf!Init
    OBVIOUS
  <2>1. \A f \in Files : FileState(f) = "unused" /\ LiveClaims(f) = {}
    BY FilesAssumption DEF Init, FileState, LiveClaims, Claims
  <2> QED
    BY <2>1 DEF ClaimsOf!Init, fileState, fileClaims
<1>2. IInv /\ [Next]_vars => [ClaimsOf!Next]_(ClaimsOf!vars)
  BY StepMaps DEF Maps
<1> QED
  BY <1>1, <1>2, Inductive, PTL DEF Safety, KeepsClaims, ClaimsOf!Spec

=============================================================================
