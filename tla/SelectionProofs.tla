--------------------------- MODULE SelectionProofs ---------------------------
(***************************************************************************)
(* What TLAPS proves of module Selection, for listings of every length:    *)
(* _resolve_index answers a position or an error, and the position is the  *)
(* one the reference means; the name index, whose recursion is replaced by *)
(* what it arrives at, agrees with it; and what a batch job passes on.     *)
(***************************************************************************)
EXTENDS Selection, Counting, TLAPS
LOCAL INSTANCE SequencesExt

(* Listings as EntriesOf numbers them.                                     *)
Numbered(listing) ==
  /\ listing \in Seq([index : Nat, path : Names])
  /\ \A k \in 1 .. Len(listing) : listing[k].index = k - 1

-----------------------------------------------------------------------------
LEMMA EntriesAreNumbered ==
  ASSUME NEW names \in Seq(Names)
  PROVE  Numbered(EntriesOf(names)) /\ Len(EntriesOf(names)) = Len(names)
<1>1. EntriesOf(names) \in [1 .. Len(names) -> [index : Nat, path : Names]]
  BY DEF EntriesOf
<1>2. Len(EntriesOf(names)) = Len(names)
  BY <1>1
<1> QED
  BY <1>1, <1>2 DEF Numbered, EntriesOf

(* Where a name is first found.                                            *)
LEMMA FirstOfName ==
  ASSUME NEW listing, Numbered(listing), NEW name
  PROVE  LET k == FirstNamed(listing, name)
         IN  \/ k = 0 /\ \A i \in 1 .. Len(listing) : listing[i].path # name
             \/ /\ k \in 1 .. Len(listing) /\ listing[k].path = name
                /\ \A i \in 1 .. k - 1 : listing[i].path # name
<1> DEFINE I == {i \in 1 .. Len(listing) : listing[i].path = name}
           k == FirstNamed(listing, name)
<1>1. k = IF I # {} THEN CHOOSE m \in I : \A i \in I : m =< i ELSE 0
  BY DEF FirstNamed
<1>2. Len(listing) \in Nat /\ I \in SUBSET Nat
  BY DEF Numbered
<1>3. CASE I = {}
  BY <1>1, <1>3
<1>4. CASE I # {}
  <2>1. k \in I /\ \A i \in I : k =< i
    BY <1>1, <1>2, <1>4, LeastNumber, Zenon
  <2>2. \A i \in 1 .. k - 1 : listing[i].path # name
    <3> HIDE DEF k
    <3> QED
      BY <1>2, <2>1
  <2> QED
    BY <2>1, <2>2, Zenon
<1> QED
  BY <1>3, <1>4

-----------------------------------------------------------------------------
(* Whatever the listing and the reference, _resolve_index finds the one    *)
(* entry the reference means, and raises when there is none                *)
(* (_archive.py:143).                                                      *)
THEOREM ResolveMeans ==
  ASSUME NEW listing, Numbered(listing), NEW ref, RefersIn(listing, ref)
  PROVE  Finds(Resolve(listing, ref), Meaning(listing, ref))
<1> DEFINE n == Len(listing)
<1>0. n \in Nat /\ \A k \in 1 .. n : listing[k].index = k - 1
  BY DEF Numbered
<1>1. CASE ref.kind = "int"
  <2>1. ref.of \in Int
    BY <1>1 DEF RefersIn
  <2>2. Meaning(listing, ref) = {k \in 0 .. n - 1 : ref.of \in {k, k - n}}
    BY <1>1 DEF Meaning
  <2>3. Resolve(listing, ref) = IF ref.of \in -n .. n - 1 THEN ref.of % n ELSE IndexError
    BY <1>1 DEF Resolve
  <2> HIDE DEF n
  <2>4. CASE ref.of \in -n .. n - 1
    <3>1. ref.of % n = IF ref.of < 0 THEN ref.of + n ELSE ref.of
      BY <1>0, <2>1, <2>4
    <3>2. \A k \in 0 .. n - 1 : ref.of \in {k, k - n} <=> k = ref.of % n
      BY <1>0, <2>1, <2>4, <3>1
    <3>3. ref.of % n \in 0 .. n - 1
      BY <1>0, <2>1, <2>4, <3>1
    <3>4. Meaning(listing, ref) = {ref.of % n}
      BY <2>2, <3>2, <3>3
    <3> QED
      BY <2>3, <2>4, <3>4 DEF Finds
  <2>5. CASE ref.of \notin -n .. n - 1
    <3>1. Meaning(listing, ref) = {}
      BY <1>0, <2>1, <2>2, <2>5
    <3> QED
      BY <2>3, <2>5, <3>1 DEF Finds, IndexError
  <2> QED
    BY <2>4, <2>5
<1>2. CASE ref.kind = "name"
  <2> DEFINE k == FirstNamed(listing, ref.of)
  <2>1. Resolve(listing, ref) = IF k = 0 THEN EntryNotFoundError ELSE listing[k].index
    BY <1>2 DEF Resolve
  <2>2. Meaning(listing, ref) =
          {i \in 0 .. n - 1 : /\ listing[i + 1].path = ref.of
                              /\ \A j \in 1 .. i : listing[j].path # ref.of}
    BY <1>2 DEF Meaning
  <2>3. \/ k = 0 /\ \A i \in 1 .. n : listing[i].path # ref.of
        \/ /\ k \in 1 .. n /\ listing[k].path = ref.of
           /\ \A i \in 1 .. k - 1 : listing[i].path # ref.of
    BY FirstOfName
  <2> HIDE DEF k, n
  <2>4. CASE k = 0
    <3>1. Meaning(listing, ref) = {}
      BY <1>0, <2>2, <2>3, <2>4
    <3> QED
      BY <2>1, <2>4, <3>1 DEF Finds, EntryNotFoundError
  <2>5. CASE k # 0
    <3>1. k \in 1 .. n /\ Resolve(listing, ref) = k - 1
      BY <1>0, <2>1, <2>3, <2>5
    <3>2. k - 1 \in Meaning(listing, ref)
      BY <1>0, <2>2, <2>3, <2>5
    <3>3. ASSUME NEW i \in Meaning(listing, ref)
          PROVE  i = k - 1
      <4>1. i \in 0 .. n - 1 /\ listing[i + 1].path = ref.of
            /\ \A j \in 1 .. i : listing[j].path # ref.of
        BY <2>2
      <4>2. ~(i < k - 1)
        BY <1>0, <2>3, <2>5, <3>1, <4>1
      <4>3. ~(i > k - 1)
        BY <1>0, <2>3, <2>5, <3>1, <4>1
      <4> QED
        BY <1>0, <3>1, <4>1, <4>2, <4>3
    <3> QED
      BY <3>1, <3>2, <3>3 DEF Finds
  <2> QED
    BY <2>4, <2>5
<1>3. CASE ref.kind = "entry"
  <2>1. PICK k \in 1 .. n : ref.of = listing[k]
    BY <1>3 DEF RefersIn
  <2>2. Resolve(listing, ref) = k - 1
    BY <1>0, <1>3, <2>1 DEF Resolve
  <2>3. \A i \in 0 .. n - 1 : ref.of = listing[i + 1] <=> i = k - 1
    BY <1>0, <2>1
  <2>4. Meaning(listing, ref) = {i \in 0 .. n - 1 : ref.of = listing[i + 1]}
    BY <1>3 DEF Meaning
  <2> HIDE DEF n
  <2>5. Meaning(listing, ref) = {k - 1}
    BY <1>0, <2>3, <2>4
  <2> QED
    BY <2>2, <2>5 DEF Finds
<1> QED
  BY <1>1, <1>2, <1>3 DEF RefersIn

LEMMA ResolveIsNumber ==
  ASSUME NEW listing, Numbered(listing), NEW ref, RefersIn(listing, ref)
  PROVE  Resolve(listing, ref) \in Int
<1>1. Len(listing) \in Nat /\ \A k \in 1 .. Len(listing) : listing[k].index \in Int
  BY DEF Numbered
<1>2. CASE ref.kind = "int"
  BY <1>1, <1>2 DEF Resolve, RefersIn, IndexError
<1>3. CASE ref.kind = "entry"
  BY <1>1, <1>3 DEF Resolve, RefersIn
<1>4. CASE ref.kind = "name"
  <2> DEFINE k == FirstNamed(listing, ref.of)
  <2>1. \/ k = 0 /\ \A i \in 1 .. Len(listing) : listing[i].path # ref.of
        \/ /\ k \in 1 .. Len(listing) /\ listing[k].path = ref.of
           /\ \A i \in 1 .. k - 1 : listing[i].path # ref.of
    BY FirstOfName
  <2>2. Resolve(listing, ref) = IF k = 0 THEN EntryNotFoundError ELSE listing[k].index
    BY <1>4 DEF Resolve
  <2> HIDE DEF k
  <2> QED
    BY <1>1, <2>1, <2>2 DEF EntryNotFoundError
<1> QED
  BY <1>2, <1>3, <1>4 DEF RefersIn

-----------------------------------------------------------------------------
(* The name index of the first k entries, without the recursion: the names *)
(* among them, each with the first entry that has it.                      *)
Index(listing, k) ==
  IF k = 0 THEN <<>>
  ELSE [n \in {listing[i].path : i \in 1 .. k} |-> listing[FirstNamed(listing, n)]]

(* One entry more is one setdefault more.                                  *)
LEMMA IndexGrows ==
  ASSUME NEW listing, Numbered(listing), NEW k \in 1 .. Len(listing)
  PROVE  Index(listing, k) = SetDefault(Index(listing, k - 1), listing[k])
<1> DEFINE Of(j) == {listing[i].path : i \in 1 .. j}
           old == Index(listing, k - 1)
<1>0. Len(listing) \in Nat /\ k \in Nat
  BY DEF Numbered
<1>1. Of(k) = Of(k - 1) \cup {listing[k].path}
  BY <1>0
<1>2. DOMAIN old = Of(k - 1)
  <2>1. CASE k = 1
    <3>1. old = <<>> /\ DOMAIN <<>> = {}
      BY <2>1 DEF Index
    <3>2. Of(k - 1) = {}
      BY <2>1
    <3> QED
      BY <3>1, <3>2
  <2>2. CASE k # 1
    BY <1>0, <2>2 DEF Index
  <2> QED
    BY <2>1, <2>2
<1>3. ASSUME NEW n \in Of(k - 1)
      PROVE  old[n] = listing[FirstNamed(listing, n)]
  <2>1. k - 1 # 0
    BY <1>0
  <2> QED
    BY <2>1 DEF Index
<1>4. listing[k].path \notin Of(k - 1) => FirstNamed(listing, listing[k].path) = k
  <2> DEFINE m == FirstNamed(listing, listing[k].path)
  <2>1. m \in 1 .. Len(listing) /\ listing[m].path = listing[k].path
        /\ \A i \in 1 .. m - 1 : listing[i].path # listing[k].path
    BY FirstOfName
  <2> HIDE DEF m
  <2>2. m =< k
    BY <1>0, <2>1
  <2>3. m < k => listing[k].path \in Of(k - 1)
    BY <1>0, <2>1
  <2> QED
    BY <1>0, <2>1, <2>2, <2>3 DEF m
<1>5. Index(listing, k) = [n \in Of(k) |-> listing[FirstNamed(listing, n)]]
  BY <1>0 DEF Index
<1>6. SetDefault(old, listing[k]) =
        [n \in Of(k - 1) \cup {listing[k].path} |->
           IF n \in Of(k - 1) THEN old[n] ELSE listing[k]]
  BY <1>2 DEF SetDefault
<1> HIDE DEF old, Of
<1>7. \A n \in Of(k) :
        (IF n \in Of(k - 1) THEN old[n] ELSE listing[k]) = listing[FirstNamed(listing, n)]
  BY <1>1, <1>3, <1>4
<1>8. SetDefault(old, listing[k]) = [n \in Of(k) |-> listing[FirstNamed(listing, n)]]
  BY <1>1, <1>6, <1>7
<1> QED
  BY <1>5, <1>8 DEF old

(* ByName, entry by entry, arrives there: some function obeys its          *)
(* recursion, and one that does is nowhere first wrong.                    *)
LEMMA ByNameIsIndex ==
  ASSUME NEW listing, Numbered(listing)
  PROVE  ByName(listing) = Index(listing, Len(listing))
<1> DEFINE N == Len(listing)
           Obeys(g) == g = [k \in 0 .. N |->
                              IF k = 0 THEN <<>> ELSE SetDefault(g[k - 1], listing[k])]
           upTo == CHOOSE g : Obeys(g)
<1>0. N \in Nat
  BY DEF Numbered
<1>1. ByName(listing) = upTo[N]
  BY DEF ByName
<1>2. \E g : Obeys(g)
  <2> DEFINE g == [k \in 0 .. N |-> Index(listing, k)]
  <2>1. ASSUME NEW k \in 0 .. N
        PROVE  Index(listing, k) =
                 IF k = 0 THEN <<>> ELSE SetDefault(g[k - 1], listing[k])
    <3>1. CASE k = 0
      BY <3>1 DEF Index
    <3>2. CASE k # 0
      <4>1. k \in 1 .. N /\ k - 1 \in 0 .. N
        BY <1>0, <3>2
      <4>2. g[k - 1] = Index(listing, k - 1)
        BY <4>1
      <4> QED
        BY <3>2, <4>1, <4>2, IndexGrows
    <3> QED
      BY <3>1, <3>2
  <2>2. Obeys(g)
    BY <2>1
  <2> QED
    BY <2>2
<1>3. Obeys(upTo)
  BY <1>2
<1> HIDE DEF upTo
<1>4. \A k \in 0 .. N :
        upTo[k] = IF k = 0 THEN <<>> ELSE SetDefault(upTo[k - 1], listing[k])
  BY <1>3
<1> DEFINE Wrong == {k \in 0 .. N : upTo[k] # Index(listing, k)}
<1>5. Wrong = {}
  <2> SUFFICES ASSUME Wrong # {} PROVE FALSE
    OBVIOUS
  <2>1. PICK k \in Wrong : \A i \in Wrong : k =< i
    <3>1. Wrong \in SUBSET Nat
      BY <1>0
    <3> HIDE DEF Wrong
    <3> QED
      BY <3>1, LeastNumber
  <2>2. k # 0
    BY <1>0, <1>4 DEF Index
  <2>3. k \in 1 .. N /\ k - 1 \in 0 .. N /\ k - 1 \notin Wrong
    BY <1>0, <2>1, <2>2
  <2>4. upTo[k - 1] = Index(listing, k - 1)
    BY <2>3
  <2>5. upTo[k] = SetDefault(Index(listing, k - 1), listing[k])
    BY <1>4, <2>2, <2>3, <2>4
  <2> QED
    BY <2>1, <2>3, <2>5, IndexGrows
<1> QED
  BY <1>0, <1>1, <1>5

-----------------------------------------------------------------------------
(* A position means the same to __getitem__ (_archive.py:325).             *)
THEOREM SubscriptAgrees ==
  ASSUME NEW listing, Numbered(listing), NEW i \in Int
  PROVE  GetItem(listing, At(i)) = Resolve(listing, At(i))
<1> DEFINE n == Len(listing)
<1>1. n \in Nat /\ \A k \in 1 .. n : listing[k].index = k - 1
  BY DEF Numbered
<1>2. Resolve(listing, At(i)) = IF i \in -n .. n - 1 THEN i % n ELSE IndexError
  BY DEF Resolve, At
<1>3. GetItem(listing, At(i)) =
        LET k == IF i < 0 THEN i + n ELSE i
        IN  IF k \in 0 .. n - 1 THEN listing[k + 1].index ELSE IndexError
  BY DEF GetItem, At
<1> HIDE DEF n
<1>4. CASE i \in -n .. n - 1
  <2>1. i % n = IF i < 0 THEN i + n ELSE i
    BY <1>1, <1>4
  <2> QED
    BY <1>1, <1>2, <1>3, <1>4, <2>1
<1>5. CASE i \notin -n .. n - 1
  BY <1>1, <1>2, <1>3, <1>5
<1> QED
  BY <1>4, <1>5

(* So does a name, found in the index of first entries (_archive.py:330).  *)
THEOREM NameAgrees ==
  ASSUME NEW listing, Numbered(listing), NEW name
  PROVE  /\ GetItem(listing, Named(name)) = Resolve(listing, Named(name))
         /\ IsIn(listing, Named(name)) <=> Meaning(listing, Named(name)) # {}
<1> DEFINE n == Len(listing)
           k == FirstNamed(listing, name)
           byName == Index(listing, n)
<1>1. n \in Nat
  BY DEF Numbered
<1>2. \/ k = 0 /\ \A i \in 1 .. n : listing[i].path # name
      \/ /\ k \in 1 .. n /\ listing[k].path = name
         /\ \A i \in 1 .. k - 1 : listing[i].path # name
  BY FirstOfName
<1>3. DOMAIN byName = {listing[i].path : i \in 1 .. n}
  <2>1. CASE n = 0
    <3>1. byName = <<>> /\ DOMAIN <<>> = {}
      BY <2>1 DEF Index
    <3>2. {listing[i].path : i \in 1 .. n} = {}
      BY <2>1
    <3> QED
      BY <3>1, <3>2
  <2>2. CASE n # 0
    BY <2>2 DEF Index
  <2> QED
    BY <2>1, <2>2
<1>4. name \in DOMAIN byName => byName[name] = listing[k]
  <2>1. name \in DOMAIN byName => n # 0
    BY <1>1, <1>3
  <2> QED
    BY <1>3, <2>1 DEF Index
<1>5. name \in DOMAIN byName <=> k # 0
  BY <1>1, <1>2, <1>3
<1>6. GetItem(listing, Named(name)) =
        IF name \in DOMAIN byName THEN byName[name].index ELSE EntryNotFoundError
  BY ByNameIsIndex DEF GetItem, Named
<1>7. Resolve(listing, Named(name)) = IF k = 0 THEN EntryNotFoundError ELSE listing[k].index
  BY DEF Resolve, Named
<1>8. IsIn(listing, Named(name)) <=> name \in DOMAIN byName
  BY ByNameIsIndex DEF IsIn, Named
<1>9. Meaning(listing, Named(name)) =
        {i \in 0 .. n - 1 : /\ listing[i + 1].path = name
                            /\ \A j \in 1 .. i : listing[j].path # name}
  BY DEF Meaning, Named
<1> HIDE DEF n, k, byName
<1>10. Meaning(listing, Named(name)) # {} <=> k # 0
  <2>1. CASE k = 0
    BY <1>1, <1>2, <1>9, <2>1
  <2>2. CASE k # 0
    <3>1. k - 1 \in Meaning(listing, Named(name))
      BY <1>1, <1>2, <1>9, <2>2
    <3> QED
      BY <2>2, <3>1
  <2> QED
    BY <2>1, <2>2
<1> QED
  BY <1>4, <1>5, <1>6, <1>7, <1>8, <1>10

(* A selection that is good for Archive.extract and does not count from    *)
(* the end selects the same in a batch job, whether the job lists the      *)
(* archive or passes its positions on unread (_batch.py:89).               *)
THEOREM BatchSelectsTheSame ==
  ASSUME NEW listing, Numbered(listing), NEW refs,
         \A k \in DOMAIN refs : RefersIn(listing, refs[k]),
         Crosses(SelectedBy(listing, refs)), ~FromTheEnd(refs)
  PROVE  BatchSelectedBy(listing, refs) = SelectedBy(listing, refs)
<1>1. CASE \A k \in DOMAIN refs : refs[k].kind = "int"
  <2>1. ASSUME NEW k \in DOMAIN refs
        PROVE  Resolve(listing, refs[k]) = refs[k].of
    <3> DEFINE n == Len(listing)
               i == refs[k].of
    <3>1. i \in Int /\ i >= 0 /\ n \in Nat
      BY <1>1 DEF RefersIn, FromTheEnd, Numbered
    <3>2. Resolve(listing, refs[k]) >= 0
      BY DEF Crosses, SelectedBy
    <3>3. Resolve(listing, refs[k]) = IF i \in -n .. n - 1 THEN i % n ELSE IndexError
      BY <1>1 DEF Resolve
    <3> HIDE DEF n, i
    <3>4. i \in 0 .. n - 1
      BY <3>1, <3>2, <3>3 DEF IndexError
    <3>5. i % n = i
      BY <3>1, <3>4
    <3>6. Resolve(listing, refs[k]) = i
      BY <3>1, <3>3, <3>4, <3>5
    <3> QED
      BY <3>6 DEF i
  <2> QED
    BY <1>1, <2>1 DEF BatchSelectedBy, SelectedBy
<1>2. CASE ~(\A k \in DOMAIN refs : refs[k].kind = "int")
  BY <1>2 DEF BatchSelectedBy
<1> QED
  BY <1>1, <1>2

-----------------------------------------------------------------------------
(* The listings and the references TLC explores are such.                  *)
LEMMA ListingsAreNumbered ==
  ASSUME NEW names \in Listings
  PROVE  Numbered(EntriesOf(names))
<1>1. names \in Seq(Names)
  BY MaxEntriesAssumption DEF Listings, BoundedSeq, SeqOf
<1> QED
  BY <1>1, EntriesAreNumbered

LEMMA ExploredAreReferences ==
  ASSUME NEW listing, Numbered(listing), NEW i \in 1 .. 3, NEW ref \in Kinds(listing)[i]
  PROVE  RefersIn(listing, ref)
<1>1. Kinds(listing)[i] \in {Positions, OfNames, {Itself(listing[k]) : k \in DOMAIN listing}}
  BY DEF Kinds
<1>2. ASSUME ref \in Positions PROVE RefersIn(listing, ref)
  <2>1. PICK j \in -(MaxEntries + 1) .. MaxEntries + 1 : ref = At(j)
    BY <1>2 DEF Positions
  <2>2. j \in Int
    BY MaxEntriesAssumption
  <2> QED
    BY <2>1, <2>2 DEF At, RefersIn
<1>3. ASSUME ref \in OfNames PROVE RefersIn(listing, ref)
  BY <1>3 DEF OfNames, Named, RefersIn
<1>4. ASSUME ref \in {Itself(listing[k]) : k \in DOMAIN listing} PROVE RefersIn(listing, ref)
  <2>1. DOMAIN listing = 1 .. Len(listing)
    BY DEF Numbered
  <2> QED
    BY <1>4, <2>1 DEF Itself, RefersIn
<1> QED
  BY <1>1, <1>2, <1>3, <1>4

(* A position and a name mean one entry to every lookup.                   *)
THEOREM AlwaysSameEntry == SameEntry
<1> SUFFICES ASSUME NEW names \in Listings, NEW ref \in Positions \cup OfNames
             PROVE  /\ Finds(Resolve(EntriesOf(names), ref), Meaning(EntriesOf(names), ref))
                    /\ GetItem(EntriesOf(names), ref) = Resolve(EntriesOf(names), ref)
  BY DEF SameEntry
<1>1. Numbered(EntriesOf(names))
  BY ListingsAreNumbered
<1>2. RefersIn(EntriesOf(names), ref)
  BY <1>1, ExploredAreReferences DEF Kinds
<1>3. CASE ref \in Positions
  <2>1. PICK j \in -(MaxEntries + 1) .. MaxEntries + 1 : ref = At(j)
    BY <1>3 DEF Positions
  <2>2. j \in Int
    BY MaxEntriesAssumption
  <2> QED
    BY <1>1, <1>2, <2>1, <2>2, ResolveMeans, SubscriptAgrees
<1>4. CASE ref \in OfNames
  BY <1>1, <1>2, <1>4, ResolveMeans, NameAgrees DEF OfNames
<1> QED
  BY <1>3, <1>4

(* What is found is "in" the archive, and an entry of the archive is in it *)
(* and means itself.                                                       *)
THEOREM AlwaysSameMembers == SameMembers
<1> SUFFICES ASSUME NEW names \in Listings
             PROVE  LET listing == EntriesOf(names)
                    IN  /\ \A ref \in OfNames : IsIn(listing, ref) <=> Meaning(listing, ref) # {}
                        /\ \A k \in DOMAIN listing :
                             /\ Finds(Resolve(listing, Itself(listing[k])), {k - 1})
                             /\ IsIn(listing, Itself(listing[k]))
  BY DEF SameMembers
<1> DEFINE listing == EntriesOf(names)
<1>0. Numbered(listing)
  BY ListingsAreNumbered
<1> HIDE DEF listing
<1>1. Numbered(listing) /\ DOMAIN listing = 1 .. Len(listing)
  BY <1>0 DEF Numbered
<1>2. ASSUME NEW ref \in OfNames PROVE IsIn(listing, ref) <=> Meaning(listing, ref) # {}
  BY <1>1, NameAgrees DEF OfNames
<1>3. ASSUME NEW k \in DOMAIN listing
      PROVE  /\ Finds(Resolve(listing, Itself(listing[k])), {k - 1})
             /\ IsIn(listing, Itself(listing[k]))
  <2>1. Resolve(listing, Itself(listing[k])) = k - 1
    BY <1>1 DEF Resolve, Itself, Numbered
  <2>2. IsIn(listing, Itself(listing[k]))
    BY DEF IsIn, Itself
  <2> QED
    BY <2>1, <2>2 DEF Finds
<1> QED
  BY <1>2, <1>3 DEF listing

(* A batch job selects what Archive.extract would.                         *)
THEOREM AlwaysSameSelections == SameSelections
<1> SUFFICES ASSUME NEW names \in Listings, NEW i \in 1 .. 3, NEW j \in 1 .. 3,
                    NEW r \in Kinds(EntriesOf(names))[i],
                    NEW s \in Kinds(EntriesOf(names))[j],
                    Crosses(SelectedBy(EntriesOf(names), <<r, s>>)),
                    ~FromTheEnd(<<r, s>>)
             PROVE  BatchSelectedBy(EntriesOf(names), <<r, s>>)
                      = SelectedBy(EntriesOf(names), <<r, s>>)
  BY DEF SameSelections
<1>1. Numbered(EntriesOf(names))
  BY ListingsAreNumbered
<1>2. RefersIn(EntriesOf(names), r) /\ RefersIn(EntriesOf(names), s)
  BY <1>1, ExploredAreReferences
<1>3. \A k \in DOMAIN <<r, s>> : RefersIn(EntriesOf(names), <<r, s>>[k])
  BY <1>2
<1> QED
  BY <1>1, <1>3, BatchSelectsTheSame
=============================================================================
