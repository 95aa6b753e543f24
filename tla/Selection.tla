----------------------------- MODULE Selection -----------------------------
(***************************************************************************)
(* How newtua turns a reference -- a position, a name or an Entry -- into  *)
(* an index: _resolve_index, the two lookups of Archive and AsyncArchive,  *)
(* and the selection of a batch job.  A name is a PurePosixPath, that is,  *)
(* already normalized; of an Entry only what these functions read is kept. *)
(***************************************************************************)
EXTENDS Integers, Sequences
LOCAL INSTANCE SequencesExt

CONSTANTS
  Names,      (* the names entries may have                                *)
  MaxEntries  (* the longest listing explored                              *)

ASSUME MaxEntriesAssumption == MaxEntries \in Nat

(* What a lookup answers: an index, or one of two exceptions.              *)
IndexError         == -1
EntryNotFoundError == -2

Listings == BoundedSeq(Names, MaxEntries)

(* _entries_from_raw numbers the entries as the engine lists them, ...     *)
EntriesOf(names) == [k \in 1 .. Len(names) |-> [index |-> k - 1, path |-> names[k]]]

FaultySetDefault(byName, entry) ==
  [n \in DOMAIN byName \cup {entry.path} |->
     IF n = entry.path THEN entry ELSE byName[n]]

SetDefault(byName, entry) ==
  [n \in DOMAIN byName \cup {entry.path} |->
     IF n \in DOMAIN byName THEN byName[n] ELSE entry]

(* ... and indexes each name's first entry.                                *)
ByName(listing) ==
  LET upTo[k \in 0 .. Len(listing)] ==
        IF k = 0 THEN <<>> ELSE SetDefault(upTo[k - 1], listing[k])
  IN  upTo[Len(listing)]

At(i)     == [kind |-> "int", of |-> i]
Named(n)  == [kind |-> "name", of |-> n]
Itself(e) == [kind |-> "entry", of |-> e]

(* A reference a caller may make, an Entry being one of the listing.       *)
RefersIn(listing, ref) ==
  \/ ref.kind = "int" /\ ref.of \in Int
  \/ ref.kind = "name"
  \/ ref.kind = "entry" /\ \E k \in 1 .. Len(listing) : ref.of = listing[k]

(* The loop of _resolve_index over the names.                              *)
FirstNamed(listing, name) ==
  LET I == {k \in 1 .. Len(listing) : listing[k].path = name}
  IN  IF I # {} THEN CHOOSE k \in I : \A i \in I : k =< i ELSE 0

FaultyResolve(listing, ref) ==
  CASE ref.kind = "int" ->
         IF ref.of \in -Len(listing) .. Len(listing) - 1
         THEN ref.of % (Len(listing) + 1) ELSE IndexError
    [] ref.kind = "entry" -> ref.of.index
    [] OTHER -> FirstNamed(listing, ref.of) - 1

(* _resolve_index: an Entry's own index is taken without a look.           *)
Resolve(listing, ref) ==
  CASE ref.kind = "int" ->
         IF ref.of \in -Len(listing) .. Len(listing) - 1
         THEN ref.of % Len(listing) ELSE IndexError
    [] ref.kind = "entry" -> ref.of.index
    [] OTHER ->
         LET k == FirstNamed(listing, ref.of)
         IN  IF k = 0 THEN EntryNotFoundError ELSE listing[k].index

(* __getitem__, by a tuple's own subscript or through the name index.      *)
GetItem(listing, ref) ==
  IF ref.kind = "int"
  THEN LET k == IF ref.of < 0 THEN ref.of + Len(listing) ELSE ref.of
       IN  IF k \in 0 .. Len(listing) - 1 THEN listing[k + 1].index ELSE IndexError
  ELSE LET byName == ByName(listing)
       IN  IF ref.of \in DOMAIN byName THEN byName[ref.of].index ELSE EntryNotFoundError

(* __contains__: entries are compared by value, a position is never "in".  *)
IsIn(listing, ref) ==
  CASE ref.kind = "int"   -> FALSE
    [] ref.kind = "entry" -> \E k \in DOMAIN listing : listing[k] = ref.of
    [] OTHER              -> ref.of \in DOMAIN ByName(listing)

(* What Archive.extract and AsyncArchive.extract hand to the engine.       *)
SelectedBy(listing, refs) == [k \in DOMAIN refs |-> Resolve(listing, refs[k])]

(* _selection_indices: a batch job lists the archive only for a selection  *)
(* that is not made of integers, which otherwise goes through as it is.    *)
BatchSelectedBy(listing, refs) ==
  IF \A k \in DOMAIN refs : refs[k].kind = "int"
  THEN [k \in DOMAIN refs |-> refs[k].of]
  ELSE SelectedBy(listing, refs)

(* The binding takes a Vec<usize>: no negative number crosses.             *)
Crosses(indices) == \A k \in DOMAIN indices : indices[k] >= 0

-----------------------------------------------------------------------------
(* A reference means the position counted from either end, or the first of *)
(* that name, or the entry itself.                                         *)
Meaning(listing, ref) ==
  {k \in 0 .. Len(listing) - 1 :
     CASE ref.kind = "int"   -> ref.of \in {k, k - Len(listing)}
       [] ref.kind = "entry" -> ref.of = listing[k + 1]
       [] OTHER -> /\ listing[k + 1].path = ref.of
                   /\ \A i \in 1 .. k : listing[i].path # ref.of}

Positions == {At(i) : i \in -(MaxEntries + 1) .. MaxEntries + 1}
OfNames   == {Named(n) : n \in Names}

(* The references to explore, by kind.                                     *)
Kinds(listing) == <<Positions, OfNames, {Itself(listing[k]) : k \in DOMAIN listing}>>

Finds(index, meant) == IF meant = {} THEN index < 0 ELSE meant = {index}

(* What a batch job passes on unresolved: positions only, one of them      *)
(* counted from the end.                                                   *)
FromTheEnd(refs) ==
  /\ \A k \in DOMAIN refs : refs[k].kind = "int"
  /\ \E k \in DOMAIN refs : refs[k].of < 0

(* Positions and names mean the same to _resolve_index and to __getitem__. *)
SameEntry ==
  \A names \in Listings :
    LET listing == EntriesOf(names)
    IN  \A ref \in Positions \cup OfNames :
          /\ Finds(Resolve(listing, ref), Meaning(listing, ref))
          /\ GetItem(listing, ref) = Resolve(listing, ref)

(* A name is found exactly when it is "in" the archive, and an entry of    *)
(* the archive is in it and resolves to itself, although another may have  *)
(* its name.                                                               *)
SameMembers ==
  \A names \in Listings :
    LET listing == EntriesOf(names)
    IN  /\ \A ref \in OfNames : IsIn(listing, ref) <=> Meaning(listing, ref) # {}
        /\ \A k \in DOMAIN listing :
             /\ Finds(Resolve(listing, Itself(listing[k])), {k - 1})
             /\ IsIn(listing, Itself(listing[k]))

(* But for selections counted from the end a batch job selects what        *)
(* Archive.extract would.                                                  *)
SameSelections ==
  \A names \in Listings :
    LET listing == EntriesOf(names)
    IN  \A i, j \in 1 .. 3 : \A r \in Kinds(listing)[i], s \in Kinds(listing)[j] :
          Crosses(SelectedBy(listing, <<r, s>>)) /\ ~FromTheEnd(<<r, s>>)
            => BatchSelectedBy(listing, <<r, s>>) = SelectedBy(listing, <<r, s>>)
=============================================================================
