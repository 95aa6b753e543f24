--------------------------- MODULE MCAsyncArchive ---------------------------
(* Finite instances of module AsyncArchive.                                *)
EXTENDS AsyncArchive

CONSTANTS f1, f2, a1, a2, s1, s2, r1, c1, c2

TwoFiles    == {f1, f2}
TwoAttempts == {a1, a2}
OneAttempt  == {a1}
OneStream   == {s1}
TwoStreams  == {s1, s2}
OneCall     == {r1}
TwoClosers  == {c1, c2}
=============================================================================
