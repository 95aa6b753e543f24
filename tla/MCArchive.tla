----------------------------- MODULE MCArchive -----------------------------
(* Finite instances of module Archive.                                     *)
EXTENDS Archive

CONSTANTS f1, f2, s1

TwoFiles   == {f1, f2}
OneStream  == {s1}
AnySource  == {"path", "bytes", "stream"}
BytesOnly  == {"bytes"}
StreamOnly == {"stream"}
=============================================================================
