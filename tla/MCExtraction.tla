---------------------------- MODULE MCExtraction ----------------------------
(* Finite instances of module Extraction.                                  *)
EXTENDS Extraction

CONSTANTS f1, f2, s1, a, b

TwoFiles  == {f1, f2}
NoStream  == {}
OneStream == {s1}
TwoNames  == {a, b}
BytesOnly == {"bytes"}
Doubled   == <<a, a>>
SomeSelections == {<<Named(b)>>, <<At(-1)>>}
=============================================================================
