---------------------------- MODULE MCStateStore ----------------------------
(***************************************************************************)
(* Two sessions over one file: runs whose query may differ, or readers.    *)
(* Plays live for a day and the file may be damaged once.                  *)
(***************************************************************************)
EXTENDS StateStore

CONSTANTS s1, s2, old, new

MCSessions == {s1, s2}
MCExpressions == {old, new}

=============================================================================
