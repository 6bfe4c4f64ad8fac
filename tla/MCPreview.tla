----------------------------- MODULE MCPreview -----------------------------
(***************************************************************************)
(* Small instances of StreamPreview.                                       *)
(***************************************************************************)
EXTENDS StreamPreview

AllFaults == {"start", "update", "nil"}
NilHandle == {"nil"}
NoFaults  == {}
=============================================================================
