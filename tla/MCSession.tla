----------------------------- MODULE MCSession -----------------------------
(* Small instances of Session. *)
EXTENDS Session

NoFiles  == {}
FirstFile == {1}
=============================================================================
