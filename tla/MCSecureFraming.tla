-------------------------- MODULE MCSecureFraming ---------------------------
(* Small limits for SecureFraming: frames of one to three records.         *)
EXTENDS SecureFraming

Limits == [control |-> 3, data |-> 2]
=============================================================================
