----------------------------- MODULE MCChannel ------------------------------
(* Model values for Channel. *)
EXTENDS Channel

Both == {"Client", "Server"}
ServerOnly == {"Server"}
=============================================================================
