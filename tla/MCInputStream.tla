---------------------------- MODULE MCInputStream ---------------------------
(* Instances of InputStream.                                               *)
EXTENDS InputStream
=============================================================================
