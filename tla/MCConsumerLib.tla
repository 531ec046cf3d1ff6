--------------------------- MODULE MCConsumerLib ----------------------------
(* Instances of ConsumerLib.                                               *)
EXTENDS ConsumerLib
=============================================================================
