--------------------------- MODULE MCAcpHttpClient ---------------------------
(* Instances of AcpHttpClient for TLC. *)
EXTENDS AcpHttpClient
=============================================================================
