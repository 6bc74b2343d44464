------------------------ MODULE MCUpstreamTransport ------------------------
(* Small instances of UpstreamTransport for TLC. *)
EXTENDS UpstreamTransport
=============================================================================
