------------------------------ MODULE MCServer ------------------------------
(* The server with TCP connections beside its datagrams, for TLC.          *)
EXTENDS Server

=============================================================================
