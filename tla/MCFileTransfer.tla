--------------------------- MODULE MCFileTransfer ---------------------------
(* FileTransfer with named runs of the client.                             *)
EXTENDS FileTransfer

CONSTANTS alice, bob, eve

=============================================================================
