----------------------------- MODULE MCFileWork ------------------------------
(* A file and a directory, and a free name. *)
EXTENDS FileWork
MCPaths == 1..3
MCKinds == <<"file", "directory">>
=============================================================================
