----------------------------- MODULE MCFileSystem -----------------------------
(* A small disk for TLC. *)
EXTENDS FileSystem
=============================================================================
