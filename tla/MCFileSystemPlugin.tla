-------------------------- MODULE MCFileSystemPlugin --------------------------
(***************************************************************************)
(* Instances of FileSystemPlugin for TLC: two files of two rows, of which  *)
(* persists name the second; the keys of the second file are numbers that  *)
(* its collection gives.                                                   *)
(***************************************************************************)
EXTENDS FileSystemPlugin
=============================================================================
