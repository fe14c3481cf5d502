---------------------------- MODULE MCArchiveOpen ----------------------------
(***************************************************************************)
(* Small instances of ArchiveOpen.                                          *)
(***************************************************************************)
EXTENDS ArchiveOpen

CONSTANTS l1, r1, a1

\* One way up, and one root whose archives lead back to a remote source
MCFirst == {At(l1, Dir), At(r1, Top)}
=============================================================================
