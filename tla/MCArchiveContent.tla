--------------------------- MODULE MCArchiveContent ---------------------------
(***************************************************************************)
(* Small instances of ArchiveContent.                                      *)
(***************************************************************************)
EXTENDS ArchiveContent

CONSTANTS zip, seven, rar, right, wrong

\* A zip on a server with an encrypted image; a local 7z with an encrypted
\* header, whose entry is longer than it says; a local rar whose entry does not
\* fit though it says it does.  With a budget of three permits two reads of the
\* 7z, or one and a read of the zip, do not fit together.
Shelf ==
  [a \in Archives |->
     IF a = zip
     THEN [format |-> "zip", remote |-> TRUE, secret |-> right, header |-> FALSE, entries |-> TRUE,
           images |-> TRUE, locked |-> "image", declared |-> 1, actual |-> 1, dict |-> 0]
     ELSE IF a = rar
     THEN [format |-> "rar", remote |-> FALSE, secret |-> None, header |-> FALSE, entries |-> TRUE,
           images |-> TRUE, locked |-> "none", declared |-> 3, actual |-> 4, dict |-> 0]
     ELSE [format |-> "7z", remote |-> FALSE, secret |-> right, header |-> TRUE, entries |-> TRUE,
           images |-> FALSE, locked |-> "file", declared |-> 1, actual |-> 2, dict |-> 1]]

Permits == [f \in Formats |-> IF f = "7z" THEN 2 ELSE 1]
=============================================================================
