-------------------------------- MODULE Maps --------------------------------
(***************************************************************************)
(* Hash maps and tables with a unique key, as functions whose domain       *)
(* changes.                                                                *)
(***************************************************************************)

EmptyMap == [x \in {} |-> {}]

\* The map f with its value at x set to y, x being one of its keys or not.
Put(f, x, y) == [z \in DOMAIN f \cup {x} |-> IF z = x THEN y ELSE f[z]]

\* The map f without the keys in S.
Without(f, S) == [z \in DOMAIN f \ S |-> f[z]]
=============================================================================
