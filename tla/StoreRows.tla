------------------------------ MODULE StoreRows ------------------------------
(***************************************************************************)
(* How the store writes a row it has read without a lock.  Its sessions    *)
(* work at PostgreSQL's default isolation, and an UPDATE of the mapper     *)
(* names the columns whose value is not the one that was read, by primary  *)
(* key: what others have committed since is seen in no check, and stays in *)
(* every column that was not changed.                                      *)
(***************************************************************************)

\* What a column holds after a session that read one value of it has changed
\* it to another, or left it alone.
Column(read, changed, stored) == IF changed = read THEN stored ELSE changed

=============================================================================
