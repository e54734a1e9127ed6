------------------------------- MODULE Session -------------------------------
(***************************************************************************)
(* What a commit of the database session writes.  A handler assigns to the *)
(* row it has loaded, some awaits earlier; the session then flushes the    *)
(* columns whose value is no longer the one it loaded, whatever the row    *)
(* says by now.                                                            *)
(***************************************************************************)

(* Mutant: every column that is assigned to is written. *)
FlushedWhole(now, loaded, new) == new

(* A column that is now `now`, was `loaded` when it was read, and has been *)
(* assigned `new` since.                                                   *)
Flushed(now, loaded, new) == IF new = loaded THEN now ELSE new

=============================================================================
