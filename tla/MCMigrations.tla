----------------------------- MODULE MCMigrations -----------------------------
(* Small instances of Migrations: the sixteen revisions, one user with at   *)
(* most one organizer profile, and the positions commands are asked for.    *)
EXTENDS Migrations, TLC

ASSUME ChainLength == Len(Up) = HeadRevision /\ Len(Down) = HeadRevision
=============================================================================
