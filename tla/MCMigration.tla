---------------------------- MODULE MCMigration ----------------------------
(***************************************************************************)
(* Instance of Migration for TLC.                                          *)
(***************************************************************************)
EXTENDS Migration

F1 == [version |-> 1, name |-> "users"]
F2 == [version |-> 2, name |-> "orders"]
F3 == [version |-> 3, name |-> "payments"]
F3b == [version |-> 3, name |-> "refunds"]

\* The second file may come late; two teams have chosen the third version.
AllFiles == {F1, F2, F3, F3b}
FirstRelease == {F1}
=============================================================================
