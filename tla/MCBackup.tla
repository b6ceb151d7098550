------------------------------ MODULE MCBackup ------------------------------
(* A source of at most three pages, which gets new data at most twice.     *)
EXTENDS Backup
=============================================================================
