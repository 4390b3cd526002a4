----------------------------- MODULE MCMigrate -----------------------------
(* Small instances of Migrate for TLC.                                     *)
EXTENDS Migrate, TLC

CONSTANTS p1, p2

\* A table; a table with a change of data; a change of data alone, which would
\* succeed twice; a script that ends its transaction and opens another; and one
\* that only ends it.
MCScripts == << <<"create">>, <<"create", "change">>, <<"change">>,
                <<"create", "COMMIT", "BEGIN IMMEDIATE", "change">>,
                <<"create", "COMMIT", "change">> >>
=============================================================================
