----------------------------- MODULE FMDatabase -----------------------------
(***************************************************************************)
(* One SQLite file with one table, seen through FMDatabase and FMResultSet *)
(* (LottoDraw/Pods/FMDB/src/fmdb).  Only the calls LottoDraw makes are     *)
(* here.  Every call is an operator over the state before and after it,    *)
(* with its BOOL result as a parameter: a module that uses the database    *)
(* conjoins it with its own step, so that what a call does to the file is  *)
(* part of the caller's action.                                            *)
(*                                                                         *)
(* SQLite is external.  Of it the model keeps that sqlite3_open makes the  *)
(* file, that one statement is one atomic transaction, that a statement    *)
(* cannot be prepared against a table that does not exist, and that when   *)
(* IOErrors holds any call may report an error and change nothing.         *)
(***************************************************************************)
EXTENDS Naturals, Sequences

CONSTANTS
    Columns,     \* what one row of the table can hold
    IOErrors     \* TRUE when a call into SQLite may fail for its own reasons

ASSUME IOErrorsAssumption == IOErrors \in BOOLEAN

VARIABLES
    file,        \* on disk: the file at databasePath exists
    table,       \* on disk: it holds the table lotto
    rows,        \* on disk: the rows of the table, in the order of their id
    isOpen,      \* _isOpen of the FMDatabase in use
    reading,     \* an FMResultSet of it is open
    cursor       \* how many rows that result set has delivered

disk == <<file, table, rows>>
connection == <<isOpen, reading, cursor>>

FMDatabaseTypeOK ==
    /\ file \in BOOLEAN
    /\ table \in BOOLEAN
    /\ rows \in Seq(Columns)
    /\ isOpen \in BOOLEAN
    /\ reading \in BOOLEAN
    /\ cursor \in Nat

FMDatabaseInit ==
    /\ file = FALSE
    /\ table = FALSE
    /\ rows = <<>>
    /\ isOpen = FALSE
    /\ reading = FALSE
    /\ cursor = 0

-----------------------------------------------------------------------------

(* When a statement may be refused, always or for a reason of SQLite's own. *)
MayFail == IOErrors \/ ~isOpen \/ ~table

(* -[FMDatabase open]: sqlite3_open makes the file when it is missing.     *)
Open(ok) ==
    /\ ok \/ IOErrors
    /\ isOpen' = ok
    /\ file' = (file \/ ok)
    /\ UNCHANGED <<table, rows, reading, cursor>>

(* -[FMDatabase close], which -dealloc calls when the local `db` goes out  *)
(* of scope, and which closes the open result sets first.  The kernel does *)
(* the same for a process that dies.                                       *)
Close ==
    /\ isOpen' = FALSE
    /\ reading' = FALSE
    /\ cursor' = 0

(* -[FMDatabase executeStatements:] on "create table if not exists".       *)
CreateTable(ok) ==
    /\ ok => isOpen
    /\ ok \/ IOErrors \/ ~isOpen
    /\ table' = (table \/ ok)
    /\ UNCHANGED <<file, rows, connection>>

(* -[FMDatabase executeUpdate:...]: no connection or no table is an error  *)
(* of its own; a statement that fails leaves the rows as they were.        *)
ExecuteUpdate(newRows, ok) ==
    /\ ok => isOpen /\ table
    /\ ok \/ MayFail
    /\ rows' = IF ok THEN newRows ELSE rows
    /\ UNCHANGED <<file, table, connection>>

(* -[FMDatabase executeQuery:...]: nil when the statement cannot be        *)
(* prepared, a result set before its first row otherwise.                  *)
ExecuteQuery(ok) ==
    /\ ok => isOpen /\ table
    /\ ok \/ MayFail
    /\ reading' = ok
    /\ cursor' = 0
    /\ UNCHANGED <<disk, isOpen>>

(* -[FMResultSet next]: YES on the next row.                               *)
NextRow ==
    /\ reading
    /\ cursor < Len(rows)
    /\ cursor' = cursor + 1
    /\ UNCHANGED <<disk, isOpen, reading>>

(* -[FMResultSet next]: NO at the end of the rows, and on every error too; *)
(* the result set is closed either way and the caller cannot tell which.   *)
NoNextRow ==
    /\ reading
    /\ cursor >= Len(rows) \/ IOErrors
    /\ reading' = FALSE
    /\ UNCHANGED <<disk, isOpen, cursor>>

=============================================================================
