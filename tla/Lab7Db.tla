-------------------------------- MODULE Lab7Db --------------------------------
(***************************************************************************)
(* The storage of lab_7, exercise 2: one process copies a file of readings *)
(* into a table, clearing it first.  SQLite is a table and a call that may *)
(* fail; where a call fails decides what is left undone.                   *)
(***************************************************************************)
EXTENDS Naturals, Sequences

CONSTANTS Rows,         \* the readings in sensor_data
          Old           \* what the table may hold from an earlier run

NoTable == <<"no table">>

VARIABLES dbpc,         \* where the process is in its use of the database
          table,        \* the table, a sequence of rows, or NoTable
          unread        \* what is left to read of sensor_data

dbvars == <<dbpc, table, unread>>

InitDb == /\ dbpc = "open"
          /\ table \in {NoTable, <<>>, <<Old>>}
          /\ unread = Rows

DbGoes(from, to) == dbpc = from /\ dbpc' = to
-------------------------------------------------------------------------------
\* init_connection(1).  Each failure returns NULL, and main ends.
OpenDb == DbGoes("open", "drop") /\ UNCHANGED <<table, unread>>
OpenFails == DbGoes("open", "over") /\ UNCHANGED <<table, unread>>

DropTable == DbGoes("drop", "create") /\ table' = NoTable /\ UNCHANGED unread
DropFails == DbGoes("drop", "over") /\ UNCHANGED <<table, unread>>

CreateTable == /\ DbGoes("create", "file")
               /\ table' = IF table = NoTable THEN <<>> ELSE table
               /\ UNCHANGED unread
CreateFails == DbGoes("create", "over") /\ UNCHANGED <<table, unread>>

\* file_to_db; without the file main ends and leaves the database open.
OpenFile == DbGoes("file", "insert") /\ UNCHANGED <<table, unread>>
NoDataFile == DbGoes("file", "over") /\ UNCHANGED <<table, unread>>

\* insert_sensor_from_file, up to the first reading that is not inserted.  Its result
\* is not looked at, so main disconnects either way.
InsertRow == /\ DbGoes("insert", "insert")
             /\ unread # <<>>
             /\ table' = Append(table, Head(unread))
             /\ unread' = Tail(unread)
InsertFails == /\ DbGoes("insert", "disconnect")
               /\ unread # <<>>
               /\ UNCHANGED <<table, unread>>
AllInserted == /\ DbGoes("insert", "disconnect")
               /\ unread = <<>>
               /\ UNCHANGED <<table, unread>>

Disconnect == DbGoes("disconnect", "over") /\ UNCHANGED <<table, unread>>

DbOver == dbpc = "over" /\ UNCHANGED dbvars

DbNext == \/ OpenDb \/ OpenFails \/ DropTable \/ DropFails \/ CreateTable \/ CreateFails
          \/ OpenFile \/ NoDataFile \/ InsertRow \/ InsertFails \/ AllInserted
          \/ Disconnect \/ DbOver

DbSpec == InitDb /\ [][DbNext]_dbvars
-------------------------------------------------------------------------------
DbTypeOK == /\ dbpc \in {"open", "drop", "create", "file", "insert", "disconnect", "over"}
            /\ table = NoTable \/ table \in Seq({Rows[i] : i \in DOMAIN Rows} \cup {Old})
            /\ unread \in Seq({Rows[i] : i \in DOMAIN Rows})

\* sensor_db.h: "clear up the existing data".  From the first insert on the table and
\* what is left of the file are the file: no old row, none twice, none out of order.
TableIsFile == dbpc \in {"insert", "disconnect"} => table \o unread = Rows
===============================================================================
