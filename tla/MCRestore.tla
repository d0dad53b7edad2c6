------------------------------ MODULE MCRestore ------------------------------
(* A directory with a database, its log and spill, and a plain file; the    *)
(* archive holds the database, its log or not, and the plain file.          *)
EXTENDS Restore, TLC

CONSTANTS cfgdb, wal, tmp, walwal, waltmp, notes, noteswal, notestmp

DbWalAndPlain == <<cfgdb, wal, notes>>
Sidecars == (cfgdb :> <<cfgdb, wal, tmp>>) @@ (wal :> <<wal, walwal, waltmp>>)
            @@ (notes :> <<notes, noteswal, notestmp>>)
=============================================================================
