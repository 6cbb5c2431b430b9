---------------------------- MODULE FileStorage ----------------------------
(***************************************************************************)
(* FileStorageService (apps/electron/src/services/file-storage.service.ts):*)
(* one service object whose file depends on its current name.  A file      *)
(* holds a JSON list.  fs.writeFile empties the file, then writes to it    *)
(* from the start; two writes of one file can overlap, and a file that was *)
(* emptied or half overwritten is not JSON.                                *)
(*                                                                         *)
(* The items of a list have the same length, so that the longer of two     *)
(* lists is the one with more items.                                       *)
(***************************************************************************)
EXTENDS FiniteSets, Integers

CONSTANTS
    Names,      \* the names that setFileName is called with
    Items,      \* what a list can hold
    None        \* undefined

ASSUME FilesAssumption == None \notin Names \cup Items /\ IsFiniteSet(Items)

VARIABLES
    fileName,   \* of the service object
    files       \* the files, by name; a missing one reads like an empty list

FileOf(list) == [list |-> list, whole |-> TRUE]

StorageTypeOK ==
    /\ fileName \in Names \cup {None}
    /\ files \in [Names -> [list : SUBSET Items, whole : BOOLEAN]]

StorageInit ==
    /\ fileName = None
    /\ files = [n \in Names |-> FileOf({})]

setFileName(n) == fileName' = n

(* read(), then JSON.parse: any error of readFile, a missing name too, is  *)
(* taken for a missing file; what was read may not parse.                  *)
Parses == IF fileName = None THEN TRUE ELSE files[fileName].whole

Parsed == IF fileName = None THEN {} ELSE files[fileName].list

(* write() *)
Truncate(n) == files' = [files EXCEPT ![n] = [list |-> {}, whole |-> FALSE]]

Overwrite(n, list) ==
    files' = [files EXCEPT ![n] = IF Cardinality(list) >= Cardinality(@.list)
                                  THEN FileOf(list) ELSE [@ EXCEPT !.whole = FALSE]]

============================================================================
