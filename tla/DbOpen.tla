-------------------------------- MODULE DbOpen --------------------------------
(***************************************************************************)
(* db_open and db_close of src/c/edu/apue.3e/db/db.c: several processes    *)
(* open, and may create, one database at the same time, and store records. *)
(* open(2) creates and truncates the two files before db_open locks        *)
(* anything; the table of chain heads is written under the lock.  db_store *)
(* is the append of a new record, in the steps by which it reads and       *)
(* changes the index file; module Db has all of its cases.  Two processes  *)
(* that store different records are on different chains.                   *)
(***************************************************************************)
EXTENDS FiniteSets

CONSTANTS Procs,
          Oflags,   \* the sets of flags db_open is called with
          Recs,     \* bound on the records
          None

ASSUME NoneAssumption == None \notin Procs

VARIABLES
  idx,    \* the index file: "absent", "empty", with its "table", or "stray":
          \* not empty, and without a table
  dat,    \* the data file: "absent" or "there"
  recs,   \* the records the table leads to
  lock,   \* the process that holds the lock on the whole index file, or None
  place,  \* process -> where it is in db_open or db_store, "closed" or "open"
  oflag,  \* process -> the flags it called db_open with
  idxfd,  \* process -> whether it could open the index file
  rec     \* process -> the record it stores, or None

ovars == <<idx, dat, recs, lock, place, oflag, idxfd, rec>>

Create == {"creat", "trunc"}
AnyFlags == SUBSET Create

InStore == {"find", "writeidx", "writeptr", "unlockchain"}
OpenTypeOK ==
  /\ idx \in {"absent", "empty", "table", "stray"} /\ dat \in {"absent", "there"}
  /\ recs \subseteq Recs /\ (recs # {} => idx = "table")
  /\ lock \in Procs \cup {None}
  /\ place \in [Procs -> {"closed", "dat", "lock", "stat", "write", "unlock", "open"} \cup InStore]
  /\ oflag \in [Procs -> Oflags \cup {{}}]
  /\ idxfd \in [Procs -> BOOLEAN]
  /\ rec \in [Procs -> Recs \cup {None}]

\* No database yet.
OInit ==
  /\ idx = "absent" /\ dat = "absent" /\ recs = {}
  /\ lock = None
  /\ place = [p \in Procs |-> "closed"]
  /\ oflag = [p \in Procs |-> {}]
  /\ idxfd = [p \in Procs |-> FALSE]
  /\ rec = [p \in Procs |-> None]

Goes(p, from, to) == place[p] = from /\ place' = [place EXCEPT ![p] = to]

\* The first open: it may fail, may create the file and may empty it.
OpenIdx(p) ==
  /\ Goes(p, "closed", "dat")
  /\ \E f \in Oflags, ok \in BOOLEAN :
       /\ ok => idx # "absent" \/ "creat" \in f
       /\ oflag' = [oflag EXCEPT ![p] = f]
       /\ idxfd' = [idxfd EXCEPT ![p] = ok]
       /\ LET empties == ok /\ (idx = "absent" \/ "trunc" \in f)
          IN  /\ idx' = IF empties THEN "empty" ELSE idx
              /\ recs' = IF empties THEN {} ELSE recs
  /\ UNCHANGED <<dat, lock, rec>>

\* The second open, whatever came of the first, and the test of both
\* descriptors: db_open returns NULL when one is missing, and leaves the
\* files as the calls have made them.
OpenDat(p) ==
  /\ place[p] = "dat"
  /\ \E ok \in BOOLEAN :
       /\ ok => dat = "there" \/ "creat" \in oflag[p]
       /\ dat' = IF ok THEN "there" ELSE dat
       /\ place' = [place EXCEPT ![p] =
            IF ~idxfd[p] \/ ~ok THEN "closed"
            ELSE IF Create \subseteq oflag[p] THEN "lock" ELSE "open"]
  /\ UNCHANGED <<idx, recs, lock, oflag, idxfd, rec>>

\* Wrong variant: the lock is not waited for.
LockIdxNot(p) ==
  /\ Goes(p, "lock", "stat")
  /\ UNCHANGED <<idx, dat, recs, lock, oflag, idxfd, rec>>

\* The write lock on the whole file waits for the locks on its chains.
LockIdx(p) ==
  /\ Goes(p, "lock", "stat")
  /\ lock = None /\ \A q \in Procs : place[q] \notin InStore
  /\ lock' = p
  /\ UNCHANGED <<idx, dat, recs, oflag, idxfd, rec>>

\* fstat: only an empty file gets a table.
StatIdx(p) ==
  /\ \/ Goes(p, "stat", "write") /\ idx = "empty"
     \/ Goes(p, "stat", "unlock") /\ idx # "empty"
  /\ UNCHANGED <<idx, dat, recs, lock, oflag, idxfd, rec>>

\* The table, at offset 0: all its pointers are 0.
WriteTable(p) ==
  /\ Goes(p, "write", "unlock")
  /\ idx' = "table" /\ recs' = {}
  /\ UNCHANGED <<dat, lock, oflag, idxfd, rec>>

UnlockIdx(p) ==
  /\ Goes(p, "unlock", "open")
  /\ lock' = None
  /\ UNCHANGED <<idx, dat, recs, oflag, idxfd, rec>>

\* db_store of a new record: the write lock on its chain, held until the end.
StoreLock(p) ==
  /\ Goes(p, "open", "find")
  /\ lock = None
  /\ \E r \in Recs \ recs :
       /\ \A q \in Procs : rec[q] # r
       /\ rec' = [rec EXCEPT ![p] = r]
  /\ UNCHANGED <<idx, dat, recs, lock, oflag, idxfd>>

\* The process is gone, and its locks with it.
Gone(p) ==
  /\ place' = [place EXCEPT ![p] = "closed"]
  /\ oflag' = [oflag EXCEPT ![p] = {}]
  /\ idxfd' = [idxfd EXCEPT ![p] = FALSE]
  /\ rec' = [rec EXCEPT ![p] = None]
  /\ lock' = IF lock = p THEN None ELSE lock

\* Reading the chain and the free list: a pointer that lies past the end of
\* the file ends the process (err_dump), so that an empty file always does;
\* what a file without a table has in its place may be read.
StoreFind(p) ==
  /\ \/ /\ idx # "empty" /\ Goes(p, "find", "writeidx")
        /\ UNCHANGED <<lock, oflag, idxfd, rec>>
     \/ idx # "table" /\ place[p] = "find" /\ Gone(p)
  /\ UNCHANGED <<idx, dat, recs>>

\* The record goes to the end of the file, wherever that is by now.
Grown == IF idx = "empty" THEN "stray" ELSE idx
StoreWriteIdx(p) ==
  /\ Goes(p, "writeidx", "writeptr")
  /\ idx' = Grown
  /\ UNCHANGED <<dat, recs, lock, oflag, idxfd, rec>>

\* The chain head, at its offset in the table.
StoreWritePtr(p) ==
  /\ Goes(p, "writeptr", "unlockchain")
  /\ idx' = Grown
  /\ recs' = IF idx = "table" THEN recs \cup {rec[p]} ELSE recs
  /\ UNCHANGED <<dat, lock, oflag, idxfd, rec>>

StoreUnlock(p) ==
  /\ Goes(p, "unlockchain", "open")
  /\ rec' = [rec EXCEPT ![p] = None]
  /\ UNCHANGED <<idx, dat, recs, lock, oflag, idxfd>>

\* db_close; or a call has failed and err_dump or err_sys ends the process,
\* or it is killed.  A new one may open the database.
Close(p) ==
  /\ place[p] # "closed" /\ Gone(p)
  /\ UNCHANGED <<idx, dat, recs>>

db_store(p) == StoreLock(p) \/ StoreFind(p) \/ StoreWriteIdx(p) \/ StoreWritePtr(p) \/ StoreUnlock(p)
ONext ==
  \E p \in Procs :
    \/ OpenIdx(p) \/ OpenDat(p) \/ LockIdx(p) \/ StatIdx(p) \/ WriteTable(p)
    \/ UnlockIdx(p) \/ db_store(p) \/ Close(p)

OSpec == OInit /\ [][ONext]_ovars

-----------------------------------------------------------------------------
\* A record that was stored stays until an open(2) empties the index file:
\* a process that initialises the database never wipes out the records of
\* another one that was faster.
InitialisesOnce ==
  [][\A r \in recs : r \in recs' \/ idx' = "empty"]_ovars

\* db_open locks the file "so that we can stat it, check its size, and
\* initialize it, atomically": once it has looked at the size, the file has
\* its table, or another open(2) has emptied it since.
InitialisesAtomically ==
  \A p \in Procs : place[p] = "unlock" => idx \in {"table", "empty"}
=============================================================================
