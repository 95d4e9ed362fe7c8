---------------------------------- MODULE Db ----------------------------------
(***************************************************************************)
(* The database library of src/c/edu/apue.3e/db/db.c, used by several      *)
(* processes on one database.  The index file is the list of index records *)
(* idx, preceded by the table of chain heads; the data file is dat.  A     *)
(* file offset is the number of a record, 0 the null chain pointer.  One   *)
(* action is one step a process takes between two points where another     *)
(* process can get in: a lock, a write, a read without a lock.             *)
(***************************************************************************)
EXTENDS Integers, Sequences, FiniteSets

CONSTANTS Procs, Keys, Vals, Chains,
          None,        \* no process, no call, no data
          Blank,       \* a key or data overwritten with spaces
          Hash,        \* key -> the chain it belongs to
          KeyLen,      \* key -> its length
          ValLen,      \* data -> its length
          Uses,        \* process -> the operations it calls
          MaxRecs      \* bound on the records of the index file

Free == "free"           \* the free list, at FREE_OFF
Lists == Chains \cup {Free}
DatEnd == "datend"       \* the lock on all of the data file
IdxEnd == "idxend"       \* the lock on the records of the index file
Locks == Lists \cup {DatEnd, IdxEnd}

ASSUME DbAssumption ==
  /\ MaxRecs \in Nat \ {0}
  /\ Hash \in [Keys -> Chains]
  /\ KeyLen \in [Keys -> Nat] /\ ValLen \in [Vals -> Nat]
  /\ None \notin Procs \cup Vals /\ Blank \notin Keys \cup Vals
  /\ Chains \cap {Free, DatEnd, IdxEnd} = {}
  /\ Uses \in [Procs -> SUBSET {"fetch", "delete", "store", "nextrec"}]

VARIABLES
  idx,      \* the index records: chain ptr, key, lengths, data record
  dat,      \* the data records
  head,     \* list -> the record its head points to
  writer,   \* lock -> the process that holds it for writing, or None
  readers,  \* lock -> the processes that hold it for reading
  pc,       \* process -> where it is in the library
  db,       \* process -> the fields of its DB structure
  pos,      \* process -> the record at its index file offset, 0 for none
  call,     \* process -> the call it is in, or None
  ret,      \* process -> the result of that call, <<>> before it
  kv,       \* history: the map the calls that took effect have made
  stable,   \* history: the keys that stayed put since p's db_rewind
  seen      \* history: how often db_nextrec returned a stable key to p

files == <<idx, dat, head>>
locks == <<writer, readers>>
procV == <<db, pos, call>>
history == <<stable, seen>>
vars == <<files, locks, pc, procV, ret, kv, history>>

NoRec == [idxoff |-> 0, datoff |-> 0, ptroff |-> 0, ptrval |-> 0, idxbuf |-> None]

Map == INSTANCE DbMap

ASSUME CallAssumption == IsFiniteSet(Procs) /\ None \notin Map!Calls

\* A database db_open has just created, opened by every process.
Init ==
  /\ idx = <<>> /\ dat = <<>>
  /\ head = [l \in Lists |-> 0]
  /\ writer = [l \in Locks |-> None]
  /\ readers = [l \in Locks |-> {}]
  /\ pc = [p \in Procs |-> "idle"]
  /\ db = [p \in Procs |-> NoRec]
  /\ pos = [p \in Procs |-> 1]
  /\ call = [p \in Procs |-> None]
  /\ ret = [p \in Procs |-> <<>>]
  /\ kv = [k \in Keys |-> None]
  /\ stable = [p \in Procs |-> {}]
  /\ seen = [p \in Procs |-> [k \in Keys |-> 0]]

-----------------------------------------------------------------------------
(* Lists of index records. *)

\* The n-th record of the list that starts at record r, 0 past its end.
Walk(r) ==
  LET w[n \in 0..MaxRecs] ==
        IF n = 0 THEN r ELSE IF w[n - 1] = 0 THEN 0 ELSE idx[w[n - 1]].ptr
  IN  w

\* The records on list l.
On(l) == {Walk(head[l])[n] : n \in 0..MaxRecs} \ {0}

\* The search loop of _db_find_and_lock and _db_findfree on list l: what
\* precedes the first record that is in match (0 for the list head), and the
\* record (0 if there is none).
Search(l, match) ==
  LET w == Walk(head[l])
      n == CHOOSE n \in 0..MaxRecs :
             /\ w[n] \in match \cup {0}
             /\ \A m \in 0..(n - 1) : w[m] \notin match \cup {0}
  IN  [prev |-> IF n = 0 THEN 0 ELSE w[n - 1], rec |-> w[n]]

\* The index records with key k.
WithKey(k) == {r \in 1..Len(idx) : idx[r].key = k}

\* _db_writeptr of the chain pointer that follows record r on list l, the
\* head of the list when r is 0.
WritePtr(l, r, ptr) ==
  IF r = 0 THEN head' = [head EXCEPT ![l] = ptr] /\ idx' = idx
           ELSE idx' = [idx EXCEPT ![r].ptr = ptr] /\ head' = head

-----------------------------------------------------------------------------
(* fcntl record locks, and moves of a process. *)

WriteLock(p, l) ==
  /\ writer[l] = None /\ readers[l] = {}
  /\ writer' = [writer EXCEPT ![l] = p]
  /\ readers' = readers

ReadLock(p, l) ==
  /\ writer[l] = None
  /\ readers' = [readers EXCEPT ![l] = @ \cup {p}]
  /\ writer' = writer

Release(p, l) ==
  /\ writer' = [writer EXCEPT ![l] = IF @ = p THEN None ELSE @]
  /\ readers' = [readers EXCEPT ![l] = @ \ {p}]

At(p, place) == pc[p] = place
Goto(p, place) == pc' = [pc EXCEPT ![p] = place]
\* Where a call leaves the index file offset; only db_nextrec reads on there.
Seek(p, n) ==
  pos' = IF "nextrec" \in Uses[p] THEN [pos EXCEPT ![p] = n] ELSE pos
Step(p, from, to) == At(p, from) /\ Goto(p, to)
Finish(p, r) == ret' = [ret EXCEPT ![p] = r]
Chain(p) == Hash[call[p].key]

-----------------------------------------------------------------------------
(* Calls. *)

\* Any call but db_nextrec moves the index file offset p scans with.
Invoke(p, c) ==
  /\ At(p, "idle") /\ c.op \in Uses[p]
  /\ call' = [call EXCEPT ![p] = c]
  /\ Goto(p, IF c.op = "nextrec" THEN "nlock" ELSE "find")
  /\ stable' = IF c.op = "nextrec" THEN stable
                                   ELSE [stable EXCEPT ![p] = {}]
  /\ seen' = IF c.op = "nextrec" THEN seen
                                 ELSE [seen EXCEPT ![p] = [k \in Keys |-> 0]]
  /\ UNCHANGED <<files, locks, db, pos, ret, kv>>

\* db_fetch, db_delete.
CallKey(p) ==
  \E c \in [op : {"fetch", "delete"}, key : Keys] : Invoke(p, c)

\* db_store; bounded: a record for every store in progress must fit.
CallStore(p) ==
  /\ Len(idx) + Cardinality({q \in Procs \ {p} :
       call[q] # None /\ call[q].op = "store"}) < MaxRecs
  /\ \E c \in [op : {"store"}, key : Keys, val : Vals, flag : Map!Flags] :
       Invoke(p, c)

CallNextrec(p) == Invoke(p, [op |-> "nextrec"])

\* Keys no process is about to delete or replace.
AtRest == {k \in Keys : kv[k] # None /\ \A q \in Procs :
             call[q] # None /\ call[q].op \in {"store", "delete"}
               => call[q].key # k}

DbRewind(p) ==
  /\ At(p, "idle") /\ "nextrec" \in Uses[p]
  /\ Seek(p, 1)
  /\ stable' = [stable EXCEPT ![p] = AtRest]
  /\ seen' = [seen EXCEPT ![p] = [k \in Keys |-> 0]]
  /\ UNCHANGED <<files, locks, pc, db, call, ret, kv>>

\* The caller's un_lock of the chain, and the return to the application.
Unlock(p) ==
  /\ Step(p, "unlock", "idle")
  /\ Release(p, Chain(p))
  /\ call' = [call EXCEPT ![p] = None]
  /\ Finish(p, <<>>)
  /\ db' = [db EXCEPT ![p] = NoRec]
  /\ UNCHANGED <<files, pos, kv, history>>

-----------------------------------------------------------------------------
(* _db_find_and_lock, and what its caller makes of the result. *)

\* With the chain locked, the loop reads what no other process writes.  It
\* leaves the file offset after the last record it has read.
FindRecord(p, place) ==
  LET s == Search(Chain(p), WithKey(call[p].key))
  IN  /\ Goto(p, place)
      /\ s.rec # 0
      /\ db' = [db EXCEPT ![p].idxoff = s.rec, ![p].datoff = idx[s.rec].dat,
                          ![p].ptroff = s.prev, ![p].ptrval = idx[s.rec].ptr]
      /\ Seek(p, s.rec + 1)
      /\ UNCHANGED <<files, call, kv, history>>

\* The record was not found.  db_store then reads the head of the chain.
FindNone(p, place) ==
  LET s == Search(Chain(p), WithKey(call[p].key))
  IN  /\ Goto(p, place)
      /\ s.rec = 0
      /\ db' = [db EXCEPT ![p].ptrval = head[Chain(p)]]
      /\ Seek(p, IF s.prev = 0 THEN 0 ELSE s.prev + 1)
      /\ UNCHANGED <<files, call, kv, history>>

FetchFind(p) ==
  /\ At(p, "find") /\ call[p].op = "fetch"
  /\ ReadLock(p, Chain(p))
  /\ \/ FindRecord(p, "readdat") /\ UNCHANGED ret
     \/ FindNone(p, "unlock") /\ Finish(p, <<None>>)

DeleteFind(p) ==
  /\ At(p, "find") /\ call[p].op = "delete"
  /\ WriteLock(p, Chain(p))
  /\ \/ FindRecord(p, "dlock") /\ UNCHANGED ret
     \/ FindNone(p, "unlock") /\ Finish(p, <<"absent">>)

\* Wrong variant: DB_INSERT overwrites a record that exists.
StoreFindOverwrites(p) ==
  /\ At(p, "find") /\ call[p].op = "store"
  /\ WriteLock(p, Chain(p))
  /\ \/ FindNone(p, "unlock") /\ call[p].flag = "replace" /\ Finish(p, <<"absent">>)
     \/ FindNone(p, "ffree") /\ call[p].flag # "replace" /\ UNCHANGED ret
     \/ /\ UNCHANGED ret
        /\ \/ /\ FindRecord(p, "over")
              /\ idx[db'[p].idxoff].dlen = ValLen[call[p].val]
           \/ /\ FindRecord(p, "dlock")
              /\ idx[db'[p].idxoff].dlen # ValLen[call[p].val]

StoreFind(p) ==
  /\ At(p, "find") /\ call[p].op = "store"
  /\ WriteLock(p, Chain(p))
  /\ \/ FindNone(p, "unlock") /\ call[p].flag = "replace" /\ Finish(p, <<"absent">>)
     \/ FindNone(p, "ffree") /\ call[p].flag # "replace" /\ UNCHANGED ret
     \/ FindRecord(p, "unlock") /\ call[p].flag = "insert" /\ Finish(p, <<"exists">>)
     \/ /\ call[p].flag # "insert" /\ UNCHANGED ret
        /\ \/ /\ FindRecord(p, "over")
              /\ idx[db'[p].idxoff].dlen = ValLen[call[p].val]
           \/ /\ FindRecord(p, "dlock")
              /\ idx[db'[p].idxoff].dlen # ValLen[call[p].val]

\* _db_readdat, for db_fetch.
FetchData(p) ==
  /\ Step(p, "readdat", "unlock")
  /\ Finish(p, <<dat[db[p].datoff]>>)
  /\ UNCHANGED <<files, locks, procV, kv, history>>

-----------------------------------------------------------------------------
(* _db_dodelete, for db_delete and for a replacement of another length. *)

DeleteLock(p) ==
  /\ Step(p, "dlock", "ddat")
  /\ WriteLock(p, Free)
  /\ UNCHANGED <<files, procV, ret, kv, history>>

DeleteData(p) ==
  /\ Step(p, "ddat", "didx")
  /\ dat' = [dat EXCEPT ![db[p].datoff] = Blank]
  /\ UNCHANGED <<idx, head, locks, procV, ret, kv, history>>

\* The record with a blank key, to be the head of the free list.  The chain
\* pointer it had (saveptr) is still in db[p].ptrval.
DeleteIdx(p) ==
  /\ Step(p, "didx", "dfree")
  /\ idx' = [idx EXCEPT ![db[p].idxoff].key = Blank,
                        ![db[p].idxoff].ptr = head[Free]]
  /\ stable' = [q \in Procs |-> stable[q] \ {call[p].key}]
  /\ UNCHANGED <<dat, head, locks, procV, ret, kv, seen>>

DeleteFree(p) ==
  /\ Step(p, "dfree", "dchain")
  /\ head' = [head EXCEPT ![Free] = db[p].idxoff]
  /\ UNCHANGED <<idx, dat, locks, procV, ret, kv, history>>

\* The record leaves its chain and the free list is unlocked.  db_store then
\* reads the head of the chain again.
DeleteChain(p) ==
  /\ At(p, "dchain")
  /\ WritePtr(Chain(p), db[p].ptroff, db[p].ptrval)
  /\ Release(p, Free)
  /\ db' = [db EXCEPT ![p].ptrval = head'[Chain(p)]]
  /\ Seek(p, 0)
  /\ \/ /\ call[p].op = "delete"
        /\ Goto(p, "unlock") /\ Finish(p, <<"ok">>)
        /\ kv' = [kv EXCEPT ![call[p].key] = None]
     \/ /\ call[p].op = "store"
        /\ Goto(p, "adat") /\ UNCHANGED <<ret, kv>>
  /\ UNCHANGED <<dat, call, history>>

-----------------------------------------------------------------------------
(* The rest of db_store. *)

\* _db_findfree: the free list is locked and searched.
FindFree(p) ==
  LET s == Search(Free, {r \in 1..Len(idx) : /\ idx[r].klen = KeyLen[call[p].key]
                                             /\ idx[r].dlen = ValLen[call[p].val]})
  IN  /\ At(p, "ffree")
      /\ writer[Free] = None /\ readers[Free] = {}
      /\ \/ /\ s.rec = 0
            /\ Goto(p, "adat") /\ UNCHANGED <<locks, db>>
         \/ /\ s.rec # 0
            /\ Goto(p, "ffunlink") /\ WriteLock(p, Free)
            /\ db' = [db EXCEPT ![p].idxoff = s.rec, ![p].ptroff = s.prev,
                                ![p].datoff = idx[s.rec].dat]
      /\ UNCHANGED <<files, pos, call, ret, kv, history>>

\* Wrong variant: the record that is used again stays on the free list.
FreeUnlinkLost(p) ==
  /\ Step(p, "ffunlink", "rdat")
  /\ Release(p, Free)
  /\ UNCHANGED <<files, procV, ret, kv, history>>

FreeUnlink(p) ==
  /\ Step(p, "ffunlink", "rdat")
  /\ WritePtr(Free, db[p].ptroff, idx[db[p].idxoff].ptr)
  /\ Release(p, Free)
  /\ UNCHANGED <<dat, procV, ret, kv, history>>

\* Wrong variant: the seek to the end of the data file takes no lock.
AppendDatSeekUnlocked(p) ==
  /\ Step(p, "adat", "wdat")
  /\ db' = [db EXCEPT ![p].datoff = Len(dat) + 1]
  /\ UNCHANGED <<files, locks, pos, call, ret, kv, history>>

\* _db_writedat and _db_writeidx with SEEK_END: lock, seek, write, unlock.
AppendDatSeek(p) ==
  /\ Step(p, "adat", "wdat")
  /\ WriteLock(p, DatEnd)
  /\ db' = [db EXCEPT ![p].datoff = Len(dat) + 1]
  /\ UNCHANGED <<files, pos, call, ret, kv, history>>

WriteAt(s, r, x) == IF r = Len(s) + 1 THEN Append(s, x) ELSE [s EXCEPT ![r] = x]

AppendDatWrite(p) ==
  /\ Step(p, "wdat", "aidx")
  /\ dat' = WriteAt(dat, db[p].datoff, call[p].val)
  /\ Release(p, DatEnd)
  /\ UNCHANGED <<idx, head, procV, ret, kv, history>>

AppendIdxSeek(p) ==
  /\ Step(p, "aidx", "widx")
  /\ WriteLock(p, IdxEnd)
  /\ db' = [db EXCEPT ![p].idxoff = Len(idx) + 1]
  /\ UNCHANGED <<files, pos, call, ret, kv, history>>

\* The index record of a new record.  From here on a scan finds it; a fetch
\* has to wait for the lock on the chain.
IdxRecord(p) ==
  [ptr |-> db[p].ptrval, key |-> call[p].key, klen |-> KeyLen[call[p].key],
   dat |-> db[p].datoff, dlen |-> ValLen[call[p].val]]

Stored(p) ==
  /\ kv' = [kv EXCEPT ![call[p].key] = call[p].val]
  /\ Finish(p, <<"ok">>)

AppendIdxWrite(p) ==
  /\ Step(p, "widx", "link")
  /\ idx' = WriteAt(idx, db[p].idxoff, IdxRecord(p))
  /\ Release(p, IdxEnd)
  /\ Stored(p)
  /\ UNCHANGED <<dat, head, procV, history>>

\* A free record is used again: the data first, then the index record.
ReuseDat(p) ==
  /\ Step(p, "rdat", "ridx")
  /\ dat' = [dat EXCEPT ![db[p].datoff] = call[p].val]
  /\ UNCHANGED <<idx, head, locks, procV, ret, kv, history>>

ReuseIdx(p) ==
  /\ Step(p, "ridx", "link")
  /\ idx' = [idx EXCEPT ![db[p].idxoff] = IdxRecord(p)]
  /\ Stored(p)
  /\ UNCHANGED <<dat, head, locks, procV, history>>

\* Wrong variant: the head of the chain is not written.
LinkChainLost(p) ==
  /\ Step(p, "link", "unlock")
  /\ Seek(p, 0)
  /\ UNCHANGED <<files, locks, db, call, ret, kv, history>>

LinkChain(p) ==
  /\ Step(p, "link", "unlock")
  /\ head' = [head EXCEPT ![Chain(p)] = db[p].idxoff]
  /\ Seek(p, 0)
  /\ UNCHANGED <<idx, dat, locks, db, call, ret, kv, history>>

\* A replacement of the same length overwrites the data record.
Overwrite(p) ==
  /\ Step(p, "over", "unlock")
  /\ dat' = [dat EXCEPT ![db[p].datoff] = call[p].val]
  /\ Stored(p)
  /\ UNCHANGED <<idx, head, locks, procV, history>>

-----------------------------------------------------------------------------
(* db_nextrec. *)

NextrecLock(p) ==
  /\ Step(p, "nlock", "nidx")
  /\ ReadLock(p, Free)
  /\ UNCHANGED <<files, procV, ret, kv, history>>

\* Wrong variant: an empty record is taken for the end of the file.
NextrecIdxStops(p) ==
  /\ At(p, "nidx") /\ pos[p] # 0
  /\ \/ /\ IF pos[p] > Len(idx) THEN TRUE ELSE idx[pos[p]].key = Blank
        /\ Goto(p, "nunlock") /\ Finish(p, <<"eof">>)
        /\ UNCHANGED <<db, pos>>
     \/ /\ pos[p] <= Len(idx) /\ idx[pos[p]].key # Blank
        /\ Goto(p, "ndat")
        /\ db' = [db EXCEPT ![p].idxbuf = idx[pos[p]].key, ![p].datoff = idx[pos[p]].dat]
        /\ Seek(p, pos[p] + 1)
        /\ UNCHANGED ret
  /\ UNCHANGED <<files, locks, call, kv, history>>

\* Wrong variant: an empty record is read again and again.
NextrecIdxStays(p) ==
  /\ At(p, "nidx") /\ pos[p] # 0
  /\ \/ /\ pos[p] > Len(idx)
        /\ Goto(p, "nunlock") /\ Finish(p, <<"eof">>)
        /\ UNCHANGED <<db, pos>>
     \/ /\ pos[p] <= Len(idx)
        /\ IF idx[pos[p]].key = Blank
             THEN UNCHANGED <<pc, db, pos>>
             ELSE /\ Goto(p, "ndat")
                  /\ db' = [db EXCEPT ![p].idxbuf = idx[pos[p]].key,
                                      ![p].datoff = idx[pos[p]].dat]
                  /\ Seek(p, pos[p] + 1)
        /\ UNCHANGED ret
  /\ UNCHANGED <<files, locks, call, kv, history>>

\* _db_readidx at the current offset: the end of the file, an empty record to
\* skip, or a record.
NextrecIdx(p) ==
  /\ At(p, "nidx") /\ pos[p] # 0
  /\ \/ /\ pos[p] > Len(idx)
        /\ Goto(p, "nunlock") /\ Finish(p, <<"eof">>)
        /\ UNCHANGED <<db, pos>>
     \/ /\ pos[p] <= Len(idx)
        /\ IF idx[pos[p]].key = Blank
             THEN UNCHANGED <<pc, db>>
             ELSE /\ Goto(p, "ndat")
                  /\ db' = [db EXCEPT ![p].idxbuf = idx[pos[p]].key,
                                      ![p].datoff = idx[pos[p]].dat]
        /\ Seek(p, pos[p] + 1)
        /\ UNCHANGED ret
  /\ UNCHANGED <<files, locks, call, kv, history>>

\* The offset is in the table of chain heads or inside a record, where the
\* process's own db_store or db_delete has left it: the length that is read
\* there is not valid, and err_dump ends the process.
NextrecAstray(p) ==
  /\ Step(p, "nidx", "dead")
  /\ pos[p] = 0
  /\ Release(p, Free)
  /\ UNCHANGED <<files, procV, ret, kv, history>>

NextrecData(p) ==
  /\ Step(p, "ndat", "nunlock")
  /\ LET k == db[p].idxbuf
     IN  /\ Finish(p, <<k, dat[db[p].datoff]>>)
         /\ seen' = IF k \in stable[p] THEN [seen EXCEPT ![p][k] = @ + 1]
                                       ELSE seen
  /\ UNCHANGED <<files, locks, procV, kv, stable>>

NextrecUnlock(p) ==
  /\ Step(p, "nunlock", "idle")
  /\ Release(p, Free)
  /\ call' = [call EXCEPT ![p] = None]
  /\ Finish(p, <<>>)
  /\ db' = [db EXCEPT ![p] = NoRec]
  /\ UNCHANGED <<files, pos, kv, history>>

-----------------------------------------------------------------------------
Advance(p) ==
  \/ FetchFind(p) \/ DeleteFind(p) \/ StoreFind(p) \/ FetchData(p)
  \/ DeleteLock(p) \/ DeleteData(p) \/ DeleteIdx(p) \/ DeleteFree(p)
  \/ DeleteChain(p) \/ FindFree(p) \/ FreeUnlink(p)
  \/ AppendDatSeek(p) \/ AppendDatWrite(p)
  \/ AppendIdxSeek(p) \/ AppendIdxWrite(p)
  \/ ReuseDat(p) \/ ReuseIdx(p) \/ LinkChain(p) \/ Overwrite(p)
  \/ NextrecLock(p) \/ NextrecIdx(p) \/ NextrecAstray(p) \/ NextrecData(p)
  \/ NextrecUnlock(p) \/ Unlock(p)

Next ==
  \E p \in Procs :
    \/ Advance(p)
    \/ CallKey(p) \/ CallStore(p) \/ CallNextrec(p) \/ DbRewind(p)

Spec == Init /\ [][Next]_vars

\* A process inside the library goes on as long as it can.  Which of several
\* waiting processes a lock is granted to is left open.
FairSpec == Spec /\ \A p \in Procs : WF_vars(Advance(p))

-----------------------------------------------------------------------------
(* Properties. *)

\* The processes see a map: every call takes effect at once, between its call
\* and its return, whatever other processes do to the same files.
Linearizable == Map!Spec

\* What the file holds for key k: the data of the first record with that key
\* on its chain.
Lookup(k) ==
  LET s == Search(Hash[k], WithKey(k))
  IN  IF s.rec = 0 THEN None ELSE dat[idx[s.rec].dat]

\* Between two operations on a chain, the chain holds exactly what the calls
\* that took effect have made of it.
ChainsAreCurrent ==
  \A k \in Keys : writer[Hash[k]] = None => Lookup(k) = kv[k]

\* The empty records that processes have taken off the free list to use again.
InHand == {db[p].idxoff : p \in {q \in Procs : pc[q] \in {"rdat", "ridx"}}}

\* Whoever gets the lock on a list finds exactly the records that belong on
\* it, and an end: on a chain all used records with a key of that chain, each
\* key once; on the free list all empty records nobody is using again.
ListsAreWhole ==
  /\ \A l \in Lists : writer[l] = None =>
       /\ Walk(head[l])[MaxRecs] = 0
       /\ On(l) = IF l = Free
            THEN {r \in 1..Len(idx) : idx[r].key = Blank} \ InHand
            ELSE {r \in 1..Len(idx) : idx[r].key \in Keys /\ Hash[idx[r].key] = l}
  /\ \A r, s \in 1..Len(idx) : idx[r].key = idx[s].key /\ r # s
       => idx[r].key = Blank

\* No two index records share a data record: a reused or appended pair stays
\* together, and two appends at once get different places.
DataUnshared ==
  \A r, s \in 1..Len(idx) : idx[r].dat = idx[s].dat => r = s

\* A scan that is not disturbed by calls of its own process returns every
\* record that stays in place meanwhile, and returns it once.
ScanIsComplete ==
  \A p \in Procs : \A k \in stable[p] :
    /\ seen[p][k] <= 1
    /\ ret[p] = <<"eof">> => seen[p][k] = 1

\* The processes never all wait for each other, on the locks of two chains,
\* the free list and the ends of the files, and none reads on forever: when
\* all are inside the library, a call returns.
CallsReturn ==
  (\A p \in Procs : call[p] # None) ~> (\E p \in Procs : call[p] = None)
=============================================================================
