------------------------------ MODULE DbProofs ------------------------------
(***************************************************************************)
(* Proofs about the database library (module Db): the lists stay whole,    *)
(* the files hold the map the calls have made, scans are complete, and the *)
(* calls implement the map.                                                *)
(***************************************************************************)
EXTENDS DbTypes, DbRecords

-----------------------------------------------------------------------------
(* The files hold the map. *)

\* A step changes the map at most for the key of its call, and the keys in the
\* index file at most to blanks and to that key.
LEMMA MapKept ==
  ASSUME IInv, NEW p \in Procs, Move(p)
  PROVE  /\ \A k \in Keys : kv'[k] = kv[k] \/ (Writes(p) /\ k = call[p].key)
         /\ \A r \in Recs' : \/ r \in Recs /\ idx'[r].key \in {idx[r].key, Blank}
                             \/ Writes(p) /\ idx'[r].key = call[p].key
<1>t. kv \in [Keys -> Vals \cup {None}] /\ Len(idx) \in Nat
  BY DEF IInv, TypeOK
<1>k. ASSUME NEW v, kv' = [kv EXCEPT ![call[p].key] = v] \/ kv' = kv, Writes(p)
      PROVE  \A k \in Keys : kv'[k] = kv[k] \/ (Writes(p) /\ k = call[p].key)
  BY <1>t, <1>k
<1>0. CASE Quiet(p)
  BY <1>0 DEF Quiet, Recs
<1>1. CASE DeleteData(p) \/ ReuseDat(p) \/ AppendDatWrite(p) \/ DeleteFree(p) \/ LinkChain(p)
  <2>1. kv' = kv /\ idx' = idx
    BY <1>1 DEF DeleteData, ReuseDat, AppendDatWrite, DeleteFree, LinkChain
  <2> QED
    BY <2>1 DEF Recs
<1>2. CASE Overwrite(p)
  <2>1. kv' = [kv EXCEPT ![call[p].key] = call[p].val] /\ idx' = idx /\ Writes(p)
    BY <1>2 DEF Overwrite, Stored, Writes
  <2> QED
    BY <1>k, <2>1 DEF Recs
<1>3. CASE DeleteIdx(p)
  <2>1. kv' = kv
    BY <1>3 DEF DeleteIdx
  <2>2. /\ Len(idx') = Len(idx) /\ idx'[db[p].idxoff].key = Blank
        /\ \A r \in Recs : r # db[p].idxoff => idx'[r] = idx[r]
    BY <1>3, DeleteIdxDoes
  <2> QED
    BY <2>1, <2>2 DEF Recs
<1>4. CASE DeleteChain(p)
  <2>1. (kv' = [kv EXCEPT ![call[p].key] = None] \/ kv' = kv) /\ Writes(p)
    BY <1>4 DEF DeleteChain, Writes
  <2>2. Len(idx') = Len(idx) /\ \A r \in Recs : idx'[r].key = idx[r].key
    BY <1>4, DeleteChainDoes DEF PtrWritten
  <2> QED
    BY <1>k, <2>1, <2>2 DEF Recs
<1>5. CASE FreeUnlink(p)
  <2>1. kv' = kv
    BY <1>5 DEF FreeUnlink
  <2>2. Len(idx') = Len(idx) /\ \A r \in Recs : idx'[r].key = idx[r].key
    BY <1>5, FreeUnlinkDoes DEF PtrWritten
  <2> QED
    BY <2>1, <2>2 DEF Recs
<1>6. CASE AppendIdxWrite(p) \/ ReuseIdx(p)
  <2>1. kv' = [kv EXCEPT ![call[p].key] = call[p].val] /\ Writes(p)
    BY <1>6 DEF AppendIdxWrite, ReuseIdx, Stored, Writes
  <2>2. NewOn(p, db[p].idxoff)
    BY <1>6, AppendIdxWriteLists, ReuseIdxLists
  <2>3. \A r \in Recs' : \/ r \in Recs /\ idx'[r].key = idx[r].key
                         \/ idx'[r].key = call[p].key
    BY <2>2 DEF NewOn
  <2> QED
    BY <1>k, <2>1, <2>3
<1> QED
  BY <1>0, <1>1, <1>2, <1>3, <1>4, <1>5, <1>6, QuietOrWrites, Zenon DEF Writes

\* The others know as much about the map as before.
LEMMA MapOthers ==
  ASSUME IInv, NEW p \in Procs, Move(p), NEW q \in Procs, q # p
  PROVE  MapAt(q)'
<1>1. MapAt(q) /\ pc'[q] = pc[q] /\ call'[q] = call[q]
  BY OthersStay DEF IInv, MapsInv
<1>2. CASE pc[q] \in Deleting \cup Storing
  <2>1. call[q].key \in Keys /\ Blank \notin Keys
    BY <1>2, KeyCall, DbAssumption
       DEF IInv, Deleting, Storing, Reusing, Appending, Scanning
  <2>2. Writes(p) => call[p].key # call[q].key
    BY <1>2, Excludes, WritesAt DEF Chain
  <2>3. kv'[call[q].key] = kv[call[q].key]
    BY <2>1, <2>2, MapKept
  <2>4. (\A r \in Recs : idx[r].key # call[q].key)
          => (\A r \in Recs' : idx'[r].key # call[q].key)
    BY <2>1, <2>2, MapKept
  <2> QED
    BY <1>1, <2>3, <2>4 DEF MapAt
<1>3. CASE pc[q] \notin Deleting \cup Storing
  BY <1>1, <1>3 DEF MapAt, Deleting, Storing, Reusing, Appending
<1> QED
  BY <1>2, <1>3

\* While no process writes to the chain of a key, its record is in the index
\* file, with its data, exactly if it is in the map.
LEMMA KeyMapped ==
  ASSUME IInv, NEW k \in Keys, writer[Hash[k]] = None
  PROVE  /\ \A r \in Recs : idx[r].key = k => kv[k] # None /\ dat[idx[r].dat] = kv[k]
         /\ (\A r \in Recs : idx[r].key # k) => kv[k] = None
<1>1. MapInv
  BY DEF IInv
<1>2. ASSUME NEW q \in Procs, pc[q] \in Deleting \cup Appending
      PROVE  call[q].key # k
  <2>1. writer[Chain(q)] = q
    BY <1>2 DEF IInv, LockInv, LockAt, Deleting, Storing
  <2> QED
    BY <2>1, DbAssumption DEF Chain
<1>3. ASSUME NEW q \in Procs, pc[q] = "didx" PROVE idx[db[q].idxoff].key = call[q].key
  BY <1>3, Zenon DEF IInv, RecordInv, RecordAt
<1> QED
  BY <1>1, <1>2, <1>3 DEF MapInv, Deleting

\* A process that gets the lock on its chain learns whether its key is in the
\* map.
LEMMA FoundIsMapped ==
  ASSUME IInv, NEW p \in Procs, pc[p] = "find", writer[Chain(p)] = None
  PROVE  /\ (\E r \in Recs : idx[r].key = call[p].key) => kv[call[p].key] # None
         /\ (\A r \in Recs : idx[r].key # call[p].key) => kv[call[p].key] = None
<1>1. call[p].key \in Keys
  BY KeyCall DEF IInv, Scanning
<1> QED
  BY <1>1, KeyMapped, Zenon DEF Chain

\* What p itself knows after its step.
LEMMA MapOwn ==
  ASSUME IInv, NEW p \in Procs, Move(p)
  PROVE  MapAt(p)'
<1>t. pc \in [Procs -> Places]
  BY DEF IInv, TypeOK
<1> USE <1>t
<1>m. MapAt(p)
  BY DEF IInv, MapsInv
<1> USE <1>m
<1>1. CASE FetchFind(p) \/ DeleteFind(p) \/ StoreFind(p)
  <2>1. /\ pc[p] = "find" /\ writer[Chain(p)] = None
        /\ UNCHANGED <<idx, dat, head, call, kv>>
        /\ pc'[p] \in {"readdat", "unlock", "dlock", "ffree", "over"}
    BY <1>1, FindDoes
  <2> USE <2>1
  <2>2. \/ Took(p, "readdat") \/ Took(p, "unlock") \/ Missed(p, "unlock")
        \/ Took(p, "dlock") /\ (call[p].op = "store" => call[p].flag # "insert")
        \/ Missed(p, "ffree") /\ call[p].flag # "replace"
        \/ Took(p, "over") /\ call[p].flag # "insert"
    <3>1. CASE FetchFind(p)
      BY <3>1, FetchFindDoes, Zenon
    <3>2. CASE DeleteFind(p)
      BY <3>2, DeleteFindDoes
    <3>3. CASE StoreFind(p)
      BY <3>3, StoreFindDoes
    <3> QED
      BY <1>1, <3>1, <3>2, <3>3, Zenon
  <2>3. CASE pc'[p] = "dlock"
    <3>1. Took(p, "dlock") /\ (call[p].op = "store" => call[p].flag # "insert")
      BY <2>2, <2>3, Zenon DEF Took, Missed
    <3>2. kv[call[p].key] # None
      BY <3>1, FoundIsMapped, Zenon DEF Took
    <3> QED
      BY <2>3, <3>1, <3>2 DEF MapAt, Appending, Reusing
  <2>4. CASE pc'[p] = "ffree"
    <3>1. Missed(p, "ffree") /\ call[p].flag # "replace"
      BY <2>2, <2>4, Zenon DEF Took, Missed
    <3>2. kv[call[p].key] = None
      BY <3>1, FoundIsMapped, Zenon DEF Missed
    <3> QED
      BY <2>4, <3>1, <3>2, Zenon DEF MapAt, Deleting, Appending, Reusing
  <2>5. CASE pc'[p] = "over"
    <3>1. call[p].flag # "insert"
      BY <2>2, <2>5, Zenon DEF Took, Missed
    <3> QED
      BY <2>5, <3>1 DEF MapAt, Deleting, Appending, Reusing
  <2>6. CASE pc'[p] \in {"readdat", "unlock"}
    BY <2>6 DEF MapAt, Deleting, Appending, Reusing
  <2> QED
    BY <2>3, <2>4, <2>5, <2>6
<1>2. CASE DeleteLock(p) \/ DeleteData(p) \/ DeleteFree(p)
  BY <1>2, Zenon
     DEF DeleteLock, DeleteData, DeleteFree, Step, At, Goto, procV, files,
         MapAt, Recs, Deleting, Appending, Reusing
<1>3. CASE DeleteIdx(p)
  <2>1. pc[p] = "didx" /\ pc'[p] = "dfree" /\ call' = call /\ kv' = kv
    BY <1>3 DEF DeleteIdx, Step, At, Goto, procV
  <2>2. /\ db[p].idxoff \in Recs /\ idx[db[p].idxoff].key = call[p].key
        /\ idx'[db[p].idxoff].key = Blank /\ Len(idx') = Len(idx)
        /\ \A r \in Recs : r # db[p].idxoff => idx'[r] = idx[r]
    BY <1>3, DeleteIdxDoes, Zenon
  <2>3. call[p].key \in Keys /\ Blank \notin Keys /\ FileInv
    BY <2>1, KeyCall, DbAssumption DEF IInv, Scanning
  <2>4. \A r \in Recs' : idx'[r].key # call[p].key
    BY <2>2, <2>3, Zenon DEF FileInv, Recs
  <2> QED
    BY <2>1, <2>4 DEF MapAt, Deleting, Appending, Reusing
<1>4. CASE DeleteChain(p)
  <2>1. /\ pc[p] = "dchain" /\ call' = call
        /\ pc'[p] = "unlock" \/ (pc'[p] = "adat" /\ kv' = kv /\ call[p].op = "store")
    BY <1>4 DEF DeleteChain, At, Goto
  <2>2. \A r \in Recs' : idx'[r].key # call[p].key
    <3>1. Len(idx') = Len(idx) /\ \A r \in Recs : idx'[r].key = idx[r].key
      BY <1>4, DeleteChainDoes, Zenon DEF PtrWritten
    <3> QED
      BY <2>1, <3>1, Zenon DEF MapAt, Recs
  <2> QED
    BY <2>1, <2>2, Zenon DEF MapAt, Deleting, Appending, Reusing
<1>5. CASE FindFree(p)
  <2>1. /\ pc[p] = "ffree" /\ pc'[p] \in {"adat", "ffunlink"}
        /\ UNCHANGED <<idx, call, kv>>
    BY <1>5, FindFreeDoes, Zenon
  <2>2. \A r \in Recs : idx[r].key # call[p].key
    BY <2>1, NoSuchKey, Zenon DEF Reusing
  <2> QED
    BY <2>1, <2>2, Zenon DEF MapAt, Recs, Deleting, Appending, Reusing
<1>6. CASE FreeUnlink(p) \/ ReuseDat(p)
  BY <1>6, Zenon
     DEF FreeUnlink, ReuseDat, Step, At, Goto, procV, MapAt, Deleting,
         Appending, Reusing
<1>7. CASE AppendDatSeek(p) \/ AppendDatWrite(p) \/ AppendIdxSeek(p)
  BY <1>7
     DEF AppendDatSeek, AppendDatWrite, AppendIdxSeek, Step, At, Goto, procV,
         files, MapAt, Recs, Deleting, Appending, Reusing
<1>e. CASE pc'[p] \notin Deleting \cup Reusing \cup Appending \cup {"over"}
  BY <1>e, Zenon DEF MapAt, Deleting
<1> QED
  BY <1>1, <1>2, <1>3, <1>4, <1>5, <1>6, <1>7, <1>e, Enters
     DEF Deleting, Reusing, Appending

\* Every step keeps what each call knows of its key.
LEMMA MapsStep ==
  ASSUME IInv, NEW p \in Procs, Move(p)
  PROVE  MapsInv'
  BY MapOthers, MapOwn DEF MapsInv

\* Every record in the index file is in the map, with its data unless a
\* process has blanked it.
LEMMA RecordsMapped ==
  ASSUME IInv, NEW p \in Procs, Move(p), NEW r \in Recs', idx'[r].key \in Keys
  PROVE  /\ kv'[idx'[r].key] # None
         /\ \/ dat'[idx'[r].dat] = kv'[idx'[r].key]
            \/ \E q \in Procs : pc'[q] = "didx" /\ db'[q].idxoff = r
<1> DEFINE k == idx'[r].key
           x == db[p].idxoff
<1>t. Len(idx) \in Nat /\ Len(dat) \in Nat /\ pc \in [Procs -> Places]
      /\ kv \in [Keys -> Vals \cup {None}] /\ Blank \notin Keys /\ None \notin Vals
  BY DbAssumption DEF IInv, TypeOK
<1>i. MapInv /\ FileInv /\ RecordAt(p) /\ MapAt(p)
  BY DEF IInv, RecordInv, MapsInv
<1> USE <1>i
<1> USE <1>t
<1>k. ASSUME r \in Recs, idx'[r].key = idx[r].key, kv'[k] = kv[k],
             dat'[idx[r].dat] = dat[idx[r].dat], pc[p] # "didx" \/ x # r
      PROVE  /\ kv'[k] # None
             /\ \/ dat'[idx'[r].dat] = kv'[k]
                \/ \E q \in Procs : pc'[q] = "didx" /\ db'[q].idxoff = r
  <2> USE <1>k
  <2>1. /\ kv[k] # None
        /\ \/ dat[idx[r].dat] = kv[k]
           \/ \E q \in Procs : pc[q] = "didx" /\ db[q].idxoff = r
    BY Zenon DEF MapInv
  <2>2. idx'[r].dat = idx[r].dat
    BY DataKept, Zenon
  <2>3. ASSUME NEW q \in Procs, pc[q] = "didx", db[q].idxoff = r
        PROVE  pc'[q] = "didx" /\ db'[q].idxoff = r
    BY <2>3, OthersStay, Zenon
  <2> QED
    BY <2>1, <2>2, <2>3, Zenon
<1> USE <1>k
<1>0. CASE Quiet(p)
  BY <1>0, Zenon DEF Quiet, Recs
<1>1. CASE AppendIdxWrite(p) \/ ReuseIdx(p)
  <2>1. /\ pc[p] \in {"widx", "ridx"} /\ dat' = dat
        /\ kv' = [kv EXCEPT ![call[p].key] = call[p].val]
    BY <1>1, Zenon DEF AppendIdxWrite, ReuseIdx, Stored, Step, At
  <2> USE <2>1
  <2>2. NewOn(p, x)
    BY <1>1, AppendIdxWriteLists, ReuseIdxLists, Zenon
  <2>3. call[p].key \in Keys /\ call[p].val \in Vals
    BY KeyCall, Zenon
       DEF IInv, CallInv, CallAt, Storing, Reusing, Appending, Scanning
  <2>4. CASE r = x
    BY <2>2, <2>3, <2>4, Zenon DEF NewOn, RecordAt
  <2>5. CASE r # x
    <3>1. r \in Recs /\ idx'[r] = idx[r]
      BY <2>2, <2>5, Zenon DEF NewOn
    <3>2. idx[r].key # call[p].key
      BY <3>1, NoSuchKey, Zenon DEF MapAt, Reusing, Appending
    <3> QED
      BY <3>1, <3>2, SMTT(30)
  <2> QED
    BY <2>4, <2>5, Zenon
<1>2. CASE DeleteIdx(p)
  <2>1. /\ Len(idx') = Len(idx) /\ idx'[x].key = Blank
        /\ \A s \in Recs : s # x => idx'[s] = idx[s]
    BY <1>2, DeleteIdxDoes, Zenon
  <2> QED
    BY <1>2, <2>1, Zenon DEF DeleteIdx, Recs
<1>3. CASE DeleteChain(p)
  <2>1. /\ pc[p] = "dchain" /\ dat' = dat
        /\ kv' = kv \/ kv' = [kv EXCEPT ![call[p].key] = None]
    BY <1>3 DEF DeleteChain, At
  <2>2. r \in Recs /\ idx'[r].key = idx[r].key
    BY <1>3, DeleteChainDoes, Zenon DEF PtrWritten, Recs
  <2> QED
    BY <2>1, <2>2, Zenon DEF MapAt
<1>4. CASE FreeUnlink(p)
  <2>1. r \in Recs /\ idx'[r].key = idx[r].key
    BY <1>4, FreeUnlinkDoes, Zenon DEF PtrWritten, Recs
  <2> QED
    BY <1>4, <2>1, Zenon DEF FreeUnlink, Step, At
<1>5. CASE DeleteFree(p) \/ LinkChain(p)
  BY <1>5 DEF DeleteFree, LinkChain, Step, At, Recs
<1>6. CASE DeleteData(p)
  <2>1. /\ pc[p] = "ddat" /\ pc'[p] = "didx" /\ db' = db /\ idx' = idx /\ kv' = kv
    BY <1>6, Zenon DEF DeleteData, Step, At, Goto, procV
  <2> USE <2>1
  <2>2. CASE r = x
    BY <2>2, Zenon DEF MapInv, Recs
  <2>3. CASE r # x
    <3>1. /\ \A j \in 1..Len(dat) : j # db[p].datoff => dat'[j] = dat[j]
          /\ db[p].datoff = idx[x].dat /\ x \in Recs
      BY <1>6, DeleteDataDoes, Zenon DEF DataWritten, RecordAt
    <3>2. dat'[idx[r].dat] = dat[idx[r].dat] /\ r \in Recs
      BY <2>3, <3>1, Zenon DEF FileInv, Recs
    <3> QED
      BY <3>2, Zenon
  <2> QED
    BY <2>2, <2>3, Zenon
<1>7. CASE ReuseDat(p)
  <2>1. /\ pc[p] = "rdat" /\ idx' = idx /\ kv' = kv
    BY <1>7, Zenon DEF ReuseDat, Step, At
  <2>2. /\ \A j \in 1..Len(dat) : j # db[p].datoff => dat'[j] = dat[j]
        /\ db[p].datoff = idx[x].dat /\ x \in Recs /\ idx[x].key = Blank
    BY <1>7, <2>1, ReuseDatDoes, Zenon DEF DataWritten, RecordAt, Holding
  <2>3. dat'[idx[r].dat] = dat[idx[r].dat] /\ r \in Recs
    BY <2>1, <2>2, Zenon DEF FileInv, Recs
  <2> QED
    BY <2>1, <2>3, Zenon
<1>8. CASE Overwrite(p)
  <2>1. /\ pc[p] = "over" /\ idx' = idx
        /\ kv' = [kv EXCEPT ![call[p].key] = call[p].val]
    BY <1>8, Zenon DEF Overwrite, Step, At, Stored
  <2> USE <2>1
  <2>2. /\ \A j \in 1..Len(dat) : dat'[j] = IF j = db[p].datoff THEN call[p].val ELSE dat[j]
        /\ db[p].datoff = idx[x].dat /\ x \in Recs /\ idx[x].key = call[p].key
    BY <1>8, OverwriteDoes, Zenon DEF DataWritten, RecordAt
  <2>3. call[p].key \in Keys /\ call[p].val \in Vals
    BY KeyCall, Zenon
       DEF IInv, CallInv, CallAt, Storing, Reusing, Appending, Scanning
  <2>4. r \in Recs /\ idx[r].dat \in 1..Len(dat) /\ k = idx[r].key
    BY Zenon DEF FileInv, Recs
  <2>5. CASE r = x
    BY <2>2, <2>3, <2>4, <2>5, Zenon
  <2>6. CASE r # x
    <3>1. idx[r].dat # db[p].datoff /\ k # call[p].key
      BY <2>2, <2>4, <2>6, SMTT(30) DEF FileInv
    <3> QED
      BY <2>2, <2>4, <3>1, Zenon
  <2> QED
    BY <2>5, <2>6, Zenon
<1>9. CASE AppendDatWrite(p)
  <2>1. pc[p] = "wdat" /\ idx' = idx /\ kv' = kv
    BY <1>9, Zenon DEF AppendDatWrite, Step, At
  <2>2. \A j \in 1..Len(dat) : dat'[j] = dat[j]
    BY <1>9, AppendDatWriteDoes, Zenon
  <2>3. r \in Recs /\ idx[r].dat \in 1..Len(dat)
    BY <2>1 DEF FileInv, Recs
  <2> QED
    BY <2>1, <2>2, <2>3, Zenon
<1> QED
  BY <1>0, <1>1, <1>2, <1>3, <1>4, <1>5, <1>6, <1>7, <1>8, <1>9, QuietOrWrites,
     Zenon
     DEF Writes

\* Every key of the map is in the index file, unless a process replaces its
\* record or has not finished to delete it.
LEMMA MappedRecords ==
  ASSUME IInv, NEW p \in Procs, Move(p), NEW k \in Keys, kv'[k] # None
  PROVE  \/ \E r \in Recs' : idx'[r].key = k
         \/ \E q \in Procs : /\ pc'[q] \in {"dfree", "dchain"} \cup Appending
                             /\ call'[q].key = k
<1>t. /\ pc \in [Procs -> Places] /\ kv \in [Keys -> Vals \cup {None}]
      /\ call \in [Procs -> Map!Calls \cup {None}]
  BY DEF IInv, TypeOK
<1>1. CASE AppendIdxWrite(p) \/ ReuseIdx(p)
  <2>1. NewOn(p, db[p].idxoff)
    BY <1>1, AppendIdxWriteLists, ReuseIdxLists
  <2>2. CASE k = call[p].key
    BY <2>1, <2>2 DEF NewOn
  <2>3. CASE k # call[p].key
    <3>1. kv'[k] = kv[k]
      BY <2>3, MapKept
    <3>2. \/ \E r \in Recs : idx[r].key = k
          \/ \E q \in Procs : /\ pc[q] \in {"dfree", "dchain"} \cup Appending
                              /\ call[q].key = k
      BY <3>1 DEF IInv, MapInv
    <3>3. ASSUME NEW r \in Recs, idx[r].key = k
          PROVE  r \in Recs' /\ idx'[r].key = k
      BY <1>1, <3>3, DataKept, Zenon
         DEF AppendIdxWrite, ReuseIdx, DeleteIdx, Step, At
    <3>4. ASSUME NEW q \in Procs, pc[q] \in {"dfree", "dchain"} \cup Appending,
                 call[q].key = k
          PROVE  pc'[q] = pc[q] /\ call'[q].key = k
      BY <2>3, <3>4, OthersStay
    <3> QED
      BY <3>2, <3>3, <3>4
  <2> QED
    BY <2>2, <2>3
<1>2. CASE Overwrite(p) /\ k = call[p].key
  <2>1. pc[p] = "over" /\ idx' = idx
    BY <1>2 DEF Overwrite, Step, At
  <2>2. db[p].idxoff \in Recs /\ idx[db[p].idxoff].key = k
    BY <1>2, <2>1, Zenon DEF IInv, RecordInv, RecordAt
  <2> QED
    BY <2>1, <2>2 DEF Recs
<1>3. CASE ~AppendIdxWrite(p) /\ ~ReuseIdx(p) /\ ~(Overwrite(p) /\ k = call[p].key)
  <2>1. kv[k] # None
    <3>1. CASE Quiet(p)
      BY <3>1 DEF Quiet
    <3>2. CASE Overwrite(p)
      BY <1>3, <3>2, MapKept, Zenon
    <3>3. CASE DeleteChain(p)
      BY <1>t, <3>3 DEF DeleteChain
    <3>4. CASE \/ DeleteData(p) \/ ReuseDat(p) \/ AppendDatWrite(p)
               \/ DeleteIdx(p) \/ DeleteFree(p) \/ FreeUnlink(p) \/ LinkChain(p)
      <4>1. kv' = kv
        BY <3>4
           DEF DeleteData, ReuseDat, AppendDatWrite, DeleteIdx, DeleteFree,
               FreeUnlink, LinkChain
      <4> QED
        BY <4>1
    <3> QED
      BY <1>3, <3>1, <3>2, <3>3, <3>4, QuietOrWrites DEF Writes
  <2>2. CASE \E r \in Recs : idx[r].key = k
    <3>1. PICK r \in Recs : idx[r].key = k
      BY <2>2
    <3>2. CASE ~DeleteIdx(p)
      BY <3>1, <3>2, DataKept
    <3>3. CASE DeleteIdx(p)
      <4>1. /\ db[p].idxoff \in Recs /\ idx[db[p].idxoff].key = call[p].key
            /\ Len(idx') = Len(idx)
            /\ \A s \in Recs : s # db[p].idxoff => idx'[s] = idx[s]
        BY <3>3, DeleteIdxDoes
      <4>2. pc'[p] = "dfree" /\ call' = call
        BY <1>t, <3>3 DEF DeleteIdx, Step, At, Goto, procV
      <4> QED
        BY <3>1, <4>1, <4>2 DEF Recs
    <3> QED
      BY <3>2, <3>3
  <2>3. ASSUME NEW q \in Procs, pc[q] \in {"dfree", "dchain"} \cup Appending,
               call[q].key = k
        PROVE  pc'[q] \in {"dfree", "dchain"} \cup Appending /\ call'[q].key = k
    <3>1. CASE q # p
      BY <2>3, <3>1, OthersStay
    <3>2. CASE q = p
      <4>1. \/ DeleteFree(p) \/ DeleteChain(p)
            \/ AppendDatSeek(p) \/ AppendDatWrite(p) \/ AppendIdxSeek(p)
        BY <1>3, <2>3, <3>2, Leaves, Zenon DEF Appending
      <4> QED
        BY <1>t, <2>3, <3>2, <4>1
           DEF DeleteFree, DeleteChain, AppendDatSeek, AppendDatWrite,
               AppendIdxSeek, Step, At, Goto, procV, Appending
    <3> QED
      BY <3>1, <3>2
  <2>4. \/ \E r \in Recs : idx[r].key = k
        \/ \E q \in Procs : /\ pc[q] \in {"dfree", "dchain"} \cup Appending
                            /\ call[q].key = k
    BY <2>1, Zenon DEF IInv, MapInv
  <2> QED
    BY <2>2, <2>3, <2>4, Zenon
<1> QED
  BY <1>1, <1>2, <1>3, Zenon

\* Every step keeps the files and the map equal.
LEMMA MapStep ==
  ASSUME IInv, NEW p \in Procs, Move(p)
  PROVE  MapInv'
  BY RecordsMapped, MappedRecords DEF MapInv

-----------------------------------------------------------------------------
(* The chains stay whole. *)

Unlinked == {"link", "dfree", "dchain"}

\* The chain a process works on is whole before it unlinks or adds a record.
LEMMA OwnChain ==
  ASSUME IInv, NEW p \in Procs, pc[p] \in (Deleting \cup Storing) \ Unlinked
  PROVE  /\ ListOf(head[Chain(p)], Ptr, OnChain(Chain(p))) /\ Chain(p) \in Chains
         /\ 0 \notin OnChain(Chain(p)) /\ OnChain(Chain(p)) \subseteq Recs
<1>1. Chain(p) \in Chains
  BY KeyCall DEF IInv, Deleting, Storing, Reusing, Appending, Scanning
<1>2. \A q \in Procs : pc[q] \in Unlinked => Chain(q) # Chain(p)
  BY Excludes DEF Unlinked, Deleting, Storing
<1>3. ListOf(head[Chain(p)], Ptr, OnChain(Chain(p)))
  BY <1>1, <1>2 DEF IInv, ChainInv, Unlinked
<1>4. 0 \notin Recs
  BY FileSize DEF IInv, Recs
<1> QED
  BY <1>1, <1>3, <1>4 DEF OnChain

\* What the steps of p leave of a chain that is not its own.
LEMMA ChainFrame ==
  ASSUME IInv, NEW p \in Procs, NEW l \in Chains, OtherChainKept(l)
  PROVE  /\ ListOf(head[l], Ptr, OnChain(l)) => ListOf(head'[l], Ptr', OnChain(l)')
         /\ \A x : ListOf(head[l], Ptr, OnChain(l) \ {x})
                     => ListOf(head'[l], Ptr', OnChain(l)' \ {x})
         /\ \A q \in Procs :
              (/\ Chain(q) = l /\ db'[q] = db[q] /\ call'[q] = call[q]
               /\ ListOf(Rehead(q), Relinked(q), OnChain(l)))
                => ListOf(Rehead(q)', Relinked(q)', OnChain(l)')
<1>1. /\ head'[l] = head[l] /\ OnChain(l)' = OnChain(l)
      /\ \A r \in OnChain(l) : /\ r \in Recs' /\ r \in Recs
                               /\ idx'[r].ptr = idx[r].ptr /\ Ptr'[r] = Ptr[r]
  BY Zenon DEF OtherChainKept, OnChain
<1> USE <1>1
<1>2. ASSUME ListOf(head[l], Ptr, OnChain(l)) PROVE ListOf(head'[l], Ptr', OnChain(l)')
  BY <1>2, ListFrame, Zenon
<1>3. ASSUME NEW x, ListOf(head[l], Ptr, OnChain(l) \ {x})
      PROVE  ListOf(head'[l], Ptr', OnChain(l)' \ {x})
  <2>1. \A r \in OnChain(l) \ {x} : Ptr'[r] = Ptr[r]
    BY Zenon
  <2> QED
    BY <1>3, <2>1, ListFrame, Zenon
<1>4. ASSUME NEW q \in Procs, Chain(q) = l, db'[q] = db[q], call'[q] = call[q],
             ListOf(Rehead(q), Relinked(q), OnChain(l))
      PROVE  ListOf(Rehead(q)', Relinked(q)', OnChain(l)')
  <2>1. Rehead(q)' = Rehead(q)
    BY <1>4, Zenon DEF Rehead, Chain
  <2>2. \A r \in OnChain(l) : Relinked(q)'[r] = Relinked(q)[r]
    BY <1>4, Zenon DEF Relinked
  <2> QED
    BY <1>4, <2>1, <2>2, ListFrame
<1> QED
  BY <1>2, <1>3, <1>4, Zenon

\* The chains of the others, and all chains when p does not write.
LEMMA ChainOthers ==
  ASSUME IInv, NEW p \in Procs, Move(p)
  PROVE  /\ \A l \in Chains :
              (/\ Quiet(p) \/ l # Chain(p)
               /\ \A q \in Procs : pc'[q] \in Unlinked => Chain(q)' # l)
                => ListOf(head'[l], Ptr', OnChain(l)')
         /\ \A q \in Procs \ {p} : pc'[q] = "link" =>
              ListOf(head'[Chain(q)'], Ptr', OnChain(Chain(q))' \ {db'[q].idxoff})
         /\ \A q \in Procs \ {p} : pc'[q] \in {"dfree", "dchain"} =>
              ListOf(Rehead(q)', Relinked(q)', OnChain(Chain(q))')
<1>1. ASSUME NEW l \in Chains, Quiet(p) \/ l # Chain(p),
             \A q \in Procs : pc'[q] \in Unlinked => Chain(q)' # l
      PROVE  ListOf(head'[l], Ptr', OnChain(l)')
  <2>1. ASSUME NEW q \in Procs, pc[q] \in Unlinked PROVE Chain(q) # l
    <3>1. CASE q = p
      BY <1>1, <2>1, <3>1, Zenon DEF Quiet, Unlinked
    <3>2. CASE q # p
      BY <1>1, <2>1, <3>2, OthersStay DEF Chain
    <3> QED
      BY <3>1, <3>2
  <2>2. ListOf(head[l], Ptr, OnChain(l))
    BY <2>1 DEF IInv, ChainInv, Unlinked
  <2>3. OtherChainKept(l)
    BY <1>1, OtherChains
  <2> QED
    BY <2>2, <2>3, ChainFrame, Zenon
<1>2. ASSUME NEW q \in Procs \ {p}, pc'[q] \in Unlinked
      PROVE  /\ OtherChainKept(Chain(q)) /\ Chain(q) \in Chains
             /\ pc'[q] = pc[q] /\ db'[q] = db[q] /\ call'[q] = call[q] /\ Chain(q)' = Chain(q)
  <2>1. pc'[q] = pc[q] /\ db'[q] = db[q] /\ call'[q] = call[q] /\ Chain(q)' = Chain(q)
    BY OthersStay DEF Chain
  <2>2. Chain(q) \in Chains
    BY <1>2, <2>1, KeyCall DEF IInv, Unlinked, Scanning
  <2>3. Quiet(p) \/ Chain(q) # Chain(p)
    BY <1>2, <2>1, Excludes, WritesAt, QuietOrWrites, Zenon
       DEF Unlinked, Deleting, Storing
  <2> QED
    BY <2>1, <2>2, <2>3, OtherChains, Zenon
<1> USE <1>2
<1>3. ASSUME NEW q \in Procs \ {p}, pc'[q] = "link"
      PROVE  ListOf(head'[Chain(q)'], Ptr', OnChain(Chain(q))' \ {db'[q].idxoff})
  <2>1. ListOf(head[Chain(q)], Ptr, OnChain(Chain(q)) \ {db[q].idxoff})
    BY <1>3, Zenon DEF IInv, ChainInv, Unlinked
  <2> DEFINE l == Chain(q)
  <2>2. ListOf(head'[l], Ptr', OnChain(l)' \ {db[q].idxoff})
    BY <1>3, <2>1, ChainFrame, Zenon DEF Unlinked
  <2>3. OnChain(Chain(q))' = OnChain(l)' /\ Chain(q)' = l /\ db'[q] = db[q]
    BY <1>3, Zenon DEF Unlinked, OnChain
  <2> QED
    BY <2>2, <2>3, Zenon
<1>4. ASSUME NEW q \in Procs \ {p}, pc'[q] \in {"dfree", "dchain"}
      PROVE  ListOf(Rehead(q)', Relinked(q)', OnChain(Chain(q))')
  <2>1. ListOf(Rehead(q), Relinked(q), OnChain(Chain(q)))
    BY <1>4, Zenon DEF IInv, ChainInv, Unlinked
  <2> DEFINE l == Chain(q)
  <2>2. ListOf(Rehead(q)', Relinked(q)', OnChain(l)')
    BY <1>4, <2>1, ChainFrame, Zenon DEF Unlinked
  <2>3. OnChain(Chain(q))' = OnChain(l)'
    BY <1>4, Zenon DEF Unlinked, OnChain
  <2> QED
    BY <2>2, <2>3, Zenon
<1> QED
  BY <1>1, <1>3, <1>4, Zenon

\* The chain of p after a write of p.
LEMMA ChainOwn ==
  ASSUME IInv, NEW p \in Procs, Move(p)
  PROVE  /\ pc'[p] = "link" =>
              ListOf(head'[Chain(p)'], Ptr', OnChain(Chain(p))' \ {db'[p].idxoff})
         /\ pc'[p] \in {"dfree", "dchain"} =>
              ListOf(Rehead(p)', Relinked(p)', OnChain(Chain(p))')
         /\ Writes(p) /\ pc'[p] \notin Unlinked =>
              ListOf(head'[Chain(p)], Ptr', OnChain(Chain(p))') /\ Chain(p)' = Chain(p)
<1> DEFINE x == db[p].idxoff
<1>t. /\ pc \in [Procs -> Places] /\ head \in [Lists -> Nat] /\ Len(idx) \in Nat
      /\ Blank \notin Keys
  BY DbAssumption DEF IInv, TypeOK
<1> USE <1>t
<1>1. CASE AppendIdxWrite(p) \/ ReuseIdx(p)
  <2>1. /\ pc[p] \in {"widx", "ridx"} /\ pc'[p] = "link" /\ head' = head /\ db' = db
        /\ Chain(p)' = Chain(p)
    BY <1>1, Zenon DEF AppendIdxWrite, ReuseIdx, Step, At, Goto, procV, Chain
  <2>2. NewOn(p, x)
    BY <1>1, AppendIdxWriteLists, ReuseIdxLists
  <2>3. ListOf(head[Chain(p)], Ptr, OnChain(Chain(p))) /\ OnChain(Chain(p)) \subseteq Recs
    BY <2>1, OwnChain DEF Storing, Reusing, Appending, Unlinked
  <2>4. OnChain(Chain(p))' \ {x} = OnChain(Chain(p))
    BY <2>1, <2>2, Zenon DEF NewOn
  <2>5. \A r \in OnChain(Chain(p)) : Ptr'[r] = Ptr[r]
    BY <2>2, <2>3, Zenon DEF NewOn
  <2>6. ListOf(head[Chain(p)], Ptr', OnChain(Chain(p)))
    BY <2>3, <2>5, ListFrame
  <2> QED
    BY <2>1, <2>4, <2>6, Zenon DEF Unlinked
<1>2. CASE DeleteIdx(p)
  <2>1. /\ pc[p] = "didx" /\ pc'[p] = "dfree" /\ head' = head /\ db' = db
        /\ Chain(p)' = Chain(p)
    BY <1>2 DEF DeleteIdx, Step, At, Goto, procV, Chain
  <2> USE <2>1
  <2> DEFINE S == OnChain(Chain(p))
             y == db[p].ptroff
  <2>2. /\ Recs' = Recs /\ x \in S
        /\ OnChain(Chain(p))' = S \ {x}
        /\ \A r \in Recs : r # x => Ptr'[r] = Ptr[r]
    BY <1>2, DeleteIdxLists, Zenon
  <2> USE <2>2
  <2>3. ListOf(head[Chain(p)], Ptr, S) /\ 0 \notin S /\ S \subseteq Recs
    BY OwnChain, Zenon DEF Deleting, Unlinked
  <2>4. Follows(head[Chain(p)], Ptr, S, y, x) /\ db[p].ptrval = idx[x].ptr
    BY Zenon DEF IInv, RecordInv, RecordAt
  <2>5. y \in S \cup {0} /\ IF y = 0 THEN head[Chain(p)] = x ELSE Ptr[y] = x /\ y # x
    BY <2>4, Zenon DEF Follows
  <2>6. Ptr[x] = db[p].ptrval
    BY <2>3, <2>4, Zenon DEF Ptr, Recs
  <2>7. /\ y # 0 => Relinked(p)'[y] = Ptr[x]
        /\ \A z \in S \ {x, y} : Relinked(p)'[z] = Ptr[z]
    BY <2>3, <2>5, <2>6, Zenon DEF Relinked, Ptr, Recs
  <2>8. Rehead(p)' = IF y = 0 THEN Ptr[x] ELSE head[Chain(p)]
    BY <2>6, Zenon DEF Rehead
  <2>9. ListOf(IF y = 0 THEN Ptr[x] ELSE head[Chain(p)], Relinked(p)', S \ {x})
    <3> HIDE DEF S, x, y
    <3> QED
      BY <2>3, <2>5, <2>7, ListRemove, Zenon
  <2> QED
    BY <2>8, <2>9, Zenon DEF Unlinked
<1>3. CASE DeleteFree(p)
  <2>1. /\ pc[p] = "dfree" /\ pc'[p] = "dchain" /\ db' = db /\ idx' = idx
        /\ Chain(p)' = Chain(p) /\ head' = [head EXCEPT ![Free] = x]
    BY <1>3 DEF DeleteFree, Step, At, Goto, procV, Chain
  <2> USE <2>1
  <2>2. Chain(p) \in Chains /\ Chain(p) \in Lists /\ Chain(p) # Free
    BY KeyCall, LockNames, Zenon DEF IInv, Scanning
  <2>3. ListOf(Rehead(p), Relinked(p), OnChain(Chain(p)))
    BY Zenon DEF IInv, ChainInv
  <2>4. Rehead(p)' = Rehead(p) /\ Relinked(p)' = Relinked(p)
        /\ OnChain(Chain(p))' = OnChain(Chain(p))
    BY <2>2 DEF Rehead, Relinked, OnChain, Recs
  <2> QED
    BY <2>3, <2>4, Zenon DEF Unlinked
<1>4. CASE DeleteChain(p)
  <2>1. pc[p] = "dchain" /\ pc'[p] \in {"unlock", "adat"} /\ Chain(p)' = Chain(p)
    BY <1>4 DEF DeleteChain, At, Goto, Chain
  <2>2. ListOf(Rehead(p), Relinked(p), OnChain(Chain(p)))
    BY <2>1, Zenon DEF IInv, ChainInv
  <2>3. head'[Chain(p)] = Rehead(p)
    BY <1>4, DeleteChainDoes, Zenon
  <2>4. Ptr' = Relinked(p) /\ OnChain(Chain(p))' = OnChain(Chain(p))
    BY <1>4, <2>1, DeleteChainLists
  <2> QED
    BY <2>1, <2>2, <2>3, <2>4, Zenon DEF Unlinked
<1>5. CASE LinkChain(p)
  <2>1. /\ pc[p] = "link" /\ pc'[p] = "unlock" /\ Chain(p)' = Chain(p)
        /\ head' = [head EXCEPT ![Chain(p)] = x]
    BY <1>5, Zenon DEF LinkChain, Step, At, Goto, Chain
  <2> USE <2>1
  <2> DEFINE S == OnChain(Chain(p)) \ {x}
  <2>2. call[p].key \in Keys /\ Chain(p) \in Lists
    BY KeyCall, LockNames, Zenon DEF IInv, Scanning
  <2>3. ListOf(head[Chain(p)], Ptr, S)
    BY Zenon DEF IInv, ChainInv
  <2>4. x \in Recs /\ idx[x].key = call[p].key /\ idx[x].ptr = head[Chain(p)]
    BY ZenonT(30) DEF IInv, RecordInv, RecordAt
  <2>5. x # 0 /\ 0 \notin S /\ x \in OnChain(Chain(p)) /\ Ptr[x] = head[Chain(p)]
    BY <2>2, <2>4, SMTT(30) DEF OnChain, Recs, Ptr, Chain
  <2>6. SameLists
    BY <1>5, QuietLists
  <2>7. ListOf(x, Ptr, S \cup {x})
    <3>1. x \notin S
      OBVIOUS
    <3> HIDE DEF S, x
    <3> QED
      BY <2>3, <2>5, <3>1, ListPush
  <2>8. head'[Chain(p)] = x /\ S \cup {x} = OnChain(Chain(p))
    BY <2>2, <2>5, Zenon
  <2>9. Ptr' = Ptr /\ OnChain(Chain(p))' = OnChain(Chain(p))
    BY <2>6 DEF SameLists
  <2> QED
    BY <2>7, <2>8, <2>9, Zenon DEF Unlinked
<1>6. CASE DeleteData(p) \/ ReuseDat(p) \/ Overwrite(p) \/ AppendDatWrite(p)
  <2>1. /\ pc[p] \in {"ddat", "rdat", "over", "wdat"} /\ head' = head /\ Chain(p)' = Chain(p)
        /\ pc'[p] \in {"didx", "ridx", "unlock", "aidx"}
    BY <1>6, Zenon
       DEF DeleteData, ReuseDat, Overwrite, AppendDatWrite, Step, At, Goto,
           procV, Chain
  <2>2. ListOf(head[Chain(p)], Ptr, OnChain(Chain(p)))
    BY <2>1, OwnChain DEF Deleting, Storing, Reusing, Appending, Unlinked
  <2>3. SameLists
    BY <1>6, QuietLists
  <2>4. Ptr' = Ptr /\ OnChain(Chain(p))' = OnChain(Chain(p))
    BY <2>1, <2>3 DEF SameLists
  <2> QED
    BY <2>1, <2>2, <2>4, Zenon DEF Unlinked
<1>7. CASE FreeUnlink(p)
  <2>1. pc[p] = "ffunlink" /\ pc'[p] = "rdat" /\ Chain(p)' = Chain(p)
    BY <1>7, Zenon DEF FreeUnlink, Step, At, Goto, procV, Chain
  <2> DEFINE S == OnChain(Chain(p))
  <2>2. ListOf(head[Chain(p)], Ptr, S) /\ Chain(p) \in Chains /\ S \subseteq Recs
    BY <2>1, OwnChain DEF Storing, Reusing, Unlinked
  <2>3. /\ OnChain(Chain(p))' = S
        /\ \A r \in Recs : r # db[p].ptroff => Ptr'[r] = Ptr[r]
    BY <1>7, <2>1, FreeUnlinkLists, Zenon
  <2>4. /\ db[p].ptroff \in OnFree \cup {0}
        /\ \A m \in Lists : m # Free => head'[m] = head[m]
    BY <1>7, FreeUnlinkDoes, Zenon DEF PtrWritten
  <2>5. db[p].ptroff \notin S
    BY <2>2, <2>4, SMTT(30) DEF OnFree, OnChain, Recs
  <2>6. head'[Chain(p)] = head[Chain(p)]
    BY <2>2, <2>4, LockNames, Zenon
  <2>7. ListOf(head[Chain(p)], Ptr', S)
    BY <2>2, <2>3, <2>5, ListFrame, Zenon
  <2> QED
    BY <2>1, <2>3, <2>6, <2>7, Zenon DEF Unlinked
<1>8. CASE Quiet(p) /\ ~Writes(p)
  BY <1>8, Zenon DEF Quiet
<1> QED
  BY <1>1, <1>2, <1>3, <1>4, <1>5, <1>6, <1>7, <1>8, QuietOrWrites, Zenon
     DEF Writes

\* Every step keeps the chains whole.
LEMMA ChainStep ==
  ASSUME IInv, NEW p \in Procs, Move(p)
  PROVE  ChainInv'
<1>1. ASSUME NEW l \in Chains,
             \A q \in Procs : pc'[q] \in Unlinked => Chain(q)' # l
      PROVE  ListOf(head'[l], Ptr', OnChain(l)')
  <2>1. CASE Quiet(p) \/ l # Chain(p)
    BY <1>1, <2>1, ChainOthers, Zenon
  <2>2. CASE Writes(p) /\ l = Chain(p)
    <3> USE <2>2
    <3>1. Writes(p) /\ pc'[p] \notin Unlinked =>
            ListOf(head'[Chain(p)], Ptr', OnChain(Chain(p))') /\ Chain(p)' = Chain(p)
      BY ChainOwn, Zenon
    <3>2. Chain(p)' = Chain(p)
      BY Zenon
         DEF Writes, Chain, DeleteData, DeleteIdx, DeleteFree, DeleteChain,
             FreeUnlink, AppendDatWrite, AppendIdxWrite, ReuseDat, ReuseIdx,
             LinkChain, Overwrite, procV
    <3>3. pc'[p] \notin Unlinked
      BY <1>1, <3>2
    <3>4. OnChain(Chain(p))' = OnChain(l)'
      BY <3>2
    <3> QED
      BY <3>1, <3>3, <3>4
  <2> QED
    BY <2>1, <2>2, QuietOrWrites
<1>2. ASSUME NEW q \in Procs, pc'[q] = "link"
      PROVE  ListOf(head'[Chain(q)'], Ptr', OnChain(Chain(q))' \ {db'[q].idxoff})
  BY <1>2, ChainOthers, ChainOwn, Zenon
<1>3. ASSUME NEW q \in Procs, pc'[q] \in {"dfree", "dchain"}
      PROVE  ListOf(Rehead(q)', Relinked(q)', OnChain(Chain(q))')
  BY <1>3, ChainOthers, ChainOwn, Zenon
<1> QED
  BY <1>1, <1>2, <1>3, Zenon DEF ChainInv, Unlinked

-----------------------------------------------------------------------------
(* The free list stays whole. *)
LEMMA RemoveFirst ==
  ASSUME NEW h, NEW f, NEW g, NEW S, ListOf(h, f, S), 0 \notin S, h \in S,
         \A z \in S \ {h, 0} : g[z] = f[z]
  PROVE  ListOf(f[h], g, S \ {h})
  BY ListRemove, Zenon

\* Unlinking a record that is not the first of a list.
LEMMA RemoveNext ==
  ASSUME NEW h, NEW f, NEW g, NEW S, ListOf(h, f, S), 0 \notin S, NEW x \in S, NEW y \in S,
         f[y] = x, g[y] = f[x], \A z \in S \ {x, y} : g[z] = f[z]
  PROVE  ListOf(h, g, S \ {x})
<1>1. y # 0
  OBVIOUS
<1> QED
  BY <1>1, ListRemove

\* Every step keeps the free list whole.
LEMMA FreeStep ==
  ASSUME IInv, NEW p \in Procs, Move(p)
  PROVE  FreeInv'
<1> DEFINE x == db[p].idxoff
           y == db[p].ptroff
<1>t. /\ head \in [Lists -> Nat] /\ Free \in Lists /\ Len(idx) \in Nat /\ Blank \notin Keys
      /\ OnFree \subseteq Recs /\ 0 \notin OnFree
  BY DbAssumption, LockNames, SMTT(30) DEF IInv, TypeOK, OnFree, Recs
<1>l. ListOf(head[Free], Ptr, OnFree)
  BY DEF IInv, FreeInv
<1> USE <1>l
<1> USE <1>t
<1>k. ASSUME FreeKept PROVE FreeInv'
  BY <1>k, ListFrame DEF FreeKept, FreeInv
<1> USE <1>k
<1>0. CASE pc[p] \notin FreeHeld
  BY <1>0, FreeStays
<1>1. CASE pc[p] = "ddat"
  <2>1. DeleteData(p)
    BY <1>1, Leaves
  <2>2. SameLists /\ head' = head
    BY <2>1, QuietLists, Zenon DEF DeleteData
  <2> QED
    BY <2>2 DEF SameLists, FreeKept
<1>2. CASE pc[p] = "didx"
  <2>1. DeleteIdx(p)
    BY <1>2, Leaves
  <2>2. /\ OnFree' = OnFree /\ x \notin OnFree
        /\ \A r \in Recs : r # x => Ptr'[r] = Ptr[r]
    BY <2>1, DeleteIdxLists, Zenon
  <2>3. head' = head
    BY <2>1 DEF DeleteIdx
  <2> QED
    BY <2>2, <2>3, Zenon DEF FreeKept
<1>3. CASE pc[p] = "dfree"
  <2>1. DeleteFree(p)
    BY <1>3, Leaves
  <2>2. /\ Ptr' = Ptr /\ OnFree' = OnFree \cup {x} /\ x \notin OnFree /\ x \in Recs
        /\ Ptr[x] = head[Free]
    BY <2>1, DeleteFreeLists, ZenonT(30)
  <2>3. head'[Free] = x /\ x # 0
    BY <2>1, <2>2, SMTT(30) DEF DeleteFree, Recs
  <2>4. ListOf(x, Ptr, OnFree \cup {x})
    <3> HIDE DEF x
    <3> QED
      BY <2>2, <2>3, ListPush
  <2> QED
    BY <2>2, <2>3, <2>4, Zenon DEF FreeInv
<1>4. CASE pc[p] = "dchain"
  <2>1. DeleteChain(p)
    BY <1>4, Leaves
  <2>2. OnFree' = OnFree /\ Ptr' = Relinked(p)
    BY <2>1, DeleteChainLists
  <2>3. /\ y \in OnChain(Chain(p)) \cup {0} /\ Chain(p) \in Chains
        /\ \A m \in Lists : m # Chain(p) => head'[m] = head[m]
    BY <2>1, DeleteChainDoes, Zenon DEF PtrWritten
  <2>4. head'[Free] = head[Free]
    BY <2>3, LockNames, Zenon
  <2>5. \A r \in OnFree : r # y
    BY <2>3, Zenon DEF OnFree, OnChain
  <2>6. \A r \in OnFree : Ptr'[r] = Ptr[r]
    BY <2>2, <2>5, Zenon DEF Relinked, Ptr, Recs
  <2> QED
    BY <2>2, <2>4, <2>6 DEF FreeKept
<1>5. CASE pc[p] = "ffunlink"
  <2>1. FreeUnlink(p)
    BY <1>5, Leaves
  <2>2. /\ OnFree' = OnFree \ {x}
        /\ \A r \in Recs : Ptr'[r] = IF r = y THEN Ptr[x] ELSE Ptr[r]
    BY <2>1, FreeUnlinkLists, Zenon
  <2>3. /\ x \in OnFree /\ x \in Recs /\ Follows(head[Free], Ptr, OnFree, y, x)
        /\ head'[Free] = IF y = 0 THEN idx[x].ptr ELSE head[Free]
    BY <2>1, FreeUnlinkDoes, Zenon DEF PtrWritten
  <2> USE <2>3
  <2>4. y \in OnFree \cup {0} /\ IF y = 0 THEN head[Free] = x ELSE Ptr[y] = x
    BY Zenon DEF Follows
  <2>5. idx[x].ptr = Ptr[x]
    BY Zenon DEF Ptr, Recs
  <2>6. ListOf(IF y = 0 THEN Ptr[x] ELSE head[Free], Ptr', OnFree \ {x})
    <3>1. /\ y # 0 => Ptr'[y] = Ptr[x]
          /\ \A z \in OnFree \ {x, y} : Ptr'[z] = Ptr[z]
      BY <2>2, <2>4, Zenon
    <3>2. x \in OnFree
      BY Zenon
    <3>3. CASE y = 0
      BY <2>4, <3>1, <3>2, <3>3, RemoveFirst, Zenon
    <3>4. CASE y # 0
      BY <2>4, <3>1, <3>2, <3>4, RemoveNext, Zenon
    <3> QED
      BY <3>3, <3>4, Zenon
  <2> QED
    BY <2>2, <2>5, <2>6, Zenon DEF FreeInv
<1> QED
  BY <1>0, <1>1, <1>2, <1>3, <1>4, <1>5 DEF FreeHeld

-----------------------------------------------------------------------------
(* A scan returns each record that stays. *)

\* The record of a stable key stays where it is.
LEMMA StableRecord ==
  ASSUME IInv, NEW p \in Procs, Move(p), NEW q \in Procs, NEW k \in stable'[q], k \in Keys,
         NEW r \in Recs, idx[r].key = k
  PROVE  r \in Recs' /\ idx'[r].key = k
<1>1. CASE DeleteIdx(p)
  BY <1>1, StableKept, DeleteIdxDoes, DataKept, SMTT(30)
<1>2. CASE ~DeleteIdx(p)
  BY <1>2, DataKept
<1> QED
  BY <1>1, <1>2

\* Other processes' steps keep a scan right.
LEMMA ScanOthers ==
  ASSUME IInv, NEW p \in Procs, Move(p), NEW q \in Procs, q # p
  PROVE  ScanAt(q)'
<1>1. stable'[q] \subseteq stable[q] /\ stable[q] \subseteq Keys
  BY StableKept, Zenon DEF IInv, TypeOK
<1>2. /\ pc'[q] = pc[q] /\ db'[q] = db[q] /\ ret'[q] = ret[q] /\ pos'[q] = pos[q]
      /\ seen'[q] = seen[q]
  BY OthersStay, Zenon
<1>3. ScanAt(q)
  BY DEF IInv, ScanInv
<1>4. ASSUME NEW k \in stable'[q]
      PROVE  \E r \in Recs' : /\ idx'[r].key = k
                              /\ IF pc'[q] = "ndat" /\ db'[q].idxbuf = k
                                   THEN r < pos'[q] /\ seen'[q][k] = 0
                                   ELSE seen'[q][k] = IF r < pos'[q] THEN 1 ELSE 0
  <2>1. PICK r \in Recs : /\ idx[r].key = k
                          /\ IF pc[q] = "ndat" /\ db[q].idxbuf = k
                               THEN r < pos[q] /\ seen[q][k] = 0
                               ELSE seen[q][k] = IF r < pos[q] THEN 1 ELSE 0
    BY <1>1, <1>3, Zenon DEF ScanAt
  <2>2. r \in Recs' /\ idx'[r].key = k
    BY <1>1, <2>1, StableRecord, Zenon
  <2> QED
    BY <1>2, <2>1, <2>2, Zenon
<1> QED
  BY <1>1, <1>2, <1>3, <1>4, SMTT(30) DEF ScanAt

\* Every step keeps the scans right.
LEMMA ScanStep ==
  ASSUME IInv, NEW p \in Procs, Move(p)
  PROVE  ScanInv'
  BY ScanOthers, ScanOwn DEF ScanInv

-----------------------------------------------------------------------------
(* The invariant. *)

\* Every step keeps the invariant.
LEMMA StepInv == ASSUME IInv, NEW p \in Procs, Move(p) PROVE IInv'
  BY TypeStep, CallStep, LockStep, RoomStep, FileStep, RecordStep, ApartStep,
     MapStep, MapsStep, ChainStep, FreeStep, ScanStep, Zenon
     DEF IInv

\* The calls of the library keep the invariant of its files, whatever the
\* processes, keys, chains and the number of records.
THEOREM DbInvariance == Spec => []IInv
<1>1. IInv /\ [Next]_vars => IInv'
  BY StepInv, StutterInv DEF Next, Move
<1> QED
  BY InitInv, <1>1, PTL DEF Spec

-----------------------------------------------------------------------------
(* What it says of the files. *)

\* No two index records that db_store has written share a data record.
THEOREM RecordsOwnData == Spec => []DataUnshared
<1>1. IInv => DataUnshared
  BY DEF IInv, FileInv, DataUnshared, Recs
<1> QED
  BY <1>1, DbInvariance, PTL

\* A scan with db_nextrec returns each record that stays in place, once.
THEOREM ScansAreComplete == Spec => []ScanIsComplete
<1>1. IInv => ScanIsComplete
  BY SMTT(30) DEF IInv, ScanInv, ScanAt, ScanIsComplete
<1> QED
  BY <1>1, DbInvariance, PTL

\* Whoever locks a hash chain or the free list finds on it exactly the records
\* that belong there, in a list that ends.
THEOREM ListsStayWhole == Spec => []ListsAreWhole
<1>1. IInv => ListsAreWhole
  <2> SUFFICES ASSUME IInv PROVE ListsAreWhole
    OBVIOUS
  <2>1. Len(idx) \in Nat /\ Len(idx) <= MaxRecs
    BY FileSize DEF IInv
  <2>2. ASSUME NEW l \in Chains, writer[l] = None
        PROVE  /\ Walk(head[l])[MaxRecs] = 0
               /\ On(l) = {r \in 1..Len(idx) : idx[r].key \in Keys /\ Hash[idx[r].key] = l}
    <3>1. ListOf(head[l], Ptr, OnChain(l))
      BY <2>2, WholeChain, Zenon
    <3>2. OnChain(l) = {r \in 1..Len(idx) : idx[r].key \in Keys /\ Hash[idx[r].key] = l}
      BY DEF OnChain, Recs
    <3> QED
      BY <2>1, <3>1, <3>2, ListOn, Zenon
  <2>3. ASSUME writer[Free] = None
        PROVE  /\ Walk(head[Free])[MaxRecs] = 0
               /\ On(Free) = {r \in 1..Len(idx) : idx[r].key = Blank} \ InHand
    <3>1. ListOf(head[Free], Ptr, OnFree)
      BY DEF IInv, FreeInv
    <3>2. \A q \in Procs : pc[q] # "dfree"
      BY <2>3, DbAssumption, SMTT(30) DEF IInv, LockInv, LockAt
    <3>3. OnFree = {r \in 1..Len(idx) : idx[r].key = Blank} \ InHand
      BY <3>2, Zenon DEF OnFree, Taken, Holding, InHand, Recs
    <3>4. OnFree \subseteq 1..Len(idx)
      BY DEF OnFree, Recs
    <3>5. Walk(head[Free])[MaxRecs] = 0 /\ On(Free) = OnFree
      BY <2>1, <3>1, <3>4, ListOn, Zenon
    <3> QED
      BY <3>3, <3>5
  <2>4. \A r, s \in 1..Len(idx) : idx[r].key = idx[s].key /\ r # s => idx[r].key = Blank
    BY DEF IInv, FileInv, Recs
  <2>5. Free \notin Chains
    BY LockNames
  <2> QED
    BY <2>2, <2>3, <2>4, <2>5, Zenon DEF ListsAreWhole, Lists
<1> QED
  BY <1>1, DbInvariance, PTL

\* Between two operations on a chain, a search of the files finds for each of
\* its keys what the calls that took effect have stored.
THEOREM ChainsStayCurrent == Spec => []ChainsAreCurrent
<1>1. ASSUME IInv, NEW k \in Keys, writer[Hash[k]] = None PROVE Lookup(k) = kv[k]
  <2> USE <1>1
  <2> DEFINE l == Hash[k]
             s == Search(l, WithKey(k))
  <2>1. Len(idx) \in Nat /\ Len(idx) <= MaxRecs /\ l \in Chains
    BY FileSize, DbAssumption DEF IInv
  <2>2. ListOf(head[l], Ptr, OnChain(l))
    BY <2>1, WholeChain, Zenon
  <2>3. OnChain(l) \subseteq 1..Len(idx) /\ 0 \notin OnChain(l)
    BY <2>1 DEF OnChain, Recs
  <2>4. /\ s.rec \in (OnChain(l) \cap WithKey(k)) \cup {0}
        /\ s.rec = 0 => OnChain(l) \cap WithKey(k) = {}
    <3> HIDE DEF l
    <3> QED
      BY <2>1, <2>2, <2>3, SearchList, Zenon
  <2>5. OnChain(l) \cap WithKey(k) = WithKey(k)
    BY DEF OnChain, WithKey, Recs
  <2>6. /\ \A r \in Recs : idx[r].key = k => dat[idx[r].dat] = kv[k]
        /\ (\A r \in Recs : idx[r].key # k) => kv[k] = None
    BY KeyMapped, Zenon
  <2>7. CASE s.rec = 0
    BY <2>4, <2>5, <2>6, <2>7, Zenon DEF Lookup, WithKey, Recs
  <2>8. CASE s.rec # 0
    BY <2>4, <2>5, <2>6, <2>8, Zenon DEF Lookup, WithKey, Recs
  <2> QED
    BY <2>7, <2>8, Zenon
<1>2. IInv => ChainsAreCurrent
  BY <1>1 DEF ChainsAreCurrent
<1> QED
  BY <1>2, DbInvariance, PTL

-----------------------------------------------------------------------------
(* The library implements the map. *)

\* A step that the map does not see.
Unseen == UNCHANGED <<kv, call, ret>>

\* A process that has not taken effect yet may do so.
LEMMA Pending ==
  ASSUME IInv, NEW p \in Procs, pc[p] \notin {"idle", "link", "unlock", "nunlock"}
  PROVE  call[p] # None /\ ret[p] = <<>> /\ call[p] \in Map!Calls
  BY CallAssumption, Zenon DEF IInv, CallInv, CallAt

\* A call begins.
LEMMA MapInvokes ==
  ASSUME IInv, NEW p \in Procs, CallKey(p) \/ CallStore(p) \/ CallNextrec(p)
  PROVE  Map!Invoke(p)
<1>1. PICK c \in Map!Calls : Invoke(p, c)
  <2>1. CASE CallKey(p)
    BY <2>1, Zenon DEF CallKey, Map!Calls
  <2>2. CASE CallStore(p)
    BY <2>2, Zenon DEF CallStore, Map!Calls
  <2>3. CASE CallNextrec(p)
    BY <2>3 DEF CallNextrec, Map!Calls
  <2> QED
    BY <2>1, <2>2, <2>3
<1>2. call[p] = None
  BY <1>1, Zenon DEF Invoke, At, IInv, CallInv, CallAt
<1> QED
  BY <1>1, <1>2, Zenon DEF Invoke, Map!Invoke

\* A call returns.
LEMMA MapReturns ==
  ASSUME IInv, NEW p \in Procs, Unlock(p) \/ NextrecUnlock(p)
  PROVE  Map!Return(p)
<1>1. pc[p] \in {"unlock", "nunlock"}
  BY DEF Unlock, NextrecUnlock, Step, At
<1>2. call[p] # None /\ ret[p] # <<>>
  BY <1>1, CallAssumption, Zenon DEF IInv, CallInv, CallAt
<1> QED
  BY <1>2 DEF Unlock, NextrecUnlock, Finish, Map!Return

\* db_fetch takes effect when it does not find the record, or when it reads
\* the data: nobody can blank the data meanwhile.
LEMMA MapFetches ==
  ASSUME IInv, NEW p \in Procs, FetchFind(p) \/ FetchData(p)
  PROVE  Unseen \/ Map!TakeEffect(p)
<1>1. CASE FetchFind(p)
  <2>1. /\ pc[p] = "find" /\ call[p].op = "fetch" /\ writer[Chain(p)] = None
        /\ UNCHANGED <<call, kv>>
        /\ ret' = ret \/ (Missed(p, "unlock") /\ ret' = [ret EXCEPT ![p] = <<None>>])
    BY <1>1, FetchFindDoes, Zenon DEF ReadLock
  <2>2. Missed(p, "unlock") => kv[call[p].key] = None
    BY <2>1, FoundIsMapped, Zenon DEF Missed
  <2> QED
    BY <2>1, <2>2, Pending, Zenon
       DEF Unseen, Map!TakeEffect, Map!Fetch, Map!Finish
<1>2. CASE FetchData(p)
  <2> DEFINE r == db[p].idxoff
  <2>1. /\ pc[p] = "readdat" /\ UNCHANGED <<call, kv>>
        /\ ret' = [ret EXCEPT ![p] = <<dat[db[p].datoff]>>]
    BY <1>2, Zenon DEF FetchData, Step, At, Finish, procV
  <2> USE <2>1
  <2>2. r \in Recs /\ idx[r].key = call[p].key /\ db[p].datoff = idx[r].dat
    BY Zenon DEF IInv, RecordInv, RecordAt
  <2>3. call[p].key \in Keys /\ call[p].op = "fetch"
    BY KeyCall, Zenon DEF IInv, CallInv, CallAt, Scanning
  <2>4. ASSUME NEW q \in Procs, pc[q] = "didx", db[q].idxoff = r PROVE FALSE
    <3>1. call[q].key = call[p].key
      <4>1. idx[db[q].idxoff].key = call[q].key
        BY <2>4, Zenon DEF IInv, RecordInv, RecordAt
      <4> QED
        BY <2>2, <2>4, <4>1, Zenon
    <3> QED
      BY <2>4, <3>1, Excludes, Zenon DEF Chain, Deleting
  <2>5. dat[idx[r].dat] = kv[call[p].key]
    <3>1. idx[r].key \in Keys
      BY <2>2, <2>3, Zenon
    <3>2. \/ dat[idx[r].dat] = kv[idx[r].key]
          \/ \E q \in Procs : pc[q] = "didx" /\ db[q].idxoff = r
      BY <2>2, <3>1, Zenon DEF IInv, MapInv
    <3> QED
      BY <2>2, <2>4, <3>2, Zenon
  <2> QED
    BY <2>2, <2>3, <2>5, Pending, Zenon
       DEF Map!TakeEffect, Map!Fetch, Map!Finish
<1> QED
  BY <1>1, <1>2

\* db_delete takes effect when it does not find the record, or when it has
\* taken it off its chain.
LEMMA MapDeletes ==
  ASSUME IInv, NEW p \in Procs, DeleteFind(p) \/ DeleteChain(p)
  PROVE  Unseen \/ Map!TakeEffect(p)
<1>t. kv \in [Keys -> Vals \cup {None}]
  BY DEF IInv, TypeOK
<1>1. CASE DeleteFind(p)
  <2>1. /\ pc[p] = "find" /\ call[p].op = "delete" /\ writer[Chain(p)] = None
        /\ UNCHANGED <<call, kv>>
        /\ ret' = ret \/ (Missed(p, "unlock") /\ ret' = [ret EXCEPT ![p] = <<"absent">>])
    BY <1>1, DeleteFindDoes, Zenon DEF WriteLock
  <2>2. Missed(p, "unlock") => kv[call[p].key] = None
    BY <2>1, FoundIsMapped, Zenon DEF Missed
  <2>3. kv[call[p].key] = None => kv' = [kv EXCEPT ![call[p].key] = None]
    BY <1>t, <2>1, Zenon
  <2> QED
    BY <2>1, <2>2, <2>3, Pending, Zenon
       DEF Unseen, Map!TakeEffect, Map!Delete, Map!Finish
<1>2. CASE DeleteChain(p)
  <2>1. /\ pc[p] = "dchain" /\ call' = call
        /\ \/ /\ call[p].op = "delete" /\ ret' = [ret EXCEPT ![p] = <<"ok">>]
              /\ kv' = [kv EXCEPT ![call[p].key] = None]
           \/ UNCHANGED <<ret, kv>>
    BY <1>2 DEF DeleteChain, At, Finish
  <2>2. kv[call[p].key] # None
    BY <2>1, Zenon DEF IInv, MapsInv, MapAt, Deleting
  <2> QED
    BY <2>1, <2>2, Pending, Zenon
       DEF Unseen, Map!TakeEffect, Map!Delete, Map!Finish
<1> QED
  BY <1>1, <1>2

\* db_store takes effect when its flag forbids it to go on, when it
\* overwrites the data, or when it writes the new index record.
LEMMA MapStores ==
  ASSUME IInv, NEW p \in Procs,
         StoreFind(p) \/ Overwrite(p) \/ AppendIdxWrite(p) \/ ReuseIdx(p)
  PROVE  Unseen \/ Map!TakeEffect(p)
<1>1. CASE StoreFind(p)
  <2>1. /\ pc[p] = "find" /\ call[p].op = "store" /\ writer[Chain(p)] = None
        /\ UNCHANGED <<call, kv>>
        /\ \/ ret' = ret
           \/ /\ Missed(p, "unlock") /\ call[p].flag = "replace"
              /\ ret' = [ret EXCEPT ![p] = <<"absent">>]
           \/ /\ Took(p, "unlock") /\ call[p].flag = "insert"
              /\ ret' = [ret EXCEPT ![p] = <<"exists">>]
    BY <1>1, StoreFindDoes, Zenon DEF WriteLock
  <2>2. /\ Missed(p, "unlock") => kv[call[p].key] = None
        /\ Took(p, "unlock") => kv[call[p].key] # None
    BY <2>1, FoundIsMapped, Zenon DEF Missed, Took
  <2> QED
    BY <2>1, <2>2, Pending, Zenon
       DEF Unseen, Map!TakeEffect, Map!Store, Map!Finish
<1>2. CASE Overwrite(p) \/ AppendIdxWrite(p) \/ ReuseIdx(p)
  <2>1. /\ pc[p] \in {"over", "widx", "ridx"} /\ call' = call
        /\ ret' = [ret EXCEPT ![p] = <<"ok">>]
        /\ kv' = [kv EXCEPT ![call[p].key] = call[p].val]
    BY <1>2, Zenon
       DEF Overwrite, AppendIdxWrite, ReuseIdx, Step, At, Stored, Finish, procV
  <2>2. call[p].op = "store" /\ call[p].key \in Keys
    BY <2>1, KeyCall, Zenon
       DEF IInv, CallInv, CallAt, Storing, Reusing, Appending, Scanning
  <2>3. IF kv[call[p].key] = None THEN call[p].flag # "replace" ELSE call[p].flag # "insert"
    <3>1. MapAt(p)
      BY DEF IInv, MapsInv
    <3>2. CASE pc[p] = "over"
      <4>1. db[p].idxoff \in Recs /\ idx[db[p].idxoff].key = call[p].key
        BY <3>2, Zenon DEF IInv, RecordInv, RecordAt
      <4>2. kv[call[p].key] # None
        BY <2>2, <4>1, SMTT(30) DEF IInv, MapInv
      <4> QED
        BY <3>1, <3>2, <4>2, Zenon DEF MapAt
    <3>3. CASE pc[p] \in {"widx", "ridx"}
      BY <3>1, <3>3, Zenon DEF MapAt, Appending, Reusing
    <3> QED
      BY <2>1, <3>2, <3>3, Zenon
  <2> QED
    BY <2>1, <2>2, <2>3, Pending, Zenon
       DEF Map!TakeEffect, Map!Store, Map!Finish
<1> QED
  BY <1>1, <1>2

\* db_nextrec takes effect when it reads the end of the file or the data of a
\* record: with the free list locked, no process is deleting that record.
LEMMA MapScans ==
  ASSUME IInv, NEW p \in Procs, NextrecIdx(p) \/ NextrecData(p)
  PROVE  Unseen \/ Map!TakeEffect(p)
<1>0. pc[p] \in {"nidx", "ndat"} /\ UNCHANGED <<call, kv>>
  BY DEF NextrecIdx, NextrecData, Step, At, procV
<1>n. call[p].op = "nextrec" /\ call[p] # None /\ ret[p] = <<>>
  BY <1>0, Pending, Zenon DEF IInv, CallInv, CallAt, Scanning
<1>1. CASE NextrecIdx(p)
  <2>1. ret' = ret \/ ret' = [ret EXCEPT ![p] = <<"eof">>]
    BY <1>1 DEF NextrecIdx, Finish
  <2> QED
    BY <1>0, <1>n, <2>1, Zenon
       DEF Unseen, Map!TakeEffect, Map!Nextrec, Map!Finish
<1>2. CASE NextrecData(p)
  <2>1. pc[p] = "ndat" /\ ret' = [ret EXCEPT ![p] = <<db[p].idxbuf, dat[db[p].datoff]>>]
    BY <1>2, Zenon DEF NextrecData, Step, At, Finish
  <2>2. PICK r \in Recs : idx[r].key = db[p].idxbuf /\ db[p].idxbuf \in Keys
                          /\ idx[r].dat = db[p].datoff
    BY <2>1, Zenon DEF IInv, RecordInv, RecordAt
  <2>3. \A q \in Procs : pc[q] # "didx"
    BY <2>1, Excludes, Zenon DEF FreeHeld
  <2>4. kv[db[p].idxbuf] # None /\ dat[db[p].datoff] = kv[db[p].idxbuf]
    BY <2>2, <2>3, Zenon DEF IInv, MapInv
  <2> QED
    BY <1>0, <1>n, <2>1, <2>2, <2>4, Zenon
       DEF Map!TakeEffect, Map!Nextrec, Map!Finish
<1> QED
  BY <1>1, <1>2

\* The other steps do not concern the map.
LEMMA UnseenSteps ==
  ASSUME NEW p \in Procs,
         \/ DeleteLock(p) \/ DeleteData(p) \/ DeleteIdx(p) \/ DeleteFree(p) \/ FindFree(p)
         \/ FreeUnlink(p) \/ AppendDatSeek(p) \/ AppendDatWrite(p) \/ AppendIdxSeek(p)
         \/ ReuseDat(p) \/ LinkChain(p) \/ NextrecLock(p) \/ NextrecAstray(p) \/ DbRewind(p)
  PROVE  Unseen
  BY Zenon
     DEF Unseen, DeleteLock, DeleteData, DeleteIdx, DeleteFree, FindFree,
         FreeUnlink, AppendDatSeek, AppendDatWrite, AppendIdxSeek, ReuseDat,
         LinkChain, NextrecLock, NextrecAstray, DbRewind, procV

\* The calls on the shared files implement a map on which every call of
\* db_fetch, db_store, db_delete and db_nextrec takes effect at once.
THEOREM FilesAreMap == Spec => Linearizable
<1>1. Init => Map!Init
  BY DEF Init, Map!Init
<1>2. ASSUME IInv, NEW p \in Procs, Move(p) PROVE Unseen \/ Map!Next
  <2>1. \/ Unseen \/ Map!Invoke(p) \/ Map!TakeEffect(p) \/ Map!Return(p)
    BY <1>2, MapInvokes, MapReturns, MapFetches, MapDeletes, MapStores,
       MapScans, UnseenSteps, Zenon
       DEF Move, Advance
  <2> QED
    BY <2>1 DEF Map!Next
<1>3. IInv /\ [Next]_vars => [Map!Next]_(Map!vars)
  <2>1. UNCHANGED vars => Unseen
    BY DEF vars, procV, Unseen
  <2>2. Unseen => UNCHANGED Map!vars
    BY DEF Unseen, Map!vars
  <2> QED
    BY <1>2, <2>1, <2>2 DEF Next, Move
<1> QED
  BY <1>1, <1>3, DbInvariance, PTL DEF Spec, Linearizable, Map!Spec
=============================================================================
