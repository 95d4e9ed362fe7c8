----------------------------- MODULE DbRecords -----------------------------
(***************************************************************************)
(* The invariant of the database library: the records of the files, and    *)
(* the record each process has in hand.                                    *)
(***************************************************************************)
EXTENDS DbFacts

-----------------------------------------------------------------------------
(* The records of the files. *)

\* Before db_store puts in a record, there is none with its key.
LEMMA NoSuchKey ==
  ASSUME IInv, NEW p \in Procs,
         pc[p] \in Reusing \cup Appending \cup {"dfree", "dchain"}
  PROVE  \A r \in Recs : idx[r].key # call[p].key
<1>1. call[p].key \in Keys
  BY KeyCall DEF IInv, Reusing, Appending, Scanning
<1>2. MapAt(p) /\ MapInv
  BY DEF IInv, MapsInv
<1>3. CASE pc[p] \in Reusing
  BY <1>1, <1>2, <1>3 DEF MapAt, MapInv
<1>4. CASE pc[p] \notin Reusing
  BY <1>2, <1>4 DEF MapAt
<1> QED
  BY <1>3, <1>4

\* Index records keep data records of their own, and keys of their own.
LEMMA FileStep ==
  ASSUME IInv, NEW p \in Procs, Move(p)
  PROVE  FileInv'
<1>t. /\ idx \in Seq(Records) /\ dat \in Seq(Vals \cup {Blank}) /\ FileInv
      /\ Len(idx) \in Nat /\ Len(dat) \in Nat
  BY DEF IInv, TypeOK
<1> USE <1>t
<1>0. CASE Quiet(p)
  BY <1>0 DEF Quiet, FileInv, Recs
<1>1. CASE DeleteIdx(p)
  <2>1. dat' = dat
    BY <1>1 DEF DeleteIdx
  <2>2. /\ Len(idx') = Len(idx) /\ idx'[db[p].idxoff].key = Blank
        /\ \A r \in Recs : /\ r # db[p].idxoff => idx'[r] = idx[r]
                           /\ idx'[r].dat = idx[r].dat
    BY <1>1, DeleteIdxDoes
  <2> USE <2>2
  <2>3. Recs' = Recs
    BY DEF Recs
  <2>a. \A r \in Recs' : idx'[r].dat \in 1..Len(dat')
    BY <2>1, <2>3 DEF FileInv
  <2>b. ASSUME NEW r \in Recs', NEW s \in Recs', idx'[r].dat = idx'[s].dat PROVE r = s
    BY <2>b, <2>1, <2>3 DEF FileInv
  <2>c. ASSUME NEW r \in Recs', NEW s \in Recs', idx'[r].key = idx'[s].key, idx'[r].key # Blank
        PROVE  r = s
    BY <2>c, <2>1, <2>3 DEF FileInv
  <2> QED
    BY <2>a, <2>b, <2>c DEF FileInv
<1>2. CASE AppendIdxWrite(p)
  <2>1. /\ pc[p] = "widx" /\ dat' = dat
    BY <1>2 DEF AppendIdxWrite, Step, At
  <2> USE <2>1
  <2>2. /\ Len(idx') = Len(idx) + 1
        /\ \A r \in Recs : idx'[r] = idx[r]
        /\ idx'[Len(idx) + 1].key = call[p].key /\ idx'[Len(idx) + 1].dat = db[p].datoff
    BY <1>2, AppendIdxWriteDoes, NewRecord
  <2> USE <2>2
  <2>3. \A r \in Recs : idx[r].key # call[p].key
    BY NoSuchKey DEF Appending
  <2>4. /\ db[p].datoff \in 1..Len(dat)
        /\ \A r \in Recs : idx[r].dat # db[p].datoff
    BY Zenon DEF IInv, RecordInv, RecordAt
  <2>5. \A r \in Recs' : r \in Recs \/ r = Len(idx) + 1
    BY DEF Recs
  <2>a. \A r \in Recs' : idx'[r].dat \in 1..Len(dat')
    BY <2>3, <2>4, <2>5, Zenon DEF FileInv
  <2>b. ASSUME NEW r \in Recs', NEW s \in Recs', idx'[r].dat = idx'[s].dat PROVE r = s
    BY <2>b, <2>3, <2>4, <2>5, SMTT(30) DEF FileInv
  <2>c. ASSUME NEW r \in Recs', NEW s \in Recs', idx'[r].key = idx'[s].key, idx'[r].key # Blank
        PROVE  r = s
    BY <2>c, <2>3, <2>4, <2>5 DEF FileInv
  <2> QED
    BY <2>a, <2>b, <2>c DEF FileInv
<1>3. CASE ReuseIdx(p)
  <2>1. /\ pc[p] = "ridx" /\ dat' = dat
    BY <1>3 DEF ReuseIdx, Step, At
  <2> USE <2>1
  <2>2. /\ Len(idx') = Len(idx)
        /\ \A r \in Recs : r # db[p].idxoff => idx'[r] = idx[r]
        /\ idx'[db[p].idxoff].key = call[p].key
        /\ idx'[db[p].idxoff].dat = idx[db[p].idxoff].dat
    BY <1>3, ReuseIdxDoes, NewRecord
  <2> USE <2>2
  <2>3. \A r \in Recs : idx[r].key # call[p].key
    BY NoSuchKey DEF Reusing
  <2>4. Recs' = Recs
    BY DEF Recs
  <2>5. \A r \in Recs : idx'[r].dat = idx[r].dat
    OBVIOUS
  <2>a. \A r \in Recs' : idx'[r].dat \in 1..Len(dat')
    BY <2>3, <2>4, <2>5 DEF FileInv
  <2>b. ASSUME NEW r \in Recs', NEW s \in Recs', idx'[r].dat = idx'[s].dat PROVE r = s
    BY <2>b, <2>3, <2>4, <2>5 DEF FileInv
  <2>c. ASSUME NEW r \in Recs', NEW s \in Recs', idx'[r].key = idx'[s].key, idx'[r].key # Blank
        PROVE  r = s
    BY <2>c, <2>3, <2>4, <2>5 DEF FileInv
  <2> QED
    BY <2>a, <2>b, <2>c DEF FileInv
<1>4. CASE DeleteData(p)
  BY <1>4, DeleteDataDoes DEF FileInv, Recs, DataWritten, DeleteData
<1>5. CASE ReuseDat(p)
  BY <1>5, ReuseDatDoes DEF FileInv, Recs, DataWritten, ReuseDat
<1>6. CASE Overwrite(p)
  BY <1>6, OverwriteDoes DEF FileInv, Recs, DataWritten, Overwrite
<1>7. CASE AppendDatWrite(p)
  BY <1>7, AppendDatWriteDoes DEF FileInv, Recs, AppendDatWrite, WriteAt
<1>8. CASE DeleteFree(p) \/ LinkChain(p)
  BY <1>8, Zenon DEF FileInv, Recs, DeleteFree, LinkChain
<1>9. CASE DeleteChain(p)
  BY <1>9, DeleteChainDoes, ZenonT(30)
     DEF FileInv, Recs, PtrWritten, DeleteChain
<1>10. CASE FreeUnlink(p)
  BY <1>10, FreeUnlinkDoes, Zenon DEF FileInv, Recs, PtrWritten, FreeUnlink
<1> QED
  BY <1>0, <1>1, <1>2, <1>3, <1>4, <1>5, <1>6, <1>7, <1>8, <1>9, <1>10,
     QuietOrWrites
     DEF Writes

-----------------------------------------------------------------------------
(* The records on the lists. *)

\* A process other than p has taken record r.
TakenBut(p, r) == \E q \in Procs \ {p} : pc[q] \in Holding /\ db[q].idxoff = r

\* The records taken before and after a step: those of the other processes and
\* the one of its own.
LEMMA Takes ==
  ASSUME IInv, NEW p \in Procs, Move(p)
  PROVE  /\ \A r : Taken(r) <=> \/ TakenBut(p, r)
                                \/ pc[p] \in Holding /\ db[p].idxoff = r
         /\ \A r : Taken(r)' <=> \/ TakenBut(p, r)
                                 \/ pc'[p] \in Holding /\ db'[p].idxoff = r
         /\ pc[p] \in Holding => ~TakenBut(p, db[p].idxoff)
<1>1. \A r : Taken(r) <=> \/ TakenBut(p, r)
                          \/ pc[p] \in Holding /\ db[p].idxoff = r
  BY DEF Taken, TakenBut
<1>2. \A r : Taken(r)' <=> \/ TakenBut(p, r)
                           \/ pc'[p] \in Holding /\ db'[p].idxoff = r
  BY OthersStay DEF Taken, TakenBut
<1>3. pc[p] \in Holding => ~TakenBut(p, db[p].idxoff)
  BY DEF TakenBut, IInv, ApartInv
<1> QED
  BY <1>1, <1>2, <1>3

\* A step that writes no index record and takes and gives back none.
SameLists ==
  /\ Recs' = Recs /\ Ptr' = Ptr /\ OnFree' = OnFree
  /\ \A l : OnChain(l)' = OnChain(l)
\* The lists are the same when the index file is and the process takes no other
\* record.
LEMMA ListsSame ==
  ASSUME IInv, NEW p \in Procs, Move(p), idx' = idx,
         \/ pc[p] \notin Holding /\ pc'[p] \notin Holding
         \/ pc[p] \in Holding /\ pc'[p] \in Holding /\ db'[p].idxoff = db[p].idxoff
  PROVE  SameLists
<1>1. \A r : Taken(r)' <=> Taken(r)
  BY Takes
<1>2. OnFree' = OnFree
  BY <1>1 DEF OnFree, Recs
<1>3. Recs' = Recs /\ Ptr' = Ptr /\ \A l : OnChain(l)' = OnChain(l)
  BY DEF Recs, Ptr, OnChain
<1> QED
  BY <1>2, <1>3 DEF SameLists

\* The steps that write no index record leave the lists alone.
LEMMA QuietLists ==
  ASSUME IInv, NEW p \in Procs, Move(p),
         \/ Quiet(p) \/ DeleteData(p) \/ ReuseDat(p) \/ Overwrite(p)
         \/ AppendDatWrite(p) \/ LinkChain(p)
  PROVE  SameLists
<1>t. pc \in [Procs -> Places]
  BY DEF IInv, TypeOK
<1>1. CASE Quiet(p)
  BY <1>1, ListsSame, Zenon DEF Quiet, Holding
<1>2. CASE DeleteData(p) \/ ReuseDat(p) \/ Overwrite(p) \/ AppendDatWrite(p)
           \/ LinkChain(p)
  BY <1>2, <1>t, ListsSame, Zenon
     DEF Holding, DeleteData, Step, At, Goto, procV, ReuseDat, Overwrite,
         AppendDatWrite, WriteAt, LinkChain
<1> QED
  BY <1>1, <1>2

\* The other steps, and the lists they change.
LEMMA DeleteIdxLists ==
  ASSUME IInv, NEW p \in Procs, Move(p), DeleteIdx(p)
  PROVE  /\ Recs' = Recs /\ OnFree' = OnFree
         /\ \A l : OnChain(l)' = OnChain(l) \ {db[p].idxoff}
         /\ db[p].idxoff \in OnChain(Chain(p)) /\ db[p].idxoff \in Recs
         /\ db[p].idxoff \notin OnFree
         /\ \A r \in Recs : Ptr'[r] = IF r = db[p].idxoff THEN head[Free] ELSE Ptr[r]
<1> DEFINE x == db[p].idxoff
<1>1. /\ x \in Recs /\ idx[x].key = call[p].key /\ Len(idx') = Len(idx)
      /\ \A r \in Recs : r # x => idx'[r] = idx[r]
      /\ idx'[x].key = Blank /\ idx'[x].ptr = head[Free]
  BY DeleteIdxDoes, Zenon
<1> USE <1>1
<1>2. call[p].key \in Keys /\ Blank \notin Keys
  BY KeyCall, DbAssumption, Zenon DEF DeleteIdx, Step, At, IInv, Scanning
<1>3. Recs' = Recs
  BY DEF Recs
<1> USE <1>3
<1>4. pc[p] = "didx" /\ pc'[p] = "dfree" /\ db'[p] = db[p]
  BY Zenon DEF DeleteIdx, Step, At, Goto, procV, IInv, TypeOK
<1>5. \A r : Taken(r)' <=> Taken(r) \/ r = x
  BY <1>4, Takes DEF Holding
<1> HIDE DEF x
<1>6. OnFree' = OnFree
  BY <1>2, <1>5 DEF OnFree
<1>7. \A l : OnChain(l)' = OnChain(l) \ {x}
  BY <1>2 DEF OnChain
<1>8. x \in OnChain(Chain(p)) /\ x \notin OnFree
  BY <1>2 DEF OnChain, OnFree, Chain
<1>9. \A r \in Recs : Ptr'[r] = IF r = x THEN head[Free] ELSE Ptr[r]
  BY DEF Ptr, Recs
<1> QED
  BY <1>6, <1>7, <1>8, <1>9, Zenon DEF x

\* The deleted record becomes the first of the free list.
LEMMA DeleteFreeLists ==
  ASSUME IInv, NEW p \in Procs, Move(p), DeleteFree(p)
  PROVE  /\ Recs' = Recs /\ Ptr' = Ptr /\ OnFree' = OnFree \cup {db[p].idxoff}
         /\ \A l : OnChain(l)' = OnChain(l)
         /\ db[p].idxoff \notin OnFree /\ db[p].idxoff \in Recs
         /\ Ptr[db[p].idxoff] = head[Free]
<1> DEFINE x == db[p].idxoff
<1>1. pc[p] = "dfree" /\ pc'[p] = "dchain" /\ db'[p] = db[p] /\ idx' = idx
  BY DEF DeleteFree, Step, At, Goto, procV, IInv, TypeOK
<1> USE <1>1
<1>2. x \in Recs /\ idx[x].key = Blank /\ idx[x].ptr = head[Free]
  BY Zenon DEF IInv, RecordInv, RecordAt, Holding
<1>3. /\ \A r : Taken(r)' <=> Taken(r) /\ r # x
      /\ Taken(x)
  BY Takes, Zenon DEF Holding
<1> HIDE DEF x
<1>4. OnFree' = OnFree \cup {x} /\ x \notin OnFree
  BY <1>2, <1>3 DEF OnFree, Recs
<1>5. Recs' = Recs /\ Ptr' = Ptr /\ \A l : OnChain(l)' = OnChain(l)
  BY DEF Recs, Ptr, OnChain
<1>6. Ptr[x] = head[Free]
  BY <1>2 DEF Ptr, Recs
<1> QED
  BY <1>2, <1>4, <1>5, <1>6 DEF x

\* The deletion relinks the chain and moves no record.
LEMMA DeleteChainLists ==
  ASSUME IInv, NEW p \in Procs, Move(p), DeleteChain(p)
  PROVE  /\ Recs' = Recs /\ OnFree' = OnFree /\ Ptr' = Relinked(p)
         /\ \A l : OnChain(l)' = OnChain(l)
<1>1. /\ Len(idx') = Len(idx)
      /\ \A r \in Recs :
           /\ idx'[r].key = idx[r].key
           /\ idx'[r].ptr = IF r = db[p].ptroff THEN db[p].ptrval ELSE idx[r].ptr
  BY DeleteChainDoes DEF PtrWritten
<1>2. Recs' = Recs
  BY <1>1 DEF Recs
<1>3. pc[p] = "dchain" /\ pc'[p] \in {"unlock", "adat"}
  BY DEF DeleteChain, At, Goto, IInv, TypeOK
<1>4. \A r : Taken(r)' <=> Taken(r)
  BY <1>3, Takes DEF Holding
<1>5. OnFree' = OnFree /\ \A l : OnChain(l)' = OnChain(l)
  BY <1>1, <1>2, <1>4 DEF OnFree, OnChain
<1>6. Ptr' = Relinked(p)
  BY <1>1, <1>2 DEF Ptr, Relinked, Recs
<1> QED
  BY <1>2, <1>5, <1>6

\* The record that _db_findfree takes leaves the free list.
LEMMA FreeUnlinkLists ==
  ASSUME IInv, NEW p \in Procs, Move(p), FreeUnlink(p)
  PROVE  /\ Recs' = Recs /\ OnFree' = OnFree \ {db[p].idxoff}
         /\ \A r \in Recs :
              Ptr'[r] = IF r = db[p].ptroff THEN Ptr[db[p].idxoff] ELSE Ptr[r]
         /\ \A l : OnChain(l)' = OnChain(l)
<1>1. /\ Len(idx') = Len(idx) /\ db[p].idxoff \in Recs
      /\ \A r \in Recs :
           /\ idx'[r].key = idx[r].key
           /\ idx'[r].ptr = IF r = db[p].ptroff THEN idx[db[p].idxoff].ptr ELSE idx[r].ptr
  BY FreeUnlinkDoes DEF PtrWritten
<1>2. Recs' = Recs
  BY <1>1 DEF Recs
<1>3. pc[p] = "ffunlink" /\ pc'[p] = "rdat" /\ db'[p] = db[p]
  BY Zenon DEF FreeUnlink, Step, At, Goto, procV, IInv, TypeOK
<1>4. \A r : Taken(r)' <=> Taken(r) \/ r = db[p].idxoff
  BY <1>3, Takes DEF Holding
<1>5. OnFree' = OnFree \ {db[p].idxoff} /\ \A l : OnChain(l)' = OnChain(l)
  BY <1>1, <1>2, <1>4 DEF OnFree, OnChain
<1>6. \A r \in Recs : Ptr'[r] = IF r = db[p].ptroff THEN Ptr[db[p].idxoff] ELSE Ptr[r]
  BY <1>1, <1>2 DEF Ptr, Recs
<1> QED
  BY <1>2, <1>5, <1>6

\* A new record is on its chain, wherever it is put.
NewOn(p, x) ==
  /\ OnFree' = OnFree /\ x \in Recs' /\ x \notin OnFree /\ x # 0
  /\ \A l : OnChain(l)' = IF l = Chain(p) THEN OnChain(l) \cup {x} ELSE OnChain(l)
  /\ \A l : x \notin OnChain(l)
  /\ \A r \in Recs : r \in Recs' /\ (r # x => idx'[r] = idx[r] /\ Ptr'[r] = Ptr[r])
  /\ \A r \in Recs' : r \in Recs \/ r = x
  /\ Ptr'[x] = head[Chain(p)] /\ idx'[x].ptr = head[Chain(p)]
  /\ idx'[x].key = call[p].key
  /\ idx'[x].dat = db[p].datoff
\* An appended record is on the chain of its key.
LEMMA AppendIdxWriteLists ==
  ASSUME IInv, NEW p \in Procs, Move(p), AppendIdxWrite(p)
  PROVE  NewOn(p, db[p].idxoff)
<1> DEFINE x == db[p].idxoff
<1>1. pc[p] = "widx" /\ pc'[p] = "link" /\ db'[p] = db[p]
  BY DEF AppendIdxWrite, Step, At, Goto, procV, IInv, TypeOK
<1>2. /\ Len(idx') = Len(idx) + 1 /\ x = Len(idx) + 1
      /\ \A r \in Recs : idx'[r] = idx[r]
      /\ idx'[x].key = call[p].key /\ idx'[x].dat = db[p].datoff
      /\ idx'[x].ptr = head[Chain(p)] /\ call[p].key \in Keys
  BY <1>1, AppendIdxWriteDoes, NewRecord
<1> USE <1>2
<1>3. Len(idx) \in Nat /\ Blank \notin Keys
  BY DbAssumption, SMTT(30) DEF IInv, TypeOK
<1> HIDE DEF x
<1>4. /\ Recs' = Recs \cup {x} /\ x \notin Recs /\ x # 0
  BY <1>3, SMTT(30) DEF Recs
<1> USE <1>4
<1>5. \A r : Taken(r)' <=> Taken(r)
  BY <1>1, Takes DEF Holding
<1>6. OnFree' = OnFree /\ x \notin OnFree
  BY <1>3, <1>5, Zenon DEF OnFree
<1>7. \A l : OnChain(l)' = IF l = Chain(p) THEN OnChain(l) \cup {x} ELSE OnChain(l)
  BY Zenon DEF OnChain, Chain
<1>8. \A l : x \notin OnChain(l)
  BY DEF OnChain
<1>9. Ptr'[x] = head[Chain(p)] /\ \A r \in Recs : Ptr'[r] = Ptr[r]
  BY DEF Ptr, Recs
<1> QED
  BY <1>6, <1>7, <1>8, <1>9, Zenon DEF NewOn, x

\* A reused record is on the chain of its key.
LEMMA ReuseIdxLists ==
  ASSUME IInv, NEW p \in Procs, Move(p), ReuseIdx(p)
  PROVE  NewOn(p, db[p].idxoff) /\ Recs' = Recs
<1> DEFINE x == db[p].idxoff
<1>1. pc[p] = "ridx" /\ pc'[p] = "link" /\ db'[p] = db[p]
  BY DEF ReuseIdx, Step, At, Goto, procV, IInv, TypeOK
<1>2. /\ Len(idx') = Len(idx) /\ x \in Recs /\ idx[x].key = Blank
      /\ \A r \in Recs : r # x => idx'[r] = idx[r]
      /\ idx'[x].key = call[p].key /\ idx'[x].dat = db[p].datoff
      /\ idx'[x].ptr = head[Chain(p)] /\ call[p].key \in Keys
  BY <1>1, ReuseIdxDoes, NewRecord, Zenon
<1> USE <1>2
<1>3. Len(idx) \in Nat /\ Blank \notin Keys
  BY DbAssumption, SMTT(30) DEF IInv, TypeOK
<1> USE <1>3
<1> HIDE DEF x
<1>4. Recs' = Recs /\ x # 0
  BY DEF Recs
<1> USE <1>4
<1>5. Taken(x) /\ \A r : Taken(r)' <=> Taken(r) /\ r # x
  BY <1>1, Takes, Zenon DEF Holding, x
<1>6. OnFree' = OnFree /\ x \notin OnFree
  BY <1>5 DEF OnFree
<1>7. \A l : OnChain(l)' = IF l = Chain(p) THEN OnChain(l) \cup {x} ELSE OnChain(l)
  BY DEF OnChain, Chain
<1>8. \A l : x \notin OnChain(l)
  BY DEF OnChain
<1>9. Ptr'[x] = head[Chain(p)] /\ \A r \in Recs : r # x => Ptr'[r] = Ptr[r]
  BY Zenon DEF Ptr, Recs
<1> QED
  BY <1>6, <1>7, <1>8, <1>9, Zenon DEF NewOn, x

-----------------------------------------------------------------------------
(* What the locks of a process keep from the others. *)

\* The places with the write lock on the free list.
FreeHeld == {"ddat", "didx", "dfree", "dchain", "ffunlink"}
\* The locks keep apart the processes that change a chain, the free list or the
\* end of a file.
LEMMA Excludes ==
  ASSUME IInv, NEW p \in Procs, NEW q \in Procs, q # p
  PROVE  /\ pc[p] \in Deleting \cup Storing /\ pc[q] \in Deleting \cup Storing \cup {"readdat"}
              => Chain(p) # Chain(q)
         /\ pc[p] \in FreeHeld => pc[q] \notin FreeHeld \cup {"nidx", "ndat", "nunlock"}
         /\ pc[p] = "wdat" => pc[q] # "wdat"
         /\ pc[p] = "widx" => pc[q] # "widx"
<1>1. LockAt(p) /\ LockAt(q) /\ (\A l \in Locks : writer[l] # None => readers[l] = {})
  BY DEF IInv, LockInv
<1> USE <1>1
<1>2. p # None
  BY DbAssumption
<1>3. CASE pc[p] \in Deleting \cup Storing /\ pc[q] \in Deleting \cup Storing \cup {"readdat"}
  <2>1. Chain(q) \in Locks
    BY <1>3, KeyCall, LockNames
       DEF IInv, Deleting, Storing, Reusing, Appending, Scanning
  <2>2. writer[Chain(p)] = p
    BY <1>3 DEF LockAt
  <2>3. writer[Chain(q)] = q \/ q \in readers[Chain(q)]
    BY <1>3 DEF LockAt
  <2>4. Chain(p) # Chain(q)
    BY <1>2, <2>1, <2>2, <2>3
  <2>5. pc[p] \in FreeHeld => pc[q] \notin FreeHeld \cup {"nidx", "ndat", "nunlock"}
    BY <1>2, LockNames DEF LockAt, FreeHeld
  <2>6. /\ pc[p] = "wdat" => pc[q] # "wdat"
        /\ pc[p] = "widx" => pc[q] # "widx"
    BY DEF LockAt
  <2> QED
    BY <2>4, <2>5, <2>6
<1>4. CASE ~(pc[p] \in Deleting \cup Storing /\ pc[q] \in Deleting \cup Storing \cup {"readdat"})
  <2>5. pc[p] \in FreeHeld => pc[q] \notin FreeHeld \cup {"nidx", "ndat", "nunlock"}
    BY <1>2, LockNames DEF LockAt, FreeHeld
  <2>6. /\ pc[p] = "wdat" => pc[q] # "wdat"
        /\ pc[p] = "widx" => pc[q] # "widx"
    BY DEF LockAt
  <2> QED
    BY <1>4, <2>5, <2>6
<1> QED
  BY <1>3, <1>4

\* Where the writing steps are taken.
LEMMA WritesAt ==
  ASSUME NEW p \in Procs
  PROVE  /\ DeleteData(p) => pc[p] = "ddat" /\ UNCHANGED <<idx, head>>
         /\ DeleteIdx(p) => pc[p] = "didx" /\ UNCHANGED <<dat, head>>
         /\ DeleteFree(p) => pc[p] = "dfree" /\ UNCHANGED <<idx, dat>>
         /\ DeleteChain(p) => pc[p] = "dchain" /\ UNCHANGED dat
         /\ FreeUnlink(p) => pc[p] = "ffunlink" /\ UNCHANGED dat
         /\ AppendDatWrite(p) => pc[p] = "wdat" /\ UNCHANGED <<idx, head>>
         /\ AppendIdxWrite(p) => pc[p] = "widx" /\ UNCHANGED <<dat, head>>
         /\ ReuseDat(p) => pc[p] = "rdat" /\ UNCHANGED <<idx, head>>
         /\ ReuseIdx(p) => pc[p] = "ridx" /\ UNCHANGED <<dat, head>>
         /\ LinkChain(p) => pc[p] = "link" /\ UNCHANGED <<idx, dat>>
         /\ Overwrite(p) => pc[p] = "over" /\ UNCHANGED <<idx, head>>
         /\ Writes(p) => pc[p] \in Deleting \cup Storing
<1>1. DeleteData(p) => pc[p] = "ddat" /\ UNCHANGED <<idx, head>>
  BY DEF DeleteData, Step, At
<1>2. ReuseDat(p) => pc[p] = "rdat" /\ UNCHANGED <<idx, head>>
  BY DEF ReuseDat, Step, At
<1>3. Overwrite(p) => pc[p] = "over" /\ UNCHANGED <<idx, head>>
  BY DEF Overwrite, Step, At
<1>4. AppendDatWrite(p) => pc[p] = "wdat" /\ UNCHANGED <<idx, head>>
  BY DEF AppendDatWrite, Step, At
<1>5. DeleteIdx(p) => pc[p] = "didx" /\ UNCHANGED <<dat, head>>
  BY DEF DeleteIdx, Step, At
<1>6. DeleteFree(p) => pc[p] = "dfree" /\ UNCHANGED <<idx, dat>>
  BY DEF DeleteFree, Step, At
<1>7. DeleteChain(p) => pc[p] = "dchain" /\ UNCHANGED dat
  BY DEF DeleteChain, At
<1>8. FreeUnlink(p) => pc[p] = "ffunlink" /\ UNCHANGED dat
  BY DEF FreeUnlink, Step, At
<1>9. AppendIdxWrite(p) => pc[p] = "widx" /\ UNCHANGED <<dat, head>>
  BY DEF AppendIdxWrite, Step, At
<1>10. ReuseIdx(p) => pc[p] = "ridx" /\ UNCHANGED <<dat, head>>
  BY DEF ReuseIdx, Step, At
<1>11. LinkChain(p) => pc[p] = "link" /\ UNCHANGED <<idx, dat>>
  BY DEF LinkChain, Step, At
<1>12. Writes(p) => pc[p] \in Deleting \cup Storing
  BY <1>1, <1>2, <1>3, <1>4, <1>5, <1>6, <1>7, <1>8, <1>9, <1>10, <1>11
     DEF Writes, Deleting, Storing, Reusing, Appending
<1> QED
  BY <1>1, <1>2, <1>3, <1>4, <1>5, <1>6, <1>7, <1>8, <1>9, <1>10, <1>11, <1>12

\* Index records keep their data records; a used one keeps its key unless it
\* is deleted.
LEMMA DataKept ==
  ASSUME IInv, NEW p \in Procs, Move(p), NEW r \in Recs
  PROVE  /\ r \in Recs' /\ idx'[r].dat = idx[r].dat
         /\ ~DeleteIdx(p) /\ idx[r].key \in Keys => idx'[r].key = idx[r].key
<1>t. Len(idx) \in Nat /\ Blank \notin Keys
  BY DbAssumption DEF IInv, TypeOK
<1>0. CASE idx' = idx
  BY <1>0 DEF Recs
<1>1. CASE DeleteIdx(p)
  BY <1>1, DeleteIdxDoes, Zenon DEF Recs
<1>2. CASE DeleteChain(p)
  BY <1>2, DeleteChainDoes DEF PtrWritten, Recs
<1>3. CASE FreeUnlink(p)
  BY <1>3, FreeUnlinkDoes, Zenon DEF PtrWritten, Recs
<1>4. CASE AppendIdxWrite(p)
  BY <1>4, <1>t, AppendIdxWriteDoes DEF Recs
<1>5. CASE ReuseIdx(p)
  <2>1. pc[p] = "ridx"
    BY <1>5, WritesAt
  <2>2. /\ Len(idx') = Len(idx) /\ idx[db[p].idxoff].key = Blank
        /\ \A s \in Recs : s # db[p].idxoff => idx'[s] = idx[s]
        /\ idx'[db[p].idxoff].dat = idx[db[p].idxoff].dat
    BY <1>5, <2>1, ReuseIdxDoes, NewRecord, Zenon
  <2> QED
    BY <1>t, <2>2 DEF Recs
<1> QED
  BY <1>0, <1>1, <1>2, <1>3, <1>4, <1>5, QuietOrWrites, WritesAt, Zenon
     DEF Writes, Quiet

\* Another chain than the one p has locked.
OtherChainKept(l) ==
  /\ head'[l] = head[l] /\ OnChain(l)' = OnChain(l)
  /\ \A r \in OnChain(l) : /\ r \in Recs' /\ idx'[r].key = idx[r].key
                           /\ idx'[r].dat = idx[r].dat /\ idx'[r].ptr = idx[r].ptr
                           /\ Ptr'[r] = Ptr[r]
\* A step leaves the chains of other processes alone.
LEMMA OtherChains ==
  ASSUME IInv, NEW p \in Procs, Move(p), NEW l \in Chains,
         Quiet(p) \/ l # Chain(p)
  PROVE  OtherChainKept(l)
<1>t. /\ Len(idx) \in Nat /\ Blank \notin Keys /\ head \in [Lists -> Nat] /\ l \in Lists
      /\ l # Free /\ OnChain(l) \subseteq Recs
  BY DbAssumption, LockNames, SMTT(30) DEF IInv, TypeOK, OnChain
<1> USE <1>t
<1>0. CASE UNCHANGED <<idx, head>>
  BY <1>0, Zenon DEF OtherChainKept, OnChain, Recs, Ptr
<1>q. CASE Quiet(p)
  BY <1>0, <1>q, Zenon DEF Quiet
<1> SUFFICES ASSUME l # Chain(p) PROVE OtherChainKept(l)
  BY <1>q
<1>1. CASE DeleteIdx(p)
  <2>1. /\ Len(idx') = Len(idx) /\ head' = head
        /\ \A r \in Recs : r # db[p].idxoff => idx'[r] = idx[r]
        /\ idx[db[p].idxoff].key = call[p].key
    BY <1>1, DeleteIdxDoes, WritesAt, Zenon
  <2>2. \A m : OnChain(m)' = OnChain(m) \ {db[p].idxoff}
    BY <1>1, DeleteIdxLists, Zenon
  <2>3. db[p].idxoff \notin OnChain(l)
    BY <2>1, Zenon DEF OnChain, Chain
  <2>4. \A r \in OnChain(l) : r \in Recs' /\ idx'[r] = idx[r]
    BY <2>1, <2>3 DEF Recs
  <2>5. \A r \in OnChain(l) : Ptr'[r] = Ptr[r]
    BY <2>4 DEF Recs, Ptr
  <2> QED
    BY <2>1, <2>2, <2>3, <2>4, <2>5, Zenon DEF OtherChainKept
<1>2. CASE DeleteFree(p)
  <2>1. idx' = idx /\ head'[l] = head[l]
    BY <1>2 DEF DeleteFree
  <2> QED
    BY <2>1, Zenon DEF OtherChainKept, OnChain, Recs, Ptr
<1>3. CASE DeleteChain(p)
  <2> USE <1>3
  <2>1. \A r \in OnChain(l) : r # db[p].ptroff
    BY DeleteChainDoes, SMTT(30) DEF OnChain, Recs
  <2>2. \A m : OnChain(m)' = OnChain(m)
    BY DeleteChainLists
  <2>3. Len(idx') = Len(idx) /\ head'[l] = head[l]
    BY DeleteChainDoes DEF PtrWritten
  <2>4. \A r \in OnChain(l) : /\ r \in Recs' /\ idx'[r].key = idx[r].key
                              /\ idx'[r].dat = idx[r].dat /\ idx'[r].ptr = idx[r].ptr
    BY <2>1, <2>3, DeleteChainDoes, Zenon DEF PtrWritten, Recs
  <2>5. \A r \in OnChain(l) : Ptr'[r] = Ptr[r]
    BY <2>4, Zenon DEF Recs, Ptr
  <2> QED
    BY <2>2, <2>3, <2>4, <2>5, Zenon DEF OtherChainKept
<1>4. CASE FreeUnlink(p)
  <2> USE <1>4
  <2>1. \A r \in OnChain(l) : r # db[p].ptroff
    <3>1. db[p].ptroff \in OnFree \cup {0}
      BY FreeUnlinkDoes
    <3> QED
      BY <3>1, SMTT(30) DEF OnChain, OnFree, Recs
  <2>2. \A m : OnChain(m)' = OnChain(m)
    BY FreeUnlinkLists
  <2>3. Len(idx') = Len(idx) /\ head'[l] = head[l]
    BY FreeUnlinkDoes, Zenon DEF PtrWritten
  <2>4. \A r \in OnChain(l) : /\ r \in Recs' /\ idx'[r].key = idx[r].key
                              /\ idx'[r].dat = idx[r].dat /\ idx'[r].ptr = idx[r].ptr
    BY <2>1, <2>3, FreeUnlinkDoes, Zenon DEF PtrWritten, Recs
  <2>5. \A r \in OnChain(l) : Ptr'[r] = Ptr[r]
    BY <2>4, Zenon DEF Recs, Ptr
  <2> QED
    BY <2>2, <2>3, <2>4, <2>5, Zenon DEF OtherChainKept
<1>5. CASE AppendIdxWrite(p)
  <2>1. NewOn(p, db[p].idxoff) /\ head' = head
    BY <1>5, AppendIdxWriteLists, WritesAt, Zenon
  <2>2. OnChain(l)' = OnChain(l)
    BY <2>1 DEF NewOn
  <2>3. \A r \in OnChain(l) : r \in Recs' /\ idx'[r] = idx[r] /\ Ptr'[r] = Ptr[r]
    BY <2>1, Zenon DEF NewOn
  <2> QED
    BY <2>1, <2>2, <2>3, Zenon DEF OtherChainKept
<1>6. CASE ReuseIdx(p)
  <2>1. NewOn(p, db[p].idxoff) /\ head' = head
    BY <1>6, ReuseIdxLists, WritesAt, Zenon
  <2>2. OnChain(l)' = OnChain(l)
    BY <2>1 DEF NewOn
  <2>3. \A r \in OnChain(l) : r \in Recs' /\ idx'[r] = idx[r] /\ Ptr'[r] = Ptr[r]
    BY <2>1, Zenon DEF NewOn
  <2> QED
    BY <2>1, <2>2, <2>3, Zenon DEF OtherChainKept
<1>7. CASE LinkChain(p)
  <2>1. idx' = idx /\ head'[l] = head[l]
    BY <1>7, Zenon DEF LinkChain
  <2> QED
    BY <2>1 DEF OtherChainKept, OnChain, Recs, Ptr
<1> QED
  BY <1>0, <1>q, <1>1, <1>2, <1>3, <1>4, <1>5, <1>6, <1>7, QuietOrWrites,
     WritesAt, Zenon
     DEF Writes

\* The free list, while p does not hold its lock.
FreeKept ==
  /\ head'[Free] = head[Free] /\ OnFree' = OnFree
  /\ \A r \in OnFree : Ptr'[r] = Ptr[r]
\* Only the process that holds the free list's lock changes it.
LEMMA FreeStays ==
  ASSUME IInv, NEW p \in Procs, Move(p), pc[p] \notin FreeHeld
  PROVE  FreeKept
<1>t. head \in [Lists -> Nat] /\ Free \in Lists /\ OnFree \subseteq Recs
  BY LockNames DEF IInv, TypeOK, OnFree
<1>0. CASE \/ Quiet(p) \/ ReuseDat(p) \/ Overwrite(p) \/ AppendDatWrite(p)
  <2>1. SameLists
    BY <1>0, QuietLists
  <2>2. head' = head
    BY <1>0, WritesAt, Zenon DEF Quiet
  <2> QED
    BY <2>1, <2>2 DEF FreeKept, SameLists
<1>1. CASE LinkChain(p)
  <2>1. SameLists
    BY <1>1, QuietLists
  <2>2. pc[p] = "link" /\ Chain(p) # Free
    BY <1>1, WritesAt, KeyCall, LockNames, Zenon DEF IInv, Scanning
  <2>3. head'[Free] = head[Free]
    BY <1>1, <1>t, <2>2 DEF LinkChain
  <2> QED
    BY <2>1, <2>3 DEF FreeKept, SameLists
<1>2. CASE AppendIdxWrite(p) \/ ReuseIdx(p)
  <2>1. NewOn(p, db[p].idxoff) /\ head' = head
    BY <1>2, AppendIdxWriteLists, ReuseIdxLists, WritesAt, Zenon
  <2> QED
    BY <1>t, <2>1, Zenon DEF FreeKept, NewOn
<1>3. ~DeleteData(p) /\ ~DeleteIdx(p) /\ ~DeleteFree(p) /\ ~DeleteChain(p) /\ ~FreeUnlink(p)
  BY WritesAt DEF FreeHeld
<1> QED
  BY <1>0, <1>1, <1>2, <1>3, QuietOrWrites DEF Writes

-----------------------------------------------------------------------------
(* The record a process has in hand. *)

\* Another process keeps the record it has found on its chain.
FoundAt(q) ==
  LET d == db[q]
  IN  /\ pc[q] \in {"readdat", "over", "dlock", "ddat", "didx", "link"} =>
           d.idxoff \in Recs /\ idx[d.idxoff].key = call[q].key
      /\ pc[q] \in {"readdat", "over", "dlock", "ddat", "didx", "ffunlink", "rdat", "ridx"} =>
           d.idxoff \in Recs /\ d.datoff = idx[d.idxoff].dat
      /\ pc[q] \in {"dlock", "ddat", "didx"} =>
           /\ d.ptrval = idx[d.idxoff].ptr
           /\ Follows(head[Chain(q)], Ptr, OnChain(Chain(q)), d.ptroff, d.idxoff)
      /\ pc[q] \in {"dfree", "dchain"} =>
           d.ptroff \in OnChain(Chain(q)) \cup {0}
      /\ pc[q] \in Reusing \cup Appending => d.ptrval = head[Chain(q)]
      /\ pc[q] = "link" => idx[d.idxoff].ptr = head[Chain(q)]
\* The empty record it has taken, or is about to take.
EmptyAt(q) ==
  LET d == db[q]
  IN  /\ pc[q] \in Holding => d.idxoff \in Recs /\ idx[d.idxoff].key = Blank
      /\ pc[q] = "dfree" => idx[d.idxoff].ptr = head[Free]
      /\ pc[q] = "ffunlink" =>
           d.idxoff \in OnFree /\ Follows(head[Free], Ptr, OnFree, d.ptroff, d.idxoff)
\* The record it appends, or fills, or returns.
NewAt(q) ==
  LET d == db[q]
  IN  /\ pc[q] = "wdat" => d.datoff = Len(dat) + 1
      /\ pc[q] \in {"aidx", "widx"} =>
           d.datoff \in 1..Len(dat) /\ \A r \in Recs : idx[r].dat # d.datoff
      /\ pc[q] \in {"aidx", "widx", "ridx"} => dat[d.datoff] = call[q].val
      /\ pc[q] = "widx" => d.idxoff = Len(idx) + 1
      /\ pc[q] = "ndat" => \E r \in Recs : /\ idx[r].key = d.idxbuf /\ d.idxbuf \in Keys
                                           /\ idx[r].dat = d.datoff
\* What a process knows of its record, in three parts.
LEMMA RecordParts ==
  ASSUME NEW q \in Procs
  PROVE  RecordAt(q) <=> FoundAt(q) /\ EmptyAt(q) /\ NewAt(q)
  BY Zenon DEF RecordAt, FoundAt, EmptyAt, NewAt

\* Other processes' steps leave a record alone that a process has found.
LEMMA FoundKept ==
  ASSUME IInv, NEW p \in Procs, Move(p), NEW q \in Procs, q # p
  PROVE  FoundAt(q)'
<1>1. RecordAt(q) /\ FoundAt(q)
  BY RecordParts DEF IInv, RecordInv
<1>2. pc'[q] = pc[q] /\ db'[q] = db[q] /\ call'[q] = call[q] /\ Chain(q)' = Chain(q)
  BY OthersStay DEF Chain
<1>3. \A r \in Recs : r \in Recs' /\ idx'[r].dat = idx[r].dat
  BY DataKept
<1>4. CASE pc[q] \in Deleting \cup Storing \cup {"readdat"}
  <2> DEFINE l == Chain(q)
             x == db[q].idxoff
             y == db[q].ptroff
  <2>1. l \in Chains /\ call[q].key \in Keys
    BY <1>4, KeyCall DEF IInv, Deleting, Storing, Reusing, Appending, Scanning
  <2>2. Quiet(p) \/ l # Chain(p)
    BY <1>4, Excludes, QuietOrWrites, WritesAt
  <2>3. OtherChainKept(l)
    BY <2>1, <2>2, OtherChains
  <2>4. x \in Recs /\ idx[x].key = call[q].key => x \in OnChain(l)
    BY <2>1 DEF OnChain, Chain
  <2> HIDE DEF l, x, y
  <2>5. x \in Recs /\ idx[x].key = call[q].key =>
          x \in Recs' /\ idx'[x].key = call[q].key /\ idx'[x].ptr = idx[x].ptr
    BY <2>3, <2>4 DEF OtherChainKept
  <2>6. Follows(head[l], Ptr, OnChain(l), y, x) => Follows(head'[l], Ptr', OnChain(l)', y, x)
    BY <2>3 DEF OtherChainKept, Follows
  <2>7. head'[l] = head[l] /\ OnChain(l)' = OnChain(l)
    BY <2>3 DEF OtherChainKept
  <2>8. OnChain(l)' = OnChain(Chain(q))' /\ head'[l] = head'[Chain(q)']
    BY <1>2 DEF l, OnChain
  <2> QED
    BY <1>1, <1>2, <1>3, <2>5, <2>6, <2>7, <2>8, Zenon DEF FoundAt, l, x, y
<1>5. CASE pc[q] \notin Deleting \cup Storing \cup {"readdat"}
  BY <1>2, <1>5, Zenon DEF FoundAt, Deleting, Storing, Reusing, Appending
<1> QED
  BY <1>4, <1>5

\* Other processes' steps leave a record blank that a process has emptied or
\* taken.
LEMMA EmptyKept ==
  ASSUME IInv, NEW p \in Procs, Move(p), NEW q \in Procs, q # p
  PROVE  EmptyAt(q)'
<1>1. RecordAt(q) /\ EmptyAt(q)
  BY RecordParts DEF IInv, RecordInv
<1>2. pc'[q] = pc[q] /\ db'[q] = db[q]
  BY OthersStay
<1>3. CASE pc[q] \in Holding
  <2> USE <1>3
  <2> DEFINE x == db[q].idxoff
  <2>1. x \in Recs /\ idx[x].key = Blank /\ Blank \notin Keys
    BY <1>1, DbAssumption, Zenon DEF EmptyAt
  <2> USE <2>1
  <2>2. x \in Recs'
    BY DataKept, Zenon
  <2>3. idx'[x].key = Blank
    <3>0. CASE idx' = idx
      BY <3>0
    <3>1. CASE DeleteIdx(p)
      BY <3>1, DeleteIdxDoes, Zenon
    <3>2. CASE DeleteChain(p) \/ FreeUnlink(p)
      BY <3>2, DeleteChainDoes, FreeUnlinkDoes, Zenon DEF PtrWritten
    <3>3. CASE AppendIdxWrite(p)
      BY <3>3, AppendIdxWriteDoes
    <3>4. CASE ReuseIdx(p)
      <4>1. x # db[p].idxoff
        BY <3>4, WritesAt, Zenon DEF IInv, ApartInv, Holding
      <4> QED
        BY <3>4, <4>1, ReuseIdxDoes
    <3> QED
      BY <3>0, <3>1, <3>2, <3>3, <3>4, QuietOrWrites, WritesAt, Zenon
         DEF Writes, Quiet
  <2>4. pc[q] = "dfree" => idx'[x].ptr = head'[Free]
    <3> SUFFICES ASSUME pc[q] = "dfree" PROVE idx'[x].ptr = head'[Free]
      OBVIOUS
    <3>1. pc[p] \notin FreeHeld
      BY Excludes DEF FreeHeld
    <3>2. head'[Free] = head[Free] /\ idx[x].ptr = head[Free]
      BY <1>1, <3>1, FreeStays, Zenon DEF EmptyAt, FreeKept
    <3>3. idx'[x].ptr = idx[x].ptr
      <4>0. CASE idx' = idx
        BY <4>0, Zenon
      <4>1. CASE AppendIdxWrite(p)
        BY <4>1, AppendIdxWriteDoes, Zenon
      <4>2. CASE ReuseIdx(p)
        <5>1. x # db[p].idxoff
          BY <4>2, WritesAt, Zenon DEF IInv, ApartInv, Holding
        <5> QED
          BY <4>2, <5>1, ReuseIdxDoes, Zenon
      <4>3. ~DeleteIdx(p) /\ ~DeleteChain(p) /\ ~FreeUnlink(p)
        BY <3>1, WritesAt, Zenon DEF FreeHeld
      <4> QED
        BY <4>0, <4>1, <4>2, <4>3, QuietOrWrites, WritesAt, Zenon
           DEF Writes, Quiet
    <3> QED
      BY <3>2, <3>3, Zenon
  <2> QED
    BY <1>2, <2>2, <2>3, <2>4, Zenon DEF EmptyAt, Holding
<1>4. CASE pc[q] = "ffunlink"
  <2> DEFINE x == db[q].idxoff
             y == db[q].ptroff
  <2>1. pc[p] \notin FreeHeld
    BY <1>4, Excludes DEF FreeHeld
  <2>2. FreeKept
    BY <2>1, FreeStays
  <2>3. x \in OnFree /\ Follows(head[Free], Ptr, OnFree, y, x)
    BY <1>1, <1>4, Zenon DEF EmptyAt
  <2> HIDE DEF x, y
  <2>4. x \in OnFree' /\ Follows(head'[Free], Ptr', OnFree', y, x)
    BY <2>2, <2>3 DEF FreeKept, Follows
  <2> QED
    BY <1>2, <1>4, <2>4, Zenon DEF EmptyAt, Holding, x, y
<1>5. CASE pc[q] \notin Holding /\ pc[q] # "ffunlink"
  BY <1>2, <1>5, Zenon DEF EmptyAt, Holding
<1> QED
  BY <1>3, <1>4, <1>5

\* A data record that is filled before its index record is written.
LEMMA FilledKept ==
  ASSUME IInv, NEW p \in Procs, Move(p), NEW q \in Procs, q # p,
         pc[q] \in {"aidx", "widx", "ridx"}
  PROVE  /\ db[q].datoff \in 1..Len(dat) /\ db[q].datoff \in 1..Len(dat')
         /\ dat'[db[q].datoff] = call[q].val
<1> DEFINE i == db[q].datoff
<1>t. Len(dat) \in Nat
  BY DEF IInv, TypeOK
<1>1. RecordAt(q) /\ RecordAt(p) /\ FileInv
  BY DEF IInv, RecordInv
<1> USE <1>1
<1>2. i \in 1..Len(dat) /\ dat[i] = call[q].val
  BY Zenon DEF RecordAt, FileInv
<1>3. ASSUME DeleteData(p) \/ ReuseDat(p) \/ Overwrite(p)
      PROVE  db[p].datoff # i
  <2>1. pc[p] \in {"ddat", "rdat", "over"}
    BY <1>3, WritesAt
  <2>2. db[p].idxoff \in Recs /\ db[p].datoff = idx[db[p].idxoff].dat
    BY <2>1, Zenon DEF RecordAt
  <2>3. CASE pc[q] \in {"aidx", "widx"}
    BY <2>2, <2>3, Zenon DEF RecordAt
  <2>4. CASE pc[q] = "ridx"
    <3>1. db[q].idxoff \in Recs /\ i = idx[db[q].idxoff].dat /\ idx[db[q].idxoff].key = Blank
      BY <2>4, Zenon DEF RecordAt, Holding
    <3>2. db[p].idxoff # db[q].idxoff
      <4>1. CASE pc[p] = "rdat"
        BY <2>4, <4>1, Zenon DEF IInv, ApartInv, Holding
      <4>2. CASE pc[p] \in {"ddat", "over"}
        <5>1. idx[db[p].idxoff].key = call[p].key
          BY <4>2, Zenon DEF RecordAt
        <5>2. call[p].key \in Keys /\ Blank \notin Keys
          BY <4>2, KeyCall, DbAssumption, Zenon DEF IInv, Scanning
        <5> QED
          BY <3>1, <5>1, <5>2, Zenon
      <4> QED
        BY <2>1, <4>1, <4>2
    <3> QED
      BY <2>2, <3>1, <3>2, Zenon DEF FileInv
  <2> QED
    BY <2>3, <2>4
<1>4. CASE DeleteData(p) \/ ReuseDat(p) \/ Overwrite(p)
  BY <1>2, <1>3, <1>4, DeleteDataDoes, ReuseDatDoes, OverwriteDoes, Zenon
     DEF DataWritten
<1>5. CASE AppendDatWrite(p)
  BY <1>t, <1>2, <1>5, AppendDatWriteDoes, SMTT(30)
<1>6. CASE dat' = dat
  BY <1>2, <1>6
<1> QED
  BY <1>4, <1>5, <1>6, QuietOrWrites, WritesAt, Zenon DEF Writes, Quiet

\* Other processes' steps leave a record alone that a process is adding.
LEMMA NewKept ==
  ASSUME IInv, NEW p \in Procs, Move(p), NEW q \in Procs, q # p
  PROVE  NewAt(q)'
<1> DEFINE d == db[q]
<1>t. Len(dat) \in Nat /\ Len(idx) \in Nat
  BY DEF IInv, TypeOK
<1>1. RecordAt(q) /\ NewAt(q)
  BY RecordParts DEF IInv, RecordInv
<1> USE <1>1
<1>2. pc'[q] = pc[q] /\ db'[q] = db[q] /\ call'[q] = call[q]
  BY OthersStay, Zenon
<1>3. \A r \in Recs : r \in Recs' /\ idx'[r].dat = idx[r].dat
  BY DataKept, Zenon
<1>4. pc[q] = "wdat" => d.datoff = Len(dat') + 1
  <2> SUFFICES ASSUME pc[q] = "wdat" PROVE Len(dat') = Len(dat)
    BY DEF NewAt
  <2>1. ~AppendDatWrite(p)
    BY Excludes, WritesAt, Zenon
  <2>2. CASE dat' = dat
    BY <2>2
  <2>3. CASE DeleteData(p) \/ ReuseDat(p) \/ Overwrite(p)
    BY <2>3, DeleteDataDoes, ReuseDatDoes, OverwriteDoes, Zenon DEF DataWritten
  <2> QED
    BY <2>1, <2>2, <2>3, QuietOrWrites, WritesAt, Zenon DEF Writes, Quiet
<1>5. pc[q] \in {"aidx", "widx"} =>
        d.datoff \in 1..Len(dat') /\ \A r \in Recs' : idx'[r].dat # d.datoff
  <2> SUFFICES ASSUME pc[q] \in {"aidx", "widx"}
               PROVE  d.datoff \in 1..Len(dat') /\ \A r \in Recs' : idx'[r].dat # d.datoff
    OBVIOUS
  <2>1. d.datoff \in 1..Len(dat')
    BY FilledKept
  <2>2. \A r \in Recs : idx[r].dat # d.datoff
    BY DEF NewAt
  <2>3. CASE AppendIdxWrite(p)
    <3>1. db[p].datoff # d.datoff
      BY <2>3, WritesAt, Zenon DEF IInv, ApartInv
    <3>2. NewOn(p, db[p].idxoff)
      BY <2>3, AppendIdxWriteLists
    <3>3. /\ \A r \in Recs' : r \in Recs \/ r = db[p].idxoff
          /\ idx'[db[p].idxoff].dat = db[p].datoff
      BY <3>2, Zenon DEF NewOn
    <3> QED
      BY <1>3, <2>1, <2>2, <3>1, <3>3, Zenon
  <2>4. CASE ~AppendIdxWrite(p)
    <3>1. Recs' = Recs
      BY <2>4, Lengthens DEF Recs
    <3> QED
      BY <1>3, <2>1, <2>2, <3>1
  <2> QED
    BY <2>3, <2>4, Zenon
<1>6. pc[q] \in {"aidx", "widx", "ridx"} => dat'[d.datoff] = call[q].val
  BY FilledKept
<1>7. pc[q] = "widx" => d.idxoff = Len(idx') + 1
  <2> SUFFICES ASSUME pc[q] = "widx" PROVE Len(idx') = Len(idx)
    BY DEF NewAt
  <2>1. ~AppendIdxWrite(p)
    BY Excludes, WritesAt
  <2> QED
    BY <2>1, Lengthens
<1>8. pc[q] = "ndat" => \E r \in Recs' : /\ idx'[r].key = d.idxbuf /\ d.idxbuf \in Keys
                                         /\ idx'[r].dat = d.datoff
  <2> SUFFICES ASSUME pc[q] = "ndat"
               PROVE  \E r \in Recs' : /\ idx'[r].key = d.idxbuf /\ d.idxbuf \in Keys
                                       /\ idx'[r].dat = d.datoff
    OBVIOUS
  <2>1. ~DeleteIdx(p)
    BY Excludes, WritesAt, Zenon DEF FreeHeld
  <2>2. PICK r \in Recs : /\ idx[r].key = d.idxbuf /\ d.idxbuf \in Keys
                          /\ idx[r].dat = d.datoff
    BY Zenon DEF NewAt
  <2>3. idx'[r].key = idx[r].key
    BY <2>1, <2>2, DataKept, Zenon
  <2> QED
    BY <1>3, <2>2, <2>3, Zenon
<1> QED
  BY <1>2, <1>4, <1>5, <1>6, <1>7, <1>8, Zenon DEF NewAt

\* The record p itself has in hand after its step.
LEMMA RecordOwn ==
  ASSUME IInv, NEW p \in Procs, Move(p)
  PROVE  RecordAt(p)'
<1> DEFINE d == db[p]
<1>t. /\ pc \in [Procs -> Places] /\ db \in [Procs -> Fields] /\ head \in [Lists -> Nat]
      /\ idx \in Seq(Records) /\ Len(idx) \in Nat /\ Len(dat) \in Nat /\ pos \in [Procs -> Nat]
  BY DEF IInv, TypeOK
<1> USE <1>t
<1>r. RecordAt(p)
  BY DEF IInv, RecordInv
<1> USE <1>r
<1>e. CASE pc'[p] \in {"idle", "find", "unlock", "nlock", "nidx", "nunlock", "dead"}
  BY <1>e, Zenon DEF RecordAt, Holding, Reusing, Appending
<1> USE <1>e
<1>1. CASE FetchFind(p)
  <2>1. \/ Took(p, "readdat") \/ Took(p, "over") \/ Took(p, "dlock") \/ Missed(p, "ffree")
        \/ Took(p, "unlock") \/ Missed(p, "unlock")
    BY <1>1, FetchFindDoes, Zenon
  <2>2. /\ call' = call /\ idx' = idx /\ head' = head /\ pc[p] = "find"
        /\ pc'[p] \in {"readdat", "unlock", "dlock", "ffree", "over"}
    BY <1>1, FindDoes, Zenon
  <2> USE <2>2
  <2>3. SameLists
    BY ListsSame, Zenon DEF Holding
  <2>4. CASE Took(p, "unlock") \/ Missed(p, "unlock")
    BY <2>4, Zenon DEF Took, Missed
  <2>5. CASE Missed(p, "ffree")
    <3>1. pc'[p] = "ffree" /\ db'[p].ptrval = head[Chain(p)] /\ Chain(p)' = Chain(p)
      BY <2>5, Zenon DEF Missed, Chain
    <3> QED
      BY <3>1, Zenon DEF RecordAt, Holding, Reusing, Appending
  <2>6. CASE Took(p, "readdat") \/ Took(p, "over") \/ Took(p, "dlock")
    <3>1. PICK r \in Recs, y \in Nat :
            /\ idx[r].key = call[p].key
            /\ Follows(head[Chain(p)], Ptr, OnChain(Chain(p)), y, r)
            /\ db'[p].idxoff = r /\ db'[p].datoff = idx[r].dat
            /\ db'[p].ptroff = y /\ db'[p].ptrval = idx[r].ptr
      BY <2>6, Zenon DEF Took
    <3>2. pc'[p] \in {"readdat", "over", "dlock"} /\ Chain(p)' = Chain(p)
      BY <2>6, Zenon DEF Took, Chain
    <3>3. Recs' = Recs
      BY <2>3 DEF SameLists
    <3>4. Follows(head'[Chain(p)'], Ptr', OnChain(Chain(p))', y, r)
      <4>1. OnChain(Chain(p))' = OnChain(Chain(p)) /\ Ptr' = Ptr
        BY <3>2, Zenon DEF OnChain, Recs, Ptr
      <4> QED
        BY <3>1, <3>2, <4>1, Zenon
    <3> QED
      BY <3>1, <3>2, <3>3, <3>4, Zenon
         DEF RecordAt, Holding, Reusing, Appending
  <2> QED
    BY <2>1, <2>4, <2>5, <2>6
<1>2. CASE DeleteFind(p)
  <2>1. \/ Took(p, "readdat") \/ Took(p, "over") \/ Took(p, "dlock") \/ Missed(p, "ffree")
        \/ Took(p, "unlock") \/ Missed(p, "unlock")
    BY <1>2, DeleteFindDoes, Zenon
  <2>2. /\ call' = call /\ idx' = idx /\ head' = head /\ pc[p] = "find"
        /\ pc'[p] \in {"readdat", "unlock", "dlock", "ffree", "over"}
    BY <1>2, FindDoes, Zenon
  <2> USE <2>2
  <2>3. SameLists
    BY ListsSame, Zenon DEF Holding
  <2>4. CASE Took(p, "unlock") \/ Missed(p, "unlock")
    BY <2>4, Zenon DEF Took, Missed
  <2>5. CASE Missed(p, "ffree")
    <3>1. pc'[p] = "ffree" /\ db'[p].ptrval = head[Chain(p)] /\ Chain(p)' = Chain(p)
      BY <2>5, Zenon DEF Missed, Chain
    <3> QED
      BY <3>1, Zenon DEF RecordAt, Holding, Reusing, Appending
  <2>6. CASE Took(p, "readdat") \/ Took(p, "over") \/ Took(p, "dlock")
    <3>1. PICK r \in Recs, y \in Nat :
            /\ idx[r].key = call[p].key
            /\ Follows(head[Chain(p)], Ptr, OnChain(Chain(p)), y, r)
            /\ db'[p].idxoff = r /\ db'[p].datoff = idx[r].dat
            /\ db'[p].ptroff = y /\ db'[p].ptrval = idx[r].ptr
      BY <2>6, Zenon DEF Took
    <3>2. pc'[p] \in {"readdat", "over", "dlock"} /\ Chain(p)' = Chain(p)
      BY <2>6, Zenon DEF Took, Chain
    <3>3. Recs' = Recs
      BY <2>3 DEF SameLists
    <3>4. Follows(head'[Chain(p)'], Ptr', OnChain(Chain(p))', y, r)
      <4>1. OnChain(Chain(p))' = OnChain(Chain(p)) /\ Ptr' = Ptr
        BY <3>2, Zenon DEF OnChain, Recs, Ptr
      <4> QED
        BY <3>1, <3>2, <4>1, Zenon
    <3> QED
      BY <3>1, <3>2, <3>3, <3>4, Zenon
         DEF RecordAt, Holding, Reusing, Appending
  <2> QED
    BY <2>1, <2>4, <2>5, <2>6
<1>3. CASE StoreFind(p)
  <2>1. \/ Took(p, "readdat") \/ Took(p, "over") \/ Took(p, "dlock") \/ Missed(p, "ffree")
        \/ Took(p, "unlock") \/ Missed(p, "unlock")
    BY <1>3, StoreFindDoes, Zenon
  <2>2. /\ call' = call /\ idx' = idx /\ head' = head /\ pc[p] = "find"
        /\ pc'[p] \in {"readdat", "unlock", "dlock", "ffree", "over"}
    BY <1>3, FindDoes, Zenon
  <2> USE <2>2
  <2>3. SameLists
    BY ListsSame, Zenon DEF Holding
  <2>4. CASE Took(p, "unlock") \/ Missed(p, "unlock")
    BY <2>4, Zenon DEF Took, Missed
  <2>5. CASE Missed(p, "ffree")
    <3>1. pc'[p] = "ffree" /\ db'[p].ptrval = head[Chain(p)] /\ Chain(p)' = Chain(p)
      BY <2>5, Zenon DEF Missed, Chain
    <3> QED
      BY <3>1, Zenon DEF RecordAt, Holding, Reusing, Appending
  <2>6. CASE Took(p, "readdat") \/ Took(p, "over") \/ Took(p, "dlock")
    <3>1. PICK r \in Recs, y \in Nat :
            /\ idx[r].key = call[p].key
            /\ Follows(head[Chain(p)], Ptr, OnChain(Chain(p)), y, r)
            /\ db'[p].idxoff = r /\ db'[p].datoff = idx[r].dat
            /\ db'[p].ptroff = y /\ db'[p].ptrval = idx[r].ptr
      BY <2>6, Zenon DEF Took
    <3>2. pc'[p] \in {"readdat", "over", "dlock"} /\ Chain(p)' = Chain(p)
      BY <2>6, Zenon DEF Took, Chain
    <3>3. Recs' = Recs
      BY <2>3 DEF SameLists
    <3>4. Follows(head'[Chain(p)'], Ptr', OnChain(Chain(p))', y, r)
      <4>1. OnChain(Chain(p))' = OnChain(Chain(p)) /\ Ptr' = Ptr
        BY <3>2, Zenon DEF OnChain, Recs, Ptr
      <4> QED
        BY <3>1, <3>2, <4>1, Zenon
    <3> QED
      BY <3>1, <3>2, <3>3, <3>4, Zenon
         DEF RecordAt, Holding, Reusing, Appending
  <2> QED
    BY <2>1, <2>4, <2>5, <2>6
<1>4. CASE DeleteLock(p)
  <2>1. /\ pc[p] = "dlock" /\ pc'[p] = "ddat" /\ db' = db /\ call' = call
        /\ idx' = idx /\ head' = head
    BY <1>4 DEF DeleteLock, Step, At, Goto, files, procV
  <2>2. Recs' = Recs /\ Ptr' = Ptr /\ OnChain(Chain(p))' = OnChain(Chain(p)) /\ Chain(p)' = Chain(p)
    BY <2>1, Zenon DEF Recs, Ptr, OnChain, Chain
  <2>3. /\ d.idxoff \in Recs /\ idx[d.idxoff].key = call[p].key
        /\ d.datoff = idx[d.idxoff].dat /\ d.ptrval = idx[d.idxoff].ptr
        /\ Follows(head[Chain(p)], Ptr, OnChain(Chain(p)), d.ptroff, d.idxoff)
    BY <2>1, Zenon DEF RecordAt
  <2> QED
    BY <2>1, <2>2, <2>3, Zenon DEF RecordAt, Holding, Reusing, Appending
<1>5. CASE DeleteData(p)
  <2>1. /\ pc[p] = "ddat" /\ pc'[p] = "didx" /\ db' = db /\ call' = call
        /\ idx' = idx /\ head' = head
    BY <1>5 DEF DeleteData, Step, At, Goto, procV
  <2>2. Recs' = Recs /\ Ptr' = Ptr /\ OnChain(Chain(p))' = OnChain(Chain(p)) /\ Chain(p)' = Chain(p)
    BY <2>1, Zenon DEF Recs, Ptr, OnChain, Chain
  <2>3. /\ d.idxoff \in Recs /\ idx[d.idxoff].key = call[p].key
        /\ d.datoff = idx[d.idxoff].dat /\ d.ptrval = idx[d.idxoff].ptr
        /\ Follows(head[Chain(p)], Ptr, OnChain(Chain(p)), d.ptroff, d.idxoff)
    BY <2>1, Zenon DEF RecordAt
  <2> QED
    BY <2>1, <2>2, <2>3, Zenon DEF RecordAt, Holding, Reusing, Appending
<1>6. CASE DeleteIdx(p)
  <2>1. /\ pc[p] = "didx" /\ pc'[p] = "dfree" /\ db' = db /\ call' = call /\ head' = head
        /\ Chain(p)' = Chain(p)
    BY <1>6 DEF DeleteIdx, Step, At, Goto, procV, Chain
  <2>2. /\ d.idxoff \in Recs
        /\ idx'[d.idxoff].key = Blank /\ idx'[d.idxoff].ptr = head[Free]
    BY <1>6, DeleteIdxDoes, Zenon
  <2>3. Recs' = Recs /\ OnChain(Chain(p))' = OnChain(Chain(p)) \ {d.idxoff}
    <3>1. Recs' = Recs /\ \A l : OnChain(l)' = OnChain(l) \ {d.idxoff}
      BY <1>6, DeleteIdxLists, Zenon
    <3> QED
      BY <2>1, <3>1, SMTT(30) DEF OnChain
  <2>4. Follows(head[Chain(p)], Ptr, OnChain(Chain(p)), d.ptroff, d.idxoff)
    BY <2>1, Zenon DEF RecordAt
  <2>5. d.ptroff \in OnChain(Chain(p))' \cup {0}
    BY <2>3, <2>4 DEF Follows
  <2> QED
    BY <2>1, <2>2, <2>3, <2>5, Zenon DEF RecordAt, Holding, Reusing, Appending
<1>7. CASE DeleteFree(p)
  <2>1. /\ pc[p] = "dfree" /\ pc'[p] = "dchain" /\ db' = db /\ call' = call /\ idx' = idx
        /\ Chain(p)' = Chain(p)
    BY <1>7, Zenon DEF DeleteFree, Step, At, Goto, procV, Chain
  <2>2. d.ptroff \in OnChain(Chain(p)) \cup {0}
    BY <2>1, Zenon DEF RecordAt
  <2>3. OnChain(Chain(p))' = OnChain(Chain(p))
    BY <2>1, Zenon DEF OnChain, Recs
  <2> QED
    BY <2>1, <2>2, <2>3, Zenon DEF RecordAt, Holding, Reusing, Appending
<1>8. CASE DeleteChain(p)
  <2>1. /\ pc'[p] \in {"unlock", "adat"} /\ call' = call
        /\ db' = [db EXCEPT ![p].ptrval = head'[Chain(p)]]
    BY <1>8 DEF DeleteChain, Goto
  <2>2. db'[p].ptrval = head'[Chain(p)'] /\ Chain(p)' = Chain(p)
    BY <2>1 DEF Fields, Chain
  <2> QED
    BY <2>1, <2>2, Zenon DEF RecordAt, Holding, Reusing, Appending
<1>9. CASE FindFree(p)
  <2>1. pc[p] = "ffree" /\ call' = call /\ idx' = idx /\ head' = head /\ Chain(p)' = Chain(p)
    BY <1>9, FindFreeDoes, Zenon DEF Chain
  <2> USE <2>1
  <2>2. d.ptrval = head[Chain(p)]
    BY Zenon DEF RecordAt, Reusing
  <2>3. \/ pc' = [pc EXCEPT ![p] = "adat"] /\ db' = db
        \/ /\ pc' = [pc EXCEPT ![p] = "ffunlink"]
           /\ \E r \in Recs, y \in Nat :
                /\ r \in OnFree /\ Follows(head[Free], Ptr, OnFree, y, r)
                /\ db'[p].idxoff = r /\ db'[p].ptroff = y
                /\ db'[p].datoff = idx[r].dat
                /\ db'[p].ptrval = db[p].ptrval
    BY <1>9, FindFreeDoes, Zenon
  <2>4. CASE pc' = [pc EXCEPT ![p] = "adat"] /\ db' = db
    BY <2>2, <2>4, Zenon DEF RecordAt, Holding, Reusing, Appending
  <2>5. CASE pc' = [pc EXCEPT ![p] = "ffunlink"]
    <3>0. pc'[p] = "ffunlink"
      BY <2>5
    <3>1. PICK r \in Recs, y \in Nat :
            /\ r \in OnFree /\ Follows(head[Free], Ptr, OnFree, y, r)
            /\ db'[p].idxoff = r /\ db'[p].ptroff = y
            /\ db'[p].datoff = idx[r].dat
            /\ db'[p].ptrval = db[p].ptrval
      BY <2>3, <3>0, Zenon
    <3>2. SameLists
      BY <3>0, ListsSame, Zenon DEF Holding
    <3> QED
      BY <2>2, <3>0, <3>1, <3>2, Zenon
         DEF SameLists, RecordAt, Holding, Reusing, Appending
  <2> QED
    BY <2>3, <2>4, <2>5, Zenon
<1>10. CASE FreeUnlink(p)
  <2>1. /\ pc[p] = "ffunlink" /\ pc'[p] = "rdat" /\ db' = db /\ call' = call
        /\ Chain(p)' = Chain(p)
    BY <1>10, Zenon DEF FreeUnlink, Step, At, Goto, procV, Chain
  <2>2. d.datoff = idx[d.idxoff].dat /\ d.ptrval = head[Chain(p)]
    BY <2>1, Zenon DEF RecordAt, Reusing
  <2>3. d.idxoff \in OnFree /\ d.idxoff \in Recs
    BY <1>10, FreeUnlinkDoes
  <2>4. idx[d.idxoff].key = Blank
    BY <2>3, Zenon DEF OnFree
  <2>5. PtrWritten(Free, db[p].ptroff, idx[db[p].idxoff].ptr)
    BY <1>10, FreeUnlinkDoes
  <2>6. Chain(p) \in Lists /\ Chain(p) # Free
    BY <2>1, KeyCall, LockNames, Zenon DEF IInv, Scanning
  <2>7. /\ idx'[d.idxoff].key = Blank /\ idx'[d.idxoff].dat = d.datoff
        /\ head'[Chain(p)] = head[Chain(p)] /\ Recs' = Recs
    BY <2>2, <2>3, <2>4, <2>5, <2>6, Zenon DEF PtrWritten, Recs
  <2> QED
    BY <2>1, <2>2, <2>3, <2>7, Zenon DEF RecordAt, Holding, Reusing, Appending
<1>11. CASE AppendDatSeek(p)
  <2>1. /\ pc[p] = "adat" /\ pc'[p] = "wdat" /\ call' = call /\ dat' = dat /\ head' = head
        /\ db' = [db EXCEPT ![p].datoff = Len(dat) + 1] /\ Chain(p)' = Chain(p)
    BY <1>11 DEF AppendDatSeek, Step, At, Goto, files, Chain
  <2>2. db'[p].datoff = Len(dat') + 1 /\ db'[p].ptrval = d.ptrval
    BY <2>1 DEF Fields
  <2>3. d.ptrval = head[Chain(p)]
    BY <2>1 DEF RecordAt, Appending
  <2> QED
    BY <2>1, <2>2, <2>3 DEF RecordAt, Holding, Reusing, Appending
<1>12. CASE AppendDatWrite(p)
  <2>1. /\ pc[p] = "wdat" /\ pc'[p] = "aidx" /\ db' = db /\ call' = call
        /\ idx' = idx /\ head' = head /\ Chain(p)' = Chain(p)
    BY <1>12, Zenon DEF AppendDatWrite, Step, At, Goto, procV, Chain
  <2>2. /\ Len(dat') = Len(dat) + 1 /\ d.datoff = Len(dat) + 1
        /\ dat'[d.datoff] = call[p].val
    BY <1>12, AppendDatWriteDoes, Zenon
  <2>3. d.ptrval = head[Chain(p)] /\ \A r \in Recs : idx[r].dat \in 1..Len(dat)
    BY <2>1, Zenon DEF RecordAt, Appending, IInv, FileInv
  <2>4. \A r \in Recs' : idx'[r].dat # d.datoff
    BY <2>1, <2>2, <2>3, SMTT(30) DEF Recs
  <2>5. d.datoff \in 1..Len(dat')
    BY <2>2, SMTT(30)
  <2> QED
    BY <2>1, <2>2, <2>3, <2>4, <2>5, Zenon
       DEF RecordAt, Holding, Reusing, Appending
<1>13. CASE AppendIdxSeek(p)
  <2>1. /\ pc[p] = "aidx" /\ pc'[p] = "widx" /\ call' = call
        /\ idx' = idx /\ dat' = dat /\ head' = head
        /\ db' = [db EXCEPT ![p].idxoff = Len(idx) + 1] /\ Chain(p)' = Chain(p)
    BY <1>13 DEF AppendIdxSeek, Step, At, Goto, files, Chain
  <2> USE <2>1
  <2>2. /\ db'[p].datoff = d.datoff /\ db'[p].ptrval = d.ptrval
        /\ db'[p].idxoff = Len(idx') + 1
    BY DEF Fields
  <2>3. /\ d.ptrval = head[Chain(p)] /\ d.datoff \in 1..Len(dat)
        /\ dat[d.datoff] = call[p].val /\ \A r \in Recs : idx[r].dat # d.datoff
    BY DEF RecordAt, Appending
  <2>4. Recs' = Recs
    BY DEF Recs
  <2> QED
    BY <2>2, <2>3, <2>4, Zenon DEF RecordAt, Holding, Reusing, Appending
<1>14. CASE AppendIdxWrite(p)
  <2>1. /\ pc'[p] = "link" /\ db' = db /\ call' = call /\ head' = head /\ Chain(p)' = Chain(p)
    BY <1>14, Zenon DEF AppendIdxWrite, Step, At, Goto, procV, Chain
  <2>2. NewOn(p, d.idxoff)
    BY <1>14, AppendIdxWriteLists
  <2>3. /\ d.idxoff \in Recs' /\ idx'[d.idxoff].key = call[p].key
        /\ idx'[d.idxoff].ptr = head[Chain(p)]
    BY <2>2, Zenon DEF NewOn
  <2> QED
    BY <2>1, <2>3, Zenon DEF RecordAt, Holding, Reusing, Appending
<1>15. CASE ReuseDat(p)
  <2>1. /\ pc[p] = "rdat" /\ pc'[p] = "ridx" /\ db' = db /\ call' = call
        /\ idx' = idx /\ head' = head /\ Chain(p)' = Chain(p)
    BY <1>15, Zenon DEF ReuseDat, Step, At, Goto, procV, Chain
  <2>2. DataWritten(d.datoff, call[p].val) /\ d.datoff \in 1..Len(dat)
    BY <1>15, ReuseDatDoes, Zenon
  <2>3. /\ d.idxoff \in Recs /\ d.datoff = idx[d.idxoff].dat /\ idx[d.idxoff].key = Blank
        /\ d.ptrval = head[Chain(p)]
    BY <2>1, Zenon DEF RecordAt, Holding, Reusing
  <2>4. dat'[d.datoff] = call[p].val /\ Recs' = Recs
    BY <2>1, <2>2, Zenon DEF DataWritten, Recs
  <2> QED
    BY <2>1, <2>3, <2>4, Zenon DEF RecordAt, Holding, Reusing, Appending
<1>16. CASE ReuseIdx(p)
  <2>1. /\ pc'[p] = "link" /\ db' = db /\ call' = call /\ head' = head /\ Chain(p)' = Chain(p)
    BY <1>16, Zenon DEF ReuseIdx, Step, At, Goto, procV, Chain
  <2>2. NewOn(p, d.idxoff)
    BY <1>16, ReuseIdxLists
  <2>3. /\ d.idxoff \in Recs' /\ idx'[d.idxoff].key = call[p].key
        /\ idx'[d.idxoff].ptr = head[Chain(p)]
    BY <2>2, Zenon DEF NewOn
  <2> QED
    BY <2>1, <2>3, Zenon DEF RecordAt, Holding, Reusing, Appending
<1>17. CASE NextrecIdx(p)
  <2>1. CASE pc'[p] # "ndat"
    BY <1>17, <2>1 DEF NextrecIdx, At, Goto
  <2>2. CASE pc'[p] = "ndat"
    <3>1. /\ pos[p] # 0 /\ pos[p] <= Len(idx) /\ idx[pos[p]].key # Blank /\ idx' = idx
          /\ db' = [db EXCEPT ![p].idxbuf = idx[pos[p]].key, ![p].datoff = idx[pos[p]].dat]
      BY <1>17, <2>2, Zenon DEF NextrecIdx, At, Goto, files
    <3> USE <3>1
    <3>2. pos[p] \in Recs
      BY DEF Recs
    <3>3. idx[pos[p]] \in Records
      BY <3>2 DEF Recs
    <3>4. db'[p].idxbuf = idx[pos[p]].key /\ db'[p].datoff = idx[pos[p]].dat
      BY DEF Fields
    <3>5. idx[pos[p]].key \in Keys /\ Recs' = Recs
      BY <3>3 DEF Records, Recs
    <3>6. \E r \in Recs' : /\ idx'[r].key = db'[p].idxbuf /\ db'[p].idxbuf \in Keys
                           /\ idx'[r].dat = db'[p].datoff
      BY <3>2, <3>4, <3>5
    <3> QED
      BY <2>2, <3>6, Zenon DEF RecordAt, Holding, Reusing, Appending
  <2> QED
    BY <2>1, <2>2
<1>18. CASE FetchData(p) \/ LinkChain(p) \/ Overwrite(p) \/ NextrecLock(p) \/
            NextrecAstray(p) \/ NextrecData(p) \/ NextrecUnlock(p) \/
            Unlock(p)
  BY <1>18, Zenon
     DEF FetchData, Step, At, Goto, LinkChain, Overwrite, NextrecLock,
         NextrecAstray, NextrecData, NextrecUnlock, Unlock
<1>19. CASE CallKey(p) \/ CallStore(p) \/ CallNextrec(p) \/ DbRewind(p)
  BY <1>19, Zenon
     DEF CallKey, Invoke, At, Goto, CallStore, CallNextrec, DbRewind
<1> QED
  BY <1>1, <1>2, <1>3, <1>4, <1>5, <1>6, <1>7, <1>8, <1>9, <1>10, <1>11, <1>12,
     <1>13, <1>14, <1>15, <1>16, <1>17, <1>18, <1>19, Zenon
     DEF Move, Advance

\* Every step keeps what each process knows of its record.
LEMMA RecordStep ==
  ASSUME IInv, NEW p \in Procs, Move(p)
  PROVE  RecordInv'
<1>1. ASSUME NEW q \in Procs, q # p PROVE RecordAt(q)'
  <2>1. FoundAt(q)' /\ EmptyAt(q)' /\ NewAt(q)'
    BY <1>1, FoundKept, EmptyKept, NewKept
  <2> QED
    BY <2>1, Zenon DEF RecordAt, FoundAt, EmptyAt, NewAt
<1> QED
  BY <1>1, RecordOwn DEF RecordInv

\* Two processes never get the same empty record, nor the same place at the
\* end of the data file.
LEMMA ApartStep ==
  ASSUME IInv, NEW p \in Procs, Move(p)
  PROVE  ApartInv'
<1>t. pc \in [Procs -> Places] /\ db \in [Procs -> Fields]
  BY DEF IInv, TypeOK
<1>a. ApartInv
  BY DEF IInv
<1> SUFFICES ASSUME NEW q \in Procs, q # p
             PROVE  /\ pc'[p] \in Holding /\ pc[q] \in Holding => db'[p].idxoff # db[q].idxoff
                    /\ pc'[p] \in {"aidx", "widx"} /\ pc[q] \in {"aidx", "widx"} =>
                         db'[p].datoff # db[q].datoff
  BY <1>a, OthersStay, SMTT(30) DEF ApartInv
<1>1. ASSUME pc'[p] \in Holding, pc[q] \in Holding
      PROVE  db'[p].idxoff # db[q].idxoff
  <2> USE <1>1
  <2>q. db[q].idxoff \in Recs /\ idx[db[q].idxoff].key = Blank
    BY Zenon DEF IInv, RecordInv, RecordAt
  <2>1. CASE DeleteIdx(p)
    <3>1. db'[p] = db[p] /\ pc[p] = "didx"
      BY <2>1 DEF DeleteIdx, procV, Step, At
    <3>2. idx[db[p].idxoff].key = call[p].key /\ call[p].key \in Keys
      BY <2>1, <3>1, DeleteIdxDoes, KeyCall, Zenon DEF IInv, Scanning
    <3> QED
      BY <2>q, <3>1, <3>2, DbAssumption, Zenon
  <2>2. CASE FreeUnlink(p)
    <3>1. db'[p] = db[p]
      BY <2>2, Zenon DEF FreeUnlink, procV
    <3>2. db[p].idxoff \in OnFree
      BY <2>2, FreeUnlinkDoes, Zenon
    <3> QED
      BY <3>1, <3>2 DEF OnFree, Taken
  <2>3. CASE ReuseDat(p)
    BY <1>a, <2>3 DEF ReuseDat, Step, At, procV, ApartInv, Holding
  <2>4. DeleteIdx(p) \/ FreeUnlink(p) \/ ReuseDat(p)
    BY Enters, Zenon DEF Holding
  <2> QED
    BY <2>1, <2>2, <2>3, <2>4, Zenon
<1>2. ASSUME pc'[p] \in {"aidx", "widx"}, pc[q] \in {"aidx", "widx"}
      PROVE  db'[p].datoff # db[q].datoff
  <2>1. CASE AppendDatWrite(p)
    <3>1. db'[p] = db[p] /\ db[p].datoff = Len(dat) + 1 /\ Len(dat) \in Nat
      BY <2>1, AppendDatWriteDoes, SMTT(30)
         DEF AppendDatWrite, procV, IInv, TypeOK
    <3>2. db[q].datoff \in 1..Len(dat)
      BY <1>2, Zenon DEF IInv, RecordInv, RecordAt
    <3> QED
      BY <3>1, <3>2
  <2>2. CASE AppendIdxSeek(p)
    <3>1. pc[p] = "aidx" /\ db' = [db EXCEPT ![p].idxoff = Len(idx) + 1]
      BY <2>2 DEF AppendIdxSeek, Step, At
    <3>2. db'[p].datoff = db[p].datoff
      BY <1>t, <3>1 DEF Fields
    <3> QED
      BY <1>2, <1>a, <3>1, <3>2 DEF ApartInv
  <2>3. AppendDatWrite(p) \/ AppendIdxSeek(p)
    BY <1>2, Enters, Zenon
  <2> QED
    BY <2>1, <2>2, <2>3, Zenon
<1> QED
  BY <1>1, <1>2
=============================================================================
