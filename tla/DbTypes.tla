------------------------------ MODULE DbTypes ------------------------------
(***************************************************************************)
(* The invariant of the database library: types, calls, locks, room in the *)
(* files, a scan's own steps, and the initial state.                       *)
(***************************************************************************)
EXTENDS DbFacts

\* The files stay files.
LEMMA FilesType ==
  ASSUME IInv, NEW p \in Procs, Move(p)
  PROVE  /\ idx' \in Seq(Records) /\ dat' \in Seq(Vals \cup {Blank})
         /\ head' \in [Lists -> Nat]
<1>t. /\ idx \in Seq(Records) /\ dat \in Seq(Vals \cup {Blank})
      /\ head \in [Lists -> Nat] /\ db \in [Procs -> Fields]
  BY DEF IInv, TypeOK
<1> USE <1>t
<1>d. db[p].idxoff \in Nat
  BY DEF Fields
<1> USE <1>d
<1>0. CASE Quiet(p)
  BY <1>0 DEF Quiet
<1>1. CASE DeleteData(p)
  BY <1>1, DeleteDataDoes, Zenon DEF DataWritten, DeleteData
<1>2. CASE ReuseDat(p)
  BY <1>2, ReuseDatDoes, Zenon DEF DataWritten, ReuseDat
<1>3. CASE Overwrite(p)
  BY <1>3, OverwriteDoes, Zenon DEF DataWritten, Overwrite
<1>4. CASE AppendDatWrite(p)
  BY <1>4, AppendDatWriteDoes, Zenon DEF AppendDatWrite, WriteAt
<1>5. CASE DeleteIdx(p)
  BY <1>5, DeleteIdxDoes, Zenon DEF DeleteIdx
<1>6. CASE DeleteChain(p)
  BY <1>6, DeleteChainDoes, Zenon DEF PtrWritten, DeleteChain
<1>7. CASE FreeUnlink(p)
  BY <1>7, FreeUnlinkDoes DEF PtrWritten, FreeUnlink
<1>8. CASE AppendIdxWrite(p)
  BY <1>8, AppendIdxWriteDoes, Zenon DEF AppendIdxWrite, WriteAt
<1>9. CASE ReuseIdx(p)
  BY <1>9, ReuseIdxDoes, Zenon DEF ReuseIdx
<1>10. CASE DeleteFree(p) \/ LinkChain(p)
  BY <1>10 DEF DeleteFree, LinkChain
<1> QED
  BY <1>0, <1>1, <1>2, <1>3, <1>4, <1>5, <1>6, <1>7, <1>8, <1>9, <1>10,
     QuietOrWrites
     DEF Writes

\* The locks are held by processes.
LEMMA LocksType ==
  ASSUME IInv, NEW p \in Procs, Move(p)
  PROVE  /\ writer' \in [Locks -> Procs \cup {None}]
         /\ readers' \in [Locks -> SUBSET Procs]
<1>t. /\ writer \in [Locks -> Procs \cup {None}]
      /\ readers \in [Locks -> SUBSET Procs]
  BY DEF IInv, TypeOK
<1> USE <1>t
<1>1. CASE FetchFind(p)
  <2>1. ReadLock(p, Chain(p))
    BY <1>1, FetchFindDoes
  <2> QED
    BY <2>1, Zenon DEF ReadLock
<1>2. CASE DeleteFind(p)
  <2>1. WriteLock(p, Chain(p))
    BY <1>2, DeleteFindDoes
  <2> QED
    BY <2>1, Zenon DEF WriteLock
<1>3. CASE StoreFind(p)
  <2>1. WriteLock(p, Chain(p))
    BY <1>3, StoreFindDoes
  <2> QED
    BY <2>1, Zenon DEF WriteLock
<1>4. CASE FindFree(p)
  BY <1>4, FindFreeDoes DEF WriteLock
<1>5. CASE FetchData(p) \/ DeleteLock(p) \/ DeleteData(p) \/ DeleteIdx(p) \/
           DeleteFree(p) \/ DeleteChain(p) \/ FreeUnlink(p) \/
           AppendDatSeek(p)
  BY <1>5, SMTT(30)
     DEF FetchData, locks, DeleteLock, WriteLock, DeleteData, DeleteIdx,
         DeleteFree, DeleteChain, Release, FreeUnlink, AppendDatSeek
<1>6. CASE AppendDatWrite(p) \/ AppendIdxSeek(p) \/ AppendIdxWrite(p) \/
           ReuseDat(p) \/ ReuseIdx(p) \/ LinkChain(p) \/ Overwrite(p) \/
           NextrecLock(p)
  BY <1>6
     DEF AppendDatWrite, Release, AppendIdxSeek, WriteLock, AppendIdxWrite,
         ReuseDat, locks, ReuseIdx, LinkChain, Overwrite, NextrecLock, ReadLock
<1>7. CASE NextrecIdx(p) \/ NextrecAstray(p) \/ NextrecData(p) \/
           NextrecUnlock(p) \/ Unlock(p) \/ CallKey(p) \/ CallStore(p) \/
           CallNextrec(p)
  BY <1>7, SMTT(30)
     DEF NextrecIdx, locks, NextrecAstray, Release, NextrecData, NextrecUnlock,
         Unlock, CallKey, Invoke, CallStore, CallNextrec
<1>8. CASE DbRewind(p)
  BY <1>8 DEF DbRewind, locks
<1> QED
  BY <1>1, <1>2, <1>3, <1>4, <1>5, <1>6, <1>7, <1>8 DEF Move, Advance

\* Places, calls and the map.
LEMMA CallsType ==
  ASSUME IInv, NEW p \in Procs, Move(p)
  PROVE  /\ pc' \in [Procs -> Places] /\ call' \in [Procs -> Map!Calls \cup {None}]
         /\ kv' \in [Keys -> Vals \cup {None}]
<1>t. /\ pc \in [Procs -> Places] /\ call \in [Procs -> Map!Calls \cup {None}]
      /\ kv \in [Keys -> Vals \cup {None}]
  BY DEF IInv, TypeOK
<1> USE <1>t
<1>k. /\ pc[p] \in Storing => call[p].val \in Vals
      /\ pc[p] \in Deleting \cup Storing => call[p].key \in Keys
  BY KeyCall
     DEF IInv, CallInv, CallAt, Scanning, Storing, Deleting, Reusing, Appending
<1>1. CASE FetchFind(p)
  <2>1. /\ pc'[p] \in Places /\ UNCHANGED <<call, kv>>
    BY <1>1, FindDoes DEF Places, Deleting, Storing, Reusing
  <2>2. pc' = [pc EXCEPT ![p] = pc'[p]]
    BY <1>1, FoundOthers, FetchFindDoes DEF IInv
  <2> QED
    BY <2>1, <2>2
<1>2. CASE DeleteFind(p)
  <2>1. /\ pc'[p] \in Places /\ UNCHANGED <<call, kv>>
    BY <1>2, FindDoes DEF Places, Deleting, Storing, Reusing
  <2>2. pc' = [pc EXCEPT ![p] = pc'[p]]
    BY <1>2, FoundOthers, DeleteFindDoes DEF IInv
  <2> QED
    BY <2>1, <2>2
<1>3. CASE StoreFind(p)
  <2>1. /\ pc'[p] \in Places /\ UNCHANGED <<call, kv>>
    BY <1>3, FindDoes DEF Places, Deleting, Storing, Reusing
  <2>2. pc' = [pc EXCEPT ![p] = pc'[p]]
    BY <1>3, FoundOthers, StoreFindDoes DEF IInv
  <2> QED
    BY <2>1, <2>2
<1>4. CASE FindFree(p)
  BY <1>4, FindFreeDoes
     DEF Places, Deleting, Storing, Reusing, Appending, Scanning
<1>5. CASE FetchData(p) \/ DeleteLock(p) \/ DeleteData(p) \/ DeleteIdx(p) \/
           DeleteFree(p) \/ FreeUnlink(p) \/ AppendDatSeek(p) \/
           AppendDatWrite(p)
  BY <1>5, Zenon
     DEF Places, Deleting, Storing, Reusing, Appending, Scanning, FetchData,
         Step, At, Goto, procV, DeleteLock, DeleteData, DeleteIdx, DeleteFree,
         FreeUnlink, AppendDatSeek, AppendDatWrite
<1>6. CASE AppendIdxSeek(p) \/ ReuseDat(p) \/ LinkChain(p) \/ NextrecLock(p)
           \/ NextrecIdx(p) \/ NextrecAstray(p) \/ NextrecData(p) \/
           NextrecUnlock(p)
  BY <1>6, Zenon
     DEF Places, Deleting, Storing, Reusing, Appending, Scanning,
         AppendIdxSeek, Step, At, Goto, ReuseDat, procV, LinkChain,
         NextrecLock, NextrecIdx, NextrecAstray, NextrecData, NextrecUnlock
<1>7. CASE Unlock(p) \/ DbRewind(p)
  BY <1>7
     DEF Places, Deleting, Storing, Reusing, Appending, Scanning, Unlock, Step,
         At, Goto, DbRewind
<1>8. CASE DeleteChain(p) \/ AppendIdxWrite(p) \/ ReuseIdx(p) \/ Overwrite(p)
  BY <1>8, <1>k
     DEF Places, Deleting, Storing, Reusing, Appending, Scanning, DeleteChain,
         At, Goto, AppendIdxWrite, Step, Stored, procV, ReuseIdx, Overwrite
<1>9. CASE CallKey(p) \/ CallStore(p) \/ CallNextrec(p)
  BY <1>9
     DEF Places, Deleting, Storing, Reusing, Appending, Scanning, Map!Calls,
         CallKey, Invoke, At, Goto, CallStore, CallNextrec
<1> QED
  BY <1>1, <1>2, <1>3, <1>4, <1>5, <1>6, <1>7, <1>8, <1>9 DEF Move, Advance

\* DB structures and answers.
LEMMA AnswersType ==
  ASSUME IInv, NEW p \in Procs, Move(p)
  PROVE  db' \in [Procs -> Fields] /\ ret' \in [Procs -> Seq(Answers)]
<1>i. /\ pc[p] = "readdat" => db[p].datoff \in 1..Len(dat)
      /\ pc[p] = "ndat" => db[p].idxbuf \in Keys /\ db[p].datoff \in 1..Len(dat)
  BY SMTT(30) DEF IInv, RecordInv, RecordAt, FileInv
<1>t. /\ db \in [Procs -> Fields] /\ ret \in [Procs -> Seq(Answers)]
      /\ idx \in Seq(Records) /\ dat \in Seq(Vals \cup {Blank})
      /\ head \in [Lists -> Nat] /\ pos \in [Procs -> Nat]
  BY DEF IInv, TypeOK
<1> USE <1>t
<1>d. pc[p] = "readdat" => dat[db[p].datoff] \in Vals \cup {Blank}
  BY <1>i
<1>a. \A x \in {None, "absent", "ok", "exists", "eof"} : <<x>> \in Seq(Answers)
  BY DEF Answers
<1> USE <1>a
<1>n. Len(idx) + 1 \in Nat /\ Len(dat) + 1 \in Nat
  OBVIOUS
<1>1. CASE FetchFind(p)
  <2>1. db' \in [Procs -> Fields]
    BY <1>1, FindDoes
  <2>2. ret' \in [Procs -> Seq(Answers)]
    BY <1>1, FetchFindDoes, Zenon
  <2> QED
    BY <2>1, <2>2
<1>2. CASE DeleteFind(p)
  <2>1. db' \in [Procs -> Fields]
    BY <1>2, FindDoes
  <2>2. ret' \in [Procs -> Seq(Answers)]
    BY <1>2, DeleteFindDoes, Zenon
  <2> QED
    BY <2>1, <2>2
<1>3. CASE StoreFind(p)
  <2>1. db' \in [Procs -> Fields]
    BY <1>3, FindDoes
  <2>2. ret' \in [Procs -> Seq(Answers)]
    BY <1>3, StoreFindDoes, ZenonT(30)
  <2> QED
    BY <2>1, <2>2
<1>4. CASE FetchData(p)
  BY <1>4, <1>d DEF Answers, FetchData, Step, Finish, At, Goto, procV
<1>5. CASE DeleteChain(p)
  <2>1. head'[Chain(p)] \in Nat
    BY <1>5, DeleteChainDoes, LockNames DEF PtrWritten
  <2>2. db' \in [Procs -> Fields]
    BY <1>5, <2>1, Zenon DEF DeleteChain, Fields
  <2>3. ret' \in [Procs -> Seq(Answers)]
    BY <1>5, Zenon DEF DeleteChain, Finish
  <2> QED
    BY <2>2, <2>3
<1>6. CASE FindFree(p)
  BY <1>6, FindFreeDoes, Zenon DEF DbSet
<1>7. CASE AppendDatSeek(p)
  BY <1>7, <1>n, Zenon DEF Fields, AppendDatSeek, Step, At, Goto
<1>8. CASE AppendIdxSeek(p)
  BY <1>8, <1>n, Zenon DEF Fields, AppendIdxSeek, Step, At, Goto
<1>9. CASE AppendIdxWrite(p)
  BY <1>9 DEF AppendIdxWrite, Step, Stored, At, Goto, Finish, procV
<1>10. CASE ReuseIdx(p)
  BY <1>10 DEF ReuseIdx, Step, Stored, At, Goto, Finish, procV
<1>11. CASE Overwrite(p)
  BY <1>11 DEF Overwrite, Step, Stored, At, Goto, Finish, procV
<1>12. CASE NextrecIdx(p)
  <2>1. CASE pos[p] > Len(idx) /\ Finish(p, <<"eof">>) /\ UNCHANGED db
    BY <2>1 DEF Finish
  <2>2. CASE pos[p] <= Len(idx) /\ idx[pos[p]].key = Blank /\ UNCHANGED <<db, ret>>
    BY <2>2
  <2>3. CASE /\ pos[p] <= Len(idx) /\ idx[pos[p]].key # Blank /\ UNCHANGED ret
             /\ db' = [db EXCEPT ![p].idxbuf = idx[pos[p]].key,
                                 ![p].datoff = idx[pos[p]].dat]
    <3>1. pos[p] \in 1..Len(idx) /\ idx[pos[p]] \in Records
      BY <1>12, <2>3 DEF NextrecIdx
    <3>2. idx[pos[p]].key \in Keys /\ idx[pos[p]].dat \in Nat
      BY <2>3, <3>1, Zenon DEF Records
    <3> QED
      BY <2>3, <3>2, ZenonT(30) DEF Fields
  <2> QED
    BY <1>12, <2>1, <2>2, <2>3, Zenon DEF NextrecIdx
<1>13. CASE NextrecData(p)
  <2>1. db[p].idxbuf \in Keys /\ dat[db[p].datoff] \in Vals \cup {Blank}
    <3>1. pc[p] = "ndat"
      BY <1>13 DEF NextrecData, Step, At
    <3> QED
      BY <1>i, <3>1
  <2>2. ret' = [ret EXCEPT ![p] = <<db[p].idxbuf, dat[db[p].datoff]>>] /\ db' = db
    BY <1>13 DEF NextrecData, Finish, procV
  <2>3. <<db[p].idxbuf, dat[db[p].datoff]>> \in Seq(Answers)
    BY <2>1 DEF Answers
  <2> QED
    BY <2>2, <2>3
<1>14. CASE NextrecUnlock(p)
  BY <1>14 DEF NoRec, Fields, NextrecUnlock, Step, Finish, At, Goto
<1>15. CASE Unlock(p)
  BY <1>15 DEF NoRec, Fields, Unlock, Step, Finish, At, Goto
<1>16. CASE DeleteLock(p) \/ DeleteData(p) \/ DeleteIdx(p) \/ DeleteFree(p)
            \/ FreeUnlink(p) \/ AppendDatWrite(p) \/ ReuseDat(p) \/
            LinkChain(p)
  BY <1>16, Zenon
     DEF DeleteLock, Step, At, Goto, procV, DeleteData, DeleteIdx, DeleteFree,
         FreeUnlink, AppendDatWrite, ReuseDat, LinkChain
<1>17. CASE NextrecLock(p) \/ NextrecAstray(p) \/ CallKey(p) \/ CallStore(p)
            \/ CallNextrec(p) \/ DbRewind(p)
  BY <1>17, Zenon
     DEF NextrecLock, Step, At, Goto, procV, NextrecAstray, CallKey, Invoke,
         CallStore, CallNextrec, DbRewind
<1> QED
  BY <1>1, <1>2, <1>3, <1>4, <1>5, <1>6, <1>7, <1>8, <1>9, <1>10, <1>11, <1>12,
     <1>13, <1>14, <1>15, <1>16, <1>17, Zenon
     DEF Move, Advance

\* What the scans have seen.
LEMMA ScansType ==
  ASSUME IInv, NEW p \in Procs, Move(p)
  PROVE  /\ pos' \in [Procs -> Nat]
         /\ stable' \in [Procs -> SUBSET Keys] /\ seen' \in [Procs -> [Keys -> Nat]]
<1>t. /\ pos \in [Procs -> Nat]
      /\ stable \in [Procs -> SUBSET Keys] /\ seen \in [Procs -> [Keys -> Nat]]
  BY DEF IInv, TypeOK
<1> USE <1>t
<1>b. \A k \in stable[p] : k \in Keys
  OBVIOUS
<1>1. CASE FindFree(p)
  BY <1>1, FindFreeDoes, Zenon
<1>2. CASE NextrecUnlock(p)
  BY <1>2 DEF NextrecUnlock, history
<1>3. CASE Unlock(p)
  BY <1>3 DEF Unlock, history
<1>4. CASE CallKey(p)
  BY <1>4 DEF CallKey, Invoke
<1>5. CASE CallStore(p)
  BY <1>5 DEF CallStore, Invoke
<1>6. CASE CallNextrec(p)
  BY <1>6 DEF CallNextrec, Invoke
<1>7. CASE DbRewind(p)
  BY <1>7 DEF DbRewind, Seek, AtRest
<1>8. CASE FetchFind(p) \/ DeleteFind(p) \/ StoreFind(p)
  BY <1>8, FindDoes, Zenon
<1>9. CASE FetchData(p) \/ DeleteLock(p) \/ DeleteData(p)
  BY <1>9 DEF FetchData, procV, history, DeleteLock, DeleteData
<1>10. CASE DeleteIdx(p) \/ DeleteFree(p) \/ DeleteChain(p)
  BY <1>10 DEF DeleteIdx, procV, DeleteFree, history, DeleteChain, Seek
<1>11. CASE FreeUnlink(p) \/ AppendDatSeek(p) \/ AppendDatWrite(p)
  BY <1>11 DEF FreeUnlink, procV, history, AppendDatSeek, AppendDatWrite
<1>12. CASE AppendIdxSeek(p) \/ AppendIdxWrite(p) \/ ReuseDat(p)
  BY <1>12 DEF AppendIdxSeek, history, AppendIdxWrite, procV, ReuseDat
<1>13. CASE ReuseIdx(p) \/ LinkChain(p) \/ Overwrite(p)
  BY <1>13, SMTT(30) DEF ReuseIdx, procV, history, LinkChain, Seek, Overwrite
<1>14. CASE NextrecLock(p) \/ NextrecIdx(p) \/ NextrecAstray(p)
  BY <1>14 DEF NextrecLock, procV, history, NextrecIdx, Seek, NextrecAstray
<1>15. CASE NextrecData(p)
  BY <1>15, <1>b DEF NextrecData, procV
<1> QED
  BY <1>1, <1>2, <1>3, <1>4, <1>5, <1>6, <1>7, <1>8, <1>9, <1>10, <1>11, <1>12,
     <1>13, <1>14, <1>15, Zenon
     DEF Move, Advance

\* Every step keeps the type invariant.
LEMMA TypeStep ==
  ASSUME IInv, NEW p \in Procs, Move(p)
  PROVE  TypeOK'
  BY FilesType, LocksType, CallsType, AnswersType, ScansType DEF TypeOK

\* A process stays where its call has brought it.
LEMMA CallStep ==
  ASSUME IInv, NEW p \in Procs, Move(p)
  PROVE  CallInv'
<1>t. /\ pc \in [Procs -> Places] /\ call \in [Procs -> Map!Calls \cup {None}]
      /\ ret \in [Procs -> Seq(Answers)] /\ TypeOK
  BY DEF IInv, TypeOK
<1> USE <1>t
<1>e. <<"ok">> # <<>> /\ <<"eof">> # <<>>
  OBVIOUS
<1>c. CallAt(p)
  BY DEF IInv, CallInv
<1> USE <1>c
<1>q. ASSUME NEW q \in Procs, q # p PROVE CallAt(q)'
  <2>1. CallAt(q)
    BY DEF IInv, CallInv
  <2> QED
    BY <1>q, <2>1, OthersStay, Zenon DEF CallAt
<1> SUFFICES CallAt(p)'
  BY <1>q DEF CallInv
<1>1. CASE FetchFind(p)
  <2>1. pc[p] = "find" /\ call'[p] = call[p]
    BY <1>1, FindDoes, Zenon
  <2>2. /\ call[p].op = "fetch"
        /\ \/ Took(p, "readdat") /\ ret' = ret
           \/ Missed(p, "unlock") /\ ret' = [ret EXCEPT ![p] = <<None>>]
    BY <1>1, FetchFindDoes
  <2>3. CASE Took(p, "readdat") /\ ret' = ret
    <3>1. pc'[p] = "readdat" /\ ret'[p] = ret[p]
      BY <2>3, FoundOthers, Zenon
    <3> QED
      BY <2>1, <2>2, <3>1, Zenon
         DEF CallAt, Deleting, Storing, Reusing, Appending, Scanning
  <2>4. CASE Missed(p, "unlock") /\ ret' = [ret EXCEPT ![p] = <<None>>]
    <3>1. pc'[p] = "unlock" /\ ret'[p] # <<>>
      BY <2>4, FoundOthers, Zenon
    <3> QED
      BY <2>1, <2>2, <3>1, Zenon
         DEF CallAt, Deleting, Storing, Reusing, Appending, Scanning
  <2> QED
    BY <2>2, <2>3, <2>4
<1>2. CASE DeleteFind(p)
  <2>1. pc[p] = "find" /\ call'[p] = call[p]
    BY <1>2, FindDoes
  <2>2. /\ call[p].op = "delete"
        /\ \/ Took(p, "dlock") /\ ret' = ret
           \/ Missed(p, "unlock") /\ ret' = [ret EXCEPT ![p] = <<"absent">>]
    BY <1>2, DeleteFindDoes
  <2>3. CASE Took(p, "dlock") /\ ret' = ret
    <3>1. pc'[p] = "dlock" /\ ret'[p] = ret[p]
      BY <2>3, FoundOthers, Zenon
    <3> QED
      BY <2>1, <2>2, <3>1, Zenon
         DEF CallAt, Deleting, Storing, Reusing, Appending, Scanning
  <2>4. CASE Missed(p, "unlock") /\ ret' = [ret EXCEPT ![p] = <<"absent">>]
    <3>1. pc'[p] = "unlock" /\ ret'[p] # <<>>
      BY <2>4, FoundOthers, Zenon
    <3> QED
      BY <2>1, <2>2, <3>1, Zenon
         DEF CallAt, Deleting, Storing, Reusing, Appending, Scanning
  <2> QED
    BY <2>2, <2>3, <2>4
<1>3. CASE StoreFind(p)
  <2>1. pc[p] = "find" /\ call'[p] = call[p]
    BY <1>3, FindDoes
  <2> USE <2>1
  <2>2. /\ call[p].op = "store"
        /\ \/ Missed(p, "unlock") /\ ret' = [ret EXCEPT ![p] = <<"absent">>]
           \/ Missed(p, "ffree") /\ ret' = ret
           \/ Took(p, "unlock") /\ ret' = [ret EXCEPT ![p] = <<"exists">>]
           \/ Took(p, "over") /\ ret' = ret
           \/ Took(p, "dlock") /\ ret' = ret
    BY <1>3, StoreFindDoes
  <2> USE <2>2
  <2>3. CASE Missed(p, "unlock") /\ ret' = [ret EXCEPT ![p] = <<"absent">>]
    <3>1. pc'[p] = "unlock" /\ ret'[p] # <<>>
      BY <2>3, FoundOthers
    <3> QED
      BY <3>1, Zenon
         DEF CallAt, Deleting, Storing, Reusing, Appending, Scanning
  <2>4. CASE Missed(p, "ffree") /\ ret' = ret
    <3>1. pc'[p] = "ffree" /\ ret'[p] = ret[p]
      BY <2>4, FoundOthers, Zenon
    <3> QED
      BY <3>1, Zenon
         DEF CallAt, Deleting, Storing, Reusing, Appending, Scanning
  <2>5. CASE Took(p, "unlock") /\ ret' = [ret EXCEPT ![p] = <<"exists">>]
    <3>1. pc'[p] = "unlock" /\ ret'[p] # <<>>
      BY <2>5, FoundOthers, Zenon
    <3> QED
      BY <3>1, Zenon
         DEF CallAt, Deleting, Storing, Reusing, Appending, Scanning
  <2>6. CASE Took(p, "over") /\ ret' = ret
    <3>1. pc'[p] = "over" /\ ret'[p] = ret[p]
      BY <2>6, FoundOthers, Zenon
    <3> QED
      BY <3>1, Zenon
         DEF CallAt, Deleting, Storing, Reusing, Appending, Scanning
  <2>7. CASE Took(p, "dlock") /\ ret' = ret
    <3>1. pc'[p] = "dlock" /\ ret'[p] = ret[p]
      BY <2>7, FoundOthers, Zenon
    <3> QED
      BY <3>1, Zenon
         DEF CallAt, Deleting, Storing, Reusing, Appending, Scanning
  <2> QED
    BY <2>3, <2>4, <2>5, <2>6, <2>7
<1>4. CASE FetchData(p)
  BY <1>4
     DEF CallAt, Deleting, Storing, Reusing, Appending, Scanning, FetchData,
         Step, Finish, At, Goto, procV
<1>5. CASE DeleteChain(p)
  <2>1. pc[p] = "dchain" /\ call' = call
    BY <1>5 DEF DeleteChain, At
  <2>2. \/ call[p].op = "delete" /\ Goto(p, "unlock") /\ Finish(p, <<"ok">>)
        \/ call[p].op = "store" /\ Goto(p, "adat") /\ ret' = ret
    BY <1>5 DEF DeleteChain
  <2>3. \/ call[p].op = "delete" /\ pc'[p] = "unlock" /\ ret'[p] # <<>>
        \/ call[p].op = "store" /\ pc'[p] = "adat" /\ ret'[p] = ret[p]
    BY <1>e, <2>2, Zenon DEF Goto, Finish
  <2> QED
    BY <2>1, <2>3 DEF CallAt, Deleting, Storing, Reusing, Appending, Scanning
<1>6. CASE FindFree(p)
  <2>1. /\ pc[p] = "ffree" /\ pc'[p] \in {"adat", "ffunlink"}
        /\ call'[p] = call[p] /\ ret'[p] = ret[p]
    BY <1>6, FindFreeDoes, Zenon
  <2> QED
    BY <2>1, Zenon DEF CallAt, Deleting, Storing, Reusing, Appending, Scanning
<1>7. CASE AppendIdxWrite(p)
  BY <1>7, Zenon
     DEF CallAt, Deleting, Storing, Reusing, Appending, Scanning,
         AppendIdxWrite, Step, Stored, At, Goto, Finish, procV
<1>8. CASE ReuseIdx(p)
  BY <1>8
     DEF CallAt, Deleting, Storing, Reusing, Appending, Scanning, ReuseIdx,
         Step, Stored, At, Goto, Finish, procV
<1>9. CASE Overwrite(p)
  BY <1>9, Zenon
     DEF CallAt, Deleting, Storing, Reusing, Appending, Scanning, Overwrite,
         Step, Stored, At, Goto, Finish, procV
<1>10. CASE NextrecIdx(p)
  <2>1. pc[p] = "nidx" /\ call' = call
    BY <1>10 DEF NextrecIdx, At
  <2>2. \/ Goto(p, "nunlock") /\ Finish(p, <<"eof">>)
        \/ pc' = pc /\ ret' = ret
        \/ Goto(p, "ndat") /\ ret' = ret
    BY <1>10 DEF NextrecIdx
  <2>3. \/ pc'[p] = "nunlock" /\ ret'[p] # <<>>
        \/ pc'[p] \in {"nidx", "ndat"} /\ ret'[p] = ret[p]
    BY <1>e, <2>1, <2>2, Zenon DEF Goto, Finish
  <2> QED
    BY <2>1, <2>3 DEF CallAt, Deleting, Storing, Reusing, Appending, Scanning
<1>11. CASE NextrecData(p)
  BY <1>11
     DEF CallAt, Deleting, Storing, Reusing, Appending, Scanning, NextrecData,
         Step, Finish, At, Goto, procV
<1>12. CASE NextrecUnlock(p)
  BY <1>12, Zenon
     DEF CallAt, Deleting, Storing, Reusing, Appending, Scanning,
         NextrecUnlock, Step, Finish, At, Goto
<1>13. CASE Unlock(p)
  BY <1>13, Zenon
     DEF CallAt, Deleting, Storing, Reusing, Appending, Scanning, Unlock, Step,
         Finish, At, Goto
<1>14. CASE CallKey(p)
  <2>1. PICK c \in [op : {"fetch", "delete"}, key : Keys] : Invoke(p, c)
    BY <1>14 DEF CallKey
  <2>2. c \in Map!Calls /\ c.op \in {"fetch", "delete"}
    BY DEF Map!Calls
  <2>3. /\ pc[p] = "idle" /\ c.op \in Uses[p] /\ call'[p] = c /\ pc'[p] = "find"
        /\ ret'[p] = ret[p]
    BY <2>1, <2>2, Zenon DEF Invoke, At, Goto
  <2> QED
    BY <2>2, <2>3, Zenon
       DEF CallAt, Deleting, Storing, Reusing, Appending, Scanning
<1>15. CASE DeleteLock(p) \/ DeleteData(p) \/ DeleteIdx(p) \/ DeleteFree(p)
            \/ FreeUnlink(p) \/ AppendDatSeek(p) \/ AppendDatWrite(p)
  BY <1>15, SMTT(30)
     DEF CallAt, Deleting, Storing, Reusing, Appending, Scanning, DeleteLock,
         Step, At, Goto, procV, DeleteData, DeleteIdx, DeleteFree, FreeUnlink,
         AppendDatSeek, AppendDatWrite
<1>16. CASE AppendIdxSeek(p) \/ ReuseDat(p) \/ LinkChain(p) \/ NextrecLock(p)
            \/ NextrecAstray(p) \/ DbRewind(p)
  BY <1>16
     DEF CallAt, Deleting, Storing, Reusing, Appending, Scanning,
         AppendIdxSeek, Step, At, Goto, ReuseDat, procV, LinkChain,
         NextrecLock, NextrecAstray, DbRewind
<1>17. CASE CallStore(p) \/ CallNextrec(p)
  BY <1>17, CallAssumption, SMTT(30)
     DEF CallAt, Deleting, Storing, Reusing, Appending, Scanning, Map!Calls,
         CallStore, Invoke, At, Goto, CallNextrec
<1> QED
  BY <1>1, <1>2, <1>3, <1>4, <1>5, <1>6, <1>7, <1>8, <1>9, <1>10, <1>11, <1>12,
     <1>13, <1>14, <1>15, <1>16, <1>17, Zenon
     DEF Move, Advance

\* Locks exclude each other, and no process loses one by another's step.
LEMMA LocksKept ==
  ASSUME IInv, NEW p \in Procs, Move(p)
  PROVE  /\ \A l \in Locks : writer'[l] # None => readers'[l] = {}
         /\ \A l \in Locks, q \in Procs : q # p =>
              /\ writer[l] = q => writer'[l] = q
              /\ q \in readers[l] => q \in readers'[l]
<1>t. /\ writer \in [Locks -> Procs \cup {None}]
      /\ readers \in [Locks -> SUBSET Procs]
      /\ \A l \in Locks : writer[l] # None => readers[l] = {}
  BY DEF IInv, TypeOK, LockInv
<1> USE <1>t
<1>n. None \notin Procs
  BY DbAssumption
<1> USE <1>n
<1>1. CASE FetchFind(p)
  <2>1. ReadLock(p, Chain(p))
    BY <1>1, FetchFindDoes
  <2> QED
    BY <2>1 DEF ReadLock
<1>2. CASE DeleteFind(p)
  <2>1. WriteLock(p, Chain(p))
    BY <1>2, DeleteFindDoes
  <2> QED
    BY <2>1 DEF WriteLock
<1>3. CASE StoreFind(p)
  <2>1. WriteLock(p, Chain(p))
    BY <1>3, StoreFindDoes
  <2> QED
    BY <2>1 DEF WriteLock
<1>4. CASE FindFree(p)
  BY <1>4, FindFreeDoes DEF WriteLock
<1>5. CASE FetchData(p) \/ DeleteLock(p) \/ DeleteData(p) \/ DeleteIdx(p) \/
           DeleteFree(p) \/ DeleteChain(p) \/ FreeUnlink(p) \/
           AppendDatSeek(p)
  BY <1>5, ZenonT(30)
     DEF FetchData, locks, DeleteLock, WriteLock, DeleteData, DeleteIdx,
         DeleteFree, DeleteChain, Release, FreeUnlink, AppendDatSeek
<1>6. CASE AppendDatWrite(p) \/ AppendIdxSeek(p) \/ AppendIdxWrite(p) \/
           ReuseDat(p) \/ ReuseIdx(p) \/ LinkChain(p) \/ Overwrite(p) \/
           NextrecLock(p)
  BY <1>6
     DEF AppendDatWrite, Release, AppendIdxSeek, WriteLock, AppendIdxWrite,
         ReuseDat, locks, ReuseIdx, LinkChain, Overwrite, NextrecLock, ReadLock
<1>7. CASE NextrecIdx(p) \/ NextrecAstray(p) \/ NextrecData(p) \/
           NextrecUnlock(p) \/ Unlock(p) \/ CallKey(p) \/ CallStore(p) \/
           CallNextrec(p)
  BY <1>7, SMTT(30)
     DEF NextrecIdx, locks, NextrecAstray, Release, NextrecData, NextrecUnlock,
         Unlock, CallKey, Invoke, CallStore, CallNextrec
<1>8. CASE DbRewind(p)
  BY <1>8, Zenon DEF DbRewind, locks
<1> QED
  BY <1>1, <1>2, <1>3, <1>4, <1>5, <1>6, <1>7, <1>8, Zenon DEF Move, Advance

\* A process has the locks its place calls for.
LEMMA LockStep ==
  ASSUME IInv, NEW p \in Procs, Move(p)
  PROVE  LockInv'
<1>k. TypeOK
  BY Zenon DEF IInv
<1>t. /\ pc \in [Procs -> Places] /\ call \in [Procs -> Map!Calls \cup {None}]
      /\ writer \in [Locks -> Procs \cup {None}]
      /\ readers \in [Locks -> SUBSET Procs]
  BY DEF IInv, TypeOK
<1>h. LockAt(p)
  BY DEF IInv, LockInv
<1>n. pc[p] \notin Scanning \cup {"idle"} => Chain(p) \in Chains
  BY KeyCall DEF IInv
<1>q. ASSUME NEW q \in Procs, q # p PROVE LockAt(q)'
  <2>1. LockAt(q)
    BY DEF IInv, LockInv
  <2>2. pc'[q] = pc[q] /\ call'[q] = call[q]
    BY <1>q, OthersStay, Zenon
  <2>3. pc[q] \in Deleting \cup Storing \cup {"readdat"} => Chain(q) \in Locks
    BY KeyCall, LockNames
       DEF IInv, Deleting, Storing, Reusing, Appending, Scanning
  <2>4. \A l \in Locks : /\ writer[l] = q => writer'[l] = q
                         /\ q \in readers[l] => q \in readers'[l]
    BY <1>q, LocksKept, Zenon
  <2> QED
    BY <2>1, <2>2, <2>3, <2>4, LockNames, Zenon DEF LockAt, Chain
<1> SUFFICES LockAt(p)'
  BY <1>q, LocksKept, Zenon DEF LockInv
<1>f. ASSUME pc'[p] \in {"idle", "find", "unlock", "nlock", "dead"}
      PROVE  LockAt(p)'
  BY <1>f, Zenon DEF LockAt, Deleting, Storing, Reusing, Appending
<1>s. ASSUME pc'[p] \in {"adat", "aidx", "rdat", "ridx", "link"}, call' = call,
             writer'[Chain(p)] = p
      PROVE  LockAt(p)'
  BY <1>s, Zenon
     DEF LockAt, Chain, Deleting, Storing, Reusing, Appending
<1>d. ASSUME pc'[p] \in {"ddat", "didx", "dfree", "dchain", "ffunlink"},
             call' = call, writer'[Chain(p)] = p, writer'[Free] = p
      PROVE  LockAt(p)'
  BY <1>d, Zenon
     DEF LockAt, Chain, Deleting, Storing, Reusing, Appending
<1>r. ASSUME pc'[p] \in {"nidx", "ndat", "nunlock"}, p \in readers'[Free]
      PROVE  LockAt(p)'
  BY <1>r, Zenon DEF LockAt, Deleting, Storing, Reusing, Appending
<1>1. CASE FetchFind(p)
  <2>1. pc'[p] \in {"readdat", "unlock"}
    BY <1>1, FetchFindDoes, FoundOthers, <1>k, Zenon
  <2>2. ReadLock(p, Chain(p)) /\ pc[p] = "find" /\ call' = call
    BY <1>1, FetchFindDoes, Zenon
  <2>3. p \in readers'[Chain(p)]
    BY <1>t, <1>n, <2>2, LockNames DEF ReadLock, Scanning
  <2> QED
    BY <2>1, <2>2, <2>3, Zenon
       DEF LockAt, Chain, Deleting, Storing, Reusing, Appending, Scanning
<1>2. CASE DeleteFind(p)
  <2>1. pc'[p] \in {"dlock", "unlock"}
    BY <1>2, DeleteFindDoes, FoundOthers, <1>k, Zenon
  <2>2. WriteLock(p, Chain(p)) /\ pc[p] = "find" /\ call' = call
    BY <1>2, DeleteFindDoes, Zenon
  <2>3. writer'[Chain(p)] = p
    BY <1>t, <1>n, <2>2, LockNames DEF WriteLock, Scanning
  <2> QED
    BY <2>1, <2>2, <2>3, Zenon
       DEF LockAt, Chain, Deleting, Storing, Reusing, Appending, Scanning
<1>3. CASE StoreFind(p)
  <2>1. pc'[p] \in {"unlock", "ffree", "over", "dlock"}
    <3>1. \E x \in {"unlock", "ffree", "over", "dlock"} :
             Took(p, x) \/ Missed(p, x)
      BY <1>3, StoreFindDoes, Zenon
    <3> QED
      BY <3>1, <1>k, FoundOthers, Zenon
  <2>2. WriteLock(p, Chain(p)) /\ pc[p] = "find" /\ call' = call
    BY <1>3, StoreFindDoes, Zenon
  <2>3. writer'[Chain(p)] = p
    BY <1>t, <1>n, <2>2, LockNames DEF WriteLock, Scanning
  <2> QED
    BY <2>1, <2>2, <2>3, Zenon
       DEF LockAt, Chain, Deleting, Storing, Reusing, Appending, Scanning
<1>4. CASE FindFree(p)
  <2>1. /\ pc[p] = "ffree" /\ call' = call
        /\ \/ pc' = [pc EXCEPT ![p] = "adat"] /\ writer' = writer
           \/ pc' = [pc EXCEPT ![p] = "ffunlink"] /\ WriteLock(p, Free)
    BY <1>4, FindFreeDoes
  <2>2. writer[Chain(p)] = p
    BY <2>1, <1>h, Zenon DEF LockAt, Storing, Reusing
  <2>3. \/ pc'[p] = "adat" /\ writer' = writer
        \/ pc'[p] = "ffunlink" /\ WriteLock(p, Free)
    BY <1>t, <2>1
  <2>4. CASE pc'[p] = "adat" /\ writer' = writer
    <3>1. writer'[Chain(p)] = p
      BY <2>2, <2>4, Zenon
    <3> QED
      BY <2>1, <2>4, <3>1, <1>s, Zenon
  <2>5. CASE pc'[p] = "ffunlink" /\ WriteLock(p, Free)
    <3>1. writer'[Chain(p)] = p /\ writer'[Free] = p
      BY <1>t, <1>n, <2>1, <2>2, <2>5, LockNames DEF WriteLock, Scanning
    <3> QED
      BY <2>1, <2>5, <3>1, <1>d, Zenon
  <2> QED
    BY <2>3, <2>4, <2>5, Zenon
<1>5. CASE FetchData(p) \/ LinkChain(p) \/ Overwrite(p)
  BY <1>5, <1>t, <1>f DEF FetchData, LinkChain, Overwrite, Step, At, Goto
<1>6. CASE DeleteLock(p)
  <2>1. pc'[p] = "ddat" /\ call' = call
    BY <1>6, <1>t DEF DeleteLock, Step, At, Goto, procV
  <2>2. writer'[Chain(p)] = p /\ writer'[Free] = p
    BY <1>6, <1>t, <1>h, <1>n, LockNames DEF DeleteLock, LockAt, Step, At, Goto, procV, WriteLock, Deleting, Scanning
  <2> QED
    BY <2>1, <2>2, <1>d, Zenon
<1>7. CASE DeleteData(p)
  <2>1. pc'[p] = "didx" /\ call' = call
    BY <1>7, <1>t DEF DeleteData, Step, At, Goto, procV
  <2>2. writer'[Chain(p)] = p /\ writer'[Free] = p
    BY <1>7, <1>t, <1>h, <1>n, LockNames DEF DeleteData, LockAt, Step, At, Goto, locks, procV, Deleting
  <2> QED
    BY <2>1, <2>2, <1>d, Zenon
<1>8. CASE DeleteIdx(p)
  <2>1. pc'[p] = "dfree" /\ call' = call
    BY <1>8, <1>t DEF DeleteIdx, Step, At, Goto, procV
  <2>2. writer'[Chain(p)] = p /\ writer'[Free] = p
    BY <1>8, <1>t, <1>h, <1>n, LockNames DEF DeleteIdx, LockAt, Step, At, Goto, locks, procV, Deleting
  <2> QED
    BY <2>1, <2>2, <1>d, Zenon
<1>9. CASE DeleteFree(p)
  <2>1. pc'[p] = "dchain" /\ call' = call
    BY <1>9, <1>t DEF DeleteFree, Step, At, Goto, procV
  <2>2. writer'[Chain(p)] = p /\ writer'[Free] = p
    BY <1>9, <1>t, <1>h, <1>n, LockNames DEF DeleteFree, LockAt, Step, At, Goto, locks, procV, Deleting
  <2> QED
    BY <2>1, <2>2, <1>d, Zenon
<1>10. CASE DeleteChain(p)
  <2>1. pc'[p] \in {"unlock", "adat"} /\ call' = call
    BY <1>10, <1>t DEF DeleteChain, Step, At, Goto, procV
  <2>2. writer'[Chain(p)] = p
    BY <1>10, <1>t, <1>h, <1>n, LockNames DEF DeleteChain, LockAt, At, Goto, Release, Deleting, Scanning
  <2> QED
    BY <2>1, <2>2, <1>f, <1>s, Zenon
<1>11. CASE FreeUnlink(p)
  <2>1. pc'[p] = "rdat" /\ call' = call
    BY <1>11, <1>t DEF FreeUnlink, Step, At, Goto, procV
  <2>2. writer'[Chain(p)] = p
    BY <1>11, <1>t, <1>h, <1>n, LockNames DEF FreeUnlink, LockAt, Step, At, Goto, procV, Release, Storing, Reusing, Scanning
  <2> QED
    BY <2>1, <2>2, <1>s, Zenon
<1>12. CASE AppendDatSeek(p)
  <2>1. pc'[p] = "wdat" /\ call' = call
    BY <1>12, <1>t DEF AppendDatSeek, Step, At, Goto, procV
  <2>2. writer'[Chain(p)] = p /\ writer'[DatEnd] = p
    BY <1>12, <1>t, <1>h, <1>n, LockNames DEF AppendDatSeek, LockAt, Step, At, Goto, WriteLock, Storing, Appending, Scanning
  <2> QED
    BY <2>1, <2>2, Zenon
       DEF LockAt, Chain, Deleting, Storing, Reusing, Appending
<1>13. CASE AppendDatWrite(p)
  <2>1. pc'[p] = "aidx" /\ call' = call
    BY <1>13, <1>t DEF AppendDatWrite, Step, At, Goto, procV
  <2>2. writer'[Chain(p)] = p
    BY <1>13, <1>t, <1>h, <1>n, LockNames DEF AppendDatWrite, LockAt, Step, At, Goto, procV, Release, Storing, Appending, Scanning
  <2> QED
    BY <2>1, <2>2, <1>s, Zenon
<1>14. CASE AppendIdxSeek(p)
  <2>1. pc'[p] = "widx" /\ call' = call
    BY <1>14, <1>t DEF AppendIdxSeek, Step, At, Goto, procV
  <2>2. writer'[Chain(p)] = p /\ writer'[IdxEnd] = p
    BY <1>14, <1>t, <1>h, <1>n, LockNames DEF AppendIdxSeek, LockAt, Step, At, Goto, WriteLock, Storing, Appending, Scanning
  <2> QED
    BY <2>1, <2>2, Zenon
       DEF LockAt, Chain, Deleting, Storing, Reusing, Appending
<1>15. CASE AppendIdxWrite(p)
  <2>1. pc'[p] = "link" /\ call' = call
    BY <1>15, <1>t DEF AppendIdxWrite, Step, At, Goto, procV
  <2>2. writer'[Chain(p)] = p
    BY <1>15, <1>t, <1>h, <1>n, LockNames DEF AppendIdxWrite, LockAt, Step, At, Goto, procV, Release, Storing, Appending, Scanning
  <2> QED
    BY <2>1, <2>2, <1>s, Zenon
<1>16. CASE ReuseDat(p)
  <2>1. pc'[p] = "ridx" /\ call' = call
    BY <1>16, <1>t DEF ReuseDat, Step, At, Goto, procV
  <2>2. writer'[Chain(p)] = p
    BY <1>16, <1>t, <1>h, <1>n, LockNames DEF ReuseDat, LockAt, Step, At, Goto, locks, procV, Storing, Reusing
  <2> QED
    BY <2>1, <2>2, <1>s, Zenon
<1>17. CASE ReuseIdx(p)
  <2>1. pc'[p] = "link" /\ call' = call
    BY <1>17, <1>t DEF ReuseIdx, Step, At, Goto, procV
  <2>2. writer'[Chain(p)] = p
    BY <1>17, <1>t, <1>h, <1>n, LockNames DEF ReuseIdx, LockAt, Step, At, Goto, locks, procV, Storing, Reusing
  <2> QED
    BY <2>1, <2>2, <1>s, Zenon
<1>18. CASE NextrecLock(p)
  <2>1. pc'[p] = "nidx"
    BY <1>18, <1>t DEF NextrecLock, Step, At, Goto, procV
  <2>2. p \in readers'[Free]
    BY <1>18, <1>t, <1>h, <1>n, LockNames DEF NextrecLock, LockAt, Step, At, Goto, procV, ReadLock
  <2> QED
    BY <2>1, <2>2, <1>r, Zenon
<1>19. CASE NextrecIdx(p)
  <2>1. pc'[p] \in {"nunlock", "nidx", "ndat"}
    BY <1>19, <1>t DEF NextrecIdx, Step, At, Goto, procV
  <2>2. p \in readers'[Free]
    BY <1>19, <1>t, <1>h, <1>n, LockNames DEF NextrecIdx, LockAt, At, Goto, locks
  <2> QED
    BY <2>1, <2>2, <1>r, Zenon
<1>20. CASE NextrecData(p)
  <2>1. pc'[p] = "nunlock"
    BY <1>20, <1>t DEF NextrecData, Step, At, Goto, procV
  <2>2. p \in readers'[Free]
    BY <1>20, <1>t, <1>h, <1>n, LockNames DEF NextrecData, LockAt, Step, At, Goto, locks, procV
  <2> QED
    BY <2>1, <2>2, <1>r, Zenon
<1>21. CASE NextrecAstray(p) \/ NextrecUnlock(p) \/ Unlock(p)
  BY <1>21, <1>t, <1>f, ZenonT(30) DEF NextrecAstray, NextrecUnlock, Unlock, Step, At, Goto
<1>22. CASE CallKey(p) \/ CallStore(p) \/ CallNextrec(p)
  BY <1>22, <1>t, <1>f DEF CallKey, CallStore, CallNextrec, Invoke, Goto
<1>23. CASE DbRewind(p)
  BY <1>23, <1>f, Zenon DEF DbRewind, At
<1> QED
  BY <1>1, <1>2, <1>3, <1>4, <1>5, <1>6, <1>7, <1>8, <1>9, <1>10, <1>11, <1>12, <1>13, <1>14, <1>15, <1>16, <1>17, <1>18, <1>19, <1>20, <1>21, <1>22, <1>23, Zenon
     DEF Move, Advance

\* Only a call of db_store adds to the records that are still to come.
LEMMA StaysUnstored ==
  ASSUME IInv, NEW p \in Procs, Move(p), ~CallStore(p), p \in Unstored'
  PROVE  p \in Unstored
<1>t. /\ call \in [Procs -> Map!Calls \cup {None}] /\ ret \in [Procs -> Seq(Answers)]
  BY DEF IInv, TypeOK
<1> USE <1>t
<1>u. call'[p] # None /\ call'[p].op = "store" /\ ret'[p] = <<>>
  BY DEF Unstored
<1> USE <1>u
<1>c. ASSUME pc[p] \in {"find", "readdat", "nidx", "ndat", "dchain", "widx", "ridx", "over"},
             call' = call
      PROVE  p \in Unstored
  <2>1. ret[p] = <<>>
    BY <1>c, Zenon DEF IInv, CallInv, CallAt
  <2> QED
    BY <1>c, <2>1, Zenon DEF Unstored
<1>1. CASE FetchFind(p) \/ DeleteFind(p) \/ StoreFind(p)
  BY <1>1, <1>c, FindDoes, Zenon
<1>2. CASE FetchData(p) \/ DeleteChain(p) \/ AppendIdxWrite(p) \/ ReuseIdx(p)
  BY <1>2, <1>c
     DEF FetchData, DeleteChain, AppendIdxWrite, ReuseIdx, Step, At, procV
<1>3. CASE Overwrite(p) \/ NextrecIdx(p) \/ NextrecData(p)
  BY <1>3, <1>c DEF Overwrite, NextrecIdx, NextrecData, Step, At, procV
<1>4. CASE CallKey(p)
  <2>1. PICK c \in [op : {"fetch", "delete"}, key : Keys] : Invoke(p, c)
    BY <1>4 DEF CallKey
  <2>2. call'[p] = c /\ c.op \in {"fetch", "delete"}
    BY <2>1, Zenon DEF Invoke
  <2> QED
    BY <2>2
<1>5. CASE FindFree(p)
  BY <1>5, FindFreeDoes, Zenon DEF Unstored
<1>6. CASE DeleteLock(p) \/ DeleteData(p) \/ DeleteIdx(p) \/ DeleteFree(p) \/
           FreeUnlink(p) \/ AppendDatSeek(p) \/ AppendDatWrite(p) \/
           AppendIdxSeek(p)
  BY <1>6
     DEF Unstored, DeleteLock, procV, DeleteData, DeleteIdx, DeleteFree,
         FreeUnlink, AppendDatSeek, AppendDatWrite, AppendIdxSeek
<1>7. CASE ReuseDat(p) \/ LinkChain(p) \/ NextrecLock(p) \/ NextrecAstray(p)
           \/ NextrecUnlock(p) \/ Unlock(p) \/ CallNextrec(p) \/ DbRewind(p)
  BY <1>7, Zenon
     DEF Unstored, ReuseDat, procV, LinkChain, NextrecLock, NextrecAstray,
         NextrecUnlock, Finish, Unlock, CallNextrec, Invoke, DbRewind
<1> QED
  BY <1>1, <1>2, <1>3, <1>4, <1>5, <1>6, <1>7, Zenon DEF Move, Advance

\* There is still room for every store in progress.
LEMMA RoomStep ==
  ASSUME IInv, NEW p \in Procs, Move(p)
  PROVE  RoomInv'
<1>1. /\ IsFiniteSet(Unstored) /\ Cardinality(Unstored) \in Nat /\ Len(idx) \in Nat
      /\ Len(idx) + Cardinality(Unstored) <= MaxRecs /\ MaxRecs \in Nat
  BY FileSize, FS_CardinalityType, DbAssumption DEF IInv, RoomInv
<1> USE <1>1
<1>2. \A q \in Unstored' : q # p => q \in Unstored
  BY OthersStay, Zenon DEF Unstored
<1>3. CASE AppendIdxWrite(p)
  <2>1. pc[p] = "widx" /\ call' = call /\ Len(idx') = Len(idx) + 1
    BY <1>3, AppendIdxWriteDoes, Zenon DEF AppendIdxWrite, Step, At, procV
  <2>2. p \in Unstored
    BY <2>1, KeyCall, Zenon
       DEF Unstored, IInv, CallInv, CallAt, Storing, Appending, Scanning
  <2>3. p \notin Unstored'
    <3>1. ret \in [Procs -> Seq(Answers)]
      BY DEF IInv, TypeOK
    <3>2. ret' = [ret EXCEPT ![p] = <<"ok">>]
      BY <1>3, Zenon DEF AppendIdxWrite, Stored, Finish
    <3>3. ret'[p] = <<"ok">>
      BY <3>1, <3>2
    <3>4. <<"ok">> # <<>>
      OBVIOUS
    <3> QED
      BY <3>3, <3>4, Zenon DEF Unstored
  <2> DEFINE U == Unstored
             V == Unstored'
  <2>4. V \subseteq U \ {p} /\ p \in U
    BY <1>2, <2>2, <2>3
  <2>5. IsFiniteSet(U \ {p}) /\ Cardinality(U \ {p}) = Cardinality(U) - 1
    BY <2>4, FS_RemoveElement
  <2> HIDE DEF U, V
  <2>6. Cardinality(V) <= Cardinality(U \ {p})
    BY <2>4, <2>5, FS_Subset
  <2>7. Cardinality(V) \in Nat
    BY <2>4, <2>5, FS_Subset, FS_CardinalityType
  <2>8. Len(idx') + Cardinality(V) <= MaxRecs
    BY <2>1, <2>5, <2>6, <2>7 DEF U
  <2> QED
    BY <2>8 DEF RoomInv, V
<1>4. CASE CallStore(p)
  <2> DEFINE O == {q \in Procs \ {p} : call[q] # None /\ call[q].op = "store"}
             V == Unstored'
  <2>1. Len(idx) + Cardinality(O) < MaxRecs /\ idx' = idx
    BY <1>4, Zenon DEF CallStore, Invoke, files
  <2>2. O \subseteq Procs /\ p \notin O
    BY Zenon
  <2>3. V \subseteq O \cup {p}
    BY OthersStay, Zenon DEF Unstored
  <2> HIDE DEF O, V
  <2>4. IsFiniteSet(O) /\ Cardinality(O) \in Nat
    BY <2>2, CallAssumption, FS_Subset, FS_CardinalityType
  <2>5. IsFiniteSet(O \cup {p}) /\ Cardinality(O \cup {p}) = Cardinality(O) + 1
    BY <2>2, <2>4, FS_AddElement, Zenon
  <2>6. Cardinality(V) <= Cardinality(O \cup {p}) /\ Cardinality(V) \in Nat
    BY <2>3, <2>5, FS_Subset, FS_CardinalityType
  <2>7. Len(idx') + Cardinality(V) <= MaxRecs
    BY <2>1, <2>4, <2>5, <2>6
  <2> QED
    BY <2>7 DEF RoomInv, V
<1>5. CASE ~AppendIdxWrite(p) /\ ~CallStore(p)
  <2> DEFINE U == Unstored
             V == Unstored'
  <2>1. V \subseteq U
    BY <1>2, <1>5, StaysUnstored
  <2>2. Len(idx') = Len(idx)
    BY <1>5, Lengthens
  <2>f. IsFiniteSet(U)
    OBVIOUS
  <2> HIDE DEF U, V
  <2>3. Cardinality(V) <= Cardinality(U) /\ Cardinality(V) \in Nat
    BY <2>1, <2>f, FS_Subset, FS_CardinalityType
  <2>4. Len(idx') + Cardinality(V) <= MaxRecs
    BY <2>2, <2>3 DEF U
  <2> QED
    BY <2>4 DEF RoomInv, V
<1> QED
  BY <1>3, <1>4, <1>5

-----------------------------------------------------------------------------
(* A scan, as its own process moves. *)

\* A step leaves the stable keys as they are or takes some away, unless it is
\* db_rewind; _db_dodelete takes away the key it deletes.
LEMMA StableKept ==
  ASSUME IInv, NEW p \in Procs, Move(p), NEW q \in Procs
  PROVE  /\ q # p \/ ~DbRewind(p) => stable'[q] \subseteq stable[q]
         /\ DeleteIdx(p) => call[p].key \notin stable'[q]
<1>t. stable \in [Procs -> SUBSET Keys]
  BY DEF IInv, TypeOK
<1> USE <1>t
<1>1. CASE FetchFind(p) \/ DeleteFind(p) \/ StoreFind(p)
  BY <1>1, FindDoes DEF DeleteIdx, Step, At
<1>2. CASE DeleteIdx(p)
  BY <1>2 DEF DeleteIdx, DbRewind, Step, At
<1>3. CASE CallKey(p) \/ CallStore(p) \/ CallNextrec(p) \/ DbRewind(p)
  BY <1>3, Zenon
     DEF CallKey, CallStore, CallNextrec, Invoke, DbRewind, DeleteIdx, Step, At
<1>4. CASE Advance(p) /\ ~FetchFind(p) /\ ~DeleteFind(p) /\ ~StoreFind(p) /\ ~DeleteIdx(p)
  <2>1. stable' = stable
    BY <1>4, ZenonT(30)
       DEF Advance, FetchData, DeleteLock, DeleteData, DeleteFree, DeleteChain,
           FindFree, FreeUnlink, AppendDatSeek, AppendDatWrite, AppendIdxSeek,
           AppendIdxWrite, ReuseDat, ReuseIdx, LinkChain, Overwrite,
           NextrecLock, NextrecIdx, NextrecAstray, NextrecData, NextrecUnlock,
           Unlock, history
  <2> QED
    BY <1>4, <2>1
<1> QED
  BY <1>1, <1>2, <1>3, <1>4, Zenon DEF Move

\* db_rewind: the records of the stable keys are all ahead.
LEMMA ScanStarts ==
  ASSUME IInv, NEW p \in Procs, DbRewind(p)
  PROVE  ScanAt(p)'
<1>t. /\ pc \in [Procs -> Places] /\ pos \in [Procs -> Nat] /\ Len(idx) \in Nat
      /\ stable \in [Procs -> SUBSET Keys] /\ seen \in [Procs -> [Keys -> Nat]]
  BY DEF IInv, TypeOK
<1>1. /\ pc[p] = "idle" /\ pc' = pc /\ pos'[p] = 1 /\ idx' = idx /\ ret' = ret
      /\ stable'[p] = AtRest /\ seen'[p] = [k \in Keys |-> 0] /\ "nextrec" \in Uses[p]
  BY <1>t, Zenon DEF DbRewind, At, Seek, files
<1> USE <1>1
<1>2. ret[p] = <<>> /\ <<>> # <<"eof">>
  BY Zenon DEF IInv, CallInv, CallAt
<1>3. ASSUME NEW k \in AtRest PROVE \E r \in Recs : idx[r].key = k
  <2>1. \A q \in Procs : pc[q] \in {"dfree", "dchain"} \cup Appending
          => call[q] # None /\ call[q].op \in {"store", "delete"}
    BY KeyCall, Zenon
       DEF IInv, CallInv, CallAt, Deleting, Storing, Appending, Scanning
  <2>2. k \in Keys /\ kv[k] # None
    BY <1>3, Zenon DEF AtRest
  <2>3. \A q \in Procs : pc[q] \in {"dfree", "dchain"} \cup Appending => call[q].key # k
    BY <1>3, <2>1, Zenon DEF AtRest
  <2> QED
    BY <2>2, <2>3, Zenon DEF IInv, MapInv
<1>4. \A r \in Recs : ~(r < 1)
  BY <1>t, SMTT(30) DEF Recs
<1>5. AtRest \subseteq Keys
  BY Zenon DEF AtRest
<1>6. ASSUME NEW k \in stable'[p]
      PROVE  \E r \in Recs' : /\ idx'[r].key = k
                              /\ IF pc'[p] = "ndat" /\ db'[p].idxbuf = k
                                   THEN r < pos'[p] /\ seen'[p][k] = 0
                                   ELSE seen'[p][k] = IF r < pos'[p] THEN 1 ELSE 0
  <2>1. PICK r \in Recs : idx[r].key = k
    BY <1>3
  <2>2. seen'[p][k] = 0
    BY <1>5
  <2> QED
    BY <1>4, <2>1, <2>2 DEF Recs
<1> QED
  BY <1>2, <1>6, SMTT(30) DEF ScanAt

\* The next record is read.
LEMMA ScanReads ==
  ASSUME IInv, NEW p \in Procs, Move(p), NextrecIdx(p), stable[p] # {}
  PROVE  ScanAt(p)'
<1>t. /\ pc \in [Procs -> Places] /\ pos \in [Procs -> Nat] /\ Len(idx) \in Nat
      /\ ret \in [Procs -> Seq(Answers)] /\ db \in [Procs -> Fields]
      /\ stable \in [Procs -> SUBSET Keys] /\ Blank \notin Keys /\ FileInv
  BY DbAssumption, SMTT(30) DEF IInv, TypeOK
<1> USE <1>t
<1>s. ScanAt(p)
  BY DEF IInv, ScanInv
<1>1. /\ pc[p] = "nidx" /\ pos[p] # 0 /\ idx' = idx /\ stable' = stable /\ seen' = seen
  BY DEF NextrecIdx, At, files, history
<1> USE <1>1
<1>2. "nextrec" \in Uses[p] /\ ret[p] = <<>> /\ <<>> # <<"eof">>
  BY <1>s, Zenon DEF ScanAt, IInv, CallInv, CallAt
<1>3. ASSUME NEW k \in stable[p]
      PROVE  \E r \in Recs : /\ idx[r].key = k /\ k \in Keys
                             /\ seen[p][k] = IF r < pos[p] THEN 1 ELSE 0
  BY <1>s, <1>3, Zenon DEF ScanAt
<1>4. CASE pos[p] > Len(idx)
  <2>1. pc'[p] = "nunlock" /\ pos' = pos
    BY <1>4 DEF NextrecIdx, Goto
  <2>2. ASSUME NEW k \in stable[p]
        PROVE  seen[p][k] = 1 /\ \E r \in Recs : idx[r].key = k /\ r < pos[p]
    BY <1>3, <1>4, <2>2, SMTT(30) DEF Recs
  <2> QED
    BY <1>2, <2>1, <2>2, Zenon DEF ScanAt, Scanning, Recs
<1>5. CASE pos[p] <= Len(idx)
  <2>1. /\ pos'[p] = pos[p] + 1 /\ ret' = ret /\ pos[p] \in Recs
        /\ IF idx[pos[p]].key = Blank
             THEN pc'[p] = "nidx"
             ELSE pc'[p] = "ndat" /\ db'[p].idxbuf = idx[pos[p]].key
    BY <1>2, <1>5 DEF NextrecIdx, Goto, Seek, Recs, Fields
  <2> USE <2>1
  <2>2. ASSUME NEW k \in stable[p]
        PROVE  \E r \in Recs : /\ idx[r].key = k
                               /\ IF pc'[p] = "ndat" /\ db'[p].idxbuf = k
                                    THEN r < pos'[p] /\ seen[p][k] = 0
                                    ELSE seen[p][k] = IF r < pos'[p] THEN 1 ELSE 0
    <3>1. PICK r \in Recs : /\ idx[r].key = k /\ k \in Keys
                            /\ seen[p][k] = IF r < pos[p] THEN 1 ELSE 0
      BY <1>3, <2>2, Zenon
    <3>2. r = pos[p] <=> idx[pos[p]].key = k
      BY <3>1, Zenon DEF FileInv
    <3>3. r \in Nat /\ pos[p] \in Nat
      BY SMTT(30) DEF Recs
    <3>4. CASE r = pos[p]
      BY <3>1, <3>2, <3>3, <3>4, SMTT(30)
    <3>5. CASE r # pos[p]
      <4>1. r < pos'[p] <=> r < pos[p]
        BY <3>3, <3>5, SMTT(30)
      <4>2. ~(pc'[p] = "ndat" /\ db'[p].idxbuf = k)
        BY <3>2, <3>5, Zenon
      <4> QED
        BY <3>1, <4>1, <4>2, ZenonT(30)
    <3> QED
      BY <3>4, <3>5, Zenon
  <2>3. pos'[p] # 0 /\ pc'[p] \in Scanning
    BY SMTT(30) DEF Scanning
  <2> QED
    BY <1>2, <2>2, <2>3, Zenon DEF ScanAt, Recs
<1> QED
  BY <1>4, <1>5

\* The record that has been read is returned.
LEMMA ScanReturns ==
  ASSUME IInv, NEW p \in Procs, Move(p), NextrecData(p), stable[p] # {}
  PROVE  ScanAt(p)'
<1>t. /\ pc \in [Procs -> Places] /\ pos \in [Procs -> Nat]
      /\ ret \in [Procs -> Seq(Answers)] /\ seen \in [Procs -> [Keys -> Nat]]
      /\ stable \in [Procs -> SUBSET Keys]
  BY DEF IInv, TypeOK
<1>s. ScanAt(p)
  BY DEF IInv, ScanInv
<1>1. /\ pc[p] = "ndat" /\ pc'[p] = "nunlock" /\ idx' = idx /\ pos' = pos /\ stable' = stable
      /\ ret'[p] = <<db[p].idxbuf, dat[db[p].datoff]>>
      /\ seen' = IF db[p].idxbuf \in stable[p]
                   THEN [seen EXCEPT ![p][db[p].idxbuf] = @ + 1] ELSE seen
  BY <1>t, Zenon DEF NextrecData, Step, At, Goto, Finish, files, procV
<1> USE <1>1
<1>2. ret'[p] # <<"eof">>
  BY SMTT(30)
<1>3. ASSUME NEW k \in stable[p]
      PROVE  seen'[p][k] = IF db[p].idxbuf = k THEN seen[p][k] + 1 ELSE seen[p][k]
  BY <1>t, <1>3, Zenon
<1>4. ASSUME NEW k \in stable[p]
      PROVE  \E r \in Recs : /\ idx[r].key = k
                             /\ seen'[p][k] = IF r < pos[p] THEN 1 ELSE 0
  <2>1. PICK r \in Recs : /\ idx[r].key = k
                          /\ IF db[p].idxbuf = k THEN r < pos[p] /\ seen[p][k] = 0
                             ELSE seen[p][k] = IF r < pos[p] THEN 1 ELSE 0
    BY <1>s, <1>4, Zenon DEF ScanAt
  <2> QED
    BY <1>3, <1>4, <2>1, SMTT(30)
<1>5. pos[p] # 0 /\ "nextrec" \in Uses[p]
  BY <1>s, Zenon DEF ScanAt
<1> QED
  BY <1>2, <1>4, <1>5, SMTT(30) DEF ScanAt, Scanning, Recs

\* A step of the scanning process keeps what its scan has returned right.
LEMMA ScanOwn ==
  ASSUME IInv, NEW p \in Procs, Move(p)
  PROVE  ScanAt(p)'
<1>t. /\ pc \in [Procs -> Places] /\ call \in [Procs -> Map!Calls \cup {None}]
      /\ ret \in [Procs -> Seq(Answers)] /\ stable \in [Procs -> SUBSET Keys]
  BY DEF IInv, TypeOK
<1>e. CASE stable'[p] = {}
  BY <1>e DEF ScanAt
<1>0. CASE DbRewind(p)
  BY <1>0, ScanStarts
<1> SUFFICES ASSUME stable'[p] # {}, ~DbRewind(p) PROVE ScanAt(p)'
  BY <1>e, <1>0, Zenon
<1>s. ScanAt(p) /\ stable[p] # {} /\ pc[p] \in Scanning \cup {"idle"}
  BY StableKept, Zenon DEF IInv, ScanInv, ScanAt
<1> USE <1>s
<1>1. CASE NextrecIdx(p)
  BY <1>1, ScanReads
<1>2. CASE NextrecData(p)
  BY <1>2, ScanReturns
<1>3. CASE CallKey(p) \/ CallStore(p)
  <2>1. PICK c : c.op # "nextrec" /\ Invoke(p, c)
    BY <1>3, Zenon DEF CallKey, CallStore
  <2> QED
    BY <1>t, <2>1, Zenon DEF Invoke
<1>4. CASE CallNextrec(p) \/ NextrecLock(p) \/ NextrecUnlock(p)
  <2>1. /\ pc[p] # "ndat" /\ pc'[p] \in {"nlock", "nidx", "idle"}
        /\ UNCHANGED <<idx, pos, stable, seen>> /\ ret'[p] \in {ret[p], <<>>}
    BY <1>t, <1>4, Zenon
       DEF CallNextrec, Invoke, NextrecLock, NextrecUnlock, Step, At, Goto,
           Finish, files, procV, history
  <2>2. <<>> # <<"eof">>
    OBVIOUS
  <2> QED
    BY <2>1, <2>2, Zenon DEF ScanAt, Scanning, Recs
<1>5. CASE NextrecAstray(p)
  BY <1>5, Zenon DEF NextrecAstray, ScanAt
<1>6. CASE FetchFind(p) \/ DeleteFind(p) \/ StoreFind(p)
  BY <1>6, FindDoes, Zenon DEF Scanning
<1>7. CASE \/ FetchData(p) \/ DeleteLock(p) \/ DeleteData(p) \/ DeleteIdx(p) \/ DeleteFree(p)
           \/ DeleteChain(p) \/ FindFree(p) \/ FreeUnlink(p) \/ AppendDatSeek(p)
           \/ AppendDatWrite(p) \/ AppendIdxSeek(p) \/ AppendIdxWrite(p) \/ ReuseDat(p)
           \/ ReuseIdx(p) \/ LinkChain(p) \/ Overwrite(p) \/ Unlock(p)
  BY <1>7, Zenon
     DEF FetchData, DeleteLock, DeleteData, DeleteIdx, DeleteFree, DeleteChain,
         FindFree, FreeUnlink, AppendDatSeek, AppendDatWrite, AppendIdxSeek,
         AppendIdxWrite, ReuseDat, ReuseIdx, LinkChain, Overwrite, Unlock,
         Step, At, Scanning
<1> QED
  BY <1>1, <1>2, <1>3, <1>4, <1>5, <1>6, <1>7, Zenon DEF Move, Advance

-----------------------------------------------------------------------------
(* The invariant holds at the start, and while nothing happens. *)

\* The invariant holds for the empty files db_open creates.
LEMMA InitInv == Init => IInv
<1> SUFFICES ASSUME Init PROVE IInv
  OBVIOUS
<1>1. /\ idx = <<>> /\ dat = <<>> /\ Len(idx) = 0 /\ Len(dat) = 0
      /\ Recs = {} /\ OnFree = {} /\ \A l : OnChain(l) = {}
  BY SMTT(30) DEF Init, Recs, OnFree, OnChain
<1> USE <1>1
<1>2. /\ \A p \in Procs : /\ pc[p] = "idle" /\ call[p] = None /\ ret[p] = <<>>
                          /\ stable[p] = {}
      /\ \A l \in Locks : writer[l] = None
      /\ \A l \in Lists : head[l] = 0
      /\ \A k \in Keys : kv[k] = None
  BY DEF Init, Lists
<1> USE <1>2
<1>3. TypeOK
  <2>1. NoRec \in Fields
    BY Zenon DEF NoRec, Fields
  <2>2. idx \in Seq(Records) /\ dat \in Seq(Vals \cup {Blank})
    OBVIOUS
  <2>3. ret \in [Procs -> Seq(Answers)]
    BY DEF Init
  <2> QED
    BY <2>1, <2>2, <2>3, Zenon DEF Init, TypeOK, Places
<1>4. CallInv /\ LockInv /\ RecordInv /\ ApartInv /\ MapsInv
  <2>1. \A p \in Procs : /\ pc[p] \notin Deleting \cup Storing \cup Reusing
                         /\ pc[p] \notin Appending \cup Scanning \cup Holding
    BY <1>2, Zenon DEF Deleting, Storing, Reusing, Appending, Scanning, Holding
  <2>2. CallInv /\ LockInv
    BY <2>1, Zenon DEF CallInv, CallAt, LockInv, LockAt
  <2>3. RecordInv
    BY <2>1, Zenon DEF RecordInv, RecordAt
  <2>4. ApartInv /\ MapsInv
    BY <2>1, Zenon DEF ApartInv, MapsInv, MapAt
  <2> QED
    BY <2>2, <2>3, <2>4
<1>5. RoomInv
  <2>1. Unstored = {}
    BY Zenon DEF Unstored
  <2> QED
    BY <2>1, FS_EmptySet, DbAssumption, SMTT(30) DEF RoomInv
<1>6. FileInv /\ MapInv /\ ScanInv
  BY Zenon DEF FileInv, MapInv, ScanInv, ScanAt
<1>7. ChainInv /\ FreeInv
  <2>1. \A l \in Lists : ListOf(head[l], Ptr, {})
    BY ListEmpty, Zenon
  <2> QED
    BY <2>1, LockNames, Zenon DEF ChainInv, FreeInv
<1> QED
  BY <1>3, <1>4, <1>5, <1>6, <1>7, Zenon DEF IInv

\* The invariant holds on while nothing happens.
LEMMA StutterInv == IInv /\ UNCHANGED vars => IInv'
<1> SUFFICES ASSUME IInv, UNCHANGED vars PROVE IInv'
  OBVIOUS
<1>1. UNCHANGED <<idx, dat, head, writer, readers, pc, db, pos, call, ret, kv, stable, seen>>
  BY DEF vars, files, locks, procV, history
<1> USE <1>1
<1>2. Recs' = Recs /\ Ptr' = Ptr /\ OnFree' = OnFree /\ \A l : OnChain(l)' = OnChain(l)
  BY Zenon DEF Recs, Ptr, OnFree, Taken, OnChain
<1> USE <1>2
<1>3. \A p \in Procs : /\ CallAt(p)' = CallAt(p) /\ LockAt(p)' = LockAt(p)
                       /\ Chain(p)' = Chain(p) /\ MapAt(p)' = MapAt(p)
  <2> TAKE p \in Procs
  <2>1. Chain(p)' = Chain(p) /\ CallAt(p)' = CallAt(p)
    BY DEF CallAt, Chain
  <2>2. LockAt(p)' = LockAt(p)
    BY <2>1 DEF LockAt
  <2>3. MapAt(p)' = MapAt(p)
    BY DEF MapAt
  <2> QED
    BY <2>1, <2>2, <2>3
<1> USE <1>3
<1>4. TypeOK' /\ CallInv' /\ LockInv' /\ RoomInv' /\ FileInv' /\ ApartInv' /\ MapsInv'
  BY Zenon
     DEF IInv, TypeOK, CallInv, LockInv, RoomInv, Unstored, FileInv, ApartInv,
         MapsInv
<1>5. MapInv' /\ ScanInv' /\ FreeInv'
  <2>1. MapInv' = MapInv /\ FreeInv' = FreeInv
    BY DEF MapInv, FreeInv
  <2>2. ScanInv' = ScanInv
    <3>1. ASSUME NEW p \in Procs PROVE ScanAt(p)' = ScanAt(p)
      BY DEF ScanAt
    <3> QED
      BY <3>1, Zenon DEF ScanInv
  <2> QED
    BY <2>1, <2>2, Zenon DEF IInv
<1>6. RecordInv'
  <2>1. ASSUME NEW p \in Procs PROVE RecordAt(p)' = RecordAt(p)
    BY Zenon DEF RecordAt
  <2> QED
    BY <2>1 DEF IInv, RecordInv
<1>7. ChainInv'
  <2>1. \A p \in Procs : /\ Rehead(p)' = Rehead(p) /\ Relinked(p)' = Relinked(p)
                         /\ OnChain(Chain(p))' = OnChain(Chain(p))
    BY Zenon DEF Rehead, Relinked
  <2> QED
    BY <2>1, Zenon DEF IInv, ChainInv
<1> QED
  BY <1>4, <1>5, <1>6, <1>7, Zenon DEF IInv
=============================================================================
