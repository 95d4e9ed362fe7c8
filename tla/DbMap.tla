-------------------------------- MODULE DbMap --------------------------------
(***************************************************************************)
(* What the database library promises to the processes that share a       *)
(* database: a map from keys to data on which every call of db_fetch,      *)
(* db_store, db_delete and db_nextrec takes effect in one step between its *)
(* call and its return.                                                    *)
(***************************************************************************)
CONSTANTS Procs, Keys, Vals, None

VARIABLES kv,    \* key -> its data, or None
          call,  \* process -> the call it is in, or None
          ret    \* process -> the result of that call, <<>> before it

vars == <<kv, call, ret>>

Flags == {"insert", "replace", "store"}

Calls ==
  [op : {"fetch", "delete"}, key : Keys]
    \cup [op : {"store"}, key : Keys, val : Vals, flag : Flags]
    \cup [op : {"nextrec"}]

Init ==
  /\ kv = [k \in Keys |-> None]
  /\ call = [p \in Procs |-> None]
  /\ ret = [p \in Procs |-> <<>>]

Invoke(p) ==
  /\ call[p] = None
  /\ \E c \in Calls : call' = [call EXCEPT ![p] = c]
  /\ UNCHANGED <<kv, ret>>

Finish(p, r) == ret' = [ret EXCEPT ![p] = r]

Fetch(p, c) ==
  /\ c.op = "fetch"
  /\ Finish(p, <<kv[c.key]>>)
  /\ UNCHANGED kv

Delete(p, c) ==
  /\ c.op = "delete"
  /\ Finish(p, IF kv[c.key] = None THEN <<"absent">> ELSE <<"ok">>)
  /\ kv' = [kv EXCEPT ![c.key] = None]

Store(p, c) ==
  /\ c.op = "store"
  /\ LET exists == kv[c.key] # None
     IN  \/ /\ ~exists /\ c.flag = "replace"
            /\ Finish(p, <<"absent">>) /\ UNCHANGED kv
         \/ /\ exists /\ c.flag = "insert"
            /\ Finish(p, <<"exists">>) /\ UNCHANGED kv
         \/ /\ ~(~exists /\ c.flag = "replace") /\ ~(exists /\ c.flag = "insert")
            /\ Finish(p, <<"ok">>) /\ kv' = [kv EXCEPT ![c.key] = c.val]

\* A record that is in the map, or the end of the database.
Nextrec(p, c) ==
  /\ c.op = "nextrec"
  /\ \/ Finish(p, <<"eof">>)
     \/ \E k \in Keys : kv[k] # None /\ Finish(p, <<k, kv[k]>>)
  /\ UNCHANGED kv

TakeEffect(p) ==
  /\ call[p] # None /\ ret[p] = <<>>
  /\ \/ Fetch(p, call[p]) \/ Delete(p, call[p])
     \/ Store(p, call[p]) \/ Nextrec(p, call[p])
  /\ UNCHANGED call

Return(p) ==
  /\ call[p] # None /\ ret[p] # <<>>
  /\ call' = [call EXCEPT ![p] = None]
  /\ ret' = [ret EXCEPT ![p] = <<>>]
  /\ UNCHANGED kv

Next == \E p \in Procs : Invoke(p) \/ TakeEffect(p) \/ Return(p)

Spec == Init /\ [][Next]_vars
=============================================================================
