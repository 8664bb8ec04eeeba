---------------------------- MODULE RecordStore ----------------------------
(***************************************************************************)
(* What the record manager promises its callers (spec.md 4.2 and 8.2),     *)
(* stated without pages: a record file is a map from RID to the bytes of   *)
(* a record, or NoRecord.                                                  *)
(*                                                                         *)
(*  - insert stores the record at a RID that held none and answers that    *)
(*    RID, or changes nothing;                                             *)
(*  - delete, update and get act on a live record as their names say;      *)
(*    on a RID that holds no record they change nothing, and this          *)
(*    specification leaves their answer open (RecordFile states what it    *)
(*    should be as a separate property).                                   *)
(***************************************************************************)
CONSTANTS RIDs, Vals, NoRecord, RCs

VARIABLES store, answer

Answer(op, rid, val, rc) == [op |-> op, rid |-> rid, val |-> val, rc |-> rc]

Live == {r \in RIDs : store[r] # NoRecord}

Init ==
  /\ store = [r \in RIDs |-> NoRecord]
  /\ answer = Answer("none", NoRecord, NoRecord, "SUCCESS")

Insert(v) ==
  \/ \E r \in RIDs :
       /\ answer' = Answer("insert", r, v, "SUCCESS")
       /\ r \notin Live
       /\ store' = [store EXCEPT ![r] = v]
  \/ \E rc \in RCs \ {"SUCCESS"} :
       /\ answer' = Answer("insert", NoRecord, v, rc)
       /\ UNCHANGED store

Delete(r) ==
  \/ /\ answer' = Answer("delete", r, NoRecord, "SUCCESS")
     /\ r \in Live
     /\ store' = [store EXCEPT ![r] = NoRecord]
  \/ /\ \E rc \in RCs : answer' = Answer("delete", r, NoRecord, rc)
     /\ r \notin Live
     /\ UNCHANGED store

Update(r, v) ==
  \/ /\ answer' = Answer("update", r, v, "SUCCESS")
     /\ r \in Live
     /\ store' = [store EXCEPT ![r] = v]
  \/ /\ \E rc \in RCs : answer' = Answer("update", r, v, rc)
     /\ r \notin Live
     /\ UNCHANGED store

Get(r) ==
  /\ \/ /\ answer' = Answer("get", r, store[r], "SUCCESS")
        /\ r \in Live
     \/ /\ \E rc \in RCs, v \in Vals \cup {NoRecord} :
             answer' = Answer("get", r, v, rc)
        /\ r \notin Live
  /\ UNCHANGED store

(* Each step is told apart by the answer it gives, which is tested first. *)
Next ==
  \/ \E v \in Vals : Insert(v)
  \/ \E r \in RIDs : Delete(r) \/ Get(r)
  \/ \E r \in RIDs, v \in Vals : Update(r, v)

Spec == Init /\ [][Next]_<<store, answer>>
=============================================================================
