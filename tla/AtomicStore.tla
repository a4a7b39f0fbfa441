---------------------------- MODULE AtomicStore -----------------------------
(***************************************************************************)
(* What a handler may believe of the store: its function runs alone, on    *)
(* all of the data, in one step, once; or it was refused, and rightly; or  *)
(* it failed.  After a failure nothing happened, unless it was the answer  *)
(* of a commit that was lost.                                              *)
(***************************************************************************)
EXTENDS StoreRequests

VARIABLES
  db,    \* the tables
  reply  \* what each request was told, "none" before it was

Replies == {"none", "ok", "refused", "error"}

Init ==
  /\ db \in InitialTables
  /\ reply = [r \in Requests |-> "none"]

Serve(r) ==
  /\ reply[r] = "none"
  /\ Allowed(Req[r], db)
  /\ db' = Effect(r, db)
  /\ \E answer \in {"ok", "error"} : reply' = [reply EXCEPT ![r] = answer]

Refuse(r) ==
  /\ reply[r] = "none"
  /\ ~Allowed(Req[r], db)
  /\ reply' = [reply EXCEPT ![r] = "refused"]
  /\ db' = db

Fail(r) ==
  /\ reply[r] = "none"
  /\ reply' = [reply EXCEPT ![r] = "error"]
  /\ db' = db

Next == \E r \in Requests : Serve(r) \/ Refuse(r) \/ Fail(r)

Spec == Init /\ [][Next]_<<db, reply>>

=============================================================================
