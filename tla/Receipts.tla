------------------------------ MODULE Receipts ------------------------------
(***************************************************************************)
(* The rows of the idempotency table (storage/idempotency.py) and what     *)
(* ReceiptStore does to them.  A row is identified by its scope: caller,   *)
(* operation and idempotency key, here one value.  The operators take the  *)
(* table as seen by the current transaction and return the table it        *)
(* leaves; the modules that use them decide when it is committed.          *)
(***************************************************************************)
CONSTANT None       \* SQL NULL

Absent == [state |-> "absent", req |-> None, response |-> None,
           resource |-> None]

\* The rows that can exist, __post_init__ of ReceiptRecord included: only a
\* completed row carries a response.
Rows(Req, Resp, Res) ==
  {Absent}
  \cup [state : {"in_progress"}, req : Req, response : {None},
        resource : Res \cup {None}]
  \cup [state : {"completed"}, req : Req, response : Resp,
        resource : Res \cup {None}]

\* ReceiptStore.reserve looks the scope up and compares the request hash.
IsNew(table, k) == table[k].state = "absent"
IsConflict(table, k, q) == ~IsNew(table, k) /\ table[k].req # q
\* Mutant: the request hash is not compared.
IsReplayOfAny(table, k, q) == ~IsNew(table, k)
IsReplay(table, k, q) == ~IsNew(table, k) /\ table[k].req = q

\* reserve of a scope that has no row.
Reserve(table, k, q) ==
  [table EXCEPT ![k] = [state |-> "in_progress", req |-> q,
                        response |-> None, resource |-> None]]

\* attach_resource: the update hits only an unattached in-progress row; the
\* same resource again is accepted, another one is an integrity error.
CanAttach(table, k, res) ==
  \/ table[k].state = "in_progress" /\ table[k].resource = None
  \/ table[k].state # "absent" /\ table[k].resource = res
Attach(table, k, res) == [table EXCEPT ![k].resource = res]

\* _complete_cas: the update hits only an in-progress row; completing again
\* with the same response is accepted, with another one is an error.
CanComplete(table, k, resp) ==
  \/ table[k].state = "in_progress"
  \/ table[k].state = "completed" /\ table[k].response = resp

\* Mutant: the state is written and the response forgotten.
CompleteWithoutResponse(table, k, resp) ==
  [table EXCEPT ![k].state = "completed"]
Complete(table, k, resp) ==
  [table EXCEPT ![k].state = "completed", ![k].response = resp]
=============================================================================
