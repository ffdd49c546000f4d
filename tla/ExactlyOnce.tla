---------------------------- MODULE ExactlyOnce -----------------------------
(***************************************************************************)
(* What the command layer promises its callers: every scope key is decided *)
(* at most once, deciding it appends the effects of one execution to the   *)
(* ledger, all in one step, and every answer ever given for the key is     *)
(* that decision, for the request that was decided.                        *)
(***************************************************************************)
EXTENDS Naturals, Sequences

CONSTANTS Key, Request, Undecided

VARIABLES outcome,    \* [Key -> Undecided or [req, response]]
          ledger,     \* the effects, each named by the key that caused it
          answered    \* every answer a caller has received

vars == <<outcome, ledger, answered>>

Init == /\ outcome = [k \in Key |-> Undecided]
        /\ ledger = << >>
        /\ answered = {}

\* One execution: it appends nothing but its own effects, none when it is
\* rejected, and its response names exactly the ledger positions it filled.
Decide(k, q, status) ==
  LET old == Len(ledger)
      new == Len(ledger')
  IN
  /\ outcome[k] = Undecided
  /\ outcome' = [outcome EXCEPT ![k] =
       [req |-> q,
        response |-> [status |-> status, first |-> old, last |-> new]]]
  /\ old <= new
  /\ status = "rejected" => old = new
  /\ \A i \in 1..old : ledger'[i] = ledger[i]
  /\ \A i \in old + 1..new : ledger'[i] = k
  /\ UNCHANGED answered

\* Several keys are refused in one step, without effects: what a recovery
\* does with the commands it finds unfinished.
RefuseTogether(ks) ==
  LET here == Len(ledger) IN
  /\ \A k \in ks : outcome[k] = Undecided
  /\ \E q \in [ks -> Request] :
       outcome' = [k \in Key |->
         IF k \in ks
         THEN [req |-> q[k],
               response |-> [status |-> "rejected", first |-> here, last |-> here]]
         ELSE outcome[k]]
  /\ UNCHANGED <<ledger, answered>>

Answer(k) ==
  /\ outcome[k] # Undecided
  /\ answered' = answered \cup {[key |-> k, req |-> outcome[k].req,
                                 response |-> outcome[k].response]}
  /\ UNCHANGED <<outcome, ledger>>

Next ==
  \/ \E k \in Key :
       \/ Answer(k)
       \/ \E q \in Request, s \in {"ok", "rejected"} : Decide(k, q, s)
  \/ \E ks \in SUBSET Key : RefuseTogether(ks)

Spec == Init /\ [][Next]_vars
=============================================================================
