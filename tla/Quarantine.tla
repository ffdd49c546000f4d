----------------------------- MODULE Quarantine -----------------------------
(***************************************************************************)
(* What quarantine promises of whatever enters a hub from outside, be it a *)
(* candidate extracted from a trajectory or an imported passport: it waits *)
(* until its owner decides, it is decided once, and an experience with the *)
(* origin of an adoption exists only because one item was adopted into it, *)
(* in the step that adopted it.                                            *)
(***************************************************************************)
CONSTANTS Item,     \* what can enter
          Nothing   \* the result of an item that was not adopted

VARIABLES state,    \* [Item -> {"absent", "pending", "adopted", "rejected"}]
          result,   \* [Item -> the experience it was adopted into, or Nothing]
          made      \* the experiences that adoptions made

vars == <<state, result, made>>

Init ==
  /\ state = [i \in Item |-> "absent"]
  /\ result = [i \in Item |-> Nothing]
  /\ made = {}

\* Items arrive together, like the candidates of one trajectory.
Enter ==
  /\ state' = [i \in Item |-> IF state[i] = "absent" /\ state'[i] # "absent"
                             THEN "pending" ELSE state[i]]
  /\ UNCHANGED <<result, made>>

Reject(i) ==
  /\ state[i] = "pending"
  /\ state' = [state EXCEPT ![i] = "rejected"]
  /\ UNCHANGED <<result, made>>

\* The item becomes an experience: a new one, or one that is there already.
Adopt(i) ==
  /\ state[i] = "pending"
  /\ state' = [state EXCEPT ![i] = "adopted"]
  /\ result'[i] # Nothing /\ result' = [result EXCEPT ![i] = result'[i]]
  /\ \/ result'[i] \notin made /\ made' = made \cup {result'[i]}
     \/ UNCHANGED made

Next == Enter \/ \E i \in Item : Reject(i) \/ Adopt(i)

Spec == Init /\ [][Next]_vars
=============================================================================
