-------------------------------- MODULE Gate --------------------------------
(***************************************************************************)
(* What an assay of one function promises: rows are run, each agrees with  *)
(* the specification or does not, and one verdict is given.  Green is only *)
(* ever given when every row has run and agreed, or is claimed: the code   *)
(* under test has itself printed the record of it that is asked for.  Red  *)
(* may be given at any time (a row can be lost, a process can die); and    *)
(* the verdict is final.                                                   *)
(***************************************************************************)
VARIABLES
  outcome,    (* of each row: "unknown", "agrees", "disagrees", "claimed"  *)
  verdict     (* "pending", "green" or "red"                               *)

gateVars == <<outcome, verdict>>

Init ==
  /\ \A r \in DOMAIN outcome : outcome[r] = "unknown"
  /\ verdict = "pending"

(* A row is run; what it does settles it unless it was claimed already,    *)
(* and then only if it agrees.                                             *)
Observe(r) ==
  /\ verdict = "pending"
  /\ \/ outcome[r] = "unknown" /\ outcome' = [outcome EXCEPT ![r] = "disagrees"]
     \/ outcome[r] \in {"unknown", "claimed"} /\ outcome' = [outcome EXCEPT ![r] = "agrees"]
  /\ UNCHANGED verdict

(* The code under test speaks for a row that has not agreed. *)
Claim(r) ==
  /\ verdict = "pending" /\ outcome[r] \in {"unknown", "disagrees"}
  /\ outcome' = [outcome EXCEPT ![r] = "claimed"]
  /\ UNCHANGED verdict

Earned ==
  DOMAIN outcome # {} /\ \A r \in DOMAIN outcome : outcome[r] \in {"agrees", "claimed"}

Decide ==
  /\ verdict = "pending"
  /\ \/ Earned /\ verdict' = "green"
     \/ verdict' = "red"
  /\ UNCHANGED outcome

Next == Decide \/ \E r \in DOMAIN outcome : Observe(r) \/ Claim(r)

(* Rows need not run, but a verdict comes. *)
Spec == Init /\ [][Next]_gateVars /\ WF_gateVars(Decide)
=============================================================================
