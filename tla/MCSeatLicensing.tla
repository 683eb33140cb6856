-------------------------- MODULE MCSeatLicensing --------------------------
(* Model-checking instances of SeatLicensing.                              *)
EXTENDS SeatLicensing, TLC

(* The people, the attempts, the requests and the keys are each            *)
(* interchangeable: only the runs of safety properties use this.           *)
Symmetry ==
  Permutations(Users) \cup Permutations(Attempts) \cup Permutations(Keys)
    \cup Permutations(Handlers)

(* Bounds: one current and one dead status stand for the others of their   *)
(* kind, and one invitation and one revocation are under way at a time.    *)
Narrow ==
  /\ subStatus \in {"none", "active", "cancelled"}
  /\ Cardinality({u \in Users : inviting[u] # "idle"}) <= 1
  /\ Cardinality(revoking) <= 1

(* Bounds of the run with four keys: one of them at most is revoked, and   *)
(* their accounts are not disabled.                                        *)
FewRevoked ==
  /\ Narrow
  /\ Cardinality(revoking \cup {k \in Keys : keyStatus[k] = "revoked"}) <= 1
  /\ \A k \in Keys : member[k] # "disabled"
=============================================================================
