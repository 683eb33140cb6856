---------------------------- MODULE KeyAdmission ----------------------------
(***************************************************************************)
(* What the redemption of activation keys promises an organisation: each   *)
(* person is admitted at one moment, while a redemption for this person is *)
(* under way, and with a key that has been handed out, is not revoked and  *)
(* has a use left.  What an admission does it does at that moment: it      *)
(* links the person to the key, marks the key and, if nobody was elected   *)
(* owner, may elect this person.  It is taken back only while a redemption *)
(* for the person is under way, whether the one that has not heard of its  *)
(* success or a later one that fails; and never while an active key has    *)
(* nobody else to show as the one who activated it.                        *)
(***************************************************************************)
EXTENDS Integers, FiniteSets

CONSTANTS Users, Keys, MaxUses, None

VARIABLES
  linked,     \* the key each person was admitted with, or None
  claimants,  \* people for whom a redemption is under way
  elected,    \* active owners that an admission elected
  keyStatus,  \* "none" before a key is created
  activator,  \* who activated each key last, or None
  issued      \* keys that have been handed out

people == <<linked, claimants, elected>>
keys == <<keyStatus, activator, issued>>
vars == <<people, keys>>

Init ==
  /\ linked = [u \in Users |-> None]
  /\ claimants = {} /\ elected = {}
  /\ issued \subseteq Keys
  /\ keyStatus = [k \in Keys |-> IF k \in issued THEN "unused" ELSE "none"]
  /\ activator = [k \in Keys |-> None]

Claim(u) ==
  /\ claimants' = claimants \cup {u}
  /\ UNCHANGED <<linked, elected, keys>>

Withdraw(u) ==
  /\ claimants' = claimants \ {u}
  /\ UNCHANGED <<linked, elected, keys>>

Usable(k) ==
  /\ k \in issued /\ keyStatus[k] \notin {"none", "revoked"}
  /\ Cardinality({u \in Users : linked[u] = k}) < MaxUses

Admit(u, k) ==
  /\ u \in claimants
  /\ linked[u] = None /\ Usable(k)
  /\ linked' = [linked EXCEPT ![u] = k]
  /\ keyStatus' = [keyStatus EXCEPT ![k] = "activated"]
  /\ activator' = [activator EXCEPT ![k] = u]
  /\ \/ elected' = elected
     \/ elected = {} /\ elected' = {u}
  /\ claimants' \in {claimants, claimants \ {u}}
  /\ UNCHANGED issued

(* A redemption under way fails and removes the person.                    *)
Undo(u) ==
  /\ u \in claimants
  /\ \A k \in Keys : activator[k] = u => keyStatus[k] # "activated"
  /\ linked' = [linked EXCEPT ![u] = None]
  /\ elected' = elected \ {u}
  /\ activator' = [k \in Keys |-> IF activator[k] = u THEN None
                                                      ELSE activator[k]]
  /\ claimants' \in {claimants, claimants \ {u}}
  /\ UNCHANGED <<keyStatus, issued>>

(* An elected owner is disabled or given another role.                     *)
StepDown(u) ==
  /\ elected' = elected \ {u}
  /\ UNCHANGED <<linked, claimants, keys>>

CreateKey(k) ==
  /\ keyStatus[k] = "none"
  /\ keyStatus' = [keyStatus EXCEPT ![k] = "unused"]
  /\ UNCHANGED <<activator, issued, people>>

RevokeKey(k) ==
  /\ keyStatus[k] # "none"
  /\ keyStatus' = [keyStatus EXCEPT ![k] = "revoked"]
  /\ UNCHANGED <<activator, issued, people>>

(* The account of a key is ready.  Keys are handed out with the last one   *)
(* of their batch, when all are ready.                                     *)
CompleteKey(k) ==
  /\ keyStatus[k] # "none"
  /\ keyStatus' = [keyStatus EXCEPT ![k] = "activated"]
  /\ activator' = [activator EXCEPT ![k] = k]
  /\ issued \subseteq issued'
  /\ \A j \in issued' \ issued : keyStatus'[j] \in {"activated", "revoked"}
  /\ UNCHANGED people

Next ==
  \/ \E u \in Users : Claim(u) \/ Withdraw(u) \/ Undo(u) \/ StepDown(u)
  \/ \E u \in Users, k \in Keys : Admit(u, k)
  \/ \E k \in Keys : CreateKey(k) \/ RevokeKey(k) \/ CompleteKey(k)

Spec == Init /\ [][Next]_vars
=============================================================================
