----------------------- MODULE SeatLicensing_proofs -----------------------
(***************************************************************************)
(* Theorems about SeatLicensing, for every set of people, keys, handlers   *)
(* and plan limits.                                                        *)
(***************************************************************************)
EXTENDS SeatLicensing, FiniteSetTheorems, TLAPS

(* What a request in progress holds: its key, and how many keys it still   *)
(* has to make.                                                            *)
RequestsOK ==
  /\ \A h \in Handlers :
       /\ handler[h].phase \notin {"idle", "create"} => handler[h].key \in Keys
       /\ handler[h].op = "generate" /\ handler[h].phase # "idle"
            => handler[h].left \in 1 .. MaxBatch
  /\ \A r \in Attempts :
       redeem[r].phase # "idle" => /\ redeem[r].key \in Keys
                                   /\ redeem[r].user \in Users

TypeInv == TypeOK /\ RequestsOK

(* The people and keys of an organisation, and each of its sets of         *)
(* members, are finite.                                                    *)
LEMMA AccountsFinite ==
  /\ IsFiniteSet(Accounts) /\ IsFiniteSet(ActiveSeats)
  /\ IsFiniteSet(InvitedSeats)
  /\ \A S \in SUBSET Accounts : IsFiniteSet(S) /\ Cardinality(S) \in Nat
  /\ \A S \in SUBSET Keys : IsFiniteSet(S) /\ Cardinality(S) \in Nat
<1>1. IsFiniteSet(Accounts)
  BY SeatConstants, FS_Union DEF Accounts
<1>2. \A S \in SUBSET Accounts : IsFiniteSet(S)
  BY <1>1, FS_Subset
<1>3. \A S \in SUBSET Accounts : Cardinality(S) \in Nat
  BY <1>2, FS_CardinalityType
<1>4. \A S \in SUBSET Keys : IsFiniteSet(S)
  BY SeatConstants, FS_Subset
<1>5. \A S \in SUBSET Keys : Cardinality(S) \in Nat
  BY <1>4, FS_CardinalityType
<1> QED
  BY <1>1, <1>2, <1>3, <1>4, <1>5 DEF ActiveSeats, InvitedSeats

(* Sizes when one element comes or goes.                                   *)
LEMMA AddOne ==
  ASSUME NEW S, NEW x, IsFiniteSet(S)
  PROVE  /\ IsFiniteSet(S \cup {x})
         /\ Cardinality(S) \in Nat /\ Cardinality(S \cup {x}) \in Nat
         /\ Cardinality(S \cup {x}) <= Cardinality(S) + 1
<1>1. IsFiniteSet(S \cup {x})
  BY FS_AddElement
<1>2. Cardinality(S) \in Nat /\ Cardinality(S \cup {x}) \in Nat
  BY <1>1, FS_CardinalityType
<1>3. Cardinality(S \cup {x})
        = IF x \in S THEN Cardinality(S) ELSE Cardinality(S) + 1
  BY FS_AddElement
<1>4. CASE x \in S
  BY <1>1, <1>2, <1>3, <1>4
<1>5. CASE x \notin S
  BY <1>1, <1>2, <1>3, <1>5
<1> QED
  BY <1>4, <1>5

(* Taking one element out of a finite set lowers its size by one at most.  *)
LEMMA RemoveOne ==
  ASSUME NEW S, NEW x, IsFiniteSet(S)
  PROVE  /\ IsFiniteSet(S \ {x})
         /\ Cardinality(S) \in Nat /\ Cardinality(S \ {x}) \in Nat
         /\ Cardinality(S) <= Cardinality(S \ {x}) + 1
         /\ x \in S => Cardinality(S \ {x}) = Cardinality(S) - 1
<1>1. IsFiniteSet(S \ {x})
  BY FS_RemoveElement
<1>2. Cardinality(S) \in Nat /\ Cardinality(S \ {x}) \in Nat
  BY <1>1, FS_CardinalityType
<1>3. Cardinality(S \ {x})
        = IF x \in S THEN Cardinality(S) - 1 ELSE Cardinality(S)
  BY FS_RemoveElement
<1>4. CASE x \in S
  BY <1>1, <1>2, <1>3, <1>4
<1>5. CASE x \notin S
  BY <1>1, <1>2, <1>3, <1>5
<1> QED
  BY <1>4, <1>5

(* Ensuring a subscription keeps its columns in their types.               *)
LEMMA EnsureType ==
  ASSUME TypeOK, NEW n \in Nat, EnsureActiveOrgSubscription(n)
  PROVE  /\ subStatus' \in SubStatuses \cup {"none"}
         /\ plan' \in PlanLimits /\ seatLimit' \in Nat
  BY SeatConstants
  DEF TypeOK, EnsureActiveOrgSubscription, WriteSub, Raised, subVars,
      SubStatuses, CurrentStatuses

(* A request that moves to another phase keeps the rest of its record.     *)
LEMMA GotoFrame ==
  ASSUME handler \in [Handlers -> Requests], NEW h \in Handlers,
         NEW p \in HandlerPhases, Goto(h, p)
  PROVE  /\ handler' \in [Handlers -> Requests]
         /\ handler'[h].phase = p /\ handler'[h].key = handler[h].key
         /\ handler'[h].op = handler[h].op
         /\ handler'[h].left = handler[h].left
         /\ \A g \in Handlers : g # h => handler'[g] = handler[g]
<1>1. handler' = [handler EXCEPT ![h] = [handler[h] EXCEPT !.phase = p]]
  BY DEF Goto
<1>2. handler[h] \in Requests
  OBVIOUS
<1>3. LET r == [handler[h] EXCEPT !.phase = p]
      IN  /\ r \in Requests /\ r.phase = p /\ r.key = handler[h].key
          /\ r.op = handler[h].op /\ r.left = handler[h].left
  BY <1>2 DEF Requests
<1> QED
  BY <1>1, <1>3

(* An attempt that moves to another phase keeps the rest of its record.    *)
LEMMA StepFrame ==
  ASSUME redeem \in [Attempts -> Redemptions], NEW r \in Attempts,
         NEW p \in RedeemPhases, Step(r, p)
  PROVE  /\ redeem' \in [Attempts -> Redemptions]
         /\ redeem'[r].phase = p /\ redeem'[r].key = redeem[r].key
         /\ redeem'[r].user = redeem[r].user
         /\ redeem'[r].role = redeem[r].role
         /\ \A q \in Attempts : q # r => redeem'[q] = redeem[q]
<1>1. redeem' = [redeem EXCEPT ![r] = [redeem[r] EXCEPT !.phase = p]]
  BY DEF Step
<1>2. redeem[r] \in Redemptions
  OBVIOUS
<1>3. LET x == [redeem[r] EXCEPT !.phase = p]
      IN  /\ x \in Redemptions /\ x.phase = p /\ x.key = redeem[r].key
          /\ x.user = redeem[r].user /\ x.role = redeem[r].role
  BY <1>2 DEF Redemptions
<1> QED
  BY <1>1, <1>3

(* An attempt that ends leaves nothing behind in its record.               *)
LEMMA EndFrame ==
  ASSUME redeem \in [Attempts -> Redemptions], NEW r \in Attempts, End(r)
  PROVE  /\ redeem' \in [Attempts -> Redemptions]
         /\ redeem'[r] = NoRedemption /\ redeem'[r].phase = "idle"
         /\ \A q \in Attempts : q # r => redeem'[q] = redeem[q]
<1>1. NoRedemption \in Redemptions /\ NoRedemption.phase = "idle"
  BY DEF NoRedemption, Redemptions, RedeemPhases, Roles
<1> QED
  BY <1>1 DEF End

(* The lock of the organisation's row is taken with the choice of a role.  *)
LEMMA LockFrame ==
  ASSUME redeem \in [Attempts -> Redemptions], NEW r \in Attempts,
         RedeemLockOrg(r)
  PROVE  /\ redeem' \in [Attempts -> Redemptions]
         /\ redeem'[r].phase = "orgLocked" /\ redeem'[r].key = redeem[r].key
         /\ redeem'[r].user = redeem[r].user
         /\ redeem'[r].role = "elected" => ~HasActiveOwner
         /\ \A q \in Attempts : q # r => redeem'[q] = redeem[q]
<1> DEFINE x == [redeem[r] EXCEPT !.phase = "orgLocked",
                                  !.role = IF HasActiveOwner THEN "staff"
                                                             ELSE "elected"]
<1>1. redeem' = [redeem EXCEPT ![r] = x]
  BY DEF RedeemLockOrg
<1>2. redeem[r] \in Redemptions
  OBVIOUS
<1>3. /\ x \in Redemptions /\ x.phase = "orgLocked" /\ x.key = redeem[r].key
      /\ x.user = redeem[r].user /\ x.role = "elected" => ~HasActiveOwner
  BY <1>2 DEF Redemptions, RedeemPhases, Roles
<1> QED
  BY <1>1, <1>3

(* Every column and every request record keeps its type, and a request in  *)
(* progress holds a real key.                                              *)
THEOREM RequestTyping == Spec => []TypeInv
<1> USE SeatConstants DEF TypeInv, TypeOK, RequestsOK
<1>1. Init => TypeInv
  BY DEF Init, NoRedemption, NoRequest, Redemptions, Requests, MemberStatuses, Roles, KeyStatuses,
         RedeemPhases, HandlerPhases
<1>2. TypeInv /\ [Next]_vars => TypeInv'
  <2> SUFFICES ASSUME TypeInv, [Next]_vars PROVE TypeInv'
    OBVIOUS
  <2> USE DEF MemberStatuses, Roles, KeyStatuses, RedeemPhases, HandlerPhases,
              NoRedemption, NoRequest, Redemptions, Requests
  <2>1. ASSUME NEW h \in Handlers, NEW n \in 1 .. MaxBatch, GenerateStart(h, n)
        PROVE  TypeInv'
    BY <2>1, EnsureType DEF GenerateStart, memberVars, accountVars, keyVars
  <2>2. ASSUME NEW h \in Handlers, NEW k \in Keys, GenerateKey(h, k)
        PROVE  TypeInv'
    BY <2>2 DEF GenerateKey, subVars, memberVars, accountVars
  <2>3. ASSUME NEW h \in Handlers, NEW k \in Keys, KeyLoginStart(h, k)
        PROVE  TypeInv'
    BY <2>3 DEF KeyLoginStart, subVars, memberVars, accountVars, keyVars
  <2>4. ASSUME NEW h \in Handlers, CreateKeyUser(h) PROVE TypeInv'
    <3>1. /\ "profile" \in HandlerPhases /\ "mark" \in HandlerPhases
          /\ handler[h].key \in Keys
      BY <2>4 DEF CreateKeyUser
    <3>2. Goto(h, "profile") \/ Goto(h, "mark")
      BY <2>4 DEF CreateKeyUser
    <3>3. /\ handler' \in [Handlers -> Requests]
          /\ handler'[h].key = handler[h].key /\ handler'[h].op = handler[h].op
          /\ handler'[h].left = handler[h].left
          /\ \A g \in Handlers : g # h => handler'[g] = handler[g]
      <4>1. CASE Goto(h, "profile")
        BY <3>1, <4>1, GotoFrame
      <4>2. CASE Goto(h, "mark")
        BY <3>1, <4>2, GotoFrame
      <4> QED
        BY <3>2, <4>1, <4>2
    <3>4. hasAuth' \subseteq Accounts
      BY <2>4, <3>1 DEF CreateKeyUser, Accounts
    <3> QED
      BY <2>4, <3>1, <3>3, <3>4 DEF CreateKeyUser, subVars, memberVars, keyVars
  <2>5. ASSUME NEW h \in Handlers, CreateKeyProfile(h) PROVE TypeInv'
    BY <2>5 DEF CreateKeyProfile, Goto, subVars, memberVars, keyVars, Accounts
  <2>6. ASSUME NEW h \in Handlers, CheckKeySeat(h) PROVE TypeInv'
    BY <2>6 DEF CheckKeySeat, Goto, subVars, memberVars, accountVars, keyVars
  <2>7. ASSUME NEW h \in Handlers, CreateKeyMember(h) PROVE TypeInv'
    <3>1. /\ Goto(h, "mark") /\ "mark" \in HandlerPhases
          /\ handler[h].key \in Keys /\ "active" \in MemberStatuses
      BY <2>7 DEF CreateKeyMember
    <3>2. /\ handler' \in [Handlers -> Requests]
          /\ handler'[h].key = handler[h].key /\ handler'[h].op = handler[h].op
          /\ handler'[h].left = handler[h].left
          /\ \A g \in Handlers : g # h => handler'[g] = handler[g]
      BY <3>1, GotoFrame
    <3>3. /\ member' \in [Accounts -> MemberStatuses]
          /\ role' \in [Accounts -> Roles]
      BY <2>7, <3>1 DEF CreateKeyMember
    <3> QED
      BY <2>7, <3>1, <3>2, <3>3 DEF CreateKeyMember, subVars, accountVars,
                                    keyVars
  <2>8. ASSUME NEW h \in Handlers, MarkKeyActivated(h) PROVE TypeInv'
    <3>1. handler[h].key \in Keys /\ handler[h] \in Requests
      BY <2>8 DEF MarkKeyActivated
    <3>2. /\ keyStatus' \in [Keys -> KeyStatuses] /\ issued' \subseteq Keys
          /\ activatedBy' \in [Keys -> Accounts \cup {None}]
      BY <2>8, <3>1 DEF MarkKeyActivated, IssuedNow, Accounts
    <3>3. CASE handler' = [handler EXCEPT ![h] = NoRequest]
      BY <2>8, <3>2, <3>3 DEF MarkKeyActivated, subVars, memberVars, accountVars
    <3>4. CASE /\ handler[h].op = "generate" /\ ~LastOfBatch(h)
               /\ handler' = [handler EXCEPT ![h] =
                    [op |-> "generate", phase |-> "create", key |-> None,
                     batch |-> handler[h].batch \cup {handler[h].key},
                     left |-> handler[h].left - 1]]
      <4>1. /\ handler[h].left - 1 \in 1 .. MaxBatch
            /\ handler[h].batch \cup {handler[h].key} \subseteq Keys
        BY <2>8, <3>1, <3>4 DEF MarkKeyActivated, LastOfBatch
      <4> QED
        BY <2>8, <3>1, <3>2, <3>4, <4>1
        DEF MarkKeyActivated, subVars, memberVars, accountVars
    <3> QED
      BY <2>8, <3>3, <3>4 DEF MarkKeyActivated
  <2>9. ASSUME NEW h \in Handlers, HandlerFail(h) PROVE TypeInv'
    BY <2>9 DEF HandlerFail, subVars, memberVars, accountVars, keyVars
  <2>10. ASSUME NEW r \in Attempts, NEW u \in Users, NEW k \in Keys,
                RedeemStart(r, u, k)
         PROVE  TypeInv'
    <3>1. Cardinality({j \in Keys : keyStatus[j] # "none"}) \in Nat
      BY AccountsFinite
    <3> QED
      BY <2>10, <3>1, EnsureType DEF RedeemStart, memberVars, accountVars, keyVars
  <2>11. ASSUME NEW r \in Attempts, UNCHANGED <<subVars, memberVars, keyVars,
                  profileKey, revoking, inviting, handler>>,
                hasAuth' \subseteq Accounts,
                \/ End(r)
                \/ /\ redeem[r].phase # "idle"
                   /\ \E p \in RedeemPhases : Step(r, p)
         PROVE  TypeInv'
    <3>1. /\ redeem' \in [Attempts -> Redemptions]
          /\ \A q \in Attempts : q # r => redeem'[q] = redeem[q]
          /\ redeem'[r].phase # "idle" => /\ redeem'[r].key \in Keys
                                          /\ redeem'[r].user \in Users
      BY <2>11, StepFrame, EndFrame
    <3> QED
      BY <2>11, <3>1 DEF subVars, memberVars, keyVars
  <2>12. ASSUME NEW r \in Attempts,
                RedeemSignUp(r) \/ RedeemLockKey(r) \/ RedeemInsert(r)
         PROVE  TypeInv'
    BY <2>11, <2>12 DEF RedeemSignUp, RedeemLockKey, RedeemInsert, accountVars,
                        Accounts
  <2>13. ASSUME NEW r \in Attempts,
                RedeemRefused(r) \/ RedeemAbort(r) \/ RedeemFail(r)
         PROVE  TypeInv'
    BY <2>11, <2>13
    DEF RedeemRefused, RefusalKeeps, RedeemAbort, RefusedInTransaction,
        RedeemFail, RollBack, memberVars, accountVars, keyVars
  <2>14. ASSUME NEW r \in Attempts, RedeemLockOrg(r) PROVE TypeInv'
    <3>1. /\ redeem' \in [Attempts -> Redemptions]
          /\ \A q \in Attempts : redeem'[q].phase # "idle"
               => redeem'[q].key \in Keys /\ redeem'[q].user \in Users
      <4>1. redeem[r].phase = "keyLocked"
        BY <2>14 DEF RedeemLockOrg
      <4>2. /\ redeem' \in [Attempts -> Redemptions]
            /\ redeem'[r].key = redeem[r].key
            /\ redeem'[r].user = redeem[r].user
            /\ \A q \in Attempts : q # r => redeem'[q] = redeem[q]
        BY <2>14, LockFrame
      <4> QED
        BY <4>1, <4>2
    <3>2. UNCHANGED <<subVars, memberVars, accountVars, keyVars, revoking,
                      inviting, handler>>
      BY <2>14 DEF RedeemLockOrg
    <3> QED
      BY <3>1, <3>2 DEF subVars, memberVars, accountVars, keyVars
  <2>15. ASSUME NEW r \in Attempts, Committed(r), End(r) \/ Step(r, "failed")
         PROVE  TypeInv'
    <3>u. PICK u \in Users : u = redeem[r].user
      BY <2>15 DEF Committed
    <3>k. PICK k \in Keys : k = redeem[r].key
      BY <2>15 DEF Committed
    <3>0. u \in Accounts /\ redeem[r].role \in Roles
      BY DEF Accounts
    <3>1. /\ member' \in [Accounts -> MemberStatuses]
          /\ role' \in [Accounts -> Roles]
          /\ profileKey' \in [Accounts -> Keys \cup {None}]
          /\ keyStatus' \in [Keys -> KeyStatuses]
          /\ activatedBy' \in [Keys -> Accounts \cup {None}]
      BY <2>15, <3>u, <3>k, <3>0 DEF Committed, KeyAfterRedemption
    <3>2. /\ redeem' \in [Attempts -> Redemptions]
          /\ \A q \in Attempts : q # r => redeem'[q] = redeem[q]
          /\ redeem'[r].phase # "idle" => /\ redeem'[r].key \in Keys
                                          /\ redeem'[r].user \in Users
      BY <2>15, <3>u, <3>k, StepFrame, EndFrame
    <3> QED
      BY <2>15, <3>1, <3>2 DEF Committed, subVars
  <2>16. ASSUME NEW r \in Attempts, RedeemCommit(r) \/ RedeemUnheard(r)
         PROVE  TypeInv'
    BY <2>15, <2>16 DEF RedeemCommit, RedeemUnheard
  <2>17. ASSUME NEW r \in Attempts, RedeemUndo(r) PROVE TypeInv'
    <3>1. CASE UNCHANGED <<memberVars, accountVars, keyVars>>
      BY <2>11, <2>17, <3>1 DEF RedeemUndo, accountVars
    <3>2. ASSUME NEW u \in Users, DeleteUser(u) PROVE TypeInv'
      <4>1. /\ member' \in [Accounts -> MemberStatuses]
            /\ profileKey' \in [Accounts -> Keys \cup {None}]
            /\ activatedBy' \in [Keys -> Accounts \cup {None}]
            /\ hasAuth' \subseteq Accounts
        BY <3>2 DEF DeleteUser
      <4>2. /\ redeem' \in [Attempts -> Redemptions]
            /\ \A q \in Attempts : q # r => redeem'[q] = redeem[q]
            /\ redeem'[r].phase = "idle"
        BY <2>17, EndFrame DEF RedeemUndo
      <4> QED
        BY <2>17, <3>2, <4>1, <4>2 DEF RedeemUndo, DeleteUser, subVars
    <3> QED
      BY <2>17, <3>1, <3>2 DEF RedeemUndo
  <2>19. ASSUME NEW k \in Keys, RevokeNext(k) PROVE TypeInv'
    BY <2>19 DEF RevokeNext, RevokeRead, RevokeWrite, subVars, memberVars,
                 accountVars, keyVars
  <2>20. ASSUME MemberNext PROVE TypeInv'
    <3>1. ASSUME NEW u \in Users, InviteCheck(u) PROVE TypeInv'
      BY <3>1 DEF InviteCheck, subVars, memberVars, accountVars, keyVars
    <3>5. ASSUME NEW u \in Users, InviteInsert(u) PROVE TypeInv'
      <4>1. u \in Accounts
        BY DEF Accounts
      <4>2. /\ member' \in [Accounts -> MemberStatuses]
            /\ role' \in [Accounts -> Roles]
            /\ inviting' \in [Users -> {"idle", "checked", "counted"}]
        BY <3>5, <4>1 DEF InviteInsert
      <4> QED
        BY <3>5, <4>2 DEF InviteInsert, subVars, accountVars, keyVars
    <3>2. ASSUME NEW u \in Users, InviteCount(u) \/ InviteFail(u)
          PROVE  TypeInv'
      BY <3>2 DEF InviteCount, InviteFail, subVars, memberVars, keyVars, Accounts
    <3>3. ASSUME NEW a \in Accounts, DisableMember(a) PROVE TypeInv'
      BY <3>3 DEF DisableMember, subVars, accountVars, keyVars
    <3>4. ASSUME NEW actor \in Accounts, NEW a \in Accounts,
                 NEW r \in {"staff", "owner"}, ChangeRole(actor, a, r)
          PROVE  TypeInv'
      BY <3>4 DEF ChangeRole, subVars, accountVars, keyVars
    <3>6. \/ \E v \in Users : \/ InviteCheck(v)
                              \/ InviteCount(v) \/ InviteFail(v)
                              \/ InviteInsert(v)
          \/ \E a \in Accounts : DisableMember(a)
          \/ \E actor, a \in Accounts, r \in {"staff", "owner"} :
               ChangeRole(actor, a, r)
      BY <2>20, Zenon DEF MemberNext
    <3> HIDE DEF TypeInv
    <3> QED
      BY <3>1, <3>2, <3>3, <3>4, <3>5, <3>6, Zenon
  <2>21. ASSUME SubscriptionNext PROVE TypeInv'
    BY <2>21 DEF SubscriptionNext, AssignPlan, SetSeatLimit,
                 ChangeSubscriptionStatus, CancelSubscription, WriteSub,
                 SubStatuses, CurrentStatuses, ByAdmin, memberVars, accountVars,
                 keyVars
  <2>22. CASE UNCHANGED vars
    BY <2>22 DEF vars, subVars, memberVars, accountVars, keyVars
  <2> QED
    BY <2>1, <2>2, <2>3, <2>4, <2>5, <2>6, <2>7, <2>8, <2>9, <2>10, <2>11,
       <2>12, <2>13, <2>14, <2>16, <2>17, <2>19, <2>20, <2>21, <2>22
    DEF Next, RedeemNext, RedeemStep, HandlerNext
<1> QED
  BY <1>1, <1>2, PTL DEF Spec

(* Type correctness of the rows, the accounts and the requests.            *)
THEOREM TypeCorrect == Spec => []TypeOK
<1>1. TypeInv => TypeOK
  BY DEF TypeInv
<1> QED
  BY <1>1, RequestTyping, PTL

-----------------------------------------------------------------------------
(* What the steps that are not a redemption's leave alone: they never move *)
(* a redemption, never touch a person's profile, never take a membership   *)
(* or a key's own profile away, never write the row of a locked key, and   *)
(* never elect an owner.                                                   *)

Outside ==
  \/ \E h \in Handlers : HandlerNext(h)
  \/ \E k \in Keys : RevokeNext(k)
  \/ MemberNext
  \/ SubscriptionNext

IsElected(a) == member[a] = "active" /\ role[a] = "elected"

OutsideFrame ==
  /\ redeem' = redeem
  /\ hasAuth \subseteq hasAuth'
  /\ \A u \in Users : profileKey'[u] = profileKey[u]
  /\ \A a \in Accounts : member[a] # "none" => member'[a] # "none"
  /\ \A k \in Keys : profileKey[k] = k => profileKey'[k] = k
  /\ \A k \in Keys : \/ keyStatus'[k] = keyStatus[k]
                     \/ KeyRowFree(k)
                     \/ keyStatus[k] = "none"
  /\ \A k \in Keys : keyStatus[k] \in {"activated", "revoked"}
                       => keyStatus'[k] \in {"activated", "revoked"}
  /\ \A k \in Keys : keyStatus[k] # "none" => keyStatus'[k] # "none"
  /\ issued \subseteq issued'
  /\ \A a \in Accounts : IsElected(a)' => IsElected(a)

(* No step of a request, a revocation, an invitation or an administrator   *)
(* touches a redemption or the profile of a person, or elects an owner.    *)
LEMMA OutsideKeeps ==
  ASSUME TypeInv, Outside
  PROVE  OutsideFrame
<1> USE SeatConstants DEF TypeInv, TypeOK, OutsideFrame, IsElected
<1>1. ASSUME NEW h \in Handlers, NEW n \in 1 .. MaxBatch, GenerateStart(h, n)
      PROVE  OutsideFrame
  BY <1>1 DEF GenerateStart, memberVars, accountVars, keyVars
<1>2. ASSUME NEW h \in Handlers, NEW k \in Keys, GenerateKey(h, k)
      PROVE  OutsideFrame
  BY <1>2 DEF GenerateKey, memberVars, accountVars
<1>3. ASSUME NEW h \in Handlers, NEW k \in Keys, KeyLoginStart(h, k)
      PROVE  OutsideFrame
  BY <1>3 DEF KeyLoginStart, memberVars, accountVars, keyVars
<1>4. ASSUME NEW h \in Handlers, CreateKeyUser(h) PROVE OutsideFrame
  BY <1>4 DEF CreateKeyUser, memberVars, keyVars
<1>5. ASSUME NEW h \in Handlers, CreateKeyProfile(h) PROVE OutsideFrame
  BY <1>5 DEF CreateKeyProfile, RequestsOK, memberVars, keyVars, Accounts
<1>6. ASSUME NEW h \in Handlers, CheckKeySeat(h) PROVE OutsideFrame
  BY <1>6 DEF CheckKeySeat, memberVars, accountVars, keyVars
<1>7. ASSUME NEW h \in Handlers, CreateKeyMember(h) PROVE OutsideFrame
  BY <1>7 DEF CreateKeyMember, accountVars, keyVars, Accounts
<1>8. ASSUME NEW h \in Handlers, MarkKeyActivated(h) PROVE OutsideFrame
  BY <1>8 DEF MarkKeyActivated, memberVars, accountVars
<1>9. ASSUME NEW h \in Handlers, HandlerFail(h) PROVE OutsideFrame
  BY <1>9 DEF HandlerFail, memberVars, accountVars, keyVars
<1>10. ASSUME NEW k \in Keys, RevokeNext(k) PROVE OutsideFrame
  BY <1>10 DEF RevokeNext, RevokeRead, RevokeWrite, memberVars, accountVars,
               keyVars
<1>11. ASSUME MemberNext PROVE OutsideFrame
  <2>1. ASSUME NEW u \in Users,
               InviteCheck(u) \/ InviteCount(u) \/ InviteFail(u)
        PROVE  OutsideFrame
    BY <2>1 DEF InviteCheck, InviteCount, InviteFail, memberVars, accountVars,
                keyVars
  <2>2. ASSUME NEW u \in Users, InviteInsert(u) PROVE OutsideFrame
    BY <2>2 DEF InviteInsert, accountVars, keyVars, Accounts
  <2>3. ASSUME NEW a \in Accounts, DisableMember(a) PROVE OutsideFrame
    BY <2>3 DEF DisableMember, accountVars, keyVars
  <2>4. ASSUME NEW actor \in Accounts, NEW a \in Accounts,
               NEW r \in {"staff", "owner"}, ChangeRole(actor, a, r)
        PROVE  OutsideFrame
    BY <2>4 DEF ChangeRole, accountVars, keyVars
  <2> QED
    BY <1>11, <2>1, <2>2, <2>3, <2>4 DEF MemberNext
<1>12. ASSUME SubscriptionNext PROVE OutsideFrame
  BY <1>12 DEF SubscriptionNext, AssignPlan, SetSeatLimit,
               ChangeSubscriptionStatus, CancelSubscription, ByAdmin,
               memberVars, accountVars, keyVars
<1> QED
  BY <1>1, <1>2, <1>3, <1>4, <1>5, <1>6, <1>7, <1>8, <1>9, <1>10, <1>11, <1>12
  DEF Outside, HandlerNext

-----------------------------------------------------------------------------
(* The locks of the redemptions and what a redemption knows while it holds *)
(* them.                                                                   *)

OrgHeld(r) == redeem[r].phase \in {"orgLocked", "inserted"}
PeopleOf(k) == {u \in Users : profileKey[u] = k}

OrgExclusive == \A q, r \in Attempts : OrgHeld(q) /\ OrgHeld(r) => q = r

KeyExclusive ==
  \A q, r \in Attempts :
    InTransaction(q) /\ InTransaction(r) /\ redeem[q].key = redeem[r].key
      => q = r

(* The checks made under the key's lock stay true until the commit.        *)
HeldKeyUsable ==
  \A r \in Attempts :
    InTransaction(r)
      => /\ keyStatus[redeem[r].key] \notin {"none", "revoked"}
         /\ Cardinality(PeopleOf(redeem[r].key)) < MaxUses

(* The account whose profile has been inserted exists until the commit and *)
(* gets no other profile.                                                  *)
InsertedFresh ==
  \A r \in Attempts :
    redeem[r].phase = "inserted"
      => redeem[r].user \in hasAuth /\ profileKey[redeem[r].user] = None

(* The role chosen under the organisation's lock is still right.           *)
ElectionPending ==
  \A r \in Attempts :
    OrgHeld(r) /\ redeem[r].role = "elected"
      => \A a \in Accounts : ~IsElected(a)

RedemptionInv ==
  /\ OrgExclusive
  /\ KeyExclusive
  /\ HeldKeyUsable
  /\ InsertedFresh
  /\ ElectionPending
  /\ RedeemedIsMember
  /\ RedemptionsWithinMaxUses
  /\ AtMostOneElectedOwner

(* Nobody redeems anything at the start.                                   *)
LEMMA RedemptionInit == Init => RedemptionInv
<1> SUFFICES ASSUME Init PROVE RedemptionInv
  OBVIOUS
<1>1. \A r \in Attempts : redeem[r].phase = "idle"
  BY DEF Init, NoRedemption
<1>2. \A a \in Accounts : profileKey[a] = None /\ ~IsElected(a)
  BY DEF Init, IsElected
<1>3. \A k \in Keys : {u \in Users : profileKey[u] = k} = {}
  BY <1>2, SeatConstants DEF Accounts
<1>4. RedemptionsWithinMaxUses
  BY <1>3, SeatConstants, FS_EmptySet DEF RedemptionsWithinMaxUses
<1>5. AtMostOneElectedOwner
  BY <1>2 DEF AtMostOneElectedOwner, IsElected
<1> QED
  BY <1>1, <1>2, <1>4, <1>5
  DEF RedemptionInv, OrgExclusive, KeyExclusive, HeldKeyUsable, InsertedFresh,
      ElectionPending, RedeemedIsMember, OrgHeld, InTransaction, Accounts

(* A step outside the redemptions preserves what they rely on.             *)
LEMMA RedemptionOutside ==
  ASSUME TypeInv, RedemptionInv, OutsideFrame
  PROVE  RedemptionInv'
<1> USE SeatConstants DEF TypeInv, TypeOK, RequestsOK, OutsideFrame
<1>1. \A k \in Keys : PeopleOf(k)' = PeopleOf(k)
  BY DEF PeopleOf
<1>2. OrgExclusive' /\ KeyExclusive' /\ InsertedFresh'
  BY DEF RedemptionInv, OrgExclusive, KeyExclusive, InsertedFresh, OrgHeld,
         InTransaction
<1>3. HeldKeyUsable'
  <2> SUFFICES ASSUME NEW r \in Attempts, InTransaction(r)'
               PROVE  /\ keyStatus'[redeem'[r].key] \notin {"none", "revoked"}
                      /\ Cardinality(PeopleOf(redeem[r].key)') < MaxUses
    BY DEF HeldKeyUsable
  <2>1. InTransaction(r) /\ redeem[r].key \in Keys
    BY DEF InTransaction
  <2>2. ~KeyRowFree(redeem[r].key)
    BY <2>1 DEF InTransaction, KeyRowFree
  <2> QED
    BY <1>1, <2>1, <2>2 DEF RedemptionInv, HeldKeyUsable
<1>4. ElectionPending'
  BY DEF RedemptionInv, ElectionPending, OrgHeld
<1>5. RedeemedIsMember'
  <2> SUFFICES ASSUME NEW u \in Users, profileKey'[u] # None
               PROVE  /\ u \in hasAuth' /\ member'[u] # "none"
                      /\ keyStatus'[profileKey'[u]] \in {"activated", "revoked"}
    BY DEF RedeemedIsMember
  <2>1. profileKey[u] # None /\ profileKey[u] \in Keys
    BY DEF Accounts
  <2> QED
    BY <2>1 DEF RedemptionInv, RedeemedIsMember, Accounts
<1>6. RedemptionsWithinMaxUses'
  BY DEF RedemptionInv, RedemptionsWithinMaxUses
<1>7. AtMostOneElectedOwner'
  BY DEF RedemptionInv, AtMostOneElectedOwner, IsElected
<1> QED
  BY <1>2, <1>3, <1>4, <1>5, <1>6, <1>7 DEF RedemptionInv

(* People are among the profiles a key's uses are counted by.              *)
LEMMA PeopleCounted ==
  ASSUME TypeOK, NEW k \in Keys
  PROVE  /\ IsFiniteSet(PeopleOf(k)) /\ Cardinality(PeopleOf(k)) \in Nat
         /\ KeyUsable(k) => Cardinality(PeopleOf(k)) < MaxUses
<1>1. PeopleOf(k) \subseteq ProfilesOf(k) /\ ProfilesOf(k) \subseteq Accounts
  BY DEF PeopleOf, ProfilesOf, Accounts
<1>2. /\ IsFiniteSet(ProfilesOf(k)) /\ Cardinality(ProfilesOf(k)) \in Nat
  BY <1>1, AccountsFinite
<1>3. /\ IsFiniteSet(PeopleOf(k))
      /\ Cardinality(PeopleOf(k)) <= Cardinality(ProfilesOf(k))
  BY <1>1, <1>2, FS_Subset
<1>4. Cardinality(PeopleOf(k)) \in Nat
  BY <1>3, FS_CardinalityType
<1> QED
  BY <1>2, <1>3, <1>4, SeatConstants DEF KeyUsable

(* A step that only moves an attempt to another phase, and may create an   *)
(* account, preserves the invariant.                                       *)
LEMMA RedemptionMove ==
  ASSUME TypeInv, TypeInv', RedemptionInv, NEW r \in Attempts,
         UNCHANGED memberVars, UNCHANGED profileKey, UNCHANGED keyVars,
         hasAuth \subseteq hasAuth',
         \A q \in Attempts : q # r => redeem'[q] = redeem[q],
         OrgHeld(r)' =>
           /\ OrgHeld(r) \/ OrgRowFree
           /\ redeem'[r].role = "elected" =>
                \A a \in Accounts : ~IsElected(a),
         InTransaction(r)' =>
           \/ InTransaction(r) /\ redeem'[r].key = redeem[r].key
           \/ KeyRowFree(redeem'[r].key) /\ KeyUsable(redeem'[r].key),
         redeem'[r].phase = "inserted" =>
           /\ redeem'[r].user \in hasAuth
           /\ profileKey[redeem'[r].user] = None
  PROVE  RedemptionInv'
<1> USE SeatConstants DEF TypeInv, TypeOK, RequestsOK, memberVars, keyVars
<1>1. OrgExclusive'
  BY DEF RedemptionInv, OrgExclusive, OrgHeld, OrgRowFree
<1>2. KeyExclusive'
  BY DEF RedemptionInv, KeyExclusive, InTransaction, KeyRowFree
<1>3. HeldKeyUsable'
  <2> SUFFICES ASSUME NEW q \in Attempts, InTransaction(q)'
               PROVE  /\ keyStatus[redeem'[q].key] \notin {"none", "revoked"}
                      /\ Cardinality(PeopleOf(redeem'[q].key)) < MaxUses
    BY DEF HeldKeyUsable, PeopleOf
  <2>1. redeem'[q].key \in Keys
    BY DEF InTransaction
  <2>2. CASE InTransaction(q) /\ redeem'[q].key = redeem[q].key
    BY <2>2 DEF RedemptionInv, HeldKeyUsable
  <2>3. CASE q = r /\ KeyUsable(redeem'[r].key)
    BY <2>1, <2>3, PeopleCounted DEF KeyUsable
  <2> QED
    BY <2>2, <2>3 DEF InTransaction
<1>4. InsertedFresh'
  BY DEF RedemptionInv, InsertedFresh
<1>5. ElectionPending'
  BY DEF RedemptionInv, ElectionPending, OrgHeld, IsElected
<1>6. RedeemedIsMember' /\ RedemptionsWithinMaxUses' /\ AtMostOneElectedOwner'
  BY DEF RedemptionInv, RedeemedIsMember, RedemptionsWithinMaxUses,
         AtMostOneElectedOwner, Accounts
<1> QED
  BY <1>1, <1>2, <1>3, <1>4, <1>5, <1>6 DEF RedemptionInv

(* The commit of a redemption, which publishes its rows and frees its      *)
(* locks, preserves the invariant.                                         *)
LEMMA RedemptionCommit ==
  ASSUME TypeInv, TypeInv', RedemptionInv, NEW r \in Attempts,
         Committed(r), redeem'[r].phase \in {"idle", "failed"},
         \A q \in Attempts : q # r => redeem'[q] = redeem[q]
  PROVE  RedemptionInv'
<1> USE SeatConstants DEF TypeInv, TypeOK, RequestsOK
<1>k. PICK k \in Keys : k = redeem[r].key
  BY DEF Committed
<1>u. PICK u \in Users : u = redeem[r].user
  BY DEF Committed
<1>1. /\ OrgHeld(r) /\ InTransaction(r)
      /\ u \in hasAuth /\ profileKey[u] = None
      /\ Cardinality(PeopleOf(k)) < MaxUses
      /\ keyStatus[k] \notin {"none", "revoked"}
  BY <1>k, <1>u DEF Committed, OrgHeld, InTransaction, RedemptionInv,
                    InsertedFresh, HeldKeyUsable
<1>2. /\ \A q \in Attempts : q # r => redeem'[q] = redeem[q]
      /\ redeem'[r].phase \in {"idle", "failed"}
      /\ profileKey' = [profileKey EXCEPT ![u] = k]
      /\ keyStatus' = [keyStatus EXCEPT ![k] = "activated"]
      /\ member' = [member EXCEPT ![u] = "active"]
      /\ role' = [role EXCEPT ![u] = redeem[r].role]
      /\ hasAuth' = hasAuth /\ u \in Accounts
  BY <1>k, <1>u DEF Committed, KeyAfterRedemption, Accounts
<1>3. OrgExclusive' /\ KeyExclusive'
  BY <1>2 DEF RedemptionInv, OrgExclusive, KeyExclusive, OrgHeld, InTransaction
<1>4. /\ PeopleOf(k)' = PeopleOf(k) \cup {u}
      /\ \A j \in Keys : j # k => PeopleOf(j)' = PeopleOf(j)
  BY <1>1, <1>2 DEF PeopleOf, Accounts
<1>5. HeldKeyUsable'
  <2> SUFFICES ASSUME NEW q \in Attempts, InTransaction(q)', NEW j \in Keys,
                      j = redeem[q].key
               PROVE  /\ keyStatus'[j] \notin {"none", "revoked"}
                      /\ Cardinality(PeopleOf(j)') < MaxUses
    BY <1>2 DEF HeldKeyUsable, PeopleOf, InTransaction
  <2>1. q # r /\ InTransaction(q)
    BY <1>2 DEF InTransaction
  <2>2. j # k
    BY <1>k, <1>1, <2>1 DEF RedemptionInv, KeyExclusive
  <2>3. /\ keyStatus[j] \notin {"none", "revoked"}
        /\ Cardinality(PeopleOf(j)) < MaxUses
    BY <2>1 DEF RedemptionInv, HeldKeyUsable
  <2> QED
    BY <1>2, <1>4, <2>2, <2>3
<1>6. InsertedFresh'
  BY <1>1, <1>2 DEF RedemptionInv, InsertedFresh, OrgExclusive, OrgHeld
<1>7. ElectionPending'
  BY <1>1, <1>2 DEF RedemptionInv, ElectionPending, OrgHeld, OrgExclusive
<1>8. RedeemedIsMember'
  BY <1>1, <1>2 DEF RedemptionInv, RedeemedIsMember, Accounts
<1>9. RedemptionsWithinMaxUses'
  <2>1. /\ IsFiniteSet(PeopleOf(k)) /\ Cardinality(PeopleOf(k)) \in Nat
    BY <1>1, PeopleCounted
  <2>2. Cardinality(PeopleOf(k)') <= MaxUses
    <3>1. u \notin PeopleOf(k)
      BY <1>1 DEF PeopleOf
    <3>2. Cardinality(PeopleOf(k) \cup {u}) = Cardinality(PeopleOf(k)) + 1
      BY <2>1, <3>1, FS_AddElement
    <3> QED
      BY <1>1, <1>4, <2>1, <3>2
  <2>3. \A j \in Keys : Cardinality(PeopleOf(j)) <= MaxUses
    BY DEF RedemptionInv, RedemptionsWithinMaxUses, PeopleOf
  <2>4. \A j \in Keys : Cardinality(PeopleOf(j)') <= MaxUses
    BY <1>4, <2>2, <2>3
  <2> QED
    BY <2>4 DEF RedemptionsWithinMaxUses, PeopleOf
<1>10. AtMostOneElectedOwner'
  <2>1. CASE redeem[r].role = "elected"
    BY <1>1, <1>2, <2>1
    DEF RedemptionInv, ElectionPending, AtMostOneElectedOwner, IsElected
  <2>2. CASE redeem[r].role # "elected"
    BY <1>2, <2>2 DEF RedemptionInv, AtMostOneElectedOwner
  <2> QED
    BY <2>1, <2>2
<1> QED
  BY <1>3, <1>5, <1>6, <1>7, <1>8, <1>9, <1>10 DEF RedemptionInv

(* So does a clean-up that deletes an account, whoever created it: no      *)
(* transaction has inserted rows for that account.                         *)
LEMMA RedemptionDelete ==
  ASSUME TypeInv, TypeInv', RedemptionInv, NEW r \in Attempts, RedeemUndo(r),
         NEW u \in Users, u = redeem[r].user, DeleteUser(u)
  PROVE  RedemptionInv'
<1> USE SeatConstants DEF TypeInv, TypeOK, RequestsOK
<1>1. /\ \A q \in Attempts : q # r => redeem'[q] = redeem[q]
      /\ redeem'[r].phase = "idle" /\ u \in Accounts
  BY EndFrame DEF RedeemUndo, Accounts
<1>2. /\ keyStatus' = keyStatus /\ role' = role
      /\ \A v \in Users : v # u => (v \in hasAuth' <=> v \in hasAuth)
      /\ \A a \in Accounts : a # u => /\ member'[a] = member[a]
                                      /\ profileKey'[a] = profileKey[a]
      /\ member'[u] = "none" /\ profileKey'[u] = None
  BY <1>1 DEF DeleteUser
<1>3. \A k \in Keys : PeopleOf(k)' \subseteq PeopleOf(k)
  BY <1>2 DEF PeopleOf, Accounts
<1>4. \A a \in Accounts : IsElected(a)' => IsElected(a)
  BY <1>2 DEF IsElected
<1>5. OrgExclusive' /\ KeyExclusive'
  BY <1>1, <1>2 DEF RedemptionInv, OrgExclusive, KeyExclusive, OrgHeld,
                    InTransaction
<1>6. \A k \in Keys :
        /\ Cardinality(PeopleOf(k)') <= Cardinality(PeopleOf(k))
        /\ Cardinality(PeopleOf(k)') \in Nat /\ Cardinality(PeopleOf(k)) \in Nat
  <2> SUFFICES ASSUME NEW k \in Keys
               PROVE  /\ Cardinality(PeopleOf(k)') <= Cardinality(PeopleOf(k))
                      /\ Cardinality(PeopleOf(k)') \in Nat
                      /\ Cardinality(PeopleOf(k)) \in Nat
    OBVIOUS
  <2>1. IsFiniteSet(PeopleOf(k)) /\ Cardinality(PeopleOf(k)) \in Nat
    BY PeopleCounted
  <2>2. /\ IsFiniteSet(PeopleOf(k)')
        /\ Cardinality(PeopleOf(k)') <= Cardinality(PeopleOf(k))
    BY <1>3, <2>1, FS_Subset
  <2> QED
    BY <2>1, <2>2, FS_CardinalityType
<1>7. HeldKeyUsable'
  <2>1. ASSUME NEW q \in Attempts, NEW k \in Keys, InTransaction(q)',
               k = redeem'[q].key
        PROVE  /\ keyStatus'[k] \notin {"none", "revoked"}
               /\ Cardinality(PeopleOf(k)') < MaxUses
    <3>1. redeem'[q] = redeem[q] /\ InTransaction(q)
      BY <1>1, <2>1 DEF InTransaction
    <3>2. /\ keyStatus[k] \notin {"none", "revoked"}
          /\ Cardinality(PeopleOf(k)) < MaxUses
      BY <2>1, <3>1 DEF RedemptionInv, HeldKeyUsable
    <3>3. Cardinality(PeopleOf(k)') < MaxUses
      BY <1>6, <3>2
    <3> QED
      BY <1>2, <3>2, <3>3
  <2>2. \A q \in Attempts : InTransaction(q)' => redeem'[q].key \in Keys
    BY DEF InTransaction
  <2>3. ASSUME NEW q \in Attempts, InTransaction(q)'
        PROVE  /\ keyStatus'[redeem'[q].key] \notin {"none", "revoked"}
               /\ Cardinality({v \in Users : profileKey'[v] = redeem'[q].key})
                    < MaxUses
    <3> PICK k \in Keys : k = redeem'[q].key
      BY <2>2, <2>3
    <3>1. keyStatus'[k] \notin {"none", "revoked"}
      BY <2>1, <2>3
    <3>2. Cardinality(PeopleOf(k)') < MaxUses
      BY <2>1, <2>3
    <3>3. PeopleOf(k)' = {v \in Users : profileKey'[v] = redeem'[q].key}
      BY DEF PeopleOf
    <3> QED
      BY <3>1, <3>2, <3>3
  <2> QED
    BY <2>3 DEF HeldKeyUsable, PeopleOf, InTransaction
<1>8. InsertedFresh'
  <2> SUFFICES ASSUME NEW q \in Attempts, redeem'[q].phase = "inserted"
               PROVE  /\ redeem'[q].user \in hasAuth'
                      /\ profileKey'[redeem'[q].user] = None
    BY DEF InsertedFresh
  <2>1. q # r /\ redeem'[q] = redeem[q] /\ redeem[q].user \in Users
    BY <1>1
  <2>2. redeem[q].user # u
    BY <2>1 DEF RedeemUndo
  <2> QED
    BY <1>2, <2>1, <2>2 DEF RedemptionInv, InsertedFresh, Accounts
<1>9. ElectionPending'
  BY <1>1, <1>4 DEF RedemptionInv, ElectionPending, OrgHeld
<1>10. RedeemedIsMember'
  BY <1>1, <1>2 DEF RedemptionInv, RedeemedIsMember, Accounts
<1>11. RedemptionsWithinMaxUses'
  <2>1. \A k \in Keys : Cardinality(PeopleOf(k)) <= MaxUses
    BY DEF RedemptionInv, RedemptionsWithinMaxUses, PeopleOf
  <2>2. \A k \in Keys : Cardinality(PeopleOf(k)') <= MaxUses
    BY <1>6, <2>1
  <2> QED
    BY <2>2 DEF RedemptionsWithinMaxUses, PeopleOf
<1>12. AtMostOneElectedOwner'
  BY <1>4 DEF RedemptionInv, AtMostOneElectedOwner, IsElected
<1> QED
  BY <1>5, <1>7, <1>8, <1>9, <1>10, <1>11, <1>12 DEF RedemptionInv

(* One step of the system, whichever, preserves the invariant.             *)
LEMMA RedemptionStep ==
  ASSUME TypeInv, TypeInv', RedemptionInv, [Next]_vars
  PROVE  RedemptionInv'
<1> USE SeatConstants DEF TypeInv, TypeOK, RequestsOK
<1>1. ASSUME NEW r \in Attempts, NEW u \in Users, NEW k \in Keys,
             RedeemStart(r, u, k)
      PROVE  RedemptionInv'
  <2>1. /\ redeem'[r].phase = "validated"
        /\ \A q \in Attempts : q # r => redeem'[q] = redeem[q]
    BY <1>1 DEF RedeemStart
  <2> QED
    BY <1>1, <2>1, RedemptionMove
    DEF RedeemStart, OrgHeld, InTransaction, accountVars
<1>2. ASSUME NEW r \in Attempts, RedeemSignUp(r) PROVE RedemptionInv'
  <2>1. /\ redeem'[r].phase = "signedUp"
        /\ \A q \in Attempts : q # r => redeem'[q] = redeem[q]
    BY <1>2, StepFrame DEF RedeemSignUp, RedeemPhases
  <2>2. hasAuth \subseteq hasAuth'
    BY <1>2 DEF RedeemSignUp
  <2> QED
    BY <1>2, <2>1, <2>2, RedemptionMove DEF RedeemSignUp, OrgHeld, InTransaction
<1>3. ASSUME NEW r \in Attempts, End(r) \/ Step(r, "failed"),
             UNCHANGED <<memberVars, accountVars, keyVars>>
      PROVE  RedemptionInv'
  <2>1. /\ redeem'[r].phase \in {"idle", "failed"}
        /\ \A q \in Attempts : q # r => redeem'[q] = redeem[q]
    BY <1>3, StepFrame, EndFrame DEF RedeemPhases
  <2> QED
    BY <1>3, <2>1, RedemptionMove DEF OrgHeld, InTransaction, accountVars
<1>4. ASSUME NEW r \in Attempts, RedeemLockKey(r) PROVE RedemptionInv'
  <2>1. /\ redeem'[r].phase = "keyLocked" /\ redeem'[r].key = redeem[r].key
        /\ \A q \in Attempts : q # r => redeem'[q] = redeem[q]
    BY <1>4, StepFrame DEF RedeemLockKey, RedeemPhases
  <2> QED
    BY <1>4, <2>1, RedemptionMove
    DEF RedeemLockKey, OrgHeld, InTransaction, accountVars
<1>5. ASSUME NEW r \in Attempts, RedeemLockOrg(r) PROVE RedemptionInv'
  <2>1. /\ redeem'[r].phase = "orgLocked" /\ redeem'[r].key = redeem[r].key
        /\ redeem'[r].role = "elected" => ~HasActiveOwner
        /\ \A q \in Attempts : q # r => redeem'[q] = redeem[q]
    BY <1>5, LockFrame
  <2>3. ~HasActiveOwner => \A a \in Accounts : ~IsElected(a)
    BY DEF HasActiveOwner, IsElected, IsOwner
  <2> QED
    BY <1>5, <2>1, <2>3, RedemptionMove
    DEF RedeemLockOrg, OrgHeld, InTransaction, accountVars
<1>6. ASSUME NEW r \in Attempts, RedeemInsert(r) PROVE RedemptionInv'
  <2>1. /\ redeem'[r].phase = "inserted" /\ redeem'[r].key = redeem[r].key
        /\ redeem'[r].user = redeem[r].user /\ redeem'[r].role = redeem[r].role
        /\ \A q \in Attempts : q # r => redeem'[q] = redeem[q]
    BY <1>6, StepFrame DEF RedeemInsert, RedeemPhases
  <2>2. redeem[r].user \in hasAuth /\ profileKey[redeem[r].user] = None
    BY <1>6 DEF RedeemInsert, Insertable
  <2>3. redeem'[r].role = "elected" => \A a \in Accounts : ~IsElected(a)
    BY <1>6, <2>1 DEF RedeemInsert, RedemptionInv, ElectionPending, OrgHeld
  <2> QED
    BY <1>6, <2>1, <2>2, <2>3, RedemptionMove
    DEF RedeemInsert, OrgHeld, InTransaction, accountVars
<1>7. ASSUME NEW r \in Attempts,
             RedeemRefused(r) \/ RedeemFail(r) \/ RedeemAbort(r)
      PROVE  RedemptionInv'
  BY <1>3, <1>7
  DEF RedeemRefused, RefusalKeeps, RedeemFail, RedeemAbort, RollBack, keyVars
<1>8. ASSUME NEW r \in Attempts, RedeemUndo(r) PROVE RedemptionInv'
  <2>1. End(r) /\ redeem[r].user \in Users
    BY <1>8 DEF RedeemUndo
  <2>2. CASE UNCHANGED <<memberVars, accountVars, keyVars>>
    BY <1>3, <2>1, <2>2
  <2>3. CASE DeleteUser(redeem[r].user)
    BY <1>8, <2>1, <2>3, RedemptionDelete
  <2> QED
    BY <1>8, <2>2, <2>3 DEF RedeemUndo
<1>9. ASSUME NEW r \in Attempts, RedeemCommit(r) \/ RedeemUnheard(r)
      PROVE  RedemptionInv'
  <2>1. /\ Committed(r) /\ redeem'[r].phase \in {"idle", "failed"}
        /\ \A q \in Attempts : q # r => redeem'[q] = redeem[q]
    BY <1>9, StepFrame, EndFrame DEF RedeemCommit, RedeemUnheard, RedeemPhases
  <2> QED
    BY <2>1, RedemptionCommit
<1>10. CASE Outside
  BY <1>10, OutsideKeeps, RedemptionOutside
<1>11. CASE UNCHANGED vars
  <2>1. OutsideFrame
    BY <1>11 DEF vars, memberVars, accountVars, keyVars, OutsideFrame, IsElected
  <2> QED
    BY <2>1, RedemptionOutside
<1> QED
  BY <1>1, <1>2, <1>4, <1>5, <1>6, <1>7, <1>8, <1>9, <1>10, <1>11
  DEF Next, RedeemNext, RedeemStep, Outside

(* The locks, the checks held under them, and what follows from them.      *)
THEOREM RedemptionSafety == Spec => []RedemptionInv
<1>1. Init => RedemptionInv
  BY RedemptionInit
<1>2. TypeInv /\ TypeInv' /\ RedemptionInv /\ [Next]_vars => RedemptionInv'
  BY RedemptionStep
<1> QED
  BY <1>1, <1>2, RequestTyping, PTL DEF Spec

(* A key never admits more people than its max_uses.                       *)
THEOREM MaxUsesRespected == Spec => []RedemptionsWithinMaxUses
<1>1. RedemptionInv => RedemptionsWithinMaxUses
  BY DEF RedemptionInv
<1> QED
  BY <1>1, RedemptionSafety, PTL

(* Concurrent first redemptions elect one owner.                           *)
THEOREM OneElectedOwner == Spec => []AtMostOneElectedOwner
<1>1. RedemptionInv => AtMostOneElectedOwner
  BY DEF RedemptionInv
<1> QED
  BY <1>1, RedemptionSafety, PTL

(* A linked profile belongs to a member with an account and a used key.    *)
THEOREM RedeemedAreMembers == Spec => []RedeemedIsMember
<1>1. RedemptionInv => RedeemedIsMember
  BY DEF RedemptionInv
<1> QED
  BY <1>1, RedemptionSafety, PTL

-----------------------------------------------------------------------------
(* Action properties of people's profiles.                                 *)

(* The profile of a person changes only at a commit, from no key to the    *)
(* locked one, or at the clean-up of an attempt for that person, and then  *)
(* not while an active key has nobody else who activated it.               *)
LEMMA ProfileStep ==
  ASSUME TypeInv, RedemptionInv, [Next]_vars, NEW u \in Users
  PROVE  /\ profileKey[u] # None /\ (u \notin Claimants \/ LastActivator(u))
              => profileKey'[u] = profileKey[u] /\ u \in hasAuth'
         /\ profileKey[u] = None /\ profileKey'[u] # None
              => \E r \in Attempts : Committed(r) /\ redeem[r].user = u
<1> DEFINE Goal ==
      /\ profileKey[u] # None /\ (u \notin Claimants \/ LastActivator(u))
           => profileKey'[u] = profileKey[u] /\ u \in hasAuth'
      /\ profileKey[u] = None /\ profileKey'[u] # None
           => \E r \in Attempts : Committed(r) /\ redeem[r].user = u
<1> USE SeatConstants DEF TypeInv, TypeOK, RequestsOK
<1>1. profileKey[u] # None => u \in hasAuth
  BY DEF RedemptionInv, RedeemedIsMember
<1>2. CASE Outside
  BY <1>1, <1>2, OutsideKeeps DEF OutsideFrame
<1>3. CASE UNCHANGED profileKey /\ hasAuth \subseteq hasAuth'
  BY <1>1, <1>3
<1>4. ASSUME NEW r \in Attempts, Committed(r) PROVE Goal
  <2>1. profileKey[redeem[r].user] = None
    BY <1>4 DEF Committed, RedemptionInv, InsertedFresh
  <2> QED
    BY <1>1, <1>4, <2>1 DEF Committed, Accounts
<1>5. ASSUME NEW r \in Attempts, RedeemUndo(r) PROVE Goal
  <2>1. CASE UNCHANGED <<memberVars, accountVars, keyVars>>
    BY <1>3, <2>1 DEF accountVars
  <2>2. CASE ~LastActivator(redeem[r].user) /\ DeleteUser(redeem[r].user)
    <3>1. redeem[r].user = u => u \in Claimants
      BY <1>5 DEF RedeemUndo, Claimants
    <3>2. redeem[r].user # u => profileKey'[u] = profileKey[u]
                                /\ (u \in hasAuth => u \in hasAuth')
      BY <1>5, <2>2 DEF DeleteUser, Accounts
    <3>3. redeem[r].user = u => profileKey'[u] = None
      BY <2>2 DEF DeleteUser, Accounts
    <3> QED
      BY <1>1, <2>2, <3>1, <3>2, <3>3
  <2> QED
    BY <1>5, <2>1, <2>2 DEF RedeemUndo
<1>6. ASSUME NEW r \in Attempts, RedeemNext(r) PROVE Goal
  BY <1>3, <1>4, <1>5, <1>6
  DEF RedeemNext, RedeemStep, RedeemStart, RedeemSignUp, RedeemRefused,
      RefusalKeeps, RedeemLockKey, RedeemLockOrg, RedeemInsert, RedeemCommit,
      RedeemUnheard, RedeemAbort, RedeemFail, RollBack, accountVars
<1> QED
  BY <1>2, <1>3, <1>6 DEF Next, Outside, vars, accountVars

(* A profile is linked only to a key that is not revoked at that moment.   *)
THEOREM RevokedKeysAdmitNobody == Spec => NoRedemptionOfRevokedKey
<1>1. TypeInv /\ RedemptionInv /\ [Next]_vars
        => [\A u \in Users :
              profileKey[u] = None /\ profileKey'[u] # None
                => keyStatus[profileKey'[u]] # "revoked"]_vars
  <2> SUFFICES ASSUME TypeInv, RedemptionInv, [Next]_vars, NEW u \in Users,
                      profileKey[u] = None, profileKey'[u] # None
               PROVE  keyStatus[profileKey'[u]] # "revoked"
    OBVIOUS
  <2>1. PICK r \in Attempts : Committed(r) /\ redeem[r].user = u
    BY ProfileStep
  <2>2. keyStatus[redeem[r].key] # "revoked"
    BY <2>1 DEF Committed, RedemptionInv, HeldKeyUsable, InTransaction
  <2>3. profileKey'[u] = redeem[r].key
    BY <2>1 DEF Committed, TypeInv, TypeOK, Accounts
  <2> QED
    BY <2>2, <2>3
<1> QED
  BY <1>1, RequestTyping, RedemptionSafety, PTL
  DEF Spec, NoRedemptionOfRevokedKey

(* Nothing takes away what a redemption set up, except the clean-up of     *)
(* another redemption for the same person.                                 *)
THEOREM RedeemedAccountsStay == Spec => RedeemedAccountSurvives
<1>1. TypeInv /\ RedemptionInv /\ [Next]_vars
        => [\A u \in Users :
              profileKey[u] # None /\ (u \notin Claimants \/ LastActivator(u))
                => profileKey'[u] = profileKey[u] /\ u \in hasAuth']_vars
  BY ProfileStep
<1> QED
  BY <1>1, RequestTyping, RedemptionSafety, PTL DEF Spec, RedeemedAccountSurvives

-----------------------------------------------------------------------------
(* Overselling is bounded: the members and the inserts in flight together  *)
(* never exceed the limit by more than the inserts there can be in flight. *)

OversellInv ==
  subStatus \in CurrentStatuses
    => Cardinality(ActiveSeats) + Cardinality(PendingHandlers)
         + Cardinality(PendingAttempts) <= seatLimit + MaxPending

(* At most every handler, and one attempt, have an insert in flight.       *)
LEMMA PendingCounts ==
  ASSUME NEW H \in SUBSET Handlers, NEW U \in SUBSET Attempts,
         \A u, v \in U : u = v
  PROVE  /\ IsFiniteSet(H) /\ Cardinality(H) \in Nat
         /\ IsFiniteSet(U) /\ Cardinality(U) \in Nat
         /\ MaxPending \in Nat
         /\ Cardinality(H) + Cardinality(U) <= MaxPending
<1>1. IsFiniteSet(H) /\ Cardinality(H) <= Cardinality(Handlers)
  BY SeatConstants, FS_Subset
<1>2. IsFiniteSet(U)
  BY SeatConstants, FS_Subset
<1>3. /\ Cardinality(H) \in Nat /\ Cardinality(U) \in Nat
      /\ Cardinality(Handlers) \in Nat
  BY <1>1, <1>2, SeatConstants, FS_CardinalityType
<1>4. Cardinality(U) <= IF Attempts = {} THEN 0 ELSE 1
  <2>1. CASE U = {}
    BY <2>1, FS_EmptySet
  <2>2. ASSUME NEW u \in U PROVE Cardinality(U) <= 1
    <3>1. U = {u}
      BY <2>2
    <3>2. Cardinality({u}) = 1
      BY FS_Singleton
    <3> QED
      BY <3>1, <3>2
  <2> QED
    BY <2>1, <2>2
<1> QED
  BY <1>1, <1>2, <1>3, <1>4 DEF MaxPending

(* The inserts in flight never exceed MaxPending.                          *)
LEMMA PendingBound ==
  ASSUME RedemptionInv
  PROVE  /\ IsFiniteSet(PendingHandlers) /\ Cardinality(PendingHandlers) \in Nat
         /\ IsFiniteSet(PendingAttempts) /\ Cardinality(PendingAttempts) \in Nat
         /\ MaxPending \in Nat
         /\ Cardinality(PendingHandlers) + Cardinality(PendingAttempts)
              <= MaxPending
<1>1. \A u, v \in PendingAttempts : u = v
  BY DEF RedemptionInv, OrgExclusive, OrgHeld, PendingAttempts
<1> QED
  BY <1>1, PendingCounts DEF PendingHandlers, PendingAttempts

(* A step that admits nobody and counts no insert.                         *)
LEMMA OversellCalm ==
  ASSUME TypeInv, RedemptionInv, OversellInv, UNCHANGED subVars,
         ActiveSeats' \subseteq ActiveSeats,
         PendingHandlers' \subseteq PendingHandlers,
         PendingAttempts' \subseteq PendingAttempts
  PROVE  OversellInv'
<1>1. /\ Cardinality(ActiveSeats') <= Cardinality(ActiveSeats)
      /\ Cardinality(PendingHandlers') <= Cardinality(PendingHandlers)
      /\ Cardinality(PendingAttempts') <= Cardinality(PendingAttempts)
  BY AccountsFinite, PendingBound, FS_Subset
<1>2. /\ Cardinality(ActiveSeats') \in Nat /\ Cardinality(ActiveSeats) \in Nat
      /\ Cardinality(PendingHandlers') \in Nat /\ Cardinality(PendingAttempts') \in Nat
  BY AccountsFinite, PendingBound, FS_Subset, FS_CardinalityType
<1>3. MaxPending' = MaxPending
  BY DEF MaxPending
<1> QED
  BY <1>1, <1>2, <1>3, PendingBound
  DEF OversellInv, TypeInv, TypeOK, subVars

(* A write of the subscription is counted against all members.             *)
LEMMA OversellWrite ==
  ASSUME TypeInv, TypeInv', RedemptionInv', NEW s, NEW p, NEW n \in Nat,
         WriteSub(s, p, n), UNCHANGED member
  PROVE  OversellInv'
<1>1. ActiveSeats' = ActiveSeats
  BY DEF ActiveSeats
<1>2. s \in CurrentStatuses => Cardinality(ActiveSeats) <= n
  <2>1. /\ ActiveSeats \subseteq ActiveSeats \cup InvitedSeats
        /\ ActiveSeats \cup InvitedSeats \subseteq Accounts
    BY DEF ActiveSeats, InvitedSeats
  <2>2. Cardinality(ActiveSeats) <= Cardinality(ActiveSeats \cup InvitedSeats)
    BY <2>1, AccountsFinite, FS_Subset
  <2>3. /\ Cardinality(ActiveSeats) \in Nat
        /\ Cardinality(ActiveSeats \cup InvitedSeats) \in Nat
    BY <2>1, AccountsFinite
  <2> QED
    BY <2>2, <2>3 DEF WriteSub, SubTriggersAllow
<1>3. Cardinality(ActiveSeats) \in Nat
  BY AccountsFinite DEF ActiveSeats
<1>4. /\ Cardinality(PendingHandlers') \in Nat /\ Cardinality(PendingAttempts') \in Nat
      /\ MaxPending \in Nat /\ MaxPending' = MaxPending
      /\ Cardinality(PendingHandlers') + Cardinality(PendingAttempts') <= MaxPending
  <2>1. \A u, v \in PendingAttempts' : u = v
    BY DEF RedemptionInv, OrgExclusive, OrgHeld, PendingAttempts
  <2>2. /\ PendingHandlers' \in SUBSET Handlers
        /\ PendingAttempts' \in SUBSET Attempts
    BY DEF PendingHandlers, PendingAttempts
  <2>3. MaxPending' = MaxPending
    BY DEF MaxPending
  <2> QED
    BY <2>1, <2>2, <2>3, PendingCounts
<1> QED
  BY <1>1, <1>2, <1>3, <1>4 DEF OversellInv, WriteSub

(* A step that counts an insert of account a has found a seat free.        *)
LEMMA OversellCount ==
  ASSUME TypeInv, TypeInv', RedemptionInv', NEW a \in Accounts,
         SeatTriggerAllows(a), UNCHANGED subVars, UNCHANGED member
  PROVE  OversellInv'
<1>1. ActiveSeats' = ActiveSeats /\ ActiveSeats \subseteq Accounts
  BY DEF ActiveSeats
<1>2. IsFiniteSet(ActiveSeats) /\ Cardinality(ActiveSeats) \in Nat
  BY <1>1, AccountsFinite
<1>3. /\ Cardinality(ActiveSeats) <= Cardinality(ActiveSeats \ {a}) + 1
      /\ Cardinality(ActiveSeats \ {a}) \in Nat
  BY <1>2, RemoveOne
<1>4. subStatus \in CurrentStatuses => Cardinality(ActiveSeats) <= seatLimit
  BY <1>2, <1>3 DEF SeatTriggerAllows, TypeInv, TypeOK
<1>5. /\ Cardinality(PendingHandlers') \in Nat /\ Cardinality(PendingAttempts') \in Nat
      /\ MaxPending \in Nat /\ MaxPending' = MaxPending
      /\ Cardinality(PendingHandlers') + Cardinality(PendingAttempts') <= MaxPending
  <2>1. \A u, v \in PendingAttempts' : u = v
    BY DEF RedemptionInv, OrgExclusive, OrgHeld, PendingAttempts
  <2>2. /\ PendingHandlers' \in SUBSET Handlers
        /\ PendingAttempts' \in SUBSET Attempts
    BY DEF PendingHandlers, PendingAttempts
  <2>3. MaxPending' = MaxPending
    BY DEF MaxPending
  <2> QED
    BY <2>1, <2>2, <2>3, PendingCounts
<1> QED
  BY <1>1, <1>2, <1>4, <1>5 DEF OversellInv, subVars, TypeInv, TypeOK

(* A commit makes a counted insert a member: one for one.                  *)
LEMMA OversellAdmit ==
  ASSUME TypeInv, RedemptionInv, OversellInv, NEW a \in Accounts,
         UNCHANGED subVars, ActiveSeats' \subseteq ActiveSeats \cup {a},
         \/ /\ PendingAttempts' = PendingAttempts
            /\ \E h \in PendingHandlers : PendingHandlers' = PendingHandlers \ {h}
         \/ /\ PendingHandlers' = PendingHandlers
            /\ \E u \in PendingAttempts : PendingAttempts' = PendingAttempts \ {u}
  PROVE  OversellInv'
<1>1. IsFiniteSet(ActiveSeats) /\ Cardinality(ActiveSeats) \in Nat
  BY AccountsFinite, FS_CardinalityType
<1>2. /\ IsFiniteSet(ActiveSeats \cup {a})
      /\ Cardinality(ActiveSeats \cup {a}) <= Cardinality(ActiveSeats) + 1
      /\ Cardinality(ActiveSeats \cup {a}) \in Nat
  BY <1>1, AddOne
<1>3. /\ Cardinality(ActiveSeats') <= Cardinality(ActiveSeats \cup {a})
      /\ Cardinality(ActiveSeats') \in Nat
  BY <1>2, FS_Subset, FS_CardinalityType
<1>4. /\ Cardinality(PendingHandlers') \in Nat /\ Cardinality(PendingAttempts') \in Nat
      /\ Cardinality(PendingHandlers') + Cardinality(PendingAttempts')
           = Cardinality(PendingHandlers) + Cardinality(PendingAttempts) - 1
  <2>1. /\ IsFiniteSet(PendingHandlers) /\ Cardinality(PendingHandlers) \in Nat
        /\ IsFiniteSet(PendingAttempts) /\ Cardinality(PendingAttempts) \in Nat
    BY PendingBound
  <2>2. \A h \in PendingHandlers :
          /\ Cardinality(PendingHandlers \ {h}) \in Nat
          /\ Cardinality(PendingHandlers \ {h}) = Cardinality(PendingHandlers) - 1
    BY <2>1, RemoveOne
  <2>3. \A u \in PendingAttempts :
          /\ Cardinality(PendingAttempts \ {u}) \in Nat
          /\ Cardinality(PendingAttempts \ {u}) = Cardinality(PendingAttempts) - 1
    BY <2>1, RemoveOne
  <2> QED
    BY <2>1, <2>2, <2>3
<1>5. MaxPending' = MaxPending /\ MaxPending \in Nat
  BY PendingBound DEF MaxPending
<1>6. /\ Cardinality(PendingHandlers) \in Nat /\ Cardinality(PendingAttempts) \in Nat
  BY PendingBound
<1> QED
  BY <1>1, <1>2, <1>3, <1>4, <1>5, <1>6
  DEF OversellInv, subVars, TypeInv, TypeOK

(* Ensuring a subscription keeps the bound on its members.                 *)
LEMMA OversellEnsure ==
  ASSUME TypeInv, TypeInv', RedemptionInv, RedemptionInv', OversellInv,
         NEW n \in Nat, EnsureActiveOrgSubscription(n), UNCHANGED member,
         PendingHandlers' \subseteq PendingHandlers,
         PendingAttempts' \subseteq PendingAttempts
  PROVE  OversellInv'
<1>1. CASE UNCHANGED subVars
  BY <1>1, OversellCalm DEF ActiveSeats
<1>2. ASSUME NEW s, NEW p, NEW m \in Nat, WriteSub(s, p, m)
      PROVE  OversellInv'
  BY <1>2, OversellWrite
<1>3. plan \in PlanLimits /\ seatLimit \in Nat /\ Raised(n) \in Nat
  BY DEF TypeInv, TypeOK, Raised
<1>4. ASSUME NEW p \in PlanLimits,
             WriteSub("active", p, IF p < n THEN n ELSE p)
      PROVE  OversellInv'
  <2>1. (IF p < n THEN n ELSE p) \in Nat
    BY SeatConstants
  <2> QED
    BY <1>2, <1>4, <2>1
<1> QED
  BY <1>1, <1>2, <1>3, <1>4 DEF EnsureActiveOrgSubscription

(* The steps of a key-account request keep the oversell bounded.           *)
LEMMA OversellHandler ==
  ASSUME TypeInv, TypeInv', RedemptionInv, RedemptionInv', OversellInv,
         NEW h \in Handlers, HandlerNext(h)
  PROVE  OversellInv'
<1> USE DEF TypeInv, TypeOK
<1>1. ASSUME NEW n \in 1 .. MaxBatch, GenerateStart(h, n) PROVE OversellInv'
  <2>1. PendingHandlers' \subseteq PendingHandlers /\ PendingAttempts' = PendingAttempts
    BY <1>1 DEF GenerateStart, PendingHandlers, PendingAttempts
  <2> QED
    BY <1>1, <2>1, OversellEnsure DEF GenerateStart, memberVars
<1>2. ASSUME UNCHANGED subVars, UNCHANGED member, UNCHANGED redeem,
             PendingHandlers' \subseteq PendingHandlers
      PROVE  OversellInv'
  BY <1>2, OversellCalm DEF ActiveSeats, PendingAttempts
<1>3. ASSUME NEW k \in Keys, GenerateKey(h, k) PROVE OversellInv'
  BY <1>2, <1>3 DEF GenerateKey, PendingHandlers, memberVars
<1>4. ASSUME NEW k \in Keys, KeyLoginStart(h, k) PROVE OversellInv'
  BY <1>2, <1>4 DEF KeyLoginStart, PendingHandlers, memberVars
<1>5. ASSUME NEW p \in HandlerPhases, Goto(h, p), p # "insert"
      PROVE  PendingHandlers' = PendingHandlers \ {h}
  BY <1>5, GotoFrame DEF PendingHandlers
<1>6. CASE CreateKeyUser(h)
  BY <1>2, <1>5, <1>6 DEF CreateKeyUser, HandlerPhases, memberVars
<1>7. CASE CreateKeyProfile(h)
  BY <1>2, <1>5, <1>7 DEF CreateKeyProfile, HandlerPhases, memberVars
<1>8. CASE CheckKeySeat(h)
  <2>1. handler[h].key \in Accounts /\ UNCHANGED subVars /\ UNCHANGED member
        /\ UNCHANGED redeem
    BY <1>8 DEF CheckKeySeat, RequestsOK, Accounts, memberVars
  <2>2. CASE SeatTriggerAllows(handler[h].key)
    BY <2>1, <2>2, OversellCount
  <2>3. CASE Goto(h, "mark")
    BY <1>2, <1>5, <2>1, <2>3 DEF HandlerPhases
  <2> QED
    BY <1>8, <2>2, <2>3 DEF CheckKeySeat
<1>9. CASE CreateKeyMember(h)
  <2>1. /\ handler[h].key \in Accounts /\ h \in PendingHandlers
        /\ UNCHANGED subVars /\ PendingAttempts' = PendingAttempts
    BY <1>9 DEF CreateKeyMember, RequestsOK, Accounts, PendingHandlers,
                PendingAttempts
  <2>2. PendingHandlers' = PendingHandlers \ {h}
    BY <1>5, <1>9 DEF CreateKeyMember, HandlerPhases
  <2>3. ActiveSeats' \subseteq ActiveSeats \cup {handler[h].key}
    BY <1>9, <2>1 DEF CreateKeyMember, ActiveSeats
  <2> QED
    BY <2>1, <2>2, <2>3, OversellAdmit
<1>10. CASE MarkKeyActivated(h)
  <2>1. \A g \in Handlers : g # h => handler'[g] = handler[g]
    BY <1>10 DEF MarkKeyActivated
  <2>2. handler'[h].phase # "insert"
    BY <1>10 DEF MarkKeyActivated, NoRequest
  <2> QED
    BY <1>2, <1>10, <2>1, <2>2
    DEF MarkKeyActivated, PendingHandlers, memberVars
<1>11. CASE HandlerFail(h)
  BY <1>2, <1>11 DEF HandlerFail, NoRequest, PendingHandlers, memberVars
<1> QED
  BY <1>1, <1>3, <1>4, <1>6, <1>7, <1>8, <1>9, <1>10, <1>11 DEF HandlerNext

(* So do the steps of a redemption.                                        *)
LEMMA OversellRedeem ==
  ASSUME TypeInv, TypeInv', RedemptionInv, RedemptionInv', OversellInv,
         NEW r \in Attempts, RedeemNext(r)
  PROVE  OversellInv'
<1> USE DEF TypeInv, TypeOK
<1>1. ASSUME NEW u \in Users, NEW k \in Keys, RedeemStart(r, u, k)
      PROVE  OversellInv'
  <2>1. Cardinality({j \in Keys : keyStatus[j] # "none"}) \in Nat
    BY AccountsFinite
  <2>2. /\ PendingAttempts' \subseteq PendingAttempts
        /\ PendingHandlers' = PendingHandlers
    BY <1>1 DEF RedeemStart, PendingHandlers, PendingAttempts
  <2> QED
    BY <1>1, <2>1, <2>2, OversellEnsure DEF RedeemStart, memberVars
<1>2. ASSUME UNCHANGED subVars, ActiveSeats' \subseteq ActiveSeats,
             UNCHANGED handler, PendingAttempts' \subseteq PendingAttempts
      PROVE  OversellInv'
  BY <1>2, OversellCalm DEF PendingHandlers
<1>3. ASSUME NEW p \in RedeemPhases, Step(r, p), p # "inserted"
      PROVE  PendingAttempts' \subseteq PendingAttempts
  BY <1>3, StepFrame DEF PendingAttempts
<1>4. ASSUME End(r) PROVE PendingAttempts' \subseteq PendingAttempts
  BY <1>4, EndFrame DEF PendingAttempts
<1>5. CASE RedeemSignUp(r) \/ RedeemLockKey(r)
  BY <1>2, <1>3, <1>5
  DEF RedeemSignUp, RedeemLockKey, RedeemPhases, ActiveSeats, memberVars
<1>6. CASE RedeemRefused(r)
  BY <1>2, <1>4, <1>6 DEF RedeemRefused, RefusalKeeps, ActiveSeats, memberVars
<1>7. CASE RedeemLockOrg(r)
  <2>1. PendingAttempts' \subseteq PendingAttempts
    BY <1>7, LockFrame DEF PendingAttempts
  <2> QED
    BY <1>2, <1>7, <2>1 DEF RedeemLockOrg, ActiveSeats, memberVars
<1>8. CASE RedeemInsert(r)
  <2>1. redeem[r].user \in Accounts
    BY <1>8 DEF RedeemInsert, RequestsOK, Accounts
  <2> QED
    BY <1>8, <2>1, OversellCount DEF RedeemInsert, Insertable, memberVars
<1>9. CASE RedeemCommit(r) \/ RedeemUnheard(r)
  <2>0. /\ Committed(r) /\ redeem'[r].phase \in {"idle", "failed"}
        /\ \A q \in Attempts : q # r => redeem'[q] = redeem[q]
    BY <1>9, StepFrame, EndFrame DEF RedeemCommit, RedeemUnheard, RedeemPhases
  <2>u. PICK u \in Users : u = redeem[r].user
    BY <2>0 DEF Committed, RequestsOK
  <2>1. /\ u \in Accounts /\ r \in PendingAttempts
        /\ UNCHANGED subVars /\ PendingHandlers' = PendingHandlers
    BY <2>0 DEF Committed, Accounts, PendingHandlers, PendingAttempts
  <2>2. PendingAttempts' = PendingAttempts \ {r}
    BY <2>0 DEF PendingAttempts
  <2>3. ActiveSeats' \subseteq ActiveSeats \cup {u}
    BY <2>0, <2>u, <2>1 DEF Committed, ActiveSeats
  <2> QED
    BY <2>1, <2>2, <2>3, OversellAdmit
<1>10. CASE RollBack(r)
  BY <1>2, <1>3, <1>10 DEF RollBack, RedeemPhases, ActiveSeats, memberVars
<1>11. CASE RedeemFail(r)
  BY <1>2, <1>4, <1>10, <1>11 DEF RedeemFail, ActiveSeats, memberVars
<1>12. CASE RedeemUndo(r)
  <2>1. ActiveSeats' \subseteq ActiveSeats
    BY <1>12 DEF RedeemUndo, DeleteUser, ActiveSeats, memberVars
  <2> QED
    BY <1>2, <1>4, <1>12, <2>1 DEF RedeemUndo
<1> QED
  BY <1>1, <1>5, <1>6, <1>7, <1>8, <1>9, <1>10, <1>11, <1>12
  DEF RedeemNext, RedeemStep, RedeemAbort

(* So do revocations, the changes of members and those of the              *)
(* subscription.                                                           *)
LEMMA OversellRest ==
  ASSUME TypeInv, TypeInv', RedemptionInv, RedemptionInv', OversellInv,
         \/ \E k \in Keys : RevokeNext(k)
         \/ MemberNext \/ SubscriptionNext \/ UNCHANGED vars
  PROVE  OversellInv'
<1> USE DEF TypeInv, TypeOK
<1>1. ASSUME UNCHANGED subVars, ActiveSeats' \subseteq ActiveSeats,
             UNCHANGED handler, UNCHANGED redeem
      PROVE  OversellInv'
  BY <1>1, OversellCalm DEF PendingHandlers, PendingAttempts
<1>2. ASSUME NEW k \in Keys, RevokeNext(k) PROVE OversellInv'
  BY <1>1, <1>2 DEF RevokeNext, RevokeRead, RevokeWrite, ActiveSeats, memberVars
<1>3. CASE MemberNext
  <2>1. ASSUME NEW u \in Users,
               InviteCheck(u) \/ InviteCount(u) \/ InviteFail(u)
        PROVE  OversellInv'
    BY <1>1, <2>1 DEF InviteCheck, InviteCount, InviteFail, ActiveSeats,
                      memberVars
  <2>2. ASSUME NEW u \in Users, InviteInsert(u) PROVE OversellInv'
    BY <1>1, <2>2 DEF InviteInsert, ActiveSeats
  <2>3. ASSUME NEW a \in Accounts, DisableMember(a) PROVE OversellInv'
    BY <1>1, <2>3 DEF DisableMember, ActiveSeats
  <2>4. ASSUME NEW actor \in Accounts, NEW a \in Accounts,
               NEW r \in {"staff", "owner"}, ChangeRole(actor, a, r)
        PROVE  OversellInv'
    BY <1>1, <2>4 DEF ChangeRole, ActiveSeats
  <2> QED
    BY <1>3, <2>1, <2>2, <2>3, <2>4 DEF MemberNext
<1>4. CASE SubscriptionNext
  <2>1. /\ \E s, p : \E n \in Nat : WriteSub(s, p, n)
        /\ UNCHANGED member
    BY <1>4 DEF SubscriptionNext, AssignPlan, SetSeatLimit,
                ChangeSubscriptionStatus, CancelSubscription, ByAdmin,
                memberVars
  <2> QED
    BY <2>1, OversellWrite
<1>5. CASE UNCHANGED vars
  BY <1>1, <1>5 DEF vars, ActiveSeats, memberVars
<1> QED
  BY <1>2, <1>3, <1>4, <1>5

(* Members exceed the limit of a current subscription by no more than the  *)
(* inserts that can have been counted before each other.                   *)
THEOREM OversellIsBounded == Spec => []OversellBounded
<1>1. Init => OversellInv
  BY DEF Init, OversellInv, CurrentStatuses
<1>2. /\ TypeInv /\ TypeInv' /\ RedemptionInv /\ RedemptionInv' /\ OversellInv
      /\ [Next]_vars
      => OversellInv'
  BY OversellHandler, OversellRedeem, OversellRest DEF Next
<1>3. TypeInv /\ RedemptionInv /\ OversellInv => OversellBounded
  <2>1. TypeInv => Cardinality(ActiveSeats) \in Nat /\ seatLimit \in Nat
    BY AccountsFinite DEF TypeInv, TypeOK, ActiveSeats
  <2> QED
    BY <2>1, PendingBound DEF OversellInv, OversellBounded
<1> QED
  BY <1>1, <1>2, <1>3, RequestTyping, RedemptionSafety, PTL DEF Spec

-----------------------------------------------------------------------------
(* Provisioning: a generation hands a batch out after its last key, so it  *)
(* must know of every key of the batch that it is still complete, and of   *)
(* the one in progress what the phases before have done.                   *)

Complete(k) ==
  /\ k \in hasAuth /\ profileKey[k] = k /\ member[k] # "none"
  /\ keyStatus[k] \in {"activated", "revoked"}

Provisioned(r) ==
  /\ \A k \in r.batch : Complete(k)
  /\ r.phase \in {"profile", "check", "insert", "mark"} => r.key \in hasAuth
  /\ r.phase \in {"check", "insert", "mark"} => profileKey[r.key] = r.key
  /\ r.phase = "mark" => member[r.key] # "none"

ProvisionInv ==
  \A h \in Handlers :
    handler[h].op = "generate" /\ handler[h].phase # "idle"
      => Provisioned(handler[h])

(* What the account of a key has been given is never taken away: clean-ups *)
(* delete the accounts of people.                                          *)
KeyKept(k) ==
  /\ k \in hasAuth => k \in hasAuth'
  /\ profileKey[k] = k => profileKey'[k] = k
  /\ member[k] # "none" => member'[k] # "none"
  /\ keyStatus[k] \in {"activated", "revoked"}
       => keyStatus'[k] \in {"activated", "revoked"}
  /\ keyStatus[k] # "none" => keyStatus'[k] # "none"
  /\ k \in issued => k \in issued'

(* No step of the system takes anything away from a key's account.         *)
LEMMA KeysKept ==
  ASSUME TypeInv, [Next]_vars
  PROVE  \A k \in Keys : KeyKept(k)
<1> USE SeatConstants DEF KeyKept, TypeInv, TypeOK
<1> DEFINE Kept == \A k \in Keys : KeyKept(k)
<1>1. CASE Outside
  BY <1>1, OutsideKeeps DEF OutsideFrame, Accounts
<1>2. ASSUME NEW u \in Users, DeleteUser(u) PROVE Kept
  BY <1>2 DEF DeleteUser, Accounts
<1>3. ASSUME NEW r \in Attempts, Committed(r) PROVE Kept
  BY <1>3 DEF Committed, KeyAfterRedemption, RequestsOK, Accounts
<1>4. CASE /\ UNCHANGED <<member, profileKey, keyStatus, issued>>
           /\ hasAuth \subseteq hasAuth'
  BY <1>4
<1>5. ASSUME NEW r \in Attempts, RedeemNext(r) PROVE Kept
  BY <1>2, <1>3, <1>4, <1>5
  DEF RedeemNext, RedeemStep, RedeemStart, RedeemSignUp, RedeemRefused,
      RefusalKeeps, RedeemLockKey, RedeemLockOrg, RedeemInsert, RedeemCommit,
      RedeemUnheard, RedeemAbort, RollBack, RedeemUndo, RedeemFail, RequestsOK,
      memberVars, accountVars, keyVars
<1> QED
  BY <1>1, <1>4, <1>5 DEF Next, Outside, vars, memberVars, accountVars, keyVars

(* A generation that does not move is owed nothing new.                    *)
LEMMA ProvisionKept ==
  ASSUME TypeInv, ProvisionInv, \A k \in Keys : KeyKept(k), NEW g \in Handlers,
         handler'[g] = handler[g],
         handler[g].op = "generate", handler[g].phase # "idle"
  PROVE  Provisioned(handler[g])'
<1>1. Provisioned(handler[g])
  BY DEF ProvisionInv
<1>2. /\ handler[g].batch \subseteq Keys
      /\ handler[g].phase \notin {"idle", "create"} => handler[g].key \in Keys
  BY DEF TypeInv, TypeOK, RequestsOK, Requests
<1>3. \A k \in Keys : Complete(k) => Complete(k)'
  BY DEF KeyKept, Complete
<1> QED
  BY <1>1, <1>2, <1>3 DEF Provisioned, KeyKept

(* A step of request h leaves the other generations as they are.           *)
LEMMA ProvisionOther ==
  ASSUME TypeInv, ProvisionInv, \A k \in Keys : KeyKept(k), NEW h \in Handlers,
         \A g \in Handlers : g # h => handler'[g] = handler[g],
         handler'[h].op = "generate" /\ handler'[h].phase # "idle"
           => Provisioned(handler[h])'
  PROVE  ProvisionInv'
<1>1. ASSUME NEW g \in Handlers, g # h,
             handler'[g].op = "generate", handler'[g].phase # "idle"
      PROVE  Provisioned(handler[g])'
  BY <1>1, ProvisionKept
<1> QED
  BY <1>1 DEF ProvisionInv

(* Each statement of a generation does its part for the key in progress.   *)
LEMMA ProvisionHandler ==
  ASSUME TypeInv, TypeInv', ProvisionInv, \A k \in Keys : KeyKept(k),
         NEW h \in Handlers, HandlerNext(h)
  PROVE  ProvisionInv'
<1> USE DEF TypeInv, TypeOK
<1> DEFINE k == handler[h].key
           Owed == handler'[h].op = "generate" /\ handler'[h].phase # "idle"
                     => Provisioned(handler[h])'
<1>1. /\ handler[h] \in Requests /\ handler[h].batch \subseteq Keys
      /\ handler[h].phase \notin {"idle", "create"} => k \in Keys
  BY DEF RequestsOK, Requests
<1>2. \A j \in Keys : Complete(j) => Complete(j)'
  BY DEF KeyKept, Complete
<1>3. handler[h].op = "generate" /\ handler[h].phase # "idle"
        => Provisioned(handler[h])
  BY DEF ProvisionInv
<1>4. ASSUME NEW p \in HandlerPhases, Goto(h, p)
      PROVE  /\ handler'[h].phase = p /\ handler'[h].key = k
             /\ handler'[h].op = handler[h].op
             /\ handler'[h].batch = handler[h].batch
             /\ \A g \in Handlers : g # h => handler'[g] = handler[g]
  <2>1. handler' = [handler EXCEPT ![h] = [handler[h] EXCEPT !.phase = p]]
    BY <1>4 DEF Goto
  <2> QED
    BY <1>1, <2>1, <1>4, GotoFrame DEF Requests
<1>5. ASSUME NEW n \in 1 .. MaxBatch, GenerateStart(h, n) PROVE ProvisionInv'
  BY <1>5, ProvisionOther DEF GenerateStart, Provisioned
<1>6. ASSUME NEW j \in Keys, GenerateKey(h, j) PROVE ProvisionInv'
  <2>1. Owed
    BY <1>1, <1>2, <1>3, <1>6 DEF GenerateKey, Provisioned
  <2> QED
    BY <1>6, <2>1, ProvisionOther DEF GenerateKey
<1>7. ASSUME NEW j \in Keys, KeyLoginStart(h, j) PROVE ProvisionInv'
  BY <1>7, ProvisionOther DEF KeyLoginStart
<1>8. CASE CreateKeyUser(h)
  <2>1. CASE k \notin hasAuth /\ Goto(h, "profile")
    <3>1. "profile" \in HandlerPhases
      BY DEF HandlerPhases
    <3>2. k \in hasAuth'
      BY <1>8, <2>1 DEF CreateKeyUser
    <3>3. Owed
      BY <1>1, <1>2, <1>3, <1>4, <1>8, <2>1, <3>1, <3>2
      DEF CreateKeyUser, Provisioned
    <3> QED
      BY <1>4, <2>1, <3>1, <3>3, ProvisionOther
  <2>2. CASE handler[h].op = "login" /\ Goto(h, "mark")
    <3>1. "mark" \in HandlerPhases
      BY DEF HandlerPhases
    <3> QED
      BY <1>4, <2>2, <3>1, ProvisionOther
  <2> QED
    BY <1>8, <2>1, <2>2 DEF CreateKeyUser
<1>9. CASE CreateKeyProfile(h)
  <2>1. "check" \in HandlerPhases /\ Goto(h, "check") /\ k \in Keys
    BY <1>1, <1>9 DEF HandlerPhases, CreateKeyProfile
  <2>2. handler[h].op = "generate" => profileKey'[k] = k /\ hasAuth' = hasAuth
    BY <1>9, <2>1 DEF CreateKeyProfile, IgnoresErrors, Accounts
  <2>3. Owed
    BY <1>1, <1>2, <1>3, <1>4, <1>9, <2>1, <2>2
    DEF CreateKeyProfile, Provisioned
  <2> QED
    BY <1>4, <2>1, <2>3, ProvisionOther
<1>10. CASE CheckKeySeat(h)
  <2>1. /\ "insert" \in HandlerPhases /\ "mark" \in HandlerPhases
        /\ handler[h].op = "generate" => Goto(h, "insert")
        /\ Goto(h, "insert") \/ Goto(h, "mark")
    BY <1>10 DEF HandlerPhases, CheckKeySeat, IgnoresErrors
  <2>2. hasAuth' = hasAuth /\ profileKey' = profileKey
    BY <1>10 DEF CheckKeySeat, accountVars
  <2>3. Owed
    BY <1>1, <1>2, <1>3, <1>4, <1>10, <2>1, <2>2
    DEF CheckKeySeat, Provisioned
  <2> QED
    BY <1>4, <2>1, <2>3, ProvisionOther
<1>11. CASE CreateKeyMember(h)
  <2>1. "mark" \in HandlerPhases /\ Goto(h, "mark") /\ k \in Keys
    BY <1>1, <1>11 DEF HandlerPhases, CreateKeyMember
  <2>2. /\ member'[k] # "none"
        /\ hasAuth' = hasAuth /\ profileKey' = profileKey
    BY <1>11, <2>1 DEF CreateKeyMember, Accounts, accountVars
  <2>3. Owed
    BY <1>1, <1>2, <1>3, <1>4, <1>11, <2>1, <2>2
    DEF CreateKeyMember, Provisioned
  <2> QED
    BY <1>4, <2>1, <2>3, ProvisionOther
<1>12. CASE MarkKeyActivated(h)
  <2>1. /\ handler[h].phase = "mark"
        /\ \A g \in Handlers : g # h => handler'[g] = handler[g]
    BY <1>12 DEF MarkKeyActivated
  <2>k. PICK j \in Keys : j = handler[h].key
    BY <1>1, <2>1
  <2>2. handler[h].op = "generate" => Complete(j)'
    <3>1. keyStatus'[j] = "activated"
      BY <1>12, <2>k DEF MarkKeyActivated
    <3> QED
      BY <1>3, <1>12, <2>1, <2>k, <3>1
      DEF MarkKeyActivated, Complete, Provisioned, memberVars, accountVars
  <2>3. handler'[h].op = "generate" /\ handler'[h].phase # "idle"
          => /\ handler'[h].batch = handler[h].batch \cup {j}
             /\ handler'[h].phase = "create" /\ handler[h].op = "generate"
    BY <1>12, <2>k DEF MarkKeyActivated, NoRequest
  <2>4. Owed
    BY <1>1, <1>2, <1>3, <2>1, <2>2, <2>3 DEF Provisioned
  <2> QED
    BY <2>1, <2>4, ProvisionOther
<1>13. CASE HandlerFail(h)
  BY <1>13, ProvisionOther DEF HandlerFail, NoRequest
<1> QED
  BY <1>5, <1>6, <1>7, <1>8, <1>9, <1>10, <1>11, <1>12, <1>13 DEF HandlerNext

(* The keys a generation has finished are complete, at every moment.       *)
THEOREM ProvisionSafety == Spec => []ProvisionInv
<1>1. Init => ProvisionInv
  BY DEF Init, ProvisionInv, NoRequest
<1>2. TypeInv /\ TypeInv' /\ ProvisionInv /\ [Next]_vars => ProvisionInv'
  <2> SUFFICES ASSUME TypeInv, TypeInv', ProvisionInv, [Next]_vars
               PROVE  ProvisionInv'
    OBVIOUS
  <2>1. \A k \in Keys : KeyKept(k)
    BY KeysKept
  <2>2. CASE \E h \in Handlers : HandlerNext(h)
    BY <2>1, <2>2, ProvisionHandler
  <2>3. CASE UNCHANGED handler
    BY <2>1, <2>3, ProvisionKept DEF ProvisionInv
  <2>4. UNCHANGED handler \/ \E h \in Handlers : HandlerNext(h)
    BY DEF Next, RedeemNext, RedeemStep, RedeemStart, RedeemSignUp,
           RedeemRefused, RedeemLockKey, RedeemLockOrg, RedeemInsert,
           RedeemCommit, RedeemUnheard, Committed, RedeemAbort, RedeemUndo,
           RollBack, RedeemFail, RevokeNext, RevokeRead, RevokeWrite,
           MemberNext, InviteCheck, InviteCount, InviteInsert, InviteFail,
           DisableMember, ChangeRole, SubscriptionNext, AssignPlan,
           SetSeatLimit, ChangeSubscriptionStatus, CancelSubscription,
           ByAdmin, vars
  <2> QED
    BY <2>2, <2>3, <2>4
<1> QED
  BY <1>1, <1>2, RequestTyping, PTL DEF Spec

(* What a step hands out is complete after it.                             *)
LEMMA IssuedComplete ==
  ASSUME TypeInv, ProvisionInv, [Next]_vars
  PROVE  \A k \in issued' \ issued : Complete(k)'
<1> SUFFICES ASSUME NEW k \in issued' \ issued PROVE Complete(k)'
  OBVIOUS
<1>1. \A j \in Keys : Complete(j) => Complete(j)'
  BY KeysKept DEF KeyKept, Complete
<1>2. PICK h \in Handlers : MarkKeyActivated(h) /\ handler[h].op = "generate"
  BY DEF Next, RedeemNext, RedeemStep, RedeemStart, RedeemSignUp,
         RedeemRefused, RedeemLockKey, RedeemLockOrg, RedeemInsert,
         RedeemCommit, RedeemUnheard, Committed, RedeemAbort, RedeemUndo,
         RollBack, DeleteUser, RedeemFail, HandlerNext, GenerateStart, GenerateKey,
         KeyLoginStart, CreateKeyUser, CreateKeyProfile, CheckKeySeat,
         CreateKeyMember, MarkKeyActivated, HandlerFail, RevokeNext,
         RevokeRead, RevokeWrite, MemberNext, InviteCheck, InviteCount,
         InviteInsert, InviteFail, DisableMember, ChangeRole,
         SubscriptionNext, AssignPlan, SetSeatLimit,
         ChangeSubscriptionStatus, CancelSubscription, ByAdmin, keyVars, vars
<1>3. /\ handler[h].batch \subseteq Keys /\ handler[h].key \in Keys
      /\ Provisioned(handler[h]) /\ handler[h].phase = "mark"
      /\ k \in handler[h].batch \cup {handler[h].key}
  BY <1>2 DEF MarkKeyActivated, IssuedNow, ProvisionInv, TypeInv, TypeOK,
              RequestsOK, Requests
<1> QED
  BY <1>1, <1>2, <1>3
  DEF MarkKeyActivated, Provisioned, Complete, memberVars, accountVars,
      TypeInv, TypeOK

(* A key whose raw value is handed out by a generation is complete.        *)
THEOREM IssuedAreProvisioned == Spec => IssuedKeysProvisioned
<1>1. TypeInv /\ ProvisionInv /\ [Next]_vars
        => [\A k \in issued' \ issued :
              /\ k \in hasAuth' /\ profileKey'[k] = k /\ member'[k] # "none"
              /\ keyStatus'[k] \in {"activated", "revoked"}]_vars
  BY IssuedComplete DEF Complete
<1> QED
  BY <1>1, RequestTyping, ProvisionSafety, PTL DEF Spec, IssuedKeysProvisioned

-----------------------------------------------------------------------------
(* The refinement: SeatLicensing implements KeyAdmission.  Besides what is *)
(* known of redemptions and of batches, a step maps to the abstract one    *)
(* because owners are elected with their link, a redemption works on a key *)
(* that was handed out, and no request works on a key that does not exist. *)

ElectedLinked ==
  \A a \in Accounts : IsElected(a) => a \in Users /\ profileKey[a] # None

RedeemsIssued ==
  \A r \in Attempts : redeem[r].phase # "idle" => redeem[r].key \in issued

KeysMade ==
  /\ \A k \in revoking : keyStatus[k] # "none"
  /\ \A h \in Handlers :
       handler[h].phase \notin {"idle", "create"}
         => keyStatus[handler[h].key] # "none"

AdmissionInv == ElectedLinked /\ RedeemsIssued /\ KeysMade

(* An elected owner keeps the link while elected.                          *)
LEMMA ElectedStep ==
  ASSUME TypeInv, TypeInv', RedemptionInv, ElectedLinked, [Next]_vars
  PROVE  ElectedLinked'
<1> USE SeatConstants DEF TypeInv, TypeOK, ElectedLinked, IsElected
<1>1. CASE Outside
  <2>1. \A a \in Accounts : IsElected(a)' => IsElected(a)
    BY <1>1, OutsideKeeps DEF OutsideFrame
  <2>2. \A u \in Users : profileKey'[u] = profileKey[u]
    BY <1>1, OutsideKeeps DEF OutsideFrame
  <2> QED
    BY <2>1, <2>2
<1>2. ASSUME NEW u \in Users, DeleteUser(u) PROVE ElectedLinked'
  BY <1>2 DEF DeleteUser, Accounts
<1>3. ASSUME NEW r \in Attempts, Committed(r) PROVE ElectedLinked'
  BY <1>3 DEF Committed, RequestsOK, Accounts
<1>4. CASE UNCHANGED <<memberVars, profileKey>>
  BY <1>4 DEF memberVars
<1>5. ASSUME NEW r \in Attempts, RedeemNext(r) PROVE ElectedLinked'
  BY <1>2, <1>3, <1>4, <1>5
  DEF RedeemNext, RedeemStep, RedeemStart, RedeemSignUp, RedeemRefused,
      RefusalKeeps, RedeemLockKey, RedeemLockOrg, RedeemInsert, RedeemCommit,
      RedeemUnheard, RedeemAbort, RollBack, RedeemUndo, RedeemFail, RequestsOK,
      accountVars
<1> QED
  BY <1>1, <1>4, <1>5 DEF Next, Outside, vars, accountVars

(* A redemption keeps the key it started with, which was handed out.       *)
LEMMA RedeemsIssuedStep ==
  ASSUME TypeInv, TypeInv', RedeemsIssued, [Next]_vars
  PROVE  RedeemsIssued'
<1> USE SeatConstants DEF TypeInv, TypeOK, RedeemsIssued
<1>0. issued \subseteq issued'
  BY KeysKept DEF KeyKept
<1>1. CASE UNCHANGED redeem
  BY <1>0, <1>1
<1>2. ASSUME NEW r \in Attempts, NEW u \in Users, NEW k \in Keys,
             RedeemStart(r, u, k)
      PROVE  RedeemsIssued'
  BY <1>0, <1>2 DEF RedeemStart
<1>3. ASSUME NEW r \in Attempts, NEW p \in RedeemPhases, Step(r, p),
             redeem[r].phase # "idle"
      PROVE  RedeemsIssued'
  BY <1>0, <1>3, StepFrame
<1>4. ASSUME NEW r \in Attempts, End(r) PROVE RedeemsIssued'
  BY <1>0, <1>4, EndFrame
<1>5. ASSUME NEW r \in Attempts, RedeemLockOrg(r) PROVE RedeemsIssued'
  <2>1. redeem[r].phase # "idle"
    BY <1>5 DEF RedeemLockOrg
  <2> QED
    BY <1>0, <1>5, <2>1, LockFrame
<1>6. ASSUME NEW r \in Attempts, RedeemNext(r) PROVE RedeemsIssued'
  <2>1. /\ "signedUp" \in RedeemPhases /\ "keyLocked" \in RedeemPhases
        /\ "inserted" \in RedeemPhases /\ "failed" \in RedeemPhases
    BY DEF RedeemPhases
  <2> QED
    BY <1>2, <1>3, <1>4, <1>5, <1>6, <2>1
    DEF RedeemNext, RedeemStep, RedeemSignUp, RedeemRefused, RedeemLockKey,
        RedeemInsert, RedeemCommit, RedeemUnheard, Committed, RedeemAbort,
        RefusedInTransaction, RedeemUndo, RollBack, RedeemFail
<1>7. CASE Outside
  BY <1>1, <1>7, OutsideKeeps DEF OutsideFrame
<1> QED
  BY <1>1, <1>6, <1>7 DEF Next, Outside, vars

(* Requests work on keys that exist.                                       *)
LEMMA KeysMadeStep ==
  ASSUME TypeInv, TypeInv', KeysMade, [Next]_vars
  PROVE  KeysMade'
<1> USE DEF TypeInv, TypeOK, KeysMade
<1>0. \A k \in Keys : keyStatus[k] # "none" => keyStatus'[k] # "none"
  BY KeysKept DEF KeyKept
<1>1. CASE UNCHANGED <<revoking, handler>>
  BY <1>0, <1>1 DEF RequestsOK
<1>2. ASSUME NEW k \in Keys, RevokeNext(k) PROVE KeysMade'
  BY <1>0, <1>2 DEF RevokeNext, RevokeRead, RevokeWrite, RequestsOK
<1>3. ASSUME NEW h \in Handlers, UNCHANGED revoking,
             \A g \in Handlers : g # h => handler'[g] = handler[g],
             handler'[h].phase \notin {"idle", "create"}
               => /\ handler'[h].key \in Keys
                  /\ keyStatus'[handler'[h].key] # "none"
      PROVE  KeysMade'
  BY <1>0, <1>3 DEF RequestsOK
<1>4. ASSUME NEW h \in Handlers, NEW p \in HandlerPhases, Goto(h, p),
             handler[h].phase \notin {"idle", "create"}, UNCHANGED revoking
      PROVE  KeysMade'
  <2>1. handler[h].key \in Keys /\ keyStatus'[handler[h].key] # "none"
    BY <1>0, <1>4 DEF RequestsOK
  <2> QED
    BY <1>3, <1>4, <2>1, GotoFrame
<1>5. ASSUME NEW h \in Handlers, NEW n \in 1 .. MaxBatch, GenerateStart(h, n)
      PROVE  KeysMade'
  BY <1>3, <1>5 DEF GenerateStart
<1>6. ASSUME NEW h \in Handlers, NEW k \in Keys, GenerateKey(h, k)
      PROVE  KeysMade'
  BY <1>3, <1>6 DEF GenerateKey
<1>7. ASSUME NEW h \in Handlers, NEW k \in Keys, KeyLoginStart(h, k)
      PROVE  KeysMade'
  BY <1>3, <1>7 DEF KeyLoginStart, keyVars
<1>8. ASSUME NEW h \in Handlers, MarkKeyActivated(h) \/ HandlerFail(h)
      PROVE  KeysMade'
  <2>1. /\ handler'[h].phase \in {"idle", "create"}
        /\ \A g \in Handlers : g # h => handler'[g] = handler[g]
    BY <1>8 DEF MarkKeyActivated, HandlerFail, NoRequest
  <2> QED
    BY <1>3, <1>8, <2>1 DEF MarkKeyActivated, HandlerFail
<1>9. ASSUME NEW h \in Handlers,
             \/ CreateKeyUser(h) \/ CreateKeyProfile(h)
             \/ CheckKeySeat(h) \/ CreateKeyMember(h)
      PROVE  KeysMade'
  <2>1. /\ "profile" \in HandlerPhases /\ "check" \in HandlerPhases
        /\ "insert" \in HandlerPhases /\ "mark" \in HandlerPhases
    BY DEF HandlerPhases
  <2>2. /\ handler[h].phase \notin {"idle", "create"} /\ UNCHANGED revoking
        /\ \/ Goto(h, "profile") \/ Goto(h, "check")
           \/ Goto(h, "insert") \/ Goto(h, "mark")
    BY <1>9 DEF CreateKeyUser, CreateKeyProfile, CheckKeySeat, CreateKeyMember
  <2> QED
    BY <1>4, <2>1, <2>2
<1>10. ASSUME NEW h \in Handlers, HandlerNext(h) PROVE KeysMade'
  BY <1>5, <1>6, <1>7, <1>8, <1>9, <1>10 DEF HandlerNext
<1>11. \/ UNCHANGED <<revoking, handler>>
       \/ \E h \in Handlers : HandlerNext(h)
       \/ \E k \in Keys : RevokeNext(k)
  BY DEF Next, RedeemNext, RedeemStep, RedeemStart, RedeemSignUp,
         RedeemRefused, RedeemLockKey, RedeemLockOrg, RedeemInsert,
         RedeemCommit, RedeemUnheard, Committed, RedeemAbort, RedeemUndo,
         RollBack, DeleteUser, RedeemFail, MemberNext, InviteCheck, InviteCount,
         InviteInsert, InviteFail, DisableMember, ChangeRole,
         SubscriptionNext, AssignPlan, SetSeatLimit,
         ChangeSubscriptionStatus, CancelSubscription, ByAdmin, vars
<1> QED
  BY <1>1, <1>2, <1>10, <1>11

(* What the refinement rests on besides the invariants above.              *)
THEOREM AdmissionSafety == Spec => []AdmissionInv
<1>1. Init => AdmissionInv
  BY DEF Init, AdmissionInv, ElectedLinked, RedeemsIssued, KeysMade, IsElected,
         NoRedemption, NoRequest
<1>2. /\ TypeInv /\ TypeInv' /\ RedemptionInv /\ AdmissionInv /\ [Next]_vars
      => AdmissionInv'
  BY ElectedStep, RedeemsIssuedStep, KeysMadeStep DEF AdmissionInv
<1> QED
  BY <1>1, <1>2, RequestTyping, RedemptionSafety, PTL DEF Spec

(* A step that links and elects nobody, seen from the promise.             *)
LEMMA NothingAdmitted ==
  ASSUME TypeOK, \A u \in Users : profileKey'[u] = profileKey[u],
         \A a \in Accounts : IsElected(a)' <=> IsElected(a)
  PROVE  UNCHANGED <<Linked, ElectedOwners>>
<1>1. Linked' = Linked
  BY DEF Linked
<1>2. ElectedOwners' = ElectedOwners
  BY DEF ElectedOwners, IsElected
<1> QED
  BY <1>1, <1>2

Claims(r) == redeem[r].phase \notin {"idle", "validated"}

(* An attempt under way stays under way, or was not and is not: nobody     *)
(* becomes or stops being a claimant.                                      *)
LEMMA ClaimKept ==
  ASSUME NEW r \in Attempts,
         \A q \in Attempts : q # r => redeem'[q] = redeem[q],
         Claims(r)' <=> Claims(r),
         Claims(r) => redeem'[r].user = redeem[r].user
  PROVE  Claimants' = Claimants
<1>1. \A q \in Attempts, u \in Users :
        (redeem'[q].user = u /\ Claims(q)')
          <=> (redeem[q].user = u /\ Claims(q))
  BY DEF Claims
<1> QED
  BY <1>1 DEF Claimants, Claims

(* When an attempt ends, its person is a claimant no more, unless another  *)
(* attempt for that person is under way.                                   *)
LEMMA ClaimEnds ==
  ASSUME NEW r \in Attempts, NEW u \in Users, redeem[r].user = u, Claims(r),
         \A q \in Attempts : q # r => redeem'[q] = redeem[q],
         ~Claims(r)'
  PROVE  u \in Claimants /\ Claimants' \in {Claimants, Claimants \ {u}}
<1>1. u \in Claimants
  BY DEF Claimants, Claims
<1>2. \A v \in Users : v # u => (v \in Claimants' <=> v \in Claimants)
  BY DEF Claimants, Claims
<1> QED
  BY <1>1, <1>2 DEF Claimants

(* The commit is the moment of the admission.                              *)
LEMMA CommitAdmits ==
  ASSUME TypeInv, TypeInv', RedemptionInv, AdmissionInv, NEW r \in Attempts,
         RedeemCommit(r) \/ RedeemUnheard(r)
  PROVE  \E u \in Users, k \in Keys : Admission!Admit(u, k)
<1> USE SeatConstants DEF TypeInv, TypeOK
<1>1. /\ Committed(r) /\ redeem'[r].phase \in {"idle", "failed"}
      /\ redeem'[r].phase = "failed" => redeem'[r].user = redeem[r].user
      /\ \A q \in Attempts : q # r => redeem'[q] = redeem[q]
  BY StepFrame, EndFrame DEF RedeemCommit, RedeemUnheard, RedeemPhases
<1>k. PICK k \in Keys : k = redeem[r].key
  BY <1>1 DEF Committed, RequestsOK
<1>u. PICK u \in Users : u = redeem[r].user
  BY <1>1 DEF Committed, RequestsOK
<1>2. /\ OrgHeld(r) /\ InTransaction(r) /\ redeem[r].phase = "inserted"
      /\ u \in Accounts /\ profileKey[u] = None /\ ~IsElected(u)
  BY <1>1, <1>u DEF Committed, OrgHeld, InTransaction, RedemptionInv,
                    InsertedFresh, AdmissionInv, ElectedLinked, Accounts
<1>3. Linked[u] = None /\ Linked' = [Linked EXCEPT ![u] = k]
  BY <1>1, <1>2, <1>k, <1>u DEF Committed, Linked, Accounts
<1>4. Admission!Usable(k)
  <2>1. k \in issued /\ keyStatus[k] \notin {"none", "revoked"}
    BY <1>2, <1>k DEF RedemptionInv, HeldKeyUsable, AdmissionInv, RedeemsIssued
  <2>2. {v \in Users : Linked[v] = k} = PeopleOf(k)
    BY DEF Linked, PeopleOf
  <2>3. Cardinality(PeopleOf(k)) < MaxUses
    BY <1>2, <1>k DEF RedemptionInv, HeldKeyUsable
  <2>4. Cardinality(PeopleOf(k)) = Admission!Cardinality(PeopleOf(k))
    BY DEF Cardinality, Admission!Cardinality
  <2> QED
    BY <2>1, <2>2, <2>3, <2>4 DEF Admission!Usable
<1>5. /\ keyStatus' = [keyStatus EXCEPT ![k] = "activated"]
      /\ activatedBy' = [activatedBy EXCEPT ![k] = u]
      /\ UNCHANGED issued
  BY <1>1, <1>k, <1>u DEF Committed, KeyAfterRedemption
<1>6. \/ ElectedOwners' = ElectedOwners
      \/ ElectedOwners = {} /\ ElectedOwners' = {u}
  <2>1. /\ \A a \in Accounts : a # u => (IsElected(a)' <=> IsElected(a))
        /\ IsElected(u)' <=> redeem[r].role = "elected"
    BY <1>1, <1>2, <1>u DEF Committed, IsElected
  <2>2. CASE redeem[r].role = "elected"
    <3>1. \A a \in Accounts : ~IsElected(a)
      BY <1>2, <2>2 DEF RedemptionInv, ElectionPending
    <3> QED
      BY <1>2, <2>1, <2>2, <3>1 DEF ElectedOwners, IsElected
  <2>3. CASE redeem[r].role # "elected"
    BY <1>2, <2>1, <2>3 DEF ElectedOwners, IsElected
  <2> QED
    BY <2>2, <2>3
<1>7. u \in Claimants /\ Claimants' \in {Claimants, Claimants \ {u}}
  <2>1. Claims(r)
    BY <1>2 DEF Claims
  <2>2. CASE redeem'[r].phase = "failed"
    <3>1. u \in Claimants
      BY <1>u, <2>1 DEF Claimants, Claims
    <3> QED
      BY <1>1, <2>1, <2>2, <3>1, ClaimKept DEF Claims
  <2>3. CASE redeem'[r].phase = "idle"
    BY <1>1, <1>u, <2>1, <2>3, ClaimEnds DEF Claims
  <2> QED
    BY <1>1, <2>2, <2>3
<1> QED
  BY <1>3, <1>4, <1>5, <1>6, <1>7 DEF Admission!Admit

(* A clean-up takes back what an admission did, or only ends the attempt.  *)
LEMMA CleanUpMapped ==
  ASSUME TypeInv, TypeInv', NEW r \in Attempts, RedeemUndo(r)
  PROVE  [Admission!Next]_Admission!vars
<1> USE SeatConstants DEF TypeInv, TypeOK
<1>u. PICK u \in Users : u = redeem[r].user
  BY DEF RedeemUndo, RequestsOK
<1>1. u \in Claimants /\ Claimants' \in {Claimants, Claimants \ {u}}
  <2>1. /\ Claims(r) /\ ~Claims(r)'
        /\ \A q \in Attempts : q # r => redeem'[q] = redeem[q]
    BY EndFrame DEF RedeemUndo, Claims
  <2> QED
    BY <1>u, <2>1, ClaimEnds
<1>2. CASE UNCHANGED <<memberVars, accountVars, keyVars>>
  <2>1. UNCHANGED <<Linked, ElectedOwners>>
    BY <1>2 DEF memberVars, accountVars, Linked, ElectedOwners
  <2>2. CASE Claimants' = Claimants
    BY <1>2, <2>1, <2>2
    DEF keyVars, Admission!vars, Admission!people, Admission!keys
  <2>3. CASE Claimants' = Claimants \ {u}
    BY <1>2, <2>1, <2>3
    DEF keyVars, Admission!Withdraw, Admission!Next, Admission!keys
  <2> QED
    BY <1>1, <2>2, <2>3
<1>3. CASE ~LastActivator(u) /\ DeleteUser(u)
  <2>1. Linked' = [Linked EXCEPT ![u] = None]
    BY <1>3 DEF DeleteUser, Linked, Accounts
  <2>2. ElectedOwners' = ElectedOwners \ {u}
    BY <1>3 DEF DeleteUser, ElectedOwners, Accounts
  <2>3. \A k \in Keys : activatedBy[k] = u => keyStatus[k] # "activated"
    BY <1>3 DEF LastActivator
  <2> QED
    BY <1>1, <1>3, <2>1, <2>2, <2>3
    DEF DeleteUser, Admission!Undo, Admission!Next
<1> QED
  BY <1>u, <1>2, <1>3 DEF RedeemUndo

(* The other steps of a redemption at most begin or end a claim.           *)
LEMMA RedeemMapped ==
  ASSUME TypeInv, TypeInv', RedemptionInv, AdmissionInv,
         NEW r \in Attempts, RedeemNext(r)
  PROVE  [Admission!Next]_Admission!vars
<1> USE SeatConstants DEF TypeInv, TypeOK
<1>1. ASSUME UNCHANGED memberVars, UNCHANGED profileKey, UNCHANGED keyVars,
             NEW u \in Users,
             \/ Claimants' = Claimants
             \/ Claimants' = Claimants \cup {u}
             \/ Claimants' = Claimants \ {u}
      PROVE  [Admission!Next]_Admission!vars
  <2>1. UNCHANGED <<Linked, ElectedOwners>>
    BY <1>1, NothingAdmitted DEF memberVars, IsElected
  <2> QED
    BY <1>1, <2>1
    DEF keyVars, Admission!Claim, Admission!Withdraw, Admission!Next,
        Admission!vars, Admission!people, Admission!keys
<1>2. ASSUME NEW p \in RedeemPhases, Step(r, p),
             redeem[r].phase \notin {"idle", "validated"},
             p \notin {"idle", "validated"}
      PROVE  Claimants' = Claimants
  BY <1>2, StepFrame, ClaimKept DEF Claims
<1>3. ASSUME End(r)
      PROVE  /\ \A q \in Attempts : q # r => redeem'[q] = redeem[q]
             /\ ~Claims(r)'
  BY <1>3, EndFrame DEF Claims
<1>4. ASSUME NEW u \in Users, NEW k \in Keys, RedeemStart(r, u, k)
      PROVE  [Admission!Next]_Admission!vars
  <2>1. Claimants' = Claimants
    BY <1>4, ClaimKept DEF RedeemStart, Claims
  <2> QED
    BY <1>1, <1>4, <2>1 DEF RedeemStart, accountVars
<1>5. CASE RedeemSignUp(r)
  <2>u. PICK u \in Users : u = redeem[r].user
    BY <1>5 DEF RedeemSignUp, RequestsOK
  <2>1. /\ redeem'[r].phase = "signedUp" /\ redeem'[r].user = u
        /\ redeem[r].phase = "validated"
        /\ \A q \in Attempts : q # r => redeem'[q] = redeem[q]
    BY <1>5, <2>u, StepFrame DEF RedeemSignUp, RedeemPhases
  <2>2. Claimants' = Claimants \cup {u}
    BY <2>1 DEF Claimants
  <2> QED
    BY <1>1, <1>5, <2>2 DEF RedeemSignUp
<1>6. CASE RedeemLockKey(r) \/ RedeemInsert(r) \/ RedeemAbort(r)
  <2>1. /\ redeem[r].user \in Users
        /\ redeem[r].phase \notin {"idle", "validated"}
        /\ \/ Step(r, "keyLocked") \/ Step(r, "inserted") \/ Step(r, "failed")
        /\ UNCHANGED memberVars /\ UNCHANGED profileKey /\ UNCHANGED keyVars
    BY <1>6
    DEF RedeemLockKey, RedeemInsert, RedeemAbort, RefusedInTransaction,
        RollBack, RequestsOK, accountVars
  <2>2. Claimants' = Claimants
    BY <1>2, <2>1 DEF RedeemPhases
  <2> QED
    BY <1>1, <2>1, <2>2
<1>7. CASE RedeemLockOrg(r)
  <2>1. redeem[r].user \in Users /\ Claimants' = Claimants
    BY <1>7, LockFrame, ClaimKept DEF RedeemLockOrg, RequestsOK, Claims
  <2> QED
    BY <1>1, <1>7, <2>1 DEF RedeemLockOrg, accountVars
<1>8. CASE RedeemRefused(r)
  <2>1. redeem[r].user \in Users /\ Claimants' = Claimants
    BY <1>3, <1>8, ClaimKept DEF RedeemRefused, RequestsOK, Claims
  <2> QED
    BY <1>1, <1>8, <2>1 DEF RedeemRefused, RefusalKeeps, accountVars
<1>9. CASE RedeemCommit(r) \/ RedeemUnheard(r)
  BY <1>9, CommitAdmits DEF Admission!Next
<1>10. CASE RedeemUndo(r)
  BY <1>10, CleanUpMapped
<1>11. CASE RedeemFail(r)
  <2>u. PICK u \in Users : u = redeem[r].user
    BY <1>11 DEF RedeemFail, RequestsOK
  <2>1. /\ UNCHANGED memberVars /\ UNCHANGED profileKey /\ UNCHANGED keyVars
    BY <1>11 DEF RedeemFail, RollBack, accountVars
  <2>2. \/ Claimants' = Claimants
        \/ Claimants' = Claimants \ {u}
    <3>1. CASE redeem[r].phase \notin {"idle", "validated"} /\ Step(r, "failed")
      BY <1>2, <3>1 DEF RedeemPhases
    <3>2. CASE End(r) /\ Claims(r)
      BY <1>3, <2>u, <3>2, ClaimEnds
    <3>3. CASE End(r) /\ ~Claims(r)
      BY <1>3, <3>3, ClaimKept
    <3> QED
      BY <1>11, <3>1, <3>2, <3>3 DEF RedeemFail, RollBack
  <2> QED
    BY <1>1, <2>1, <2>2
<1> QED
  BY <1>4, <1>5, <1>6, <1>7, <1>8, <1>9, <1>10, <1>11 DEF RedeemNext, RedeemStep

(* Generation and key login create and complete keys.                      *)
LEMMA HandlerMapped ==
  ASSUME TypeInv, TypeInv', ProvisionInv, AdmissionInv, [Next]_vars,
         NEW h \in Handlers, HandlerNext(h)
  PROVE  [Admission!Next]_Admission!vars
<1> USE SeatConstants DEF TypeInv, TypeOK
<1>1. UNCHANGED redeem /\ \A u \in Users : profileKey'[u] = profileKey[u]
  BY OutsideKeeps DEF Outside, OutsideFrame
<1>c. UNCHANGED Claimants
  BY <1>1 DEF Claimants
<1>2. ASSUME UNCHANGED memberVars PROVE UNCHANGED Admission!people
  BY <1>1, <1>c, <1>2, NothingAdmitted
  DEF memberVars, IsElected, Admission!people
<1>3. CASE UNCHANGED keyVars /\ UNCHANGED memberVars
  BY <1>2, <1>3 DEF Admission!vars, Admission!keys, keyVars
<1>4. ASSUME NEW k \in Keys, GenerateKey(h, k) PROVE Admission!CreateKey(k)
  BY <1>2, <1>4 DEF GenerateKey, Admission!CreateKey
<1>5. CASE MarkKeyActivated(h)
  <2>k. PICK k \in Keys : k = handler[h].key
    BY <1>5 DEF MarkKeyActivated, RequestsOK
  <2>1. keyStatus[k] # "none"
    BY <1>5, <2>k DEF MarkKeyActivated, AdmissionInv, KeysMade
  <2>2. /\ keyStatus' = [keyStatus EXCEPT ![k] = "activated"]
        /\ activatedBy' = [activatedBy EXCEPT ![k] = k]
        /\ issued \subseteq issued' /\ UNCHANGED memberVars
    BY <1>5, <2>k DEF MarkKeyActivated
  <2>3. \A j \in issued' \ issued : keyStatus'[j] \in {"activated", "revoked"}
    BY IssuedComplete DEF Complete
  <2> QED
    BY <1>2, <2>1, <2>2, <2>3 DEF Admission!CompleteKey, Admission!Next
<1>6. CASE CreateKeyMember(h)
  <2>k. PICK k \in Keys : k = handler[h].key
    BY <1>6 DEF CreateKeyMember, RequestsOK
  <2>1. k \in Accounts /\ ~IsElected(k) /\ ~IsElected(k)'
    BY <1>6, <2>k DEF CreateKeyMember, IsElected, Accounts
  <2>2. \A a \in Accounts : IsElected(a)' <=> IsElected(a)
    BY <1>6, <2>k, <2>1 DEF CreateKeyMember, IsElected
  <2>3. UNCHANGED <<Linked, ElectedOwners>>
    BY <1>1, <2>2, NothingAdmitted
  <2> QED
    BY <1>c, <1>6, <2>3
    DEF CreateKeyMember, Admission!vars, Admission!people, Admission!keys,
        keyVars
<1>7. \/ UNCHANGED keyVars /\ UNCHANGED memberVars
      \/ \E k \in Keys : GenerateKey(h, k)
      \/ MarkKeyActivated(h) \/ CreateKeyMember(h)
  BY DEF HandlerNext, GenerateStart, KeyLoginStart, CreateKeyUser,
         CreateKeyProfile, CheckKeySeat, HandlerFail
<1>8. (\E k \in Keys : GenerateKey(h, k)) => Admission!Next
  BY <1>4 DEF Admission!Next
<1> QED
  BY <1>3, <1>5, <1>6, <1>7, <1>8

(* Revocations revoke; members may step down; the rest is not seen.        *)
LEMMA RestMapped ==
  ASSUME TypeInv, TypeInv', AdmissionInv,
         \/ \E k \in Keys : RevokeNext(k)
         \/ MemberNext \/ SubscriptionNext \/ UNCHANGED vars
  PROVE  [Admission!Next]_Admission!vars
<1> USE SeatConstants DEF TypeInv, TypeOK
<1>1. UNCHANGED redeem /\ UNCHANGED profileKey
  BY DEF RevokeNext, RevokeRead, RevokeWrite, MemberNext, InviteCheck,
         InviteCount, InviteInsert, InviteFail, DisableMember, ChangeRole,
         SubscriptionNext, AssignPlan, SetSeatLimit, ChangeSubscriptionStatus,
         CancelSubscription, ByAdmin, vars, accountVars
<1>2. UNCHANGED Linked /\ UNCHANGED Claimants
  BY <1>1 DEF Linked, Claimants
<1>3. CASE UNCHANGED keyVars /\ UNCHANGED memberVars
  BY <1>2, <1>3
  DEF Admission!vars, Admission!people, Admission!keys, keyVars, memberVars,
      ElectedOwners
<1>4. ASSUME NEW k \in Keys, RevokeWrite(k) PROVE Admission!RevokeKey(k)
  BY <1>2, <1>4
  DEF RevokeWrite, AdmissionInv, KeysMade, Admission!RevokeKey,
      Admission!people, memberVars, ElectedOwners
<1>5. ASSUME NEW a \in Accounts, UNCHANGED keyVars,
             ElectedOwners' = ElectedOwners \ {a}
      PROVE  [Admission!Next]_Admission!vars
  <2>1. CASE a \in Users
    BY <1>2, <1>5, <2>1
    DEF Admission!StepDown, Admission!Next, Admission!keys, keyVars
  <2>2. CASE a \notin Users
    <3>1. ElectedOwners' = ElectedOwners
      BY <1>5, <2>2 DEF ElectedOwners, AdmissionInv, ElectedLinked, IsElected
    <3> QED
      BY <1>2, <1>5, <3>1
      DEF Admission!vars, Admission!people, Admission!keys, keyVars
  <2> QED
    BY <2>1, <2>2
<1>6. ASSUME NEW a \in Accounts, DisableMember(a)
      PROVE  UNCHANGED keyVars /\ ElectedOwners' = ElectedOwners \ {a}
  BY <1>6 DEF DisableMember, ElectedOwners
<1>7. ASSUME NEW actor \in Accounts, NEW a \in Accounts,
             NEW r \in {"staff", "owner"}, ChangeRole(actor, a, r)
      PROVE  UNCHANGED keyVars /\ ElectedOwners' = ElectedOwners \ {a}
  BY <1>7 DEF ChangeRole, ElectedOwners
<1>8. ASSUME NEW u \in Users, InviteInsert(u)
      PROVE  UNCHANGED keyVars /\ ElectedOwners' = ElectedOwners \ {u}
  BY <1>8 DEF InviteInsert, ElectedOwners, Accounts
<1>9. CASE MemberNext
  BY <1>3, <1>5, <1>6, <1>7, <1>8, <1>9
  DEF MemberNext, InviteCheck, InviteCount, InviteFail, Accounts
<1> QED
  BY <1>3, <1>4, <1>9
  DEF RevokeNext, RevokeRead, SubscriptionNext, AssignPlan, SetSeatLimit,
      ChangeSubscriptionStatus, CancelSubscription, ByAdmin, vars,
      Admission!Next

(* SeatLicensing implements KeyAdmission: every redemption that succeeds   *)
(* takes effect at its commit, as if it were alone, and is taken back as a *)
(* whole or not at all, by a redemption under way for the same person.     *)
THEOREM RedemptionAtomic == Spec => RedemptionIsAtomic
<1>1. Init => Admission!Init
  <2> SUFFICES ASSUME Init PROVE Admission!Init
    OBVIOUS
  <2>1. Linked = [u \in Users |-> None]
    BY DEF Init, Linked, Accounts
  <2>2. Claimants = {} /\ ElectedOwners = {}
    BY DEF Init, Claimants, ElectedOwners, NoRedemption
  <2>3. /\ issued \subseteq Keys
        /\ activatedBy = [k \in Keys |-> None]
        /\ keyStatus = [k \in Keys |-> IF k \in issued THEN "unused"
                                                      ELSE "none"]
    BY DEF Init
  <2> QED
    BY <2>1, <2>2, <2>3 DEF Admission!Init
<1>2. /\ TypeInv /\ TypeInv' /\ RedemptionInv /\ ProvisionInv /\ AdmissionInv
      /\ [Next]_vars
      => [Admission!Next]_Admission!vars
  BY RedeemMapped, HandlerMapped, RestMapped DEF Next
<1> QED
  BY <1>1, <1>2, RequestTyping, RedemptionSafety, ProvisionSafety,
     AdmissionSafety, PTL
  DEF Spec, RedemptionIsAtomic, Admission!Spec

=============================================================================
