--------------------------- MODULE SeatLicensing ---------------------------
(***************************************************************************)
(* Seats, activation keys and the subscription row of ONE organisation, as *)
(* the request handlers of the application and the triggers of Postgres    *)
(* change them.                                                            *)
(*                                                                         *)
(* A single statement sent through the Supabase client is a transaction of *)
(* its own and is one atomic step, with one exception: an INSERT into      *)
(* org_members counts the seats in a BEFORE trigger and then waits, in the *)
(* foreign-key check, for any transaction that holds the organisation row  *)
(* FOR UPDATE.  The trigger and the commit are therefore two steps.  A key *)
(* redemption is an explicit BEGIN ... COMMIT with an await on the Auth    *)
(* service in the middle, and each of its statements is a step.            *)
(*                                                                         *)
(* Accounts are the people who sign up (Users) and the account the server  *)
(* creates for every activation key, key-<id>@enermass.local: that account *)
(* is named by its key.  Dates are left out: whether a period has lapsed   *)
(* is chosen freely (SubscriptionLifecycle models the clock).              *)
(***************************************************************************)
EXTENDS Integers, FiniteSets

CONSTANTS
  Users,        \* people who may redeem a key or be invited
  Keys,         \* activation keys that may ever exist
  Attempts,     \* requests that redeem a key for somebody
  Unheard,      \* bound: attempts to whose COMMIT the reply may be lost
  Handlers,     \* requests that create key accounts (generation, key login)
  PlanLimits,   \* the seat limits of the subscription plans
  MaxUses,      \* max_uses of a key: how many profiles may link to it
  MaxBatch,     \* bound: the largest "count" asked of generateActivationKeys
  None          \* the absence of a key or of a person

ASSUME SeatConstants ==
  /\ IsFiniteSet(Users) /\ IsFiniteSet(Keys) /\ IsFiniteSet(Handlers)
  /\ IsFiniteSet(Attempts) /\ Unheard \subseteq Attempts
  /\ Users \cap Keys = {}
  /\ None \notin Users \cup Keys
  /\ PlanLimits # {} /\ PlanLimits \subseteq Nat \ {0}
  /\ MaxUses \in Nat \ {0}
  /\ MaxBatch \in Nat \ {0}

VARIABLES
  subStatus,   \* status of the organisation's latest subscription, or "none"
  plan,        \* seat limit of that subscription's plan
  seatLimit,   \* org_subscriptions.seat_limit
  member,      \* org_members.status of each account, or "none"
  role,        \* org_members.role; "elected" is an owner made by redemption
  hasAuth,     \* accounts that exist in the Auth service
  profileKey,  \* profiles.key_id of each account's profile
  keyStatus,   \* activation_keys.status, or "none" before it is created
  activatedBy, \* activation_keys.activated_by, an account or None
  issued,      \* keys whose raw value has been handed out
  revoking,    \* keys that a revocation has read as unused and will patch
  inviting,    \* how far the invitation of each person has got
  redeem,      \* how far each attempt at a redemption has got
  handler      \* the key-account request in progress of each handler

subVars == <<subStatus, plan, seatLimit>>
memberVars == <<member, role>>
accountVars == <<hasAuth, profileKey>>
keyVars == <<keyStatus, activatedBy, issued>>
vars == <<subVars, memberVars, accountVars, keyVars, revoking, inviting,
          redeem, handler>>

Accounts == Users \cup Keys
CurrentStatuses == {"trialing", "active", "past_due"}
SubStatuses == CurrentStatuses \cup {"cancelled", "expired"}
MemberStatuses == {"none", "invited", "active", "disabled"}
Roles == {"staff", "owner", "elected"}
KeyStatuses == {"none", "unused", "activated", "revoked"}
RedeemPhases ==
  {"idle", "validated", "signedUp", "keyLocked", "orgLocked", "inserted",
   "failed"}
HandlerPhases ==
  {"idle", "create", "user", "profile", "check", "insert", "mark"}

NoRedemption ==
  [phase |-> "idle", user |-> None, key |-> None, role |-> "staff"]
NoRequest ==
  [op |-> "none", phase |-> "idle", key |-> None, batch |-> {}, left |-> 0]

Redemptions == [phase : RedeemPhases, user : Users \cup {None},
                key : Keys \cup {None}, role : Roles]
Requests == [op : {"none", "generate", "login"}, phase : HandlerPhases,
             key : Keys \cup {None}, batch : SUBSET Keys, left : 0 .. MaxBatch]

TypeOK ==
  /\ subStatus \in SubStatuses \cup {"none"}
  /\ plan \in PlanLimits
  /\ seatLimit \in Nat
  /\ member \in [Accounts -> MemberStatuses]
  /\ role \in [Accounts -> Roles]
  /\ hasAuth \subseteq Accounts
  /\ profileKey \in [Accounts -> Keys \cup {None}]
  /\ keyStatus \in [Keys -> KeyStatuses]
  /\ activatedBy \in [Keys -> Accounts \cup {None}]
  /\ issued \subseteq Keys
  /\ revoking \subseteq Keys
  /\ inviting \in [Users -> {"idle", "checked", "counted"}]
  /\ redeem \in [Attempts -> Redemptions]
  /\ handler \in [Handlers -> Requests]

-----------------------------------------------------------------------------
(* Derived state: what the queries of the code count, and who holds locks. *)

ActiveSeats == {a \in Accounts : member[a] = "active"}
InvitedSeats == {a \in Accounts : member[a] = "invited"}

(* SELECT COUNT of profiles WHERE key_id = k. *)
ProfilesOf(k) == {a \in Accounts : profileKey[a] = k}

(* FOR UPDATE on the key's row, taken first by a redemption.  Here and     *)
(* below, an operator marked Variant stands for a mistake that the         *)
(* definition after it guards against; only the sensitivity checks use it. *)
KeyRowIgnored(k) == TRUE  \* Variant: the SELECT without FOR UPDATE
KeyRowFree(k) ==
  \A r \in Attempts :
    redeem[r].key = k
      => redeem[r].phase \notin {"keyLocked", "orgLocked", "inserted"}

(* FOR UPDATE on the organisation's row.  It also blocks the foreign-key   *)
(* check of every insert that refers to the organisation.                  *)
OrgRowIgnored == TRUE  \* Variant: the SELECT without FOR UPDATE
OrgRowFree ==
  \A r \in Attempts : redeem[r].phase \notin {"orgLocked", "inserted"}

IsOwner(a) == role[a] \in {"owner", "elected"}
HasActiveOwner == \E a \in Accounts : IsOwner(a) /\ member[a] = "active"

-----------------------------------------------------------------------------
(* The triggers and the checks that guard the seats.                       *)

(* BEFORE INSERT OR UPDATE OF status ON org_members: only active rows are  *)
(* counted, and it fires whatever the new status is.                       *)
SeatTriggerOff(a) == TRUE  \* Variant: the trigger is dropped
SeatTriggerAllows(a) ==
  subStatus \in CurrentStatuses
    => Cardinality(ActiveSeats \ {a}) < seatLimit

(* BEFORE INSERT OR UPDATE OF seat_limit, status ON org_subscriptions, and *)
(* the trigger that caps seat_limit at the plan's.                         *)
SubTriggersAllow(s, p, n) ==
  /\ n <= p
  /\ s \in CurrentStatuses
       => Cardinality(ActiveSeats \cup InvitedSeats) <= n

WriteSub(s, p, n) ==
  /\ SubTriggersAllow(s, p, n)
  /\ subStatus' = s /\ plan' = p /\ seatLimit' = n

(* The plan a new subscription gets: the smallest that seats n, else the   *)
(* largest.                                                                *)
IsPlanFor(p, n) ==
  LET fits == {q \in PlanLimits : q >= n}
  IN  IF fits # {} THEN p \in fits /\ \A q \in fits : p <= q
                   ELSE \A q \in PlanLimits : q <= p

Raised(n) == IF seatLimit < n THEN n ELSE seatLimit

(* ensureActiveOrgSubscription: leaves a current, unlapsed and large       *)
(* enough subscription alone, raises or renews a current one, REVIVES the  *)
(* latest dead one, or creates the first one, visible as soon as counted.  *)
(* It throws when a trigger refuses the write.                             *)
EnsureActiveOrgSubscription(required) ==
  \/ /\ subStatus \in CurrentStatuses /\ seatLimit >= required
     /\ UNCHANGED subVars
  \/ /\ subStatus \in CurrentStatuses
     /\ \E s \in {subStatus, "active"} : WriteSub(s, plan, Raised(required))
  \/ /\ subStatus \in {"cancelled", "expired"}
     /\ WriteSub("active", plan, Raised(required))
  \/ /\ subStatus = "none"
     /\ \E p \in PlanLimits :
          /\ IsPlanFor(p, required)
          /\ WriteSub("active", p, IF p < required THEN required ELSE p)

(* assertSeatAvailableForActivation: without a current subscription one    *)
(* active member is allowed.                                               *)
SeatAvailableForActivation ==
  Cardinality(ActiveSeats)
    < (IF subStatus \in CurrentStatuses THEN seatLimit ELSE 1)

(* "Enforce seats atomically inside lock": invitations count here.         *)
OrgFull ==
  /\ subStatus \in CurrentStatuses
  /\ Cardinality(ActiveSeats \cup InvitedSeats) >= seatLimit

KeyUsable(k) ==
  /\ keyStatus[k] \notin {"none", "revoked"}
  /\ Cardinality(ProfilesOf(k)) < MaxUses

-----------------------------------------------------------------------------
(* Generation of keys (super admin) and the login with a key: both create  *)
(* the account that belongs to the key, statement by statement, with no    *)
(* transaction around them.                                                *)

(* Generation throws when an insert fails; the login route does not look.  *)
AlwaysIgnoresErrors(h) == TRUE  \* Variant: generation does not look either
IgnoresErrors(h) == handler[h].op = "login"

Goto(h, phase) == handler' = [handler EXCEPT ![h].phase = phase]

GenerateStart(h, n) ==
  /\ handler[h].phase = "idle"
  /\ EnsureActiveOrgSubscription(n)
  /\ handler' = [handler EXCEPT ![h] =
       [op |-> "generate", phase |-> "create", key |-> None, batch |-> {},
        left |-> n]]
  /\ UNCHANGED <<memberVars, accountVars, keyVars, revoking, inviting, redeem>>

GenerateKey(h, k) ==
  /\ handler[h].op = "generate" /\ handler[h].phase = "create"
  /\ keyStatus[k] = "none"
  /\ OrgRowFree
  /\ keyStatus' = [keyStatus EXCEPT ![k] = "unused"]
  /\ handler' = [handler EXCEPT ![h] =
       [op |-> "generate", phase |-> "user", key |-> k,
        batch |-> handler[h].batch, left |-> handler[h].left]]
  /\ UNCHANGED <<subVars, memberVars, accountVars, activatedBy, issued,
                 revoking, inviting, redeem>>

(* Only a key made before keys had accounts of their own can be unused     *)
(* when it reaches this route.                                             *)
KeyLoginStart(h, k) ==
  /\ handler[h].phase = "idle"
  /\ k \in issued /\ keyStatus[k] = "unused"
  /\ Cardinality(ProfilesOf(k)) < MaxUses
  /\ handler' = [handler EXCEPT ![h] =
       [op |-> "login", phase |-> "user", key |-> k, batch |-> {},
        left |-> 0]]
  /\ UNCHANGED <<subVars, memberVars, accountVars, keyVars, revoking, inviting,
                 redeem>>

CreateKeyUser(h) ==
  LET k == handler[h].key IN
  /\ handler[h].phase = "user"
  /\ \/ /\ k \notin hasAuth
        /\ hasAuth' = hasAuth \cup {k}
        /\ Goto(h, "profile")
     \/ /\ handler[h].op = "login" /\ k \in hasAuth
        /\ Goto(h, "mark")
        /\ UNCHANGED hasAuth
  /\ UNCHANGED <<subVars, memberVars, profileKey, keyVars, revoking, inviting,
                 redeem>>

CreateKeyProfile(h) ==
  LET k == handler[h].key IN
  /\ handler[h].phase = "profile"
  /\ \/ /\ OrgRowFree /\ KeyRowFree(k)
        /\ profileKey' = [profileKey EXCEPT ![k] = k]
     \/ /\ IgnoresErrors(h)
        /\ UNCHANGED profileKey
  /\ Goto(h, "check")
  /\ UNCHANGED <<subVars, memberVars, hasAuth, keyVars, revoking, inviting,
                 redeem>>

(* The seat trigger of the INSERT into org_members.  A refusal ends a      *)
(* generation (HandlerFail); the login route ignores it.                   *)
CheckKeySeat(h) ==
  /\ handler[h].phase = "check"
  /\ \/ SeatTriggerAllows(handler[h].key) /\ Goto(h, "insert")
     \/ /\ ~SeatTriggerAllows(handler[h].key)
        /\ IgnoresErrors(h)
        /\ Goto(h, "mark")
  /\ UNCHANGED <<subVars, memberVars, accountVars, keyVars, revoking, inviting,
                 redeem>>

(* The same INSERT, after its foreign-key check has waited for the         *)
(* organisation's row.                                                     *)
CreateKeyMember(h) ==
  LET k == handler[h].key IN
  /\ handler[h].phase = "insert"
  /\ OrgRowFree
  /\ member[k] = "none"
  /\ member' = [member EXCEPT ![k] = "active"]
  /\ role' = [role EXCEPT ![k] = "staff"]
  /\ Goto(h, "mark")
  /\ UNCHANGED <<subVars, accountVars, keyVars, revoking, inviting, redeem>>

LastOfBatch(h) == handler[h].left = 1

(* The raw keys of a batch are returned together, after the last one.      *)
IssuedNow(h) ==
  IF LastOfBatch(h) THEN handler[h].batch \cup {handler[h].key} ELSE {}

MarkKeyActivated(h) ==
  LET k == handler[h].key IN
  /\ handler[h].phase = "mark"
  /\ KeyRowFree(k)
  /\ keyStatus' = [keyStatus EXCEPT ![k] = "activated"]
  /\ activatedBy' = [activatedBy EXCEPT ![k] = k]
  /\ \/ /\ handler[h].op = "login"
        /\ handler' = [handler EXCEPT ![h] = NoRequest]
        /\ UNCHANGED issued
     \/ /\ handler[h].op = "generate"
        /\ issued' = issued \cup IssuedNow(h)
        /\ handler' = [handler EXCEPT ![h] =
             IF LastOfBatch(h)
               THEN NoRequest
               ELSE [op |-> "generate", phase |-> "create", key |-> None,
                     batch |-> handler[h].batch \cup {k},
                     left |-> handler[h].left - 1]]
  /\ UNCHANGED <<subVars, memberVars, accountVars, revoking, inviting, redeem>>

(* Any statement may fail and any server may die: what has been written    *)
(* stays, and the raw keys of the batch are lost.                          *)
HandlerFail(h) ==
  /\ handler[h].phase # "idle"
  /\ handler' = [handler EXCEPT ![h] = NoRequest]
  /\ UNCHANGED <<subVars, memberVars, accountVars, keyVars, revoking, inviting,
                 redeem>>

-----------------------------------------------------------------------------
(* Redemption of a key for a person: checks without locks, the sign-up     *)
(* with the Auth service, then one transaction that locks the key's row    *)
(* and the organisation's row, in that order, and checks again.  A person  *)
(* may send the form again, so several attempts may be for one person.     *)

Step(r, phase) == redeem' = [redeem EXCEPT ![r].phase = phase]
End(r) == redeem' = [redeem EXCEPT ![r] = NoRedemption]

RedeemStart(r, u, k) ==
  /\ redeem[r].phase = "idle"
  /\ k \in issued /\ KeyUsable(k)
  /\ EnsureActiveOrgSubscription(
       Cardinality({j \in Keys : keyStatus[j] # "none"}))
  /\ redeem' = [redeem EXCEPT ![r] =
       [phase |-> "validated", user |-> u, key |-> k, role |-> "staff"]]
  /\ UNCHANGED <<memberVars, accountVars, keyVars, revoking, inviting, handler>>

(* Creates the account.  For an address whose account is not confirmed yet *)
(* the Auth service answers with that account, and the code goes on.       *)
RedeemSignUp(r) ==
  /\ redeem[r].phase = "validated"
  /\ SeatAvailableForActivation
  /\ hasAuth' = hasAuth \cup {redeem[r].user}
  /\ Step(r, "signedUp")
  /\ UNCHANGED <<subVars, memberVars, profileKey, keyVars, revoking, inviting,
                 handler>>

(* No seat, or the address has a confirmed account.  Nothing to undo.      *)
(* Variant: the refusal cleans up as a failure after the sign-up does.     *)
RefusalDeletes(u) ==
  /\ hasAuth' = hasAuth \ {u}
  /\ member' = [member EXCEPT ![u] = "none"]
  /\ profileKey' = [profileKey EXCEPT ![u] = None]
  /\ UNCHANGED role
RefusalKeeps(u) == UNCHANGED <<memberVars, accountVars>>

RedeemRefused(r) ==
  /\ redeem[r].phase = "validated"
  /\ ~SeatAvailableForActivation \/ redeem[r].user \in hasAuth
  /\ End(r)
  /\ RefusalKeeps(redeem[r].user)
  /\ UNCHANGED <<subVars, keyVars, revoking, inviting, handler>>

RedeemLockKey(r) ==
  LET k == redeem[r].key IN
  /\ redeem[r].phase = "signedUp"
  /\ KeyRowFree(k)
  /\ KeyUsable(k)
  /\ Step(r, "keyLocked")
  /\ UNCHANGED <<subVars, memberVars, accountVars, keyVars, revoking, inviting,
                 handler>>

(* The role is chosen under the organisation's lock: the first redemption  *)
(* of an organisation without an active owner makes the owner.             *)
RedeemLockOrg(r) ==
  /\ redeem[r].phase = "keyLocked"
  /\ OrgRowFree
  /\ ~OrgFull
  /\ redeem' = [redeem EXCEPT ![r].phase = "orgLocked",
                              ![r].role = IF HasActiveOwner THEN "staff"
                                                            ELSE "elected"]
  /\ UNCHANGED <<subVars, memberVars, accountVars, keyVars, revoking, inviting,
                 handler>>

(* The INSERTs of the profile and of the membership: the account must      *)
(* still exist, have no profile and not be a member.                       *)
Insertable(u) ==
  /\ u \in hasAuth /\ profileKey[u] = None /\ member[u] = "none"
  /\ SeatTriggerAllows(u)

(* The rows are still invisible to the other transactions.                 *)
RedeemInsert(r) ==
  /\ redeem[r].phase = "orgLocked"
  /\ Insertable(redeem[r].user)
  /\ Step(r, "inserted")
  /\ UNCHANGED <<subVars, memberVars, accountVars, keyVars, revoking, inviting,
                 handler>>

KeyNotMarked(k) == keyStatus[k]  \* Variant: the key is not marked
KeyMarkedExpired(k) == "expired"  \* Variant: marked with another status
KeyAfterRedemption(k) == "activated"

(* What the commit makes visible to the others.                            *)
Committed(r) ==
  LET u == redeem[r].user
      k == redeem[r].key
  IN
  /\ redeem[r].phase = "inserted"
  /\ member' = [member EXCEPT ![u] = "active"]
  /\ role' = [role EXCEPT ![u] = redeem[r].role]
  /\ profileKey' = [profileKey EXCEPT ![u] = k]
  /\ keyStatus' = [keyStatus EXCEPT ![k] = KeyAfterRedemption(k)]
  /\ activatedBy' = [activatedBy EXCEPT ![k] = u]
  /\ UNCHANGED <<subVars, hasAuth, issued, revoking, inviting, handler>>

RedeemCommit(r) == Committed(r) /\ End(r)

(* The transaction commits and the reply to COMMIT is lost: the attempt    *)
(* goes on as a failed one.                                                *)
RedeemUnheard(r) == r \in Unheard /\ Committed(r) /\ Step(r, "failed")

(* What makes a statement of the transaction throw by itself.              *)
(* Variant: a full organisation is waited for instead.                     *)
WaitsForSeat(r) ==
  \/ /\ redeem[r].phase = "signedUp"
     /\ KeyRowFree(redeem[r].key) /\ ~KeyUsable(redeem[r].key)
  \/ /\ redeem[r].phase = "orgLocked"
     /\ ~Insertable(redeem[r].user)
RefusedInTransaction(r) ==
  \/ /\ redeem[r].phase = "signedUp"
     /\ KeyRowFree(redeem[r].key) /\ ~KeyUsable(redeem[r].key)
  \/ /\ redeem[r].phase = "keyLocked"
     /\ OrgRowFree /\ OrgFull
  \/ /\ redeem[r].phase = "orgLocked"
     /\ ~Insertable(redeem[r].user)

(* ROLLBACK: the locks are released, the account still exists.             *)
RollBack(r) ==
  /\ Step(r, "failed")
  /\ UNCHANGED <<subVars, memberVars, accountVars, keyVars, revoking, inviting,
                 handler>>

RedeemAbort(r) == RefusedInTransaction(r) /\ RollBack(r)

(* activated_by may not become null while the key is active, so the        *)
(* database refuses to delete this account.                                *)
LastActivator(u) ==
  \E k \in Keys : activatedBy[k] = u /\ keyStatus[k] = "activated"

(* Deleting an account takes the membership and the profile with it, and   *)
(* empties the activated_by of its keys.                                   *)
DeleteUser(u) ==
  /\ hasAuth' = hasAuth \ {u}
  /\ member' = [member EXCEPT ![u] = "none"]
  /\ profileKey' = [profileKey EXCEPT ![u] = None]
  /\ activatedBy' = [k \in Keys |-> IF activatedBy[k] = u THEN None
                                                          ELSE activatedBy[k]]
  /\ UNCHANGED <<role, keyStatus, issued>>

(* The clean-up after a failure deletes the account, whoever created it,   *)
(* once no transaction holds a row that the deletion writes; that it is    *)
(* refused is swallowed.                                                   *)
RedeemUndo(r) ==
  LET u == redeem[r].user IN
  /\ redeem[r].phase = "failed"
  /\ \A k \in Keys : activatedBy[k] = u => KeyRowFree(k)
  /\ \A q \in Attempts : redeem[q].user = u => redeem[q].phase # "inserted"
  /\ End(r)
  /\ \/ LastActivator(u) /\ UNCHANGED <<memberVars, accountVars, keyVars>>
     \/ ~LastActivator(u) /\ DeleteUser(u)
  /\ UNCHANGED <<subVars, revoking, inviting, handler>>

(* A statement or a call of the Auth service fails, which rolls back; or   *)
(* nothing is cleaned up, because the server dies, the deletion fails or   *)
(* the connection that the transaction needs is refused.                   *)
RedeemFail(r) ==
  \/ /\ redeem[r].phase \notin {"idle", "validated", "failed"}
     /\ RollBack(r)
  \/ /\ redeem[r].phase # "idle"
     /\ End(r)
     /\ UNCHANGED <<subVars, memberVars, accountVars, keyVars, revoking,
                    inviting, handler>>

-----------------------------------------------------------------------------
(* Revocation: the status is read, then patched by id.                     *)

RevokeRead(k) ==
  /\ keyStatus[k] = "unused" /\ k \notin revoking
  /\ revoking' = revoking \cup {k}
  /\ UNCHANGED <<subVars, memberVars, accountVars, keyVars, inviting, redeem,
                 handler>>

RevokeWrite(k) ==
  /\ k \in revoking
  /\ KeyRowFree(k)
  /\ keyStatus' = [keyStatus EXCEPT ![k] = "revoked"]
  /\ revoking' = revoking \ {k}
  /\ UNCHANGED <<subVars, memberVars, accountVars, activatedBy, issued,
                 inviting, redeem, handler>>

-----------------------------------------------------------------------------
(* Members: invitation, disabling, change of role, by any active member.   *)

InviteCheck(u) ==
  /\ inviting[u] = "idle"
  /\ ActiveSeats # {}
  /\ subStatus \in CurrentStatuses
  /\ Cardinality(ActiveSeats) < seatLimit
  /\ inviting' = [inviting EXCEPT ![u] = "checked"]
  /\ UNCHANGED <<subVars, memberVars, accountVars, keyVars, revoking, redeem,
                 handler>>

(* The account is found or created, then the seat trigger of the INSERT.   *)
InviteCount(u) ==
  /\ inviting[u] = "checked"
  /\ hasAuth' = hasAuth \cup {u}
  /\ SeatTriggerAllows(u)
  /\ inviting' = [inviting EXCEPT ![u] = "counted"]
  /\ UNCHANGED <<subVars, memberVars, profileKey, keyVars, revoking, redeem,
                 handler>>

InviteInsert(u) ==
  /\ inviting[u] = "counted"
  /\ OrgRowFree
  /\ member[u] = "none" /\ u \in hasAuth
  /\ member' = [member EXCEPT ![u] = "invited"]
  /\ role' = [role EXCEPT ![u] = "staff"]
  /\ inviting' = [inviting EXCEPT ![u] = "idle"]
  /\ UNCHANGED <<subVars, accountVars, keyVars, revoking, redeem, handler>>

(* The trigger refuses, the person is a member already, or any failure.    *)
InviteFail(u) ==
  /\ inviting[u] # "idle"
  /\ \/ inviting[u] = "checked" /\ hasAuth' = hasAuth \cup {u}
     \/ UNCHANGED hasAuth
  /\ inviting' = [inviting EXCEPT ![u] = "idle"]
  /\ UNCHANGED <<subVars, memberVars, profileKey, keyVars, revoking, redeem,
                 handler>>

DisableMember(a) ==
  /\ ActiveSeats # {}
  /\ member[a] \in {"invited", "active"}
  /\ SeatTriggerAllows(a)
  /\ member' = [member EXCEPT ![a] = "disabled"]
  /\ UNCHANGED <<subVars, role, accountVars, keyVars, revoking, inviting,
                 redeem, handler>>

ChangeRole(actor, a, r) ==
  /\ member[actor] = "active" /\ member[a] # "none"
  /\ r = "owner" => IsOwner(actor)
  /\ role' = [role EXCEPT ![a] = r]
  /\ UNCHANGED <<subVars, member, accountVars, keyVars, revoking, inviting,
                 redeem, handler>>

-----------------------------------------------------------------------------
(* The subscription, as the super admin changes it.                        *)

ByAdmin ==
  UNCHANGED <<memberVars, accountVars, keyVars, revoking, inviting, redeem,
              handler>>

(* Updates the current subscription, or creates a new one beside a dead.   *)
AssignPlan(p, n, s) ==
  /\ WriteSub(s, p, n)
  /\ ByAdmin

SetSeatLimit(n) ==
  /\ subStatus # "none"
  /\ WriteSub(subStatus, plan, n)
  /\ ByAdmin

ValidTransitions ==
  [trialing  |-> {"active", "past_due", "cancelled", "expired"},
   active    |-> {"past_due", "cancelled", "expired"},
   past_due  |-> {"active", "cancelled", "expired"},
   cancelled |-> {"active"},
   expired   |-> {"active", "trialing"}]

ChangeSubscriptionStatus(s) ==
  /\ subStatus # "none"
  /\ s \in ValidTransitions[subStatus]
  /\ WriteSub(s, plan, seatLimit)
  /\ ByAdmin

CancelSubscription ==
  /\ subStatus \notin {"none", "cancelled"}
  /\ WriteSub("cancelled", plan, seatLimit)
  /\ ByAdmin

-----------------------------------------------------------------------------
(* An organisation without a subscription, some keys of the previous       *)
(* version of the program handed out and not used yet.                     *)
Init ==
  /\ subStatus = "none"
  /\ plan \in PlanLimits /\ IsPlanFor(plan, 1) /\ seatLimit = plan
  /\ member = [a \in Accounts |-> "none"]
  /\ role = [a \in Accounts |-> "staff"]
  /\ hasAuth = {}
  /\ profileKey = [a \in Accounts |-> None]
  /\ \E legacy \in SUBSET Keys :
       /\ issued = legacy
       /\ keyStatus = [k \in Keys |-> IF k \in legacy THEN "unused"
                                                      ELSE "none"]
  /\ activatedBy = [k \in Keys |-> None]
  /\ revoking = {}
  /\ inviting = [u \in Users |-> "idle"]
  /\ redeem = [r \in Attempts |-> NoRedemption]
  /\ handler = [h \in Handlers |-> NoRequest]

RedeemStep(r) ==
  \/ RedeemSignUp(r) \/ RedeemRefused(r) \/ RedeemLockKey(r)
  \/ RedeemLockOrg(r) \/ RedeemInsert(r) \/ RedeemCommit(r) \/ RedeemAbort(r)
  \/ RedeemUndo(r)

RedeemNext(r) ==
  \/ \E u \in Users, k \in Keys : RedeemStart(r, u, k)
  \/ RedeemStep(r)
  \/ RedeemUnheard(r) \/ RedeemFail(r)

HandlerNext(h) ==
  \/ \E n \in 1 .. MaxBatch : GenerateStart(h, n)
  \/ \E k \in Keys : GenerateKey(h, k) \/ KeyLoginStart(h, k)
  \/ CreateKeyUser(h) \/ CreateKeyProfile(h) \/ CheckKeySeat(h)
  \/ CreateKeyMember(h) \/ MarkKeyActivated(h) \/ HandlerFail(h)

RevokeNext(k) == RevokeRead(k) \/ RevokeWrite(k)

MemberNext ==
  \/ \E u \in Users : InviteCheck(u) \/ InviteCount(u) \/ InviteInsert(u)
                      \/ InviteFail(u)
  \/ \E a \in Accounts : DisableMember(a)
  \/ \E actor, a \in Accounts, r \in {"staff", "owner"} :
       ChangeRole(actor, a, r)

SubscriptionNext ==
  \/ \E p \in PlanLimits, s \in SubStatuses : \E n \in 1 .. p :
       AssignPlan(p, n, s)
  \/ \E n \in 1 .. plan : SetSeatLimit(n)
  \/ \E s \in SubStatuses : ChangeSubscriptionStatus(s)
  \/ CancelSubscription

Next ==
  \/ \E r \in Attempts : RedeemNext(r)
  \/ \E h \in Handlers : HandlerNext(h)
  \/ \E k \in Keys : RevokeNext(k)
  \/ MemberNext
  \/ SubscriptionNext

Spec == Init /\ [][Next]_vars

(* A redemption that can take its next step again and again takes it:      *)
(* Postgres queues the waiters of a row lock, and no step of a redemption  *)
(* waits for a person.                                                     *)
Fairness == \A r \in Attempts : SF_vars(RedeemStep(r))
FairSpec == Spec /\ Fairness

-----------------------------------------------------------------------------
(* Properties.                                                             *)

InTransaction(r) == redeem[r].phase \in {"keyLocked", "orgLocked", "inserted"}

(* Inserts of an active member that have passed the seat trigger and are   *)
(* not visible to others yet.                                              *)
PendingHandlers == {h \in Handlers : handler[h].phase = "insert"}
PendingAttempts == {r \in Attempts : redeem[r].phase = "inserted"}

MaxPending == Cardinality(Handlers) + (IF Attempts = {} THEN 0 ELSE 1)

(* However the requests interleave, the members of an organisation with a  *)
(* current subscription exceed its seat limit by no more than the inserts  *)
(* that can have been counted before each other: one per concurrent        *)
(* key-account request, and one redemption.                                *)
OversellBounded ==
  subStatus \in CurrentStatuses
    => Cardinality(ActiveSeats) <= seatLimit + MaxPending

(* A key never admits more people than its max_uses, however many redeem   *)
(* it at once: the count is taken again under the lock of the key's row.   *)
RedemptionsWithinMaxUses ==
  \A k \in Keys : Cardinality({u \in Users : profileKey[u] = k}) <= MaxUses

(* Two first redemptions of an organisation never both become its owner:   *)
(* at most one active member is an owner because redemption elected it.    *)
AtMostOneElectedOwner ==
  \A a, b \in Accounts :
    /\ member[a] = "active" /\ role[a] = "elected"
    /\ member[b] = "active" /\ role[b] = "elected"
    => a = b

(* A person whose profile is linked to a key is a member, has an account,  *)
(* and the key is not offered as unused.                                   *)
RedeemedIsMember ==
  \A u \in Users :
    profileKey[u] # None
      => /\ u \in hasAuth /\ member[u] # "none"
         /\ keyStatus[profileKey[u]] \in {"activated", "revoked"}

(* A profile is linked to a key only by a transaction that found the key   *)
(* not revoked, however the revocation interleaves with the checks.        *)
NoRedemptionOfRevokedKey ==
  [][\A u \in Users :
       profileKey[u] = None /\ profileKey'[u] # None
         => keyStatus[profileKey'[u]] # "revoked"]_vars

(* People for whom a redemption under way has passed its sign-up: any of   *)
(* them may lose the account, if that redemption fails.                    *)
Claimants ==
  {u \in Users : \E r \in Attempts :
     redeem[r].user = u /\ redeem[r].phase \notin {"idle", "validated"}}

(* What a redemption has set up stays, whatever the redemptions of other   *)
(* people, revocations, invitations and administrators do: only another    *)
(* redemption for the same address takes it away by its clean-up, after    *)
(* its sign-up; and never from the last person to activate an active key.  *)
RedeemedAccountSurvives ==
  [][\A u \in Users :
       profileKey[u] # None /\ (u \notin Claimants \/ LastActivator(u))
         => profileKey'[u] = profileKey[u] /\ u \in hasAuth']_vars

(* A key whose raw value the super admin receives is complete: it has its  *)
(* account, profile and membership, and has been activated.                *)
IssuedKeysProvisioned ==
  [][\A k \in issued' \ issued :
       /\ k \in hasAuth' /\ profileKey'[k] = k /\ member'[k] # "none"
       /\ keyStatus'[k] \in {"activated", "revoked"}]_vars

(* Every redemption ends, whatever it waits for.                           *)
RedemptionsEnd ==
  \A r \in Attempts : redeem[r].phase # "idle" ~> redeem[r].phase = "idle"

(* What KeyAdmission speaks of: who is linked to which key, and whom an    *)
(* admission elected.                                                      *)
Linked == [u \in Users |-> profileKey[u]]
ElectedOwners == {a \in Accounts : member[a] = "active" /\ role[a] = "elected"}

Admission == INSTANCE KeyAdmission
             WITH linked <- Linked, claimants <- Claimants,
                  elected <- ElectedOwners, activator <- activatedBy

(* Redemption is atomic: however its calls and locks interleave with those *)
(* of others, with revocations, invitations and administrators, each       *)
(* redemption that succeeds takes effect at one moment, its commit, and is *)
(* taken back as a whole or not at all, by a redemption under way for the  *)
(* same person.                                                            *)
RedemptionIsAtomic == Admission!Spec
=============================================================================
