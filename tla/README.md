# Verification of EnerMass Calculator

TLA+ specifications of the parts of this repository that keep state under
concurrency: the licensing of organisations, password resets, the active
session of an account, the calculator's store, the editing of quotes and their
drafts, and procurement.
Everything here is translated from the source; the pages under `knowledge/`,
comments and texts of the user interface serve only to say what the program is
meant to promise.

How to run, inside `tla/`:

| Model checking: `tlc -workers 2 -config <cfg> <module>` | Proofs: `tlapm <module>` |
|---|---|
| `SeatLicensing_redeem.cfg`, `_contention.cfg`, `_keys.cfg` with `MCSeatLicensing.tla` | `SeatLicensing_proofs.tla` |
| `SubscriptionLifecycle.cfg` with `SubscriptionLifecycle.tla` | `SubscriptionLifecycle_proofs.tla` |
| `PasswordResets.cfg` with `PasswordResets.tla` | `PasswordResets_proofs.tla` |
| `ActiveSession.cfg` with `ActiveSession.tla` | `ActiveSession_proofs.tla` |
| `QuoteEditing_saves.cfg` and `QuoteEditing_manage.cfg` with `MCQuoteEditing.tla`, `QuoteOverwrites.cfg` with `QuoteOverwrites.tla` | `QuoteEditing_proofs.tla` |
| `DraftAutosave.cfg` with `DraftAutosave.tla` | `DraftAutosave_proofs.tla` |
| `CalculatorStore.cfg` with `MCCalculatorStore.tla` | `CalculatorStore_proofs.tla` |
| `Procurement.cfg` with `MCProcurement.tla` | `Procurement_proofs.tla` |

`PROJECT.json` lists the components, the runs, the source lines of every
definition, the hazards, the mutants (mistakes each property detects) and the
theorems.

## 1. Inventory

The program is a Next.js application over Supabase: route handlers, server
actions and pages send single statements to Postgres (each a transaction of its
own), call database functions that are one transaction, call the Auth service,
and now and then run a real transaction over a `pg` connection. Invariants are
enforced partly by the handlers and partly by triggers and indexes. Many server
processes run at once; a request dies with its process. Much of what is shown is
kept in the browsers: lists that are refetched, forms filled from an earlier
read, tokens in `localStorage`.

| Component | State | Operations | Made difficult by | Correct when |
|---|---|---|---|---|
| Seats and activation keys (`saas/services/activationKeyService.ts`, `seatService.ts`, `api/auth/key-login-init`) | `org_members`, `activation_keys`, `profiles`, Auth accounts, the subscription's `seat_limit` | generate, log in with a key, redeem, revoke, invite, disable, change role | two row locks, triggers that count before they wait, calls with no transaction around them, clean-up after failure | a key admits at most `max_uses` people, one owner is elected, seats are not oversold without bound, keys handed out are complete |
| Subscription lifecycle (`managementService.ts`, `scripts/expire_subscriptions.ts`, SQL `automate_subscription_expiry`) | rows of `org_subscriptions`, payments, the clock | assign, extend, change status, cancel, pay, renew, two expiry jobs | every operation reads and later overwrites by id; two jobs; two places that know the grace | one current row, jobs and service agree, a lapsed row ends |
| Password-reset approval (`passwordResetService.ts`) | `password_reset_requests` | request, approve, mail, reject, roll back | check then write, a mail in the middle, failure after it | the status tells what was mailed; nothing stays approved without an end |
| Session and licence guard (`auth/requireLicensedSession.ts`, `session-start`, `session-check`, `SessionHeartbeat.tsx`) | `profiles.active_session_id`, cookies, logins | start, check, heal, sign out, recover | replies that cross, several pages that check | one browser passes, none is turned out by itself, none stays refused |
| Quotes and revisions (`quoteStore.ts`, `reviseQuote.ts`, `useQuotes.ts`, SQL `persist_quote_atomic`) | quotes with items, the list in each browser, the active quote | save, overwrite, reload, change status, delete, copy, revise | optimistic lock against a list that is refetched, a revision in five requests, lost replies | no save replaces what its browser was not given, header and items belong together |
| Calculator store (`calculatorStores/*`, `calculatorTypes.ts`, `CalculatorClient.tsx`) | preset, state, subsidy scheme, equipment, edited rows, master data and figures of one browser | select, edit, recalculate, take in master data, restore a draft, preset or quote | figures are stored and not derived; master data arrives between the user's acts | figures are those of the present inputs, the preset is not changed under the user, nothing of one project passes to the next |
| Drafts (`useCalculatorAutoSave.ts`, `draftQuotes.ts`, `CalculatorClient.tsx`) | one row per user, a token, timers | save, retry, restore, finish | two tabs, token that expires, saves that outlive their page | "Saved" is true, every change is stored |
| Procurement (`app/procurement/page.tsx`, `procurement.ts`, SQL functions) | requests that become orders, receipt notes | request, decide, convert, receive | stale lists and forms, functions that check no status, fresh keys | lines add up to the notes, goods belong to orders |
| Inventory ledger and FIFO valuation (`inventory/*`) | movements, positions, cost layers | dispatch, receive, install, return | stale positions, double receipts | what is on site was dispatched |
| Device binding (`deviceService.ts`, `deviceResetService.ts`) | `user_devices`, reset requests | bind, request, decide | - | decisions final |
| Accounting ledger (`finance/ledger.ts`) | journal entries | post | idempotency | entries balance |
| Offline synchronisation (`api/sync/route.ts`, `useOfflineSync.ts`) | the client's copy and cursor | full sync, delta | cursor taken after the queries | no change is missed |
| Caches, rate limiter, passkeys | memory of one process, Redis | get, invalidate, count | expiry, replicas | nothing stale after an invalidation |
| Calculation engine (`engine/*`, `formula/evaluator.ts`) | none | functions on decimals | rounding, precedence of overrides | totals agree |
| Master data, presets, UI, PDF, reports, scripts | tables edited by forms | forms, rendering | - | - |

How they interact: redemption and key generation first call
`ensureActiveOrgSubscription`, which writes the subscription rows the super
admin and the jobs write too; the seat triggers read those rows; the licence
guard reads subscription, members and session on every request. A quote that is
saved ends its draft; the draft brings the active quote's number back after a
restart. Drafts, quotes and custom presets put the calculator's inputs back, and
the master data they were made with may be gone by then. A login of any kind reaches
session-start, a password reset ends in a login without one. A conversion of a request makes an order of the same row, and
a receipt would move stock if its lines named catalog items.

The hazards of all components, with their lines, are in `PROJECT.json`, each
with the properties about it or the reason why there is none.

## 2. Plan

1. `SeatLicensing` - seats, keys and redemption of one organisation. **Done.**
2. `SubscriptionLifecycle` - the subscription rows over time. **Done.**
3. `QuoteEditing`, implementing the abstract `VersionedQuotes`; `QuoteOverwrites`
   adds the history of what was loaded. **Done.**
4. `DraftAutosave` - the tabs of one user and their one draft. **Done.**
5. `PasswordResets` - asking, reviewing, mailing, failing. **Done.**
6. `ActiveSession` - the one active browser of an account. **Done.**
7. `Procurement` - requests, orders and receipts between pages. **Done.**
8. `KeyAdmission` - what redemption promises, implemented by `SeatLicensing`.
   **Done.**
9. `CalculatorStore` - inputs, master data and figures of one browser. **Done.**
10. Left: the freshness of the calculator's master data (the signals, and the
    fetch a refresh has under way); `InventoryLedger`, the confirmation of a site
    receipt, which is the one transition a page calls
    (`app/inventory/receipt/page.tsx`), with the movements it reads and appends in
    separate statements; later the FIFO layers, when a page posts them. Then the
    composition of `ActiveSession` and `SubscriptionLifecycle` in the licence
    guard, and the calculation engine's override resolution as pure operators.

The modules keep to one style: one action per request or statement, "abandoned"
and "lost" outcomes as actions of their own, history variables marked as such,
bounds as constants named `Max...`, and theorems in a module `..._proofs`.

## 3. SeatLicensing

Models `activationKeyService.ts`, `seatService.ts`, `key-login-init/route.ts`,
the members and subscription operations of `managementService.ts`, and the two
seat triggers, for one organisation.

| Variable | Code |
|---|---|
| `subStatus`, `plan`, `seatLimit` | the organisation's current subscription row, else its latest |
| `member`, `role` | `org_members.status`, `.role`; `"elected"` is an owner made by redemption |
| `hasAuth`, `profileKey` | accounts of the Auth service, `profiles.key_id` |
| `keyStatus`, `activatedBy`, `issued` | `activation_keys.status`, `.activated_by`; keys whose raw value was returned |
| `revoking`, `inviting` | a revocation or invitation between its read and its write |
| `redeem`, `handler` | program counter of each request that redeems a key for somebody (`Attempts`; several may be for one person) and of each request that creates key accounts |

Steps. A statement sent through the Supabase client is one atomic step, but an
`INSERT INTO org_members` is two: its BEFORE trigger counts the members, then
the foreign-key check waits for a transaction that holds the organisation's row
`FOR UPDATE` (`CheckKeySeat`/`CreateKeyMember`, `InviteCount`/`InviteInsert`).
Redemption is `RedeemStart` (validation and the subscription), `RedeemSignUp`
(Auth service), `RedeemLockKey` and `RedeemLockOrg` (the two `FOR UPDATE`s and
what is checked under them), `RedeemInsert` (invisible to others),
`RedeemCommit`; `RedeemAbort` and `RedeemFail` roll back, and `RedeemUndo` deletes
the account, waiting for the rows of the keys it activated; `RedeemFail` may also
leave everything as it is. When the reply to `COMMIT` is lost (`RedeemUnheard`)
the handler takes the redemption for failed and goes on to `RedeemUndo`.
`HandlerFail` ends a key-account request anywhere and leaves what it wrote.

Whose account a clean-up deletes. The code goes on with whatever account the
sign-up answers with (`activationKeyService.ts:486-527`). For an address that
signed up before and has not been confirmed, that is the account there is already;
so `RedeemSignUp` does not ask that the person be new, the `INSERT`s of
`RedeemInsert` (`Insertable`) may then conflict with what an earlier redemption or
invitation has written, and `RedeemUndo` deletes an account that this request did
not create (`:658`), with its profile and membership (`DeleteUser`). Only the last
person to activate an active key is kept: `activated_by` would become null
(`202606220000_activation_keys.sql:58`), which the check of
`202607030000_remove_device_binding.sql:26` refuses (`LastActivator`); the refusal
is swallowed. So a person who sends the form again before confirming the address
loses the membership of the first, answered redemption as soon as somebody else
has activated that key after them, while `:522` means to answer that the account
exists; an invited person who has not confirmed loses the invitation likewise.
`RedeemedAccountSurvives` states what is left: nobody loses what a redemption has
set up but by a redemption for the same person that is past its sign-up, and a
last activator never. `RedeemRefused` is the answer for an address that is
confirmed. The presets of a person refuse a deletion too (foreign keys without
`ON DELETE`); that is an outcome of `RedeemFail`.

`KeyAdmission` is the abstract specification: a person is admitted at one moment,
while a redemption for them is under way (`claimants`), by a key that was handed
out, is not revoked and has a use left; this links the person, marks the key with
the person and may elect an owner where there is none; and it is taken back as a
whole, by a redemption under way for the same person, and not while an active key
has nobody else to show. It has no locks, accounts, seats, counts or clean-ups.
`RedemptionIsAtomic` is the refinement: `linked` are the keys of people's profiles,
`claimants` the people for whom a request is past its sign-up, `elected` the active
elected owners, `activator` is `activatedBy`. `RedeemSignUp` maps to `Claim`,
`RedeemCommit` and `RedeemUnheard` to `Admit`, `RedeemUndo` to `Undo` or `Withdraw`,
disabling and role changes to `StepDown`, the statements on keys to `CreateKey`,
`RevokeKey` and `CompleteKey`, and every other step stutters or withdraws. A key
can be handed out revoked (`CompleteKey` says so): a revocation may overtake a
batch.

Simplifications: one organisation; validation and
`ensureActiveOrgSubscription` are one step, and so are the read and the write of
the super admin's operations (their stale reads are `SubscriptionLifecycle`'s
subject); the metadata that `updateUserById` (`:601`) writes into the account is
left out; the insert of a first subscription is taken as visible as soon as its
trigger has counted; dates are left out, so whether a period has lapsed is chosen
freely; `adminRoles` holds every role, so any active member may administer
(`managementService.ts:118`); key login may link the key's own account beyond
`max_uses`, which the bound on people leaves out. An Auth service that answers for
a confirmed address with a made-up account, as it may, makes a request that locks,
fails at the metadata and deletes nothing: in the model it is refused at once.

Runs:

| Run | Instance | Shows |
|---|---|---|
| `seat_redeem` | 2 people, 2 requests, 2 keys, plan of 2 seats, `max_uses` 1, no key-account request | `RedemptionsWithinMaxUses`, `AtMostOneElectedOwner`, `RedeemedIsMember` |
| `seat_contention` | 2 people, 2 requests, the `COMMIT` of one of which may go unheard, 1 key of `max_uses` 2, 1 seat, fair | `TypeOK`, `NoRedemptionOfRevokedKey`, `RedeemedAccountSurvives`, `RedemptionIsAtomic`, `RedemptionsEnd` |
| `seat_keys` | 4 keys, 2 key-account requests, batches of 2, plan of 1 seat, no people | `OversellBounded`, `IssuedKeysProvisioned` |

Why the bounds are enough: every race is between two actors over one key, one
seat or one owner, so two requests contend for a single one, for two people or for
the same; a request begins again when it has ended, so a third redemption follows
two, which is what it takes to lose an answered one. Two key-account requests
are counted before each other over one seat, and oversell it (the organisation
ends one above its limit); a batch of two keys has a middle; four keys are two
batches at once, or a batch beside logins. A lost reply to `COMMIT` is met by one
request beside another (`Unheard`), by the theorems for any. The invariant runs
use the symmetry of people, requests and keys, the liveness run does not. `Narrow`
(in `MCSeatLicensing`) bounds `seat_redeem`: the statuses none, active and cancelled
stand for the others of their kind (`seat_contention` has them all), one
invitation and one revocation are under way at a time. `FewRevoked` bounds
`seat_keys` besides: one revoked key at most, and no disabled account of a key.
The refinement's steps of key-account requests are not met in `seat_contention`,
which has none; `RedemptionAtomic` proves them.

Fairness: strong fairness of each redemption's next step. Postgres queues the
waiters of a row lock, so a waiter that can take the lock again and again gets
it, and no step of a redemption waits for a person. Nothing is assumed of
revocations, invitations or key-account requests: they may stop anywhere. A
failure (`RedeemFail`) or a lost reply is never required.

Where the model departs from what comments say. Comments in
`redeemActivationKey` (`activationKeyService.ts:565`, `:582`) claim that the
organisation's lock serialises the seat verification; the inserts of key
generation and key login count before they wait for that lock, so the
organisation ends one member above its limit, and the licence guard then refuses
all of its members. `OversellBounded` is what does hold. A cancelled
subscription *is* reactivated by key generation and redemption
(`activationKeyService.ts:175-185`), against the comment of
`cancelSubscriptionAsSuperAdmin` (`managementService.ts:996`). A first key login
can mark the key activated without a member (`key-login-init/route.ts:49`).
A super admin cannot lower a limit below the members there are: the trigger on
`org_subscriptions` refuses it (`202606260000_audit_remediations.sql:104`,
`SubTriggersAllow`). So the over-limit state that
`knowledge/saas_subscription_system_guide.md:185` describes ("If the super admin
reduces the seat limit below current active users, existing users are not
automatically disabled"), and the event that `managementService.ts:733` logs for
it, come about only through inserts that were counted before each other or before
the change of the limit, which is what `OversellBounded` bounds. What becomes of
an account deleted by a clean-up: the key keeps its status, and its use is free
again.

## 4. SubscriptionLifecycle

Models the rows of `org_subscriptions` over time. Each operation is a read that
fixes what it will write (`op[a]`: kind, row, status and period to write) and a
later write of that row by id; the unique partial index and the seat trigger
guard each write that sets a status. `Abandon` is a refused statement or a dead
process.

| Action | Code |
|---|---|
| `ReadForExtension`, `WriteExtension` | `extendSubscriptionPeriodAsSuperAdmin` |
| `ReadForStatus`, `ReadForCancel`, `ChangeStatus` | `changeSubscriptionStatusAsSuperAdmin`, `cancelSubscriptionAsSuperAdmin` |
| `ReadForPayment`, `InsertPayment`, `RereadForActivation`, `WriteActivation` | `recordManualPaymentAsSuperAdmin` and the extension it calls |
| `ReadForAssignment`, `WriteSubscription` | `assignPlanAsSuperAdmin` |
| `ReadForEnsure`, `WriteSubscription` | `ensureActiveOrgSubscription` |
| `ScriptSelect`, `ScriptWrite`, `ScriptCrash` | `scripts/expire_subscriptions.ts` |
| `FunctionSelect`, `FunctionCommit`, `FunctionAbort` | SQL `automate_subscription_expiry` |
| `IsUsable` | `isSubscriptionUsable` (trial end left out: no code sets it) |

`crowded` abstracts the seats: an organisation with more members than the row's
limit, in which the trigger refuses a current status; it changes freely, as
`SeatLicensing` shows it can.

Run `life_jobs`: one organisation, two rows, one request at a time against both
jobs, periods of one day, a grace of one day in the service and the SQL job and
none in the script, a clock of three days. Three days are what a row needs to
run (0, 1), lapse within the grace (2) and lapse beyond it (3); two rows are what two
current ones take. A request is stale against the jobs and a job against the
requests; two requests at once are covered by the theorem, which holds for any
number. The clock and the periods are bounded by `MaxTime` and `MaxEnd`, and the
run may stop there: deadlock is not checked.

Fairness, for `LapsedIsEnded` only: the script is started whenever it has
something to do (`knowledge/implementation_status.md:37`: "Run
`scripts/expire_subscriptions.ts` from a scheduler or controlled admin process"),
and not every run of it dies before its update (`SF` of `ScriptWrite`). The
property leaves out an organisation with more members than seats: its row cannot
be made past due. The SQL function is not assumed to run.

Where the program departs from its guide. `knowledge/saas_subscription_system_guide.md:412`
says of the script "Does not alter cancelled subscriptions." The script selects
the active and trialing rows (`expire_subscriptions.ts:22`) and updates each by id
alone (`:78`), so a row cancelled in between becomes past due or expired; the SQL
function selects and updates the same way
(`20260707194305_subscription_expiry_event_type_fix.sql:31`). `ScriptWrite` and
`FunctionCommit` have this behaviour, and no property forbids it.

## 5. QuoteEditing, VersionedQuotes and QuoteOverwrites

`QuoteEditing` models the quotes of one organisation and the browser tabs that
edit them, statement by statement. A tab has one store; its pages are the
calculators (and lists of quotes) that it shows one after the other. An operation
belongs to the page it was begun on. Nothing stops it when the page is left, so a
tab is a set of pages, of which those that were left go on beside the one shown.

| Variable | Code |
|---|---|
| `db` | `quotes` and `quote_items` by `quote_number`: identity, version, status, and which version the header and each batch of items were written at |
| `lastId`, `used` | identities and random quote ids given out |
| `active`, `store` | `activeQuoteId` and the versions in `quotes` of each tab's store |
| `op` | the save, status change or revision in progress of each page, with what it has read |
| `left` | the pages that were left during their operation |
| `copies`, `troubles`, `disturbed` | history, used by properties and bounds |

| Actions | Code |
|---|---|
| `SaveStart`, `SaveForced`, `SaveSelect`, `Persist`, `PersistRefused`, `SaveDone`, `SaveDoubted` | `saveQuote` (`quoteStore.ts`) with `persist_quote_atomic`, and the dialog of `QuoteSaveModal.tsx` |
| `Open`, `Reload`, `Cancel`, `Refetch` | loading and cloning, "Discard and reload", the list copied by `AppShell.tsx:75` |
| `RestoreDraft` | `loadDraft` (`CalculatorClient.tsx:264-327`), whose reply comes at any time |
| `Leave` | the page is left during its operation, which goes on |
| `StatusRead`, `StatusWrite`, `Delete`, `Duplicate` | `useQuotes.ts`, `duplicate_quote_atomic` |
| `ReviseRead`, `ReviseNumber`, `ReviseInsert`, `ReviseItems`, `ReviseTotals` | the five requests of `reviseQuote` |
| `Restart` | a tab closed or reloaded |

Saves that overlap. The X of the dialog and Escape close it in the middle of a save
(`QuoteSaveModal.tsx:487`, `:198`), but the component stays mounted and keeps
`saving`, so the buttons stay disabled (`:873-914`) until the save has ended: `Free`
asks that the page has nothing under way. `saving` is state of the component, though.
Leaving the calculator and opening it again (`Leave`, then a step of another page of
the tab) gives a new component, whose save may begin before the first one has set
`activeQuoteId` (`quoteStore.ts:166`, `:477-480`). Both then draw a number, and the
same contents become two quotes without a reply that was lost. The model has this
behaviour. `OneQuotePerContents` says that it takes a page that was left before its
save was told there, or an outcome that was not told (`Leave` takes the quote out of
`copies` as a lost reply does); the success of a save that was left is told by a
toast on whatever page is shown then, its error nowhere. Its end sets
`activeQuoteId` and the old list of the store over whatever was opened meanwhile
(`SaveDone`), which no property forbids: the next save then updates the first quote
with the contents of the other, after the comparison of versions that `KeepsPromise`
is about.

`RestoreDraft` allows more than the code: a draft may arrive without having been
asked for, and bring the number of any quote that exists. Contents that are put back
count as other contents.

`VersionedQuotes` is the abstract specification: who saves a quote has been
given the version that is replaced or insists on overwriting it, a save keeps
the status, a change of status keeps the contents, and a revision's figures may
be settled late. `KeepsPromise` is the refinement: `rows` is version, status and
header of `db`; `given` are, for each tab, the versions in its list, in the lists
the saves of its pages began with and in the replies on their way to it; `insisting`
are the pages whose forced save has not been written.

| Run | Instance | Shows |
|---|---|---|
| `quote_saves` | one tab with two pages that save, copy and delete, two families, versions up to 2, two rows, one lost reply or failed count, pages and families symmetric; 853 000 states | `TypeOK`, `OneQuotePerContents`, `KeepsPromise` |
| `quote_manage` | two tabs of one page: one saves, one revises, deletes and marks as sent; one family, versions up to 3; 833 000 states | `WholeUnlessRevised`, `KeepsPromise` |
| `quote_lost` | two tabs of one page that save, one row, versions up to 3 | `NoSilentOverwrite` fails (finding) |

Why the bounds are enough: a conflict is between two writers of one row, and an
overlap between two saves, which two pages have whether they are of one tab or of
two; version 2 is the first that a stale save or change of status can miss, and
version 3, the one `quote_manage` goes to, is what it would wrongly write, and
the first a revision can meet; `quote_saves` stops at 2, where inserts, refusals
and dialogs already meet; two families and two rows are what a save repeated after a
lost reply, or a copy, needs. `quote_manage` has two bounds of its own
(`MCQuoteEditing`): no page is left (`NoneLeft`: a tab there has one page), and the
tab that saves nothing has no older version in its list (`ManagersUpToDate`: of that
list only `Delete` reads anything, and only which quotes are in it). A copy of a
half-made revision needs both families and version 3, and two revisers who draw the
same number need a second one: both are covered by the proofs alone.

Simplifications: figures, customers and sites are left out, contents are told
apart by the version they were written at; the page's query cache and the list
in the store are one list, and a late reply would only make the list older;
`quote_status` is that of the live types (`schema.types.ts:9976`), not the older
enum of `schema.sql:22`; a quote is not deleted and another given the same number
with the same version. Expiry is left out: no code sets `valid_until`. Nobody
waits for anybody here, so no liveness is claimed.

Finding of `quote_lost`. `schema.sql:725-730` says "Version used for optimistic
locking" and "On mismatch (0 rows updated): refetch → show conflict to user", and
`QuoteSaveModal.tsx:514` "This quote has been modified by another user since you
loaded it". The version compared is that of the list in the store, and the shell
copies every refetched list into it without reloading the contents: after a
refetch the next plain save replaces the other user's version without a dialog.
`KeepsPromise` is what does hold.

## 6. CalculatorStore

The calculator of one browser. Its figures are stored, not derived: every handler
changes inputs first and then decides what to compute again, and master data,
drafts, presets and quotes arrive between the user's acts. `store` is one record.

| Field | Code |
|---|---|
| `loaded`, `catalogue`, `structures` | `dbLoaded`; the master data, and the part of it that follows the page (`SetDeferredData`) |
| `preset`, `equipment`, `state`, `type` | `selectedSystemId`, the panels, inverter and structures chosen, `selectedState`, `projectType` |
| `scheme`, `rpc` | `selectedSubsidySchemeId`; whether `rpcSubsidy` is null or the 0 of "no subsidy" |
| `inputs`, `itc`, `overrides`, `disabled` | margin, discount and so on; the tax credit; the presets whose rows were edited or switched off |
| `figures`, `gone` | `calculationResult`, by what it was computed from; the message that the preset no longer exists |

The handlers are compositions of operators on the record, in the order of the
code: `SelectSystem` is `Chosen` (or `Blocked`), `Repicked`, `FetchRpcSubsidy`;
`Fetched` replaces the catalogue, `Repicked`s the scheme and ends in `Settled`,
which selects the first preset if there is none, blocks one that is gone and
otherwise computes again.

| Actions | Code |
|---|---|
| `PickPreset`, `PickState`, `PickScheme`, `ChangeEquipment`, `ChangeInput`, `ToggleItc`, `OverrideRows`, `SwitchRows` | `selectSystem`, `setState`, `setSelectedSubsidySchemeId`, the equipment setters, `setItcEligible`, `setRowOverride` and its likes |
| `RestoreDraft`, `LoadPreset`, `LoadQuote` | `loadDraft`, `handleSelectPreset` (`CalculatorClient.tsx`), `loadQuote` |
| `FetchMasterData`, `FetchFails`, `RefreshMasterData` | `fetchMasterData` by the shell, its failure, and after a signal |
| `SetOfflineData`, `SetDeferredData` | the data of the rendered page and what is streamed after it |

Run `calculator`: five presets (plain, commercial, two generated, one custom),
two states, two schemes, four catalogues, three snapshots, edited rows of one
preset at a time in each list (`FewRows`); 167 000 states. `FiguresCurrent`: the
figures are those of the present inputs and master data. `ChoiceKept`: no
arrival replaces the user's preset. `SubsidyWithheld`: the 0 of another project
reaches a residential one only with what is put back or the first master data.
`RowEditsStay`: rows edited in one table change the figures of another in three
named ways only. Each hazard is between two presets, two catalogues or two
projects; the four catalogues are one with everything, one without the preset or
the scheme chosen, one of generated presets and an empty one; the snapshots
are a project of either type and one with no preset. The theorems cover the rest.
Nothing is claimed to happen in the end: the actions are clicks and arrivals.

Simplifications: figures are told apart by what went into them, not computed (the
engine is a function of them; an error of it counts as figures, and the scheme
that `applySubsidy` would switch off is one of the inputs); equipment is that of a
preset or one put together by hand; each handler is one step, because it runs to
its end in the browser's one thread once the data is there; `Home` stands for
`system.stateName` and the map of states; the settings' own presets (`Custom`)
are a constant that is empty in this repository; the figures do not depend on the
backup load.

What the exceptions in the properties stand for is real. After a preset vanished
and was blocked, the next change of equipment assigns the first preset
(`subsidyStore.ts:46`) with the edited rows of the old one, although
`calculatorTypes.ts:616` says "Never silently switch to another preset". A refresh
after a signal takes the blocking message away again. `loadQuote` leaves `rpc` as
it is, so a residential quote opened after a commercial project shows no subsidy.
`setItcEligible` does not compute again. A draft that is restored late replaces
what was chosen meanwhile. Not modelled, because nothing calls them: `setProjectType`
(`calculationStore.ts:518`), `setRateMaster` (`:589`), `reset` (`:672`) and the
variants of `projectStore.ts`, `loadVariant` (`:62`) among them; a `setProjectType`
that was called would end in a calculation like `PickState`, a `loadVariant` would be
another of the acts that put a snapshot back. Not modelled either: a signal that
arrives while a refresh is under way is dropped (`CalculatorClient.tsx:334`), so the
master data may stay older than the signal.

## 7. DraftAutosave

The one draft of a user, between the tabs of one browser.

| Variable | Code |
|---|---|
| `draft`, `lastId` | the user's row of `draft_quotes` |
| `token` | `ACTIVE_DRAFT_TAB_KEY` in `localStorage`: its owner and whether its ten seconds last |
| `tab` | the calculator of each tab: contents, `currentDraftId`, timer, status shown, restore and quote in progress |
| `requests`, `orphans` | saves on their way, of pages that exist and of pages that are gone |
| `writer` | history: who changed the row last |

`Debounce`, `TimerFires`, `Retry`, `Serve`, `Answered`, `Failed` are
`useCalculatorAutoSave` with `saveDraftQuote`; `RestoreRead`, `Restored`,
`RestoreFails` are `loadDraft`; `QuoteSave` to `QuoteFinished` the deletion of the
draft once its contents are a quote; `Open`, `Leave` and `Exit` what becomes of
timer, token and requests when a page comes and goes.

Run `drafts`: two tabs, one of them saving quotes, one edit, one save on its way
per tab, two openings, one trouble (a failed or orphaned save, a failed restore,
or a quote); 950 000 states. `SavedUnlessTaken`: "Saved" on the screen means
that the row holds these contents, unless the token was another's, somebody else
has written or the named row was deleted with a quote. `ChangesAreStored` is its
liveness counterpart. Two tabs are what a token, and a row, are contended by; the
theorem covers any number of edits and tabs.

Fairness: weak fairness of each tab's timers, requests and answers together.
Timers fire, the server answers, and a failure is told; editing, retrying and
closing are never required.

Simplifications: the test of the token and its renewal are one step
(`localStorage` is not atomic between processes, so two tabs might both pass it);
a tab's saves are served in the order they were sent; one restore at a time per
tab. What the exceptions in `SavedUnlessTaken` stand for is real: a restore that
failed leaves an empty calculator whose next save overwrites the draft
(`CalculatorClient.tsx:322`).

## 8. PasswordResets

The reset requests of one member. `requests` are the rows in order of creation;
`asking` the forms between the look for a pending request and its creation;
`reviews` what each review is about to do. `Approve`, `Mail`, `MarkLinkSent`,
`Audit` are the calls of `approvePasswordResetRequest` in order, `MailFails`,
`MarkFails`, `AuditFails` lead to `RollBack`, `ApproveFails` ends it (that write
is outside the `try`), `Abandon` is a server that dies or a roll-back that
fails. Every failure may happen before or after the call had its effect.

Run `resets`: two forms, two reviews, two requests, one failure; 308 000 states.
Two are what a check-then-write race takes; one failure reaches each failing
line. `UndisturbedDecisions`: the status tells which mails were sent, unless two
reviews overlapped or a call failed. `OnePendingUnlessHurried`: requests double
up only when forms overlap or a review put one back. `ApprovalsSettle`: a request
does not stay `approved` unless its review was cut short.

Fairness: weak fairness of each review's next call, which no person has to make;
asking, reviewing and failing are never required. That the exceptions are needed
says what the code does not guarantee: the status is read before the first write
and every write names the row by id alone, and a failed audit record puts back a
request whose mail is sent.

## 9. ActiveSession

The one active session of an account. `active` is `profiles.active_session_id`,
`starter` who asked for each session, `browser` the login, cookie and pages of
each browser, `starts` and `check` the calls of session-start and session-check
under way.

`SignIn`, `Heal` and `Send` begin a session-start, `StartServed`,
`StartAnswered`, `StartRefused`, `StartLost` are its outcomes; `CheckSent`,
`CheckServed`, `Superseded`, `Heal`, `CheckOver`, `CheckLost` are
`SessionHeartbeat.tsx` with `session-check` (the login page's own check goes the
same way); `SignOut`, `RevokeOthers`, `LetGo`, `Recover` and `GoOn` are the sign-out of
the sidebar, the profile page, the Auth client and the recovery link. `Passes`
is the comparison of the licence guard.

Run `sessions`: two browsers, two logins, recoveries or sign-outs, one lost
call; 586 000 states. `OneBrowserPasses`, `SupersededByAnother`,
`RefusedIsSettled` (a browser that is refused gets through, or lets go of its
login). Two browsers and two logins are what crossing replies take; the safety
properties are proved for any number.

Fairness: weak fairness of each browser's heartbeat (it runs every 25 seconds
while a page is open), of its session-starts and of the Auth client's refresh.
Logging in and signing out are never required.

Simplifications: sessions are numbered in the order they were asked for, Supabase
Auth is external, a sign-out whose request fails and cookies that expire are left
out, and so is the guard's test of the licence. The global sign-out of a
superseded browser (`SessionHeartbeat.tsx:48`) also ends the login of the
browser that superseded it, though `login/page.tsx:70` says the account was
"logged into from another device": `SignedOut` has this behaviour.

## 10. Procurement

Requests that become orders, and the receipt of goods, between pages with stale
lists and forms.

| Variable | Code |
|---|---|
| `orders` | `proc_purchase_orders` with `proc_po_items` and the keys of `proc_goods_receipt_notes`; history of what the notes add up to and were made from |
| `page` | the state of `app/procurement/page.tsx`: list, selected row, form, loads in progress, open dialogs |
| `call` | the server call each page waits for; a receipt holds the row lock between `CreateGrn` and `CommitGrn` |

`CreateRequest`, `FetchData`, `ClickRow`, `ClickReceive`, `ClickGenerate`,
`ItemsArrive`, `ItemsFail`, `CloseConversion`, `CloseReceipt`, `Decide`, `SubmitConversion`,
`SubmitReceipt` are the handlers of the page; `ApprovePR`, `RejectPR`,
`ConvertPrToPo`, `Refused`, `Duplicate`, `CreateGrn`, `CommitGrn` what the
database does; `Answered`, `Failed`, `Lost` how the page learns of it.

Run `procurement` (module `MCProcurement`): two pages, two lines of quantity at most
one, two requests, three selections, three calls, one trouble, pages and lines
symmetric; 4.4 million states. The first request asks for both lines, a second one
for some only (`SomeLines`, to bound the run; the proofs have no such bound). Two
lines are what a partial receipt takes, two requests what a form
loaded for another row takes, three calls a conversion with two receipts. The
properties: `ReceivedAddsUp` (overlapping receipts lose nothing),
`OverReceivedIfStale`, `GoodsForOrders`, `StatusTellsReceipts`; each names the only
way the code lets it go wrong: a form older than another receipt, a form that
opened over another row, an order generated again. The page's remark that a
receipt is idempotent (`page.tsx:815`) holds for one click: a retry gets a key of
its own (`page.tsx:234`).

The lists of a page are read again at any time ("Refresh", `page.tsx:370`), and each
dialog has its own X, which also works while its call is on the way.

Simplifications:

- One call per page at a time. Only the receipt has `useOnceClick`
  (`page.tsx:256`); approve, reject and convert (`:173-224`) have no such guard, and
  one page can send several of them. To the database two calls of one page are what
  two calls of two pages are, which the run and the proofs have; what is left out is
  that the second answer then closes a dialog of the same page.
- Quantities are natural numbers. The form (`page.tsx:709`) and the table
  (`202607070001_audit_gap_remediation.sql:315`) accept a negative one too. The
  receipt form of such an order cannot be sent (the field's `max` is below its `min`,
  `:826-827`), so it never gets a receipt.
- The two lists of the page are read at once, and those read last arrive last; a
  reloaded page is another page; a call that was given up is not served later.
- Lines name no catalog item, because the page sends none, so the branch that moves
  stock and posts a journal is not reached; vendors, dates and rates are left out;
  the initial state has one approved request.

Nothing is claimed to happen in the end: every step is a click.

## 11. What is proved

For every value of the constants, checked by TLAPS. Each module has one
inductive invariant from which its properties follow; the properties alone are
not inductive, because they do not say what an operation under way has read.

`SeatLicensing_proofs` (assumption `SeatConstants`: people, keys, requests and
handlers are finite, people and keys distinct, limits positive):

- `RequestTyping`, `TypeCorrect`: types, and a request in progress has a key.
- `RedemptionSafety`: `RedemptionInv`. The count of a key's uses was taken before
  the commit, so the invariant adds that the lock of a key and the lock of the
  organisation have one holder (`KeyExclusive`, `OrgExclusive`), that what a
  holder found of its key stays true until it commits (`HeldKeyUsable`), that the
  account whose rows were inserted exists and gets no other profile
  (`InsertedFresh`), and that while an
  election is pending no other elected owner is active (`ElectionPending`). From
  it: `MaxUsesRespected`, `OneElectedOwner`, `RedeemedAreMembers`,
  `RevokedKeysAdmitNobody`, `RedeemedAccountsStay`.
- `IssuedAreProvisioned`, from `ProvisionSafety`: `ProvisionInv`. A batch is handed
  out after its last key, so the invariant says that each key of it is still
  complete and what the phases before have done for the key in hand. The lemma
  `KeysKept` carries it past everybody else's steps: what the account of a key has
  been given is never taken away.
- `RedemptionAtomic`: the refinement of `KeyAdmission`, operation by operation
  (`RedeemMapped`, `HandlerMapped`, `RestMapped`). Besides `RedemptionInv` it needs
  `AdmissionInv`: an elected owner is linked to a key, a redemption names a key
  that was handed out, and no key is handed out before it is made.
- `OversellIsBounded`: the members, plus the inserts that were counted and are
  not visible yet, never exceed the limit by more than those that can be counted
  before each other.

`SubscriptionLifecycle_proofs` (assumption `LifecycleConstants`):
`LifecycleInvariant`, `IInv`: types, one current row, and for the SQL job: it has
selected one row per organisation at most (so writing them all at once cannot
make two current) and what it expires is past its grace, now and later. From it:
`LifecycleTypes`, `NeverTwoCurrent`, `GraceAgrees`.

`QuoteEditing_proofs` (assumption `QuoteConstants`):

- `QuoteTyping`: types, what an operation holds by how far it has got
  (`OpsInProgress`), and identities given out in order (`RowIds`). With
  `LeftTyping` it gives `QuoteTypes`.
- `OneQuote`: `CopiesInv`. Of the pages of a tab that were not left one at most is at
  work (`OneShown`), numbers in calculators and saves were drawn (`FamiliesUsed`), and
  for each tab (`InHand`): nothing of the contents is a quote yet while a page that
  was not left makes its first save of them, and once something is, the calculator
  has a number or the save that will set it is still in hand. Saves that were left may
  do to `activeQuoteId` and the list what they like; the proof needs only that they
  end in a number that exists.
- `PromiseKept`: the refinement. Besides `Typing` it needs
  `SameVersionSameStatus`: while the row still has the version that a plain save
  compares, its status is the one the save has read and will write back. Each
  step maps to a step of `VersionedQuotes` or a stutter, operation by operation.
- `QuotesWhole`: `WholeInv`. A revision being made has one maker and a row of its
  own (`MakersApart`), and unless it was disturbed its items are those its maker
  has written (`PartsInHand`).

`CalculatorStore_proofs` (`PresetsAssumption`, `CataloguesAssumption`,
`SnapshotsAssumption`): `StoreSafety`: `StoreInv`, which is `TypeOK`,
`FiguresCurrent` and that the catalogue has no presets before `loaded`. The third
is needed because the streamed part (`SetDeferredData`) sets `loaded` without
computing again: the presets the figures are looked up in change from the
settings' to the catalogue's at that moment. What the operators do is stated once,
each by a lemma over any record (`Recalculation`, `Blocking`, `Repicking`,
`Assigning`, `Fetching`, `Choosing`, `Selecting`, `Settling`, `Arriving`), and the
steps cite these. From it: `StoreTypes`, `FiguresAreCurrent`, `ChoiceIsKept`,
`SubsidyIsNotWithheld`, `RowEditsAreKept`.

`DraftAutosave_proofs` (`DraftConstants`): `DraftTypes`, `ShownIsStored` from
`Accounts`: of a page's saves only the oldest can have been served and the last
one has the page's contents (`QueueOK`), so contents that are settled are
stored, taken, on their way or in error (`ContentsOK`).

`PasswordResets_proofs` (`ResetConstants`): `ResetReviews`, `DecisionsStand`,
`OnePending`, `ResetTypes` from `ResetInv`: what a request looks like at each step
of its one review (`Reviewing`, `Alone`), and that no undisturbed request is
pending while a form that looked is about to create one (`AskingOK`).

`ActiveSession_proofs` (`SessionConstants`): `SessionKnowledge`, `OneDevice`,
`SupersededOnlyByAnother`, `SessionTypes` from `SessionInv`: cookies and calls name
sessions of their browser (`CookieOK`, `StartOK`), and a browser whose calls did
not overlap knows the newest session it asked for (`Orderly`).

`Procurement_proofs` (`ProcurementConstants`): `ProcurementFits`, `ReceiptsAddUp`,
`OverReceipts`, `ReceiptsOfOrders`, `StatusTold`, `ProcurementTypes` from
`ProcurementInv`: what a receipt has read under its lock stays true (`LocksHold`),
a form shows its order as of the note it was read at (`PageFits`, `CallFits`), and
an order's lines, notes and status agree (`OrderOK`).

Only model-checked: liveness, which is out of the prover's reach
(`RedemptionsEnd`, `LapsedIsEnded`, `ChangesAreStored`, `ApprovalsSettle`,
`RefusedIsSettled`).

## 12. Not modelled

In the licensing: `adminChangeUserRoleAction` and the triggers that copy roles,
plans and feature overrides, `validateActivationKey` (it only reads), accounts
orphaned by a failed connection beyond what `RedeemFail` leaves, the maintenance
scripts that rewrite the tables. No job selects past-due rows, so nothing is
claimed of their end.

The other components, with the reason (also in `PROJECT.json`):

- Inventory ledger and FIFO valuation: only the confirmation of a site receipt is
  called by a page, the other transitions and the valuation by tests alone; next
  in the plan. A dispatch is one SQL function, which does not look at
  `qty_reserved`.
- Device binding: `registerDevice` is called by tests alone, so no device is ever
  bound and no access depends on a reset.
- Offline synchronisation: nothing mounts the hook that would call the route, so
  there is no copy to compare with the tables.
- Accounting: a journal entry is one database call.
- Caches, rate limiter, passkeys: counters and read-through copies over data that
  single statements change, or calls of a library.
- Calculation engine: arithmetic on decimals over price lists and equipment
  tables, out of the reach of a model checker over small integers.
- Master data, presets, user interface, PDF, reports, scripts: forms over rows of
  their own, rendering, and scripts run by hand.
