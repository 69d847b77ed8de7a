# A formal model of Flowtona's identity-service

TLA+ modules for the part of the repository that has code: the domain models
and in-memory repositories of `src/apps/services/identity-service/app`, and the
concurrent requests that will run on top of them. TLC checks the modules on
small instances; TLAPS proves every safety property of the passing runs, and
four refinements, for every instance.

All paths below are relative to `src/apps/services/identity-service/app/`
unless they start with `src/`.

## 1. Inventory

The monorepo names many services; at this commit every application, package
and service other than identity-service consists of empty files, and inside
identity-service so do the routes (`api/v1`), most services, schemas, `auth/`,
middleware and `main.py`. What runs is this:

| Component | State | Operations |
|---|---|---|
| Store (`repositories/in_memory/store.py`) | one `asyncio.Lock`, twelve dicts | none of its own; shared by the six repositories |
| Refresh tokens (`in_memory/refresh_token_repository.py`, `models/refresh_token.py`) | table by id, index by hash, index by family | `create`, `get_by_token_hash`, `mark_rotated`, `revoke_family`, `revoke_all_active` |
| Email verifications (`in_memory/email_verification_repository.py`, `models/email_verification.py`) | table by id, index by token hash | `create`, `get_by_token_hash`, `mark_consumed`, `revoke_pending_for_user` |
| Invitations (`in_memory/invitation_repository.py`, `models/invitation.py`) | table by id, index by token hash | `create`, `get_by_token_hash`, `mark_accepted` |
| Users (`in_memory/user_repository.py`, `utils/email.py`) | table by id, index by normalised email | `create`, `get_by_id`, `get_by_email`, `update` (whole record) |
| Memberships (`in_memory/membership_repository.py`) | table by id, index by (user, tenant), list by user | `create`, two lookups, `update` (whole record) |
| Tenants (`in_memory/tenant_repository.py`) | table by id | `create`, `get_by_id` |
| Permissions (`services/permission_service.py`, `constants/`) | none | pure: user + membership -> set of permissions |
| Hashing (`security/hashing.py`) | none | `hash_password` (a new salt every time), `verify_password`, `hash_token` |
| Configuration (`core/config.py`) | none after start-up | reads the environment |

**Interaction.** The repositories share nothing but the lock: no method calls a
method of another repository. Requests compose them, awaiting one method after
another. Every lookup returns a deep copy, so a request decides on a snapshot.

**What is atomic.** A writing method takes the lock and awaits nothing while it
holds it; a reading method takes no lock and awaits nothing. On the single
event loop each method body therefore runs without interruption (`store.py`
32-41 says as much), and *one method call is one action*. Interleaving, and
cancellation, happen between calls only. Nothing is persisted: a crash is a new
empty store, and no crash action is modelled.

**Where it is hard.** (a) A request acts on a snapshot that another request has
made stale. (b) A promise that spans two calls (revoke, then issue; accept, then
join; create a tenant, then its owner) has no transaction behind it. (c) A sweep
rebuilds rows one by one through validating constructors and stops at the first
row that is refused: the docstring of the `replaced_by_token_id` validator
records that this did go wrong once. (d) A row lives through several methods
(rotate, revoke, revoke again) that must not overwrite each other's record.
(e) Indexes are written next to tables by hand. (f) `update()` of a user or a
membership stores the caller's whole record, built from a copy. (g) The user and
the membership that a permission check is given come from two lookups of
different ages. `PROJECT.json` lists every hazard at its line under `hazards`.

**What correctness means, per component.**

- *Refresh tokens*: indexes agree with the table; rows are coherent; sweeps
  are exact and never stop half way; a row's past is permanent.
- *Sessions*: one usable token per family among those that clients hold; an
  ended family stays ended; the tokens of a family form one chain.
- *Email verifications*: a token is consumed at most once, never after its
  revocation, and after a resend only the newest is alive.
- *Invitations*: accepted at most once, inside their validity.
- *Users, memberships*: unique by email / by (user, tenant); an update that no
  other overtakes loses nothing; the indexes keep pointing at the right record.
- *Permissions*: an answer is what was held at some moment while its two records
  were looked up.
- *Signup and acceptance*, each two or three calls without a transaction: what
  is left behind by a refusal, a cancellation or a race is never a membership
  that nobody was admitted to, nor a tenant opened for a refused user.
- *Logins*: a decision is right for some moment since the lookup.
- *The lock*: a method is one step for everybody, and every call ends.

## 2. Modules

| Module | Models |
|---|---|
| `Repository` | dicts, replies and errors, shared by all repositories |
| `RefreshTokens` | the refresh-token repository and `RefreshTokenRecord`, under arbitrary calls |
| `RefreshSessions` | concurrent login, refresh, reuse detection, logout and logout-all over `RefreshTokens` |
| `RefreshSessionsProofs` | theorems about `RefreshTokens` and `RefreshSessions` |
| `SessionChain` | abstract: what a family of refresh tokens promises its client |
| `EmailVerifications` | the email-verification repository and `EmailVerification` |
| `EmailResends` | concurrent signup, resend, verify and password change over `EmailVerifications` and `Users` |
| `EmailResendsProofs` | theorems about `EmailVerifications` and `EmailResends` |
| `Invitations` | the invitation repository and `Invitation` |
| `CredentialLedger` | abstract: a one-time credential, told by its hash |
| `Users` | the user repository and the three forms of an address, under arbitrary calls |
| `Memberships` | the membership repository and its three dicts, under arbitrary calls |
| `Tenants` | the tenant repository |
| `Repositories` | the four repositories `Users`, `Memberships`, `Invitations` and `EmailVerifications` under arbitrary calls, for one run |
| `RepositoriesProofs` | theorems about `Repositories`, and so about `Users` and `Memberships` |
| `Permissions` | the role mapping, the soft gate and `PermissionService`, as operators |
| `Accounts` | concurrent requests that read, change and store users and memberships, a verification that counts in all of a user's memberships, and permission checks on copies looked up in either order |
| `AccountsProofs` | theorems about `Accounts` |
| `Signup` | concurrent signups over `Users`, `Tenants` and `Memberships` |
| `SignupProofs` | theorems about `Signup` |
| `Acceptance` | concurrent acceptances over `Invitations` and `Memberships`, in both orders, with a clock |
| `AcceptanceProofs` | theorems about `Invitations` and `Acceptance` |
| `Logins` | concurrent logins and password changes over `Users` and the password hash |
| `LoginsProofs` | theorems about `Logins` |
| `StoreLock` | the lock, its queue, and all methods of `RefreshTokens` statement by statement |
| `StoreLockProofs` | theorems about `StoreLock` |
| `MC...` | model values and bounds for TLC |

The repository modules have the same form. Each dict of `store.py` is a variable
of the same name, a function on the set of its keys. Each method is one action
for the call that succeeds and one (`...Raises`) for the calls that fail, with
the guards in the order of the code; `reply` holds what the last call returned
or raised. A lookup changes nothing and is an operator that the request modules
read. A record is built through `New...`, rebuilt through `Rotated`, `Revoked`,
`Consumed` or `Accepted`, and every build passes the operator `Valid...`, which
is what the Pydantic validators accept. A sweep chooses the set `done` of rows
it rebuilt: all of them, or, if a row in scope would be refused, any set that
leaves such a row out (the iteration order of a set is unspecified).

Callers of a repository module are unrestricted: they may pass any argument at
any time, so what holds there holds for every service that will be written.
The request modules restrict them to what the Protocols' docstrings prescribe.
A task has a program counter and the fields of the snapshot it goes on to use;
between any two awaited calls every other task may run, and the task may be
cancelled (`Abandon`). Those tasks model code that is not written yet, and
`PROJECT.json` marks them external. Neither in-memory methods nor the lock of an
uncontended store ever suspend a task, so whether two calls of one request are
really apart depends on what else it awaits (a hash in a thread, an e-mail, the
PostgreSQL repositories that the Protocols prepare); the request modules allow
every interleaving that the Protocols do. A raw refresh token is *delivered* when the
request that made it has succeeded, and only delivered tokens are presented.

**Abstractions.** UUIDs, hashes, users, tenants, families and roles are model
values; a fresh `uuid4` is an id not used before. Addresses are left out of
`EmailVerifications` and `Invitations`, which copy but never read them; a
malformed one shows as a `ValidationError` that `create` may raise. Time is a
small set of integers. In `Users` an address has three forms: the spelling a
client submits, the key that `normalise_email` (strip, lower-case) makes of it,
and the address that the `EmailStr` field stores for that key, or its refusal.
The last belongs to Pydantic and email-validator and is a constant function; the
instance has two spellings of one key, a second key (a display name in front)
stored as the first, another address, and one that is refused. The display name
and the timestamps of users and memberships are copied and never read, and left
out. `MaxVersion` bounds `permissions_version`, an unbounded integer in the
code that the repository copies and never computes with. A password hash is a
pair of a password and a salt, which is all that `verify_password` can tell of
the hashes that `hash_password` made, and no other is stored: its answers to
malformed hashes, and the errors of Argon2 that it does not catch, do not arise.
A token hash is the token itself: `hash_token` is deterministic, and taken to be
injective. `Permissions` keeps one permission of each kind that the code tells
apart (an owner's, a manager's, everybody's; gated or not). The wall clock may be set back and timestamps come from
callers, so every call picks its instants freely. Comparing a naive with an
aware `datetime` (a `TypeError`) is not modelled.

## 3. Runs

| Run | Instance | Shows |
|---|---|---|
| `refresh_tokens` | 3 ids, 2 hashes, 2 families, users and tenants, instants 0..1 | indexes agree, rows stay coherent and rebuildable, history is permanent, family sweep and logout-all are exact |
| `refresh_sessions` | 4 rows, 2 families, 2 tasks, one owner | one usable token, ended stays ended, chains, refinement of `SessionChain` |
| `repositories` | 3 rows in each of four repositories, 2 users, 2 tenants, 5 addresses, instants 0..2 | indexes, validators, spellings, list order, exact revocation, refinement of `CredentialLedger` by both token tables |
| `email_resends` | 3 issues to one user, 3 tasks | a lone resend leaves only the newest token and only that can be consumed |
| `accounts` | one user, two memberships, 2 tasks, version up to 1 | an answer was held at some moment between its lookups, user first it never grants more; an update nobody overtook loses nothing |
| `signup` | 3 users, tenants and memberships, 2 tasks, fair | no tenant for a refused user, every tenant gets its owner |
| `acceptance` | 2 invitations, users, tenants, memberships and tasks, instants 0..1, fair | what each order of the two calls promises |
| `logins` | 2 users, one with two spellings, 3 tasks | decisions are right for some moment since the lookup |
| `store_lock` | 2 rows of one family, 2 tasks, fair | the lock makes every method one step of `RefreshTokens`, both sweeps included; lookups without it are safe; every call ends |
| `refresh_expiry` | 2 ids, 1 hash | *violated*: finding 1 |
| `email_overlap` | 2 rows, 2 tasks | *violated*: finding 2 |
| `late_verification` | 2 rows, 2 tasks | *violated*: finding 3 |

**Bounds.** Two instants tell valid from invalid expiry, and "rotated before
expiry" from "at it"; `repositories` has a third, so that an acceptance can fall
before, at and after an expiry. Two rows show every relation between two rows
that a sweep or an index has to tell apart (same or other user, tenant, family).
Four rows and two tasks let two refreshes of one token race, one win, and the
session go on. Three issues by three tasks let two overlap and a third run alone
afterwards. Three memberships in two users' lists give one list of two entries,
whose order matters, next to another list, and leave free pairs as well as taken
ones. Three users meet all the pairs of addresses above. No method reads another
repository's dicts, so `repositories` need not mix calls to several of them: the
variable `called` picks one for the whole behaviour. The ids of `refresh_tokens`
outnumber its hashes so that a successor can be an id that has no row, as
`mark_rotated` allows. In `accounts` one task can overtake the other any number
of times, also between its two lookups, and both records can change there; two
memberships let a verification count in more than one, and a change of one come
between. With one tenant's membership a request does not touch another's, and
no second user's records at all, so more of them would only add records that
stay as they are. One count of `permissions_version` tells a counted change from
an uncounted one; a request that would count further does not take that step.
Two invitations to two tenants let one user race
with another for one invitation, or accept both. In `store_lock` two rows make a
sweep a loop of two rounds; that a sweep keeps to its family, or to its user and
tenant, is a matter of `RefreshTokens`, and the refinement is proved for any
number of them. The state graphs are finite because
ids and hashes are never reused; a system that has used them up goes on refusing
calls, except in `acceptance`, where nothing can be asked without a pending invitation
and deadlock is not checked. Symmetry is used in
runs of safety properties only, over values that no definition tells apart.

**Fairness.** `Signup`, `Acceptance` and `StoreLock` assume weak fairness of
`Resume(t)`, for every task: what comes next in a call or a request that has
begun. It is what asyncio gives: a task whose awaited call has returned, or whose
turn in the queue of the lock has come, is ready, stays ready, and is run. No
fairness is assumed of clients, who need not begin anything; of cancellation,
which may or may not come; or of the clock. Nothing in this code retries, so
where a request may be cancelled the property says "unless its own request was
cancelled", which a history variable records. All other properties are safety
properties, also the four refinements.

**What the conditions in the properties mean.** Some properties hold only under
a condition, and the condition is where the code promises less than one might
think.

- `LoneUpdatesLoseNothing` speaks of updates that nobody overtook. `update()`
  compares nothing but the id and the fields the indexes are keyed by, so of two
  overlapping updates the later one takes the earlier one back: a password
  change can store `email_verified = False` again, and two changes of a
  membership can count as one, or set `permissions_version` back. Both models of
  requests, `Accounts` and `EmailResends`, let that happen.
- `AnswersWereHeld` leaves out answers for which both records changed between
  the two lookups: such a pair may never have existed together, and in the order
  membership first it can grant what was never held, the old membership with the
  new verification. `UserFirstNeverGrantsMore` says that in the other order it
  cannot, unless a lost update takes a verification back in between. Neither
  says that an answer is still right when it is used. `permission_service.py`
  leaves the order to its callers.
- `LoneResendEndsOlderTokens` is about consumption. Verifying comes before it,
  and `mark_consumed` is the only call that looks at the status then: finding 3.
- `LoginsAreDecidedRight` allows a login by the password of its lookup when a
  change has stored another since.
- `EveryMemberWasAdmitted` holds when the invitation is marked accepted first.
  In the other order two requests can both create their membership before
  `mark_accepted` refuses one of them, and no method takes a membership back.
  Then `NothingAcceptedInVain` is what holds. In the first order a cancelled
  request can use an invitation up without a membership
  (`AdmittedBecomeMembers` leaves it out). No order gives both.
- `EveryTenantGetsItsOwner` leaves cancelled signups out: one that is cancelled
  before its last call leaves a tenant without an owner.
- `EndedStaysEnded` is about tokens that clients hold. `create` does not look at
  the family, so a refresh under way during `revoke_family` leaves an active row
  in the ended family whose token is never handed out.
- `LoneResendLeavesOnlyNewest` speaks of resends that overlap no other issue:
  finding 2 is what happens otherwise.

**`StoreLock` allows more than the code does.** There every statement may be an
await point, which none is today; that is what `store.py` adds the lock against.
A call inside the lock is not cancelled, since it awaits nothing there.

### Findings

1. `models/refresh_token.py` 14-15 says that expiry "is checked against
   expires_at at lookup time". Neither `get_by_token_hash` nor `mark_rotated`
   looks at `expires_at`; a token is rotated at or after its expiry unless a
   caller, of which there is none yet, compares.
2. `repositories/email_verification_repository.py` 45-47 says that revoking
   before issuing means "an old token can't be used after a newer one has been
   issued". The two are separate calls; if two issues overlap, both tokens stay
   pending. `LoneResendLeavesOnlyNewest` is the promise that does hold.
3. The same sentence fails without any overlap. `mark_consumed` is called "after
   the corresponding User has been marked email_verified=True" (36-37 of that
   file) and is the only call after the lookup that looks at the status. A
   request that found the old token pending marks its user verified after a
   resend has revoked it and issued the newer one; the refusal comes too late.
   `LoneResendEndsOlderTokens` is the promise that does hold.

## 4. Theorems

Every safety property of a passing run, invariant, action property or
refinement, is also a theorem, proved for every value of the constants: sets of
ids, hashes, users, tenants, families and tasks of any size, any integers as
instants, any spelling and any `EmailStr`.

| Module | Theorem | States |
|---|---|---|
| `RefreshSessionsProofs` | `TypeCorrect` | `Spec => []TypeOK` |
| | `IndexesAlwaysAgree` | `Spec => []IndexesAgree` |
| | `RowsAlwaysCoherent` | `Spec => []LifecycleCoherent` |
| | `RebuildsAlwaysValid` | `Spec => []RebuildsAreValid` |
| | `HistoryAlwaysPermanent` | `Spec => HistoryIsPermanent` |
| | `FamilySweepAlwaysExact` | `Spec => FamilySweepIsExact` |
| | `LogoutAllAlwaysExact` | `Spec => LogoutAllIsExact` |
| | `SessionsTypeCorrect` | `SessionsSpec => []SessionsTypeOK` |
| | `NeverTwoUsable` | `SessionsSpec => []AtMostOneUsable` |
| | `EndedAlwaysStaysEnded` | `SessionsSpec => []EndedStaysEnded` |
| | `ChainsAlwaysWellFormed` | `SessionsSpec => []ChainsWellFormed` |
| | `SessionsImplementChain` | `SessionsSpec => ImplementsSessionChain` |
| `RepositoriesProofs` | `StoreTypeCorrect` | `StoreSpec => []StoreTypeOK` |
| | `MembershipIndexesAlwaysAgree` | `StoreSpec => []IndexesAgree` |
| | `JoinOrderAlwaysStable` | `StoreSpec => JoinOrderIsStable` |
| | `EmailIndexAlwaysAgrees` | `StoreSpec => []EmailIndexAgrees` |
| | `SpellingsAlwaysFindTheirUser` | `StoreSpec => []SpellingsFindTheirUser` |
| | `TokenIndexesAlwaysAgree` | `StoreSpec => []TokenIndexAgrees` |
| | `TokenRowsAlwaysValid` | `StoreSpec => []RowsStayValid` |
| | `InvitationsAcceptedInTime` | `StoreSpec => []AcceptedInTime` |
| | `RevocationsAlwaysExact` | `StoreSpec => RevocationIsExact` |
| | `InvitationsAreOneTime` | `StoreSpec => InvitationsImplementLedger` |
| | `VerificationsAreOneTime` | `StoreSpec => VerificationsImplementLedger` |
| `SignupProofs` | `TenantsAlwaysHaveAUserEach` | `SignupSpec => []TenantsNeverOutnumberUsers` |
| `AccountsProofs` | `LoneUpdatesNeverLoseAnything` | `AccountsSpec => LoneUpdatesLoseNothing` |
| | `AnswersAlwaysWereHeld` | `AccountsSpec => []AnswersWereHeld` |
| | `UserFirstIsAlwaysSafe` | `AccountsSpec => []UserFirstNeverGrantsMore` |
| `LoginsProofs` | `LoginsAlwaysDecidedRight` | `LoginsSpec => LoginsAreDecidedRight` |
| `EmailResendsProofs` | `LoneResendAlwaysLeavesOnlyNewest` | `ResendsSpec => []LoneResendLeavesOnlyNewest` |
| | `LoneResendAlwaysEndsOlderTokens` | `ResendsSpec => LoneResendEndsOlderTokens` |
| `AcceptanceProofs` | `MembersAlwaysAdmitted` | `AcceptanceSpec => []EveryMemberWasAdmitted` |
| | `NothingEverAcceptedInVain` | `AcceptanceSpec => []NothingAcceptedInVain` |
| `StoreLockProofs` | `LookupsAlwaysFindTheirRow` | `LockSpec => []LookupsFindTheirRow` |
| | `LockMakesMethodsAtomic` | `LockSpec => ImplementsMethods` |

There is one proof module for each module of requests, for `Repositories` and for
`StoreLock`. The theorems about a token repository under arbitrary calls stand in
the proof module of the requests that run on it, before those about the requests:
`TypeCorrect`, `TokenIndexAlwaysAgrees`, `RowsAlwaysValid`,
`RepositoryImplementsLedger` and one more each in `AcceptanceProofs` (invitations)
and `EmailResendsProofs` (email verifications). `RepositoriesProofs` and
`StoreLockProofs` instantiate those modules for the lemmas about one call.

**Assumptions**, all of which TLC evaluates in the runs. Instants are integers
and `None` is none of them (`TimeAssumption`, `InstantsAssumption`). `None` is no
refresh token's id or hash (`NoneAssumption`), no id or user of the other
repositories (`UuidAssumption`, `TaskAssumption` of `EmailResends`), no task
(`TaskAssumption` of `StoreLock`). Normalising makes a spelling of a spelling
(`NormalFormAssumption`), normalising twice is normalising once, and `EmailStr`
makes an address or `None` of every key (`AddressAssumption`). `MaxVersion` is a
natural number (`MaxVersionAssumption`). A safety property of a fair specification is
proved of the same specification without fairness, which implies more.

**The arguments.** Each specification has one inductive invariant, which TLC
checked on the instances of section 3 as well.

*Refresh tokens* (`IInv`): the typing of the store, the finiteness of the table,
`IndexesAgree` and `LifecycleCoherent`. None of the four could be proved alone:

- `mark_rotated` reaches its row through the hash index, so it keeps the table
  typed only if the index names existing rows; and `create` keeps the index
  right only if a hash that is not indexed is in no row.
- `LifecycleCoherent` is stronger than the validators, which let an active row
  carry a `revoked_at` or a `rotated_at`. The validators alone do not give
  `HistoryIsPermanent`: rotating an active row that carried an earlier
  `rotated_at` would overwrite it.
- Coherence makes every rebuild valid (`RotatedIsCoherent`,
  `RevokedIsCoherent`), so a sweep always completes (`SweepCompletes`). The
  three facts about sweeps (they keep the invariant, keep history, and revoke
  exactly their scope) start from that lemma.
- Finiteness makes the count that a sweep returns a natural number.

*Sessions* (`SInv`): `IInv`; what each task remembers of the row it looked up is
still true, and the row it has created for itself is undelivered, in the same
family, and active as long as the row it replaces (`TasksInv`); a family has one
owner, one delivered token without a successor, and links that lead from
delivered tokens to delivered tokens (`ChainsInv`). `AtMostOneUsable` follows
because only the token without a successor can be active. The hypothesis that
sweeps by family and by owner cover whole families is `OneOwner`. The refinement
maps a rotation that is handed out to a step of `SessionChain`, and a `create`
whose token nobody gets to a stutter.

*Memberships* (`MembershipsInv`): the pair index leads to every row and only to
its own pair, and each user's list enumerates that user's rows without
repetition. `IndexesAgree` alone is too weak, since a missing pair and an id
that is `None` look alike in it. *Users* (`KeysAgree`): a user is stored under
the normal form of the spelling it signed up with and under no other key;
`EmailIndexAgrees` does not say which key, and is not inductive. *Invitations*
and *email verifications* (`IInv`): typing, index agreement, and coherent rows;
the agreement is what makes a change of one row a change of one hash, and so a
step of `CredentialLedger`. Calls share the reply and nothing else, so each
invariant is carried over the calls to the other repositories.

*Resends* (`RInv`): unless the last revocation for a user overlapped an issue, at
most one request is about to issue to that user, and while one is, nothing is
pending (`OneIssuer`). *Acceptance* (`AInv`): accepting first, whoever is about to
join was admitted; joining first, whoever is about to accept has joined, and no
two of them for one membership.

*Signup* (`SignupInv`): the tenants, together with the requests that are about to
make one, do not outnumber the users. Without the second term the count is not
inductive. *Accounts* (`AccountsInv`): the indexes lead to rows of the right pair;
a copy equals the stored record unless its task is overtaken, or, between the two
lookups, unless that record is among those that changed; and what is held now is
among the moments remembered. For the answer that is still to come, the invariant
says what it would be with the record not yet looked up as it is now: held at
some moment, as long as one of the two has not changed. User first, the copy
knows of no verification that the stored user does not have, and so the answer
stays within what is held at the second lookup. *Logins* (`LoginsInv`): the password behind
the hash in a copy is among those known since the lookup.

*The lock* (`LInv`): the invariant of the repository holds of the store as the
holder found it (`Seen`); one task is inside and none waits twice; and the
difference between the store and what the holder found is what its program
counter says: a row without its hash, a row without its family entry, or the
sweep of exactly the rows it has seen, or no longer has to do (`Creating`,
`Rotating`, `Sweeping`, `SweepingAll`). That the constructors never refuse a
rebuilt row, so that no method leaves half way, is the invariant of the
repository again. From
it every statement but the last is a stutter of `RefreshTokens`, and the last is
the whole method. A lookup that takes no lock is safe because at no statement
does the hash index name a row that is not in the table (`HashesFindRows`).

**Only model-checked**: liveness (`EveryTenantGetsItsOwner`,
`AdmittedBecomeMembers`, `EveryCallEnds`), which is out of the prover's reach.
The three findings are counterexamples, which TLC exhibits.

## 5. Not modelled, and why

- *Configuration* (`core/config.py`) is read once at start-up and never written.
- *Token hashing* is a deterministic function of the token; the repositories see
  its values only.
- *The domain model base* (`models/base.py`) configures Pydantic; what a
  constructor refuses is in each repository's `Valid...` operator.
- *The restructuring script* moved files once.
- *Routes, services, middleware, other applications* are empty files. The
  request modules model what the Protocols' docstrings require of them; what
  they will do beyond that is not guessed at.
- *Crashes*: nothing is persisted, so a restart is a new empty store.

Some hazards have no property, because the code lets them happen and no text of
the repository promises otherwise. `mark_consumed` compares no expiry, and
nothing says who should. A resend that fails between revoking and creating
leaves the user without a live token until the next resend. A refresh that is
cancelled between its two calls leaves an active row whose token nobody holds.
Of two overlapping updates of one record the later takes the earlier back. And a
login that is under way goes by the password of its lookup.

What `Users` does not claim: that stored addresses are unique. The index keeps
keys unique, and two keys may be stored as one address; `EmailIndexAgrees` says
exactly what does hold.

## 6. Plan

Every safety property of a run is proved. What would strengthen the project
further, in order of weight:

1. The mapping `Methods` for the other repositories: `StoreLock` has the
   statements of the refresh-token repository, whose methods write three dicts.
2. A model of the requests once the services are written, in place of the ones
   derived from the Protocols; the repository theorems carry over unchanged.
3. `EveryCallEnds` as two safety lemmas, that the holder always has a step and
   that its remaining steps decrease, which the prover could reach.
