# Signet platform: a TLA+ verification project

The Signet platform is the developer console of a threshold-signing network:
organizations and the people in them, apps, the signing group behind each app,
the keys and login issuers that group trusts, and the usage it is billed for.
The truth about groups is on chain and the truth about keys is with the nodes;
the truth about people and apps is in Postgres.  A Go server (`src/backend`)
stands between them, and a Next.js console (`src/web`), which signs on-chain
calls in the browser, in front.  This directory models the parts whose
correctness depends on what overlaps with what.

## 1. Inventory

| Component | State | Operations | What is hard | What makes it correct |
|---|---|---|---|---|
| Organization membership (`store/orgs.go`, `api/handlers_orgs.go`, `auth/guard.go`) | `org_members`, `org_invites` | change a role, remove, invite, revoke, accept | every statement is its own transaction except in AcceptInvite; roles read once per request | an owner remains; an invitation lets in one person; writes were authorized |
| Apps and group binding (`api/handlers_group.go`, `handlers_apps.go`, `handlers_onchain.go`, `store/apps.go`) | `apps`, the factory, the bundler's mempool | create, promote, archive, deploy, attach | a deploy waits up to 90 s on the bundler between its decisions and its write; old transaction hashes | one app per group; only a manager links; sponsorship is for development, and bounded |
| Group mirror and promotion (`syncGroup`, `SyncAllGroups`, `checkEnvironmentChange`, `store/nodes.go`, `policy/policy.go`) | `app_nodes`, the summary in `apps` | sync, timer, attach, promote | reads torn over several calls, writes in separate transactions, several syncs at once, a DELETE that does not see another's INSERTs | promotion on a real composition; the mirror settles |
| Credentials and issuers (`handlers_apps.go`, `store/apps.go`, `syncGroup`) | `app_credentials`, `app_issuers` | create, revoke, upsert, remove, adopt, reconcile | chain first, mirror second, syncs in between, old hashes | "active" is never invented; the mirror settles |
| Usage metering (`handlers_misc.go`, `store/usage.go`) | `usage_events`, `usage_daily` | ingest a batch, roll its days up | concurrent batches at READ COMMITTED, map order, retries | a rollup counts what was recorded, and catches up |
| Key inventory (`wallets/page.tsx`, `store/keys.go`) | the nodes' keys, `app_keys`, `app_users` | fetch or paste, sync, enable, disable | nodes first, platform second; old, partial, pasted or empty inventories; overlapping syncs | disabled means disabled on the nodes; no silent wipe; the counts follow the keys |
| Console session (`web/providers`, `web/lib/provision.ts`, `session-key.ts`, login pages) | a token shared by tabs, a signing session per tab, `users` | both sign-ins, provisioning, refresh, sign-out | asynchronous functions that go on after the token changed hands | the right user, the right key on the right row |
| Screen hooks (`web/lib/hooks.ts`) | a query's generations and data, an action's latch | ask, refresh, answer, click | answers out of order, clicks before a redraw | the screen answers its question, once |
| On-chain actions of the console (`web/lib/onchain.ts`, `wallet-tx.ts`, group, credentials and login methods pages) | the group's manager and keys, the mirror row, the page | choose a transport, sign or send, wait, record; syncs of the platform | the page is old by the click; receipts come late; a sync writes what it read long ago | nothing doomed is sent; gone from the screen means gone from the group |
| App wizard (`apps/new/page.tsx`, `web/lib/deploy.ts`) | form, step, run, created apps | navigate, select, deploy, attach, retry | several requests, each may fail; late operations | what is live is what was reviewed |
| Console forms (`SettingsForm.tsx` and the pages that save a form) | form, dirty flag, stored document | fill, type, upload, save, read again | typing during a save, saving before a load, somebody else's save | untouched fields keep their values; "saved" is true |
| Login and sessions of the server (`handlers_auth.go`, `store/users.go`) | `auth_challenges`, `users`, tokens | challenge, verify, certify, record a key | whose row a key is recorded on | in Console session |
| User operation guard, environment policy (`userop`, `policy`) | none | validate an operation; decide a move to production | decoding, paymasters | the platform pays only where it said it would |
| Webhooks (`webhook/dispatcher.go`) | `webhook_deliveries` | emit, deliver, record | one deadline shared by all endpoints and the recording | every attempt is recorded |
| Billing, node registry and probes, background jobs (`store/billing.go`, `handlers_marketplace.go`, `cmd/server/main.go`) | invoices, health samples | draft, probe, sync, prune | timers under one context | a draft reflects usage; no job starves another |
| Staff overview, configuration, storage, HTTP plumbing, chain ABI decoding, components, marketing and documentation pages | - | - | - | read-only, pure, or layout |

How they interact: handlers call `store` methods on a shared connection pool
(READ COMMITTED, one transaction per call unless a method opens its own), call
the chain and the bundler over HTTP in the middle of a request, and start
webhook goroutines at the end.  `startBackgroundJobs` runs `SyncAllGroups` on a
timer against the same tables.  There is no lock shared between requests: what
protects a table is a conditional UPDATE, a unique index, a row lock or nothing.
The console asks the nodes and the chain by itself and tells the platform
afterwards, so that a change there is several requests from a page whose data is
as old as its last read; its tabs share one token and nothing else.

## 2. Modules

| Module | Models |
|---|---|
| `OrgMembership` | one organization: roles, invitations, the guard, and every statement of SetMemberRole, RemoveMember, CreateInvite, RevokeInvite, AcceptInvite |
| `AppLifecycle` | abstract: what an app's life is, whoever asks |
| `AppGroup` | apps, the factory and the mempool, and the requests that create, promote, archive, deploy and attach; shown to implement `AppLifecycle` |
| `AppPromotion` | one app: the chain's operators, the cached membership, every writer of that cache, and the promotion decided on it |
| `MirrorSettling` | `AppPromotion` from the moment disturbances stop, for liveness; `MCMirrors` puts `TrustMirror`, which has such a moment of its own, beside it |
| `TrustMirror` | one app: keys and issuers on chain, their mirror rows, the half of syncGroup that reconciles them, and the handlers that write both |
| `UsageRollup` | batches of usage as transactions: insert, one SELECT and one upsert per day, commit or rollback |
| `ConsoleSession` | one browser: its tabs, their signing sessions, the shared token, and the pages' asynchronous functions, await by await |
| `ScreenQuery` | one mounted `useQuery` and one `useAction` |
| `OnchainActions` | one group seen by one tab: its manager, its keys, the mirror row, calls from click to record, and the platform's syncs that rewrite the rows meanwhile |
| `AppWizard` | the wizard: form, navigation, and the run of `deploy` with the platform's part of it |
| `ConsoleForms` | any page that saves a form, and the document behind it |
| `KeyInventory` | the wallets screens of several developers, the nodes, the lists they post, and SyncKeys statement by statement on `app_keys` and the counts |
| `MC*` | the instances TLC explores.  `MCStatements` holds OrgMembership, AppPromotion and UsageRollup, `MCMirrors` the two mirrors, `MCConsoleScreens` the five screen modules: each behaviour follows one of the parts, while the others rest in one state |
| `*Proofs` | theorems, checked by TLAPS, about the module of the same name; `StatementsProofs` and `ConsoleScreensProofs` about the two compositions and those of their parts that have no module of proofs of their own |

The server's modules use one shape.  `req` (`batch` in UsageRollup) holds a
record per request slot: a program counter and the handler's local variables.
Each statement or chain call is one action of that slot, guarded by the program
counter, so any two requests interleave exactly between statements.  `Abandon`
(`Rollback`) ends a request anywhere: a database error, the router's timeout, a
client that leaves, a restart.  What a request has already written stays, except
inside the transactions of AcceptInvite, ReplaceGroupNodes, RecordUsage and
SyncKeys.  The console's modules
are built alike: `job`, `run`, `attempt`, `call` and `save` are the pages' functions, one
action from one `await` to the next, and `Fail` is any request that is refused or
whose answer is lost - after which what it did on the server stands.

History variables (`redeemed`, `staleWrite`, `past`, `wasDev`, `met`, `fresh`,
`wasMet`, `served`, `mixed`, `onMixed`, "again" in `trust`, `overtaken`,
`switched`, `steady`, `misread`, `misled`, `stale`, `wrong`, `drifted`, `touched`,
`seen`, `again`, the wizard's `apps`) record what the code does not, for the
properties only, and no guard of the code's reads them; except that `past`-like
facts on chain are what old transaction receipts really offer.

What is abstracted, module by module:

* `OrgMembership` - one organization (they share no rows); developer and viewer
  are one role, since no handler here tells them apart; the owner count is kept
  as "more than one", all the code compares; the token of an invitation is its
  identity.
* `AppGroup` - one transaction per operation (a bundle of several is left out);
  group creation is sponsored (`SponsorGroupCreation`) and the chain is
  configured; operator checks and roles may end a request, as `Abandon` does; a
  group is the createGroup call that makes it, so its address is fresh.
* `AppPromotion` - only operators outside O'Leary Labs, since the policy counts
  nothing else; pending nodes, thresholds and archived apps are left out;
  `members` of a group may be anything when it is first seen.  ReplaceGroupNodes is
  a transaction at READ COMMITTED in two steps.  `DeleteGroupNodes` fixes the rows it
  takes; `newer` are the operators with rows that others have committed since, which it
  has not seen.  `InsertGroupNodes` puts the snapshot beside those rows; where the
  two share an operator, the primary key makes the transaction fail (`Conflict`).
  The waits between the two are left out: they end in one of these outcomes, or
  in a deadlock, which is `FailSync`.
* `TrustMirror` - client IDs are the Boolean "the same as recorded"; a user
  operation is an `Add` or `Remove` of the chain followed by `Confirm`, which
  also accepts an old hash, as confirmTransaction does; `Rows` bounds the rows
  `app_credentials` may come to hold, each statement is atomic.
* `UsageRollup` - a rollup stands for the set of events it was computed from,
  of which its figures are functions; a batch posted again is a batch of other
  rows, as in the table; TouchAppUser, in the same request, only stamps a user.
* `ConsoleSession` - people are those who sign in, a wallet is named by the
  person who holds its key; a signing session is its key's namespace and the
  identity stored beside it; messages, proofs and certificates are taken to
  verify.  What `/v1/me`, the verifications, certification and recordSignetKey do
  to a session and a row is part of the actions named after them.
* `ScreenQuery` - a question is what the dependencies ask for; an answer is
  named by its question and by how often the server's data had changed.
* `OnchainActions` - keys and membership changes (issuers follow the keys'
  path); a key is generated for one registration; the operation's nonce, gas and
  hash are left out.  A sync is one read of the group's keys (`ReadGroup`), then the
  statements that write it (`AdoptAuthKey`, `SyncAuthKeyStatuses`), however much later.
  handleRevokeCredential reads the row (`ReadRow`), decides whether it wants proof, and
  revokes it later without another look (`Confirm`, `DropRow`).  The group turns a
  call down for its sender or for a key it has not (`Takes`); its other reasons, a
  removal that is queued already or whose time has not come, are left out, so that
  `RevertsOnlyAfterHandover` is about the sender and the key only.
* `AppWizard` - "Try again" (`page.tsx:685`) calls `deploy` without an address in both
  modes, as the code does; the directory has loaded and lists operators of the platform's
  own category; whether a name, an issuer or an address is there, not what it is.
* `ConsoleForms` - a field is blank, its page's default, or something else, so
  that the whole difference between "not stored" and "stored as the default" is
  there; each page's defaults are those of its source.  The proofs are for any
  pages; `FormPages` gives TLC one field of each kind of each of the nine.
* `KeyInventory` - what the nodes hold changes at any time; a screen with two
  dialogs at work is two screens.  The list that is posted is any list (`Fetch`): the
  nodes' answer, a part of it, or a pasted one; `wrong` are the keys of which it never
  said what the nodes held.  SyncKeys is its statements: upserts, the UPDATE that
  marks what is missing (the rows it sees as it begins, each looked at again after a
  wait), the count, the commit; rows written stay locked until then (`Locked`).  Who
  owns which key (`Owner`) is a constant: for TLC one person has them all.

## 3. Runs

| Run | Instance | Shows |
|---|---|---|
| `statements` (passes) | 2 users, 2 requests, 1 invitation; or 1 group, 2 outside operators, both needed, 1 request and the timer; or 2 days of 3 rows, 2 batches | types; the last owner goes only by an overtaken check; an invitation admits one; writes are authorized; joining needs an invitation; promotion, followed while the app is in development, only on operators that were there; rollups never overcount and catch up |
| `last_owner` (violation) | the first of these | two overlapping demotions leave no owner, against the comment in `store/orgs.go:148` |
| `app_group` (passes) | 2 users, 2 requests, ceiling 1; two apps and a group, or an app and two groups | types; one app per group; sponsorship only for what was a development app; only a past manager links; the handlers implement `AppLifecycle` |
| `sponsor_ceiling` (violation) | 2 users, 2 apps, 2 groups, 2 requests, ceiling 1 | a person gets more sponsored groups than `config.go:128` allows |
| `production_gate` (violation) | the promotion instance | a production app on a group without the operators, against `policy.go:25` |
| `mixed_members` (violation) | the promotion instance | an app is promoted on the union of two snapshots, on operators no group ever had together, against `store/nodes.go:347` |
| `mirrors` (passes) | 2 groups, 1 operator; or 1 group, 1 key, 1 issuer, 2 rows; 1 request and the timer | types; "active" was trusted; promotion only on operators that were there, also when a group replaces another under a sync; the cached membership and the trust mirror settle |
| `hidden_key` (violation) | the second of these | a key the group trusts may stay hidden, against `store/apps.go:534` |
| `usage_lag` (violation) | 2 days of 3 rows, 2 batches | a rollup lags its events, against `store/usage.go:27` |
| `console_session` (passes) | a wallet user, a Signet user, 2 tabs, 2 functions | types; one owner per wallet; a certificate's identity is kept; keys on the right row, the right user on screen and good tokens kept, but for answers another sign-in overtook |
| `console_screens` (passes) | 2 questions, 4 generations, 2 changes; or 1 key and membership, 2 calls, 1 sync; or 2 operators, 2 attempts; or the 9 forms, one field of each kind; or the inventories below | types; answers fit the question, never go back, and come; one action at a time; calls revert only after a handover; a trusted key goes only by a misread row; thresholds possible, the live app as reviewed or tried again; untouched fields kept, clean when loaded; disabled on the nodes, no silent wipe, counts that follow the keys |
| `add_key` (violation) | the same | a key is registered with the group and not recorded, against `credentials/page.tsx:356` |

Why the bounds are enough.  Every race of the server is between two requests, or
a request and the timer: two slots and, where the timer counts, one slot and the
timer.  Losing the last owner needs two owners; a stolen group two developers
and two apps; an overwritten binding one app and two groups - `app_group` takes
both, by its constraint `OneOfEither`, and not their product, in which nothing
else can meet.  A torn membership takes two operators or two groups.  A lost
rollup takes two batches and one day, a deadlock two days in both orders, and
catching up a third batch after them, for which each day has a third row.  In the console two
functions suffice for every answer that another overtakes, and two tabs for
every token that changes hands; the two kinds of user sign in by different code.
A query goes through four generations to be superseded by a change of question (two
generations at once) and by a refresh; a late and an early answer to one
question differ by a change of the data.  Fields of one form do not read each
other, so that one with a default, one without and one with a file stand for
all.  Two calls on a key, one late, meet every order of calls; calls about keys and
about members are followed apart, since the two pages share no state but the
manager, and while a sync is under way one call at most is (`FewAtOnce`): what a
sync leaves behind, a misread row, is there for the second call.  The wallets
screens are followed in three ways: two developers and one key, one of whom may
sync; one developer and two keys, of which a list may leave one out; two lists posted
at once (`OneKey`, `OneScreen`, `Lists` in `MCConsoleScreens`).  A partial list needs
the second key, overlapping syncs the second list, and a change under a sync the
second developer; their product holds no further pair, and the theorems
cover it.  `statements` follows a promotion until it has happened, since
`PromotedOnComposition` is about that step; `mirrors` follows it on, in an organization
whose plan is paid, with another group in the place of the first.
The theorems below state every safety property for every size.  The trust mirror
has one group here; with several the sync of a group no
longer linked is the same stale snapshot again, and `ActiveTrusted` is proved
for any number.  Symmetry is used only in runs without liveness.  Runs with
`CHECK_DEADLOCK FALSE` have bounded supplies (apps, group addresses, rows,
generations, attempts) or an end (`calm`): there the system may really have
nothing left to do.

Fairness.  `MirrorSettling` and `TrustMirror` assume weak fairness of each
request's own steps - every database and chain call is under a deadline, so a
request does not stop in the middle for ever - and of the timer starting its
job, which `loop` in `cmd/server/main.go` does on an interval for as long as the
process lives.  Nothing is assumed of people, the chain or the bundler.  Both
liveness properties say what holds once disturbances cease: `calm` becomes true
at some moment nobody can see, and after it nobody joins, leaves, links or asks,
and reads succeed; without such a moment no mirror ever settles.  In
`MirrorSettling` promotions, demotions and syncs still go on after it.
`ScreenQuery` assumes that each request of a query is answered or fails, which
the browser guarantees if nothing else does; `LoadingEnds` needs no calm.  The
generations of a query are bounded, so that a run which is superseded again and
again, for ever, is not among its behaviours: of such a one it says nothing.

## 4. Findings

* The last-owner check is not atomic (`last_owner`).  `OwnerKeptUnlessOvertaken`
  shows that this is the only way it fails.
* The sponsorship ceiling is a check before a 90-second wait, over the apps the
  caller created (`sponsor_ceiling`).  A lost or late operation is not counted
  either.
* Only the move to production is gated (`production_gate`): creating an app
  there, or replacing its group, is not.
* Replacing the cached membership locks nothing (`mixed_members`): a second DELETE
  that overlaps the first replacement does not see the rows it has yet to commit, and
  two snapshots without a common operator both stay.  In TLC's trace the timer read
  the group before its one operator gave way to another, and the promotion afterwards.
  `PromotedOnComposition` is what the gate does guarantee: while the cache is the
  promotion's own, its group had the operators while the request was served; while it
  is any one sync's, some group has had them; and mixed, each operator counted has
  been in some group.  `MirrorSettles` shows that the next sync repairs the cache.
* Adoption looks for a row with the key, revoked or not (`hidden_key`,
  `apps.go:540`), while statuses and lists leave revoked ones out: a key the group
  trusts whose row was revoked in the database alone, or before the key was added
  again, is shown nowhere.  `TrustSettles` shows the screens are right for every other
  row.
* Overlapping batches leave a rollup behind its events (`usage_lag`), until the
  day's next batch.  `CatchesUp` shows that one repairs it and `NeverOvercounts`
  that it errs on one side only.
* The credentials screen sends its whole proof as the value of `user_op`
  (`credentials/page.tsx:375`), and the handler rejects unknown fields, so adding
  a key always fails (`add_key`); from the developer's own wallet the group
  trusts the key by then, and its private half has never been shown.

The passing properties say where the console's guards end: `RecordedWalletIsOwn`,
`ShowsWhoIsSignedIn` and `TokenKeptWhileGood` have as their one exception an
answer that another sign-in overtook, `CleanWhenLoaded` a retry that overtakes
the read after a save, `UntouchedKept` a form saved before it loaded or after
somebody else's save.  `GoneFromBoth` has one too: a sync that read the group before
a key was added marks its row removed (`apps.go:422`), and handleRevokeCredential
then asks for no proof, so that the row goes while the operators accept the key.
`LiveAsReviewed` has the wizard's "Try again": after a pasted group could not be linked
it deploys a new one, of operators left selected on a step that mode never shows,
although the review said that linking changes nothing on-chain (`page.tsx:42-47`,
`559-562`).  `NoSilentWipe` lists what wipes keys unasked: an old answer, a partial or
pasted list, an empty one from a screen that had not loaded.  `CountsFollow` names, as
`drifted`, the three ways in which the users screen disagrees with the keys screen,
although `keys.go:163-164` says it never does: the last key gone, a deleted key
enabled again, a sync that counted before another committed.

## 5. Theorems

All proofs are for arbitrary sets of users, apps, groups, keys, issuers, people,
tabs, batches and requests; they assume only that the "none" values and the timer
are outside those sets, and what else is named below.

* `OrgMembershipProofs` - `TypeCorrect`, `InviteOnce`, `OwnerKept`, and the action
  properties `WritesAuthorized` and `Joins`.  The invariant says of a claim in
  progress that its invitation is open and no other request holds a claim on it
  (the row lock), so that its commit is the first; of a request past its count
  that, unless its `stale` flag is up, the owners are still those it counted; and
  of one past the guard that the actor has held the rank its write asks for since
  the request arrived (`Earned`), whatever became of the actor meanwhile.
* `AppGroupProofs` - `TypeCorrect`, `OneApp`, the action properties `Sponsored` and
  `Linked`, and `Refinement`: `Spec` implements `AppLifecycle`.  The invariant adds
  that a request in flight is about an app and a user that exist, that a waiting or
  linking request holds a group and a linking one a live group (which is why a
  deploy must see the receipt first), that a pending operation has a sender, and
  that a missing row names no group.  `HistoryInv` says what a request was told: one
  that was granted sponsorship has seen its app in development, and one about to
  link has seen its user manage the group, which nothing undoes (`PastKept`).
* `AppPromotionProofs` - `TypeCorrect`, `Promotion`: the action property
  `PromotedOnComposition`.  The invariant `Good` follows the evidence through a
  promotion: enough operators in its group now, in the snapshot it holds, or in
  the cache it filled, each mean that its witness is up; `Witnessed` does the
  same for the cache, while it is not `mixed`, and the history of all groups, and
  says that every operator in the cache has been in some group.  A commit beside no
  newer row leaves exactly its own snapshot, which is what `fresh` and `mixed` tell.
  It rests on one lemma about
  cardinality (a larger set of operators is still enough), and on `MinExternal`
  being positive and the set of operators finite.
* `TrustMirrorProofs` - `TypeCorrect`, `ActiveTrusted`.  `ActiveWasTrusted` is not
  inductive: a sync writes from a snapshot.  The invariant `Sound` says of every
  request that what it has seen was trusted by its group at some time (what was
  once added stays so), and that a key about to be recorded as active was.
* `ConsoleSessionProofs` - `TypeCorrect`, `OneOwner`, `IdentityKept`, and the
  three action properties `OwnWallet`, `ShowsSignedIn`, `TokenKept`.  `SessionInv`
  says of every function that awaits the session, the key or its recording that
  it works for the person the token names, unless the token has changed hands
  since; and that each way of signing in verifies its own kind of user.
* `AppWizardProofs` - `Reachable` and `Live`, for any finite set of operators and
  any bound on the attempts.  `WizardInv` adds that a run holds the page on its
  last step (which is why the header's steps must be closed meanwhile), and that
  between signing and the end the app of the run carries the operators and the
  threshold of the form, and that in the mode of linking only "Try again" signs.

* `StatementsProofs` - of the usage `NotMore`, and `Recomputed`: the action
  property `CatchesUp`.  `RollupInv` says of a batch that every rollup it has
  computed is of recorded events or its own, and of all of them unless the day is
  marked `overtaken`, and that each of its days has been computed or is still to
  be; `NeverOvercounts` survives a commit because the batch's own events are
  recorded in it.  Of the composition that `statements` checks, `EachBehaves`: it is
  a behaviour of each of the three specifications; hence `StatementsTypeCorrect`
  and `StatementsPromise`, which state for `StatementsSpec` every property of that
  run.  AppPromotion reaches the composition under other names, so its proofs are
  instantiated there too (`Checked`) and its definitions shown to be the same.
* `ConsoleScreensProofs` - each of the screens, then their composition:
  - the query: `RightAnswer`, `SingleAction`, and `Forward`, the action property
    `NeverGoesBack`.  `QueryInv` says that the run of the latest generation carries
    an answer to the present question, no older than what the screen shows; that
    every run has asked something; and that the latch is set exactly while the one
    action runs;
  - a group's calls: `Reverts` and `Gone`.  `CallsInv` says that a call whose screen
    knew the manager is proved by the manager's account until the group changes
    hands; that a confirmed removal has taken the key out; and that a key is added
    by one call at most and only before the group ever trusted it, without which a
    late addition could bring a removed key back (`IncludeStep`); and that one whose
    removal needs no proof read a misread row, or a key the group had let go, which does
    not come back.  `RowsInv`: what a row, a screen or a sync holds of a key comes after
    the group's first trust in it, and a row that says removed of a trusted key is
    in `misread`;
  - a form: `Untouched` and `Clean`, for any pages of the shape the console's have
    (`FormPagesAssumption`).  `FormsInv` says that what the developer has not touched
    is as the screen loaded it, in the form and in the document on its way;
  - the wallets screen: `DisabledKnown`, `WipedKnowingly`, `CountsRight`, for any
    finite set of keys, whoever owns which.  `Informed` says that the list in a
    screen's hand still agrees with the nodes on every key, unless it is marked as stale
    or was wrong of that key; `CountsFollow` is its own invariant with `Counted`, which
    says that what a sync has counted is what it will leave, unless it is overtaken,
    and rests on the row locks;
  - together: `EachBehaves`, `ScreensTypeCorrect` and `ScreensPromise`, which state
    for `ScreensSpec` every safety and action property of `console_screens`.  The
    query is not in `EachBehaves`: one that is not on screen has ended, while its own
    behaviours begin with a read under way; its invariant covers both.

Every safety and action property of the passing runs is thus a theorem: those of the
trust mirror of `TrustMirror` itself, the others of the very specification the run
checks, or of the component that its composition follows.  Only
model-checked is the liveness, `MirrorSettles`, `TrustSettles` and `LoadingEnds`,
which rests on fairness and ENABLED and is out of the prover's reach; and, of the
runs that expect a violation, that the counterexample exists.

## 6. Plan

1. (built) The server's modules: `OrgMembership`, `AppLifecycle`, `AppGroup`,
   `AppPromotion`, `MirrorSettling`, `TrustMirror`, and their proofs.
2. (built) The console: `ConsoleSession`, `ScreenQuery`, `OnchainActions`,
   `AppWizard`, `ConsoleForms`, `KeyInventory`, and their proofs.
3. (built) Derived data: `UsageRollup` and its proofs; the two compositions.
4. Open: several apps under one `SyncAllGroups` deadline; bundles of several
   operations in one transaction; app secrets; a refinement of `TrustMirror` by an
   abstract mirror, and of the promotion by an abstract gate.

`PROJECT.json` lists the components, the runs, what each definition models line by
line, a mutated definition that each property catches, the hazards with the
properties that cover them, and the theorems.

## 7. Not modelled

* Cryptography (SIWE, FROST, certificates, OAuth proofs), ABI and user operation
  decoding: pure functions of bytes with tests of their own.
* Webhooks: a goroutine per event posts to each endpoint in turn, with no retry
  and no order promised, and nothing is read back.  All endpoints share
  30 seconds, the recording of the attempts included, so that after a few slow
  endpoints the rest are neither called nor recorded, although `dispatcher.go`
  says that every attempt is; and an event waiting in a goroutine is gone at a
  restart.
* Billing: a draft is a read of usage and one upsert; RecordBillingTransaction
  has no caller.  RollupDay, of a single day outside a batch, has none either.
* The node registry, probes and pruning: they append samples or delete rows that
  nothing else waits for or decides on.  The login challenge: one conditional
  UPDATE consumes it.
* The staff overview, configuration, HTTP plumbing, layout, static pages,
  descriptive fields of rows, audit entries and logs.

Seen while modelling, and not the subject of a run because no doc or comment
says otherwise, or because there is no state in which it would show:

* A 401 of `/v1/me` leaves the tab's signing session in place
  (`SessionProvider.tsx:62`), and nothing is read again after provisioning at
  login (`login/page.tsx:94`), so the console does not know the new wallet before
  the next load.
* The group page's invitation does not look at the action pending, and its
  buttons look at the signing session also where the developer's wallet is due
  (`group/page.tsx:234`, `252`, `327`).
* Overlapping user operations of one wallet fetch the same nonce
  (`userop.ts:109`); one of them is refused.
* A deploy ignores that the sync after it failed (`handlers_group.go:516`);
  saving the wizard's issuers, which counts on it, is then refused.
* The application's settings saved before they load move it to "development",
  where the form starts; the policy dialog keeps what another policy left in it
  (`policies/page.tsx:153`); a blank field of an app, an organization or an account
  leaves the old value, so that it can never be cleared.
* A node that posts a batch again, having lost the answer, has its events counted
  twice: nothing identifies an event.
