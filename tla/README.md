# CanvasFlow: specifications and proofs

TLA+ models of the parts of CanvasFlow where statements, sockets and processes
interleave: who is signed in, who may be on a board, who runs a workspace and
pays for it, what is kept of what they draw, and what a deleted account leaves
behind. TLC checks each model on small instances; TLAPS proves what matters
most of each of them for every instance.

## The system

CanvasFlow is a collaborative whiteboard. Browsers run the web app and the
editor; the **API gateway** keeps accounts, sessions, boards, workspaces and
billing in Postgres; the **sync server** (Hocuspocus and Yjs) holds the document
of each open board in memory, broadcasts edits and saves snapshots. Both
services and the web app share `packages/db`, whose `access/` functions are the
operations on the rows.

| Component | State | Operations | What is hard |
|---|---|---|---|
| Sessions (`auth/`, `password-reset/`, `account-security/`) | `auth_sessions`, `auth_session_tokens`, `users.password_hash`, `users.disabled_at` | sign in, rotate, rescue, revoke, change and reset a password, lock | every request is several statements; two requests hold one token |
| Board persistence (`sync-server/src`, `scripts/`) | the room's `Y.Doc`, `lastPersistedVector`, rows of `board_updates` | load, debounced store, skip, prune, unload, compact, backfill | saves overlap edits and each other; loads and saves fail; scripts rewrite rows under a live system |
| Offline cache (`editor/src/sync`) | an IndexedDB copy per user and board | hydrate, mirror, purge | holds documents older than the server's |
| Board access (`db/access/board-access.ts`) | `boards`, `board_members`, `memberships` | one decision function | many writers |
| Live re-authorization (`sync-server/src/auth`) | each connection's role and `readOnly` flag | authenticate, sweep, push | reads are awaited, sweeps overlap, pushes are lost |
| Sharing (`db/access/share-links.ts`, `access-requests.ts`, `board-roles.ts`) | `board_share_links`, `board_members` | make, redeem, revoke links; remove people | reads without locks between check and write |
| Workspaces (`workspaces.ts`, `workspace-members.ts`, `workspace-invites.ts`) | `workspace`, `memberships`, invites, ownership offers | create, invite, accept, remove, leave, offer ownership | most transactions lock the workspace row; creating a board, inviting and joining do not |
| Account deletion (`account-deletion.ts`, `account-purge.ts`) | `account_deletions`, locks, hidden boards | request, cancel, purge | a purge that fails half way; a restore racing it |
| Billing (`billing/`) | subscriptions, seats | checkout, webhooks, seat sync | events late, twice or out of order |
| Notifications (`notifications/`) | facts, deliveries | notify, digest | one delivery per event under concurrent runs |
| Verification, reset links, OAuth | single-use tokens, identities | issue, spend, link | double clicks, concurrent claims |
| Editor's token and socket (`useAuthToken`, `WebSocketSync`) | the board token, the mint under way, timers, the connection | mint, retry, schedule, connect, hear a notice, stop | callbacks and answers arriving after what they were about; notices lost with the socket |
| Editor, the rest (`useBoardSwitcher`, `tool-machine`, `comments`, `local`) | open board, tool state, threads | switch, draw, carry a local board over | callbacks arriving after the thing they were about has gone |
| Redis fan-out, presence, activity counter | rooms across processes, awareness, counts | relay, lock, flush | a lock loser's store is skipped |
| Images, embeds, library, link previews, exports, AI diagrams, plans, email | object storage, quotas | fetch, upload, count | mostly single rows and pure I/O |
| Canvas engine, UI, types, web pages, infra | geometry, wording | pure functions | none of this kind |

How they interact: the editor asks the web app or gateway for a five-minute
board token naming its session; the sync server checks session and access when
the editor connects, and the sweep repeats both questions every few seconds.
Routes that change somebody's access call `/internal/board-access` on the sync
server, once and advisorily; what the server then says reaches an open editor
down its socket, if it is up, and the editor mints a token that says the same.
The payment provider calls the gateway's webhook and is called back for seats.
The purge job works between Postgres and the object store. The scripts talk to
Postgres only.

`PROJECT.json` lists every component with its status, and each hazard at the
line where it bites with the properties that would catch it.

## The modules

| Module | Models | State and actions |
|---|---|---|
| `Sessions` | the gateway's sessions for one account | rows `session`, `token`, `account`; `request[r]` is where a request is and what it has read. Each database statement, or transaction, is an action |
| `BoardStore` | one board's document across memory, Postgres and IndexedDB, and the two scripts | `rows`, `room`, `vector` (lastPersistedVector), `due` (a store is debounced), `saving` (encoded, not yet committed), `cache`, `script` |
| `BoardAccess` | `resolveBoardAccess`, `canEdit`, `rank` | operators only |
| `LiveAccess` | one person's connections to one board against the database | `board`, `grant`, `standing`, `live` are the rows; `conn` the connections; `pass` the sweeps and pushes under way with what each has read |
| `BoardSharing` | one board's links and grants | `link`, `grant`, and `call`: the redemptions and link creations between their statements |
| `Ownership` | nothing in the code: what a workspace promises about who runs it, in five actions | `owners`, `members`, `offered` |
| `Workspace` | one workspace: members, boards, grants, invitations, the offer of ownership | rows `ws`, `member`, `board`, `grant`, `invite`; `lock`, the request holding the workspace's row; `call`, the requests in flight with what each has read |
| `AccountDeletion` | deleting an account over that workspace | extends `Workspace` with `request` (account_deletions), `job` (the purge) and `lost` (folders of the object store) |
| `Billing` | one workspace's subscriptions, plan and seats | `theirs` (the provider's), `ours` (the copies), `plan`, `members`, `wire` (webhooks unanswered), `work` (the gateway's handlers) |
| `EditorToken` | one tab on one board: its token and its socket | `token`, `mint`, `again`, `tries`, `timer`, `refusals` are `useAuthToken`'s; `socket`, `known`, `notices` the connection's two ends |
| `*_proofs` | - | the proofs about the module they are named after |
| `MCSessions`, `MCBoardStore`, `MCBoardSharing`, `MCWorkspace` | - | symmetry sets for TLC |

`LiveAccess`, `BoardSharing` and `Workspace` extend `BoardAccess`, so one
decision function serves all three, as in the code. `AccountDeletion` composes
with `Workspace`: its job and everybody else's calls take steps in any order over
the same rows. `Workspace` implements `Ownership` under the mapping `Own`, which
takes the owners and the members from `memberships` and the offer from the
workspace's row.

### What the abstractions keep

* **Sessions.** A refresh token is a model value: hashing and minting say only
  that a new one is fresh. Time is ticks with `GRACE < TTL <= CAP`, the order
  of the real windows. `issueSuccessor` commits in one step, except that a
  rescue's UPDATE takes its snapshot of unspent tokens (`BeginRescue`) before it
  commits (`Rescue`): under READ COMMITTED a row inserted meanwhile is not seen
  and a row updated meanwhile is re-checked. The transactions that replace a
  password are three steps: they take the users row (`ResetPassword`,
  `ChangePassword`, the latter if the hash is still the one that was checked),
  take the snapshot of the sessions to end (`EndSessions`), and commit
  (`CommitPassword`). The row keeps other updates of it out (`UsersRowFree`), but
  a sign-in reads it, and inserts a session, in between. Locking the account is
  one step: its `FOR UPDATE` makes the inserts of sessions wait as well.
  `changePassword` is modelled with a session to keep, as every current
  credential has one. `exchangedFor`, `provedBy`, `floor` and `slipped` are
  history variables.
* **BoardStore.** A Yjs document is the set of items inserted and the set of
  those deleted. Merging is union, and a state vector counts insertions only:
  both are what Yjs does. `saveSnapshot` commits in one step and rows are ordered
  by commit; really they are ordered by the transaction's start, and two
  concurrent prunes may keep an extra row, which the next save removes. Its
  bounds on size and its authors are left out. `IdleWindowPasses` stands for an
  hour in which no store is pending, since the longest debounce is half a minute.
  A board may start with rows of the removed HTTP append path (`Legacy`): deltas,
  more of them than the window. The backfill takes any board with more than one
  row and runs as often as it likes, up to `MaxRows` rows; one script runs at a
  time. That a store is scheduled as the last editor goes (`Disconnect`) and that
  a room goes once nothing is due or in flight (`Quiet`) is Hocuspocus's, and
  external in the map: `index.ts` only says what is done then.
* **LiveAccess.** The database changes atomically per route. A read by a pass
  and the application of what it read are two actions, and the next sweep may
  start in between. Listing connections, reading which sessions stand, and each
  connection's own check are separate steps of a sweep.
* **BoardSharing.** Lookup, the transaction's read of the grant, and its writes
  are three steps, because the read takes no lock. The routes' own access checks
  come before all of it and are not repeated, so operations may land on a board
  deleted meanwhile.
* **Workspace.** A transaction that begins with `SELECT ... FOR UPDATE` on the
  workspace's row is two actions: `Begin...` takes the lock and reads what the
  rest decides by, and the write commits and lets go. A refusal changes nothing
  and is no step. Creating a board, inviting and joining take no lock: they read,
  and insert later, and the insert waits for the row through its foreign key
  (`RowFree`). Redeeming a share link reads the grant and upserts it later, and
  waits for nobody. `strays` and `out` are history. `deleteWorkspace` and the
  invite routes decide by a role read before and not read again
  (`BeginDelete`, `BeginManage`), and what is done to a guest is done to the
  grants found as it began.
* **AccountDeletion.** What a request does to the account's sessions is in
  `Sessions`; here it looks at the workspaces the account owns (`AskDeletion`),
  and then locks the account and stamps its boards (`RequestAccountDeletion`).
  The lock it has on the users row keeps a second request of the account away;
  the inserts it would also hold up are allowed, which is more than can happen.
  An instant is the request itself, which is how a restore finds what that
  request hid. A run of the job takes the oldest `ACCOUNT_PURGE_LIMIT` requests
  that are due, in turn: one more may start while fewer than that are before it.
  A month is `GraceEnds`: nothing of before is still in flight, and invitations,
  which last a week, have run out unless sent again. A folder empties in one
  step or stops half-way (`StopPurge`). Statements of the erasing transaction
  that read what others may change meanwhile are separate steps.
* **Billing.** The provider is external. A checkout, the portal, renewals and
  failing cards change a subscription, and each change sends a webhook that
  carries it as it then is. Instants are a tick per change: ties are not
  modelled. A handler's statements are its steps; what it saved before it failed
  stays. Prices, cycles and the owner's standing at checkout are left out. Every
  snapshot names the workspace and sells a plan of the catalogue: those that do
  not are logged, answered, and change nothing.
* **EditorToken.** A token is the change it was minted after, what it says, and
  whether it has expired. What it says is a role, or that the board is archived,
  which is all that the board list is compared with. JavaScript callbacks run
  whole, so a step is a callback; requests, answers, notices and timers come
  between them. Five seconds without an attempt and the minute before expiry
  pass together (`Lull`). A tab reloaded keeps what `sessionStorage` has.
  `refreshNow`'s retries are counted, its waits are not timed.

## The runs

| Run | Shows | Bounds |
|---|---|---|
| `sessions_safety` | one successor per token; one live token until a rescue; expiry within the cap; spent and revoked are final; of sessions only a replaced password proved, none stands but a sign-in's that overlapped the change | 2 sessions, 3 tokens, 2 requests in flight, windows 0/2/3, 3 ticks, 1 password replaced |
| `sessions_reuse` | a replay after progress ends the session; a renewal on a locked account ends its session | 1 session, 3 tokens, 2 requests |
| `board_store_server` | the skip guard's vector is truthful; pruning is redundant; a quiet unload keeps what was drawn; drawings reach the rows | 1 editor, 1 server, 2 shapes, 2 saves in flight, 1 failed load, 1 failed save, 3 rows kept, no legacy rows |
| `board_store_scripts` | compaction keeps shapes saved behind its back; the backfill makes all that is recorded readable | 2 editors, 1 shape, 1 thread, both scripts, 2 rows kept, none or 3 legacy rows, at most 5 rows |
| `live_access_enforced` | people are told the truth; connections settle where access settles; an ended session is disconnected | 1 connection, 1 session or guest, 2 sweeps, 1 push, 2 changes, 1 failed read |
| `board_sharing_safety` | an overrun is bounded by the requests in flight; a removed person stays out | 1 person, 1 guest, 2 links, 2 calls, 2 acts of the owner |
| `workspace_safety` | one owner, moved only by an offer taken up (`Ownership`); offers stand; boards follow the workspace; the removed stay out; invitations are spent once | 3 people, any of whom may be a guest, 1 board, 1 invitation, 2 calls, 3 other acts |
| `account_deletion_purge` | nothing with holes comes back; files go before rows; nobody else's data goes; cancelling restores what was hidden; a purge finishes unless blocked or crowded out | 2 people, no guest, 1 board, 1 invitation, 2 requests by different people, 1 taken a run, 1 call, 1 failure or other act |
| `billing_plan` | the copies end up the latest; the plan is what is paid for, if the last handler ran alone | 2 subscriptions, 2 handlers, 1 portal or operator's act, 1 failure or redelivery |
| `billing_seats` | everyone on a Team plan ends up with a seat | 1 subscription, 3 members, 2 handlers, 2 acts |
| `editor_token_fresh` | the token carries what the tab heard, never goes back, catches up; a lost board closes | 2 calls of `refreshNow`, 1 retry, 2 refusals, 2 changes, 2 failures, drops or reloads |
| `billing_overlap` | expects a violation of `OrderNeverMatters`, below | 1 subscription, 2 handlers, 1 act |

Why these bounds: a race here needs two actors, so two requests, sweeps, calls
or handlers; a rotation chain needs three tokens before a token can be spent
twice with progress in between; losing history needs as many saves as rows are
kept. `RETENTION` is the real 3 in the server's run, and 2 beside the scripts,
the least the theorems allow with one save in flight: three legacy rows already
outnumber the window, and five leave room for the backfill to run again; a
connection's fate depends on no other connection, so one is enough, while two
sweeps are what overlapping takes. Ownership needs an owner, somebody it is
offered to and somebody else; an invitation that runs out, is sent again and is
taken back is three acts. Webhooks out of order need two changes of one
subscription, and a plan worked out from several needs two. In the editor, two
reports of change overlap one mint; the code's three retries and three refusals
are cut to one and two, the least at which there is a retry, and a refusal that
does not yet end the session.

Two requests due, of which a run takes one, are what it takes to be crowded out;
the code's limit is 25. The largest run, `sessions_safety`, has two million
states; `account_deletion_purge`, whose liveness is checked over half a million,
takes the longest.

Deadlock is checked in the two `BoardStore` runs. It is off in the others, where
the bounded supply (ticks, tokens, links, changes, connections that are each made
once) runs out and the modelled system may stop.

### What the sources say and the code does not do

One is kept as a run. `billing_overlap`: `billing.service.ts:133-135` says that
the plan "is worked out again from every subscription the workspace has, so the
order webhooks arrive in never matters". `applySubscription` holds nothing
between its save, its reads and its `setPlan`, so a handler that read a
subscription as paying may set the plan after one that read it lapsed. Every
webhook is then answered, and a lapsed workspace stays on Pro until another one
comes, or a paying one on Free until somebody opens its billing page.
`PlanIsWhatIsPaid` says what does hold.

The others are refuted by TLC when given to the run's configuration in place of
its properties; each is defined at the end of its module.

| Property | Source | What TLC shows |
|---|---|---|
| `Sessions!OneLiveToken` | `session.service.ts:231-233`: after a rescue "exactly one live credential exists" | two rescues, or a rescue beside a rotation, each insert a token the other does not see |
| `Sessions!NoOldSession` | `password-reset.service.ts:191-192`, `account-security.service.ts:128-129`: no state "in which the password changed but an old session survived" | a sign-in that verified the old password inserts its session after the change's snapshot of the sessions |
| `BoardStore!SkipIsRedundant` | `sync-server/src/index.ts:341-342`: a skipped save "would write bytes Postgres already has" | deleting moves no state vector, so a store after a deletion only is skipped; the shape returns after an unload |
| `BoardStore!SavedThreadsStay` | `comment-store.ts:20-22`: comments "are saved with the board" | `compact-documents` rebuilds the `shapes` array only |
| `BoardStore!OnlyRedundantRowsGo` | `board-updates-store.ts:81-82`: rows outside the window are redundant "for anything this module wrote" | a failed load starts an empty room; three saves of it prune the history |
| `BoardSharing!LinkNeverOverrules` | `share-links.ts:195-197`: "Never let a viewer link demote an existing editor, or resurrect someone an owner has revoked" | the grant is read without a lock and the upsert writes over a removal committed since |
| `Workspace!CreationIsNotSplit` | `workspaces.ts:582-584`: checking and writing "cannot be split by a removal landing in between" | the insert's membership check is of its snapshot, its foreign key waits for the removal to commit, and the board then belongs to somebody outside |
| `AccountDeletion!NeverBlocked` | `account-deletion.ts:419-421`: a shared workspace cannot happen, "since nothing lets a second member join a workspace" | an invitation sent before the request is accepted in the grace period, and every purge from then on is refused |
| `EditorToken!NotLostToOneBlip` | `useAuthToken.ts:34-35`: "A change the server reported must not be lost to one network blip" | `refreshNow` joins a scheduled mint, the mint that follows fails, and `refresh` ignores it: nobody retries, and no timer is left |

Others met while modelling, with no property kept for them:

* `rotation-decision.ts` says a session may be rescued once; two rescues that
  read `recovered_at` before either commits both go through.
* `findLive` says a spent token answers null; it never looks at `used_at`, so
  signing out with a spent token still ends the session.
* A sign-in that verified its password before the account was locked creates its
  session after the lock, live until its first renewal.
* The purge takes the twenty-five oldest requests that are due
  (`account-purge.ts:45,140`). As many that are blocked for good, which
  `NeverBlocked` shows can be, leave no room for the others at any run:
  `PurgeFinishes` without its `CrowdedOut` is refuted.
* Somebody who joins an owner's workspace between the look and the commit of the
  owner's request (`account-deletion.ts:267`) makes it shared by an account that
  is going. If ownership was on offer to them, they can take it up, their boards
  pass by removal or leaving to whoever owns the workspace by then, and a board
  the purge had emptied can be seen again. `NoHoles` supposes nobody does
  (`raced`). It takes three people, so the run does not reach it: the exception
  is there because the proof does not go through without it.
* An editor whose IndexedDB copy predates a compaction merges it with the
  rebuilt document, and every shape is on the board twice.
* A save that fails is not scheduled again, so the last one may be lost at
  unload; `index.ts` accepts this for crashes.
* Two servers without the Redis fan-out prune each other's rows.
* `compact-board-updates.ts:31` says that "nothing is destroyed". On a board
  with deltas outside the window, a room opened before the merged row was
  appended goes on saving without them, and as many saves as rows are kept prune
  both the deltas and the merge.
* An overlapping, older pass can take a connection out of line for one sweep.
* A board hidden by a deletion request is restored by its cancellation into a
  workspace deleted meanwhile.
* An invitation made in a race with its addressee's joining stays open, and lets
  them back in after a removal.
* With two paying subscriptions only the one changed last has its seats counted,
  and a seat count that fails is logged and not made again.
* A role changed while the editor's socket is down is told to nobody when it
  comes back; the token says the old role until the schedule renews it.
* `WebSocketSync.wsStatus` is never written, so the check in `forceReconnect`
  that the socket is up never holds.
* Two links made at once stay live together, and `max_uses` can be overrun by
  the requests already past the check (`OverrunIsBounded` says by how many).

## Fairness

Safety runs use none. `Sessions!FairSpec` is weakly fair to the remaining
statements of a request in flight: the process runs them unless it dies, and
a death is outside the model. Nobody is made to send a request.
`BoardStore!FairSpec` is weakly fair to the debounced store and to the database's
answer; people may stay or leave as they like. `LiveAccess!FairSpec` is weakly
fair to each pass: `setInterval` fires and awaited queries settle, with success
or failure; failures are bounded by `MaxBlips`, since a database that fails for
ever enforces nothing.

`AccountDeletion!FairSpec`: the purge job is scheduled daily and tries each of
the oldest `ACCOUNT_PURGE_LIMIT` requests that are due, so a purge that is
possible again and again, and not crowded out by older ones, is started;
the store answers; PostgreSQL serves those waiting for a row; a call that holds
the lock commits. Failures are bounded by `MaxActs`. `Billing!Spec`: a handler
under way goes on (a failure is a step of its own), and the provider keeps
sending what is not answered, so somebody receives it. Nobody is made to pay or
to join. `EditorToken!Spec`: timers fire, a request is answered or
abandoned after ten seconds, Hocuspocus's provider keeps reconnecting, and the
server keeps re-checking; tokens are not made to lapse, nor sockets to drop.

## What is proved

In `Sessions_proofs`, from the assumptions `WindowsAssumption` and
`AbsentAssumption` of `Sessions`, for any sets of sessions, tokens and requests,
finite or not:

* `TypeCorrect`: `Spec => []TypeOK`
* `AtMostOneSuccessor`: `Spec => []OneSuccessor`
* `SingleLiveToken`: `Spec => []OneLiveTokenUntilRescue`
* `CapHolds`: `Spec => []ExpiryBounded`
* `SpentForever`: `Spec => SpentIsFinal`
* `EndedForever`: `Spec => RevocationIsFinal`
* `OldSessionsEnd`: `Spec => []OnlyRacingSignInsStand`

None of these is inductive alone. `Invariance` proves `IInv`, their conjunction
with what makes it inductive: `RowsOK`, tokens name sessions that exist and an
unissued token is unspent; `RequestsOK`, what a request in flight holds is there
and was read no later than now, so a delayed write stamps no future instant and
slides no expiry too far; `SignInsOK`, between its two inserts a sign-in is
alone with a session no token names yet; and `ExchangedOK`, only a spent token
has been exchanged, so the conditional UPDATE that finds a token unspent finds
it without a successor. `SpentForever` and `EndedForever` follow from the
invariant, action by action: a write that stamps tokens or sessions stamps only
those it finds unstamped, and a sign-in takes only a session nothing was in.

`OldSessionsEnd` has an invariant of its own beside `IInv`. `PasswordsOK`: the
users row is one request's at a time, and while it is, the version it proved is
the current one, which is what the conditional UPDATE on the hash gives two
racing changes. `OldSessionsOK`: of the sessions nobody ended, a change that has
its snapshot is about to end each, but the one it keeps and those inserted past
the snapshot; so at its commit only those are left with an older proof.

In `BoardSharing_proofs`, from `BoundsAssumption`, `CallAssumption` (requests at
once are finitely many) and the library's facts on cardinality:

* `TypeCorrect`: `Spec => []TypeOK`
* `BarredStaysOut`: `Spec => []BarredStayOut`
* `OverrunBounded`: `Spec => []OverrunIsBounded`

The bound on overruns needs to count what is about to happen: `Room` says that a
link's uses and the redemptions in flight on it stay below its limit and the
number of requests together. A lookup finds the count below the limit and there
are no more redemptions than requests; a redemption that ends moves one from the
second count to the first. `BarredOK` adds to `BarredStayOut` that no redemption
of a barred person has passed the read, since the read turns them away.

In `LiveAccess_proofs`, from `BoundsAssumption`, for any connections, sessions
and passes:

* `TypeCorrect`: `Spec => []TypeOK`
* `NoticesAreTrue`: `Spec => []ToldTheTruth`

What a pass says was read earlier, so the invariant speaks of what passes hold:
`Listed`, they hold only connections that have opened; `SessionsRead`, a session
a checked pass lacks has ended, and stays so; `AccessRead`, a refusal still to be
applied is of a connection marked `lost`; and `LostIsMarked`, nobody is let in
unmarked while their person is without access.

In `Workspace_proofs`, from the four assumptions of `Workspace`, for any people,
boards, invitations and requests in flight:

* `WorkspaceTypeCorrect`: `WsSpec => []TypeOK`
* `OffersStand`: `WsSpec => []OfferStands`
* `BoardsFollow`: `WsSpec => []BoardsFollowTheWorkspace`
* `RemovedStayOutAlways`: `WsSpec => []RemovedStayOut`
* `OwnershipKept`: `WsSpec => OwnershipIsKept`, the refinement of `Ownership`
* `InvitesSpentOnce`: `WsSpec => InvitesAreSpentOnce`

`Invariance` proves `IInv`. What carries it is `ReadsStand`: whatever a request
that holds the lock (`LockIsHeld`) has read of members, owner and offer is still
so when it writes. No other request holding the lock can be between, and those
that do not hold it only add: a joining person holds an invitation nobody else
is using (`JoinsHold`) and was in nothing before. `ShutIsShut` says that a removed
person's grants on boards there were revoked and stay so, and follows them
through every call that could give one back, a redemption that has read the grant
among them: the board it is about is left out of what was shut to them, which is
the one exception `RemovedStayOut` makes. The refinement is by step: one
lemma per call shows which of `Ownership`'s actions it is, or that it stutters.

In `AccountDeletion_proofs`, from those and the three of `AccountDeletion`, for
any accounts, boards, requests for deletion and calls in flight:

* `FilesFirst`: `AdSpec => FilesGoBeforeRows`
* `OthersAreSpared`: `AdSpec => EraseSparesOthers`
* `OnlyTheHiddenReturn`: `AdSpec => OnlyTheHiddenComeBack`
* `NothingWithHoles`: `AdSpec => []NoHoles`

The workspace goes on under the job, so its steps are first cut down to what
matters here (`Moves`): nobody comes to own it but by taking up an offer they had
begun to, nobody locked out begins to, and nothing deleted is undeleted. Then
`IInv` says that the job works on a request that is due (`JobIsDue`), which a
cancellation no longer reaches; that its account, locked since it asked
(`AskedOnce`) and with nothing left in flight since its grace ended
(`NoneTakesUp`), cannot become an owner under the transaction; so that what the
transaction saw stands but for what came in since (`NothingElse`).

`NothingWithHoles` needs more (`HolesInv`), since a board emptied half-way can
change hands before the job comes back to it. What is emptied is listed as the
account's own; to be seen again it must be live and pass to somebody else, or be
hidden by another request and restored. Neither happens: an account that asked
and owns no workspace has nothing live there but strays (`NothingLive`); one that
owns it was alone as it asked, and nobody who could answer is offered it, so it
stays the owner (`OwnersStay`), and only those who do not own it depart and pass
their boards on (`LockInv`); and a board that a request hid comes to nobody but an
owner, which the account that asked then is not and will not be
(`HiddenOrPassed`). The strays are the hazard of `CreationIsNotSplit`: a board
inserted for somebody locked out meanwhile, which `NoHoles` excepts. That the
account was alone as it asked supposes that nobody joined under its transaction
(`raced`), which `NoHoles` supposes too.

In `EditorToken_proofs`, for any number of reports, retries and refusals:

* `WhatIsHeardIsCarried`: `Spec => []HeardIsCarried`
* `NeverBack`: `Spec => TokenNeverGoesBack`

There is one mint at a time (`OneMint`), so an answer is never older than the
token it replaces (`AnswersAreNewer`); an answer from before the last report is
followed by another mint (`OldAnswersAreFollowed`); and what was heard and is not
carried is being asked about or waits to be (`StillAsking`).

In `BoardStore_proofs`, from the assumptions of `BoardStore`, for any editors
and drawings, any `SNAPSHOT_RETENTION`, any rows a board starts with (`Legacy`)
and any bounds:

| Theorem | Says | Where |
|---|---|---|
| `TypeCorrect` | `Spec => []TypeOK` | any servers and scripts |
| `Rooms` | `Spec => []RoomInv` | any servers and scripts |
| `SkipGuard` | `Spec => []GuardIsTruthful` | one server, no scripts |
| `UnloadIsSafe` | `Spec => UnloadKeepsInserts` | one server, no scripts, `MaxSaving <= RETENTION` |
| `PruningIsRedundant` | `Spec => PruneIsRedundant` | one server, `compact-documents` not run, `MaxSaving < RETENTION`, `Legacy = {<<>>}` |
| `BackfillIsSafe` | `Spec => BackfillKeepsRows` | one server, `MaxSaving < RETENTION`, no failed load |
| `CompactionIsSafe` | `Spec => CompactionKeepsShapes` | the same, and `Legacy = {<<>>}` |

`RoomInv` says that a room knows what everyone connected to it has drawn
(`Mirrored`) and that the saves in flight encode one room as it grew (`Encoded`).
The rest is about saves that overlap. A later save may commit before an earlier
one, so the last row need not be the newest. `KeptWithin` says what stands for
each item recorded: a row has it, and the rows newer than that one together with
the saves in flight encoded before it are fewer than the window, and every other
save in flight has it too. Each commit moves one from the saves to the rows, so
what is in the window stays in it (`WindowInv`). The
script's count covers the rows it has not read (`CountsUnread`), so what it
deletes it has read or somebody still holds; and nothing is deleted of a rebuilt
document before somebody opens it (`AllByHand`).

`BackfillIsSafe` does without most of this. What a row records and the script has
not read was saved since its read, and is kept within as many rows as saves can
be in flight (`RestKept`), so one row more does not push it out; what the script
has read it appends, deltas outside the window among it. So afterwards all that
any row records can be read, on a board of the removed append path as on any
other.

The hypotheses are the code's own limits. Two servers without the Redis store
lock keep each other's rows out of the window, and a board compacted under an
idle tab breaks the guard and the pruning: both are listed as hazards. As many
saves in flight as rows kept may commit in reverse and push the newest out. And a
room opened empty after a failed load is what `OnlyRedundantRowsGo` is about. The
runs' configurations satisfy them: one server, and one save in flight fewer than
rows are kept, 2 of 3 or 1 of 2. On a board of the removed append path a room
opened before the backfill ran has not the deltas outside the window, and its
saves prune the merged row: so `Legacy = {<<>>}` where what is pruned matters.
The scripts' run checks `CompactionKeepsShapes` on such boards all the same.

In `Billing_proofs`, from `BoundsAssumption` and `HandlerAssumption` (the three
words the history variable `sole` uses are not handlers), for any subscriptions
and handlers:

* `Invariance`: `Spec => []IInv`
* `PlanIsPaidFor`: `Spec => []PlanIsWhatIsPaid`

Two invariants meet when no webhook is unanswered. `DataInv`: of each
subscription, either the copy is of its last change or a webhook of that change
is on the wire (`NotLost`), since a handler answers a webhook only once it, or
something newer, is kept (`Handled`), whatever fails before. So with nothing on
the wire the copies are what the provider has. `TurnInv`: the plan is worked out
from the copies as they are, if the last handler to work was alone, because what
it had read nobody moved under it (`Knows`).

Only model-checked: the liveness properties (TLAPS has no backend here for
fairness and ENABLED), which are `ReuseEndsSession`, `LockedRenewalEnds`,
`InsertReachesRows`, `SettledAccessIsEnforced`, `EndedSessionIsDisconnected`,
`PurgeFinishes`, `KeepsTheLatest`, `SeatsCatchUp`, `TokenCatchesUp` and
`LostBoardCloses`. Every invariant and every action property a run checks is
proved, those of `BoardStore` under the hypotheses above.

## Plan

1. **Proofs of what is modelled**: `SkipGuard` and `UnloadIsSafe` beside
   `compact-board-updates`, which only adds a row that carries the others.
2. **Abstract specifications**: a durable board that `BoardStore` implements
   while no load fails; an access gate that `LiveAccess` implements.
3. **Notifications** and the digest, AI quotas, e-mail verification and OAuth
   identities; then the editor's board switching and local boards, and the Redis
   store lock around `BoardStore`.

Bounds to keep: two actors per race, three rows of retention, one failure of
each kind per run.

## Not modelled

Rendering, geometry, layout, wording, e-mail bodies, object storage beyond
folders emptied, rate limits, cookies and headers; the per-field structure of
shapes and replies of comments; clock skew between services; and every component
marked `not_modelled` in `PROJECT.json`, with its reason.

Most of the repository is of this kind: the editor's interface, the web app's
pages and the canvas engine's geometry are by far the most of its lines, and run
in one thread, where unit tests reach them.

Of what is partly modelled: access requests, which no app calls; a guest's token
and a tab that opens a second board; the status the editor shows and its
presence; stopping a plan before an account is deleted and resuming it; prices
and the customer portal's link; the listing and the decoration of boards.

## Running

    tlc -workers 2 -config Sessions_safety.cfg MCSessions.tla
    tlc -workers 2 -config Workspace_safety.cfg MCWorkspace.tla
    tlc -workers 2 -config AccountDeletion_purge.cfg AccountDeletion.tla
    tlapm Sessions_proofs.tla
    tlapm Workspace_proofs.tla
    tlapm AccountDeletion_proofs.tla
    tlapm BoardStore_proofs.tla

Each run's module and configuration are named in `PROJECT.json`.
