# A TLA+ model of oauth-lab

oauth-lab is an OAuth 2.1 authorization server in Python (FastAPI, hexagonal
architecture: domain, application services, ports, adapters). This directory
holds TLA+ modules that model it from the browser to the database migrations,
TLC configurations that check them on small instances, and TLAPS proofs. Paths
below are relative to `src/oauth_lab/`.

Most of what is hard about this program is in a few short handlers that share
rows: authorization codes, refresh tokens and device codes are all single-use,
are all looked up, judged and then updated across `await`s, and are all used by
parties that race, retry, give up and crash. Around them stand a token endpoint
that has to tell clients apart and derive tokens from tokens, and processes that
boot, migrate and seed over files and tables they share.

## Inventory

| Part | State it keeps | Operations | What makes it correct | Here |
|---|---|---|---|---|
| Refresh rotation (`service/grant/refresh_token_grant.py`, `RefreshTokenRepository`) | rows: family, client, scope, expiry, consumed | save, find, rotate, revoke_family; one grant over them | a chain never forks; a revoked family stays dead; only a real replay, by the owner, revokes; scope only narrows | `RefreshRotation`, `TokenFamily` |
| Device flow (`device_code_grant.py`, `device_consent_service.py`, `request_device_authorization_service.py`) | rows: client, expiry, last poll, verdict, redeemed | authorize, poll, decide, redeem | one verdict, one issuance, for the user who approved; a patient device gets its tokens | `DeviceFlow`, `OneTimeGrant` |
| Authorization codes (`consent_service.py`, `authorization_code_grant.py`) | rows: client, user, scope, redirect URI, challenge, expiry, consumed | issue, consume, check, mint, open a refresh family | a code buys one set of tokens, those it was bound to | `CodeExchange`, `OneTimeGrant` |
| Browser flow (`adapter/inbound/web/`, session signer, `authorize_service.py`, `login_service.py`) | only the signed cookie, and what is on the user's screen | pages, login, decisions | nobody decides on a page made for somebody else, or under a login that is over; signing in leads back | `BrowserSession` |
| The flow as a whole | the two above | approve: a page becomes a code | every token goes back to an approval | `AuthorizationFlow` |
| Client authentication (`service/client_auth/`) | none | extract credentials, pick an authenticator, verify | a confidential client shows its secret, by the method it registered | `ClientAuthentication` |
| Token endpoint; client_credentials, jwt-bearer, token-exchange (`token_controller.py`, `service/grant/`) | none; it reads the rows of trusted issuers | authenticate, resolve the grant, derive a token | a chain of exchanges never widens and never outlives what it earned; assertions are vouched for | `TokenService` |
| Access and id tokens, UserInfo (`adapter/outbound/crypto/`, `get_user_info_service.py`) | none | issue, verify, disclose | nobody learns more than was granted | `AccessTokens`, `TokenService` |
| Signing key, JWKS (`key_generator.py`, `jwks_provider.py`, `container.py`) | the key file; a key per process | read, make, write, publish | servers over one key file verify each other | `Deployment` |
| Configuration, container, migrations, seed command (`container.py`, `cli/seed_command.py`, `seed_demo_data_service.py`, `migrations/`) | tables, `alembic_version`, demo rows | boot, upgrade, downgrade, reset, seed | a server runs on a whole schema; the key that was printed is the one that works | `Deployment` |
| Storage adapters (`adapter/outbound/persistence/`) | the rows | memory, SQLite, Postgres | a deadline survives the trip | `StoredTimestamps` |
| Discovery metadata | none | constant documents | | no |

How they interact. `POST /token` authenticates the client and calls one grant.
The code grant and the device grant end by opening a refresh family, which the
refresh grant then owns. The two browser pages write codes and device verdicts
through the consent services. A token that any grant issued may come back as the
subject token of an exchange, or at `/userinfo`. The seed command writes the
issuers that jwt-bearer trusts, and boots through the same container as the
server. Nothing calls back, there are no background tasks, and all shared state
is in the repositories, the key file and the user's cookie.

What is hard: overlapping `/token` requests on one token; decisions that race
with polls; a clock read before an `await` and used after it; a row read before
an `await` and saved after it; a process that dies between two repository
calls, between two tables, or between opening a key file and writing it; answers
that never arrive; tabs that share a cookie; chains of requests by different
clients. `PROJECT.json` lists these hazards at their lines, with the properties
that watch them.

## How execution is modelled

A handler is a sequence of atomic steps that meet at its awaits on a
repository; `pc` says at which one a request stands, and what it keeps in local
variables (the snapshot it read, the clock it read) is in `seen` and `stamp`.
A repository operation is one step: the in-memory adapters do them under a lock
or without an await, the SQL adapters in one conditional UPDATE and its commit,
and the ports ask for it ("in one indivisible step").

`Suspends` tells the two kinds of adapter apart.

- `FALSE`: the in-memory adapters. Their awaits never suspend on an uncontended
  lock, so on one event loop a handler runs alone from arrival to answer. A
  restart empties the store: in `RefreshRotation` that is `Init` again and there
  is no crash action; in `DeviceFlow` it is one, because users remember what
  they were told and devices what they got.
- `TRUE`: an adapter that does I/O. Requests interleave at every await, the
  process may die between any two, and its rows outlive it. This is the
  application code over what the ports promise. The shipped SQL adapters are
  of this kind in their control flow, but today a deadline that has been
  through a database cannot be compared (see `StoredTimestamps`), so on them
  the refresh and device runs describe the code as it behaves once that is
  repaired. `CodeExchange` needs no such reservation on SQLite: its comparison is in
  SQL.

`TokenService` and `Deployment` need no such distinction. A request of the
grants in `TokenService` writes nothing that another request reads, so it is one
step; the steps of `Deployment` are those of processes, which interleave and die
anywhere.

Time is a counter of ticks. Random values are values nobody has seen. Variables
marked *history* only serve properties: no guard reads them, except to keep a
random value unseen (`DeviceFlow!Unused`) and for the bound `MaxHops`.

## Modules

**TokenFamily** (abstract). What a store of refresh tokens promises, with no
requests in it: a family has at most one live token, is handed on to an unseen
one without gaining scope, and can be killed for good.

**OneTimeGrant** (abstract). What an authorization code and a device code promise
alike: a user approves it once for terms that never change, one request claims
it, and it is spent for exactly these terms, or it is lost. `CodeExchange` and
`DeviceFlow` both implement it (`KeepsPromise`). Their mappings (`StateOf`, `DueFor`)
read the state of a code off its row, the count of issuances and the requests
that hold it. The terms of an authorization code are client, user, scope and
challenge, and once it is spent those of the tokens that were issued; the terms of
a device code are the user who approved.

**RefreshRotation**. `RefreshTokenGrant.execute` against the repository.
`Receive` and `Lookup` are the call and `find_by_value`; on the snapshot the
request is refused (`Refuse`), recognised as a replay (`DetectReplay`, then
`Revoke`) or accepted (`Accept` draws the replacement and calls `rotate`, which
is `Rotate` or `LoseRace`); `Answer` and `LoseAnswer` are the response.
`IssueFamily` is what the other two grants do. Presenters are arbitrary: any
client may present any value that anybody ever received. `liveToken` and
`scopeCeiling` are the refinement mapping to `TokenFamily`, and `KeepsPromise`
says that the specification implements it.

**DeviceFlow**. `Authorize`; the user's `SubmitConsent`, `Lookup`, `RefuseConsent`
or `AcceptConsent`, `SaveDecision`; the device's `ReceivePoll`, `Lookup`, then
`RefusePoll`, `TooEarly` or `NotYet` with `SavePoll`, or `TryRedeem` with `Redeem`
or `RedeemNothing`, and `Mint`. `save` writes the whole row as the handler last
saw it, as `_update_row` does. `patient` says of each device whether it waits for the
interval, which is its own business and not the server's: it is chosen once, and
the properties that need it ask for it.

**CodeExchange**. `IssueCode` is an approved `ConsentService.execute`. `Receive`,
`Consume` or `RefuseCode`, `RefuseBinding` or `Mint`, `SaveRefresh` and `Answer`
are `AuthorizationCodeGrant.execute`. `Client` holds the clients registered for the
grant: the others are refused by `ConsentService` before anything changes. `burnt` and `dropped` record why a code was
lost: a failed check after `consume`, or a crash.

**BrowserSession**. One cookie `jar`, a page per `tab`. `AskConsent`, `SendToLogin`
and `Turn` are GET of `/authorize` or `/device`; `OpenLogin` and `Login` are
`/login`; `RestartLogin`, `RejectForm` and `Decide` are the POST of a form behind
`require_session_with_csrf`. `SafeNext(Unquote(Quote(NextUrl(a))))` is what becomes of
the `next` parameter: a URL with or without an origin, and how often it is quoted.
A form stays in its tab after it was sent (the Back button). Pages and approvals
carry two fields the program does not have: for whom a consent page was rendered,
and how old the login it was rendered under was when it was approved
(`ApprovedInSession`). Nothing deletes a user, so the branch of
`authorize_service.py` for a valid session whose user is gone is `SendToLogin`'s
outcome without its occasion.

**AuthorizationFlow**. The two modules joined by INSTANCE, sharing the clock.
`Approve` is `Decide` and `IssueCode` in one step: `POST /consent` has one await
that writes. The user's browser sends back the form it was shown, except that
any scope may arrive in it; a user who edits the other hidden fields approves
what they wrote, as if the page had shown it: the same as approving another page.

**StoredTimestamps**. A deadline is an instant and whether it carries its zone.
`Save` and `Use` pass it through the backend; `UseInVain` is the comparison that
raises.

**ClientAuthentication**. What `CoreHandler` takes out of header and form
(`Credentials`), which of the three authenticators in the container's order can
handle it (`Picks`), and whom it lets in (`AuthenticatesAs`). Operators only.

**AccessTokens**. Tokens as records: `AccessToken` and `IdToken` issue, `VerifiesAsOwn`
is what both verifiers check (signature, issuer, expiry; neither audience nor
type), `AssertionVerifies` is the jwt-bearer side, `Grantable`, `Granted` and
`UpperBound` are the scope algebra, `Discloses` is `/userinfo`. The fields `from`,
`hops` and `proved` of a token are history.

**TokenService**. `Request` is `POST /token` from `Admissions` (every client that
some combination of header and form gets in) to `Answer`; `ClientCredentials`,
`JwtBearer` and `TokenExchange` are the grants, and `UserGrant` stands for the
three that have modules of their own. `token` is one issued token, whichever:
no request depends on two. `SeedIssuer` and `Restart` are the other processes that
matter to a token.

**Deployment**. `Start`, `OpenStore`, then `FindNoKey`, `Truncate`, `WriteKey` or
`ReadKey` or `MakeEphemeralKey`, and `Die` are `build_container` in a server or in
the seed command, which goes on with `SaveRows` per table and `PrintKeys`.
`Upgrade`, `CreateTable`, `Stamp`, `Downgrade`, `DropTable` and `MigrationDies` are
Alembic over the two kinds of database; `Reset` is `just db-reset`.

**...Proofs** modules hold the theorems about the module they are named for.
**MC...** modules give the symmetry sets and the constants TLC cannot read from a
configuration.

## Runs

| Run | Question | Result |
|---|---|---|
| RefreshRaces | rotation under overlap, loss and crashes, and refinement of `TokenFamily` | holds |
| RefreshAtomic | replay reaction over the in-memory adapter | holds |
| RefreshUnrevokedReplay | the same over an adapter that suspends | **violated** |
| DeviceAtomic | in memory: one verdict, one issuance, to an approver, refinement of `OneTimeGrant`, and does an approval pay? | holds |
| DeviceLostApproval | is a poll against an approval benign? | **violated** |
| CodeRaces | code exchange under overlap and crashes, and refinement of `OneTimeGrant` | holds |
| Browsing | tabs, accounts and expiring sessions: whose approval is it, and does login lead back? | holds |
| LoginDeadEnd | does the flow resume after login? | **violated** |
| ApprovedTokens | the whole code flow | holds |
| TokenService | credentials, derived tokens, lifetimes, `/userinfo` | holds |
| Deployment | boot, key file, migrations, seeding, with crashes | holds |
| TimestampsSqlite | can what was saved be used? | **violated** |

### What the violated runs show

*RefreshUnrevokedReplay.* `domain/model/refresh_token.py` says that a second
presentation revokes the family, and that the point is the race between a thief
and the client. If both look the token up before either rotates, the loser is
refused by `rotate`, not by the replay branch, and nothing is revoked. Nothing but
that overlap does it: `SerialSecondUseKills` proves the property for every adapter
and every crash as long as no two presentations of one token overlap.

*DeviceLostApproval.* `device_code_repository.py` calls polling against approval a
benign race. A poll saves the row as it read it; an approval in between is
overwritten and never comes back. With `Poll = {p1, p2}` and one client,
`RedemptionIsFinal` and `IssuedOnce` fail in the same way, since a poll can also
write back the copy it took before a redemption. That takes two polls, or two
decisions, that overlap on one code: if they wait for each other, a decision may
still be lost but a code is redeemed and paid once (`WaitingDevicesIssueOnce`,
`WaitingDevicesRedeemForGood`).

*LoginDeadEnd.* `/authorize` sends an absolute URL as `next`, and `safe_next` only
lets relative ones through: the user ends up at `/`. The integration test passes
a relative `next` of its own. `/device` does it right (`BackToTheDevice`), and
`AuthorizeIsLost` proves that no login on the way to `/authorize` ever leads back.

*TimestampsSqlite.* SQLite returns naive datetimes, the clock is aware, and Python
refuses to compare them: refresh and device grants end in a 500. Set
`Backend = "postgres"` and it is `Save` that fails; with `"memory"` it holds.

### Bounds, and why they are enough

- *Two of everything that races.* Two concurrent requests (slots are reused
  without end, so histories are not limited to two requests), and two clients,
  families or users where the question involves a stranger: the code looks at
  one row and, in `revoke_family`, one family at a time, so a third party adds
  no new relation. `ApprovedTokens` has one request slot: its question is what
  a code stands for, and overlap on a code is the question of `CodeRaces`. Four token values
  in `RefreshRaces` give a family of three generations beside a second family,
  or two families of two.
- `Room` (a family is opened, or a refresh request admitted, only while there is
  a fresh value left) stands for values being drawn from 256 bits. It limits
  the length of a behaviour and not what a request may do once admitted.
- `MaxTime` stops the clock. It is at least the lifetime in every run, so expiry
  happens, at the boundary and between two awaits.
- `TokenService`: clients of all three implemented methods, every combination of
  header and form over their secrets, all sets of three scopes, and `MaxHops = 2`,
  so that a chain passes from a narrow client to a wide one and back. The clock
  passes one lifetime and a half: an exchange at the last tick of a token, one
  too late, and a token of the second hop that outlives the first.
- `Deployment`: two servers and the seed command over four signing and three
  issuer keys, so that two may race and a third be late; three of the six
  tables, which allows dying before, between and after; `Configurations` holds
  six settings, a localhost issuer over both databases with and without a key
  file, and a public one over memory, where one with the default session secret
  never boots.
- Symmetry is used only in runs that check safety, or, in `RefreshRaces`, safety
  and the refinement, whose specification is a safety property as well; the two
  runs with liveness use none. Constant functions that single out a client, a
  scope or a key keep these out of the symmetry sets (`MCCodeExchange`,
  `MCTokenService`).
- `CHECK_DEADLOCK FALSE` where the clock and the values may run out and nobody
  has to do anything: the system is at rest then.

### Fairness

`RefreshRotation!FairSpec`: weak fairness of each request's steps. An event loop
resumes every coroutine whose await has completed, so an admitted request keeps
running; no request is forced to arrive. `DeviceFlow!FairSpec` adds strong
fairness of the owner's poll per code: it is the hypothesis of `ApprovalPays`
that the device goes on polling, and it must be strong because in memory a slot
is only free between other requests. Neither time nor users are forced to move:
`ApprovalPays` allows the code to expire or the process to die with it, and its
premise is a patient device that may poll now. `TokenService` and `Deployment`
promise nothing that must happen: an operator may always wait.

## Proofs

Every safety property that a passing run checks is also proved, for all values
of the constants that satisfy the named assumptions: any number of tokens,
clients, tabs, replicas or tables, no bound on the clock, no finiteness. Each
`...Proofs` module states an inductive `Inv` in named parts, has one lemma per
action, and ends in `InvHolds` and the theorems that read their property off it.

**RefreshRotationProofs**, for either value of `Suspends`. `OneLiveToken` is not
inductive: when a request is about to rotate, nothing in it says that the
replacement it drew is still unused, or that the row it is about to consume
belongs to the family, client and scope the replacement was computed from. `Inv`
adds what is missing:

- `SnapshotOK`: what a request read agrees with the row as it is now in
  everything that never changes, and a row seen consumed still is;
- `StageOK`: what a request has established at each program point; in
  particular, at `rotate` the value it drew is in no row and held by nobody;
- `DrawnApart`: no two requests drew the same value;
- `RotatedStored`: an exchanged token is there and consumed, and its replacement
  is there;
- `ConsumedEarned`: nothing of a family is consumed before its first rotation,
  which is what makes every revocation deserved.

A request that sits at `rotate` with a stale snapshot is then harmless: the
conditional UPDATE only succeeds if the old row is live, and then it was the
only live row of its family, which the replacement succeeds. A revocation that
got in between leaves it nothing to consume. `KeepsThePromise` is the
refinement of `TokenFamily`: `MapIsLive` shows that the mapping reads off the one
live token, and `IssueIsBegin`, `RotateIsSucceed` and `RevokeIsKill` map the three
steps that write; every other step stutters. `RevokedByOwner` needs that a family
has one client (`OneClient`).

`SecondUseRevokes` does not hold of every behaviour (RefreshUnrevokedReplay), so its
theorem has a hypothesis on behaviours: `AloneOnToken`, no two requests that
present one token overlap. Everything else may: other presentations in the same
family, crashes, any adapter. `SerialInv` says what a request then knows
(`CopyOK`): its token is as it saw it, or a revocation has killed the whole family.
When `rotate` refuses, the second is the case. `SecondUseKills` is the corollary
for the in-memory adapter, which serves one request at a time (`MemoryIsAlone`).

**DeviceFlowProofs**. Types and `PaidOnlyApprovers` hold over every adapter,
because even a copy that is written back late carries the user who approved it
(`StageOK`, `RowsOK`). The other properties need requests that do not disturb each
other, and there are two theorems for two degrees of that, over any adapter and
with crashes:

- `AloneOnCode`: no two requests on one code overlap. `SerialInv` says that the
  copy a request holds is the row (`CopyOK`) and how each row agrees with what users
  were told and devices given (`LedgerOK`). From it follow `IssuedOnce`, `OneVerdict`,
  `VerdictSticks`, `PatienceRewarded` (`SerialRequestsSafe`), `RedemptionIsFinal` and
  the refinement of `OneTimeGrant` (`SerialKeepsThePromise`).
- `OneAtATime`: polls of one code do not overlap, nor do decisions on it, but polls
  and decisions overlap freely. `PairInv` says that a poll which saw no decision
  knows that nobody redeemed (`KnowsOK`): only polls redeem. `IssuedOnce` and
  `RedemptionIsFinal` still follow; `VerdictSticks` does not (DeviceLostApproval).

Both hypotheses are about which requests arrive when. No action of the model is
taken away, and the runs with `Suspends = FALSE` reach every step under them. In
memory `AloneOnCode` always holds (`MemoryIsAlone`), which gives the theorems for
`~Suspends` that the run `DeviceAtomic` is an instance of. Over another adapter
nothing in this code ensures either: they say what a lock per code or a check
inside `save` would buy.

**CodeExchangeProofs**. `consume` is where requests compete: a consumed code has
one holder at most (`Sole`), which works on the row as it stays (`HolderOK`) and has
minted nothing before its check (`CodeOK`). `KeepsThePromise`, the refinement of
`OneTimeGrant`, needs no hypothesis: `consume` picks the one holder whatever
overlaps, and it is lost with its holder when the process dies. Each action is
mapped by a lemma to the abstract step it is, or leaves the mapping alone.

**BrowserSessionProofs**. A page with the cookie's csrf_token shows the cookie's
user and was rendered under the cookie's login (`PageOK`), since every login draws a
fresh one; a login form reached from a
device page still carries its path (`WayOK`), and one reached from anywhere else
carries nothing (`LostOK`).

**AuthorizationFlowProofs**. The composition implements both components
(`ImplementsCodeExchange`, `ImplementsBrowserSession`), so their invariants hold in
it, and every row of the code store goes back to an approval (`RowsApproved`);
with the binding of tokens to rows that is `EveryTokenWasApproved`. Through the first
of them the codes of the composition implement `OneTimeGrant` too
(`CodesKeepThePromise`). The theorems of
the components are used through instances of their proof modules, and their
assumptions follow from the composition's own.

**TokenServiceProofs**, for any registration of clients and issuers and any
lifetime. `Inv` relates the issued token to the grant its chain began with, and
adds that a client vouches for nobody but itself: with the assumption that no
client has a user's name, that is what keeps `/userinfo` closed to it. For the
pipeline of authenticators, `OneAuthenticatorEach` shows that its order decides
nothing, and `OneIdentity` that a request is one client's.

**DeploymentProofs**, for any number of replicas and tables and any
configurations. A part for each actor: a running migration has done what is
behind it (`MigrationOK`), a settled key file stays settled and late starters run
with its key (`KeysOK`), a seed run has saved what is behind it (`SeedOK`).

Every safety property of a passing run is stated by a theorem, under the same
`Suspends` as in the run or under none. Only model-checked: liveness under
fairness (`ReplayKillsFamily`, `ApprovalPays`), which is out of the prover's reach,
and the counterexamples of the four violated runs, which are behaviours and not
theorems. `StoredTimestamps` has no theorem: its one property fails on every
database.

## Abstractions

What the models leave out although it is next to something they keep:

- The isolation levels of the databases. A repository call is one step, as the
  ports ask. Under READ COMMITTED `revoke_family` could miss a replacement that
  commits while it waits. That path is not reached today: Postgres refuses the
  aware deadline when the token is saved, and SQLite fails at the comparison.
- Two device codes that draw one user_code. In memory the newer takes the index
  over, in SQL the save fails; the draw is from 20^8 values.
- A tick between the verification of a subject token and the issue of the next
  one in `TokenService`: there a token could live that moment longer.
- A client whose id is some user's sub. Nothing in the code prevents it;
  `TokensAssumption` does.
- `OAUTH_LAB_JWT_ALGORITHM`: the setting admits ES256 (`config.py:13`), while the
  keys that the program generates are RSA, with which such a server could not
  sign. All keys are of one kind here.
- In `Deployment` one Alembic command and one seed run go on at a time, and the
  database is reset only while no migration runs. The rows of one table are
  seeded in one step. With `memory://` the seed command fills a store that ends
  with it, so `PrintedKeyWorks` is about databases.
- How a request is refused: an `OAuthError` in its envelope, a 422, or a 500 from
  a `ValueError` that no handler expects. Nothing changes in any of them.

## Not modelled, and why

Signatures, hashing and the format of keys (PyJWT, cryptography, Argon2: a
signature is the key that made it, a hash is its secret); claims that no part of
the program reads (`aud`, `jti`, `auth_time`, `nonce`, `at_hash`); JSON and URL
encodings (but for the quoting of `next`), templates and wording; parsing of scopes and identifiers; discovery
documents, which are constants without state or input; logging and the app
factory; dependency wiring (its choice of adapters is `Suspends`, `Backend` and
`settings`). The client and user tables do not change while the server runs,
except that seeding saves the same rows again: what they would answer is in
`AllowedScopes`, `RedirectUris`, `Refreshing` and `Registration`. The models cover
every component that has state or decides anything; what is left has neither.
