# Formal verification of gitea-mcp

These TLA+ modules model `gitea-mcp`, an MCP server that forwards tool calls to
a Gitea instance. They cover

- the OAuth mode (`pkg/oauth`), the only part that keeps state shared by
  concurrent requests, and in it the registration of clients, which keeps none;
- tool calls: which tools the flags leave (`pkg/tool`), with which credential
  and behind which transport a call talks to Gitea (`pkg/gitea`), and what the
  handler of every tool asks of it (`operation`);
- the process: how it starts from flags and environment (`cmd`) and stops at a
  signal (`operation/operation.go`);
- the two answers that are shaped by an algorithm and continued over several
  calls: a file page by page (`operation/repo/file_shape.go`) and the tail of a
  growing log (`operation/actions/runs.go`).

## 1. Inventory

| Part | Source | State | Operations | What makes it correct |
|---|---|---|---|---|
| OAuth store | `pkg/oauth/store.go` | four maps under one mutex | put, consume, get, delete | single use is atomic, two maps are bounded |
| Authorize | `pkg/oauth/authorize.go` | – | check request, store pending authorization | only registered redirect URIs leave it |
| Callback | `pkg/oauth/callback.go` | locals across two Gitea calls | consume state, exchange, check user, store code and grant, redirect | one grant per login, a code finds its grant |
| Token | `pkg/oauth/token.go` | locals | exchange a code, rotate a refresh token | one line of token pairs per login |
| Resource server | `pkg/oauth/middleware.go` | `Grant` objects, a mutex in each | look up, lock, refresh, delete, serve | one refresh at a time, no session on a dead credential, no deadlock |
| Client registration | `pkg/oauth/client.go`, `register.go` | none: signed client IDs; the key file and the allowlist | register, verify, authenticate, restart | a registration outlives restarts with the same key; nothing else passes; only vetted URIs |
| Metadata | `pkg/oauth/metadata.go` | – | constant documents | – |
| MCP server | `operation/operation.go` | HTTP server, two goroutines, signal channel | route, pick the credential, shut down | one credential per call; a shutdown cuts nothing early and ends |
| Gitea client, REST helper | `pkg/gitea/*.go` | shared transports | build a client per request, refuse writes and foreign redirects | read-only tokens stay read-only and at home |
| Tool registry | `pkg/tool/*.go` | registered tools | filter by flags, gate calls | a filtered tool cannot be called |
| Tool handlers | `operation/*/*.go` | none; Gitea's | one or more Gitea calls | multi-call handlers do not damage data when they fail half-way |
| Arguments | `pkg/params`, `pkg/to` | – | convert JSON values | – |
| Command line | `cmd/*.go`, `pkg/flag` | global flags, set once | merge flags and environment, validate, probe | an unsafe combination does not start |
| Log preview | `operation/actions/runs.go` | – | cut the tail of a log by lines, then by bytes | no line or character lost but by a reported cut |
| Logs, slimming | `pkg/log`, `pkg/slim`, `*/slim.go` | – | format | – |

How they interact: `net/http` serves each request on its own goroutine. The four
OAuth handlers share only the `Store`; every method of it runs under `Store.mu`,
but a handler calls several methods with nothing held in between. The middleware
in addition shares `Grant` objects by pointer: it holds one after the store's
lock is released, locks the grant's own mutex and calls Gitea under it. The tool
handlers receive a Gitea client through the request's context and share nothing
but clients memoized by their credential.

Hard behaviours, each listed with its line under `hazards` in `PROJECT.json`:
steps of concurrent exchanges, rotations and refreshes; retries of consumed
codes and tokens; an answer of Gitea lost after Gitea acted on it; a grant
deleted while another request holds a pointer to it; tables at capacity;
restarts; calls without a timeout; two layers of protection with tables of their
own; retries under other paths of a write that may have been carried out;
handlers of several steps that fail half-way, or fail although Gitea accepted their write; redirects of requests that carry a
credential; a file that changes between two of its pages; a log that grows between
two answers; a signing key or an allowlist that changes under clients already
registered; a signal before the server listens, or twice, or while a call hangs.

## 2. Modules

| Module | What it is |
|---|---|
| `OAuthStore` | the `Store`: its maps and one operator per method |
| `OAuthServer` | the handlers over the store, their interleavings, Gitea and the clients as environment; properties |
| `GrantSession` | abstract specification: what one login goes through |
| `OAuthServerProofs` | theorems about `OAuthServer`, checked by TLAPS: types, single use, codes and grants; then redirect URIs, bounded tables, and refresh tokens that only their owner spends |
| `SessionProofs` | a grant's mutex, owner and end, no session on a dead credential, and the refinement of `GrantSession`, from the invariants of `OAuthServerProofs` |
| `MCOAuthServer` | constants of its TLC runs |
| `ClientRegistration` | registrations, key files, allowlists and the client checks of authorize and token, over restarts; properties |
| `ClientRegistrationProofs` | theorems about it |
| `MCClientRegistration` | its key files, URIs and settings |
| `Lifecycle` | the process from its command line to its end, and its connections; properties |
| `LifecycleProofs` | theorems about it, for any command lines |
| `MCLifecycle` | its command lines |
| `ToolHandlers` | the catalogue: every registered tool, its methods, and each method's handler as a set of programs |
| `ToolCalls` | the registry, the gate, credentials, transports, redirects, and a call's run through its program; properties |
| `ToolCallsProofs` | theorems about `ToolCalls`, for any catalogue |
| `MCToolCalls`, `MCMisfiled` | `ToolCalls` over the catalogue, and over one registered wrongly |
| `FilePages` | `get_file_contents` as a function, and a client that reads on with it while others push; properties |
| `FilePagesProofs` | theorems about it, for any files and arguments |
| `MCFilePages` | its files and arguments |
| `LogPreview` | `get_job_log_preview` as a function with the reading of its arguments, a runner that writes and a client that polls; properties |
| `LogPreviewProofs` | theorems about it, for any log |
| `MCLogPreview` | its arguments |
| `Counting` | what the last two proof modules need of numbers: least and greatest elements, induction over a set, functions defined by recursion |

### How OAuthServer corresponds to the code

A *slot* is a request in progress; `pc[p]` is the next statement of its handler
that touches shared state or waits for Gitea, `loc[p]` its local variables. One
step is one store method, one answer of Gitea, or one critical section of a
grant's mutex: exactly the points at which another goroutine can interfere.

| Action | Code |
|---|---|
| `Authorize` | `HandleAuthorize`, all of it: it makes a single store call |
| `CallbackState` | `HandleCallback` up to the exchange; consumes the state |
| `CallbackExchange` | Gitea's answer to the code exchange, or its absence |
| `CallbackRejectUser`, `CallbackAcceptUser` | the answer to `GET /api/v1/user`; the second creates the `Grant` and stores the code |
| `CallbackPutGrant` | `PutGrant` and the redirect with the code |
| `RedeemCode`, `RotateRefreshToken` | `HandleToken` up to its consuming store call and the checks that follow it |
| `TokenGetGrant`, `TokenPutAccess`, `TokenPutRefresh` | the statements both grant types share |
| `BearerToken`, `BearerGrant` | the verifier's two look-ups |
| `LockGrant` | `Lock`, the check of the expiry, `Unlock` if nothing is due |
| `RefreshSucceeds`, `RefreshFails` | Gitea's answer to the refresh, under the mutex, and `Unlock` |
| `RefreshDeleteGrant` | `DeleteGrant` after the mutex is released |
| `ServeEnds` | the tool call returns |
| `Tick`, `Restart` | the clock; a crash or shutdown with everything in memory lost |

Data is abstracted to what the properties compare. Random values never collide
and are numbered: a code is named by the grant ID drawn in the same callback, a
token by its pair's number and type. A PKCE challenge stands for its verifier. A
`Grant` keeps its expiry and one ghost bit, `superseded`: Gitea has issued a
refresh token that replaces the stored one. Audience and resource are left out
because the code only ever writes and compares one value; a client ID in the
model is one whose signature is valid; client authentication and malformed
requests end before any state is touched and are no steps. `codesSent` and
`pairsSent` are what clients have received: a client may present any of it, at
any time, repeatedly.

`GrantSession` is the contract of a login: none, login, code, minting, session,
minting, ..., and from anywhere to ended, for ever. `OAuthServer` maps a grant to
a stage with `Stage` and implements it (`SessionSpec`).

### How ToolHandlers and ToolCalls correspond to the code

A handler keeps no state in the server. What can go wrong in it is the order, the
number and the outcome of its requests, so it is a *program*: a sequence of
steps, each one request or one write to the disk, with the client it uses (`sdk`,
`rest`, `attachment`), whether it writes, the number of paths it is tried under
(`DoJSONWithFallback`, `fetchJobLogBytes`), whether its failure is tolerated, what the
handler does with the success flag that three methods of the SDK return beside the error
(`flag`: merging a pull request and renaming a branch look at it, deleting a branch does
not), and whether Gitea may accept the write for later (`defers`).
Arguments select among a method's programs. `ToolHandlers` names one program set
per handler function. `ToolCalls` does not depend on it: the catalogue is its
constant `Tools`, which is why its theorems hold for any catalogue.

| Action | Code |
|---|---|
| `CallTool`, `DenyCall` | registration (`Tools` in `tool.go`) and the gate of `MCPHandler`; the credential of the request (`authTokenMiddleware`) |
| `GiveUp` | an early error return over arguments or over what was read, before any write is answered |
| `Refuse` | `RoundTrip` of the read-only transport |
| `Send`, `AnswerSuccess`, `AnswerFailure` | a call of the SDK, `DoJSON`, `DoBytes` or the attachment client: success, 404 or 405, another error, or an answer lost after Gitea has acted; `StepRefused`: an answer that is no success comes as an error or as a false flag, and a handler that ignores the flag goes on |
| `AnswerDeferred` | `mergePullRequestFn` with `merge_when_checks_succeed`: Gitea accepts, `merged` is false, the handler fails |
| `AnswerRedirect` | `checkRedirect`, `makeCheckRedirectOAuth` and the attachment client's check, as Go's `http.Client` applies them: a followed write becomes a GET |
| `Save` | `WriteAttachment`, the artifact and the log download, complete, partial or failed |
| `Finish` | the handler's successful return |

One call at a time is enough: concurrent calls share no variable of the model.
`ToolHandlers` names 71 read methods, of which OAuth mode leaves 56; they are the
entries of `pkg/tool/testdata/readonly_tools.golden` and `oauth_tools.golden`.

### How FilePages corresponds to the code

`Shape` is `ShapeFileContent` with its early returns in their order; `Fill` is
its loop, a recursive function of the line number whose every round is decided by `Fits`,
`CutLine` its cut at a rune boundary, `Binary` the search for a NUL byte. After a line
that does not fit the code returns; in `Fill` no later line fits, because the last one
taken is not the one before it.
`Read` and `ReadOn` are calls of `GetFileContentFn`, the second with the
`next_start_line` of the answer before. `Push` is the environment. A file is a
sequence of characters of one or two bytes; base64 and the SHA are replaced by
the content they stand for.

### How ClientRegistration corresponds to the code

`Restart` is the part of `initFlagSet` that reads the key file and the allowlist,
`parseSigningKey` that function: a key file is the number of bytes of white space
around its core, the length of the core and what it decodes to, because those are
what the function's cases compare. `Register` is `HandleRegister`, `Authorize`
and `Token` are the client checks at the head of `HandleAuthorize` and
`HandleToken`; what follows them is `OAuthServer`'s, whose constants `Clients` and
`Registered` are the client IDs that pass here and the URIs they carry. An HMAC is the
record of its key and of what it covers. Clients may put any payload under any
signature they have seen. What an answer was decided by (`file`, `key`,
`allowed`) is recorded in `issued` for the properties; no action reads it.

### How Lifecycle corresponds to the code

| Action | Code |
|---|---|
| `Start` | `Execute`: flags, environment, the checks of OAuth mode, `Run` up to `ListenAndServe` or the stdio loop |
| `Listen`, `ServeReturns`, `ServeFails` | `ListenAndServe` |
| `MainReturns` | the wait for `shutdownDone` |
| `Signal`, `ShutdownBegins`, `Elapse`, `ShutdownEnds` | `signal.Notify` with its channel of one, the goroutine behind it, `Shutdown` with its 10 s context |
| `Connect`, `Request`, `NoRequest`, `Answer`, `Disconnect` | a connection of `net/http` (external) |
| `Kill`, `Recreate` | the supervisor |

A command line is two functions, from flags and from environment variables to the
values that the code tells apart.

### How LogPreview corresponds to the code

`tailByLines` and `limitBytes` are the functions of those names, `Marshalled` what
encoding the answer does to broken characters, `ToInt64` the conversion of an
argument in each JSON form, `Poll` the handler. A log is a sequence of bytes: a newline, a
letter, and the two bytes of a wide character. `Write` is the runner, which may have
stopped inside a line or a character when Gitea serves the log.

Definitions marked *Defect* are wrong versions of the definition after them. No
specification uses them; substituting one must break the property paired with
it under `mutants` in `PROJECT.json`.

## 3. What is checked

| Run | Instance | Shows |
|---|---|---|
| `session` (`MCSession.cfg`) | 3 requests, 2 clients, 1 login, 3 token pairs, clock 0..3 | types, single use, code/grant agreement, one client per grant, the mutex's meaning, no life on a dead credential, the refinement, no return of a deleted grant, no burnt refresh token |
| `login` (`MCLogin.cfg`) | 2 requests, 2 clients with different URIs, 3 authorizations, 2 grants, tables of size 2 and 1 | redirect URIs; the tables stay bounded, yet a newcomer pushes out no entry that is still good and is turned away only by such entries; the refinement with several grants and a full code store |
| `progress` (`MCProgress.cfg`) | 3 requests, 1 login, 2 pairs, fairness | every request ends or reaches a call without a timeout |
| `orphan_token` (`MCOrphanToken.cfg`) | 3 requests | *violation*: a rotation stores tokens of a grant that was deleted meanwhile, against `docs/oauth/SPEC.md` UP-4 |
| `second_refresh` (`MCSecondRefresh.cfg`) | 3 requests | *violation*: two concurrent requests send two refreshes when the first fails, against T-RS-4 |
| `calls` (`MCCalls.cfg`) | every method of every tool, with and without OAuth mode, read-only mode, allowlists and a header | types; a call writes at most once, reports success only after its write (but for `delete_branch`), and leaves nothing behind when it fails with every answer received (but for a merge that may be put off); one credential outside OAuth mode; no request that must stay leaves the host; no offered tool is stopped by the transport; in OAuth mode none puts a file on the server |
| `calls_misfiled` (`MCCallsMisfiled.cfg`) | OAuth mode, every write tool registered as a read tool | the transports alone keep every write from Gitea; also evaluates `WritesComeLast`, `FlagsRead`, `ReadToolsRead` and `SavesDenied` for the whole catalogue |
| `calls_credential` (`MCCallsCredential.cfg`) | OAuth mode | *violation*: the REST helper does not use the grant's token, against `docs/oauth/SPEC.md` |
| `file_pages` (`MCFilePages.cfg`) | all files of up to 5 characters, 6 more, 3 starts, 3 ends, 5 caps, with and without line numbers | pages join without gap or overlap, a whole file comes back unchanged, a page fits its cap, every page gets on |
| `registration` (`MCClientRegistration.cfg`) | 2 registrations, 3 URIs, 5 key files, 4 settings of the allowlist, clock 0..1 | types; registrations survive restarts with the same key text; nothing passes that was not issued under the key in use; only vetted URIs, only the own secret |
| `lifecycle` (`MCLifecycle.cfg`) | 14 command lines, 2 connections, 2 ports, fairness | types; no request is cut before the timeout of a shutdown; a process with a client ID serves http with complete settings only; a signal is followed by the end |
| `log_preview` (`MCLogPreview.cfg`) | all logs of up to 6 bytes, 7 forms of each of the two arguments | lines are kept, characters break only at the reported cut, polls within their limits leave no gap |

Bounds of the OAuth runs. Three requests are the least number with one holding a grant's mutex,
one queued behind it and one exchanging or rotating at the same time; each
interference in the code is between two requests over one grant, so a fourth
adds no new pair. Three pairs allow an exchange and two rotations. `MaxTime`
exceeds every time-to-live, so each kind of entry expires both before and while
it is used; a tick equals `Margin`, so a fresh Gitea token is due after one tick
and one issued with a lifetime within the margin is due at once. `MaxStates`,
`MaxGrants`, `MaxPairs` and `MaxTime` stop the creation of new values, never the
use of old ones. Requests are symmetric, so the safety runs use symmetry; the
liveness run does not.

Bounds of the tool calls. `MaxHops` is 1 where the code follows 10 redirects: one
redirect is enough to leave the host or to turn a write into a read, and after a
second the request is in the same state again. `MaxReviews` is 2, so reviews are
fetched none, one or several times. A list of scopes or tools is empty or has one
member, which tells apart no list, a listed tool, a tool listed by the other list
and a tool that is not listed. The states of a call do not outlive it.

Bounds of the files. Five characters are enough for three terminated lines and an
unterminated one, for a character of two bytes across each position of the cap, and
for lines shorter than, equal to and longer than the cap; three further files
have a NUL byte inside and beyond the sniffed bytes, and eleven lines for a line
number of two digits. `MaxMaxBytes` and `SniffBytes` are small so that files
exceed them. Arguments include the absent, the invalid and the unreachable.

Bounds of the registrations. Two registrations with a clock of two seconds are two
at the same second and two at different ones, of one client or of two, before and after a
restart. The key files are 32 bytes without and with a newline, 32 others in base64, and 31 without
and with a newline, which makes them 32: every case of `parseSigningKey`, every pair of files
that differ by white space at the end. The settings are none, one
without entries, one longer than the default, and one with a URI that is not https.

Bounds of the process. Two connections are one that hangs and one that ends during a shutdown;
two ticks make the deadline reachable and missable. `Recreate` makes every run of the
process follow every other. The command lines are complete by flags, by the
environment and by both, lack one setting each, or have a transport that the environment overrides.

Bounds of the logs. With a default of three lines and three bytes, six bytes hold more lines
and more bytes than either limit, and a character of two bytes across each
cut. `MinInt` and `MaxInt` are -8 and 7, so that a conversion out of range is seen to
give a limit larger than every log, or none.

Deadlock is checked in all runs but `file_pages`, where a client stops after its last
page. In the OAuth runs `Restart` is always possible, so that check is satisfied
trivially and progress is a liveness property instead; in the runs of tool calls
it shows that no call gets stuck in a state the code has no branch for.

Fairness of `OAuthServer` (`FairSpec`). Weak fairness for the steps whose duration the code
bounds: store calls, and the exchanges with Gitea under an `http.Client` with a
10 s timeout (`callback.go:85`, `middleware.go:150`). Strong fairness for
`LockGrant`: `sync.Mutex` hands itself to a waiter that has waited 1 ms, so a
goroutine that queues is not overtaken for ever. None for `GET /api/v1/user` and the tool call, whose
client has no timeout, none for clients, and none for the clock.

Fairness of `Lifecycle`. Weak fairness for what goroutines of the process do when nothing
blocks them (`Start`, `Listen`, `ServeReturns`, `MainReturns`, `ShutdownBegins`,
`ShutdownEnds`) and for the passing of time during a shutdown (`Elapse`). None for signals,
clients, handlers, whose calls of Gitea may hang, or the supervisor. The other
modules have only safety properties, and assume none.

## 4. What is proved

`OAuthServerProofs` proves with TLAPS, for every number of requests, clients,
grants and pairs and every value of the time-outs, first what the other theorems about
the server rest on:

- `TypeCorrect`: `Spec => []TypeOK`. `TypeOK` is not inductive: a step that
  stores `loc[p].clientID` needs it not to be `None`. `TInv` adds what a
  request's locals hold at each control point.
- `SingleUse`: `Spec => []SingleSuccessor`. `SInv` says of each grant that codes,
  refresh tokens and exchanges in progress exclude each other and are at most
  one, and that grant IDs not yet drawn have none. `ShrinkSInv` disposes of
  every action that only removes successors.
- `CodeFindsGrant`: `Spec => []CodeHasGrant`. The argument is that only a request
  with an access token of `g` can delete `g`, and no such token has been sent
  before the code is exchanged. `CInv` states it (`Untouched`, `Stored`,
  `Unborn`, `Unstored`) together with what ties a token to the one exchange
  that makes its pair (`PairsOK`).

and then what a login and its client rely on:

- `CodeStaysOnCourse`: `Spec => []CodeGoesToRegisteredURI`. `URIsVetted` adds that every
  pending authorization carries a registered URI, from which the callback copies its own.
- `TablesStayBounded`: `Spec => []TablesBounded`. `TablesFinite` adds that both tables are
  finite, without which their cardinality means nothing; a sweep takes a subset, and an
  entry is added only below the capacity.
- `NewcomersDisplaceNobody`: `Spec => GoodEntriesKept`, from `TablesFinite`. The counters of
  states and grants change in one action each (`Newcomers`), whose sweep takes what a
  consumer would refuse and nothing else; a table without room after it holds as many good
  entries as it may (`RefusedTable`).
- `OnlyOwnerSpends`: `Spec => RefreshTokenKept`. It needs of the invariants only the types.

`SessionProofs` adds, from the conjunction `Known` of `TInv`, `SInv` and `CInv`:

- `LockedForRefresh`: `Spec => []LockMeansRefresh`. It is inductive given `Known`; the one step
  that needs `Known` is `CallbackAcceptUser`, which writes a `Grant` object nobody can yet
  have locked, because its ID is drawn there.
- `DeletedForGood`: `Spec => GrantsDoNotReturn`. Only `CallbackPutGrant` adds to the
  store, and `Unstored` says that its grant's code has not been sent.
- `GrantKeepsClient`: `Spec => []OneClientPerGrant`. `OwnedOnce` says it of clients one by
  one: two clients that hold something of a grant are the same. A step either adds no
  holder, or lets one that already holds something pass it on.

It ends with what `GrantSession` says of a grant:

- `DeadGrantsGo`: `Spec => []SupersededIsCondemned`. A failed refresh marks the grant under
  its mutex and leaves its request at `deleteGrant`. The one step that could undo this is
  `CallbackPutGrant`, which stores a grant: `Young` says that a grant whose callback has not
  answered has no token, exchange or refresh, and a credential that is alive.
- `ImplementsSession`: `Spec => SessionSpec`, the refinement. `Line` restates `Stage` where
  `SInv` makes its kinds exclusive. Each action is then either calm, so that every grant
  stays in its stage or ends, or moves one grant a stage along its line and is calm for the
  others (`AdvanceStep`, `OthersMayEnd`).

The assumptions are `CapacityAssumption` and `ServerAssumption`: constants are of the
expected kind, the allowed user is a user, and `None` is no value of another set.

`ToolCallsProofs` proves, for every catalogue of tools and programs, every pair of
lists and every number of paths and redirects:

- `TypeCorrect`: `Spec => []TypeOK`. The two halves `Progress` and `Record` separate
  what moves through the program from what is only accumulated.
- `NoWriteIsSent`: `Spec => []NothingWritten`. It does not depend on the
  registry at all: in read-only mode the transport guards every client, and a
  request that has been redirected no longer writes.
- `RequestsStayHome`: `Spec => []StaysHome`.
- `OneCredential`: `Spec => []PatCredential`: outside OAuth mode every request of a
  call carries one credential. In OAuth mode this is false (section 5).
- `WrittenOnce`, `SuccessIsTrue`, `FailureIsClean`: if `WritesComeLast`, then
  `WriteOnce` and `FailureMeansNothing` always hold, and with `FlagsRead` also
  `SuccessMeansDone`. None of the three is inductive: that a call has written nothing says
  nothing about where it is in its program. `Accounts` does: a call that has not failed has
  written nothing before the last step of a program with a write, and behind it once, or not at
  all if the program ignores a flag; one that has failed has written at most once, and only if
  an answer was lost or its merge may be put off. `Answerable` adds that only a tool of
  `FlagIgnorers` runs a program that ignores a flag.

- `LayersMatch`: if `ReadToolsRead`, then `LayersAgree` always holds. The program of an
  admitted call reads only wherever a transport guards it (`AdmitsReads`), so that the
  transport never meets a write.
- `DiskUntouched`: if `SavesDenied`, then `NoFilesForWebClients` always holds
  (`AdmitsNoSaves`).

Each of the four assumptions is a statement about the handlers and the lists in
`tool.go`: a write is the last step of its program and never best-effort
(`WritesComeLast`), no tool but `delete_branch` drops a success flag (`FlagsRead`), no method of a read tool writes (`ReadToolsRead`), a method that
may save a file is on a denylist or belongs to a write tool (`SavesDenied`). TLC evaluates
all four for the whole catalogue as assumptions of `MCMisfiled`. A handler that reads after it
has written makes the first false, and with it `FailureMeansNothing` (mutant
`FetchAfterEdit`); a merge that dropped the flag makes the second false, and with it
`SuccessMeansDone` (mutant `MergeUnchecked`); a read tool that writes or a new method that saves would break the others.

The assumptions on constants are `CallsAssumption` (flags are Boolean, programs are
sequences of steps) and `ReviewsAssumption`.

`ClientRegistrationProofs` proves, from `RegistrationAssumption`, for every set of URIs, key files
and settings and any number of registrations and restarts: `TypeCorrect`,
`RegistrationsLast`, `OnlyIssuedPass`, `OnlyVettedRedirects` and `OnlyOwnSecret`, the five
properties of its run. The invariant `RInv` says what ties a registration to the server
that issued it (`IssuedBy`), that the key in use is the one of the file last read (`KeyRead`),
and that the last reply passed the checks under that key. The argument of
`RegistrationsLast` is the lemma `NewlineHarmless`: two files that differ by white space
at their end parse to the same key, if both parse at all. It uses the arithmetic of base64 stated in the
assumption: a core of 32 bytes cannot decode to 32.

`LifecycleProofs` proves, for every set of command lines, any number of connections and
any timeout, the three safety properties of its run:

- `TypeCorrect`: `Spec => []TypeOK`.
- `OnlyGuarded`: `Spec => []OAuthGuarded`. `Checked`
  says what a process that has come as far as serving knows of its command line: which
  settings it read and which checks it passed.
- `NobodyCutEarly`: `Spec => []CutOnlyLate`. `Orderly` ties the process to its shutdown: there are
  connections only once the goroutine that waits for the signal runs, a connection is cut
  only by the end of the process, and a shutdown that has finished left nobody busy
  unless its time was up. The last is why `main` waits for `shutdownDone`.

`LogPreviewProofs` proves the three properties of its run, for every log and every argument:

- `NoGaps`: `Spec => []NothingMissed`. `Polled` says that the latest answer is the cut of a
  beginning of the log at least as long as the one before. The lemmas `TailCut` and
  `LimitCut` say what the two cuts leave: the tail starts with the log, or behind a newline such that
  it holds at most `tail_lines` of them and more with that one; the second cut leaves the last `max_bytes`.
- `CharactersKept`: `Spec => []BrokenOnlyAtCut`. A suffix of an encoded log has broken bytes
  only at its two ends (`BadAtEnds`), and `TailCut` says that the cut by lines is behind a newline.
- `LinesComplete`: `Spec => []LinesKept`. `StartsCounted` counts the lines of a text by their
  newlines, `RestCounted` those of the suffix that `tailByLines` returns.

`FilePagesProofs` proves the five properties of its run, for every file and every argument:

- `TypeCorrect`: `Spec => []TypeOK`.
- `PagesAreJoined`: `Spec => []PagesJoin`. `Joined` adds to the property where the first page starts and
  where the last one ends; an excerpt that goes on where another ends continues it (`ExcerptsJoin`).
- `ComesBackWhole`: `Spec => []RoundTrip`. The first `n` lines of a file are its beginning up to
  the end of the `n`-th (`ExcerptIsPrefix`), and the last line ends with the file (`FirstAndLastEnd`).
- `PagesWithinCap`: `Spec => []PageFits`. `FillStops` is the invariant of the loop: the buffer is an
  excerpt within the cap, to which the next line cannot be added. `ExcerptHolds`
  (no line is empty) makes an empty buffer mean that not even the first line fits, which
  is what the code concludes from `buf.Len() == 0`.
- `AlwaysAdvances`: `Spec => Advances`, from `PageSound`: the next page starts behind the end of this one.

`Reading`, the conjunction of `TypeOK`, `PageSound`, `NothingOfEmpty` and `Joined`, is the inductive invariant
of all five. The assumption on constants is `PagesAssumption`.

The two modules argue by induction over lengths and line numbers. The induction theorems of the library
take an operator as a parameter and cannot be used. `Counting` does without them: a set of
naturals that holds 0 and each successor holds them all (`AllNaturals`), because
otherwise there were a least number outside it (`LeastElement`, from `WFMin`); and a recursive function
exists because its beginnings do and agree (`Recursion`). The recursive definitions of the two
models are therefore functions of a natural number.

Model-checked only: the two liveness properties `RequestsProgress` and `StopsAfterSignal`,
which TLAPS cannot prove because they rest on fairness. Every other property of a passing run is a theorem.

## 5. Findings

- `TokensHaveGrant`: `token.go` re-reads nothing between `GetGrant` and
  `PutMCPToken`, so tokens of a deleted grant can stay in the store.
  `GrantsDoNotReturn` shows they are useless; they are also never swept.
- `OneRefresh`: a failed refresh releases the grant's mutex before it deletes the
  grant, so a request queued behind it refreshes again. `SessionSpec` shows that
  this does no lasting harm: the grant goes anyway, and `SupersededIsCondemned`
  that no session survives on a replaced refresh token.
- `CallersCredential`: in OAuth mode `ClientFromContext` takes the client of the
  grant, but the REST helper takes the token from the context, which is the bearer
  token of the MCP client and means nothing to Gitea. `docs/oauth/SPEC.md:41` says
  that Gitea is called with the stored Gitea token. The tools that use the helper (Actions,
  `issue_read` get, and others) cannot work in OAuth mode.
- Observed without a run of its own: under `--read-only` the REST helper refuses a
  redirect to another host, while `operation/actions/artifacts.go:150` expects
  `download_artifact` to be redirected to the object store; with one configured the
  tool fails.
- Observed without a run of its own: any failure of a refresh deletes the grant,
  a timeout or a client's disconnect included, although UP-4 speaks of a
  rejection. After a lost answer that is what keeps `SupersededIsCondemned` true;
  after a plain network failure it ends a session that could have lived on.
- Observed without a run of its own: the image's health check runs the program without the server's
  flags. It asks at port 8080 whatever `-port` says (there is no variable for the port), and
  with OAuth configured by the environment but `-transport` by a flag its own start-up
  checks fail. `README.md:184` speaks of `<port>`. It takes any 2xx for its server's: beside another
  program that answers at that port, such as a second gitea-mcp, it reports that one.
- Observed without a run of its own: `delete_branch` answers "Branch Deleted" (`branch.go:144`)
  whenever the SDK returns no error, and drops the flag by which the SDK tells a refusal;
  `rename_branch` (`branch.go:199`) and the merge (`pull.go:944`) look at theirs.
  `SuccessMeansDone` therefore leaves `delete_branch` out.
- Observed without a run of its own: a merge with `merge_when_checks_succeed` that Gitea accepts
  for later is reported as failed ("returned merged=false", `pull.go:949`), and may happen
  afterwards. `FailureMeansNothing` therefore leaves out calls that may be put off. In the answer
  of a merge `branch_deleted` (`pull.go:957`) repeats the argument, whatever became of the branch.
- Observed in code and documents while modelling, without a run:
  `deploy/README.md:165` says that the logs show a rejected redirect URI, but `register.go`
  logs none; `deploy/README.md:164` says that a key must be 32 bytes after decoding, but 32
  characters that are the base64 of 24 bytes are taken as they are; two registrations in one second with
  the same URIs and method get the same ID and secret; an allowlist of commas only registers
  nobody, instead of falling back to the default; a URI taken off the allowlist stays usable for
  clients already registered, until the key changes; a second signal during a shutdown
  is swallowed, so only SIGKILL ends it earlier; `Shutdown`'s 10 s equal Docker's default grace period;
  a log that ends inside a line yields that part and `tail_lines` whole lines;
  `max_bytes` may cut inside a character; `tail_lines` 0.5 becomes 0, which is no limit.

## 6. Plan

Done: 1 `OAuthStore`, 2 `OAuthServer` with `GrantSession`, 3 their first
theorems, 4 `ToolHandlers` and `ToolCalls`, 5 `ToolCallsProofs`, 6 `FilePages`,
7 the further theorems about `OAuthServer` with `SessionProofs`, 8 `ClientRegistration` with its
proofs, 9 `LogPreview`, 10 `Lifecycle`, 11 `LifecycleProofs` and the theorems about the
catalogue's assumptions, 12 `LogPreviewProofs`, `FilePagesProofs` and `Counting`.
To do, in this order:

1. Lemmas that say of `tailByLines` and `CutLine` that no longer answer would do: they cut
   as late, and as little, as the limits allow.
2. The assumptions about the catalogue stated of the programs that handlers are built from, so that a new
   handler is checked by its parts.
3. `clientCache` with the transports it memoizes, once an eviction makes it more than a map that grows.
4. Other users who change a pull request or a branch between two requests of one handler.

## 7. Not modelled

- `pkg/oauth/metadata.go` but for the methods it advertises, `pkg/slim` and the `slim.go`
  files, `pkg/log`, annotations, tool schemas: constant or formatted output that nothing reads back.
- Signatures, hashing and the PKCE computation: perfect in this model.
- The health probe (`-healthcheck`): it keeps no state, and whether its answer is about this server
  depends on the other programs of the host.
- Errors of `GenerateRandomString`: with the Go version of `go.mod` (1.27) `crypto/rand.Read` never
  returns one, so the branches behind it are dead.
- Start-up: `-version`, the size limit of inline attachments, the normalisation of scope
  names, `-bind`. `protectMCPOrigin` and the routing table pass requests on or refuse them.
- Overflow of `time.Duration` for `expires_in` above 9.2e9.
- Growth of the token and grant maps, and of the map of clients (`clientCache`): growth
  without a bound has no violation in a bounded model.
- The SDK (`gitea.dev/sdk`) is external: a call of it is one request that returns an error,
  or a false success flag in the three methods that have one, for every answer that is not a
  success. Its look-up of the server's version is part of the first request; in OAuth mode,
  where the middleware creates the client, of `Serve`, which may fail.
- Conversions of arguments (`pkg/params`) other than optional integers, base64 of file
  contents, and files that are not valid UTF-8.
- Concurrent changes in Gitea between two reads of one handler, a job that is run again
  while its log is polled included.
- Build, deployment and test scripts.
