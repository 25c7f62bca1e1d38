# A formal model of datamasque-python

datamasque-python is a client library: `DataMasqueClient` speaks to the admin
server of DataMasque, `DataMasqueIfmClient` to its in-flight masking service
(IFM). This directory holds TLA+ models of what the library does, TLC
configurations that check them on small instances, and proofs that TLAPS checks
for every instance.

## 1. Inventory of the system

All paths are below `src/datamasque/client/`.

| part | state it keeps | operations | interacts with |
|---|---|---|---|
| HTTP core (`base.py`, `dmclient.py`) | `token`, the session, credentials or a `token_source` | `make_request`, `authenticate`, `healthcheck`, `_raise_for_status`, `_delete_if_exists` | every method of `DataMasqueClient` is made of calls of it |
| IFM client (`ifm.py`) | `access_token`, `refresh_token` | `_make_request`, `authenticate`, `_refresh_or_reauth`, `mask`, plan methods | admin server for tokens, IFM for requests |
| Pagination (`base.py`, `ifm.py`) | generator: next URL or offset | `_iter_paginated`, `_iter_ifm_paginated` | a generator suspended between pages while the list changes |
| Ruleset generation (`discovery.py`, `models/status.py`) | none in the client; one task per connection on the server | two starts, status, `get_generated_rulesets` | server worker, other clients of the connection |
| Runs (`runs.py`, `discovery.py`, `models/status.py`) | none in the client | five starts, `get_run_info`, `cancel_run`, `get_unfinished_runs` | server workers |
| Named resources (`connections.py`, `rulesets.py`, `ruleset_libraries.py`, `discovery_configs.py`) | `id` and server-assigned fields of the caller's object | `create_or_update_*`, `get_*_by_name`, `delete_*_by_name_if_exists` | other clients, between lookup and write |
| Users (`users.py`, `models/user.py`) | `id` and `password` of the caller's object | `create_or_update_user`, `reset_password_for_user`, deletes, `generate_password` | other administrators |
| Files (`files.py`) | an open stream, the caller's handle | `upload_file`, `upload_file_if_not_exists`, `get_file_of_type_by_name`, `delete_file_if_exists` | other clients; the caller who passes a handle twice |
| Settings, licence, git (`settings.py`, `license.py`, `models/git.py`) | none | one request each | - |
| Connection models (`models/connection.py`) | the fields of a connection object | `validate_connection`, validators, serializers | `list_connections` and `create_or_update_connection` send whole objects through them |
| Other models (`models/*.py`) | field values | pydantic validation and dumping, `unwrap_*_id`, `_collapse_flat_connection_fields` | the requests and answers of every method |

**What is hard here.** The library is sequential, but it never runs alone. Keys
expire between any two requests; a request is sent a second time after a 401,
with an upload stream that the first attempt consumed; an answer may be lost
after the request was carried out. Most methods that look like one operation are
two to four requests, between which other clients and the server's workers act.
Iterators are suspended between pages. An object that is read, changed and
written passes through models that drop, rename and fill in its fields, and what
they lose overwrites the server's record. The client classifies answers into
exceptions, and callers decide by them whether to try again. PROJECT.json lists
each of these hazards with its line and the properties that would catch it.

**What makes each part correct.**

* *HTTP core, IFM client:* a call has its effect at most once whatever is
  replayed; token expiry is invisible; uploads arrive whole; an exception says
  truly whether the request was carried out, was not, or may have been.
* *Pagination:* exact on a list that stands still; every concurrent change costs
  one repeated or one hidden item at most; it ends.
* *Ruleset generation:* nobody is given rulesets of an older generation, or told
  wrongly that there are none; polling ends.
* *Runs:* verdicts of start and cancel fit what became of the run; no run masks
  its source in place, or uses default options, unless its caller asked for that;
  polling ends; the sweep reports no run that had ended.
* *Resources:* no duplicate names, no write to somebody else's resource, the
  object names what was written, deletes are complete - all in the absence of a
  race between a lookup and the write that relies on it.
* *Files:* a file is not uploaded twice under one name; uploads arrive whole.
* *Users:* the caller's object keeps a password that works across exceptions; a
  generated password has no repetition and no sequence of three.
* *Connection models:* a write sets what the caller set, fills in what the record
  lacks and the class has a default for, and changes nothing else; it leaves the
  secret alone unless he set one, as far as the models strip what is shown
  encrypted; no payload becomes a connection of another type.

## 2. Modules

| module | models | uses |
|---|---|---|
| `ApiCall` | the abstract promise of one call: begun, applied at most once, reported | - |
| `BaseClient` | `BaseClient.make_request` and what it calls, with the server | implements `ApiCall` |
| `IfmClient` | `DataMasqueIfmClient._make_request`, `mask`, the two servers | implements `ApiCall` |
| `Pagination` | both iterators over a changing list | - |
| `RulesetGeneration` | clients, the task and the worker of one connection | calls as `ApiCall` |
| `RunStatus` | the runs of a server: their statuses and where a run may go | - |
| `Runs` | start, watch and cancel, with the workers | extends `RunStatus`; calls as `ApiCall` |
| `UnfinishedRuns` | `get_unfinished_runs`, four requests among moving runs | extends `RunStatus` |
| `Resources` | named resources and files, and several clients | calls as `ApiCall` |
| `ConnectionModels` | the models of connections, between a record and the caller's object | one write as one step; races by name are in `Resources` |
| `PasswordGeneration` | `generate_password` | - |
| `UserAccounts` | the account of one username and several clients | extends `PasswordGeneration`; calls as `ApiCall` |
| `BaseClientProofs`, `IfmClientProofs`, `PaginationProofs`, `RulesetGenerationProofs`, `ResourcesProofs`, `ConnectionModelsProofs`, `UserAccountsProofs` | theorems and proofs | each extends its component |
| `RunsProofs` | theorems and proofs | extends `Runs` and `UnfinishedRuns`, which have one server |

`MC...` modules only give values to constants and define symmetry sets. Operators
named `M_...` are faulty forms of an operator that a change of the code could
bring in; each property is shown to notice one of them.

The layers fit through `ApiCall`. `BaseClient` and `IfmClient` show that one
call, with all its replays, is a step that is applied once or not at all and is
reported as *done*, *absent*, *refused* or *unknown*. The modules above them
then take a call as **one step with such a result**: answered, refused without
effect, or raised with or without effect. Only methods that make several calls
are several steps there.

### How state and actions correspond to the code

*BaseClient.* `token` is `self.token`, `valid` the keys the server accepts. `pc`
walks through `make_request`: `send` and `resend` are the two calls of the inner
`send()` (`Exchange`, or `LoseExchange` for a `RequestException`),
`authenticate` is `self.authenticate()` (with a password or a `token_source`),
`rewind` the `seek(0)` loop, `check` the `_raise_for_status` and the 404 of
`_delete_if_exists` (`Verdict`). A call's parameters are whether it is
authorized, how its status is checked, and what its upload is made of: nothing,
bytes or a path, a text or a binary handle, or a pipe. `Prepare` is what the
upload methods do with it before `make_request`; `handle` is the position of the
caller's handle, which survives the call, `content` and `pos` belong to the
stream that is sent. `effects` and `bodies` record
what the server did for this call; `faults` what went wrong around it, so that a
property can say "nothing went wrong but an expired key". The anonymous login
request of `authenticate` is folded into `Authenticate` and `AuthenticateFails`.

*IfmClient.* The same with two tokens. `Renewal` is the choice of
`_refresh_or_reauth`, `Refresh` and `RefreshRefused` its request,
`TakeTokens` the assignments of `authenticate`. `mask` differs from the other
calls in `Verdict`: it decodes the body before it looks at the status, and has
the soft failure.

*Pagination.* One action `FetchPage` per page; `Insert` and `Delete` may happen
between pages. `NextOffset` is the offset in the server's `next` link or the
client's own count. The link itself is the server's and is modelled from how it
is used: it continues at the offset plus the limit that the server applied.

*RulesetGeneration.* `SelectionRejected` is a start that raises before it makes a
request. Two loops over the status may follow a start: `Poll` asks
`AsyncRulesetGenerationTaskStatus.is_in_final_state`, `Await` goes on until the
status is `finished`, as the docstrings of the start methods say
(discovery.py:52-54, 106-108). `CheckStatus` and `Download` are the two requests of
`get_generated_rulesets`. The ZIP and the redirected answer are one case: both
raise when there is no ruleset. `jobs` numbers generations, so that a property
can tell whose rulesets were returned.

*Runs.* A request is a record of references, each left out, `None`, an object
without an id or an id; `Unwrapped` is `unwrap_connection_id` and its siblings,
`WellFormed` the rest of the validation, `SentChoice` what is left after
`exclude_none` and `setdefault`. `RejectRequest` is a request that cannot be
built, `StartRun` one that is sent. `StartVerdict` is the classification shared by `start_masking_run`,
`start_schema_discovery_run`, `start_file_data_discovery_run` and
`_start_discovery_run_from_config`, over the kinds of body that they tell apart.
One of them raises no exception of the library: a "ruleset" error that is not a list
of texts, which `start_masking_run` meets with an `AttributeError`.
`CancelVerdict` is that of `cancel_run`.

*UnfinishedRuns.* `sweep` is the position in the loop over four statuses, `found`
the dictionary, `Named` the connections that `_collapse_flat_connection_fields`
makes of a record. The server's choice among the runs of a status is open, since
the code asks for one and names no order. Between the requests a run moves to any of
its `Successors`, whoever moves it. The operators that every specification has are
called `SweepInit`, `SweepNext`, `SweepSpec` here, so that one module of theorems can
extend `Runs` as well.

*Resources.* `object` is the caller's object, `targets` the ids a lookup chose.
`Lookup` is the list request filtered by name, `Fetch` the second request of
`get_ruleset_library_by_name` and `get_discovery_config_by_name` (libraries need
it in `create_or_update` too), `Create` and `Update` the write, `ListForDelete`
and `DeleteNext` the delete by name. The four kinds differ as in the code: only
a ruleset is upserted by the server, a connection without a match keeps its own
id, a config takes the id from the lookup and a library from the fetch. Files are
a fifth kind: `LookupFile` ends an upload that is not needed, `DeleteFile` starts
the delete by the id in the object. `Acts` is a step of one client's operation, so
that `OnlyNamedTouched` is about each single deletion as well. Lists are
read in one step here; what a change between pages does is `Pagination`.

*UserAccounts.* `Create`, `Update`, `ChangePassword` are the requests of
`create_or_update_user`, `Reset`, `List` and `Delete` those of the others. `user`
is the caller's object. Only a creation sends a password that `generate_password`
made (users.py:38); a reset takes the one in the server's answer. `Generated` are
the passwords that the loop of `PasswordGeneration` can arrive at; those of callers and
of the server may be any. The account's other fields are left out.
`Drafts` are the drafts the loop of `generate_password` can arrive at, `Accepts` its
two tests.

*ConnectionModels.* `stored` is the server's record with the secret in the clear,
`object` the caller's object as a class and its fields. `ClassOf` is the two maps
of classes, `Incoming` the validators that run before, `Validated` is
`validate_connection`, `Dumped` the serializers, `Request` the body that
`create_or_update_connection` sends. `Read` may validate a payload twice, since the
validators change it in place. Fields that all classes carry as they are stand for
one (`version`); those that some class renames or withholds are there by name, and
those for which a class has a default that is not false (`Defaulted`: three options of
DynamoDB, port and `auth_source` of MongoDB) are `preset`. `keyed` says that the
secret is one of Snowflake's that no validator strips in its encrypted form: the
passphrase of the private key, or the Azure connection string. Of the server it is
assumed that a PUT either resets or keeps what it leaves out (`replaces`, both are
checked), that it keeps a secret that is left out, that it shows secrets encrypted
only (`Encrypted`), that a secret in the clear counts for more than an encrypted one,
and that of an encrypted one it takes no notice or puts it back (`takesBack`, both
are checked).

## 3. Runs

One run per component checks its safety, and its liveness where it has any, on
one instance:

| run | question | instance |
|---|---|---|
| `BaseClient` | what a call does and tells, are uploads whole, does it return | 3 keys, errors 400, 404, 500, 502 |
| `IfmClient` | the same with two tokens, a refresh and `mask` | 3 tokens, errors 400, 403, 500, 502 |
| `Pagination` | exactness, the cost of changes, does an iteration end | 5 items, limit 3 clamped to 2, 2 changes |
| `RulesetGeneration` | whose rulesets, are they really missing, does polling end | 2 clients, 3 generations |
| `Runs` | do verdicts fit, are defaults asked for, does watching end | 2 runs, all requests |
| `UnfinishedRuns` | what the sweep may report and miss | 3 runs, 2 connections |
| `Resources` | names, ids, deletes under interleaving | 2 clients, 2 names, 2 ids, 5 kinds |
| `ConnectionModels` | what a write changes of a connection | 12 types, 1 value, 2 secrets |
| `UserAccounts` | passwords across refused and lost requests, and how an account starts | 2 clients, 2 passwords, 2 accounts; 6 characters, length 4 |

Three runs find a disagreement between the code and its documentation (explained
under "findings" in PROJECT.json):

| run | statement that does not hold | why |
|---|---|---|
| `RulesetGenerationWarnings` | the final states are those of a generation that has completed (status.py:70) | `finished_with_warnings` is left out and is polled for ever |
| `RunsFailedToStart` | `FailedToStartError` means that no run was created (exceptions.py:29); a 502 is `DataMasqueNotReadyError` (exceptions.py:19, README.rst:53-55) | any status but 201 raises it, a 502 of a proxy behind which the run was started too |
| `UnfinishedRunsAll` | returns the unfinished runs (runs.py:67) | one run per status is asked for |

Other disagreements show in the models without a run of their own: the first
authorized request of a client goes out with the empty token and logs in after the
401, where base.py:153 says the login comes on the first request (`Exchange` in
`BaseClient`), so that a pipe cannot be uploaded by a new client; a connection of an
unknown type makes every write of every connection raise, since all are listed and
validated first (`WriteFails` in `ConnectionModels`; an unknown `db_type` even
raises pydantic's error where the README promises subclasses of
`DataMasqueException`);
`start_masking_run` and the discovery starts decode before they look at the
status too (`NotJson` in `Runs`); a 502 that answers the login is a
`DataMasqueApiError` (`loginError` in `BaseClient`, against exceptions.py:19);
`get_ruleset_library_by_name` raises a 404 when the library is deleted between
its two requests (`notFound` in `Resources`, against ruleset_libraries.py:41);
an iteration does not yield every item when another is deleted meanwhile
(`EachChangeCostsOneItem` in `Pagination`, against base.py:318); `mask` decodes the
body before it looks at the status, so that a hard error without a JSON body raises
another exception than the one documented (`decodeError` in `IfmClient`, against
ifm.py:273); the loop that the docstrings of the ruleset generations describe never
ends on `failed` or `finished_with_warnings` (`Await` in `RulesetGeneration`,
discovery.py:52-54 and 106-108); a "ruleset" error that is not a list of texts raises
an `AttributeError` (`StartVerdict` in `Runs`, runs.py:131); a connection that is
read and written gets the defaults of its class for what its record lacked
(`FilledIn` in `ConnectionModels`, connection.py:116-120 and 157-161); and the
ciphertext of Snowflake's passphrase and Azure connection string is kept in the object
and sent back (`RolledBack` there, connection.py:226 and 247-253), though other
ciphertext is stripped.

### Bounds, and why they are enough

* *Tokens.* A call involves the token it began with, the one it replays with and
  one issued to somebody else; a fourth is as good as the third. The theorems
  hold for every set of tokens and every set of error statuses.
* *Errors.* One status for each way the code branches: 404, 502, another 4xx,
  another 5xx. 200 stands for everything below 400.
* *Pagination.* Three pages, the last one short or full, and changes before, in
  and after the pages already read. The limit is clamped below what the client
  asks for, since that is where the two offsets could come apart. `MaxChanges`
  bounds creations and deletions of one iteration; two are enough for both to
  happen and for either to happen twice. The theorems hold for every list, page
  size and number of changes.
* *RulesetGeneration.* `MaxJobs`: one's own generation, an older one and one that
  is started in between. The liveness property is about each generation by itself: if
  none is started after it, the poll ends, or another is started. So it does
  not rest on `MaxJobs`, and it does not promise that a poll ends while generations
  are restarted without end.
* *Uploads.* A handle is at its start or at its end; what is in between behaves
  like one of the two.
* *Runs.* One run that is started, one that is watched or cancelled.
* *UnfinishedRuns.* Two runs that compete for a status or a connection, and one
  that moves.
* *Resources, UserAccounts.* `MaxId` bounds what is created; two clients are
  enough for a lookup to go stale, and a resource that is deleted and created
  again has another id. The theorems hold for any number of clients, names and
  resources.
* *ConnectionModels.* The models treat a field by whether it is absent, false or
  neither, never by its value, so one value of the last sort is enough, beside the
  default of a class; two secrets tell an old one from a new one. There is one type
  for each group the code treats alike.
* *Passwords.* One that can be generated and one that must not be. The invariants
  compare the object's password with the account's or the caller's, an account has one
  generated password in its life, and a change may be refused for any reason, so two
  values are enough to tell each of these from another. Six
  characters with neighbours, ends and a gap, and drafts of four, one more than a test
  looks at; the theorems hold for every set of passwords, length and alphabet, and
  for all that can be generated.

Symmetry is used only in runs without liveness properties, over values the
specifications compare for equality and nothing else.

### Fairness

Each specification comes as `Spec` and, where it has liveness properties, as
`FairSpec`. Fairness assumes that the calling thread runs and that each exchange is
answered or breaks (weak fairness of the client's steps). The code sets no
timeout on its session, so this is what it relies on the transport for; it is
listed as a hazard. For the iterators fairness is on `FetchPage` alone, so that
an iteration ends by itself and not by an exception. For ruleset generation and
runs the workers are fair: every queued task is taken up and every run ends. No
fairness is assumed of the environment's expiries, insertions or deletions, and
no property counts on an action of another client.

## 4. Proofs

The proof modules follow one argument: an inductive invariant with one lemma or
step for each action, `PTL` for the temporal step, and each property from it.

`BaseClientInv` (in `BaseClient`, also model-checked through its conjuncts) says
where a call stands: before the first answer it has no effect, body or fault
(`SendInv`); from the 401 to the replay it has no effect yet, its stream is at
the start before the second send, and, unless something went wrong, the new
token is valid (`RetryInv`); at the status check the status and the number of
effects agree (`CheckInv`). None of `AtMostOnce`, `WholeBodyDelivered` and
`FaultFreeCallSucceeds` is inductive without these: `effects <= 1` says nothing
of why a replay starts from zero. `InitInv` and `StepInv` show it inductive, one
step per action, `Invariance` closes the temporal step, and the safety theorems
follow from it. `AnonymousCallKeepsToken` is an action property from the same
invariant, and `ApiCallImplemented` shows that each step of `BaseClient` is a
step of `ApiCall` or stutters under the mapping `ResultOf`.

`IfmClientInv` does the same with `EarlyInv`, `CheckInv` and `TokenInv`; the last
says that a client with a token source never holds a refresh token and that a
renewal is only under way with an access token.

`RunsInv` is the conjunction of the safety invariants, and that a run whose
cancellation was answered exists. `VerdictOfAnswer` and `ChoiceIsSent` state what the
classification and the request building compute; the steps then only have to
compare the last call with the runs that move.

In `RulesetGenerationProofs` `Control` ties a download to the status before it: as
long as no other generation was started, the task that was finished still is.
Without it `NoRulesetsIsTrue` says nothing of the state in which the archive turns
out to be empty.

For the sweep `Promised`, in `RunsProofs` too, carries the promise of its end through
it: every run in a status already asked for that shares neither status nor
connection is in the dictionary. `Unshared` is what makes the server's choice of one
run, and the overwriting of an entry, harmless. `RunsMoveAsSwept` ties the two: each
step of `Runs` moves a run to one of the `Successors` the sweep reckons with.

In `PaginationProofs` the offset cuts the list into a front, which counts as read, and
a back. `TypeOK` says that the offset counts what was yielded, and
`EachChangeCostsOneItem` speaks of the end only; neither says what is in the front.
`FewLost` (what was there all along, sits in the front and was not yielded is no more
than the deletions), `FewAgain` (what was yielded and sits in the back, with the
repetitions so far, is no more than the creations) and `ExactSoFar` do. A change of
the list moves one item at most across the cut (`InsertMovesOne`, `DeleteMovesOne`),
and a page moves the cut over the items it yields (`CutBehind`, `PageCounts`), so that
at the last page, when the back is empty, what is left is the property.

In `ResourcesProofs` the invariant says of each client what its lookup found, ahead of
each request: an update goes to a resource of the object's name, or a connection's
own id (`Updating`), a creation finds none (`Creating`), a deletion has all of them
(`Deleting`), all *unless* somebody changed the store since (`stale`). `NamesStayUnique`
is not inductive alone, since it knows nothing of why a write adds no second one.
`Others` is the frame: the step of one client leaves the others where they are, and
makes their lookups stale when it changes the store, so each action is proved for the
client that takes it and `OthersKept` does the rest. `OnlyNamedAreTouched` is an action
property from the same invariant, for each write and each single deletion.

In `UserAccountsProofs` `Control` says that a call under way has not reported and
that only an account with an id is updated. The invariant is split into `Flags`
and the rest, as truth values and arithmetic need different provers.

In `ConnectionModelsProofs` the first invariant is about the object alone: it is of a
class that serves its type and has a value where the class has a default (`Fits`), and
holds the secret the caller chose (`HoldsSecret`), with nothing that could be
sent in its place but, of a Snowflake connection, what was shown encrypted
(`SnowflakeSendsBack`). So `RolledBack` and `FilledIn` are the only exceptions that
`SecretsAreCallers` and `NothingElseIsChanged` need.
`ValidatedFits`, applied twice, is the payload that is validated a second time. The
second, `WInv`, adds what a write leaves behind: `Landed` says that until something
changes the record has what the object has, exactly where the class has a default, and
`Versioned` that no record is without a version, so that a write never fills one in
that the caller does not see. The way of a field is followed one stage at a
time: `DumpCarries` (the serializers), `RequestCarries` (the body), `RecordTakes` (the
server, resetting or keeping what is left out), and back by `ReadsBack` over
`ValidatedKeeps` (the validators).

In `UserAccountsProofs` the passwords are followed through the loop of
`generate_password` for every alphabet and length: a single character is strong, an
accepted one keeps a draft strong, and one is always accepted; conversely a strong
password is an accepted extension of a strong draft (`StrongIsExtension`). The
induction over the length is made on sets of numbers (`SetInduction`, from the
well-foundedness of strict inclusion of finite sets), and `DraftsDef` shows that the
recursive definition of `Drafts` has a solution before it is unfolded. So
`Drafts[n]` is the set of strong passwords of length `n`, whatever `n`, and
`NewAccountsStartStrong` carries it to the accounts.

Some theorems state what no run checks: `AnonymousCallKeepsToken`,
`AllRequestsCarryToken` and `CallAppliedAtMostOnce` of the IFM client, which the runs'
other properties entail or nearly do; `RunsMoveAsSwept`; and the steps of the induction
over passwords.

Assumptions: one for each module, by name (`BaseClientAssumption` and so on): the
values that stand for "none" are none of the values proper, errors are statuses
from 400 to 599, bounds are natural numbers, an alphabet has two characters.

| theorems | module |
|---|---|
| `TypeCorrect`, `CallAppliedAtMostOnce`, `UploadsAreWhole`, `ExpiryIsInvisible`, `AnonymousCallKeepsToken`, `ApiCallImplemented` | `BaseClientProofs` |
| `TypeCorrect`, `CallAppliedAtMostOnce`, `ExpiryIsInvisible`, `AllRequestsCarryToken`, `LoginsAreNeeded`, `ApiCallImplemented` | `IfmClientProofs` |
| `TypeCorrect`, `QuietIterationsExact`, `ChangesCostOneItemEach` | `PaginationProofs` |
| `TypeCorrect`, `RulesetsAreOwn`, `NoRulesetsTrue` | `RulesetGenerationProofs` |
| `TypeCorrect`, `StartVerdictsFit`, `DefaultsAreAskedFor`, `CancelVerdictsFit` | `RunsProofs` (of `Runs`) |
| `SweepTypeCorrect`, `ReportedRunsWereLive`, `QuietSweepsComplete`, `RunsMoveAsSwept` | `RunsProofs` (of `UnfinishedRuns`) |
| `TypeCorrect`, `NamesUnique`, `ObjectsNameTheirResources`, `DeletesByNameComplete`, `OnlyNamedAreTouched` | `ResourcesProofs` |
| `TypeCorrect`, `SecretsAreCallers`, `WritesAreReadBack`, `NothingElseIsChanged` | `ConnectionModelsProofs` |
| `TypeCorrect`, `CallerKeepsPassword`, `ReturnedPasswordIsSet`, `NewAccountsStartStrong` | `UserAccountsProofs` (of `UserAccounts`) |
| `AcceptedStaysStrong`, `SomeCharacterAccepted`, `StrongOnesGenerated` | `UserAccountsProofs` (of `PasswordGeneration`) |

So every safety invariant and every action property of a run that passes is proved.
Only model-checked are the liveness properties: `CallReturns` of both clients,
`IterationEnds`, `PollingEndsUnlessWarned` and `WatchEnds`. TLAPS proves no liveness
under fairness here, since it has no support for `ENABLED`.

## 5. What is not modelled

* Wording, logging, redaction of logged bodies, TLS warnings, URL building.
* pydantic validation of answers: an answer of success has the documented shape.
* Sharing a client between threads, which `base.py` rules out in its docstring.
* Reports, logs, snapshots and other downloads, and the synchronous
  `generate_ruleset` and `generate_file_ruleset`: a single request each.
* `settings.py`, `license.py` and the plan methods of `ifm.py` beyond what
  `BaseClient` and `IfmClient` cover: a single request each. `admin_install`'s choice
  of password and hosts.
* `models/git.py`, `models/dm_instance.py` and the field declarations of the other
  models; what `SseConfig` checks.
* The roles of users, and the contents of rulesets, libraries and configs.

## 6. Plan

Done, in this order: the HTTP core with its abstract specification and proofs;
the IFM client likewise; pagination; ruleset generation; runs; the sweep;
resources; users; uploads and files; the generation of passwords; the building of
run requests; the connection models; proofs of every safety property of all of
these.

Worth doing next:

1. `AdminInstall`: the once-only bootstrap, its choice of password, and a lost
   answer.
2. That a call of `Resources` or `UserAccounts`, which makes several, implements
   `ApiCall` where it may: a put that is told *refused* has written nothing.
