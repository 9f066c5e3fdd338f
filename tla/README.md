# Verification of the GAUS device client library

The repository is a C library (`src/src/libgaus`, about 1500 lines) with which a
device registers itself at a Gaus backend, opens a session, asks for software
updates and sends reports. Every entry point is a blocking function that makes
one HTTP exchange through libcurl and exchanges JSON through jansson. This
directory holds TLA+ models of those functions, the TLC runs that check them,
and TLAPS proofs of the results that do not depend on the size of an instance.

There is no protocol here that runs by itself; what is hard about the library is
the memory it hands to its caller. Each function can fail in the middle, after
any number of allocations, and what it then leaves in the caller's hands is
decided by a single `error:` label. Most properties below are about that.

Contents: [1 Inventory](#1-inventory) -
[2 Modules](#2-modules-and-how-they-correspond-to-the-code) -
[3 Runs](#3-the-runs-and-what-they-show) -
[4 Fairness](#4-fairness) - [5 Proofs](#5-proofs) - [6 Findings](#6-findings) -
[7 Not modelled](#7-what-is-not-modelled) - [8 Plan](#8-plan)

## 1 Inventory

| Component | State | Operations | What must be right |
|---|---|---|---|
| Global state, `gaus.c` | the flag `globalInitalized`, three `strdup`ed strings, libcurl's global set-up | `gaus_global_init`, `gaus_global_cleanup`; every entry point tests the flag and reads the strings | set-up and clean-up balance; nobody uses a freed string or mixes the strings of two set-ups |
| URL formatting, `create_url` in `request.c`, with its call sites | a buffer of some size, a position; the block of the query string | append a filter to the query string; format with escaping into the buffer; grow the buffer and retry (`gaus_check_for_updates`), or not (the other three) | nothing is written outside block or buffer; what is sent is the whole URL; the retry loop ends |
| HTTP exchange, `request.c` | curl handle, header list, FILE, response block | `request_get_as_string`, `request_post_as_string`, `request_get_as_file`, the writers libcurl calls back | everything is released on every path; no part of a body is taken for the body; the status says what happened; a block is leaked only when `realloc` fails |
| Check for updates, `gaus_check_for_updates.c` | the caller's array of updates, while it is built in place | `gaus_check_for_updates`, `parse_update_json` | on success all updates are there; on failure what is there can be freed |
| Register and authenticate | the device's keys and session, over the calls of its life | `gaus_register`, `gaus_authenticate` | keys and sessions are never pieced together from two replies; nothing is leaked |
| Report, `gaus_report.c` | JSON objects that pass from list to report to array to body | `gaus_report`, the encoder of each type of report, and of each type of list | no object is released twice, a call that succeeds releases all; success means the server has accepted every report; a list goes out under its own name |
| JSON helpers | none | `get_dict_int`, `dup_dict_string`, ... | an item that is missing or ill-typed is rejected; an integer survives the widths it passes through |
| libcurl indirection, log, tests and build | function pointers; none | - | - |

**Interaction.** The entry points do not call each other. What all those that talk
to the server promise an application is one contract (`EntryPoint`). They meet in
three places: they read the global state that `gaus_global_init` has set; they use
`create_url` and `request.c`; and the caller carries what one returns into the
next (keys into `gaus_authenticate`, the session into the other two). During a
transfer libcurl calls back into the response writers, on the same thread.

**What is hard.** *Partial failure*: about seventy `goto error`, each with
a different set of things allocated. *Sequences of calls*: out parameters are
written item by item over those of earlier calls; the global strings are freed
and set again. *Several users in one process*: the flag is shared and not
counted. *Ordering*: values with the same name are merged, references to JSON
objects are moved or shared depending on the function used. *Boundaries*: two
bounds in `create_url` that must agree at every length, a `realloc` per filter
that has to count the separator and the NUL, a 64 bit size that passes through an
`int`. *Layouts*: the encoders read every report through the struct of one of its
types. *Termination*: the retry loop around `create_url` has no exit but success, and transfers have no timeout.
`PROJECT.json` lists each of these hazards at its line, with the properties that
cover it or the reason why none does.

## 2 Modules, and how they correspond to the code

`PROJECT.json` ("map") gives the lines each definition stands for. In every
module `pc` is the place in the function, an action is the code between two
points where something can go either way, and a failure is a disjunct or an
action of its own. Definitions under the heading "Mutated forms" are not part of
a model: they are plausible bugs, each of which must break a property.

    Request ---implements---> Exchange <---INSTANCE--- EntryPoint
       ^                         ^                         ^
       |                         | INSTANCE                | implement
       |                         |                         |
       |              CheckForUpdates, Credentials, Report +
       |                  ^    |               .
       | INSTANCE         |    v EXTENDS       . (query string and URL: one step there)
       |                  |  JsonHelpers     CreateUrl            GausGlobal
       |                  |
       |                  | EXTENDS, implements
       +------- UpdatesOverRequest

- **`CreateUrl`** - `create_url`, `write_char_safe` and the calls of them. A URL
  is its number of characters; one step of the loop writes one character. The
  "grow" call site is the loop of `gaus_check_for_updates`; "fixed" is
  `char url[256]` of the other functions, which ignore the result. A failing
  `malloc` in the loop is modelled (`url = "null"`), and so is a failing
  `curl_easy_init`. Before it comes the query string: `query` characters in a
  `block` that is reallocated for each filter.
- **`Exchange`** - the abstract specification: what the entry points may rely on
  when they make an exchange. `Deliver` (the whole body of a 200), `Refuse` (the
  status, no body), `GiveUp` (no body, and the status stays the 200 the caller
  preset). It also pins down the traps the callers live with: an empty body may
  come as NULL, and a 302 is "status < 400 and no body".
- **`EntryPoint`** - the abstract specification of `gaus_check_for_updates`,
  `gaus_register`, `gaus_authenticate` and `gaus_report` as an application sees
  them: a call is refused before anything is sent, or makes one exchange, never
  repeats it, and returns an error that follows from how the exchange ended. In
  the three modules that implement it `Stage` is the refinement mapping: `pc`
  collapses to five stages. Where the function sets its error before it returns, it
  counts from the return on (`Result`, `Outcome`).
- **`Request`** - one exchange as `request.c` makes it, from the first
  acquisition to the last release, with the two writers. `res` says of each
  resource whether it is held or freed; `block`, `pos` and `good` are the
  response buffer, what the code believes to be in it and what is. A `realloc`
  that fails in the middle, a short `fwrite`, a transfer libcurl gives up at any
  chunk, a failing `fdopen`, and an `fclose` that cannot write what stdio still
  has are actions. The `INSTANCE` of `Exchange` in it
  is the refinement mapping: all stages between call and return are "calling",
  and a status written during the call counts when the call returns. `LoseBlock`
  is the assignment of `realloc`'s NULL to the only pointer to the block: the old
  block becomes the resource "lost", which nothing releases.
- **`GausGlobal`** - users (threads) that initialise, enter, read and leave.
  `gaus_client.h` forbids `gaus_global_init` and `gaus_global_cleanup` while any
  other thread is in the library; `Alone` is that rule and `MayCleanUp` the rule
  of one cleanup for each init. An entry point is three steps, because it reads
  the strings one after the other.
- **`CheckForUpdates`** - the whole of `gaus_check_for_updates` over the contract
  `Exchange`. The array is malloc'd without being cleared, so a field starts as
  "garbage"; `StartEntry` sets one entry's fields to "null"; `Metadata`, `Pair`
  and `Field` fill it in the order of the source. `Pair` copies the key before it
  looks at the value, so a rejected pair leaves a key (`keys`) without a value
  (`copied`), and nothing in the pairs behind it. A reply is, for each entry,
  the first item the parser will reject, if any, and the size given. The size is
  read by `get_dict_int` of **`JsonHelpers`**, which models the two conversions it
  goes through (64 bit integer, `int`, `unsigned`) for an `int` of any width.
- **`UpdatesOverRequest`** - the composition: `CheckForUpdates` with every action
  but those of the exchange, and `Request` in the place of the contract. Two
  things pass between them. `written` is `*status_code`, which `request_get` writes
  through the pointer of its caller: the caller's `status` is what it finds there
  when the call returns. `block` is the response buffer: `request.c` gives it away
  with the string it returns, and `free(raw_check_for_update_result)` frees it. That
  the composition does what `CheckForUpdates` does over the contract is a property,
  `ImplementsUpdates`, and not an assumption.
- **`Credentials`** - `gaus_register` and `gaus_authenticate` over any sequence of
  calls, with a caller that frees what it likes in between. A string is the
  number of the call that allocated it, which is what the properties need: from
  which reply it is and whose it was when it was lost. `SendNull` is a request
  whose body cannot be made, e.g. of a key that is not UTF-8: `request_post` runs
  `strlen` on NULL (`request.c:217`), and the application starts anew (`Fresh`).
  Of the application it is assumed that it sets a key to NULL when it frees it,
  since by the header file `gaus_register` will free what the key points to; a
  session may dangle or be uninitialised.
- **`Report`** - `gaus_report` and the encoders. `refs` counts references as
  jansson does: `json_object_set` adds one, the `_new` functions and `json_pack`
  with `o` take one over, `json_decref` drops one. An object without a reference
  is NULL or freed. The structs of the union are sequences of members
  (`LayoutOf`); the encoders read all of them as `update_status`, and `Found` is the
  member of the caller's own struct that they meet there. `array` keeps, of each
  report, what the caller gave (`wanted`) and what is sent, by name (`sent`).
  `Post` sends a body that could be made. When `json_pack` or `json_dumps` fails the
  code goes on with a body of NULL (`PostNull`): `request_post` either has no curl
  handle and gives up ("unsent", from where only `GiveUp` leads on), or it crashes in
  `strlen` before anything is sent ("crashed"); the next call is then one of a new
  process.

`MC...` modules give the constants their values; `...Proofs` modules hold the
theorems.

## 3 The runs, and what they show

Violations are runs that must fail: each shows that the code does not do what
the quoted line says (section 6).

| Run | Question | Bounds | Result |
|---|---|---|---|
| `create_url` | Is a URL or a query string ever written past its memory, or a URL sent in part by the site that retries? Does the loop end at the first size that fits? | increment 4 for 256; URLs up to 10 without the query string; up to 2 filters of 1 or 3 characters; `curl_easy_init` fails up to 2 times | holds |
| `create_url_truncated` | Do the sites with the fixed buffer send whole URLs? | same | **violated** |
| `request` | Is all released but what a failed `realloc` has lost, is no part of a body handed out, does `request.c` keep the contract `Exchange`, does every exchange return? | codes 200, 302, 404; bodies up to 3 bytes in any chunks | holds |
| `global` | Can a call meet a freed string, or strings of two set-ups? Does set-up balance? | 2 users, 2 servers, 1 proxy or CA path, up to 2 inits each; users are symmetric | holds |
| `global_paired` | Is a user that follows the pairing rule served until its own cleanup, when another user makes its own? | same, with 1 init each, so that both inits are open at the same time and a refused user has made no cleanup itself | **violated** |
| `updates` | With the exchange made by the code of `request.c`: what does a call deliver, and what has it assigned, on each path? Is a size delivered as it was sent? Who owns the response block, and when is it leaked? Does the error name its cause, after one exchange at most? Does the call return? Is all this what the contract would give? | codes as above; bodies up to 2 bytes in one or two chunks; 3 updates, 2 metadata pairs each; an `int` of 2 bits, sizes 0, 1, 3, 4, 5 | holds |
| `updates_success` | Are the out parameters valid on success? | same, over the contract | **violated** |
| `updates_failure` | Can they always be freed after a failure? | same, over the contract | **violated** |
| `credentials` | Can keys or a session be pieced together from two replies? Are they lost or left dangling by a call? Does each call keep the contract `EntryPoint`? | 3 calls, crashes among them, codes as above | holds |
| `credentials_overwritten` | Are the old strings freed, as the header says? | same | **violated** |
| `report` | Is a reference lost or dropped twice, an error swallowed, a report counted as accepted that is not, a list sent under another's name, the contract `EntryPoint` broken? | 2 reports of any of the 4 types, any of the lists given, lists of 2 values over 2 names | holds |
| `report_given` | Is everything the caller gives reported? | same | **violated** |

**Why the bounds are enough.** *Increment 4*: the code never looks at the value of
256, only at what is left of the buffer; URLs of up to 10 characters meet the last
byte, the byte after it and the spare byte at the sizes 4 and 8 and go on beyond,
and the proofs cover every increment. *2 filters*: the first has no separator
before it and the second has one. *An `int` of 2 bits*: 1 is the largest `int`, 3
the largest `unsigned`, 4 and 5 the first sizes that wrap around; the proofs cover
every width. *Codes*: the code compares with 200 (`request.c`) and 400 (entry
points), so 200, 302 and 404 are all that it can tell apart. *Bodies*: 3 bytes can
come in one, two or three chunks, so a failure can hit the first, a middle and the
last one; the entry points only tell 0 from more. In the composition 2 bytes are
enough: the block is lost, or the transfer given up, with nothing, a part or all
of the body stored. *3 updates* put one that is
rejected before, at and after one that is not a file. *3 calls* are one that
leaves strings behind, one that fails half-way, and one that could pair the two.
*2 values* are the least that can have the same name, and put a bad value before
or after a good one; *2 reports* let the second fail when the first has changed
hands. *Types and lists of a report* are all there are. *2 inits* of each of 2
users is the least in which a user's surplus cleanup meets its own and the other's
set-up. `MaxInits`, `MaxCalls`, `MaxCurlFails`, `MaxFilters` and `MaxUrl` are
guards that keep the state space finite; the code has no such limit, and the
proofs hold for every value of them.

**The properties**, with what could break them:

- `TextInsideBuffer`, `ShortUrlIsWhole`, `GrownUrlIsWhole`, `GrowthIsTight`: the
  bound while writing, the bound at the end, and the retry must fit together at
  each length; an off-by-one in any of them shows at one length only.
- `QueryInsideBlock`: what `realloc` adds for a filter must be what the `strcat`s
  write, separator and NUL included, for the first filter and for the next ones.
- `UrlEventuallySent` (liveness): the buffer grows each time round the loop, also
  when the reason for the failure was not its size.
- `ReleasedUnlessLost`, `BodyIsWhole`, `FdOwnerKnown`: after any failure at any stage.
  The block that a failed `realloc` has lost (`request.c:360`) *is* leaked; the first
  of the three says that nothing else is, and that such an exchange hands out
  nothing (the exception is an empty body, of which `realloc` failing is not noticed).
  Of a file `BodyIsWhole` promises only what libcurl delivered, since the result of
  `fclose` is not looked at.
- `ImplementsExchange` (refinement): the contract the callers are checked against
  is the one `request.c` keeps. `ExchangeReturns` (liveness).
- `ImplementsEntryPoint` (refinement, of the three modules of entry points): no
  exchange after a refusal, none repeated, and an error that follows from the
  exchange of this very call and not from what came before or after it.
- `SetUpIsBalanced`, `CallsAreSafe`, `CallsUseOneEnvironment`,
  `EnvironmentIsConstant`: after a cleanup the pointers dangle; re-initialisation
  must assign every one of them, also those for which no option is given, and a
  second init must not touch them.
- `DeliveredUpToOther`, `AssignedUpToFailure`: what *does* hold of the array on
  success and on failure, short of what the header promises (section 6). The second
  does not say that the failing entry can be freed as it is: after a rejected pair
  `metadata_count` still counts the pairs behind it, which are not assigned.
- `ReplyIsOwned`: the response block changes hands between two files and is freed in
  the second, at whichever exit; while it is parsed it must be the whole body of a 200,
  and at the end neither side may hold anything but a lost block (`LocalsReleased`,
  `ReleasedUnlessLost`), and not even that when the call succeeds.
- `ImplementsUpdates` (refinement): every step of the two together is a step of
  `CheckForUpdates` or none, so that a violated contract would show as behaviour
  the entry point was not checked against.
- `NoStringOverwritten`, `CallReturns` (liveness): on all exits of
  `gaus_check_for_updates`.
- `SizesAreExact`: a size above the largest `int` is negative while it is tested
  against 0, and is right again when it is stored.
- `UsableIsOfOneReply`, `SuccessFillsAll`, `NoOwnStringLost`, `SessionFreeable`: a
  missing item leaves NULL in its own pointer, so a pair that is complete is of
  one reply; this hangs on the order "assign, then test" and on
  `gaus_authenticate` clearing the session before the request.
- `FirstValueWins`, `NoErrorSwallowed`, `ReferencesBalance`,
  `SuccessMeansAccepted`: the encoders go on after an error, the merge keeps the
  first value, and each object changes hands three times. `ReferencesBalance` also
  bounds what a failed call leaves behind: header, array, the report at hand and
  the lists it holds, each with one reference.
- `SentUnderOwnName`: a generic report is read through the struct of an update
  report, which is right only as long as both have their lists in the same places.

## 4 Fairness

The library has no scheduler and no threads of its own: a call that has begun
runs until it returns, which is weak fairness of its steps.

- `CreateUrl!FairSpec`: weak fairness of the steps of one call. `MaxCurlFails`
  makes the failures of `curl_easy_init` finite within one call; if it failed for
  ever, the loop of `gaus_check_for_updates` would indeed run for ever, with an
  ever larger buffer. The liveness property is under that assumption.
- `Request!FairSpec`: weak fairness of the steps of one exchange, **including the
  end of the transfer**. The code does not guarantee the latter: it sets no timeout
  on the handle (`request.c:298-324`), so a server that stalls keeps the caller
  for ever. `ExchangeReturns` therefore says that the library's own steps cannot
  get stuck, given a network that answers or breaks. It is an assumption about
  the environment, listed as a hazard.
- `UpdatesOverRequest!FairSpecOver`: weak fairness of the steps of a call that has
  begun, and of the end of the transfer, which is the same assumption about the
  network. That the exchange returns is not assumed here: `CallReturns` is shown
  with the steps of `request.c` in it. That a step is enabled at all is what the run
  shows; the loops over entries and pairs end because the lists of a reply are finite.

The other modules have safety properties only. Deadlock is checked in every run:
after a call has returned, another one is possible, or (`Credentials`) the
caller can free.

## 5 Proofs

TLAPS checks these for every value of the constants. The assumptions, stated
in the modules and evaluated by TLC: `Increment` is positive, the bounds are
natural numbers (of reports a call has at least one), `Codes` are natural numbers
among which is 200, `Half` (2^31 in the code) is positive, `Sizes` are integers, 0
among them, the text of a filter is not empty, and NULL is not a server or an
option.

| Module | Inductive invariant, and why it is needed | Theorems |
|---|---|---|
| `CreateUrlProofs` | The run's invariants speak of a URL when it is sent. What has to be carried along is how many characters are stored *while* formatting (all that had room), and what a return value says of the buffer, so that the test of `ret` decides what is sent. For the query string, that the block has exactly its characters and the NUL. | `TypeCorrect`, `QueryFits`, `NoOverrun`, `GrownUrl`, `ShortUrl`, `TightGrowth`, `ChargedGrowth`, `Bounded` |
| `RequestProofs` | `ReleasedUnlessLost` speaks of the end of a call only. `HeldByStage` says which resources each stage has acquired, `LostByStage` when a block can have been lost, `StoredByStage` that `pos` counts real bytes unless the block has been lost, `OutcomeByStage` what status and result stand for. With these each step of `Request` maps to a step of `Exchange` or to none. | `TypeCorrect`, `ReleasedButLost`, `WholeBody`, `FdOwner`, `Implements`, `Bounded` |
| `GausGlobalProofs` | A call in flight is safe because nobody can clean up under it (`Alone`), and because a library that is set up has no freed pointer (`SetUpIsWhole`); `InFlight` says that what it has read so far is of the set-up that is still there. | `Balanced`, `SafeCalls`, `OneEnvironment`, `ConstantEnvironment`, `TypeCorrect` |
| `CheckForUpdatesProofs` | The run's invariants speak of the array when the call has returned. `EntriesAround` says of it while it is filled that the entries before the one at hand are whole files and those after it unassigned, `EntryAtHand` that the one at hand is assigned up to the field to parse next and has as many keys as values, `RejectedPair` how far the pairs of a failing entry have got, `CauseByStage` where status and error come from. Replies have any number of updates and pairs, and an `int` any width: a lemma says that `ToUnsigned` undoes `ToInt` below 2^32. | `DeliveredWhole`, `AssignedBefore`, `NamedCause`, `Released`, `StringsKept`, `ExactSizes`, `Implements`, `Bounded`, `TypeCorrect` |
| `UpdatesOverRequestProofs` | The invariant of `CheckForUpdates` and, beside it, what holds of `request.c` when it works for this caller: nothing before and after the call, at each stage of the exchange what that stage has acquired and whether a block can be lost (`LostByStage`), and of the block when it is given away that it is the whole body of a 200. With this each step of `request.c` leaves the caller's variables alone, and its return is one of the steps `Deliver`, `Refuse` and `GiveUp` of the contract. | `InductiveOver`, `ImplementsOver`, `OwnedReply`, `EndToEnd`, `BoundedOver` |
| `CredentialsProofs` | Keys and sessions may be of two replies *during* a call. `KeysMatch` says exactly where (between the two assignments), `SessionMatches` that a session being filled has nothing older in it, `StoredByStage` that what this call has stored are the items the parser has passed, hence not the item it is about to assign. | `OneReplyEach`, `OwnStringsKept`, `SuccessFills`, `SessionsFreeable`, `NamedCause`, `Implements`, `Bounded`, `TypeCorrect` |
| `ReportProofs` | `ReferencesBalance` speaks of a few stages. `RefsOutside`, `RefsOfLists` and `RefsAtEnd` count the references to each object at every stage: an attached list has two while its encoder runs and one after it. `ListsByStage` says that the lists dealt with so far are attached unless the caller gave none, `ArrayContents` carries that over to the reports in the array, `CountByStage` and `ErrorByStage` tell how many those are and why the call is going to fail. Calls have any number of reports, lists any number of values. | `FirstWins`, `ErrorsKept`, `Balanced`, `Accepted`, `OwnNames`, `NamedCause`, `Implements`, `Bounded`, `TypeCorrect` |
| `EntryPointProofs` | `CauseByStage`: a status other than 200, and any body, is of this exchange. | `Truthful` |

Each `Inductive` theorem is `Spec => []IInv`, from `Init => IInv` and `IInv /\
[Next]_vars => IInv'` (a lemma for each group of actions that disturb the same
conjuncts); the other theorems follow from it. `Implements` is the refinement:
`Spec => Exch!Spec` for `Request`, `Spec => Contract!Spec` for the entry points,
`SpecOver => Spec` for the composition. From the last one follows, without looking
at the code again, that all that is proved of `gaus_check_for_updates` over the
contract holds with `request.c` below it (`EndToEnd`). The inductive invariants
have also been checked with TLC before they were proved.

*An error names its cause.* `Truthful` shows it of the contract `EntryPoint` and so, by
`Implements`, of every function that keeps it. The prover cannot use a theorem of a
module through `INSTANCE`, hence `NamedCause` proves it directly in each of the three
modules of entry points. For the same reason the invariant of `Request` is stated
again, for the one call that is made, in `UpdatesOverRequestProofs`.

*Calls end.* Liveness is out of the prover's reach, but the part of it that is about
the code is not: in each `Bounded` theorem a measure that is never below 0 (and, but
for the URL, within a bound that the sizes of the input give) falls at every step
that a call makes, so no call can go round in its loops for ever.

- URL: the loop of `gaus_check_for_updates` ends because the buffer grows each
  time. `ChargedGrowth` says by how much at most: one increment for each failure of
  `curl_easy_init`, apart from what the URL needs. The measure counts the failures
  still to come, so it is under the assumption that they are finitely many.
- `Request`: the measure falls at every step but the delivery of an empty chunk,
  which is possible only when the body is empty.
- `CheckForUpdates`, `Credentials`, `Report`: at most 6 steps and those for the
  updates and pairs; at most 9 steps; at most 5 steps and those for the reports,
  lists and values. Each counts to the return or, on a body of NULL, to the crash. The
  proof for `Report` also shows that no list is read past its end.
- `BoundedOver` puts an entry point and its exchange together: a step either brings the
  caller nearer to its return or leaves it where it is and brings `request.c` nearer
  to its own.

What remains for the liveness properties is that a call which can make a step makes
it, and that libcurl ends a transfer: fairness (section 4).

Only model-checked: liveness (`UrlEventuallySent`, `ExchangeReturns`,
`CallReturns`), since the prover has no rules for fairness and `ENABLED`. There is no
induction over data: the parsed replies and encoded lists are treated one step at a
time, and no theorem computes a recursive function. The violated properties are
refuted by TLC's counterexamples; nothing is proved about them.

## 6 Findings

1. `create_url_truncated` - `gaus_report`, `gaus_register` and `gaus_authenticate`
   ignore `create_url`'s -1 and post to a URL cut off at 255 characters
   (`gaus_report.c:128`; the comment above it says "Fixme"). If
   `curl_easy_init` fails there, the URL is uninitialised stack memory.
2. `global_paired` - `gaus_client.h:193` asks for one cleanup for each init, but
   inits are not counted: the first cleanup takes the library from every user
   (`gaus.c:64`). In the trace two users have initialised it, one cleans up, and the
   other is refused.
3. `updates_success` - at the first update that is not a file, `goto error` leaves
   the whole function with no error set: the call succeeds with a count that
   includes uninitialised entries (`gaus_check_for_updates.c:202`).
4. `updates_failure` - after a failure inside the array the entries behind the
   rejected one hold indeterminate pointers, which the header (144-145) asks the
   caller to free (`gaus_check_for_updates.c:127`).
5. `credentials_overwritten` - the header (92, 96, 128) says the old contents of the
   out parameters are freed; they are overwritten (`gaus_authenticate.c:43`,
   `gaus_register.c:104,109`).
6. `report_given` - `v_ints` and `v_floats` of an update report and the tags of any
   report are dropped without an error (`gaus_report.c:248`;
   `gaus_client_report_types.h:215,230`).

## 7 What is not modelled

- **Log, libcurl indirection, tests, build.** No state of their own. The tests were
  read to see how callers use the library, e.g. that they free the out
  parameters after errors.
- **An application.** The repository has none. What an application may rely on is
  `EntryPoint` for one call, and over a sequence of calls `GausGlobal` and
  `Credentials`.
- **Allocation failures the code does not test for** (`strdup`, most `malloc`s): the
  next instruction would be undefined. Those it does test for, and those it
  survives, are actions, and so is a request body that cannot be made, since that
  also happens without any lack of memory, with text that is no UTF-8.
- **A transfer that never ends.** The code sets no timeout (`request.c:298-324`); the
  liveness properties assume the end of the transfer (section 4), so no property
  covers that hazard.
- **Text**: headers, JSON texts, descriptions of errors; of query strings and URLs
  only the length. Whether an item of a reply is usable is a choice of the
  environment, so that every reply is covered; of what a usable item says only
  the size is modelled.
- **Sizes beyond the caller's field.** A size that is a multiple of 2^32 is rejected
  as missing and a larger one is stored modulo 2^32; `SizesAreExact` says nothing of
  them, because no value of the `unsigned` field would be right.
- **Counter and gauge reports** are documented in `gaus_client_report_types.h` and
  rejected as unsupported by the code; `Unsupported` models the rejection, and
  there is nothing more of them to model.
- **Error objects.** An error created while another one is set takes its place and
  the old one is leaked; the models keep the error and not its memory. When
  `realloc` has failed in a response writer the log call at `request.c:142` formats
  a NULL string: the model has the state but nothing documented to hold it to.
- **An empty list of updates**: the array then comes from `malloc(0)`, and need not
  be NULL.
- **Breaking the header's rules**: init or cleanup while another thread is in the
  library, or a caller that frees a string twice.
- **Release of a call's own blocks** in `Credentials` and `Report`: they are freed
  unconditionally at one label. `CheckForUpdates` models the same label where
  there are many ways to it. In `Report` the JSON objects are modelled.

## 8 Plan

Modules in the order in which they were planned: what everything else stands
on first, then the entry points by how much can go wrong in them.

1. `CreateUrl` with proofs - done.
2. `Exchange` (abstract specification), `Request`, refinement with proofs - done.
3. `GausGlobal` with proofs - done.
4. `CheckForUpdates` with proofs - done.
5. `Credentials` with proofs - done.
6. `Report` with the layouts of its structs, and proofs - done.
7. `JsonHelpers`, and the query strings of filters in `CreateUrl`, with proofs -
   done.
8. `EntryPoint` (abstract specification), implemented by the entry points, with
   proofs - done.
9. `UpdatesOverRequest`: an entry point composed with the code of `request.c`, with
   proofs - done.
10. Measures that fall at every step, for each component that loops - done.

What is left:

11. A stronger `CheckForUpdates` contract: what a caller that frees up to the failing
   entry, with the index it cannot know, would need from the library.
12. The memory of the error objects, in a model of the caller and one entry point.
13. `Credentials` and `Report` composed with `Request` as `CheckForUpdates` is. Both
   use `request_post_as_string`, which differs from the composed call in the
   headers and the body it sends, and both implement the same contract.
