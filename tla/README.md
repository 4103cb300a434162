# A TLA+ verification of utool

utool is a command line client for the out-of-band controller (BMC) of a server, and a C
library with one entry, `utool_main`. A call executes one sub-command: it checks the
options, sends Redfish requests over HTTPS (libcurl) or raw IPMI commands (the `ipmitool`
binary), waits for the task the BMC has started if there is one, and produces one JSON
object with `State` and `Message`. This directory models the parts of it whose correctness
depends on order, failure and concurrency, checks them with TLC on small instances and
proves the main results with TLAPS for every value of the parameters. File names below are
relative to `src/src/`; `F` is `commands/update_outband_firmware.c`.

## 1. The system

### 1.1 Components

**Task waiting** (`redfish.c` 1270-1665, `commons.c` 49-224).
State: the document of the task seen last (`jsonTask`, also handed out as `result->data`),
the failed polls that are still tolerated, and `broken`/`code`/`desc` of the result.
Operations: wait until a task has started, wait until it has ended, map a task document,
build the verdict. Hard: the same document is reached through two pointers, one of which is
freed in each round; failed polls are counted over the whole wait; starting and ending must
not be confused. Correct means: a verdict is given, once, and success only on a task that
has succeeded.

**Firmware update** (`F`, the `fwupdate` command).
State: stage and round of `RetryFunc`, the result with its `reboot` flag, the log file, the
active version read from the BMC, the plane of a dual update. Operations: session, serial
number, log file, version, upload or download, upgrade, transition image, restart, dual
plane, activation. Hard: three rounds around every stage with a restart of the BMC between
them, a restart after the transition image, between the planes and after the upgrade, while
the BMC also restarts by itself and then forgets what is in its `/tmp`. Correct means: a
BMC that must go through 6.36 does so, nothing is touched when the update is refused,
success means that each plane was flashed, or on a 2.58 BMC that its upgrade was at least
taken over IPMI, and the command ends.

**IPMI upgrade** (`F` 860-1160, `ipmi.c`), used when the BMC runs 2.58.
State: queries made, zeros in a row, the time of the last answered query. Operations: start
command, query loop, decoding a progress byte, finish command. Hard: the byte carries
progress, progress plus 128, error codes and "not started or finished", and the loop has
one limit in queries and another one in seconds.

**Account commands** (`commands/add_user.c`, `set_pwd.c`, `set_priv.c`, `del_user.c`).
State: the account found, its ETag, the members of the list not yet read. Operations: list,
read the members in order, change or delete. Hard: several utools (and other clients) work
on one BMC, so a slot can change hands between the read and the change; answers get lost.

**Library entry** (`utool.c`): a flag and a mutex shared by all threads, the log file,
libcurl's global state and an `atexit` handler. Hard: the flag is read outside the mutex,
two of the returns between lock and unlock keep the mutex, and the rotation of the log file
(`log.c`) may leave a pointer to a closed file behind, or none.

**IPMI white list** (`commands/set_ipmi_whitelist.c`, `get_ipmi_whitelist.c`) and
`sendipmirawcmd`. State: the command line, the place in the file that is imported, the
`UtoolResult`, the entries read so far; on the BMC the switch and the list. Operations: ask
for the vendor, switch the list on or off, add or remove one command, import a file, read
the list entry by entry. Hard: an import is applied while it is still being checked, an answer can be lost after the call was taken, a call that cannot be sent breaks nothing, a
sub function reaches `ipmitool` as it was written, the stored form of an entry is ambiguous, and
the list is read by index while others change it. Correct means: calls are made in the order
of the command line and the file, each once and none after a failure, success means all of
them were taken, what is shown was there and can be imported again.

**Request layer** (`redfish.c` 60-1222, `commons.c`): the response, the ETag of a PATCH, the
OEM name of the vendor. Operations: find the BMC, GET, POST, PATCH, DELETE, upload over HTTP
or SFTP, download, and three different ways of finding out that a request has failed. Hard:
the same answer is a failure to one caller and a success to another.

**Commands made of requests**: 58 of the 68 sub-commands: 32 queries
(`get*`), 19 settings, 5 commands around a task, `waittask` and `download`. Each handler is a sequence of steps with
`goto FAILURE` after each, over lists whose length the BMC decides. Hard: a command of several
steps can stop in the middle. Correct means: what it leaves changed was asked for once, on what
had been found, and not before anything that could be found wrong without it.

**Not modelled**: the debugging commands `upload` and `scp`, the parser of options
(`command-helper.c`), the helpers for strings and URLs, the files a rotation of the log
leaves, `main.c`, and the third-party libraries. Section 7 has the reasons.

### 1.2 Interactions

- `utool_main` initialises the library, picks the handler, and turns what the handler hands
  over into the answer: a `code` other than OK is always a failure, otherwise `desc` is
  printed as it is. Everything that "success" means in these modules is read off this rule.
- A handler finds the BMC (`UtoolGetRedfishServer`), which learns the OEM name on the way;
  URLs and payloads of many later requests contain it.
- Handlers of tasks hand the answer of their POST to the wait through `result->data`.
- `fwupdate` drives all of this: requests, uploads, the waits, the IPMI loop, and a poll of
  its own for restarts.
- The white list commands and the IPMI upgrade reach the BMC through one function,
  `UtoolIPMIExecRawCommand`, which runs `ipmitool` and reports in three different ways that
  it has not.
- The BMC is shared. Other clients change it, it restarts, and its tasks go on whatever
  becomes of the poll. Local files (log, downloads) are shared with earlier calls.

## 2. The modules

| module | models | proved about in |
|---|---|---|
| `TaskVerdict` | abstract: one verdict, success only on success | |
| `TaskWait` | both polling loops and the BMC's task | `TaskWaitProofs` |
| `TransitionCheck` | which update is direct, by way of 6.36, or refused | |
| `UpdatePromise` | abstract: what `fwupdate` promises about the BMC | |
| `FwUpdate` (extends `TransitionCheck`), `MCFwUpdate` | the workflow of `fwupdate` and a BMC that restarts | `FwUpdateProofs`, `FwUpdateSafetyProofs` |
| `IpmiUpgrade` | the raw IPMI upgrade, with time | `IpmiUpgradeProofs` |
| `AccountService` | abstract: a command is one atomic change | |
| `Accounts`, `MCAccounts` | the four commands by several utools | `AccountsProofs` |
| `Initialize` | `utool_main` and `initialize` by several threads | `InitializeProofs` |
| `Requests` | what a handler makes of each answer | `RequestsProofs` |
| `CommandPlans`, `MCRequests` | the steps of every command | `RequestsProofs` |
| `WhitelistCalls` | command lines, files, calls and their order, entries and how they are shown | |
| `WhitelistPromise` | abstract: calls in order, each once, none after a failure | |
| `Whitelist`, `MCWhitelist` | set, get and raw commands of several utools on one list | `WhitelistProofs` |

`TaskVerdict`, `UpdatePromise`, `AccountService` and `WhitelistPromise` are what a caller
is promised. `TaskWait` and `IpmiUpgrade` implement `TaskVerdict` under the
refinement mappings `Verdict` and `Wait`; `FwUpdate`, `Accounts` and `Whitelist` implement
their promises under a mapping `Promise` each.

Definitions that begin with "What if" in their comment are not the program: each is a
plausible slip in the definition that follows it, kept beside the model to show that a
property would notice.

### 2.1 How state and actions correspond to the code

**TaskWait.** One round of the loop is two actions: mapping and deciding (`pc = "map"`) and
the GET (`pc = "get"`). `MapFails` is the `goto FAILURE` after `UtoolRedfishMapTaskFromJson`
(which reports a member of the wrong type without an error code), `ReportFailure` and
`ReturnTask` are the two exits of a decided round, `GetFails` is the counter
`maxRetryTimes`. A document is the state of the task at the time of the GET plus what the
mapping will make of it.

**FwUpdate.** `pc` walks through `RetryFunc` (`start`, `call`, `returned`, `over`),
`RebootBMC` (`reset`, `shutdown`, `poweron`, `rebooted`) and the main function (`check`,
`activate`, `newversion`). There is one action per stage function, with the whole of what it
does: `UploadLocalFile` sets `reboot` on its failure and writes the entry,
`DownloadRemoteFile` starts a task that flashes whatever becomes of the wait. `result` is
`UtoolResult`; `mute` is `disableLogEntry`, `seen` is `activeBmcVersion`. In `bmc`,
`flashed` is what the next restart will start, `written` the planes that have the target
image, `tmp` the uploaded files, which a restart may take away. `lost` has the restarts
(between rounds, into the transition image, between planes, after the upgrade) in which a
poll of a BMC that is up got no answer. Versions are numbers (6.43
is 643). The task wait and the IPMI loop appear as their verdicts. Of a task the verdict may
be a wait that was given up although the image was flashed. The verdict of the IPMI loop
(`UpgradeTaken`) tells nothing of the image: the loop is successful before the BMC has
begun when an `e4` is read as 100 (`F:1124-1132`) or a CPLD answers zeros (`F:1055-1060`). What
is known after it is that the BMC took the command: `bmc.taken` has the planes of which that
holds, and `bmc.due` the one of them that is yet to be flashed, which happens later
(`BeginLate`), while the workflow goes on, or not at all. The null pointers behind an answer
without model or serial number (`F:594`, `F:608`) and behind a firmware name that is not in
the table (`F:1910-1918`) are outcomes too (`Crash`).

**IpmiUpgrade.** `StartUpgrade` is `UpgradeFirmwareByIpmi`'s first command, `Asks` the head
of the loop (limit, `sleep(5)`, the time the query takes), `QueryFails`/`QuerySucceeds` its
two outcomes, `Continue`/`Reached`/`Zero` what is made of the byte, and `Finish` the finish
command with the verdict. A byte is read by `Read`, which is what `strtol` and the two
comparisons do with it.

**Accounts.** The actions of a client are those of its handler: connect, list, read the next
member, change. `userJson` holds the account with its ETag. The change is one action in the
BMC together with the answer, which may get lost.

**Initialize.** Each statement of `initialize` that another thread could see is an action.
`Seen` is the unsynchronised look at the flag, and `sees` the threads for which the writes of
the initialisation are visible: the one that made them, and those that took the mutex
afterwards. Another thread may read 0 for as long as it likes, and when it reads 1 it may stay
outside of `sees`: nothing orders it after the log pointer and the state of libcurl.
`works` tells whether `curl_global_init` succeeded; the flag is set either way. `LogFails` and `AtexitFails` return and
keep the mutex, as the code does. `SetLogFilePath` has the outcomes of a rotation: `log` is
the file behind `g_UtoolLogFileFP` and `logging` tells whether zf_log and `atexit` were
given the functions that use it; `LogCrashes` is the `fopen` of `log.c:120` that nobody
looks at.

**Whitelist.** One action is one function up to its next call of `ipmitool`. A call is named
by its place: the switch, the single command, or element and index in the file; `Places`,
`Before` and `Apply` (module `WhitelistCalls`) say which calls a command line stands for, in
which order, and what they do to the list. `UtoolIPMIExecRawCommand` is the disjunction of
`Accepted`, `Failed` (the BMC may have taken the call all the same), `Pathless` (NULL, and
nothing in the result) and `Suspect` (an error code, but not broken); `Exec` is what the
setter makes of it, `SendRaw` what `sendipmirawcmd` does. `CheckElement` and `CallElement`
alternate, as in the file loop: an element is checked when the calls of those before it have
been made. `GetFirst` takes the number of entries, `GetNext` asks for them one by one, and
`reading.base` is the list at the time of the first one, kept to state the property. `taken`
and `cut` are such history variables too. `Stored` and `Shown` are the two encodings of an
entry, with the OEM prefix of three bytes and `ff` for "no sub function". A sub function is a
text: digits, with `0x` or without. The code adds no `0x` to it, so that `Base` and `Value` are
what `ipmitool` reads (hexadecimal, octal or decimal by the rules of C), and what is not
`Legible` it refuses without a call.

**Requests and CommandPlans.** A plan is the sequence of steps a handler takes when all goes
well, one plan for each choice of options and length of lists. `Request` is
`UtoolMakeCurlRequest` or `UtoolRedfishGet`/`Post`/... with the resolution of failures:
`Accepted` says which answers let the handler go on and `Resolved` which failures come with
a text. They differ between the old way (`read`: status only) and the new one (messages of
the document). Nine kinds of answer are told apart, since these are what the resolvers, the
callers and the properties tell apart. Reading uninitialised `isOemMalloc` and `oem`
(`redfish.c:1006`), comparing with a null pointer (`commands/del_vnc_sessions.c:100`) and
reading the port of an SSH service that is enabled without one (`redfish.c:382`) are outcomes
the actions may choose (`Crash`).

## 3. What is checked

Passing runs, each with the number of its distinct states:

| run | states | shows |
|---|---|---|
| `task_wait` | 1,384 | a successful wait stands on a task that has succeeded and leaves no text behind; a failed one is explained by the task, by a document that is none, or by an exhausted tolerance; each round decides on live JSON; the wait for the end follows a real start; the end of a task is noticed; `TaskVerdict` is implemented |
| `fw_update` | 569,605 | every command line on every version. From 6.32, 6.36 and 6.37 to 6.43: no forbidden image is flashed, refused updates leave the BMC alone, silence is limited to the transition stages, log entries have a file. On 2.58 and newer: success means that every plane was flashed or, of a local image on 2.58, that the BMC took the command to flash it; upload and upgrade fit together when a dual update crosses 2.58. A reported restart has happened unless a poll of it was lost, `UpdatePromise` is implemented, and the command ends |
| `ipmi_upgrade` | 137,516 | success stands on a finished image or on a CPLD's zeros, and has activated it; a BMC is not given up early; `TaskVerdict` is implemented where no CPLD and no late start is involved; the wait ends |
| `accounts` | 646,890 | `setpwd` and `setpriv` change what they have read; each command is one atomic change, and success is reported with it only |
| `whitelist` | 460,110 | a setter, a sender and a getter on one list: the first two keep `WhitelistPromise`, the third shows what was there when it began to read, and an import of an entry as it is shown names that entry exactly if it is not one of net function `0x30` with `ff` or the other vendor's prefix; whatever the list does meanwhile, every step leaves less to do, and all end |
| `initialize` | 8,426 | the work is done once, no command begins before it has come to its end, well or not, or with log lines going to a closed file, and the call that failed to initialise libcurl runs none; every call returns unless an initialisation was abandoned or has crashed |
| `requests` | 22,634 | for all 58 commands: what a success is worth, that a failure has a reason, that an old local file survives until its replacement is ready; that what is changed on the BMC is changed once, on what was found before, and after everything that can fail without it |

The properties are stated, each with the code it is about, at the end of their modules.

Five more runs check a statement that the repository itself makes and the code does not keep:

| run | the statement | what happens |
|---|---|---|
| `fw_retry` | F:1353, a failed upgrade can be retried up to 3 times | for a remote image rounds 2 and 3 wait on a task that `RetryFunc` has freed |
| `fw_glitch` | F:1652, the reboot makes sure that the transition firmware is active | one unanswered poll is taken for the shutdown, and the old firmware gets the target image |
| `accounts_delete` | `del_user.c:55`, the named user is deleted | the ETag header is built and not sent: whoever got the slot meanwhile is deleted |
| `ipmi_not_started` | F:1123-1127, an `e4` within 15 s means "not started" | the comparison is one of pointers; `e4` is decoded as 100 % |
| `initialize_stuck` | `TODO.md:4`, multiple threads are supported | a failed initialisation keeps the mutex and every later call waits for ever |

Three more statements of the repository are not kept. They have no run of their own; the
definitions stand at the end of their modules, and TLC refutes each of them as an invariant
under the configuration of the passing run:

| definition | the statement | what happens |
|---|---|---|
| `CommandsSeeTheWork` (`Initialize`) | `TODO.md:4`, multiple threads are supported | the flag is read at `utool.c:210` without the mutex: a thread that finds it set runs its command unordered with the work before the flag |
| `CommandsHaveCurl` (`Initialize`) | `TODO.md:6` and `utool.c:202`, libcurl is initialised | a failed `curl_global_init` sets the flag: the first call fails, later commands run |
| `SubFunctionIsHex` (`Whitelist`) | `set_ipmi_whitelist.c:65`, a sub function is a hex string, `0x01` or `01` | `10` gets no `0x`, is read in decimal, and a command that succeeds has stored `0a` |

### 3.1 Bounds, and why they are enough

- `RetryLimit = 2` (60 in the code): none, some and all of the tolerance can be used up; the
  counter is only compared with zero. The proofs hold for every limit.
- `Rounds = 3` is the code's own value, and 2 in the two violation runs, which need no
  third. `Polls = 1` (41 and 141): a poll within the limit, and the limit itself.
  Any poll of any restart
  may be lost; `lost` remembers in which restart, so that `RestartHasHappened` says nothing
  of that restart only, and `TargetOnTransition` depends on the restart into the transition
  image alone. `fw_glitch` shows that this much is needed.
- Versions: 6.32 is allowed to take 6.36, 6.36 goes on directly, 6.37 is refused; 2.58 and
  6.43 differ in the transport. The version rule compares with constants only, so these are
  its cases with the model's two servers standing for one another.
- Three utools, two slots, two users, every mix of commands: one finds, one frees the slot,
  one takes it. Clients and users are interchangeable (`SYMMETRY`, which is sound there as
  only safety is checked); slots are not, because they are read in order.
- IPMI time is counted in units of 5 s, the sleep of the loop. `QueryLimit = 6` (360),
  `Tolerance = 4` and `CpldTolerance = 2` (120 and 60), `ZeroLimit = 3` (5): every limit can
  be hit first, and the order `CpldTolerance < Tolerance < QueryLimit` is the code's. A
  query takes up to `Slowest = 1` unit.
- Three threads with two calls each: one works, one waits, one comes late, and the second
  calls find the library initialised or abandoned.
- One utool of each white list command: what a setter does to another setter a sender does
  too. Twelve command lines of `setipmiwhitelist` have every way out of the options, a
  switch, single commands and files with one to three elements, among them an element
  without sub functions, with an empty array, with two sub functions, an illegal one after
  a legal one, and a command with a character of the shell. Sub functions are `0x01`, `0xff`,
  `0x102` (too long), `01`, `10` (decimal for `ipmitool`) and `0a` (no number for it); `ff`
  comes with both kinds of net function. The list is empty or has three
  entries, so that one can be removed before, at and behind the place of the reader. Both
  vendors; path readable or not.
- `MaxMembers = 2`: empty lists, one member, and a member after another. Three members give
  416,906 states and the same verdicts.

### 3.2 Fairness and deadlock

`TaskWait`, `FwUpdate` and `IpmiUpgrade` assume that the program runs (weak fairness of its
own actions) and nothing of the BMC: its tasks may never end, it may stay down. This is the
scheduling a single process gets. In `TaskWait` this makes termination conditional: there is
no deadline in the loop, so the property is that the end of a task is noticed. `Whitelist`
has weak fairness of each utool: every `ipmitool` ends, with an answer or without.
`Initialize` has weak fairness of each thread, and none for taking the mutex beyond that: a
mutex that is free for ever is taken. `Accounts` and `Requests` state safety only and assume
no fairness.

Deadlock is checked except in `Initialize` (a thread may be stuck at the mutex, which
`CallsReturn` describes exactly) and `Requests` (a command that is over does nothing). The
other modules stutter explicitly when they have ended.

## 4. What is proved

All statements hold for every value of the constants under the assumptions named in the
modules, which TLC evaluates too.

- **TaskWaitProofs** (`RetryLimit \in Nat`). `WaitInv` is inductive. What makes it so is
  `JsonIsPast`: a fetched document may be old, but what it says of an end or of a percentage
  is still true because tasks do not come back. `SuccessIsReal`, `FailureIsExplained`,
  `DecidedOnLiveJson`, `StartIsReal` and the refinement of `TaskVerdict` follow.
  `EndIsNearer` gives the wait a measure once the task is over.
- **FwUpdateProofs** (`Options`, `Versions`, bounds of any size). `FwInv` adds three facts to
  the types: a restart between two rounds leaves a round (`RoundLeft`, without which the
  round counter would leave its type), the workflow begins with the session
  (`OptionsFirst`), and the early stages never ask for a restart (`LogInv`). The last one
  gives `EntryHasFile`: no log entry is written through a null `FILE` pointer. The proof shows
  why it holds: `reboot` is set by upload and download only, and both come after
  `CreateLogFile`.
- **FwUpdateSafetyProofs** (the same constants). `SafeInv` adds what the deeper properties
  rest on, one part per question, and each part only needs those before it:
  - `ControlInv`: what is uploaded and downloaded for which kind of image, that a broken
    result never enters a stage, that planes are switched after an upgrade only.
  - `MuteInv`: the silence ends before the workflow goes on. It gives
    `MutedOnlyForTransition`.
  - `RestartInv`: a BMC that is down has taken up what was flashed. It gives
    `RestartHasHappened` of every restart that lost no poll, whatever those before it lost.
  - `GrantInv`: until the check is passed nothing is flashed and no restart is due, so the
    version that was read is the version; afterwards versions stay eligible, whatever the
    restarts of both planes do. It gives `RefusedIsUntouched`.
  - `TransitInv`: past the transition, and on the second plane, the BMC runs a version that
    may take the image. It gives `TargetOnTransition`. Only a poll lost in the restart into the
    transition image takes it away, since then a restart that has not taken place passes for
    done (`fw_glitch`); one lost between rounds or between the planes does no harm.
  - `WrittenInv`: an upgrade is left with success only when its plane is in `Handled`, that
    is written, or taken over IPMI, or the image is skipped. It gives `SuccessMeansUpgraded`.
    That a skipped BMC stays skipped is the hard part: nothing is flashed, so no restart
    changes its version.
  - `TakenInv`: only a local image of a type that 2.58 flashes over IPMI is ever taken that
    way, what is due was taken, and a first plane that is yet to begin does not meet a second
    one. It bounds what `BeginLate` can do behind the back of the workflow.
  - `SentInv`: the image is where the upgrade looks for it. It gives `TransportMatches`.
  - `OrderInv`: the second plane is not handled before the first, and nothing is handled while
    the transition image is due. With the parts above it gives `KeepsUpdatePromise`: every
    step of the workflow is one of `UpdatePromise` or shows nothing to it.

  The lemmas before them (`StageEffect`, `RetryEffect`, `RebootEffect`, `WorkflowEffect`,
  `BmcEffect`) sum up what each part of the program can change, so that the invariants do
  not have to look into every action.
- **AccountsProofs** (any clients, slots, users; `NoUser` is no user). `EtagInv` says that an
  ETag names one content of one slot, so a PATCH under an ETag meets what was read; with
  `NotYet`, that no success is announced early, every step of `Accounts` is a step of
  `AccountService` or leaves its variables alone.
- **WhitelistProofs** (any utools, command lines, lists, commands, and every text as a sub
  function). `Shape` strengthens the types: a line is one the program can be
  given (`LineInv`), and a utool that is about to make a call is at a place that has a
  command (`WhereInv`), without which `Apply` would not know what to add. It gives
  `TypeOK`. `GetterInv` says that until an entry is removed the list a getter began with is
  the front of the list on the BMC, and what it has read is the front of that one; it gives
  `ListIsSnapshot`. `WriterInv` says that the BMC has taken nothing of a writer that does not
  come before its place (`DoneBefore`), and everything that does, except what could not be
  sent, and then the code is an error already. It gives the refinement of `WhitelistPromise`:
  each step of a utool is a call that is due, an end that is allowed, or nothing the promise
  can see. `ShownCanBeImported` rests on lemmas about
  data: what `Shown` makes of `Stored` and an import of that again, for each kind of net function
  and each of the 256 bytes, with `ff` and the two prefixes among them.
- **IpmiUpgradeProofs** (any limits with at least one zero, any query time). `BmcInv` relates
  the BMC to the start command, `EndInv` says what each ending rests on, `TimeInv` counts one
  sleep per query. They give `TypeOK`, `SuccessMeansFinished` and `GivenUpLate`; `SuccessIsActivated` is inductive beside the types.
  `WaitKeepsVerdict` is the refinement of `TaskVerdict`, for the upgrades whose success means
  what it says (no CPLD, no BMC that starts late).
- **InitializeProofs** (any threads, any calls). `OneInside` and `Place`, which says how far
  the work is for the place each thread is at, give that `curl_global_init` is called
  once and never after a command has begun, and that log lines then go to an open file or to
  none (`LogSettled`). A look at the flag that errs towards "not initialised" is harmless, since
  it leads to the mutex. One that finds it set is not: that the work was done by then is
  proved, that the thread sees it, or that libcurl works, does not hold (`CommandsSeeTheWork`,
  `CommandsHaveCurl`). `HolderLetsGo` is the part of it on which
  `CallsReturn` rests: in an initialised process the holder of the mutex is about to release
  it.
- **RequestsProofs** (any set of plans that satisfies `PlansAssumption`, lists of any
  length). `ReqInv` says how many answers belong to each phase, what an answer that was gone
  past can be for each kind of step, that a missing OEM name has a refusal behind it, and
  that a running task is the one of the last request. It gives `SuccessIsEarned`
  and `OldFileKept`; `ReasonGiven` adds what each way out leaves in the text and the code. `CommandsAreFit` shows that the plans of all 58 commands satisfy
  `PlansAssumption` for every `MaxMembers`, so these theorems hold for the commands with
  lists of any length, not only for the lengths TLC goes through. Its lemmas follow the way
  plans are built: `Listing` plans read a list before its members, and walking through a list,
  or a list within a list, keeps them so; `Tasked` plans have one wait, behind the request
  that starts the task.

The argument is the same everywhere: `Init` establishes the invariant, each action preserves
it (one step per action, one below it per part the action can disturb), and the property
follows; temporal steps only combine these.

Every safety property of a passing run is proved but one: `ChangesAreSound` depends on what the
plans contain, beyond `PlansAssumption`, and is checked for lists of up to two members. Also
only model-checked are the liveness properties (`EndIsNoticed`, `EventuallyDone` twice, `CallsReturn`, `AllReturn`), which are out of the
prover's reach: they need `ENABLED` and weak fairness. What can be proved of them is:

- Each loop has a measure that every step of the program makes smaller, whatever the BMC and
  the other clients do beside it: `EndIsAlwaysNearer` for the task wait from the end of the
  task on, and `StepsAlwaysRunOut` for `FwUpdate` (rounds, then steps, then polls, each a
  natural number), `IpmiUpgrade` (at most `2 * QueryLimit + 4` steps) and `Whitelist` (for each
  utool: what it has to send or to read, a walk of the list counted against the number asked
  for at its beginning). So no behaviour, fair or not, has infinitely many steps of the
  program. That the program does take its next step while it has one is what weak fairness
  adds, and what TLC checks together with the rest.
- `HolderAlwaysLetsGo` does the same for the mutex of `Initialize`.

Some invariants and measures are proved and not among the properties of a run, because the
properties that follow from them are: `WaitInv`, `DecidedOnLiveJson`, `EndIsNearer`,
`EtagInv`, `HolderLetsGo`, and `StepsRunOut` of `FwUpdate` and `IpmiUpgrade`. TLC was used on
each of them before the proof.

## 5. Where the models stop

- `SuccessMeansUpgraded` leaves out an image that is already on a 2.58 BMC: `F:872` calls
  this a wrong method call, returns unbroken, and the command reports success.
- Of a local image that a 2.58 BMC flashes over IPMI, success means only that the BMC took the
  command, here and in `UpdatePromise`: the loop reads the `e4` of a BMC that has not begun as
  100 %, and the zeros of a CPLD as success. The image may be flashed later or never, which
  `bmc.taken` stands for; `ipmi_not_started` shows the loop itself.
- `RestartHasHappened` says nothing of a restart in which a poll of a BMC that is up has gone
  unanswered, `TargetOnTransition` and `UpdatePromise` do not restrict the version once that
  was the restart into the transition image; `fw_glitch` is the reason.
- `SuccessMeansFinished` of the IPMI upgrade is said of a BMC that starts with the command;
  `ipmi_not_started` is the other case.
- `BlindSpot` in `Requests` lists, by name, what a reported success does not cover: a refusal
  of the request for the OEM name, an error whose document has no message, an empty list
  where a document was no list, partial successes of the commands that look at the status
  only, and `waittask`, which tells the last task it has seen as a success.
- `AccountService` promises of `deluser` only that somebody was deleted, for the reason given
  by `accounts_delete`.
- In `Accounts` a refusal has a message; refusals without one are in `Requests`.
- `WhitelistPromise` leaves open how a command ends that fails, a crash included, and promises
  nothing of a utool that cannot read its own path: it sends nothing and reports success.
- `ListIsSnapshot` says nothing of the entries once one was removed while they were read
  (`cut`): the ones behind it move up and one is skipped.
- `ShownCanBeImported` says for which entries an import does not restore what was shown
  (`Muddled`), all of net function `0x30`. A sub function `ff`, which the options accept, is
  stored as `db 07 00 ff`; `get_ipmi_whitelist.c:330` takes off the prefix, reads `ff` as "no sub
  function", and an import writes another entry. On a BMC of the other vendor the prefix is not
  taken off: what is shown has four bytes and an import refuses it.
- What a command line names is the text that was written, not the byte the user meant:
  `CallsAreInOrder` is about the calls that `ipmitool` gets, `SubFunctionIsHex` about the meaning.
- `CommandsComeLast` says that the initialisation was over when a command began, not that it
  succeeded or that the thread of the command sees its work: `CommandsHaveCurl` and
  `CommandsSeeTheWork`.
- `ChangesAreSound` allows a crash over a session that was read as an error without a message,
  or without the OEM name, after others were deleted (`CompareCrashes`).

## 6. Noticed on the way

Behaviours that the models contain, or that concern values they abstract away, and that no
run is about:

- `redfish.c:1530` drops the text of the last failed poll, so a wait that is given up fails
  with nothing to print. `ReasonGiven` names this exception.
- When the new version cannot be read after an activation, the update is still a success
  (`ActivationFails`); the notes in `TODO.md:264` want a failure.
- A stage that fails in `GetBmcVersion`, or in the POST of `DownloadRemoteFile`, writes no
  entry of its failure.
- `set_priv.c:124` overwrites the text of a refusal with an empty one.
- `log.c:189` tests the result of `rename` the wrong way round: after a rotation the log file
  is not opened again, and old files are removed only when the rename fails. They are found
  by a prefix that the live file has too, and it is the first of them in order.
- An element with `"SubFunction": []` makes no call, and the import of a file of such elements
  is a success (`set_ipmi_whitelist.c:367`).
- When the vendor cannot be asked for, the white list commands end with OK and no text: the
  reason is in a result of its own, which is dropped (`set_ipmi_whitelist.c:175`). A missing
  host is met by this before it is looked for.
- A getter that cannot read its own path reports the list as disabled.
- `get_ipmi_whitelist.c:376` frees entries that were never read, and
  `send_ipmi_raw_command.c:91` a string of the command line (`crashed` in `Whitelist`).
- `commons.c:408` gives a component whose health is `Warning` the level of `OK`.
- When a CPLD answers zeros and the finish command is refused, the branch goes on to its
  success text, and the caller's look at `broken` turns it into a failure.

## 7. Not modelled

- **Rotation of the log file**: its outcomes for `initialize` are modelled; the files in the
  directory, their number and their permissions are not, nor several processes that rotate
  at once. The code and the documents do not say what is to be kept.
- **upload**, **scp**: debugging aids with a fixed file name. They never hand over the text of
  their result, and `scp` does not look at it, so that their ending tells nothing; the uploads they call are in `Requests`.
- **main.c**: one call whose outcome is printed.
- **Parsing of options, mapping of values, tables, string and URL helpers**: sequential
  functions on text. Where a null pointer among them changes what a command does, `Requests`
  has it.
- **argparse, cJSON, libcurl, zf_log, the bounds-checking functions, ipmitool**: other
  people's code. What utool sees of them is the alternatives of the actions.

## 8. Plan

Done, in this order: the task wait and its promise; the update workflow; the accounts; the
IPMI loop; initialisation; the request layer with all commands; proofs for each; the white
list and raw commands with their promise and its proof; type correctness of every module;
the outcomes of a rotation of the log; one run for the whole update workflow; what a lost
poll leaves of the promises about the BMC; the promise of `fwupdate` and its proof; the IPMI
loop as an implementation of `TaskVerdict`; measures for all loops; the plans of the commands
for lists of any length.

Next, the model:

1. A composition of `FwUpdate` with `TaskWait` and `IpmiUpgrade` in place of their verdicts.
2. The answers without a message in `Accounts`, so that its refinement covers them.
3. The values the queries compute: the health of a list (`commons.c:394`) as an operator
   against its maximum.

Next, the proofs:

1. The refinement of `AccountService` with the answers of item 2 above: `EtagInv` and `NotYet`
   should carry over, the ways out of a handler become more.
2. The refinements of the composition above.
