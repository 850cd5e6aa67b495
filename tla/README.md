# A verification development for czconsole

czconsole is a web console and an LCD front end for a handheld Linux device. An
unprivileged web worker (`cmd/czconsole`), an LCD binary (`cmd/czconsole-lcd`) and
two small helpers drive wardriving captures, JSON-described command line tools,
files, HDMI and a login. The interesting part of the program is not in any one
function: several processes, each with goroutines of its own, start and stop the
same systemd units, and learn what runs only by looking at cgroups and files that
the others change. That is what is modelled here.

This directory holds TLA+ modules translated from the Go source, TLC configurations
that check them on small instances, and TLAPS proofs for arbitrary ones.
`PROJECT.json` is the machine-readable index: which definition models which lines,
what each run checks, which hazards of the code are covered by which property.

    tlc -config wardrive_one.cfg MCWardrive.tla     # one run
    tlapm WardriveProofs.tla                        # one module's proofs

## 1. Inventory

Component (source) | State it keeps | Operations | Talks to
--- | --- | --- | ---
wardrive Core (`internal/wardrive/core.go`) | cached interface under a mutex; `kismet_httpd.conf` on disk | Status, Start, Stop, Interfaces, RecentAPs | systemd (kismet units), cgroups, `/sys/class/net`, kismet's REST interface
unit liveness (`internal/unit/cgroup.go`) | none | CgroupActive: (active, known) | `/sys/fs/cgroup`
tool Runner (`internal/tool/runner.go`) | none of its own; job file `/run/czconsole/<id>`, the units, the output directory | Running, Start, Stop, Latest, Subject | systemd (tool units), runtool
czconsole-runtool (`cmd/czconsole-runtool`) | one process per run | load spec, check capabilities, read job, run command and post command | spec files, job file, output files
tool specs and templates (`internal/tool/spec.go`, `command.go`, `caps.go`) | spec files | Load, LoadByID, Substitute, AllowedCapMask | everything about tools
units and polkit rules (`packaging/`) | unit states | start, stop | all of the above
LCD app (`internal/lcd/app.go`, `menu.go`, `placeholder.go`) | a stack of screens | push, pop, quit, draw 5 times a second | screens, keypad
LCD key input (`internal/lcd/input.go`) | shift flag, held key, two channels | ReadKeys: reader and controller goroutines | evdev, App.Run
LCD tool screen (`toolscreen.go`, `running.go`, `result.go`) | mode, running, latest, lines, form fields | keys, poll every 2 s, start, cancel | Runner
LCD wardrive screen (`lcd/wardrive.go`) | last Status, its own Core | keys, poll | Core
LCD image viewer (`imageview.go`, `internal/img`) | converted `.r565` cache next to each PNG | open, convert, pan | files
LCD lists, log view, text field (`history.go`, `logview.go`, `textfield.go`) | window and cursor | keys | files
LCD drawing (`draw.go`, `theme.go`, `internal/fb`) | frame buffer | draw | device
login (`internal/auth`, `handleLogin` in `internal/server`) | rate-limit buckets, session secret | Allowed/Fail/Reset, Verify, sign and check tokens | PAM through the auth agent's socket
HTTP server (`internal/server`, `cmd/czconsole`) | none besides login | routes, redirects | modules
module registry and tool groups (`internal/modules/module.go`, `toolgroup.go`) | registered modules | order, nest, start/stop handlers | Core, Runner
HDMI module (`internal/modules/hdmi.go`) | none: the boot link, the display manager's cgroup, two oneshot units | state, enable, disable | systemd, cgroups
files module and agent (`files.go`, `files_proxy.go`) | the files | list, download, upload | the operator's home
wardrive module (`internal/modules/wardrive.go`) | one temporary file per format | start, stop, export | Core, kismet's converters
GPS client (`internal/gps/gps.go`) | the last fix and when it was seen, under a mutex | Poll, PollDetail | gpsd
sysinfo, opdir | none | reads | `/proc`, `/sys`, files

**How they interact.** The web worker and the LCD binary are separate processes that
share no memory. Each holds Cores and Runners of its own, and every state both need
to know lives outside: in systemd (which units are up), in the cgroup tree (the
same, with a delay, and not always readable) and in files (job, configuration,
outputs). Inside the LCD process, screens have pollers and short-lived goroutines
that share fields with the UI goroutine; the keypad reaches the UI through two
bounded channels. A run of a tool is a third process, under the operator's account,
which trusts only what it reads itself: spec and job file.

**What is hard.** (a) A check of what runs and the start that depends on it are two
steps, and two processes may take them at once. (b) `systemctl start --no-block`
returns before anything of the unit is visible. (c) Caches of what runs go stale
when someone else stops it. (d) A file is truncated before it is written, and
created private before it is shared. (e) The spec on disk may have changed since a
front end loaded it. (f) Channels fill up and keys are held down. (g) Processes die
at any of these points. Every such place, with its line, is in the `hazards` of
`PROJECT.json`; those no property covers have a note that says why.

**What makes each component correct.**

* Core: at most one capture, owned by someone who can stop it; every front end comes
  to show it, and comes to show none when there is none; the password shown is the
  one the running kismet knows.
* Runner and runtool: a run gets the values of one submission, of its own time; the header shows the
  values of the run that is on; a job file can be read by the run it is for; no
  command gets more capabilities than its spec's class, where runtool can read its own.
* Key input: each press reaches the app once, in order, in its case; commit keys
  never repeat; repetition stops; a signal or a lost keypad ends the program.
* Tool screen: the screen comes to show whether the tool runs and the newest result,
  whatever keys came in between; what it promises or reports is not lost behind another page;
  a cancel ends the run it was meant for; no poller survives its screen.
* Image viewer: what is drawn is the PNG the viewer was opened on, whoever converts beside it.
* Wardrive HUD: Enter does what the HUD offered; the HUD comes to show the capture there is.
* Login: a lock lasts its time, guesses are bounded, an outage locks nobody out; whoever is let in
  was vouched for by PAM to this process; every POST is answered.
* Uploads and exports: what a reply calls saved or served is all of it and nothing else, and
  nothing outside the root is written but through a link that leads there.
* GPS: the display neither flaps nor shows a fix that is older than it may be.
* HDMI: a state that is shown was true at some instant of the read.
* Outputs: each run's output is its own, and the results page shows the last run that has come to a
  results file.
* Forms, texts and lists: the focus and the caret are on the LCD, a text is what was typed, a
  window stays inside its list.

## 2. Modules

Module | Models | Checked by
--- | --- | ---
`Wardrive` | `wardrive.Core`, its units and its password file | `wardrive_*`
`WardriveHistory` | `Wardrive` with what each lookup had in sight | `wardrive_two`
`ToolRunner` | `tool.Runner` and `czconsole-runtool` | `parts`, `tool_empty`
`ToolRunnerHistory` | `ToolRunner` with the Starts whose values a run may have | `parts`
`ExclusiveSlot` | the abstract promise of a Core: one job at a time, never handed over | refined by `Wardrive`
`Outputs` | the output and results files of runs, `Latest`, the order of the history | `parts`
`KeyInput`, `KeyInputHistory` | `ReadKeys` and the key loop of `App.Run` | `keys`
`ToolScreen`, `ToolScreenHistory` | the LCD's tool screen: UI, poller, start and cancel goroutines | `screen`, `screen_hasty`
`Form` | the tool screen's form over `textfield.go` | `parts`
`Lists` | menu, history and log view | `parts`
`WardriveScreen` | the LCD's wardrive HUD | `live`
`ImageCache` | the LCD's image viewer and its conversions | `live`, `image_partial`
`Login` | `handleLogin`, limiter, verifier, agent, sessions | `parts`, `live`
`Uploads` | `handleUpload` and `safe` of the files module | `parts`
`Export` | `handleExport` and `newestKismetLog` of the wardrive module | `parts`
`Gps` | `Poll`, `pollOnce`, `PollDetail` | `parts`
`Hdmi` | `computeState` against the two helpers | `parts`
`WardriveProofs` | theorems about `Wardrive` and `WardriveHistory` | TLAPS
`ToolRunnerProofs` | theorems about `ToolRunner`, `ToolRunnerHistory` and `Outputs` | TLAPS
`KeyInputProofs` | theorems about `KeyInput` and `KeyInputHistory` | TLAPS
`ToolScreenProofs` | theorems about `ToolScreen` and `ToolScreenHistory` | TLAPS
`FormProofs` | theorems about `Form` and `Lists` | TLAPS
`ModulesProofs` | theorems about `Export`, `Uploads`, `Gps` and `Hdmi` | TLAPS
`LiveProofs` | theorems about `Login`, `ImageCache`, `WardriveScreen`, and their sum `MCLive` | TLAPS
`PartsProofs` | theorems about the sum `MCParts` | TLAPS
`MCWardrive`, `MCWardriveHistory`, `MCToolRunner`, `MCKeyInputHistory`, `MCToolScreen` | instances | -
`MCParts`, `MCLive` | instances of several parts, side by side | -

**Side by side.** Uploads, exports, GPS, HDMI, outputs, forms, lists, logins and the starts of a tool share no
state with each other, nor do login, image viewer and HUD. `MCParts` and `MCLive` take such parts as a sum,
not as a product: a variable `part` says which part a behaviour is of, that one starts in any of its
initial states and moves, the others rest in one of theirs. The behaviours are those of each
specification alone, with the other variables constant, so each property means what it means in
its own module; what is not checked is an interleaving of two parts, which have nothing
to interfere by. That a sum is faithful to its parts is proved (`PartsAreTheSum`, `LiveIsTheSum`): a behaviour
of the sum satisfies each part's specification, so a theorem about a part holds in the sum too. Parts that do share state are composed in one module: two Cores in `Wardrive`, callers and
runtool in `ToolRunner`, screen, poller, workers and tool in `ToolScreen`, browsers, worker
and agent in `Login`.

Most specifications have an `env` variable (`imageEnv`, `hudEnv`, `outEnv`, `overlap`): the set of
environmental conditions a behaviour may meet, chosen in `Init` from a constant (`EnvSets`) and never changed.
A property says under which conditions it holds (`Tame`, `Prompt`, ...), and one run
checks it in all environments together.

### Wardrive

A process of the model is a Core. A Core's mutex is held through all of Status,
Start and Stop, so a Core is sequential; web and LCD have a Core each (the LCD one
per screen opened), and nothing orders two Cores. A step is one access to what Cores
share.

`pc[c]` | code
--- | ---
`lookup`, `scan` | `activeIface` (core.go:90-108): `LookCached` believes the cache unless the cgroup is known to be empty, `BeginScan`/`ScanNext`/`ScanEnd` look at one interface per step, in sorted order
`decide` | what the caller does with the answer: `Report` (Status), `ReturnEarly`, `Ensure` (Start), `StopDone`/`StopFails` (Stop)
`truncate`, `write` | `ensureConfig`'s WriteFile, whose truncation and write are two steps
`launch` | `systemctl start --no-block`

`cached` is `Core.iface`; `unit` and `kpass` are systemd's unit states and the
password each kismet read when it started; `conf` is the password in
`kismet_httpd.conf` (0: none); `view` is what the last Status reported. Passwords
are numbered in the order `randHex` generates them. The environment activates queued
units, lets kismet exit, plugs adapters, makes the cgroup tree unreadable and
restarts the process of a Core (`Restart`, in any phase of a call).

### ToolRunner

A Runner has no lock, so a process of the model is a caller: an HTTP request or a
goroutine of a screen. `pc[t]` follows `Runner.Start` (runner.go:54-84): check,
open with O_TRUNC, write, chmod, launch; each is one access to a shared object. `text` and
`mode` are content and permission of the job file; two writers that overlap leave one's
values or garbage. `unit[u]` follows `czconsole-runtool` through its phases, for each of
the two unit templates: load the spec and compare capabilities (`LoadSpec`), read the
job as `readJob` does, with its two error cases (`ReadJob`), run command and post
command. `loaded[t]` is the class the caller's process loaded when it started, `spec`
the class on disk. The capability check is skipped when runtool cannot read its own capabilities
(main.go:45), which the condition `blind` allows. `ToolRunnerHistory` adds whose values the job file
may hold (`rivals`: of a Start, those of all Starts under way with it; `given`: of a unit, those a run of it may read). An input map is a model value: nothing here depends on what is in it
besides whether it selects the post command.

### KeyInput

Three goroutines: the reader (`ReadKey`, `SendRaw`), the controller (`Take...`,
`Tick`, `Emit`) and the app (`AppTakes`), connected by the evdev queue, `raw` and
`out`. `sending` is the controller blocked in `emit`; what `emit`'s caller does after it
returns (remember the held key) is carried along, because until then a release waits.
Key codes are classes: shift keys, commit keys (enter, esc, tab), other keys that mean
something, keys that mean nothing. `repeatDelay` is an arbitrary time: a tick may or may not come.
`KeyInputHistory` adds `due`, the presses the app is still owed, each with the case the
keypad had physically, and marks each Event on its way as press or repetition.

### ToolScreen

The fields of a screen are shared by the UI goroutine (`KeyArrives`, then one of the `Key...`
actions: a Key decides by a snapshot), the poller and a worker per submit or cancel
(`StartOK`, `StartFails`, `Stop`). `refresh` is three steps, `Look` (Running), `List` (Latest and
the output) and `Store` (under the lock), so refreshes of several goroutines can overtake each
other. Of the tool only `unit`, the number of its runs and the run of the newest results `file` remain: runtool's
`.output` is there from the start of a run, a file the tool writes itself comes some time later or never (`late`). `lines`
says of which run they are and whether they were read when the file was complete. The condition `lag` allows
steps in between; without it a refresh and a Key are one step as seen from outside.
`ToolScreenHistory` adds the page the user's last choice leads to (`wants`) and the run each
cancel was meant for (`target`).

ToolScreen and ToolRunner are not composed: the screen needs of the Runner that a Start is refused
while the tool runs, which is `ToolRunner.Check`, and that there is one unit that runs it at a time.

### WardriveScreen

`st`, `ifaceIdx` and `showPass` are the HUD's fields, `drawn` what the last Draw put on the LCD. `poller` looks
(`PollLook`, a Status of its Core) and stores; a `toggler` is the goroutine of an Enter with the
arguments it captured: it acts (`ToggleActs`), sleeps, looks and stores. Keys are `KeyEnter`,
`KeySelects`, `KeyReveals` and `KeyPops`. As in ToolScreen, `lag` takes look, store and draw
apart. The Core is a number and an interface here: that a Status reports the capture there is, that a Start
is refused while there is one, is what `Wardrive`'s runs check, under the conditions they name.

### ImageCache

`png` is the file the tool writes, `cache` the one `.r565` inode beside it: whether the header is
there, and of which version of the PNG each row is. `newer` is what `cacheValid` compares. `View` is
`NewImageView` with its two branches, `Create`, `ReadAhead`, `WriteRow`, `ConvertFails` and `ConvertDone` the
conversion's goroutine; `Create` cuts the file under whoever reads or writes it. A conversion fails at once, when the PNG
ends early, or, on a full disk (`full`), at any write or at the flush; what is in the file then stays there. `Close` leaves the
conversion running, and its `open` keeps a file then, as in the code. `QuitConverting` ends the
process. Pixels and PNG filters are left out: a row is right if it is of the right version.

### Login

A POST is `Post` (asks the limiter), `Dial`, then `Answer` or `GiveUp`, and `Unavailable`, `Deny` or
`Welcome`, which do what `handleLogin` does with the verdict. `bucket` is the limiter's bucket of
one address; `Failed` and `Counting` are the two halves of `Fail`. `epoch` is the worker's process: a token is signed
with a secret that lives as long. The agent stops, starts and hangs; PAM may deny the right password,
and accepts no other. `denied` and `vouched` are histories: `denied` has the time of every denial since the last login or
restart, those of POSTs that were let through before a lock and denied under it included.

### Uploads, Export

`post[c]` is a POST on its way through its parts, `disk` holds files block by block; writes are at the
offset of the writer's own descriptor, so a file cut by another one gets a hole. `Clean`, `Jailed`
and `Safe` are `filesModule.safe` on sequences of names. `Via` is what the kernel makes of paths that lead through
a symbolic link (`Real`, `Created`): the code neither looks for links nor refuses them (files.go:21-23), so a link below the root may
take an upload to a directory outside. `touched` notes which files somebody else opened or wrote.
`Export` has the same of the one temporary file of a format: `linked` is the inode that has the name,
because a removed file is still served by who has it open.

### Gps, Hdmi

`Gps`: a call reads TPV and SKY messages until it has what it wants or its time is over; what each message does
is `Tpv` and `Sky`, and `PollReplies` is what Poll does under the lock after that. A fix is
its time. `Hdmi`: the helpers change boot link and unit in two steps, `ReadFirst` and `ReadSecond` are
`computeState`'s reads in the order the code has, `truths` the true states since the read began.

### Outputs, Form, Lists

`Outputs`: a run's file is named by the second of its start, cut by the command and appended to by
the post step (`OpenedBy`). `LatestOutput` and `TopOfHistory` are the two ways the LCD picks one, of the files that end in the
spec's `results.file`: with gobuster that is runtool's `.output`, with nmap, tcpdump, rtl_power and rtl_433 a file beside it
that the tool writes (`ToolSaves`), if the run comes to that (`resultsFile`, `ResultsTime`).
`Form` and `Lists`: an action is a Key and the Draw that follows it, which clamps and scrolls.
`Edited` is `textField.edit`, `typed` the same text as two halves; `Scrolled` is the loop in
`drawConfig`, by pixels, `HistoryScrolled` and `Clamped` those of history and log view. In `Lists` the
lines of a log view may be replaced between two keys, as a refresh does.

## 3. Runs

Run | Instance | Question
--- | --- | ---
`wardrive_one` | 1 Core, 2 interfaces, all 32 environments, 3 Starts, 2 restarts | types; `ImplementsSlot`; `PasswordCurrent`
`wardrive_two` | 2 Cores, 2 interfaces, 3 environments, 2 Starts, 1 restart | `MissedAtMostOnce`; `CaptureOwned`
`wardrive_live` | 2 Cores, 2 interfaces, 2 environments | `EventuallyShown`, `EventuallyIdle`
`wardrive_double` | 1 Core, slow start | refutes `OneKismet`
`wardrive_password` | 2 Cores | refutes `StaticPassword`
`parts` | nine parts: 2 callers, 2 input maps, the environments of `MostEnvs`, 2 Starts; 2 uploads of 1 or 2 parts of 2 blocks, with a link that leads outside; 2 exports of 2 logs; 2 GPS calls; HDMI requests that overlap or not; 2 runs in 2 seconds, results files of either kind; 3 forms; lists of 3 rows on 2; 2 browsers, 1 restart, 4 instants | `HeaderTrue`, `CapsWithinClass`, `JobReadable`, `ValuesGiven`; `SavedWhole`, `Contained`; `ExportWhole`; `FixHonest`; `NoFalseAlarm`; `RunsKept`; `FieldShown`, `EditsFaithful`; `RowsShown`; `GuessesBounded`, `AccessEarned`, `LockoutHolds`
`tool_empty` | 2 callers at once | refutes `NoEmptyRun`
`keys` | 1 shift key, esc, a letter, a dead key; 2 keys down at once; queues of 1 | `PressesDelivered`, `RepeatStops`, `Ends`
`screen` | 1 poller, 2 workers, 2 runs, 5 environments | `PromiseKept`, `ErrorShown`, `CancelsSeenRun`; `EventuallyTrue`, `GoroutinesEnd`
`screen_hasty` | the same, hasty user | refutes `ResultsWillShow`
`live` | three parts: 2 browsers, 1 restart, 3 instants; 2 viewers of an image of 3 rows, 2 versions; HUD with 2 togglers, 2 interfaces, 2 captures | `Answered`; `DrawsThePng`, `ComesToShow`; `ActsAsShown`, `EventuallyShows`
`image_partial` | 2 viewers, a process that ends or a full disk | refutes `CacheIsWhole`

What they show:

* With one Core, a prompt start and either a cache that is never lost or a scan that sees
  everything (`Tame`), captures are an exclusive slot. Each of the conditions is
  needed: without the prompt start `wardrive_double` gives two kismets.
* With racing Cores there can be two captures, but (prompt start, no lost
  cache) never one that no Core remembers: `CaptureOwned`. A Core whose cache names a
  dead capture overlooks a live one in that lookup, but not in the next:
  `MissedAtMostOnce`.
* A polled front end comes to show the one capture there is, and none when there
  is none.
* A tool run reads the values of one submission or none, those of a Start of its own time and never what an earlier one
  left (`ValuesGiven`), and finds its job file readable, in every environment; it
  has no capabilities above the class of the spec it read, unless it could not read its own. Callers that take
  turns get the run they asked for; if they do not, a run may have no values (`tool_empty`).
* A tool screen tells the truth in the end whatever overtook what, another frontend included
  (`EventuallyTrue`). A user who waits for a reaction before the next submit gets the page the
  running view promises, sees every error, and cancels only the run that was on the screen;
  a hasty one does not get the first (`screen_hasty`).
* The key pipeline loses, doubles and reorders nothing, with every queue full.
* Attempts that overlap neither shorten a lock nor lock out for an outage, but they make the limiter weaker
  than its number: the window is the bucket's own, and every POST that was let through before a lock is a guess
  more. In no span as long as a lock are more than FailMax + (FailMax - 1) + (browsers - 1) denied, which is
  reached: `GuessesBounded` with one less fails in `parts`. Logins survive neither the worker nor their TTL.
* Viewers of one image get along: whoever cuts the file under whom, once no conversion runs all that
  are ready draw the PNG they were opened on. A process that ends in between, or a disk that is full, breaks that for
  good (`image_partial`).
* The HUD starts and stops what it showed; a hasty user or another front end can make a stop hit a
  newer capture, which is why `ActsAsShown` names them.
* An upload or an export alone is whole, whatever failed or was killed before it. Two of the same name
  are not, and the properties say so: `touched`, `overlapped`. An upload that breaks off has cut the old file of its name: the
  code does not keep it, and no property says it would. Whatever path a client names, what is written is below the root or
  behind a link there.
* A held fix is not held anew and the display does not flap, although Polls overlap.
* The HDMI tile is red only if the desktop was down and meant to be up, thanks to the order of the reads.
* The output of a run is its own, and the results page and the history show the last run that has come to a results file, if
  runs begin in different seconds and the clock is not set back. That need not be the last run.
* A form's focus is an input that is wholly on the LCD, its caret in the box, its texts what was typed.

**Bounds.** Two of each suffice for the races here: every hazard found is between
two actors, and a third meets the same shared state. `MaxStarts` = 2 or 3 allows a
capture, another on a second interface, and one more after a stop; `MaxRestarts` = 2
loses a cache twice. Two workers are a submit and a cancel, or two submits, at once; two runs
tell an old one from a new one. The proofs (below) lift these bounds for the safety
properties. Channel capacities of 1 instead of 32 and 16 make full channels the
common case; `MaxDown` = 2 has a key held while another is pressed. `KernelMax` bounds
the evdev queue, which does not overflow in the model. Other environments than those
listed for `wardrive_two`, `wardrive_live` and `keys` are left out for the number of states.
In `parts` two blocks or pieces are the least that can be cut in the middle; `Hold` = 2 and `Timeout` = 1 have a
call longer than nothing and shorter than the hold, and `MaxGpsTime` = 5 lets a held fix expire; `PerSecond` = 2 puts two instants into a second,
`MaxInstant` = 3 gives each of two runs a second of its own, or lets the clock be set back into the first's; the large form is higher than `ContentH` and mixes notes
of two heights with inputs; two characters fill a text box and
move its window; three rows on two, and lines longer than the columns, scroll. For logins
`FailMax` = 2 needs two denials for a lock, all times are 1 and `MaxTime` = 3 in `live` sees a lock begin, last and end,
with a POST that times out in it; 4 in `parts` sees the bucket before it too, which the bound of
`GuessesBounded` needs to be reached; two versions of the PNG make a cache outdated; two captures are one that was shown
and one that was not. `parts` has 0.9 million distinct states, `live` and `screen` 0.2 million each.
Model values for Cores are symmetric in `wardrive_two`, and so are the two actors of a part in `parts`; neither checks
liveness. All pairs of `parts` are swapped at once (`ActorSymmetry`), since only one of them is not at rest.

**Deadlock** is not checked (`CHECK_DEADLOCK FALSE`): with the bounds on Starts used up a
tool system rests, and the key pipeline stops for good when the program ends. That nobody
waits for ever where someone must not is what the liveness properties say.

**Fairness.** `Wardrive`: a goroutine inside a call keeps running and `systemctl`
returns (weak fairness of a Core's progress), systemd runs its queue (weak, per
unit), and both front ends poll Status every few seconds; a waiting poll gets the mutex,
because `sync.Mutex` hands it to a waiter that starves (strong). Nothing is assumed
of users, adapters or kismet. `KeyInput`: goroutines run, the app returns from
every Key, and a `select` case that is ready again and again is chosen (strong: Go chooses
at random among the ready ones). No press, release, tick, signal or read error is assumed to
happen; once the context is done, the reader's file is closed and its read fails (weak).
`ToolScreen`: workers run, a Key that has begun ends (weak), the poller's ticker ticks and `select`
takes the closed channel that is ready again and again (strong); nobody has to press a key, and the
tool need not end. `Login`: time passes and the worker's goroutines run; the agent may hang, and nothing is
asked of browsers. `ImageCache`: the goroutine of a conversion runs. `WardriveScreen`: the app
draws five times a second, the ticker ticks, togglers run (weak), and the poller's `select` takes
the closed channel although ticks keep coming (strong). `MCLive` asks for each part's fairness while that part is the one that
moves; `parts` checks safety only.

## 4. Proofs

All are for arbitrary sets of Cores, callers, goroutines, browsers, clients, viewers and keys, arbitrary
bounds, capacities, sizes and times, and any environments; the assumptions are the named `ASSUME`s of the modules:
that numbers are numbers, that a marker for "none" is none of the values, that a limiter's lockout is not longer than
its window, that goroutines, browsers and requests can be counted. Every invariant, every action property and the refinement that a passing run checks are proved.

Module | Theorem | What
--- | --- | ---
`WardriveProofs` | `TypeCorrect`, `InvHolds` | types; the inductive invariant
 | `CaptureOwnedHolds`, `SingleCaptureHolds`, `PasswordCurrentHolds` | the parts of it that matter
 | `AtMostOnePerCoreHolds` | never more captures than Cores: a cardinality argument over `CaptureOwned`
 | `ImplementsSlotHolds` | the refinement of `ExclusiveSlot`
 | `MissesAreForgiven` | `MissedAtMostOnce`
`ToolRunnerProofs` | `TypeCorrect`, `InvHolds` | types; the inductive invariant
 | `HeaderTrueHolds`, `CapsWithinClassHolds`, `JobReadableHolds` | the values, rights and job file of a run
 | `HistoryTyped`, `ValuesGivenHolds` | types of the histories; `ValuesGiven`
 | `OutputsTyped`, `OutputsAreKept` | types; `RunsKept`
`KeyInputProofs` | `KeyTyped`, `PressesAreDelivered` | types; `PressesDelivered`
`ToolScreenProofs` | `TypeCorrect`, `TameInvHolds` | types; the inductive invariant
 | `PromiseKeptHolds`, `ErrorShownHolds`, `CancelsSeenRunHolds` | what the screen promises, reports and cancels
`FormProofs` | `ListsTyped`, `RowsAreShown` | types; `RowsShown`
 | `FormTyped`, `EditsAreFaithful`, `FieldIsShown` | types; `EditsFaithful`, `FieldShown`
`ModulesProofs` | `UploadsInvHolds`, `UploadsTyped`, `SavedWholeHolds`, `ContainedHolds` | the invariant; types; uploads
 | `ExportsTyped`, `ExportsAreWhole` | types; `ExportWhole`
 | `GpsTyped`, `FixHonestHolds`; `HdmiTyped`, `NoFalseAlarmHolds` | types; GPS and HDMI
`LiveProofs` | `LoginTypeCorrect`, `AccessEarnedHolds`, `LockoutHoldsAlways`, `GuessesBoundedHolds` | types; login
 | `ImagesTyped`, `ReadyViewersDrawThePng` | types; `DrawsThePng`
 | `HudTypeCorrect`, `HudInvHolds`, `ActsAsShownHolds` | types; the invariant; the toggles
 | `LiveIsTheSum`, `LiveTyped` | in the sum each part moves as its own specification says; `LiveTypeOK`
`PartsProofs` | `PartsAreTheSum`, `PartsTyped` | the same of `MCParts`; `PartsTypeOK`

*The invariant of Wardrive.* "At most one capture" is not inductive: a launch is decided
at `decide`, four steps before the unit starts. `Inv` says where a capture that no cache names has to
be: still ahead of this Core's scan (`WillFind`), so a scan that ends without finding anything
proves there is none. `CacheEmpty` says a Core that scans or launches has nothing in its cache
to overwrite; that alone carries `CaptureOwned` past `Launch`. `NothingQueued` and `AllInSight`
spell out what a prompt start and a scan that sees everything mean for the state. `ConfWritten`
carries the password from `ensureConfig` to the launch.

*`MissedAtMostOnce`* needs an invariant of the history (`Overlooking`) and no other of Wardrive but its types.
A miss is counted when a lookup ends with nothing while a capture was visible all along. After one, the cache
is empty until a lookup finds something or a Start launches, and both forgive; so the next lookup is a scan, and a scan
has still ahead of it whatever has been visible since it began (`steady[c] \subseteq toScan[c]`). It can only end without a find when
there is no such capture. `LookupSteps` says of every step what it is for one Core's lookup; the rest is over those eight.

*The invariant of ToolRunner.* `FileInv` follows the job file: it exists from the first
truncation on, is shared before the first launch, and never becomes private again; `JobReadable`
follows although callers race. `TameInv` says, of callers that take turns, that a Start past its
check is alone with the file, so what a run has read is what the file goes on holding. `HInv` carries `ValuesGiven` for callers that
race: what is in the file once a Start has opened it is of a Start under way with it (`rivals`), and a unit that comes up
takes those over (`given`) until its runtool has read the file.

*The invariant of ToolScreen.* Types alone need `Room`: the number of outputs stays in its bound
because every start under way has a place reserved, a cardinality argument over the workers that
start. In a tame environment (`TameInv`) a start is the only thing under way, a refresh that has
looked saw what is so, and a run the screen does not show yet has a worker that will refresh it.
`FormMeansNoRun` and `CancelsNewest` carry the two histories: a start that fails, the only way to the form
which is not the user's, finds nothing running; no start is beside a cancel, so the newest run stays the newest.

*The invariant of WardriveScreen.* `Sees`: without `lag` the LCD shows the snapshot, and what a toggler captured is
what its LCD showed, password page or not. `SeesCapture`: with a user that waits and no other
front end there is one toggler, and until it has acted a capture that is shown is the one there is.

*The invariants of Login.* `Earned`: a token of this process, and a verdict on its way, belong to a
browser in `vouched`. `LockBounded`: a lock ends within Lockout after the failure that opened
the bucket was counted, so with Lockout <= Window no bucket is replaced under a lock before the lock is over.
`OldDenials` splits the denials at the bucket's first: those after it are the bucket's failures, and those before it, but for
the FailMax - 1 newest, are out of the window; under a lock what can still be denied are the POSTs under way, a number
that only shrinks (`UnderWayShrinks`), so room is kept for each of them in the bound (`Guesses`).

*The invariants of the rest.* Uploads: `Placed`, where a POST's files are, and `SentSoFar`, that what was sent is in
them unless touched; that `Clean` leaves no ".." to climb by is not needed, because `Safe` compares. Gps: the
held fix was seen at most Timeout after its time (`HeldFix`), and what a call has read is of this call (`OfThisCall`).
Hdmi: requests that take turns have one helper at work (`InTurn`), and what the first read saw
leaves a witness in `truths` for each outcome of the second (`Witnessed`).

*The invariant of KeyInput.* The debts of the app (`due`) are matched with positions of one pipeline: the Events
coming to the app, then the raw events still queued. `Places` says there is a map from debts to positions that
is strictly increasing, hits exactly the positions that settle a debt, and agrees on the key; the case a queued press will be
given is a function of the shift events before it (`InCase`). One lemma says what each way of changing the pipeline does to such a map -
growing at its end, taking the head of the queue, appending an Event, taking one, losing the queue when the
reader quits - and each action is one or two of these. That a repetition never settles a debt comes from the types: what is held
may repeat, and no key that commits does. `PressesDelivered` itself counts (`Rank`), so the last step is that an
increasing map onto a finite set of positions is their ranking (`Ranked`).

*The invariant of ImageCache.* `Whole`: as long as the file is newer than the PNG, every row (and the header) is of
the PNG's version or still ahead of some writer (`Unwritten`) - not of the one who cut the file, of any. A writer reads the
PNG whole before it writes, which needs a PNG that does not grow; and every writer goes on to its last row, which needs a
process that does not end and writes that do not fail: these are the conditions of the property. When no conversion runs nothing is ahead of anybody.

*The invariant of Export.* `Progress` ties the job of an export to the inode it works on: what is converted so
far is in the file that has the name, what is served so far is what was at the front of the inode opened. It is claimed of exports that
are alone (`ByItself`), and `overlapped` is set in both when a second one begins.

*The invariant of Outputs.* `Orderly`: with a clock that is not set back and runs in different seconds, both the seconds that name
the runs' files and the times they were last written are strictly increasing in the number of the run, the tool's own files with gaps, so the newest by
time and the greatest by name are the last run that has one.

*The invariants of lists and forms* say what a draw leaves (`InWindow`, `HistoryShown`, `FocusShown`). `Scrolled` is a
least number of a set, found by well-foundedness (`Least`); of the fold in it the proof needs only that the span of
one field is its height (`FoldOne`), because the scroll stops at the focus at the latest. `EditsFaithful` rests on one lemma per key about
the halves of a text around its caret (`EditKeeps`); the bound on the text is not needed.

*The refinement.* `ExclusiveSlot` has a set of jobs that is empty or a singleton and never
passes directly from one job to another. `Wardrive` maps the live units to it; outside `Tame` the slot is empty by definition, as nothing is promised. The
step proof is that a step does not change one job for another (`NoHandover`).

*Only model-checked:* liveness (TLAPS has no reasoning about fairness and ENABLED here): `EventuallyShown`, `EventuallyIdle`,
`RepeatStops`, `Ends`, `EventuallyTrue`, `GoroutinesEnd`, `Answered`, `ComesToShow`, `EventuallyShows`. What the folds compute for every input (`Span`,
`Clean`, `TextLength`) would need induction over data; the proofs get by without it, as said.

*Taken as given:* `systemctl stop` returns when the unit is down or fails having done nothing;
the chmod and chgrp of the job file succeed (the group is created by the package); both front
ends run under accounts that may write the job file. PAM accepts no wrong password. The converters
of kismet logs overwrite a file in their way (`--force`).

## 5. Where the code and its documents disagree

1. `core.go:186` promises a start "only if nothing is capturing". A Status between
   `systemctl start --no-block` and kismet's first process finds the cgroup empty and drops the
   cache; a Start of another interface then runs a second kismet (`wardrive_double`).
2. `core.go:311-313` promises a password generated once and identical across front ends. The
   mutex belongs to one Core; two first captures generate two, and the first kismet keeps the one
   that was replaced (`wardrive_password`).
3. `cmd/czconsole-runtool/main.go:112-113` promises never to run silently with empty inputs. A
   second Start truncates the file of the first between launch and read; the empty text fails to
   parse, and the error becomes the empty map (`tool_empty`).
4. `input.go:207-208` promises that shift is tracked across press and release. One flag stands
   for both shift keys; `PressesDelivered` is stated for keypads with one.
5. `toolscreen.go:172` promises that "results will show when complete". Within the 300 ms before the
   first refresh Esc and Enter submit again; the refused Start puts the form behind the running
   view (`screen_hasty`).
6. `imageview.go:26-27` promises that a complete `.r565` is there once a viewer is open. The conversion writes to
   the final name; if the process ends in between, or a write fails, the partial file is newer than its PNG and stays
   valid for ever (`image_partial`).
7. `ratelimit.go:17` calls the window a trailing one. It is the bucket's own, opened anew when over; twice
   (max - 1) failures may fall into one window without a lock.
8. `ratelimit.go:43` trips "once max is exceeded"; the code trips when max is reached, as `main.go:81` says.
9. `hdmi.go:129-130` calls both effects of a helper atomic. The link comes first and the unit later, a
   status in between is "degraded"; requests for both helpers at once may end with the desktop
   running and not enabled. `NoFalseAlarm` is stated against the true states and for requests that take turns.
10. `menu.go:36` says a tool is a spec drop-in. A menu does not scroll: the focus on a seventh item is
    off the LCD; `RowsShown` speaks of menus whose items fit.
11. `ratelimit.go:27` allows "`max` failures per `window`". POSTs under way together are all let through (`server.go:134`) before
    any is denied (`server.go:148`), and each is a guess that PAM answers;
    `GuessesBounded` has the number the code keeps.
12. `cmd/czconsole-runtool/main.go:44` promises "never run with more privilege than the spec's class". The check is skipped
    when runtool cannot read its own capabilities; `CapsWithinClass` is stated for one that can.
13. `result.go:65-66` keeps the subject for the latest run, whose inputs the job file holds. `refresh` (`toolscreen.go:101`) puts it
    above the newest results file, which is an earlier run's when the last one ended without; `RunsKept` says which.

## 6. Plan

Done: wardrive, tools, keys, tool screen (first), then the plan of that time: login, image cache, outputs,
forms, lists, uploads, exports, GPS, HDMI, the HUD, and the proofs of
section 4, which reach every safety property. What is left, in this order:

1. **Proofs** of what is left where a property has a condition: that with two shift keys a press can only arrive in the
   wrong case, never be lost or overtaken; that an export which another overlaps still serves nothing but pieces
   of logs and holes; what a Start that races another can hand to a tool at worst.
2. **Template substitution** (`command.go`): that arguments stay apart, as operators over bounded inputs.
3. **PNG filters** (`r565.go`) against their definition, as operators over small rows.
4. **Registry**: order and nesting of modules, and the slugs of groups.

## 7. Not modelled

* `internal/fb`, `draw.go`, `theme.go`, HTML and JavaScript: pixels, ioctls and rendering.
* `sysinfo`, `opdir`, listings and downloads: reads and formatting, without state between two requests.
* The registry and the tool groups are built once at start-up and never change. Two groups with one slug
  panic in `ServeMux`; a module nested in a group that no spec has gets no tile
  (`modules/module.go:107`). Both depend on names only the administrator writes.
* `Substitute` and `expandString`: text to text, with unit tests.
* The arithmetic of PNG filters and RGB565, with tests against the library decoder (`r565_test.go`).
* The data race on `ToolScreen.mode` (a hazard with a note): `mode` is an aligned int, taken for atomic.
* Authorization by polkit and the systemd sandboxing: configuration, not code.
* Parsing of kismet's REST replies, of gpsd's JSON and of `/proc`; a login through a shared token, which has no state.
