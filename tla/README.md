# Verification of azure.samples

The repository is a collection of about eighty independent Azure samples. Most
of them are deployments (Terraform, Bicep, Kubernetes manifests) around a program
of a few lines; a handful have logic of their own. This directory holds TLA+
models of that handful, TLC configurations that check them on small instances,
and proofs that the TLA+ proof system (TLAPS) checks for every instance.

`PROJECT.json` maps every definition to the lines of the source it models, and
lists runs, mutants, findings, hazards and theorems. This file says what they
mean.

## 1. The system

### Components that are modelled

| Component | State it keeps | Operations | Module |
|---|---|---|---|
| `aca.race`: race control | the times of each runner in the state store of a Dapr actor, a reminder per runner, events in a topic, the loop of each simulated runner | publish a check point; register start, half, finish; the reminder comes due | `RaceControl` on `DaprRuntime`, abstract `Watchdog` |
| `aca.camera`: camera control | when each camera was last seen, a reminder per camera, events in a topic | publish a motion; register a motion; the reminder comes due | `CameraControl` on `DaprRuntime` |
| `aks_nap_admission_webhook` | none of its own; the API server stores the volumes it patches | `HandleMutate` on create and update | `PvZoneFix` |
| `ai_foundry_agents` | module globals `agents`, `agent_id`, `thread`; agents, threads and runs in the agent service | chat start, message, shutdown | `AgentChat` |
| `iot_import_export` | two blobs, a job per hub | export, import, poll | `DeviceBackup` |
| `sql_ultra_disks`, VM validation | counters and flags of one run | the checks, in order | `UltraDiskValidation` |
| `sql_ultra_disks`, SQL Server validation and fix | the settings of the host | seventeen checks, four fixes with prompts | `SqlWriteValidation`, `SqlWriteFix` |
| unobtrusive form validation of two web applications | the parsed rules, the validator object of a form, requests to the server, the messages of the page | parse, attach, check, submit, reset, answer | `UnobtrusiveAdapters`; `UnobtrusiveValidation` on `FormValidator` on `ValidationMessages` |
| `signalr` | a connection per client with its reconnects, the connections a replica holds | start, noise; join, leave, echo; migrate, close | `SignalRChat` |

### How they interact

The race and the cameras share one architecture. A simulator publishes events to
a Dapr topic; the sidecar posts each of them to the control service until it
answers 200; the service calls the actor of the runner or camera through the
sidecar; the actor sets its state, which the sidecar saves when the method
returns, and registers or unregisters a reminder, which the sidecar delivers to
the actor as a turn of its own. What is hard is all of it together: redelivered
and reordered events, a reminder that is due while another turn runs, a call that
fails before or after it took effect, a catch block that answers 200 for what was
not done, a replica that is lost between two calls.

The webhook is called by the API server for every created and updated persistent
volume, by way of a configuration that ignores a webhook that does not answer
(`failurePolicy: Ignore`): it runs on some requests and not on others, and again
on volumes it has patched before.

The agent chat serves every session from the same globals, read again after each
`await`, while another session may start and bind them to its own agents.

The IoT program is run again and again by an operator. It submits a job to a hub
and polls it; a poll that throws ends the program and not the job.

The scripts of `sql_ultra_disks` read a machine by many calls of which any may
fail, and give a verdict at the end; the fix script changes what one of them
validates, and is run again after a failure.

The two ASP.NET applications `aad_protect_web_api/dotnet-web-client` and
`azdo_aks/src/SimpleWebApp` ship jQuery Validate and jquery.validate.unobtrusive
(4.0.0 and 3.2.11, the same code but for three lines of header, so that the map
names the first copy). They are the largest program of the repository. The one
turns attributes of the markup into rules of the other and shows what it finds;
between a request to the server and its answer, the user edits, submits or resets
the form, and scripts change the page. `_ValidationScriptsPartial.cshtml` is not
used by a page of the samples that has a form: the models are of what the
applications carry, for the forms that are written with it.

The clients of `signalr` call the hub every thirty seconds over a connection that
is made again when it breaks; the hub says to all who came and went. A client and
a replica learn of a broken connection apart from each other, a replica that dies
says nothing, and one that is shut down hands its connections over or closes them.

### Components that are not modelled, and why

`PROJECT.json` names each of them. They fall into four groups:

- **planned**: the notification services of the race and the cameras, the Twitter
  pipeline (twice), the Service Bus functions, the identity number check of
  `function_golang`;
- **straight-line programs** without a state or a loop of their own: batch,
  container registry, Graph, failover scripts, single HTTP handlers (the two
  JavaScript functions `httpTrigger.js` and `HttpTrigger/index.js` among them);
- **libraries or models decide**: token middleware (also `node-sample/main.ts`),
  the bot framework, prompts to language models;
- **declarations**: Terraform, Bicep, manifests; and the vendored files that the
  form validation does not rest on (bootstrap, jquery itself).

### What makes each component correct

- *race*: a runner who started and did not finish is never forgotten; once the
  finish is saved no reminder comes due any more, but for that of a start that is
  not settled (one that was due before is served all the same, and the finisher is
  logged as not finished); a race is reported at most once; the saved times are those
  of one race and of the events that were handled.
- *cameras*: a camera that falls silent is reported, once; `LastSeenAt` is that of
  the latest motion and does not go back.
- *webhook*: the patch opens a zone redundant disk to every zone it has, gives no
  disk another zone, and does not get in the way of updates.
- *agent chat*: an agent a run may call exists; shutting down deletes what it is
  meant to; an answer is not that of an earlier question; nothing waits for ever.
- *IoT backup*: a completed export stays what it was; a completed import has
  restored it.
- *forms*: what is sent passes the rules and was called valid by the server as it
  is sent; what the page says is true; a submit that is held back is resolved; the
  rules accept what the markup allows.
- *chat*: what a client is told adds up to who is there, to what was under way when
  it connected; no client falls silent by itself.
- *validations*: the final verdict is sound and, when every call is answered,
  complete. *fix*: it never makes worse what it found, ends with what it is about
  fixed, and does nothing when run again.

## 2. The modules

### `DaprRuntime` (external)

The sidecar, modelled from how the two samples use it: a topic whose events stay
until an answer of 200 arrives, reminders that are registered at once and fire
again and again, and wait for the turn that runs. The constant `FaultKinds` names the calls
that may fail, and every failure spends one of `MaxFaults`. A failed call may or
may not have taken effect (`MaybeRegisterReminder`, `MaybeUnregisterReminder`).
`ordered` is chosen once for a behaviour: whether this broker delivers the events
of an actor in the order they were published. Some properties hold only with such
a broker, and say so.

### `RaceControl`

| State | In the code |
|---|---|
| `sim` | where the `while` loop of `Runner.Start` is: the race and the next check point |
| `turn` | the actor method that runs and the call it stands at (reminder or state) |
| `store` | the saved `RunnerState`; a time stamp is the number of the race it was taken in |
| `topic`, `reminder`, `firing`, `faults`, `ordered` | the sidecar |
| `published`, `missed`, `reported`, `lapsed`, `credit` | history, read by no guard |

`PublishCheckPoint` and `PublishFails` are the simulator; an exception abandons
the race and the next one starts. `Dispatch` is the `/race-control` handler and
chooses the method by the check point. `RegisterStartReminder` and
`RegisterStartSave`, `RegisterHalf`, `UnregisterOnFinish` and `RegisterFinisher`
are the steps of the three methods, cut at their calls to the sidecar, so that a
crash or a due reminder may come between them. `RegisterStartAsync` sets its state
before it registers the reminder, but the sidecar saves it afterwards: the save is
`RegisterStartSave`. `Swallow` is the catch block: the handler answers 200 and the
event is gone. `SaveState` may fail, or the answer may be lost: the event is
delivered again, and what the turn did to the reminder stays done.
`ReceiveReminder`, `UnregisterOnReminder` and `LogDidNotFinish` are the reminder's
turn, which has no catch. `Crash` loses the replica in the middle of a turn.

### `CameraControl`

The same for the cameras, whose one method takes the reminder away
(`UnregisterOnMotion`), registers it again (`RegisterOnMotion`) and has its state
saved (`SaveMotion`). It has no abstract specification of its own: a camera is never
done, so that little but `Watched` would be left of one.

### `Watchdog`

The abstract specification of the runner actor. Whoever is started is watched until
it finishes or is reported; the watch lapses only by a failed call, and an alarm
that came due is served unless a call fails. When the finish is saved no alarm comes
due any more, but for one that a start not settled yet has set. An alarm that was
due before is served and reports the finisher: the service logs both lines, and the
runner is `disputed`. `ImplementsWatchdog` is the refinement, with `status` computed
from the saved state and the history, and `starting` and `due` from the topic and the
turns.

### `PvZoneFix`

`HandleMutate(p)` is the set of objects the webhook may return for `p`, with its
early returns: not ZRS, no zone found, dry run (the driver is logged and not
looked at, so a volume of any driver with that SKU is patched). `Admitted` is what
the API server goes on with, which is `p` itself while the replica is down.
`Create`, `Update`, `Edit` and `Delete` are requests of clients; an `Update` sends
the affinity back as it was read. `affinityImmutable` says whether this API server
refuses to change an affinity that is set. `SortStrings` is Go's `sort.Strings`:
any function from a set of zones to a sequence of them.

### `AgentChat`

One handler per session, at one of its `await`s. The service's agents (`alive`),
threads (`log`) and active runs (`busy`) outlive the application. `start` creates
three agents, binds `agents` before the next await, then `agent_id`, then
`thread`. `main` adds a message to the global thread, starts a run of the global
agent, polls it, and shows the last message of what is by then the global thread,
whatever the status of the run and whoever wrote the message. `stop` deletes the
global agent and then the children listed by then. The service takes neither a
message nor a run for a thread with an active run. Reloading the modules
(`chainlit run -w`) is left out.

### `DeviceBackup`

`Start` parses and validates the arguments, `PrepareStorage`, `SubmitJob` and
`WaitForJob` are the rest of a run. The job service (`JobStarts`, `JobCompletes`,
`JobFails`) works by itself, copies all it was asked for or, when it fails or is
cancelled, a part of it. Contents are version numbers, so that a property can tell
an old backup from a new one. `backup` and `restored` record what the program has
printed.

### `UltraDiskValidation`

One run of the script on a machine chosen at the start: one action per check, in
order, with `set -e` and `set -u`. Any call to `az` may fail, which stops the
script, skips a disk or leaves a value empty, as the lines say. `IsMachine` is the
shape of what `az` answers; the machine may have any number of disks and interfaces.

### `SqlWriteValidation`, `SqlWriteFix`

The seventeen checks are operators from a host to the set of results they count;
`Verdict` is the summary. The fix script is a state machine over the host: each fix
is cut at its prompts and calls, an answer may be no, a call may fail, the
exclusions and volumes are worked on one by one, and the script may be run again.
Memory is in whole GB, for which the scripts' arithmetic in doubles is exact. The
batch that sets the maximum memory may end after any of its statements (`SetPart`):
a value that is configured and not in use is `pending`, and a RECONFIGURE of a later
run, or its restart of the instance, puts it in use.

### `ValidationMessages`, `FormValidator`, `UnobtrusiveValidation`

One form of a page. A handler of the page runs to its end, so that the methods of
the validator are operators from its state to the next (`Check`, `ValidateForm`,
`ValidateElement`, `SubmitForm`, `StopRequest`, `AnswerValid`, `ResetForm`), and the
actions are the events that call them.

| State | In the code |
|---|---|
| `dom`, `value` | the inputs of the form, by name, and their values |
| `options` | the names in `options.rules` of the form's validationInfo |
| `bound`, `attached` | whether onReset is bound, whether the form has a validator |
| `settings` | the names in the rules that the validator copied from the options |
| `form.errors`, `success`, `submitted`, `invalid`, `pending`, `pendingRequest`, `formSubmitted` | the fields of the validator object |
| `form.previous`, `form.ajax` | `previousValue` of an element; the request that is out for a name |
| `form.at`, `list`, `summary` | message containers and validation summary (`ValidationMessages`) |
| `form.verdict`, `seen`; `edits`, `changes` | history; bounds |

`OnReady`, `Parse`, `ParseElement` and `Validate` are the entry points of the
unobtrusive library, `Submit`, `KeyUp`, `FocusOut` and `Reset` what the user does,
`Answer` a callback of a remote rule, `LoseAnswer` a request that fails or that
another form aborts, for which there is no callback. `Insert`, `Remove` and
`HideOrShow` are scripts of the page. When an invalid answer meets an error whose
field has left the page, `showErrors` throws half way (`AnswerThrows`): some labels
are shown, and the request stays counted. A rule set is reduced to what the
protocol tells apart: required, accepted by the other local rules, asked at the
server, with which other fields.

Left out: the classes that highlight inputs and the wording of messages, groups,
buttons that cancel or carry `formnovalidate`, several inputs of one name,
`destroy()`, the `blur` handler that equalTo adds, and the jQuery form plugin.

### `UnobtrusiveAdapters`

What the above abstracts: from the `data-val` attributes of one input (`markup`) to
rules and messages (`Parsed`) by the seventeen adapters in their order of
registration (`Applied`), and from rules to a verdict on a text (`lastCheck`). The
rules are those of the validator (`inputSettings`), copied when the form is first
parsed, from the attributes of that moment (`madeFrom`): a script may change the
attributes and parse the input again, which reaches the options of the form and not
the validator. `Verdicts` is a set: which failing rule comes first is
left open, and a rule without a method throws. The bounds of `length` are numbers, and so
are those of a `range` of two; a bound that stands alone is the string that the
attribute was, and is compared as one (`StringAtMost`). `IsMarkup` is what the server
renders: which adapter has which parameters, and which of them are numbers.

### `SignalRChat`

`Start` and `Noise` are `start` and `noise` of a client, `noise` saying whether
`start` still connects, the next call is due (called, or by its timer), or an invoke
is out. `Reconnect` is a try of the automatic reconnect, and `Closed` the client's
noticing that its connection is gone. `OnConnectedAsync`, `Disconnected` and `Echo`
are the hub's methods; `Migrate` is a shutdown with the Azure service, `Close` one
with Redis; `azure` is chosen once, as by the configuration. `joined` says that
`OnConnectedAsync` has run, which may be after the connection broke.

What the hub says to all goes through Redis or the Azure service: `All` puts a
message under way to each client (`flight`), and `Deliver` forwards it later, to each
client at a moment of its own and in any order, if it is connected then. A join that
was said before a client connected and is forwarded afterwards reaches it too, and
counts twice for good; a message forwarded between two connections is heard by
nobody. `SendAsync` may throw: in `OnConnectedAsync` the hub closes the connection,
tells the client not to reconnect (`dismissed`) and never says that it left
(`OnConnectedThrows`); in `OnDisconnectedAsync` nobody is told (`SaysLeft`). `lost`
counts the joins that were said and whose leave never will be, those who died with
their replica among them.

## 3. What is checked

Every passing run has a mutant for each of its properties: a definition of the
model changed the way a bug would change the code, for which TLC finds the
property violated. The mutants stand before their targets in the modules.

### `race` (530 000 states)

`TypeOK`, `Watched`, `FinishedIsDisarmed`, `OneReportPerStart`, `NoMixedRaces`,
`QuiescentAccuracy`, `Resolved`, `ImplementsWatchdog`. One runner, two races, two
failures of any kind. Two races are needed for events of one race to arrive in
another, and two failures for the second to strike the repair of the first: a lost answer
and a crash of the repeated turn. One actor is enough: actors share no state but
the topic, of which each takes only its own events (lemma `Elsewhere` proves that
a step of another runner preserves the invariant of this one); the budget of
failures is the only thing they compete for. `NoMixedRaces` and
`QuiescentAccuracy` hold with ordered delivery only: otherwise a late half of the
first race is written into the second, which the code does not guard against. That a
finisher is logged as not finished, by a reminder that was due when the finish was
saved, is a behaviour of the code that the abstract `Watchdog` has too: no property
denies it.

### `camera` (64 000 states)

`TypeOK`, `Watched`, `OneReportPerMotion`, `LatestMotionRecorded`,
`LastSeenMonotone`, `Resolved`, with four motions and two failures.
`LastSeenMonotone` and `LatestMotionRecorded` need ordered delivery.

Both `Watched` and `Resolved` except the runners and cameras that have *lapsed*:
`RegisterReminderAsync` fails, the catch block logs it and the handler answers
200. This is what the code does; the exception is stated instead of hidden. Events
lost to that catch block count as `missed` in the properties about what is saved.

### `webhook`

`SchedulableAnywhere`, `ZonesPreserved`, `RefusedOnlyAfterBypass`: two volumes of
three zones, the shapes of terms the CSI driver and a user write, a replica that is
up, down or dry, and both kinds of API server. `SchedulableAnywhere` excepts volumes stored without the patch, and this
is what `failurePolicy: Ignore` amounts to. `ZonesPreserved` is about terms of the
CSI driver: it asks for the same zones, and that a volume of the empty zone alone
stays open to nodes without one. Terms written by hand may lose what they say of
other keys.

### `agent_chat` (189 000 states)

`WholeAgents`, `StopLeavesEarlierSessions`, `AloneNeverStale`, `HandlersEnd`, with
two sessions, two messages and two failures. The claims are as wide as the code
allows: with two sessions an answer may be another session's, because the globals
are swapped under a running handler, so `AloneNeverStale` is about a session that
has the application to itself; `WholeAgents` and `StopLeavesEarlierSessions` are about starts that do not overlap.
`StopLeavesEarlierSessions` is exact: what a stop leaves behind is what earlier
sessions created, and they always stay.

### `device_backup` (291 000 states)

`BackupKept`, `RestoredIsBackup`, `RunsEnd`: four runs, so that an export, an
import and two abandoned runs fit, two changes of the source hub and two failures.
They rest on the hub's taking one active job at a time.

### `ultra_disk` and `ultra_disk_zones`

`PassedIsChecked`, `GoodPasses`: machines with up to two data disks, with each
thing that can be wrong, and two failed calls. `ultra_disk_zones` shows that the
line "All data disks are in the same zone as VM" is printed for a disk whose zone
could not be read.

### `sql_fix` and `sql_fix_verified`

`AppliedFixesPass`, `NeverWorse`, `SettledRerun`, `ExcellentMeansTuned`: two runs,
two failures, any answers, on hosts that differ in what the scripts look at. A run that
begins while a memory is pending is not asked for check 4.1, nor is it called clean:
the restart of Fix 2 puts the pending value in use after Fix 1 found nothing to do.
`sql_fix_verified` shows that the two scripts round the reserved memory
differently, so that the validation warns of what the fix has set. Check 4.3 (line
499) compares the column `instant_file_initialization_enabled`, which holds `Y` or
`N`, with 1: it fails on every host. The properties about the verdict are therefore
stated over the other checks.

### `form` (155 000 states)

`InSync`, `SubmittedIsValid`, `MessagesTruthful`, `RefusalExplained`,
`SubmitResolved`. Two fields, one loaded with the page and one that comes later,
both asked about at the server, the value of one riding with the request of the
other; three values, of which one passes the local rules of one field only; two
edits and two changes of the page or lost answers. Two of each are the least that
lets an answer be late twice: once for the value, once for the page.
`MessagesTruthful` speaks of fields that were checked as they stand: what arrives
late is shown at the field all the same, and history (`seen`) says which it is.
`SubmitResolved` excepts a request whose answer was lost: it stays counted, and the
form can not be sent without a reload.

### `adapters` (137 000 states)

`ClientAgrees`: inputs with up to three of twenty attributes, worded or not, a
checkbox or not, with eight texts, before and after their attributes change and are
parsed again. The rules accept exactly what the attributes that the validator was
made from, read one by one, allow. It excepts what the code does otherwise, by name:
two attributes that want the same rule with different arguments (the later adapter
has it), `nonalphamin` and equalto for an empty text, a range of one bound, and
`creditcard`, `extension` and `fileextensions`, for which the shipped jQuery Validate
has no method, so that `check` throws.

### `chat` (200 000 states)

`RosterAddsUp`, `KeepsTalking`: one client, two replicas, two tries of a reconnect
(for the code's four) and three faults, so that a connection may be lost while the
replica it is made again to stops, and up to four connections of the client are in
the chat at a time. `RosterAddsUp` speaks of what a client was sent and of what is
under way to it: with nothing under way when it connected and nothing now, it has
been told by how many the chat has grown. Who died with a replica is in the chat for
ever, and it counts them. That clients hear of each other's connections as of their
own earlier ones is what the theorem adds, for any number of clients.
`KeepsTalking` excepts a client whose connection was given up, and that is final: a
start that failed is not tried again, a reconnect ends after its tries or when the
hub has sent it away, and the health endpoint answers 200 in each case.

### Divergences met on the way that no run is about

- `aks_nap_admission_webhook/README.md:239` says that a volume with a single term is
  left alone; `handler.go:105` skips only one without zones, and patches it, with the
  loss of its expressions on other keys. `README.md:237` says that volumes of other
  drivers are left alone; the driver is logged and not looked at.
- `fix-sql-write-performance.ps1:11-12` takes an instance as a parameter; line 194
  takes the first SQL Server service of the host for its privileges, and restarts it.
- `validate-sql-write-performance.ps1:412` applies `-ne` to arrays, which filters:
  a log that shares one of two data drives is reported as separated.
- `validate-sql-ultradisk.sh:283` reads an array that is declared and never assigned
  for a machine without data disks: under `set -u` bash 4.4 and later stop there,
  before the script reports that there are none. Line 360 reads each disk again: what
  an operator changes meanwhile is judged in parts.
- `jquery.validate.unobtrusive.js:231` says that parse "enables validation according to
  the data-val-* attribute values"; line 161 calls `validate(options)`, which returns
  the validator that a form already has (`jquery.validate.js:34`), with its copy of the
  options of the first parse (line 239). An input that is parsed later is never
  validated by that form, and one that is parsed again with `data-val-required` is let
  through empty. `SubmittedIsValid` speaks of the fields the validator has rules for,
  `ClientAgrees` of the attributes it was made from.
- `jquery.validate.js:377` says "Please enter a value greater than or equal to {0}." of
  10 where at least 5 is asked for: line 316 of the unobtrusive library passes a bound
  that stands alone on as a string, lines 1299 to 1314 make numbers of other rules'
  bounds only, and the values are compared as strings.
- `jquery.validate.unobtrusive.js:330` says that the attribute of `addSingleVal` is by
  default `val`; line 335 reads `options.params[attribute]`, which is then undefined.
  Lines 303 to 306 offer other attribute names to `addMinMax`; lines 309 and 310 read
  `min` and `max`.
- `signalr.client/main.ts:23` passes `HttpTransportType.WebSockets` of the whole
  module, not of its `HttpTransportType`: undefined, and the transport is negotiated.
- `iot_import_export/Parameter.cs:18` names the variable `IOTHUB_CONN_STRING`, the
  code reads `SOURCE_IOTHUB_CONN_STRING`; `IoTBackup.cs:62` comments the import as if
  it were the export. An export without `--IncludeConfigurations` leaves the
  configurations of an earlier one, which an import may then restore.
- `ai_foundry_agents/main.py:71` says three seconds and waits one.
- `aca.dapr.twitter/ReadTwitter/Program.cs:44` publishes after it saved: a publish
  that fails has the tweet delivered and saved again.
- `function_golang/src/dni/handlers.go:66` goes on with 0 when the number does not
  parse, and takes the remainder of a negative one, which indexes out of the table.

### Fairness

- *race, cameras*: the sidecar goes on delivering what is in the topic, turns go
  on, reminders come due and are delivered: this is what the sidecar is for and
  what at-least-once means. The simulator owes nothing, as it may be stopped. There are
  finitely many failures (`MaxFaults`), without which nothing could be shown.
- *agent chat*: the event loop resumes what awaited, the service answers and ends
  its runs. Users owe nothing.
- *IoT backup*: the program goes on polling (its loop has no other exit) and the
  hub works on its jobs. The operator owes nothing.
- *form*: the server answers the requests that are out. Users and scripts owe
  nothing: nobody has to submit again.
- *chat*: timers fire, the tries of a reconnect end, and replicas that run handle
  what they hold. Nothing has to break, and no replica has to come back.

Deadlock is checked in every run; the end of a bounded behaviour is an action of
its own (`Finished`, `Ended`, `Down`, `Done`, `Gone`).

## 4. What is proved

For every set of actors, volumes, zones and objects, every bound, and every choice
of failing calls; from the assumptions named in the modules.

- `RaceControlProofs`: `TypeCorrect`, `NoRunnerForgotten`, `FinisherDisarmed`,
  `AtMostOneReport`, `RefinesWatchdog`. `Watched` is not inductive: it says nothing
  of a turn half done. `IInv` adds, for each runner, `TurnInv` (a turn handles an
  event that is still in the topic; a finish saves after its reminder is gone, a
  start after it is registered or the runner has lapsed) and `CreditInv` (a reminder
  registered, due or being served still has its line to log). One lemma per action
  shows that it keeps the invariant of the runner it is about, and `Elsewhere` that
  it keeps that of all others. The refinement maps a step of a runner to a step of
  the watchdog, and all others to a stutter. `RacesNeverMix` and `AccurateWhenQuiet`
  are for ordered delivery: `OrderedIInv` says of each runner that what was
  published is behind its simulator, each race from its start (`PublishedInv`); that
  the topic holds a suffix of it and a turn handles its first event (`SuffixInv`);
  and that the saved state is one race of it, not later than the topic and not older
  than what was settled (`StoredInv`). A start that is delivered again finds the
  rest of its race still in the topic: this is why replacing the whole state loses
  nothing.
- `CameraControlProofs`: `TypeCorrect`, `NoCameraForgotten`, `AtMostOneReport`,
  `LatestRecorded`, `LastSeenNeverBack`. The invariant adds
  `OrderInv`: with ordered delivery what is saved is not later than anything still
  in the topic, a running turn holds the earliest event, and every published motion
  that was not missed is still to come or was overtaken. The action property follows
  from it: only `SaveMotion` changes the state, and it saves an event of the topic.
- `PvZoneFixProofs`: `WebhookTypeCorrect`, `EveryZoneSchedulable`, `ZonesKept`,
  `UpdatesGoThrough`. The invariant `VolumeInv`: a volume is stored
  as asked or merged; a patched one is merged; one whose update was refused is
  stored unmerged. The key lemma is that merging is idempotent, which rests on
  `SortAssumption`: the sorted sequence depends on the set of zones only.
- `DeviceBackupProofs`: `BackupTypeCorrect`, `BackupIsKept`, `BackupIsRestored`.
  `BackupKept` says nothing of the jobs that could break it. `IInv` adds that no job
  is at work on the source hub while there is a backup (`NoExportAtWork`: the hub
  takes one job at a time, so the export that completed was the last), and that a
  run that waits for an import waits for its own job, of which what it leaves, once
  it is completed, is the backup (`OwnImport`).
- `AgentChatProofs`: `AgentsAreWhole`, `StopLeavesTheRest`, `NeverStaleAlone`. The
  first two follow from `ExactlyMade`: while no start failed or met another, an
  agent exists exactly if its start has got so far (`Made`) and the stop has not
  (`Gone`). It needs `OneStart`: the starts of such a behaviour come one after the
  other, and the two globals name the same one but for a moment in it. The third has
  an invariant of its own, `AloneIInv`: a session that is alone has no thread but
  its own, and from its run until it lists the messages nothing but answers to its
  question follow the question (`Asked`), whichever run of the thread ends
  meanwhile.
- `FormValidationProofs`: `FormTypeCorrect`, `CounterInSync`,
  `OnlyValidFormsAreSent`, `MessagesAreTrue`, `RefusalsExplained`,
  `AttributesAreKept`. The key is `RequestInv`: a request that is out belongs to a
  pending name; it is the one its element remembers, or the element has forgotten
  everything; and what an element remembers of a name that is not pending is the
  last verdict of the server. A form is sent only when no name is pending
  (`CountInv`), so that every field that passed passed by that verdict. One lemma
  per operator of `FormValidator` (check, show, submit, stop, answer, reset) says
  what it keeps, and the lemmas of the events combine them. `MessagesTruthful` is
  not inductive: it says nothing of answers that are on their way, nor of the lists
  of errors and successes that labels are made from later. `TruthInv` adds to `IInv`
  that a request was only ever sent about a value that passes the local rules
  (`AskedInv`), and that at every field checked as it stands, and answered where the
  server is asked, the container, its text and the two lists say whether the value
  passes (`LabelsInv`). `Told` joins the two, and again there is a lemma per
  handler. `RefusalExplained` is an action property: it follows from what a whole
  check sets and what the labels show of it. `AttributesAreKept` states
  `ClientAgrees` for any attributes, texts and field names. What an adapter writes
  does not depend on what it is applied to (`ApplyOverlays`), so that of all that
  write a rule the last one has it (`RulesApplied`); `Table` lists what each of the
  seventeen writes, and `Written` proves the table. A rule that fails then comes
  from an attribute that does not allow the text (`FailureExplained`), and where no
  two attributes clash, rules that all hold leave no attribute unmet
  (`HoldingIsAllowed`, `HoldingAsksNoMore`). `MadeInv` is the invariant of the
  states: the rules of the validator are those of the markup that it was made from,
  whatever was parsed since.
- `SqlUltraDisksProofs`, on the fix script: `TypeCorrect`, `SettledHasNothingToDo`,
  `RunsTakeNothingAway`, `FixesPass`, `ExcellentIsTuned`, from `IsHost`, the shape
  of what SQL Server and Windows answer. Every step that changes the host sets some
  settings and keeps the rest (`StepOfHost`). `CleanInv` says what a run that has
  seen no failure and no refusal has left behind at each place; at the end it gives
  `SettledInv`: nothing is left to do, which is why the second run changes nothing
  and the checks the fixes are about pass on a standard host. That they pass is
  arithmetic: the value the fix sets is the one the validation looks for
  (`RecommendedPasses`), although the two scripts round differently. What is pending
  follows the same two arguments (`StepOfPending`): nothing is in a clean run, and in
  one that began with nothing pending it is the value that the run sets. `BeforeInv`
  relates the host to what it was when the script started: no check that passed then
  fails now (`PassesKept`), but for that of the memory where the rounding of the two
  disagrees. The verdict "excellent" needs no invariant but the types.
- `SqlUltraDisksProofs`, on the validation of a machine: `VmTypeCorrect`,
  `PassedMachinesFollowAdvice`, `GoodMachinesPass`, for any machine of that shape
  and any number of failed calls. `FoundInv`: as long as nothing failed and nothing
  was warned of, what the script has come past was read and found good.
  `AnsweredInv`, for the other direction: of a good machine whose calls are
  answered, nothing is found. The logical units need an argument of their own,
  `Units`: numbers of disks below their count are 0, 1, 2, ... exactly if no two are
  the same (a pigeonhole, from the library's facts on finite sets).
- `SignalRChatProofs`: `ChatTypeCorrect`, `RosterAlwaysAddsUp`. `RosterAddsUp` is
  inductive with the types and `TriesLeft`; the work is in counting: each join or
  leave that is said moves the set of joined connections by one and puts a message
  under way to every client, a delivery moves it from one side of the sum to the
  other, a connection that is made begins with what is under way at that moment, and
  a crash or a throw moves connections from one count to the other.

The runs show the same properties on small instances; the proofs are what says
that nothing depends on their size.

### What is only model-checked

Liveness (`Resolved`, `HandlersEnd`, `RunsEnd`, `SubmitResolved`, `KeepsTalking`),
which is out of reach of the prover's backends. Every safety property of a passing
run is also a theorem.

### What is taken from outside the repository

Dapr delivers at least once, runs one turn of an actor at a time, saves the state
when a method returns. Kubernetes ignores a webhook that fails under
`failurePolicy: Ignore` and may refuse to change a node affinity. SQL Server
refuses a maximum memory below 128 MB and takes up the privilege to lock pages, and
the memory that is configured, when it starts. The agent service refuses messages and runs on a thread with an
active run. An IoT hub takes one active job, and a failed one may be half done. A browser runs
one handler of a page at a time, and jQuery takes the data of a removed element with
it. SignalR tells a client and a replica of a broken connection, each in its time;
the Azure service moves the connections of a replica that shuts down; a message to all
reaches those that are connected when it is forwarded.

## 5. Plan

Done, in the order of importance: `DaprRuntime`, `RaceControl`, `Watchdog`;
`PvZoneFix`; `CameraControl`; `UltraDiskValidation`, `SqlWriteValidation`,
`SqlWriteFix`; `AgentChat`, `DeviceBackup`; `ValidationMessages`, `FormValidator`,
`UnobtrusiveValidation`, `UnobtrusiveAdapters`; `SignalRChat`; and the proofs of
section 4.

Left:

1. `TweetPipeline`: save, publish, analyse, with redelivery at the binding and at
   the topic. Abstract specification: every tweet read is saved and eventually
   scored, or its delivery failed for good.
2. `Notifications`: the second subscriber of the race and camera topics composed
   with `RunnerService`; what is announced is in the order of the topic, under
   names that are new each time.
3. `BacklogFunctions`: the two receivers of the Service Bus functions, one
   settling after it sent, the other by an output binding.
4. `IdentityNumber`: `validateDNI` as a function, checked against the official
   rule over short numbers.

Every safety property that is checked is proved; the modules above are to get their
theorems with their runs.
