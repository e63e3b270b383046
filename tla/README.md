# A TLA+ model of the IBM Content Navigator Aspera plug-in

The plug-in lets a user of Content Navigator send repository documents as a *package* to an
Aspera Faspex server. A dialog in the browser collects the package, a service on the web
application server sends it with the Faspex client library, and further services list, look up
and stop the packages that are being sent or were sent recently.

This directory holds TLA+ modules that model the code under `src/`, TLC configurations that
check them on small instances, and proofs that TLAPS checks for every instance. In what follows
`java/` stands for `src/src/main/java/com/ibm/ecm/extension/aspera/` and `web/` for
`src/src/main/resources/com/ibm/ecm/extension/aspera/WebContent/aspera/`.

## Inventory

| component | state it keeps | operations | hard behaviour | what makes it correct |
|---|---|---|---|---|
| `java/faspex/FaspexClient` | the singleton `client`, the registry, the limit, two cut-off times | `getInstance`, `startTransfer`, `stopTransfers`, `stopAllTransfers`, `cleanUpTransfers`, `terminate` | concurrent requests; check-then-act on the limit; cut-off times computed once | a request ends; a stopped package is not sent; the limit holds |
| `java/faspex/Transfers` | lists of running transfers and of archived summaries, one lock | `addTransfer`, `archiveTransfer`, lookups, purge | some readers skip the lock; a package may be archived by several threads | every registered package is in exactly one list, once |
| `java/faspex/Transfer`, `TransferSummary` | status, package Id, last update; a lock with a condition | `start`, `waitForSignal`, `stop`, `onStarted`, `onFailed`, `onCompleted`, `onProgress` | four kinds of threads write the status; timed wait; stop racing start and completion | no lost wakeup; statuses mean what they say; streams are closed before archiving |
| `java/faspex/FaspexTransferListener` | none | `onTransferEvent`, `onError`, `onDone` | runs on two threads of the library | each event reaches the transfer |
| `java/faspex/FaspexUtil`, `Package` | the items, their contents, open input streams | `addItem`, `retrieveContents`, `createSourceInfo`, `getUniqueName`, `closeContents` | partial failure; name clashes | file names in a package are unique; streams are closed |
| `java/PackageSender`, `SendService`, `Encryption` | the sender, password and nonce in the HTTP session; the secret key | `sendPackage`, `prepareItems`, `validateSenderCredentials`, `refreshNonce` | overlapping sends of a session; the session ends or the key changes meanwhile; the limit of items changes | a nonce stands for the credentials it was made for; nothing the user chose is dropped |
| `java/PackageActionService`, `packageaction/*`, `Util` | each user's stored list of recent package Ids | `get`, `list*`, `stop`, `stopAll*`; add an Id | load, change, save without a lock; the list outlives the server | a sender is recognised as long as the package exists; nobody sees the packages of others |
| `java/AsperaPlugin` | extracted resources | `applicationInit`, `applicationTerminate` | termination while transfers run | no transfer outlives the plug-in |
| `web/Package.js`, `Util.js` | the status of a package in the browser, a poll timer | `send`, `stop`, `refresh`, `watchPackageStatus` | answers out of order; callbacks after errors | the watch ends, and reports the last state |
| `web/SendDialog.js`, `SendAction.js` | the fields of the dialog, its user, the nonce; the configuration as first read | `performAction`, `show`, `send`, `hide`, session and logout handlers | a late answer meets a dialog that was reopened; users take turns | the credentials shown and sent belong together, and to the user |
| `web/ConfigurationPane.js` | four widgets and the configuration string | `load`, `_onParamChange`, `validate` | what is saved is a string written earlier; one of the widgets reports keys only | what is stored is what is shown, and usable |
| `web/../AsperaPlugin.js` | the packages of the last list | `list*`, `get`, `stop`, `stopAll*` on the console | a number names a package; answers in any order | an answer is about the package that was meant |
| `web/nls/*` | the texts, one bundle per locale, flags in the root | merged by the loader | gaps in a translation | what is shown is translated, with the right placeholders |
| templates, styles, resources, build, tests | none | – | – | – |

The Faspex client library (`src/lib/faspex/faspex-client-lite-1.0.2.jar`) and the Content Navigator
API are external: they are modelled from how the code uses them and from what their interfaces
deliver.

How they interact. The browser's `SendDialog` posts a package to `SendService`. Its
`PackageSender` takes the credentials from the body or, by the nonce, from the session, prepares the
items, and calls `FaspexClient.startTransfer`, which registers a `Transfer` and waits until the
library reports that its session started, failed, or until a timeout. The library calls back on two
threads of its own. `PackageSender` then replaces the nonce, adds the package Id to the user's
stored Ids and answers. Stop requests arrive on other service threads and find a transfer by its
package Id. All of them end in `Transfer.onCompleted`, whose callback `Transfers.archiveTransfer`
moves the transfer between the two lists. Meanwhile the browser polls the lists through
`PackageActionService`, which loads, filters and saves the user's stored Ids each time.

## Modules

| module | models | state and actions |
|---|---|---|
| `FaspexClient` | `FaspexClient`, `Transfers`, `Transfer`, `TransferSummary`, `FaspexTransferListener`, the library | `pc` holds the next label of each thread; `status`, `identified` are the summary; `running`, `recentArchives` the two lists; `openContents` the open streams; `session`, `finished` the library; `packageIds`, `target`, `stopped` a stop request |
| `PackageRegistry` | what a lookup may see, the abstract specification of the two lists | one `phase` per transfer: absent, running, archived |
| `PackageStatus` | what a status may do in the eyes of others, the abstract specification of `TransferSummary.status` | `status` of one transfer, whether it has `started`, and whether it is `settled` |
| `ClientLifecycle` | `FaspexClient.getInstance`, `getNewInstance`, `cleanUpTransfers`, `terminate`; the time of the last update | `monitor` is the lock of the class; `client` the singleton; per client the two cut-off times; per request `pc`, the client it `held`, and its transfer's `list`, `status`, `updatedOn` |
| `ClientLifecycleProofs` | – | the invariant and the theorems |
| `FaspexClientInv`, `FaspexClientProofs` | – | the inductive invariant `Inv`; the theorems |
| `RecentPackages` | `PackageActionService`, `packageaction/*`, `Util`, the end of `PackageSender.sendPackage` | `recentIds` is the stored text of each user, `phase` the lists (an instance of `PackageRegistry`); per request `pc`, the loaded `ids`, `rest` and `current` for the loops over Ids, `shown` for the answer |
| `MCRecentPackages`, `RecentPackagesProofs` | – | users of the requests, symmetry; the theorems |
| `PackageWatch` | `Util.js`, `Package.refresh` | `watchTimer`, `pkgStatus`, `progress`, `reported` in the browser; `request` is each refresh under way or the answer to it, `carrying` the answers that hold a progress; `server` the status at the server, `archived` the list the package is in |
| `PackageWatchProofs` | – | the theorems |
| `SendDialog` | `SendDialog.js`, `SendAction.js`, the sending part of `Package.js` | the fields by whether they are filled in, the items, the titles, the button; `action` the actions that wait for the configuration; `pc`, `pkg` each package posted; `startedMessage`, `watched` what follows |
| `MCSendDialog`, `SendDialogProofs` | – | documents and locales, symmetry; the theorems |
| `Messages` | `web/nls/*`, the locales of `dojo-build`, the loader of bundles | no state: the bundle of each locale as a function from its keys to numbers of placeholders |
| `ConfigurationPane` | `ConfigurationPane.js`, and Content Navigator as it opens, saves and closes it | `field` the widgets, `configurationString` what can be saved, `saved` what is stored |
| `PackageConsole` | `AsperaPlugin.js`, and the package service as far as it answers it | `packagesBuffer` the last list, `numbered` what the console printed under each number, `request` what is outstanding and what it is about, `phase` the packages at the server, `wasStopped` those whose status has been STOPPED |
| `MCAdministratorPages`, `AdministratorPagesProofs` | – | both pages of an administrator in one instance; the theorems |
| `SenderSession` | the credentials in `SendDialog.js`, `Package.js`, `PackageSender`, `Encryption` | the fields of the dialog; `credentials` is the session attribute; `header`, `posted` a request, `data` what `PackageSender` works with, `answer` the nonce it returns |
| `MCSenderSession`, `SenderSessionProofs` | – | owners of accounts, symmetry; the theorems |
| `PackageItems` | the items in `SendAction.js`, `PackageSender.prepareItems`, `Package`, `FaspexUtil`, the opening of the streams in `Transfer` | `maxNumberOfItems` is the configuration and `pluginConfiguration` what the browser has read of it; `filenames` grows source by source |
| `MCPackageItems`, `PackageItemsProofs` | – | three documents and their names; the theorems |

The modules meet at these seams. `SendDialog` shows when something is posted and what is left in the dialog,
`SenderSession` whose credentials go with it; both have `show`, `hide`, `send` and the answer as actions.
`ClientLifecycle` has the life of a transfer in few steps, as `FaspexClient` allows it. `SendDialog` extends
`Messages` for the texts it shows. Two abstract specifications stand between the parts, and `FaspexClient`
is shown to implement both, for each of its transfers. `RecentPackages` uses only what `PackageRegistry`
promises: how a package moves between the lists. The server in `PackageWatch` does only what `PackageStatus`
promises: how a status changes while somebody looks at it. A status that is STOPPED is no end in itself: a
stop may come before the session, which then starts all the same (finding 2). `settled` tells the two apart;
in `FaspexClient` it holds once the session was heard of. It does not mean that the session has started, for
an error is heard of as well; that is `started`, a history variable of `FaspexClient` that only `Start`
sets, and only a transfer that has started completes. `SenderSession` and `PackageItems` look at what
precedes `startTransfer`, `PackageWatch` at the browser's view of `status`.

### FaspexClient

Threads and steps. A step is one access to state that another thread can see: a read or a write of
`status`, a block synchronized on `Transfers.lock`, a wait, a signal. The methods of `Transfer`
that several kinds of threads run (`onStarted`, `onFailed`, `onCompleted`, `stop`) are action
operators with the thread, the transfer and the label to return to as parameters. So `onFailed`
is `SetFailed`, `SendSignal`, `CloseContents`, `SetCompleted`, `ArchiveTransfer`, with other
threads in between.

`Transfer.lock` is not a variable: only the request thread keeps it across steps, and
`HoldsLock` reads from its label whether it does. It includes the call of `stop()` from
`waitForSignal`, during which a signal of the library has to wait.

Abstractions. A transfer is a model value; its package Id is the transfer itself once `identified` holds it,
since Faspex Ids are unique. Contents are open or not. One session per package (the library opens one per
transfer spec). The fields of `TransferSummary` are plain, not volatile; the model reads and writes them in
a sequentially consistent order, so it says nothing of stale values that a Java memory model without
synchronization would allow. A condition has no spurious wakeups. `PROGRESS` events change only the time of
the last update, which `ClientLifecycle` has. `getPackageIds` walks a list without its lock and throws when
the list changes meanwhile; the stop request then ends before it has done anything, which is no step of this
module and `HandleFails` of `RecentPackages`.

### ClientLifecycle

`getInstance` is three steps (`GetInstance`, `GetNewInstance`, `CleanUpTransfers`) inside the monitor
of the class, `terminate` is `Terminate`, one `StopTransfer` per Id and `DropClient`. A request goes on
with the client it got outside the monitor, also when that client is dropped. Time is a counter, and a
status or progress takes the current time; the cut-off times are integers, for they lie before the
client existed. Stopping what hangs is one step, as it never happens (below). No duration is negative:
the code takes any int, and the documentation names none of these options.

### PackageRegistry and PackageStatus

`PackageRegistry` has one phase per package, and a step moves one of them. `PackageStatus` has three
actions: `Start` once, not after an end that is settled; `End`, where COMPLETED needs `started`; and
`Settle`. One end may replace another (FAILED by COMPLETED is one that had started before).

### RecentPackages

A request is what one service thread does: `Ask` or `StartTransfer` begins it, `Answer` ends it. Its steps
are the accesses to what other requests share: load and save of the stored Ids, and each lookup under
`Transfers.lock`. A package is looked up among the running transfers and then in the archive, in two steps,
as the code does. The stored Ids are a set: the text joins them with commas, in an order nobody reads.
`NoIds` is the text that is missing before the first save, which `addUserRecentPackageId` expects and
`getUserRecentPackageIds` does not. Loading and saving may fail. So may the start after the transfer was
registered (`StartFails`: a timeout, an interrupt or a failure, while the library may have the package), and
`refreshNonce` after the start (`RefreshNonceFails`: the session has ended, or the nonce cannot be made).
The package of such a request exists and its Id is stored nowhere: it is `unrecorded`, as is one whose Id
could not be saved, and its sender's lists omit it. A browser asks for the Ids it was shown (`answered`,
which `Reveal` adds to). Stopping one transfer is a single step, refined by `FaspexClient`. Packages with an
Id only. `Restart` loses the lists and the requests under way; the configuration is kept by the repository.

### PackageWatch

JavaScript callbacks run to their end, so a callback is a step. `Tick` is the timer, `Serve` the
server handling a request, `Complete` an answer without an error, `Fail` any error. When an answer
has no package in it, `Package.js` calls the errorback and then the callback, and `Complete` does
both. The message of a STARTED package reads its progress (`Util.js:73`) and throws without one. An archived
package has no progress, and one may start in the archive, after a stop that came too early (finding 2).
Then there is no report and no callback, and when it was the first, no timer is ever set: the watch is over.
The set `Requests` bounds how many refreshes are under way at a time; their number over time
is not bounded.

### SenderSession

The password of an account is the account itself, so a password is right when it equals the sender.
Decrypting with another nonce or key gives one of two outcomes. The cipher chains its blocks, so another
nonce garbles the first block only: the padding of a longer password is right, and a wrong password,
`Garbled`, goes on to the Faspex server, which refuses it. Otherwise there is an exception, and the request
ends with an error. The secret key is made anew with the plug-in: `LoadSecretKey` leaves the credentials of
the session without a nonce that fits. The fields other than sender and password are always filled in, so
they do not matter to `IsSendEnabled`. A user types only own accounts, into a dialog opened while that user
is logged in. `Login` sets the user Id anew and `OnLogout` leaves it, as the desktop does. The properties do
not ask whether the user finds the right password; they ask whose it is when it arrives. A request that
ends with an error before anything is sent leaves nothing behind (`Refuse`): no property speaks of it.

### SendDialog and Messages

A callback runs to its end before another, so each is an action. The dialog is modal: while it, or the
message that a package was started, is open, the user reaches nothing below. `dialogUser` is `_userId`
compared with the user of the desktop. `EnterText` with a key runs `isSendEnabled` for the four
required fields; a text that is pasted or dropped is noticed by the next key only. `changed` stands for
the `onChange` of the sender that a widget delays until it is left. Session handlers reset the sender
or not, for whether a nonce is in use is part of `SenderSession`. The open state of the panes, focus
and size are left out.

A text is its key with its number of placeholders. `Messages` has the root and each of the 36 translations
as its file has it: the numbers are written in the order of the keys of the root, with `Gap` for a key that
the file lacks. Only `zh-tw` has gaps, the two texts for the transfer rate. `Flagged` are the locales that
the root announces; `nb` and `zh-cn` are not among them, so the loader never reads their bundles (`Unread`).
`AvailableBundles`, `Source` and `TextsFrom` are what the loader makes of the rest.

### ConfigurationPane and PackageConsole

The pane writes `configurationString` when a widget reports a change: a spinner when it is left, the
URL at a key. `Save` is the button of Content Navigator, which asks `validate` and stores the string.
`HiddenOptions` are read by the server and not shown. The spinners have no maximum: a number above
2147483647 is stored, and refused by the server, which takes the default (`PackageSender.java:220`).

On the console a function posts one request and prints its answer. `Ask` takes the package object at
that time, as the closures of `get` and `stop` do. A package that is stopped may start afterwards and be sent
(finding 2): it is `resumed`, in the archive, where no request finds it to stop it again. The server answers
a stop in two steps, the stop (`ServeStop`) and the question for the status (`ServeStopped`), between which the
package may do so. The Ids of packages are no numbers. The user is an
administrator; who may see what is the subject of `RecentPackages`. The two pages share no state, and
an instance with both would only multiply them: `page` chooses one at the start.

### PackageItems

`Package` groups items in hash sets, so `items` is a set and `CreateSource` takes any element. A
file name is whatever `Numbered` can be applied to: `NumberedAssumption` says that a number makes
another name, and different numbers different names. The streams are opened one by one when the
source list is made; the contents are retrieved before that without opening anything. That they are closed
is part of `FaspexClient`. A maximum of 0 is a maximum for the server, which then drops every item, and
the default for the browser, where it is falsy (`SendAction.js:109`).

## Runs

| run | configuration | instance | shows |
|---|---|---|---|
| transfer | `FaspexClient.cfg` | 1 transfer, 1 stop request | the safety properties over all threads of a transfer; the lists refine `PackageRegistry` and each status `PackageStatus`; requests and stop requests end, accepted packages are archived |
| client_lifecycle | `ClientLifecycle.cfg` | 3 requests, 2 clients, time up to 2 | there is one client at a time; `terminate` archives what it found; the clean-up finds nothing |
| recent_packages | `RecentPackagesSerial.cfg` | 2 packages, 2 users, one an administrator, one request at a time each | nobody is shown packages of others, no existing package is missed by a lookup, forgotten, or left out of a list, unless the request that sent it has failed |
| package_watch | `PackageWatch.cfg` | 2 overlapping refreshes | a watch ends when the package has ended for good, does not begin again, and does not end before a final status is reported unless something failed or the package cannot be reported |
| sender_session | `SenderSession.cfg` | 2 users, 3 accounts, 3 sends, 2 nonces | nobody sends from an account of another user; a nonce stands for the account it was made for, and gives no account away when it does not fit; typed credentials are those used |
| send_dialog | `SendDialog.cfg` | 3 items, 4 fields, 2 waiting actions, 2 packages | what is posted is complete, within the limit and as shown; a started package is watched; in each of 38 locales the texts are translated |
| package_items | `PackageItems.cfg` | 3 documents in 2 repositories, limits 0, 1, 3, 5 of at most 4 | names are unique, an unchanged limit drops nothing |
| administrator_pages | `AdministratorPages.cfg` | 3 fields and 1 hidden option of 2 values; 2 packages, 2 outstanding requests | the pane stores what it shows; the console speaks of the package that was meant, and calls stopped what was stopped |
| limit_exceeded | `LimitExceeded.cfg` | 2 transfers, limit 1 | finding 1 |
| stopped_is_sent | `StoppedIsSent.cfg` | 1 transfer, 1 stop request | finding 2 |
| own_package_is_lost | `OwnPackageIsLost.cfg` | 2 packages, 2 requests of one user | finding 3 |
| hanging_are_stopped | `HangingAreStopped.cfg` | 2 requests, 1 client | finding 4 |

Bounds.

- Transfers share only the two lists, so one transfer with all its threads shows every race on a status.
  Several transfers meet at the limit, which only the run limit_exceeded has; that the lists stay an
  abstract registry with any number of transfers is proved. A stopper serves stop requests one after the
  other without bound. No counter is bounded: `recentArchives` never exceeds 2, which the model checker
  finds by itself.
- Two packages are what it takes for a save to lose one Id while another is added. Requests have no
  bound in number; each of the two may run any action again and again.
- Three sends and two nonces: the first send makes a nonce, the second replaces it by typed
  credentials, the third comes with the old one.
- Three requests: one is constructing or cleaning up while another holds the client and a third
  comes after `terminate`; two clients: the one that is dropped and the next. With a timeout of one tick
  and a clock of two, a transfer may hang for longer than its timeout.
- Two actions wait for the configuration so that the second opens an open dialog; two packages are
  posted so that the answer to the first meets the draft or the message of the second. One of the
  package fields is required and one is not. The selections have too many items, enough, one that cannot
  be exported, and one without content.
- Two spinners, because one that is edited must not change the other, and a value other than the
  default. Two console requests, so that a list is answered between a stop and its answer.
- `d` and `g` have the same file name, and `e` the name of `d` with the number 1, so that
  numbering a clashing name clashes again. A maximum of 5 is beyond `IntegerMax` and stands for a
  value that `Integer.parseInt` refuses; a selection of 3 meets a maximum below, at and above it, and 0.
- The locales are those of the build, and two without a bundle of their own: `en` and `de-at`.

Deadlock checking is off where the system really stops: the server is idle when all requests have
ended, a watch that has ended does nothing, the sends and the nonces of a session are used up, a
package has been sent, the packages of a dialog are posted, the clock has stopped, all packages of the
console are forgotten. `RecentPackages` has no such state and is checked. Symmetry permutes
packages, requests and nonces, in runs without liveness.

Properties.

- `RegistryIsPartition`, `IdentifiedArchivedOnce`, `ImplementsRegistry`: `onCompleted` runs on up
  to four threads and before the package has an Id, and still each package is found in one list.
- `ImplementsStatus`: four kinds of threads write the status; still it starts at most once, never after it
  has completed, failed, or been stopped once its session was heard of, and completes only when it has
  started.
- `NoLostWakeup`: the status is written outside the lock of the condition. What saves the
  request is the order, status first and signal second, and the lock around check and wait. A
  stop does not signal: a request that is stopped from outside waits for its timeout.
- `ReturnsIdUnlessFailed`, `CompletedWasInSession`: what a caller may conclude from a normal
  return and from the status COMPLETED, although `onCompleted` and `stop` overwrite statuses.
- `ArchivedContentsAreClosed`: no input stream is left open behind a transfer that was archived.
- `StartEnds`, `AcceptedIsArchived`, `StopEnds`: nobody waits for ever; the place of an accepted package
  below the limit is freed, unless its session hangs: no property says that it does not (finding 4).
- `SentIsFound`, `GetFindsExisting`: lookups in two steps, with the archive
  second, miss nothing that moves in between. The other order would.
- `OwnPackagesOnly`, `OwnPackageIsValid`, `ListIsComplete`: the stored Ids are a cache of what the user
  has sent. They never hold the packages of others, whatever requests interleave; they hold all the
  existing ones but those that are `unrecorded`, as long as the requests of one user do not overlap
  (finding 3 when they do).
- `EndedIsForGood`, `WatchEnds`, `EndIsReported`: late answers do not restart a watch; the
  timer does not run for ever once the package has ended for good; no watch ends before the user is told
  of an end, unless something failed or the package started in the archive and has no progress to show.
- `SentForOwnUser`: users take turns at a browser in which the dialog is created once.
- `NonceStandsForOne`, `NonceIsAccepted`: sends overlap, and the session holds the last credentials only.
  A request that comes with a nonce and is passed to the Faspex server has the password of its sender, or a
  garbled one, and that only when the nonce is not the one of the session.
- `TypedIsSentAsShown`: credentials that were typed win over those of the session, also when an old
  nonce comes with them.
- `PostedIsComplete`: the state of the send button is stale after an answer, a lost session or a login of
  somebody else, and `send` checks again. `PostedAsShown`: an action that waited may replace the items
  of an open dialog, and then the message as well.
- `ClosedIsEmpty`, `TitlesAreCurrent`, `StartedIsFollowed`: answers arrive when the dialog is
  closed, open again, or covered by the message of another package.
- `TextsAreTranslated`: in each locale the dialog shows the texts of the most specific bundle of that
  locale, with as many placeholders as the code passes. `nb` and `zh-cn` are excepted by name: their users read
  the texts of the root, and of `zh`.
- `StringIsCurrent`, `SavedIsValid`, `UneditedIsKept`: what is validated are the widgets, what is
  stored is a string written before. What is stored has the numbers that are shown, which the spinners
  accept; whether the server can use them is another question.
- `NumberMeansListed`, `ToldStoppedWasStopped`: lists that are answered between a
  question and its answer renumber the packages; what is said to be stopped has had that status, and
  may be sent all the same.
- `ClientIsShared`: two clients at a time would count transfers separately. `TerminatedAreArchived`:
  transfers go on while they are stopped. `CleanUpFindsNothing`: see finding 4; the archive is never purged.
- `NamesAreUnique`: the fallback of `getUniqueName` to the clashing name is never reached.
- `NothingIsCutOff`: the limit of the browser and that of the server agree, except when the
  configuration changed in between or is no int.

Fairness. In `FaspexClient`: weak fairness for every thread that has started (the JVM runs runnable
threads), for the timed wait (`await` with a timeout ends) and for the library's answer to a spec request.
None is assumed for the arrival of requests, for interrupts, for the events that announce a session (a
server that never reports a start is the reason for the timeout), or for its end: sessions hang, which is
why `stopHangingTransfers` exists. `AcceptedIsArchived` has the end of the session as its hypothesis
instead. A package that hangs is never archived, and by finding 4 nothing stops it: it keeps its place below
the limit. In `PackageWatch`: the timer fires again and again (`setInterval`), a posted request is served,
and an answer arrives unless it is lost; losses need no fairness, nor does the end of the package.

## Findings

Each is a run that the model checker refutes, with the line of the repository that it contradicts
in `PROJECT.json`.

1. *The limit is checked, then acted on.* Two requests read the number of running transfers before
   either registers its own; the limit of `SendService` is exceeded.
2. *A stopped package is sent.* `Faspex.stop()` cancels the sessions that exist. A stop between
   the package Id and the session reports success and the package is sent.
3. *A sent package is forgotten.* Two requests of one user load the stored Ids, one adds a package
   and saves, the other saves what it had loaded. The sender is then denied the package.
4. *Nothing is cleaned up.* The cut-off times are points in time that the constructor computes. A
   transfer that hangs is never older than they are, so it is not stopped, and no archive is purged.

Observed while modelling, without a run of their own:

- Server. A transfer whose start throws stays PENDING in the running list and takes up a place below the
  limit (`PrepareContentsFails`, `SendPackageFails`); when one of several streams cannot be opened,
  those opened before it stay open (`CreateSource`). A start whose failure arrives before the request
  begins to wait returns as if it had succeeded (`CheckPending`). A transfer that is registered, or gets
  its Id, while `terminate` runs or afterwards outlives it. The first request of a user who has never sent
  anything fails, also for an administrator (`ExecuteFails`). The request of a session that ends while the
  transfer starts fails although the package is sent, and no list of its sender has the package
  (`RefreshNonceFails`).
- Dialog. While the password field holds a nonce, the sender field may be edited and the package is sent
  from the account of the nonce (`SendDialog.js:241`). Two clicks on the send button send two packages by
  the same nonce (`Send`). The answer to an earlier send closes a dialog that was opened again
  (`OnPackageStarted`). Items beyond a maximum that was lowered meanwhile, or that is no int, are
  dropped silently (`PrepareItems`).
- Watch. The status in the browser may go back from a final one to STARTED when answers overtake each
  other, and after an answer without a package both callbacks run (`Complete`). A package without
  progress whose status is STARTED lets `_getProgressPercentage` throw, and ends a watch at its first
  answer, untold (`MessageThrows`).
- Pane. Any edit, and loading other values than those of the widgets, drops the options that the pane
  does not show. A URL that is cleared or pasted without a key is not noticed: what is stored then differs.
- Console. The numbers that `stopAll` prints name packages of the list before. `get` prints the old fields
  when the server knows the package no longer. A list request that the server failed to serve empties
  the buffer (`ServeFails`).
- Texts. `nb` and `zh-cn` have bundles that no flag in the root announces, so that they are never read. For the
  transfer rate, users of `zh-tw` read the text of `zh` on the configuration pane.

## Proofs

Every statement below holds for all values of the constants that satisfy the named assumptions.

**`FaspexClientProofs`**: for any number of transfers and stop requests and any limit, `Inv` is an invariant
(`Invariance`), each safety property follows, and the specification implements `PackageRegistry`
(`Refinement`) and `PackageStatus` (`StatusRefinement`). The only assumption is `ConstantsAssumption`: the
limit is a natural number, and null is no transfer. The properties are not inductive. `Inv` adds what
relates the threads of one transfer: the spec thread runs only after the request has sent the package, a
session exists only after the package Id, stop requests only meet identified transfers (`ThreadOrder`); a
second summary can only be archived while the transfer has no Id, and only after a timeout (`ArchiveOrder`);
a status other than PENDING has a thread behind it (`StatusOrder`); a waiting request that is not about to
be signalled is pending or stopped (`WakeupOrder`); contents are closed at the labels behind `closeContents`
(`ContentsOrder`). The lemma `AtAfterGoto` says that a step of one thread moves only that thread; each
action has a step of its own; the parts of `onCompleted`, which all threads share, are proved once for an
arbitrary thread (`CloseContentsStep`, `SetCompletedStep`, `ArchiveTransferStep`). `StatusRefinement` maps
every step to a step of `PackageStatus` or a stutter. It needs `StartInv` besides: until the session is
heard of, the status is PENDING or STOPPED and no thread is about to set another. The thread of the session
writes STARTED only then, which is the guard of `Start`. That what completes has started, the guard of
`End`, is the part of `StartInv` about the history: a transfer whose status is STARTED, or which a thread
has read to be started and is about to complete, is in `started`.

**`RecentPackagesProofs`**: `Inv` holds for any users and requests, however they interleave. What makes
`OwnPackagesOnly` inductive is `SentOrder`: everything stored or loaded for a user was sent by that user, so
overlapping saves lose Ids but never mix users. `LookUpOrder` says that what the first of two lookups saw
stays true, since packages only move from running to archived; the lookup properties and `GetSafety` follow.
`SerialSafety` needs the additional assumption `Serial`, one request per user at a time, which is a
hypothesis of the theorem: then `SerialInv` keeps in the stored Ids the existing packages of the user, but
for the one being added and those that are `unrecorded`. `ListSafety` has the same hypothesis: only `List`
and `Restart` end a list request that is being handled, the Ids it works with are the stored ones, and
packages have moved between the lists but not out of them.

**`SenderSessionProofs`**: the invariant has three parts, for the session (its credentials were
accepted and its nonce was made for their sender), the dialog (fields belong to the user it was
opened for, a nonce in it was issued) and each request. A step changes one request at most, and
`OtherRequest` carries the rest over. That a nonce is issued once is what `NonceSafety` rests on.

`TypedSafety` needs an invariant of its own: a request that was posted with a password keeps the
credentials of its body, whatever is populated from the session. `AcceptanceSafety` is an action property:
when data are passed to the Faspex server (`HandedOn`), a garbled password among them comes from a request
whose nonce is not that of the session; nothing is assumed of what decryption by another nonce gives.

**`PackageItemsProofs`**: `NameSafety` is a pigeonhole argument: as many numbers as there are names
give as many different names, all other than the clashing one, so one of them is free (`FreeNumber`,
`UniqueName`), and appending it keeps the list injective. `LimitSafety` is proved as an action
property from the invariant that a selection in the dialog was within what the browser had read.
`TypeCorrectness` follows from the same invariants.

**`ClientLifecycleProofs`**: for any requests, clients and durations of `LifecycleAssumption`. The
invariant says who is in the monitor at which label (`MonitorInv`) and that the current client is the only
one constructed and not terminated (`ClientInv`, for `SharedClient`); that the cut-off times of a client lie
neither after the clock nor after any update of its transfers (`TimeInv`, for `CleanUpIsIdle`); and that
what `terminate` has read is still in `left` or no longer running (`StopInv`, for `TerminationArchives`).

**`SendDialogProofs`**: for any finite set of items and any fields, actions and packages. `ItemsInv` ties
the items of an open dialog to its message and to the limit. `AnsweredInv` is what `FollowSafety` needs: a
package is only posted while no message is shown, so the package of a message that gives way was not
answered when the other was posted. The action properties follow since only `Send` posts (`PostingStep`).
The texts are a matter of finitely many files and stay with the run.

**`PackageWatchProofs`**: the type invariant, `EndedIsForGood` and `EndIsReported`, for any number of
refreshes. The last rests on `BrokenInv`: as long as nothing has failed the desktop is connected, the
server knows the package, and every answer under way has its status. The first callback that throws leaves a
package that cannot be reported, which is the exception that the property names.

**`AdministratorPagesProofs`**: the pane for any options and values of `PaneAssumption`, the console for any
finite set of packages and any requests. `KeepingSafety` needs `AbsentInv`: the string of an open pane
lacks an option only when the stored configuration does. For the console, `ConsoleTypeOK` says that what was
printed under a number is the package in the buffer under it; `AskedInv` that a request still holds the
object it was made for, whatever the buffer holds now (`NumberSafety`); `HistoryInv` and `StoppedInv`
that a package reported as stopped was meant, and has been stopped (`ToldStoppedSafety`). Each action supplies
the new record of one request to the lemma `RequestStep`.

The type invariants of all modules are theorems, which the runs do not repeat.

Only model-checked: the liveness properties (the prover has no fairness), and the findings, which are
counterexamples, and `TextsAreTranslated`. Every other property of a run is a theorem. `OwnPackageIsValid`
and `ListIsComplete` are theorems under `Serial`; without it finding 3 refutes the first.

## Plan

The modules were written in this order: the core of the server (`FaspexClient`, `PackageRegistry`), the
users' Ids, the watch, the credentials, the items, the life of the client, the dialog and its texts, the
pages of the administrator. What could follow:

1. An abstract specification of sending (a package is accepted once, from one sender, with a set of
   items), with `SenderSession`, `SendDialog` and `PackageItems` shown to implement it.
2. `RecentPackages` against an abstract specification of what a user is promised, under `Serial`.

## Not modelled

`AsperaPlugin` extracts and deletes files. Templates, styles, build files and tests hold no state of the
running system. JSON, logging, layout, focus and the wording of messages are left out throughout.
