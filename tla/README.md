# Verification of on-n-off

on-n-off is a Tauri 2 desktop application: a Rust core (`src/src-tauri/src`), a
React interface (`src/ui`) and a Swift helper for the macOS notch.  It reads and
edits the configuration of coding agents, shows how much of each subscription is
used, and switches the account an agent's command line is signed in to.  This
directory holds TLA+ models of its stateful core, the TLC runs that check them on
small instances and the TLAPS proofs that some of what the runs check holds for
every instance.

Run anything from this directory:

    tlc -workers 2 -config AccountSwitchClaude.cfg ClaudeSwitchMC
    tlapm AccountSwitchProofs.tla

Source paths below are relative to `src/src-tauri/src` unless they start with
`docs/`.

## 1. Inventory

| Part | State it keeps | Operations | Hard because |
|---|---|---|---|
| Account activity guard (`accounts/activity.rs`, `file_lease.rs`) | per provider: a counter of reads and a "switching" flag in the process, a shared or exclusive file lease between processes | `read`, `change`, the two drops | flag and lease are taken and given back in separate steps, by threads of several processes; a refusal in the middle must undo the first half |
| Account transaction (`accounts/transaction.rs`, `accounts/mod.rs`) | a recovery journal in the vault, the native store of the provider | use, recover, sign out, save current, remove | every step can fail or be the last before a crash; the provider's own client renews logins meanwhile; the user signs in from a terminal |
| Account vault (`accounts/store.rs`, `vault.rs`) | `vault.enc`: profiles, removed accounts, journal, sign-in epoch, categories | `change`, `publish` under a ticket, `save`, `capture_native`, `remove_profile` | edits of several actors, admitted by what the file holds when it is opened |
| Native adapters (`claude.rs`, `claude_store.rs`, `codex.rs`, `muse.rs`, ...) | where each provider keeps its login | `lock`, `read`, `write_locked`, `verify`, `logout` | Claude's login is two files under directory locks that go stale; Codex takes no lock at all |
| Account homes (`accounts/homes.rs`) | a private configuration directory per waiting Claude or Muse account | `check_out`, `check_in`, `settle`, `take_back_or_tear_down`, `retire` | a login must live in exactly one place a client can renew it |
| Sign-in (`accounts/login.rs`) | the registry of running sign-ins, cancellations | start, cancel, publish, recover abandoned | a cancellation races a publication; an account change makes a sign-in void |
| Discovery (`accounts/discovery.rs`) | a setting, a notice | poll: save a native login that changed | reads, verifies and publishes in three steps |
| Clients (`accounts/clients.rs`) | none | list running clients of a provider | checked, then used |
| Usage and private renewal (`accounts/usage.rs`, `usage_renew.rs`) | renewal journals and their lease, back-off | refresh usage of saved accounts, renew an owned login | a refresh token is spent at the issuer before the vault knows the next one |
| Limits refresh (`limits_refresh.rs`, `read_revision.rs`) | a cached card per account, the native state, revisions | read, relist, spend a reset, forget an account | shared reads, cards kept over a failed read, an account change in between |
| Limits monitor, reset alerts (`limits_monitor.rs`, `reset_alert.rs`) | previous reading, alert state on disk, a queue of due spends | poll, observe, confirm, spend | an alert once per cycle, across restarts and late or doubtful readings |
| GitHub (`github/`, `github_monitor.rs`) | answers remembered, notified pull requests on disk | read, merge, notify | a merge settled against reads that began before it |
| Usage files (`usage/`) | counts per transcript file | count, fold, forget | files counted without a lock while they grow |
| Configuration (`change.rs`, `config_io.rs`, `backup.rs`) | agents' files and their backups | preview, apply, undo | check, then act on files other programs write |
| Side notch (`side_notch/`, the Swift helper) | what was read, when, for which revision | poll, finish, abandon | a read abandoned at its deadline may still answer |
| JSON line sessions, monitors (`json_line_session.rs`, `monitor.rs`) | pending requests of a child process, a wake-up channel | request, reply, deadline, close | a reply and a deadline at once |
| Item install, drift, adapters, scanner, live sessions, limits readers | none that outlives a call | copy, compare, parse | formats, not protocols |
| Shell (settings, hooks, tray, HTTP), React interface, scripts | views and settings | | no protocol of their own |

How they interact.  The interface calls commands; `Accounts` takes the activity
guard of the provider (`change` for an account change, `read` for anything that
reads its native login), opens the vault under a file lease, and edits it through
`change_then` or `publish_then`, which write the file and then hand the open store
to a continuation: `transaction::activate`, `transaction::recover` or the
adapter's `logout`.  The continuation persists further states through a callback,
and reads and writes the native store through the adapter.  Usage polling,
discovery and sign-ins run on threads of their own and publish under a *ticket*,
which the vault refuses once an account change came in between or while one waits
for recovery.  Limits refreshes hold the read guard and are told of account
changes through `read_revision`.  Around all of it run programs nobody here
controls: the providers' clients, which renew the login they find, and the user in
a terminal.

What makes each part correct:

- guard: a change is alone, no refusal leaves it engaged, a change always ends;
- transaction: no usable login is lost, the native store is never a mixture of two
  accounts unless a journal says so, an interrupted change can be recovered, and
  recovery never writes over something newer;
- vault: an account's profile holds that account's login; a removed account stays
  removed;
- homes: a login is renewable from one place only;
- sign-in: a cancelled or outdated sign-in never publishes;
- private renewal: a token is spent once, and what it was exchanged for is kept;
- limits: a card never shows another account's reading, an old reading never
  replaces a newer one;
- reset alerts: each reset is announced at most once and only when confirmed;
- GitHub: a merged pull request does not come back, a notification is not repeated;
- usage files: a file is counted once;
- configuration: an undo restores what was there, and nothing newer is overwritten.

## 2. Modules

| Module | Models | Run | Proved in |
|---|---|---|---|
| `NativeAccess` | nothing of its own: what `activity.rs` promises its callers | as `PromiseKept` | `ActivitySessionProofs` |
| `AccountActivity` | `activity.rs`, `file_lease.rs` | `activity_session` | `ActivitySessionProofs` |
| `AccountVault` | the edits of `store.rs`, of `login.rs` `publish` and of `mod.rs` `sign_out`, as operators on a database value | through `AccountSwitch` | through `AccountSwitchProofs` |
| `AccountSwitch` (extends `AccountVault`) | `transaction.rs`, its callers in `mod.rs`, `homes.rs` `check_out`, the adapters, the publications beside them, clients, user, crashes | `switch_claude`, `switch_codex`, `switch_label`, `switch_pending` | `AccountSwitchProofs` |
| `ClaudeLocks` | the lock directories and the two stores of `claude_store.rs`, `keychain.rs`, `claude.rs` | `switch_claude` | `AccountSwitchProofs` |
| `AccountHomes` | `homes.rs`, its callers in `usage.rs` and `mod.rs` | `usage_accounts` | `SavedLoginsProofs` |
| `SignIns` | `login.rs`, the tickets of `store.rs` | `usage_accounts` | `SavedLoginsProofs` |
| `PrivateRenewal` | `usage_renew.rs` `renew_owned` and `activation_ready`, its caller in `usage.rs`, what changes the profile beside them | `activity_session` | `ActivitySessionProofs` |
| `LimitsRefresh` | `limits_refresh.rs`, `limits_refresh/account_actions.rs`, what `limits/` writes for them | `limits`, `limits_listing` | `LimitsRefreshProofs` |
| `ResetAlerts` | `limits_monitor.rs`, `reset_alert.rs` | `alerts`, `alerts_fresh` | `ResetAlertsProofs` |
| `GithubReads` | `github/` | `github` | `GithubNotchProofs` |
| `GithubMonitor` | `github_monitor.rs`, `monitor.rs` | `github` | `GithubNotchProofs` |
| `NotchHost` | `side_notch/host.rs`, `transport.rs`, `host/app.rs` | `github` | `GithubNotchProofs` |
| `UsageFiles` | `usage/files.rs` and the stores of `usage/` | `usage_accounts` | `UsageFilesProofs` |
| `JsonLineSession` | `json_line_session.rs` | `activity_session` | `ActivitySessionProofs` |
| `ConfigChange` | `change.rs`, `config_io.rs`, `backup.rs` | `switch_codex` | `FileChangesProofs` |
| `ItemInstall` | `item_install/` | `switch_codex`, `items_source` | `FileChangesProofs` |

The `*MC` modules instantiate them for TLC.  `ActivitySessionMC`, `ClaudeSwitchMC`,
`AccountFilesMC`, `GithubNotchMC` and `UsageAccountsMC` put two or three modules in
one run.  The parts share no variable, and a variable `part`, chosen in the initial
state and constant from then on, says which of them moves while the others stay at
one initial state; so the state space is the sum of the parts', not their product,
and a property of one part is checked on all of its behaviours.  Fairness is
conditional on `part` or is about actions that are disabled while a part rests.

### AccountActivity

`count` and `switching` are `ACTIVITY` and `SWITCHING` of each instance, `shared`
and `exclusive` the threads whose open file holds the lease.  `pc` is where a
thread stands: the in-process test and mark are one step because they run under
the `ACTIVITY` mutex (`CountRead`, `FlagChange`); asking for the lease is another
one (`LeaseRead`/`RefuseRead`, `LeaseChange`/`RefuseChange`); a guard's drop runs
its own `Drop` first and its lease field's after (`DropRead`, then `UnleaseRead`).
`Crash` kills one instance at any point: its statics start over and the operating
system gives back its locks.  One provider is modelled; providers share nothing
but the mutex.  `NativeAccess` is the specification of what a caller sees of all that:
readers share, a changer is alone.

### AccountVault and AccountSwitch

One provider, one account change at a time (that is what `AccountActivity`
establishes), and everything that is not excluded.

`disk` is `vault.enc`; `mem` is the `Database` the running operation holds.  A
profile is named by its account, since the vault never holds two profiles of one
identity.  A *token* `[of, gen]` is the refresh token inside an auth document:
whose login it is and which generation.  The native store is `tok` (credentials)
and `label` (the account named beside them, Claude's `oauthAccount`); a login read
from it carries both.  `identify` reads the name and never the token, so the model
can tell "named A" from "signs in as A", which is what several properties are
about.  For Codex, whose file holds both, the two are always written together.
`live` is the set of tokens the issuer still accepts: a renewal spends the old
one.  `home` is the login in each waiting account's home.

`pc` follows `activate`, `settle_outgoing`, `recover`, `restore_known` and
`finish`, stopping wherever the code reads, writes or persists:

| `pc` | Next thing the code does |
|---|---|
| `empty` | `CheckedOut::empty` |
| `activate` | lock, read, decide, capture (`transaction.rs` 66-102) |
| `begin` | persist the journal (103) |
| `settle`, `unsettle` | `settle_outgoing` (104), or clear the journal when it fails (105-106) |
| `label`, `auth` | `write_locked`: Claude's account name, then the credentials |
| `readback`, `verify`, `confirm` | 112-133 |
| `restore` | `restore_known` (251-266) |
| `recover`, `reverify`, `reread` | `recover` (223-246) |
| `finish` | clear the journal durably (143-150, 283-288) |
| `forget`, `logout` | the two halves of `sign_out` |

`undo` says that the write goes back rather than forward, `locked` that Claude
Code's own locks are held.  `FailForward` is any error of a forward write,
readback or verification; `Interrupt` is a crash at any step as well as every error
that only returns, since both leave exactly what reached the disk and the native
store.  `SaveCurrent`, `Remember`, `Remove` and `SignIn` are the publications that
can happen between changes; `Remove` and `SignIn` also run at `forget`, because
`sign_out` reads the native login before it takes the vault's lease.

The world outside: `ClientRenews` (not while Claude's locks are held; Codex takes
none), `HomeRenews` (Claude Code asked for the usage of a waiting account),
`UserSignsIn`, `UserSignsOut`, clients starting and closing at any time, also right
after they were checked.

Two instances: `ClaudeCode = TRUE` is Claude Code (two-part store, locks, homes,
clients that read the store on each request so a switch may run beside them);
`ClaudeCode = FALSE` is Codex (one file, no locks, no homes, clients that keep the
login in memory, a switch *alongside* them on request, and private renewal).  Muse
has no renewal, homes and one file: its steps are a subset of the two and it has no
instance of its own.

Abstractions, all of them: labels, e-mails, categories, dates, sealing and
fingerprints of the vault are left out; `ignored_credentials` is left out (a
credential refused by its fingerprint is one the model's `Remember` may still save,
so the model allows more); `login_epoch` is left out because a change and a
sign-in's publication are never in progress at once in the model;
`activation_ready` is `Ready` of `PrivateRenewal`; the journal is shared by
all providers in the code, here there is one provider, so no change is refused on
account of another one's recovery; a removed account's home is emptied at once
instead of by the next `settle`; what Codex's two checks of a client about to renew
narrow but do not close (`docs/architecture/accounts.md` 660-668) is taken as
closed: a Codex client does not renew between the last check and the write.

### PrivateRenewal

One saved profile whose login the app renews itself (Codex), and every running
instance of the app that polls it.  `profile` is its entry in the vault, `journal`
the encrypted renewal record, `lease` the renewal lock of the profile.  A login is
known by its refresh token, a number in the order the issuer gave them out.  Three
variables have no counterpart in the code and say what the outside world knows:
`sent`, how often the app asked the issuer with a token; `shared`, the tokens a
native client ever had; `minted`, those given out.

`pc[a]` follows `renew_owned` in instance `a`, stopping wherever it drops the
vault's lease, writes a file or waits for the issuer:

| `pc` | Next thing the code does |
|---|---|
| `idle` | `refresh_profiles` finds the login due or refused (`usage.rs` 169-213) |
| `polled` | ticket and leases (`usage_renew.rs` 129-139) |
| `leased` | look at what an earlier renewal left (141-149), else write the intent (151-154) |
| `intended` | the request (155): answered, or lost with the token spent or not |
| `answered` | write the reply (156-160) |
| `replied` | publish under the ticket (165-173) |
| `published` | delete the journal (174) |

`Interrupt` is an error or the end of the process at any of them.  The actions of
the rest of the app are the publications of `AccountSwitch` seen from this profile:
a switch to it (`BeginSwitch`, `WriteNative`, `FinishSwitch`, `FailSwitch`,
`RecoverSwitch`), `SignOut`, `SignIn`, `Remove`, `SaveNative`, and the change of
another account (`OtherBegins`, `OtherEnds`), which matters because the vault has
one recovery journal.  A switch to this profile starts only while no instance polls
it, and a poll only while no change runs: every limits refresh holds the read guard
(`limits_refresh.rs` 266).

Where the model allows more than the code: `SaveNative` may save any token a client
ever had, and is not held off by a poll; the change of another account is held off
by no poll, as if it were always another provider's; the end of a switch saves
whatever a client's store may hold.  Left out: an answer for another account
(162-164), whose error leaves the journal as a failed publication does; the usage
read before and after the renewal and the back-off between polls; archived
accounts, which are not polled; and `finished`, `forget` (homes).

### AccountHomes

One account's login on its way between the vault's profile, the home it waits in
and the native store.  Logins are numbered as the issuer gives them out; `live` are
those it still accepts.  `pc[p]` follows a program's `settle`: `ReadNative` (the
identity read before the vault is loaded, `usage.rs` 145), `List`, `Load`,
`Unnamed`/`TakeBack` (`take_back_or_tear_down`), `CheckIn`/`Put`/`TakeOut`
(`check_in`), `Poll`/`HomeRead`.  Beside it switches (`CheckOut`, `EmptyHome`,
`Activate`, `FailUse`, `SwitchAway`), sign-outs, sign-ins, removals (`Forget`,
`Retire`), the user, the client that renews, and `OldVersion`: a version before
homes that drops the field it does not know, once, and only with no other home left.
`overtaken` marks the races of section 4 (5, 6), after which `OneCopy` and `LoginKept`
promise nothing: a save between the look at the native store and the load of the vault
(`Overtakes`); a put that replaces what a home holds after another program moved the
login (`MovedBefore`); a home read that renews a login the account is also reached
through elsewhere (`HeldTwice`).  With one program only the first can happen (TLC, outside
the runs).  Left out: which provider a home is of (all are of one), archived
accounts, and renewals an earlier version left unfinished.

### SignIns

`active` and `canceled` are the registry; `ticket[s]` is the epoch a sign-in took
from the vault and `epoch` the vault's.  `stage` follows `run`: `Reserve`, `Begin`
(the ticket), `Run` (the official client), `Commit` (the checks of `publish`, which
holds the vault's lease and the registry until it has saved), `Saved`.  `Cancel`
and `CancelExpected` come at any time, before their sign-in too; `Remove` cancels
and then changes the vault, `Change` is any other account change.  Left out: the
private directory and the recovery of an abandoned one; a sign-in that saved its
login ends there and then.

### ClaudeLocks

`dir[p]` is the age of a lock directory, `holder[w]` what a writer (the app, Claude
Code) is doing: the locks it takes one after the other (`Take`, and `Break`/`Retake`
for a stale one), what it read (`ReadStore`), `CheckLost`, `CommitDocument`,
`Release`; `Die` at any step.  The Keychain's item and the file are `stores`; `Deny`
closes the Keychain.  A step of time is several heartbeats: a holder that runs
touches what it holds in each.  The heartbeat notices a directory that is gone, not
one that somebody made again; `Release` removes directories whoever made them.  The
three outer locks of the configuration file are one with the refresh lock.  Left out:
a machine that is suspended, whose locks then look stale.  `ChangesKept` says nothing
once a lock that was not stale was broken (`doubly`), see section 4 (10).

### LimitsRefresh

`cache` is `Cache.read`, `lock` the thread that holds it across its provider and
network calls, `work` the read under way, `listing` the roster and its reread count
under a lock of their own.  `th[t]` is the call of a thread and the place where it
stands.  `readers` and `changing` are `AccountActivity` seen from one provider.  A
card is known by its account, a roster by the vault write it was read after, a time
by its age.  A read is `Enter`/`Refused`, `ServedFromCache` or `Look`, `Answer`,
`ListSaved`, `PollSaved`, `KeepListed`, `Store`, `AnnounceRead`, `Served`; the calls
that edit what reads share are `Switch`, `SaveCurrent`, `SignIn`, `RemoveProfile`
(then `Clear`, `Reread`, `Relist`, `Tell`), `Discover`, `Remove`, `Archive`,
`Unarchive`, `Forget`, `Spend`.  `Outside` is a login by another program, `Tick` time.
`since`, `cleared`, `gone` and `asked` are ghosts of the properties.

### ResetAlerts

The loop is `Loop`: wake, read the card of the shared cache, plan under the queue's
lock, save, then tell and schedule (`commit`), then spend what fell due.  The user
sets alerts, cancels a scheduled spend and spends by hand; other surfaces read the
same card (`SharedRead`), accounts change (`BeginChange`, `EndChange`), the limit is
used, renewed or lapses, `Crash` at any point.  What is left of a limit is one of
three levels; the reset time of a cycle is reported as one of two numbers, since it
differs a little between answers.  Time is in ticks of five minutes.  Left out: a
worker that panics under a read.

### GithubReads, GithubMonitor

`GithubReads` follows one pull request of somebody else on one branch the viewer
pushed, through `Search`, `Gather` (the contributions record), `Settle` (with the
save).  `memory`, `record` and `snapshot` are what survives a read in memory and on
disk.  GitHub moves on between two requests (`Moves`, `Pushed`, `Lost`); the login of
`gh` changes; a request, a save or the process may fail at any time.  Left out: the
token and the pauses of the connection, the scope, the window in which a read is
answered from memory, and the older rows a failed read shows.

`GithubMonitor` follows one pull request of the viewer: `Poll`, `Advance` (compare,
save), `Tell`, `Restart`.  Every fact carries the number of the change that gave it
its value, so that telling one change twice differs from telling two changes.  Left
out: delays, back-off and sounds.

### NotchHost

`at` is the part of the host's step that comes next (`HostStep`); the threads that
read, the settings screen, the helper and time move between any two parts.  A
reading is the revision it was taken at, settings the revision they were saved as.
The polls of the host are alike and there is one.  Left out: displays (so a reread
after a change of screens that races a save), the error of a failed action, refresh
intervals, the heartbeat.  `SetShow` saves the host's own settings and may overwrite
a save of the interface that was not handed over yet.

### UsageFiles

`main`, `bak`, `index`, `scan` and `summary` are the stores, `files` the
transcripts.  A summary takes the lock, walks, drops the lock while it counts
(`Summarise`, `Read`) and takes it again to store (`Store`); the fold (`StartFold`,
`Fold`) moves old records into the rows; `Clients` write, copy and delete transcripts,
`Lock` makes one unreadable, `Damage` spoils a store, `Crash` at any point.  A record
is the day it was written on, one a day.  Left out: the window of a summary (it covers
every day), prices, slots, and the generation of the index, whose entries decide.
The stores change only by the app under its lock, a walk sees the transcripts at one
moment, and no midnight passes under the lock.  A fold may use an older cached parse
of a transcript it cannot open without waiting; the model has it so.

### JsonLineSession

The caller (`Start`, `CallerSteps`), the thread that reads (`ReaderSteps`), the CLI
(`Hear`, `Say`, `Exit`) and the deadline.  The queue and the pipe are bounded.
`finish` kills the CLI, waits for it and joins the thread.  Left out: the error
output, a CLI that cannot be started, what requests ask, requests longer than the
pipe.  A pipe closes when the CLI ends, see section 4 (7).

### ConfigChange

One file of one provider.  `doing[c]` follows `Changes::make` under the provider's
turn: `TakeTurn`, `BackUp`, `ReadDocument`, the replacement (`RemoveOld` and
`Rename`; on Windows the old file is removed first, `RemovesFirst`) or the CLI
(`RunCli`), `ReadBackFile`, `Rollback`.  `Publish*` is `patch_account_identity`, which
takes the provider's own lock and not the turn.  `OutsideWrite` are the provider's
programs; one that writes over the file in place goes on writing into it (`OutsideDone`),
so its text may mix with another's, unless the file it opened is no longer at the path
(`writing` is then `Absent`).  `raced` and `overlapped` are ghosts: an outside writer wrote inside a
change's window, or a change and an account change ran together; what then is lost
is section 4 (9).  "Restored the previous file." is answered even when the
restoration failed, and a rollback restores a backup older than an outsider's write.
A CLI killed at its deadline is gone.

### ItemInstall

The places items are written to, the saved registry and the lock under which it is
loaded, changed and saved; the memory of commits (`shas`) and of the last tarballs.
A call is `InstallItems`, `UpdateItem`, `RemoveItem` or `LookUp`; it asks for the
commit and downloads outside the lock, then `TakeRegistry`, `Conflict` or
`BackUpItem`, `MoveAside`/`SwapIn` or `Delete`, `SaveRegistry`.  `Push` moves a
repository, `UserWrites` puts the user's own files at a place, `ServiceEnds` is a
crash at any step.  One item per call.  A late download may put an older commit in
memory; a registry that cannot be saved after the files were placed leaves them
unmanaged; a crash between the two renames leaves the copy and the files moved
aside.

`BackUpItem` is `backup_item`: what stands at a place is copied into a directory that all
places of a provider share, under its file name and the time, and of each name the newest
`Keep` stay (`Pruned`; 20 in the code).  `copies` has them by file name, oldest first, and
`NameOf` says which places share a name, as a skill installed for the user and for a
project does.  A copy that fails or that a crash cuts short stays, counts as one, and
prunes nothing (`CopyFails`, `CopyCutShort`); the app copies before it moves, so that the
call then leaves the place alone.  `depth` is a ghost: how many copies of its name, itself
included, have been taken since that of what the user wrote at a place.

Left out: the user editing a place between its copy and the change, which the code does
not see; a removal of a folder that stops half way; an old copy that cannot be deleted,
which only stays longer; the clock, whose readings order the copies and are taken to
grow (section 4 (13)).  What a process that died left aside bears its number, so another
leaves it there; in the model the next call for that place moves over it.

### Runs

Each property is known to be able to fail: beside the definition it depends on
stands a faulty variant of it (`PollAnyLogin` beside `Poll`, `JournallingOwned`
beside `Journalling`), listed in `PROJECT.json`, with which TLC finds the property
violated.  No specification uses these variants.

| Run | States | What it shows |
|---|---|---|
| `activity_session` | 252,649 | guard: it keeps the promise of `NativeAccess` (`PromiseKept`), is never left engaged (`GuardsExact`) and a change ends (`SwitchingEnds`); session: an answer reaches the request it is to (`AnswersReachTheirRequest`) and the session ends with no CLI left (`SessionEnds`); renewal: a token is asked with once (`SpentOnce`), is never both asked with and given to a client (`SpentIsPrivate`), a whole reply is not lost (`ReplyKept`) and one left by a crash gets to the vault (`ReplyPublished`) |
| `switch_claude` | 1,105,133 | a login is never lost by a switch or a recovery, nor written over once renewed (`NoLoginLost`, which is `AnotherRemains` and `RestoreKeepsRenewed`), the native store is half written only behind a journal (`NativeWhole`), a saved login is its account's (`SavedUnderItsAccount`), an interrupted change can be recovered (`RecoveryPossible`), a login is in one store (`OneStore`); and what was answered done under Claude's locks stays (`ChangesKept`) |
| `switch_codex` | 1,762,019 | `NoLoginLost` for Codex, and a login the app renews by itself is in no store a client renews from (`OwnedIsPrivate`); a switch of an item answered done stays until it is switched again (`NothingUndone`), whatever a failure leaves, the file or its newest backup has the content (`ContentSurvives`); the user's own files are in their place, set aside or in a backup until `Keep` copies of their name came after theirs (`OwnFilesKept`), what a call answered is what the registry says (`AnswersRecorded`) |
| `limits` | 889,941 | no card comes back that an account change or a removal took away (`NothingStaleReturns`), a screen with nothing left to do is current (`ScreenCurrent`), a rate limit is waited out (`RetryHonoured`), a refresh never lists an older vault than a reread did (`RefreshKeepsRereads`) |
| `alerts` | 422,430 | a reset is offered, and an exhausted limit told, once in a cycle (`AnnouncedOnce`), a failed save loses no offer (`OfferNotLost`), a cancelled spend is not made (`CancelledNotSpent`), a scheduled one is decided (`AnnouncedDecided`) |
| `github` | 1,975,983 | types (`TypeOK`); a dropped branch stays dropped until a newer push (`BranchStaysDropped`), a conflict shown is carried until GitHub answers (`ConflictKept`), no row settles to an older answer than the newest (`NoOlderAnswer`); a change is told once (`ToldOnce`); a notch at rest shows the newest reading and settings (`QuietShown`) |
| `usage_accounts` | about 2,000,000 | a record is counted once and, when the count is final, none is missed (`CountedOnce`), a summary served from the cache is current while the history reads (`ServedCurrent`); a cancelled or outdated sign-in is never saved (`UnwantedStaysOut`); a login is in one client's store (`OneCopy`) and one the issuer accepts stays within reach (`LoginKept`) |
| `switch_label`, `switch_pending`, `limits_listing`, `alerts_fresh`, `items_source` | | disagreements, section 4 |

Bounds.  Two accounts in `switch_*`: a switch names two, and a third plays no part in
a journal other than the one a foreign sign-in already plays.  `MaxGen = 3`: the
generation every account starts with and two more handed out, enough for a renewal
on each side of a switch, or for a renewal and a sign-in from outside.  `MaxFaults =
3`: a failure, a second one during the recovery from the first, and a third during
the next.  The renewal has four tokens (the first, a renewal, a sign-in or a client's
own renewal, and the renewal of that), two faults and two instances, since a third
could only wait for the lease as the second does.  The guard has two instances of
three threads: every pair of its steps meets within an instance and between two, with
a third thread beside them.  The session has three requests (one before, one at and
one after a late answer), a queue of one, a pipe of two and five lines.  The locks
have two writers, three writes, a crash and a denial: the third write is the one that
finds what the first two left.  The configuration has three items, one of each way to
switch, two switches, a published name, an outside write and a slip; the items two
places, two commits, one tarball remembered, three calls by two workers and a mishap:
a call may fail or be overtaken by a second, and a third sees what they left.  Both
places have one file name and two copies of it stay, so that a third copy prunes one; with
one copy kept and two mishaps, and with four calls, TLC found no error either, and without
its last disjunct it finds `OwnFilesKept` violated by the pruning.
`limits` has two accounts, a screen and a thread that changes accounts, and three
calls and sign-ins by others together: a read, a change beside it, a read after.
`alerts` has two cycles, a poll that takes up to a tick and two events.  `github` has
three heads or pushes with one mishap, three changes and two faults of the monitor,
two reading threads, a replaced reading, two saves, a lost helper (three events
together) for the notch.  `usage_accounts` has three days, two records held at a time
and one fault, five of these together (with six, run once, TLC found 2.7 million
states of that part and no violation; with a second fault and the proof's invariant as
well, 2.6 million and none); two sign-ins, one early cancellation remembered of three
made, two vault changes; two homes, three logins and one running program.  Two programs with three logins were
checked outside the runs, the inductive invariant with them, without a violation: without an
older version (4.3 million states), and with one, without sign-ins from the app and
with at most two logins given out after it wrote (3.5 million).  Symmetry is
over accounts, writers, workers, places, files, homes and viewers where all of them
start alike; `activity_session` and `alerts`, which check liveness, use none.  Where
every bound may be used up, or the user has nothing left to do, a state with no
successor is no fault of the code: those configurations switch the deadlock check
off.

Fairness.  A thread that asked for a guard goes on (`WF_vars(Continue(t))`): every
guard is a local variable of a function that returns; reads and changes may start or
never start.  Both threads of a session are scheduled and its deadline comes
(`SessionFairness`); nothing is assumed of the CLI.  A poll that started a renewal goes
on (the function returns, the request has a time-out) and the monitor's timer starts
another.  In `alerts` the loop keeps waking and time passes.  Failures are bounded, so
`ReplyPublished` says that a reply arrives once the vault can be opened; it promises
nothing while the account is the native one or a recovery waits, as `refresh_profiles`
then leaves the profile alone.  All other properties are safety properties.

Where the properties stop: `NoLoginLost` and `RecoveryPossible` say nothing once the
user changed the native login during the change (`outside`): the code keeps what it
finds or refuses, and what was replaced by hand is replaced.  A home's login does not
count as held while the vault holds one of the same account, which is the newer
(`homes.rs` 162-166).

## 3. What is proved

TLAPS checks every step, for any number of instances, threads, accounts, token
generations, calls and faults.  Each theorem listed in `PROJECT.json` follows from an
inductive invariant, which TLC checked first; the proof that a step keeps it goes
action by action and, under an action, part by part.  The assumptions are the ones
the modules declare (`...Assumption`): the types of the bounds, and that an absent
value (`NoToken`, `NoCache`, ...) is none of the values it stands beside.  One theorem
file assumes more, see `AccountSwitchProofs`.

`ActivitySessionProofs`, the guards: the inductive invariant is the conjunction of `TypeOK`,
`GuardsExact` and `LeaseExact` (the lease is held by exactly the threads between
taking and giving back, by one alone if exclusively).  Exclusion alone is not
inductive: it needs to know who holds the lease.  That the counter never falls below
zero needs it to equal the number of open reads, which is where the cardinality
lemmas come in (threads of an instance are finitely many).  From it `ChangeIsAlone`
and, by a second induction, `GuardsKeepApart` (the in-process guard keeps reads and
changes of one instance apart without the lease); and `PromiseIsKept`: every step of
`AccountActivity` is a step of `NativeAccess`, or stutters, with its readers and
changers read off `pc`.

`AccountSwitchProofs`, first part: `NativeWhole` needs to know at every step whether
the journal is on disk, which half of the store is written and that whatever is
written is whole; `SavedUnderItsAccount` needs the native store to be whole wherever
it is saved from.  So they are proved together, from

- `Basic`, `HomesSound`, `SoundDatabase(disk)`, `SoundDatabase(mem)`: types, and
  every login in the vault, in a journal or in a home is of the account it is kept for;
- `Phase`: where `mem` and `disk` agree and where the journal is in each;
- `Halves`: at which steps, and only behind a journal, token and name may differ, and
  with which half written.

Second part (`JInv`): `OneStore`, `OwnedIsPrivate` and `RecoveryPossible` need each
other and the first part.

- `StoresApart`: every token that is kept was given out (`Fresh`), so a new one is
  nobody's; and a login that the app renews by itself, or that waits in a home, is
  neither the native one nor one a journal may put back (`Apart`), on disk and in memory;
- `Agreed`: but for the steps about to persist something, the operation's database is
  the disk's, and the journal is of the switch under way;
- `Reserved`: from the check-out until it is written, the login about to become
  native is in no home and the app has stopped renewing it;
- `Explainable`: with a journal on disk, the native login is one the journal names,
  one half written, or one that verifies as an account the journal names.

Third part (`KInv`): `NoLoginLost` is about two states of a step, and says both that the
last live login of an account is not given up and that one a client renewed is not
written over.  It rests on what has become of a login the issuer takes no more.

- `NothingNewer`: a native login is spent only by the renewal that replaces it, so a
  spent one in place was written there from the vault or a journal, and then neither the
  vault nor a home has a live one of that account, unless the user removed the account or
  a newer sign-in waits;
- `OutgoingKept`: with the same exceptions, the login a journal names as outgoing is in
  the vault too;
- `OneEdit`, `Started`: what a step is about to persist differs from the disk in the
  login of one account, and which steps a switch and a rollback can be at;
- `Followed`: unless the user changed it meanwhile, whose login is in the native store
  when a login is persisted or written over.

It is inductive for any number of accounts, generations and faults; TLC had checked it
beside the runs with four generations and two faults (8.1 million states for Claude, 5.2
million for Codex).

The theorems of these three parts assume `ClaudeCode => StatusNamesToken`: that Claude's
status command names the account of the stored token.  Without it the invariant is
false, which is what run `switch_label` shows.

Last part, Claude's locks: `ChangesKept` rests on `Alone` (unless a lock that was not stale
was broken, a lock is one writer's and has age zero: time passes only while the holders
touch what they hold, so nobody finds it stale, and no heartbeat misses it) and on
`ReadIsCurrent` (what was read under the locks is what is there when it is written).
It holds for any number of writers and any staleness, also zero.

`ActivitySessionProofs`, private renewal: neither `SpentOnce` nor `SpentIsPrivate` is inductive.  That
a token is not asked with again rests on the journal naming the vault's login
whenever that login is spent (`Explained`), which must survive another instance
overwriting the journal and a crash leaving an old one.  Only the lease holder writes
it (`OneLease`), so the invariant follows what the vault may hold while it works
(`Working`): the login being renewed, or one never asked with, because whatever else
enters the vault is new, a client's, or a reply.  A reply in the journal stays unused
as long as some poll may still take it (`ReplyUsable`, `Takeable`).  A change finds no
poll and an unspent login (`Changing`), which is where `activation_ready` enters.
`ReplyIsKept` is an action property from the same invariant.

`SavedLoginsProofs`, sign-ins: `Refusals` says of every sign-in that nobody wants what refuses it at
the step it is at: its cancel flag, the early cancellation that waits for it, a ticket
of an older epoch, or that it is over.  It needs that one sign-in at most is in progress and the
registry names it (`OneActive`), that tickets are of epochs the vault has reached
(`TicketsPast`) and that a published sign-in is over (`PublishedOver`).

`SavedLoginsProofs`, homes, for any number of programs that settle at once (`HomesInv`).
`OneCopy` says where a login is not, `LoginKept` that no step takes the last way to it;
both need to know what every half-done settle, switch and removal may still do:

- `GivenOut`: every login in use was given out, so a renewed one is nobody's;
- `StepsFit`: what a settle knows at each step, and that a switch runs beside none;
- `OnlyDropped`: a saved account without login and home is one an older version wrote,
  and the home that version made forget is the only one there is;
- `MovedApart`, `KeptApart`: what a settle moves, has put or is to read is not native;
- `Named`, `Retired`: a home about to be torn down is not the account's way back;
- `ClearKeeps`: what is about to be taken out of the vault is in the home, or dead;
- `DeadNative`: a native login the issuer no longer takes hides no live one from a
  save that would replace it.

Once a race is marked only the types and `GivenOut` are claimed.  The second half of
section 4 (6) came out of this proof: it failed at a home read beside another program, and
TLC then found the behaviour with two programs and three logins.

`ActivitySessionProofs`, sessions: that an answer reaches its request rests on `OnItsWay`: while
its request waits, an answer that was said is in the pipe, in the reader's hand or in
the queue.  The reader ends before the caller stops listening only once the CLI is
gone and the pipe is empty (`EndsLast`); a session reported closed has no CLI
(`ClosedIsGone`).

`FileChangesProofs`, items: `AnswersRecorded` rests on `LoadedIsSaved`: whoever stands between
load and save holds the lock and the copy it loaded equals what is saved, so nobody's
entry is lost.  `OwnFilesKept` rests on `CopiedBeforeGone`: at the steps where a call
may move or overwrite what the user wrote at a place, and ever after, a copy of it has been
taken, and the lock keeps every other call from placing meanwhile; and on `DepthFits`: as
long as no more than `Keep` copies of the name have been taken since, its own among them,
that copy is still there, the `depth`-th newest (`PrunedKeeps`, `AppendDeepens`).

`FileChangesProofs`, configuration: the caller within a change has the turn (`Turns`), and
the provider's programs and an account change exclude each other (`OneWriter`).
`NothingUndone` rests on `Stands`: the copy a change took and the text it edits agree
with everything that was answered, and in between the file may only differ in the item
being switched, so that going on and going back both keep it; an account change that is
under way keeps it in what it read and, but for the name, in what it writes.
`ContentSurvives` rests on `Kept`: within a change the newest backup has what last stood
and is what the change works from.  The proofs changed the model: a rollback that fails
leaves a file that need not be what was there, and a program may still be writing into a
file that was replaced or removed, or over another's text; with one failed operation, the
bound of the run, TLC had not told these apart.

`GithubNotchProofs`, three invariants, and the types of the three parts side by side, as the
run has them: a step of one is a stutter of the others.  Notch: two settings of one revision are the
same, and the ones saved last are drawn or on their way (`SettingsArrive`); the frame
sent last shows what is drawn unless it is dirty, and an error is reported only until
a frame is confirmed (`FrameShown`).  Monitor: the event of a fact's
present change was noticed, in what was seen and what was saved, when it was told, so
its transition cannot be seen a second time (`ChangesNoticed`), also from a reply
that GitHub has outrun (`ReplyOfFacts`); after a merge nothing is seen or saved any
more (`MergeIsLast`).  Reads: a drop is recorded until the push it was for is too old to
be taken again (`DropRemembered`); what is shown and what is newest is known, in
memory or, when the last read was saved, on disk (`AnswersKnown`); a read under way
has what was answered last in memory, and only the record has rows of an earlier read
(`ReadingSound`).  `ConflictsCarried` and `NewestAnswersShown` are action properties
from it and the lemmas on settling.

`LimitsRefreshProofs`, one invariant for four properties.

- `LockHeld`: who reads holds the lock; `ReadersHold`: reads hold off account changes
  and changes hold off reads, so the app never switches under a read;
- `Founded`: the half a read leaves alone is one the cache has;
- `Current`: the login of a read and, once a change dropped the cache, the account of
  its cards were held since that change; `Away`: a removed account is not in the
  vault either, so no poll finds it (`NothingStaleReturns`);
- `RosterOrder`: the roster a read loaded is no older than the listing until a
  reread, which the read sees (`RefreshKeepsRereads`);
- `AskedKept`: a wait is in the cache beside its login, or in the read that was told of it
  (`RetryHonoured`);
- `NothingUntold`, `ScreenFollows`: the screen has the cache's cards and the listing's
  roster unless it was told, is reading itself, or some call has still something to
  announce (`ScreenCurrent`).

`ResetAlertsProofs`, two invariants over the types.

- `OffersInv`: but for the one offer under way, the state names what was told last, and
  so does the state a failed save goes back to (`OffersTold`); an alert that is off, or
  was when the poll began, has nothing to name (`TurnedOff`); a waiting spend is of the
  cycle offered last and was not cancelled (`WaitingOffered`), and what is due has left
  the queue, so a cancellation finds nothing there (`DueTaken`).  Hence `OfferNotLost` and
  `CancelledNotSpent`.
- `ToldInv`: nothing is dated after the account's cycle (`Dated`); a card the state does
  not know is no older than what was told and seen, nor than the state a failed save
  goes back to (`Newer`), which is why the roll-back must forget the card with the
  state; a cycle told as used up is over or still used up (`UsedUp`).  That two reports of
  a cycle differ by one and those of two cycles by two or more (`LaterStill`) does the
  rest of `AnnouncedOnce`.

The instance must have more than one cycle, since every account starts with a reset to
use.

`UsageFilesProofs`, one invariant for both properties, for any transcripts, days and
faults.  It rests on transcripts that only grow until they go: an entry of the index or a
cached parse that fits one now is of the records it has now, and one that no longer fits
never will again (`Recalled`, with `SizesTell`, a fact of finite sets).

- `Dated`: no record is younger than its transcript was when last written, so a date of
  writing bounds the records;
- `WorkCovers`: what the holder of the lock has opened covers every record up to
  yesterday, so a fold counts each of them or passes over it, and a fold is due;
- `Histories`: of what lies behind its watermark, the file and the backup have each
  record of a transcript once, unless a fold passed over it, and nothing beyond, so the two
  halves of a count do not overlap;
- `Tallies`: a count, on its way or in the cache, is right as long as its transcripts are
  undisturbed and the history's file has the stamp it was counted with, given that the
  history still reads.

The last condition came out of the proof: see section 4 (12).

Only model-checked: the liveness properties (`SwitchingEnds`, `SessionEnds`,
`ReplyPublished`, `AnnouncedDecided`), which are out of reach of the provers.  Every
other property of the passing runs is a theorem.

## 4. Where code and documentation disagree

Runs that TLC must find violated:

1. `switch_pending`.  `docs/architecture/accounts.md:11` says "switching away
   captures the latest native generation".  A profile whose newer sign-in waits to be
   used is not captured (`store.rs` 195-205), so that the newer sign-in is not lost.
   But `sign_out` clears the login of the user's profiles and leaves
   `pending_activation` set.  Sign in an account (its profile waits), sign out of it,
   sign in to it with the provider's CLI, switch to another account: nothing is
   captured, and its profile holds no login to switch back to.
2. `switch_label`.  `docs/architecture/accounts.md:457-459` says that unknown rotated
   bytes require native verification before a recovery keeps them.  For Claude the
   verification compares the stored account name with `claude auth status`, which
   "reads only what is stored" (481-484).  Should that status name the stored account
   rather than the token's, a login left half written by a crash and then renewed by a
   client verifies as the account named beside it, and recovery saves it there.
   Whether it does is outside this repository; the other runs and the proofs take the
   favourable answer.
3. `limits_listing`.  `docs/architecture/accounts.md:754` says that every vault write
   rereads the roster.  `relisted` reads it before it takes the listing's lock
   (`limits_refresh.rs` 457-458): of two writes whose rereads overlap, the one that
   read the older vault may land last, and the column lists it until the next write.
4. `alerts_fresh`.  `docs/architecture/README.md:192` says that a scheduled reset is
   used only if a fresh read still finds the account low in the same cycle.  While an
   account change runs even a forced read is answered from the cache
   (`limits_refresh.rs` 266-272), and the rule cannot tell.

And `items_source`: `PROVIDERS.md:141` says the registry records provenance.
`update_item` reads an entry before it takes the registry's lock and finds the item
by its place under it; an install of another repository's item in between keeps its
source beside the first repository's files and commit.

Observations without a run:

5. `usage.rs` 145 reads the native identity before the vault is loaded.  A user who
   signs in between makes `check_in` move a login that is native by then into a home,
   though `docs/architecture/accounts.md:87-88` has every login in exactly one store.
6. Two running programs (an installed one and a development build): a vault copy one of
   them took earlier may replace, in the home, the login the home's client renewed
   since (`accounts.md:104-106` takes the vault's as the newer).  And a client that reads
   a home may renew the login another program has just put there and not yet taken out
   of the vault: the vault is left with the spent one until that program clears it, and
   keeps it if that program ends first.
7. `json_line_session.rs` 363-368 joins the reading threads without a bound when the
   CLI exits by itself, so a descendant that holds its pipe holds the read;
   `docs/architecture/README.md` (1209-1210) rules that out, which is true of a CLI
   that had to be killed.
8. A request is written even after the deadline has passed.
9. `ConfigChange` keeps `NamePublishedStays`, which no run checks: with the outside world
   silent it is violated, since the switch of an MCP server (`Changes::make` through
   `ConfigIo::patch`) takes no lock of the configuration file and may write the old
   account's name back, though `accounts.md:471-474` has the locks cover publication.
10. `ClaudeLocks` keeps `TurnsTaken`, which no run checks: two takers may both find a
   lock stale, one breaks it and takes it, the other breaks the new one
   (`claude_store.rs` 561-573), though `PROVIDERS.md:274` says "the two take turns".
11. When the account signed in natively is signed in again from the app, its profile
   waits with a new login while the old one stays native.  Using it and failing to
   verify it after a client renewed the new login leaves the dead generation in the
   vault (`recover` keeps the native one, and the capture is barred by
   `pending_activation`, `transaction.rs` 234-238); the next use of the account writes
   the dead login over the live one.  `NoLoginLost` excludes accounts whose newer
   sign-in waits, as the documentation promises nothing for them.
12. `docs/architecture/README.md` (812-813) says that a clear never serves a summary counted
   with the history before it.  When the history's file does not read, a summary is
   counted from the backup and stored under the size and date of the file.
   `clear_history` (`history.rs` 403-414) removes the copies first and the file last; if
   it fails at the file, size and date are what they were, and the next summary is served
   with the usage of the history that is gone.  This takes two failures, so the run with
   one does not meet it; the proof did, and TLC with two.  `ServedCurrent` leaves out a
   history that does not read.
13. `PROVIDERS.md` (144-145) says that replacing or removing an item first copies it to
   `backups/<provider>/items/`; that only the newest 20 of a name stay (`backup.rs` 64-77)
   it says of configuration files alone (90-91).  Every scope's items of a name share those
   20, each update takes one, and so does a copy that was cut short: after 20 of them the
   copy of what the user had there is gone, which is why `OwnFilesKept` ends at `Keep`.  The
   copies sort by the clock (46-51, 92): once it was set back, a new copy may sort before 20
   older ones and be deleted as soon as it is taken.

## 5. What is not modelled, and the plan

Nothing that the provers reach is left to prove of what the runs check.  A further run
could show observation 12, with two faults and a history that was cleared by halves.

Not modelled: the state the interface shows of logins and the roster (reads of the
vault with no state of their own but dates); live sessions; the connection of
`github/` with its pauses; drift; the layout and painting of the notch and its Windows
window; adapters and the catalogue, the scanner, the shell of the app, the interface,
build and release.  Parsing of provider answers and configuration formats, HTTP,
process scanning, sealing and key chains are input and output; what the modelled
parts see of them (an answer, an error, nothing) is a choice in the models.  The map
covers the stateful core and not the lines that parse, lay out and paint, which are
most of the repository.
