# Undervest: specification and proofs

Undervest is a sendmail milter. It checks the recipients of local domains against lists of valid names,
tolerates misspelled ones, and, if told so, replaces them by the name they resemble. This directory
holds TLA+ modules that model it, the TLC configurations that check them, and proofs for TLAPS. Paths
below are relative to the directory of the sources: `include/scheduler.h` and `milter/domain.cpp` are
`src/include/scheduler.h` and `src/src/milter/domain.cpp` in `PROJECT.json`.

## The system

### Components

| component | state | operations | interacts with |
|---|---|---|---|
| Scheduler (`include/scheduler.h`) | a heap of timed events, per event `_qued` and `_cancelled`, `_stop`, a mutex and a condition variable | `run()` in a thread of its own; `schedule()`, `reschedule()`, `cancel()`, `clear()`, `stop()` from any thread, also from a callback | runs `domainRefresher()`; started and stopped by `Globals` |
| Globals (`milter/main.cpp`, `include/globals.h`) | the published configuration `conf`, `die`, two threads | `run()`, `reload()`, `reloader()` (waits for SIGUSR1), the destructor | creates a `Configuration` per reload, owns the scheduler, is the milter |
| Configuration (`milter/configuration.cpp`) | the map `domains`, the options of the file | `get()`, `recipient()` | holds the domains; asked by each connection |
| Domain (`milter/domain.cpp`) | valid names, two indexes, `failure_count`, refresh and retry periods | `refresh()`, `load_data()`, `recipient()`; `domainRefresher()` | schedules its own next refresh; is cloned and replaced in the map |
| Matcher (`milter/matcher.cpp`, `include/scaled.h`, `include/substring.h`) | an index from slices to names | `add()`, `match()` | two per domain: n-grams and words |
| Undervest context (`milter/undervest.cpp`) | `conf`, `rejected`, `added`, `maybe` | `connect`, `envelopeFrom`, `envelopeRecipient`, `endOfMessage` | called by libmilter, one thread per connection; asks `conf` |
| milter wrapper (`include/milter.h`) | the registered filter, the context of each connection | the C callbacks, `initialize`, `start`, `stop`, the destructor (removes the socket) | libmilter |
| Source and loaders (`milter/source.cpp`, `loaders/`) | an open shared object, a file or an LDAP search | `load_loader()`, `load_data()`; `openSource`, `getRecipient`, `closeSource` | fill the valid names of a domain |
| Daemon (`include/daemon.h`) | lock file, pid file, identity | `lock()`, `write_pid()`, `delete_lock()`, `detach()`, ... | used by `Globals::run()` |
| URI, FilePath, stringlib, crc32, logger | none, or the parts of a name | conversions | used by the above; `crc32` by nothing |

### What is hard about it

Four kinds of threads share state: the timer thread, the signal thread that reloads, one thread per
connection, and `main()`. Several instances may be started, and share a lock file, a pid file and a
socket. The scheduler is a hand-made monitor with three unlocked accesses (`cancel()`, `stop()` and the
constructor, which leaves `_stop` unset). A refresh works on a clone of the domain, installs it in the
map afterwards, and leaves an event behind for the next refresh; a reload does the same for all domains
of a configuration that nobody uses yet, and publishes it at the end. Events of superseded objects are
recognised by comparing pointers. Loads fail and are retried on a list of periods that was sorted and
converted in place. A loader is a shared object that is called through three pointers, with exceptions
that cross them. A connection spans several messages, an aborted one leaves its sets behind, and the
data may change between two of its commands. The `hazards` list of `PROJECT.json` names each of these at
its line, with the properties about it.

### What makes each component correct

- Scheduler: an event runs once, not early, in the order of the times, not after `cancel()`; no wake-up
  and no stop is missed.
- Refresh and reload: each domain of the published configuration has exactly one chain of refreshes; a
  domain filters only with complete data; nothing of a superseded configuration goes on.
- Retry periods: the delays add up to the distinct times of the list, without an access outside it.
- Connection: no recipient that was accepted is lost, none comes from another message, and nothing is
  replaced without autofix.
- Matcher: the score counts the common slices of two names; a valid name is accepted as it is.
- Life cycle: an instance that is to end ends; a reload that is asked for takes place; mail is filtered
  under the identity that was asked for.
- Instances: one daemon at a time, which owns its pid file and its socket, whatever others start, find
  it running, end or crash.
- Sources and loaders: no loader is called through a missing or stale pointer; what is opened is closed
  once, whatever fails; a load that succeeds has everything; a load ends.
- URIs and paths: the loader asks the host, and reads the file, that the URI names, with the credentials
  it has; what is logged does not show them.

## The modules

| module | models | composed with |
|---|---|---|
| `TimerService` | what the scheduler promises, without mutex, condition variable and heap | implemented by `Scheduler` |
| `Scheduler` | `include/scheduler.h` | `Service == INSTANCE TimerService WITH ...` |
| `ConfigurationService` | what loading and reloading promise the connections, without objects, events and clocks | implemented by `Refresh` |
| `Refresh`, `MCRefresh` | `Globals::reload()`, `Domain::refresh()`, `domainRefresher()` | `Service == INSTANCE ConfigurationService WITH ...`; its queue is the timer service |
| `RetryPeriods`, `MCRetryPeriods` | the retry list in `Configuration::get()` | gives `Refresh` its constant `Retries` |
| `Session`, `MCSession` | the `Undervest` context, `Configuration::recipient()`, the envelope in the MTA | sees `ConfigurationService` as `DomainRefreshed` and `Reloaded` |
| `Matcher`, `MCMatcher` | `Matcher::match()`, the slicers, `Domain::recipient()` | `Session` abstracts it to two relations |
| `Daemon` | the files of `include/daemon.h` and the socket of `include/milter.h`, as operations | used by `Lifecycle` |
| `Lifecycle`, `MCLifecycle` | `Globals::run()`, `reloader()`, `~Globals()`, signals and threads of several instances | extends `Daemon`; abstracts a reload to one step, and the scheduler to `_stop` |
| `FilePath` | `assign()`, `normalize()`, `get()` of `include/filepath.h` | used by `Uri` |
| `Uri` | `URI::parse()`, its printed form, `userinfo()`, `unescape()`; what RFC 3986 says of the same text | used by `Loading` |
| `Loading`, `MCLoading` | `Configuration::get()`, `load_loader()`, `load_data()`, `loaders/sendmail.cpp`, `loaders/ldap.cpp` | spells out `LoadOk` and `LoadFails` of `Refresh` |
| `SchedulerProofs`, `RefreshProofs`, `RetryPeriodsProofs`, `MatcherProofs`, `SessionProofs`, `LifecycleProofs`, `LoadingProofs` | proofs | extend the module they are about |
| `OrderLemmas` | facts about numbers and finite ordered sets: least element, quotients, ranks, the n-th element | used by `RetryPeriodsProofs`, `MatcherProofs`, `LoadingProofs` |

### Scheduler and TimerService

`pc` says where `run()` is; the mutex is held between two of its steps at `"loop"` and `"body"`, and a
critical section of a caller is one action that needs `~Locked`. `cancel()` is two actions
(`CancelTest`, `CancelSet`) and `stop()` two (`StopSet` without the lock, `StopNotify` with it). Both
waits release the mutex and start to listen in one step, may end for no reason (`SpuriousWake`), and end
when notified or at the deadline. `queue` counts the occurrences of an event in the heap, so that an
event that is pushed twice is a state of the model. `_stop` starts with any value. A callback that calls
`schedule()` or `cancel()` is a caller like any other while `pc = "run"`. The program never calls
`cancel()`; it is modelled because the class offers it.

`Armed` is the refinement mapping: the time of an event that is in the heap and not cancelled. A
`cancel()` that comes late, when the event was popped meanwhile, maps to a stuttering step; one that
comes when the event was scheduled again withdraws the new timer: the service lets `Withdraw` happen at
any time, so this is allowed, as the code has it.

### Refresh and ConfigurationService

`domains[c][n]` is the object that the map of configuration `c` has for domain `n`; `obj` is its
identity, of which two can coexist, since all the code does with it is compare pointers. `work[th]` is
the call of `refresh()` that a thread executes: `"load"` until `load_data()` has ended, `"assign"`
between `schedule()` and the assignment to the map, which another thread may precede. An event carries
the time that is left rather than an absolute one, which keeps the clock unbounded. `CloneFails` is an
exception before the `try` block, `LoadFails` one inside it. `reload()` is called `MaxConf` times, by
`main()` first; `main()` gives up when that call leaves no configuration.

`failure_count` is a `short`: `Failed` wraps to the negative numbers at `ShortMax`. The counts -1 and 0
mean `new` and `loaded`, and no wrap reaches them. -2 (a loader is missing) makes `get()` fail as a
whole, so no configuration that is published or refreshed holds it. `lost` and `waited` are history
variables that no action reads to decide anything: `lost` records the two ways a domain loses its event,
`waited` the time spent in retry periods.

`ConfigurationService` says what is left of all this for a connection: a configuration is prepared once
(`Prepare`), each of its domains is tried exactly once (`Try`) before it replaces an older one
(`Publish`), and from then on a timer renews the domains of the published one (`Renew`, `Renewed`), one
at a time. A renewal that was under way when the next configuration is published may still end; no other
is begun for the old one. The mapping reads `reloader` and `nconf` as the draft, the domains that are on
the list or in work as untried, `failure_count` as `new`, `loaded` or `failed` (`Seen`), and the work of
the timer thread as the renewal. The steps between a thread's load and its assignment, outdated events,
failing reloads and time are hidden. `Session` assumes less of its surroundings: its `Reloaded` is
`Publish`, and its `DomainRefreshed` may change any configuration at any time.

### RetryPeriods

One action per step of the loop, with the two iterators as indices. `Read` puts in order what is left
of the list when the non-positive periods are removed (`Arranged`), by rank: the k-th element is the one
up to which there are k, equal ones taken in the order of the file. `ReadsOutside` is what the loop does
when the vector is empty; the run continues into a state `"undefined"` because nothing can be said of
it.

### Session

An address is what is between the angle brackets, lower-cased. What Matcher computes is two relations
here, arbitrary except that an address is close to itself. The envelope is the set of recipients the MTA
has; a recipient that the MTA itself has refused (`inError`, mailer `error`, shown to the milter because
of `SMFIP_RCPT_REJ`) is not in it. `Deleted`, `Allows` and `Added` are what the MTA does with the
requests of `endOfMessage()`: it refuses those that were not negotiated. Domain data change at any time
to any data, which is more than refreshes can do. Header insertion is left out.

### Matcher

A character is a number. `Sorted` is `std::sort()`, by rank as in RetryPeriods. The sorted slices are
scanned one step at a time, with the run of equal slices that the loop leaves to the code after it as an
action of its own (`LastRun`); the slicers and the index that `add()` builds are operators. A score is
the integer that `scaled<>` holds. The digit slice differs between index and query (`one`, `zero`), so
that digits match nothing, as undervest.8 says.
`BagShared`, with which the properties compare, counts the common slices without an order: the pairs of
a slice and a number of copies of it that both names have.

### Daemon and Lifecycle

`pc[p]` is where `main()` of the instance `p` is. A step is a system call, or several of them if nothing
that another process or thread does can fall between them; so `delete_lock()` is two steps
(`ReleaseLock`, `RemoveLockFile`), and `lock()` is `Open` and `Lock`. A lock belongs to the file that
was opened, not to its name: `lockFile` is the file that has the name, `lockfd[p]` the one that `p` has
open. This is what lets two daemons hold a lock each: one releases its lock, a second takes it, the
first removes the name, and a third makes a new file. The history variable `stolen` records that a
`delete_lock()` removed a file that another instance had open, and `OneDaemon` and `PidFileTrue` hold
until then. An instance that has given up its rights or is in a jail does not reach the files any more
(`Reaches`), so they stay; they also stay after `Crash` and when the first configuration cannot be read
(`NothingLoaded`).

`Fields` follows `user()` and `group()` through the four fields of the class, whose order decides which
group wins; `ConfineFails` has the exceptions between the system calls of a change of identity.

SIGUSR1 is ignored, and what becomes of it depends on the mask that the program was started with
(`masked`). If it is blocked it stays pending until `sigwait()` takes it, the one that `~Globals()`
sends to the thread (`wake`) before the one of the administrator (`usr1`). If it is not, Linux discards
it (`Pends`). `SchedBegins` clears `_stop`, as `Scheduler::run()` does, and so may undo a `stop()`.

### FilePath and Uri

A text is a sequence of tokens: a word, a digit, a delimiter, an escaped `@`. The parser looks one
character beyond the end, which is the NUL. `Parse` has each of its branches: the authority, of which
the host is found only behind user information, ports whose digits each add 10, brackets, which make it
throw or fail. `Printed` is the conversion to a string. `Written`, beside it, reads the same text as RFC
3986 does, without any code of the program, and is what the properties compare with.

### Loading

One action per decision of `get()`, per library that `load_loader()` tries (`TryLibrary` finds none to
all of the three symbols, and so leaves pointers into closed libraries behind), and per call of a
loader. `made[u]` holds what the code makes of the URI `u`, as a function of `u` alone; it is a variable
only for TLC to compute it once. `SourceFails` is an exception of any call. Libraries come and go: one
that was found may not open again for a clone (`CloneFails`). The file and the directory keep their
contents during a load. An LDAP answer is a sequence of entries of attributes of values, and `handle`
has the three nested loops of `getRecipient()` as what is left of each. The server may fall silent at
any time (`FallsSilent`), and then nothing happens any more. `NoAttributes` and `NoFilter` are null
pointers that are read: the process ends. The three ways a load may miss names without a failure are in
`MayMiss`: an LDAP value is empty, a file cannot be read, a URI has no path.

`SourceAsAsked` and `UserinfoHidden` compare the parser with `Written`. The code does not follow RFC
3986 for every text, so `SourceAsAsked` says for which it does. The LDAP loader sends the dn and the
password of the user information of its URI, or none if there is none, for every text that the parser
accepts, with or without authority and port. If there is user information that is not empty, and the
host has only characters of names (`NamesHost`; there may be a port, of digits), that host is asked. The
sendmail loader reads the file of the path if the host is empty, there is no port, and user information
and path have only characters that may be there (`NamesFile`). What is read or searched is the path as
it is written if that is `Plain`: without empty names, `.`, `..` and a slash at the end, which
`normalize()` changes. Not said is which host is asked for an LDAP URI without user information (the
code asks the local one), nor which port (the code reads most of them wrong); see "What was found".
`UserinfoHidden` excepts only user information with characters that it may not have, which the code
prints as part of a path.

### What the properties except

Some hazards are cases that the code gets wrong. The property nearest to each excepts that case and says
that there is no other; the hazard itself is caught by none, and is listed in `hazards` with no property
and a note.

| property | excepts |
|---|---|
| `OneDaemon`, `PidFileTrue` | everything after a lock file that another instance had open was removed (`stolen`; `include/daemon.h`, `delete_lock()`) |
| `SocketKept` | the instance that ends, which removes the socket whosever it is (`include/milter.h`, destructor) |
| `Exits` | a `stop()` that comes before `Scheduler::run()` has cleared `_stop`; a discarded SIGUSR1, which is finding 4 |
| `Complete` | sources with an empty LDAP value, a file that cannot be read, or a URI without a path (`MayMiss`) |
| `LoadEnds` | a directory server that falls silent |
| `LoaderProtocol` | the end of the process at an LDAP URL without attributes or filter (`NoAttributes`, `NoFilter`) |

## The runs

| run | instance | states | shows |
|---|---|---|---|
| `scheduler` | 2 events, clock 0..2, 3 calls of `schedule()` | 283 556 | type, `QueuedFlagAgrees`, `NoMissedWakeup`, `StopNotMissed`, the refinement, and under fairness `EventuallyServed` and `StopTerminates` |
| `refresh_safety` | 2 domains, 2 configurations, 3 object identities, `ShortMax` = 3 | 299 210 | the invariants of `Refresh`, and that it implements `ConfigurationService` |
| `refresh_liveness` | 1 domain, 2 configurations, `ShortMax` = 2 | 3 617 | `Recovers`, `SupersededDrains` |
| `refresh_lost` | as `refresh_safety` | - | a domain loses its refresh (finding) |
| `retry_periods` | lists of up to 5 periods from -1 to 5 | 106 966 | `DelaysMatchTimes`, `WritesBehindReads` |
| `retry_periods_all_ignored` | lists of up to 2 | - | the vector may be empty (finding) |
| `session` | 3 addresses, 3 RCPT per message, 1 refresh or reload, 3 kinds of MTA | 716 296 | `NoRecipientLost`, `NoLeakBetweenMessages`, `AutofixRespected` |
| `session_old_mta` | the same | - | a recipient is lost (finding) |
| `matcher` | 35 names over two letters, a digit and a delimiter, up to 2 valid | 170 915 | the scan, the decision, `PerfectAccepted` |
| `lifecycle` | 2 instances, one of them root's daemon, the other a daemon with account and jail or an instance with `-n` and a group; 3 lock files | 476 968 | `OneDaemon`, `PidFileTrue`, `IdentityAsAsked`, `SocketKept`, and under fairness `Exits`, `ReloadServed` |
| `lifecycle_signal` | 1 instance, started as systemd and init do | - | it does not end (finding) |
| `load` | configurations with 14 authorities by paths and queries, two loaders, one and two domains; 3 contents of the sources | 16 000 | `LoaderProtocol`, `SourceAsAsked`, `UserinfoHidden`, `Complete`, and under fairness `LoadEnds` |

Why the bounds are enough. Scheduler: two events are what order, duplication and preemption of a wait
need; the third call lets an event be scheduled again after it ran or was cancelled; the proofs lift
every bound. Refresh: two domains let one be loaded while the other waits, two configurations let one
supersede the other, and a bound of 3 on the failure count lets it go past the retry list and wrap.
RetryPeriods: five periods out of five positive values have repetitions at the beginning, in the middle
and at the end, and values that are ignored. Session: three RCPT commands are two that conflict and one
that repeats; one change of the data falls between any two of them; the first configuration has no
autofix, the second has it. Matcher: the long names repeat n-grams, permute them, and have several
words; a domain of two names has a unique answer, a tie, and none. Lifecycle: two instances that may
start again after every end or crash play the three that a stolen lock needs; with three files one can
be open in each and one new; the options are chosen so that account and group come alone and together,
with and without a jail; the proofs lift the number of instances and all options. SIGUSR1 is blocked for
the daemons, without which no end of theirs is reachable. Load: the URIs have every kind of user
information, port, bracket, path and query that the parser tells apart, the largest configuration two
domains, three sources and a source and a domain that are disabled, and the answers values of every
kind, an attribute without values, and an entry without attributes. `CHECK_DEADLOCK FALSE` stands where
the system ends: `run()` returns, `main()` gives up, a conversion or a lookup is done, a configuration
is loaded.

Every property of a passing run has a mutant in `PROJECT.json`: an operator beside the one it replaces
in the module (`TopOfEmpty` beside `Top`), which changes it as a plausible bug would, and with which TLC
finds the property violated.

### Fairness

`Scheduler`: the timer thread is a thread that the kernel runs and whose callbacks return (WF of `Run`),
a `stop()` that was begun goes on (WF of `StopNotify`), and time passes. No caller has to call anything.
Mutual exclusion adds no starvation: the runner holds the mutex for a few steps at a time.

`Refresh`: both threads run (WF), loads end, and time passes. Strong fairness is assumed in two places:
a domain that is loaded again and again loads in the end (the source comes back: this is what makes
`Recovers` a statement about the code and not about the network), and an event that is due again and
again is served, because the heap serves the earliest first. That a load ends is what `LoadEnds` of
`Loading` says of the two loaders, with one exception: a directory server that falls silent, for which
the code has no timeout.

`Lifecycle`: for each instance WF of its steps taken together, that is, the kernel runs some thread of
an instance that can go on. No order among its threads is needed. Nobody has to start an instance, stop
it, or ask for a reload; nothing has to fail. `Exits` excepts what the code does not get right: an
instance whose SIGUSR1 is discarded, and one whose timer thread had not begun to run.

`Loading`: WF of its steps, that is, the thread that loads runs and a server that is not silent answers.
A failure or silence is never forced.

## The proofs

All are for every value of the constants under the named `ASSUME` of the module, which TLC evaluates on
the runs.

- `SchedulerProofs` (`SchedulerAssumption`: `NoEvent` is no event, the bounds are numbers). The four
  invariants together are inductive. `Refinement` then proves that each step is one of `TimerService` or
  stutters: `Schedule` arms, `CancelSet` and `Clear` withdraw, `Pop` fires, or stutters when the event
  was cancelled. `QueuedFlagAgrees` is needed there: a second entry of the heap would leave the timer
  armed after it fired.
- `RefreshProofs` (`RefreshAssumption`: at least two object identities, a list of periods is no longer
  than `ShortMax`, which holds of the code up to 32767 entries). The inductive invariant adds to the
  checked ones: `Ownership` (the reloader works only on the configuration that it is loading, the timer
  thread only on one that has been published), `Kept` (the chain property for configurations that are
  still being loaded, without which publishing one would establish nothing), `CloneKept` (the clone that
  is about to be installed has its event) and `Tried` (an untried domain is still on the reloader's
  list). `OneChain` without `Ownership` is not inductive: a step of one thread could start a refresh
  that the other is already doing.
  `RetriesOnSchedule` needs a second invariant, `Timed`, on top: nothing has been loaded in a
  configuration that `reload()` has not come to (`Unstarted`), time is counted only in the periods of
  the list (`WaitsInList`), a retry starts when exactly the periods before it have passed (`LoadOnTime`),
  and a clone that waits to be installed is not the object that it replaces (`NewClone`), so that the
  event it left is not taken for the old one's. That `Elapsed` is the sum it is written as, for lists of
  any length, is the lemma `ElapsedSum`.
  `Refinement` rests on both invariants: a call of `refresh()` that ends is a `Try` or a `Renewed`,
  depending on the thread (`EndMaps`), because `Ownership` says for whom each thread works; `Prepare`
  needs `Unstarted`, and `Renew` that an event fires for the published configuration only. A failed load
  is seen as one (`LoadFailsMaps`) because no count after it, the wrapped one included, is 0 or -1.
- `RetryPeriodsProofs` (`RetryPeriodsAssumption`: periods are integers, the length of the list is any
  number): the conversion in place gives the delays and writes behind what it reads, for all lists, and
  leaves the vector for no other lists than those of finding 2 (`OutsideIfAllIgnored`, which no run
  repeats). The invariant says that what was written are the differences of the distinct times so far,
  and that what is still to be read is the sorted list as it was. That sorting by rank gives a list with
  the same elements in ascending order is `ArrangedList`, from the lemmas about ranks.
- `MatcherProofs` (`MatcherAssumption`: letters and digits are disjoint sets of numbers, the n-gram size,
  the scale and the denominators of the thresholds are positive). `Counting`: the loop over the sorted
  slices counts the bag that the two names share. The invariant (`Scanning`) says that all slices before
  the run at hand are counted and that the run has begun where its slice first occurs; that equal slices
  are next to each other is the lemma about sorted lists. From it, `Typing`: no score leaves its scale;
  `PerfectMatch`: a valid name reaches the highest score, and no other can take its place. `AnswerByManual`
  has a hypothesis, `FineScale`: the thresholds are at most 1, and the scale is at least the denominator
  of a threshold times the slices of the two names. Then rounding down, of score and threshold, decides
  as the exact fractions do (`RoundedOrder`). The scale of the code, 65535, satisfies it for thresholds
  of two decimals and names of up to 655 slices in total. Beyond it the two may differ by rounding, and a
  threshold above 1 wraps (see below).
- `SessionProofs` (`SessionAssumption`: foreign addresses are addresses, an address is close to itself).
  The invariant describes the sets of the context during a message (`Bookkeeping`): every element of
  `rejected` and `added` stems from a command, every command that needs an addition has it.
  `NoRecipientLost` then follows because deletions precede additions.
- `LifecycleProofs` (`DaemonAssumption` and `LifecycleAssumption`: the constants that stand for `none`
  are none; `FilesSuffice`: there is always a file that no instance has open, which a finite set of
  files gives if it is larger than that of the instances). The invariant consists of `LockState` (what
  lock and descriptor an instance has, by where it is), `OneHolder` (a lock is granted once per file)
  and `SameFile` (until a file is stolen, all have the file open that has the name). `OneDaemon` needs
  the last two together: one holder per file says nothing of two files. `PidFileTrue` is inductive
  beside them, because only the holder of the lock writes or deletes the pid file, and `Confinement`
  gives `IdentityAsAsked`. `SocketKept`, a property of steps, is proved from the same invariant.
- `LoadingProofs` (`LoadingAssumption`, `UriAssumption`: the types of the configuration files and of the
  contents of the sources; a word is not a delimiter). The URIs of the configuration are arbitrary
  sequences of tokens.
  - `LoaderProtocolKept`. `LoaderProtocol` is about clones, while the libraries are found for the
    originals, before the first load. The invariant follows them: `Searched` says which sources have
    their loader while the search goes on, `Found` that all have it afterwards, `Working` that the clone
    is a copy of the current domain's sources and which handle it has, `Shape` that no domain is without
    a source.
  - `LoadsComplete`, on top of that: `Complete` for all contents of the sources. `Current` says that every
    name that the current source offers was read or is still outstanding in the handle, and `SoFar` that
    the sources before it are done; at the end of a source nothing is outstanding, or it ended early.
  - `Typing`: every variable keeps its type. Sources come from the configuration (`Origins`), indices stay
    in their lists (`Ranges`), and what the parser returns is made of characters of the text (`Uris`).
  - `CredentialsNotLogged`: `UserinfoHidden`. Where the parser finds user information it is the one that
    RFC 3986 sees, or it has a character that user information may not have; what is printed consists of
    characters from other places. Normalising a path splits it into names and joins them again; that this
    adds no character is shown step by step of the folds (`MadeInSteps`).
  - `AskedAsWritten`: `SourceAsAsked`, with the scope given above. The invariant `Asked` says that the
    handle has what the code makes of the URI of the source at hand. The rest is about one URI. With user
    information and a host that is a name, the parser finds host, user information and path where RFC
    3986 does (`UriRead`); the text that is printed without user information, port included, and parsed
    again by the LDAP loader is read back as it was (`PrintedBack`); and a plain path is left alone by
    `normalize()` (`TidyPath`, `PlainPath`). For the credentials every text that the parser accepts is
    followed (`CredentialsSent`): either the parser finds the user information of RFC 3986, or it finds
    none and there is none.
- `OrderLemmas`, without assumptions. `Ranks`: in a finite set with a total order the ranks are the
  numbers up to its size, each taken once and in that order. Induction is done by hand there and in the
  modules that cite it: the numbers for which a statement fails would have a least one (`LeastNumber`),
  and its predecessor leads to a contradiction.

Every safety invariant and every safety property of steps that a run checks is stated by a theorem; the
table of them is `theorems` in `PROJECT.json`. TLC only: liveness (`EventuallyServed`, `StopTerminates`,
`Recovers`, `SupersededDrains`, `Exits`, `ReloadServed`, `LoadEnds`), which needs `ENABLED`, and
`FollowsManual` where `FineScale` does not hold.

## What was found

1. `domainRefresher()` returns if its configuration is not the published one, and that includes the one
   that `reload()` is still loading: if the first domains of a long load have short periods, their
   events are dropped and they are never refreshed again (`refresh_lost`). `ChainKept`, with the
   exception spelled out, is what remains true and is proved.
2. A `retries` list of several non-positive periods leads to accesses before the beginning of an empty
   vector (`retry_periods_all_ignored`).
3. With an MTA without `SMFIF_ADDRCPT_PAR` a mistyped recipient with ESMTP parameters is deleted and not
   replaced (`session_old_mta`).
4. An instance that is started with SIGUSR1 unblocked, as init and systemd do, neither reloads nor ends:
   the signal is ignored, Linux discards it although a thread waits for it in `sigwait()`, and
   `~Globals()` joins that thread for ever (`lifecycle_signal`; `undervest.service.in:11-12`).

Seen while reading, without a run:

- Scores: a threshold above 1.0 wraps in 16 bits and may match (`include/scaled.h:57`), which
  `undervest.conf.5:136-137` excludes.
- Documents: `undervest.conf.5:84-94` gives 500 and 5.5.1 as default status, the code 550 and 5.1.1
  (`milter/configuration.cpp:111`); `undervest.8:151` names `/etc/undervest.conf`, the code
  `/etc/undervest` (`milter/main.cpp:198`); `undervest.8:79` speaks of a timeout of 5 seconds, which the
  code sets for the connection only.
- Configuration: a domain in upper case never matches, since addresses are lower-cased and domain names
  are not; `uri = ""` with the sendmail loader opens the current directory.
- URIs: without an `@` the authority is taken for the path, and the LDAP loader asks the local host,
  although `undervest.conf.5:181` says that dn and password "may be given";
  every digit of a port adds 10; a host in brackets throws behind user information; a host of the form
  `v1.x` is printed in brackets; a character beyond ASCII makes `bitset::test()` throw;
  `loaders/sendmail.cpp` does not look at the result of `parse()`.
- LDAP: a URL without attributes or filter ends the process; an empty value ends the load, which then
  counts as complete; the array of values of an attribute is not freed when the next one is taken.
- A line or value `@domain` adds the empty name.
- Life cycle: `run()` leaves the pid and the lock file behind when the first configuration cannot be
  read (`milter/main.cpp:346-349`), as does an instance that cannot reach them any more; `lock()` leaves
  `_lockfd` set after closing it; connections may still be served while `~Globals()` runs.

## What is not modelled

- The unlocked accesses to `shared_ptr`s (`Globals::conf`, the map of domains): a torn copy is undefined
  behaviour, after which every property would fail; it is listed as a hazard.
- Header insertion and log messages, on which no state depends, other than what is logged of a URI.
- The callbacks and services of `include/milter.h` that Undervest does not use, and the algebra of
  `include/filepath.h`, `include/substring.h`, `include/scaled.h` and `include/uri.h` (relative paths,
  arithmetic, setters) that nothing calls.
- `crc32`, which nothing calls; the syntax of literal addresses, which the parser never accepts; the
  text of the LDAP filter; what libconfuse, OpenLDAP and libmilter do inside.
- The build and packaging files.

## Plan

1. done: `Scheduler`, `TimerService`, `Refresh`, `RetryPeriods`, `Session`, `Matcher`, with their
   proofs.
2. done: `Lifecycle` on `Daemon`: one instance and several, with proofs.
3. done: `Loading` on `Uri` and `FilePath`, with proofs.
4. done: what sorting, counting and parsing compute, as theorems: `RetryPeriods`, `Matcher`, the types
   and the URIs of `Loading`; the timing of retries in `Refresh`.
5. done: `ConfigurationService`, with the proof that `Refresh` implements it.
6. left: `Refresh` as a user of `TimerService`, by refinement; it has a queue of times left instead of
   the clock of the service, so a mapping needs a history of the clock.
