# A formal model of the thorny sensor

thorny is a network sensor written in Go: it listens on a few ports, plays an SSH,
Telnet, SMTP or LDAP server to whoever connects, and logs one JSON record per session.
This directory holds TLA+ specifications of it, TLC configurations that check them on
small instances, and TLAPS proofs of the central results for instances of any size.
All paths below are relative to `src/`.

## 1. Inventory

| Component | State it keeps | Operations | Correct when |
|---|---|---|---|
| `main.go` | filters, listeners, context, `wg`, `termChan` | start up, bind, activate, serve, wait for a signal, cancel, wait for the workers | starts all handlers or none; a signal ends the process; a clean exit leaves nothing half done |
| `handler/handler.go` | plugins by name, active handlers by port | `Register`, `Activate`, `ServeAll` | `wg` counts the running `Serve` goroutines |
| `Serve` of `ssh.go`, `telnet.go`, `ldap.go`, `smtp.go` | listener, `acceptChan`, accept goroutine | accept, hand over, stop | every connection becomes one session, in order; after `cancel()` the handler returns |
| Telnet `handleConn` | prompt, message count, captured lines | poll the context, read a line, limit, log | the record tells the dialogue; the session is bounded |
| SMTP `handleConn` | state machine, envelope, TLS, credentials | eleven commands, body, handshake, AUTH exchange, timeouts | the log knows what the dialogue did; the session ends |
| `readSmtpData`, `parseEmailContent` of `smtp.go` | header fields, text | trim, split, merge folded lines | no line of the message is taken twice, or into the wrong part |
| SSH `handleConn` | handshake data, a goroutine per channel | password capture, shell, exec, subsystem | one record, with the reason that ended the session |
| SSH host keys | three key files | load or generate | a start finds usable keys after any crash; clients see another key only after one that could not be read |
| LDAP `handleConn` | bind data, TLS, message counter | bind, search, extended, StartTLS, unbind | one record, whose every field tells the dialogue; the session ends |
| `lib/tls.go` | certificate and key file | generate, write | handlers load a matching pair, whatever an earlier start left |
| `config/` | configuration, sensor addresses | load, infer interface, filter addresses | the addresses are those the sensor can be reached at |
| `filter/` | active packet filters | activate, match | nothing that runs calls `Match` |
| `handler/http.go`, `handler/nginx.go`, `snort.go` | - | - | not reachable: the HTTP plugin is not registered, the Snort reader is commented out |

How they interact. `main` writes the certificate, binds each configured port and activates a
handler on it, then starts the `Serve` goroutine of every handler with one shared context
and one shared `WaitGroup`. A `Serve` goroutine starts an accept goroutine; the two share a
channel of capacity one. Each connection received from the channel gets a goroutine of its
own (`handleConn`), which nobody waits for. Handlers share nothing but the context, the
`WaitGroup`, the logger and the certificate. On SIGINT or SIGTERM `main` cancels the
context; every goroutine polls it in its own way (a `select` in `Serve`, once per line in
Telnet, per packet in LDAP, only in a read timeout in SMTP), and `main` returns, ending the
process, when the `WaitGroup` is zero.

What is hard here: the shutdown handshake of three goroutines per handler and one `main`,
signals before and during it, reads that block while the context is cancelled, dialogues
that a client can leave or stall at any point, deadlines that replace each other, panics
on packets of another shape, files written in place by a process that may end at any
step, and a log record that has to be right on every way out. The hazards in
`PROJECT.json` are listed line by line.

## 2. Modules

| Module | Models | Kind |
|---|---|---|
| `Handoff` | what `Serve` promises: a bounded first-in first-out line before the sessions | abstract |
| `Serve` | the listener, accept goroutine and `Serve` goroutine of every handler | detailed, implements `Handoff` |
| `Thorny` | `main.go` and `handler/handler.go` around `Serve` | composition (EXTENDS `Serve`) |
| `Session` | what every `handleConn` promises: one record with a reason, then the end | abstract |
| `TelnetSession` | `handleConn` of `telnet.go` | detailed, implements `Session` |
| `SmtpMessage` | the lines of a message: `readSmtpData`, `parseEmailContent` | operators |
| `SmtpSession` | `handleConn` of `smtp.go` | detailed, implements `Session` (EXTENDS `SmtpMessage`) |
| `SshSession` | `handleConn` of `ssh.go` and the goroutines of its channels | detailed, implements `Session` |
| `LdapSession` | `handleConn` of `ldap.go` and its dispatch | detailed, implements `Session` |
| `SensorAddresses` | interface and address selection of `config/utils.go` | operators |
| `Startup` | one start of the process after another: configuration, certificate, host keys | EXTENDS `SensorAddresses` |
| `ServeProofs`, `ThornyProofs`, `TelnetProofs`, `SmtpProofs`, `SshProofs`, `LdapProofs`, `StartupProofs` | theorems about the module of that name | proofs |
| `NaturalLemmas` | least elements and ranks in sets of naturals, for the proofs about sequences | proofs |
| `MCServe`, `MCThorny`, `MCTelnet`, `MCSmtp`, `MCSsh`, `MCLdap`, `MCStartup` | values for the constants | model checking |

Operators named for a mistake (`SendOrDrop`, `CreateCertOnce`, ...), marked "Variant with
a bug", are in no next-state relation: put in the place of the definition that follows
them they break the property that `PROJECT.json` names beside them.

### Serve

All variables are functions of the handler: `listening` and `backlog` are the listening
socket, `acceptPc` and `held` the accept goroutine and the connection in its hand,
`acceptChan` the channel, `servePc` the `Serve` goroutine, `sessions` the connections
given to `handleConn`. `Accept`, `AcceptClosed`, `AcceptFails` and `Send` are the accept
goroutine; `AcceptFails` is an error while the listener is open, on which the code
returns as well. `StartServe`, `ServeConn`, `ServeCancelled`, `CloseListener`,
`AwaitAccept` and `Release` are the `Serve` goroutine with its deferred function.
Handlers outside `AcceptAwaiters` (SMTP) skip `AwaitAccept`, having no `acceptWg`.
A connection in `backlog` is lost when the listener is closed; one in the channel at that
moment stays there.

### Thorny

`mainPc` walks through `main`; each step that can end the process has the exit as its
second alternative. Ports are bound and activated in any order (a Go map). Ports accept
clients from `Listen` on, before any handler serves. `Signal` kills the process before
`Notify`, is buffered afterwards and dropped when one is buffered already. `HandlerStep`
lifts the actions of `Serve`; `ServeReturns` adds the decrement of `wg`.
`SessionEnds` is the deferred log record of a session, `SessionPanics` a panic in it,
which no `recover` stops (`handler/ldap.go:212` asserts types unchecked). The sessions
are otherwise those of the modules below, whose dialogue does not touch this state.

### TelnetSession

`pc` is `poll` (the `select` on the context), `scan` (blocked in `Scan`), `check` (the
message limit), then `log`, `close`, `closed` for the deferred functions. The dialogue
state, the message list and the captured credentials are those of the code. `late` is
auxiliary: it counts lines taken after the cancellation. Initial limits are run through
`Validate`, negative ones included.

### SmtpSession

`pc` is `read` (the loop's read of a command line), `data`, `handshake`, `user`,
`password` (the places where a command reads on), then the deferred functions. Each
command is an action with the guard under which it takes effect; refusals and commands
that only answer are `Answer`. A client line is consumed by `TakeLine`. Left out because
no property is about them: the wording of the answers, the client's host name, the
command list, the TLS version and cipher. The rest of a line that a 500 ms timeout has
cut in two is one of the lines a client may send anyway.

The lines after DATA are collected in `body`, and `message` is what is captured of them:
`Captured` of `SmtpMessage`, which keeps the lines as they were sent beside the header
fields and the text. A line is known by whether it begins with a blank and by what it
holds (a colon, other words, nothing, a single dot), which is all that `TrimSpace`, the
search for the blank line, the merging of folded fields and the test for a colon look at;
with a colon it holds the name before it. `Fields` is the code's map of header fields: of
equal names (every relay adds a `Received:`) it keeps the last. The empty address is one of
`Addrs`: `MAIL FROM:` and `RCPT TO:` with nothing after the colon are accepted, and an
empty user name or password is stored like any other. Left out: lines that begin with a dot
among other characters. `AuthReadFails` ends what the client sends: whatever error but a
timeout the read gave, the reads after it are taken to fail as well.

### SshSession

Three kinds of goroutine share the session: `pc` is the one of `handleConn` (`banner`,
`handshake`, `serve` for its `select` loop, then the deferred functions), `chanPc` the one
of each channel the client opened, `muxPc` the packet reader of `golang.org/x/crypto/ssh`.
The library is external: a packet goes into the buffer of its channel, `requests` or
`typed`; a full buffer of requests stalls the reader (`stalled`, with the request `inHand`);
a failing read closes every channel and then the channel of channels (`DropChannels`,
`CloseChans`). Channel goroutines read requests until one is a shell, which they never
leave, or an exec or subsystem, on which they close the connection. `messageCount++` and the
`append` are loads and stores of their own (`LoadCount`, `StoreCount`, `AppendMessage`), as
the compiled code may interleave them. `messages` is its length `kept`; `taken` is
auxiliary.

No write has a deadline (`ssh.go:400` sets one for reads only), so writing is a place of
its own: `Writes(c)` are the places where the goroutine of a channel answers a request
(`reply`), prompts for a line, echoes or answers it, or says farewell before it closes the
connection; `HandleConnWrites` is the answer to a new channel and `CloseAnswered` the mux's
to a channel that the client closes. Such a step is always possible, since the client may
read, but it is certain only once the client has left or the connection has been closed
(`WritesFail`). Until then `DropChannels` is not certain either: the library closes each
channel under the lock that a blocked write holds.

Left out: banner text, credentials other than that there was a login, `commandType` and
`commandData`, channels other than sessions beyond their rejection, a string or slice header
torn between two unsynchronised writers, and the library's goroutine that answers global
requests, which a client that does not read can hold in the same way. The writes of the
handshake are taken to fit the socket's buffer. What a client types is modelled by lines
and not by keys: a line that is empty only brings the next prompt and is left out, and
Ctrl-D and errors of a paste, after which `ReadLine` fails as well, are folded into
`CloseArrives`. `MaxChannels` is at most sixteen, the channels that the library buffers, so
that `chans` is never full.

### LdapSession

`pc` is `poll` (the `select` on the context, and arming the deadline), `read`, `handshake`
and the deferred functions. A packet is what its handling tells apart: a simple bind is
the pair of DN and password it carries, every other one a kind, the "untyped" kinds among
them, on whose children `dispatch` asserts a type they do not have. `Take` counts a packet
before anything of it is looked at. `Panic` unwinds through the deferred function, which
logs a record without a reason; what a panic does to the process is `SessionPanics` of
`Thorny`. StartTLS is `StartTls` and then one of `HandshakeDone`, `HandshakeFails` (the
code prints the error and goes on in the clear) and `HandshakePanics` (the certificate
could not be loaded, `tlsConfig` is nil). Writes have no deadline here either, and are
places of their own: `reply` (`Replied`), and in a StartTLS the answer and the two flights
of the server (`Handshake`); they are certain to return only once the client has left
(`gone`), which is not the same as sending nothing more (`silent`). `dialogue` is auxiliary.
Left out: the bytes of the answers, the search arguments beyond their types, the TLS version
and cipher, a hello that has to be sent again, and what TLS itself writes while it reads
(alerts, answers to key updates).

### Startup

What one start of the process leaves on the disk for the next. A file is a number: the start
whose key or certificate it holds, `Broken` when it is torn or encrypted, `None` when it is
not there. A file is truncated in one step and written in the next (`CreateCert`,
`WriteCert`, ..., `CreateHostFile`, `WriteHostFile`), and the process may end at any step
(`Crash`: a kill, a panic on an error, an `os.Exit`). The certificate pair is generated in
every start (`lib/tls.go`), a host key only if the file does not give a usable one
(`loadSshConfig`), and a host key that cannot be saved is left out with a warning
(`HostFileFails`). `loadSigner` tells a missing file from one that cannot be read no more
than the code does: on any error, a passing one of reading a good file included,
`LoadHostKey` goes on to generate a key and write it over the old one. `LoadPair` is what
the `Serve` of a TLS handler reads back. `Configure` is `NewConfig`: it applies the
operators of `SensorAddresses` to the network the process finds. `known` and `unread` are
auxiliary: the host keys that clients have been shown, and those that some start since then
could not read.

## 3. Runs

| Run | Instance | Shows |
|---|---|---|
| `serve` | two handlers (one with, one without `acceptWg`), three clients, capacity 1 | connections are in one place and begin in order (`OnePlace`, `HandsOffInOrder`); a returning `Serve` is quiet (`DoneMeansQuiet`); every client is served while the handler runs (`EveryConnServed`); after `cancel()` a handler returns or is stuck in the one way `Stuck` describes, and then for ever (`ShutdownEndsOrSticks`, `StuckForever`) |
| `process` | two handlers, two clients, a handler whose sessions may panic | the `WaitGroup` counts (`WaitGroupCounts`), startup is all or nothing (`AllOrNothing`), a clean exit is orderly (`CleanExitIsOrderly`), a stuck handler pins the process (`StuckPinsProcess`), otherwise a signal ends it (`SignalEndsProcess`) |
| `telnet` | limits -1, 0, 1, 2, 3, 4, 6; an exit command and another line | the record tells the dialogue (`CaptureMatchesDialogue`), what the limit bounds (`LimitBoundsSession`), at most one line after the cancellation (`AtMostOneLateLine`), the session ends (`SessionEnds`), one record (`RecordsOnce`) |
| `smtp` | an address, a user name, a password and each of them empty, six kinds of message line with two header names, eight lines, with and without a certificate | the log knows the envelope (`EnvelopeIsLogged`) and the message (`MessageIsCaptured`), nothing before a greeting (`GreetingFirst`), the reason explains the end (`RecordExplainsEnd`), shutdown and departure end the session (`ShutdownEndsSession`, `LeavingEndsSession`), one record (`RecordsOnce`) |
| `ssh` | two channels, four requests or lines, room for one request, limit 2 | which reason survives (`ReasonIsOverwritten`), what racing shells count and keep (`ShellIsCaptured`), the connection and its goroutines end, unless a client that reads nothing holds a write or the mux is wedged (`SessionEnds`), the latter for good (`WedgedForever`), one record (`RecordsOnce`) |
| `ldap` | two logins, four packets, with and without a certificate | every field of the record tells the dialogue (`RecordTellsDialogue`), the reason explains the end (`RecordExplainsEnd`), silence, departure and shutdown end the session unless a client that reads nothing holds a write (`SessionEnds`), one record (`RecordsOnce`) |
| `startup` | three starts, two TLS handlers, six networks, each host key absent, torn or installed, readable or not | handlers load this start's pair (`PairIsThisStarts`), host keys once shown stay until a read fails (`OneIdentity`), the addresses are usable (`AddressesAreUsable`), the sensor comes up after any faults (`ComesUp`) |
| `stuck_accept` | as `serve` | violated: the `return` in `Serve` "also ends go routine above" (`ssh.go:347`, `ldap.go:137`) |
| `lost_records` | as `process` | violated: `wg.Wait()` blocks "until are workers are done" (`main.go:114`) |
| `telnet_limit` | as `telnet` | violated: `handleConn` "disconnects after message limit" (`telnet.go:126`) |
| `smtp_idle` | 240 read timeouts, one line | violated: "Set 2-minute idle timeout" (`smtp.go:195`) |
| `ssh_reason` | one channel, three packets | violated: "client dropped connection" (`ssh.go:498`) |

Bounds. Three clients at one handler fill the channel, the accept goroutine's hand and
leave one in the backlog, so every way of being full occurs; two handlers are needed for
one to stick while the other returns; handlers do not share state otherwise. The Telnet
limits lie on both sides of the three messages every dialogue starts with and include
the replaced ones; `MaxLines` of SMTP is the length of a message begun in the clear and
repeated after STARTTLS. `IdleLimit` is 0 in `smtp`, where no property is about the time
that passes, and the code's 240 in `smtp_idle`. An SSH channel buffers sixteen requests
in the library; with `Room = 1` the second request finds it full. Two channels with a shell
and a line each are the shortest race on the message counter; limit 2 is reached by one
shell alone and missed by two whose updates are lost. Eight SMTP lines leave a message of
three lines after DATA in the shortest dialogue, one for each of a field, a continuation
and what follows it, or a blank line with a line on either side. Four LDAP packets are a
failed StartTLS, one that succeeds and two binds; past the bound (`Chatter`) a client
goes on with packets that are only answered, so `SessionEnds` does not rest on it. Three
starts are one that shows its keys, one that is broken off in a write or fails to read or
save a key, and a last one without faults (`FaultsLeft`) that has to make do with what is
there; a torn file may also be on the disk before the first. The six networks tell the
branches of the interface search and of the filter apart, an interface whose only IPv4
address is 0.0.0.0 among them. The largest state spaces are those of `ssh` (1,655,101
distinct states), `ldap` (1,119,440), `smtp` (979,862) and `startup` (629,280).

Fairness. Goroutines that can run do run, and Go's `select` chooses among its ready cases
at random, so a case that stays ready is taken: weak fairness of each `Serve` and accept
step. Deadlines on sockets make blocked reads return: weak fairness of the timeouts of
TelnetSession and SmtpSession. Never fair: clients, signals, errors of `Accept`, read
errors of a client that has not left, and in `Thorny` the ends of sessions. `StartTls`'s
handshake and the DATA body are under the two-minute deadline set after the last line.
`ShutdownEndsSession` of SMTP rests on the bound of client lines: the code looks at the
context only when a read times out, so a client that sends a line every half second
keeps its session through a shutdown. In `SshSession` the deadline passes, failing reads
are noticed, and each goroutine that can run does; the bound on packets is not needed for
`SessionEnds`, since the deadline also ends a busy connection. In `LdapSession` the
goroutine runs when it can; the two-minute deadline is set before each packet and covers
what is read in the handshake that may follow it, so a silent client is noticed in both;
that what a departed client had sent comes to an end is fair as well. That a process
which has ended is started again (`WF_vars(Start)` in `Startup`) is an assumption about
the operator or a supervisor, not about the code. In `select` no fairness between
its cases is used for SSH.

Writes are fair in so far as the code makes them return. SSH and LDAP set no write deadline,
so a write there is fair only once the client has left or this side has closed the
connection: a client that stays and reads nothing may hold it for ever, and `SessionEnds`
says so (`Held` of `SshSession`, `Writing` of `LdapSession`). A shutdown frees the writes of
SSH's channel goroutines, because `handleConn` then closes the connection, but not the
one that `handleConn` is in itself, and none of LDAP's. SMTP gives every answer five seconds
(`smtp.go:608`) and ignores a failure, so its writes are part of the steps they belong to.
Telnet sets no deadline either, but what it writes in a session is bounded by the message
limit; it is taken to fit the socket's buffer.

Deadlock checking is off in all runs: handlers return, processes exit and sessions
close, after which there is no step. That nobody waits in vain is stated by the liveness
properties.

## 4. Proofs

`ServeProofs` proves, for every set of handlers and connections and every capacity
(assumption `ServeAssumption`: `AcceptAwaiters` are handlers, the capacity is positive,
`NoConn` is no connection):

- `TypeCorrect` and `ServeEndsQuietly`, from the inductive invariant `QuietInv`.
  `DoneMeansQuiet` alone is not inductive: it needs that the port is already closed while
  `Serve` waits (`StagesAgree`), and the types need that the accept goroutine holds a
  connection exactly when it is about to send (`HeldWhenSending`).
- `ConnsInOnePlace`: `OnePlace`, relative to `QuietInv`. The lemma `OneHandlerMoves`
  reduces every step but `Arrive` to one handler, whose set of known connections does
  not grow; lemmas about `Append` and `Tail` give the elements of the channel.
- `OnceStuckAlwaysStuck`: the action property `StuckForever`, step by step in `StuckStep`.
- `ServingNeverBlocks`, `ShutdownNeverBlocks`, `ShutdownOnlyAdvances`: what can be proved
  of `EveryConnServed` and `ShutdownEndsOrSticks` without fairness. In every state in which
  someone is still waited for, the guard of a step forward holds, or the handler is
  `Stuck` or, for a connection in the backlog, the accept goroutine has ended; and in a
  shutdown, once the port is closed, there are four such steps at most
  (`StepsLeft`), none of which is ever undone. `CanMove` and `CanPassOn` are the guards of
  the actions written out, ENABLED being beyond the prover.
- `ServeImplementsHandoff`: the refinement `HandsOffInOrder`. `Accept` is the abstract
  `Take`, `ServeConn` is `Begin`, `ServeCancelled` is `Stop`, and every other step is a
  stutter, `Send` because moving a connection from the hand to the end of the channel
  leaves the line as it is. It needs `OnePlace` (the connection is new) and
  `ChanBounded` (there is room in the line).

`ThornyProofs` lifts this to the whole process, for every finite set of handlers
(`FinitelyManyHandlers`; a configuration names finitely many). `ThornyInv` adds to
`QuietInv` that `wg` is the cardinality of `Live`, the handlers whose `Serve` runs, that
startup goes stage by stage (`StartupOrder`) and how the process exits (`ExitOrder`):

- `WaitGroupIsExact` and `ProcessTypeCorrect`: the lemma `WhoMoves` names the one handler
  a step of `Serve` moves, so that `Live` gains or loses one element exactly when
  `wg.Add` or `wg.Done` runs. That `wg` is never negative follows from `Live`, not from
  the type of `wg` alone.
- `StartupIsAllOrNothing`, from `StartupOrder`; `CleanExitLeavesNoHandler`, because an
  exact counter of zero means that `Live` is empty, and `DoneMeansQuiet` tells what a
  returned handler looks like.
- `StuckHandlerPinsProcess`: a stuck handler is in `Live`, so `wg` is not zero. With
  `StuckStep` it gives `HungShutdownIsFinal`: no step undoes the stuck handler either.
- `ProcessKeepsConnsInOnePlace`, `ProcessEndsServesQuietly` and
  `ProcessImplementsHandoff`: what `Serve` promises holds of the whole process, whose
  handlers are bound and started one after the other and not, as in `ServeInit`, all at
  once. By `WhoMoves` only `Listen` and `ServeAll` need a new argument: they move no
  connection and stop no handler (`MainMovesNoConn`).
- `WaitNeverBlocks`: while `main` waits, `wg.Wait()` can return or one of the handlers it
  counts can move or is stuck, the safety core of `SignalEndsProcess`;
  `ProcessShutdownOnlyAdvances` is `ShutdownOnlyAdvances` for the process.

`TelnetProofs` proves the safety properties of `TelnetSession` for every set of lines and
every configured limit (`TelnetAssumption`), where the run has seven limits and two kinds
of lines. `TelnetInv` adds to the properties that there is room for one more message
whenever the loop goes on (`Room`, which makes `LimitBoundsSession` inductive), that a read
begins only with an uncancelled context (`LateOrder`, for `TelnetStopsReading`) and that a
reason is set exactly outside the loop (`ReasonOrder`, for `TelnetCaptures` and for the
refinement `TelnetImplementsSession`, where `LogRecord` is the abstract `LogEnd`,
`CloseConn` is `Finish` and every other step a stutter).

`SmtpProofs` proves `EnvelopeIsLogged`, `RecordExplainsEnd`, `GreetingFirst` and the
refinement for any addresses and credentials, the empty ones included, any message lines and
dialogue lengths (`SmtpAssumption`). `SmtpInv` adds that only a greeted client is read a
message or credentials from (`Greeted`, for `GreetingFirst`), that a handshake runs before
the upgrade and `tlsUsed` is set with it (`TlsOrder`), and why the loop was left before that
is logged (`EndIsExplained`, of which `RecordExplainsEnd` is the shadow in the record). The
lemma `SuffixFacts` is what `EnvelopeIsLogged` needs of sequences. `SmtpMessageIsCaptured`
proves `MessageIsCaptured` for messages of any length. Its invariant `MessageSent` says that
a logged message is `Captured` of the lines that came after DATA; the rest is about the
operators of `SmtpMessage`, which are therefore written with index sets instead of folds:
`HeaderEnds` (there is a first blank line, or an end, by the least element of a set of
naturals) and `FieldsOfTrimmed` (lines that have been trimmed are never folded, so a field
is a single line with a colon, the last of its name; the last is the greatest element of a
set of line numbers, `GreatestUpTo` of `NaturalLemmas`).

`SshProofs` proves `WedgedForever`, `ReasonIsOverwritten` and the refinement for any
number of channels and packets, any room for requests and any limit (`SshAssumption`).
The lemma `ServeChannelStep` sums up in `Served` what any of the ten steps of a channel
goroutine may do to the rest; the other lemmas treat these goroutines through it.
`SshInv` adds that a channel waits in `chans` once, its goroutine not running yet, and
that the mux stalls only for a channel whose goroutine does (`ChansOrder`: so nothing
ever puts a wedged channel's goroutine back to its requests), that nothing runs before
the handshake is done (`HandshakeFirst`), and that a connection which neither client nor
clock nor main has ended was closed by a channel that is done (`ClosedByChannel`). The
last needs `OneChannelIsOne`: with one accepted channel there is no other goroutine left
that could write the reason again; and `OneChannelBefore`: accepted channels never become
fewer. `SshShellIsCaptured` rests on a second invariant, `Counts`. For shells that race,
`CountsLag` says that every goroutine which has not yet counted (kept) its command holds
back one of those taken, and that a stale value about to be stored is no greater: without
the cardinality of those goroutines on the left the bound is not inductive. For a single
shell, `CountsExact` has equations in place of the bounds. `SshEndIsFinal` says that an
ended connection stays ended, and that goroutines stranded by a wedged mux after
`handleConn` has returned are never freed. `SshNeverBlocks` is the safety core of
`SessionEnds`: on a connection that is down or that a shutdown has reached, one of
`handleConn`, the mux and the channel goroutines can take a step until all are gone, or the
mux is wedged, or somebody is held in a write (`Held`): readiness is the guard of the step
and, if the step writes, that the write fails. It needs `MuxOrder`: when the mux is gone
every channel has been told, so that no shell and no request loop waits for more, and when
`handleConn` has returned the connection is closed, so that nobody is held any longer.
`StalledForReason` is the case of a mux with a request in its hand.

`LdapProofs` proves `RecordTellsDialogue`, `RecordExplainsEnd` and the refinement for any
logins and dialogues of any length (`LdapAssumption`). `TakeStep` says once what taking a
packet does to the facts about the dialogue: the kinds met, the number of binds, the last
packet. `EndIsExplained` is `RecordExplainsEnd` before the record is logged.

`StartupProofs` proves `PairIsThisStarts` and `OneIdentity` for any number of starts, any
TLS handlers and any networks (`StartupAssumption`). `CertOrder` says that a process past
`GenerateSelfSignedCert` has its own pair on the disk, `HostKeyOrder` that a key which is
offered is the one on the disk, one that is known to clients is so too unless it could not
be read since, and that a file is written over only when it is useless or could not be read.
`HostKeysChangeIfUnread` is `OneIdentity`, which follows from it. `FaultFreeStartOffersAll`
is the safety core of `ComesUp`: a start without a fault offers every host key by the time
it serves, whatever it has found on the disk. `SensorAddressesAreUsable` proves
`AddressesAreUsable`, for any number of interfaces with any addresses, from the invariant
`AddressesInferred` (the addresses are those the operators of `SensorAddresses` compute) and
a lemma for each operator. Filtering is the operator `At`, the elements at a set of indices
in their order; `AtFacts` says that it loses, doubles and invents none, by the ranks of
`NaturalLemmas` in place of an induction. The proof is what brought up 0.0.0.0: on an
interface that was inferred for that address the primary one is an IPv6 address, a case that
`AddressesAreUsable` now states and a network of the run has. The type part, `DiskTypeOK`,
leaves out the addresses; `StartupTypeCorrect` adds them.

Every invariant and every action property of the passing runs is a theorem. Only
model-checked are the liveness properties, since fairness is out of the prover's reach:
`EveryConnServed`, `ShutdownEndsOrSticks`, `SignalEndsProcess`, `SessionEnds` of Telnet,
SSH and LDAP, `ShutdownEndsSession`, `LeavingEndsSession` and `ComesUp`; and the five
counterexamples of section 5.

## 5. Where the code and its comments disagree

1. `ssh.go:347`, `ldap.go:137`: with a full channel the accept goroutine never ends, and
   `Serve` never returns (`stuck_accept`). `StuckPinsProcess` shows the effect on `main`.
2. `main.go:114`: the `WaitGroup` does not count sessions, whose records are lost when the
   process exits (`lost_records`).
3. `telnet.go:126`: message limits of one and two are passed (`telnet_limit`).
4. `smtp.go:195`: the idle timeout is never enforced (`smtp_idle`).
5. `ssh.go:498`: the connection may well have been closed by this side, and the reason the
   channel goroutine gave for it is overwritten (`ssh_reason`, `ReasonIsOverwritten`).

Without a run of their own, since the sentence is loose or the effect shows in another
property: the deadline that is to "prevent hanging connections" (`ssh.go:398`), which does
not end the connection of a client that reads nothing, nor the goroutines behind a wedged
mux (`SessionEnds` of `SshSession` excepts both, `WedgedForever` shows the second);
"generating a new one if missing" (`ssh.go:179`), where a file that is torn, encrypted or
for the moment unreadable is replaced as well (`LoadHostKey`, `OneIdentity`); "excludes
link-local" addresses (`config/utils.go:34`), which is true of IPv6 ones only
(`FilterSensorIPs`, `AddressesAreUsable`); the merging of folded header fields
(`smtp.go:582`), which never happens because the lines have been trimmed
(`MessageIsCaptured`); the LDAP message counter, which is one more than the packets, and
`tls`, logged for a StartTLS that failed (`RecordTellsDialogue`).

## 6. Not modelled

- `handler/http.go`, `handler/nginx.go`, `snort.go`: not reachable. The HTTP plugin is not
  registered, `nginx.go` holds its templates, and the only call of the Snort reader is
  commented out.
- `Match` of the packet filters (`filter/`): its only caller is the Snort reader. Their
  activation is a step of `Thorny`.
- The log file, whose errors `main` ignores: the loss of every record is one ignored error
  (hazard `main.go:44`), not a matter of steps.
- YAML decoding, texts sent to clients, certificate fields, key formats: input, output and
  wording.
- In `Startup`: a loss of power, after which flushed and unflushed files differ; other
  programs that change the files; a certificate or its key that its own process cannot read
  back; two configured paths that are equal; a network that changes between the reads of one
  start.
- Writes of Telnet, of the SSH handshake and of the SSH library's answers to global requests
  that block for want of a reader, and memory that clients can make grow (body, messages,
  line buffers): no bound in the code speaks of them.
- Five hazards have no property, with the reason in `PROJECT.json`: user name and password
  of different AUTH exchanges (`smtp.go:444`), a handler that stops accepting on an error
  (`telnet.go:100`) and a signal before `Notify` (`main.go:107`), all three in the models
  but promised by nothing in the repository; lines cut by the 500 ms timeout
  (`smtp.go:211`), whose pieces are lines of the client in the model; and the log file
  above.

## 7. Order of the work

The modules were built from the shutdown of one handler outwards: `Handoff`, `Serve`,
`Thorny`, `Session` and `TelnetSession`, `SmtpSession`, `SshSession`, then `LdapSession`,
`Startup` with `SensorAddresses`, and `SmtpMessage`; the proofs in the same order. What
would add most next:

1. Sessions inside `Thorny` that implement `Session` instead of being one step, so that
   `CleanExitKeepsRecords` is refuted together with the dialogue it cuts off.
2. Measures that go down in every fair step of a session, as `StepsLeft` does in a
   shutdown, for SSH above all.
3. The packet filters' `Match`, should the Snort reader be called again.
