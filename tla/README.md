# A TLA+ model of Pidgin++ and libpurple

Pidgin++ is an instant messenger: a protocol-independent core (libpurple), one
plugin per protocol, and two user interfaces (Pidgin on GTK+, Finch on text
terminals). Everything runs in one thread, in a GLib main loop that dispatches
timers, readable and writable descriptors, and clicks; the only other actors are
the servers, NetworkManager, and the child processes that look up names. What is
hard in it is therefore not data races but *order*: a handler scheduled by one
event runs after other events have changed what it assumed, and a callback runs
in the middle of a function that goes on to use what the callback destroyed.

The paths below are relative to `src/source/`.

## 1. Inventory

The parts of the program, what each keeps and does, and what would make it
correct. `PROJECT.json` lists all of them with their status, and the hazards
with their lines.

| Part | State | Operations | What makes it correct | Status |
|---|---|---|---|---|
| Byte ring, `libpurple/circbuffer.c` | memory, length, bytes used, two pointers | append (may grow), get_max_read, mark_read | FIFO of bytes; never hands out memory nothing wrote | **modelled and proved** |
| XMPP stream writer, `libpurple/protocols/jabber/jabber.c` | ring, write watcher, socket | send_raw, send_cb, close | stanzas reach the wire whole and in order; a watcher as long as something is buffered | **modelled and proved** |
| Accounts and connections, `libpurple/account.c`, `connection.c`, `prpl.c`, `network.c`, `pidgin/gtkconn.c`, `gtkaccount.c`, `gtkblist.c` | per account: enabled, status, password, dialogs, last error; its connection with state, wants_to_die, two timers; its reconnection entry | enable, disable, connect, register, sign on, fail, disconnect later, retry, delete, NetworkManager | a lost session is retried and a refused one is not; disabled means offline; deleted means forgotten; passwords survive all failures but a refused login | **modelled, safety proved** |
| DNS queries, `libpurple/dnsquery.c` | queue, free children, count, per query: timer, child; per child: pipes | ask, cancel, resolve, child answers, expires, exits | each answer reaches its query; every query is answered, once; no more than 4 children | **modelled, safety proved**, implements `Lookup` |
| BOSH, `libpurple/protocols/jabber/bosh.c` | pending bytes, two HTTP connections with rings and counters, send timer, pipelining or not | send, flush, receive, reconnect, keep alive, give up | the counts of open requests are right; the server always has a request to answer; no stanza stays pending | **modelled, safety proved** |
| File transfers, `libpurple/ft.c`, `protocols/irc/dcc_send.c`, `pidgin/gtkft.c` | status, two ready flags, watcher, buffer, reference count; the protocol's sockets; the list on the screen | request, accept, start, read or write, end, cancel by either side, remove from the list | data complete when "done"; no wake-up lost; nothing in use is freed; each transfer ends | **modelled** for DCC, **safety proved** |
| Signals, `libpurple/signals.c` | handlers in order of priority | connect, disconnect, emit, unregister | handlers called in order, none left out; one that disconnects itself is safe | **modelled and proved** for one signal |
| Saving of files, `libpurple/account.c`, `blist.c` and others, `util.c`, `xmlnode.c` | save timer; the file, its temporary file, and what of them is on disk | change, save, quit, crash, load | what a restart finds is whole; a crash loses five seconds | **modelled and proved** for one file |
| Proxies, `libpurple/proxy.c`; UPnP, NAT-PMP | per connect: query, hosts left, descriptor, watcher, handshake | connect, try next host, handshake steps, cancel | the callback is called once, with a connected socket or an error, and never after cancel | plan 1 |
| Service queries, `libpurple/dnssrv.c` | one child per query | ask, cancel, answer | as DNS queries | plan 2 |
| XMPP IQs and in-band bytestreams, `jabber/iq.c`, `ibb.c` | callbacks by id; sequence numbers, block acknowledgements | send, answer, close | each callback once; blocks in order, none lost | plan 3 |
| Saved statuses, idle, `libpurple/savedstatuses.c`, `idle.c` | current, startup and idle-away status | switch, go idle, come back, restart | the status before idleness comes back | plan 4 |
| MSN switchboards, OSCAR FLAP and rate limits | sessions and queues | connect, send, acknowledge | messages acknowledged or reported as failed | after the plan |
| Conversations, buddy list, privacy, pounces, logs, media, certificates, UI, plugins, other protocols | trees, files, widgets, foreign libraries | | | not modelled, reasons in `PROJECT.json` |

How the parts interact:

- The UI enables an account; `purple_account_connect` asks for a password or
  creates a `PurpleConnection` and calls the protocol's `login`, which looks up
  the server (`dnsquery.c`, `dnssrv.c`), connects (`proxy.c`) and writes through
  a ring (`circbuffer.c`).
- Any of these reports a failure with `purple_connection_error_reason`. That
  tells the UI, whose `gtkconn.c` sets a retry or disables the account, records
  the error, and sets a 0-second timer that closes the connection, because the
  failing code further up the stack still uses it.
- Between that report and that timer the main loop may dispatch anything else:
  most findings below live in this gap, or in the one between a question to the
  user and its answer.

## 2. Modules

| Module | Models | Depends on |
|---|---|---|
| `ByteFifo` | the abstract byte queue | |
| `CircBuffer` | `circbuffer.c` | `ByteFifo` (refinement) |
| `StreamWriter` | the send path of `jabber.c` | `CircBuffer` (its operations, by INSTANCE) |
| `Accounts` | accounts, connections, reconnection, NetworkManager | |
| `Lookup` | the abstract look-up: asked, then called back once, with addresses or an error, or cancelled | |
| `DnsQuery` | `dnsquery.c` with fork | `Lookup` (refinement) |
| `Bosh` | `bosh.c` with its HTTP server | |
| `Xfer` | `ft.c` with IRC's DCC SEND and Pidgin's list | |
| `SavedFile` | the life of `accounts.xml`: timers, `util.c`, disk, crashes | |
| `Signals` | `signals.c` | |
| `CircBufferProofs`, `StreamWriterProofs`, `AccountsProofs`, `SavedFileProofs`, `BoshProofs`, `XferProofs`, `DnsQueryProofs`, `SignalsProofs` | theorems about the eight components | the module they are about |

Each module has one configuration of its name that TLC checks in full; a name
with a suffix is a finding's.

Operators called *slips* stand next to the definition they distort. No
specification uses them. Substituted for the right definition, each makes a
property fail; they show that the property looks at the code, and list the
mistakes it guards against.

### CircBuffer and ByteFifo

The record `cb` is a `PurpleCircBuffer`. `inptr` and `outptr` are offsets. What
`g_realloc` leaves in new memory is the value `Junk`, so a reader that is handed
memory nothing wrote shows. `AppendBytes` is `purple_circ_buffer_append` with the
`grow_circ_buffer` it calls; `Take` marks read any amount up to
`get_max_read`, as a socket that takes part of what it is offered makes the
callers do. `Contents` reads the ring from `outptr`, and `IsFifo` is the
refinement of `ByteFifo` by it.

### StreamWriter

`Send` is `do_jabber_send_raw` in its three outcomes, `SendCb...` the write
callback, `Close` the end of the stream. Bytes are numbered, so that `InOrder`
can say that wire and buffer together are exactly what was sent. Stanzas may be
longer than the growth step of the ring, as XMPP's are. What breaks the ring is not
every long chunk but one event, `Overruns`: an append longer than the whole memory
to a ring that was drained with `inptr` at its end (finding 1). The history variable
`overrun` records it; what the reader of an overrun ring gets is not modelled (the
count soon goes below zero, which a `gsize` cannot), so only `Close` follows.
`InOrder` and `EverythingIsWritten` speak of the time before; `BufferedIsWatched`
holds after it as well. IRC's `irc_send_len` and `irc_send_cb` are the same code.

### Accounts

One action per event of the main loop, with all the handlers it calls: an error
is `purple_connection_error_reason` with the UI's
`pidgin_connection_report_disconnect_reason` and account.c's
`connection_error_cb`. The functions the handlers share (`Connect`,
`Disconnect`, `SetEnabled`, `DoSignon`) are functions of the account's record.
Every protocol is abstracted to what it may do to a connection: sign it on,
report a transient or a fatal error, close the account's session itself.
Before it reports that the server refused the login, a protocol clears a password
that is not saved (XMPP in `jabber_parse_error` and `auth.c`, others alike), so
`FatalError` either keeps or clears it; `RefusedAfterError` is the refusal that comes
in the same data as an earlier error, when it is cleared and nothing more is
reported. `asks` says whether the protocol needs a password at all. NetworkManager's
state starts as anything, for `purple_network_is_available` asks for it at startup,
and falls back to "unknown" when NetworkManager goes away, which nobody is told.
`force_online`, a command-line option, is left out.
`failed` is a history variable. Ordering of timers: `ReconTimer` needs
`disconnect_timeout` to be unset, for it is set at least 8 seconds after the
0-second timer was.

Memory that was freed is not modelled: an account deleted with its connection
alive is undefined behaviour in the program, and the model just stops with that
account (it can be neither added again nor act), so the runs of `Accounts` do
not look for deadlocks. `NothingOutlivesAccount` is how the situation shows.

### DnsQuery

The state is one record. The functions of `dnsquery.c` map a state to the set of
states they may return in, so that a handler composes them in the order of the
code: `HostResolved` takes the answer, runs the caller's callback (which may
cancel other queries), gives the child back or kills it, destroys the query, and
handles the queue. Children are a name, whether they run, are leaving or have
exited, and what is in their pipes. A query is asked once; asking again with
the same name is another query. The main program's `waitpid` sees an exited
child at once; one that has decided to leave may still accept a name and never
answer. `Without` takes a destroyed query out of the queue. `child_failed` is a
history variable: a child could not be made, or would not take the name, and
`handle_next_queued_request` returned without looking at the rest of the queue.
Read errors on the pipes and partial writes of the 516-byte request
(atomic on a pipe) are not modelled, nor is the UI's own resolver, which none
of the two interfaces has. `IsLookup` is the refinement of `Lookup` by the
queries' outcomes. An outcome tells addresses from an error and remembers a second
call: `CalledBack` makes it `"again"` when the query had been called back before, or
cancelled, so that neither is a stuttering step, and `Lookup` has no step there.

### Bosh

One record again, with what the server has received and not answered beside the
program's own counts, so that `OutstandingIsOutstanding` can compare them. The
content of stanzas, requests and answers is left out: what matters is how many
requests are counted, written in part, on the wire, or with the server. `Read`
is `http_connection_read` with the whole loop over the buffer
(`jabber_bosh_http_connection_process`): up to two answers and the beginning of
another, then perhaps the end of the connection, whose handling
(`http_connection_disconnected`) comes before that of the answers, as it does in
the code. An answer that is no XML is ignored, before the session stands as well, and
then no request is open. `over` names the places where the model stops: an error shown to the
user, the stream closed, and two situations the program does not notice and
does not recover from: a request thrown away after it was counted (finding 4),
and a connection made again in the middle of a request (section 5). The
properties speak of sessions up to there.

### Xfer

`ft.c` alone does nothing: it calls the protocol, which calls it back. IRC's DCC
is the protocol that uses `ft.c`'s own loop and sockets in both directions, and
is modelled with it; so is Pidgin's list, because it holds a reference and its
buttons end transfers. `ref` counts the references as the code does, and what
may still touch the transfer (watchers, dialogs, the list, the listening socket,
the pending connect) is state of its own, so that `StillReferenced` relates the
two. `ui` is either "files" (libpurple reads and writes the file itself) or
"moderating" (the UI's `ui_read` and `ui_write`, with the two ready flags). The
bytes of the file are numbered; `taken` is what the source has given, `out` what
the destination has, and `buffer` what `priv->buffer` keeps between two writes.
The peer may acknowledge what it likes: `irc_dccsend_send_read` completes and ends
the transfer at an acknowledgement of the whole file without a look at what was
sent, and `overacked` remembers that. The model stops when the memory is freed
(`ref` 0) or was used after that (`misused`).

### SavedFile

A file is a number (which content of the memory it holds), or torn. There are
three of them: what the program sees under the name, what is on the disk under
it, and the temporary file; they differ until data and directory reach the
disk. `Write` and `Rename` are the two halves of
`purple_util_write_data_to_file_absolute` after the temporary file is open, each
of whose calls may fail. `Crash` ends the program between any two steps,
`PowerFails` also undoes a rename that had not reached the disk, and loses data
that was not synced. `Load` may find a file that is damaged.

### Signals

The list of handlers, and a stack of emissions in progress: whatever an action
does while the stack is not empty, the handler at its top does. An emission keeps
`next`, as the loop keeps `l_next`. `Inserted` puts a handler before the first that
is not smaller, as `g_list_insert_sorted` does, and `Staying` is what
`g_list_delete_link` leaves. If that handler is gone when its turn comes,
the program reads freed memory, and the model stops (`dangling`). `reckless` is
a history variable: somebody disconnected another handler in the middle of an
emission, or unregistered the signal. Nested emissions of the same signal are
modelled, and count as reckless too, since the inner one lets any handler
disconnect itself while the outer one remembers it.

## 3. Runs

| Run | Bounds | Shows |
|---|---|---|
| `circ_fits` | step 2, chunks up to 2, 5 unread, 2 byte values | FIFO across growth and wrap when chunks fit the step |
| `circ_overrun` (violation) | the same with chunks up to 3 | when they do not, the reader is handed memory nothing wrote |
| `stream_writer` | step 3, stanzas up to 5, 10 bytes | order, no repetition, no stall, until a stanza overruns the drained ring |
| `accounts` | 1 account, first delays 1 or 3, maximum 4, with a protocol that needs a password and one that does not, without NetworkManager and with it in any state | what errors, refused logins, retries, registration and deletion leave behind; a lost session is tried again |
| `accounts_retry`, `accounts_delete` (violations) | 1 account | the two findings about accounts |
| `dns` | 3 queries, 3 process names, 2 children at a time | nothing dangles, nothing is mixed up, each query is answered or cancelled once, and answered if nobody cancels and every child can be made |
| `bosh` | 2 connections, 3 open requests before a stanza or keep-alive adds one | the counts agree, the server can always answer, nothing stays pending |
| `bosh_dropped` (violation) | the same | a request is counted and thrown away |
| `xfer` | 5 bytes, buffers of 2, 3 and 4, both directions, both kinds of UI | the file arrives in order, and whole unless the peer acknowledged it early, no wake-up is lost, nothing in use is freed, every transfer ends |
| `saved_file` | 4 contents | crashes, power failures and errors leave a whole file; what is not in it is scheduled, or its save failed |
| `signals` | 2 owners, 1 function, 2 priorities, 4 handlers ever connected, 2 emissions deep | order, completeness, and which handlers may disconnect which |

Why the bounds are enough:

- *Ring.* The code compares lengths and pointers only, and behaves alike for
  every step size; two steps of growth beyond a wrap, a full ring, and a drain
  that ends at the end of the memory all occur within five unread bytes. The
  theorems need no bound.
- *Stream.* Ten bytes fill three steps of growth and let the ring wrap.
- *Accounts.* Accounts share only NetworkManager's state; handlers that go over
  all of them treat each alone. One account meets every interaction of its own
  parts. Delays 1, 2, 3 and 4 exercise the doubling and its cap from both sides
  (3 is capped in one step). The build decides whether NetworkManager is there; its
  first state is any.
- *DNS.* With two children and three queries, one waits while two are at work,
  the free list has up to two members of different age, and the callback of one
  may cancel the two others. A third process name lets a child be made while
  another is on its way out. The maximum is 4 in the code; nothing compares it
  with anything but the count.
- *BOSH.* Two connections are what the code has, and its limit of three failures
  is kept. More than three open requests only repeat what three do: the code
  asks whether counts are zero, never how large they are.
- *Transfers.* Five bytes take at least two portions; the buffer grows from 2 by
  half, and then is capped; the last portion is shorter than the buffer.
- *Files.* The newest content, the one before it in the file, one on disk and one
  in the temporary file are four.
- *Signals.* Four handlers let one be connected before and one behind the
  running one while two are called. One function per owner is enough, since the
  first match is what is disconnected.

`CHECK_DEADLOCK FALSE`: a closed stream, answered queries, a deleted account, a
transfer that is over, a freed handler list are ends the program reaches (or,
for undefined behaviour, where the model stops).

### Fairness

- `StreamWriter`: the main loop calls the write callback whenever the socket is
  writable, and the server keeps reading. Without the second, data may wait for
  ever, as it should.
- `Accounts`: a timer that is due is dispatched. Nothing is assumed of user,
  protocol or network.
- `DnsQuery`: timers and readable pipes are dispatched, a look-up ends (the C
  library gives up by itself), a child that is leaving exits. A child need not
  expire.
- `Bosh`: timers, watchers and answers are dispatched, a connection attempt ends,
  and a server that has a request answers it. The strong fairness of `SendTimer`
  with a free connection says that a server does not for ever hang up on each
  fresh connection before the one-second timer runs: if it does, stanzas wait,
  as they should.
- `Xfer`: the event loop calls back what is ready, and a UI that waits gets
  ready again. The strong fairness of `Moves` says that who is called back again
  and again moves some byte in the end; a peer that stays and never takes or
  gives anything holds a transfer up for ever, since `ft.c` has no time-out.
- `SavedFile`: the timer is dispatched and system calls return.
- `Signals` has none, and no liveness.

## 4. Findings

Each is a run with a counterexample and a finding in `PROJECT.json`.

1. **`circ_overrun`.** `mark_read` wraps `outptr` but not `inptr` when both are
   at the end. If the next chunk needs the memory to grow, it is stored where
   `inptr` was, and the reader starts at the front, on memory that holds old or
   no data. Needs a chunk longer than the growth step, which XMPP (step 512)
   sends. That this is the only way in which a ring goes wrong, for any lengths,
   is what `StreamInOrder` proves.
2. **`accounts_retry`.** NetworkManager's "connected" between an error and the
   0-second disconnect removes the retry, and does not sign on, because the
   account is still connected.
3. **`accounts_delete`.** Deleting an account during its registration, or
   between a fatal error and its disconnect, frees it with its connection alive, because
   `purple_account_set_enabled` leaves a connection alone that `wants_to_die`.
4. **`bosh_dropped`.** A request for a socket that would block is counted, and
   thrown away: -1 compared as a `size_t` is not less than the length.

## 5. Known limits of the code, without a run of their own

These show in the models as conditions of properties, or places where a model
stops. `PROJECT.json` has each as a hazard with its line.

- *Disabled, and online.* Disabling an account does not close its password
  dialog; answering it connects the account (`PasswordOK` in `Accounts`).
- *Signed on after the error.* A protocol that reports "signed on" after its error,
  while the disconnect is pending, makes `pidgin_connection_connected` drop the
  retry; the disconnect still comes, and the account stays offline
  (`SignedOnAfterError` in `LostSessionIsRetried`).
- *A question instead of a retry.* A retry that needs a password opens a dialog, and
  is over; the question whether to delete the account closes that dialog, and a
  kept account has neither session nor retry (`LostSessionIsRetried` ends at the
  dialog).
- *An early acknowledgement.* A peer of a DCC transfer that acknowledges the whole
  file before it was sent has it reported complete (`overacked` in `WholeFile`).
- *A starved queue.* Cancelling the queries that keep the children busy leaves
  the queue with nobody to handle it until another query is asked: the queue is
  served only "uncancelled" (`QueueIsServedUncancelled`).
- *A queue that waits for a failure.* When the child of a query cannot be made, or
  does not take the name, the query is answered with an error, and
  `handle_next_queued_request` returns: whoever waits behind it waits until
  another child is free, or another query is asked (`child_failed` in
  `QueueIsServedUncancelled`). Three queries at two children are too few to show
  it; the attempt to prove the property for any number of them did.
- *A miscounted fork.* A failing `fork` lowers a count it never raised
  (`fork_failed` in `NumberIsRight`).
- *A cut connection.* A BOSH connection that comes back with requests still
  counted, or half a request in its ring, continues with wrong counts and a
  request from the middle ("cut" in `Bosh`).
- *A connect that cannot be cancelled.* `purple_xfer_start` connects without a
  handle, so a transfer cancelled meanwhile is called back all the same
  (`orphaned` in `Xfer`), and one that cannot even start to connect is never told
  (`stuck`).
- *No second try.* A save that fails is not repeated before the next change
  (`failed` in `SavedFile`).
- *Reckless handlers.* A handler that disconnects the next one, or unregisters the
  signal it is called for, makes the emission use freed memory (`Signals`).

## 6. Theorems

All checked by TLAPS, for every value of the constants under the assumptions
named in the modules.

- `CircBufferProofs`: `TypeCorrect`, `ReaderIsSafe`, `ImplementsFifo`, under
  `ChunksFitStep` (chunks no longer than the growth step), without which they
  are false (finding 1). The inductive invariant, `Good(cb)`, adds two things
  to the type invariant: the ring is in one of the three positions of
  `PointersAgree` with no unread `Junk`, for the type alone does not exclude a
  ring whose count and pointers disagree; and the memory, once there is any, is
  at least one growth step long, so that a chunk of one step always fits a
  drained ring without growing it. The lemmas describe growing, storing and
  marking read by what they do to `Contents`, from which the refinement follows.
- `StreamWriterProofs`: `TypeCorrect`, `StreamInOrder` and `BufferIsWatched`, for
  stanzas of any length, any growth step and any number of bytes. The invariant is
  that of the ring, until it is overrun, with the two properties; they need each
  other, since a stanza may go straight to the socket only because, without a
  watcher, the ring is empty. The ring's lemmas are cited, not repeated: its lemma on
  `append` asks nothing of the chunk's length, only that it does not overrun. The type
  says that the socket is never given memory nobody wrote.
- `AccountsProofs`: `TypeCorrect`, `TimersAreOwned`, `DyingIsBrief`,
  `FatalIsFinal`, `DeletionIsClean`, `PasswordSurvives`, `DelaysBackOff`, for any
  set of accounts
  and any delays, with or without NetworkManager. The inductive invariant `IInv`
  says of each record that it is `Good`: its type and the four safety properties
  together, which one by one are not inductive (that a deleted account leaves
  only a connection that wants to die rests on what wants to die being live, and
  so on). A lemma per shared function shows that it keeps a record good, and
  each action is then a case. Two theorems are about steps. `DelaysBackOff`: one that
  shortens the delay of a retry sets it to zero, and it is a success, a refusal, a
  deletion or the network's return; the shared functions are looked at once more
  for that. `PasswordSurvives`: of the steps no user takes, only a refused login
  makes a password unknown, one that is not saved, and it is the end of the session
  (a fatal error, or behind an error whose disconnect is due). That the delayed
  disconnect and the network's loss do not is what the code takes care of in two
  places (`connection.c`:522, `gtkconn.c`:199).
- `SavedFileProofs`: `TypeCorrect`, `FileIsWhole`, `UnsavedScheduled`,
  `SavesAreCurrent`, for any number of contents. The invariant `Good` says what
  each `pc` knows of the temporary file: torn once it is opened, and once it is
  written either torn or what is in memory, and synced either way, so that the
  comparison of sizes before the rename (`f.temp # Torn`) leaves only whole and
  synced files to take the name. That a rename finds what is in memory *now*,
  which `SavesAreCurrent` needs, holds because nothing else of the program runs
  between opening and renaming.
- `BoshProofs`: `TypeCorrect`, `CountsAreExact`, `ServerIsAsked`, for any number
  of requests. The invariant `Good` adds to the three properties what the code
  never says: that a session which pipelines has one connection, and it stands or
  is coming (`Shaped`); that a connection which does not stand owes nothing and
  has no write watcher; and that the failures have not reached the limit. Reading
  is where the counts are wrong for a while: `Mid(s, i, n)` says by how much when
  n answers of connection i are read and not counted, and `Backed` why a
  beginning of a response that stays in the buffer needs no new request. Each
  function of `bosh.c` has its lemma in these terms (`DisconnectedOwing`,
  `HeadersReadMid`, `AnswerMid`, `ProcessedGood`, `RequestedGood`,
  `FlushedGood`), and each event follows from those it calls.
- `XferProofs`: `TypeCorrect`, `FileArrivesWhole`, `NoWakeUpIsLost`,
  `ReferencesSuffice`, for files and buffers of any size. What a transfer holds on
  to (references, watcher, sockets, dialogs, the list) depends on how far it has
  come, and the code nowhere says so in one place: the inductive invariant is the
  type with `Phase`, the six situations a transfer can be in: asked, listening,
  connecting, running, gone, or orphaned by a cancel while it connects. Each says
  what refers to the transfer and how many references that makes, and `Running`
  also says that what was written, and what is left in the buffer, are together
  the first `taken` bytes, and that some wake-up is on its way. The lemmas follow
  one transfer through `end`, `cancel`, `unref` and `do_transfer`. That a transfer
  which is done has arrived whole has one exception, an early acknowledgement
  (`OverackedGone`).
- `DnsQueryProofs`: `TypeCorrect`, `AnswersFindQueries`, `DestroyedUnreachable`,
  `NumberRight`, `QueueServed`, and `ImplementsLookup`, the refinement of `Lookup`,
  for any number of queries and of children at a time. The invariant has two
  parts. `Sound(s, q, x)` ties queries and children together one by one
  (`QueryOK`, `ChildOK`): a query is in one place at most, and child and query
  point at each other. Its parameters name the query being dealt with
  and the child that it leaves idle, which are exempt, so that it also holds
  between two functions of one handler: the callback of an answered query, which
  may cancel others, runs in the middle of `host_resolved`. `Fed(s)` is the
  property about the queue. Each function has a lemma from exempt to exempt, and
  each event joins them. That every step is one of `Lookup` follows from what
  each function does to the outcomes.
- `SignalsProofs`: `TypeCorrect`, `OrderIsKept`, `SelfDisconnectSafe`,
  `NobodyIsLeftOut`, for any number of handlers, owners, priorities and
  nested emissions. The invariant, `Sound`, relates each emission on the stack to
  the list as it is now: those it has called are in front of its next node and no
  larger, those it owes a call are not in front of it (`Follows`), and if it owes
  any, there is a next node (`Expects`). The first holds as long as the next node is in the
  list, the second also when it was freed. Both survive any change of the list
  that leaves the older handlers in their order (`Remains`), which is shown of
  inserting and of deleting; that ids are not used twice keeps a freed node from
  coming back under another handler. Without reckless handlers, the one emission
  finds its next node in the list (`Attended`).

The assumptions are those named in the modules: sizes that are positive, a
`None` that is no query and no child, priorities that are integers, and,
for the ring alone, `ChunksFitStep`, without which its theorems are false.

Two lists are cut by a recursive function (`Without`, `Staying`). The prover
cannot use the induction theorems of its library, since they have an operator
as a parameter, but it can be told that a set of numbers has a least element
(`Least`): the least place where the function would not do what is claimed leads to a
contradiction. `Solvable` shows that way that the function exists, and
`WithoutPicks` and `StayingLeaves` what it returns.

Only model-checked: liveness (`EverythingIsWritten`, `LostSessionIsRetried`,
`EveryQueryAnswered`, `PendingIsSent`, `ChangesAreSaved`, `TransferEnds`), which
is beyond this prover. All invariants and action properties of the passing runs,
and both refinements, are theorems.

## 7. Plan

*Done:* the modules above, with their theorems. They are written without
recursive operators, with named assumptions on their constants, so that they
can be proved about. In this order:

1. `ProxyConnect` over `Lookup`'s promise, which `DnsQuery` implements: hosts
   tried in turn, handshakes, cancel; and `Xfer`'s connecting replaced by it.
2. `DnsSrv`: one child per query, no queue.
3. `Iq` and `Ibb`: callbacks by id, blocks acknowledged in order.
4. Saved statuses and idleness, to be composed with `Accounts` at `Startup`.
5. Proofs of the modules to come, and of what the violated properties still
   promise outside the situations found.

## 8. Not modelled

The repository is about half a million lines, and the models cover the small part
of it in which order matters. What the rest consists of, and why it is left out:

- *Widgets.* `pidgin/` and `finch/` are about a third: trees, text views and menus
  whose state is that of GTK+ or the terminal. What their buttons and timers do
  to the core is modelled where it matters: accounts, retries, transfers.
- *Protocol formats.* Most of `libpurple/protocols/` turns packets into calls of
  `server.c` and back, one packet at a time. Where protocols queue, retry or
  count (MSN's switchboards, OSCAR's rate limits) they resemble the XMPP parts
  that are modelled, and could follow them.
- *Copies of other projects.* The Gadu-Gadu library, `valgrind.h`, ciphers, the
  language bindings: not this program's logic.
- *Containers and conversions.* `util.c`, `xmlnode.c` (but for the writing of
  files), `value.c`, `mime.c`, `ntlm.c`: functions from data to data, with unit
  tests of their own in `libpurple/tests/`.
- *Foreign behaviour.* `media.c`, TLS, D-Bus and NetworkManager's own side belong
  to libraries and services that are not here.
- Of the modelled parts, what `PROJECT.json` says in each component's note.
