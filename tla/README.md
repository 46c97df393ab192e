# A TLA+ verification of TWMailer

TWMailer (`src/TWMailer`) is a mail server and client in C++. The server takes
connections, one detached thread for each, checks passwords against an LDAP
directory, keeps a ban list of addresses with failed logins, and stores mail as
files with symbolic links. Nothing but the ban list's writer is locked. This
directory holds models of the server's core, the TLC configurations that check
them on small instances, and proofs, checked by TLAPS, of what matters most for
every instance.

## 1. The system

Line numbers refer to `src/TWMailer/include` unless a path says otherwise.

| Component | State | Operations | Interacts with |
|---|---|---|---|
| **SocketServer** `socketServer.hpp` | listening socket; `char ip[]` on the stack of `open()`; one thread, descriptor and Session per connection | accept loop; `handleClient`: ban test, read, process, reply, close | starts threads, calls BanRepository and RequestProcessor |
| **Session** `session.hpp` | socket, ip, username, authenticated | set and read by requests | owned by one thread |
| **RequestProcessor** `requestProcessor.hpp`, `requests/authenticatedRequest.hpp` | table from keyword to Request | `process`: keyword, validity, authentication | calls the requests |
| **Login** `requests/loginRequest.hpp`, `utils/ldapUtils.hpp` | none of its own | ban test, LDAP bind, `setUsername`, `authenticate`, `addFailed` | BanRepository, directory, Session |
| **Mail requests** `requests/{send,list,listSent,read,delete}Request.hpp` | none of their own | validate the text, call the spool, compose the reply | MailRepository |
| **BanRepository** `persistence/banRepository.hpp`, `entities/banTableEntry.hpp` | map from address to (tries, time stamp), `fileOpsMutex`, `bans.json` | `load`, `save`, `isBanned`, `addFailed` | called by all threads |
| **MailRepository** `persistence/mailRepository.hpp`, `entities/mail.hpp` | `mails/<id>.json`, `users/<u>/<id>.json`, `users/<u>/sent/<id>.json`, the key | `addMail`, `getMail`, two listings, `mailExists`, `mailExistsForUser`, `deleteMailForUser`, `setKey` | called by all threads |
| **Socket messages** `utils/socketUtils.hpp` | the byte stream | `isOpen`, `readAll`, `writeAll` | client and server |
| **Texts** `utils/stringUtils.hpp`, validators | none | `split`, `hasValidStructure` | requests, client |
| **Client** `../src/client.cpp`, `utils/inputUtils.hpp` | connection, terminal | login loop, menu, one request at a time | server |
| **Server start** `../src/server.cpp` | options | key, folders, `load`, `open` | all singletons |
| Libraries (AES, JSON, spdlog, CLI11), build files, containers | | | |

### What is hard about it

* **Threads without locks.** `isBanned()` reads the map, the tries and the stamp
  one after another while `addFailed()` of another thread changes them; the
  UUID generator is one unsynchronized Mersenne twister; the spool has no lock
  at all; a thread is given a pointer into the frame of the accept loop.
* **Test, then act.** The ban is tested before the slow call to the directory
  and before the mutex, the attempt is counted after both. A link is tested,
  then removed.
* **Dying in the middle.** `save()` truncates the file before it writes it.
  A SEND writes a file, then one link after another. The process also ends
  itself when a mail cannot be decrypted, when the text of a SEND is no UTF-8,
  and when a call to the file system throws where nothing catches it.
* **Calls that fail quietly.** Streams and `create_symlink` are not looked at,
  not even by `save()`; a key of the wrong length is logged and ignored.
* **Names that are paths.** A name is pasted into a path as it is: the folder of
  `bob/sent` is what bob has sent, that of `../mails` holds the mails themselves.
* **A stream is not a sequence of messages.** `readAll()` takes a block that is
  not full for the end of a text: what the network cuts, joins or fills exactly
  is read as something else, by both ends.
* **Numbers that come round again.** A refused login closes its descriptor deep
  in the call stack, and the next `accept` may return the same number.
* **Time.** Stamps are local time as text, read back without the zone.

### What makes each part correct

* Ban list: the file holds the table whenever no update runs and the last save
  worked; an address cannot collect more tries than threads can slip past the test; a ban is not lifted
  early; the mutex is always released; over crashes the recorded table changes
  only by one failed attempt at a time.
* Spool: a mail is seen only when it is complete, only in the folders its names
  lead to, is never changed, and is where the OK says, over crashes; the
  server trips over no mail of its own; every request ends.
* Connections: a thread works on its own connection only; mail is handled only
  under a name that was proven in the same connection; a ban bounds the
  wrong passwords that can be tried in a row; every request is answered and no dead client kept.
* Messages, texts and client: every request that is composed is read back whole,
  processed at most once, has the effect its fields call for, and is answered;
  each reply is taken for that to the request it belongs to.

## 2. The modules

| Module | What it is |
|---|---|
| `BanEntry` | an entry, the table, and what a time stamp gives when read back |
| `BanTable` | abstract: a recorded table that grows by one attempt at a time |
| `BanRepository` | the repository, one action per access to shared state |
| `BanClaims` | a sentence of the documentation that the code does not keep |
| `BanRepositoryProofs` | proofs |
| `MailStore` | abstract: mail is stored for good, reaches a box once, can be removed |
| `MailRepository` | the spool and the requests on it, one action per access to the file system |
| `MailClaims` | sentences of the documentation and comments that the code does not keep |
| `MailRepositoryProofs` | proofs |
| `SocketServer` | accept loop, connection threads, sessions, login |
| `ServerClaims` | a sentence of the documentation that the code does not keep |
| `SocketServerProofs` | proofs |
| `Requests` | the texts: what the client composes, `split`, the validators, the six requests and their replies, what the client shows |
| `Exchange` | abstract: a user asks, the request takes effect once, the user sees its result |
| `Wire` | a client, the thread that serves it and the two byte streams between them |
| `WireClaims` | sentences of the client that the code does not keep |
| `TextProofs` | proofs about `split` and its inverse, for texts of any length |
| `RequestsProofs` | proofs about composing, processing and showing one request |
| `WireProofs` | the invariants of `Wire` |
| `WireRefinement` | the proof that `Wire` implements `Exchange` |
| `MCBanRepository`, `MCMailRepository`, `MCSocketServer`, `MCWire` | the instances for TLC |

Definitions called `X_Suffix` with the comment "Mutant" are plausible wrong
versions of `X`. They are not part of any specification; they are kept so that
each property can be seen to fail when the code is wrong.

### BanRepository

`bans` and `mutex` are the members, `fileState` and `fileBans` the file, `pc`,
`op`, `arg` the position and argument of each thread's call. `isBanned()` is
`FindEntry`, `TestTries`, `TestAge` (lines 76-83); `addFailed()` is the same
test, then `Lock`, `InsertEntry`, `ResetStale`, `CountTry`,
`UpdateLastInteraction`, `OpenFile`, `WriteFile`, `Unlock` (lines 55-74 and
`save()`). `Crash` and `Load` are the death of the process and
`setStorageFolder()`; a truncated file makes `load()` throw, so the server is
`"failed"` for good.

With `TornReads` the races that are undefined behaviour have their outcomes: a
search of the map while a node is linked into it may miss any entry, and a stamp
copied while it is replaced may parse to any time. `isBanned()` searches twice.
Where the second search (`bans[ip]`, line 81) misses, the operator inserts an
empty entry, which hides the old one, without the mutex and without a save:
`MissEntry` and `InsertStray`. `strayed` records that this has happened since
the process started. The searches of `addFailed()` under the mutex (lines 62 and
66) race with such an insertion in turn.

With `SavesFail` the file may refuse to be opened, or to be written after it was
truncated; `save()` notices neither. `unsaved` records that the last save failed.
The properties about the file hold while neither has happened (`InOrder`): again
after the next save that works, or the next start. `TriesBounded` does not
depend on the saves, nor `BanNotLiftedEarly`.

`ReadBack` is what `mktime` makes of a local time with `tm_isdst = 0`: a stamp
of a summer instant comes back `DstShift` late.

Timing assumption: an `addFailed` that has passed its test is done within
`MaxDelay`, with `MaxDelay <= TRY_TIMEOUT` (5 minutes) and
`TRY_TIMEOUT + MaxDelay < BAN_TIME` (30 minutes). The code has no such bound,
but what it does in between is arithmetic and one small file.

### MailRepository

`mails` and `links` are the files and the links, the latter as pairs of a folder
and an id. A name is the sequence of the parts of a path; `Home` and `SentFolder`
are the folders that `getUserPath()` and `getUserSentPath()` come to when the
file system resolves `.` and `..` (`Down`). So two names may have one folder, one
user's folder may be another's sent folder, and `<<"..", "mails">>` leads to the
mails themselves: there a link is not made, since the file has its name
(`Linked`), a listing shows the mail of everybody (`Holds`), and a DEL removes
the file (`RemoveFile`). `intruded` records that a session with such a name,
which takes `--disableLdap` or an odd directory, has used its folder; the
promises that end there say so (`Sound`).

A SEND is `Send`, `DrawId`, `OpenMail`, `WriteMail`, `LinkSender`, one
`LinkReceiver` for each receiver and `ReplySent`; LIST and LIST_SENT are `List`,
`OpenDirectory`, `NextEntry` for each entry (which reads the mail) and
`ReplyList`; READ is `Read` and `ReadMail`; DEL is `Del`, `CheckLink`, and
`RemoveLink` or `RemoveFile` or `RemoveFails`. Each step that calls the file
system, those that only read included, may instead fail, at most `MaxFaults`
times, with the consequence the code gives it: nobody notices (streams,
`create_symlink`), the answer is ERR (`remove`), or the process ends
(`create_directories`, `is_directory`, `directory_iterator`, `is_regular_file`, a
mail that cannot be opened for reading). `server` tells how it ended: `"killed"`
from outside, which may come anywhere, `"choked"` on the text of a SEND that is
no UTF-8 (`OpenMail`, line 92), or `"exited"` on a file or a failed call. `Start`
may choose another key.
`DrawTogether` is the race of two draws of the unsynchronized generator, which
counts as one of the `MaxFaults` mishaps; `raced` records for the properties
that it has happened. Reading a mail that is torn, or was
stored under another key, ends the process, by `quick_exit` or by an exception
that nothing catches: `GetMail` calls both "wrong". In the code a wrong key is
noticed by the padding or the JSON parser; that a wrong key could by chance
give a valid text is left out. Subject and content are payload that nothing
tells apart and are left out.

### SocketServer

`main` and `buffer` are the accept loop and its `char ip[]`; `files` is the
descriptor table; `session` is, for each connection, where its thread is and
its Session. `Accept`, `CopyAddress`, `Spawn` are lines 83-92 of `open()`; the
other actions are `handleClient()` (lines 44-74) and the two kinds of handlers.
A thread reads from the connection that its descriptor *stands for*, so a
thread with a stale number would be seen to read another client's request.
The password of a login is only right or wrong; the directory may also fail for
a right one. `guesses` (wrong passwords in a row: since the last ban ended or the last
count got stale), `served`
and `proven` are histories for the properties.

Here the ban list is a count for each address: `isBanned` and `addFailed` are
one step each; at any moment a ban may end (`BanEnds`) or the attempts of an
address that is not banned may get too old to count (`CountGetsStale`). What
goes on inside them is BanRepository's matter. A request is one whole message:
how it gets through the stream is Wire's.
An `accept` that fails (no descriptor) leaves no trace: the code starts a thread
on descriptor -1, which ends at its first `recv`.

### Requests, Exchange and Wire

`Requests` has no variables. A text is a sequence of tokens: a keyword, a name,
a line end, the dot that ends a mail. `Compose` is the client's side of a
request (client.cpp:47-196), `Split` is `stringUtils::split`, a recursive
function over positions that drops an empty last field when the text ends with
the delimiter and keeps or drops the other empty ones (`withEmptyElements`),
`IsValid` the validators, `Process` the whole of `RequestProcessor::process()`
with the six requests on one spool (`world`), and `Shows` what the client makes
of the reply: done, failed, or an exception from `at()`. `Process` is a set,
because a login may be refused. The order in which a directory is read is not
fixed by the code; `Entries` lists a folder in one order, the same for equal
folders, about which nothing is assumed (`SetToSeq`). A number is one token
(`Numeral`); that it holds no line end is an assumption, `RequestsConstants`.
`Typeable` says what can come from a terminal: lines without a line end. Every
name has a folder of its own here; names with slashes are MailRepository's.

`Wire` is one connection at a time. `Turns` is one pass of the loop of
`readAll()` on either side: it takes up to `Block` bytes, stops when the block
was not full, loses what follows a NUL in a block, gives the empty text after an
error and what it has read so far after an orderly end. `Ask`, `ReadReply`,
`Show` and `Quit` are the client, `CheckBan`, `IsOpen`, `ReadRequest`, `Handle`
and `DropBanned` the thread; `KillServer`, `BreakNetwork` and `Reconnect` are the
faults and what a user does after them. The network may deliver less than was
sent, at most `MaxCuts` times; `reply` is a history: the reply to the request
that the client waits for, once it has been processed.

`Exchange` is what a user may rely on: a request is processed at most once, with
the effect on the mails that its *fields* call for (not its text), and what is
shown is the result of that very processing. `RefinesExchange` maps a connection
to it by hiding streams, blocks and texts. It is the contract of the protocol,
and it holds exactly as long as no read is cut (`cuts = 0`); `wire_shift` shows
what happens then.

## 3. The runs

| Run | Question | Instance |
|---|---|---|
| `ban_core` | does the file follow memory when saves may fail, does the recorded table evolve as `BanTable`, do tries stay bounded, does no ban end early | 3 threads, 1 address, 6 seconds of which 3 in summer, limit 2, any save fails, 1 crash |
| `ban_torn` | what is left of that when reads race and a search inserts an entry; is the mutex released | 2 threads, 2 addresses, 3 seconds, limit 1, torn reads, 1 crash |
| `mail_core` | are mails whole, private, permanent and where the OK says; does the spool implement `MailStore` | 2 threads, 2 mails, users `bob` and `bob/sent`, 1 or 2 receivers, 2 starts, with a key or none |
| `mail_live` | what is left of that when a call fails, ids clash or a session `../mails` is there; does every request end all the same | 2 threads, 2 mails to `bob` and `../mails`, 1 failing call or racing draw |
| `server_core` | own descriptor, proven name, bounded guesses | 2 connections of one address, 3 requests each, 2 users, 2 descriptors, limit 2 |
| `server_live` | is every request answered and no dead client kept | 2 connections of two addresses, 2 and 1 requests, limit 1 |
| `wire_core` | is no mail stored unasked, is each request taken up at most once and as typed, does it have its effect, show its own result, and get its answer | 2 connections one after the other, 5 requests of 2 users, blocks of 4 tokens, any process killed anywhere, the network breaking |

and five that show a disagreement between code and documentation:

| Run | What TLC finds |
|---|---|
| `ban_summer` | a stamp written in summer time is read back an hour late: the ban lasts 90 minutes, not 30 |
| `mail_links` | SEND is answered OK though a link could not be made |
| `server_address` | a thread takes the address of a later connection for its own |
| `wire_block` | a request whose bytes fill its last block is never answered: both ends wait |
| `wire_shift` | after one read that returned less than was sent, the client takes each reply for that to its next request and reports a refused mail as sent |

The bounds are small and enough for what can happen: two threads are needed
for any of the races, three for two of them to slip past the ban test that a
third one's attempt has closed; the clock runs past `TRY_TIMEOUT`, `BAN_TIME`
and a change of the clock; two mails are needed for one to take the place of
another, two starts for a crash with something left on disk and for a change of
key; two names with one folder between them, and one that leads to the mails,
for names that are paths; three requests for a login, a refused second login and mail; two
descriptors for one to be used again. For the stream, a block of four tokens is
shorter than most texts and longer than a reply of OK, so that texts take one,
two and three blocks and some fill their last one; two connections and five
requests are a login, a mail, a break at any point, a new login and what the
second connection then sees of the mail. `MaxTime`, `MaxCounted`, `MaxCrashes`
(ban list), `Ids`, `MaxFaults`, `MaxStarts` (spool), `MaxRequests` (connections)
and `MaxCuts`, `MaxRequests`, `MaxConnections` (stream) are bounds in guards.

`CHECK_DEADLOCK FALSE` everywhere: a server that found a truncated `bans.json`
or has died for the last time stays dead, and clients have no more requests in
the end. That nobody waits for ever while there is work is what the liveness
properties say.

**Fairness.** Weak fairness of each thread's steps inside a request or inside the
critical section, and of the accept loop: they compute, write local files or
wait for a call that returns. No fairness of clients, crashes or the clock.
`RequestIsAnswered` assumes that the directory answers or the call fails (the
code sets no time limit) and, in its run, as many descriptors as connections.
In `Wire` the two processes each run while they have something to do
(`WF(Receive)`, `WF(Serve)`): reading from a stream that has data or an end, and
computing. Nothing makes a user ask, quit or come back.

**Symmetry** is used in runs without liveness only: threads and ids in the
repositories, descriptors in the server, all compared for equality alone.

## 4. The proofs

All are for any finite set of threads or connections, any addresses, users, ids
and limits that satisfy the named assumptions of the modules.

**BanRepositoryProofs.** `BanInv` is inductive. Exclusion and the table entry a
thread holds are plain bookkeeping. The interesting parts are arithmetic:
`RoomForPending` (a live entry has room for every attempt already past the test)
gives `TriesBounded`, since a thread can slip past the test at most once;
`CountedWhileFresh` and `BannedSinceTest` say that an attempt which resets the
tries passed its test so long ago that the ban, which came later, cannot be
running; this is where the timing assumption enters, and gives
`BanNotLiftedEarly`. `FileFollows` gives `SavedStateIsCurrent`, also with torn
reads and failing saves, while nothing is `unsaved` or `strayed`; the property alone is not inductive, since it says nothing of a thread in
the middle of `save()`. `OneAttemptAhead` says how memory and file differ inside
an update: by one attempt, whose kind (afresh or counted on) and stamp are those
that an entry of its age calls for. With it `RefinesBanTable` is proved:
truncating the file is the step that records the attempt, a save that fails or
a stray insertion suspends the promise and the next good save or start resumes
it, a death before `WriteFile` is the loss, and every other step is hidden. The
proof is for every setting of `TornReads` and `SavesFail`.

**MailRepositoryProofs.** `MailInv` is inductive, with failing calls, crashes
and changing keys. `SendIsOnItsWay` says how far a SEND has come: its file is
its own (`IdsDiffer`, `IdsAreDrawn`), no link shows it before it is closed, and
the receivers without a link are still to do. From these follow
`LinkedMailIsComplete`, `DeliveredAsPosted`, `OkMeansDelivered`,
`DiesOnlyOnForeignMail` and, as an action property, `MailIsForever`. Where a
promise needs distinct ids, sessions outside the folder of the mails (`Sound`) or
no failed call besides (`Calm`) its statement says so; nothing is assumed of
names otherwise: the proofs do not look into what `Home` computes.
`LinksToCome` adds that somebody still to do has never had a link,
and gives `RefinesMailStore`: the sender's link is the step that stores the
mail, each receiver's link a delivery, a removal a removal or nothing. That
theorem assumes `MaxFaults = 0`, that no two names of a list lead to one folder
or to the sender's sent folder (`NoRepeats`), and that no session has the folder
of the mails, as the run does.

**SocketServerProofs.** `ServerInv` is inductive. `LoopHolds` and `ThreadHolds`
follow a descriptor from `accept` through the hand-over to the thread, which
gives `OwnDescriptor`: a thread that closes its descriptor ends in the same
step. `RoomToGuess` relates the wrong passwords to the attempts counted: below
the limit every wrong password is counted or in the hands of a thread about to
count it; at the limit only threads already past the test can try another. Both
together with the cardinality of the two sets of threads give `GuessesBounded`.
That a thread may hold a wrong or garbled address is part of the model, so the
bound holds for the address that is charged, not for the one that guessed.

**TextProofs.** `Split` and the flattening of a list of lines are recursive
functions, so that each needs an induction. The library's induction theorems
cannot be used with these provers, but its theorem that a set of numbers has a
least element can: a position, or a length, at which a fact fails would have a
least one (`Least`, `Induction`, `Backwards`, `SeqInduction`). From it follow
that the recursion of `split` defines a function at all (`TokensFrom`), that its
fields hold no delimiter, that it works through a text piece by piece
(`SplitConcat`), and the two theorems, which together say that `split` and the
client's appending of lines are inverse to each other: `LinesOfUnlines` and
`UnlinesOfLines`.

**RequestsProofs.** With these, what a request of any length becomes:
`ComposedText` (the server finds the keyword and the lines that the client put
there), `ProcessType` (for any text at all, also for a piece of one: the reply is
made of lines, every link is to a mail, one mail more at most), and `ServedAs`:
processing the text of a request does what its *fields* call for (`Served`), and
the client makes of the reply what became of the request. This is where the
validators, the inverted `is_uuid`, the number of lines a mail must have, the
lines that each request takes by number and those that the client takes from the
reply are seen to fit together.

**WireProofs.** Two invariants, for any alphabet, any typeable requests of any
length, any block size and any number of connections.

`TypeInv` is `TypeOK` with `MailsAreAskedFor`, proved together because a list
reply needs an id for every mail, and there are ids enough only because no mail
arises unasked. `wire_core` has no cuts; the theorem is for any number of them:
each cut makes at most one more text of which a mail could be made, and a text
that has been processed is gone (`Texts`). The assumption `MaxRequests +
MaxCuts <= Len(Ids)` is the model's form of ids that never run out.

`WireInv` holds as long as no read was cut. Its heart is `ServerReads`, and
`ClientReads` for the other direction: what has been read and what is still in
the stream make up the message and its NUL, and the stream is empty just when
the NUL has been read. A turn keeps this by one arithmetic fact (`ReadMakesUp`):
a block that is not full ends with the NUL, which is the last byte, so that
nothing follows it inside a block; a full one without the NUL is followed by
another turn; the third case, a full block that ends with the NUL, leaves the
reader waiting with the whole message in hand, and is the reason why the
invariant says `text = message` there and `RequestIsAnswered` makes an
exception. `ClientWaits` says that the two ends never read at once, so nothing
is joined. `TakenUpOnceAsTyped` follows, and with `ServedAs` so does
`LinesAreThere`: the reply in the client's hands is the whole reply to the
request it waits for, and such a reply has the lines.

**WireRefinement.** `Spec => RefinesExchange`: the step `Handle` is the step of
`Exchange` that takes the request up, by `ServedAs` and the invariant; `Ask`,
`Show`, `Reconnect` and the ends of the client are those of the same name, and
all other steps change nothing a user sees. `Handle` with the empty text, which
an error of `read` leaves, is one of them: it is refused and changes nothing
(`ProcessNothing`). `Exchange` extends `Requests` for itself, so the proof
begins with the operators of the two copies being equal.

**Only model-checked:** liveness (`LockIsReleased`, `RequestIsServed` and the two
`RequestIsAnswered`), which needs fairness and `ENABLED`, beyond these provers.
Every other property of the passing runs is a theorem. That the model fits the
code's conversions rests on the source alone where it abstracts: the numbers
of a list as one token, the order of a listing, and the tokens of a text.

## 5. Known deviations without a run

* `isBanned()` reads the tries before and the stamp after another thread's
  `addFailed`: it may refuse an address that was banned at no instant of the call.
* With racing reads `isBanned()` may miss the entry of a banned address; its
  second search may then insert an empty one, which ends the ban in memory and
  with the next save on disk, and corrupts the map for whoever walks it. Of the
  outcomes of that race the model has the missed search and the hidden entry.
* `save()` does not notice that it failed: until the next one the file is behind,
  and truncated if it was the write that failed.
* Wrong passwords more than `TRY_TIMEOUT` apart never make a ban.
* Documentation.md:18 says that each additional attempt increases the count;
  after `TRY_TIMEOUT` it starts at 1 again.
* A receiver named twice in a SEND (or by two names with one folder, `bob` and
  `bob/.`) has two chances to get the link, and the mail again when he deletes
  between them. `RefinesMailStore` is checked for lists without repetition.
* Mail to `bob/sent` comes to lie among what bob has sent, and bob cannot delete
  it there; sendRequest.hpp:26 looks at the length of a name only. A session
  named `../mails` lists everybody's mail and deletes the files themselves.
* When the file of a mail could not be made, or has been removed by such a
  session, a receiver `../mails` gets a link that leads to itself, on which later
  reads fail; the model makes no link there. A name that goes through a folder
  which does not exist (`x/../bob`) is taken for its folder also where the code
  only reads, and would find nothing until `x` is made.
* Documentation.md:28 asks for a key of 16 characters. One of another length is
  logged and ignored (mailRepository.hpp:129-131), the server goes on
  (server.cpp:33-36) and stores every mail in the clear.
* The comment at mailRepository.hpp:86 gives ids "to prevent id clashes". All
  threads draw them from one generator without a lock (uuid.h:13): two racing
  draws may be equal, and the two mails are written to one file
  (`DrawTogether`).
* A mail without a line of text is refused, because `split` drops the empty last
  field and the validator wants five lines: the model has it so, and the user is
  told that it failed.
* Documentation.md:46 writes the keyword "Login"; the code knows "LOGIN" only.
* A client that is killed while the thread has read a part of its request may
  leave that part to be processed as a request: after a cut, the part may be a
  valid one (a shorter mail). Without a cut it never is (`TakenUpOnceAsTyped`).
* After a cut a LIST or READ may be shown another request's reply, and a reply
  with too few lines ends the client with `out_of_range`.
* A text that is not valid UTF-8 makes the JSON library throw what nothing
  catches: the server ends with all its connections (`"choked"`). So does a call
  to the file system that throws while a list, a READ or the test of a DEL runs.
* At the end of its input the client's loops spin for ever; a backspace in the
  password takes back one byte of a character.
* A right password is counted as a failed attempt when the directory cannot be
  reached.

## 6. Not modelled, and why

* **The vendored libraries**, which are all but about 1460 of the 56557 lines of
  source under `src/`: nlohmann JSON, CLI11, spdlog with fmt, plusaes. They are
  third-party code with no state shared between threads that this program relies
  on, except the logger. Their callers' view of them is modelled: a text that is
  torn or stored under another key ends the process, an option is there or not.
  Of the program's own lines most of the functions that change state or decide
  something are mapped; what is left is constructors, logging, includes and
  class heads.
* The setting up of the listening socket and the command line: before any
  connection, they succeed or end the process.
* UUID text: an id is a member of `Ids`; that `is_uuid` answers the opposite of
  its name, and that its callers count on it, is in `Requests`.
* A partial `send()`: `writeAll()` compares the result with 0 only. Blocking
  sockets take the whole of a text unless interrupted or broken, and a break is
  modelled.
* Time limits: there are none in the code, neither for idle clients nor for the
  directory.
* The terminal: menu, echo and editing. No property is about it.
* Bytes of a character: texts are tokens, so block sizes are in tokens.

Each model takes its neighbours as one step: `SocketServer` has the ban list as a
count for each address, `Wire` has the spool as a table of mails and lists in
the order of their numbers. That these steps are what the neighbour promises is the
subject of `BanTable` and `MailStore`, which the detailed modules implement. A
module with the steps of all of them interleaved would have more states than a
run can visit, and no property that is not one of its parts'.

## 7. Plan

Done: the ban list, the spool, the connections and the protocol, each with its
invariant proved, and the three refinements. What could still be added: the
same induction for `BanEntry`, where it would replace no assumption but allow
statements about sequences of attempts; and a proof of `RefinesMailStore` for
lists that name a folder twice, for which `MailStore` would have to say what
such a mail is.
