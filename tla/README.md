# CoreMail: a TLA+ verification project

CoreMail is a mail server suite in TypeScript: SMTP, IMAP, POP3, JMAP, EWS,
MAPI, ActiveSync, CalDAV and a web API, all of them Node.js processes over one
PostgreSQL database (Prisma), Redis (BullMQ queues, publish/subscribe, small
values) and MinIO (attachments). This directory holds TLA+ modules that model
the parts in which the order of events decides whether mail is lost, repeated
or misplaced; TLC configurations that check them on small instances; and proofs
that TLAPS checks for every value of the constants.

`PROJECT.json` lists the components, runs, mutants, findings, hazards and
theorems, and says for every definition which lines of the source it stands
for. Paths below are relative to `src/packages/`.

## 1. What there is

### How the parts interact

The servers do not call each other. They meet in three places:

* the **database**: every protocol reads and writes the rows `Mailbox`
  (`uidNext`, `highestModSeq`), `Folder` (`totalCount`, `unreadCount`) and
  `Message` (`uid`, `modSeq`, `flags`, `folderId`, `deletedAt`). Nearly every
  request is a sequence of separate statements without a transaction and
  without a lock, so that other requests see and change what lies between two
  of them;
* the **outbound queue**: web API, SMTP submission, JMAP, MAPI and mail rules
  add a job to the BullMQ queue `smtp-outbound`; one worker in `smtp-server`
  sends it;
* **events**: `mail:new` and `mail:update` on Redis wake IMAP IDLE, JMAP push
  and the web clients; `config:*` channels make listeners reload.

Inside one process JavaScript runs one callback at a time: what can interleave
are the stretches between two `await`s. The models are cut there, and only
there.

### Components

| Component | State | Operations | What is hard | What makes it correct | Module |
|---|---|---|---|---|---|
| Outbound queue and relay (`smtp-server/src/outbound`) | the job, its attempts, copies delivered, attachments in MinIO, `scheduledStatus` of the copy in "Sent" | worker handler, `completed` and `failed` listeners, bounces, cleanup, cancel request, admin retry and delete | an attempt fails half way and is repeated; the listener runs after BullMQ has decided; cancel races the worker; crashes | SENT means that everyone was served, copies are bounded by failures and hosts, a cancelled mail stays with its sender, failures are told, attachments live as long as an attempt may need them | `OutboundQueue`, `Delivery` |
| Mail store (`storage/prisma`, the writers in smtp-, jmap-, imap-, ews-server and backup-service) | mailbox, folder and message rows | deliver, create, APPEND, COPY, MOVE, STORE, EXPUNGE, JMAP update and destroy, import | allocation, insert and counting are separate statements | a UID names one message for ever and lies below UIDNEXT; no accepted message is refused; counters agree with rows | `MailStore` (partly) |
| Web API and web client (`api-gateway/src/routes/mail.ts`, `web-client`) | rows; the list that is shown, the offer to undo | list, open, mark, reply, move, delete, undo, verdicts on senders, emptying and removing folders | requests by a list fetched earlier; read, then write; work in the background; a throw ends the gateway | nothing is destroyed unasked, requests leave each other's fields alone, undo can be done, verdicts are remembered | `WebMail` (partly) |
| JMAP synchronisation (`jmap-server/src/state.ts`, `methods/email*.ts`) | a state string of four numbers | state, `/changes`, `/get` | the parts of a state are read apart; two kinds of mod-sequence | a client with the current state lacks no mail but what came late or was cut off, and shows the rest as it is | `JmapSync` |
| JMAP push (`jmap-server/src/push`) | accounts noted, timers, flushes | announcement, flush, pause, end | notes are cleared between awaits; flushes overlap | every announced change is followed by a state that contains it | `JmapPush` |
| JMAP submission (`methods/submission.ts`) | objects in Redis, jobs | create, cancel, destroy | the job is added before the object is saved; the worker is elsewhere | an object says what became of its mail | `JmapSubmission` |
| SMTP session (`smtp-server/src/core/session.ts`) | protocol state, transaction, command queue, timers | one handler per command, line reader, DATA, AUTH, STARTTLS | lines are read while a handler awaits; pipelining | replies in order, what was believed stored is stored, no envelope without a user | `SmtpSession` |
| SMTP inbound pipeline, submission (`smtp-server/src/inbound`, `handlers`, `submission`) | none of its own | RCPT, filter, expand aliases, store for each recipient, queue the rest | a failure after some recipients were served; a retry beside the first try | every accepted recipient is accounted for; the sender learns what became of it | `InboundMail` (partly) |
| Rooms (`smtp-server/src/inbound/handler.ts`, `admin/resources.ts`) | bookings | invitations and cancellations by mail, administration | handlers side by side check and then write | a booking stands for an accepted request | `RoomBooking` |
| Events and invitations (`api-gateway/src/routes/calendar.ts`, `storage/src/itip-inbound.ts`) | event rows with sequence and guest list, mails | create, change, delete, answer, CalDAV PUT | two PUTs read one row; replies late, twice, reordered | guests show the newest state mailed to them; answers to it are kept | `Invitations` (partly) |
| IMAP sessions (`imap-server`) | selected folder | SELECT, FETCH, STORE, EXPUNGE, CLOSE, UNSELECT | handlers of one session side by side; numbers are counted anew by each | commands act where the client is, on what it meant | `ImapView` (partly) |
| POP3 (`pop3-server`) | maildrop read at login, deletion marks | USER, PASS, RETR, DELE, RSET, QUIT | handlers run side by side when pipelined | QUIT deletes what was marked and nothing else | `Pop3Session` |
| ActiveSync (`activesync`) | sync keys of a device | Sync, Ping | keys are times, mod-sequences mostly counters; a window | what a device misses is missed for a known reason, the rest arrives | `EasSync` (partly) |
| Listeners of SMTP, IMAP, POP3 (`*/src/server.ts`) | map from port to server, reload flags, certificate | reload, poll, refresh | messages during a reload, lost messages, restarts | when all is quiet the listeners are those of the table | `Listeners` (partly) |
| Certificates and HTTPS listener (`routes/admin/certificates.ts`, `tls-proxy.ts`) | rows, settings, timers, the listener's map | request, renew, upload, activate, delete, cleanup, reload | issuance goes on after the answer; reloads overlap; keys may not fit | what is served, set and flagged is one certificate | `Certificates` (partly) |
| Retention (`backup-service/src/retention`) | tags, recoverable folders, quota | assistant run, sweep, owner's moves and tags | lists are stale when used; two runs | no message goes before its time or against its tag | `Retention` |
| Backup scheduler (`backup-service/src/scheduler`) | cron jobs and workers in memory, schedule and job rows | reload each minute, full and single backup, watchdog | jobs outlive the request, not the process | cron jobs follow the rows; every job ends | `BackupJobs` (partly) |
| Connection limiter (`smtp-server/src/core/ip-limiter.ts`) | counts per address in memory, failures in Redis | track, release, record failure, ban | increment and expiry are two commands | a count equals the open connections | – |
| Authentication (`auth-service`, `core/src/auth`) | sessions, challenges, backup codes | login, second factor, refresh | read, compare, write | a one-time value is accepted once | – |
| Security filter (`security-filter`) | greylist triplets in Redis | connection and content checks | get and set are apart | a retry after the waiting time passes | – |
| EWS and MAPI (`ews-server`) | subscriptions, property bags | item operations, SyncFolderItems, submit | more writers of the store | as the mail store | – |
| JMAP dispatcher, LDAP and SSO connectors, CalDAV and CardDAV, autodiscover, storage and core library, CLI, admin panel | none that others rely on | requests of one statement, formatting | – | – | – |

## 2. What is modelled

| Module | Models | Extends |
|---|---|---|
| `Delivery` | what the outbound path promises about one message | – |
| `OutboundQueue` | one outbound job, worker, listeners, users | implements `Delivery` |
| `WebMail` | a mailbox behind the web gateway and a web client | – |
| `MailStore` | one mailbox and concurrent requests on it | – |
| `JmapSync` | a JMAP client synchronising with that mailbox | `MailStore` |
| `JmapPush` | one push connection (EventSource, WebSocket or Web Push) | – |
| `JmapSubmission` | one submission, its object and its job | – |
| `SmtpSession` | one SMTP connection and its client | – |
| `InboundMail` | one message from a peer's queue to the mailboxes | – |
| `RoomBooking` | bookings of rooms by mail | – |
| `Invitations` | one event, its guests' calendars and their answers | – |
| `Pop3Session` | POP3 sessions and their clients on one INBOX | – |
| `ImapView` | IMAP sessions and their clients on one mailbox | – |
| `EasSync` | one folder on the server and on a device | – |
| `Listeners` | a server process that follows its rows and certificate | – |
| `Certificates` | certificate rows, settings, issuances, HTTPS listener | – |
| `Retention` | the Managed Folder Assistant on one mailbox | – |
| `BackupJobs` | schedules, cron jobs, job rows, workers | – |
| `OutboundQueueProofs`, `SmtpSessionProofs`, `InboundMailProofs`, `InvitationsProofs` | their theorems | each its module, `TLAPS` |
| `MailStoreProofs` | the theorems about `MailStore` and `JmapSync` | these two |
| `ServicesProofs` | the theorems about `Listeners`, `Certificates` and `BackupJobs` | these three |
| `ClientsProofs` | the theorems about `Pop3Session`, `ImapView`, `EasSync` and `WebMail` | these four |
| `RecordsProofs` | the theorems about `JmapPush`, `JmapSubmission`, `RoomBooking` and `Retention` | these four |
| `MCOutboundQueue`, `MCMailStore`, `MCJmapSync`, `MCSmtpSession`, `MCEasSync`, `MCImapView`, `MCListeners` | the constants of their runs | each its module |
| `MCJobs`, `MCSessions`, `MCInboundMail`, `MCClients`, `MCRecords` | runs that several modules share | see below |

Five runs are shared. A variable that is chosen at the start and never changes
(`jobs`, `seen`, `subject`, `server`, `kind`) says which module runs; the
others stay at one first state. The state space is the sum, not the product,
and each module behaves exactly as it does alone: its next-state relation and
its fairness conditions are used under that choice.

| Shared run | Chooses among |
|---|---|
| `MCJobs` (`jobs`) | `OutboundQueue`, `BackupJobs` twice (schedules; jobs started by hand) |
| `MCSessions` (`seen`) | `SmtpSession`, `WebMail` |
| `MCInboundMail` (`subject`) | `InboundMail`, `Invitations` |
| `MCClients` (`server`) | `Pop3Session`, `ImapView`, `Listeners` |
| `MCRecords` (`kind`) | `JmapSync`, `JmapPush`, `JmapSubmission`, `RoomBooking`, `Retention`, `Certificates` twice (mail servers' certificate; HTTPS listener) |

### OutboundQueue and Delivery

One job, from `queue.add` to its end. The worker's handler (`outbound/queue.ts`
174-310) is cut at its awaits: `CheckCancelled`, `BuildMessage`, one
`StoreLocal` or `DropLocal` per local recipient, one `RelayTo` per recipient
domain, `MarkSent`. `storeInboundMessage` decides for itself: it returns without
storing when the mailbox or its folder is gone, when a transport rule refuses
the mail or puts it into a quarantine that does not exist (`message.ts`
134-148), and when a rule of the recipient's discards it; that is `DropLocal`,
and the caller cannot tell it from a copy stored. A domain has `Hosts` many MX
hosts: one whose `sendMail` rejects, perhaps after it took the message, is
followed by the next in the same attempt (`NextHost`), and when the last one
rejects the attempt fails. `StoreThrows`, `RelayThrows` and `Throws` are the
failures at each await, before or after it had its effect. `pc`, `todo` and
`tried` are the place in the handler and what is left of its loops. The promises
the listeners start and nobody awaits are in `pending`: `CleanupAttachments` and
`SendDsnBounce` come later, or never if the process dies (`Crash`). BullMQ is
external: job states, the count of attempts, the retry decision – taken *before*
the `failed` listener runs – and stalled jobs follow from the options the code
passes and the calls it makes. The web API's cancel request
(`api-gateway/src/routes/mail.ts`) is three steps, and the administrator's retry
and delete are one each.

`Delivery` is the promise without attempts, hosts, retries, crashes and
listeners: parties get the message one at a time while it is open, or drop it
if they are mailboxes of our own, it is called sent when all are through, and a
failed one may be opened again. `ImplementsDelivery` is the refinement; the
mapping is `Outcome`, the parties reached and those that dropped it.

### MailStore

The mailbox row, the folder counters, the message rows, and up to two requests
being served. A request is a record in `wr`: the statement it is about to
execute (`pc`), and what it has read or been given and not used yet; the rows
it has read are in `snap`. Each action is one SQL statement or one transaction,
with the unique index `[folderId, uid]` and the errors it raises. Requests of
the same shape share actions: delivery and JMAP create use `Allocate`, APPEND,
CreateItem and the import use `AllocateUid`, all use `Insert`; the differences
(where the mod-sequence and the creation time come from, what a refusal leads
to, what is counted) are in the operators beside them. `mix` says which
requests each writer may be asked for; it is chosen at the start and never
changes, so that one run covers several mixes of clients.

`Crash` is a request that dies between two statements. `clock` is
`Date.now()`; a mod-sequence made from it is `CounterLimit` and more, as in
`email-changes.ts`.

### WebMail

A row per message, with its folder and two flags. A request of the web API is
a record in `wmTask`: what it was asked for, by which ids, what it has read,
and how far it is; `WmRead`, then one or two writes, each a statement or one
transaction. A write that the database refuses (a row that is gone, a folder
that was removed) is an exception that nothing catches: `WmDies` ends the
gateway, with every request in work. The verdicts "junk" and "not junk" start
work that goes on after the answer (`WmSenders`, `WmLooksUp`, `WmWritesList`)
and that decides where later mail of that sender goes (`WmArrives`).

PATCH writes one flag of one row (`WmMarkSome`, as the bulk request does for
several), a whole list of flags (`WmReply`: the reader adds Answered to the
flags that GET gave it, `wmHeld`, and sends them all), or a folder (`WmFile`).

The client acts on `wmShown`, the list it fetched last; an answer makes it
fetch anew (`WmReceive`, `WmList`, `WmShow`), an error does not. `wmSaid` is
where everything would be if requests were served one by one when they are
made, `wmMixed` names the message and field that two requests wrote side by
side. `wmCast` is what users, other clients and other devices do in one
instance.

### JmapSync

Extends `MailStore` with a client that takes a state, loads everything and
from then on applies `/changes`. `AggregateMessages` and `ReadMailboxRow` are
the two queries of `emailStateParts`, in any order; `ChangedRows` is
`changedMessageIds` with its limit and its count check: of more than `MaxRows`
changed rows (5000 in the code, in no order) the answer has any `MaxRows`, and
what it leaves out is in `cut` until a later delta brings it. `GetChanged` is
the `/get` that follows. `late` is a history variable: the messages that came with a
`createdAt` which was not above that of the newest message. Such a message is
one that is stored in the millisecond of another, or whose insert began before
another's and ended after it. `Apart` excludes JMAP updates that begin in the
millisecond of an earlier stamp.

### SmtpSession

One connection: the session's fields, the queue of commands, the handler that
is at an await, the replies on their way, and a client. `OnLine` is what the
reader does with a line as soon as it has it (`session.ts` 160-281: text is
gathered, commands are queued, overlong lines answered); the `Handle...`
actions are the handlers up to their first await, `Finish` what follows it.
`draining` keeps the reader away while promise reactions are due: JavaScript
runs all of them before the next I/O event. The client numbers its lines; a
reply carries the number of the line it answers, so that "in order" is a
statement about numbers. `profile` is the port (with or without `requireAuth`)
and the client: what it may send, how much, and whether it waits where
RFC 2920 wants it to.

### Pop3Session

A session's fields, the handlers that are at an await (`tasks`), the replies not
read yet, and the client: what it has sent, which message it knows by which
number, and what it believes it has marked. `onData` starts a handler for each
line and waits for none, so `Send` runs the handler of the line up to its first
await at once. PASS goes on in two steps (`LoadMaildrop`, `LoggedIn`), QUIT in
two (`UpdateAndDelete`, `SignsOff`), RETR in one; `Fails` is everything that
ends a handler with `-ERR`. The maildrop is numbered in the order in which the
messages stand in the INBOX by UID (`Before`). `Others` is the rest of the
system: messages arrive, are moved, marked as deleted and destroyed. Clients in
`Eager` pipeline.

### InboundMail

One message, a peer that tries again what was not answered for good, and at
most two tries side by side: a handler (`task`) goes on when its connection is
lost. RCPT, the content filter, alias expansion, the look-up of domains and
users, one mailbox after the other, and the outbound queue for outside
addresses are steps of their own (`inbound/handler.ts`, `handlers/message.ts`,
`submission`), because each reads tables that an administrator may have
switched meanwhile. Every list the handler walks is free of repetitions before
it is walked: names are added to it one by one, unless they are there.
`task[t].fate` is what became of each address in a try, and `peer` the sender's
queue: what it still wants to send (`left`, in the order of the envelope) and
what it was told.

### RoomBooking

Each mail to rooms has a handler that serves the rooms one after the other:
look up the room, look for conflicts, write the booking. Handlers run side by
side, beside an administrator who changes settings and bookings. The row is
unique by the meeting's uid, whatever its room.

### Invitations

One event row (sequence, time, guest list with answers), the letters that were
queued, and what each guest's calendar shows. A PUT of the web API reads the
row, updates it and mails the row that the update returned; two of them may be
side by side. Letters and replies stay available for ever: late, reordered and
repeated mail is the choice of an old one. `ReadReplyMail` and `WriteAnswer` are the
read and the write of `itip-inbound.ts`.

### ImapView

Sessions that start the handler of each line at once, as `imap-server/src/server`
does: `imTask` holds the handlers at an await, and only the selection is shared.
There is no per-session numbering in the code, and none here: `Position` is the
place of a row among those that a command reads. The history variables are what the
client believes: where it is, which number showed which message (`imTold`),
what each message's flags were meant to be (`meant`).

### EasSync

Rows with their modSeq (0 for a number of the counter, else a time), a device
with its key and its copies, one Sync or Ping under way. `EasDrawKey` comes
before `EasQuery`, as in `sync.ts` 110 and 125; writers that stamp with the
time do it in `EasStamp` and commit in `EasCommit`.

### JmapPush

One connection: the accounts noted, the timer, the flushes with the accounts
each has taken and the state it has read. `pushHeard` and `pushSent` are what
the property compares. A flush reads the states one after the other and sends them;
a WebSocket may be paused, a Web Push may fail.

### JmapSubmission

The object in Redis and the job in the queue, both as they are between two
awaits of create, update (cancel) and destroy; delivery is one step of the
worker. BullMQ's `remove` refuses a job that is being worked on.

### Listeners

A server process: its ports, the certificate each was made with, the reload that
runs and the one that waits, refreshes of the certificate that overlap, messages
in flight. A refresh that ends after one that has read later puts the older
certificate back; `lisMissed` then has "older", which is not the same as a
message that was lost ("cert", "rows"). SMTP, IMAP and POP3 run the same code;
`lisFallsBack` tells a server that opens a port in plain text when it has no
certificate (IMAP, POP3) from one that does not (SMTP).

### Certificates

Rows with status, flags and pem; the settings the mail servers read; requests
as chains of statements, issuances with their five-minute timer, reloads of the
HTTPS listener that may overlap, and the gateway's start and death. The map of
the listener (`SniMaps`) is what it serves by name, `default` what an unknown
name gets, and `server` the certificate the listening server was made with:
whoever names no host gets that one, whatever the comment at `tls-proxy.ts:41`
says of the default. An upload may be `bad`: its key does not fit, which nobody
checks. Such a row is left out of the map; when it is the one that the server
is to be made with, the reload throws (`ServerThrows`), and the old server has
been stopped by then. `CreateServer` asks for the port, `Listening` is when it
is bound and `activeServer` set; between the two another reload sees no server
to stop, finds the port taken, and throws after it has set the map.

### Retention

Runs that list a folder, work the list off by ids, and sweep the recoverable
items, beside an owner who moves and tags, one day at a time. Tags, policies
and the order in which a tag is chosen (personal, folder, default) are
constants of the instance and operators of the module.

### BackupJobs

Schedule rows, the cron jobs of the process, job rows and workers. A reload
that takes longer than a minute has another one beside it (`ReadSchedules`,
`ApplySchedules`). A crash takes cron jobs and workers away and leaves rows;
the next start and the watchdog fail them by their age.

## 3. What the runs show

| Run | Bounds | Shows |
|---|---|---|
| `outbound` | *mail*: one local and one external recipient, whose domain has 2 hosts, 2 attempts, 1 crash, 1 administrator's retry. *Backup*: 1 schedule, 2 users, 2 edits, 1 fault, with one job that a schedule starts, or two by hand | delivery, cancellation, bounces, attachments, the refinement and the end of every job; backup jobs end, cron jobs follow their rows |
| `outbound_permanent` | the same queue of mail without crash | *finding*: a 5xx answer does not end the job |
| `mailstore` | 2 folders, 4 messages, 2 writers, 3 requests, 1 crash, three mixes | UIDs, counters |
| `jmap_changes` | 3 deliveries on two connections, 2 milliseconds | *finding*: a message that came late is in no delta |
| `sessions` | *SMTP*: four profiles, up to 9 lines. *Mailbox*: seven casts of 1 or 2 messages, 2 or 3 requests two at a time, 1 move by another device, 1 fault | order of replies, belief and store, authentication, whole messages; the mailbox behind the web client |
| `smtp_live` | one message, AUTH, 7 lines | every line is answered; a silent client's session ends |
| `inbound` | *mail*: four lists of recipients, both ports, 2 tries, 1 fault, 1 switch. *Event*: five casts with 1 or 2 guests, 1 or 2 editors, up to 3 edits and 2 replies, 2 times | accepted mail, copies, the sender's knowledge; guests and answers |
| `eas_sync` | 2 messages, a window of 1, 2 times, 2 versions | what a device misses, what it gets, what a Ping sees |
| `clients` | *POP3*: one waiting session, 2 messages, 7 lines. *IMAP*: 2 sessions, one of them hasty, 3 lines each, 2 messages. *Listeners*: 2 ports, 2 edits, 1 fault | numbers, marks, flags, answers; ports follow their rows |
| `imap_store_number` | one patient client | *finding*: STORE takes positions as UIDs |
| `records` | *messages*: 2 messages, 2 writers, 3 requests, 2 milliseconds, a limit of 1 row. *Push*: 2 accounts, 3 and 2 states, 2 flushes, 2 pauses, 1 fault. *Submission*: 2 requests, 4 acts, 2 faults. *Bookings*: 2 rooms, 2 meetings, 3 times, 3 mails, 1 edit. *Retention*: 1 message, 4 tags, 3 days, 2 runs, 2 acts. *Certificates*: 2 rows, 2 requests, 2 reloads, 2 acts, 1 fault, with HTTPS also bad uploads | what each kind of record promises its reader |
| `listeners_cert` | 2 ports, 2 edits | *finding*: a running listener keeps its old certificate |

**Outbound queue.** `DoneMeansServed` and the refinement say that what the
mailbox or BullMQ shows as done was taken by a server of every domain and was
stored for, or dropped by, every local recipient, through every failure, retry,
crash and cancellation. They do not say that a local recipient has it: SENT is
shown for a mail that `storeInboundMessage` dropped. `CopiesBounded` is the
price of repeating whole attempts: for a local recipient one copy more for each
failed attempt or crash, for an external one as many as its domain has hosts,
never more. (Copies that a recipient's rule makes are not counted.)
`CancelStands` is about the race between the cancel request and the worker:
`remove()` fails for a job that is locked, and then the status written to the
mailbox is what stops the next attempt. `FailureIsReported` counts the bounces:
there is one more than administrators' retries when a job has failed for good,
each stored, given up, under way, or lost with a process that died. One bounce
is for the job, not for each recipient. `AttachmentsKept` speaks of jobs that no
administrator has revived and no server refused with a 5xx. `QueueSettles` says
that every job ends and then gives up its attachments.

**Mailbox behind the web client.** `WebHolds` has four parts. *Nothing is lost*:
a message is destroyed only if it has been in the Trash, in Junk or in a removed
folder, or if it was asked for. *Requests stand*: when all is answered, each
message is where the requests would have brought it one by one, and has the
flags they would have given it, apart from fields that two of them wrote side by
side, and from a flag in which the list that a reply sends was not what the
message had (GET answers the flags from before it added Seen, so that a reply to
a mail just opened makes it unread again). *Undo is true*: a deletion from a
list that was true, which nobody has touched since, can be undone while that is
offered, unless it was made in the Trash, where the offer is empty. *Junk is
remembered*: the blocklist says what the last verdict said, unless verdicts were
worked on side by side or one failed.

**Mail store.** `UidsAreSound`: UIDs lie below UIDNEXT in every mix, COPY and
the import included; and while every request takes its UID from the increment,
a UID is never reused and no insert is refused. `TotalsAgree` relates
`totalCount` to the rows at every moment, with the requests that have not
counted yet on the other side. It speaks of the requests that keep the counter
or need not (`CountingOnly`: deliveries, imports, creation, STORE, and the
updates and destructions of one JMAP client; two such clients that have read
the same row both take it off its folder), and of no crash, because a request
that dies leaves the counter wrong for good.

**SMTP.** `RepliesInOrder` and `BelievedIsTrue` are promises to a *tame*
client: it waits where RFC 2920 wants it to, its lines are short enough and its
texts within `SIZE`. A message is stored if and only if such a client takes it
for accepted. `AuthBeforeMail` and `MessagesAreWhole`
are for everyone, however they pipeline: whatever a client sends, a stored
message is one MAIL with the recipients and the text that followed it.
`EveryCommandAnswered` and `SessionEnds` (unless a client falls silent in the
handshake, where no timer is armed) are its liveness.

**Inbound.** `AcceptedIsAccounted`: for every recipient of a message that was
answered with 250 there is a copy, a job, a row of the content filter's
quarantine, or one of the named reasons why not (a rule that refuses, holds or
discards, which stores nothing; a client's unknown recipient; a room; a switch
turned after RCPT; a failure to add the job). `CopiesAreCounted`: one copy, job or
quarantine row for each try at most, however the mailbox is addressed, and one
at all when nothing fails. `SenderLearns`: the sender learns of each recipient
that it was taken or that it was not, and every handler ends.

**Events.** `GuestsFollow`: a guest who has opened all mails shows the newest
state that was mailed to him, in whatever order they came, and that is the
row's state when all edits are the dialog's (CalDAV tells nobody); a mailed
cancellation wins over every invitation, unless a PUT came between.
`AnswersHold`: no list shows an answer that nobody gave, and when replies are
stored one at a time a guest's one answer to the newest state stands.

**POP3 and IMAP.** `QuitDoesAsMarked`: POP3's QUIT deletes what its client has
marked, no less and no more. `OnlyMarkedGoes`: EXPUNGE and CLOSE remove nothing
that was not marked as deleted, unless the mark was taken off between their
read and their write. `SameNumberSameMessage` is what
lets a POP3 client mark by numbers. `SessionsAgree`: an IMAP command acts on
the folder its client had selected, the numbers of a folder in which nothing
came or went are in the order of the UIDs, and flags are those of all changes
one after another, unless a write was computed from flags that were changed
before it. `EveryLineIsAnswered` is for all clients.

**ActiveSync.** `MissedIsExplained` names the three reasons for which a device
misses a message for good: written without a time, written with a time older
than the key, cut off by the window. `PendingArrives`: everything else arrives.
`PingNotices`: a Ping that waits notices a changed number of messages.

**JMAP synchronisation.** `MissesOnlyLate`: when the writers are idle and a
client's state is the server's, its copy has every message that did not come
late and that the limit on rows did not cut off a delta whose count came out
right, each as it is now, and nothing that is gone. It speaks of requests whose
effects a state can show (`OnlyShown`): those that add messages, and JMAP
updates, which stamp what they change with the time. MOVE stamps nothing, STORE
adds one to a stamp, and neither is seen by a state. `Apart` is needed: of two
updates in one millisecond the second leaves the state as it was.
`ChangesMissNothing` is the same without the exception, as `state.ts` 7 has it,
and it fails with three messages (`jmap_changes`, see the findings).

**Records.** `NothingForgotten`: a connection that is open and at rest has sent a
state no older than the last announcement of each account.
`SubmissionsAreTrue`: when a client has been told that its mail is taken back
nothing is delivered any more, and a mail that goes out belongs to an object
that its client can read, is about to get, was refused by a failure, or has
seen end. `BookingsHold`: two accepted bookings of one room overlap only for a
named reason (a room without a check, a check that was overtaken, a row that
lies in another room), and a cancelled meeting holds no room. `TagsAreObeyed`:
what is purged was due by the tag that brought it there, unless its owner moved
it, and an owner's tag decides over those of folder and policy. `QuotaAgrees`:
the quota counts the messages that are there, unless two sweeps took the same
message off. `CertsAgree`: when reloads are over every ACTIVE certificate is
served under its name and the one chosen for HTTPS to whoever gives another name
or none; the mail servers' certificate is that of the row which is flagged; and
an issuance that is waited for has its timer set. What the code does not
guarantee is excepted by name, and each exception is needed: the run fails
without it. A bad key (not served; "threw": it was the server's own, and the
listener is down), an announcement that was lost or not read ("lost"), a reload
with an older reading that ended last ("late"), a server that keeps its own
certificate since the next one found the port taken ("taken"); and for the mail
servers changes side by side, a death between the two writes, and one of them
that failed, where `clearProtocolCert` goes on to the other.

**Services.** `QuietIsCurrent`, `PortsFollowRows` and `SchedulesFollow`: whatever
messages were lost and reloads overlapped, ports and cron jobs are those of the
rows in the end, or, for `QuietIsCurrent`, as soon as all is quiet. The
certificate is excepted after a refresh that another one had overtaken ended
last: nothing in the code prevents that, and the old one stays though the new
one was announced and read. `JobsEnd`: no job row stays RUNNING for ever, a full backup
that completes has a row for every user, and a finished job keeps its outcome.

### Why the bounds are enough

Two attempts are one that may fail and one that is the last; with a crash and an
administrator's retry a job meets every state BullMQ has. One local recipient
and one domain exercise both loops of the handler and the order between them,
and two hosts are one that rejects and one that follows. Two writers are what a
race of two statements takes, and three requests let one writer start again
behind the other's back; four messages are more than three requests and a rule
copy create. For the JMAP client two messages are one that is loaded and one
that arrives or is updated beside it; a late one is noticed by its count then,
and it takes a third to make the count add up again, which is the bound of
`jmap_changes`. A limit of one row cuts off a delta of two. Nine lines are two
complete messages in one SMTP session, the second pipelined behind the dot of
the first; six cover every command in every state, with EHLO, STARTTLS, EHLO,
AUTH, credentials and MAIL as the longest way in. In POP3 USER, PASS, UIDL,
DELE, RSET, DELE and QUIT are seven lines, and two messages are what a wrong
number needs; one session is enough, since sessions share nothing but the store,
and what another one does to it `Others` does too. Two IMAP sessions with three
lines each are SELECT, a command, and one that overtakes it. Two tries of a
message are one that is lost half way and one beside it; one switch lies between
any two steps. Two editors and three edits let the loser of a race be followed
by another change; two replies are two that overtake each other. Two flushes,
two reloads, two runs and two requests are one that starts beside another. In
the web client three requests are a deletion, its undo and what comes between;
two at a time are one that reads before the other writes.

Symmetry is used for message ids and meetings, which no definition orders.

### Fairness

`OutboundQueue!Fairness`: BullMQ promotes and hands out jobs, each await of the
handler ends (nodemailer has connection, greeting and socket timeouts), the
listeners' promises settle, and a request that has begun runs to its end. No
user, administrator or crash has to act. `SmtpSession!FairSpec`,
`Pop3Session!FairSpec` and `ImFair`: handlers end and replies are read; the
client may fall silent for ever. That timers fire is a premise of `SessionEnds`
alone, because with it `EveryCommandAnswered` would be true of a server that
answers nothing. `InboundFair`: handlers go on, and a peer that has a message
to deliver connects, reads its reply and finishes. `EasFair`: a device goes on
syncing, and of its plain Syncs, not only of those that carry changes, some get
through; that is the strong fairness there, since an answer may be lost and the
step is taken away meanwhile. `BakFair`: the process is started again, the
watchdog and the reloads come (cron and `setInterval`), rows grow old; nothing
is asked of the workers, since an export may hang.
`LisFair`: the poll comes every ten seconds, awaits end, the process is started
again. Elsewhere weak fairness is enough: no step that is needed is taken away
and given back.

## 4. What is proved

Every theorem is checked by TLAPS for every value of the constants that
satisfies the named assumptions of the modules. The type invariants are
theorems too (all but one), most of them no properties of runs. The
assumptions say what sort of thing a constant is (finite sets of messages,
bounds that are numbers, lists of addresses), and nothing about how large.

* **OutboundQueue.** Every safety property of the run: `DoneMeansServed`,
  `CopiesBounded`, `CancelStands`, `FailureIsReported`, `AttachmentsKept` and
  the refinement of `Delivery`. None is inductive alone. The invariant adds what
  the handler knows at each place: in `deliver` and `complete` everyone outside
  `todo` was reached or has dropped the mail; an attempt has given at most one
  copy to local recipients, and to those behind a domain one for each host it
  has tried and one for the host that took it. `KeptInv`: nobody has begun to
  delete the attachments before the job is closed, since BullMQ's decision to
  retry and the listeners' agree on the count of attempts. The refinement shows
  for each action which step of `Delivery` it is, or that it is a stutter.
* **MailStore.** `UidsAreSound` and its parts. The invariant says who holds a
  number: all UIDs given and all UIDs in the hands of a request lie below
  `uidNext`, the rows are among the given ones, and – when nobody copies or
  imports – no two requests hold the same UID and none holds one that was given.
  `TotalsAgree`: `CountInv` is a balance for each folder – what it counts and
  what requests owe it is what it holds – and says of each request where it is
  in its turn and that the row which the one updating client has read is the row
  that is there. Each step moves the balance on both sides by the same message
  or the same debt, or on neither.
* **JmapSync.** `MissesOnlyLate`, beside any number of writers. `FollowInv` says
  that no state is ahead of the rows (`Reached`): its maxima were maxima of rows
  that still are there, or were passed since. What the copy shows wrongly is
  stamped above the state that the client holds or was cut off, and what it
  lacks was made above that state, came late or was cut off (`Follows`); while a
  delta is fetched the same holds of the new state, but for the messages that
  are fetched. When the state is the current one nothing lies above it. Every
  step of a writer keeps this since rows only gain stamps above all there are
  (`RowsGrow`), and that is what `Apart` and `OnlyShown` are for.
* **WebMail.** The types and `WebHolds`, for any messages, folders, requests
  side by side, faults and casts. *Requests stand* is shown message by message:
  `WebInv` says of each request in work what it still owes to the messages it
  names (`AtInv` where it will leave them, `FlagInv` with which flags), so that
  where a message is, or will be when the one request that moves it ends, is
  what has been said, unless two of them may write the same field or a whole list
  of flags is written that is not the one of the moment. `FreshInv`
  and `ListInv` say which lists and toasts still tell the truth, `BinInv` that
  what is destroyed, or in the hands of a request to be destroyed, has been in a
  bin, `JunkInv` that the one work under way carries the last verdict.
* **SmtpSession.** `MessagesAreWhole` and the types for any client; for that
  `OrderInv` orders everything that is in the session by the number of the line
  it came in: what is stored before the envelope, the envelope before the
  handler that runs, that before the queue, the queue before the line to come.
  (That a stored message has a recipient is claimed for texts within `SIZE`
  only: a text above it ends DATA in its middle, and the rest of the text is
  taken for commands.) `AuthBeforeMail` under `Guarded`: nobody who pipelines
  uses STARTTLS there, since the 'secure' event resets the authentication
  beside handlers that may still be at an await. `RepliesInOrder` and
  `BelievedIsTrue` for tame clients: replies, the running handler, the queue
  and the line to come are, one after the other, the lines that the client
  waits for (`TameInv`), and what it drafts is what the server has in hand at
  the same place of that sequence.
* **InboundMail.** `AcceptedIsAccounted`: an accepted recipient, or an address
  it stands for by an alias, still waits in one of the handler's lists or has a
  fate, and a fate that is written down was done. `CopiesAreCounted`: the lists
  that are walked name nobody twice, so that each try that can still store adds
  one copy at most; copies are bounded by the tries that have begun.
* **Invitations.** `GuestsFollow` and `AnswersHold`. Only the row's own number
  numbers invitations, and it rises with each state that is mailed; a reply is
  never newer than the row; a reader that began before the number rose holds an
  older one. The invariant (`InvInv`) is the type and what follows from that
  for letters, the dialog, what guests have opened, replies, readers and lists.
* **POP3.** `SameNumberSameMessage` and `QuitDoesAsMarked`, for any number of
  sessions. A client that waits its turn is at one of four places: it waits for
  nothing, the one handler of its session works for it, the answer is on its
  way, or the connection has ended. `PatientOK` says in each of them what the
  client knows (numbers of this maildrop), and how its marks and the server's
  differ (by the DELE or RSET whose answer is on its way, and by nothing else).
  What other sessions, pipelining clients and other servers do enters only as
  `Grows`: nobody brings a message back.
* **IMAP.** `SessionsAgree` and `OnlyMarkedGoes`. Positions are numbers of rows
  with lower UIDs, so that a row's place and its UID have the same order;
  handlers and writes carry what they have read, and a row of which any of that
  is out of date is among the named exceptions; the selection is what a waiting
  client believes it is.
* **EasSync.** `MissedIsExplained`. The invariant follows the key: no key is
  ahead of the clock; what a running Sync has not read was written later than
  its key, or is among the three reasons.
* **Listeners.** `QuietIsCurrent` and that rows are followed. The invariant says
  for each difference between rows and ports who will see it: a message on its
  way, a reload that waits, or one that runs and has not read yet. A difference
  of the certificate has a message, or a refresh that has not read or has read
  what is there, or is one of those that `lisMissed` names.
* **Certificates.** The types and `CertsAgree`, for any number of rows, slots,
  requests, faults and reloads beside each other (`CertAssumption`: the slots
  are finitely many, so that issuances under way can be counted against the pems
  there may be). What agrees at rest is kept by what is at work, and the
  invariant (`CertsInv`) names it. For the listener: unless somebody still will
  publish, a message waits or a reload reads, the last reload to read has read
  every ACTIVE row as it is, and when none is in hand and the last to end was
  the last to read, the map is those rows (`CertServedInv`, `Served`). For the
  mail servers: unless changes have crossed, at most one task stands between the
  settings and the flags, and its place says which of the two it has written
  (`AloneInv`, `HalfInv`); without one they name the same row (`SettledInv`), if
  no part of a change has failed; settings without a row do not outlive the
  check of a start even then. For the timers: a row in work has an issuance that
  has one or is about to set it, or the start has yet to sweep it up, or it is
  known to be left behind (`CertTimedInv`).
* **BackupJobs.** The types and the safety half of `JobsEnd`, for any number of
  schedules, users, workers and crashes: `FullIsAccounted` (a full backup that
  is about to be COMPLETED has a part for every user), since the users that a
  worker has left and the parts it has made are all users (`PartsInv`); and
  `OutcomeStays`, since a worker exists only for a row that is RUNNING, was
  deleted, or was given up for its age (`WorkInv`): what is COMPLETED has no
  worker that could turn it into a failure, and what is FAILED completes only if
  it was given up and its worker got to its end after all.
* **JmapPush.** `NothingForgotten`. The invariant says where an announced
  account is until its state is sent: noted with a timer armed, or in the hands
  of a flush that reads its state later.
* **JmapSubmission.** `SubmissionsAreTrue`: a job that was removed is in nobody's
  hand and stays removed, a client that is told "canceled" has had it removed,
  and the first creation is under way until its client has an answer.
* **RoomBooking.** `BookingsHold`: an accepted row that was checked was free
  when it was read, and what was accepted between the check and the write marks
  it as overtaken; a row of a cancelled meeting has a request in work.
* **Retention.** `TagsAreObeyed` and `QuotaAgrees`: a message in a folder of the
  owner's bears no mark of a run, one in Deletions was brought there by a tag
  that allows recovery and by its day, and what a run has on its list is due or
  was changed since it was listed.

`PROJECT.json` names each theorem and the property it is about.

### What is only model-checked

Liveness (`QueueSettles`, `EveryCommandAnswered`, `SessionEnds`,
`EveryLineIsAnswered`, `SenderLearns`, `PendingArrives`, `PingNotices`,
`JobsEnd`, `SchedulesFollow`, `PortsFollowRows`): TLAPS has no proof rules for
ENABLED here. Every safety property and action property that a passing run
checks is a theorem, and so are the type invariants, but for that of
`Pop3Session`: that its INBOX stays a sequence when `SelectSeq` takes a message
out is a fact about a recursive function. Nothing is said by proof about what
such definitions compute, since that takes induction over data, which the
provers at hand cannot instantiate. The invariant `PopInv` holds the types that
the proofs about POP3 need; no module declares a RECURSIVE operator.

## 5. What is abstracted or left out

* Contents: addresses, texts, headers and attachments are numbers or members
  of small sets. MIME, DKIM and S/MIME either work or throw.
* The policy behind `onMailFrom`, `onRcptTo`, `verifyCredentials`, the content
  filter and the mail rules is a free choice.
* `unreadCount`, quotas and soft deletion by EWS, ActiveSync and POP3 are no
  writers of `MailStore`. The web API's writes on rows are in `WebMail`,
  without counters, UIDs and mod-sequences.
* Time has no length: a timer may fire whenever it is armed.
* An SMTP, POP3 or IMAP client's bytes arrive as lines; a session that said
  QUIT is over.
* `OutboundQueue`: a worker loses its lock only by dying.
* `JmapPush` is one connection; the number of flushes at work is a bound.
* `Invitations`: the age of a form is covered by the time between load and
  write; a CalDAV PUT that creates a deleted event again makes another event.
* `Certificates`: one host name per row, so that neither names nor wildcards
  conflict; of the services of a row only whether mail is among them.
* `WebMail`: all messages have one sender; arrivals are announced or not, as the
  connection happens to be up.
* `Retention`: tags and policies do not change; one mailbox.

### Not modelled

The components without a module are listed with the reason in `PROJECT.json`:
the connection limiter, greylisting and second factors (small counters and
one-time values in Redis, in the plan); EWS and MAPI (MAPI hands no handles to
its client, so that what lies behind Logon is out of reach); user interfaces,
codecs and formatting (WBXML, SOAP, MAPI properties, autodiscover). In the
modelled components the plan names what is missing.

### Hazards known and not covered

Counters after a crash (`handlers/message.ts:352`); APPEND raises
`highestModSeq` after the message is visible (`imap commands:485`); Email/get
reads the state after the messages (`email.ts:50`); a job submitted over MAPI
shares the stored message's attachments (`rop/message.ts:744`); the 'secure'
callback beside pipelined handlers (`session.ts:523`); IDLE counts a message
twice (`imap-server/src/server/index.ts:114`); a cancelled job's attachments
(`mail.ts:1119`); the notification that the gateway writes takes a UID above its
folder's last message instead of the mailbox's (`internal-notify.ts:65`), so
that a later message may get the same one.

## 6. Findings

1. `outbound/queue.ts:344`: `job.discard()` runs in the `failed` listener, when
   BullMQ has already scheduled the retry; a 5xx is retried although the comment
   says it is final (`outbound_permanent`).
2. `imap-server/src/commands/index.ts:1193`: STORE takes for UIDs the positions
   that FETCH has shown (`imap_store_number`).
3. `smtp-server/src/server.ts:314`: a reload leaves running ports alone, so that
   they keep their old certificate, although the comment at 376 says that
   they are made anew (`listeners_cert`).
4. `jmap-server/src/methods/email-changes.ts:36`: the delta misses a message that
   is stored in the millisecond of the newest one with a mod-sequence that the
   client's state has passed; the count that should show it was read before
   another delivery and is compared with rows read after it. `state.ts:7` says
   that `/changes` misses nothing (`jmap_changes`). A delta of more than 5000
   rows is cut off there too and the new state answered all the same
   (`email-changes.ts:30`), which `MissesOnlyLate` excepts by name.

### Where code and comments differ besides

Seen while modelling; the modules do what the code does. The runs above do not
show them one by one, but their properties name them as exceptions.

* *Outbound.* SENT is written for a mail that was dropped for a local recipient
  (`message.ts:42`, `:108`, `:134-148`, `:219`), and "Mail moved to quarantine
  by TransportRule" is logged where nothing is stored. Recipients refused by a
  server that took the message for somebody else get no bounce (`relay.ts:223`,
  against `dsn.ts:4`). JMAP adds its jobs without attempts. A host that took the
  mail and did not answer in time is followed by the next one
  (`relay.ts:206-236`).
* *IMAP.* COPY numbers its copies from a `uidNext` older than its reservation
  (`commands/index.ts:529-534`); STORE raises a mod-sequence that JMAP's
  `/changes` does not look at (`state.ts:7`). UID STORE and UID EXPUNGE are
  answered BAD.
* *SMTP.* 500 for an overlong line overtakes the replies of queued commands
  (`session.ts:252` and `:82`); a text above `SIZE` ends DATA in its middle
  (`:203`); EHLO behind DATA is taken as text (`:298`). A temporary failure in
  RCPT is answered 550 (`inbound/handler.ts:91` and `session.ts:630`). A
  transport rule's "reject" drops silently (`transport-rules.ts:12`).
  Submission accepts unknown local recipients and drops them.
* *POP3.* Handlers run side by side although CAPA offers PIPELINING
  (`session.ts:58` and `:81`).
* *ActiveSync.* A delivered message is never above a key (`sync.ts:40`).
* *Rooms.* Two requests side by side book one time twice (`handler.ts:342-396`);
  a meeting has one booking, whatever its rooms (`:314`).
* *Events.* An old reply that was read before a newer one was stored overwrites
  it, although `itip-inbound.ts:14` ignores old replies; the stale write may
  drop a guest who was invited meanwhile or bring a removed one back. Two
  replies side by side lose one. Removed guests get no CANCEL. A PUT without
  attendees, from a stale row, and a CalDAV PUT change the time without a mail.
* *JMAP submission.* A cancel of a completed job answers "canceled"
  (`submission.ts:231-237`, against `docs/jmap.md:90`); a destroyed object comes
  back by a concurrent cancel's save; creation may be refused while its job is
  queued; `get` reads its state after its list.
* *Certificates.* A deleted row stays served until the next reload, and that
  reload may still read it; activation by issuance (`certificates.ts:391`)
  beside "ONLY by activate-protocol" (62-76); a renewal takes the old
  certificate out of the map; EXPIRING rows may be activated and are not served;
  nothing ever reads `autoRenew`; rows left PENDING by a crash stay until the
  next start. Connections without SNI do not get `defaultContext`
  (`tls-proxy.ts:41`) but the certificate that the server was made with. One
  upload whose key does not fit takes HTTPS down for all hosts while it is the
  newest or the activated row (`tls-proxy.ts:173`, `:260`). The failure that
  `certificates.ts:120` takes for a missing row may be any.
* *Listeners.* A changed `ssl` flag does not reach a running port; restored
  defaults make 587 a port with implicit TLS; the poll never reads the
  certificate; a message between a start's refresh and its subscription is lost;
  of two refreshes that overlap the older one may end last (`server.ts:378`).
* *Backup.* A full backup with failed parts is COMPLETED.
* *Web.* Reader and toolbar offer "moved to the Trash" with undo also in the
  Trash, where the message is destroyed (`MessageReader.tsx:193`,
  `BulkToolbar.tsx:105`). A reply sends the flags from before the message was
  opened and makes it unread (`MessageReader.tsx:187`, `mail.ts:728`). A second
  bulk delete from a list that is not fetched yet destroys what the first one
  moved. Moving a message out of Junk by hand leaves its sender blocked. "Folder
  not empty" is checked before the folder is removed with what has come into it
  since (`mail.ts:228-235`). A request that fails leaves the list as it was.
  `mail:update` is published by JMAP only.

## 7. Plan

What is left, in this order:

1. *More writers of `MailStore`*: the web API, EWS and ActiveSync move and copy,
   POP3 QUIT, retention, recovery; `unreadCount`; the gateway's notification.
2. `ImapView`: UID commands, MOVE, IDLE push and the EXISTS counts; LOGIN.
3. `JmapPush` composed with `JmapSync`: the client that is told converges.
4. `IpLimiter`, `Greylisting`, `MfaChallenge` as small modules.
5. CalDAV's other requests, EWS subscriptions and SyncFolderItems.

With them their proofs: the new writers belong in `UidInv` and `CountInv`, and
where their stamps are shown by a state in `RowsGrow`.
