----------------------------- MODULE Certificates -----------------------------
(***************************************************************************)
(* The certificates of a server: rows that administrators request, renew,  *)
(* activate and delete; the settings that SMTP, IMAP and POP3 take their   *)
(* certificate from; and the gateway's HTTPS listener, which has every     *)
(* ACTIVE row in its map of names.                                         *)
(*                                                                         *)
(* A request is a chain of statements with others between them, and an     *)
(* issuance goes on after its request is answered.  All of it lives in the *)
(* gateway and ends with it.  A handler that throws outside a try ends the *)
(* gateway, which has no handler for rejections.                           *)
(*                                                                         *)
(* Each row has a host name of its own.  A pem is a number, higher when    *)
(* issued later.  Only the mail part of "services" is kept.  What the mail *)
(* servers do with the settings is in Listeners.                           *)
(***************************************************************************)
EXTENDS Naturals, Sequences, FiniteSets

CONSTANTS
  CertMaxRows,
  CertSlots,       \* requests and issuances that go on beside each other
  CertReloads,     \* reloads of the listener, likewise
  CertMaxActs,     \* bound: requests of administrators
  CertMaxFaults    \* bound: deaths of the gateway, statements that fail

CertIds == 1..CertMaxRows
CertStatus == {"absent", "PENDING", "ACTIVE", "EXPIRING", "ERROR", "RENEWING", "gone"}
CertDoes == {"letsencrypt", "upload", "selfsigned", "put", "renew", "https", "protocol", "off",
             "delete"}

ASSUME CertAssumption ==
  /\ CertMaxRows \in Nat \ {0} /\ CertMaxActs \in Nat /\ CertMaxFaults \in Nat
  /\ IsFiniteSet(CertSlots)

VARIABLES
  certRow,
  certOwner,      \* which row each pem was issued for
  certSettings,   \* serverSettings.tlsCert, 0 for null
  certTask,       \* what each slot does
  certUp,         \* the gateway runs
  certStarts,     \* what is left of its start
  certMail,       \* reload messages on their way to it
  certReload,     \* what each reload does
  certListens,    \* the port is open
  certActive,     \* activeServer is not null
  certMap,        \* the map of names, and what the listening server was made with
  certMissed,     \* history: why the listener may not serve what is ACTIVE
  certCrossed,    \* history: two changed the mail servers' certificate beside each other
  certTorn,       \* history: a part of such a change failed, or the gateway died in its middle
  certLeft,       \* history: issuances nobody goes on with
  certActs, certFaults

certRows  == <<certRow, certOwner, certSettings>>
certProxy == <<certMail, certReload, certListens, certActive, certMap, certMissed>>
certRest  == <<certUp, certStarts, certProxy, certTorn, certLeft>>
certCount == <<certActs, certFaults>>
certVars  == <<certRows, certTask, certCrossed, certRest, certCount>>

NoPems == [c \in CertIds |-> 0]
CertPems == 0..(1 + CertMaxActs)
CertReading == [pems : [CertIds -> CertPems], https : SUBSET CertIds, bad : SUBSET CertIds]

NoRow == [status |-> "absent", pem |-> 0, bad |-> FALSE, https |-> FALSE, protocol |-> FALSE,
          mail |-> FALSE, acme |-> FALSE, old |-> FALSE]
NoTask == [do |-> "put", at |-> "idle", id |-> 1, pem |-> 0, todo |-> {}, mail |-> FALSE,
           https |-> FALSE, timer |-> "off"]
NoCertReload == [at |-> "idle", read |-> [pems |-> NoPems, https |-> {}, bad |-> {}],
                 newer |-> FALSE]

CertTypeOK ==
  /\ certRow \in [CertIds -> [status : CertStatus, pem : CertPems, bad : BOOLEAN,
                              https : BOOLEAN, protocol : BOOLEAN, mail : BOOLEAN,
                              acme : BOOLEAN, old : BOOLEAN]]
  /\ certOwner \in Seq(CertIds)
  /\ certSettings \in 0..Len(certOwner)
  /\ certTask \in [CertSlots ->
       [do : CertDoes, id : CertIds, pem : CertPems, todo : SUBSET CertIds, mail : BOOLEAN,
        https : BOOLEAN, timer : {"off", "on", "fired"},
        at : {"idle", "others", "claim", "acme", "publish", "settings", "flags", "failed", "done",
              "renewing", "https", "unset", "unflag", "unhttps", "remove"}]]
  /\ certUp \in BOOLEAN
  /\ certStarts \subseteq {"cleanup", "read", "flagged", "clear", "subscribe", "deaf"}
  /\ certMail \in Nat
  /\ certReload \in [CertReloads -> [at : {"idle", "load", "loaded", "stops", "bound"},
                                     read : CertReading, newer : BOOLEAN]]
  /\ certListens \in BOOLEAN /\ certActive \in BOOLEAN
  /\ certMap \in [pems : [CertIds -> CertPems], default : CertPems, server : CertPems]
  /\ certMissed \subseteq {"lost", "late", "taken", "threw"}
  /\ certCrossed \in BOOLEAN /\ certTorn \in {"no", "failed", "died"}
  /\ certLeft \subseteq CertIds
  /\ certActs \in 0..CertMaxActs /\ certFaults \in 0..CertMaxFaults

(* The gateway has started after the setup, which has left its self-signed *)
(* certificate or could not make it.                                       *)
SetUp == [c \in CertIds |->
  IF c = 1 THEN [NoRow EXCEPT !.status = "ACTIVE", !.pem = 1, !.protocol = TRUE, !.mail = TRUE]
  ELSE NoRow]

CertInit ==
  /\ certListens \in BOOLEAN /\ certActive = certListens
  /\ certRow = IF certListens THEN SetUp ELSE [c \in CertIds |-> NoRow]
  /\ certOwner = IF certListens THEN <<1>> ELSE <<>>
  /\ certSettings = Len(certOwner)
  /\ certMap = [pems |-> [c \in CertIds |-> certRow[c].pem], default |-> certSettings,
                server |-> certSettings]
  /\ certUp = TRUE /\ certStarts = {}
  /\ certTask = [s \in CertSlots |-> NoTask]
  /\ certMail = 0
  /\ certReload = [r \in CertReloads |-> NoCertReload]
  /\ certMissed = {} /\ certCrossed = FALSE /\ certTorn = "no" /\ certLeft = {}
  /\ certActs = 0 /\ certFaults = 0

CertFault == certFaults < CertMaxFaults /\ certFaults' = certFaults + 1

Present(c) == certRow[c].status \notin {"absent", "gone"}
InWork(c)  == certRow[c].status \in {"PENDING", "RENEWING"}

-----------------------------------------------------------------------------
(* Tasks.                                                                  *)

(* An issuance whose timer has fired is waited for by the timer's write.   *)
CertTaskEnds(t) == IF t.timer = "fired" THEN [t EXCEPT !.at = "done"] ELSE NoTask

CertGoes(s, t) == certTask' = [certTask EXCEPT ![s] = t]
TaskAt(s, at)  == certUp /\ certTask[s].at = at
Issues(t) == t.do \in {"letsencrypt", "renew"}

(* What comes when the services are claimed.                               *)
Claimed(t) ==
  IF t.do = "letsencrypt" THEN [t EXCEPT !.at = "acme", !.timer = "on"]
  ELSE IF t.do = "put" THEN NoTask
  ELSE [t EXCEPT !.at = "publish"]

(* A change of the mail servers' certificate that goes on: it has read     *)
(* what it goes by, or has written a part of it.                           *)
Midway(s) ==
  \/ certTask[s].at \in {"settings", "flags", "unset", "unflag", "unhttps", "remove"}
  \/ certTask[s].at = "publish" /\ (certTask[s].do = "delete" \/ certTask[s].mail)
StartMidway == certStarts \cap {"flagged", "clear"} # {}

Crosses(s) ==
  certCrossed' = (certCrossed \/ StartMidway \/ \E o \in CertSlots \ {s} : Midway(o))

(* The gateway dies: with it tasks, listener, map and messages.            *)
CertDown ==
  /\ certUp' = FALSE /\ certStarts' = {}
  /\ certTask' = [s \in CertSlots |-> NoTask]
  /\ certMail' = 0
  /\ certReload' = [r \in CertReloads |-> NoCertReload]
  /\ certListens' = FALSE /\ certActive' = FALSE
  /\ certMap' = [pems |-> NoPems, default |-> 0, server |-> 0]
  /\ certMissed' = {}
  /\ certTorn' = (IF certTorn = "no" /\ \A s \in CertSlots : ~Midway(s) THEN "no" ELSE "died")
  /\ UNCHANGED <<certRows, certCrossed, certLeft>>

(* A statement of a request throws: what it leaves of a change if the      *)
(* gateway goes on.                                                        *)
Loses(lost) == certMissed' = certMissed \cup (IF lost THEN {"lost"} ELSE {})

ThrowsAt(s, torn) ==
  LET t == certTask[s]
      goesOn == Issues(t) /\ t.at \in {"acme", "settings", "flags"}
  IN IF goesOn \/ t.do \in {"selfsigned", "put", "delete"}
     THEN /\ CertGoes(s, IF goesOn THEN [t EXCEPT !.at = "failed"] ELSE NoTask)
          /\ Loses(~goesOn /\ t.do = "selfsigned")
          /\ certTorn' = torn
          /\ UNCHANGED <<certRows, certCrossed, certUp, certStarts, certMail, certReload,
                         certListens, certActive, certMap, certLeft>>
     ELSE CertDown

Throws(s) == ThrowsAt(s, certTorn)

(* Every write makes a row young.                                          *)
Young(rows) == [c \in CertIds |-> [rows[c] EXCEPT !.old = FALSE]]
RowWith(c, row) == [certRow EXCEPT ![c] = [row EXCEPT !.old = FALSE]]

Writes(s, rows, next) ==
  /\ certRow' = rows
  /\ CertGoes(s, next)
  /\ UNCHANGED <<certOwner, certSettings, certCrossed, certRest>>

(* An update of a row by its id throws when the row is gone.               *)
Updates(s, c, rows, next) ==
  /\ IF Present(c) THEN Writes(s, rows, next) ELSE Throws(s)
  /\ UNCHANGED certCount

-----------------------------------------------------------------------------
(* Requests.                                                               *)

(* Slots are alike: the first free one is taken.                           *)
CertAsks(s, task) ==
  /\ TaskAt(s, "idle") /\ \A o \in CertSlots : certTask[o].at = "idle" => s <= o
  /\ certActs < CertMaxActs /\ certActs' = certActs + 1
  /\ CertGoes(s, task)
  /\ UNCHANGED <<certUp, certStarts, certProxy, certTorn, certLeft, certFaults>>

(* A new row.  Services that it names are taken from the others.  Nobody   *)
(* compares the key of an upload with its certificate: it may be bad.      *)
PostCertificate(s, do, mail, bad) ==
  \E c \in CertIds :
    LET row  == [NoRow EXCEPT !.mail = mail, !.acme = (do = "letsencrypt"), !.bad = bad]
        task == [NoTask EXCEPT !.do = do, !.id = c, !.at = "others"]
    IN /\ bad => do = "upload"
       /\ certRow[c].status = "absent" /\ \A d \in 1..(c - 1) : certRow[d].status # "absent"
       /\ CertAsks(s, IF mail THEN task ELSE Claimed(task))
       /\ \/ /\ do = "letsencrypt"
             /\ certRow' = RowWith(c, [row EXCEPT !.status = "PENDING"])
             /\ UNCHANGED certOwner
          \/ /\ do # "letsencrypt"
             /\ certOwner' = Append(certOwner, c)
             /\ \E status \in (IF do = "upload" THEN {"ACTIVE", "EXPIRING"} ELSE {"ACTIVE"}) :
                  certRow' = RowWith(c, [row EXCEPT !.status = status, !.pem = Len(certOwner) + 1])
       /\ UNCHANGED <<certSettings, certCrossed>>

PutServices(s, c, mail) ==
  /\ Present(c)
  /\ CertAsks(s, IF mail THEN [NoTask EXCEPT !.id = c, !.at = "others"] ELSE NoTask)
  /\ certRow' = RowWith(c, [certRow[c] EXCEPT !.mail = mail])
  /\ UNCHANGED <<certOwner, certSettings, certCrossed>>

(* claimServices: the others are read, then cleared one by one.            *)
ReadOthers(s) ==
  /\ TaskAt(s, "others")
  /\ LET t == certTask[s]
         todo == {c \in CertIds \ {t.id} : Present(c) /\ certRow[c].mail}
     IN CertGoes(s, IF todo = {} THEN Claimed(t) ELSE [t EXCEPT !.at = "claim", !.todo = todo])
  /\ UNCHANGED <<certRows, certCrossed, certRest, certCount>>

ClaimFrom(s, c) ==
  LET t == [certTask[s] EXCEPT !.todo = certTask[s].todo \ {c}]
  IN /\ TaskAt(s, "claim") /\ c \in certTask[s].todo
     /\ Updates(s, c, RowWith(c, [certRow[c] EXCEPT !.mail = FALSE]),
                IF t.todo = {} THEN Claimed(t) ELSE t)

(* Two renewals may both pass the check.                                   *)
AskRenew(s, c) ==
  /\ Present(c) /\ certRow[c].acme /\ ~InWork(c)
  /\ CertAsks(s, [NoTask EXCEPT !.do = "renew", !.at = "renewing", !.id = c])
  /\ UNCHANGED <<certRows, certCrossed>>

MarkRenewing(s) ==
  LET t == certTask[s]
  IN /\ TaskAt(s, "renewing")
     /\ Updates(s, t.id, RowWith(t.id, [certRow[t.id] EXCEPT !.status = "RENEWING"]),
                [t EXCEPT !.at = "acme", !.timer = "on"])

(* Activation, for HTTPS or for the mail servers.                          *)
AskActivate(s, c, do) ==
  /\ certRow[c].pem > 0 /\ certRow[c].status \in {"ACTIVE", "EXPIRING"}
  /\ CertAsks(s, [NoTask EXCEPT !.do = do, !.id = c, !.pem = certRow[c].pem,
                                !.at = IF do = "https" THEN "https" ELSE "settings"])
  /\ UNCHANGED <<certRows, certCrossed>>

(* One transaction: this row and no other.                                 *)
OneHttps(c) == Young([d \in CertIds |-> [certRow[d] EXCEPT !.https = (d = c)]])
OneMail(c)  == Young([d \in CertIds |-> [certRow[d] EXCEPT !.protocol = (d = c)]])

FlagHttps(s) ==
  LET t == certTask[s]
  IN TaskAt(s, "https") /\ Updates(s, t.id, OneHttps(t.id), [t EXCEPT !.at = "publish"])

(* applyProtocolCert: the settings, then the flags.                        *)
WriteSettings(s) ==
  /\ TaskAt(s, "settings")
  /\ certSettings' = certTask[s].pem
  /\ CertGoes(s, [certTask[s] EXCEPT !.at = "flags"])
  /\ Crosses(s)
  /\ UNCHANGED <<certRow, certOwner, certRest, certCount>>

WriteFlags(s) ==
  LET t == certTask[s]
  IN TaskAt(s, "flags") /\ Updates(s, t.id, OneMail(t.id), CertTaskEnds(t))

SwitchHttpsOff(s, c) ==
  /\ CertAsks(s, [NoTask EXCEPT !.do = "off", !.at = "publish", !.id = c])
  /\ IF Present(c) THEN certRow' = RowWith(c, [certRow[c] EXCEPT !.https = FALSE])
     ELSE UNCHANGED certRow
  /\ UNCHANGED <<certOwner, certSettings, certCrossed>>

(* What hangs on the row is cleared by the flags that were read.           *)
AskDelete(s, c) ==
  /\ Present(c)
  /\ CertAsks(s, [NoTask EXCEPT !.do = "delete", !.id = c, !.https = certRow[c].https,
                                !.at = IF certRow[c].protocol THEN "unset"
                                       ELSE IF certRow[c].https THEN "unhttps" ELSE "remove"])
  /\ Crosses(s)
  /\ UNCHANGED certRows

(* clearProtocolCert: a failure of the first statement is swallowed.       *)
Unset(s) ==
  /\ TaskAt(s, "unset")
  /\ CertGoes(s, [certTask[s] EXCEPT !.at = "unflag"])
  /\ \/ certSettings' = 0 /\ UNCHANGED <<certTorn, certFaults>>
     \/ CertFault /\ certTorn' = "failed" /\ UNCHANGED certSettings
  /\ Crosses(s)
  /\ UNCHANGED <<certRow, certOwner, certUp, certStarts, certProxy, certLeft, certActs>>

(* The flags are not written though the settings are.                      *)
FlagsFail(s) ==
  /\ certUp /\ certTask[s].at \in {"flags", "unflag"}
  /\ CertFault /\ ThrowsAt(s, "failed")
  /\ UNCHANGED certActs

Clears(s, at, rows, next) ==
  /\ TaskAt(s, at)
  /\ certRow' = rows
  /\ CertGoes(s, IF next = "idle" THEN NoTask ELSE [certTask[s] EXCEPT !.at = next])
  /\ Crosses(s)
  /\ UNCHANGED <<certOwner, certSettings, certRest, certCount>>

Unflag(s) == Clears(s, "unflag", OneMail(0), IF certTask[s].https THEN "unhttps" ELSE "remove")
Unhttps(s) == Clears(s, "unhttps", OneHttps(0), "publish")
RemoveRow(s) ==
  LET c == certTask[s].id
  IN Clears(s, "remove", IF Present(c) THEN RowWith(c, [NoRow EXCEPT !.status = "gone"])
                         ELSE certRow, "idle")

(* The listener is told.  A deletion tells it before the row is gone.      *)
Published(t) ==
  IF t.do = "delete" THEN [t EXCEPT !.at = "remove"]
  ELSE IF Issues(t) /\ t.mail THEN [t EXCEPT !.at = "settings"]
  ELSE CertTaskEnds(t)

PublishReload(s) ==
  LET t == certTask[s]
      deaf == certStarts \cap {"subscribe", "deaf"} # {}
  IN /\ TaskAt(s, "publish")
     /\ \/ /\ certMail' = (IF deaf THEN certMail ELSE certMail + 1)
           /\ Loses(deaf)
           /\ CertGoes(s, Published(t))
           /\ UNCHANGED <<certRows, certCrossed, certUp, certStarts, certReload, certListens,
                          certActive, certMap, certTorn, certLeft, certFaults>>
        \/ /\ CertFault /\ t.do \in {"letsencrypt", "renew", "upload", "selfsigned"}
           /\ Loses(TRUE)
           /\ CertGoes(s, Published(t))
           /\ UNCHANGED <<certRows, certCrossed, certUp, certStarts, certMail, certReload,
                          certListens, certActive, certMap, certTorn, certLeft>>
        \/ CertFault /\ t.do \in {"https", "off", "delete"} /\ Throws(s)
     /\ UNCHANGED certActs

-----------------------------------------------------------------------------
(* Issuance.                                                               *)

(* The authority answers.  The row tells whether its mail services get it. *)
Issued(s) ==
  LET t == certTask[s]
      pem == Len(certOwner) + 1
      row == certRow[t.id]
  IN /\ TaskAt(s, "acme")
     /\ IF Present(t.id)
        THEN /\ certRow' = RowWith(t.id, [row EXCEPT !.status = "ACTIVE", !.pem = pem])
             /\ certOwner' = Append(certOwner, t.id)
             /\ CertGoes(s, [t EXCEPT !.at = "publish", !.pem = pem, !.mail = row.mail])
             /\ UNCHANGED <<certSettings, certCrossed, certRest>>
        ELSE Throws(s)
     /\ UNCHANGED certCount

NotIssued(s) == TaskAt(s, "acme") /\ Throws(s) /\ UNCHANGED certCount

(* status ERROR, with the failure of the write swallowed.                  *)
WriteError(s, next) ==
  LET c == certTask[s].id
  IN /\ \/ /\ certRow' = (IF Present(c) THEN RowWith(c, [certRow[c] EXCEPT !.status = "ERROR"])
                          ELSE certRow)
           /\ UNCHANGED <<certLeft, certFaults>>
        \/ CertFault /\ certLeft' = certLeft \cup {c} /\ UNCHANGED certRow
     /\ CertGoes(s, next)
     /\ UNCHANGED <<certOwner, certSettings, certCrossed, certUp, certStarts, certProxy, certTorn,
                    certActs>>

NoteFailure(s) == TaskAt(s, "failed") /\ WriteError(s, CertTaskEnds(certTask[s]))

(* Five minutes are over.  The issuance itself goes on.                    *)
AcmeTimer(s) ==
  /\ certUp /\ certTask[s].timer = "on"
  /\ CertGoes(s, [certTask[s] EXCEPT !.timer = "fired"])
  /\ UNCHANGED <<certRows, certCrossed, certRest, certCount>>

NoteTimeout(s) ==
  /\ certUp /\ certTask[s].timer = "fired"
  /\ WriteError(s, IF certTask[s].at = "done" THEN NoTask
                   ELSE [certTask[s] EXCEPT !.timer = "off"])

-----------------------------------------------------------------------------
(* The gateway's start and end.                                            *)

FreeReload(r) == certReload[r].at = "idle"

(* Slots are alike: the first free one is taken.                           *)
TakesSlot(r) == FreeReload(r) /\ \A q \in CertReloads : FreeReload(q) => r <= q

Reloads(r) == certReload' = [certReload EXCEPT ![r] = [NoCertReload EXCEPT !.at = "load"]]

CertStart ==
  /\ ~certUp
  /\ certUp' = TRUE
  /\ certStarts' = {"cleanup", "read", "subscribe"}
  /\ \E r \in CertReloads : TakesSlot(r) /\ Reloads(r)
  /\ UNCHANGED <<certRows, certTask, certCrossed, certMail, certListens, certActive, certMap,
                 certMissed, certTorn, certLeft, certCount>>

(* The first reload is over.                                               *)
Subscribe ==
  /\ certUp /\ "subscribe" \in certStarts
  /\ \A r \in CertReloads : FreeReload(r)
  /\ certStarts' = certStarts \ {"subscribe"}
  /\ UNCHANGED <<certRows, certTask, certCrossed, certUp, certProxy, certTorn, certLeft, certCount>>

Stale(c) == InWork(c) /\ certRow[c].old

Worked(c) == \E s \in CertSlots : certTask[s].at # "idle" /\ certTask[s].id = c /\
                                  Issues(certTask[s])

(* Only rows of more than ten minutes; younger ones stay as they are.      *)
CleanUp ==
  /\ certUp /\ "cleanup" \in certStarts
  /\ certStarts' = certStarts \ {"cleanup"}
  /\ certRow' = [c \in CertIds |->
       IF Stale(c) THEN [certRow[c] EXCEPT !.status = "ERROR", !.old = FALSE] ELSE certRow[c]]
  /\ certLeft' = certLeft \cup {c \in CertIds : InWork(c) /\ ~Stale(c) /\ ~Worked(c)}
  /\ UNCHANGED <<certOwner, certSettings, certTask, certCrossed, certUp, certProxy, certTorn,
                 certCount>>

(* syncProtocolCertState: settings without a flagged row are cleared.      *)
Beside == certCrossed' = (certCrossed \/ \E s \in CertSlots : Midway(s))

SyncStep(from, to) ==
  /\ certUp /\ from \in certStarts
  /\ certStarts' = (certStarts \ {from}) \cup to
  /\ UNCHANGED <<certRow, certOwner, certTask, certUp, certProxy, certTorn, certLeft, certCount>>

SyncRead ==
  /\ SyncStep("read", IF certSettings = 0 THEN {} ELSE {"flagged"})
  /\ Beside /\ UNCHANGED certSettings

SyncFlagged ==
  /\ SyncStep("flagged", IF \E c \in CertIds : certRow[c].protocol THEN {} ELSE {"clear"})
  /\ Beside /\ UNCHANGED certSettings

SyncClear ==
  /\ SyncStep("clear", {})
  /\ Beside /\ certSettings' = 0

SyncFails ==
  /\ certUp /\ CertFault /\ certTorn' = "failed"
  /\ \E at \in certStarts \cap {"read", "flagged", "clear"} : certStarts' = certStarts \ {at}
  /\ UNCHANGED <<certRows, certTask, certCrossed, certUp, certProxy, certLeft, certActs>>

CertDies == certUp /\ CertFault /\ CertDown /\ UNCHANGED certActs

(* Ten minutes pass over an issuance that nobody goes on with.             *)
CertAges(c) ==
  /\ InWork(c) /\ ~Worked(c) /\ ~certRow[c].old
  /\ certRow' = [certRow EXCEPT ![c].old = TRUE]
  /\ UNCHANGED <<certOwner, certSettings, certTask, certCrossed, certRest, certCount>>

-----------------------------------------------------------------------------
(* The HTTPS listener.                                                     *)

Unproxied == UNCHANGED <<certRows, certTask, certCrossed, certUp, certTorn, certLeft, certActs>>

TakeReload ==
  /\ certMail > 0
  /\ \E r \in CertReloads : TakesSlot(r) /\ Reloads(r)
  /\ certMail' = certMail - 1
  /\ UNCHANGED <<certStarts, certListens, certActive, certMap, certMissed, certFaults>>
  /\ Unproxied

(* loadCerts: the rows that are ACTIVE and have a pem.                     *)
Loaded == [pems  |-> [c \in CertIds |-> IF certRow[c].status = "ACTIVE" THEN certRow[c].pem
                                        ELSE 0],
           https |-> {c \in CertIds : certRow[c].https},
           bad   |-> {c \in CertIds : certRow[c].bad}]

InHand(r) == certReload[r].at \in {"loaded", "stops"}

(* The start waits for its reload, and subscribes to nothing if it throws. *)
ReloadThrows ==
  certStarts' = IF "subscribe" \in certStarts THEN (certStarts \ {"subscribe"}) \cup {"deaf"}
                ELSE certStarts

LoadCerts(r) ==
  /\ certReload[r].at = "load"
  /\ \/ /\ certReload' = [q \in CertReloads |->
             IF q = r THEN [at |-> "loaded", read |-> Loaded, newer |-> FALSE]
             ELSE IF InHand(q) THEN [certReload[q] EXCEPT !.newer = TRUE] ELSE certReload[q]]
        /\ certMissed' = certMissed \ {"lost"}
        /\ UNCHANGED <<certStarts, certFaults>>
     \/ /\ CertFault
        /\ certReload' = [certReload EXCEPT ![r] = NoCertReload]
        /\ Loses(TRUE)
        /\ ReloadThrows
  /\ UNCHANGED <<certMail, certListens, certActive, certMap>>
  /\ Unproxied

With(read)  == {c \in CertIds : read.pems[c] > 0}
NewestRow(set) == CHOOSE c \in set : \A d \in set : d <= c
Preferred(https, all) == NewestRow(IF https # {} THEN https ELSE all)

(* What the server itself is made with, for those who name no host: the    *)
(* row that is activated for HTTPS, or the newest.                         *)
Primary(read) == Preferred(With(read) \cap read.https, With(read))

(* buildSniMaps: a pem that its key does not fit is left out; an unknown   *)
(* name gets the row activated for HTTPS or, without a good one, the       *)
(* newest.                                                                 *)
SniMaps(read, server) ==
  LET secure  == [c \in CertIds |-> IF c \in read.bad THEN 0 ELSE read.pems[c]]
      unknown == Preferred((With(read) \cap read.https) \ read.bad, With(read))
  IN [pems |-> secure, default |-> secure[unknown], server |-> server]

Serves_PortFirst(read) ==
  /\ certListens' = TRUE
  /\ certMap' = IF certListens THEN certMap ELSE SniMaps(read, read.pems[Primary(read)])

(* The map is there before the port is asked for; a port that another      *)
(* reload's server holds leaves that server, as it was made.               *)
Serves(read) ==
  /\ certMap' = SniMaps(read, IF certListens THEN certMap.server ELSE read.pems[Primary(read)])
  /\ certListens' = TRUE

(* The rest of a reload with activeServer null: what it leaves of the map  *)
(* and of the port.  "late": a reading newer than its own was there.       *)
Leaves(r, at, threw) ==
  /\ certReload' = [certReload EXCEPT ![r] = IF at = "bound" THEN [NoCertReload EXCEPT !.at = at]
                                             ELSE NoCertReload]
  /\ certActive' = FALSE
  /\ certMissed' = (certMissed \cap {"lost"}) \cup threw
                   \cup (IF certReload[r].newer THEN {"late"} ELSE {})
  /\ UNCHANGED <<certMail, certFaults>>
  /\ Unproxied

(* A running server closes its port at once, and is waited for.            *)
StopServer(r) ==
  /\ certReload[r].at = "loaded" /\ certActive
  /\ certListens' = FALSE
  /\ certMap' = [certMap EXCEPT !.server = 0]
  /\ certReload' = [certReload EXCEPT ![r].at = "stops"]
  /\ UNCHANGED <<certStarts, certMail, certActive, certMissed, certFaults>>
  /\ Unproxied

Stopped(r) == certReload[r].at = "stops" \/ (certReload[r].at = "loaded" /\ ~certActive)

NoneToServe(r) ==
  /\ Stopped(r) /\ With(certReload[r].read) = {}
  /\ Leaves(r, "idle", {})
  /\ UNCHANGED <<certStarts, certListens, certMap>>

(* The server cannot be made with its own certificate: none is.            *)
ServerThrows(r) ==
  LET read == certReload[r].read
  IN /\ Stopped(r) /\ With(read) # {} /\ Primary(read) \in read.bad
     /\ certMap' = SniMaps(read, certMap.server)
     /\ Leaves(r, "idle", {"threw"})
     /\ ReloadThrows
     /\ UNCHANGED certListens

CreateServer(r) ==
  LET read == certReload[r].read
  IN /\ Stopped(r) /\ With(read) # {} /\ Primary(read) \notin read.bad
     /\ Serves(read)
     /\ IF certListens THEN Leaves(r, "idle", {"taken"}) /\ ReloadThrows
        ELSE Leaves(r, "bound", {}) /\ UNCHANGED certStarts

(* The port is bound, and the server becomes the active one.               *)
Listening(r) ==
  /\ certReload[r].at = "bound"
  /\ certActive' = TRUE
  /\ certReload' = [certReload EXCEPT ![r] = NoCertReload]
  /\ UNCHANGED <<certStarts, certMail, certListens, certMap, certMissed, certFaults>>
  /\ Unproxied

-----------------------------------------------------------------------------
CertStep(s) ==
  \/ ReadOthers(s) \/ \E c \in CertIds : ClaimFrom(s, c)
  \/ MarkRenewing(s) \/ FlagHttps(s) \/ WriteSettings(s) \/ WriteFlags(s)
  \/ Unset(s) \/ Unflag(s) \/ Unhttps(s) \/ RemoveRow(s) \/ FlagsFail(s) \/ PublishReload(s)
  \/ NoteFailure(s) \/ NoteTimeout(s)

CertPosts(s, mails, bads) ==
  \E do \in {"letsencrypt", "upload", "selfsigned"}, mail \in mails, bad \in bads :
    PostCertificate(s, do, mail, bad)

CertHttpsAsks(s) ==
  \E c \in CertIds :
    AskRenew(s, c) \/ AskActivate(s, c, "https") \/ SwitchHttpsOff(s, c) \/ AskDelete(s, c)

CertMailAsks(s) ==
  \E c \in CertIds :
    AskActivate(s, c, "protocol") \/ \E mail \in BOOLEAN : PutServices(s, c, mail)

CertEnds(s) == NotIssued(s) \/ AcmeTimer(s)

CertBoot ==
  CertStart \/ Subscribe \/ CleanUp \/ SyncRead \/ SyncFlagged \/ SyncClear \/ SyncFails

CertListener ==
  \/ TakeReload
  \/ \E r \in CertReloads : \/ LoadCerts(r) \/ StopServer(r) \/ NoneToServe(r)
                             \/ ServerThrows(r) \/ CreateServer(r) \/ Listening(r)

CertNext ==
  \/ \E s \in CertSlots : \/ CertPosts(s, BOOLEAN, BOOLEAN) \/ CertHttpsAsks(s) \/ CertMailAsks(s)
                          \/ CertStep(s) \/ Issued(s) \/ CertEnds(s)
  \/ CertBoot \/ CertListener \/ CertDies
  \/ \E c \in CertIds : CertAges(c)

CertSpec == CertInit /\ [][CertNext]_certVars

-----------------------------------------------------------------------------
(* Properties.                                                             *)

(* No request is in work, nor the part of a start that looks at the settings. *)
CertRests ==
  /\ certUp /\ certStarts \cap {"read", "flagged", "clear"} = {}
  /\ \A s \in CertSlots : certTask[s].at \in {"idle", "acme"}

ProxyRests == certStarts = {} /\ certMail = 0 /\ \A r \in CertReloads : FreeReload(r)

(* Once the reload messages are taken and no reload goes on, every ACTIVE  *)
(* certificate is served under its name, and the one that is activated for *)
(* HTTPS to whoever gives an unknown name or none, whichever reloads got   *)
(* in each other's way.  But not                                           *)
(*   - one whose key does not fit, anywhere; when it is the one that the   *)
(*     server itself would have ("threw"), the listener may be down, if no *)
(*     good one is activated for HTTPS;                                    *)
(*   - after a change that nobody announced, or whose announcement was     *)
(*     lost or not read ("lost");                                          *)
(*   - when of overlapping reloads one with an older reading was the last  *)
(*     to end ("late"): the code has nothing against it;                   *)
(*   - to whoever names no host when the last reload found the port taken  *)
(*     by the server of another ("taken"): that one keeps its own.         *)
ActiveIsServed ==
  CertRests /\ ProxyRests /\ certMissed \cap {"lost", "late"} = {} =>
    \A c \in CertIds : certRow[c].status = "ACTIVE" =>
      /\ certListens \/ "threw" \in certMissed
      /\ ~certRow[c].bad => certMap.pems[c] = certRow[c].pem
      /\ ~certRow[c].bad /\ certRow[c].https =>
           /\ certListens /\ certMap.default = certRow[c].pem
           /\ certMap.server = certRow[c].pem \/ "taken" \in certMissed

(* The mail servers have a certificate exactly when a row says it is the   *)
(* one, and it is that row's, unless two changed it beside each other, the *)
(* gateway died between the two writes, or one of them failed (the code    *)
(* goes on after the one that clears the settings); after a start whose    *)
(* statements are done, settings that no row stands for are cleared even   *)
(* then.                                                                   *)
MailCertAgrees ==
  LET flagged == {c \in CertIds : certRow[c].protocol}
  IN /\ Cardinality(flagged) <= 1
     /\ CertRests /\ ~certCrossed /\ certTorn # "failed" /\ certSettings > 0 => flagged # {}
     /\ CertRests /\ ~certCrossed /\ certTorn = "no" =>
          IF certSettings = 0 THEN flagged = {} ELSE certOwner[certSettings] \in flagged

(* A row that is PENDING or RENEWING has an issuance that goes on with its *)
(* timer set, so that it ends though the authority may never answer; but   *)
(* for those that the gateway's death has left and that are too young for  *)
(* the next start.                                                         *)
IssuanceIsTimed ==
  CertRests /\ "cleanup" \notin certStarts =>
    \A c \in CertIds : InWork(c) =>
      c \in certLeft \/ \E s \in CertSlots : certTask[s].id = c /\ certTask[s].timer # "off"

CertsAgree == ActiveIsServed /\ MailCertAgrees /\ IssuanceIsTimed
=============================================================================
