------------------------------- MODULE Listeners -------------------------------
(***************************************************************************)
(* The listeners of the SMTP, IMAP and POP3 servers: rows that the         *)
(* administrators edit, and a server process that follows them.            *)
(*                                                                         *)
(* The process reads the rows at every message on its Redis channel and    *)
(* every ten seconds, one reload at a time; it reads the certificate only  *)
(* at its start and at a settings message, and reads may overlap.  A       *)
(* message reaches the process when it has subscribed, and is lost         *)
(* otherwise.                                                              *)
(*                                                                         *)
(* A port has one row.  A certificate is a number, higher when newer, and  *)
(* there always is one: the self-signed one of a first start is left out,  *)
(* and so is a port that another program holds.                            *)
(***************************************************************************)
EXTENDS Integers, Sequences

CONSTANTS
  LisPorts,
  LisDefaults,    \* the rows of restore-defaults and of a first start
  LisMaxEdits,    \* bound: acts of administrators
  LisMaxFaults    \* bound: statements that fail, messages not sent, restarts

LisRowKinds == {"absent", "off", "plain", "tls"}

ASSUME LisAssumption ==
  /\ LisDefaults \in [LisPorts -> {"absent", "plain", "tls"}]
  /\ LisMaxEdits \in Nat /\ LisMaxFaults \in Nat

VARIABLES
  lisRows,       \* the row of each port
  lisCert,       \* the certificate in the database
  lisFallsBack,  \* IMAP and POP3: a TLS port without certificate speaks plain text
  lisAt,         \* how far the process is
  lisServers,    \* -1: none; 0: plain text; else the certificate it was made with
  lisTls,        \* _tlsConfig, 0 for null
  lisReload,     \* the one reload: idle, or before or after its read
  lisPending,    \* _pendingReload
  lisRead,       \* the rows that the reload read
  lisRefreshes,  \* how many refreshes hold each certificate; 0: have not read one yet
  lisMail,       \* messages on the channel, oldest first
  lisRestoring,  \* restore-defaults has deleted the rows
  lisMissed,     \* history: a change of "rows" or "cert" that nothing announces; and
                 \* "older" while the certificate is one that an overtaken refresh left
  lisEdits, lisFaults

lisVars == <<lisRows, lisCert, lisFallsBack, lisAt, lisServers, lisTls, lisReload, lisPending,
             lisRead, lisRefreshes, lisMail, lisRestoring, lisMissed, lisEdits, lisFaults>>

lisDb   == <<lisRows, lisCert, lisRestoring, lisEdits>>
lisProc == <<lisFallsBack, lisAt, lisServers, lisTls, lisReload, lisPending, lisRead, lisRefreshes>>

NoRows == [p \in LisPorts |-> "absent"]
Certs  == 1..(1 + LisMaxEdits)
NoRefresh == [c \in {0} \cup Certs |-> 0]

LisTypeOK ==
  /\ lisRows \in [LisPorts -> LisRowKinds]
  /\ lisCert \in Certs
  /\ lisFallsBack \in BOOLEAN
  /\ lisAt \in {"down", "cert", "count", "rows", "up"}
  /\ lisServers \in [LisPorts -> {-1, 0} \cup Certs]
  /\ lisTls \in {0} \cup Certs
  /\ lisReload \in {"idle", "ask", "apply"}
  /\ lisPending \in BOOLEAN /\ (lisPending => lisReload # "idle")
  /\ lisRead \in [LisPorts -> LisRowKinds]
  /\ lisRefreshes \in [{0} \cup Certs -> Nat]
  /\ lisMail \in Seq({"rows", "cert"})
  /\ lisRestoring \in BOOLEAN
  /\ lisMissed \subseteq {"rows", "cert", "older"}
  /\ lisEdits \in 0..LisMaxEdits /\ lisFaults \in 0..LisMaxFaults

LisInit ==
  /\ lisRows = NoRows /\ lisCert = 1
  /\ lisFallsBack \in BOOLEAN
  /\ lisAt = "down"
  /\ lisServers = [p \in LisPorts |-> -1] /\ lisTls = 0
  /\ lisReload = "idle" /\ lisPending = FALSE /\ lisRead = NoRows
  /\ lisRefreshes = NoRefresh /\ lisMail = <<>>
  /\ lisRestoring = FALSE /\ lisMissed = {}
  /\ lisEdits = 0 /\ lisFaults = 0

LisFault == lisFaults < LisMaxFaults /\ lisFaults' = lisFaults + 1
LisEdit  == lisEdits < LisMaxEdits /\ lisEdits' = lisEdits + 1

-----------------------------------------------------------------------------
(* Administrators.                                                         *)

(* A change is announced to a process that has subscribed; to one that has *)
(* not, or when publishing fails, it is not.                               *)
Announce(what) ==
  \/ /\ lisAt = "up"
     /\ lisMail' = Append(lisMail, what)
     /\ UNCHANGED <<lisMissed, lisFaults>>
  \/ /\ lisAt # "up"
     /\ lisMissed' = lisMissed \cup {what}
     /\ UNCHANGED <<lisMail, lisFaults>>
  \/ /\ LisFault
     /\ lisMissed' = lisMissed \cup {what}
     /\ UNCHANGED lisMail

(* Add, edit, toggle and delete.                                           *)
PutListener(p, kind) ==
  /\ LisEdit
  /\ lisRows[p] # kind
  /\ lisRows' = [lisRows EXCEPT ![p] = kind]
  /\ Announce("rows")
  /\ UNCHANGED <<lisCert, lisRestoring, lisProc>>

(* restore-defaults is two statements, and another act may come between.   *)
RestoreDelete ==
  /\ LisEdit /\ ~lisRestoring
  /\ lisRows' = NoRows /\ lisRestoring' = TRUE
  /\ lisMissed' = lisMissed \cup {"rows"}
  /\ UNCHANGED <<lisCert, lisProc, lisMail, lisFaults>>

RestoreCreate ==
  /\ lisRestoring
  /\ lisRows' = LisDefaults /\ lisRestoring' = FALSE
  /\ Announce("rows")
  /\ UNCHANGED <<lisCert, lisEdits, lisProc>>

(* A new certificate, announced on the settings channel.                   *)
ActivateCert ==
  /\ LisEdit
  /\ lisCert' = lisCert + 1
  /\ Announce("cert")
  /\ UNCHANGED <<lisRows, lisRestoring, lisProc>>

-----------------------------------------------------------------------------
(* Reloads.                                                                *)

Schedule_Dropped ==
  lisReload' = (IF lisReload = "idle" THEN "ask" ELSE lisReload) /\ UNCHANGED lisPending

(* scheduleReload.                                                         *)
Schedule ==
  IF lisReload = "idle"
  THEN lisReload' = "ask" /\ lisPending' = FALSE
  ELSE lisPending' = TRUE /\ UNCHANGED lisReload

(* When it is over, however it ended, the one that waits begins.           *)
ReloadOver == lisReload' = (IF lisPending THEN "ask" ELSE "idle") /\ lisPending' = FALSE

LisPoll ==
  /\ lisAt = "up"
  /\ Schedule
  /\ UNCHANGED <<lisDb, lisFallsBack, lisAt, lisServers, lisTls, lisRead, lisRefreshes, lisMail,
                 lisMissed, lisFaults>>

ReadListeners ==
  /\ lisReload = "ask"
  /\ \/ /\ lisRead' = lisRows
        /\ lisReload' = "apply"
        /\ lisMissed' = lisMissed \ {"rows"}
        /\ UNCHANGED <<lisPending, lisFaults>>
     \/ /\ LisFault
        /\ lisMissed' = lisMissed \cup {"rows"}
        /\ ReloadOver /\ UNCHANGED lisRead
  /\ UNCHANGED <<lisDb, lisFallsBack, lisAt, lisServers, lisTls, lisRefreshes, lisMail>>

Wanted(rows, p) == rows[p] \in {"plain", "tls"}

(* Made from its row and the certificate of that moment.  SMTP makes no    *)
(* implicit-TLS server without a certificate.                              *)
Created(rows, p) ==
  IF rows[p] = "plain" THEN 0
  ELSE IF lisTls > 0 THEN lisTls
  ELSE IF lisFallsBack THEN 0 ELSE -1

Applied_StartsOnly(rows) ==
  [p \in LisPorts |-> IF Wanted(rows, p) /\ lisServers[p] = -1 THEN Created(rows, p)
                      ELSE lisServers[p]]

(* What runs on a wanted port is left alone; the rest is started or closed. *)
Applied(rows) ==
  [p \in LisPorts |-> IF ~Wanted(rows, p) THEN -1
                      ELSE IF lisServers[p] = -1 THEN Created(rows, p)
                      ELSE lisServers[p]]

ApplyListeners ==
  /\ lisReload = "apply"
  /\ lisServers' = Applied(lisRead)
  /\ lisRead' = NoRows
  /\ ReloadOver
  /\ UNCHANGED <<lisDb, lisFallsBack, lisAt, lisTls, lisRefreshes, lisMail, lisMissed, lisFaults>>

-----------------------------------------------------------------------------
(* Messages, and the certificate.                                          *)

Refreshed == [lisRefreshes EXCEPT ![0] = lisRefreshes[0] + 1]

(* Any settings message starts a refresh; a reload follows it.             *)
TakeMessage ==
  /\ lisAt = "up" /\ lisMail # <<>>
  /\ lisMail' = Tail(lisMail)
  /\ IF Head(lisMail) = "rows"
     THEN Schedule /\ UNCHANGED lisRefreshes
     ELSE lisRefreshes' = Refreshed /\ UNCHANGED <<lisReload, lisPending>>
  /\ UNCHANGED <<lisDb, lisFallsBack, lisAt, lisServers, lisTls, lisRead, lisMissed, lisFaults>>

ReadCert ==
  /\ lisAt = "up" /\ lisRefreshes[0] > 0
  /\ lisRefreshes' = [lisRefreshes EXCEPT ![0] = lisRefreshes[0] - 1,
                                         ![lisCert] = lisRefreshes[lisCert] + 1]
  /\ UNCHANGED <<lisDb, lisFallsBack, lisAt, lisServers, lisTls, lisReload, lisPending, lisRead,
                 lisMail, lisMissed, lisFaults>>

(* The refresh is over and its reload is asked for; when its read failed,  *)
(* with the certificate that was there.  Nothing compares the readings: a  *)
(* refresh that read before another one and ends after it puts the older   *)
(* certificate back.                                                       *)
RefreshOver(c) ==
  /\ lisAt = "up" /\ lisRefreshes[c] > 0
  /\ lisRefreshes' = [lisRefreshes EXCEPT ![c] = lisRefreshes[c] - 1]
  /\ \/ /\ c > 0
        /\ lisTls' = c
        /\ lisMissed' = IF c < lisTls THEN lisMissed \cup {"older"}
                        ELSE IF c = lisCert THEN lisMissed \ {"cert", "older"} ELSE lisMissed
        /\ UNCHANGED lisFaults
     \/ /\ c = 0 /\ LisFault
        /\ lisMissed' = lisMissed \cup {"cert"}
        /\ UNCHANGED lisTls
  /\ Schedule
  /\ UNCHANGED <<lisDb, lisFallsBack, lisAt, lisServers, lisRead, lisMail>>

-----------------------------------------------------------------------------
(* The process.                                                            *)

(* What of the channel was on its way is lost with the process.            *)
LisStop ==
  /\ LisFault
  /\ lisAt # "down"
  /\ lisAt' = "down"
  /\ lisServers' = [p \in LisPorts |-> -1] /\ lisTls' = 0
  /\ lisReload' = "idle" /\ lisPending' = FALSE /\ lisRead' = NoRows
  /\ lisRefreshes' = NoRefresh /\ lisMail' = <<>>
  /\ UNCHANGED <<lisDb, lisFallsBack, lisMissed>>

(* main: the certificate, the rows of a first start, the first reload, and *)
(* the subscription.  A failed read of the certificate leaves none; one of *)
(* the count ends the process.                                             *)
LisBegin ==
  /\ lisAt = "down"
  /\ lisAt' = "cert"
  /\ UNCHANGED <<lisDb, lisFallsBack, lisServers, lisTls, lisReload, lisPending, lisRead,
                 lisRefreshes, lisMail, lisMissed, lisFaults>>

BootCert ==
  /\ lisAt = "cert"
  /\ lisAt' = "count"
  /\ \/ /\ lisTls' = lisCert /\ lisMissed' = lisMissed \ {"cert", "older"}
        /\ UNCHANGED lisFaults
     \/ LisFault /\ lisMissed' = lisMissed \cup {"cert"} /\ UNCHANGED lisTls
  /\ UNCHANGED <<lisDb, lisFallsBack, lisServers, lisReload, lisPending, lisRead, lisRefreshes,
                 lisMail>>

BootCount ==
  /\ lisAt = "count"
  /\ lisAt' = "rows"
  /\ lisRows' = IF lisRows = NoRows THEN LisDefaults ELSE lisRows
  /\ lisReload' = "ask"
  /\ UNCHANGED <<lisCert, lisRestoring, lisEdits, lisFallsBack, lisServers, lisTls, lisPending,
                 lisRead, lisRefreshes, lisMail, lisMissed, lisFaults>>

BootSubscribe ==
  /\ lisAt = "rows" /\ lisReload = "idle"
  /\ lisAt' = "up"
  /\ UNCHANGED <<lisDb, lisFallsBack, lisServers, lisTls, lisReload, lisPending, lisRead,
                 lisRefreshes, lisMail, lisMissed, lisFaults>>

LisBoot == LisBegin \/ BootCert \/ BootCount \/ BootSubscribe

LisNext ==
  \/ \E p \in LisPorts, kind \in LisRowKinds : PutListener(p, kind)
  \/ RestoreDelete \/ RestoreCreate \/ ActivateCert
  \/ LisPoll \/ ReadListeners \/ ApplyListeners \/ TakeMessage
  \/ ReadCert \/ \E c \in {0} \cup Certs : RefreshOver(c)
  \/ LisStop \/ LisBoot

LisSpec == LisInit /\ [][LisNext]_lisVars

(* The timer, the database and the supervisor go on; restore-defaults ends. *)
LisGoesOn == ReadListeners \/ ApplyListeners
LisFair ==
  /\ LisSpec
  /\ WF_lisVars(LisPoll) /\ WF_lisVars(LisGoesOn) /\ WF_lisVars(LisBoot)

-----------------------------------------------------------------------------
(* Properties.                                                             *)

(* A port runs exactly when the rows say so, but for SMTP's TLS ports      *)
(* while it has no certificate.                                            *)
Follows(p) ==
  IF Wanted(lisRows, p) /\ (lisRows[p] = "plain" \/ lisTls > 0 \/ lisFallsBack)
  THEN lisServers[p] # -1
  ELSE Wanted(lisRows, p) \/ lisServers[p] = -1

(* Once the messages are taken and nothing goes on, the ports are those of *)
(* the rows: a message that comes during a reload is not forgotten.  Left  *)
(* out is what was never announced.                                        *)
Quiet(what) ==
  /\ lisAt = "up" /\ lisReload = "idle" /\ lisMail = <<>> /\ lisRefreshes = NoRefresh
  /\ what \notin lisMissed

RowsAreFollowed == Quiet("rows") => \A p \in LisPorts : Follows(p)

(* The certificate that new listeners get is then the current one, unless  *)
(* of two overlapping refreshes the one that read first ended last: then   *)
(* the older one stays, announced or not, until the next refresh or start. *)
Overtaken == "older" \in lisMissed

CertIsCurrent == Quiet("cert") => lisTls = lisCert \/ Overtaken

(* When all is quiet, the process runs what the database says, but for a   *)
(* certificate that an overtaken refresh has put back.                     *)
QuietIsCurrent == RowsAreFollowed /\ CertIsCurrent

(* Whatever was lost or failed, the ports are in the end those of the      *)
(* rows: the poll needs no message, and no failure ends the reloads.       *)
PortsFollowRows == <>[](\A p \in LisPorts : Follows(p))

(* The listeners use the current certificate.                              *)
ListenersUseCert ==
  Quiet("rows") /\ Quiet("cert") /\ ~Overtaken =>
    \A p \in LisPorts : lisServers[p] > 0 => lisServers[p] = lisCert
=============================================================================
