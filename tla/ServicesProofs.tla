---------------------------- MODULE ServicesProofs -----------------------------
(***************************************************************************)
(* Theorems about the services: Listeners, for any ports, default rows and *)
(* bounds; Certificates, for any pems, slots and bounds; and BackupJobs,   *)
(* for any schedules, users and jobs.  The three share no state.           *)
(*                                                                         *)
(* That the ports follow the rows when all is quiet is not inductive: the  *)
(* invariant says what is still to come whenever they do not, which is a   *)
(* message, a reload that has not read yet, or one that waits behind it.   *)
(***************************************************************************)
EXTENDS Listeners, Certificates, BackupJobs, FiniteSetTheorems, WellFoundedInduction, TLAPS

(* A reload for the rows is announced, or they changed without a word.     *)
RowsComing == (\E i \in DOMAIN lisMail : lisMail[i] = "rows") \/ "rows" \in lisMissed

CertInv == lisCert <= 1 + lisEdits

BootInv ==
  /\ lisAt \notin {"rows", "up"} => lisReload = "idle"
  /\ lisAt # "up" => lisMail = <<>>

(* What a reload has read is still true, or another one comes after it.    *)
ReadInv == lisReload = "apply" => lisRead = lisRows \/ RowsComing \/ lisPending

FollowInv ==
  lisAt \in {"rows", "up"} /\ lisReload = "idle" /\ ~RowsComing => \A p \in LisPorts : Follows(p)

LisInv == LisTypeOK /\ CertInv /\ BootInv /\ ReadInv /\ FollowInv

-----------------------------------------------------------------------------
LEMMA CertType == LisMaxEdits \in Nat /\ Certs \subseteq Int /\ 1 \in Certs
BY LisAssumption DEF Certs

(* What Announce changes.                                                  *)
LEMMA AnnounceType ==
  ASSUME LisTypeOK, BootInv, NEW what \in {"rows", "cert"}, Announce(what), UNCHANGED lisAt
  PROVE  /\ lisMail' \in Seq({"rows", "cert"})
         /\ lisMissed' \subseteq {"rows", "cert", "older"}
         /\ lisFaults' \in 0..LisMaxFaults
         /\ lisAt' # "up" => lisMail' = <<>>
<1>1. lisMail' \in Seq({"rows", "cert"}) /\ (lisAt' # "up" => lisMail' = <<>>)
  <2>1. lisMail \in Seq({"rows", "cert"})
    BY DEF LisTypeOK
  <2>2. CASE lisAt = "up" /\ lisMail' = Append(lisMail, what)
    BY <2>1, <2>2
  <2>3. CASE lisMail' = lisMail
    BY <2>1, <2>3 DEF BootInv
  <2>4. QED
    BY <2>2, <2>3 DEF Announce
<1>2. lisMissed' \subseteq {"rows", "cert", "older"}
  BY DEF LisTypeOK, Announce
<1>3. lisFaults' \in 0..LisMaxFaults
  BY LisAssumption DEF LisTypeOK, Announce, LisFault
<1>4. QED
  BY <1>1, <1>2, <1>3

(* It announces, and takes no announcement back.                           *)
LEMMA AnnounceComes ==
  ASSUME LisTypeOK, NEW what \in {"rows", "cert"}, Announce(what)
  PROVE  /\ RowsComing => RowsComing'
         /\ what = "rows" => RowsComing'
<1>1. CASE lisMail' = Append(lisMail, what) /\ UNCHANGED lisMissed
  <2>1. /\ DOMAIN lisMail' = 1..(Len(lisMail) + 1) /\ DOMAIN lisMail = 1..Len(lisMail)
        /\ Len(lisMail) \in Nat
        /\ lisMail'[Len(lisMail) + 1] = what
        /\ \A i \in 1..Len(lisMail) : lisMail'[i] = lisMail[i]
    BY <1>1 DEF LisTypeOK
  <2>2. QED
    BY <1>1, <2>1 DEF RowsComing
<1>2. CASE lisMissed' = lisMissed \cup {what} /\ UNCHANGED lisMail
  BY <1>2 DEF RowsComing
<1>3. QED
  BY <1>1, <1>2 DEF Announce

LEMMA ScheduleType ==
  ASSUME LisTypeOK, Schedule
  PROVE  /\ lisReload' \in {"ask", "apply"}
         /\ lisReload' = "apply" => lisReload = "apply" /\ lisPending'
         /\ lisPending' \in BOOLEAN
BY DEF LisTypeOK, Schedule

LEMMA OverType ==
  ASSUME LisTypeOK, ReloadOver
  PROVE  /\ lisReload' = "idle" \/ lisReload' = "ask"
         /\ lisReload' = "ask" <=> lisPending
         /\ lisPending' = FALSE
BY DEF LisTypeOK, ReloadOver

(* A reload makes the ports those of the rows that it read.                *)
LEMMA AppliedFollows ==
  ASSUME LisTypeOK
  PROVE  /\ Applied(lisRead) \in [LisPorts -> {-1, 0} \cup Certs]
         /\ \A p \in LisPorts :
              IF Wanted(lisRead, p) /\ (lisRead[p] = "plain" \/ lisTls > 0 \/ lisFallsBack)
              THEN Applied(lisRead)[p] # -1
              ELSE Wanted(lisRead, p) \/ Applied(lisRead)[p] = -1
BY CertType DEF LisTypeOK, Applied, Created, Wanted, Certs

-----------------------------------------------------------------------------
LEMMA LisInitInv == LisInit => LisInv
<1> SUFFICES ASSUME LisInit PROVE LisInv
  OBVIOUS
<1>1. LisTypeOK
  BY LisAssumption, CertType, SMTT(30) DEF LisInit, LisTypeOK, NoRows, NoRefresh, LisRowKinds
<1>2. CertInv /\ BootInv /\ ReadInv /\ FollowInv
  BY DEF LisInit, CertInv, BootInv, ReadInv, FollowInv
<1>3. QED
  BY <1>1, <1>2 DEF LisInv

(* A step that leaves the rows, the certificates and the servers alone     *)
(* leaves alone whether a port follows.                                    *)
LEMMA FollowsSame ==
  ASSUME UNCHANGED <<lisRows, lisServers, lisTls, lisFallsBack>>
  PROVE  (\A p \in LisPorts : Follows(p)) => (\A p \in LisPorts : Follows(p))'
BY DEF Follows, Wanted

(* An administrator's act.                                                 *)
LEMMA LisEditInv ==
  ASSUME LisInv, NEW what \in {"rows", "cert"}, Announce(what), lisProc' = lisProc,
         lisRows' \in [LisPorts -> LisRowKinds], lisRestoring' \in BOOLEAN,
         lisEdits' \in 0..LisMaxEdits, lisCert' \in Certs, lisCert' <= 1 + lisEdits',
         what = "rows" \/ UNCHANGED lisRows
  PROVE  LisInv'
<1>1. /\ lisMail' \in Seq({"rows", "cert"}) /\ lisMissed' \subseteq {"rows", "cert", "older"}
      /\ lisFaults' \in 0..LisMaxFaults
      /\ lisAt' # "up" => lisMail' = <<>>
  BY AnnounceType DEF LisInv, lisProc
<1>2. (RowsComing => RowsComing') /\ (what = "rows" => RowsComing')
  BY AnnounceComes DEF LisInv
<1>3. LisTypeOK'
  BY <1>1 DEF LisInv, LisTypeOK, lisProc
<1>4. CertInv' /\ BootInv'
  BY <1>1 DEF LisInv, CertInv, BootInv, lisProc
<1>5. ReadInv'
  BY <1>2 DEF LisInv, ReadInv, lisProc
<1>6. FollowInv'
  BY <1>2, FollowsSame DEF LisInv, FollowInv, lisProc
<1>7. QED
  BY <1>3, <1>4, <1>5, <1>6 DEF LisInv

(* The reload goes a step.                                                 *)
LEMMA LisReloadInv ==
  ASSUME LisInv, ReadListeners \/ ApplyListeners
  PROVE  LisInv'
<1>1. CASE ReadListeners
  <2>1. UNCHANGED <<lisRows, lisCert, lisRestoring, lisEdits, lisFallsBack, lisAt, lisServers,
                    lisTls, lisRefreshes, lisMail>>
    BY <1>1 DEF ReadListeners, lisDb
  <2>2. CASE lisRead' = lisRows /\ lisReload' = "apply" /\ lisMissed' = lisMissed \ {"rows"}
             /\ UNCHANGED <<lisPending, lisFaults>>
    <3>1. LisTypeOK'
      BY <2>1, <2>2 DEF LisInv, LisTypeOK
    <3>2. lisAt \in {"rows", "up"}
      BY <1>1 DEF ReadListeners, LisInv, BootInv
    <3>3. CertInv' /\ BootInv' /\ ReadInv' /\ FollowInv'
      BY <2>1, <2>2, <3>2 DEF LisInv, CertInv, BootInv, ReadInv, FollowInv
    <3>4. QED
      BY <3>1, <3>3 DEF LisInv
  <2>3. CASE /\ LisFault /\ lisMissed' = lisMissed \cup {"rows"}
             /\ ReloadOver /\ UNCHANGED lisRead
    <3>1. /\ lisReload' = "idle" \/ lisReload' = "ask"
          /\ lisPending' = FALSE
      BY <2>3, OverType DEF LisInv
    <3>2. lisFaults' \in 0..LisMaxFaults
      BY <2>3, LisAssumption DEF LisInv, LisTypeOK, LisFault
    <3>3. LisTypeOK'
      BY <2>1, <2>3, <3>1, <3>2 DEF LisInv, LisTypeOK
    <3>4. lisAt \in {"rows", "up"} /\ RowsComing'
      BY <1>1, <2>3 DEF ReadListeners, LisInv, BootInv, RowsComing
    <3>5. CertInv' /\ BootInv' /\ ReadInv' /\ FollowInv'
      BY <2>1, <3>1, <3>4 DEF LisInv, CertInv, BootInv, ReadInv, FollowInv
    <3>6. QED
      BY <3>3, <3>5 DEF LisInv
  <2>4. QED
    BY <1>1, <2>2, <2>3 DEF ReadListeners
<1>2. CASE ApplyListeners
  <2>1. UNCHANGED <<lisRows, lisCert, lisRestoring, lisEdits, lisFallsBack, lisAt, lisTls,
                    lisRefreshes, lisMail, lisMissed, lisFaults>>
    BY <1>2 DEF ApplyListeners, lisDb
  <2>2. /\ lisReload = "apply" /\ lisServers' = Applied(lisRead) /\ lisRead' = NoRows
        /\ ReloadOver
    BY <1>2 DEF ApplyListeners
  <2>3. /\ lisReload' = "idle" \/ lisReload' = "ask"
        /\ lisReload' = "ask" <=> lisPending
        /\ lisPending' = FALSE
    BY <2>2, OverType DEF LisInv
  <2>4. LisTypeOK'
    BY <2>1, <2>2, <2>3, AppliedFollows DEF LisInv, LisTypeOK, NoRows, LisRowKinds
  <2>5. lisAt \in {"rows", "up"} /\ (RowsComing' <=> RowsComing)
    BY <2>1, <2>2 DEF LisInv, BootInv, RowsComing
  <2>6. ASSUME lisReload' = "idle", ~RowsComing' PROVE \A p \in LisPorts : Follows(p)'
    <3>1. lisRead = lisRows
      BY <2>2, <2>3, <2>5, <2>6 DEF LisInv, ReadInv
    <3>2. QED
      BY <2>1, <2>2, <3>1, AppliedFollows DEF LisInv, Follows, Wanted
  <2>7. CertInv' /\ BootInv' /\ ReadInv' /\ FollowInv'
    BY <2>1, <2>3, <2>5, <2>6 DEF LisInv, CertInv, BootInv, ReadInv, FollowInv
  <2>8. QED
    BY <2>4, <2>7 DEF LisInv
<1>3. QED
  BY <1>1, <1>2

(* A reload is asked for: by the timer, a message, or a refresh that is    *)
(* over.                                                                   *)
LEMMA LisScheduleInv ==
  ASSUME LisInv, Schedule, lisAt = "up",
         UNCHANGED <<lisRows, lisCert, lisRestoring, lisEdits, lisFallsBack, lisAt, lisServers,
                     lisRead>>,
         lisTls' \in {0} \cup Certs, lisRefreshes' \in [{0} \cup Certs -> Nat],
         lisMail' \in Seq({"rows", "cert"}), lisMissed' \subseteq {"rows", "cert", "older"},
         lisFaults' \in 0..LisMaxFaults
  PROVE  LisInv'
<1>1. /\ lisReload' \in {"ask", "apply"}
      /\ lisReload' = "apply" => lisReload = "apply" /\ lisPending'
      /\ lisPending' \in BOOLEAN
  BY ScheduleType DEF LisInv
<1>2. LisTypeOK'
  BY <1>1 DEF LisInv, LisTypeOK
<1>3. CertInv' /\ BootInv' /\ ReadInv' /\ FollowInv'
  BY <1>1 DEF LisInv, CertInv, BootInv, ReadInv, FollowInv
<1>4. QED
  BY <1>2, <1>3 DEF LisInv

LEMMA LisMessageInv ==
  ASSUME LisInv, TakeMessage
  PROVE  LisInv'
<1>1. /\ lisAt = "up" /\ lisMail # <<>> /\ lisMail' = Tail(lisMail)
      /\ UNCHANGED <<lisRows, lisCert, lisRestoring, lisEdits, lisFallsBack, lisAt, lisServers,
                     lisTls, lisRead, lisMissed, lisFaults>>
  BY DEF TakeMessage, lisDb
<1>2. lisMail' \in Seq({"rows", "cert"}) /\ Len(lisMail) \in Nat \ {0}
  BY <1>1 DEF LisInv, LisTypeOK
<1>3. CASE Head(lisMail) = "rows"
  <2>1. Schedule /\ UNCHANGED lisRefreshes
    BY <1>3 DEF TakeMessage
  <2>2. QED
    BY <1>1, <1>2, <2>1, LisScheduleInv DEF LisInv, LisTypeOK
<1>4. CASE Head(lisMail) # "rows"
  <2>1. lisRefreshes' = Refreshed /\ UNCHANGED <<lisReload, lisPending>>
    BY <1>4 DEF TakeMessage
  <2>2. LisTypeOK'
    BY <1>1, <1>2, <2>1 DEF LisInv, LisTypeOK, Refreshed
  <2>3. RowsComing => RowsComing'
    <3>1. /\ DOMAIN lisMail = 1..Len(lisMail) /\ DOMAIN lisMail' = 1..(Len(lisMail) - 1)
          /\ \A i \in 1..(Len(lisMail) - 1) : lisMail'[i] = lisMail[i + 1]
          /\ lisMail[1] # "rows"
      BY <1>1, <1>2, <1>4 DEF LisInv, LisTypeOK
    <3>2. ASSUME NEW i \in DOMAIN lisMail, lisMail[i] = "rows"
          PROVE  \E j \in DOMAIN lisMail' : lisMail'[j] = "rows"
      <4>1. i \in 1..Len(lisMail) /\ i # 1
        BY <3>1, <3>2
      <4>2. i - 1 \in DOMAIN lisMail' /\ lisMail'[i - 1] = lisMail[i]
        BY <1>2, <3>1, <4>1
      <4>3. QED
        BY <3>2, <4>2
    <3>3. QED
      BY <1>1, <3>2 DEF RowsComing
  <2>4. CertInv' /\ BootInv' /\ ReadInv'
    BY <1>1, <2>1, <2>3 DEF LisInv, CertInv, BootInv, ReadInv
  <2>5. FollowInv'
    BY <1>1, <2>1, <2>3, FollowsSame DEF LisInv, FollowInv
  <2>6. QED
    BY <2>2, <2>4, <2>5 DEF LisInv
<1>5. QED
  BY <1>3, <1>4

LEMMA LisRefreshInv ==
  ASSUME LisInv, ReadCert \/ \E c \in {0} \cup Certs : RefreshOver(c)
  PROVE  LisInv'
<1>1. CASE ReadCert
  <2>1. UNCHANGED <<lisRows, lisCert, lisRestoring, lisEdits, lisFallsBack, lisAt, lisServers,
                    lisTls, lisReload, lisPending, lisRead, lisMail, lisMissed, lisFaults>>
    BY <1>1 DEF ReadCert, lisDb
  <2>2. lisRefreshes' \in [{0} \cup Certs -> Nat]
    <3>1. lisRefreshes \in [{0} \cup Certs -> Nat] /\ lisCert \in Certs
      BY DEF LisInv, LisTypeOK
    <3>2. lisRefreshes' = [lisRefreshes EXCEPT ![0] = lisRefreshes[0] - 1,
                                              ![lisCert] = lisRefreshes[lisCert] + 1]
          /\ lisRefreshes[0] - 1 \in Nat /\ lisRefreshes[lisCert] + 1 \in Nat
      BY <1>1, <3>1 DEF ReadCert
    <3>3. QED
      BY <3>1, <3>2
  <2>3. LisTypeOK'
    BY <2>1, <2>2 DEF LisInv, LisTypeOK
  <2>4. CertInv' /\ BootInv' /\ ReadInv' /\ FollowInv'
    BY <2>1, FollowsSame DEF LisInv, CertInv, BootInv, ReadInv, FollowInv, RowsComing
  <2>5. QED
    BY <2>3, <2>4 DEF LisInv
<1>2. ASSUME NEW c \in {0} \cup Certs, RefreshOver(c)
      PROVE  LisInv'
  <2>1. /\ lisAt = "up" /\ Schedule /\ lisRefreshes[c] > 0
        /\ lisRefreshes' = [lisRefreshes EXCEPT ![c] = lisRefreshes[c] - 1]
        /\ UNCHANGED <<lisRows, lisCert, lisRestoring, lisEdits, lisFallsBack, lisAt, lisServers,
                       lisRead, lisMail>>
    BY <1>2 DEF RefreshOver, lisDb
  <2>2. lisRefreshes' \in [{0} \cup Certs -> Nat]
    BY <2>1, CertType DEF LisInv, LisTypeOK, Certs
  <2>3. lisTls' \in {0} \cup Certs
    BY <1>2 DEF RefreshOver, LisInv, LisTypeOK
  <2>4. lisMissed' \subseteq {"rows", "cert", "older"}
    <3>1. lisMissed \subseteq {"rows", "cert", "older"}
      BY DEF LisInv, LisTypeOK
    <3>2. lisMissed' \in {lisMissed, lisMissed \cup {"cert"}, lisMissed \cup {"older"},
                         lisMissed \ {"cert", "older"}}
      BY <1>2 DEF RefreshOver
    <3>3. QED
      BY <3>1, <3>2
  <2>5. lisFaults' \in 0..LisMaxFaults
    BY <1>2, LisAssumption DEF RefreshOver, LisInv, LisTypeOK, LisFault
  <2>6. lisMail' \in Seq({"rows", "cert"})
    BY <2>1 DEF LisInv, LisTypeOK
  <2>7. QED
    BY <2>1, <2>2, <2>3, <2>4, <2>5, <2>6, LisScheduleInv
<1>3. QED
  BY <1>1, <1>2

(* The process starts or stops.                                            *)
LEMMA LisProcessInv ==
  ASSUME LisInv, LisStop \/ LisBoot
  PROVE  LisInv'
<1>1. CASE LisStop
  <2>1. lisFaults' \in 0..LisMaxFaults
    BY <1>1, LisAssumption DEF LisStop, LisFault, LisInv, LisTypeOK
  <2>2. LisTypeOK'
    <3>1. /\ lisServers' \in [LisPorts -> {-1, 0} \cup Certs]
          /\ lisRead' \in [LisPorts -> LisRowKinds]
          /\ lisRefreshes' \in [{0} \cup Certs -> Nat] /\ lisMail' \in Seq({"rows", "cert"})
      BY <1>1 DEF LisStop, NoRows, NoRefresh, LisRowKinds
    <3>2. QED
      BY <1>1, <2>1, <3>1 DEF LisStop, lisDb, LisInv, LisTypeOK
  <2>3. CertInv' /\ BootInv' /\ ReadInv' /\ FollowInv'
    BY <1>1 DEF LisStop, lisDb, LisInv, CertInv, BootInv, ReadInv, FollowInv
  <2>4. QED
    BY <2>2, <2>3 DEF LisInv
<1>2. CASE LisBegin
  <2>1. LisTypeOK'
    BY <1>2 DEF LisBegin, lisDb, LisInv, LisTypeOK
  <2>2. CertInv' /\ BootInv' /\ ReadInv' /\ FollowInv'
    BY <1>2 DEF LisBegin, lisDb, LisInv, CertInv, BootInv, ReadInv, FollowInv
  <2>3. QED
    BY <2>1, <2>2 DEF LisInv
<1>3. CASE BootCert
  <2>1. lisFaults' \in 0..LisMaxFaults
    BY <1>3, LisAssumption DEF BootCert, LisFault, LisInv, LisTypeOK
  <2>2. LisTypeOK'
    BY <1>3, <2>1 DEF BootCert, lisDb, LisInv, LisTypeOK
  <2>3. CertInv' /\ BootInv' /\ ReadInv' /\ FollowInv'
    BY <1>3 DEF BootCert, lisDb, LisInv, CertInv, BootInv, ReadInv, FollowInv
  <2>4. QED
    BY <2>2, <2>3 DEF LisInv
<1>4. CASE BootCount
  <2>1. lisRows' \in [LisPorts -> LisRowKinds]
    BY <1>4, LisAssumption DEF BootCount, LisInv, LisTypeOK, LisRowKinds
  <2>2. LisTypeOK'
    BY <1>4, <2>1 DEF BootCount, LisInv, LisTypeOK
  <2>3. CertInv' /\ BootInv' /\ ReadInv' /\ FollowInv'
    BY <1>4 DEF BootCount, LisInv, CertInv, BootInv, ReadInv, FollowInv
  <2>4. QED
    BY <2>2, <2>3 DEF LisInv
<1>5. CASE BootSubscribe
  <2>1. LisTypeOK'
    BY <1>5 DEF BootSubscribe, lisDb, LisInv, LisTypeOK
  <2>2. CertInv' /\ BootInv' /\ ReadInv'
    BY <1>5 DEF BootSubscribe, lisDb, LisInv, CertInv, BootInv, ReadInv
  <2>3. FollowInv'
    BY <1>5, FollowsSame DEF BootSubscribe, lisDb, LisInv, FollowInv, RowsComing
  <2>4. QED
    BY <2>1, <2>2, <2>3 DEF LisInv
<1>6. QED
  BY <1>1, <1>2, <1>3, <1>4, <1>5 DEF LisBoot

LEMMA LisNextInv ==
  ASSUME LisInv, [LisNext]_lisVars
  PROVE  LisInv'
<1>1. ASSUME NEW p \in LisPorts, NEW kind \in LisRowKinds, PutListener(p, kind)
      PROVE  LisInv'
  <2>1. /\ Announce("rows") /\ lisProc' = lisProc /\ UNCHANGED <<lisCert, lisRestoring>>
        /\ LisEdit /\ lisRows' = [lisRows EXCEPT ![p] = kind]
    BY <1>1 DEF PutListener
  <2>2. lisRows' \in [LisPorts -> LisRowKinds]
    BY <2>1 DEF LisInv, LisTypeOK
  <2>3. lisEdits' \in 0..LisMaxEdits /\ lisCert' <= 1 + lisEdits' /\ lisCert' \in Certs
    BY <2>1, CertType DEF LisEdit, LisInv, LisTypeOK, CertInv, Certs
  <2>4. lisRestoring' \in BOOLEAN
    BY <2>1 DEF LisInv, LisTypeOK
  <2>5. QED
    BY <2>1, <2>2, <2>3, <2>4, LisEditInv
<1>2. CASE RestoreDelete
  <2>1. lisEdits' \in 0..LisMaxEdits /\ lisCert' <= 1 + lisEdits'
    BY <1>2, CertType DEF RestoreDelete, LisEdit, LisInv, LisTypeOK, CertInv, Certs
  <2>2. LisTypeOK'
    BY <1>2, <2>1 DEF RestoreDelete, lisProc, LisInv, LisTypeOK, NoRows, LisRowKinds
  <2>3. CertInv' /\ BootInv' /\ ReadInv' /\ FollowInv'
    BY <1>2, <2>1 DEF RestoreDelete, lisProc, LisInv, CertInv, BootInv, ReadInv, FollowInv,
       RowsComing
  <2>4. QED
    BY <2>2, <2>3 DEF LisInv
<1>3. CASE RestoreCreate
  <2>1. /\ Announce("rows") /\ lisProc' = lisProc /\ UNCHANGED <<lisCert, lisEdits>>
        /\ lisRows' = LisDefaults /\ lisRestoring' = FALSE
    BY <1>3 DEF RestoreCreate
  <2>2. lisRows' \in [LisPorts -> LisRowKinds]
    BY <2>1, LisAssumption DEF LisRowKinds
  <2>3. lisEdits' \in 0..LisMaxEdits /\ lisCert' <= 1 + lisEdits' /\ lisCert' \in Certs
    BY <2>1 DEF LisInv, LisTypeOK, CertInv
  <2>4. QED
    BY <2>1, <2>2, <2>3, LisEditInv
<1>4. CASE ActivateCert
  <2>1. /\ Announce("cert") /\ lisProc' = lisProc /\ UNCHANGED <<lisRows, lisRestoring>>
        /\ LisEdit /\ lisCert' = lisCert + 1
    BY <1>4 DEF ActivateCert
  <2>2. lisEdits' \in 0..LisMaxEdits /\ lisCert' <= 1 + lisEdits' /\ lisCert' \in Certs
    BY <2>1, CertType DEF LisEdit, LisInv, LisTypeOK, CertInv, Certs
  <2>3. lisRows' \in [LisPorts -> LisRowKinds] /\ lisRestoring' \in BOOLEAN
    BY <2>1 DEF LisInv, LisTypeOK
  <2>4. QED
    BY <2>1, <2>2, <2>3, LisEditInv
<1>5. CASE LisPoll
  <2>1. /\ lisAt = "up" /\ Schedule
        /\ UNCHANGED <<lisRows, lisCert, lisRestoring, lisEdits, lisFallsBack, lisAt, lisServers,
                       lisTls, lisRead, lisRefreshes, lisMail, lisMissed, lisFaults>>
    BY <1>5 DEF LisPoll, lisDb
  <2>2. QED
    BY <2>1, LisScheduleInv DEF LisInv, LisTypeOK
<1>6. CASE UNCHANGED lisVars
  <2>1. LisTypeOK'
    BY <1>6 DEF lisVars, LisInv, LisTypeOK
  <2>2. CertInv' /\ BootInv' /\ ReadInv' /\ FollowInv'
    BY <1>6, FollowsSame DEF lisVars, LisInv, CertInv, BootInv, ReadInv, FollowInv, RowsComing
  <2>3. QED
    BY <2>1, <2>2 DEF LisInv
<1>7. QED
  BY <1>1, <1>2, <1>3, <1>4, <1>5, <1>6, LisReloadInv, LisMessageInv, LisRefreshInv, LisProcessInv
     DEF LisNext

-----------------------------------------------------------------------------
(* The certificate, in the same way: while it is not the current one, a    *)
(* message or a refresh that will read the current one is on its way, or   *)
(* an overtaken refresh has put an older one back.                         *)
CertSent ==
  (\E i \in DOMAIN lisMail : lisMail[i] = "cert") \/ "cert" \in lisMissed \/ "older" \in lisMissed

CertComing == CertSent \/ lisRefreshes[0] > 0 \/ lisRefreshes[lisCert] > 0

CurrentInv == lisAt \in {"count", "rows", "up"} /\ ~CertComing => lisTls = lisCert

(* What refreshes hold is no newer than the database.                      *)
HeldInv ==
  /\ lisTls <= lisCert
  /\ \A c \in Certs : lisRefreshes[c] > 0 => c <= lisCert
  /\ lisAt # "up" => lisRefreshes = NoRefresh

TlsInv == CurrentInv /\ HeldInv

LEMMA AnnounceSends ==
  ASSUME LisTypeOK, NEW what \in {"rows", "cert"}, Announce(what)
  PROVE  /\ CertSent => CertSent'
         /\ what = "cert" => CertSent'
<1>1. CASE lisMail' = Append(lisMail, what) /\ UNCHANGED lisMissed
  <2>1. /\ DOMAIN lisMail' = 1..(Len(lisMail) + 1) /\ DOMAIN lisMail = 1..Len(lisMail)
        /\ Len(lisMail) \in Nat
        /\ lisMail'[Len(lisMail) + 1] = what
        /\ \A i \in 1..Len(lisMail) : lisMail'[i] = lisMail[i]
    BY <1>1 DEF LisTypeOK
  <2>2. QED
    BY <1>1, <2>1 DEF CertSent
<1>2. CASE lisMissed' = lisMissed \cup {what} /\ UNCHANGED lisMail
  BY <1>2 DEF CertSent
<1>3. QED
  BY <1>1, <1>2 DEF Announce

(* A step that leaves the certificates alone and takes no word of them.    *)
LEMMA TlsSame ==
  ASSUME TlsInv, UNCHANGED <<lisCert, lisTls, lisRefreshes>>, CertSent => CertSent',
         lisAt' = lisAt \/ lisAt \in {"count", "rows"}
  PROVE  TlsInv'
<1>1. HeldInv'
  BY DEF TlsInv, HeldInv
<1>2. CurrentInv'
  BY DEF TlsInv, CurrentInv, CertComing
<1>3. QED
  BY <1>1, <1>2 DEF TlsInv

LEMMA TlsEditInv ==
  ASSUME LisInv, TlsInv,
         \/ \E p \in LisPorts, kind \in LisRowKinds : PutListener(p, kind)
         \/ RestoreDelete \/ RestoreCreate \/ ActivateCert
  PROVE  TlsInv'
<1>1. ASSUME \/ \E p \in LisPorts, kind \in LisRowKinds : PutListener(p, kind)
             \/ RestoreCreate
      PROVE  TlsInv'
  <2>1. Announce("rows") /\ lisProc' = lisProc /\ lisCert' = lisCert
    BY <1>1 DEF PutListener, RestoreCreate
  <2>2. CertSent => CertSent'
    BY <2>1, AnnounceSends DEF LisInv
  <2>3. QED
    BY <2>1, <2>2, TlsSame DEF lisProc
<1>2. CASE RestoreDelete
  BY <1>2, TlsSame DEF RestoreDelete, lisProc, CertSent
<1>3. CASE ActivateCert
  <2>1. Announce("cert") /\ lisProc' = lisProc /\ lisCert' = lisCert + 1
    BY <1>3 DEF ActivateCert
  <2>2. CertSent'
    BY <2>1, AnnounceSends DEF LisInv
  <2>3. CurrentInv'
    BY <2>2 DEF CurrentInv, CertComing
  <2>4. lisCert \in Int /\ lisTls \in Int /\ Certs \subseteq Int
    BY CertType DEF LisInv, LisTypeOK
  <2>5. HeldInv'
    BY <2>1, <2>4 DEF TlsInv, HeldInv, lisProc
  <2>6. QED
    BY <2>3, <2>5 DEF TlsInv
<1>4. QED
  BY <1>1, <1>2, <1>3

(* A refresh that has read the current certificate makes it so; one with   *)
(* an older reading leaves the work to one that is still to come.          *)
LEMMA TlsRefreshInv ==
  ASSUME LisInv, TlsInv, ReadCert \/ \E c \in {0} \cup Certs : RefreshOver(c)
  PROVE  TlsInv'
<1>0. /\ lisCert \in Certs /\ lisTls \in {0} \cup Certs
      /\ lisRefreshes \in [{0} \cup Certs -> Nat]
      /\ Certs \subseteq Int /\ 0 \notin Certs
  BY CertType DEF LisInv, LisTypeOK, Certs
<1>1. CASE ReadCert
  <2>1. /\ lisAt = "up" /\ lisRefreshes[0] > 0
        /\ lisRefreshes' = [lisRefreshes EXCEPT ![0] = lisRefreshes[0] - 1,
                                               ![lisCert] = lisRefreshes[lisCert] + 1]
        /\ UNCHANGED <<lisCert, lisAt, lisTls>>
    BY <1>1 DEF ReadCert, lisDb
  <2>2. /\ lisRefreshes'[lisCert] > 0
        /\ \A c \in Certs : c # lisCert => lisRefreshes'[c] = lisRefreshes[c]
    BY <1>0, <2>1
  <2>3. CurrentInv'
    BY <2>1, <2>2 DEF CurrentInv, CertComing
  <2>4. HeldInv'
    BY <1>0, <2>1, <2>2 DEF TlsInv, HeldInv
  <2>5. QED
    BY <2>3, <2>4 DEF TlsInv
<1>2. ASSUME NEW c \in {0} \cup Certs, RefreshOver(c)
      PROVE  TlsInv'
  <2>1. /\ lisAt = "up" /\ lisRefreshes[c] > 0
        /\ lisRefreshes' = [lisRefreshes EXCEPT ![c] = lisRefreshes[c] - 1]
        /\ UNCHANGED <<lisCert, lisAt, lisMail>>
    BY <1>2 DEF RefreshOver, lisDb
  <2>2. \A d \in {0} \cup Certs : d # c => lisRefreshes'[d] = lisRefreshes[d]
    BY <1>0, <2>1
  <2>3. \A d \in Certs : lisRefreshes'[d] > 0 => lisRefreshes[d] > 0
    BY <1>0, <2>1, <2>2
  <2>4. CASE c = 0 /\ lisMissed' = lisMissed \cup {"cert"} /\ UNCHANGED lisTls
    BY <2>1, <2>3, <2>4 DEF TlsInv, HeldInv, CurrentInv, CertComing, CertSent
  <2>5. CASE c > 0 /\ lisTls' = c
             /\ lisMissed' = IF c < lisTls THEN lisMissed \cup {"older"}
                             ELSE IF c = lisCert THEN lisMissed \ {"cert", "older"} ELSE lisMissed
    <3>1. c \in Certs /\ c <= lisCert
      BY <1>0, <2>1, <2>5 DEF TlsInv, HeldInv
    <3>2. HeldInv'
      BY <2>1, <2>3, <2>5, <3>1 DEF TlsInv, HeldInv
    <3>3. CASE c < lisTls \/ c = lisCert
      BY <1>0, <2>1, <2>5, <3>2, <3>3 DEF TlsInv, HeldInv, CurrentInv, CertComing, CertSent
    <3>4. CASE ~(c < lisTls) /\ c # lisCert
      <4>1. CertComing' <=> CertComing
        BY <1>0, <2>1, <2>2, <2>5, <3>4 DEF CertComing, CertSent
      <4>2. lisTls # lisCert
        BY <1>0, <3>1, <3>4
      <4>3. CertComing'
        BY <2>1, <4>1, <4>2 DEF TlsInv, CurrentInv
      <4>4. QED
        BY <3>2, <4>3 DEF TlsInv, CurrentInv
    <3>5. QED
      BY <3>3, <3>4
  <2>6. QED
    BY <1>2, <2>4, <2>5 DEF RefreshOver
<1>3. QED
  BY <1>1, <1>2

LEMMA TlsMessageInv ==
  ASSUME LisInv, TlsInv, TakeMessage
  PROVE  TlsInv'
<1>1. /\ lisAt = "up" /\ lisMail # <<>> /\ lisMail' = Tail(lisMail)
      /\ UNCHANGED <<lisCert, lisAt, lisTls, lisMissed>>
  BY DEF TakeMessage, lisDb
<1>2. /\ lisMail \in Seq({"rows", "cert"}) /\ Len(lisMail) \in Nat \ {0}
      /\ DOMAIN lisMail = 1..Len(lisMail) /\ DOMAIN lisMail' = 1..(Len(lisMail) - 1)
      /\ \A i \in 1..(Len(lisMail) - 1) : lisMail'[i] = lisMail[i + 1]
  BY <1>1 DEF LisInv, LisTypeOK
<1>3. CASE Head(lisMail) = "rows"
  <2>1. UNCHANGED lisRefreshes /\ lisMail[1] = "rows"
    BY <1>2, <1>3 DEF TakeMessage
  <2>2. ASSUME NEW i \in DOMAIN lisMail, lisMail[i] = "cert"
        PROVE  \E j \in DOMAIN lisMail' : lisMail'[j] = "cert"
    <3>1. i \in 1..Len(lisMail) /\ i # 1
      BY <1>2, <2>1, <2>2
    <3>2. i - 1 \in DOMAIN lisMail' /\ lisMail'[i - 1] = lisMail[i]
      BY <1>2, <3>1
    <3>3. QED
      BY <2>2, <3>2
  <2>3. CertSent => CertSent'
    BY <1>1, <2>2 DEF CertSent
  <2>4. QED
    BY <1>1, <2>1, <2>3, TlsSame
<1>4. CASE Head(lisMail) # "rows"
  <2>1. lisRefreshes' = Refreshed
    BY <1>4 DEF TakeMessage
  <2>2. /\ lisRefreshes'[0] > 0
        /\ \A c \in Certs : lisRefreshes'[c] = lisRefreshes[c]
    BY <2>1 DEF Refreshed, LisInv, LisTypeOK, Certs
  <2>3. QED
    BY <1>1, <2>2 DEF TlsInv, CurrentInv, HeldInv, CertComing
<1>5. QED
  BY <1>3, <1>4

LEMMA TlsProcessInv ==
  ASSUME LisInv, TlsInv, LisStop \/ LisBoot
  PROVE  TlsInv'
<1>0. lisCert \in Certs /\ (\A c \in Certs : c \in Int /\ c > 0 /\ NoRefresh[c] = 0)
  BY CertType DEF LisInv, LisTypeOK, Certs, NoRefresh
<1>1. CASE LisStop
  BY <1>0, <1>1 DEF LisStop, lisDb, TlsInv, CurrentInv, HeldInv
<1>2. CASE LisBegin
  BY <1>2 DEF LisBegin, lisDb, TlsInv, CurrentInv, HeldInv
<1>3. CASE BootCert
  <2>1. UNCHANGED <<lisCert, lisRefreshes>> /\ lisAt = "cert" /\ lisAt' = "count"
    BY <1>3 DEF BootCert, lisDb
  <2>2. CASE lisTls' = lisCert
    BY <1>0, <2>1, <2>2 DEF TlsInv, CurrentInv, HeldInv
  <2>3. CASE lisMissed' = lisMissed \cup {"cert"} /\ UNCHANGED lisTls
    BY <2>1, <2>3 DEF TlsInv, CurrentInv, HeldInv, CertComing, CertSent
  <2>4. QED
    BY <1>3, <2>2, <2>3 DEF BootCert
<1>4. CASE BootCount
  <2>1. CertSent => CertSent'
    BY <1>4 DEF BootCount, CertSent
  <2>2. QED
    BY <1>4, <2>1, TlsSame DEF BootCount
<1>5. CASE BootSubscribe
  <2>1. CertSent => CertSent'
    BY <1>5 DEF BootSubscribe, CertSent
  <2>2. QED
    BY <1>5, <2>1, TlsSame DEF BootSubscribe, lisDb
<1>6. QED
  BY <1>1, <1>2, <1>3, <1>4, <1>5 DEF LisBoot

LEMMA TlsNextInv ==
  ASSUME LisInv, TlsInv, [LisNext]_lisVars
  PROVE  TlsInv'
<1>1. CASE LisPoll \/ UNCHANGED lisVars
  BY <1>1, TlsSame DEF LisPoll, lisDb, lisVars, CertSent
<1>2. CASE ReadListeners
  <2>1. CertSent => CertSent'
    BY <1>2 DEF ReadListeners, CertSent
  <2>2. QED
    BY <1>2, <2>1, TlsSame DEF ReadListeners, lisDb
<1>3. CASE ApplyListeners
  <2>1. CertSent => CertSent'
    BY <1>3 DEF ApplyListeners, CertSent
  <2>2. QED
    BY <1>3, <2>1, TlsSame DEF ApplyListeners, lisDb
<1>4. QED
  BY <1>1, <1>2, <1>3, TlsEditInv, TlsMessageInv, TlsRefreshInv, TlsProcessInv DEF LisNext

LEMMA TlsInitInv == LisInit => TlsInv
<1> SUFFICES ASSUME LisInit PROVE TlsInv
  OBVIOUS
<1>1. Certs \subseteq Int /\ \A c \in Certs : NoRefresh[c] = 0
  BY CertType DEF NoRefresh
<1>2. QED
  BY <1>1 DEF LisInit, TlsInv, CurrentInv, HeldInv

-----------------------------------------------------------------------------
THEOREM LisInvariant == LisSpec => []LisInv
<1>1. LisInit => LisInv
  BY LisInitInv
<1>2. LisInv /\ [LisNext]_lisVars => LisInv'
  BY LisNextInv
<1>3. QED
  BY <1>1, <1>2, PTL DEF LisSpec

(* The state of the listeners is well formed, and a reload that waits has  *)
(* one before it.                                                          *)
THEOREM LisTypes == LisSpec => []LisTypeOK
<1>1. LisInv => LisTypeOK
  BY DEF LisInv
<1>2. QED
  BY <1>1, LisInvariant, PTL

(* When all is quiet, and no change of the rows went unannounced, the      *)
(* ports are those of the rows: no message is lost between two reloads.    *)
THEOREM LisRowsAreFollowed == LisSpec => []RowsAreFollowed
<1>1. LisInv => RowsAreFollowed
  <2>1. lisMail = <<>> => ~(\E i \in DOMAIN lisMail : lisMail[i] = "rows")
    OBVIOUS
  <2>2. QED
    BY <2>1 DEF LisInv, FollowInv, RowsAreFollowed, Quiet, RowsComing
<1>2. QED
  BY <1>1, LisInvariant, PTL

(* When all is quiet, the process runs what the database says: the ports   *)
(* are those of the rows, and the certificate that new listeners get is    *)
(* the newest, unless nothing announced it or the last of two overlapping  *)
(* refreshes to end was the first to read.                                 *)
THEOREM LisQuietIsCurrent == LisSpec => []QuietIsCurrent
<1>1. LisInit => TlsInv
  BY TlsInitInv
<1>2. LisInv /\ TlsInv /\ [LisNext]_lisVars => TlsInv'
  BY TlsNextInv
<1>3. LisInv /\ TlsInv => CertIsCurrent
  <2> SUFFICES ASSUME LisInv, TlsInv, Quiet("cert"), ~Overtaken PROVE lisTls = lisCert
    BY DEF CertIsCurrent
  <2>1. lisCert \in Certs /\ NoRefresh[0] = 0 /\ NoRefresh[lisCert] = 0
    BY DEF LisInv, LisTypeOK, NoRefresh
  <2>2. ~CertComing
    BY <2>1 DEF Quiet, CertComing, CertSent, Overtaken
  <2>3. QED
    BY <2>2 DEF Quiet, TlsInv, CurrentInv
<1>4. RowsAreFollowed /\ CertIsCurrent => QuietIsCurrent
  BY DEF QuietIsCurrent
<1>5. QED
  BY <1>1, <1>2, <1>3, <1>4, LisInvariant, LisRowsAreFollowed, PTL DEF LisSpec

-----------------------------------------------------------------------------
(* Certificates.  What agrees at rest is kept by what the tasks at work    *)
(* still will do: the invariant says which of them will tell the listener, *)
(* which has written one of the settings and the flags and not the other,  *)
(* and which has a timer for a row in work.                                *)

CertTasks ==
  [do : CertDoes, id : CertIds, pem : CertPems, todo : SUBSET CertIds, mail : BOOLEAN,
   https : BOOLEAN, timer : {"off", "on", "fired"},
   at : {"idle", "others", "claim", "acme", "publish", "settings", "flags", "failed", "done",
         "renewing", "https", "unset", "unflag", "unhttps", "remove"}]
CertRowType ==
  [status : CertStatus, pem : CertPems, bad : BOOLEAN, https : BOOLEAN, protocol : BOOLEAN,
   mail : BOOLEAN, acme : BOOLEAN, old : BOOLEAN]

(* Pems: those of an issuance that has not come are still within bounds.   *)
Awaits(t) == Issues(t) /\ t.at \in {"others", "claim", "renewing", "acme"}
Awaiting == {s \in CertSlots : Awaits(certTask[s])}
BudgetInv == Len(certOwner) + Cardinality(Awaiting) <= 1 + certActs

CertRowInv ==
  \A c \in CertIds :
    /\ certRow[c].pem <= Len(certOwner)
    /\ certRow[c].pem > 0 => certOwner[certRow[c].pem] = c
    /\ certRow[c].status = "ACTIVE" => certRow[c].pem > 0
    /\ ~Present(c) => ~certRow[c].protocol

OneFlagInv ==
  \A c, d \in CertIds :
    /\ certRow[c].protocol /\ certRow[d].protocol => c = d
    /\ certRow[c].https /\ certRow[d].https => c = d

(* A task with a pem for the mail servers.                                 *)
Mailing(t) ==
  \/ t.at \in {"settings", "flags"}
  \/ t.at = "publish" /\ t.mail

CertTaskShape(t) ==
  /\ t.at \in {"acme", "failed", "done"} \/ t.timer # "off" => Issues(t)
  /\ t.at \in {"others", "claim"} => t.do \in {"letsencrypt", "upload", "selfsigned", "put"}
  /\ t.at \in {"settings", "flags"} => Issues(t) \/ t.do = "protocol"
  /\ t.at \in {"unset", "unflag", "unhttps", "remove"} => t.do = "delete"
  /\ t.at = "publish" => t.do \notin {"put", "protocol"}
  /\ t.at = "https" => t.do = "https"
  /\ t.at = "renewing" => t.do = "renew"
  /\ t.mail => Issues(t) /\ t.at \notin {"others", "claim", "renewing", "acme"}
  /\ t.pem <= Len(certOwner)
  /\ Mailing(t) => t.pem > 0 /\ certOwner[t.pem] = t.id
CertShapeInv == \A s \in CertSlots : CertTaskShape(certTask[s])

CertDownInv ==
  ~certUp => /\ \A s \in CertSlots : certTask[s] = NoTask
             /\ certMail = 0 /\ certStarts = {}
             /\ \A r \in CertReloads : certReload[r] = NoCertReload

(* The listener: nothing is still to be told to it.                        *)
Telling(t) ==
  \/ t.at = "publish" /\ t.do # "delete"
  \/ t.at \in {"others", "claim"} /\ t.do \in {"upload", "selfsigned"}

Told ==
  /\ certUp /\ "lost" \notin certMissed /\ certMail = 0
  /\ \A r \in CertReloads : certReload[r].at # "load"
  /\ \A s \in CertSlots : ~Telling(certTask[s])

GoodRead(read) ==
  \A c \in CertIds : certRow[c].status = "ACTIVE" =>
    /\ read.pems[c] = certRow[c].pem
    /\ certRow[c].https => c \in read.https
    /\ ~certRow[c].bad => c \notin read.bad

Served ==
  \A c \in CertIds : certRow[c].status = "ACTIVE" =>
    /\ certListens \/ "threw" \in certMissed
    /\ ~certRow[c].bad => certMap.pems[c] = certRow[c].pem
    /\ ~certRow[c].bad /\ certRow[c].https =>
         /\ certListens /\ certMap.default = certRow[c].pem
         /\ certMap.server = certRow[c].pem \/ "taken" \in certMissed

ReadOneInv ==
  \A r \in CertReloads : \A c, d \in certReload[r].read.https : c = d

CertServedInv ==
  Told =>
    /\ \A r \in CertReloads : InHand(r) /\ ~certReload[r].newer => GoodRead(certReload[r].read)
    /\ (\A r \in CertReloads : ~InHand(r)) /\ "late" \notin certMissed => Served

(* The mail servers' certificate: a change that may have written one of    *)
(* the two is alone, or it is known that changes have crossed.             *)
Flagged == {c \in CertIds : certRow[c].protocol}

Changing(t) ==
  \/ t.at \in {"flags", "unset", "unflag", "unhttps", "remove"}
  \/ t.at = "publish" /\ t.do = "delete"

AloneInv ==
  ~certCrossed =>
    \A s \in CertSlots :
      /\ Changing(certTask[s]) =>
           ~StartMidway /\ \A o \in CertSlots : Changing(certTask[o]) => s = o
      /\ Mailing(certTask[s]) => Present(certTask[s].id)

Half(t) ==
  /\ t.at = "flags" => certSettings = t.pem
  /\ t.at = "unflag" => certSettings = 0 \/ certTorn = "failed"
  /\ t.at \in {"unhttps", "remove"} \/ (t.at = "publish" /\ t.do = "delete")
       => ~certRow[t.id].protocol
HalfInv == ~certCrossed => \A s \in CertSlots : Half(certTask[s])

Writing == \E s \in CertSlots : certTask[s].at \in {"flags", "unflag"}

Settles ==
  /\ /\ certUp /\ certStarts \cap {"read", "flagged", "clear"} = {}
     /\ certTorn # "failed" /\ certSettings > 0
     => Flagged # {}
  /\ certTorn = "no" =>
       IF certSettings = 0 THEN Flagged = {} ELSE certOwner[certSettings] \in Flagged

SettledInv ==
  ~certCrossed =>
    /\ "clear" \in certStarts => Flagged = {}
    /\ ~Writing => Settles

(* Timers: an issuance whose end, or whose timer, will end c's work.       *)
Ends(t, c) ==
  /\ t.id = c /\ Issues(t)
  /\ \/ t.at \in {"acme", "failed"} /\ t.timer # "off"
     \/ t.do = "letsencrypt" /\ t.at \in {"others", "claim"}

CertTimedInv ==
  certUp => \A c \in CertIds : InWork(c) =>
    \/ c \in certLeft
    \/ \E s \in CertSlots : Ends(certTask[s], c)
    \/ "cleanup" \in certStarts /\ ~Worked(c)

CertRowsInv  == CertRowInv /\ OneFlagInv
CertTasksInv == BudgetInv /\ CertShapeInv /\ CertDownInv
CertTellInv  == ReadOneInv /\ CertServedInv
CertMailInv  == AloneInv /\ HalfInv /\ SettledInv

CertsInv ==
  CertTypeOK /\ CertRowsInv /\ CertTasksInv /\ CertTellInv /\ CertMailInv /\ CertTimedInv

-----------------------------------------------------------------------------
(* Types.                                                                  *)
LEMMA CertFacts ==
  ASSUME CertTypeOK
  PROVE  /\ certTask \in [CertSlots -> CertTasks]
         /\ certRow \in [CertIds -> CertRowType]
         /\ Len(certOwner) \in Nat
         /\ \A i \in 1..Len(certOwner) : certOwner[i] \in CertIds
         /\ certActs \in Nat /\ certActs <= CertMaxActs
         /\ CertIds \subseteq Nat /\ CertPems \subseteq Nat /\ 0 \in CertPems
<1>1. /\ certTask \in [CertSlots -> CertTasks]
      /\ certRow \in [CertIds -> CertRowType]
      /\ certOwner \in Seq(CertIds)
      /\ certActs \in 0..CertMaxActs
  BY DEF CertTypeOK, CertTasks, CertRowType
<1>2. Len(certOwner) \in Nat /\ \A i \in 1..Len(certOwner) : certOwner[i] \in CertIds
  BY <1>1
<1>3. certActs \in Nat /\ certActs <= CertMaxActs
  BY <1>1, CertAssumption
<1>4. CertIds \subseteq Nat /\ CertPems \subseteq Nat /\ 0 \in CertPems
  BY CertAssumption DEF CertIds, CertPems
<1>5. QED
  BY <1>1, <1>2, <1>3, <1>4

LEMMA NoTaskType == NoTask \in CertTasks /\ NoTask.at = "idle"
BY CertAssumption DEF NoTask, CertTasks, CertDoes, CertIds, CertPems

LEMMA NoRowType == NoRow \in CertRowType
BY CertAssumption DEF NoRow, CertRowType, CertStatus, CertPems

(* How many issuances are awaited when one task changes.                   *)
LEMMA AwaitStep ==
  ASSUME CertTypeOK, NEW s \in CertSlots, NEW n, certTask' = [certTask EXCEPT ![s] = n]
  PROVE  /\ Cardinality(Awaiting) \in Nat /\ Cardinality(Awaiting') \in Nat
         /\ (Awaits(n) <=> Awaits(certTask[s])) => Cardinality(Awaiting') = Cardinality(Awaiting)
         /\ ~Awaits(n) => Cardinality(Awaiting') <= Cardinality(Awaiting)
         /\ Awaits(certTask[s]) /\ ~Awaits(n) =>
              Cardinality(Awaiting') = Cardinality(Awaiting) - 1
         /\ Cardinality(Awaiting') <= Cardinality(Awaiting) + 1
<1>1. certTask \in [CertSlots -> CertTasks]
  BY CertFacts
<1>2. Awaiting' = IF Awaits(n) THEN Awaiting \cup {s} ELSE Awaiting \ {s}
  BY <1>1 DEF Awaiting, Awaits, Issues
<1>3. IsFiniteSet(CertSlots) /\ Awaiting \subseteq CertSlots
  BY CertAssumption DEF Awaiting
<1>4. IsFiniteSet(Awaiting) /\ Cardinality(Awaiting) \in Nat
  BY <1>3, FS_Subset, FS_CardinalityType
<1>5. /\ Cardinality(Awaiting \cup {s}) =
           IF s \in Awaiting THEN Cardinality(Awaiting) ELSE Cardinality(Awaiting) + 1
      /\ Cardinality(Awaiting \ {s}) =
           IF s \in Awaiting THEN Cardinality(Awaiting) - 1 ELSE Cardinality(Awaiting)
  BY <1>4, FS_AddElement, FS_RemoveElement
<1>6. s \in Awaiting <=> Awaits(certTask[s])
  BY DEF Awaiting
<1>7. s \in Awaiting => Cardinality(Awaiting) > 0
  <2> SUFFICES ASSUME s \in Awaiting, Cardinality(Awaiting) = 0 PROVE FALSE
    BY <1>4
  <2>1. QED
    BY <1>4, FS_EmptySet
<1>8. CASE Awaits(n)
  BY <1>2, <1>4, <1>5, <1>6, <1>8
<1>9. CASE ~Awaits(n)
  BY <1>2, <1>4, <1>5, <1>6, <1>7, <1>9
<1>10. QED
  BY <1>8, <1>9

(* More pems leave the earlier ones as they are.                           *)
OwnersKept ==
  /\ certOwner' \in Seq(CertIds)
  /\ Len(certOwner) <= Len(certOwner') /\ Len(certOwner') <= 1 + CertMaxActs
  /\ \A i \in 1..Len(certOwner) : certOwner'[i] = certOwner[i]

LEMMA OwnersSame == CertsInv /\ certOwner' = certOwner => OwnersKept
<1> SUFFICES ASSUME CertsInv, certOwner' = certOwner PROVE OwnersKept
  OBVIOUS
<1>1. Cardinality(Awaiting) \in Nat
  BY CertAssumption, FS_Subset, FS_CardinalityType DEF Awaiting
<1>2. QED
  BY <1>1, CertFacts, CertAssumption DEF CertsInv, CertTypeOK, OwnersKept, CertTasksInv, BudgetInv

-----------------------------------------------------------------------------
(* A step that changes one task.                                           *)
LEMMA TaskStep ==
  ASSUME CertsInv, NEW s \in CertSlots, NEW n \in CertTasks,
         certTask' = [certTask EXCEPT ![s] = n], certUp, UNCHANGED certUp,
         OwnersKept, CertTaskShape(n)', certActs' \in 0..CertMaxActs,
         \/ /\ Awaits(n) <=> Awaits(certTask[s])
            /\ Len(certOwner') - certActs' <= Len(certOwner) - certActs
         \/ /\ ~Awaits(n)
            /\ Len(certOwner') - certActs' <= Len(certOwner) - certActs
         \/ /\ Awaits(certTask[s]) /\ ~Awaits(n) /\ certActs' = certActs
            /\ Len(certOwner') = Len(certOwner) + 1
         \/ /\ certActs' = certActs + 1 /\ Len(certOwner') = Len(certOwner)
  PROVE  certTask' \in [CertSlots -> CertTasks] /\ CertTasksInv'
<1>1. certTask \in [CertSlots -> CertTasks] /\ Len(certOwner) \in Nat /\ certActs \in Nat
      /\ Len(certOwner') \in Nat /\ certActs' \in Nat
  BY CertFacts DEF CertsInv, OwnersKept
<1>2. BudgetInv'
  <2>1. Len(certOwner) + Cardinality(Awaiting) <= 1 + certActs
    BY DEF CertsInv, CertTasksInv, BudgetInv
  <2>2. /\ Cardinality(Awaiting) \in Nat /\ Cardinality(Awaiting') \in Nat
        /\ (Awaits(n) <=> Awaits(certTask[s])) => Cardinality(Awaiting') = Cardinality(Awaiting)
        /\ ~Awaits(n) => Cardinality(Awaiting') <= Cardinality(Awaiting)
        /\ Awaits(certTask[s]) /\ ~Awaits(n) =>
             Cardinality(Awaiting') = Cardinality(Awaiting) - 1
        /\ Cardinality(Awaiting') <= Cardinality(Awaiting) + 1
    BY AwaitStep DEF CertsInv
  <2>3. Len(certOwner') + Cardinality(Awaiting') <= 1 + certActs'
    <3>1. CASE Awaits(n) <=> Awaits(certTask[s])
      <4>1. Cardinality(Awaiting') = Cardinality(Awaiting)
        BY <2>2, <3>1
      <4>2. QED
        BY <1>1, <2>1, <2>2, <3>1, <4>1
    <3>2. CASE Awaits(n) /\ ~Awaits(certTask[s])
      <4>1. certActs' = certActs + 1 /\ Len(certOwner') = Len(certOwner)
        BY <3>2
      <4>2. QED
        BY <1>1, <2>1, <2>2, <4>1
    <3>3. CASE ~Awaits(n) /\ Awaits(certTask[s])
      <4>1. Cardinality(Awaiting') = Cardinality(Awaiting) - 1
        BY <2>2, <3>3
      <4>2. Len(certOwner') - certActs' <= Len(certOwner) - certActs + 1
        BY <1>1, <3>3
      <4>3. QED
        BY <1>1, <2>1, <2>2, <4>1, <4>2, SMTT(30)
    <3>4. QED
      BY <3>1, <3>2, <3>3
  <2>4. QED
    BY <2>3 DEF BudgetInv
<1>3. CertShapeInv'
  <2> SUFFICES ASSUME NEW o \in CertSlots, o # s PROVE CertTaskShape(certTask[o])'
    BY <1>1 DEF CertShapeInv
  <2>1. certTask'[o] = certTask[o] /\ CertTaskShape(certTask[o]) /\ certTask[o].pem \in Nat
    BY <1>1, CertFacts DEF CertsInv, CertTasksInv, CertShapeInv, CertTasks
  <2>2. QED
    BY <1>1, <2>1 DEF CertTaskShape, Mailing, Issues, OwnersKept
<1>4. CertDownInv'
  BY DEF CertDownInv
<1>5. QED
  BY <1>1, <1>2, <1>3, <1>4 DEF CertTasksInv

LEMMA TaskStepSame ==
  ASSUME CertsInv, NEW s \in CertSlots, NEW n \in CertTasks,
         certTask' = [certTask EXCEPT ![s] = n], certUp, UNCHANGED <<certUp, certOwner, certActs>>,
         CertTaskShape(n)', Awaits(n) => Awaits(certTask[s])
  PROVE  certTask' \in [CertSlots -> CertTasks] /\ CertTasksInv' /\ OwnersKept
<1>1. OwnersKept
  BY OwnersSame
<1>2. certActs' \in 0..CertMaxActs /\ Len(certOwner') = Len(certOwner) /\ certActs' = certActs
      /\ Len(certOwner) \in Nat /\ certActs \in Nat
  BY CertFacts DEF CertsInv, CertTypeOK
<1>3. Len(certOwner') - certActs' <= Len(certOwner) - certActs
  BY <1>2
<1>4. ~Awaits(n) \/ (Awaits(n) <=> Awaits(certTask[s]))
  OBVIOUS
<1>5. QED
  BY <1>1, <1>2, <1>3, <1>4, TaskStep

(* The listener.  What is new to be served is told, or known to be missed. *)
LEMMA TellStep ==
  ASSUME CertsInv, NEW s \in CertSlots, NEW n \in CertTasks,
         certTask' = [certTask EXCEPT ![s] = n],
         UNCHANGED <<certUp, certMail, certReload, certListens, certMap>>,
         certMissed' \in {certMissed, certMissed \cup {"lost"}},
         Telling(certTask[s]) => Telling(n) \/ "lost" \in certMissed',
         \/ Telling(n) \/ "lost" \in certMissed'
         \/ \A c \in CertIds : certRow'[c].status = "ACTIVE" =>
              /\ certRow[c].status = "ACTIVE" /\ certRow'[c].pem = certRow[c].pem
              /\ certRow'[c].https => certRow[c].https
              /\ certRow'[c].bad = certRow[c].bad
  PROVE  CertTellInv'
<1>1. ReadOneInv'
  BY DEF CertsInv, CertTellInv, ReadOneInv
<1>2. CertServedInv'
  <2> SUFFICES ASSUME Told'
               PROVE  /\ \A r \in CertReloads : InHand(r)' /\ ~certReload'[r].newer =>
                                                  GoodRead(certReload[r].read)'
                      /\ (\A r \in CertReloads : ~InHand(r)') /\ "late" \notin certMissed'
                           => Served'
    BY DEF CertServedInv
  <2>1. ~Telling(n) /\ certMissed' = certMissed /\ "lost" \notin certMissed
        /\ \A o \in CertSlots : o # s => certTask'[o] = certTask[o]
    BY CertFacts DEF CertsInv, Told
  <2>2. Told
    BY <2>1 DEF Told
  <2>3. QED
    BY <2>1, <2>2 DEF CertsInv, CertTellInv, CertServedInv, GoodRead, Served, InHand
<1>3. QED
  BY <1>1, <1>2 DEF CertTellInv

(* The mail servers: a step that has no part in a change of their          *)
(* certificate but, at most, to have a pem for it.                         *)
LEMMA MailStep ==
  ASSUME CertsInv, NEW s \in CertSlots, NEW n \in CertTasks,
         certTask' = [certTask EXCEPT ![s] = n],
         UNCHANGED <<certSettings, certCrossed, certUp, certStarts, certTorn>>,
         OwnersKept,
         \A c \in CertIds : /\ certRow'[c].protocol = certRow[c].protocol
                            /\ Present(c) => Present(c)',
         \/ /\ ~Changing(n) /\ certTask[s].at \notin {"flags", "unflag"}
            /\ ~certCrossed /\ Mailing(n) => Present(n.id)'
         \/ n = [certTask[s] EXCEPT !.timer = n.timer]
         \/ /\ certTask[s].at = "publish" /\ certTask[s].do = "delete"
            /\ n.at = "remove" /\ n.id = certTask[s].id
  PROVE  CertMailInv'
<1> DEFINE t == certTask[s]
<1>1. certTask \in [CertSlots -> CertTasks] /\ Len(certOwner) \in Nat /\ t \in CertTasks
  BY CertFacts DEF CertsInv
<1>2. /\ certTask'[s] = n
      /\ \A o \in CertSlots : o # s => certTask'[o] = certTask[o]
      /\ \A o \in CertSlots : certTask'[o].id \in CertIds /\ certTask[o].id \in CertIds
  BY <1>1 DEF CertTasks
<1>3. \/ /\ ~Changing(n) /\ t.at \notin {"flags", "unflag"}
         /\ ~certCrossed /\ Mailing(n) => Present(n.id)'
      \/ n.at = t.at /\ n.do = t.do /\ n.id = t.id /\ n.pem = t.pem /\ n.mail = t.mail
      \/ t.at = "publish" /\ t.do = "delete" /\ n.at = "remove" /\ n.id = t.id
  BY <1>1 DEF CertTasks
<1>4. StartMidway' <=> StartMidway
  BY DEF StartMidway
<1>5. \A o \in CertSlots : Changing(certTask'[o]) => Changing(certTask[o])
  BY <1>2, <1>3 DEF Changing
<1>6. \A o \in CertSlots : ~certCrossed /\ Mailing(certTask'[o]) =>
        \/ Present(certTask[o].id)'
        \/ Mailing(certTask[o]) /\ certTask'[o].id = certTask[o].id
  BY <1>2, <1>3 DEF Mailing
<1>7. AloneInv'
  BY <1>2, <1>4, <1>5, <1>6 DEF CertsInv, CertMailInv, AloneInv
<1>8. HalfInv'
  <2> SUFFICES ASSUME ~certCrossed, NEW o \in CertSlots PROVE Half(certTask[o])'
    BY DEF HalfInv
  <2>1. Half(certTask[o])
    BY DEF CertsInv, CertMailInv, HalfInv
  <2>2. QED
    BY <1>2, <1>3, <2>1 DEF Half, Changing
<1>9. SettledInv'
  <2>1. Flagged' = Flagged
    BY DEF Flagged
  <2>2. Writing' <=> Writing
    BY <1>2, <1>3 DEF Writing, Changing
  <2>3. certSettings \in 0..Len(certOwner)
    BY DEF CertsInv, CertTypeOK
  <2>4. certSettings # 0 => certOwner'[certSettings] = certOwner[certSettings]
    BY <1>1, <2>3 DEF OwnersKept
  <2>5. Settles => Settles'
    BY <2>1, <2>4 DEF Settles
  <2>6. QED
    BY <2>1, <2>2, <2>5 DEF CertsInv, CertMailInv, SettledInv
<1>10. QED
  BY <1>7, <1>8, <1>9 DEF CertMailInv

(* Rows in work.                                                           *)
LEMMA TimedStep ==
  ASSUME CertsInv, NEW s \in CertSlots, NEW n \in CertTasks,
         certTask' = [certTask EXCEPT ![s] = n],
         UNCHANGED certUp, certLeft \subseteq certLeft',
         "cleanup" \in certStarts => "cleanup" \in certStarts',
         \A c \in CertIds : InWork(c)' => InWork(c) \/ Ends(n, c),
         \A c \in CertIds : InWork(c)' /\ Ends(certTask[s], c) => Ends(n, c) \/ c \in certLeft',
         Issues(n) /\ n.at # "idle" =>
           \/ Issues(certTask[s]) /\ certTask[s].at # "idle" /\ certTask[s].id = n.id
           \/ ~InWork(n.id)' \/ Ends(n, n.id)
  PROVE  CertTimedInv'
<1>1. certTask \in [CertSlots -> CertTasks]
  BY CertFacts DEF CertsInv
<1>2. certTask'[s] = n /\ \A o \in CertSlots : o # s => certTask'[o] = certTask[o]
  BY <1>1
<1> SUFFICES ASSUME certUp, NEW c \in CertIds, InWork(c)', c \notin certLeft',
                    \A o \in CertSlots : ~Ends(certTask'[o], c)
             PROVE  "cleanup" \in certStarts' /\ ~Worked(c)'
  BY DEF CertTimedInv
<1>3. ~Ends(n, c) /\ InWork(c) /\ \A o \in CertSlots : ~Ends(certTask[o], c)
  BY <1>2
<1>4. "cleanup" \in certStarts /\ ~Worked(c)
  BY <1>3 DEF CertsInv, CertTimedInv
<1>5. ~Worked(c)'
  BY <1>2, <1>3, <1>4 DEF Worked
<1>6. QED
  BY <1>4, <1>5

-----------------------------------------------------------------------------
(* The gateway dies.                                                       *)
LEMMA DownStep ==
  ASSUME CertsInv, certUp, CertDown, certActs' = certActs, certFaults' \in 0..CertMaxFaults
  PROVE  CertsInv'
<1>1. UNCHANGED <<certRow, certOwner, certSettings, certCrossed, certLeft, certActs>>
  BY DEF CertDown, certRows
<1>2. CertTypeOK'
  <2>1. NoCertReload \in [at : {"idle", "load", "loaded", "stops", "bound"},
                          read : CertReading, newer : BOOLEAN]
        /\ NoPems \in [CertIds -> CertPems] /\ 0 \in CertPems
    BY CertFacts DEF NoCertReload, CertReading, NoPems, CertsInv
  <2>2. certTorn' \in {"no", "failed", "died"} /\ certMissed' = {}
    BY DEF CertDown
  <2>3. certTask' \in [CertSlots -> CertTasks]
    BY NoTaskType DEF CertDown
  <2>4. QED
    BY <1>1, <2>1, <2>2, <2>3, ZenonT(30) DEF CertDown, CertsInv, CertTypeOK, CertTasks
<1>3. CertRowsInv'
  BY <1>1 DEF CertsInv, CertRowsInv, CertRowInv, OneFlagInv, Present
<1>4. CertTasksInv'
  <2>1. \A s \in CertSlots : certTask'[s] = NoTask
    BY DEF CertDown
  <2>2. Awaiting' = {}
    BY <2>1 DEF Awaiting, Awaits, Issues, NoTask
  <2>3. BudgetInv'
    <3>1. Cardinality(Awaiting') = 0 /\ Cardinality(Awaiting) \in Nat
      BY <2>2, CertAssumption, FS_EmptySet, FS_Subset, FS_CardinalityType DEF Awaiting
    <3>2. Len(certOwner) \in Nat /\ certActs \in Nat
      BY CertFacts DEF CertsInv
    <3>3. Len(certOwner) + Cardinality(Awaiting) <= 1 + certActs
      BY DEF CertsInv, CertTasksInv, BudgetInv
    <3>4. QED
      BY <1>1, <3>1, <3>2, <3>3 DEF BudgetInv
  <2>4. CertShapeInv'
    BY <1>1, <2>1, CertFacts DEF CertShapeInv, CertTaskShape, NoTask, Issues, Mailing, CertsInv
  <2>5. CertDownInv'
    BY <2>1 DEF CertDownInv, CertDown
  <2>6. QED
    BY <2>3, <2>4, <2>5 DEF CertTasksInv
<1>5. CertTellInv'
  BY DEF CertDown, CertTellInv, ReadOneInv, CertServedInv, Told, NoCertReload
<1>6. CertMailInv'
  <2>1. \A s \in CertSlots : certTask'[s].at = "idle"
    BY DEF CertDown, NoTask
  <2>2. AloneInv' /\ HalfInv'
    BY <2>1 DEF AloneInv, HalfInv, Changing, Mailing, Half
  <2>3. Flagged' = Flagged /\ certStarts' = {} /\ ~certUp'
    BY <1>1 DEF Flagged, CertDown
  <2>4. certTorn' = "no" => certTorn = "no" /\ ~Writing
    BY DEF CertDown, Writing, Midway
  <2>5. SettledInv'
    BY <1>1, <2>3, <2>4 DEF CertsInv, CertMailInv, SettledInv, Settles
  <2>6. QED
    BY <2>2, <2>5 DEF CertMailInv
<1>7. CertTimedInv'
  BY DEF CertDown, CertTimedInv
<1>8. QED
  BY <1>2, <1>3, <1>4, <1>5, <1>6, <1>7 DEF CertsInv

(* A part of a change of the mail servers' certificate fails.              *)
LEMMA FailedStep ==
  ASSUME CertsInv, NEW s \in CertSlots, NEW n \in CertTasks,
         certTask' = [certTask EXCEPT ![s] = n],
         UNCHANGED <<certRow, certOwner, certSettings, certCrossed, certUp, certStarts>>,
         Changing(certTask[s]), ~Changing(n), ~Mailing(n), certTorn' = "failed"
  PROVE  CertMailInv'
<1>1. SUFFICES ASSUME ~certCrossed PROVE CertMailInv'
  BY DEF CertMailInv, AloneInv, HalfInv, SettledInv
<1>2. certTask'[s] = n /\ \A o \in CertSlots : o # s => certTask'[o] = certTask[o]
  BY CertFacts DEF CertsInv
<1>3. \A o \in CertSlots : o # s => ~Changing(certTask[o])
  BY <1>1 DEF CertsInv, CertMailInv, AloneInv
<1>4. \A o \in CertSlots : ~Changing(certTask'[o])
  BY <1>2, <1>3
<1>5. AloneInv'
  <2>1. \A o \in CertSlots : Mailing(certTask'[o]) => Present(certTask'[o].id)
    BY <1>1, <1>2 DEF CertsInv, CertMailInv, AloneInv
  <2>2. QED
    BY <1>4, <2>1 DEF AloneInv, Present
<1>6. HalfInv'
  BY <1>4 DEF HalfInv, Half, Changing
<1>7. SettledInv'
  <2>1. "clear" \in certStarts => Flagged = {}
    BY <1>1 DEF CertsInv, CertMailInv, SettledInv
  <2>2. QED
    BY <2>1 DEF SettledInv, Settles, Flagged
<1>8. QED
  BY <1>5, <1>6, <1>7 DEF CertMailInv

(* A statement of a task throws.                                           *)
LEMMA ThrowsAtStep ==
  ASSUME CertsInv, NEW s \in CertSlots, NEW torn \in {certTorn, "failed"},
         certUp, ThrowsAt(s, torn), certActs' = certActs, certFaults' \in 0..CertMaxFaults,
         certTask[s].at \in {"publish", "claim", "renewing", "acme", "https", "flags", "unflag"},
         certTask[s].at = "publish" => certTask[s].do \in {"https", "off", "delete"},
         certTask[s].at = "flags" => torn = "failed" \/ ~Present(certTask[s].id),
         IF certTask[s].at = "unflag" THEN torn = "failed"
         ELSE certTask[s].at # "flags" => torn = certTorn
  PROVE  CertsInv'
<1> DEFINE t == certTask[s]
           goesOn == Issues(t) /\ t.at \in {"acme", "settings", "flags"}
<1>1. certTask \in [CertSlots -> CertTasks] /\ t \in CertTasks /\ certActs \in 0..CertMaxActs
  BY CertFacts DEF CertsInv, CertTypeOK
<1>2. CertTaskShape(t) /\ Len(certOwner) \in Nat
  BY CertFacts DEF CertsInv, CertTasksInv, CertShapeInv
<1>3. CASE goesOn
  <2>0. PICK n \in CertTasks : n = [t EXCEPT !.at = "failed"]
    BY <1>1 DEF CertTasks
  <2>1. /\ certTask' = [certTask EXCEPT ![s] = n] /\ certTorn' = torn /\ certMissed' = certMissed
        /\ UNCHANGED <<certRow, certOwner, certSettings, certCrossed, certUp, certStarts, certMail,
                       certReload, certListens, certActive, certMap, certLeft>>
    BY <1>3, <2>0 DEF ThrowsAt, Loses, CertGoes, certRows
  <2>2. n.at = "failed" /\ n.do = t.do /\ n.id = t.id /\ n.timer = t.timer
        /\ n.mail = t.mail /\ n.pem = t.pem
    BY <1>1, <2>0 DEF CertTasks
  <2>3. OwnersKept
    BY <2>1, OwnersSame
  <2>4. certTask' \in [CertSlots -> CertTasks] /\ CertTasksInv'
    <3>1. CertTaskShape(n)'
      BY <1>2, <1>3, <2>1, <2>2 DEF CertTaskShape, Issues, Mailing
    <3>2. ~Awaits(n)
      BY <2>2 DEF Awaits
    <3>3. QED
      BY <2>1, <3>1, <3>2, TaskStepSame
  <2>5. CertTellInv'
    <3>1. ~Telling(t)
      BY <1>3 DEF Telling
    <3>2. QED
      BY <2>1, <2>2, <3>1, TellStep
  <2>6. CertMailInv'
    <3>0. ~Changing(n) /\ ~Mailing(n)
      BY <2>2 DEF Changing, Mailing
    <3>1. CASE t.at = "flags" /\ torn = "failed"
      BY <2>1, <3>0, <3>1, FailedStep DEF Changing
    <3>2. CASE t.at = "flags" /\ torn # "failed"
      <4>1. certCrossed
        BY <3>2 DEF CertsInv, CertMailInv, AloneInv, Mailing
      <4>2. QED
        BY <2>1, <4>1 DEF CertMailInv, AloneInv, HalfInv, SettledInv
    <3>3. CASE t.at # "flags"
      <4>1. t.at \notin {"flags", "unflag"} /\ certTorn' = certTorn
        BY <1>3, <2>1, <3>3
      <4>2. \A c \in CertIds : /\ certRow'[c].protocol = certRow[c].protocol
                               /\ Present(c) => Present(c)'
        BY <2>1 DEF Present
      <4>3. QED
        BY <2>1, <2>2, <2>3, <3>0, <4>1, <4>2, MailStep
    <3>4. QED
      BY <3>1, <3>2, <3>3
  <2>7. CertTimedInv'
    <3>1. \A c \in CertIds : InWork(c)' <=> InWork(c)
      BY <2>1 DEF InWork
    <3>2. \A c \in CertIds : Ends(t, c) => Ends(n, c)
      BY <1>3, <2>2 DEF Ends, Issues
    <3>3. QED
      BY <1>3, <2>1, <2>2, <3>1, <3>2, TimedStep
  <2>8. CertTypeOK' /\ CertRowsInv'
    BY <2>1, <2>4 DEF CertsInv, CertTypeOK, CertRowsInv, CertRowInv, OneFlagInv, Present, CertTasks
  <2>9. QED
    BY <2>4, <2>5, <2>6, <2>7, <2>8 DEF CertsInv
<1>4. CASE ~goesOn /\ t.do \in {"selfsigned", "put", "delete"}
  <2>0. PICK n \in CertTasks : n = NoTask
    BY NoTaskType
  <2>1. /\ certTask' = [certTask EXCEPT ![s] = n] /\ certTorn' = torn
        /\ certMissed' = certMissed \cup (IF t.do = "selfsigned" THEN {"lost"} ELSE {})
        /\ UNCHANGED <<certRow, certOwner, certSettings, certCrossed, certUp, certStarts, certMail,
                       certReload, certListens, certActive, certMap, certLeft>>
    BY <1>4, <2>0 DEF ThrowsAt, Loses, CertGoes, certRows
  <2>2. ~Awaits(n) /\ ~Changing(n) /\ ~Mailing(n) /\ ~Issues(n)
    BY <2>0 DEF NoTask, Awaits, Changing, Mailing, Issues
  <2>3. OwnersKept /\ CertTaskShape(n)'
    BY <1>2, <2>0, <2>1, OwnersSame DEF CertTaskShape, NoTask, Issues, Mailing
  <2>4. certTask' \in [CertSlots -> CertTasks] /\ CertTasksInv'
    BY <2>1, <2>2, <2>3, TaskStepSame
  <2>5. CertTellInv'
    <3>1. Telling(t) => "lost" \in certMissed'
      BY <1>2, <1>4, <2>1 DEF Telling, CertTaskShape
    <3>2. certMissed' \in {certMissed, certMissed \cup {"lost"}}
      BY <2>1
    <3>3. QED
      BY <2>1, <2>2, <3>1, <3>2, TellStep
  <2>6. CertMailInv'
    <3>1. t.at # "flags"
      BY <1>2, <1>4 DEF CertTaskShape, Issues
    <3>2. CASE t.at = "unflag"
      BY <2>1, <2>2, <3>2, FailedStep DEF Changing
    <3>3. CASE t.at # "unflag"
      <4>1. \A c \in CertIds : /\ certRow'[c].protocol = certRow[c].protocol
                               /\ Present(c) => Present(c)'
        BY <2>1 DEF Present
      <4>2. t.at \notin {"flags", "unflag"} /\ certTorn' = certTorn
        BY <2>1, <3>1, <3>3
      <4>3. QED
        BY <2>1, <2>2, <2>3, <4>1, <4>2, MailStep
    <3>4. QED
      BY <3>2, <3>3
  <2>7. CertTimedInv'
    <3>1. \A c \in CertIds : (InWork(c)' <=> InWork(c)) /\ ~Ends(t, c)
      BY <1>4, <2>1 DEF InWork, Ends, Issues
    <3>2. QED
      BY <2>1, <2>2, <3>1, TimedStep
  <2>8. CertTypeOK' /\ CertRowsInv'
    BY <2>1, <2>4 DEF CertsInv, CertTypeOK, CertRowsInv, CertRowInv, OneFlagInv, Present, CertTasks
  <2>9. QED
    BY <2>4, <2>5, <2>6, <2>7, <2>8 DEF CertsInv
<1>5. CASE ~goesOn /\ t.do \notin {"selfsigned", "put", "delete"}
  BY <1>5, DownStep DEF ThrowsAt
<1>6. QED
  BY <1>3, <1>4, <1>5

LEMMA ThrowsStep ==
  ASSUME CertsInv, NEW s \in CertSlots, certUp, Throws(s), certActs' = certActs,
         certFaults' \in 0..CertMaxFaults,
         certTask[s].at \in {"publish", "claim", "renewing", "acme", "https", "flags"},
         certTask[s].at = "publish" => certTask[s].do \in {"https", "off", "delete"},
         certTask[s].at = "flags" => ~Present(certTask[s].id)
  PROVE  CertsInv'
<1>1. ThrowsAt(s, certTorn)
  BY DEF Throws
<1>2. QED
  BY <1>1, ThrowsAtStep

-----------------------------------------------------------------------------
(* Requests.                                                               *)
LEMMA RowIn ==
  ASSUME CertsInv, NEW c \in CertIds
  PROVE  certRow[c] \in CertRowType
BY CertFacts DEF CertsInv

LEMMA RowWithFacts ==
  ASSUME CertTypeOK, NEW c \in CertIds, NEW row \in CertRowType,
         certRow' = [certRow EXCEPT ![c] = [row EXCEPT !.old = FALSE]]
  PROVE  /\ certRow' \in [CertIds -> CertRowType]
         /\ \A d \in CertIds : d # c => certRow'[d] = certRow[d]
         /\ certRow'[c].status = row.status /\ certRow'[c].pem = row.pem
         /\ certRow'[c].https = row.https /\ certRow'[c].protocol = row.protocol
         /\ certRow'[c].bad = row.bad
BY CertFacts DEF CertRowType

(* What a request has to show.                                             *)
LEMMA AskStep ==
  ASSUME CertsInv, NEW s \in CertSlots, NEW n \in CertTasks,
         certUp, certTask[s].at = "idle", certTask' = [certTask EXCEPT ![s] = n],
         certActs < CertMaxActs, certActs' = certActs + 1,
         UNCHANGED <<certSettings, certUp, certStarts, certMail, certReload, certListens,
                     certActive, certMap, certMissed, certTorn, certLeft, certFaults>>,
         certCrossed' \in BOOLEAN,
         certRow' \in [CertIds -> CertRowType], CertRowsInv',
         \/ certOwner' = certOwner
         \/ ~Awaits(n) /\ \E c \in CertIds : certOwner' = Append(certOwner, c),
         CertTaskShape(n)',
         \/ Telling(n)
         \/ \A c \in CertIds : certRow'[c].status = "ACTIVE" =>
              /\ certRow[c].status = "ACTIVE" /\ certRow'[c].pem = certRow[c].pem
              /\ certRow'[c].https => certRow[c].https
              /\ certRow'[c].bad = certRow[c].bad,
         \A c \in CertIds : InWork(c)' => InWork(c) \/ Ends(n, c),
         Issues(n) /\ n.at # "idle" => ~InWork(n.id)' \/ Ends(n, n.id),
         OwnersKept => CertMailInv'
  PROVE  CertsInv'
<1> DEFINE t == certTask[s]
<1>1. /\ certOwner \in Seq(CertIds) /\ Len(certOwner) \in Nat /\ certActs \in Nat
      /\ CertMaxActs \in Nat /\ certSettings \in 0..Len(certOwner)
  BY CertFacts, CertAssumption DEF CertsInv, CertTypeOK
<1>2. /\ certOwner' \in Seq(CertIds) /\ Len(certOwner') \in Nat
      /\ \/ certOwner' = certOwner /\ Len(certOwner') = Len(certOwner)
         \/ ~Awaits(n) /\ Len(certOwner') = Len(certOwner) + 1
      /\ \A i \in 1..Len(certOwner) : certOwner'[i] = certOwner[i]
  <2>1. CASE certOwner' = certOwner
    BY <1>1, <2>1
  <2>2. CASE ~Awaits(n) /\ \E c \in CertIds : certOwner' = Append(certOwner, c)
    <3>1. PICK c \in CertIds : certOwner' = Append(certOwner, c)
      BY <2>2
    <3>2. QED
      BY <1>1, <2>2, <3>1
  <2>3. QED
    BY <2>1, <2>2
<1>3. Len(certOwner) + Cardinality(Awaiting) <= 1 + certActs /\ Cardinality(Awaiting) \in Nat
  BY CertAssumption, FS_Subset, FS_CardinalityType
  DEF Awaiting, CertsInv, CertTasksInv, BudgetInv
<1>4. OwnersKept
  BY <1>1, <1>2, <1>3 DEF OwnersKept
<1>5. certActs' \in 0..CertMaxActs
  BY <1>1
<1>6. \/ ~Awaits(n) /\ Len(certOwner') - certActs' <= Len(certOwner) - certActs
      \/ certActs' = certActs + 1 /\ Len(certOwner') = Len(certOwner)
  BY <1>1, <1>2
<1>7. certTask' \in [CertSlots -> CertTasks] /\ CertTasksInv'
  BY <1>4, <1>5, <1>6, TaskStep
<1>8. CertTypeOK'
  BY <1>1, <1>2, <1>5, <1>7 DEF CertsInv, CertTypeOK, CertTasks, CertRowType
<1>9. CertTellInv'
  <2>1. ~Telling(t)
    BY DEF Telling
  <2>2. QED
    BY <2>1, TellStep
<1>10. CertTimedInv'
  <2>1. \A c \in CertIds : ~Ends(t, c)
    BY DEF Ends
  <2>2. QED
    BY <2>1, TimedStep
<1>11. QED
  BY <1>4, <1>7, <1>8, <1>9, <1>10 DEF CertsInv

(* A request that does not change the mail servers' certificate at once.   *)
LEMMA AskMail ==
  ASSUME CertsInv, NEW s \in CertSlots, NEW n \in CertTasks,
         certTask[s].at = "idle", certTask' = [certTask EXCEPT ![s] = n],
         UNCHANGED <<certSettings, certCrossed, certUp, certStarts, certTorn>>,
         OwnersKept,
         \A c \in CertIds : /\ certRow'[c].protocol = certRow[c].protocol
                            /\ Present(c) => Present(c)',
         ~Changing(n), Mailing(n) => Present(n.id)'
  PROVE  CertMailInv'
<1>1. certTask[s].at \notin {"flags", "unflag"}
  OBVIOUS
<1>2. QED
  BY <1>1, MailStep

LEMMA PutServicesInv ==
  ASSUME CertsInv, NEW s \in CertSlots, NEW c \in CertIds, NEW mail \in BOOLEAN,
         PutServices(s, c, mail)
  PROVE  CertsInv'
<1>1. PICK n \in CertTasks :
        n = IF mail THEN [NoTask EXCEPT !.id = c, !.at = "others"] ELSE NoTask
  BY NoTaskType DEF CertTasks
<1>2. PICK row \in CertRowType : row = [certRow[c] EXCEPT !.mail = mail]
  BY CertFacts, ZenonT(30) DEF CertsInv, CertRowType
<1>3. /\ certUp /\ certTask[s].at = "idle" /\ certTask' = [certTask EXCEPT ![s] = n]
      /\ certActs < CertMaxActs /\ certActs' = certActs + 1
      /\ UNCHANGED <<certUp, certStarts, certMail, certReload, certListens, certActive, certMap,
                     certMissed, certTorn, certLeft, certFaults>>
      /\ UNCHANGED <<certOwner, certSettings, certCrossed>> /\ Present(c)
      /\ certRow' = [certRow EXCEPT ![c] = [row EXCEPT !.old = FALSE]]
  BY <1>1, <1>2 DEF PutServices, CertAsks, TaskAt, CertGoes, certProxy, RowWith
<1>4. /\ certRow' \in [CertIds -> CertRowType]
      /\ \A d \in CertIds :
           /\ certRow'[d].status = certRow[d].status /\ certRow'[d].pem = certRow[d].pem
           /\ certRow'[d].https = certRow[d].https /\ certRow'[d].protocol = certRow[d].protocol
           /\ certRow'[d].bad = certRow[d].bad
  <2>1. /\ row.status = certRow[c].status /\ row.pem = certRow[c].pem
        /\ row.https = certRow[c].https /\ row.protocol = certRow[c].protocol
        /\ row.bad = certRow[c].bad
    BY <1>2, CertFacts DEF CertsInv, CertRowType
  <2>2. CertTypeOK
    BY DEF CertsInv
  <2>3. QED
    BY <1>3, <2>1, <2>2, RowWithFacts, ZenonT(30)
<1>5. CertRowsInv'
  BY <1>3, <1>4 DEF CertsInv, CertRowsInv, CertRowInv, OneFlagInv, Present
<1>6. CertTaskShape(n)' /\ ~Changing(n) /\ ~Mailing(n) /\ ~Issues(n) /\ ~Awaits(n)
  BY <1>1, CertFacts DEF CertsInv, CertTaskShape, NoTask, Issues, Mailing, Changing, Awaits
<1>7. OwnersKept => CertMailInv'
  BY <1>3, <1>4, <1>6, AskMail DEF Present
<1>8. \A d \in CertIds : InWork(d)' => InWork(d)
  BY <1>4 DEF InWork
<1>9. certCrossed' \in BOOLEAN
  BY <1>3 DEF CertsInv, CertTypeOK
<1>10. QED
  BY <1>3, <1>4, <1>5, <1>6, <1>7, <1>8, <1>9, AskStep

LEMMA AskRenewInv ==
  ASSUME CertsInv, NEW s \in CertSlots, NEW c \in CertIds, AskRenew(s, c)
  PROVE  CertsInv'
<1>1. PICK n \in CertTasks : n = [NoTask EXCEPT !.do = "renew", !.at = "renewing", !.id = c]
  BY NoTaskType DEF CertTasks, CertDoes
<1>2. /\ certUp /\ certTask[s].at = "idle" /\ certTask' = [certTask EXCEPT ![s] = n]
      /\ certActs < CertMaxActs /\ certActs' = certActs + 1
      /\ UNCHANGED <<certUp, certStarts, certMail, certReload, certListens, certActive, certMap,
                     certMissed, certTorn, certLeft, certFaults>>
      /\ UNCHANGED <<certRow, certOwner, certSettings, certCrossed>> /\ ~InWork(c)
  BY <1>1 DEF AskRenew, CertAsks, TaskAt, CertGoes, certProxy, certRows
<1>3. certRow' \in [CertIds -> CertRowType] /\ certCrossed' \in BOOLEAN
  BY <1>2, CertFacts DEF CertsInv, CertTypeOK
<1>4. CertRowsInv'
  BY <1>2 DEF CertsInv, CertRowsInv, CertRowInv, OneFlagInv, Present
<1>5. CertTaskShape(n)' /\ ~Changing(n) /\ ~Mailing(n) /\ n.id = c
  BY <1>1, CertFacts DEF CertsInv, CertTaskShape, NoTask, Issues, Mailing, Changing
<1>6. OwnersKept => CertMailInv'
  BY <1>2, <1>5, AskMail DEF Present
<1>7. \A d \in CertIds : InWork(d)' <=> InWork(d)
  BY <1>2 DEF InWork
<1>8. QED
  BY <1>2, <1>3, <1>4, <1>5, <1>6, <1>7, AskStep

LEMMA AskActivateInv ==
  ASSUME CertsInv, NEW s \in CertSlots, NEW c \in CertIds, NEW do \in {"https", "protocol"},
         AskActivate(s, c, do)
  PROVE  CertsInv'
<1>1. PICK n \in CertTasks :
        n = [NoTask EXCEPT !.do = do, !.id = c, !.pem = certRow[c].pem,
                           !.at = IF do = "https" THEN "https" ELSE "settings"]
  BY NoTaskType, CertFacts DEF CertTasks, CertDoes, CertsInv, CertRowType
<1>2. /\ certUp /\ certTask[s].at = "idle" /\ certTask' = [certTask EXCEPT ![s] = n]
      /\ certActs < CertMaxActs /\ certActs' = certActs + 1
      /\ UNCHANGED <<certUp, certStarts, certMail, certReload, certListens, certActive, certMap,
                     certMissed, certTorn, certLeft, certFaults>>
      /\ UNCHANGED <<certRow, certOwner, certSettings, certCrossed>>
      /\ certRow[c].pem > 0 /\ certRow[c].status \in {"ACTIVE", "EXPIRING"}
  BY <1>1 DEF AskActivate, CertAsks, TaskAt, CertGoes, certProxy, certRows
<1>3. certRow' \in [CertIds -> CertRowType] /\ certCrossed' \in BOOLEAN
  BY <1>2, CertFacts DEF CertsInv, CertTypeOK
<1>4. CertRowsInv'
  BY <1>2 DEF CertsInv, CertRowsInv, CertRowInv, OneFlagInv, Present
<1>5. certRow[c].pem <= Len(certOwner) /\ certOwner[certRow[c].pem] = c
  BY <1>2 DEF CertsInv, CertRowsInv, CertRowInv
<1>6. n.do = do /\ n.id = c /\ n.pem = certRow[c].pem /\ n.mail = FALSE /\ n.timer = "off"
      /\ n.at = IF do = "https" THEN "https" ELSE "settings"
  BY <1>1 DEF NoTask
<1>7. CertTaskShape(n)' /\ ~Changing(n) /\ ~Issues(n)
  BY <1>2, <1>5, <1>6 DEF CertTaskShape, Issues, Mailing, Changing
<1>8. Present(n.id)'
  BY <1>2, <1>6 DEF Present
<1>9. OwnersKept => CertMailInv'
  BY <1>2, <1>7, <1>8, AskMail DEF Present
<1>10. \A d \in CertIds : InWork(d)' <=> InWork(d)
  BY <1>2 DEF InWork
<1>11. QED
  BY <1>2, <1>3, <1>4, <1>7, <1>9, <1>10, AskStep

LEMMA SwitchHttpsOffInv ==
  ASSUME CertsInv, NEW s \in CertSlots, NEW c \in CertIds, SwitchHttpsOff(s, c)
  PROVE  CertsInv'
<1>1. PICK n \in CertTasks : n = [NoTask EXCEPT !.do = "off", !.at = "publish", !.id = c]
  BY NoTaskType DEF CertTasks, CertDoes
<1>2. PICK row \in CertRowType : row = [certRow[c] EXCEPT !.https = FALSE]
  BY CertFacts DEF CertsInv, CertRowType
<1>3. /\ certUp /\ certTask[s].at = "idle" /\ certTask' = [certTask EXCEPT ![s] = n]
      /\ certActs < CertMaxActs /\ certActs' = certActs + 1
      /\ UNCHANGED <<certUp, certStarts, certMail, certReload, certListens, certActive, certMap,
                     certMissed, certTorn, certLeft, certFaults>>
      /\ UNCHANGED <<certOwner, certSettings, certCrossed>>
      /\ \/ certRow' = [certRow EXCEPT ![c] = [row EXCEPT !.old = FALSE]]
         \/ certRow' = certRow
  BY <1>1, <1>2 DEF SwitchHttpsOff, CertAsks, TaskAt, CertGoes, certProxy, RowWith
<1>4. /\ certRow' \in [CertIds -> CertRowType]
      /\ \A d \in CertIds :
           /\ certRow'[d].status = certRow[d].status /\ certRow'[d].pem = certRow[d].pem
           /\ certRow'[d].https => certRow[d].https
           /\ certRow'[d].protocol = certRow[d].protocol
           /\ certRow'[d].bad = certRow[d].bad
  <2>1. /\ row.status = certRow[c].status /\ row.pem = certRow[c].pem
        /\ row.https = FALSE /\ row.protocol = certRow[c].protocol /\ row.bad = certRow[c].bad
    BY <1>2, CertFacts DEF CertsInv, CertRowType
  <2>2. CertTypeOK
    BY DEF CertsInv
  <2>3. QED
    BY <1>3, <2>1, <2>2, RowWithFacts, CertFacts, SMTT(30)
<1>5. CertRowsInv'
  BY <1>3, <1>4 DEF CertsInv, CertRowsInv, CertRowInv, OneFlagInv, Present
<1>6. CertTaskShape(n)' /\ ~Changing(n) /\ ~Mailing(n) /\ ~Issues(n)
  BY <1>1, CertFacts DEF CertsInv, CertTaskShape, NoTask, Issues, Mailing, Changing
<1>7. OwnersKept => CertMailInv'
  BY <1>3, <1>4, <1>6, AskMail DEF Present
<1>8. \A d \in CertIds : InWork(d)' => InWork(d)
  BY <1>4 DEF InWork
<1>9. certCrossed' \in BOOLEAN
  BY <1>3 DEF CertsInv, CertTypeOK
<1>10. QED
  BY <1>3, <1>4, <1>5, <1>6, <1>7, <1>8, <1>9, AskStep

(* A new row.                                                              *)
LEMMA PostCertificateInv ==
  ASSUME CertsInv, NEW s \in CertSlots, NEW do \in {"letsencrypt", "upload", "selfsigned"},
         NEW mail \in BOOLEAN, NEW bad \in BOOLEAN, PostCertificate(s, do, mail, bad)
  PROVE  CertsInv'
<1>1. PICK c \in CertIds :
        LET row  == [NoRow EXCEPT !.mail = mail, !.acme = (do = "letsencrypt"), !.bad = bad]
            task == [NoTask EXCEPT !.do = do, !.id = c, !.at = "others"]
        IN /\ certRow[c].status = "absent"
           /\ CertAsks(s, IF mail THEN task ELSE Claimed(task))
           /\ \/ /\ do = "letsencrypt"
                 /\ certRow' = RowWith(c, [row EXCEPT !.status = "PENDING"])
                 /\ UNCHANGED certOwner
              \/ /\ do # "letsencrypt"
                 /\ certOwner' = Append(certOwner, c)
                 /\ \E status \in (IF do = "upload" THEN {"ACTIVE", "EXPIRING"} ELSE {"ACTIVE"}) :
                      certRow' = RowWith(c, [row EXCEPT !.status = status,
                                                        !.pem = Len(certOwner) + 1])
           /\ UNCHANGED <<certSettings, certCrossed>>
  BY DEF PostCertificate
<1>2. PICK n \in CertTasks :
        LET task == [NoTask EXCEPT !.do = do, !.id = c, !.at = "others"]
        IN n = IF mail THEN task ELSE Claimed(task)
  BY NoTaskType DEF CertTasks, CertDoes, Claimed
<1>3. /\ n.do = do /\ n.id = c /\ n.pem = 0 /\ n.mail = FALSE
      /\ \/ n.at = "others" /\ n.timer = "off"
         \/ n.at = "acme" /\ n.timer = "on" /\ do = "letsencrypt"
         \/ n.at = "publish" /\ n.timer = "off" /\ do # "letsencrypt"
  BY <1>2 DEF NoTask, Claimed
<1>4. /\ certUp /\ certTask[s].at = "idle" /\ certTask' = [certTask EXCEPT ![s] = n]
      /\ certActs < CertMaxActs /\ certActs' = certActs + 1
      /\ UNCHANGED <<certUp, certStarts, certMail, certReload, certListens, certActive, certMap,
                     certMissed, certTorn, certLeft, certFaults>>
      /\ UNCHANGED <<certSettings, certCrossed>> /\ certRow[c].status = "absent"
  BY <1>1, <1>2 DEF CertAsks, TaskAt, CertGoes, certProxy
<1>5. /\ Len(certOwner) \in Nat /\ Len(certOwner) <= certActs + 1 /\ certActs \in Nat
      /\ CertMaxActs \in Nat
  <2>1. Len(certOwner) + Cardinality(Awaiting) <= 1 + certActs /\ Cardinality(Awaiting) \in Nat
    BY CertAssumption, FS_Subset, FS_CardinalityType
    DEF Awaiting, CertsInv, CertTasksInv, BudgetInv
  <2>2. QED
    BY <2>1, CertFacts, CertAssumption DEF CertsInv
<1>6. PICK row \in CertRowType :
        /\ certRow' = [certRow EXCEPT ![c] = [row EXCEPT !.old = FALSE]]
        /\ row.https = FALSE /\ row.protocol = FALSE
        /\ \/ /\ do = "letsencrypt" /\ row.status = "PENDING" /\ row.pem = 0
              /\ certOwner' = certOwner
           \/ /\ do # "letsencrypt" /\ row.status \in {"ACTIVE", "EXPIRING"}
              /\ row.pem = Len(certOwner) + 1 /\ certOwner' = Append(certOwner, c)
  <2>1. CASE do = "letsencrypt"
    <3>1. PICK row \in CertRowType :
            row = [NoRow EXCEPT !.mail = mail, !.acme = (do = "letsencrypt"), !.bad = bad,
                                !.status = "PENDING"]
      BY NoRowType DEF CertRowType, CertStatus
    <3>2. certRow' = [certRow EXCEPT ![c] = [row EXCEPT !.old = FALSE]] /\ certOwner' = certOwner
      BY <1>1, <2>1, <3>1 DEF RowWith, NoRow
    <3>3. row.https = FALSE /\ row.protocol = FALSE /\ row.status = "PENDING" /\ row.pem = 0
      BY <3>1 DEF NoRow
    <3>4. QED
      BY <2>1, <3>2, <3>3
  <2>2. CASE do # "letsencrypt"
    <3>1. PICK status \in {"ACTIVE", "EXPIRING"} :
            certRow' = RowWith(c, [[NoRow EXCEPT !.mail = mail, !.acme = (do = "letsencrypt"),
                                                 !.bad = bad]
                                     EXCEPT !.status = status, !.pem = Len(certOwner) + 1])
      BY <1>1, <2>2
    <3>2. PICK row \in CertRowType :
            row = [NoRow EXCEPT !.mail = mail, !.acme = (do = "letsencrypt"), !.bad = bad,
                                !.status = status, !.pem = Len(certOwner) + 1]
      <4>1. Len(certOwner) + 1 \in CertPems
        BY <1>4, <1>5 DEF CertPems
      <4>2. QED
        BY <4>1, NoRowType DEF CertRowType, CertStatus
    <3>3. certRow' = [certRow EXCEPT ![c] = [row EXCEPT !.old = FALSE]]
      BY <3>1, <3>2 DEF RowWith, NoRow
    <3>4. /\ row.https = FALSE /\ row.protocol = FALSE /\ row.status \in {"ACTIVE", "EXPIRING"}
          /\ row.pem = Len(certOwner) + 1
      BY <3>2 DEF NoRow
    <3>5. QED
      BY <1>1, <2>2, <3>3, <3>4
  <2>3. QED
    BY <2>1, <2>2
<1>7. /\ certRow' \in [CertIds -> CertRowType]
      /\ \A d \in CertIds : d # c => certRow'[d] = certRow[d]
      /\ certRow'[c].status = row.status /\ certRow'[c].pem = row.pem
      /\ certRow'[c].https = row.https /\ certRow'[c].protocol = row.protocol
  <2>1. CertTypeOK
    BY DEF CertsInv
  <2>2. QED
    BY <1>6, <2>1, RowWithFacts
<1>8. /\ Len(certOwner) <= Len(certOwner')
      /\ \A i \in 1..Len(certOwner) : certOwner'[i] = certOwner[i]
      /\ do # "letsencrypt" => Len(certOwner') = Len(certOwner) + 1
                               /\ certOwner'[Len(certOwner) + 1] = c
  BY <1>6 DEF CertsInv, CertTypeOK
<1>9. CertRowsInv'
  <2>1. CertRowInv'
    <3> SUFFICES ASSUME NEW d \in CertIds
                 PROVE  /\ certRow'[d].pem <= Len(certOwner')
                        /\ certRow'[d].pem > 0 => certOwner'[certRow'[d].pem] = d
                        /\ certRow'[d].status = "ACTIVE" => certRow'[d].pem > 0
                        /\ ~Present(d)' => ~certRow'[d].protocol
      BY DEF CertRowInv
    <3>1. CASE d = c
      BY <1>5, <1>6, <1>7, <1>8, <3>1
    <3>2. CASE d # c
      <4>1. certRow[d].pem \in Nat /\ Len(certOwner') \in Nat
        <5>1. certRow[d] \in CertRowType /\ CertPems \subseteq Nat /\ Len(certOwner) \in Nat
          BY CertFacts DEF CertsInv
        <5>2. certRow[d].pem \in Nat
          BY <5>1 DEF CertRowType
        <5>3. CASE do = "letsencrypt"
          BY <1>6, <5>1, <5>2, <5>3
        <5>4. CASE do # "letsencrypt"
          BY <1>8, <5>1, <5>2, <5>4
        <5>5. QED
          BY <5>2, <5>3, <5>4
      <4>2. QED
        BY <1>5, <1>7, <1>8, <3>2, <4>1 DEF CertsInv, CertRowsInv, CertRowInv, Present
    <3>3. QED
      BY <3>1, <3>2
  <2>2. OneFlagInv'
    BY <1>6, <1>7 DEF CertsInv, CertRowsInv, OneFlagInv
  <2>3. QED
    BY <2>1, <2>2 DEF CertRowsInv
<1>10. CertTaskShape(n)' /\ ~Changing(n) /\ ~Mailing(n)
  <2>1. Len(certOwner') \in Nat
    BY <1>5, <1>6, <1>8
  <2>2. QED
    BY <1>3, <2>1 DEF CertTaskShape, Issues, Mailing, Changing
<1>11. OwnersKept => CertMailInv'
  <2>1. \A d \in CertIds : /\ certRow'[d].protocol = certRow[d].protocol
                           /\ Present(d) => Present(d)'
    <3>1. certRow[c].protocol = FALSE
      BY <1>4, CertFacts DEF CertsInv, CertRowsInv, CertRowInv, Present, CertRowType
    <3>2. QED
      BY <1>4, <1>6, <1>7, <3>1 DEF Present
  <2>2. QED
    BY <1>4, <1>10, <2>1, AskMail
<1>12. \A d \in CertIds : InWork(d)' => InWork(d) \/ Ends(n, d)
  BY <1>3, <1>6, <1>7 DEF InWork, Ends, Issues
<1>13. Issues(n) => Ends(n, n.id)
  BY <1>3 DEF Ends, Issues
<1>14. \/ Telling(n)
       \/ \A d \in CertIds : certRow'[d].status = "ACTIVE" =>
            /\ certRow[d].status = "ACTIVE" /\ certRow'[d].pem = certRow[d].pem
            /\ certRow'[d].https => certRow[d].https
            /\ certRow'[d].bad = certRow[d].bad
  BY <1>3, <1>6, <1>7 DEF Telling
<1>15. \/ certOwner' = certOwner
       \/ ~Awaits(n) /\ certOwner' = Append(certOwner, c)
  BY <1>3, <1>6 DEF Awaits, Issues
<1>16. certCrossed' \in BOOLEAN
  BY <1>4 DEF CertsInv, CertTypeOK
<1>17. QED
  BY <1>4, <1>7, <1>9, <1>10, <1>11, <1>12, <1>13, <1>14, <1>15, <1>16, AskStep

-----------------------------------------------------------------------------
(* Steps that note who else is at the mail servers' certificate.           *)
LEMMA CrossFacts ==
  ASSUME CertTypeOK, NEW s \in CertSlots, NEW n \in CertTasks,
         certTask' = [certTask EXCEPT ![s] = n], UNCHANGED certStarts,
         Crosses(s), ~certCrossed'
  PROVE  /\ ~certCrossed /\ ~StartMidway /\ ~StartMidway'
         /\ \A o \in CertSlots : o # s =>
              /\ certTask'[o] = certTask[o]
              /\ ~Changing(certTask[o]) /\ ~Mailing(certTask[o])
              /\ certTask[o].at \notin {"flags", "unflag"}
         /\ certTask'[s] = n
<1>1. certTask \in [CertSlots -> CertTasks]
  BY CertFacts
<1>2. ~certCrossed /\ ~StartMidway /\ \A o \in CertSlots \ {s} : ~Midway(o)
  BY DEF Crosses, CertTypeOK
<1>3. \A o \in CertSlots : ~Midway(o) =>
        ~Changing(certTask[o]) /\ ~Mailing(certTask[o]) /\ certTask[o].at \notin {"flags", "unflag"}
  BY DEF Midway, Changing, Mailing
<1>4. QED
  BY <1>1, <1>2, <1>3 DEF StartMidway

LEMMA CrossStep ==
  ASSUME CertsInv, NEW s \in CertSlots, NEW n \in CertTasks,
         certTask' = [certTask EXCEPT ![s] = n], UNCHANGED <<certUp, certStarts>>,
         Crosses(s),
         ~certCrossed' =>
           /\ Mailing(n) => Present(n.id)'
           /\ Half(n)'
           /\ "clear" \in certStarts => Flagged' = {}
           /\ n.at \notin {"flags", "unflag"} => Settles'
  PROVE  CertMailInv'
<1>1. SUFFICES ASSUME ~certCrossed' PROVE CertMailInv'
  BY DEF CertMailInv, AloneInv, HalfInv, SettledInv
<1>2. /\ ~certCrossed /\ ~StartMidway /\ ~StartMidway'
      /\ \A o \in CertSlots : o # s =>
           /\ certTask'[o] = certTask[o]
           /\ ~Changing(certTask[o]) /\ ~Mailing(certTask[o])
           /\ certTask[o].at \notin {"flags", "unflag"}
      /\ certTask'[s] = n
  BY <1>1, CrossFacts DEF CertsInv
<1>3. AloneInv'
  BY <1>1, <1>2 DEF AloneInv
<1>4. HalfInv'
  <2> SUFFICES ASSUME NEW o \in CertSlots PROVE Half(certTask[o])'
    BY DEF HalfInv
  <2>1. CASE o = s
    BY <1>1, <1>2, <2>1
  <2>2. CASE o # s
    BY <1>2, <2>2 DEF Half, Changing
  <2>3. QED
    BY <2>1, <2>2
<1>5. SettledInv'
  <2>1. Writing' <=> n.at \in {"flags", "unflag"}
    BY <1>2 DEF Writing
  <2>2. QED
    BY <1>1, <2>1 DEF SettledInv
<1>6. QED
  BY <1>3, <1>4, <1>5 DEF CertMailInv

(* What the invariant says of the two when no change is half done.         *)
LEMMA SettledNow ==
  ASSUME CertsInv, ~certCrossed, NEW s \in CertSlots, certTask[s].at \notin {"flags", "unflag"},
         \A o \in CertSlots : o # s => certTask[o].at \notin {"flags", "unflag"}
  PROVE  /\ "clear" \in certStarts => Flagged = {}
         /\ Settles
BY DEF CertsInv, CertMailInv, SettledInv, Writing

LEMMA AskDeleteInv ==
  ASSUME CertsInv, NEW s \in CertSlots, NEW c \in CertIds, AskDelete(s, c)
  PROVE  CertsInv'
<1>1. PICK n \in CertTasks :
        n = [NoTask EXCEPT !.do = "delete", !.id = c, !.https = certRow[c].https,
                           !.at = IF certRow[c].protocol THEN "unset"
                                  ELSE IF certRow[c].https THEN "unhttps" ELSE "remove"]
  BY NoTaskType, CertFacts DEF CertTasks, CertDoes, CertsInv, CertRowType
<1>2. /\ certUp /\ certTask[s].at = "idle" /\ certTask' = [certTask EXCEPT ![s] = n]
      /\ certActs < CertMaxActs /\ certActs' = certActs + 1
      /\ UNCHANGED <<certUp, certStarts, certMail, certReload, certListens, certActive, certMap,
                     certMissed, certTorn, certLeft, certFaults>>
      /\ UNCHANGED <<certRow, certOwner, certSettings>> /\ Crosses(s)
  BY <1>1 DEF AskDelete, CertAsks, TaskAt, CertGoes, certProxy, certRows
<1>3. certRow' \in [CertIds -> CertRowType] /\ certCrossed' \in BOOLEAN
  BY <1>2, CertFacts DEF CertsInv, CertTypeOK, Crosses
<1>4. CertRowsInv'
  BY <1>2 DEF CertsInv, CertRowsInv, CertRowInv, OneFlagInv, Present
<1>5. /\ n.do = "delete" /\ n.id = c /\ n.pem = 0 /\ n.mail = FALSE /\ n.timer = "off"
      /\ n.at = IF certRow[c].protocol THEN "unset"
                ELSE IF certRow[c].https THEN "unhttps" ELSE "remove"
  BY <1>1 DEF NoTask
<1>6. CertTaskShape(n)' /\ ~Mailing(n) /\ ~Issues(n) /\ n.at \notin {"flags", "unflag"}
  <2>1. Len(certOwner') \in Nat
    BY <1>2, CertFacts DEF CertsInv
  <2>2. QED
    BY <1>5, <2>1 DEF CertTaskShape, Issues, Mailing
<1>7. CertMailInv'
  <2> SUFFICES ASSUME ~certCrossed'
               PROVE  /\ Half(n)'
                      /\ "clear" \in certStarts => Flagged' = {}
                      /\ Settles'
    BY <1>2, <1>6, CrossStep
  <2>1. ~certCrossed /\ \A o \in CertSlots : o # s => certTask[o].at \notin {"flags", "unflag"}
    BY <1>2, CrossFacts DEF CertsInv
  <2>2. Flagged' = Flagged
    BY <1>2 DEF Flagged
  <2>3. Half(n)'
    BY <1>2, <1>5 DEF Half
  <2>4. Settles' <=> Settles
    BY <1>2, <2>2 DEF Settles
  <2>5. QED
    BY <1>2, <2>1, <2>2, <2>3, <2>4, SettledNow
<1>8. \A d \in CertIds : InWork(d)' <=> InWork(d)
  BY <1>2 DEF InWork
<1>9. QED
  BY <1>2, <1>3, <1>4, <1>6, <1>7, <1>8, AskStep

-----------------------------------------------------------------------------
(* Tasks at work.                                                          *)
LEMMA WorkStep ==
  ASSUME CertsInv, NEW s \in CertSlots, NEW n \in CertTasks,
         certUp, certTask' = [certTask EXCEPT ![s] = n],
         UNCHANGED <<certOwner, certUp, certStarts, certMail, certReload, certListens, certActive,
                     certMap, certMissed, certActs>>,
         certTorn' \in {certTorn, "failed"},
         certLeft \subseteq certLeft', certLeft' \subseteq CertIds,
         certFaults' \in 0..CertMaxFaults, certCrossed' \in BOOLEAN,
         certSettings' \in 0..Len(certOwner),
         certRow' \in [CertIds -> CertRowType], CertRowsInv',
         CertTaskShape(n)', Awaits(n) => Awaits(certTask[s]),
         Telling(certTask[s]) => Telling(n),
         \/ Telling(n)
         \/ \A c \in CertIds : certRow'[c].status = "ACTIVE" =>
              /\ certRow[c].status = "ACTIVE" /\ certRow'[c].pem = certRow[c].pem
              /\ certRow'[c].https => certRow[c].https
              /\ certRow'[c].bad = certRow[c].bad,
         \A c \in CertIds : InWork(c)' => InWork(c) \/ Ends(n, c),
         \A c \in CertIds : InWork(c)' /\ Ends(certTask[s], c) => Ends(n, c) \/ c \in certLeft',
         Issues(n) /\ n.at # "idle" =>
           Issues(certTask[s]) /\ certTask[s].at # "idle" /\ certTask[s].id = n.id,
         OwnersKept => CertMailInv'
  PROVE  CertsInv'
<1>1. certTask' \in [CertSlots -> CertTasks] /\ CertTasksInv' /\ OwnersKept
  BY TaskStepSame
<1>2. CertTypeOK'
  BY <1>1 DEF CertsInv, CertTypeOK, CertTasks, CertRowType
<1>3. CertTellInv'
  BY TellStep
<1>4. CertTimedInv'
  BY TimedStep
<1>5. QED
  BY <1>1, <1>2, <1>3, <1>4 DEF CertsInv

(* Rows that lose something, or nothing.                                   *)
RowsLose ==
  /\ certRow' \in [CertIds -> CertRowType]
  /\ \A c \in CertIds :
       /\ \/ certRow'[c].pem = certRow[c].pem
          \/ certRow'[c].pem = 0 /\ certRow'[c].status = "gone"
       /\ certRow'[c].status = "ACTIVE" =>
            certRow[c].status = "ACTIVE" /\ certRow'[c].bad = certRow[c].bad
       /\ certRow'[c].protocol => certRow[c].protocol /\ (Present(c) => Present(c)')
       /\ certRow'[c].https => certRow[c].https

LEMMA RowsStep == CertsInv /\ certOwner' = certOwner /\ RowsLose => CertRowsInv'
<1> SUFFICES ASSUME CertsInv, certOwner' = certOwner, RowsLose PROVE CertRowsInv'
  OBVIOUS
<1>1. OneFlagInv'
  BY DEF RowsLose, CertsInv, CertRowsInv, OneFlagInv
<1>2. CertRowInv'
  <2> SUFFICES ASSUME NEW c \in CertIds
               PROVE  /\ certRow'[c].pem <= Len(certOwner')
                      /\ certRow'[c].pem > 0 => certOwner'[certRow'[c].pem] = c
                      /\ certRow'[c].status = "ACTIVE" => certRow'[c].pem > 0
                      /\ ~Present(c)' => ~certRow'[c].protocol
    BY DEF CertRowInv
  <2>1. /\ certRow[c].pem <= Len(certOwner) /\ Len(certOwner) \in Nat
        /\ certRow[c].pem > 0 => certOwner[certRow[c].pem] = c
        /\ certRow[c].status = "ACTIVE" => certRow[c].pem > 0
        /\ ~Present(c) => ~certRow[c].protocol
    BY CertFacts DEF CertsInv, CertRowsInv, CertRowInv
  <2>2. /\ \/ certRow'[c].pem = certRow[c].pem
           \/ certRow'[c].pem = 0 /\ certRow'[c].status = "gone"
        /\ certRow'[c].status = "ACTIVE" => certRow[c].status = "ACTIVE"
        /\ certRow'[c].protocol => certRow[c].protocol /\ (Present(c) => Present(c)')
    BY DEF RowsLose
  <2>3. QED
    BY <2>1, <2>2
<1>3. QED
  BY <1>1, <1>2 DEF CertRowsInv

LEMMA RowsSame == CertsInv /\ certRow' = certRow => RowsLose
BY CertFacts DEF CertsInv, RowsLose, Present

(* Where a task goes when the services are claimed.                        *)
LEMMA ClaimedFacts ==
  ASSUME NEW t \in CertTasks, t.do \in {"letsencrypt", "upload", "selfsigned", "put"}
  PROVE  /\ Claimed(t) \in CertTasks
         /\ t.do = "put" => Claimed(t) = NoTask
         /\ t.do # "put" =>
              /\ Claimed(t).do = t.do /\ Claimed(t).id = t.id /\ Claimed(t).pem = t.pem
              /\ Claimed(t).mail = t.mail
              /\ t.do = "letsencrypt" => Claimed(t).at = "acme" /\ Claimed(t).timer = "on"
              /\ t.do # "letsencrypt" => Claimed(t).at = "publish" /\ Claimed(t).timer = t.timer
BY NoTaskType, ZenonT(30) DEF Claimed, CertTasks

LEMMA EndsFacts ==
  ASSUME NEW t \in CertTasks
  PROVE  /\ CertTaskEnds(t) \in CertTasks
         /\ \/ CertTaskEnds(t) = NoTask
            \/ /\ CertTaskEnds(t).at = "done" /\ CertTaskEnds(t).do = t.do
               /\ CertTaskEnds(t).id = t.id /\ CertTaskEnds(t).pem = t.pem
               /\ CertTaskEnds(t).mail = t.mail /\ CertTaskEnds(t).timer = "fired"
               /\ t.timer = "fired"
BY NoTaskType DEF CertTaskEnds, CertTasks

(* claimServices goes a step.                                              *)
LEMMA ClaimStep ==
  ASSUME CertsInv, NEW s \in CertSlots, NEW n \in CertTasks, certUp,
         certTask[s].at \in {"others", "claim"}, certTask' = [certTask EXCEPT ![s] = n],
         \/ /\ n.at = "claim" /\ n.do = certTask[s].do /\ n.id = certTask[s].id
            /\ n.pem = certTask[s].pem /\ n.mail = certTask[s].mail /\ n.timer = certTask[s].timer
         \/ /\ certTask[s].do = "put" /\ n = NoTask
         \/ /\ certTask[s].do # "put"
            /\ n.do = certTask[s].do /\ n.id = certTask[s].id /\ n.pem = certTask[s].pem
            /\ n.mail = certTask[s].mail
            /\ n.do = "letsencrypt" => n.at = "acme" /\ n.timer = "on"
            /\ n.do # "letsencrypt" => n.at = "publish" /\ n.timer = certTask[s].timer,
         UNCHANGED <<certOwner, certSettings, certCrossed, certUp, certStarts, certMail, certReload,
                     certListens, certActive, certMap, certMissed, certTorn, certLeft, certActs,
                     certFaults>>,
         RowsLose,
         \A c \in CertIds : certRow'[c].protocol = certRow[c].protocol
                            /\ certRow'[c].status = certRow[c].status
                            /\ certRow'[c].pem = certRow[c].pem
  PROVE  CertsInv'
<1> DEFINE t == certTask[s]
<1>1. CertTaskShape(t) /\ Len(certOwner) \in Nat /\ t \in CertTasks
  BY CertFacts DEF CertsInv, CertTasksInv, CertShapeInv
<1>2. t.do \in {"letsencrypt", "upload", "selfsigned", "put"} /\ ~t.mail
      /\ (t.timer # "off" => Issues(t))
  BY <1>1 DEF CertTaskShape
<1>3. CertTaskShape(n)' /\ ~Mailing(n) /\ ~Changing(n)
  BY <1>1, <1>2, NoTaskType DEF CertTaskShape, Issues, Mailing, Changing, NoTask
<1>4. /\ Awaits(n) => Awaits(t)
      /\ Telling(t) => Telling(n)
      /\ \A c \in CertIds : Ends(t, c) => Ends(n, c)
      /\ Issues(n) /\ n.at # "idle" => Issues(t) /\ t.id = n.id
  BY <1>1, <1>2 DEF Awaits, Telling, Ends, Issues, NoTask
<1>5. CertRowsInv' /\ certRow' \in [CertIds -> CertRowType]
  BY RowsStep DEF RowsLose
<1>6. OwnersKept => CertMailInv'
  <2>1. \A c \in CertIds : Present(c) => Present(c)'
    BY DEF Present
  <2>2. t.at \notin {"flags", "unflag"}
    OBVIOUS
  <2>3. QED
    BY <1>3, <2>1, <2>2, MailStep
<1>7. \A c \in CertIds : InWork(c)' <=> InWork(c)
  BY DEF InWork
<1>8. /\ certLeft' \subseteq CertIds /\ certFaults' \in 0..CertMaxFaults
      /\ certCrossed' \in BOOLEAN /\ certSettings' \in 0..Len(certOwner)
  BY DEF CertsInv, CertTypeOK
<1>9. \A c \in CertIds :
        /\ certRow'[c].https => certRow[c].https
        /\ certRow'[c].status = "ACTIVE" => certRow'[c].bad = certRow[c].bad
  BY DEF RowsLose
<1>10. QED
  BY <1>3, <1>4, <1>5, <1>6, <1>7, <1>8, <1>9, WorkStep

LEMMA ReadOthersInv ==
  ASSUME CertsInv, NEW s \in CertSlots, ReadOthers(s)
  PROVE  CertsInv'
<1> DEFINE t    == certTask[s]
           todo == {c \in CertIds \ {t.id} : Present(c) /\ certRow[c].mail}
<1>1. t \in CertTasks /\ CertTaskShape(t)
  BY CertFacts DEF CertsInv, CertTasksInv, CertShapeInv
<1>2. certUp /\ t.at = "others"
  BY DEF ReadOthers, TaskAt
<1>3. t.do \in {"letsencrypt", "upload", "selfsigned", "put"}
  BY <1>1, <1>2 DEF CertTaskShape
<1>4. PICK n \in CertTasks :
        n = IF todo = {} THEN Claimed(t) ELSE [t EXCEPT !.at = "claim", !.todo = todo]
  BY <1>1, <1>3, ClaimedFacts DEF CertTasks
<1>5. /\ certTask' = [certTask EXCEPT ![s] = n]
      /\ UNCHANGED <<certRow, certOwner, certSettings, certCrossed, certUp, certStarts, certMail,
                     certReload, certListens, certActive, certMap, certMissed, certTorn, certLeft,
                     certActs, certFaults>>
  BY <1>4 DEF ReadOthers, CertGoes, certRows, certRest, certProxy, certCount
<1>6. \/ /\ n.at = "claim" /\ n.do = t.do /\ n.id = t.id
         /\ n.pem = t.pem /\ n.mail = t.mail /\ n.timer = t.timer
      \/ n = Claimed(t)
  BY <1>1, <1>4 DEF CertTasks
<1>7. RowsLose
  BY <1>5, RowsSame
<1>8. certTask[s].at \in {"others", "claim"}
  BY <1>2
<1>9. CASE n = Claimed(t)
  <2>1. \/ t.do = "put" /\ n = NoTask
        \/ /\ t.do # "put"
           /\ n.do = t.do /\ n.id = t.id /\ n.pem = t.pem /\ n.mail = t.mail
           /\ n.do = "letsencrypt" => n.at = "acme" /\ n.timer = "on"
           /\ n.do # "letsencrypt" => n.at = "publish" /\ n.timer = t.timer
    BY <1>1, <1>3, <1>9, ClaimedFacts
  <2>2. QED
    BY <1>2, <1>5, <1>7, <1>8, <2>1, ClaimStep
<1>10. CASE n # Claimed(t)
  BY <1>2, <1>5, <1>6, <1>7, <1>8, <1>10, ClaimStep
<1>11. QED
  BY <1>9, <1>10

LEMMA ClaimFromInv ==
  ASSUME CertsInv, NEW s \in CertSlots, NEW c \in CertIds, ClaimFrom(s, c)
  PROVE  CertsInv'
<1> DEFINE t == certTask[s]
           u == [certTask[s] EXCEPT !.todo = certTask[s].todo \ {c}]
<1>1. t \in CertTasks /\ CertTaskShape(t)
  BY CertFacts DEF CertsInv, CertTasksInv, CertShapeInv
<1>2. certUp /\ t.at = "claim"
  BY DEF ClaimFrom, TaskAt
<1>3. t.do \in {"letsencrypt", "upload", "selfsigned", "put"}
  BY <1>1, <1>2 DEF CertTaskShape
<1>4. /\ u \in CertTasks /\ u.at = "claim" /\ u.do = t.do /\ u.id = t.id
      /\ u.pem = t.pem /\ u.mail = t.mail /\ u.timer = t.timer
  BY <1>1, <1>2 DEF CertTasks
<1> HIDE DEF u
<1>5. PICK n \in CertTasks : n = IF u.todo = {} THEN Claimed(u) ELSE u
  BY <1>3, <1>4, ClaimedFacts
<1>6. Updates(s, c, RowWith(c, [certRow[c] EXCEPT !.mail = FALSE]),
              IF u.todo = {} THEN Claimed(u) ELSE u)
  BY DEF ClaimFrom, u
<1>7. CASE ~Present(c)
  <2>1. Throws(s) /\ certActs' = certActs /\ certFaults' \in 0..CertMaxFaults
    BY <1>6, <1>7 DEF Updates, certCount, CertsInv, CertTypeOK
  <2>2. QED
    BY <1>2, <2>1, ThrowsStep
<1>8. CASE Present(c)
  <2>1. PICK row \in CertRowType : row = [certRow[c] EXCEPT !.mail = FALSE]
    BY CertFacts DEF CertsInv, CertRowType
  <2>2. /\ certTask' = [certTask EXCEPT ![s] = n]
        /\ certRow' = [certRow EXCEPT ![c] = [row EXCEPT !.old = FALSE]]
        /\ UNCHANGED <<certOwner, certSettings, certCrossed, certUp, certStarts, certMail,
                       certReload, certListens, certActive, certMap, certMissed, certTorn,
                       certLeft, certActs, certFaults>>
    BY <1>5, <1>6, <1>8, <2>1
    DEF Updates, Writes, CertGoes, RowWith, certRows, certRest, certProxy, certCount
  <2>3. /\ certRow' \in [CertIds -> CertRowType]
        /\ \A d \in CertIds :
             /\ certRow'[d].status = certRow[d].status /\ certRow'[d].pem = certRow[d].pem
             /\ certRow'[d].https = certRow[d].https /\ certRow'[d].protocol = certRow[d].protocol
             /\ certRow'[d].bad = certRow[d].bad
    <3>1. /\ row.status = certRow[c].status /\ row.pem = certRow[c].pem
          /\ row.https = certRow[c].https /\ row.protocol = certRow[c].protocol
          /\ row.bad = certRow[c].bad
      BY <2>1, CertFacts DEF CertsInv, CertRowType
    <3>2. CertTypeOK
      BY DEF CertsInv
    <3>3. QED
      BY <2>2, <3>1, <3>2, RowWithFacts, ZenonT(30)
  <2>4. RowsLose
    BY <2>3 DEF RowsLose, Present
  <2>5. QED
    BY <1>2, <1>3, <1>4, <1>5, <2>2, <2>3, <2>4, ClaimedFacts, ClaimStep
<1>9. QED
  BY <1>7, <1>8

LEMMA MarkRenewingInv ==
  ASSUME CertsInv, NEW s \in CertSlots, MarkRenewing(s)
  PROVE  CertsInv'
<1> DEFINE t == certTask[s]
<1>1. t \in CertTasks /\ CertTaskShape(t) /\ t.id \in CertIds
  BY CertFacts DEF CertsInv, CertTasksInv, CertShapeInv, CertTasks
<1>2. certUp /\ t.at = "renewing" /\ t.do = "renew" /\ Issues(t) /\ ~t.mail
  BY <1>1 DEF MarkRenewing, TaskAt, CertTaskShape, Issues
<1>3. PICK n \in CertTasks : n = [t EXCEPT !.at = "acme", !.timer = "on"]
  BY <1>1 DEF CertTasks
<1>4. Updates(s, t.id, RowWith(t.id, [certRow[t.id] EXCEPT !.status = "RENEWING"]),
              [t EXCEPT !.at = "acme", !.timer = "on"])
  BY DEF MarkRenewing
<1>5. CASE ~Present(t.id)
  <2>1. Throws(s) /\ certActs' = certActs /\ certFaults' \in 0..CertMaxFaults
    BY <1>4, <1>5 DEF Updates, certCount, CertsInv, CertTypeOK
  <2>2. QED
    BY <1>2, <2>1, ThrowsStep
<1>6. CASE Present(t.id)
  <2>1. PICK row \in CertRowType : row = [certRow[t.id] EXCEPT !.status = "RENEWING"]
    <3>1. certRow[t.id] \in CertRowType
      BY <1>1, RowIn
    <3>2. QED
      BY <3>1 DEF CertRowType, CertStatus
  <2>2. PICK c \in CertIds : c = t.id
    BY <1>1
  <2>3. /\ certTask' = [certTask EXCEPT ![s] = n]
        /\ certRow' = [certRow EXCEPT ![c] = [row EXCEPT !.old = FALSE]]
        /\ UNCHANGED <<certOwner, certSettings, certCrossed, certUp, certStarts, certMail,
                       certReload, certListens, certActive, certMap, certMissed, certTorn,
                       certLeft, certActs, certFaults>>
    BY <1>3, <1>4, <1>6, <2>1, <2>2
    DEF Updates, Writes, CertGoes, RowWith, certRows, certRest, certProxy, certCount
  <2>4. /\ row.status = "RENEWING" /\ row.pem = certRow[c].pem
        /\ row.https = certRow[c].https /\ row.protocol = certRow[c].protocol
        /\ row.bad = certRow[c].bad
    BY <2>1, <2>2, CertFacts DEF CertsInv, CertRowType
  <2>5. /\ certRow' \in [CertIds -> CertRowType]
        /\ \A d \in CertIds :
             /\ d # c => certRow'[d].status = certRow[d].status
             /\ certRow'[d].pem = certRow[d].pem /\ certRow'[d].https = certRow[d].https
             /\ certRow'[d].protocol = certRow[d].protocol /\ certRow'[d].bad = certRow[d].bad
        /\ certRow'[c].status = "RENEWING"
    <3>1. CertTypeOK
      BY DEF CertsInv
    <3>2. QED
      BY <2>3, <2>4, <3>1, RowWithFacts
  <2>6. \A d \in CertIds :
          /\ certRow'[d].status = "ACTIVE" => certRow[d].status = "ACTIVE"
          /\ Present(d) => Present(d)'
    BY <2>5 DEF Present
  <2>7. RowsLose
    BY <2>5, <2>6 DEF RowsLose
  <2>8. n.at = "acme" /\ n.timer = "on" /\ n.do = t.do /\ n.id = t.id /\ n.pem = t.pem
        /\ n.mail = t.mail
    BY <1>1, <1>3 DEF CertTasks
  <2>9. CertRowsInv'
    BY <2>3, <2>7, RowsStep
  <2>10. CertTaskShape(n)' /\ ~Mailing(n) /\ ~Changing(n)
    BY <1>1, <1>2, <2>3, <2>8 DEF CertTaskShape, Issues, Mailing, Changing
  <2>11. /\ Awaits(n) => Awaits(t)
         /\ ~Telling(t) /\ (\A d \in CertIds : ~Ends(t, d))
         /\ Ends(n, c) /\ Issues(n)
    BY <1>2, <2>2, <2>8 DEF Awaits, Telling, Ends, Issues
  <2>12. OwnersKept => CertMailInv'
    <3>1. t.at \notin {"flags", "unflag"}
      BY <1>2
    <3>2. QED
      BY <2>3, <2>5, <2>6, <2>10, <3>1, MailStep
  <2>13. \A d \in CertIds : InWork(d)' => InWork(d) \/ Ends(n, d)
    BY <2>5, <2>11 DEF InWork
  <2>14. /\ certLeft' \subseteq CertIds /\ certFaults' \in 0..CertMaxFaults
         /\ certCrossed' \in BOOLEAN /\ certSettings' \in 0..Len(certOwner)
    BY <2>3 DEF CertsInv, CertTypeOK
  <2>15. Issues(t) /\ t.at # "idle" /\ t.id = n.id
    BY <1>2, <2>8
  <2>16. QED
    BY <1>2, <2>3, <2>5, <2>6, <2>9, <2>10, <2>11, <2>12, <2>13, <2>14, <2>15, WorkStep
<1>7. QED
  BY <1>5, <1>6

(* One row and no other is the one for HTTPS, or for the mail servers.     *)
LEMMA OneHttpsFacts ==
  ASSUME CertTypeOK, NEW c, certRow' = OneHttps(c)
  PROVE  /\ certRow' \in [CertIds -> CertRowType]
         /\ \A d \in CertIds :
              /\ certRow'[d].status = certRow[d].status /\ certRow'[d].pem = certRow[d].pem
              /\ certRow'[d].https <=> d = c
              /\ certRow'[d].protocol = certRow[d].protocol
              /\ certRow'[d].bad = certRow[d].bad
BY CertFacts, ZenonT(30) DEF OneHttps, Young, CertRowType

LEMMA OneMailFacts ==
  ASSUME CertTypeOK, NEW c, certRow' = OneMail(c)
  PROVE  /\ certRow' \in [CertIds -> CertRowType]
         /\ \A d \in CertIds :
              /\ certRow'[d].status = certRow[d].status /\ certRow'[d].pem = certRow[d].pem
              /\ certRow'[d].https = certRow[d].https
              /\ certRow'[d].protocol <=> d = c
              /\ certRow'[d].bad = certRow[d].bad
BY CertFacts, ZenonT(30) DEF OneMail, Young, CertRowType

LEMMA FlagHttpsInv ==
  ASSUME CertsInv, NEW s \in CertSlots, FlagHttps(s)
  PROVE  CertsInv'
<1> DEFINE t == certTask[s]
<1>1. t \in CertTasks /\ CertTaskShape(t) /\ t.id \in CertIds
  BY CertFacts DEF CertsInv, CertTasksInv, CertShapeInv, CertTasks
<1>2. certUp /\ t.at = "https" /\ t.do = "https" /\ ~Issues(t) /\ ~t.mail
  BY <1>1 DEF FlagHttps, TaskAt, CertTaskShape, Issues
<1>3. PICK n \in CertTasks : n = [t EXCEPT !.at = "publish"]
  BY <1>1 DEF CertTasks
<1>4. PICK c \in CertIds : c = t.id
  BY <1>1
<1>5. Updates(s, t.id, OneHttps(t.id), [t EXCEPT !.at = "publish"])
  BY DEF FlagHttps
<1>6. CASE ~Present(t.id)
  <2>1. Throws(s) /\ certActs' = certActs /\ certFaults' \in 0..CertMaxFaults
    BY <1>5, <1>6 DEF Updates, certCount, CertsInv, CertTypeOK
  <2>2. QED
    BY <1>2, <2>1, ThrowsStep
<1>7. CASE Present(t.id)
  <2>1. /\ certTask' = [certTask EXCEPT ![s] = n]
        /\ certRow' = OneHttps(t.id)
        /\ UNCHANGED <<certOwner, certSettings, certCrossed, certUp, certStarts, certMail,
                       certReload, certListens, certActive, certMap, certMissed, certTorn,
                       certLeft, certActs, certFaults>>
    BY <1>3, <1>5, <1>7
    DEF Updates, Writes, CertGoes, certRows, certRest, certProxy, certCount
  <2>2. certRow' = OneHttps(c)
    BY <1>4, <2>1 DEF OneHttps, Young
  <2>3. /\ certRow' \in [CertIds -> CertRowType]
        /\ \A d \in CertIds :
             /\ certRow'[d].status = certRow[d].status /\ certRow'[d].pem = certRow[d].pem
             /\ certRow'[d].https <=> d = c
             /\ certRow'[d].protocol = certRow[d].protocol
    BY <2>2, OneHttpsFacts DEF CertsInv
  <2>4. CertRowsInv'
    BY <2>1, <2>3 DEF CertsInv, CertRowsInv, CertRowInv, OneFlagInv, Present
  <2>5. n.at = "publish" /\ n.do = t.do /\ n.id = t.id /\ n.pem = t.pem /\ n.mail = t.mail
        /\ n.timer = t.timer
    BY <1>1, <1>3 DEF CertTasks
  <2>6. CertTaskShape(n)' /\ ~Mailing(n) /\ ~Changing(n) /\ Telling(n) /\ ~Issues(n) /\ ~Awaits(n)
    BY <1>1, <1>2, <2>1, <2>5 DEF CertTaskShape, Issues, Mailing, Changing, Telling, Awaits
  <2>7. \A d \in CertIds : (InWork(d)' <=> InWork(d)) /\ (Present(d)' <=> Present(d)) /\ ~Ends(t, d)
    BY <1>2, <2>3 DEF InWork, Present, Ends
  <2>8. OwnersKept => CertMailInv'
    <3>1. t.at \notin {"flags", "unflag"}
      BY <1>2
    <3>2. QED
      BY <2>1, <2>3, <2>6, <2>7, <3>1, MailStep
  <2>9. /\ certLeft' \subseteq CertIds /\ certFaults' \in 0..CertMaxFaults
        /\ certCrossed' \in BOOLEAN /\ certSettings' \in 0..Len(certOwner)
    BY <2>1 DEF CertsInv, CertTypeOK
  <2>10. QED
    BY <1>2, <2>1, <2>3, <2>4, <2>6, <2>7, <2>8, <2>9, WorkStep
<1>8. QED
  BY <1>6, <1>7

-----------------------------------------------------------------------------
(* The change of the mail servers' certificate.                            *)
LEMMA WriteSettingsInv ==
  ASSUME CertsInv, NEW s \in CertSlots, WriteSettings(s)
  PROVE  CertsInv'
<1> DEFINE t == certTask[s]
<1>1. t \in CertTasks /\ CertTaskShape(t) /\ t.id \in CertIds /\ Len(certOwner) \in Nat
  BY CertFacts DEF CertsInv, CertTasksInv, CertShapeInv, CertTasks
<1>2. PICK n \in CertTasks : n = [t EXCEPT !.at = "flags"]
  BY <1>1 DEF CertTasks
<1>3. /\ certUp /\ t.at = "settings" /\ certTask' = [certTask EXCEPT ![s] = n]
      /\ certSettings' = t.pem /\ Crosses(s)
      /\ UNCHANGED <<certRow, certOwner, certUp, certStarts, certMail, certReload, certListens,
                     certActive, certMap, certMissed, certTorn, certLeft, certActs, certFaults>>
  BY <1>2 DEF WriteSettings, TaskAt, CertGoes, certRest, certProxy, certCount
<1>4. n.at = "flags" /\ n.do = t.do /\ n.id = t.id /\ n.pem = t.pem /\ n.mail = t.mail
      /\ n.timer = t.timer
  BY <1>1, <1>2 DEF CertTasks
<1>5. CertTaskShape(n)' /\ ~Awaits(n) /\ ~Telling(n) /\ ~Telling(t)
  BY <1>1, <1>3, <1>4 DEF CertTaskShape, Issues, Mailing, Awaits, Telling
<1>6. \A d \in CertIds : (InWork(d)' <=> InWork(d)) /\ ~Ends(t, d)
  BY <1>3 DEF InWork, Ends
<1>7. Issues(n) <=> Issues(t)
  BY <1>4 DEF Issues
<1>8. CertRowsInv' /\ certRow' \in [CertIds -> CertRowType]
  BY <1>3, RowsSame, RowsStep DEF RowsLose
<1>9. CertMailInv'
  <2>1. ASSUME ~certCrossed'
        PROVE  ~certCrossed /\ ~StartMidway
    BY <1>3, <2>1, CrossFacts DEF CertsInv
  <2>2. ~certCrossed => Present(t.id)
    BY <1>3 DEF CertsInv, CertMailInv, AloneInv, Mailing
  <2>3. ~certCrossed' => Present(n.id)'
    BY <1>3, <1>4, <2>1, <2>2 DEF Present
  <2>4. Half(n)'
    BY <1>3, <1>4 DEF Half
  <2>5. ~certCrossed' => "clear" \notin certStarts
    BY <2>1 DEF StartMidway
  <2>6. QED
    BY <1>3, <1>4, <2>3, <2>4, <2>5, CrossStep
<1>10. certSettings' \in 0..Len(certOwner)
  <2>1. t.pem \in Nat /\ t.pem <= Len(certOwner)
    BY <1>1, CertFacts DEF CertTaskShape, CertsInv, CertTasks
  <2>2. QED
    BY <1>1, <1>3, <2>1
<1>11. certLeft' \subseteq CertIds /\ certFaults' \in 0..CertMaxFaults /\ certCrossed' \in BOOLEAN
  BY <1>3 DEF CertsInv, CertTypeOK, Crosses
<1>12. \A c \in CertIds : certRow'[c] = certRow[c]
  BY <1>3
<1>13. QED
  BY <1>3, <1>4, <1>5, <1>6, <1>7, <1>8, <1>9, <1>10, <1>11, <1>12, WorkStep

LEMMA WriteFlagsInv ==
  ASSUME CertsInv, NEW s \in CertSlots, WriteFlags(s)
  PROVE  CertsInv'
<1> DEFINE t == certTask[s]
<1>1. t \in CertTasks /\ CertTaskShape(t) /\ t.id \in CertIds /\ Len(certOwner) \in Nat
  BY CertFacts DEF CertsInv, CertTasksInv, CertShapeInv, CertTasks
<1>2. certUp /\ t.at = "flags"
  BY DEF WriteFlags, TaskAt
<1>3. PICK n \in CertTasks : n = CertTaskEnds(t)
  BY <1>1, EndsFacts
<1>4. PICK c \in CertIds : c = t.id
  BY <1>1
<1>5. Updates(s, t.id, OneMail(t.id), CertTaskEnds(t))
  BY DEF WriteFlags
<1>6. CASE ~Present(t.id)
  <2>1. Throws(s) /\ certActs' = certActs /\ certFaults' \in 0..CertMaxFaults
    BY <1>5, <1>6 DEF Updates, certCount, CertsInv, CertTypeOK
  <2>2. QED
    BY <1>2, <1>6, <2>1, ThrowsStep
<1>7. CASE Present(t.id)
  <2>1. /\ certTask' = [certTask EXCEPT ![s] = n]
        /\ certRow' = OneMail(t.id)
        /\ UNCHANGED <<certOwner, certSettings, certCrossed, certUp, certStarts, certMail,
                       certReload, certListens, certActive, certMap, certMissed, certTorn,
                       certLeft, certActs, certFaults>>
    BY <1>3, <1>5, <1>7
    DEF Updates, Writes, CertGoes, certRows, certRest, certProxy, certCount
  <2>2. certRow' = OneMail(c)
    BY <1>4, <2>1 DEF OneMail, Young
  <2>3. /\ certRow' \in [CertIds -> CertRowType]
        /\ \A d \in CertIds :
             /\ certRow'[d].status = certRow[d].status /\ certRow'[d].pem = certRow[d].pem
             /\ certRow'[d].https = certRow[d].https
             /\ certRow'[d].protocol <=> d = c
             /\ certRow'[d].bad = certRow[d].bad
    BY <2>2, OneMailFacts DEF CertsInv
  <2>4. CertRowsInv'
    BY <1>4, <1>7, <2>1, <2>3 DEF CertsInv, CertRowsInv, CertRowInv, OneFlagInv, Present
  <2>5. \/ n = NoTask
        \/ /\ n.at = "done" /\ n.do = t.do /\ n.id = t.id /\ n.pem = t.pem
           /\ n.mail = t.mail /\ n.timer = "fired" /\ t.timer = "fired"
    BY <1>1, <1>3, EndsFacts
  <2>6. CertTaskShape(n)' /\ ~Mailing(n) /\ ~Changing(n) /\ ~Telling(n) /\ ~Telling(t)
        /\ ~Awaits(n) /\ n.at \notin {"flags", "unflag"}
        /\ (Issues(n) /\ n.at # "idle" => Issues(t) /\ t.id = n.id)
    BY <1>1, <1>2, <2>1, <2>5
    DEF CertTaskShape, Issues, Mailing, Changing, Telling, Awaits, NoTask
  <2>7. \A d \in CertIds : (InWork(d)' <=> InWork(d)) /\ (Present(d)' <=> Present(d)) /\ ~Ends(t, d)
    BY <1>2, <2>3 DEF InWork, Present, Ends
  <2>8. CertMailInv'
    <3> SUFFICES ASSUME ~certCrossed PROVE CertMailInv'
      BY <2>1 DEF CertMailInv, AloneInv, HalfInv, SettledInv
    <3>1. Changing(t) /\ certTask \in [CertSlots -> CertTasks]
      BY <1>2, CertFacts DEF Changing, CertsInv
    <3>2. ~StartMidway /\ \A o \in CertSlots : o # s => ~Changing(certTask[o])
      BY <3>1 DEF CertsInv, CertMailInv, AloneInv
    <3>3. certTask'[s] = n /\ \A o \in CertSlots : o # s => certTask'[o] = certTask[o]
      BY <2>1, <3>1
    <3>4. AloneInv'
      <4>1. \A o \in CertSlots : ~Changing(certTask'[o])
        BY <2>6, <3>2, <3>3
      <4>2. \A o \in CertSlots : certTask[o].id \in CertIds
        BY <3>1 DEF CertTasks
      <4>3. \A o \in CertSlots : Mailing(certTask'[o]) => Present(certTask[o].id)'
        BY <2>6, <2>7, <3>3, <4>2 DEF CertsInv, CertMailInv, AloneInv
      <4>4. QED
        BY <4>1, <4>3 DEF AloneInv
    <3>5. HalfInv'
      BY <2>6, <3>2, <3>3 DEF HalfInv, Half, Changing
    <3>6. SettledInv'
      <4>1. c \in Flagged' /\ "clear" \notin certStarts'
        BY <2>1, <2>3, <3>2 DEF Flagged, StartMidway
      <4>2. certSettings' = t.pem
        BY <1>2, <2>1 DEF CertsInv, CertMailInv, HalfInv, Half
      <4>3. t.pem > 0 /\ certOwner[t.pem] = c
        BY <1>1, <1>2, <1>4 DEF CertTaskShape, Mailing
      <4>4. t.pem # 0
        BY <1>1, <4>3, CertFacts DEF CertsInv, CertTasks
      <4>5. Settles'
        BY <2>1, <4>1, <4>2, <4>3, <4>4 DEF Settles
      <4>6. QED
        BY <4>1, <4>5 DEF SettledInv
    <3>7. QED
      BY <3>4, <3>5, <3>6 DEF CertMailInv
  <2>9. /\ certLeft' \subseteq CertIds /\ certFaults' \in 0..CertMaxFaults
        /\ certCrossed' \in BOOLEAN /\ certSettings' \in 0..Len(certOwner)
    BY <2>1 DEF CertsInv, CertTypeOK
  <2>10. QED
    BY <1>2, <2>1, <2>3, <2>4, <2>6, <2>7, <2>8, <2>9, WorkStep
<1>8. QED
  BY <1>6, <1>7

(* A deletion: unset, unflag, unhttps, and the row.                        *)
LEMMA DeleteStep ==
  ASSUME CertsInv, NEW s \in CertSlots, NEW n \in CertTasks, certUp,
         certTask[s].at \in {"unset", "unflag", "unhttps", "remove"},
         certTask' = [certTask EXCEPT ![s] = n],
         \/ n = NoTask
         \/ /\ n.at \in {"unflag", "unhttps", "publish", "remove"}
            /\ n.do = certTask[s].do /\ n.id = certTask[s].id /\ n.pem = certTask[s].pem
            /\ n.mail = certTask[s].mail /\ n.timer = certTask[s].timer,
         UNCHANGED <<certOwner, certUp, certStarts, certMail, certReload, certListens,
                     certActive, certMap, certMissed, certLeft, certActs>>,
         certTorn' \in {certTorn, "failed"}, certFaults' \in 0..CertMaxFaults,
         Crosses(s), certSettings' \in 0..Len(certOwner), RowsLose,
         \A c \in CertIds : InWork(c)' => InWork(c),
         \A c \in CertIds : certRow'[c].status = "ACTIVE" => certRow'[c].pem = certRow[c].pem,
         ~certCrossed' =>
           /\ Half(n)'
           /\ "clear" \in certStarts => Flagged' = {}
           /\ n.at # "unflag" => Settles'
  PROVE  CertsInv'
<1> DEFINE t == certTask[s]
<1>1. CertTaskShape(t) /\ t.do = "delete" /\ ~Issues(t) /\ ~t.mail /\ Len(certOwner) \in Nat
  BY CertFacts DEF CertsInv, CertTasksInv, CertShapeInv, CertTaskShape, Issues
<1>2. CertTaskShape(n)' /\ ~Mailing(n) /\ ~Awaits(n) /\ ~Telling(n) /\ ~Telling(t) /\ ~Issues(n)
      /\ n.at # "flags"
  BY <1>1 DEF CertTaskShape, Issues, Mailing, Awaits, Telling, NoTask
<1>3. \A d \in CertIds : ~Ends(t, d)
  BY <1>1 DEF Ends
<1>4. CertRowsInv' /\ certRow' \in [CertIds -> CertRowType]
  BY RowsStep DEF RowsLose
<1>5. CertMailInv'
  BY <1>2, CrossStep
<1>6. certLeft' \subseteq CertIds /\ certCrossed' \in BOOLEAN
  BY DEF CertsInv, CertTypeOK, Crosses
<1>7. \A c \in CertIds : certRow'[c].status = "ACTIVE" =>
        /\ certRow[c].status = "ACTIVE" /\ (certRow'[c].https => certRow[c].https)
        /\ certRow'[c].bad = certRow[c].bad
  BY DEF RowsLose
<1>8. QED
  BY <1>2, <1>3, <1>4, <1>5, <1>6, <1>7, WorkStep

LEMMA UnsetInv ==
  ASSUME CertsInv, NEW s \in CertSlots, Unset(s)
  PROVE  CertsInv'
<1> DEFINE t == certTask[s]
<1>1. t \in CertTasks
  BY CertFacts DEF CertsInv
<1>2. PICK n \in CertTasks : n = [t EXCEPT !.at = "unflag"]
  BY <1>1 DEF CertTasks
<1>3. /\ certUp /\ t.at = "unset" /\ certTask' = [certTask EXCEPT ![s] = n]
      /\ \/ certSettings' = 0 /\ certTorn' = certTorn /\ certFaults' = certFaults
         \/ CertFault /\ certSettings' = certSettings /\ certTorn' = "failed"
      /\ Crosses(s)
      /\ UNCHANGED <<certRow, certOwner, certUp, certStarts, certMail, certReload, certListens,
                     certActive, certMap, certMissed, certLeft, certActs>>
  BY <1>2 DEF Unset, TaskAt, CertGoes, certProxy
<1>4. n.at = "unflag" /\ n.do = t.do /\ n.id = t.id /\ n.pem = t.pem /\ n.mail = t.mail
      /\ n.timer = t.timer
  BY <1>1, <1>2 DEF CertTasks
<1>5. Half(n)'
  BY <1>3, <1>4 DEF Half
<1>6. ~certCrossed' => "clear" \notin certStarts
  BY <1>3, CrossFacts DEF CertsInv, StartMidway
<1>7. RowsLose /\ \A c \in CertIds : (InWork(c)' <=> InWork(c)) /\ certRow'[c] = certRow[c]
  BY <1>3, RowsSame DEF InWork
<1>8. certSettings' \in 0..Len(certOwner) /\ certFaults' \in 0..CertMaxFaults
  BY <1>3, CertFacts, CertAssumption DEF CertsInv, CertTypeOK, CertFault
<1>9. QED
  BY <1>3, <1>4, <1>5, <1>6, <1>7, <1>8, DeleteStep

(* One of the later steps of a deletion.                                   *)
LEMMA ClearsFacts ==
  ASSUME CertsInv, NEW s \in CertSlots, NEW n \in CertTasks,
         certTask' = [certTask EXCEPT ![s] = n], UNCHANGED <<certStarts, certSettings>>,
         certTask[s].at \in {"unhttps", "remove"}, Crosses(s), ~certCrossed'
  PROVE  /\ ~certRow[certTask[s].id].protocol
         /\ "clear" \in certStarts => Flagged = {}
         /\ Settles
<1>1. ~certCrossed /\ \A o \in CertSlots : o # s => certTask[o].at \notin {"flags", "unflag"}
  BY CrossFacts DEF CertsInv
<1>2. Half(certTask[s])
  BY <1>1 DEF CertsInv, CertMailInv, HalfInv
<1>3. QED
  BY <1>1, <1>2, SettledNow DEF Half

LEMMA UnflagInv ==
  ASSUME CertsInv, NEW s \in CertSlots, Unflag(s)
  PROVE  CertsInv'
<1> DEFINE t == certTask[s]
           at == IF t.https THEN "unhttps" ELSE "remove"
<1>1. t \in CertTasks /\ t.id \in CertIds
  BY CertFacts DEF CertsInv, CertTasks
<1>2. PICK n \in CertTasks : n = [t EXCEPT !.at = at]
  BY <1>1 DEF CertTasks
<1>3. /\ certUp /\ t.at = "unflag" /\ certTask' = [certTask EXCEPT ![s] = n]
      /\ certRow' = OneMail(0) /\ Crosses(s)
      /\ UNCHANGED <<certOwner, certSettings, certUp, certStarts, certMail, certReload, certListens,
                     certActive, certMap, certMissed, certTorn, certLeft, certActs, certFaults>>
  BY <1>2 DEF Unflag, Clears, TaskAt, CertGoes, certRest, certProxy, certCount
<1>4. n.at = at /\ n.do = t.do /\ n.id = t.id /\ n.pem = t.pem /\ n.mail = t.mail
      /\ n.timer = t.timer
  BY <1>1, <1>2 DEF CertTasks
<1>5. /\ certRow' \in [CertIds -> CertRowType]
      /\ \A d \in CertIds :
           /\ certRow'[d].status = certRow[d].status /\ certRow'[d].pem = certRow[d].pem
           /\ certRow'[d].https = certRow[d].https
           /\ ~certRow'[d].protocol
           /\ certRow'[d].bad = certRow[d].bad
  <2>1. 0 \notin CertIds
    BY CertAssumption DEF CertIds
  <2>2. QED
    BY <1>3, <2>1, OneMailFacts DEF CertsInv
<1>6. Half(n)'
  BY <1>1, <1>4, <1>5 DEF Half
<1>7. Flagged' = {}
  BY <1>5 DEF Flagged
<1>8. ~certCrossed' => certSettings' = 0 \/ certTorn = "failed"
  <2> SUFFICES ASSUME ~certCrossed' PROVE certSettings' = 0 \/ certTorn = "failed"
    OBVIOUS
  <2>1. ~certCrossed
    BY <1>3, CrossFacts DEF CertsInv
  <2>2. QED
    BY <1>3, <2>1 DEF CertsInv, CertMailInv, HalfInv, Half
<1>9. RowsLose /\ \A c \in CertIds : (InWork(c)' <=> InWork(c))
  BY <1>5 DEF RowsLose, InWork
<1>10. certSettings' \in 0..Len(certOwner) /\ certFaults' \in 0..CertMaxFaults
  BY <1>3 DEF CertsInv, CertTypeOK
<1>11. n.at \in {"unhttps", "remove"}
  BY <1>4
<1>12. ~certCrossed' =>
         /\ "clear" \in certStarts => Flagged' = {}
         /\ Settles'
  BY <1>3, <1>7, <1>8 DEF Settles
<1>13. \A d \in CertIds : certRow'[d].status = "ACTIVE" => certRow'[d].pem = certRow[d].pem
  BY <1>5
<1>14. QED
  BY <1>3, <1>4, <1>6, <1>9, <1>10, <1>11, <1>12, <1>13, DeleteStep

LEMMA UnhttpsInv ==
  ASSUME CertsInv, NEW s \in CertSlots, Unhttps(s)
  PROVE  CertsInv'
<1> DEFINE t == certTask[s]
<1>1. t \in CertTasks /\ t.id \in CertIds
  BY CertFacts DEF CertsInv, CertTasks
<1>2. PICK n \in CertTasks : n = [t EXCEPT !.at = "publish"]
  BY <1>1 DEF CertTasks
<1>3. /\ certUp /\ t.at = "unhttps" /\ certTask' = [certTask EXCEPT ![s] = n]
      /\ certRow' = OneHttps(0) /\ Crosses(s)
      /\ UNCHANGED <<certOwner, certSettings, certUp, certStarts, certMail, certReload, certListens,
                     certActive, certMap, certMissed, certTorn, certLeft, certActs, certFaults>>
  BY <1>2 DEF Unhttps, Clears, TaskAt, CertGoes, certRest, certProxy, certCount
<1>4. n.at = "publish" /\ n.do = t.do /\ n.id = t.id /\ n.pem = t.pem /\ n.mail = t.mail
      /\ n.timer = t.timer
  BY <1>1, <1>2 DEF CertTasks
<1>5. /\ certRow' \in [CertIds -> CertRowType]
      /\ \A d \in CertIds :
           /\ certRow'[d].status = certRow[d].status /\ certRow'[d].pem = certRow[d].pem
           /\ ~certRow'[d].https
           /\ certRow'[d].protocol = certRow[d].protocol
           /\ certRow'[d].bad = certRow[d].bad
  <2>1. 0 \notin CertIds
    BY CertAssumption DEF CertIds
  <2>2. QED
    BY <1>3, <2>1, OneHttpsFacts DEF CertsInv
<1>6. Flagged' = Flagged
  BY <1>5 DEF Flagged
<1>7. RowsLose /\ \A c \in CertIds : (InWork(c)' <=> InWork(c))
  BY <1>5 DEF RowsLose, InWork, Present
<1>8. certSettings' \in 0..Len(certOwner) /\ certFaults' \in 0..CertMaxFaults
  BY <1>3 DEF CertsInv, CertTypeOK
<1>9. ~certCrossed' =>
        /\ Half(n)'
        /\ "clear" \in certStarts => Flagged' = {}
        /\ Settles'
  BY <1>1, <1>3, <1>4, <1>5, <1>6, ClearsFacts DEF Half, Settles
<1>10. QED
  BY <1>3, <1>4, <1>5, <1>7, <1>8, <1>9, DeleteStep

LEMMA RemoveRowInv ==
  ASSUME CertsInv, NEW s \in CertSlots, RemoveRow(s)
  PROVE  CertsInv'
<1> DEFINE t == certTask[s]
<1>1. PICK c \in CertIds : c = t.id
  BY CertFacts DEF CertsInv, CertTasks
<1>2. PICK n \in CertTasks : n = NoTask
  BY NoTaskType
<1>3. /\ certUp /\ t.at = "remove" /\ certTask' = [certTask EXCEPT ![s] = n]
      /\ certRow' = (IF Present(c) THEN RowWith(c, [NoRow EXCEPT !.status = "gone"]) ELSE certRow)
      /\ Crosses(s)
      /\ UNCHANGED <<certOwner, certSettings, certUp, certStarts, certMail, certReload, certListens,
                     certActive, certMap, certMissed, certTorn, certLeft, certActs, certFaults>>
  BY <1>1, <1>2 DEF RemoveRow, Clears, TaskAt, CertGoes, certRest, certProxy, certCount, Present,
                    RowWith
<1>4. /\ certRow' \in [CertIds -> CertRowType]
      /\ \A d \in CertIds :
           \/ certRow'[d] = certRow[d]
           \/ /\ d = c /\ certRow'[d].status = "gone" /\ certRow'[d].pem = 0
              /\ ~certRow'[d].https /\ ~certRow'[d].protocol
  <2>1. PICK row \in CertRowType : row = [NoRow EXCEPT !.status = "gone"]
    BY NoRowType DEF CertRowType, CertStatus
  <2>2. /\ row.status = "gone" /\ row.pem = 0 /\ row.https = FALSE /\ row.protocol = FALSE
    BY <2>1 DEF NoRow
  <2>3. CASE certRow' = certRow
    BY <2>3, CertFacts DEF CertsInv
  <2>4. CASE certRow' = [certRow EXCEPT ![c] = [row EXCEPT !.old = FALSE]]
    BY <2>2, <2>4, RowWithFacts DEF CertsInv
  <2>5. QED
    BY <1>3, <2>1, <2>3, <2>4 DEF RowWith
<1>5. RowsLose /\ \A d \in CertIds : InWork(d)' => InWork(d)
  BY <1>4 DEF RowsLose, InWork, Present
<1>6. certSettings' \in 0..Len(certOwner) /\ certFaults' \in 0..CertMaxFaults
  BY <1>3 DEF CertsInv, CertTypeOK
<1>7. \A d \in CertIds : certRow'[d].status = "ACTIVE" => certRow'[d].pem = certRow[d].pem
  BY <1>4
<1>8. ~certCrossed' =>
        /\ Half(n)'
        /\ "clear" \in certStarts => Flagged' = {}
        /\ Settles'
  <2> SUFFICES ASSUME ~certCrossed'
               PROVE  /\ Half(n)' /\ Flagged' = Flagged
                      /\ "clear" \in certStarts => Flagged = {}
                      /\ Settles
    BY <1>3 DEF Settles
  <2>1. Half(n)'
    BY <1>2 DEF Half, NoTask
  <2>2. ~certRow[c].protocol
    BY <1>1, <1>3, ClearsFacts
  <2>3. Flagged' = Flagged
    BY <1>4, <2>2 DEF Flagged
  <2>4. QED
    BY <1>3, <2>1, <2>3, ClearsFacts
<1>9. QED
  BY <1>2, <1>3, <1>5, <1>6, <1>7, <1>8, DeleteStep

(* The listener is told.                                                   *)
LEMMA PublishReloadInv ==
  ASSUME CertsInv, NEW s \in CertSlots, PublishReload(s)
  PROVE  CertsInv'
<1> DEFINE t == certTask[s]
<1>1. t \in CertTasks /\ CertTaskShape(t) /\ Len(certOwner) \in Nat
  BY CertFacts DEF CertsInv, CertTasksInv, CertShapeInv
<1>2. certUp /\ t.at = "publish" /\ certActs' = certActs
  BY DEF PublishReload, TaskAt
<1>3. CASE CertFault /\ t.do \in {"https", "off", "delete"} /\ Throws(s)
  <2>1. certFaults' \in 0..CertMaxFaults
    BY <1>3, CertAssumption DEF CertFault, CertsInv, CertTypeOK
  <2>2. QED
    BY <1>2, <1>3, <2>1, ThrowsStep
<1>4. CASE /\ CertGoes(s, Published(t))
           /\ certMissed' \in {certMissed, certMissed \cup {"lost"}}
           /\ certMail' \in Nat /\ certFaults' \in 0..CertMaxFaults
           /\ "lost" \in certMissed' \/ certMail' # 0
           /\ UNCHANGED <<certRow, certOwner, certSettings, certCrossed, certUp, certStarts,
                          certReload, certListens, certActive, certMap, certTorn, certLeft>>
  <2>1. PICK n \in CertTasks :
          /\ n = Published(t)
          /\ \/ /\ t.do = "delete" /\ n.at = "remove" /\ n.do = t.do /\ n.id = t.id
                /\ n.pem = t.pem /\ n.mail = t.mail /\ n.timer = t.timer
             \/ /\ Issues(t) /\ t.mail /\ n.at = "settings" /\ n.do = t.do /\ n.id = t.id
                /\ n.pem = t.pem /\ n.mail = t.mail /\ n.timer = t.timer
             \/ t.do # "delete" /\ n = NoTask
             \/ /\ t.do # "delete" /\ n.at = "done" /\ n.do = t.do /\ n.id = t.id /\ n.pem = t.pem
                /\ n.mail = t.mail /\ n.timer = "fired" /\ t.timer = "fired"
    <3>1. CASE t.do = "delete"
      <4>1. PICK n \in CertTasks : n = [t EXCEPT !.at = "remove"]
        BY <1>1 DEF CertTasks
      <4>2. n = Published(t)
        BY <3>1, <4>1 DEF Published
      <4>3. /\ n.at = "remove" /\ n.do = t.do /\ n.id = t.id /\ n.pem = t.pem /\ n.mail = t.mail
            /\ n.timer = t.timer
        BY <1>1, <4>1 DEF CertTasks
      <4>4. QED
        BY <3>1, <4>2, <4>3
    <3>2. CASE t.do # "delete" /\ Issues(t) /\ t.mail
      <4>1. PICK n \in CertTasks : n = [t EXCEPT !.at = "settings"]
        BY <1>1 DEF CertTasks
      <4>2. n = Published(t)
        BY <3>2, <4>1 DEF Published
      <4>3. /\ n.at = "settings" /\ n.do = t.do /\ n.id = t.id /\ n.pem = t.pem
            /\ n.mail = t.mail /\ n.timer = t.timer
        BY <1>1, <4>1 DEF CertTasks
      <4>4. QED
        BY <3>2, <4>2, <4>3
    <3>3. CASE t.do # "delete" /\ ~(Issues(t) /\ t.mail)
      BY <1>1, <3>3, EndsFacts DEF Published
    <3>4. QED
      BY <3>1, <3>2, <3>3
  <2>2. certTask' = [certTask EXCEPT ![s] = n]
    BY <1>4, <2>1 DEF CertGoes
  <2>3. CertTaskShape(n)' /\ ~Awaits(n)
    BY <1>1, <1>2, <1>4, <2>1 DEF CertTaskShape, Issues, Mailing, Awaits, NoTask
  <2>4. certTask' \in [CertSlots -> CertTasks] /\ CertTasksInv' /\ OwnersKept
    BY <1>2, <1>4, <2>2, <2>3, TaskStepSame
  <2>5. CertTypeOK' /\ CertRowsInv'
    BY <1>2, <1>4, <2>4
    DEF CertsInv, CertTypeOK, CertTasks, CertRowsInv, CertRowInv, OneFlagInv, Present
  <2>6. CertTellInv'
    BY <1>4 DEF CertsInv, CertTellInv, ReadOneInv, CertServedInv, Told
  <2>7. CertMailInv'
    <3>1. \A c \in CertIds : /\ certRow'[c].protocol = certRow[c].protocol
                             /\ Present(c) => Present(c)'
      BY <1>4 DEF Present
    <3>2. CASE t.do = "delete"
      <4>1. n.at = "remove" /\ n.id = t.id
        BY <2>1, <3>2 DEF Issues
      <4>2. QED
        BY <1>2, <1>4, <2>2, <2>4, <3>1, <3>2, <4>1, MailStep
    <3>3. CASE t.do # "delete"
      <4>1. ~certCrossed /\ t.mail => Present(t.id)
        BY <1>2 DEF CertsInv, CertMailInv, AloneInv, Mailing
      <4>2. ~certCrossed /\ Mailing(n) => Present(n.id)'
        BY <1>4, <2>1, <3>3, <4>1 DEF Mailing, NoTask, Present
      <4>3. ~Changing(n) /\ t.at \notin {"flags", "unflag"}
        BY <1>2, <2>1, <3>3 DEF Changing, NoTask
      <4>4. QED
        BY <1>2, <1>4, <2>2, <2>4, <3>1, <4>2, <4>3, MailStep
    <3>4. QED
      BY <3>2, <3>3
  <2>8. CertTimedInv'
    <3>1. \A c \in CertIds : (InWork(c)' <=> InWork(c)) /\ ~Ends(t, c)
      BY <1>2, <1>4 DEF InWork, Ends
    <3>2. Issues(n) /\ n.at # "idle" => Issues(t) /\ t.at # "idle" /\ t.id = n.id
      BY <1>2, <2>1 DEF Issues, NoTask
    <3>3. QED
      BY <1>4, <2>2, <3>1, <3>2, TimedStep
  <2>9. QED
    BY <2>4, <2>5, <2>6, <2>7, <2>8 DEF CertsInv
<1>5. QED
  <2>1. CASE /\ certMail' = (IF certStarts \cap {"subscribe", "deaf"} # {} THEN certMail
                             ELSE certMail + 1)
             /\ Loses(certStarts \cap {"subscribe", "deaf"} # {})
             /\ CertGoes(s, Published(t))
             /\ UNCHANGED <<certRows, certCrossed, certUp, certStarts, certReload, certListens,
                            certActive, certMap, certTorn, certLeft, certFaults>>
    <3>1. UNCHANGED <<certRow, certOwner, certSettings, certCrossed, certUp, certStarts,
                      certReload, certListens, certActive, certMap, certTorn, certLeft>>
          /\ certFaults' = certFaults
      BY <2>1 DEF certRows
    <3>2. certMail \in Nat /\ certFaults' \in 0..CertMaxFaults
      BY <3>1 DEF CertsInv, CertTypeOK
    <3>3. CASE certStarts \cap {"subscribe", "deaf"} # {}
      BY <1>4, <2>1, <3>1, <3>2, <3>3 DEF Loses
    <3>4. CASE certStarts \cap {"subscribe", "deaf"} = {}
      BY <1>4, <2>1, <3>1, <3>2, <3>4 DEF Loses
    <3>5. QED
      BY <3>3, <3>4
  <2>2. CASE /\ CertFault /\ Loses(TRUE) /\ CertGoes(s, Published(t))
             /\ UNCHANGED <<certRows, certCrossed, certUp, certStarts, certMail, certReload,
                            certListens, certActive, certMap, certTorn, certLeft>>
    <3>1. certFaults' \in 0..CertMaxFaults
      BY <2>2, CertAssumption DEF CertFault, CertsInv, CertTypeOK
    <3>2. QED
      BY <1>4, <2>2, <3>1 DEF CertsInv, CertTypeOK, certRows, Loses
  <2>3. QED
    BY <1>3, <2>1, <2>2 DEF PublishReload

-----------------------------------------------------------------------------
(* Issuance.                                                               *)
LEMMA IssuedInv ==
  ASSUME CertsInv, NEW s \in CertSlots, Issued(s)
  PROVE  CertsInv'
<1> DEFINE t == certTask[s]
<1>1. t \in CertTasks /\ CertTaskShape(t) /\ Len(certOwner) \in Nat /\ certOwner \in Seq(CertIds)
      /\ certActs \in Nat /\ certActs <= CertMaxActs /\ CertMaxActs \in Nat
  BY CertFacts, CertAssumption DEF CertsInv, CertTasksInv, CertShapeInv, CertTypeOK
<1>2. certUp /\ t.at = "acme" /\ Issues(t) /\ Awaits(t)
  BY <1>1 DEF Issued, TaskAt, CertTaskShape, Awaits
<1>3. certActs' = certActs /\ certFaults' = certFaults
  BY DEF Issued, certCount
<1>4. CASE ~Present(t.id)
  <2>1. Throws(s) /\ certFaults' \in 0..CertMaxFaults
    BY <1>3, <1>4 DEF Issued, CertsInv, CertTypeOK
  <2>2. QED
    BY <1>2, <1>3, <2>1, ThrowsStep
<1>5. CASE Present(t.id)
  <2>1. PICK c \in CertIds : c = t.id
    BY <1>1 DEF CertTasks
  <2>2. Len(certOwner) + 1 <= 1 + certActs
    <3>1. IsFiniteSet(Awaiting) /\ s \in Awaiting /\ Cardinality(Awaiting) \in Nat
      BY <1>2, CertAssumption, FS_Subset, FS_CardinalityType DEF Awaiting
    <3>2. Cardinality(Awaiting) # 0
      BY <3>1, FS_EmptySet
    <3>3. Len(certOwner) + Cardinality(Awaiting) <= 1 + certActs
      BY DEF CertsInv, CertTasksInv, BudgetInv
    <3>4. QED
      BY <1>1, <3>1, <3>2, <3>3
  <2>3. PICK pem \in CertPems : pem = Len(certOwner) + 1
    BY <1>1, <2>2 DEF CertPems
  <2>4. PICK n \in CertTasks :
          n = [t EXCEPT !.at = "publish", !.pem = pem, !.mail = certRow[c].mail]
    BY <1>1, CertFacts DEF CertsInv, CertTasks, CertRowType
  <2>5. PICK row \in CertRowType : row = [certRow[c] EXCEPT !.status = "ACTIVE", !.pem = pem]
    <3>1. certRow[c] \in CertRowType
      BY RowIn
    <3>2. QED
      BY <3>1 DEF CertRowType, CertStatus
  <2>6. /\ certTask' = [certTask EXCEPT ![s] = n]
        /\ certRow' = [certRow EXCEPT ![c] = [row EXCEPT !.old = FALSE]]
        /\ certOwner' = Append(certOwner, c)
        /\ UNCHANGED <<certSettings, certCrossed, certUp, certStarts, certMail, certReload,
                       certListens, certActive, certMap, certMissed, certTorn, certLeft>>
    BY <1>5, <2>1, <2>3, <2>4, <2>5 DEF Issued, CertGoes, RowWith, certRest, certProxy
  <2>7. n.at = "publish" /\ n.do = t.do /\ n.id = c /\ n.pem = pem /\ n.timer = t.timer
    BY <1>1, <2>1, <2>4 DEF CertTasks
  <2>8. /\ certOwner' \in Seq(CertIds) /\ Len(certOwner') = Len(certOwner) + 1
        /\ \A i \in 1..Len(certOwner) : certOwner'[i] = certOwner[i]
        /\ certOwner'[pem] = c
    BY <1>1, <2>3, <2>6
  <2>9. OwnersKept
    BY <1>1, <2>2, <2>8 DEF OwnersKept
  <2>10. CertTaskShape(n)' /\ ~Awaits(n) /\ Telling(n) /\ ~Changing(n) /\ ~Telling(t) /\ Issues(n)
    BY <1>1, <1>2, <2>3, <2>7, <2>8
    DEF CertTaskShape, Issues, Mailing, Awaits, Telling, Changing
  <2>11. certTask' \in [CertSlots -> CertTasks] /\ CertTasksInv'
    <3>1. certActs' \in 0..CertMaxActs
      BY <1>1, <1>3
    <3>2. QED
      BY <1>2, <1>3, <2>6, <2>8, <2>9, <2>10, <3>1, TaskStep
  <2>12. /\ certRow' \in [CertIds -> CertRowType]
         /\ \A d \in CertIds : d # c => certRow'[d] = certRow[d]
         /\ certRow'[c].status = "ACTIVE" /\ certRow'[c].pem = pem
         /\ certRow'[c].https = certRow[c].https /\ certRow'[c].protocol = certRow[c].protocol
    <3>1. /\ row.status = "ACTIVE" /\ row.pem = pem
          /\ row.https = certRow[c].https /\ row.protocol = certRow[c].protocol
          /\ row.bad = certRow[c].bad
      BY <2>5, CertFacts DEF CertsInv, CertRowType
    <3>2. QED
      BY <2>6, <3>1, RowWithFacts DEF CertsInv
  <2>13. CertTypeOK'
    <3>1. certSettings' \in 0..Len(certOwner')
      BY <1>1, <2>6, <2>8 DEF CertsInv, CertTypeOK
    <3>2. QED
      BY <1>3, <2>6, <2>8, <2>11, <2>12, <3>1 DEF CertsInv, CertTypeOK, CertTasks, CertRowType
  <2>14. CertRowsInv'
    <3>1. CertRowInv'
      <4> SUFFICES ASSUME NEW d \in CertIds
                   PROVE  /\ certRow'[d].pem <= Len(certOwner')
                          /\ certRow'[d].pem > 0 => certOwner'[certRow'[d].pem] = d
                          /\ certRow'[d].status = "ACTIVE" => certRow'[d].pem > 0
                          /\ ~Present(d)' => ~certRow'[d].protocol
        BY DEF CertRowInv
      <4>1. CASE d = c
        BY <1>1, <2>3, <2>8, <2>12, <4>1 DEF Present
      <4>2. CASE d # c
        <5>1. certRow[d].pem \in Nat
          BY CertFacts DEF CertsInv, CertRowType
        <5>2. QED
          BY <1>1, <2>8, <2>12, <4>2, <5>1 DEF CertsInv, CertRowsInv, CertRowInv, Present
      <4>3. QED
        BY <4>1, <4>2
    <3>2. OneFlagInv'
      BY <2>12 DEF CertsInv, CertRowsInv, OneFlagInv
    <3>3. QED
      BY <3>1, <3>2 DEF CertRowsInv
  <2>15. CertTellInv'
    BY <2>6, <2>10, TellStep
  <2>16. CertMailInv'
    <3>1. \A d \in CertIds : /\ certRow'[d].protocol = certRow[d].protocol
                             /\ Present(d) => Present(d)'
      BY <2>12 DEF Present
    <3>2. Present(n.id)' /\ t.at \notin {"flags", "unflag"}
      BY <1>2, <2>7, <2>12 DEF Present
    <3>3. QED
      BY <2>6, <2>9, <2>10, <3>1, <3>2, MailStep
  <2>17. CertTimedInv'
    <3>1. \A d \in CertIds : InWork(d)' => InWork(d) /\ d # c
      BY <2>12 DEF InWork
    <3>2. \A d \in CertIds : Ends(t, d) => d = c
      BY <2>1 DEF Ends
    <3>3. t.id = n.id
      BY <2>1, <2>7
    <3>4. QED
      BY <1>2, <2>6, <3>1, <3>2, <3>3, TimedStep
  <2>18. QED
    BY <2>11, <2>13, <2>14, <2>15, <2>16, <2>17 DEF CertsInv
<1>6. QED
  BY <1>4, <1>5

LEMMA NotIssuedInv ==
  ASSUME CertsInv, NEW s \in CertSlots, NotIssued(s)
  PROVE  CertsInv'
<1>1. certUp /\ certTask[s].at = "acme" /\ Throws(s) /\ certActs' = certActs
      /\ certFaults' \in 0..CertMaxFaults
  BY DEF NotIssued, TaskAt, certCount, CertsInv, CertTypeOK
<1>2. QED
  BY <1>1, ThrowsStep

(* A timer fires: still something will end the work.                       *)
LEMMA AcmeTimerInv ==
  ASSUME CertsInv, NEW s \in CertSlots, AcmeTimer(s)
  PROVE  CertsInv'
<1> DEFINE t == certTask[s]
<1>1. t \in CertTasks /\ CertTaskShape(t) /\ Len(certOwner) \in Nat
  BY CertFacts DEF CertsInv, CertTasksInv, CertShapeInv
<1>2. PICK n \in CertTasks : n = [t EXCEPT !.timer = "fired"]
  BY <1>1 DEF CertTasks
<1>3. /\ certUp /\ t.timer = "on" /\ certTask' = [certTask EXCEPT ![s] = n]
      /\ UNCHANGED <<certRow, certOwner, certSettings, certCrossed, certUp, certStarts, certMail,
                     certReload, certListens, certActive, certMap, certMissed, certTorn, certLeft,
                     certActs, certFaults>>
  BY <1>2 DEF AcmeTimer, CertGoes, certRows, certRest, certProxy, certCount
<1>4. n.timer = "fired" /\ n.at = t.at /\ n.do = t.do /\ n.id = t.id /\ n.pem = t.pem
      /\ n.mail = t.mail
  BY <1>1, <1>2 DEF CertTasks
<1>5. CertTaskShape(n)' /\ (Awaits(n) <=> Awaits(t)) /\ (Telling(n) <=> Telling(t))
      /\ (Issues(n) <=> Issues(t))
  BY <1>1, <1>3, <1>4 DEF CertTaskShape, Issues, Mailing, Awaits, Telling
<1>6. \A c \in CertIds : (InWork(c)' <=> InWork(c)) /\ (Ends(t, c) => Ends(n, c))
  BY <1>3, <1>4 DEF InWork, Ends, Issues
<1>7. CertRowsInv' /\ certRow' \in [CertIds -> CertRowType]
  BY <1>3, RowsSame, RowsStep DEF RowsLose
<1>8. OwnersKept => CertMailInv'
  <2>1. n = [t EXCEPT !.timer = n.timer]
    BY <1>2, <1>4
  <2>2. \A c \in CertIds : /\ certRow'[c].protocol = certRow[c].protocol
                           /\ Present(c) => Present(c)'
    BY <1>3 DEF Present
  <2>3. QED
    BY <1>3, <2>1, <2>2, MailStep
<1>9. /\ certLeft' \subseteq CertIds /\ certFaults' \in 0..CertMaxFaults
      /\ certCrossed' \in BOOLEAN /\ certSettings' \in 0..Len(certOwner)
  BY <1>3 DEF CertsInv, CertTypeOK
<1>10. \A c \in CertIds : certRow'[c] = certRow[c]
  BY <1>3
<1>11. QED
  BY <1>3, <1>4, <1>5, <1>6, <1>7, <1>8, <1>9, <1>10, WorkStep

(* The failure, or the timeout, is written to the row, or known not to be. *)
LEMMA WriteErrorInv ==
  ASSUME CertsInv, NEW s \in CertSlots, NEW n \in CertTasks, certUp,
         certTask' = [certTask EXCEPT ![s] = n],
         \/ /\ certRow' = (IF Present(certTask[s].id)
                           THEN RowWith(certTask[s].id,
                                        [certRow[certTask[s].id] EXCEPT !.status = "ERROR"])
                           ELSE certRow)
            /\ UNCHANGED <<certLeft, certFaults>>
         \/ /\ CertFault /\ certLeft' = certLeft \cup {certTask[s].id} /\ UNCHANGED certRow,
         UNCHANGED <<certOwner, certSettings, certCrossed, certUp, certStarts, certMail, certReload,
                     certListens, certActive, certMap, certMissed, certTorn, certActs>>,
         \/ n = NoTask /\ certTask[s].at \in {"failed", "done"}
         \/ /\ certTask[s].at = "failed" /\ n.at = "done" /\ n.do = certTask[s].do
            /\ n.id = certTask[s].id /\ n.pem = certTask[s].pem /\ n.mail = certTask[s].mail
         \/ n = [certTask[s] EXCEPT !.timer = "off"]
  PROVE  CertsInv'
<1> DEFINE t == certTask[s]
<1>1. t \in CertTasks /\ CertTaskShape(t) /\ Len(certOwner) \in Nat
  BY CertFacts DEF CertsInv, CertTasksInv, CertShapeInv
<1>2. PICK c \in CertIds : c = t.id
  BY <1>1 DEF CertTasks
<1>3. /\ RowsLose
      /\ \A d \in CertIds :
           /\ certRow'[d].protocol = certRow[d].protocol
           /\ certRow'[d].pem = certRow[d].pem /\ certRow'[d].https = certRow[d].https
           /\ certRow'[d].bad = certRow[d].bad
           /\ Present(d) => Present(d)'
           /\ certRow'[d].status = "ACTIVE" => certRow[d].status = "ACTIVE"
           /\ InWork(d)' => InWork(d) /\ (d # c \/ c \in certLeft')
      /\ certLeft \subseteq certLeft' /\ certLeft' \subseteq CertIds
      /\ certFaults' \in 0..CertMaxFaults
  <2>1. CASE CertFault /\ certLeft' = certLeft \cup {t.id} /\ UNCHANGED certRow
    <3>1. RowsLose
      BY <2>1, RowsSame
    <3>2. certFaults' \in 0..CertMaxFaults
      BY <2>1, CertAssumption DEF CertFault, CertsInv, CertTypeOK
    <3>3. QED
      BY <1>2, <2>1, <3>1, <3>2 DEF CertsInv, CertTypeOK, InWork, Present
  <2>2. CASE /\ certRow' = (IF Present(t.id)
                            THEN RowWith(t.id, [certRow[t.id] EXCEPT !.status = "ERROR"])
                            ELSE certRow)
             /\ UNCHANGED <<certLeft, certFaults>>
    <3>1. certLeft' \subseteq CertIds /\ certFaults' \in 0..CertMaxFaults
      BY <2>2 DEF CertsInv, CertTypeOK
    <3>2. CASE ~Present(c)
      <4>1. RowsLose /\ certRow' = certRow
        BY <1>2, <2>2, <3>2, RowsSame
      <4>2. QED
        BY <2>2, <3>1, <3>2, <4>1 DEF InWork, Present
    <3>3. CASE Present(c)
      <4>1. PICK row \in CertRowType : row = [certRow[c] EXCEPT !.status = "ERROR"]
        <5>1. certRow[c] \in CertRowType
          BY CertFacts DEF CertsInv
        <5>2. QED
          BY <5>1 DEF CertRowType, CertStatus
      <4>2. certRow' = [certRow EXCEPT ![c] = [row EXCEPT !.old = FALSE]]
        BY <1>2, <2>2, <3>3, <4>1 DEF RowWith
      <4>3. /\ row.status = "ERROR" /\ row.pem = certRow[c].pem
            /\ row.https = certRow[c].https /\ row.protocol = certRow[c].protocol
            /\ row.bad = certRow[c].bad
        BY <4>1, CertFacts DEF CertsInv, CertRowType
      <4>4. /\ certRow' \in [CertIds -> CertRowType]
            /\ \A d \in CertIds : d # c => certRow'[d] = certRow[d]
            /\ certRow'[c].status = "ERROR" /\ certRow'[c].pem = certRow[c].pem
            /\ certRow'[c].https = certRow[c].https /\ certRow'[c].protocol = certRow[c].protocol
            /\ certRow'[c].bad = certRow[c].bad
        BY <4>2, <4>3, RowWithFacts DEF CertsInv
      <4>5. \A d \in CertIds :
              /\ certRow'[d].protocol = certRow[d].protocol
              /\ certRow'[d].pem = certRow[d].pem /\ certRow'[d].https = certRow[d].https
              /\ certRow'[d].bad = certRow[d].bad
              /\ Present(d) => Present(d)'
              /\ certRow'[d].status = "ACTIVE" => certRow[d].status = "ACTIVE"
              /\ InWork(d)' => InWork(d) /\ d # c
        BY <4>4 DEF InWork, Present
      <4>6. RowsLose
        BY <4>4, <4>5 DEF RowsLose
      <4>7. QED
        BY <2>2, <3>1, <4>5, <4>6
    <3>4. QED
      BY <3>2, <3>3
  <2>3. QED
    BY <2>1, <2>2
<1>4. \/ n = NoTask /\ t.at \in {"failed", "done"}
      \/ /\ t.at = "failed" /\ n.at = "done" /\ n.do = t.do /\ n.id = t.id /\ n.pem = t.pem
         /\ n.mail = t.mail
      \/ /\ n.at = t.at /\ n.do = t.do /\ n.id = t.id /\ n.pem = t.pem /\ n.mail = t.mail
         /\ n.timer = "off" /\ n = [t EXCEPT !.timer = n.timer]
  BY <1>1 DEF CertTasks
<1>5. CertTaskShape(n)' /\ (Awaits(n) => Awaits(t)) /\ (Telling(t) => Telling(n))
      /\ (Issues(n) /\ n.at # "idle" => Issues(t) /\ t.at # "idle" /\ t.id = n.id)
  BY <1>1, <1>4 DEF CertTaskShape, Issues, Mailing, Awaits, Telling, NoTask
<1>6. \A d \in CertIds : InWork(d)' /\ Ends(t, d) => d \in certLeft'
  BY <1>2, <1>3 DEF Ends
<1>7. CertRowsInv' /\ certRow' \in [CertIds -> CertRowType]
  BY <1>3, RowsStep DEF RowsLose
<1>8. OwnersKept => CertMailInv'
  <2>1. \/ /\ ~Changing(n) /\ t.at \notin {"flags", "unflag"} /\ ~Mailing(n)
        \/ n = [t EXCEPT !.timer = n.timer]
    BY <1>4 DEF Changing, Mailing, NoTask
  <2>2. QED
    BY <1>3, <2>1, MailStep
<1>9. certCrossed' \in BOOLEAN /\ certSettings' \in 0..Len(certOwner)
  BY DEF CertsInv, CertTypeOK
<1>10. QED
  BY <1>3, <1>5, <1>6, <1>7, <1>8, <1>9, WorkStep

LEMMA NoteFailureInv ==
  ASSUME CertsInv, NEW s \in CertSlots, NoteFailure(s)
  PROVE  CertsInv'
<1> DEFINE t == certTask[s]
<1>1. t \in CertTasks
  BY CertFacts DEF CertsInv
<1>2. PICK n \in CertTasks : n = CertTaskEnds(t)
  BY <1>1, EndsFacts
<1>3. \/ n = NoTask
      \/ n.at = "done" /\ n.do = t.do /\ n.id = t.id /\ n.pem = t.pem /\ n.mail = t.mail
  BY <1>1, <1>2, EndsFacts
<1>4. /\ certUp /\ t.at = "failed" /\ certTask' = [certTask EXCEPT ![s] = n]
      /\ \/ /\ certRow' = (IF Present(t.id)
                           THEN RowWith(t.id, [certRow[t.id] EXCEPT !.status = "ERROR"])
                           ELSE certRow)
            /\ UNCHANGED <<certLeft, certFaults>>
         \/ CertFault /\ certLeft' = certLeft \cup {t.id} /\ UNCHANGED certRow
      /\ UNCHANGED <<certOwner, certSettings, certCrossed, certUp, certStarts, certMail, certReload,
                     certListens, certActive, certMap, certMissed, certTorn, certActs>>
  BY <1>2 DEF NoteFailure, TaskAt, WriteError, CertGoes, certProxy
<1>5. QED
  BY <1>3, <1>4, WriteErrorInv

LEMMA NoteTimeoutInv ==
  ASSUME CertsInv, NEW s \in CertSlots, NoteTimeout(s)
  PROVE  CertsInv'
<1> DEFINE t == certTask[s]
<1>1. t \in CertTasks
  BY CertFacts DEF CertsInv
<1>2. PICK n \in CertTasks : n = IF t.at = "done" THEN NoTask ELSE [t EXCEPT !.timer = "off"]
  BY <1>1, NoTaskType DEF CertTasks
<1>3. /\ certUp /\ certTask' = [certTask EXCEPT ![s] = n]
      /\ \/ /\ certRow' = (IF Present(t.id)
                           THEN RowWith(t.id, [certRow[t.id] EXCEPT !.status = "ERROR"])
                           ELSE certRow)
            /\ UNCHANGED <<certLeft, certFaults>>
         \/ CertFault /\ certLeft' = certLeft \cup {t.id} /\ UNCHANGED certRow
      /\ UNCHANGED <<certOwner, certSettings, certCrossed, certUp, certStarts, certMail, certReload,
                     certListens, certActive, certMap, certMissed, certTorn, certActs>>
  BY <1>2 DEF NoteTimeout, WriteError, CertGoes, certProxy
<1>4. \/ n = NoTask /\ t.at = "done"
      \/ n = [t EXCEPT !.timer = "off"]
  BY <1>2
<1>5. QED
  BY <1>3, <1>4, WriteErrorInv

-----------------------------------------------------------------------------
(* The gateway's start, and what goes by itself.                           *)

(* A step that leaves the tasks, and the bound on the pems, as they are.   *)
LEMMA TasksSame ==
  CertsInv /\ UNCHANGED <<certTask, certOwner, certActs>> /\ CertDownInv' => CertTasksInv'
BY DEF CertsInv, CertTasksInv, BudgetInv, Awaiting, CertShapeInv, CertTaskShape, Mailing

LEMMA MailSame ==
  CertsInv /\ UNCHANGED <<certTask, certRow, certOwner, certSettings, certCrossed, certUp,
                          certStarts, certTorn>> => CertMailInv'
BY DEF CertsInv, CertMailInv, AloneInv, HalfInv, Half, SettledInv, Settles, StartMidway, Present,
       Flagged, Writing

LEMMA TimedSame ==
  CertsInv /\ UNCHANGED <<certTask, certRow, certUp, certLeft>>
    /\ ("cleanup" \in certStarts => "cleanup" \in certStarts') => CertTimedInv'
BY DEF CertsInv, CertTimedInv, InWork, Worked

LEMMA RowsInvSame ==
  CertsInv /\ UNCHANGED <<certRow, certOwner>> => CertRowsInv'
BY DEF CertsInv, CertRowsInv, CertRowInv, OneFlagInv, Present

LEMMA TellSame ==
  ASSUME CertsInv, UNCHANGED <<certTask, certUp, certMail, certReload, certListens, certMap,
                               certMissed>>,
         \A c \in CertIds : certRow'[c].status = "ACTIVE" =>
           /\ certRow[c].status = "ACTIVE" /\ certRow'[c].pem = certRow[c].pem
           /\ certRow'[c].https => certRow[c].https
           /\ certRow'[c].bad = certRow[c].bad
  PROVE  CertTellInv'
<1>1. Told' <=> Told
  BY DEF Told
<1>2. ReadOneInv'
  BY DEF CertsInv, CertTellInv, ReadOneInv
<1>3. CertServedInv'
  BY <1>1 DEF CertsInv, CertTellInv, CertServedInv, GoodRead, Served, InHand
<1>4. QED
  BY <1>2, <1>3 DEF CertTellInv

CertReloadType ==
  [at : {"idle", "load", "loaded", "stops", "bound"}, read : CertReading, newer : BOOLEAN]

LEMMA NoReadType ==
  ASSUME CertTypeOK
  PROVE  /\ NoPems \in [CertIds -> CertPems]
         /\ NoCertReload.read \in CertReading
         /\ [NoCertReload EXCEPT !.at = "load"] \in CertReloadType
         /\ [NoCertReload EXCEPT !.at = "bound"] \in CertReloadType
         /\ NoCertReload \in CertReloadType
BY CertFacts DEF NoCertReload, CertReading, NoPems, CertReloadType

LEMMA CertStartInv == CertsInv /\ CertStart => CertsInv'
<1> SUFFICES ASSUME CertsInv, CertStart PROVE CertsInv'
  OBVIOUS
<1>1. /\ ~certUp /\ certUp' /\ certStarts' = {"cleanup", "read", "subscribe"}
      /\ UNCHANGED <<certRow, certOwner, certSettings, certTask, certCrossed, certMail, certListens,
                     certActive, certMap, certMissed, certTorn, certLeft, certActs, certFaults>>
  BY DEF CertStart, certRows, certCount
<1>2. PICK r \in CertReloads :
        certReload' = [certReload EXCEPT ![r] = [NoCertReload EXCEPT !.at = "load"]]
  BY DEF CertStart, Reloads
<1>3. \A s \in CertSlots : certTask[s] = NoTask
  BY <1>1 DEF CertsInv, CertTasksInv, CertDownInv
<1>4. CertTypeOK'
  BY <1>1, <1>2, NoReadType DEF CertsInv, CertTypeOK, CertStart, CertReloadType
<1>5. CertRowsInv'
  BY <1>1, RowsInvSame
<1>6. CertTasksInv'
  BY <1>1, TasksSame DEF CertDownInv
<1>7. CertTellInv'
  <2>1. certReload'[r].at = "load" /\ certReload'[r].read.https = {}
        /\ \A q \in CertReloads : q # r => certReload'[q] = certReload[q]
    BY <1>2 DEF CertsInv, CertTypeOK, NoCertReload
  <2>2. QED
    BY <2>1 DEF CertsInv, CertTellInv, ReadOneInv, CertServedInv, Told
<1>8. CertMailInv'
  <2>1. \A s \in CertSlots : certTask'[s].at = "idle"
    BY <1>1, <1>3 DEF NoTask
  <2>2. AloneInv' /\ HalfInv' /\ ~Writing
    BY <1>1, <2>1 DEF AloneInv, HalfInv, Changing, Mailing, Half, Writing
  <2>3. Flagged' = Flagged
    BY <1>1 DEF Flagged
  <2>4. SettledInv'
    BY <1>1, <2>2, <2>3 DEF CertsInv, CertMailInv, SettledInv, Settles
  <2>5. QED
    BY <2>2, <2>4 DEF CertMailInv
<1>9. CertTimedInv'
  <2>1. \A c \in CertIds : ~Worked(c)'
    BY <1>1, <1>3 DEF Worked, NoTask
  <2>2. QED
    BY <1>1, <2>1 DEF CertTimedInv
<1>10. QED
  BY <1>4, <1>5, <1>6, <1>7, <1>8, <1>9 DEF CertsInv

LEMMA SubscribeInv == CertsInv /\ Subscribe => CertsInv'
<1> SUFFICES ASSUME CertsInv, Subscribe PROVE CertsInv'
  OBVIOUS
<1>1. /\ certUp /\ certStarts' = certStarts \ {"subscribe"}
      /\ UNCHANGED <<certRow, certOwner, certSettings, certTask, certCrossed, certUp, certMail,
                     certReload, certListens, certActive, certMap, certMissed, certTorn, certLeft,
                     certActs, certFaults>>
  BY DEF Subscribe, certRows, certProxy, certCount
<1>2. CertTypeOK'
  BY <1>1 DEF CertsInv, CertTypeOK
<1>3. CertTasksInv'
  BY <1>1, TasksSame DEF CertDownInv
<1>4. CertMailInv'
  BY <1>1 DEF CertsInv, CertMailInv, AloneInv, HalfInv, Half, SettledInv, Settles, StartMidway,
              Present, Flagged, Writing
<1>5. CertRowsInv' /\ CertTellInv' /\ CertTimedInv'
  BY <1>1, RowsInvSame, TellSame, TimedSame
<1>6. QED
  BY <1>2, <1>3, <1>4, <1>5 DEF CertsInv

(* Old work is given up; young work without a task is known to be left.    *)
LEMMA CleanUpInv == CertsInv /\ CleanUp => CertsInv'
<1> SUFFICES ASSUME CertsInv, CleanUp PROVE CertsInv'
  OBVIOUS
<1>1. /\ certUp /\ certStarts' = certStarts \ {"cleanup"}
      /\ certLeft' = certLeft \cup {c \in CertIds : InWork(c) /\ ~Stale(c) /\ ~Worked(c)}
      /\ certRow' = [c \in CertIds |->
           IF Stale(c) THEN [certRow[c] EXCEPT !.status = "ERROR", !.old = FALSE] ELSE certRow[c]]
      /\ UNCHANGED <<certOwner, certSettings, certTask, certCrossed, certUp, certMail,
                     certReload, certListens, certActive, certMap, certMissed, certTorn,
                     certActs, certFaults>>
  BY DEF CleanUp, certProxy, certCount
<1>2. /\ certRow' \in [CertIds -> CertRowType]
      /\ \A c \in CertIds :
           /\ certRow'[c].pem = certRow[c].pem /\ certRow'[c].https = certRow[c].https
           /\ certRow'[c].protocol = certRow[c].protocol /\ certRow'[c].bad = certRow[c].bad
           /\ certRow'[c].status = IF Stale(c) THEN "ERROR" ELSE certRow[c].status
  <2>1. \A c \in CertIds : certRow[c] \in CertRowType
    BY RowIn
  <2>2. QED
    BY <1>1, <2>1 DEF CertRowType, CertStatus
<1>3. \A c \in CertIds :
        /\ Present(c) => Present(c)'
        /\ certRow'[c].status = "ACTIVE" => certRow[c].status = "ACTIVE"
        /\ InWork(c)' => InWork(c) /\ ~Stale(c)
  BY <1>2 DEF Present, InWork
<1>4. CertTypeOK'
  BY <1>1, <1>2 DEF CertsInv, CertTypeOK, CertRowType
<1>5. CertRowsInv'
  <2>1. RowsLose
    BY <1>2, <1>3 DEF RowsLose
  <2>2. QED
    BY <1>1, <2>1, RowsStep
<1>6. CertTasksInv'
  BY <1>1, TasksSame DEF CertDownInv
<1>7. CertTellInv'
  BY <1>1, <1>2, <1>3, TellSame
<1>8. CertMailInv'
  <2>1. Flagged' = Flagged
    BY <1>2 DEF Flagged
  <2>2. \A s \in CertSlots : certTask[s].id \in CertIds
    BY CertFacts DEF CertsInv, CertTasks
  <2>3. AloneInv'
    BY <1>1, <1>3, <2>2 DEF CertsInv, CertMailInv, AloneInv, StartMidway
  <2>4. HalfInv'
    BY <1>1, <1>2, <2>2 DEF CertsInv, CertMailInv, HalfInv, Half
  <2>5. SettledInv'
    BY <1>1, <2>1 DEF CertsInv, CertMailInv, SettledInv, Settles, Writing
  <2>6. QED
    BY <2>3, <2>4, <2>5 DEF CertMailInv
<1>9. CertTimedInv'
  <2> SUFFICES ASSUME NEW c \in CertIds, InWork(c)', c \notin certLeft'
               PROVE  \E s \in CertSlots : Ends(certTask[s], c)
    BY <1>1 DEF CertTimedInv
  <2>1. InWork(c) /\ c \notin certLeft /\ Worked(c)
    BY <1>1, <1>3
  <2>2. QED
    BY <1>1, <2>1 DEF CertsInv, CertTimedInv
<1>10. QED
  BY <1>4, <1>5, <1>6, <1>7, <1>8, <1>9 DEF CertsInv

(* The start looks at the settings.                                        *)
LEMMA BesideFacts ==
  ASSUME CertTypeOK, Beside, ~certCrossed'
  PROVE  ~certCrossed /\ \A s \in CertSlots :
           ~Changing(certTask[s]) /\ ~Mailing(certTask[s])
           /\ certTask[s].at \notin {"flags", "unflag"}
BY DEF Beside, Midway, Changing, Mailing, CertTypeOK

LEMMA SyncInv ==
  ASSUME CertsInv, SyncRead \/ SyncFlagged \/ SyncClear
  PROVE  CertsInv'
<1>1. /\ certUp /\ Beside
      /\ \/ /\ certStarts' \in {certStarts \ {"read"}, (certStarts \ {"read"}) \cup {"flagged"}}
            /\ certSettings # 0 => "flagged" \in certStarts'
            /\ "clear" \in certStarts' => "clear" \in certStarts
            /\ certSettings' = certSettings
         \/ /\ "flagged" \in certStarts
            /\ \/ Flagged # {} /\ certStarts' = certStarts \ {"flagged"}
               \/ Flagged = {} /\ certStarts' = (certStarts \ {"flagged"}) \cup {"clear"}
            /\ certSettings' = certSettings
         \/ /\ "clear" \in certStarts /\ certStarts' = certStarts \ {"clear"} /\ certSettings' = 0
      /\ UNCHANGED <<certRow, certOwner, certTask, certUp, certMail, certReload, certListens,
                     certActive, certMap, certMissed, certTorn, certLeft, certActs, certFaults>>
  <2>1. CASE SyncRead
    BY <2>1 DEF SyncRead, SyncStep, certProxy, certCount
  <2>2. CASE SyncFlagged
    BY <2>2 DEF SyncFlagged, SyncStep, certProxy, certCount, Flagged
  <2>3. CASE SyncClear
    BY <2>3 DEF SyncClear, SyncStep, certProxy, certCount
  <2>4. QED
    BY <2>1, <2>2, <2>3
<1>2. CertTypeOK'
  <2>1. certSettings' \in 0..Len(certOwner) /\ certCrossed' \in BOOLEAN
    BY <1>1, CertFacts, SMTT(30) DEF CertsInv, CertTypeOK, Beside
  <2>2. certStarts' \subseteq {"cleanup", "read", "flagged", "clear", "subscribe", "deaf"}
    BY <1>1 DEF CertsInv, CertTypeOK
  <2>3. QED
    BY <1>1, <2>1, <2>2 DEF CertsInv, CertTypeOK
<1>3. CertTasksInv'
  BY <1>1, TasksSame DEF CertDownInv
<1>4. CertMailInv'
  <2> SUFFICES ASSUME ~certCrossed' PROVE CertMailInv'
    BY DEF CertMailInv, AloneInv, HalfInv, SettledInv
  <2>1. ~certCrossed /\ \A s \in CertSlots :
           ~Changing(certTask[s]) /\ ~Mailing(certTask[s])
           /\ certTask[s].at \notin {"flags", "unflag"}
    BY <1>1, BesideFacts DEF CertsInv
  <2>2. AloneInv' /\ HalfInv'
    BY <1>1, <2>1 DEF AloneInv, HalfInv, Half, Changing
  <2>3. Flagged' = Flagged /\ ~Writing /\ ~Writing'
    BY <1>1, <2>1 DEF Flagged, Writing
  <2>4. certSettings \in 0..Len(certOwner)
    BY DEF CertsInv, CertTypeOK
  <2>5. /\ "clear" \in certStarts => Flagged = {}
        /\ /\ certStarts \cap {"read", "flagged", "clear"} = {} /\ certTorn # "failed"
           /\ certSettings > 0
           => Flagged # {}
        /\ certTorn = "no" =>
             IF certSettings = 0 THEN Flagged = {} ELSE certOwner[certSettings] \in Flagged
    BY <1>1, <2>1, <2>3 DEF CertsInv, CertMailInv, SettledInv, Settles
  <2>6. /\ "clear" \in certStarts' => Flagged = {}
        /\ /\ certStarts' \cap {"read", "flagged", "clear"} = {} /\ certTorn # "failed"
           /\ certSettings' > 0
           => Flagged # {}
        /\ certTorn = "no" => IF certSettings' = 0 THEN Flagged = {}
                              ELSE certOwner[certSettings'] \in Flagged
    BY <1>1, <2>4, <2>5
  <2>7. SettledInv'
    BY <1>1, <2>3, <2>6 DEF SettledInv, Settles
  <2>8. QED
    BY <2>2, <2>7 DEF CertMailInv
<1>5. CertRowsInv' /\ CertTellInv' /\ CertTimedInv'
  BY <1>1, RowsInvSame, TellSame, TimedSame
<1>6. QED
  BY <1>2, <1>3, <1>4, <1>5 DEF CertsInv

LEMMA SyncFailsInv == CertsInv /\ SyncFails => CertsInv'
<1> SUFFICES ASSUME CertsInv, SyncFails PROVE CertsInv'
  OBVIOUS
<1>1. /\ certUp /\ certFaults' \in 0..CertMaxFaults /\ certTorn' = "failed"
      /\ \E at \in {"read", "flagged", "clear"} : certStarts' = certStarts \ {at}
      /\ UNCHANGED <<certRow, certOwner, certSettings, certTask, certCrossed, certUp, certMail,
                     certReload, certListens, certActive, certMap, certMissed, certLeft, certActs>>
  BY CertAssumption DEF SyncFails, CertFault, certRows, certProxy, CertsInv, CertTypeOK
<1>2. CertTypeOK'
  BY <1>1 DEF CertsInv, CertTypeOK
<1>3. CertTasksInv'
  BY <1>1, TasksSame DEF CertDownInv
<1>4. CertMailInv'
  <2>1. certStarts' \subseteq certStarts /\ Flagged' = Flagged
    BY <1>1 DEF Flagged
  <2>2. AloneInv'
    BY <1>1, <2>1 DEF CertsInv, CertMailInv, AloneInv, StartMidway, Present
  <2>3. HalfInv'
    BY <1>1 DEF CertsInv, CertMailInv, HalfInv, Half
  <2>4. SettledInv'
    BY <1>1, <2>1 DEF CertsInv, CertMailInv, SettledInv, Settles
  <2>5. QED
    BY <2>2, <2>3, <2>4 DEF CertMailInv
<1>5. CertRowsInv' /\ CertTellInv' /\ CertTimedInv'
  BY <1>1, RowsInvSame, TellSame, TimedSame
<1>6. QED
  BY <1>2, <1>3, <1>4, <1>5 DEF CertsInv

(* A change of the flags fails, after that of the settings.                *)
LEMMA FlagsFailInv ==
  ASSUME CertsInv, NEW s \in CertSlots, FlagsFail(s)
  PROVE  CertsInv'
<1>1. /\ certUp /\ certTask[s].at \in {"flags", "unflag"} /\ ThrowsAt(s, "failed")
      /\ certActs' = certActs /\ certFaults' \in 0..CertMaxFaults
  BY CertAssumption DEF FlagsFail, CertFault, CertsInv, CertTypeOK
<1>2. QED
  BY <1>1, ThrowsAtStep

-----------------------------------------------------------------------------
(* A set of numbers with a bound has a largest.                            *)
LEMMA LargestIs ==
  ASSUME NEW n \in Nat, NEW S \in SUBSET (0..n), S # {}
  PROVE  \E c \in S : \A d \in S : d <= c
<1> DEFINE T == {x \in Nat : n - x \in S}
<1>1. T \subseteq Nat
  OBVIOUS
<1>2. T # {}
  <2>1. PICK c \in S : TRUE
    OBVIOUS
  <2>2. n - c \in Nat /\ n - (n - c) = c
    OBVIOUS
  <2>3. QED
    BY <2>2
<1> HIDE DEF T
<1>3. PICK x \in T : \A y \in T : ~(<<y, x>> \in OpToRel(<, Nat))
  BY <1>1, <1>2, NatLessThanWellFounded, WFMin
<1>4. \A y \in T : x <= y
  <2> TAKE y \in T
  <2>1. y \in Nat /\ x \in Nat
    BY <1>1
  <2>2. y < x => <<y, x>> \in OpToRel(<, Nat)
    BY <2>1 DEF OpToRel
  <2>3. ~(y < x)
    BY <1>3, <2>2
  <2>4. QED
    BY <2>1, <2>3
<1>5. n - x \in S /\ x \in Nat
  BY <1>3 DEF T
<1>6. \A d \in S : d <= n - x
  <2> TAKE d \in S
  <2>1. d \in Nat /\ n - d \in Nat /\ n - (n - d) = d
    OBVIOUS
  <2>2. x <= n - d
    BY <1>4, <2>1 DEF T
  <2>3. QED
    BY <1>5, <2>1, <2>2
<1>7. QED
  BY <1>5, <1>6

(* The listener.                                                           *)
LEMMA CertDiesInv == CertsInv /\ CertDies => CertsInv'
<1> SUFFICES ASSUME CertsInv, CertDies PROVE CertsInv'
  OBVIOUS
<1>1. certUp /\ CertDown /\ certActs' = certActs /\ certFaults' \in 0..CertMaxFaults
  BY CertAssumption DEF CertDies, CertFault, CertsInv, CertTypeOK
<1>2. QED
  BY <1>1, DownStep

LEMMA CertAgesInv ==
  ASSUME CertsInv, NEW c \in CertIds, CertAges(c)
  PROVE  CertsInv'
<1>1. /\ certRow' = [certRow EXCEPT ![c].old = TRUE]
      /\ UNCHANGED <<certOwner, certSettings, certTask, certCrossed, certUp, certStarts, certMail,
                     certReload, certListens, certActive, certMap, certMissed, certTorn, certLeft,
                     certActs, certFaults>>
  BY DEF CertAges, certRest, certProxy, certCount
<1>2. /\ certRow' \in [CertIds -> CertRowType]
      /\ \A d \in CertIds :
           /\ certRow'[d].status = certRow[d].status /\ certRow'[d].pem = certRow[d].pem
           /\ certRow'[d].https = certRow[d].https /\ certRow'[d].protocol = certRow[d].protocol
           /\ certRow'[d].bad = certRow[d].bad
  <2>1. certRow \in [CertIds -> CertRowType]
    BY CertFacts DEF CertsInv
  <2>2. certRow' \in [CertIds -> CertRowType]
    BY <1>1, <2>1 DEF CertRowType
  <2>3. QED
    BY <1>1, <2>1, <2>2 DEF CertRowType
<1>3. \A d \in CertIds : (Present(d)' <=> Present(d)) /\ (InWork(d)' <=> InWork(d))
  BY <1>2 DEF Present, InWork
<1>4. CertTypeOK'
  BY <1>1, <1>2 DEF CertsInv, CertTypeOK, CertRowType
<1>5. CertRowsInv'
  <2>1. RowsLose
    BY <1>2, <1>3 DEF RowsLose
  <2>2. QED
    BY <1>1, <2>1, RowsStep
<1>6. CertTasksInv' /\ CertTellInv'
  BY <1>1, <1>2, TasksSame, TellSame DEF CertsInv, CertTasksInv, CertDownInv
<1>7. CertMailInv'
  <2>1. Flagged' = Flagged
    BY <1>2 DEF Flagged
  <2>2. \A s \in CertSlots : certTask[s].id \in CertIds
    BY CertFacts DEF CertsInv, CertTasks
  <2>3. QED
    BY <1>1, <1>2, <1>3, <2>1, <2>2
    DEF CertsInv, CertMailInv, AloneInv, StartMidway, HalfInv, Half, SettledInv, Settles, Writing
<1>8. CertTimedInv'
  BY <1>1, <1>3 DEF CertsInv, CertTimedInv, Worked
<1>9. QED
  BY <1>4, <1>5, <1>6, <1>7, <1>8 DEF CertsInv

CertMapType == [pems : [CertIds -> CertPems], default : CertPems, server : CertPems]

(* A step of the listener.                                                 *)
LEMMA ListenerStep ==
  ASSUME CertsInv,
         UNCHANGED <<certRow, certOwner, certSettings, certTask, certCrossed, certUp, certTorn,
                     certLeft, certActs>>,
         certUp, certStarts' \subseteq {"cleanup", "read", "flagged", "clear", "subscribe", "deaf"},
         \A part \in {"cleanup", "read", "flagged", "clear"} :
           part \in certStarts' <=> part \in certStarts,
         certMail' \in Nat, certReload' \in [CertReloads -> CertReloadType],
         certListens' \in BOOLEAN, certActive' \in BOOLEAN,
         certMissed' \subseteq {"lost", "late", "taken", "threw"},
         certMap' \in CertMapType,
         certFaults' \in 0..CertMaxFaults, CertTellInv'
  PROVE  CertsInv'
<1>1. CertTypeOK'
  BY DEF CertsInv, CertTypeOK, CertReloadType, CertMapType
<1>2. CertTasksInv'
  BY TasksSame DEF CertDownInv
<1>3. CertMailInv'
  <2>1. StartMidway' <=> StartMidway
    BY DEF StartMidway
  <2>2. certStarts' \cap {"read", "flagged", "clear"} = certStarts \cap {"read", "flagged", "clear"}
    OBVIOUS
  <2>3. "clear" \in certStarts' <=> "clear" \in certStarts
    OBVIOUS
  <2>4. QED
    BY <2>1, <2>2, <2>3 DEF CertsInv, CertMailInv, AloneInv, HalfInv, Half, SettledInv, Settles,
                            Present, Flagged, Writing
<1>4. CertTimedInv'
  BY TimedSame
<1>5. CertRowsInv'
  BY RowsInvSame
<1>6. QED
  BY <1>1, <1>2, <1>3, <1>4, <1>5 DEF CertsInv

LEMMA UpReload ==
  ASSUME CertsInv
  PROVE  /\ certMail > 0 => certUp
         /\ \A r \in CertReloads : certReload[r].at # "idle" => certUp
         /\ certReload \in [CertReloads -> CertReloadType]
BY DEF CertsInv, CertTypeOK, CertTasksInv, CertDownInv, NoCertReload, CertReloadType

LEMMA TakeReloadInv == CertsInv /\ TakeReload => CertsInv'
<1> SUFFICES ASSUME CertsInv, TakeReload PROVE CertsInv'
  OBVIOUS
<1>1. /\ certMail > 0 /\ certMail' = certMail - 1
      /\ UNCHANGED <<certRow, certOwner, certSettings, certTask, certCrossed, certUp, certTorn,
                     certLeft, certActs, certStarts, certListens, certActive, certMap, certMissed,
                     certFaults>>
  BY DEF TakeReload, Unproxied, certRows
<1>2. PICK r \in CertReloads :
        certReload' = [certReload EXCEPT ![r] = [NoCertReload EXCEPT !.at = "load"]]
  BY DEF TakeReload, Reloads
<1>3. certReload \in [CertReloads -> CertReloadType] /\ certUp
      /\ certReload' \in [CertReloads -> CertReloadType]
  BY <1>1, <1>2, UpReload, NoReadType DEF CertReloadType, CertsInv
<1>4. CertTellInv'
  <2>1. certReload'[r].at = "load" /\ certReload'[r].read.https = {}
        /\ \A q \in CertReloads : q # r => certReload'[q] = certReload[q]
    BY <1>2, <1>3 DEF NoCertReload
  <2>2. QED
    BY <2>1 DEF CertsInv, CertTellInv, ReadOneInv, CertServedInv, Told
<1>5. certMail' \in Nat
  BY <1>1 DEF CertsInv, CertTypeOK
<1>6. QED
  BY <1>1, <1>3, <1>4, <1>5, ListenerStep DEF CertsInv, CertTypeOK, CertMapType

(* A reload that throws leaves the other parts of a start.                 *)
LEMMA ThrowStarts ==
  ASSUME CertsInv, ReloadThrows
  PROVE  /\ certStarts' \subseteq {"cleanup", "read", "flagged", "clear", "subscribe", "deaf"}
         /\ \A part \in {"cleanup", "read", "flagged", "clear"} :
              part \in certStarts' <=> part \in certStarts
BY DEF ReloadThrows, CertsInv, CertTypeOK

(* A reload that has read knows the rows as they are.                      *)
LEMMA LoadCertsInv ==
  ASSUME CertsInv, NEW r \in CertReloads, LoadCerts(r)
  PROVE  CertsInv'
<1>1. /\ certReload[r].at = "load"
      /\ UNCHANGED <<certRow, certOwner, certSettings, certTask, certCrossed, certUp, certTorn,
                     certLeft, certActs, certMail, certListens, certActive, certMap>>
  BY DEF LoadCerts, Unproxied, certRows
<1>2. certReload \in [CertReloads -> CertReloadType] /\ certUp
  BY <1>1, UpReload
<1>3. CASE /\ certReload' = [q \in CertReloads |->
                IF q = r THEN [at |-> "loaded", read |-> Loaded, newer |-> FALSE]
                ELSE IF InHand(q) THEN [certReload[q] EXCEPT !.newer = TRUE] ELSE certReload[q]]
           /\ certMissed' = certMissed \ {"lost"}
           /\ UNCHANGED <<certStarts, certFaults>>
  <2>1. /\ Loaded \in CertReading
        /\ \A c \in CertIds : certRow[c].status = "ACTIVE" => Loaded.pems[c] = certRow[c].pem
        /\ \A c \in CertIds : c \in Loaded.https <=> certRow[c].https
        /\ \A c \in CertIds : c \in Loaded.bad <=> certRow[c].bad
    BY CertFacts DEF Loaded, CertReading, CertsInv, CertRowType
  <2>2. \A c, d \in Loaded.https : c = d
    BY <2>1 DEF CertsInv, CertRowsInv, OneFlagInv, CertReading
  <2>3. certReload' \in [CertReloads -> CertReloadType]
    BY <1>2, <1>3, <2>1 DEF CertReloadType
  <2>4. /\ certReload'[r].at = "loaded" /\ certReload'[r].read = Loaded
        /\ \A q \in CertReloads : q # r =>
             /\ certReload'[q].at = certReload[q].at /\ certReload'[q].read = certReload[q].read
             /\ InHand(q) => certReload'[q].newer
    BY <1>2, <1>3 DEF CertReloadType
  <2>5. ReadOneInv'
    BY <2>2, <2>4 DEF CertsInv, CertTellInv, ReadOneInv
  <2>6. CertServedInv'
    <3>1. InHand(r)'
      BY <2>4 DEF InHand
    <3>2. GoodRead(Loaded)
      BY <2>1 DEF GoodRead
    <3>3. \A q \in CertReloads : InHand(q)' /\ ~certReload'[q].newer => q = r
      BY <2>4 DEF InHand
    <3>4. GoodRead(certReload[r].read)'
      BY <1>1, <2>4, <3>2 DEF GoodRead
    <3>5. QED
      BY <3>1, <3>3, <3>4 DEF CertServedInv
  <2>7. QED
    BY <1>1, <1>2, <1>3, <2>3, <2>5, <2>6, ListenerStep
    DEF CertsInv, CertTypeOK, CertTellInv, CertMapType
<1>4. CASE /\ CertFault
           /\ certReload' = [certReload EXCEPT ![r] = NoCertReload]
           /\ Loses(TRUE) /\ ReloadThrows
  <2>1. certReload' \in [CertReloads -> CertReloadType]
    BY <1>2, <1>4, NoReadType DEF CertReloadType, CertsInv
  <2>2. \A q \in CertReloads :
          certReload'[q].read.https = {} \/ certReload'[q].read = certReload[q].read
    BY <1>2, <1>4 DEF NoCertReload
  <2>3. CertTellInv'
    BY <1>4, <2>2 DEF CertsInv, CertTellInv, ReadOneInv, CertServedInv, Told, Loses
  <2>4. certFaults' \in 0..CertMaxFaults
    BY <1>4, CertAssumption DEF CertFault, CertsInv, CertTypeOK
  <2>5. /\ certStarts' \subseteq {"cleanup", "read", "flagged", "clear", "subscribe", "deaf"}
        /\ \A part \in {"cleanup", "read", "flagged", "clear"} :
             part \in certStarts' <=> part \in certStarts
    BY <1>4, ThrowStarts
  <2>6. certMissed' \subseteq {"lost", "late", "taken", "threw"} /\ certMap' \in CertMapType
    BY <1>1, <1>4 DEF CertsInv, CertTypeOK, Loses, CertMapType
  <2>7. QED
    BY <1>1, <1>2, <1>4, <2>1, <2>3, <2>4, <2>5, <2>6, ListenerStep DEF CertsInv, CertTypeOK
<1>5. QED
  BY <1>3, <1>4 DEF LoadCerts

LEMMA StopServerInv ==
  ASSUME CertsInv, NEW r \in CertReloads, StopServer(r)
  PROVE  CertsInv'
<1>1. /\ certReload[r].at = "loaded" /\ certListens' = FALSE
      /\ certReload' = [certReload EXCEPT ![r].at = "stops"]
      /\ UNCHANGED <<certRow, certOwner, certSettings, certTask, certCrossed, certUp, certTorn,
                     certLeft, certActs, certStarts, certMail, certActive, certMissed,
                     certFaults>>
      /\ certMap' = [certMap EXCEPT !.server = 0]
  BY DEF StopServer, Unproxied, certRows
<1>2. certReload \in [CertReloads -> CertReloadType] /\ certUp
  BY <1>1, UpReload
<1>3. /\ certReload' \in [CertReloads -> CertReloadType]
      /\ certReload'[r].at = "stops"
      /\ \A q \in CertReloads :
           /\ certReload'[q].read = certReload[q].read /\ certReload'[q].newer = certReload[q].newer
           /\ q # r => certReload'[q].at = certReload[q].at
  BY <1>1, <1>2 DEF CertReloadType
<1>4. CertTellInv'
  <2>1. ReadOneInv'
    BY <1>3 DEF CertsInv, CertTellInv, ReadOneInv
  <2>2. \A q \in CertReloads : InHand(q)' <=> InHand(q)
    BY <1>1, <1>3 DEF InHand
  <2>3. InHand(r)
    BY <1>1 DEF InHand
  <2>4. Told' => Told
    BY <1>1, <1>3 DEF Told
  <2>5. \A q \in CertReloads : GoodRead(certReload[q].read) => GoodRead(certReload[q].read)'
    BY <1>1, <1>3 DEF GoodRead
  <2>6. CertServedInv'
    BY <1>3, <2>2, <2>3, <2>4, <2>5 DEF CertsInv, CertTellInv, CertServedInv
  <2>7. QED
    BY <2>1, <2>6 DEF CertTellInv
<1>5. certMap' \in CertMapType
  BY <1>1, CertFacts DEF CertsInv, CertTypeOK, CertMapType
<1>6. QED
  BY <1>1, <1>2, <1>3, <1>4, <1>5, ListenerStep DEF CertsInv, CertTypeOK

(* The row that is preferred, and the map that a reading makes.            *)
LEMMA PreferredIs ==
  ASSUME NEW all \in SUBSET CertIds, all # {}, NEW https \in SUBSET all
  PROVE  /\ Preferred(https, all) \in all
         /\ https # {} => Preferred(https, all) \in https
<1> DEFINE set == IF https # {} THEN https ELSE all
<1>1. set \in SUBSET (0..CertMaxRows) /\ set # {} /\ CertMaxRows \in Nat
  BY CertAssumption DEF CertIds
<1>2. \E c \in set : \A d \in set : d <= c
  BY <1>1, LargestIs
<1>3. NewestRow(set) \in set
  BY <1>2 DEF NewestRow
<1>4. Preferred(https, all) = NewestRow(set)
  BY DEF Preferred
<1>5. QED
  BY <1>3, <1>4

LEMMA SniFacts ==
  ASSUME NEW read \in CertReading, With(read) # {}, NEW server \in CertPems
  PROVE  /\ read.pems[Primary(read)] \in CertPems
         /\ SniMaps(read, server) \in CertMapType
         /\ SniMaps(read, server).server = server
         /\ \A c \in CertIds : c \notin read.bad => SniMaps(read, server).pems[c] = read.pems[c]
         /\ \A c \in CertIds : c \in read.https /\ read.pems[c] # 0 /\ c \notin read.bad
              /\ (\A d \in read.https : d = c)
                => Primary(read) = c /\ SniMaps(read, server).default = read.pems[c]
<1> DEFINE secure  == [c \in CertIds |-> IF c \in read.bad THEN 0 ELSE read.pems[c]]
           good    == (With(read) \cap read.https) \ read.bad
           unknown == Preferred(good, With(read))
<1>1. /\ read.pems \in [CertIds -> CertPems] /\ read.https \subseteq CertIds
      /\ CertPems \subseteq Nat /\ 0 \in CertPems /\ With(read) \subseteq CertIds
  BY CertAssumption DEF CertReading, CertPems, With
<1>2. \A c \in CertIds : read.pems[c] # 0 => c \in With(read)
  <2> TAKE c \in CertIds
  <2>1. read.pems[c] \in Nat
    BY <1>1
  <2>2. QED
    BY <2>1 DEF With
<1>3. /\ unknown \in With(read) /\ (good # {} => unknown \in good)
      /\ Primary(read) \in With(read)
      /\ With(read) \cap read.https # {} => Primary(read) \in With(read) \cap read.https
  BY <1>1, PreferredIs DEF Primary
<1>4. secure \in [CertIds -> CertPems] /\ secure[unknown] \in CertPems
  BY <1>1, <1>3
<1>5. /\ SniMaps(read, server).pems = secure /\ SniMaps(read, server).default = secure[unknown]
      /\ SniMaps(read, server).server = server
      /\ SniMaps(read, server) \in CertMapType
  BY <1>4 DEF SniMaps, CertMapType
<1>6. ASSUME NEW c \in CertIds, c \in read.https, read.pems[c] # 0, c \notin read.bad,
             \A d \in read.https : d = c
      PROVE  Primary(read) = c /\ unknown = c
  <2>1. c \in With(read)
    BY <1>2, <1>6
  <2>2. QED
    BY <1>3, <1>6, <2>1
<1>7. read.pems[Primary(read)] \in CertPems
  BY <1>1, <1>3
<1> HIDE DEF unknown
<1>8. \A c \in CertIds : c \notin read.bad => secure[c] = read.pems[c]
  OBVIOUS
<1> HIDE DEF secure
<1>9. QED
  BY <1>5, <1>6, <1>7, <1>8

(* What a reload leaves, if it ends well for a reading that is good.  One  *)
(* that comes late is known to.                                            *)
LEMMA LeavesInv ==
  ASSUME CertsInv, NEW r \in CertReloads, NEW at \in {"idle", "bound"},
         NEW threw \in SUBSET {"taken", "threw"}, Stopped(r), Leaves(r, at, threw),
         certStarts' \subseteq {"cleanup", "read", "flagged", "clear", "subscribe", "deaf"},
         \A part \in {"cleanup", "read", "flagged", "clear"} :
           part \in certStarts' <=> part \in certStarts,
         certListens' \in BOOLEAN, certMap' \in CertMapType,
         GoodRead(certReload[r].read) => Served'
  PROVE  CertsInv'
<1>1. /\ InHand(r) /\ certActive' = FALSE
      /\ certReload' = [certReload EXCEPT ![r] = IF at = "bound" THEN [NoCertReload EXCEPT !.at = at]
                                                 ELSE NoCertReload]
      /\ certMissed' = (certMissed \cap {"lost"}) \cup threw
                       \cup (IF certReload[r].newer THEN {"late"} ELSE {})
      /\ UNCHANGED <<certRow, certOwner, certSettings, certTask, certCrossed, certUp, certTorn,
                     certLeft, certActs, certMail, certFaults>>
  BY DEF Leaves, Stopped, InHand, Unproxied, certRows
<1>2. certReload \in [CertReloads -> CertReloadType] /\ certUp
  BY <1>1, UpReload DEF InHand
<1>3. /\ certReload' \in [CertReloads -> CertReloadType]
      /\ certReload'[r].at \in {"idle", "bound"} /\ certReload'[r].read.https = {}
      /\ \A q \in CertReloads : q # r => certReload'[q] = certReload[q]
  <2>1. PICK new \in CertReloadType :
          new = IF at = "bound" THEN [NoCertReload EXCEPT !.at = at] ELSE NoCertReload
    BY NoReadType DEF CertsInv
  <2>2. new.at \in {"idle", "bound"} /\ new.read.https = {}
    BY <2>1 DEF NoCertReload
  <2>3. certReload' = [certReload EXCEPT ![r] = new]
    BY <1>1, <2>1
  <2>4. QED
    BY <1>2, <2>2, <2>3
<1>4. certMissed' \subseteq {"lost", "late", "taken", "threw"}
  BY <1>1
<1>5. CertTellInv'
  <2>1. ReadOneInv'
    BY <1>3 DEF CertsInv, CertTellInv, ReadOneInv
  <2>2. ASSUME Told' PROVE Told
    <3>1. certReload[r].at # "load"
      BY <1>1 DEF InHand
    <3>2. "lost" \notin certMissed
      BY <1>1, <2>2 DEF Told
    <3>3. QED
      BY <1>1, <1>3, <2>2, <3>1, <3>2 DEF Told
  <2>3. ~InHand(r)' /\ \A q \in CertReloads : q # r => (InHand(q)' <=> InHand(q))
    BY <1>3 DEF InHand
  <2>4. ASSUME Told', "late" \notin certMissed' PROVE Served'
    <3>1. ~certReload[r].newer
      BY <1>1, <2>4
    <3>2. QED
      BY <1>1, <2>2, <2>4, <3>1 DEF CertsInv, CertTellInv, CertServedInv
  <2>5. ASSUME Told', NEW q \in CertReloads, InHand(q)', ~certReload'[q].newer
        PROVE  GoodRead(certReload[q].read)'
    <3>1. q # r /\ InHand(q) /\ ~certReload[q].newer /\ certReload'[q] = certReload[q]
      BY <1>3, <2>3, <2>5
    <3>2. GoodRead(certReload[q].read)
      BY <2>2, <2>5, <3>1 DEF CertsInv, CertTellInv, CertServedInv
    <3>3. QED
      BY <1>1, <3>1, <3>2 DEF GoodRead
  <2>6. QED
    BY <2>1, <2>4, <2>5 DEF CertTellInv, CertServedInv
<1>6. certMail' \in Nat /\ certFaults' \in 0..CertMaxFaults
  BY <1>1 DEF CertsInv, CertTypeOK
<1>7. QED
  BY <1>1, <1>2, <1>3, <1>4, <1>5, <1>6, ListenerStep

(* A reading that is in hand.                                              *)
LEMMA ReadFacts ==
  ASSUME CertsInv, NEW r \in CertReloads, Stopped(r)
  PROVE  /\ certReload[r].read \in CertReading
         /\ certMap \in CertMapType /\ certMap.server \in CertPems
         /\ UNCHANGED certRow /\ GoodRead(certReload[r].read) =>
              \A c \in CertIds : certRow'[c].status = "ACTIVE" =>
                /\ certReload[r].read.pems[c] = certRow'[c].pem /\ certReload[r].read.pems[c] # 0
                /\ ~certRow'[c].bad => c \notin certReload[r].read.bad
                /\ certRow'[c].https => /\ c \in certReload[r].read.https
                                        /\ \A d \in certReload[r].read.https : d = c
<1>1. certReload[r].read \in CertReading /\ certMap \in CertMapType /\ certMap.server \in CertPems
  BY UpReload DEF CertReloadType, CertsInv, CertTypeOK, CertMapType
<1>2. ASSUME UNCHANGED certRow, GoodRead(certReload[r].read),
             NEW c \in CertIds, certRow'[c].status = "ACTIVE"
      PROVE  /\ certReload[r].read.pems[c] = certRow'[c].pem /\ certReload[r].read.pems[c] # 0
             /\ ~certRow'[c].bad => c \notin certReload[r].read.bad
             /\ certRow'[c].https => /\ c \in certReload[r].read.https
                                     /\ \A d \in certReload[r].read.https : d = c
  <2>1. /\ certReload[r].read.pems[c] = certRow[c].pem
        /\ certRow[c].https => c \in certReload[r].read.https
        /\ ~certRow[c].bad => c \notin certReload[r].read.bad
    BY <1>2 DEF GoodRead
  <2>2. certRow[c].pem > 0
    BY <1>2 DEF CertsInv, CertRowsInv, CertRowInv
  <2>3. certRow[c].https => \A d \in certReload[r].read.https : d = c
    BY <2>1 DEF CertsInv, CertTellInv, ReadOneInv
  <2>4. QED
    BY <1>2, <2>1, <2>2, <2>3
<1>3. QED
  BY <1>1, <1>2

LEMMA NoneToServeInv ==
  ASSUME CertsInv, NEW r \in CertReloads, NoneToServe(r)
  PROVE  CertsInv'
<1>1. /\ Stopped(r) /\ With(certReload[r].read) = {} /\ Leaves(r, "idle", {})
      /\ UNCHANGED <<certStarts, certListens, certMap, certRow>>
  BY DEF NoneToServe, Leaves, Unproxied, certRows
<1>2. certReload[r].read \in CertReading /\ CertPems \subseteq Nat
  BY <1>1, ReadFacts, CertFacts DEF CertsInv
<1>3. \A c \in CertIds : certReload[r].read.pems[c] = 0
  <2> TAKE c \in CertIds
  <2>1. certReload[r].read.pems[c] \in Nat
    BY <1>2 DEF CertReading
  <2>2. QED
    BY <1>1, <2>1 DEF With
<1>4. GoodRead(certReload[r].read) => Served'
  BY <1>1, <1>3, ReadFacts DEF Served
<1>5. /\ certStarts' \subseteq {"cleanup", "read", "flagged", "clear", "subscribe", "deaf"}
      /\ certListens' \in BOOLEAN /\ certMap' \in CertMapType
  BY <1>1 DEF CertsInv, CertTypeOK, CertMapType
<1>6. QED
  BY <1>1, <1>4, <1>5, LeavesInv

LEMMA ServerThrowsInv ==
  ASSUME CertsInv, NEW r \in CertReloads, ServerThrows(r)
  PROVE  CertsInv'
<1> DEFINE read == certReload[r].read
<1>1. /\ Stopped(r) /\ With(read) # {} /\ Primary(read) \in read.bad
      /\ certMap' = SniMaps(read, certMap.server) /\ Leaves(r, "idle", {"threw"}) /\ ReloadThrows
      /\ UNCHANGED <<certListens, certRow>>
  BY DEF ServerThrows, Leaves, Unproxied, certRows
<1>2. "threw" \in certMissed'
  BY <1>1 DEF Leaves
<1>3. read \in CertReading /\ certMap.server \in CertPems
  BY <1>1, ReadFacts
<1>4. /\ certMap' \in CertMapType
      /\ \A c \in CertIds : c \notin read.bad => certMap'.pems[c] = read.pems[c]
      /\ \A c \in CertIds : c \in read.https /\ read.pems[c] # 0 /\ c \notin read.bad
           /\ (\A d \in read.https : d = c) => Primary(read) = c
  BY <1>1, <1>3, SniFacts
<1>5. GoodRead(read) => Served'
  <2> SUFFICES ASSUME GoodRead(read), NEW c \in CertIds, certRow'[c].status = "ACTIVE",
                      ~certRow'[c].bad
               PROVE  certMap'.pems[c] = certRow'[c].pem /\ ~certRow'[c].https
    BY <1>2 DEF Served
  <2>1. /\ read.pems[c] = certRow'[c].pem /\ read.pems[c] # 0 /\ c \notin read.bad
        /\ certRow'[c].https => c \in read.https /\ \A d \in read.https : d = c
    BY <1>1, ReadFacts
  <2>2. QED
    BY <1>1, <1>4, <2>1
<1>6. certListens' \in BOOLEAN
  BY <1>1 DEF CertsInv, CertTypeOK
<1>7. QED
  BY <1>1, <1>4, <1>5, <1>6, ThrowStarts, LeavesInv

LEMMA CreateServerInv ==
  ASSUME CertsInv, NEW r \in CertReloads, CreateServer(r)
  PROVE  CertsInv'
<1> DEFINE read == certReload[r].read
           server == IF certListens THEN certMap.server ELSE read.pems[Primary(read)]
<1>1. /\ Stopped(r) /\ With(read) # {} /\ Primary(read) \notin read.bad
      /\ certMap' = SniMaps(read, server) /\ certListens' = TRUE
      /\ \/ certListens /\ Leaves(r, "idle", {"taken"}) /\ ReloadThrows
         \/ ~certListens /\ Leaves(r, "bound", {}) /\ UNCHANGED certStarts
      /\ UNCHANGED certRow
  BY DEF CreateServer, Serves, Leaves, Unproxied, certRows
<1>2. certListens => "taken" \in certMissed'
  BY <1>1 DEF Leaves
<1>3. read \in CertReading /\ server \in CertPems
  BY <1>1, ReadFacts, SniFacts
<1>4. /\ certMap' \in CertMapType /\ certMap'.server = server
      /\ \A c \in CertIds : c \notin read.bad => certMap'.pems[c] = read.pems[c]
      /\ \A c \in CertIds : c \in read.https /\ read.pems[c] # 0 /\ c \notin read.bad
           /\ (\A d \in read.https : d = c)
             => Primary(read) = c /\ certMap'.default = read.pems[c]
  BY <1>1, <1>3, SniFacts
<1>5. GoodRead(read) => Served'
  <2> SUFFICES ASSUME GoodRead(read), NEW c \in CertIds, certRow'[c].status = "ACTIVE",
                      ~certRow'[c].bad
               PROVE  /\ certMap'.pems[c] = certRow'[c].pem
                      /\ certRow'[c].https =>
                           /\ certMap'.default = certRow'[c].pem
                           /\ certMap'.server = certRow'[c].pem \/ "taken" \in certMissed'
    BY <1>1 DEF Served
  <2>1. /\ read.pems[c] = certRow'[c].pem /\ read.pems[c] # 0 /\ c \notin read.bad
        /\ certRow'[c].https => c \in read.https /\ \A d \in read.https : d = c
    BY <1>1, ReadFacts
  <2>2. QED
    BY <1>2, <1>4, <2>1
<1>6. CASE certListens
  BY <1>1, <1>4, <1>5, <1>6, ThrowStarts, LeavesInv
<1>7. CASE ~certListens
  <2>1. certStarts' \subseteq {"cleanup", "read", "flagged", "clear", "subscribe", "deaf"}
    BY <1>1, <1>7 DEF CertsInv, CertTypeOK
  <2>2. QED
    BY <1>1, <1>4, <1>5, <1>7, <2>1, LeavesInv
<1>8. QED
  BY <1>6, <1>7

LEMMA ListeningInv ==
  ASSUME CertsInv, NEW r \in CertReloads, Listening(r)
  PROVE  CertsInv'
<1>1. /\ certReload[r].at = "bound" /\ certActive' = TRUE
      /\ certReload' = [certReload EXCEPT ![r] = NoCertReload]
      /\ UNCHANGED <<certRow, certOwner, certSettings, certTask, certCrossed, certUp, certTorn,
                     certLeft, certActs, certStarts, certMail, certListens, certMap, certMissed,
                     certFaults>>
  BY DEF Listening, Unproxied, certRows
<1>2. certReload \in [CertReloads -> CertReloadType] /\ certUp
  BY <1>1, UpReload
<1>3. /\ certReload' \in [CertReloads -> CertReloadType]
      /\ certReload'[r] = NoCertReload
      /\ \A q \in CertReloads : q # r => certReload'[q] = certReload[q]
  BY <1>1, <1>2, NoReadType DEF CertsInv
<1>4. CertTellInv'
  <2>1. ReadOneInv'
    BY <1>3 DEF CertsInv, CertTellInv, ReadOneInv, NoCertReload
  <2>2. Told' => Told
    BY <1>1, <1>3 DEF Told
  <2>3. ~InHand(r) /\ ~InHand(r)' /\ \A q \in CertReloads : q # r => (InHand(q)' <=> InHand(q))
    BY <1>1, <1>3 DEF InHand, NoCertReload
  <2>4. Served' <=> Served
    BY <1>1 DEF Served
  <2>5. \A q \in CertReloads : q # r /\ GoodRead(certReload[q].read) => GoodRead(certReload[q].read)'
    BY <1>1, <1>3 DEF GoodRead
  <2>6. CertServedInv'
    BY <1>1, <1>3, <2>2, <2>3, <2>4, <2>5 DEF CertsInv, CertTellInv, CertServedInv
  <2>7. QED
    BY <2>1, <2>6 DEF CertTellInv
<1>5. QED
  BY <1>1, <1>2, <1>3, <1>4, ListenerStep DEF CertsInv, CertTypeOK, CertMapType

-----------------------------------------------------------------------------
LEMMA CertInitInv == CertInit => CertsInv
<1> SUFFICES ASSUME CertInit PROVE CertsInv
  OBVIOUS
<1>1. /\ certUp = TRUE /\ certStarts = {} /\ certMail = 0 /\ certLeft = {}
      /\ certTask = [s \in CertSlots |-> NoTask]
      /\ certReload = [r \in CertReloads |-> NoCertReload]
      /\ certMissed = {} /\ certCrossed = FALSE /\ certTorn = "no"
      /\ certActs = 0 /\ certFaults = 0
      /\ certListens \in BOOLEAN /\ certActive = certListens
      /\ certMap = [pems |-> [c \in CertIds |-> certRow[c].pem], default |-> certSettings,
                    server |-> certSettings]
  BY DEF CertInit
<1>2. 1 \in CertIds /\ CertIds \subseteq Nat /\ {0, 1} \subseteq CertPems
  BY CertAssumption DEF CertIds, CertPems
<1>3. \/ /\ certListens /\ certOwner = <<1>> /\ Len(certOwner) = 1 /\ certSettings = 1
         /\ certRow \in [CertIds -> CertRowType]
         /\ certRow[1].status = "ACTIVE" /\ certRow[1].pem = 1 /\ certRow[1].protocol
         /\ ~certRow[1].https
         /\ \A c \in CertIds : c # 1 => certRow[c] = NoRow
      \/ /\ certOwner = <<>> /\ Len(certOwner) = 0 /\ certSettings = 0
         /\ certRow = [c \in CertIds |-> NoRow]
  <2>1. CASE certListens
    <3>1. certRow = SetUp /\ certOwner = <<1>> /\ certSettings = 1
      BY <2>1 DEF CertInit
    <3>2. PICK row \in CertRowType :
            row = [NoRow EXCEPT !.status = "ACTIVE", !.pem = 1, !.protocol = TRUE, !.mail = TRUE]
      BY <1>2, NoRowType DEF CertRowType, CertStatus
    <3>3. row.status = "ACTIVE" /\ row.pem = 1 /\ row.protocol /\ ~row.https
      BY <3>2 DEF NoRow
    <3>4. certRow = [c \in CertIds |-> IF c = 1 THEN row ELSE NoRow]
      BY <3>1, <3>2 DEF SetUp
    <3>5. QED
      BY <1>2, <2>1, <3>1, <3>3, <3>4, NoRowType
  <2>2. CASE ~certListens
    BY <2>2 DEF CertInit
  <2>3. QED
    BY <1>1, <2>1, <2>2
<1>4. NoRow.status = "absent" /\ NoRow.pem = 0 /\ ~NoRow.https /\ ~NoRow.protocol
  BY DEF NoRow
<1>5. /\ certRow \in [CertIds -> CertRowType] /\ certOwner \in Seq(CertIds)
      /\ certSettings \in 0..Len(certOwner) /\ Len(certOwner) \in {0, 1}
      /\ \A c \in CertIds : certRow[c].pem \in {0, 1} /\ ~certRow[c].https
      /\ \A c \in CertIds : certRow[c].pem = 1 \/ certRow[c].protocol =>
           c = 1 /\ Len(certOwner) = 1 /\ certOwner[1] = 1 /\ certRow[c].status = "ACTIVE"
      /\ \A c \in CertIds : certRow[c].status = "ACTIVE" => certRow[c].pem = 1 /\ certListens
      /\ \A c \in CertIds : certRow[c].status \in {"ACTIVE", "absent"}
      /\ certSettings = Len(certOwner)
      /\ Len(certOwner) = 1 => certRow[1].protocol /\ certOwner[1] = 1
  <2>1. CASE /\ certListens /\ certOwner = <<1>> /\ Len(certOwner) = 1 /\ certSettings = 1
             /\ certRow \in [CertIds -> CertRowType]
             /\ certRow[1].status = "ACTIVE" /\ certRow[1].pem = 1 /\ certRow[1].protocol
             /\ ~certRow[1].https
             /\ \A c \in CertIds : c # 1 => certRow[c] = NoRow
    <3>1. certOwner \in Seq(CertIds) /\ certOwner[1] = 1
      BY <1>2, <2>1
    <3>2. certSettings \in 0..Len(certOwner) /\ Len(certOwner) \in {0, 1}
      BY <2>1
    <3>3. \A c \in CertIds : c # 1 =>
            /\ certRow[c].pem = 0 /\ ~certRow[c].https /\ ~certRow[c].protocol
            /\ certRow[c].status = "absent"
      BY <1>4, <2>1
    <3>4. QED
      BY <2>1, <3>1, <3>2, <3>3
  <2>2. CASE /\ certOwner = <<>> /\ Len(certOwner) = 0 /\ certSettings = 0
             /\ certRow = [c \in CertIds |-> NoRow]
    <3>1. certOwner \in Seq(CertIds) /\ certRow \in [CertIds -> CertRowType]
      BY <2>2, NoRowType
    <3>2. \A c \in CertIds :
            /\ certRow[c].pem = 0 /\ ~certRow[c].https /\ ~certRow[c].protocol
            /\ certRow[c].status = "absent"
      BY <1>4, <2>2
    <3>3. certSettings \in 0..Len(certOwner) /\ Len(certOwner) \in {0, 1}
      BY <2>2
    <3>4. QED
      BY <2>2, <3>1, <3>2, <3>3
  <2>3. QED
    BY <1>3, <2>1, <2>2
<1>6. CertTypeOK
  <2>1. NoCertReload \in CertReloadType
    BY <1>2 DEF NoCertReload, CertReloadType, CertReading, NoPems
  <2>2. certMap \in CertMapType
    <3>1. certSettings \in CertPems /\ [c \in CertIds |-> certRow[c].pem] \in [CertIds -> CertPems]
      BY <1>2, <1>5
    <3>2. QED
      BY <1>1, <3>1 DEF CertMapType
  <2>3. certActs \in 0..CertMaxActs /\ certFaults \in 0..CertMaxFaults
    BY <1>1, CertAssumption
  <2>4. certTask \in [CertSlots -> CertTasks]
    BY <1>1, NoTaskType
  <2>5. QED
    BY <1>1, <1>5, <2>1, <2>2, <2>3, <2>4
    DEF CertTypeOK, CertTasks, CertRowType, CertReloadType, CertMapType
<1>7. CertRowsInv
  BY <1>2, <1>5 DEF CertRowsInv, CertRowInv, OneFlagInv, Present
<1>8. \A s \in CertSlots : certTask[s] = NoTask
  BY <1>1
<1>9. CertTasksInv
  <2>1. BudgetInv
    <3>1. Awaiting = {}
      BY <1>8 DEF Awaiting, Awaits, Issues, NoTask
    <3>2. QED
      BY <1>1, <1>5, <3>1, FS_EmptySet DEF BudgetInv
  <2>2. CertShapeInv
    BY <1>5, <1>8 DEF CertShapeInv, CertTaskShape, NoTask, Issues, Mailing
  <2>3. QED
    BY <1>1, <2>1, <2>2 DEF CertTasksInv, CertDownInv
<1>10. CertTellInv
  <2>1. \A r \in CertReloads : certReload[r] = NoCertReload
    BY <1>1
  <2>2. Served
    BY <1>1, <1>5 DEF Served
  <2>3. QED
    BY <2>1, <2>2 DEF CertTellInv, ReadOneInv, CertServedInv, InHand, NoCertReload
<1>11. CertMailInv
  <2>1. \A s \in CertSlots : certTask[s].at = "idle"
    BY <1>8 DEF NoTask
  <2>2. AloneInv /\ HalfInv
    BY <2>1 DEF AloneInv, HalfInv, Changing, Mailing, Half
  <2>3. Flagged = IF Len(certOwner) = 1 THEN {1} ELSE {}
    BY <1>2, <1>5 DEF Flagged
  <2>4. SettledInv
    <3>1. CASE Len(certOwner) = 0
      <4>1. Flagged = {} /\ certSettings = 0
        BY <1>5, <2>3, <3>1
      <4>2. QED
        BY <4>1 DEF SettledInv, Settles
    <3>2. CASE Len(certOwner) = 1
      <4>1. Flagged = {1} /\ certSettings = 1 /\ certOwner[1] = 1
        BY <1>5, <2>3, <3>2
      <4>2. "clear" \notin certStarts
        BY <1>1
      <4>3. certOwner[certSettings] \in Flagged /\ Flagged # {}
        BY <4>1
      <4>4. QED
        BY <4>1, <4>2, <4>3 DEF SettledInv, Settles
    <3>3. QED
      BY <1>5, <3>1, <3>2
  <2>5. QED
    BY <2>2, <2>4 DEF CertMailInv
<1>12. CertTimedInv
  BY <1>5 DEF CertTimedInv, InWork
<1>13. QED
  BY <1>6, <1>7, <1>9, <1>10, <1>11, <1>12 DEF CertsInv

LEMMA CertNextInv == CertsInv /\ [CertNext]_certVars => CertsInv'
<1> SUFFICES ASSUME CertsInv, [CertNext]_certVars PROVE CertsInv'
  OBVIOUS
<1>1. CASE \E s \in CertSlots : CertPosts(s, BOOLEAN, BOOLEAN) \/ CertHttpsAsks(s) \/ CertMailAsks(s)
  <2>1. PICK s \in CertSlots : CertPosts(s, BOOLEAN, BOOLEAN) \/ CertHttpsAsks(s) \/ CertMailAsks(s)
    BY <1>1
  <2>2. CASE CertPosts(s, BOOLEAN, BOOLEAN)
    BY <2>2, PostCertificateInv DEF CertPosts
  <2>3. CASE CertHttpsAsks(s)
    BY <2>3, AskRenewInv, AskActivateInv, SwitchHttpsOffInv, AskDeleteInv DEF CertHttpsAsks
  <2>4. CASE CertMailAsks(s)
    BY <2>4, AskActivateInv, PutServicesInv DEF CertMailAsks
  <2>5. QED
    BY <2>1, <2>2, <2>3, <2>4
<1>2. CASE \E s \in CertSlots : CertStep(s) \/ Issued(s) \/ CertEnds(s)
  BY <1>2, ReadOthersInv, ClaimFromInv, MarkRenewingInv, FlagHttpsInv, WriteSettingsInv,
     WriteFlagsInv, UnsetInv, UnflagInv, UnhttpsInv, RemoveRowInv, PublishReloadInv,
     FlagsFailInv, NoteFailureInv, NoteTimeoutInv, IssuedInv, NotIssuedInv, AcmeTimerInv
  DEF CertStep, CertEnds
<1>3. CASE CertBoot
  BY <1>3, CertStartInv, SubscribeInv, CleanUpInv, SyncInv, SyncFailsInv DEF CertBoot
<1>4. CASE CertListener
  BY <1>4, TakeReloadInv, LoadCertsInv, StopServerInv, NoneToServeInv, ServerThrowsInv,
     CreateServerInv, ListeningInv DEF CertListener
<1>5. CASE CertDies \/ \E c \in CertIds : CertAges(c)
  BY <1>5, CertDiesInv, CertAgesInv
<1>6. CASE UNCHANGED certVars
  <2>1. UNCHANGED <<certRow, certOwner, certSettings, certTask, certCrossed, certUp, certStarts,
                    certMail, certReload, certListens, certActive, certMap, certMissed, certTorn,
                    certLeft, certActs, certFaults>>
    BY <1>6 DEF certVars, certRows, certRest, certProxy, certCount
  <2>2. CertTypeOK'
    BY <2>1 DEF CertsInv, CertTypeOK
  <2>3. CertDownInv'
    BY <2>1 DEF CertsInv, CertTasksInv, CertDownInv
  <2>4. QED
    BY <2>1, <2>2, <2>3, TasksSame, MailSame, TimedSame, RowsInvSame, TellSame DEF CertsInv
<1>7. QED
  BY <1>1, <1>2, <1>3, <1>4, <1>5, <1>6 DEF CertNext

(* The invariant holds always: what a task, a reload or a timer at work    *)
(* still owes to the listener, the settings and the flags is never lost.   *)
THEOREM CertInvariant == CertSpec => []CertsInv
BY CertInitInv, CertNextInv, PTL DEF CertSpec

(* The rows of certificates, the tasks at work, the settings and the       *)
(* listener's map have their types, and no pem exceeds one for each        *)
(* request that may issue one.                                             *)
THEOREM CertTypes == CertSpec => []CertTypeOK
<1>1. CertsInv => CertTypeOK
  BY DEF CertsInv
<1>2. QED
  BY <1>1, CertInvariant, PTL

(* At rest the listener serves every ACTIVE certificate whose key fits,    *)
(* and to those who name no host the one activated for HTTPS, but for what *)
(* was not announced or not read, for a reload that comes late with an     *)
(* older reading, and for a server that keeps the port; the settings and   *)
(* the flags name the same certificate for the mail servers, but for two   *)
(* changes beside each other, a part of one that fails, and a death in its *)
(* middle; and every row in work has an end: for any rows, requests and    *)
(* reloads beside each other, and deaths of the gateway.                   *)
THEOREM CertsAlwaysAgree == CertSpec => []CertsAgree
<1>1. CertsInv => ActiveIsServed
  <2> SUFFICES ASSUME CertsInv, CertRests, ProxyRests, certMissed \cap {"lost", "late"} = {}
               PROVE  Served
    BY DEF ActiveIsServed, Served
  <2>1. \A s \in CertSlots : ~Telling(certTask[s])
    BY DEF CertRests, Telling
  <2>2. \A r \in CertReloads : ~InHand(r) /\ certReload[r].at # "load"
    BY DEF ProxyRests, FreeReload, InHand
  <2>3. Told
    BY <2>1, <2>2 DEF Told, CertRests, ProxyRests
  <2>4. QED
    BY <2>2, <2>3 DEF CertsInv, CertTellInv, CertServedInv
<1>2. CertsInv => MailCertAgrees
  <2> SUFFICES ASSUME CertsInv PROVE MailCertAgrees
    OBVIOUS
  <2>1. Cardinality(Flagged) <= 1
    <3>1. CASE Flagged = {}
      BY <3>1, FS_EmptySet
    <3>2. CASE Flagged # {}
      <4>1. PICK c \in Flagged : TRUE
        BY <3>2
      <4>2. Flagged = {c}
        BY <4>1 DEF Flagged, CertsInv, CertRowsInv, OneFlagInv
      <4>3. QED
        BY <4>2, FS_Singleton
    <3>3. QED
      BY <3>1, <3>2
  <2>2. CertRests => ~Writing
    BY DEF CertRests, Writing
  <2>3. CertRests /\ ~certCrossed /\ certTorn # "failed" /\ certSettings > 0 => Flagged # {}
    BY <2>2 DEF CertRests, CertsInv, CertMailInv, SettledInv, Settles
  <2>4. CertRests /\ ~certCrossed /\ certTorn = "no" =>
          IF certSettings = 0 THEN Flagged = {} ELSE certOwner[certSettings] \in Flagged
    BY <2>2 DEF CertsInv, CertMailInv, SettledInv, Settles
  <2>5. QED
    BY <2>1, <2>3, <2>4 DEF MailCertAgrees, Flagged
<1>3. CertsInv => IssuanceIsTimed
  <2> SUFFICES ASSUME CertsInv, CertRests, "cleanup" \notin certStarts,
                      NEW c \in CertIds, InWork(c), c \notin certLeft
               PROVE  \E s \in CertSlots : certTask[s].id = c /\ certTask[s].timer # "off"
    BY DEF IssuanceIsTimed
  <2>1. PICK s \in CertSlots : Ends(certTask[s], c)
    BY DEF CertsInv, CertTimedInv, CertRests
  <2>2. certTask[s].at \in {"idle", "acme"}
    BY DEF CertRests
  <2>3. QED
    BY <2>1, <2>2 DEF Ends
<1>4. CertsInv => CertsAgree
  BY <1>1, <1>2, <1>3 DEF CertsAgree
<1>5. QED
  BY <1>4, CertInvariant, PTL
-----------------------------------------------------------------------------
(* BackupJobs.  Workers exist in a process that runs, for rows that have   *)
(* not ended, but for those that were given up or deleted meanwhile; and   *)
(* the users that a full backup has left are those without a part.         *)

(* One row and one cron job for each schedule.                             *)
OneEach(tasks) == \A a, b \in tasks : a.id = b.id => a = b

SchedulesInv ==
  OneEach(bakRows) /\ \A i \in DOMAIN bakReads : OneEach(bakReads[i])

WorkInv ==
  \A j \in BakJobIds : bakWork[j].at # "none" =>
    /\ bakUp
    /\ \/ bakJob[j].status \in {"RUNNING", "deleted"}
       \/ bakJob[j].status = "FAILED" /\ bakJob[j].age = 2

PartOK(w) ==
  /\ w.at = "list" => w.does = Full /\ w.parts = 0
  /\ w.at = "finish" => w.left = {}
  /\ w.at \in {"users", "finish"} /\ w.does = Full =>
       w.parts + Cardinality(w.left) = Cardinality(BakUsers)
PartsInv == \A j \in BakJobIds : PartOK(bakWork[j])

BakInv == BakTypeOK /\ SchedulesInv /\ WorkInv /\ PartsInv

-----------------------------------------------------------------------------
LEMMA BakIdleIs == BakIdle \in BakWork /\ BakIdle.at = "none" /\ PartOK(BakIdle)
BY DEF BakIdle, BakWork, BakDoes, PartOK

LEMMA BakUsersLeft ==
  ASSUME NEW left \in SUBSET BakUsers
  PROVE  IsFiniteSet(left) /\ Cardinality(left) \in Nat
BY BakAssumption, FS_Subset, FS_CardinalityType

(* A set of numbers that is not empty has a smallest.                      *)
LEMMA SmallestIs ==
  ASSUME NEW S \in SUBSET Nat, S # {}
  PROVE  \E c \in S : \A d \in S : c <= d
<1>1. PICK c \in S : \A d \in S : ~(<<d, c>> \in OpToRel(<, Nat))
  BY NatLessThanWellFounded, WFMin
<1>2. ASSUME NEW d \in S PROVE c <= d
  <2>1. c \in Nat /\ d \in Nat
    OBVIOUS
  <2>2. d < c => <<d, c>> \in OpToRel(<, Nat)
    BY <2>1 DEF OpToRel
  <2>3. ~(d < c)
    BY <1>1, <2>2
  <2>4. QED
    BY <2>1, <2>3
<1>3. QED
  BY <1>2

LEMMA BakInitInv == BakInit => BakInv
<1> SUFFICES ASSUME BakInit PROVE BakInv
  OBVIOUS
<1>1. BakTypeOK
  <2>1. bakJob \in [BakJobIds -> BakJob]
    BY DEF BakInit, BakJob
  <2>2. bakWork \in [BakJobIds -> BakWork]
    BY BakIdleIs DEF BakInit
  <2>3. bakReads \in Seq(SUBSET BakTask)
    BY DEF BakInit
  <2>4. QED
    BY <2>1, <2>2, <2>3, BakAssumption DEF BakInit, BakTypeOK
<1>2. SchedulesInv
  BY DEF BakInit, SchedulesInv, OneEach
<1>3. WorkInv /\ PartsInv
  BY BakIdleIs DEF BakInit, WorkInv, PartsInv
<1>4. QED
  BY <1>1, <1>2, <1>3 DEF BakInv

-----------------------------------------------------------------------------
(* Schedules.                                                              *)
(* What steps on schedules leave alone.                                    *)
LEMMA SchedulesStep ==
  ASSUME BakInv, UNCHANGED <<bakUp, bakJob, bakWork>>,
         bakRows' \subseteq BakRow, OneEach(bakRows'),
         bakReads' \in Seq(SUBSET BakTask), \A i \in DOMAIN bakReads' : OneEach(bakReads'[i]),
         bakActive' \subseteq BakTask, OneEach(bakActive'),
         bakEdits' \in 0..BakMaxEdits, bakFaults' \in 0..BakMaxFaults
  PROVE  BakInv'
<1>1. BakTypeOK'
  BY DEF BakInv, BakTypeOK, OneEach
<1>2. SchedulesInv'
  BY DEF SchedulesInv
<1>3. WorkInv' /\ PartsInv'
  BY DEF BakInv, WorkInv, PartsInv
<1>4. QED
  BY <1>1, <1>2, <1>3 DEF BakInv

LEMMA SchedulesFacts ==
  ASSUME BakInv
  PROVE  /\ bakRows \subseteq BakRow /\ OneEach(bakRows)
         /\ bakReads \in Seq(SUBSET BakTask) /\ \A i \in DOMAIN bakReads : OneEach(bakReads[i])
         /\ bakActive \subseteq BakTask /\ OneEach(bakActive)
         /\ bakEdits \in 0..BakMaxEdits /\ bakFaults \in 0..BakMaxFaults
BY DEF BakInv, BakTypeOK, SchedulesInv, OneEach

LEMMA BakCounts ==
  ASSUME BakInv
  PROVE  /\ BakEdit => bakEdits' \in 0..BakMaxEdits
         /\ BakFault => bakFaults' \in 0..BakMaxFaults
BY BakAssumption DEF BakInv, BakTypeOK, BakEdit, BakFault

LEMMA PutScheduleInv == BakInv /\ PutSchedule => BakInv'
<1> SUFFICES ASSUME BakInv, PutSchedule PROVE BakInv'
  OBVIOUS
<1>1. PICK id \in BakSchedules, c \in BakCrons, d \in BakDoes, on \in BOOLEAN :
        LET old == {r \in bakRows : r.id = id}
        IN bakRows' = (bakRows \ old) \cup
             {[id |-> id, cron |-> c, does |-> d, enabled |-> on,
               last |-> IF old = {} THEN "none" ELSE (CHOOSE r \in old : TRUE).last]}
  BY DEF PutSchedule
<1> DEFINE old == {r \in bakRows : r.id = id}
           last == IF old = {} THEN "none" ELSE (CHOOSE r \in old : TRUE).last
<1>2. last \in {"none", "COMPLETED", "FAILED"}
  <2>1. CASE old = {}
    BY <2>1
  <2>2. CASE old # {}
    <3>1. (CHOOSE r \in old : TRUE) \in bakRows
      BY <2>2
    <3>2. QED
      BY <2>2, <3>1, SchedulesFacts DEF BakRow
  <2>3. QED
    BY <2>1, <2>2
<1>3. PICK new \in BakRow : new.id = id /\ bakRows' = (bakRows \ old) \cup {new}
  <2> HIDE DEF last
  <2>1. [id |-> id, cron |-> c, does |-> d, enabled |-> on, last |-> last] \in BakRow
    BY <1>2 DEF BakRow
  <2>2. bakRows' = (bakRows \ old)
          \cup {[id |-> id, cron |-> c, does |-> d, enabled |-> on, last |-> last]}
    BY <1>1 DEF last
  <2>3. QED
    BY <2>1, <2>2
<1>4. bakRows' \subseteq BakRow /\ OneEach(bakRows')
  BY <1>3, SchedulesFacts DEF OneEach
<1>5. UNCHANGED <<bakUp, bakActive, bakReads, bakJob, bakWork, bakFaults>> /\ BakEdit
  BY DEF PutSchedule
<1>6. QED
  BY <1>4, <1>5, SchedulesFacts, BakCounts, SchedulesStep

LEMMA DeleteScheduleInv ==
  ASSUME BakInv, NEW r \in bakRows, DeleteSchedule(r)
  PROVE  BakInv'
<1>1. bakRows' \subseteq BakRow /\ OneEach(bakRows')
  BY SchedulesFacts DEF DeleteSchedule, OneEach
<1>2. UNCHANGED <<bakUp, bakActive, bakReads, bakJob, bakWork, bakFaults>> /\ BakEdit
  BY DEF DeleteSchedule
<1>3. QED
  BY <1>1, <1>2, SchedulesFacts, BakCounts, SchedulesStep

LEMMA EnabledIs == BakInv => Enabled \subseteq BakTask /\ OneEach(Enabled)
<1> SUFFICES ASSUME BakInv PROVE Enabled \subseteq BakTask /\ OneEach(Enabled)
  OBVIOUS
<1>1. \A r \in bakRows : TaskOf(r) \in BakTask /\ TaskOf(r).id = r.id
  BY SchedulesFacts DEF TaskOf, BakTask, BakRow
<1>2. QED
  BY <1>1, SchedulesFacts DEF Enabled, OneEach

LEMMA ReadSchedulesInv == BakInv /\ ReadSchedules => BakInv'
<1> SUFFICES ASSUME BakInv, ReadSchedules PROVE BakInv'
  OBVIOUS
<1>1. /\ bakReads' = Append(bakReads, Enabled)
      /\ UNCHANGED <<bakUp, bakRows, bakActive, bakJob, bakWork, bakEdits, bakFaults>>
  BY DEF ReadSchedules
<1>2. bakReads' \in Seq(SUBSET BakTask) /\ \A i \in DOMAIN bakReads' : OneEach(bakReads'[i])
  BY <1>1, EnabledIs, SchedulesFacts
<1>3. QED
  BY <1>1, <1>2, SchedulesFacts, SchedulesStep

LEMMA ApplySchedulesInv ==
  ASSUME BakInv, NEW i, ApplySchedules(i)
  PROVE  BakInv'
<1>1. /\ i \in DOMAIN bakReads
      /\ bakActive' = UNION {IF Unchanged(t) # {} THEN Unchanged(t) ELSE {t} : t \in bakReads[i]}
      /\ bakReads' = SubSeq(bakReads, 1, i - 1) \o SubSeq(bakReads, i + 1, Len(bakReads))
      /\ UNCHANGED <<bakUp, bakRows, bakJob, bakWork, bakEdits, bakFaults>>
  BY DEF ApplySchedules, RemoveAt
<1>2. i \in 1..Len(bakReads) /\ bakReads[i] \subseteq BakTask /\ OneEach(bakReads[i])
  BY <1>1, SchedulesFacts
<1>3. \A t \in bakReads[i] : Unchanged(t) \subseteq bakActive /\ \A a \in Unchanged(t) : a.id = t.id
  BY DEF Unchanged
<1>4. bakActive' \subseteq BakTask
  BY <1>1, <1>2, <1>3, SchedulesFacts
<1>5. OneEach(bakActive')
  <2>1. ASSUME NEW a \in bakActive'
        PROVE  \E t \in bakReads[i] : a.id = t.id /\ \/ Unchanged(t) # {} /\ a \in bakActive
                                                     \/ Unchanged(t) = {} /\ a = t
    BY <1>1, <1>3
  <2>2. ASSUME NEW a \in bakActive', NEW b \in bakActive', a.id = b.id PROVE a = b
    <3>1. PICK t \in bakReads[i] : a.id = t.id /\ \/ Unchanged(t) # {} /\ a \in bakActive
                                                  \/ Unchanged(t) = {} /\ a = t
      BY <2>1
    <3>2. PICK u \in bakReads[i] : b.id = u.id /\ \/ Unchanged(u) # {} /\ b \in bakActive
                                                  \/ Unchanged(u) = {} /\ b = u
      BY <2>1
    <3>3. t = u
      BY <1>2, <2>2, <3>1, <3>2 DEF OneEach
    <3>4. QED
      BY <2>2, <3>1, <3>2, <3>3, SchedulesFacts DEF OneEach
  <2>3. QED
    BY <2>2 DEF OneEach
<1>6. bakReads' \in Seq(SUBSET BakTask) /\ \A k \in DOMAIN bakReads' : OneEach(bakReads'[k])
  <2> DEFINE a == SubSeq(bakReads, 1, i - 1)
             b == SubSeq(bakReads, i + 1, Len(bakReads))
  <2>1. /\ a \in Seq(SUBSET BakTask) /\ Len(a) = i - 1
        /\ \A k \in 1..Len(a) : a[k] = bakReads[k]
    BY <1>2, SchedulesFacts
  <2>2. /\ b \in Seq(SUBSET BakTask) /\ Len(b) = Len(bakReads) - i
        /\ \A k \in 1..Len(b) : b[k] = bakReads[i + k]
    BY <1>2, SchedulesFacts
  <2>3. \A k \in 1..Len(a) : OneEach(a[k])
    BY <1>2, <2>1, SchedulesFacts
  <2>4. \A k \in 1..Len(b) : OneEach(b[k])
    BY <1>2, <2>2, SchedulesFacts
  <2>5. bakReads' = a \o b
    BY <1>1
  <2> HIDE DEF a, b
  <2>6. bakReads' \in Seq(SUBSET BakTask) /\ DOMAIN bakReads' = 1..(Len(a) + Len(b))
    BY <2>1, <2>2, <2>5
  <2>7. \A k \in 1..(Len(a) + Len(b)) :
          bakReads'[k] = IF k <= Len(a) THEN a[k] ELSE b[k - Len(a)]
    BY <2>1, <2>2, <2>5
  <2>8. ASSUME NEW k \in DOMAIN bakReads' PROVE OneEach(bakReads'[k])
    <3>1. k \in 1..(Len(a) + Len(b)) /\ Len(a) \in Nat /\ Len(b) \in Nat
      BY <2>1, <2>2, <2>6
    <3>2. CASE k <= Len(a)
      BY <2>3, <2>7, <3>1, <3>2
    <3>3. CASE k > Len(a)
      <4>1. k - Len(a) \in 1..Len(b)
        BY <3>1, <3>3
      <4>2. bakReads'[k] = b[k - Len(a)]
        BY <2>7, <3>1, <3>3
      <4>3. QED
        BY <2>4, <4>1, <4>2
    <3>4. QED
      BY <3>1, <3>2, <3>3
  <2>9. QED
    BY <2>6, <2>8
<1>7. QED
  BY <1>1, <1>4, <1>5, <1>6, SchedulesFacts, SchedulesStep

LEMMA RecordedIs ==
  ASSUME BakInv, NEW id, NEW last \in {"COMPLETED", "FAILED"}, Recorded(id, last)
  PROVE  bakRows' \subseteq BakRow /\ OneEach(bakRows')
<1> DEFINE new(r) == IF r.id = id THEN [r EXCEPT !.last = last] ELSE r
<1>1. \A r \in bakRows : new(r) \in BakRow /\ new(r).id = r.id
  BY SchedulesFacts DEF BakRow
<1>2. bakRows' = {new(r) : r \in bakRows}
  BY DEF Recorded
<1> HIDE DEF new
<1>3. QED
  BY <1>1, <1>2, SchedulesFacts DEF OneEach

LEMMA CronFailsInv ==
  ASSUME BakInv, NEW a \in bakActive, CronFails(a)
  PROVE  BakInv'
<1>1. Recorded(a.id, "FAILED") /\ BakFault
      /\ UNCHANGED <<bakUp, bakActive, bakReads, bakJob, bakWork, bakEdits>>
  BY DEF CronFails
<1>2. bakRows' \subseteq BakRow /\ OneEach(bakRows')
  BY <1>1, RecordedIs
<1>3. QED
  BY <1>1, <1>2, SchedulesFacts, BakCounts, SchedulesStep

-----------------------------------------------------------------------------
(* Jobs.                                                                   *)
(* What steps on jobs leave alone.                                         *)
LEMMA JobsStep ==
  ASSUME BakInv, UNCHANGED <<bakActive, bakReads>>, bakUp' \in BOOLEAN,
         bakRows' \subseteq BakRow, OneEach(bakRows'),
         bakEdits' \in 0..BakMaxEdits, bakFaults' \in 0..BakMaxFaults,
         bakJob' \in [BakJobIds -> BakJob], bakWork' \in [BakJobIds -> BakWork],
         WorkInv', PartsInv'
  PROVE  BakInv'
<1>1. BakTypeOK'
  BY DEF BakInv, BakTypeOK, OneEach
<1>2. SchedulesInv'
  BY DEF BakInv, SchedulesInv
<1>3. QED
  BY <1>1, <1>2 DEF BakInv

LEMMA JobFacts ==
  ASSUME BakInv
  PROVE  /\ bakJob \in [BakJobIds -> BakJob] /\ bakWork \in [BakJobIds -> BakWork]
         /\ bakUp \in BOOLEAN /\ BakJobIds \subseteq Nat
BY BakAssumption DEF BakInv, BakTypeOK, BakJobIds

LEMMA StartJobIs ==
  ASSUME BakInv, NEW does \in BakDoes, StartJob(does)
  PROVE  /\ bakJob' \in [BakJobIds -> BakJob] /\ bakWork' \in [BakJobIds -> BakWork]
         /\ UNCHANGED bakUp => WorkInv' /\ PartsInv'
<1>1. PICK j \in BakJobIds :
        /\ j \in Unused
        /\ bakJob' = [bakJob EXCEPT ![j] = [status |-> "RUNNING", age |-> 0]]
        /\ bakWork' = [bakWork EXCEPT ![j] =
             [at |-> IF does = Full THEN "list" ELSE "users", does |-> does,
              left |-> {does} \ {Full}, parts |-> 0]]
  <2>1. Unused \subseteq Nat /\ Unused \subseteq BakJobIds /\ Unused # {}
    BY JobFacts DEF Unused, StartJob
  <2>2. \E i \in Unused : \A k \in Unused : i <= k
    BY <2>1, SmallestIs
  <2>3. (CHOOSE i \in Unused : \A k \in Unused : i <= k) \in Unused
    BY <2>2
  <2>4. QED
    BY <2>1, <2>3 DEF StartJob
<1>2. PICK job \in BakJob : job = [status |-> "RUNNING", age |-> 0]
  <2>1. [status |-> "RUNNING", age |-> 0] \in BakJob
    BY DEF BakJob
  <2>2. QED
    BY <2>1
<1>3. PICK w \in BakWork :
        w = [at |-> IF does = Full THEN "list" ELSE "users", does |-> does,
             left |-> {does} \ {Full}, parts |-> 0]
  BY BakAssumption DEF BakWork, BakDoes
<1>4. PartOK(w)
  BY <1>3 DEF PartOK
<1>5. /\ bakJob' = [bakJob EXCEPT ![j] = job] /\ job.status = "RUNNING"
      /\ bakWork' = [bakWork EXCEPT ![j] = w] /\ bakUp
  BY <1>1, <1>2, <1>3 DEF StartJob
<1>6. QED
  BY <1>4, <1>5, JobFacts DEF BakInv, WorkInv, PartsInv

LEMMA CronFiresInv ==
  ASSUME BakInv, NEW a \in bakActive, CronFires(a)
  PROVE  BakInv'
<1>1. /\ StartJob(a.does) /\ Recorded(a.id, "COMPLETED")
      /\ UNCHANGED <<bakUp, bakActive, bakReads, bakEdits, bakFaults>>
  BY DEF CronFires
<1>2. a.does \in BakDoes
  BY SchedulesFacts DEF BakTask
<1>3. bakRows' \subseteq BakRow /\ OneEach(bakRows')
  BY <1>1, RecordedIs
<1>4. QED
  BY <1>1, <1>2, <1>3, StartJobIs, SchedulesFacts, JobFacts, JobsStep

LEMMA StartByHandInv == BakInv /\ StartByHand => BakInv'
<1> SUFFICES ASSUME BakInv, StartByHand PROVE BakInv'
  OBVIOUS
<1>1. PICK does \in BakDoes : StartJob(does)
  BY DEF StartByHand
<1>2. UNCHANGED <<bakUp, bakRows, bakActive, bakReads, bakEdits, bakFaults>>
  BY DEF StartByHand
<1>3. QED
  BY <1>1, <1>2, StartJobIs, SchedulesFacts, JobFacts, JobsStep

(* A worker goes a step, and its row may change with it.                   *)
LEMMA BakWorkStep ==
  ASSUME BakInv, NEW j \in BakJobIds, NEW w \in BakWork, BakStep(j, w), PartOK(w),
         bakWork[j].at # "none", bakFaults' \in 0..BakMaxFaults,
         \/ bakJob' = bakJob
         \/ w.at = "none" /\ \E s \in {"COMPLETED", "FAILED"} : SetStatus(j, s)
  PROVE  BakInv'
<1>1. bakWork' = [bakWork EXCEPT ![j] = w]
      /\ UNCHANGED <<bakUp, bakRows, bakActive, bakReads, bakEdits>>
  BY DEF BakStep
<1>2. /\ bakJob' \in [BakJobIds -> BakJob]
      /\ \A i \in BakJobIds : i # j \/ w.at # "none" => bakJob'[i] = bakJob[i]
  <2>1. CASE bakJob' = bakJob
    BY <2>1, JobFacts
  <2>2. CASE w.at = "none" /\ \E s \in {"COMPLETED", "FAILED"} : SetStatus(j, s)
    BY <2>2, JobFacts DEF SetStatus, BakJob
  <2>3. QED
    BY <2>1, <2>2
<1>3. bakWork' \in [BakJobIds -> BakWork] /\ PartsInv'
  BY <1>1, JobFacts DEF BakInv, PartsInv
<1>4. WorkInv'
  BY <1>1, <1>2, JobFacts DEF BakInv, WorkInv
<1>5. QED
  BY <1>1, <1>2, <1>3, <1>4, SchedulesFacts, JobFacts, JobsStep

LEMMA ExportedIs ==
  ASSUME BakInv, NEW w \in BakWork, PartOK(w), w.at = "users", NEW u \in w.left
  PROVE  Exported(w, u, 1) \in BakWork /\ PartOK(Exported(w, u, 1))
<1>1. w.left \in SUBSET BakUsers /\ w.parts \in Nat
  BY DEF BakWork
<1>2. PICK v \in BakWork :
        v = [w EXCEPT !.left = w.left \ {u}, !.parts = w.parts + 1,
                      !.at = IF w.left = {u} THEN "finish" ELSE "users"]
  <2>1. [w EXCEPT !.left = w.left \ {u}, !.parts = w.parts + 1,
                  !.at = IF w.left = {u} THEN "finish" ELSE "users"] \in BakWork
    <3>1. \A left \in SUBSET BakUsers, parts \in Nat, at \in {"finish", "users"} :
            [w EXCEPT !.left = left, !.parts = parts, !.at = at] \in BakWork
      BY DEF BakWork
    <3>2. w.left \ {u} \in SUBSET BakUsers /\ w.parts + 1 \in Nat
      BY <1>1
    <3>3. (IF w.left = {u} THEN "finish" ELSE "users") \in {"finish", "users"}
      OBVIOUS
    <3>4. QED
      BY <3>1, <3>2, <3>3
  <2>2. QED
    BY <2>1
<1>3. /\ v.left = w.left \ {u} /\ v.parts = w.parts + 1 /\ v.does = w.does
      /\ v.at = IF w.left = {u} THEN "finish" ELSE "users"
  BY <1>2 DEF BakWork
<1>4. Cardinality(v.left) = Cardinality(w.left) - 1 /\ Cardinality(w.left) \in Nat
  BY <1>1, <1>3, BakUsersLeft, FS_RemoveElement
<1>5. PartOK(v)
  <2>1. v.at = "finish" => v.left = {}
    BY <1>3
  <2>2. w.does = Full => w.parts + Cardinality(w.left) = Cardinality(BakUsers)
    BY DEF PartOK
  <2>3. v.does = Full => v.parts + Cardinality(v.left) = Cardinality(BakUsers)
    BY <1>1, <1>3, <1>4, <2>2
  <2>4. QED
    BY <1>3, <2>1, <2>3 DEF PartOK
<1>6. QED
  BY <1>2, <1>5 DEF Exported

LEMMA BakWorksInv ==
  ASSUME BakInv, NEW j \in BakJobIds, BakWorks(j)
  PROVE  BakInv'
<1> DEFINE w == bakWork[j]
<1>1. w \in BakWork /\ PartOK(w) /\ bakFaults \in 0..BakMaxFaults
  BY JobFacts, SchedulesFacts DEF BakInv, PartsInv
<1>2. CASE ListUsers(j)
  <2>1. PICK v \in BakWork :
          v = [w EXCEPT !.left = BakUsers, !.at = IF BakUsers = {} THEN "finish" ELSE "users"]
    BY <1>1 DEF BakWork
  <2>2. v.parts = 0 /\ v.left = BakUsers /\ v.at = (IF BakUsers = {} THEN "finish" ELSE "users")
    BY <1>1, <1>2, <2>1 DEF ListUsers, PartOK, BakWork
  <2>3. PartOK(v)
    BY <2>2, BakUsersLeft DEF PartOK
  <2>4. BakStep(j, v) /\ bakJob' = bakJob /\ bakFaults' = bakFaults /\ w.at # "none"
    BY <1>2, <2>1 DEF ListUsers
  <2>5. QED
    BY <1>1, <2>3, <2>4, BakWorkStep
<1>3. ASSUME NEW u \in BakUsers, ExportUser(j, u) \/ ExportFails(j, u) PROVE BakInv'
  <2>1. w.at = "users" /\ u \in w.left /\ bakJob' = bakJob /\ bakFaults' \in 0..BakMaxFaults
    BY <1>1, <1>3, BakCounts DEF ExportUser, ExportFails
  <2>2. CASE BakStep(j, Exported(w, u, 1))
    BY <1>1, <2>1, <2>2, ExportedIs, BakWorkStep
  <2>3. CASE BakStep(j, [w EXCEPT !.at = "fail"])
    <3>1. PICK v \in BakWork : v = [w EXCEPT !.at = "fail"] /\ v.at = "fail"
      <4>1. [w EXCEPT !.at = "fail"] \in BakWork /\ [w EXCEPT !.at = "fail"].at = "fail"
        BY <1>1 DEF BakWork
      <4>2. QED
        BY <4>1
    <3>2. PartOK(v)
      BY <3>1 DEF PartOK
    <3>3. QED
      BY <2>1, <2>3, <3>1, <3>2, BakWorkStep
  <2>4. QED
    BY <1>3, <2>2, <2>3 DEF ExportUser, ExportFails, FailedPart
<1>4. CASE FinishJob(j)
  <2>1. /\ w.at = "finish" /\ SetStatus(j, "COMPLETED") /\ BakStep(j, BakIdle)
        /\ bakFaults' = bakFaults
    BY <1>4 DEF FinishJob
  <2>2. QED
    BY <1>1, <2>1, BakIdleIs, BakWorkStep
<1>5. CASE WorkThrows(j)
  <2>1. PICK v \in BakWork : v = [w EXCEPT !.at = "fail"] /\ v.at = "fail"
    <3>1. [w EXCEPT !.at = "fail"] \in BakWork /\ [w EXCEPT !.at = "fail"].at = "fail"
      BY <1>1 DEF BakWork
    <3>2. QED
      BY <3>1
  <2>2. PartOK(v)
    BY <2>1 DEF PartOK
  <2>3. BakStep(j, v) /\ bakJob' = bakJob /\ BakFault /\ w.at # "none"
    BY <1>5, <2>1 DEF WorkThrows
  <2>4. QED
    BY <2>2, <2>3, BakCounts, BakWorkStep
<1>6. CASE FailJob(j)
  <2>1. /\ w.at = "fail" /\ BakStep(j, BakIdle)
        /\ \/ SetStatus(j, "FAILED") /\ bakFaults' = bakFaults
           \/ BakFault /\ bakJob' = bakJob
    BY <1>6 DEF FailJob
  <2>2. QED
    BY <1>1, <2>1, BakIdleIs, BakCounts, BakWorkStep
<1>7. QED
  BY <1>2, <1>3, <1>4, <1>5, <1>6 DEF BakWorks

(* Rows change beside the workers.                                         *)
LEMMA BakRowsStep ==
  ASSUME BakInv, UNCHANGED <<bakUp, bakRows, bakActive, bakReads, bakWork, bakFaults>>,
         bakEdits' \in 0..BakMaxEdits, bakJob' \in [BakJobIds -> BakJob],
         \A j \in BakJobIds :
           \/ bakJob'[j].status = "deleted" \/ bakJob'[j] = bakJob[j]
           \/ bakJob'[j].status = "RUNNING" /\ bakJob[j].status = "RUNNING"
           \/ bakJob'[j].status = "FAILED" /\ bakJob'[j].age = 2
  PROVE  BakInv'
<1>1. WorkInv'
  BY DEF BakInv, WorkInv
<1>2. PartsInv'
  BY DEF BakInv, PartsInv
<1>3. QED
  BY <1>1, <1>2, SchedulesFacts, JobFacts, JobsStep

LEMMA DeleteJobInv ==
  ASSUME BakInv, NEW j \in BakJobIds, DeleteJob(j)
  PROVE  BakInv'
<1>1. /\ bakJob' = [bakJob EXCEPT ![j].status = "deleted"] /\ BakEdit
      /\ UNCHANGED <<bakUp, bakRows, bakActive, bakReads, bakWork, bakFaults>>
  BY DEF DeleteJob
<1>2. /\ bakJob' \in [BakJobIds -> BakJob]
      /\ \A i \in BakJobIds : bakJob'[i].status = "deleted" \/ bakJob'[i] = bakJob[i]
  BY <1>1, JobFacts DEF BakJob
<1>3. QED
  BY <1>1, <1>2, BakCounts, BakRowsStep

LEMMA BakAgesInv ==
  ASSUME BakInv, NEW j \in BakJobIds, BakAges(j)
  PROVE  BakInv'
<1>1. /\ bakJob' = [bakJob EXCEPT ![j].age = bakJob[j].age + 1]
      /\ bakJob[j].status = "RUNNING" /\ bakJob[j].age < 2
      /\ UNCHANGED <<bakUp, bakRows, bakActive, bakReads, bakWork, bakEdits, bakFaults>>
  BY DEF BakAges
<1>2. bakJob[j].age + 1 \in 0..2
  BY <1>1, JobFacts DEF BakJob
<1>3. /\ bakJob' \in [BakJobIds -> BakJob] /\ bakJob'[j].status = "RUNNING"
      /\ \A i \in BakJobIds : i # j => bakJob'[i] = bakJob[i]
  BY <1>1, <1>2, JobFacts DEF BakJob
<1>4. QED
  BY <1>1, <1>3, SchedulesFacts, BakRowsStep

LEMMA GiveUpIs ==
  ASSUME BakInv, NEW age \in 1..2, GiveUp(age)
  PROVE  /\ bakJob' \in [BakJobIds -> BakJob]
         /\ \A j \in BakJobIds :
              \/ bakJob'[j] = bakJob[j]
              \/ /\ bakJob[j].status = "RUNNING" /\ bakJob[j].age >= age
                 /\ bakJob'[j].status = "FAILED" /\ bakJob'[j].age = bakJob[j].age
<1>1. \A j \in BakJobIds : bakJob[j] \in BakJob
  BY JobFacts
<1>2. \A j \in BakJobIds : [status |-> "FAILED", age |-> bakJob[j].age] \in BakJob
  BY <1>1 DEF BakJob
<1>3. QED
  BY <1>1, <1>2 DEF GiveUp, Stuck

LEMMA WatchdogInv == BakInv /\ Watchdog => BakInv'
<1> SUFFICES ASSUME BakInv, Watchdog PROVE BakInv'
  OBVIOUS
<1>1. GiveUp(2)
      /\ UNCHANGED <<bakUp, bakRows, bakActive, bakReads, bakWork, bakEdits, bakFaults>>
  BY DEF Watchdog
<1>2. bakJob' \in [BakJobIds -> BakJob]
  BY <1>1, GiveUpIs
<1>3. \A j \in BakJobIds :
        \/ bakJob'[j] = bakJob[j]
        \/ bakJob'[j].status = "FAILED" /\ bakJob'[j].age = 2
  <2>1. \A j \in BakJobIds : bakJob[j].age \in 0..2
    BY JobFacts DEF BakJob
  <2>2. QED
    BY <1>1, <2>1, GiveUpIs
<1>4. QED
  BY <1>1, <1>2, <1>3, SchedulesFacts, BakRowsStep

LEMMA BakCrashInv == BakInv /\ BakCrash => BakInv'
<1> SUFFICES ASSUME BakInv, BakCrash PROVE BakInv'
  OBVIOUS
<1>1. /\ bakUp' = FALSE /\ bakActive' = {} /\ bakReads' = <<>> /\ BakFault
      /\ bakWork' = [j \in BakJobIds |-> BakIdle]
      /\ UNCHANGED <<bakRows, bakJob, bakEdits>>
  BY DEF BakCrash
<1>2. BakTypeOK'
  <2>1. bakWork' \in [BakJobIds -> BakWork] /\ bakFaults' \in 0..BakMaxFaults
    BY <1>1, BakIdleIs, BakCounts
  <2>2. bakReads' \in Seq(SUBSET BakTask)
    BY <1>1
  <2>3. QED
    BY <1>1, <2>1, <2>2 DEF BakInv, BakTypeOK
<1>3. SchedulesInv'
  BY <1>1, SchedulesFacts DEF SchedulesInv, OneEach
<1>4. WorkInv' /\ PartsInv'
  BY <1>1, BakIdleIs DEF WorkInv, PartsInv
<1>5. QED
  BY <1>2, <1>3, <1>4 DEF BakInv

LEMMA BakStartInv == BakInv /\ BakStart => BakInv'
<1> SUFFICES ASSUME BakInv, BakStart PROVE BakInv'
  OBVIOUS
<1>1. /\ ~bakUp /\ bakUp' = TRUE /\ GiveUp(1)
      /\ UNCHANGED <<bakRows, bakActive, bakReads, bakWork, bakEdits, bakFaults>>
  BY DEF BakStart
<1>2. bakJob' \in [BakJobIds -> BakJob]
  BY <1>1, GiveUpIs
<1>3. WorkInv' /\ PartsInv'
  BY <1>1 DEF BakInv, WorkInv, PartsInv
<1>4. QED
  BY <1>1, <1>2, <1>3, SchedulesFacts, JobFacts, JobsStep

LEMMA BakNextInv == BakInv /\ [BakNext]_bakVars => BakInv'
<1> SUFFICES ASSUME BakInv, [BakNext]_bakVars PROVE BakInv'
  OBVIOUS
<1>1. CASE \E r \in bakRows : DeleteSchedule(r)
  BY <1>1, DeleteScheduleInv
<1>2. CASE \E i \in 1..2 : ApplySchedules(i)
  BY <1>2, ApplySchedulesInv
<1>3. CASE \E a \in bakActive : CronFires(a) \/ CronFails(a)
  BY <1>3, CronFiresInv, CronFailsInv
<1>4. CASE \E j \in BakJobIds : BakWorks(j) \/ DeleteJob(j) \/ BakAges(j)
  BY <1>4, BakWorksInv, DeleteJobInv, BakAgesInv
<1>5. CASE UNCHANGED bakVars
  BY <1>5, SchedulesFacts, SchedulesStep DEF bakVars
<1>6. QED
  BY <1>1, <1>2, <1>3, <1>4, <1>5, PutScheduleInv, ReadSchedulesInv, StartByHandInv,
     WatchdogInv, BakCrashInv, BakStartInv DEF BakNext

(* The invariant holds always: workers belong to a process that runs and   *)
(* to rows that have not ended without them, and what a full backup has    *)
(* left makes up, with its parts, the users.                               *)
THEOREM BakInvariant == BakSpec => []BakInv
BY BakInitInv, BakNextInv, PTL DEF BakSpec

(* Schedules, cron jobs, readings of them, job rows and workers have their *)
(* types, and no schedule has two cron jobs.                               *)
THEOREM BakTypes == BakSpec => []BakTypeOK
<1>1. BakInv => BakTypeOK
  BY DEF BakInv
<1>2. QED
  BY <1>1, BakInvariant, PTL

(* A full backup that comes to its end has a row for every user, for any   *)
(* number of users, faults and jobs beside each other.                     *)
THEOREM BakFullIsAccounted == BakSpec => []FullIsAccounted
<1>1. BakInv => FullIsAccounted
  <2> SUFFICES ASSUME BakInv, NEW j \in BakJobIds,
                      bakWork[j].at = "finish", bakWork[j].does = Full
               PROVE  bakWork[j].parts = Cardinality(BakUsers)
    BY DEF FullIsAccounted
  <2>1. bakWork[j].parts \in Nat /\ bakWork[j].left = {}
    BY JobFacts DEF BakInv, PartsInv, PartOK, BakWork
  <2>2. Cardinality(bakWork[j].left) = 0
    BY <2>1, FS_EmptySet
  <2>3. bakWork[j].parts + Cardinality(bakWork[j].left) = Cardinality(BakUsers)
    BY DEF BakInv, PartsInv, PartOK
  <2>4. QED
    BY <2>1, <2>2, <2>3
<1>2. QED
  BY <1>1, BakInvariant, PTL

(* A job's outcome stays: what completed is never turned into a failure by *)
(* the worker, the watchdog or a start, and what failed completes only     *)
(* when it was given up while its worker went on.                          *)
THEOREM BakOutcomeStays == BakSpec => OutcomeStays
<1> DEFINE Keeps(j) ==
      /\ bakJob[j].status = "COMPLETED" => bakJob'[j].status \in {"COMPLETED", "deleted"}
      /\ bakJob[j].status = "FAILED" /\ bakJob'[j].status = "COMPLETED" =>
           bakJob[j].age = 2 /\ bakWork[j].at = "finish"
<1>1. ASSUME BakInv, [BakNext]_bakVars PROVE \A j \in BakJobIds : Keeps(j)
  <2> TAKE j \in BakJobIds
  <2>1. CASE bakJob' = bakJob
    BY <2>1
  <2>2. ASSUME NEW does, StartJob(does) PROVE Keeps(j)
    <3>1. Unused \subseteq Nat /\ Unused # {}
      BY <1>1, <2>2, JobFacts DEF Unused, StartJob
    <3>2. PICK i \in Unused :
            bakJob' = [bakJob EXCEPT ![i] = [status |-> "RUNNING", age |-> 0]]
      <4>1. \E i \in Unused : \A k \in Unused : i <= k
        BY <3>1, SmallestIs
      <4>2. (CHOOSE i \in Unused : \A k \in Unused : i <= k) \in Unused
        BY <4>1
      <4>3. QED
        BY <2>2, <4>2 DEF StartJob
    <3>3. bakJob[i].status = "none"
      BY <3>2 DEF Unused
    <3>4. QED
      BY <1>1, <3>2, <3>3, JobFacts
  <2>3. ASSUME NEW i \in BakJobIds, BakWorks(i) PROVE Keeps(j)
    <3>1. CASE bakJob' = bakJob
      BY <3>1
    <3>2. CASE FinishJob(i)
      BY <1>1, <3>2, JobFacts DEF FinishJob, SetStatus, BakInv, WorkInv
    <3>3. CASE FailJob(i)
      BY <1>1, <3>3, JobFacts DEF FailJob, SetStatus, BakInv, WorkInv
    <3>4. QED
      BY <2>3, <3>1, <3>2, <3>3 DEF BakWorks, ListUsers, WorkThrows, ExportUser, ExportFails
  <2>4. ASSUME NEW i \in BakJobIds, DeleteJob(i) \/ BakAges(i) PROVE Keeps(j)
    <3>1. bakJob'[j].status \in {"deleted", bakJob[j].status}
      BY <1>1, <2>4, JobFacts DEF DeleteJob, BakAges, BakJob
    <3>2. QED
      BY <3>1
  <2>5. ASSUME NEW age \in 1..2, GiveUp(age) PROVE Keeps(j)
    BY <1>1, <2>5, GiveUpIs
  <2>6. QED
    BY <1>1, <2>1, <2>2, <2>3, <2>4, <2>5
    DEF BakNext, PutSchedule, DeleteSchedule, ReadSchedules, ApplySchedules, CronFires, CronFails,
        StartByHand, Watchdog, BakCrash, BakStart, bakVars
<1>2. QED
  BY <1>1, BakInvariant, PTL DEF BakSpec, OutcomeStays
================================================================================
