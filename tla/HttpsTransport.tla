--------------------------- MODULE HttpsTransport ---------------------------
(***************************************************************************)
(* What HttpsTransport adds to HttpTransport: the SSL configuration.        *)
(* setSslConfig assigns m_sslConfig field by field without a lock, then     *)
(* configureSsl reads it under m_clientMutex, again field by field, and     *)
(* puts a context built from what it read into force.                       *)
(***************************************************************************)
EXTENDS HttpTransport

OthersCopy(t) == \E u \in Threads \ {t} : pc[u] = "assigning"
Rest == <<kind, client, m_connected, m_timeout, last>>

SetSslConfig(t, config) ==
  /\ kind = "https" /\ pc[t] = "idle" /\ Counted
  /\ m_sslConfig' = [m_sslConfig EXCEPT !.verifyPeer = config.verifyPeer]
  /\ Goes(t, "assigning") /\ With(t, config)
  /\ UNCHANGED <<Rest, context, unapplied, mutex>>

\* A string that two threads assign at once may be left with anything in it,
\* and an assignment to such a string may not mend it.
VersionsLeft(t) ==
  {arg[t].sslVersion}
  \cup (IF OthersCopy(t) \/ m_sslConfig.sslVersion = "garbage" THEN {"garbage"} ELSE {})

AssignRest(t) ==
  /\ pc[t] = "assigning"
  /\ \E version \in VersionsLeft(t) :
       m_sslConfig' = [m_sslConfig EXCEPT !.sslVersion = version]
  /\ Goes(t, "assigned") /\ With(t, Idle)
  /\ UNCHANGED <<Rest, context, unapplied, mutex, calls>>

\* configureSsl without a client returns at once.
ConfigureNothing(t) ==
  /\ pc[t] = "assigned" /\ mutex = {} /\ ~client
  /\ Goes(t, "idle")
  /\ UNCHANGED <<Rest, tls, mutex, arg, calls>>

\* Mutant: configureSsl runs without the mutex.
ConfigureBeginUnlocked(t) ==
  /\ pc[t] = "assigned" /\ client
  /\ Goes(t, "configuring")
  /\ With(t, [at |-> "configure", verifyPeer |-> m_sslConfig.verifyPeer])
  /\ UNCHANGED <<Rest, tls, mutex, calls>>
ConfigureBegin(t) ==
  /\ pc[t] = "assigned" /\ mutex = {} /\ client
  /\ mutex' = {t} /\ Goes(t, "configuring")
  /\ With(t, [at |-> "configure", verifyPeer |-> m_sslConfig.verifyPeer])
  /\ UNCHANGED <<Rest, tls, calls>>

\* A string read while another thread assigns it may hold anything.
VersionsRead(t) == {m_sslConfig.sslVersion} \cup (IF OthersCopy(t) THEN {"garbage"} ELSE {})

ConfigureApply(t) ==
  /\ pc[t] = "configuring"
  /\ \E version \in VersionsRead(t) :
       LET read == Options([verifyPeer |-> arg[t].verifyPeer, sslVersion |-> version])
       IN \E a \in Attempts(read, context) : context' = a[1] /\ unapplied' = a[2]
  /\ mutex' = mutex \ {t} /\ Goes(t, "idle") /\ With(t, Idle)
  /\ UNCHANGED <<Rest, m_sslConfig, calls>>

-----------------------------------------------------------------------------
(* The calls HttpsTransport overrides with code that does what HttpTransport's *)
(* does, for the schemes of Schemes. *)

HttpsRequest(t) ==
  kind = "https" /\ \E r \in Requests : RejectRequest(t, r) \/ BeginRequest(t, r)
HttpsAnswer(t) == kind = "https" /\ FinishRequest(t)
HttpsDisconnect(t) == kind = "https" /\ Disconnect(t)
HttpsSetTimeout(t) == kind = "https" /\ \E ms \in Defaults : SetTimeout(t, ms)

Next ==
  \E t \in Threads :
    \/ kind = "http" /\ HttpNext(t)
    \/ HttpsRequest(t) \/ HttpsAnswer(t) \/ HttpsDisconnect(t) \/ HttpsSetTimeout(t)
    \/ \E config \in Configs : SetSslConfig(t, config)
    \/ AssignRest(t) \/ ConfigureNothing(t) \/ ConfigureBegin(t) \/ ConfigureApply(t)

Spec == Init /\ [][Next]_vars

-----------------------------------------------------------------------------
(* Properties *)

\* However setSslConfig calls of several threads overlap, once the last has
\* returned the context in force is the one m_sslConfig (and getSslConfig)
\* describes, unless the library refused to build it.
SettledTls ==
  kind = "https" /\ client /\ ~unapplied /\ (\A t \in Threads : pc[t] \in {"idle", "sending"})
    => context = Options(m_sslConfig)
=============================================================================
