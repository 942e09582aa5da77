---------------------------- MODULE HttpTransport ----------------------------
(***************************************************************************)
(* The synchronous client transports HttpTransport and HttpsTransport, made *)
(* by TransportFactory and shared by several threads.  A request runs, from *)
(* its checks to its answer, under m_clientMutex; m_sslConfig is written    *)
(* without it.  Methods, headers and bodies are left out: they are passed   *)
(* on and decide nothing.                                                   *)
(***************************************************************************)
EXTENDS UrlParser, Integers

CONSTANTS
  Threads,     \* the threads that share the transport
  Types,       \* the names given to TransportFactory::create
  Requests,    \* [url : its parts, timeout : milliseconds, -1 if not given]
  Defaults,    \* the arguments of setTimeout
  Configs,     \* the SslConfigs, [verifyPeer, sslVersion]
  MaxCalls     \* bound: calls that change the state

ASSUME HttpConstants ==
  /\ Defaults \subseteq Int /\ MaxCalls \in Nat
  /\ \A r \in Requests : r.timeout \in Int
  /\ \A c \in Configs : c.verifyPeer \in BOOLEAN

\* The URLs of requests are written down from parts that can be told apart.
ASSUME HttpRequests == \A r \in Requests : WellFormed(r.url)

VARIABLES
  kind,        \* the class of the transport
  client,      \* m_client is not null
  m_connected,
  m_timeout,
  m_sslConfig,
  context,     \* external: the SSL context the HttpClient uses
  mutex,       \* the owner of m_clientMutex, {} or one thread
  pc,          \* where each thread is
  arg,         \* what each thread is working with
  last,        \* the request handed to the HttpClient or answered last
  unapplied,   \* the last configureSsl could not put its options into force
  calls

vars == <<kind, client, m_connected, m_timeout, m_sslConfig, context, mutex,
          pc, arg, last, unapplied, calls>>
tls == <<m_sslConfig, context, unapplied>>

Idle == [at |-> "idle"]
DefaultConfig == [verifyPeer |-> TRUE, sslVersion |-> "TLS1.2"]

TransportOf(type) ==
  CASE Lower(<<type>>)[1] = "http" -> "http" [] Lower(<<type>>)[1] = "https" -> "https"

\* configureSsl turns the configured version into one OpenSSL knows; an
\* unknown one leaves the library's default.
Versions == {"TLS1.0", "TLS1.1", "TLS1.2", "TLS1.3"}
Options(config) ==
  [verify  |-> config.verifyPeer,
   version |-> IF config.sslVersion \in Versions THEN config.sslVersion ELSE "default"]

\* What configureSsl leaves in force, and whether that is not what it read:
\* hssl_ctx_new makes a context and setSslCtx takes it; when the first fails
\* newSslCtx is tried, which sets no version; when that or setSslCtx fails the
\* old context stays and only the log tells.
Attempts(read, inForce) ==
  {<<read, FALSE>>, <<[read EXCEPT !.version = "default"], TRUE>>, <<inForce, TRUE>>}

NoContext == [verify |-> FALSE, version |-> "none"]

\* A new HttpsTransport runs configureSsl.
HttpsCreated == Attempts(Options(DefaultConfig), NoContext)

Init ==
  /\ kind \in {TransportOf(type) : type \in Types}
  /\ client = TRUE /\ m_connected = FALSE /\ m_timeout = 30000
  /\ m_sslConfig = DefaultConfig
  /\ \E a \in IF kind = "https" THEN HttpsCreated ELSE {<<NoContext, FALSE>>} :
       context = a[1] /\ unapplied = a[2]
  /\ mutex = {}
  /\ pc = [t \in Threads |-> "idle"] /\ arg = [t \in Threads |-> Idle]
  /\ last = Idle /\ calls = 0

Counted == calls < MaxCalls /\ calls' = calls + 1
Goes(t, place) == pc' = [pc EXCEPT ![t] = place]
With(t, value) == arg' = [arg EXCEPT ![t] = value]

-----------------------------------------------------------------------------
(* sendRequest *)

Parsed(url) == IF kind = "https" THEN HttpsUrl(url) ELSE HttpUrl(url)
Schemes == IF kind = "https" THEN {<<"http">>, <<"https">>} ELSE {<<"http">>}
Acceptable(url) == \E u \in Parsed(url) : u.scheme \in Schemes

\* Mutant: std::min is dropped and the cast wraps.
SecondsUnclipped(ms) == (ms \div 1000) % 65536
\* Milliseconds become whole seconds in a uint16_t; C++ divides toward zero.
Seconds(ms) ==
  LET s == IF ms >= 0 THEN ms \div 1000 ELSE -((-ms) \div 1000)
  IN (IF s < 65535 THEN s ELSE 65535) % 65536

EffectiveTimeout(r) == IF r.timeout >= 0 THEN r.timeout ELSE m_timeout

Answered(r, how) == last' = [at |-> "answered", request |-> r, outcome |-> how]

\* No client, a URL that does not parse or a foreign scheme: -1 at once.
RejectRequest(t, r) ==
  /\ pc[t] = "idle" /\ mutex = {} /\ Counted
  /\ ~client \/ ~Acceptable(Render(r.url))
  /\ Answered(r, IF client THEN "refused" ELSE "closed")
  /\ UNCHANGED <<kind, client, m_connected, m_timeout, tls, mutex, pc, arg>>

BeginRequest(t, r) ==
  /\ pc[t] = "idle" /\ mutex = {} /\ Counted
  /\ client /\ Acceptable(Render(r.url))
  /\ mutex' = {t} /\ Goes(t, "sending") /\ With(t, r)
  /\ last' = [at |-> "sent", request |-> r, asked |-> EffectiveTimeout(r),
              timeout |-> Seconds(EffectiveTimeout(r))]
  /\ UNCHANGED <<kind, client, m_connected, m_timeout, tls>>

\* The client answers, fails or throws.
FinishRequest(t) ==
  /\ pc[t] = "sending"
  /\ \E ok \in BOOLEAN :
       /\ m_connected' = ok
       /\ Answered(arg[t], IF ok THEN "ok" ELSE "failed")
  /\ mutex' = {} /\ Goes(t, "idle") /\ With(t, Idle)
  /\ UNCHANGED <<kind, client, m_timeout, tls, calls>>

-----------------------------------------------------------------------------
(* The other calls *)

\* receiveResponse and isConnected read m_connected without the mutex.
ReceiveResponse == m_connected
IsConnected == m_connected /\ client

\* disconnect() waits for the mutex; nothing makes a new client afterwards.
\* Mutant: disconnect() does not take the mutex.
CanLockAlways(t) == TRUE
CanLock(t) == mutex = {}
Disconnect(t) ==
  /\ pc[t] = "idle" /\ CanLock(t) /\ Counted
  /\ client' = FALSE /\ m_connected' = FALSE /\ context' = NoContext
  /\ UNCHANGED <<kind, m_timeout, m_sslConfig, unapplied, mutex, pc, arg, last>>

SetTimeout(t, ms) ==
  /\ pc[t] = "idle" /\ mutex = {} /\ Counted
  /\ m_timeout' = ms
  /\ UNCHANGED <<kind, client, m_connected, tls, mutex, pc, arg, last>>

HttpNext(t) ==
  \/ \E r \in Requests : RejectRequest(t, r) \/ BeginRequest(t, r)
  \/ FinishRequest(t)
  \/ Disconnect(t)
  \/ \E ms \in Defaults : SetTimeout(t, ms)

-----------------------------------------------------------------------------
(* Properties *)

\* The timeout the HttpClient is given stands for the one that was asked for.
TimeoutArrives ==
  last.at = "sent" /\ last.asked >= 1000 =>
    last.timeout >= 1 /\ last.timeout * 1000 <= last.asked

\* The scheme that each class gives a URL without one.
OwnScheme == IF kind = "https" THEN "https" ELSE "http"

\* A request is judged by what it says.  parseUrl reads URLs the way they are
\* written, with the default scheme of the class, so that a request refused
\* without reaching the network named a URL that means nothing or a scheme the
\* class does not speak (a URL without a scheme that holds another URL is the
\* exception); and a timeout of a second or more arrives as at least one second
\* and not as more than was asked for, whatever its size.
RequestFaithful ==
  /\ last.at # "idle" => ParsedAsWritten(last.request.url)
  /\ last.at = "answered" /\ last.outcome = "refused" /\ ~InnerUrl(last.request.url) =>
       ~\E u \in Meaning(last.request.url, OwnScheme, {<<"https">>}) : u.scheme \in Schemes
  /\ TimeoutArrives

\* Once disconnect() has returned the transport is dead: no later or running
\* call sends a request or makes receiveResponse or isConnected report success.
DisconnectIsFinal ==
  [][~client => ~client' /\ last'.at # "sent" /\ ~ReceiveResponse' /\ ~IsConnected']_vars
=============================================================================
