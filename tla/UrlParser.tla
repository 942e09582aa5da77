------------------------------ MODULE UrlParser ------------------------------
(***************************************************************************)
(* parseUrl of the four client transports.  A URL is a sequence of tokens: *)
(* ":", "/" and " " are the characters the parsers look for, every other   *)
(* token is a word without any of them.                                    *)
(***************************************************************************)
EXTENDS Naturals, Sequences

CONSTANTS
  Numeral,  \* the words std::stoi reads as a number, mapped to their value
  LowerCase \* what boost::to_lower makes of the words it changes

Lower(words) ==
  [i \in DOMAIN words |-> IF words[i] \in DOMAIN LowerCase THEN LowerCase[words[i]] ELSE words[i]]

First(S) == CHOOSE i \in S : \A j \in S : i <= j
Last(S) == CHOOSE i \in S : \A j \in S : j <= i

\* boost::trim.
Trim(s) ==
  LET ink == {i \in DOMAIN s : s[i] # " "}
  IN IF ink = {} THEN <<>> ELSE SubSeq(s, First(ink), Last(ink))

\* find(c, from): its first place, or one past the end for npos.
Find(s, c, from) == First({i \in from .. Len(s) : s[i] = c} \cup {Len(s) + 1})

\* std::stoi skips blanks and ignores what follows the number; no number, no
\* value: it throws, and parseUrl returns false.
Stoi(text) ==
  LET t == Trim(text)
  IN IF t # <<>> /\ t[1] \in DOMAIN Numeral THEN {Numeral[t[1]]} ELSE {}

\* Where "://" stands.
SchemeMarks(s) == {i \in 1 .. Len(s) - 2 : SubSeq(s, i, i + 2) = <<":", "/", "/">>}

\* Mutant: any ':' starts a port, one in the path too.
HostEndAnyColon(colon, slash) == colon
\* The ':' of a port stands before the path.
HostEnd(colon, slash) == IF colon < slash THEN colon ELSE slash

\* {} stands for the return of false.
ParseUrl(url, default, tlsSchemes) ==
  LET s      == Trim(url)
      marks  == SchemeMarks(s)
      start  == IF marks = {} THEN 1 ELSE First(marks) + 3
      scheme == IF marks = {} THEN <<default>> ELSE Lower(SubSeq(s, 1, start - 4))
      slash  == Find(s, "/", start)
      colon  == Find(s, ":", start)
      end    == HostEnd(colon, slash)
      host   == Trim(SubSeq(s, start, end - 1))
      ports  == IF end = slash THEN {0} ELSE Stoi(SubSeq(s, end + 1, slash - 1))
      path   == IF slash > Len(s) THEN <<"/">> ELSE SubSeq(s, slash, Len(s))
      standard == IF scheme \in tlsSchemes THEN 443 ELSE 80
  IN IF host = <<>> THEN {}
     ELSE {[scheme |-> scheme, host |-> host, path |-> path,
            port |-> IF p = 0 THEN standard ELSE p] : p \in ports}

HttpUrl(url) == ParseUrl(url, "http", {<<"https">>})
HttpsUrl(url) == ParseUrl(url, "https", {<<"https">>})
WebSocketUrl(url) == ParseUrl(url, "ws", {<<"wss">>, <<"https">>})
TcpUrl(url) == {[host |-> u.host, port |-> u.port] : u \in ParseUrl(url, "tcp", {})}

-----------------------------------------------------------------------------
(* The reference: a URL written down from its parts. *)

NoScheme == <<>>
NoPort == <<>>

Render(p) ==
  (IF p.scheme = NoScheme THEN <<>> ELSE p.scheme \o <<":", "/", "/">>)
  \o p.host
  \o (IF p.port = NoPort THEN <<>> ELSE <<":">> \o p.port)
  \o p.path

\* Parts that can be told apart: no ':' in a scheme, no ':' or '/' in a host
\* or port, a path that begins with '/'; no blanks that boost::trim would take
\* from the scheme or the path.
WellFormed(p) ==
  /\ {p.scheme, p.host, p.port, p.path} \subseteq Seq(STRING)
  /\ \A i \in DOMAIN p.scheme : p.scheme[i] \notin {":", " "}
  /\ \A i \in DOMAIN p.host : p.host[i] \notin {":", "/"}
  /\ \A i \in DOMAIN p.port : p.port[i] \notin {":", "/"}
  /\ p.path # <<>> => p.path[1] = "/" /\ p.path[Len(p.path)] # " "

\* A URL without a scheme whose path holds another URL: the parsers take all
\* that stands before the "://" of the inner one for the scheme.
InnerUrl(p) == p.scheme = NoScheme /\ SchemeMarks(p.path) # {}

\* What the parts mean, for a parser with this default scheme.
Meaning(p, default, tlsSchemes) ==
  LET scheme   == IF p.scheme = NoScheme THEN <<default>> ELSE Lower(p.scheme)
      standard == IF scheme \in tlsSchemes THEN 443 ELSE 80
      ports    == IF p.port = NoPort THEN {0} ELSE Stoi(p.port)
  IN IF Trim(p.host) = <<>> THEN {}
     ELSE {[scheme |-> scheme, host |-> Trim(p.host),
            path |-> IF p.path = <<>> THEN <<"/">> ELSE p.path,
            port |-> IF n = 0 THEN standard ELSE n] : n \in ports}

\* All four parsers read a URL the way it was written, each with the default
\* scheme and the TLS schemes of its class.
ParsedAsWritten(p) ==
  ~InnerUrl(p) =>
    LET url == Render(p)
        https == {<<"https">>}
        wss == {<<"wss">>, <<"https">>}
    IN /\ HttpUrl(url) = Meaning(p, "http", https)
       /\ HttpsUrl(url) = Meaning(p, "https", https)
       /\ WebSocketUrl(url) = Meaning(p, "ws", wss)
       /\ TcpUrl(url) = {[host |-> u.host, port |-> u.port] : u \in Meaning(p, "tcp", {})}
=============================================================================
