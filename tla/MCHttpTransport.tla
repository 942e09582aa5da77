--------------------------- MODULE MCHttpTransport ---------------------------
EXTENDS HttpsTransport

MCNumeral == [w \in {"8080", "0"} |-> IF w = "0" THEN 0 ELSE 8080]
MCLowerCase == [w \in {"HTTP", "HTTPS", "Https"} |-> IF w = "HTTP" THEN "http" ELSE "https"]

\* With and without each part; ports that are empty, no number, zero or
\* followed by garbage; paths that hold ':' or another URL.
MCParts ==
  [scheme : {<<>>, <<"http">>, <<"HTTPS">>, <<"ftp">>},
   host   : {<<" ">>, <<" ", "h">>},
   port   : {<<>>, <<" ">>, <<"8080">>, <<"0", "x">>, <<"x">>},
   path   : {<<>>, <<"/", "p", ":", "8080">>, <<"/", "p", ":", "/", "/", "h">>}]

\* Every URL with the default timeout, one URL with every kind of timeout.
MCRequests ==
  [url : MCParts, timeout : {-1}]
  \cup [url : {[scheme |-> <<"http">>, host |-> <<"h">>, port |-> <<>>, path |-> <<>>]},
        timeout : {0, 999, 1999, 65536000}]

MCDefaults == {-2000, 30000}

MCConfigs ==
  [verifyPeer : BOOLEAN, sslVersion : {"TLS1.2", "TLS1.3"}]
=============================================================================
