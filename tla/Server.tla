-------------------------------- MODULE Server --------------------------------
(***************************************************************************)
(* The life of the emulator process: start() brings up HTTP, then TLS with *)
(* a certificate it finds or makes, then mDNS; requests are handled, some  *)
(* awaiting a fetch; every SIGINT calls stop(), which takes all of it down *)
(* again and then exits; and the process may die at any time, openssl      *)
(* included, leaving behind what is on the disk (ipp-printer.ts, index.ts, *)
(* http-server.ts, https-server.ts, mdns.ts, tls-cert.ts).                 *)
(*                                                                         *)
(* A step is what runs between two awaits.  Node's server.close() stops    *)
(* listening, drops the connections idle after an answer at once, and      *)
(* calls back when the last connection has ended.  A connection on which   *)
(* nothing has been asked yet is none of the idle ones: Node counts it as  *)
(* active until its first request is complete, and arms no timer that      *)
(* outlasts close() before it has answered.                                *)
(***************************************************************************)
EXTENDS Fetch

CONSTANTS
  Clients,  \* the connections, those of the Fetchers among them
  Stops     \* the calls of stop(), one per SIGINT

ASSUME ServerAssumption == Fetchers \subseteq Clients

VARIABLES
  main,        \* where start() is
  config,      \* the options tls and advertise
  cert,        \* the PEM files in certDir
  http, https, \* the two servers
  ippsUri,     \* IppPrinter.ippsUri is set
  advertised,  \* the services published over mDNS
  conn,        \* the connection of each client
  stops,       \* where each call of stop() is
  waits        \* whether it waits for the close() that it awaits

process == <<main, config, cert>>
servers == <<http, https, ippsUri, advertised>>
vars == <<process, servers, conn, stops, waits, fetch>>

NotConnected == [server |-> "none", state |-> "none"]

\* "fresh": nothing was asked yet; "idle": all that was asked is answered;
\* "gone": the client has left, its request is still being handled.
Connection == {NotConnected} \cup
  [server : {"http", "https"}, state : {"fresh", "idle", "receiving", "fetching", "gone"}]

Open(c, server) == conn[c].server = server /\ conn[c].state # "gone"
Stopping == \E s \in Stops : stops[s] # "none"

TypeOK ==
  /\ FetchTypeOK
  /\ main \in {"off", "binding", "certifying", "securing", "up"}
  /\ config \in [tls : BOOLEAN, advertise : BOOLEAN]
  /\ cert \in {"none", "keyOnly", "damaged", "pair"}
  /\ http \in {"off", "listening", "closing"}
  /\ https \in {"off", "listening", "closing"}
  /\ ippsUri \in BOOLEAN
  /\ advertised \in SUBSET {"ipp", "ipps"}
  /\ conn \in [Clients -> Connection]
  /\ stops \in [Stops -> {"none", "mdns", "https", "http", "done"}]
  /\ waits \in [Stops -> BOOLEAN]
  /\ Stopping => main = "up"

NoOptions == [tls |-> FALSE, advertise |-> FALSE]

Init ==
  /\ main = "off" /\ config = NoOptions /\ cert \in {"none", "pair"}
  /\ http = "off" /\ https = "off" /\ ippsUri = FALSE /\ advertised = {}
  /\ conn = [c \in Clients |-> NotConnected]
  /\ fetch = [c \in Fetchers |-> NoFetch]
  /\ stops = [s \in Stops |-> "none"] /\ waits = [s \in Stops |-> FALSE]

\* The end of the process: everything but the disk is gone.
Gone ==
  /\ main' = "off" /\ config' = NoOptions
  /\ http' = "off" /\ https' = "off" /\ ippsUri' = FALSE /\ advertised' = {}
  /\ conn' = [c \in Clients |-> NotConnected]
  /\ fetch' = [c \in Fetchers |-> NoFetch]
  /\ stops' = [s \in Stops |-> "none"] /\ waits' = [s \in Stops |-> FALSE]

(***************************************************************************)
(* start().                                                                *)
(***************************************************************************)
Boot ==
  /\ main = "off"
  /\ main' = "binding"
  /\ config' \in [tls : BOOLEAN, advertise : BOOLEAN]
  /\ UNCHANGED <<cert, servers, conn, stops, waits, fetch>>

\* The end of start(): mDNS publishes what is served.
Advertise(uri) ==
  /\ main' = "up"
  /\ advertised' = IF config.advertise THEN {"ipp"} \cup (IF uri THEN {"ipps"} ELSE {})
                   ELSE {}

\* A port in use rejects start(), and the process exits.
BindHttp ==
  /\ main = "binding"
  /\ http' = "listening"
  /\ IF config.tls THEN main' = "certifying" /\ UNCHANGED advertised
     ELSE Advertise(FALSE)
  /\ UNCHANGED <<config, cert, https, ippsUri, conn, stops, waits, fetch>>

PortInUse == main = "binding" /\ Gone /\ UNCHANGED cert

\* ensureSelfSignedCert: a pair of files is reused as it is; otherwise openssl
\* writes the key, then the certificate, unless it is missing or fails.
EnsureCert(found) ==
  \/ cert \in {"pair", "damaged"} /\ found /\ UNCHANGED cert
  \/ cert \in {"none", "keyOnly"} /\ found /\ cert' = "pair"
  \/ cert \in {"none", "keyOnly"} /\ ~ found /\ cert' \in {cert, "keyOnly", "damaged"}

\* A certificate that TLS does not accept is caught like a missing one.
StartTls ==
  /\ main = "certifying"
  /\ \E found \in BOOLEAN :
       /\ EnsureCert(found)
       /\ IF found /\ cert' = "pair" THEN main' = "securing" /\ UNCHANGED advertised
          ELSE Advertise(FALSE)
  /\ UNCHANGED <<config, http, https, ippsUri, conn, stops, waits, fetch>>

\* Fault: the URI is set before it is known whether the port is free.
FaultyBindHttps(free) ==
  /\ main = "securing"
  /\ https' = IF free THEN "listening" ELSE "off"
  /\ ippsUri' = TRUE
  /\ Advertise(free)
  /\ UNCHANGED <<config, cert, http, conn, stops, waits, fetch>>

BindHttps(free) ==
  /\ main = "securing"
  /\ https' = IF free THEN "listening" ELSE "off"
  /\ ippsUri' = free
  /\ Advertise(free)
  /\ UNCHANGED <<config, cert, http, conn, stops, waits, fetch>>

(***************************************************************************)
(* Connections.                                                            *)
(***************************************************************************)
Serving == main \in {"securing", "up"}

SetState(c, state) == conn' = [conn EXCEPT ![c].state = state]

Connect(c) ==
  /\ Serving
  /\ conn[c] = NotConnected
  /\ \/ http = "listening" /\ conn' = [conn EXCEPT ![c] = [server |-> "http", state |-> "fresh"]]
     \/ https = "listening" /\ conn' = [conn EXCEPT ![c] = [server |-> "https", state |-> "fresh"]]
  /\ UNCHANGED <<process, servers, stops, waits, fetch>>

SendRequest(c) ==
  /\ conn[c].state \in {"fresh", "idle"}
  /\ SetState(c, "receiving")
  /\ UNCHANGED <<process, servers, stops, waits, fetch>>

\* The body is complete: most handlers answer at once, Print-URI and Send-URI
\* await their document.
HandleRequest(c) ==
  /\ conn[c].state = "receiving"
  /\ \/ SetState(c, "idle") /\ UNCHANGED fetch
     \/ c \in Fetchers /\ SetState(c, "fetching") /\ FetchLocalDocument(c)
  /\ UNCHANGED <<process, servers, stops, waits>>

DuringFetch(c) ==
  /\ SocketEvent(c)
  /\ UNCHANGED <<process, servers, conn, stops, waits>>

HandleRequestAsync(c) ==
  /\ Settled(c)
  /\ \/ conn[c].state = "fetching" /\ SetState(c, "idle")
     \/ conn[c].state = "gone" /\ conn' = [conn EXCEPT ![c] = NotConnected]
  /\ UNCHANGED <<process, servers, stops, waits, fetch>>

\* The client goes, or Node ends its connection: after an answer it may be
\* idle for keepAliveTimeout only.
Disconnect(c) ==
  /\ conn[c].state \in {"fresh", "idle", "receiving", "fetching"}
  /\ IF conn[c].state = "fetching" THEN SetState(c, "gone")
     ELSE conn' = [conn EXCEPT ![c] = NotConnected]
  /\ UNCHANGED <<process, servers, stops, waits, fetch>>

(***************************************************************************)
(* stop().  IppHttpServer.close() and IppHttpsServer.close() forget the    *)
(* server before it has closed: a second call resolves at once.            *)
(***************************************************************************)
\* closeIdleConnections: not the fresh ones.
WithoutIdle(server) ==
  [c \in Clients |-> IF conn[c] = [server |-> server, state |-> "idle"]
                     THEN NotConnected ELSE conn[c]]

\* Fault: the server is forgotten before it is closed.
FaultyCloseHttp(s) ==
  /\ ippsUri' = FALSE
  /\ stops' = [stops EXCEPT ![s] = "http"]
  /\ waits' = [waits EXCEPT ![s] = FALSE]
  /\ UNCHANGED <<http, conn>>

CloseHttp(s) ==
  /\ ippsUri' = FALSE
  /\ stops' = [stops EXCEPT ![s] = "http"]
  /\ waits' = [waits EXCEPT ![s] = http = "listening"]
  /\ http' = "closing"
  /\ conn' = IF http = "listening" THEN WithoutIdle("http") ELSE conn

CloseHttps(s) ==
  IF https = "off" THEN CloseHttp(s) /\ UNCHANGED https
  ELSE /\ stops' = [stops EXCEPT ![s] = "https"]
       /\ waits' = [waits EXCEPT ![s] = https = "listening"]
       /\ https' = "closing"
       /\ conn' = IF https = "listening" THEN WithoutIdle("https") ELSE conn
       /\ UNCHANGED <<http, ippsUri>>

\* Fault: the servers are closed before the services are unpublished.
FaultyBeginStop(s) ==
  /\ main = "up" /\ stops[s] = "none"
  /\ CloseHttps(s)
  /\ UNCHANGED <<process, advertised, fetch>>

BeginStop(s) ==
  /\ main = "up" /\ stops[s] = "none"
  /\ IF advertised # {}
     THEN stops' = [stops EXCEPT ![s] = "mdns"] /\ UNCHANGED <<http, https, ippsUri, conn, waits>>
     ELSE CloseHttps(s)
  /\ UNCHANGED <<process, advertised, fetch>>

Unpublished(s) ==
  /\ stops[s] = "mdns"
  /\ advertised' = {}
  /\ CloseHttps(s)
  /\ UNCHANGED <<process, fetch>>

\* Fault: the close() of a server does not wait for its connections.
FaultyClosed(s, server) == stops[s] = server

Closed(s, server) ==
  /\ stops[s] = server
  /\ waits[s] => ~ \E c \in Clients : Open(c, server)

HttpsClosed(s) ==
  /\ Closed(s, "https")
  /\ https' = "off"
  /\ CloseHttp(s)
  /\ UNCHANGED <<process, advertised, fetch>>

\* Fault: close() never calls back.
FaultyHttpClosed(s) ==
  /\ Closed(s, "http") /\ waits[s]
  /\ stops' = [stops EXCEPT ![s] = "done"]
  /\ UNCHANGED <<process, servers, conn, waits, fetch>>

HttpClosed(s) ==
  /\ Closed(s, "http")
  /\ stops' = [stops EXCEPT ![s] = "done"]
  /\ UNCHANGED <<process, servers, conn, waits, fetch>>

\* process.exit(0) after the await of stop().
Exit(s) == stops[s] = "done" /\ Gone /\ UNCHANGED cert

\* The process dies; a running openssl leaves what it has written.
Crash ==
  /\ main # "off"
  /\ Gone
  /\ IF main = "certifying" /\ cert \in {"none", "keyOnly"}
     THEN cert' \in {cert, "keyOnly", "damaged", "pair"} ELSE UNCHANGED cert

Start == BindHttp \/ PortInUse \/ StartTls \/ \E free \in BOOLEAN : BindHttps(free)
Stop(s) == Unpublished(s) \/ HttpsClosed(s) \/ HttpClosed(s)

Next ==
  \/ Boot \/ Start \/ Crash
  \/ \E c \in Clients : \/ Connect(c) \/ SendRequest(c) \/ HandleRequest(c)
                        \/ Disconnect(c)
  \/ \E c \in Fetchers : DuringFetch(c) \/ HandleRequestAsync(c)
  \/ \E s \in Stops : BeginStop(s) \/ Stop(s) \/ Exit(s)

\* Callbacks that are due run, connections idle after an answer and fetches time
\* out.  Nothing is assumed of clients, of the document server or of the user:
\* Node checks headers and requests for lateness no more once close() was called.
Fairness ==
  /\ WF_vars(Start)
  /\ \A s \in Stops : WF_vars(Stop(s))
  /\ \A c \in Clients : WF_vars(conn[c].state = "idle" /\ Disconnect(c))
  /\ \A c \in Fetchers : WF_vars(HandleRequestAsync(c)) /\ WF_vars(Running(c) /\ DuringFetch(c))

Spec == Init /\ [][Next]_vars /\ Fairness

(***************************************************************************)
(* Properties.                                                             *)
(***************************************************************************)

\* What mDNS tells clients of is served: no service is published before its
\* server listens, and none outlasts it, under two overlapping stop() calls too.
AdvertisedIsServed ==
  /\ "ipp" \in advertised => http = "listening"
  /\ "ipps" \in advertised => https = "listening"

\* Whatever happened to the certificate, openssl or the TLS port, a started
\* printer serves plaintext, and reports an ipps URI exactly if it serves TLS.
StartedServes ==
  main = "up" /\ ~ Stopping => http = "listening" /\ (ippsUri <=> https = "listening")

\* When any call of stop() returns, also one of two that overlapped, the
\* printer accepts no connection and advertises nothing.
StoppedIsQuiet ==
  (\E s \in Stops : stops[s] = "done") =>
    http # "listening" /\ https # "listening" /\ advertised = {} /\ ~ ippsUri

\* A stop() that nobody repeats returns after the last request was answered,
\* also one that awaited its document: the exit that follows cuts no client off.
GracefulStop == \A s \in Stops :
  stops[s] = "done" /\ (\A t \in Stops \ {s} : stops[t] = "none") =>
    \A c \in Clients : conn[c].state \in {"none", "gone"}

\* Every stop() ends once no client owes a request, neither one it has begun nor
\* the first on its connection: no fetch, no connection idle after an answer, no
\* client that left and no other stop() holds it up.
StopEnds ==
  <>[](\A c \in Clients : conn[c].state \notin {"fresh", "receiving"}) =>
    \A s \in Stops : stops[s] # "none" ~> stops[s] = "done" \/ main = "off"
=============================================================================
