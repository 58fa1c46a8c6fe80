---------------------------- MODULE ServerProofs ----------------------------
(***************************************************************************)
(* The safety of the server's life and of the document fetch, for any      *)
(* number of clients, of fetches in progress, and of overlapping stops.    *)
(*                                                                         *)
(* First the fetch alone, then the connections, then the servers.          *)
(***************************************************************************)
EXTENDS Server, TLAPS

(***************************************************************************)
(* The fetch.  Until it settles it has read no more than the cap and its   *)
(* promise is open: with that, End may call what it has read the document. *)
(***************************************************************************)
Active == {"waiting", "body"}

Sensible(f) ==
  /\ f \in FetchRecord
  /\ f.phase \in Active => f.result = "none" /\ f.total <= Cap
  /\ f.result = "ok" => f.total = f.size /\ f.size <= Cap
  /\ f.result = "too-large" => f.size > Cap
  /\ f.phase = "ended" => f.result = "ok"

FInv == fetch = [c \in Fetchers |-> fetch[c]] /\ \A c \in Fetchers : Sensible(fetch[c])

LEMMA NoFetchSensible == Sensible(NoFetch)
BY FetchAssumption DEF NoFetch, Sensible, FetchRecord, Sizes, Results, Active

LEMMA ClosedSensible ==
  ASSUME NEW f, Sensible(f), f.phase \in Active, NEW result \in {"access", "too-large"},
         result = "too-large" => f.size > Cap
  PROVE  Sensible(Close(f, result))
<1> DEFINE g == [[f EXCEPT !.phase = "closed"] EXCEPT !.result = result]
<1>1. Close(f, result) = g
  BY DEF Close, Finish, Sensible, FetchRecord
<1>2. g \in FetchRecord
  BY DEF Sensible, FetchRecord, Results
<1>3. /\ g.phase = "closed" /\ g.result = result /\ g.size = f.size
  BY DEF Sensible, FetchRecord
<1> HIDE DEF g
<1>4. QED
  BY <1>1, <1>2, <1>3 DEF Sensible, Active

LEMMA StartedSensible ==
  ASSUME NEW size \in Sizes
  PROVE  /\ Sensible(FetchFile(size))
         /\ Sensible([NoFetch EXCEPT !.phase = "waiting", !.size = size])
         /\ \A result \in {"scheme", "access"} : Sensible(Finish(NoFetch, result))
<1>0. size \in Nat /\ Cap \in Nat
  BY FetchAssumption DEF Sizes
<1>1. Sensible(FetchFile(size))
  <2> DEFINE sized == [NoFetch EXCEPT !.size = size]
             refused == [sized EXCEPT !.result = "too-large"]
             read == [[sized EXCEPT !.total = size] EXCEPT !.result = "ok"]
  <2>1. FetchFile(size) = IF size > Cap THEN refused ELSE read
    BY DEF FetchFile, NoFetch
  <2>2. /\ sized \in FetchRecord /\ sized.size = size /\ sized.phase = "unused"
    BY NoFetchSensible DEF NoFetch, Sensible, FetchRecord
  <2> HIDE DEF sized
  <2>3. /\ refused \in FetchRecord /\ refused.size = size /\ refused.phase = "unused"
        /\ refused.result = "too-large"
    BY <2>2 DEF FetchRecord, Results
  <2>4. /\ read \in FetchRecord /\ read.size = size /\ read.total = size
        /\ read.phase = "unused" /\ read.result = "ok"
    BY <2>2 DEF FetchRecord, Results
  <2> HIDE DEF refused, read
  <2>5. QED
    BY <1>0, <2>1, <2>3, <2>4 DEF Sensible, Active
<1>2. Sensible([NoFetch EXCEPT !.phase = "waiting", !.size = size])
  <2> DEFINE f == [[NoFetch EXCEPT !.phase = "waiting"] EXCEPT !.size = size]
  <2>1. [NoFetch EXCEPT !.phase = "waiting", !.size = size] = f
    BY DEF NoFetch
  <2>2. /\ f \in FetchRecord /\ f.phase = "waiting" /\ f.result = "none"
        /\ f.total = 0
    BY NoFetchSensible DEF NoFetch, Sensible, FetchRecord
  <2> HIDE DEF f
  <2>3. Sensible(f)
    BY <1>0, <2>2 DEF Sensible, Active
  <2>4. QED
    BY <2>1, <2>3
<1>3. \A result \in {"scheme", "access"} : Sensible(Finish(NoFetch, result))
  BY NoFetchSensible DEF Finish, NoFetch, Sensible, FetchRecord, Results, Active
<1>4. QED
  BY <1>1, <1>2, <1>3

\* One record takes the place of another.
LEMMA ReplacedSensible ==
  ASSUME FInv, NEW c \in Fetchers, NEW f, Sensible(f), fetch' = [fetch EXCEPT ![c] = f]
  PROVE  FInv'
BY DEF FInv

LEMMA StartFetchKeepsFInv ==
  ASSUME FInv, NEW c \in Fetchers, FetchLocalDocument(c)
  PROVE  FInv'
<1>0. 0 \in Sizes
  BY FetchAssumption DEF Sizes
<1>1. ASSUME NEW result \in {"scheme", "access"},
             fetch' = [fetch EXCEPT ![c] = Finish(NoFetch, result)]
      PROVE  FInv'
  BY <1>0, <1>1, StartedSensible, ReplacedSensible
<1>2. ASSUME NEW size \in Sizes, fetch' = [fetch EXCEPT ![c] = FetchFile(size)]
      PROVE  FInv'
  BY <1>2, StartedSensible, ReplacedSensible
<1>3. ASSUME NEW size \in Sizes,
             fetch' = [fetch EXCEPT ![c] = [NoFetch EXCEPT !.phase = "waiting", !.size = size]]
      PROVE  FInv'
  BY <1>3, StartedSensible, ReplacedSensible
<1>4. QED
  BY <1>1, <1>2, <1>3 DEF FetchLocalDocument

LEMMA SocketEventKeepsFInv ==
  ASSUME FInv, NEW c \in Fetchers, SocketEvent(c)
  PROVE  FInv'
<1> DEFINE f == fetch[c]
<1>0. Sensible(f) /\ f.total \in Nat /\ f.size \in Nat /\ Cap \in Nat
  BY FetchAssumption DEF FInv, Sensible, FetchRecord, Sizes
<1>1. ASSUME NEW accepted \in BOOLEAN, Response(c, accepted)
      PROVE  FInv'
  <2> DEFINE g == [f EXCEPT !.phase = "body"]
  <2>1. f.phase = "waiting" /\ fetch' = [fetch EXCEPT ![c] = IF accepted THEN g ELSE Close(f, "access")]
    BY <1>1 DEF Response
  <2>2. Sensible(g)
    BY <1>0, <2>1 DEF Sensible, FetchRecord, Active
  <2>3. Sensible(Close(f, "access"))
    BY <1>0, <2>1, ClosedSensible DEF Active
  <2> HIDE DEF f, g
  <2>4. QED
    BY <2>1, <2>2, <2>3, ReplacedSensible
<1>2. ASSUME NEW n \in 1..(Cap + 1), Data(c, n)
      PROVE  FInv'
  <2> DEFINE g == [f EXCEPT !.total = f.total + n]
  <2>1. /\ f.phase = "body" /\ f.total + n <= f.size
        /\ fetch' = [fetch EXCEPT ![c] = IF g.total > Cap THEN Close(g, "too-large") ELSE g]
    BY <1>2 DEF Data
  <2>2. f.total + n \in Sizes
    BY <1>0, <2>1 DEF Sensible, FetchRecord, Sizes
  <2>3. g \in FetchRecord
    BY <1>0, <2>2 DEF Sensible, FetchRecord
  <2>4. /\ g.phase = "body" /\ g.total = f.total + n /\ g.size = f.size
        /\ g.result = "none"
    BY <1>0, <2>1 DEF Sensible, FetchRecord, Active
  <2> HIDE DEF f, g
  <2>5. CASE g.total <= Cap
    <3>1. Sensible(g)
      BY <2>3, <2>4, <2>5 DEF Sensible, Active
    <3>2. ~ (g.total > Cap)
      BY <1>0, <2>4, <2>5
    <3>3. QED
      BY <2>1, <3>1, <3>2, ReplacedSensible
  <2>6. CASE g.total > Cap
    <3>1. g.size > Cap
      BY <1>0, <2>1, <2>4, <2>6
    <3>2. Close(g, "too-large") = [[g EXCEPT !.phase = "closed"] EXCEPT !.result = "too-large"]
      BY <2>3, <2>4 DEF Close, Finish, FetchRecord
    <3> DEFINE h == [[g EXCEPT !.phase = "closed"] EXCEPT !.result = "too-large"]
    <3>3. h \in FetchRecord /\ h.phase = "closed" /\ h.result = "too-large" /\ h.size = g.size
      BY <2>3 DEF FetchRecord, Results
    <3> HIDE DEF h
    <3>4. Sensible(h)
      BY <3>1, <3>3 DEF Sensible, Active
    <3>5. QED
      BY <2>1, <2>6, <3>2, <3>4, ReplacedSensible DEF h
  <2>7. QED
    BY <1>0, <2>4, <2>5, <2>6
<1>3. CASE End(c)
  <2> DEFINE g == [[f EXCEPT !.phase = "ended"] EXCEPT !.result = "ok"]
  <2>1. f.phase = "body" /\ f.total = f.size /\ f.result = "none"
    BY <1>0, <1>3 DEF End, Sensible, Active
  <2>2. fetch' = [fetch EXCEPT ![c] = g]
    BY <1>0, <1>3, <2>1 DEF End, Finish, Sensible, FetchRecord
  <2>3. g \in FetchRecord
    BY <1>0 DEF Sensible, FetchRecord, Results
  <2>4. g.phase = "ended" /\ g.result = "ok" /\ g.total = f.total /\ g.size = f.size
    BY <1>0 DEF Sensible, FetchRecord
  <2>5. f.total <= Cap
    BY <1>0, <2>1 DEF Sensible, Active
  <2> HIDE DEF g
  <2>6. Sensible(g)
    BY <2>1, <2>3, <2>4, <2>5 DEF Sensible, Active
  <2>7. QED
    BY <2>2, <2>6, ReplacedSensible
<1>4. CASE ErrorOrTimeout(c)
  <2>1. fetch' = [fetch EXCEPT ![c] =
                    IF f.phase \in Active THEN Close(f, "access") ELSE Finish(f, "access")]
    BY <1>4 DEF ErrorOrTimeout, Running, Active
  <2>2. CASE f.phase \in Active
    <3>1. Sensible(Close(f, "access"))
      BY <1>0, <2>2, ClosedSensible
    <3>2. QED
      BY <2>1, <2>2, <3>1, ReplacedSensible
  <2>3. CASE f.phase \notin Active
    <3>1. Sensible(Finish(f, "access"))
      BY <1>0, <2>3 DEF Finish, Sensible, FetchRecord, Results, Active
    <3>2. QED
      BY <2>1, <2>3, <3>1, ReplacedSensible
  <2>4. QED
    BY <2>2, <2>3
<1>5. QED
  BY <1>1, <1>2, <1>3, <1>4 DEF SocketEvent

(***************************************************************************)
(* The servers.  Safe is the inductive invariant beside the types: while   *)
(* no stop() has come past mDNS all that was started still runs (Intact),  *)
(* what each stop() has got to is down for good (Teardown), and one that   *)
(* nobody repeats waits for the connections (Drained).                     *)
(***************************************************************************)
Early(s) == stops[s] \in {"none", "mdns"}
Only(s) == \A t \in Stops \ {s} : stops[t] = "none"
NoneOpen(server) == \A c \in Clients : ~ Open(c, server)

Served ==
  /\ main \in {"off", "binding"} => http = "off"
  /\ main \in {"certifying", "securing"} => http = "listening"
  /\ main # "up" => https = "off" /\ ~ ippsUri /\ advertised = {} /\ NoneOpen("https")

Intact ==
  main = "up" /\ (\A s \in Stops : Early(s)) =>
    /\ http = "listening"
    /\ https # "closing"
    /\ ippsUri <=> https = "listening"
    /\ "ipps" \in advertised => https = "listening"

Teardown == \A s \in Stops :
  /\ stops[s] = "https" => https # "listening" /\ advertised = {}
  /\ stops[s] \in {"http", "done"} =>
       http # "listening" /\ https # "listening" /\ ~ ippsUri /\ advertised = {}

Drained == \A s \in Stops : Only(s) =>
  /\ Early(s) /\ https # "listening" => NoneOpen("https")
  /\ stops[s] = "https" => waits[s] /\ http = "listening"
  /\ stops[s] = "http" => waits[s]
  /\ stops[s] \in {"http", "done"} => NoneOpen("https")
  /\ stops[s] = "done" => NoneOpen("http")

Safe == Served /\ Intact /\ Teardown /\ Drained

LInv == TypeOK /\ FInv /\ Safe

(***************************************************************************)
(* Types.                                                                  *)
(***************************************************************************)
LEMMA GoneFetch ==
  ASSUME Gone
  PROVE  FInv'
BY NoFetchSensible DEF Gone, FInv

LEMMA NextFInv == FInv /\ [Next]_vars => FInv'
<1> SUFFICES ASSUME FInv, [Next]_vars
             PROVE  FInv'
  OBVIOUS
<1>1. CASE UNCHANGED fetch
  BY <1>1 DEF FInv
<1>2. ASSUME NEW c \in Clients, HandleRequest(c)
      PROVE  FInv'
  BY <1>1, <1>2, StartFetchKeepsFInv DEF HandleRequest
<1>3. ASSUME NEW c \in Fetchers, DuringFetch(c)
      PROVE  FInv'
  BY <1>3, SocketEventKeepsFInv DEF DuringFetch
<1>4. CASE Boot \/ Start \/ Crash
  BY <1>1, <1>4, GoneFetch DEF Boot, Start, BindHttp, PortInUse, StartTls, BindHttps, Crash
<1>5. ASSUME NEW c \in Clients, Connect(c) \/ SendRequest(c) \/ Disconnect(c)
      PROVE  FInv'
  BY <1>1, <1>5 DEF Connect, SendRequest, Disconnect
<1>6. ASSUME NEW s \in Stops, BeginStop(s) \/ Stop(s) \/ Exit(s)
      PROVE  FInv'
  BY <1>1, <1>6, GoneFetch
  DEF BeginStop, Stop, Unpublished, HttpsClosed, HttpClosed, Exit
<1>7. ASSUME NEW c \in Fetchers, HandleRequestAsync(c)
      PROVE  FInv'
  BY <1>1, <1>7 DEF HandleRequestAsync
<1>8. CASE UNCHANGED vars
  BY <1>1, <1>8 DEF vars
<1>9. QED
  BY <1>2, <1>3, <1>4, <1>5, <1>6, <1>7, <1>8 DEF Next

LEMMA FetchTyped ==
  ASSUME FInv
  PROVE  FetchTypeOK
BY DEF FInv, FetchTypeOK, Sensible

\* The connections, whatever a step does with them.
ConnTyped == conn \in [Clients -> Connection]

LEMMA SetStateTyped ==
  ASSUME ConnTyped, NEW c \in Clients, conn[c].state # "none",
         NEW state \in {"fresh", "idle", "receiving", "fetching", "gone"}, SetState(c, state)
  PROVE  ConnTyped'
<1>1. conn[c] \in [server : {"http", "https"}, state : {"fresh", "idle", "receiving", "fetching", "gone"}]
  BY DEF ConnTyped, Connection, NotConnected
<1>2. [conn[c] EXCEPT !.state = state] \in Connection
  BY <1>1 DEF Connection
<1>3. conn' = [conn EXCEPT ![c] = [conn[c] EXCEPT !.state = state]]
  BY DEF SetState, ConnTyped
<1>4. QED
  BY <1>2, <1>3 DEF ConnTyped

LEMMA DroppedTyped ==
  ASSUME ConnTyped, NEW ids,
         conn' = [c \in Clients |-> IF c \in ids THEN NotConnected ELSE conn[c]]
  PROVE  ConnTyped'
BY DEF ConnTyped, Connection

LEMMA WithoutIdleTyped ==
  ASSUME ConnTyped, NEW server, conn' = WithoutIdle(server)
  PROVE  ConnTyped'
BY DEF ConnTyped, Connection, WithoutIdle

LEMMA GoneTyped ==
  ASSUME Gone, cert' \in {"none", "keyOnly", "damaged", "pair"}
  PROVE  TypeOK'
<1>1. FetchTypeOK'
  BY GoneFetch, FetchTyped DEF FInv, FetchTypeOK, Sensible
<1>2. QED
  BY <1>1 DEF Gone, TypeOK, NoOptions, Connection, Stopping

LEMMA CloseTyped ==
  ASSUME TypeOK, NEW s \in Stops, CloseHttps(s)
  PROVE  /\ http' \in {http, "closing"} /\ https' \in {https, "closing"}
         /\ ippsUri' \in BOOLEAN
         /\ stops' \in [Stops -> {"none", "mdns", "https", "http", "done"}]
         /\ waits' \in [Stops -> BOOLEAN]
         /\ ConnTyped'
<1>0. ConnTyped
  BY DEF TypeOK, ConnTyped
<1>1. \/ conn' = conn \/ conn' = WithoutIdle("http") \/ conn' = WithoutIdle("https")
  BY DEF CloseHttps, CloseHttp
<1>2. ConnTyped'
  BY <1>0, <1>1, WithoutIdleTyped DEF ConnTyped
<1>3. QED
  BY <1>2 DEF TypeOK, CloseHttps, CloseHttp

LEMMA StepTyped ==
  ASSUME TypeOK, FInv', Next
  PROVE  TypeOK'
<1>0. FetchTypeOK' /\ ConnTyped
  BY DEF TypeOK, ConnTyped, FInv, FetchTypeOK, Sensible
<1>1. CASE Boot
  BY <1>0, <1>1 DEF Boot, TypeOK, servers, Stopping
<1>2. CASE BindHttp
  BY <1>0, <1>2 DEF BindHttp, Advertise, TypeOK, Stopping
<1>3. CASE StartTls
  BY <1>0, <1>3 DEF StartTls, EnsureCert, Advertise, TypeOK, Stopping
<1>4. ASSUME NEW free \in BOOLEAN, BindHttps(free)
      PROVE  TypeOK'
  BY <1>0, <1>4 DEF BindHttps, Advertise, TypeOK, Stopping
<1>5. CASE PortInUse \/ Crash \/ \E s \in Stops : Exit(s)
  BY <1>5, GoneTyped DEF PortInUse, Crash, Exit, TypeOK
<1>6. ASSUME UNCHANGED <<process, servers, stops, waits>>, ConnTyped'
      PROVE  TypeOK'
  BY <1>0, <1>6 DEF TypeOK, ConnTyped, process, servers, Stopping
<1>7. ASSUME NEW c \in Clients, Connect(c) \/ SendRequest(c) \/ HandleRequest(c) \/ Disconnect(c)
      PROVE  TypeOK'
  <2>1. CASE Connect(c)
    <3>1. ConnTyped'
      BY <1>0, <2>1 DEF Connect, ConnTyped, Connection
    <3>2. QED
      BY <1>6, <2>1, <3>1 DEF Connect
  <2>2. CASE SendRequest(c)
    BY <1>0, <1>6, <2>2, SetStateTyped DEF SendRequest
  <2>3. CASE HandleRequest(c)
    BY <1>0, <1>6, <2>3, SetStateTyped DEF HandleRequest
  <2>4. CASE Disconnect(c)
    <3>1. CASE conn[c].state = "fetching"
      BY <1>0, <1>6, <2>4, <3>1, SetStateTyped DEF Disconnect
    <3>2. CASE conn[c].state # "fetching"
      <4>1. ConnTyped'
        BY <1>0, <2>4, <3>2 DEF Disconnect, ConnTyped, Connection
      <4>2. QED
        BY <1>6, <2>4, <4>1 DEF Disconnect
    <3>3. QED
      BY <3>1, <3>2
  <2>5. QED
    BY <1>7, <2>1, <2>2, <2>3, <2>4
<1>8. ASSUME NEW c \in Fetchers, DuringFetch(c) \/ HandleRequestAsync(c)
      PROVE  TypeOK'
  <2>0. c \in Clients
    BY ServerAssumption
  <2>1. CASE DuringFetch(c)
    BY <1>0, <1>6, <2>1 DEF DuringFetch, ConnTyped
  <2>2. CASE HandleRequestAsync(c) /\ conn[c].state = "fetching"
    BY <1>0, <1>6, <2>0, <2>2, SetStateTyped DEF HandleRequestAsync
  <2>3. CASE HandleRequestAsync(c) /\ conn[c].state # "fetching"
    <3>1. ConnTyped'
      BY <1>0, <2>0, <2>3 DEF HandleRequestAsync, ConnTyped, Connection
    <3>2. QED
      BY <1>6, <2>3, <3>1 DEF HandleRequestAsync
  <2>4. QED
    BY <1>8, <2>1, <2>2, <2>3
<1>9. ASSUME NEW s \in Stops, BeginStop(s)
      PROVE  TypeOK'
  <2>1. CASE advertised # {}
    BY <1>0, <1>9, <2>1 DEF BeginStop, TypeOK, process, Stopping
  <2>2. CASE advertised = {}
    <3>1. CloseHttps(s) /\ UNCHANGED <<process, advertised>> /\ main = "up"
      BY <1>9, <2>2 DEF BeginStop
    <3>2. QED
      BY <1>0, <3>1, CloseTyped DEF TypeOK, ConnTyped, process
  <2>3. QED
    BY <2>1, <2>2
<1>10. ASSUME NEW s \in Stops, Unpublished(s)
       PROVE  TypeOK'
  <2>1. CloseHttps(s) /\ UNCHANGED process /\ advertised' = {} /\ main = "up"
    BY <1>10 DEF Unpublished, TypeOK, Stopping
  <2>2. QED
    BY <1>0, <2>1, CloseTyped DEF TypeOK, ConnTyped, process
<1>11. ASSUME NEW s \in Stops, HttpsClosed(s)
       PROVE  TypeOK'
  <2>1. main = "up"
    BY <1>11 DEF HttpsClosed, Closed, TypeOK, Stopping
  <2>2. conn' = conn \/ conn' = WithoutIdle("http")
    BY <1>11 DEF HttpsClosed, CloseHttp
  <2>3. ConnTyped'
    BY <1>0, <2>2, WithoutIdleTyped DEF ConnTyped
  <2>4. QED
    BY <1>0, <1>11, <2>1, <2>3 DEF HttpsClosed, CloseHttp, TypeOK, ConnTyped, process
<1>12. ASSUME NEW s \in Stops, HttpClosed(s)
       PROVE  TypeOK'
  <2>1. main = "up"
    BY <1>12 DEF HttpClosed, Closed, TypeOK, Stopping
  <2>2. QED
    BY <1>0, <1>12, <2>1 DEF HttpClosed, TypeOK, process, servers
<1>13. QED
  BY <1>1, <1>2, <1>3, <1>4, <1>5, <1>7, <1>8, <1>9, <1>10, <1>11, <1>12
  DEF Next, Start, Stop

(***************************************************************************)
(* Safe, group by group.                                                   *)
(***************************************************************************)
\* Steps of connections: none opens but on a server that listens.
LEMMA ConnectionsKeepSafe ==
  ASSUME Safe, UNCHANGED <<process, servers, stops, waits>>,
         \A c \in Clients, server \in {"http", "https"} :
           Open(c, server)' => Open(c, server) \/ (IF server = "http" THEN http ELSE https) = "listening"
  PROVE  Safe'
<1>0. UNCHANGED <<main, http, https, ippsUri, advertised, stops, waits>>
  BY DEF process, servers
<1>1. Served'
  BY <1>0 DEF Safe, Served, NoneOpen, Open
<1>2. Intact' /\ Teardown'
  BY <1>0 DEF Safe, Intact, Teardown, Early
<1>3. https # "listening" /\ NoneOpen("https") => NoneOpen("https")'
  BY DEF NoneOpen
<1>4. http # "listening" /\ NoneOpen("http") => NoneOpen("http")'
  BY DEF NoneOpen
<1>5. Drained'
  BY <1>0, <1>3, <1>4 DEF Safe, Drained, Teardown, Early, Only
<1>6. QED
  BY <1>1, <1>2, <1>5 DEF Safe

\* Steps of start(): no stop() has begun.
LEMMA StartKeepsSafe ==
  ASSUME TypeOK, Safe, main # "up", UNCHANGED <<conn, stops, waits>>,
         main' \in {"off", "binding"} => http' = "off",
         main' \notin {"off", "binding"} => http' = "listening",
         main' # "up" => https' = "off" /\ ~ ippsUri' /\ advertised' = {},
         https' # "closing",
         ippsUri' <=> https' = "listening",
         "ipps" \in advertised' => https' = "listening"
  PROVE  Safe'
<1>1. \A s \in Stops : stops[s] = "none"
  BY DEF TypeOK, Stopping
<1>2. NoneOpen("https")'
  BY DEF Safe, Served, NoneOpen, Open
<1>3. QED
  BY <1>1, <1>2 DEF TypeOK, Safe, Served, Intact, Teardown, Drained, Early

LEMMA GoneSafe ==
  ASSUME Gone
  PROVE  Safe'
<1>1. NoneOpen("https")' /\ NoneOpen("http")'
  BY DEF Gone, NoneOpen, Open, NotConnected
<1>2. QED
  BY <1>1 DEF Gone, Safe, Served, Intact, Teardown, Drained

\* A stop() turns to the HTTP server: alone, it finds it listening and the
\* connections to the other server ended.
LEMMA CloseHttpKeepsSafe ==
  ASSUME TypeOK, Safe, NEW s \in Stops, main = "up", main' = "up", CloseHttp(s),
         https' # "listening", advertised' = {},
         Only(s) => http = "listening" /\ NoneOpen("https")
  PROVE  Safe'
<1>0. /\ \A t \in Stops : stops'[t] = IF t = s THEN "http" ELSE stops[t]
      /\ waits'[s] <=> http = "listening"
      /\ http' = "closing" /\ ~ ippsUri'
  BY DEF CloseHttp, TypeOK
<1>1. Served'
  BY DEF Served
<1>2. Intact'
  BY <1>0 DEF Intact, Early
<1>3. Teardown'
  BY <1>0 DEF Safe, Teardown
<1>4. NoneOpen("https") => NoneOpen("https")'
  BY DEF CloseHttp, NoneOpen, Open, WithoutIdle, NotConnected
<1>5. ASSUME NEW t \in Stops, Only(t)'
      PROVE  t = s /\ Only(s)
  BY <1>0, <1>5 DEF Only
<1>6. Drained'
  BY <1>0, <1>4, <1>5 DEF Drained, Early
<1>7. QED
  BY <1>1, <1>2, <1>3, <1>6 DEF Safe

\* A stop() that is past mDNS turns to the servers.
LEMMA CloseHttpsKeepsSafe ==
  ASSUME TypeOK, Safe, NEW s \in Stops, main = "up", main' = "up", CloseHttps(s),
         Early(s), advertised' = {}
  PROVE  Safe'
<1>1. ASSUME Only(s)
      PROVE  /\ http = "listening" /\ https # "closing"
             /\ https # "listening" => NoneOpen("https")
  <2>1. \A t \in Stops : Early(t)
    BY <1>1 DEF Only, Early
  <2>2. QED
    BY <1>1, <2>1 DEF Safe, Intact, Drained
<1>2. CASE https = "off"
  <2>1. CloseHttp(s) /\ https' = "off"
    BY <1>2 DEF CloseHttps
  <2>2. QED
    BY <1>1, <1>2, <2>1, CloseHttpKeepsSafe
<1>3. CASE https # "off"
  <2>0. /\ \A t \in Stops : stops'[t] = IF t = s THEN "https" ELSE stops[t]
        /\ waits'[s] <=> https = "listening"
        /\ https' = "closing" /\ UNCHANGED <<http, ippsUri>>
    BY <1>3 DEF CloseHttps, TypeOK
  <2>1. Served' /\ Intact'
    BY <2>0 DEF Served, Intact, Early
  <2>2. Teardown'
    BY <2>0 DEF Safe, Teardown
  <2>3. ASSUME NEW t \in Stops, Only(t)'
        PROVE  t = s /\ Only(s)
    BY <2>0, <2>3 DEF Only
  <2>4. https \in {"listening", "closing"}
    BY <1>3 DEF TypeOK
  <2>5. Drained'
    BY <1>1, <2>0, <2>3, <2>4 DEF Drained, Early
  <2>6. QED
    BY <2>1, <2>2, <2>5 DEF Safe
<1>4. QED
  BY <1>2, <1>3

LEMMA StopKeepsSafe ==
  ASSUME TypeOK, Safe, NEW s \in Stops, BeginStop(s) \/ Stop(s)
  PROVE  Safe'
<1>0. main = "up" /\ main' = "up"
  BY DEF BeginStop, Stop, Unpublished, HttpsClosed, HttpClosed, Closed, TypeOK, Stopping, process
<1>1. CASE BeginStop(s)
  <2>1. CASE advertised = {}
    BY <1>0, <1>1, <2>1, CloseHttpsKeepsSafe DEF BeginStop, Early
  <2>2. CASE advertised # {}
    <3>0. /\ \A t \in Stops : stops'[t] = IF t = s THEN "mdns" ELSE stops[t]
          /\ stops[s] = "none" /\ UNCHANGED <<http, https, ippsUri, advertised, conn, waits>>
      BY <1>1, <2>2 DEF BeginStop, TypeOK
    <3>1. Served' /\ Intact' /\ Teardown'
      BY <1>0, <3>0 DEF Safe, Served, Intact, Teardown, Early
    <3>2. ASSUME NEW t \in Stops, Only(t)'
          PROVE  t = s /\ Only(s) /\ Early(s)
      BY <3>0, <3>2 DEF Only, Early
    <3>3. NoneOpen("https") => NoneOpen("https")'
      BY <3>0 DEF NoneOpen, Open
    <3>4. Drained'
      BY <3>0, <3>2, <3>3 DEF Safe, Drained
    <3>5. QED
      BY <3>1, <3>4 DEF Safe
  <2>3. QED
    BY <2>1, <2>2
<1>2. CASE Unpublished(s)
  BY <1>0, <1>2, CloseHttpsKeepsSafe DEF Unpublished, Early
<1>3. CASE HttpsClosed(s)
  <2>1. stops[s] = "https" /\ CloseHttp(s) /\ https' = "off" /\ advertised' = advertised
    BY <1>3 DEF HttpsClosed, Closed
  <2>2. advertised = {}
    BY <2>1 DEF Safe, Teardown
  <2>3. Only(s) => http = "listening" /\ NoneOpen("https")
    BY <1>3, <2>1 DEF Safe, Drained, HttpsClosed, Closed, NoneOpen
  <2>4. QED
    BY <1>0, <2>1, <2>2, <2>3, CloseHttpKeepsSafe
<1>4. CASE HttpClosed(s)
  <2>0. /\ stops[s] = "http"
        /\ \A t \in Stops : stops'[t] = IF t = s THEN "done" ELSE stops[t]
        /\ UNCHANGED <<http, https, ippsUri, advertised, conn, waits>>
    BY <1>4 DEF HttpClosed, Closed, TypeOK, servers
  <2>1. Served' /\ Intact' /\ Teardown'
    BY <1>0, <2>0 DEF Safe, Served, Intact, Teardown, Early
  <2>2. ASSUME NEW t \in Stops, Only(t)'
        PROVE  t = s /\ Only(s)
    BY <2>0, <2>2 DEF Only
  <2>3. \A server : NoneOpen(server) => NoneOpen(server)'
    BY <2>0 DEF NoneOpen, Open
  <2>4. Only(s) => NoneOpen("http") /\ NoneOpen("https")
    BY <1>4, <2>0 DEF Safe, Drained, HttpClosed, Closed, NoneOpen
  <2>5. Drained'
    BY <2>0, <2>2, <2>3, <2>4 DEF Drained, Early
  <2>6. QED
    BY <2>1, <2>5 DEF Safe
<1>5. QED
  BY <1>1, <1>2, <1>3, <1>4 DEF Stop

LEMMA NextSafe ==
  ASSUME TypeOK, Safe, Next
  PROVE  Safe'
<1>1. CASE Boot
  BY <1>1, StartKeepsSafe DEF Boot, servers, Safe, Served
<1>2. CASE BindHttp
  BY <1>2, StartKeepsSafe DEF BindHttp, Advertise, Safe, Served
<1>3. CASE StartTls
  <2>1. main' \in {"securing", "up"} /\ UNCHANGED <<http, https, ippsUri, conn, stops, waits>>
    BY <1>3 DEF StartTls, Advertise
  <2>2. advertised' \in {advertised, {}, {"ipp"}} /\ (main' # "up" => advertised' = advertised)
    BY <1>3 DEF StartTls, Advertise
  <2>3. main = "certifying"
    BY <1>3 DEF StartTls
  <2>4. QED
    BY <2>1, <2>2, <2>3, StartKeepsSafe DEF Safe, Served
<1>4. ASSUME NEW free \in BOOLEAN, BindHttps(free)
      PROVE  Safe'
  BY <1>4, StartKeepsSafe DEF BindHttps, Advertise, Safe, Served
<1>5. CASE PortInUse \/ Crash \/ \E s \in Stops : Exit(s)
  BY <1>5, GoneSafe DEF PortInUse, Crash, Exit
<1>6. ASSUME NEW c \in Clients, Connect(c)
      PROVE  Safe'
  <2>1. PICK server \in {"http", "https"} :
          /\ (IF server = "http" THEN http ELSE https) = "listening"
          /\ conn' = [conn EXCEPT ![c] = [server |-> server, state |-> "fresh"]]
    BY <1>6 DEF Connect
  <2>2. QED
    BY <1>6, <2>1, ConnectionsKeepSafe DEF Connect, Open, TypeOK
<1>7. ASSUME NEW c \in Clients, SendRequest(c) \/ HandleRequest(c) \/ Disconnect(c)
      PROVE  Safe'
  <2>1. /\ conn[c].state # "gone"
        /\ conn' = [conn EXCEPT ![c].state = conn'[c].state] \/ conn' = [conn EXCEPT ![c] = NotConnected]
        /\ UNCHANGED <<process, servers, stops, waits>>
    BY <1>7 DEF SendRequest, HandleRequest, Disconnect, SetState, TypeOK
  <2>2. \A d \in Clients, server \in {"http", "https"} : Open(d, server)' => Open(d, server)
    BY <2>1 DEF Open, TypeOK, NotConnected, Connection
  <2>3. QED
    BY <2>1, <2>2, ConnectionsKeepSafe
<1>8. ASSUME NEW c \in Fetchers, DuringFetch(c) \/ HandleRequestAsync(c)
      PROVE  Safe'
  <2>1. /\ \/ conn' = conn
           \/ conn[c].state = "fetching" /\ conn' = [conn EXCEPT ![c].state = "idle"]
           \/ conn' = [conn EXCEPT ![c] = NotConnected]
        /\ UNCHANGED <<process, servers, stops, waits>>
    BY <1>8 DEF DuringFetch, HandleRequestAsync, SetState
  <2>2. \A d \in Clients, server \in {"http", "https"} : Open(d, server)' => Open(d, server)
    BY <2>1, ServerAssumption DEF Open, TypeOK, NotConnected, Connection
  <2>3. QED
    BY <2>1, <2>2, ConnectionsKeepSafe
<1>9. QED
  BY <1>1, <1>2, <1>3, <1>4, <1>5, <1>6, <1>7, <1>8, StopKeepsSafe DEF Next, Start

LEMMA InitLInv == Init => LInv
<1> SUFFICES ASSUME Init
             PROVE  LInv
  OBVIOUS
<1>1. FInv
  BY NoFetchSensible DEF Init, FInv
<1>2. TypeOK
  BY <1>1, FetchTyped DEF Init, TypeOK, NoOptions, Connection, Stopping
<1>3. NoneOpen("https")
  BY DEF Init, NoneOpen, Open, NotConnected
<1>4. Safe
  BY <1>3 DEF Init, Safe, Served, Intact, Teardown, Drained
<1>5. QED
  BY <1>1, <1>2, <1>4 DEF LInv

LEMMA NextLInv == LInv /\ [Next]_vars => LInv'
<1> SUFFICES ASSUME LInv, [Next]_vars
             PROVE  LInv'
  OBVIOUS
<1>1. FInv'
  BY NextFInv DEF LInv
<1>2. CASE Next
  BY <1>1, <1>2, StepTyped, NextSafe DEF LInv
<1>3. CASE UNCHANGED vars
  <2>1. UNCHANGED <<process, servers, conn, stops, waits, fetch>>
    BY <1>3 DEF vars
  <2>2. TypeOK'
    BY <2>1 DEF LInv, TypeOK, FetchTypeOK, process, servers, Stopping
  <2>3. Safe'
    BY <2>1, ConnectionsKeepSafe DEF LInv, Open
  <2>4. QED
    BY <1>1, <2>2, <2>3 DEF LInv
<1>4. QED
  BY <1>2, <1>3

LEMMA LInvHolds == Spec => []LInv
BY InitLInv, NextLInv, PTL DEF Spec

(***************************************************************************)
(* The theorems.                                                           *)
(***************************************************************************)

\* The variables keep their types; in particular no call of stop() is under
\* way before start() has ended.
THEOREM ServerTypes == Spec => []TypeOK
<1>1. LInv => TypeOK
  BY DEF LInv
<1>2. QED
  BY <1>1, LInvHolds, PTL

\* A fetch yields the whole document or none, whatever its socket does.
THEOREM WholeDocuments == Spec => []WholeDocumentOrNone
<1>1. LInv => WholeDocumentOrNone
  BY DEF LInv, FInv, Sensible, WholeDocumentOrNone
<1>2. QED
  BY <1>1, LInvHolds, PTL

\* No service is advertised that is not served, while any number of stops
\* take the servers down.
THEOREM NothingStaleAdvertised == Spec => []AdvertisedIsServed
<1>1. LInv => AdvertisedIsServed
  <2> SUFFICES ASSUME LInv, advertised # {}
               PROVE  http = "listening" /\ ("ipps" \in advertised => https = "listening")
    BY DEF AdvertisedIsServed
  <2>1. main = "up"
    BY DEF LInv, Safe, Served
  <2>2. \A s \in Stops : Early(s)
    BY DEF LInv, TypeOK, Safe, Teardown, Early
  <2>3. QED
    BY <2>1, <2>2 DEF LInv, Safe, Intact
<1>2. QED
  BY <1>1, LInvHolds, PTL

\* A printer that has started, with or without TLS, serves what it says.
THEOREM StartServes == Spec => []StartedServes
<1>1. LInv => StartedServes
  BY DEF LInv, Safe, Intact, StartedServes, Stopping, Early
<1>2. QED
  BY <1>1, LInvHolds, PTL

\* After any call of stop() has returned nothing listens or is advertised.
THEOREM StopIsQuiet == Spec => []StoppedIsQuiet
<1>1. LInv => StoppedIsQuiet
  BY DEF LInv, Safe, Teardown, StoppedIsQuiet
<1>2. QED
  BY <1>1, LInvHolds, PTL

\* A stop() that nobody repeats returns when the last client was answered.
THEOREM StopIsGraceful == Spec => []GracefulStop
<1>1. LInv => GracefulStop
  <2> SUFFICES ASSUME LInv, NEW s \in Stops, stops[s] = "done",
                      \A t \in Stops \ {s} : stops[t] = "none", NEW c \in Clients
               PROVE  conn[c].state \in {"none", "gone"}
    BY DEF GracefulStop
  <2>1. NoneOpen("http") /\ NoneOpen("https")
    BY DEF LInv, Safe, Drained, Only
  <2>2. conn[c] \in Connection
    BY DEF LInv, TypeOK
  <2>3. QED
    BY <2>1, <2>2 DEF NoneOpen, Open, Connection, NotConnected
<1>2. QED
  BY <1>1, LInvHolds, PTL
=============================================================================
