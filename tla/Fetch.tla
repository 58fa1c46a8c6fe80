--------------------------------- MODULE Fetch ---------------------------------
(***************************************************************************)
(* The fetch of a document-uri (src/documents/uri-fetch.ts): a promise     *)
(* settled by whichever socket event comes first, among those that may     *)
(* still come after it.                                                    *)
(*                                                                         *)
(* The document server is the environment: it answers with a status, sends *)
(* the body in chunks of any size, ends it, breaks off or goes silent.     *)
(* Sizes are in units of MAX_DOCUMENT_BYTES / Cap.                         *)
(***************************************************************************)
EXTENDS Naturals

CONSTANTS
  Fetchers,  \* the clients whose requests fetch a document
  Cap        \* the greatest document accepted

ASSUME FetchAssumption == Cap \in Nat \ {0}

VARIABLE fetch

\* A body of Cap + 1 stands for every body over the cap.
Sizes == 0..(Cap + 1)

Results == {"none", "ok", "scheme", "access", "too-large"}

\* phase: the next event of the socket.  A file has none: "unused".
FetchRecord == [phase : {"unused", "waiting", "body", "ended", "closed"},
                size : Sizes, total : Sizes, result : Results]

NoFetch == [phase |-> "unused", size |-> 0, total |-> 0, result |-> "none"]

FetchTypeOK == fetch \in [Fetchers -> FetchRecord]

Running(c) == fetch[c].phase \in {"waiting", "body"}
Settled(c) == fetch[c].result # "none"

\* finish(): only the first call counts.
Finish(f, result) == IF f.result = "none" THEN [f EXCEPT !.result = result] ELSE f

(***************************************************************************)
(* Starting.  A refused URI and a file settle at once, an http URI of an   *)
(* allowed host waits for its response.                                    *)
(***************************************************************************)
FetchFile(size) ==
  IF size > Cap THEN [NoFetch EXCEPT !.size = size, !.result = "too-large"]
  ELSE [NoFetch EXCEPT !.size = size, !.total = size, !.result = "ok"]

FetchLocalDocument(c) ==
  /\ ~ Running(c)
  /\ \/ \E result \in {"scheme", "access"} :
          fetch' = [fetch EXCEPT ![c] = Finish(NoFetch, result)]
     \/ \E size \in Sizes : fetch' = [fetch EXCEPT ![c] = FetchFile(size)]
     \/ \E size \in Sizes :
          fetch' = [fetch EXCEPT ![c] = [NoFetch EXCEPT !.phase = "waiting", !.size = size]]

(***************************************************************************)
(* The events of the socket.                                               *)
(***************************************************************************)
Close(f, result) == Finish([f EXCEPT !.phase = "closed"], result)

\* Fault: a refused status destroys the response and settles nothing.
FaultyResponse(c, accepted) ==
  /\ fetch[c].phase = "waiting"
  /\ fetch' = [fetch EXCEPT ![c].phase = IF accepted THEN "body" ELSE "closed"]

Response(c, accepted) ==
  /\ fetch[c].phase = "waiting"
  /\ fetch' = [fetch EXCEPT ![c] =
       IF accepted THEN [@ EXCEPT !.phase = "body"] ELSE Close(@, "access")]

\* Fault: a document of exactly the cap is refused.
FaultyData(c, n) ==
  /\ fetch[c].phase = "body"
  /\ fetch[c].total + n <= fetch[c].size
  /\ LET f == [fetch[c] EXCEPT !.total = @ + n]
     IN  fetch' = [fetch EXCEPT ![c] = IF f.total < Cap THEN f ELSE Close(f, "too-large")]

Data(c, n) ==
  /\ fetch[c].phase = "body"
  /\ fetch[c].total + n <= fetch[c].size
  /\ LET f == [fetch[c] EXCEPT !.total = @ + n]
     IN  fetch' = [fetch EXCEPT ![c] = IF f.total > Cap THEN Close(f, "too-large") ELSE f]

End(c) ==
  /\ fetch[c].phase = "body"
  /\ fetch[c].total = fetch[c].size
  /\ fetch' = [fetch EXCEPT ![c] = Finish([@ EXCEPT !.phase = "ended"], "ok")]

\* An error, or the idle timeout (HTTP_FETCH_TIMEOUT_MS without an event),
\* which destroys the request.  Both also come late, after the fetch settled:
\* the socket is kept for reuse, and a destroyed response reports an error.
ErrorOrTimeout(c) ==
  /\ fetch[c].phase # "unused"
  /\ fetch' = [fetch EXCEPT ![c] =
       IF Running(c) THEN Close(@, "access") ELSE Finish(@, "access")]

SocketEvent(c) ==
  \/ \E accepted \in BOOLEAN : Response(c, accepted)
  \/ \E n \in 1..(Cap + 1) : Data(c, n)
  \/ End(c)
  \/ ErrorOrTimeout(c)

(***************************************************************************)
(* Properties.                                                             *)
(***************************************************************************)

\* What a Print-URI gets is the whole document, never a prefix that the cap, an
\* error or the timeout left over, and only a document over the cap is called
\* too large; a socket event after the end takes no document back.
WholeDocumentOrNone == \A c \in Fetchers :
  LET f == fetch[c] IN
  /\ f.result = "ok" => f.total = f.size /\ f.size <= Cap
  /\ f.result = "too-large" => f.size > Cap
  /\ f.phase = "ended" => f.result = "ok"

\* Every fetch settles (unless the process dies): no answer, status, break or
\* silence of the document server leaves the printer's handler waiting.
FetchSettles == \A c \in Fetchers :
  Running(c) ~> (Settled(c) \/ fetch[c] = NoFetch)
=============================================================================
