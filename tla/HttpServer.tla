------------------------------ MODULE HttpServer ------------------------------
(* http_plugin in two parts, each a specification of its own: requests and    *)
(* their responses (Http), and the unix socket the server listens on (Unix).  *)
(* The module ends with proofs: one response per connection, for every set of *)
(* requests and of threads, and a reachable service, for every set of         *)
(* processes.                                                                 *)
EXTENDS Integers, FiniteSets, FiniteSetsExt, TLAPS

-----------------------------------------------------------------------------
(***************************************************************************)
(* http_plugin: requests arrive on the threads of a pool, their handlers   *)
(* run on the main thread, and their responses are sent by the pool again. *)
(* bytes_in_flight counts the bodies of requests and responses that are    *)
(* being processed; a request that finds too many of them is refused.      *)
(*                                                                         *)
(* A request is a model value; the constants say what the code finds in    *)
(* it.  A handler answers through a callback, at once or later, throws, or *)
(* (start_generation of txn_test_gen_plugin) reports many results of which *)
(* only the first may be passed on.                                        *)
(***************************************************************************)

CONSTANTS
    Request,
    Host,        \* [Request -> <<name, port>>]: its Host header; port 0 when it has none
    ValidateHost,\* http-validate-host
    ValidHosts,  \* the addresses listened on, and the aliases
    DefaultPort,
    Resources,   \* [Request -> "options" | "unknown" | kind of handler]
    Body, Json,  \* [Request -> Nat]: sizes of the request's and the response's bodies
    Reports,     \* how many results a handler of kind "many" reports
    Threads,     \* http-threads
    MaxBytes     \* http-max-bytes-in-flight-mb

Handlers == {"sync", "async", "throws", "many"}

ASSUME HttpAssumption ==
    /\ Threads \in Nat \ {0}
    /\ Resources \in [Request -> Handlers \cup {"options", "unknown"}]
    /\ Body \in [Request -> Nat] /\ Json \in [Request -> Nat]
    /\ Reports \in Nat

VARIABLES
    max_bytes_in_flight,
    bytes_in_flight,
    at,          \* [Request -> how far its processing is]
    status,      \* [Request -> code the connection was given last, or "none"]
    called,      \* [Request -> Nat]: times_called, the results reported
    owed,        \* [Request -> Nat]: results its handler will report after it has returned
    posted,      \* [Request -> Nat]: responses posted to the pool
    sending,     \* [Request -> Nat]: responses a thread of the pool is sending
    sent,        \* [Request -> Nat]: responses sent on its connection
    stopped      \* plugin_shutdown

httpVars == <<max_bytes_in_flight, bytes_in_flight, at, status, called, owed, posted, sending, sent, stopped>>

\* plugin_initialize returns before it reads the limits when HTTPS is asked
\* for without its key or certificate: max_bytes_in_flight keeps its default.
ConfiguredLimit(httpsComplete) == IF httpsComplete THEN MaxBytes ELSE 0

HttpInit ==
    /\ max_bytes_in_flight \in {ConfiguredLimit(complete) : complete \in BOOLEAN}
    /\ bytes_in_flight = 0
    /\ at = [r \in Request |-> "client"]
    /\ status = [r \in Request |-> "none"]
    /\ called = [r \in Request |-> 0] /\ owed = called
    /\ posted = called /\ sending = called /\ sent = called
    /\ stopped = FALSE

SumOver(f, S) == FoldSet(LAMBDA r, n : n + f[r], 0, S)

ThreadFree == /\ ~stopped
              /\ Cardinality({r \in Request : at[r] = "admitted"}) + SumOver(sending, Request) < Threads
MainFree == ~stopped /\ \A r \in Request : at[r] # "called"

--------------------------------------------------------------------------------
(* handle_http_request, on a thread of the pool *)

HostIsValid(host) ==
    ValidateHost => (IF host[2] = 0 THEN <<host[1], DefaultPort>> ELSE host) \in ValidHosts

AllowHost(r) == Host[r][1] # "" /\ HostIsValid(Host[r])

\* allow_host, OPTIONS, too many bytes in flight, no handler: in this order.
Refusal(r) ==
    IF ~AllowHost(r) THEN "400"
    ELSE IF Resources[r] = "options" THEN "200"
    ELSE IF bytes_in_flight > max_bytes_in_flight THEN "429"
    ELSE IF Resources[r] = "unknown" THEN "404"
    ELSE "none"

\* A request that is not deferred is answered when its handler returns.
HandleRequest(r) ==
    /\ ThreadFree /\ at[r] = "client"
    /\ status' = [status EXCEPT ![r] = Refusal(r)]
    /\ IF Refusal(r) = "none"
       THEN at' = [at EXCEPT ![r] = "admitted"] /\ UNCHANGED sent
       ELSE at' = [at EXCEPT ![r] = "done"] /\ sent' = [sent EXCEPT ![r] = @ + 1]
    /\ UNCHANGED <<max_bytes_in_flight, bytes_in_flight, called, owed, posted, sending, stopped>>

\* defer_http_response, and the handler is posted to the main thread.
DeferRequest(r) ==
    /\ at[r] = "admitted"
    /\ at' = [at EXCEPT ![r] = "queued"]
    /\ bytes_in_flight' = bytes_in_flight + Body[r]
    /\ UNCHANGED <<max_bytes_in_flight, status, called, owed, posted, sending, sent, stopped>>

--------------------------------------------------------------------------------
(* The handler, on the main thread *)

PassesAll(r) == called[r] >= 0

\* A report reaches the callback, which posts the response to the pool, when
\* it is the first: times_called of CALL_ASYNC.
Passes(r) == called[r] = 0
Report(r) ==
    /\ called' = [called EXCEPT ![r] = @ + 1]
    /\ posted' = [posted EXCEPT ![r] = @ + (IF Passes(r) THEN 1 ELSE 0)]

\* A synchronous handler calls back before it returns, with its result or,
\* through http_plugin::handle_exception, an error; the others return first.
CallHandler(r) ==
    /\ MainFree /\ at[r] = "queued"
    /\ at' = [at EXCEPT ![r] = "called"]
    /\ IF Resources[r] = "sync"
       THEN Report(r) /\ UNCHANGED owed
       ELSE /\ owed' = [owed EXCEPT ![r] = CASE Resources[r] = "async" -> 1
                                             [] Resources[r] = "many" -> Reports
                                             [] OTHER -> 0]
            /\ UNCHANGED <<called, posted>>
    /\ UNCHANGED <<max_bytes_in_flight, bytes_in_flight, status, sending, sent, stopped>>

\* Only a handler that returns gives its request's bytes back.
HandlerReturns(r) ==
    /\ at[r] = "called" /\ Resources[r] # "throws"
    /\ at' = [at EXCEPT ![r] = "done"]
    /\ bytes_in_flight' = bytes_in_flight - Body[r]
    /\ UNCHANGED <<max_bytes_in_flight, status, called, owed, posted, sending, sent, stopped>>

\* CALL_ASYNC parses the arguments, and CALL validates, outside a try:
\* handle_exception<T> answers on the main thread.
HandlerThrows(r) ==
    /\ at[r] = "called" /\ Resources[r] = "throws"
    /\ at' = [at EXCEPT ![r] = "done"]
    /\ status' = [status EXCEPT ![r] = "500"]
    /\ sent' = [sent EXCEPT ![r] = @ + 1]
    /\ UNCHANGED <<max_bytes_in_flight, bytes_in_flight, called, owed, posted, sending, stopped>>

\* The results of transactions that were pushed reach the handler's callback.
LateReport(r) ==
    /\ MainFree /\ owed[r] > 0
    /\ owed' = [owed EXCEPT ![r] = @ - 1]
    /\ Report(r)
    /\ UNCHANGED <<max_bytes_in_flight, bytes_in_flight, at, status, sending, sent, stopped>>

--------------------------------------------------------------------------------
(* The response, on a thread of the pool *)

BeginResponse(r) ==
    /\ ThreadFree /\ posted[r] > 0
    /\ posted' = [posted EXCEPT ![r] = @ - 1]
    /\ sending' = [sending EXCEPT ![r] = @ + 1]
    /\ bytes_in_flight' = bytes_in_flight + Json[r]
    /\ UNCHANGED <<max_bytes_in_flight, at, status, called, owed, sent, stopped>>

EndResponseKeepsBytes(r) ==
    /\ sending[r] > 0
    /\ sending' = [sending EXCEPT ![r] = @ - 1]
    /\ status' = [status EXCEPT ![r] = "result"]
    /\ sent' = [sent EXCEPT ![r] = @ + 1]
    /\ UNCHANGED <<max_bytes_in_flight, bytes_in_flight, at, called, owed, posted, stopped>>

EndResponse(r) ==
    /\ sending[r] > 0
    /\ sending' = [sending EXCEPT ![r] = @ - 1]
    /\ status' = [status EXCEPT ![r] = "result"]
    /\ sent' = [sent EXCEPT ![r] = @ + 1]
    /\ bytes_in_flight' = bytes_in_flight - Json[r]
    /\ UNCHANGED <<max_bytes_in_flight, at, called, owed, posted, stopped>>

\* plugin_shutdown, on the main thread: the pool's threads finish the step
\* they are in, what was posted to them is lost.
Shutdown ==
    /\ MainFree
    /\ stopped' = TRUE
    /\ posted' = [r \in Request |-> 0]
    /\ UNCHANGED <<max_bytes_in_flight, bytes_in_flight, at, status, called, owed, sending, sent>>

HttpNext ==
    \/ \E r \in Request :
        \/ HandleRequest(r) \/ DeferRequest(r)
        \/ CallHandler(r) \/ HandlerReturns(r) \/ HandlerThrows(r) \/ LateReport(r)
        \/ BeginResponse(r) \/ EndResponse(r)
    \/ Shutdown

HttpSpec == HttpInit /\ [][HttpNext]_httpVars
--------------------------------------------------------------------------------
(* A connection is given one response however its handler answers: a second  *)
(* send_http_response throws on a thread of the pool, where nothing catches. *)
OneResponse == \A r \in Request : sent[r] + sending[r] + posted[r] <= 1

Throwing == {r \in Request : at[r] = "done" /\ status[r] = "500"}

(* bytes_in_flight is what is being processed, in every interleaving of the  *)
(* pool's threads with the main thread, plus the requests whose handler      *)
(* threw.                                                                    *)
BytesAccounted ==
    bytes_in_flight = SumOver(Body, {r \in Request : at[r] \in {"queued", "called"}} \cup Throwing)
                      + SumOver([r \in Request |-> sending[r] * Json[r]], Request)

(* "Maximum size in megabytes http_plugin should use for processing http     *)
(* requests. 503 error response when exceeded" (the option's description): a *)
(* request that finds nothing in progress is not refused as busy.            *)
IdleNotBusy ==
    (\A r \in Request : at[r] \in {"client", "done"} /\ sending[r] = 0) => bytes_in_flight <= max_bytes_in_flight

-----------------------------------------------------------------------------
(***************************************************************************)
(* local_endpoint: processes (keosd, nodeos) that serve one Unix socket    *)
(* path.  A process that finds a socket file at the path tries to connect  *)
(* to it, removes it when no one answers, and binds its own.               *)
(*                                                                         *)
(* Sockets are numbered; a file is the number of the socket that was bound *)
(* to make it.  The steps of listen() are those of the file system and of  *)
(* the kernel, which other processes can come between.                     *)
(***************************************************************************)

CONSTANTS Process, MaxSockets   \* MaxSockets: bound on the sockets that are bound

VARIABLES
    state,       \* [Process -> "UNINITIALIZED" | "READY" | "LISTENING"]: m_state
    step,        \* [Process -> where its call of listen() is]
    acceptor,    \* [Process -> number of the socket m_acceptor is bound to, 0 for none]
    file,        \* the socket the path names, 0 when there is no file
    open,        \* sockets that are listening
    sockets,     \* sockets made so far
    overlapped   \* two calls of listen() have overlapped

unixVars == <<state, step, acceptor, file, open, sockets, overlapped>>

UnixInit ==
    /\ state = [p \in Process |-> "UNINITIALIZED"]
    /\ step = [p \in Process |-> "idle"]
    /\ acceptor = [p \in Process |-> 0]
    /\ file = 0 /\ open = {} /\ sockets = 0
    /\ overlapped = FALSE

InListen(p) == step[p] # "idle"

\* init_asio: invalid_state in any other state.
InitAsio(p) ==
    /\ state[p] = "UNINITIALIZED"
    /\ state' = [state EXCEPT ![p] = "READY"]
    /\ UNCHANGED <<step, acceptor, file, open, sockets, overlapped>>

TestConnectTouches(p) ==
    /\ state[p] = "READY" /\ ~InListen(p) /\ sockets < MaxSockets
    /\ overlapped' = (overlapped \/ \E q \in Process \ {p} : InListen(q))
    /\ step' = [step EXCEPT ![p] = IF file = 0 THEN "bind" ELSE "unlink"]
    /\ UNCHANGED <<state, acceptor, file, open, sockets>>

\* listen(): connect to the path; a service that answers is left alone.
\* Refused means a file no one listens behind.
TestConnect(p) ==
    /\ state[p] = "READY" /\ ~InListen(p) /\ sockets < MaxSockets
    /\ overlapped' = (overlapped \/ \E q \in Process \ {p} : InListen(q))
    /\ step' = [step EXCEPT ![p] = IF file = 0 THEN "bind" ELSE IF file \in open THEN "idle" ELSE "unlink"]
    /\ UNCHANGED <<state, acceptor, file, open, sockets>>

Unlink(p) ==
    /\ step[p] = "unlink"
    /\ file' = 0
    /\ step' = [step EXCEPT ![p] = "bind"]
    /\ UNCHANGED <<state, acceptor, open, sockets, overlapped>>

\* bind fails when the file is there; the acceptor is closed again.
Bind(p) ==
    /\ step[p] = "bind"
    /\ IF file = 0
       THEN /\ file' = sockets + 1 /\ sockets' = sockets + 1
            /\ acceptor' = [acceptor EXCEPT ![p] = sockets + 1]
            /\ step' = [step EXCEPT ![p] = "listen"]
       ELSE step' = [step EXCEPT ![p] = "idle"] /\ UNCHANGED <<file, sockets, acceptor>>
    /\ UNCHANGED <<state, open, overlapped>>

Listen(p) ==
    /\ step[p] = "listen"
    /\ step' = [step EXCEPT ![p] = "idle"]
    /\ state' = [state EXCEPT ![p] = "LISTENING"]
    /\ open' = open \cup {acceptor[p]}
    /\ UNCHANGED <<acceptor, file, sockets, overlapped>>

\* stop_listening unlinks the path, whatever is there.
StopListening(p) ==
    /\ state[p] = "LISTENING"
    /\ state' = [state EXCEPT ![p] = "READY"]
    /\ file' = 0
    /\ open' = open \ {acceptor[p]}
    /\ acceptor' = [acceptor EXCEPT ![p] = 0]
    /\ UNCHANGED <<step, sockets, overlapped>>

\* ~local_endpoint at the end of the process, which is then started again.
Destroy(p) ==
    /\ ~InListen(p) /\ state[p] # "UNINITIALIZED"
    /\ file' = IF state[p] = "LISTENING" THEN 0 ELSE file
    /\ state' = [state EXCEPT ![p] = "UNINITIALIZED"]
    /\ open' = open \ {acceptor[p]}
    /\ acceptor' = [acceptor EXCEPT ![p] = 0]
    /\ UNCHANGED <<step, sockets, overlapped>>

\* The process is killed: its sockets close, the file stays.
Killed(p) ==
    /\ state[p] # "UNINITIALIZED"
    /\ state' = [state EXCEPT ![p] = "UNINITIALIZED"]
    /\ step' = [step EXCEPT ![p] = "idle"]
    /\ open' = open \ {acceptor[p]}
    /\ acceptor' = [acceptor EXCEPT ![p] = 0]
    /\ UNCHANGED <<file, sockets, overlapped>>

UnixNext == \E p \in Process :
    \/ InitAsio(p) \/ TestConnect(p) \/ Unlink(p) \/ Bind(p) \/ Listen(p)
    \/ StopListening(p) \/ Destroy(p) \/ Killed(p)

UnixSpec == UnixInit /\ [][UnixNext]_unixVars
--------------------------------------------------------------------------------
(* A listening process stays reachable at the path through every start,      *)
(* stop and crash of the others ("probably another keosd, don't touch it"),  *)
(* as long as no two of them are in listen() at once; two that are can       *)
(* remove each other's files.                                                *)
ServiceReachable ==
    ~overlapped => \A p \in Process : state[p] = "LISTENING" => file = acceptor[p]

-----------------------------------------------------------------------------
(* Requests and responses. *)

\* The responses a connection has been, is being or is going to be given.
Responses(r) == sent[r] + sending[r] + posted[r]

HttpTypes ==
    /\ at \in [Request -> {"client", "admitted", "queued", "called", "done"}]
    /\ called \in [Request -> Nat] /\ owed \in [Request -> Nat]
    /\ posted \in [Request -> Nat] /\ sending \in [Request -> Nat] /\ sent \in [Request -> Nat]

\* A request is given no response before its handler is called.  A handler that
\* answers later has not answered when it returns, as the main thread runs nothing
\* else meanwhile.  As long as results are to come, a response stands for one of the
\* results that came before: the next is passed on only if there was none.
AnswerInv(r) ==
    /\ Responses(r) <= 1
    /\ owed[r] # 0 => Responses(r) <= called[r]
    /\ at[r] \in {"client", "admitted", "queued"} =>
           called[r] = 0 /\ owed[r] = 0 /\ Responses(r) = 0
    /\ at[r] = "called" /\ Resources[r] # "sync" => called[r] = 0 /\ Responses(r) = 0
    /\ at[r] = "called" /\ Resources[r] = "throws" => owed[r] = 0

HttpInv == HttpTypes /\ \A r \in Request : AnswerInv(r)

\* No request has come.
LEMMA HttpInitial == HttpInit => HttpInv
BY DEF HttpInit, HttpInv, HttpTypes, AnswerInv, Responses

\* The pool's threads take requests.
LEMMA RequestAnswers ==
    ASSUME HttpInv, NEW r \in Request, HandleRequest(r) \/ DeferRequest(r)
    PROVE  HttpInv'
<1>. USE DEF HttpInv, HttpTypes
<1>1. HttpTypes'
  BY DEF HandleRequest, DeferRequest
<1>2. ASSUME NEW q \in Request PROVE AnswerInv(q)'
  <2>1. AnswerInv(q) /\ AnswerInv(r)
    OBVIOUS
  <2>. QED BY <2>1 DEF HandleRequest, DeferRequest, AnswerInv, Responses
<1>. QED BY <1>1, <1>2

\* The main thread runs the handler.
LEMMA CallAnswers ==
    ASSUME HttpInv, NEW r \in Request, CallHandler(r)
    PROVE  HttpInv'
<1>. USE DEF HttpInv, HttpTypes
<1>1. HttpTypes'
  BY HttpAssumption DEF CallHandler, Report, Passes
<1>2. ASSUME NEW q \in Request PROVE AnswerInv(q)'
  <2>1. AnswerInv(q) /\ AnswerInv(r)
    OBVIOUS
  <2>. QED BY <2>1, HttpAssumption DEF CallHandler, Report, Passes, AnswerInv, Responses
<1>. QED BY <1>1, <1>2

\* The handler returns or throws.
LEMMA HandlerEndAnswers ==
    ASSUME HttpInv, NEW r \in Request, HandlerReturns(r) \/ HandlerThrows(r)
    PROVE  HttpInv'
<1>. USE DEF HttpInv, HttpTypes
<1>1. HttpTypes'
  BY DEF HandlerReturns, HandlerThrows
<1>2. ASSUME NEW q \in Request PROVE AnswerInv(q)'
  <2>1. AnswerInv(q) /\ AnswerInv(r)
    OBVIOUS
  <2>. QED BY <2>1 DEF HandlerReturns, HandlerThrows, AnswerInv, Responses
<1>. QED BY <1>1, <1>2

\* A result that comes later.
LEMMA LateReportAnswers ==
    ASSUME HttpInv, NEW r \in Request, LateReport(r)
    PROVE  HttpInv'
<1>. USE DEF HttpInv, HttpTypes
<1>1. HttpTypes'
  BY DEF LateReport, Report, Passes
<1>2. ASSUME NEW q \in Request PROVE AnswerInv(q)'
  <2>1. AnswerInv(q) /\ AnswerInv(r)
    OBVIOUS
  <2>2. at[r] # "called"
    BY DEF LateReport, MainFree
  <2>. QED BY <2>1, <2>2 DEF LateReport, Report, Passes, AnswerInv, Responses
<1>. QED BY <1>1, <1>2

\* The pool's threads send responses, or are stopped.
LEMMA ResponseAnswers ==
    ASSUME HttpInv, NEW r \in Request, BeginResponse(r) \/ EndResponse(r)
    PROVE  HttpInv'
<1>. USE DEF HttpInv, HttpTypes
<1>1. HttpTypes'
  BY DEF BeginResponse, EndResponse
<1>2. ASSUME NEW q \in Request PROVE AnswerInv(q)'
  <2>1. AnswerInv(q) /\ AnswerInv(r)
    OBVIOUS
  <2>. QED BY <2>1 DEF BeginResponse, EndResponse, AnswerInv, Responses
<1>. QED BY <1>1, <1>2

\* The plugin shuts down.
LEMMA ShutdownAnswers ==
    ASSUME HttpInv, Shutdown
    PROVE  HttpInv'
<1>. USE DEF HttpInv, HttpTypes
<1>1. HttpTypes'
  BY DEF Shutdown
<1>2. ASSUME NEW q \in Request PROVE AnswerInv(q)'
  BY DEF Shutdown, AnswerInv, Responses
<1>. QED BY <1>1, <1>2

\* A connection is given at most one response: whatever kind of handler a request has,
\* however many results it reports and however the threads of the pool interleave with
\* the main thread and with the shutdown, no second send_http_response is ever under way.
THEOREM HttpOneResponse == HttpSpec => []OneResponse
<1>1. HttpInv /\ [HttpNext]_httpVars => HttpInv'
  <2>. SUFFICES ASSUME HttpInv, [HttpNext]_httpVars PROVE HttpInv'
    OBVIOUS
  <2>1. CASE UNCHANGED httpVars
    BY <2>1 DEF httpVars, HttpInv, HttpTypes, AnswerInv, Responses
  <2>. QED BY <2>1, RequestAnswers, CallAnswers, HandlerEndAnswers, LateReportAnswers,
              ResponseAnswers, ShutdownAnswers DEF HttpNext
<1>2. HttpInv => OneResponse
  BY DEF HttpInv, AnswerInv, Responses, OneResponse
<1>. QED BY <1>1, <1>2, HttpInitial, PTL DEF HttpSpec

-----------------------------------------------------------------------------
(* The unix socket. *)

UnixTypes ==
    /\ state \in [Process -> {"UNINITIALIZED", "READY", "LISTENING"}]
    /\ step \in [Process -> {"idle", "unlink", "bind", "listen"}]
    /\ acceptor \in [Process -> Nat]
    /\ file \in Nat /\ sockets \in Nat /\ overlapped \in BOOLEAN

\* A process in listen() is not listening yet, and has a socket only in its last step
\* or when it listens.
EndpointInv(p) ==
    /\ InListen(p) => state[p] = "READY"
    /\ acceptor[p] # 0 => state[p] = "LISTENING" \/ step[p] = "listen"

\* As long as no two calls of listen() have overlapped: a process that has found the
\* path free, or a file no one answers behind, is alone until its own call ends, and
\* who listens is the only one.
AloneInv(p) ==
    /\ step[p] = "listen" => file = acceptor[p] /\ acceptor[p] # 0
    /\ state[p] = "LISTENING" =>
           file = acceptor[p] /\ acceptor[p] # 0 /\ acceptor[p] \in open
    /\ \A q \in Process \ {p} :
           InListen(p) \/ state[p] = "LISTENING" => ~InListen(q) /\ state[q] # "LISTENING"

UnixInv ==
    /\ UnixTypes
    /\ \A p \in Process : EndpointInv(p)
    /\ ~overlapped => \A p \in Process : AloneInv(p)

\* No process has begun to listen.
LEMMA UnixInitial == UnixInit => UnixInv
<1>. SUFFICES ASSUME UnixInit PROVE UnixInv
  OBVIOUS
<1>1. UnixTypes
  BY ZenonT(30) DEF UnixInit, UnixTypes
<1>2. \A p \in Process : state[p] = "UNINITIALIZED" /\ ~InListen(p) /\ acceptor[p] = 0
                         /\ step[p] # "listen"
  BY DEF UnixInit, InListen
<1>. QED BY <1>1, <1>2 DEF UnixInv, EndpointInv, AloneInv

\* A process creates its acceptor.
LEMMA InitAsioAlone ==
    ASSUME UnixInv, NEW p \in Process, InitAsio(p)
    PROVE  UnixInv'
<1>. USE DEF UnixInv, UnixTypes, InListen
<1>1. UnixTypes'
  BY DEF InitAsio
<1>2. ASSUME NEW q \in Process PROVE EndpointInv(q)'
  <2>1. EndpointInv(q) /\ EndpointInv(p)
    OBVIOUS
  <2>. QED BY <2>1 DEF InitAsio, EndpointInv
<1>3. ASSUME ~overlapped', NEW q \in Process PROVE AloneInv(q)'
  <2>1. ~overlapped
    BY <1>3 DEF InitAsio
  <2>2. AloneInv(q) /\ AloneInv(p) /\ EndpointInv(q) /\ EndpointInv(p)
    BY <2>1
  <2>. QED BY <1>3, <2>1, <2>2 DEF InitAsio, AloneInv, EndpointInv
<1>. QED BY <1>1, <1>2, <1>3

\* It finds the socket file and tries to connect to it.
LEMMA TestConnectAlone ==
    ASSUME UnixInv, NEW p \in Process, TestConnect(p)
    PROVE  UnixInv'
<1>. USE DEF UnixInv, UnixTypes, InListen
<1>1. UnixTypes'
  BY DEF TestConnect
<1>2. ASSUME NEW q \in Process PROVE EndpointInv(q)'
  <2>1. EndpointInv(q) /\ EndpointInv(p)
    OBVIOUS
  <2>. QED BY <2>1 DEF TestConnect, EndpointInv
<1>3. ASSUME ~overlapped', NEW q \in Process PROVE AloneInv(q)'
  <2>1. ~overlapped
    BY <1>3 DEF TestConnect
  <2>2. AloneInv(q) /\ AloneInv(p) /\ EndpointInv(q) /\ EndpointInv(p)
    BY <2>1
  <2>. QED BY <1>3, <2>1, <2>2, ZenonT(30) DEF TestConnect, AloneInv, EndpointInv
<1>. QED BY <1>1, <1>2, <1>3

\* It removes a socket that nobody answers.
LEMMA UnlinkAlone ==
    ASSUME UnixInv, NEW p \in Process, Unlink(p)
    PROVE  UnixInv'
<1>. USE DEF UnixInv, UnixTypes, InListen
<1>1. UnixTypes'
  BY DEF Unlink
<1>2. ASSUME NEW q \in Process PROVE EndpointInv(q)'
  <2>1. EndpointInv(q) /\ EndpointInv(p)
    OBVIOUS
  <2>. QED BY <2>1 DEF Unlink, EndpointInv
<1>3. ASSUME ~overlapped', NEW q \in Process PROVE AloneInv(q)'
  <2>1. ~overlapped
    BY <1>3 DEF Unlink
  <2>2. AloneInv(q) /\ AloneInv(p) /\ EndpointInv(q) /\ EndpointInv(p)
    BY <2>1
  <2>. QED BY <1>3, <2>1, <2>2 DEF Unlink, AloneInv, EndpointInv
<1>. QED BY <1>1, <1>2, <1>3

\* It binds the endpoint.
LEMMA BindAlone ==
    ASSUME UnixInv, NEW p \in Process, Bind(p)
    PROVE  UnixInv'
<1>. USE DEF UnixInv, UnixTypes, InListen
<1>1. UnixTypes'
  BY DEF Bind
<1>2. ASSUME NEW q \in Process PROVE EndpointInv(q)'
  <2>1. EndpointInv(q) /\ EndpointInv(p)
    OBVIOUS
  <2>. QED BY <2>1 DEF Bind, EndpointInv
<1>3. ASSUME ~overlapped', NEW q \in Process PROVE AloneInv(q)'
  <2>1. ~overlapped
    BY <1>3 DEF Bind
  <2>2. AloneInv(q) /\ AloneInv(p) /\ EndpointInv(q) /\ EndpointInv(p)
    BY <2>1
  <2>. QED BY <1>3, <2>1, <2>2 DEF Bind, AloneInv, EndpointInv
<1>. QED BY <1>1, <1>2, <1>3

\* It listens.
LEMMA ListenAlone ==
    ASSUME UnixInv, NEW p \in Process, Listen(p)
    PROVE  UnixInv'
<1>. USE DEF UnixInv, UnixTypes, InListen
<1>1. UnixTypes'
  BY DEF Listen
<1>2. ASSUME NEW q \in Process PROVE EndpointInv(q)'
  <2>1. EndpointInv(q) /\ EndpointInv(p)
    OBVIOUS
  <2>. QED BY <2>1 DEF Listen, EndpointInv
<1>3. ASSUME ~overlapped', NEW q \in Process PROVE AloneInv(q)'
  <2>1. ~overlapped
    BY <1>3 DEF Listen
  <2>2. AloneInv(q) /\ AloneInv(p) /\ EndpointInv(q) /\ EndpointInv(p)
    BY <2>1
  <2>. QED BY <1>3, <2>1, <2>2 DEF Listen, AloneInv, EndpointInv
<1>. QED BY <1>1, <1>2, <1>3

\* It stops listening.
LEMMA StopListeningAlone ==
    ASSUME UnixInv, NEW p \in Process, StopListening(p)
    PROVE  UnixInv'
<1>. USE DEF UnixInv, UnixTypes, InListen
<1>1. UnixTypes'
  BY DEF StopListening
<1>2. ASSUME NEW q \in Process PROVE EndpointInv(q)'
  <2>1. EndpointInv(q) /\ EndpointInv(p)
    OBVIOUS
  <2>. QED BY <2>1 DEF StopListening, EndpointInv
<1>3. ASSUME ~overlapped', NEW q \in Process PROVE AloneInv(q)'
  <2>1. ~overlapped
    BY <1>3 DEF StopListening
  <2>2. AloneInv(q) /\ AloneInv(p) /\ EndpointInv(q) /\ EndpointInv(p)
    BY <2>1
  <2>. QED BY <1>3, <2>1, <2>2 DEF StopListening, AloneInv, EndpointInv
<1>. QED BY <1>1, <1>2, <1>3

\* Its server object is destroyed.
LEMMA DestroyAlone ==
    ASSUME UnixInv, NEW p \in Process, Destroy(p)
    PROVE  UnixInv'
<1>. USE DEF UnixInv, UnixTypes, InListen
<1>1. UnixTypes'
  BY DEF Destroy
<1>2. ASSUME NEW q \in Process PROVE EndpointInv(q)'
  <2>1. EndpointInv(q) /\ EndpointInv(p)
    OBVIOUS
  <2>. QED BY <2>1 DEF Destroy, EndpointInv
<1>3. ASSUME ~overlapped', NEW q \in Process PROVE AloneInv(q)'
  <2>1. ~overlapped
    BY <1>3 DEF Destroy
  <2>2. AloneInv(q) /\ AloneInv(p) /\ EndpointInv(q) /\ EndpointInv(p)
    BY <2>1
  <2>. QED BY <1>3, <2>1, <2>2 DEF Destroy, AloneInv, EndpointInv
<1>. QED BY <1>1, <1>2, <1>3

\* It dies.
LEMMA KilledAlone ==
    ASSUME UnixInv, NEW p \in Process, Killed(p)
    PROVE  UnixInv'
<1>. USE DEF UnixInv, UnixTypes, InListen
<1>1. UnixTypes'
  BY DEF Killed
<1>2. ASSUME NEW q \in Process PROVE EndpointInv(q)'
  <2>1. EndpointInv(q) /\ EndpointInv(p)
    OBVIOUS
  <2>. QED BY <2>1 DEF Killed, EndpointInv
<1>3. ASSUME ~overlapped', NEW q \in Process PROVE AloneInv(q)'
  <2>1. ~overlapped
    BY <1>3 DEF Killed
  <2>2. AloneInv(q) /\ AloneInv(p) /\ EndpointInv(q) /\ EndpointInv(p)
    BY <2>1
  <2>. QED BY <1>3, <2>1, <2>2 DEF Killed, AloneInv, EndpointInv
<1>. QED BY <1>1, <1>2, <1>3

\* A process that listens behind the path stays reachable there through every start,
\* stop, end and crash of any number of other processes, as long as no two of them are
\* in listen() at once.
THEOREM UnixServiceReachable == UnixSpec => []ServiceReachable
<1>1. UnixInv /\ [UnixNext]_unixVars => UnixInv'
  <2>. SUFFICES ASSUME UnixInv, [UnixNext]_unixVars PROVE UnixInv'
    OBVIOUS
  <2>1. CASE UNCHANGED unixVars
    BY <2>1 DEF unixVars, UnixInv, UnixTypes, EndpointInv, AloneInv, InListen
  <2>. QED BY <2>1, InitAsioAlone, TestConnectAlone, UnlinkAlone, BindAlone, ListenAlone,
              StopListeningAlone, DestroyAlone, KilledAlone DEF UnixNext
<1>2. UnixInv => ServiceReachable
  BY DEF UnixInv, AloneInv, ServiceReachable
<1>. QED BY <1>1, <1>2, UnixInitial, PTL DEF UnixSpec
================================================================================
