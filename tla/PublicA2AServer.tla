-------------------------- MODULE PublicA2AServer ---------------------------
(***************************************************************************)
(* The public A2A listener of a Node (internal/agentnode): a server object *)
(* that is given an SDK proxy, started with a context and stopped, by Stop *)
(* or by the watcher of the context it was started with, and then possibly *)
(* started again.  Each start is a generation, with its own proxy, HTTP    *)
(* server, context and watcher goroutine.                                  *)
(***************************************************************************)
EXTENDS Naturals

CONSTANTS
    MaxGenerations,  \* bound: how often the server is started
    Owner,           \* Node.Start: installs, starts, and stops in its defer
    Stoppers,        \* other callers of Stop
    Requests,        \* requests in flight
    None

ASSUME BoundAssumption == MaxGenerations \in Nat

Gens == 1 .. MaxGenerations
Callers == {Owner} \cup Stoppers \cup Gens    \* a generation stands for its watcher

ASSUME NamesAssumption ==
    /\ None \notin Gens /\ Owner \notin Stoppers \cup Gens /\ Stoppers \cap Gens = {}

VARIABLES
    server, proxy, lifetimeStop,   \* the fields of PublicA2AServer
    owner, gen,                    \* where Node.Start is, and its generation
    cancelled,                     \* generations whose context is done
    listening,                     \* generations whose listener accepts
    watcher,                       \* the watcher goroutines
    stop,                          \* stopGeneration's locals, by caller
    request,                       \* handleProxy's locals
    closes, signals,               \* proxy.Close and close(lifetimeStop), counted
    expired                        \* generations whose Shutdown gave up waiting

fields == <<server, proxy, lifetimeStop>>
vars == <<fields, owner, gen, cancelled, listening, watcher, stop, request,
          closes, signals, expired>>

NotStopping == [step |-> "idle", server |-> None, proxy |-> None]
NoRequest == [step |-> "idle", from |-> None, proxy |-> None]

Init ==
    /\ server = None /\ proxy = None /\ lifetimeStop = None
    /\ owner = "idle" /\ gen = 0
    /\ cancelled = {} /\ listening = {}
    /\ watcher = [g \in Gens |-> "none"]
    /\ stop = [c \in Callers |-> NotStopping]
    /\ request = [q \in Requests |-> NoRequest]
    /\ closes = [g \in Gens |-> 0] /\ signals = [g \in Gens |-> 0]
    /\ expired = {}

-----------------------------------------------------------------------------
(* Node.Start: newPublicA2AProxy, setProxy, Start, and the deferred Stop.  *)

NewProxy ==
    /\ owner = "idle" /\ gen < MaxGenerations
    /\ owner' = "install" /\ gen' = gen + 1
    /\ UNCHANGED <<fields, cancelled, listening, watcher, stop, request, closes,
                   signals, expired>>

\* A proxy that is refused is closed by Node.Start.
setProxy ==
    /\ owner = "install"
    /\ IF server = None /\ proxy = None
       THEN proxy' = gen /\ owner' = "start" /\ UNCHANGED closes
       ELSE owner' = "stop" /\ closes' = [closes EXCEPT ![gen] = @ + 1] /\ UNCHANGED proxy
    /\ UNCHANGED <<server, lifetimeStop, gen, cancelled, listening, watcher, stop,
                   request, signals, expired>>

\* Started already, or a Stop has taken the proxy since.
StartRefuses ==
    /\ owner = "start" /\ (server # None \/ proxy = None)
    /\ owner' = "stop"
    /\ UNCHANGED <<fields, gen, cancelled, listening, watcher, stop, request, closes,
                   signals, expired>>

\* No token for a public address, or the address cannot be bound.
failStartLocked ==
    /\ owner = "start" /\ server = None /\ proxy # None
    /\ closes' = [closes EXCEPT ![proxy] = @ + 1]
    /\ proxy' = None
    /\ owner' = "stop"
    /\ UNCHANGED <<server, lifetimeStop, gen, cancelled, listening, watcher, stop,
                   request, signals, expired>>

Start ==
    /\ owner = "start" /\ server = None /\ proxy # None
    /\ server' = gen /\ lifetimeStop' = gen
    /\ listening' = listening \cup {gen}
    /\ watcher' = [watcher EXCEPT ![gen] = "watching"]
    /\ owner' = "up"
    /\ UNCHANGED <<proxy, gen, cancelled, stop, request, closes, signals, expired>>

\* stopAdapters: the lifetime is cancelled before Stop is called.
StopAdapters ==
    /\ owner = "up"
    /\ cancelled' = cancelled \cup {gen}
    /\ owner' = "stop"
    /\ UNCHANGED <<fields, gen, listening, watcher, stop, request, closes, signals,
                   expired>>

CancelParent ==
    /\ owner \in {"start", "up"}
    /\ cancelled' = cancelled \cup {gen}
    /\ UNCHANGED <<fields, owner, gen, listening, watcher, stop, request, closes,
                   signals, expired>>

-----------------------------------------------------------------------------
(* stopGeneration.                                                         *)

\* The fields are taken under the mutex; what was taken is stopped after it.
\* close(lifetimeStop) comes next and wakes only this generation's watcher.
TakeFields(c) ==
    /\ stop' = [stop EXCEPT ![c] = [step |-> "signal", server |-> server, proxy |-> proxy]]
    /\ server' = None /\ proxy' = None /\ lifetimeStop' = None
    /\ signals' = IF lifetimeStop = None THEN signals
                  ELSE [signals EXCEPT ![lifetimeStop] = @ + 1]

Stop(c) ==
    /\ stop[c] = NotStopping
    /\ c \in Stoppers \/ (c = Owner /\ owner = "stop")
    /\ TakeFields(c)
    /\ UNCHANGED <<owner, gen, cancelled, listening, watcher, request, closes, expired>>

\* A mutant: the watcher stops whatever generation is running.
WatcherStopsAny(g) ==
    /\ watcher[g] = "watching" /\ g \in cancelled
    /\ TakeFields(g)
    /\ watcher' = [watcher EXCEPT ![g] = "stopping"]
    /\ UNCHANGED <<owner, gen, cancelled, listening, request, closes, expired>>

\* The context is done: stop this generation, unless it is no longer running.
WatcherStops(g) ==
    /\ watcher[g] = "watching" /\ g \in cancelled
    /\ IF server = g
       THEN TakeFields(g) /\ watcher' = [watcher EXCEPT ![g] = "stopping"]
       ELSE /\ watcher' = [watcher EXCEPT ![g] = "done"]
            /\ UNCHANGED <<fields, stop, signals>>
    /\ UNCHANGED <<owner, gen, cancelled, listening, request, closes, expired>>

\* lifetimeStop is closed: nothing left to watch.
WatcherRetires(g) ==
    /\ watcher[g] = "watching" /\ signals[g] > 0
    /\ watcher' = [watcher EXCEPT ![g] = "done"]
    /\ UNCHANGED <<fields, owner, gen, cancelled, listening, stop, request, closes,
                   signals, expired>>

\* A mutant: the server is dropped without Shutdown.
ShutdownSkipped(c) ==
    /\ stop[c].step = "signal"
    /\ stop' = [stop EXCEPT ![c].step = "drain"]
    /\ UNCHANGED <<fields, owner, gen, cancelled, listening, watcher, request, closes,
                   signals, expired>>

\* server.Shutdown closes the listener first ...
Shutdown(c) ==
    /\ stop[c].step = "signal"
    /\ listening' = listening \ {stop[c].server}
    /\ stop' = [stop EXCEPT ![c].step = "drain"]
    /\ UNCHANGED <<fields, owner, gen, cancelled, watcher, request, closes, signals, expired>>

Active(g) == {q \in Requests : request[q].step # "idle" /\ request[q].from = g}

\* A mutant: the proxy is closed while requests are being drained.
DrainAtOnce(c) ==
    /\ stop[c].step = "drain"
    /\ stop' = [stop EXCEPT ![c].step = "close"]
    /\ UNCHANGED <<fields, owner, gen, cancelled, listening, watcher, request, closes,
                   signals, expired>>

\* ... and waits for the server's requests, or for its context to expire.
Drain(c) ==
    /\ stop[c].step = "drain"
    /\ stop' = [stop EXCEPT ![c].step = "close"]
    /\ expired' = IF stop[c].server \in Gens /\ Active(stop[c].server) # {}
                  THEN expired \cup {stop[c].server} ELSE expired
    /\ UNCHANGED <<fields, owner, gen, cancelled, listening, watcher, request, closes, signals>>

\* The proxy that was taken is closed, and the caller returns.
CloseProxy(c) ==
    /\ stop[c].step = "close"
    /\ closes' = IF stop[c].proxy = None THEN closes
                 ELSE [closes EXCEPT ![stop[c].proxy] = @ + 1]
    /\ stop' = [stop EXCEPT ![c] = NotStopping]
    /\ owner' = IF c = Owner THEN "idle" ELSE owner
    /\ watcher' = IF c \in Gens THEN [watcher EXCEPT ![c] = "done"] ELSE watcher
    /\ UNCHANGED <<fields, gen, cancelled, listening, request, signals, expired>>

-----------------------------------------------------------------------------
(* handleProxy.                                                            *)

\* A connection of a listening generation; authorisation and body are read.
Accept(q) ==
    /\ request[q] = NoRequest
    /\ \E g \in listening : request' = [request EXCEPT ![q] = [step |-> "read", from |-> g, proxy |-> None]]
    /\ UNCHANGED <<fields, owner, gen, cancelled, listening, watcher, stop, closes,
                   signals, expired>>

\* The proxy is looked up after the body has been read; there may be none.
LookUp(q) ==
    /\ request[q].step = "read"
    /\ request' = [request EXCEPT ![q] = IF proxy = None THEN NoRequest
                                         ELSE [@ EXCEPT !.step = "serve", !.proxy = proxy]]
    /\ UNCHANGED <<fields, owner, gen, cancelled, listening, watcher, stop, closes,
                   signals, expired>>

\* Not authorised, no valid body, or a card the Node answers by itself.
AnswerLocally(q) ==
    /\ request[q].step = "read"
    /\ request' = [request EXCEPT ![q] = NoRequest]
    /\ UNCHANGED <<fields, owner, gen, cancelled, listening, watcher, stop, closes,
                   signals, expired>>

Answer(q) ==
    /\ request[q].step = "serve"
    /\ request' = [request EXCEPT ![q] = NoRequest]
    /\ UNCHANGED <<fields, owner, gen, cancelled, listening, watcher, stop, closes,
                   signals, expired>>

-----------------------------------------------------------------------------
Starting == NewProxy \/ setProxy \/ StartRefuses \/ failStartLocked \/ Start
Stopping(c) == Shutdown(c) \/ Drain(c) \/ CloseProxy(c)
Watching(g) == WatcherStops(g) \/ WatcherRetires(g)
Handling(q) == LookUp(q) \/ AnswerLocally(q) \/ Answer(q)

Next ==
    \/ Starting \/ StopAdapters \/ CancelParent
    \/ \E c \in {Owner} \cup Stoppers : Stop(c)
    \/ \E c \in Callers : Stopping(c)
    \/ \E g \in Gens : Watching(g)
    \/ \E q \in Requests : Accept(q) \/ Handling(q)

Spec == Init /\ [][Next]_vars

-----------------------------------------------------------------------------
\* Whichever of Start, Node.Start, Stop, the watchers and a restart meet, every
\* generation is in exactly one pair of hands.  Its proxy is closed at most
\* once, and so is lifetimeStop, whose second close would panic; a listener
\* that accepts is the current server's or is being shut down; an unclosed proxy
\* is installed, about to be installed or being closed; and a watcher takes only
\* its own generation ("Its retired watcher must not stop or close the new one").
GenerationsKept ==
    /\ \A g \in Gens : closes[g] <= 1 /\ signals[g] <= 1
    /\ \A g \in listening : server = g \/ \E c \in Callers : stop[c].server = g
    /\ \A g \in 1 .. gen : closes[g] = 0 =>
          \/ proxy = g \/ (owner = "install" /\ gen = g)
          \/ \E c \in Callers : stop[c].proxy = g
    /\ \A g \in Gens : stop[g].server \in {None, g} /\ stop[g].proxy \in {None, g}

\* The proxy of a generation is closed under one of that generation's own
\* requests only when Shutdown gave up waiting for it.
ProxyOutlivesRequests ==
    \A q \in Requests :
        LET g == request[q].proxy IN
        g # None /\ g = request[q].from /\ closes[g] > 0 => g \in expired

\* Once its context is done a generation ends: its listener stops accepting, also
\* when it was started with a context that was done already, and its proxy is
\* closed, also when Node.Start's own Stop found the watcher at work and did not
\* wait for it.
CancelledEnds ==
    \A g \in Gens : g \in cancelled /\ g \in listening ~> g \notin listening /\ closes[g] > 0
=============================================================================
