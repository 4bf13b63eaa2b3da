------------------------ MODULE PublicA2AServerProofs ------------------------
(***************************************************************************)
(* For every number of starts, callers of Stop and requests: every          *)
(* generation of the public A2A listener is in exactly one pair of hands.   *)
(* The invariant follows two things, a proxy from newPublicA2AProxy to its  *)
(* Close, and a server with its lifetimeStop from Start to the caller that  *)
(* takes them, and says of each that nobody else has it.                    *)
(***************************************************************************)
EXTENDS PublicA2AServer, TLAPS

Maybe == Gens \cup {None}

TypeOK ==
    /\ gen \in 0 .. MaxGenerations
    /\ server \in Maybe /\ proxy \in Maybe /\ lifetimeStop \in Maybe
    /\ owner \in {"idle", "install", "start", "up", "stop"}
    /\ listening \subseteq Gens
    /\ watcher \in [Gens -> {"none", "watching", "stopping", "done"}]
    /\ stop \in [Callers -> [step : {"idle", "signal", "drain", "close"}, server : Maybe, proxy : Maybe]]
    /\ closes \in [Gens -> Nat] /\ signals \in [Gens -> Nat]

\* Where an unclosed proxy is.
HasProxy(g) ==
    \/ proxy = g \/ (owner = "install" /\ gen = g)
    \/ \E c \in Callers : stop[c].proxy = g

\* A proxy is closed once, by the one that has it.
OneProxy ==
    /\ \A g \in Gens : closes[g] <= 1 /\ (g > gen => closes[g] = 0)
    /\ \A g \in Gens : g <= gen /\ closes[g] = 0 => HasProxy(g)
    /\ proxy # None => proxy <= gen /\ closes[proxy] = 0
    /\ \A c \in Callers : LET p == stop[c].proxy IN
          p # None => p <= gen /\ closes[p] = 0 /\ p # proxy
    /\ \A c, d \in Callers : stop[c].proxy # None /\ stop[c].proxy = stop[d].proxy => c = d
    /\ owner = "install" => /\ closes[gen] = 0 /\ proxy # gen
                            /\ \A c \in Callers : stop[c].proxy # gen

\* A server is taken once, with its own proxy and its own signal.
OneServer ==
    /\ lifetimeStop = server
    /\ server # None => server <= gen /\ proxy = server /\ signals[server] = 0
    /\ owner \in {"install", "start"} =>
          gen > 0 /\ server # gen /\ signals[gen] = 0 /\ watcher[gen] = "none"
    /\ owner = "start" => proxy \in {None, gen}
    /\ \A g \in Gens : g > gen => signals[g] = 0 /\ watcher[g] = "none"
    /\ \A g \in Gens : signals[g] <= 1
    /\ \A g \in listening : server = g \/ \E c \in Callers : stop[c].server = g /\ stop[c].step = "signal"

\* A watcher stops its own generation, and once.
OwnWatcher ==
    \A g \in Gens :
        /\ watcher[g] # "stopping" => stop[g] = NotStopping
        /\ stop[g].server \in {None, g} /\ stop[g].proxy \in {None, g}

\* Node.Start is in its deferred Stop while it stops.
OwnerWaits == stop[Owner].step # "idle" => owner = "stop"

IInv == TypeOK /\ OneProxy /\ OneServer /\ OwnWatcher /\ OwnerWaits

-----------------------------------------------------------------------------
\* The initial state, before the first start.
LEMMA InitInv == Init => IInv
<1>. SUFFICES ASSUME Init PROVE IInv
    OBVIOUS
<1>1. \A g \in Gens : g > 0
    BY BoundAssumption DEF Gens
<1>2. TypeOK
    BY BoundAssumption DEF Init, TypeOK, Maybe, NotStopping
<1>3. OneProxy
    BY <1>1, BoundAssumption DEF Init, OneProxy, NotStopping, Gens
<1>4. OneServer
    BY <1>1 DEF Init, OneServer
<1>5. OwnWatcher
    BY DEF Init, OwnWatcher, NotStopping, Callers
<1>6. OwnerWaits
    BY DEF Init, OwnerWaits, NotStopping, Callers
<1>. QED
    BY <1>2, <1>3, <1>4, <1>5, <1>6 DEF IInv

\* Node.Start up to the running server.
LEMMA StartingInv ==
    ASSUME IInv, Starting
    PROVE  IInv'
<1>. USE BoundAssumption, NamesAssumption
<1>1. UNCHANGED <<stop, signals>>
    BY DEF Starting, NewProxy, setProxy, StartRefuses, failStartLocked, Start, fields
<1>7. OwnerWaits'
    BY <1>1 DEF Starting, NewProxy, setProxy, StartRefuses, failStartLocked, Start, IInv, OwnerWaits
<1>2. CASE NewProxy
    <2>1. gen' = gen + 1 /\ gen \in Nat /\ gen' \in Gens /\ owner = "idle" /\ owner' = "install"
          /\ UNCHANGED <<server, proxy, lifetimeStop, listening, watcher, closes>>
        BY <1>2 DEF NewProxy, fields, IInv, TypeOK, Gens
    <2>2. TypeOK'
        BY <1>1, <2>1 DEF IInv, TypeOK, Gens
    <2>6. \A g \in Gens : (g <= gen' <=> g <= gen \/ g = gen') /\ (g > gen' => g > gen)
        BY <2>1 DEF Gens
    <2>7. gen' > gen /\ ~(gen' <= gen) /\ gen' > 0
        BY <2>1
    <2>8. proxy # gen' /\ \A c \in Callers : stop[c].proxy # gen'
        BY <2>1, <2>7 DEF IInv, TypeOK, OneProxy
    <2>9. \A g \in Gens : g <= gen' /\ closes[g] = 0 => HasProxy(g)'
        BY <1>1, <2>1, <2>6 DEF IInv, OneProxy, HasProxy
    <2>3. OneProxy'
        BY <1>1, <2>1, <2>6, <2>7, <2>8, <2>9 DEF IInv, TypeOK, Maybe, OneProxy
    <2>4. OneServer'
        BY <1>1, <2>1, <2>6, <2>7 DEF IInv, TypeOK, Maybe, OneServer
    <2>5. OwnWatcher'
        BY <1>1, <2>1 DEF IInv, OwnWatcher
    <2>. QED
        BY <1>7, <2>2, <2>3, <2>4, <2>5 DEF IInv
<1>3. CASE setProxy
    <2>1. gen \in Gens /\ owner = "install" /\ UNCHANGED <<server, lifetimeStop, gen, listening, watcher>>
        BY <1>3 DEF setProxy, IInv, TypeOK, OneServer, Gens
    <2>2. CASE proxy' = gen /\ owner' = "start" /\ UNCHANGED closes /\ server = None /\ proxy = None
        <3>1. TypeOK' /\ OwnWatcher'
            BY <1>1, <2>1, <2>2 DEF IInv, TypeOK, Maybe, OwnWatcher
        <3>2. OneProxy'
            BY <1>1, <2>1, <2>2 DEF IInv, TypeOK, OneProxy, HasProxy, Gens
        <3>3. OneServer'
            BY <1>1, <2>1, <2>2 DEF IInv, TypeOK, OneServer, Gens
        <3>. QED
            BY <1>7, <3>1, <3>2, <3>3 DEF IInv
    <2>3. CASE owner' = "stop" /\ closes' = [closes EXCEPT ![gen] = @ + 1] /\ UNCHANGED proxy
        <3>1. TypeOK' /\ OwnWatcher'
            BY <1>1, <2>1, <2>3 DEF IInv, TypeOK, OwnWatcher
        <3>2. OneProxy'
            BY <1>1, <2>1, <2>3 DEF IInv, TypeOK, OneProxy, HasProxy, Gens
        <3>3. OneServer'
            BY <1>1, <2>1, <2>3 DEF IInv, TypeOK, OneServer, Gens
        <3>. QED
            BY <1>7, <3>1, <3>2, <3>3 DEF IInv
    <2>. QED
        BY <1>3, <2>2, <2>3 DEF setProxy
<1>4. CASE StartRefuses
    <2>1. owner = "start" /\ owner' = "stop"
          /\ UNCHANGED <<server, proxy, lifetimeStop, gen, listening, watcher, closes>>
        BY <1>4 DEF StartRefuses, fields
    <2>. QED
        BY <1>1, <1>7, <2>1 DEF IInv, TypeOK, OneProxy, HasProxy, OneServer, OwnWatcher
<1>5. CASE failStartLocked
    <2>1. /\ proxy \in Gens /\ proxy' = None /\ server = None /\ owner = "start" /\ owner' = "stop"
          /\ closes' = [closes EXCEPT ![proxy] = @ + 1]
          /\ UNCHANGED <<server, lifetimeStop, gen, listening, watcher>>
        BY <1>5 DEF failStartLocked, IInv, TypeOK, Maybe
    <2>2. TypeOK' /\ OwnWatcher'
        BY <1>1, <2>1 DEF IInv, TypeOK, Maybe, OwnWatcher
    <2>3. OneProxy'
        BY <1>1, <2>1 DEF IInv, TypeOK, OneProxy, HasProxy, Gens
    <2>4. OneServer'
        BY <1>1, <2>1 DEF IInv, TypeOK, OneServer, Gens
    <2>. QED
        BY <1>7, <2>2, <2>3, <2>4 DEF IInv
<1>6. CASE Start
    <2>1. /\ gen \in Gens /\ proxy = gen /\ server = None /\ owner = "start" /\ owner' = "up"
          /\ server' = gen /\ lifetimeStop' = gen /\ listening' = listening \cup {gen}
          /\ watcher' = [watcher EXCEPT ![gen] = "watching"] /\ UNCHANGED <<proxy, gen, closes>>
        BY <1>6 DEF Start, IInv, TypeOK, OneServer, Gens
    <2>2. TypeOK' /\ OwnWatcher'
        BY <1>1, <2>1 DEF IInv, TypeOK, Maybe, OneServer, OwnWatcher
    <2>3. OneProxy'
        BY <1>1, <2>1 DEF IInv, OneProxy, HasProxy
    <2>4. OneServer'
        BY <1>1, <2>1 DEF IInv, TypeOK, OneServer, Gens
    <2>. QED
        BY <1>7, <2>2, <2>3, <2>4 DEF IInv
<1>. QED
    BY <1>2, <1>3, <1>4, <1>5, <1>6 DEF Starting

\* What a caller takes under the mutex goes from the fields into its hands.
LEMMA TakeInv ==
    ASSUME IInv, NEW c \in Callers, stop[c] = NotStopping, TakeFields(c),
           c \in Gens => server = c /\ watcher' = [watcher EXCEPT ![c] = "stopping"],
           c \notin Gens => watcher' = watcher, c = Owner => owner = "stop",
           UNCHANGED <<owner, gen, listening, closes>>
    PROVE  IInv'
<1>. USE BoundAssumption, NamesAssumption
<1>1. /\ server' = None /\ proxy' = None /\ lifetimeStop' = None
      /\ stop' \in [Callers -> [step : {"idle", "signal", "drain", "close"}, server : Maybe, proxy : Maybe]]
      /\ stop'[c].step = "signal" /\ stop'[c].server = server /\ stop'[c].proxy = proxy
      /\ \A d \in Callers \ {c} : stop'[d] = stop[d]
    BY DEF TakeFields, IInv, TypeOK
<1>2. /\ signals' \in [Gens -> Nat]
      /\ \A g \in Gens : signals'[g] = IF g = server THEN signals[g] + 1 ELSE signals[g]
    BY DEF TakeFields, IInv, TypeOK, Maybe, OneServer
<1>3. stop[c].proxy = None /\ stop[c].server = None
    BY DEF NotStopping
<1>4. TypeOK'
    BY <1>1, <1>2 DEF IInv, TypeOK, Maybe
<1>5. OneProxy'
    <2>1. \A g \in Gens : HasProxy(g) => HasProxy(g)'
        BY <1>1, <1>3 DEF HasProxy
    <2>2. \A d \in Callers : stop'[d].proxy # None => stop'[d].proxy <= gen /\ closes[stop'[d].proxy] = 0
        BY <1>1 DEF IInv, OneProxy
    <2>3. \A d, e \in Callers : stop'[d].proxy # None /\ stop'[d].proxy = stop'[e].proxy => d = e
        BY <1>1 DEF IInv, OneProxy
    <2>4. owner = "install" => closes[gen] = 0 /\ gen \in Gens /\ \A d \in Callers : stop'[d].proxy # gen
        <3>1. owner = "install" => gen \in Gens
            BY DEF IInv, TypeOK, OneServer, Gens
        <3>. QED
            BY <1>1, <3>1 DEF IInv, OneProxy
    <2>. QED
        BY <1>1, <2>1, <2>2, <2>3, <2>4 DEF IInv, OneProxy
<1>6. OneServer'
    <2>1. \A g \in listening : \E d \in Callers : stop'[d].server = g /\ stop'[d].step = "signal"
        BY <1>1, <1>3 DEF IInv, TypeOK, OneServer
    <2>2. ASSUME NEW g \in Gens PROVE signals'[g] <= 1 /\ (g > gen => signals'[g] = 0)
        <3>1. g \in Nat /\ gen \in Nat /\ signals[g] <= 1 /\ (g > gen => signals[g] = 0)
            BY DEF IInv, TypeOK, OneServer, Gens
        <3>2. g = server => g <= gen /\ signals[g] = 0
            BY DEF IInv, OneServer
        <3>. QED
            BY <1>2, <3>1, <3>2
    <2>3. owner \in {"install", "start"} => gen \in Gens /\ gen > 0 /\ signals'[gen] = 0 /\ watcher'[gen] = "none"
        BY <1>2 DEF IInv, TypeOK, OneServer, Gens
    <2>4. \A g \in Gens : g > gen => watcher'[g] = "none"
        BY DEF IInv, TypeOK, OneServer, Gens
    <2>. QED
        BY <1>1, <2>1, <2>2, <2>3, <2>4 DEF IInv, OneServer
<1>7. OwnWatcher'
    BY <1>1 DEF IInv, TypeOK, OneServer, OwnWatcher, Callers
<1>8. OwnerWaits'
    BY <1>1 DEF IInv, OwnerWaits, Callers
<1>. QED
    BY <1>4, <1>5, <1>6, <1>7, <1>8 DEF IInv

\* Shutdown, the drain and the Close of what was taken.
LEMMA StoppingInv ==
    ASSUME IInv, NEW c \in Callers, Stopping(c)
    PROVE  IInv'
<1>. USE BoundAssumption, NamesAssumption
<1>1. UNCHANGED <<server, proxy, lifetimeStop, gen, signals>>
    BY DEF Stopping, Shutdown, Drain, CloseProxy, fields
<1>2. CASE Shutdown(c) \/ Drain(c)
    <2>1. /\ stop' \in [Callers -> [step : {"idle", "signal", "drain", "close"}, server : Maybe, proxy : Maybe]]
          /\ \A d \in Callers : stop'[d].server = stop[d].server /\ stop'[d].proxy = stop[d].proxy
          /\ \A d \in Callers \ {c} : stop'[d] = stop[d]
          /\ UNCHANGED <<owner, watcher, closes>> /\ listening' \subseteq listening
        BY <1>2 DEF Shutdown, Drain, IInv, TypeOK
    <2>2. /\ stop[c] # NotStopping /\ stop[c].step # "idle"
          /\ stop[c].step = "signal" => stop[c].server \notin listening'
        BY <1>2 DEF Shutdown, Drain, NotStopping
    <2>3. TypeOK'
        BY <1>1, <2>1 DEF IInv, TypeOK
    <2>4. OneProxy'
        BY <1>1, <2>1 DEF IInv, OneProxy, HasProxy
    <2>5. OneServer'
        BY <1>1, <2>1, <2>2 DEF IInv, OneServer
    <2>6. OwnWatcher'
        BY <2>1, <2>2 DEF IInv, OwnWatcher, Callers
    <2>7. OwnerWaits'
        <3>1. owner' = owner /\ (stop'[Owner].step # "idle" => stop[Owner].step # "idle")
            BY <2>1, <2>2 DEF Callers
        <3>. QED
            BY <3>1 DEF IInv, OwnerWaits
    <2>. QED
        BY <2>3, <2>4, <2>5, <2>6, <2>7 DEF IInv
<1>3. CASE CloseProxy(c)
    <2>1. /\ stop' \in [Callers -> [step : {"idle", "signal", "drain", "close"}, server : Maybe, proxy : Maybe]]
          /\ \A d \in Callers \ {c} : stop'[d] = stop[d]
          /\ stop'[c] = NotStopping /\ stop'[c].proxy = None /\ stop'[c].server = None
          /\ stop[c].step = "close" /\ listening' = listening
        BY <1>3 DEF CloseProxy, IInv, TypeOK, Maybe, NotStopping
    <2>2. stop[c].proxy \in Maybe /\ closes' \in [Gens -> Nat]
          /\ \A g \in Gens : closes'[g] = IF g = stop[c].proxy THEN closes[g] + 1 ELSE closes[g]
        BY <1>3 DEF CloseProxy, IInv, TypeOK, Maybe
    <2>3. owner' \in {owner, "idle"} /\ (owner = "install" => owner' \in {"install", "idle"})
        BY <1>3 DEF CloseProxy
    <2>4. watcher' \in [Gens -> {"none", "watching", "stopping", "done"}]
          /\ \A g \in Gens : watcher'[g] = IF g = c THEN "done" ELSE watcher[g]
        BY <1>3 DEF CloseProxy, IInv, TypeOK
    <2>5. c \in Gens => watcher[c] = "stopping"
        BY <2>1 DEF IInv, OwnWatcher, NotStopping
    <2>6. owner \in {"install", "start"} => owner' = owner
        BY <1>3, <2>1 DEF CloseProxy, IInv, OwnerWaits
    <2>7. TypeOK'
        BY <1>1, <2>1, <2>2, <2>3, <2>4 DEF IInv, TypeOK
    <2>8. OneProxy'
        <3>1. \A g \in Gens : HasProxy(g) /\ g # stop[c].proxy => HasProxy(g)'
            BY <1>1, <2>1, <2>6 DEF HasProxy
        <3>2. ASSUME NEW g \in Gens PROVE closes'[g] <= 1 /\ (g > gen => closes'[g] = 0)
            <4>1. g \in Nat /\ gen \in Nat /\ closes[g] <= 1 /\ (g > gen => closes[g] = 0)
                BY DEF IInv, TypeOK, OneProxy, Gens
            <4>2. g = stop[c].proxy => g <= gen /\ closes[g] = 0
                BY DEF IInv, OneProxy
            <4>. QED
                BY <2>2, <4>1, <4>2
        <3>3. \A g \in Gens : g <= gen /\ closes'[g] = 0 => HasProxy(g)'
            BY <2>2, <3>1 DEF IInv, TypeOK, OneProxy
        <3>4. proxy # None => proxy <= gen /\ closes'[proxy] = 0
            BY <2>2 DEF IInv, TypeOK, Maybe, OneProxy
        <3>5. \A d \in Callers : LET p == stop'[d].proxy IN
                 p # None => p <= gen /\ closes'[p] = 0 /\ p # proxy
            BY <2>1, <2>2 DEF IInv, TypeOK, Maybe, OneProxy
        <3>6. \A d, e \in Callers : stop'[d].proxy # None /\ stop'[d].proxy = stop'[e].proxy => d = e
            BY <2>1 DEF IInv, OneProxy
        <3>7. owner' = "install" => owner = "install" /\ gen \in Gens
            BY <2>3 DEF IInv, TypeOK, OneServer, Gens
        <3>8. owner' = "install" => /\ closes'[gen] = 0 /\ proxy # gen
                                    /\ \A d \in Callers : stop'[d].proxy # gen
            BY <2>1, <2>2, <3>7 DEF IInv, OneProxy
        <3>. QED
            BY <1>1, <3>2, <3>3, <3>4, <3>5, <3>6, <3>8 DEF OneProxy
    <2>9. OneServer'
        <3>1. \A g \in listening : server = g \/ \E d \in Callers : stop'[d].server = g /\ stop'[d].step = "signal"
            BY <2>1 DEF IInv, OneServer
        <3>2. \A g \in Gens : watcher[g] = "none" => watcher'[g] = "none"
            BY <2>4, <2>5
        <3>3. owner' \in {"install", "start"} => owner' = owner /\ gen \in Gens
            BY <2>3 DEF IInv, TypeOK, OneServer, Gens
        <3>. QED
            BY <1>1, <2>1, <3>1, <3>2, <3>3 DEF IInv, OneServer
    <2>10. OwnWatcher'
        BY <2>1, <2>4 DEF IInv, OwnWatcher, Callers, NotStopping
    <2>11. OwnerWaits'
        BY <1>3, <2>1 DEF CloseProxy, IInv, OwnerWaits, Callers, NotStopping
    <2>. QED
        BY <2>7, <2>8, <2>9, <2>10, <2>11 DEF IInv
<1>. QED
    BY <1>2, <1>3 DEF Stopping

\* The watchers, the end of Node.Start's context, and the requests.
LEMMA RestInv ==
    ASSUME IInv,
           \/ StopAdapters \/ CancelParent
           \/ \E c \in {Owner} \cup Stoppers : Stop(c)
           \/ \E g \in Gens : Watching(g)
           \/ \E q \in Requests : Accept(q) \/ Handling(q)
    PROVE  IInv'
<1>. USE BoundAssumption, NamesAssumption
<1>1. ASSUME NEW c \in {Owner} \cup Stoppers, Stop(c) PROVE IInv'
    BY <1>1, TakeInv DEF Stop, Callers
<1>2. ASSUME NEW g \in Gens, Watching(g) PROVE IInv'
    <2>1. CASE WatcherStops(g) /\ server = g
        <3>1. stop[g] = NotStopping /\ g \in Callers /\ g # Owner
            BY <2>1 DEF WatcherStops, IInv, OwnWatcher, Callers
        <3>. QED
            BY <2>1, <3>1, TakeInv DEF WatcherStops
    <2>2. CASE (WatcherStops(g) /\ server # g) \/ WatcherRetires(g)
        <3>1. /\ UNCHANGED <<server, proxy, lifetimeStop, owner, gen, listening, stop, closes, signals>>
              /\ watcher[g] = "watching" /\ watcher' = [watcher EXCEPT ![g] = "done"]
            BY <2>2 DEF WatcherStops, WatcherRetires, fields
        <3>2. TypeOK' /\ OwnWatcher' /\ OwnerWaits'
            BY <3>1 DEF IInv, TypeOK, OwnWatcher, OwnerWaits
        <3>3. OneProxy'
            BY <3>1 DEF IInv, OneProxy, HasProxy
        <3>4. OneServer'
            BY <3>1 DEF IInv, TypeOK, OneServer
        <3>. QED
            BY <3>2, <3>3, <3>4 DEF IInv
    <2>. QED
        BY <1>2, <2>1, <2>2 DEF Watching
<1>3. ASSUME StopAdapters \/ CancelParent \/ \E q \in Requests : Accept(q) \/ Handling(q) PROVE IInv'
    <2>1. /\ UNCHANGED <<server, proxy, lifetimeStop, gen, listening, watcher, stop, closes, signals>>
          /\ owner' = owner \/ (owner = "up" /\ owner' = "stop")
        BY <1>3 DEF StopAdapters, CancelParent, Accept, Handling, LookUp, AnswerLocally, Answer, fields
    <2>2. TypeOK' /\ OwnWatcher' /\ OwnerWaits'
        BY <2>1 DEF IInv, TypeOK, OwnWatcher, OwnerWaits
    <2>3. OneProxy' /\ OneServer'
        BY <2>1 DEF IInv, OneProxy, HasProxy, OneServer
    <2>. QED
        BY <2>2, <2>3 DEF IInv
<1>. QED
    BY <1>1, <1>2, <1>3

\* Every generation is in one pair of hands, however starts, stops and watchers
\* meet: no proxy or lifetimeStop is closed twice, no listener or proxy is left
\* behind, and a retired watcher does not touch the next generation.
THEOREM OnePairOfHands == Spec => []GenerationsKept
<1>1. IInv /\ UNCHANGED vars => IInv'
    BY DEF vars, fields, IInv, TypeOK, OneProxy, HasProxy, OneServer, OwnWatcher, OwnerWaits
<1>2. IInv /\ [Next]_vars => IInv'
    BY <1>1, StartingInv, StoppingInv, RestInv DEF Next
<1>3. IInv => GenerationsKept
    BY BoundAssumption
    DEF IInv, TypeOK, OneProxy, HasProxy, OneServer, OwnWatcher, GenerationsKept, Gens, Callers
<1>. QED
    BY <1>2, <1>3, InitInv, PTL DEF Spec
=============================================================================
