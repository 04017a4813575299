------------------------------ MODULE Lifespan ------------------------------
(***************************************************************************)
(* The assembly of app.py: four lifespan managers, entered in the order of *)
(* their priorities when the process starts and left in reverse when it    *)
(* stops or when one of them fails to start.  In between and meanwhile,    *)
(* the two AMQP systems deliver messages to the handlers, and the event    *)
(* generator publishes on the exchange of the fkk system.                  *)
(*                                                                         *)
(* FastRAMQPI, its AMQP systems and RabbitMQ are external and modelled by  *)
(* what app.py expects of them: a queue lasts once it is declared, an      *)
(* exchange drops what no queue is bound for, and what is not acknowledged *)
(* stays in the queue.  FKK's registrations and last_run are abstracted to *)
(* what a search would find (see EventGenerator).                          *)
(***************************************************************************)
EXTENDS Integers, FiniteSets

CONSTANTS
    Uuids,
    NoUuid,
    MaxFaults     \* bound on stops, crashes and failures

ASSUME LifespanAssumption == NoUuid \notin Uuids /\ MaxFaults \in Nat

Systems == {"mo", "fkk"}

VARIABLES
    phase,      \* of the process: down, starting, up, stopping
    entered,    \* lifespan managers
    client,     \* state of FKKAPI.client
    amqp,       \* of each system: closed, exchange, consuming
    declared,   \* systems whose queue the broker has
    queue,      \* messages of each system that are not being handled
    handling,   \* the UUID each handler works at; its message is unacknowledged
    asked,      \* handlers that are past fkk.read()
    scheduler,  \* the task of the event generator: none, idle, search, publish
    found,      \* by the search, and not yet published
    unrecorded, \* what a search for registrations since last_run would find
    recent,     \* of these, what was registered since the run began
    due,        \* history: registrations that no handler has dealt with
    stale,      \* history: handlers whose Klasse was registered since they read it
    faults

process == <<phase, entered, client, amqp>>
handlers == <<handling, asked, stale>>
generator == <<scheduler, found, recent>>
vars == <<process, declared, queue, handlers, generator, unrecorded, due, faults>>

Init ==
    /\ phase = "down" /\ entered = {} /\ client = "unopened"
    /\ amqp = [s \in Systems |-> "closed"]
    /\ declared = {}
    /\ queue = [s \in Systems |-> {}]
    /\ handling = [s \in Systems |-> NoUuid]
    /\ asked = {} /\ stale = {}
    /\ scheduler = "none" /\ found = {} /\ recent = {}
    /\ unrecorded = Uuids
    /\ due = Uuids
    /\ faults = 0

-----------------------------------------------------------------------------
(* Starting and stopping. *)

\* Mutants: the generator before its AMQP system, the client after MO's.
Priority_GeneratorFirst == [api |-> 500, mo |-> 1000, fkk |-> 1100, generator |-> 1050]
Priority_ClientLater == [api |-> 1050, mo |-> 1000, fkk |-> 1100, generator |-> 1200]

Priority == [api |-> 500, mo |-> 1000, fkk |-> 1100, generator |-> 1200]

Managers == DOMAIN Priority

\* m is the next to enter, or the first to leave.
IsNext(m) ==
    /\ phase = "starting" /\ m \notin entered
    /\ \A n \in Managers : Priority[n] < Priority[m] <=> n \in entered

\* Mutant: managers are left in the order in which they were entered.
IsLast_First(m) ==
    /\ phase = "stopping" /\ m \in entered
    /\ \A n \in entered : Priority[m] <= Priority[n]

IsLast(m) ==
    /\ phase = "stopping" /\ m \in entered
    /\ \A n \in entered : Priority[n] <= Priority[m]

\* create_app(), and the beginning of the lifespan.
Boot ==
    /\ phase = "down"
    /\ phase' = "starting"
    /\ client' = "unopened"
    /\ UNCHANGED <<entered, amqp, declared, queue, handlers, generator, unrecorded, due, faults>>

\* httpx raises when a client that has been used is entered.
EnterClient ==
    /\ IsNext("api")
    /\ client' = "open"
    /\ entered' = IF client = "unopened" THEN entered \union {"api"} ELSE entered
    /\ phase' = IF client = "unopened" THEN phase ELSE "stopping"
    /\ UNCHANGED <<amqp, declared, queue, handlers, generator, unrecorded, due, faults>>

\* An AMQP system declares its exchange, then declares and consumes its queue.
DeclareExchange(s) ==
    /\ IsNext(s)
    /\ amqp[s] = "closed"
    /\ amqp' = [amqp EXCEPT ![s] = "exchange"]
    /\ UNCHANGED <<phase, entered, client, declared, queue, handlers, generator,
                   unrecorded, due, faults>>

Consume(s) ==
    /\ IsNext(s)
    /\ amqp[s] = "exchange"
    /\ amqp' = [amqp EXCEPT ![s] = "consuming"]
    /\ declared' = declared \union {s}
    /\ entered' = entered \union {s}
    /\ UNCHANGED <<phase, client, queue, handlers, generator, unrecorded, due, faults>>

EnterGenerator ==
    /\ IsNext("generator")
    /\ scheduler' = "idle"
    /\ entered' = entered \union {"generator"}
    /\ UNCHANGED <<phase, client, amqp, declared, queue, handlers, found, recent,
                   unrecorded, due, faults>>

Started ==
    /\ phase = "starting" /\ entered = Managers
    /\ phase' = "up"
    /\ UNCHANGED <<entered, client, amqp, declared, queue, handlers, generator,
                   unrecorded, due, faults>>

\* The process is told to stop, or a manager fails to start.
Stop ==
    /\ faults < MaxFaults
    /\ phase \in {"starting", "up"}
    /\ phase' = "stopping"
    /\ amqp' = [s \in Systems |-> IF s \in entered THEN amqp[s] ELSE "closed"]
    /\ faults' = faults + 1
    /\ UNCHANGED <<entered, client, declared, queue, handlers, generator, unrecorded, due>>

\* Mutant: the scheduler task is awaited, but not cancelled.
LeaveGenerator_NoCancel ==
    /\ IsLast("generator")
    /\ scheduler = "none"
    /\ entered' = entered \ {"generator"}
    /\ UNCHANGED <<phase, client, amqp, declared, queue, handlers, generator,
                   unrecorded, due, faults>>

\* Mutant: the scheduler task is left alone.
LeaveGenerator_Alone ==
    /\ IsLast("generator")
    /\ entered' = entered \ {"generator"}
    /\ UNCHANGED <<phase, client, amqp, declared, queue, handlers, generator,
                   unrecorded, due, faults>>

\* The scheduler task is cancelled and awaited: the transaction of the run is
\* rolled back, unless it is just being committed.
LeaveGenerator ==
    /\ IsLast("generator")
    /\ scheduler' = "none" /\ found' = {} /\ recent' = {}
    /\ entered' = entered \ {"generator"}
    /\ \/ UNCHANGED unrecorded
       \/ scheduler = "publish" /\ found = {} /\ unrecorded' = recent
    /\ UNCHANGED <<phase, client, amqp, declared, queue, handlers, due, faults>>

\* What the broker delivers again when the connections of S close.
Redelivered(S) ==
    [s \in Systems |->
        IF s \in S /\ amqp[s] = "consuming" /\ handling[s] # NoUuid
        THEN queue[s] \union {handling[s]} ELSE queue[s]]

\* Its connection closes; a handler that is at work goes on.
LeaveSystem(s) ==
    /\ IsLast(s)
    /\ queue' = Redelivered({s})
    /\ amqp' = [amqp EXCEPT ![s] = "closed"]
    /\ entered' = entered \ {s}
    /\ UNCHANGED <<phase, client, declared, handlers, generator, unrecorded, due, faults>>

LeaveClient ==
    /\ IsLast("api")
    /\ client' = "closed"
    /\ entered' = entered \ {"api"}
    /\ UNCHANGED <<phase, amqp, declared, queue, handlers, generator, unrecorded, due, faults>>

\* What remains when the process is gone: FKK, the database and the broker.
Gone ==
    /\ phase' = "down" /\ entered' = {}
    /\ queue' = Redelivered(Systems)
    /\ amqp' = [s \in Systems |-> "closed"]
    /\ handling' = [s \in Systems |-> NoUuid] /\ asked' = {} /\ stale' = {}
    /\ scheduler' = "none" /\ found' = {} /\ recent' = {}
    /\ UNCHANGED <<client, declared, unrecorded, due>>

Stopped == phase = "stopping" /\ entered = {} /\ Gone /\ UNCHANGED faults

Crash ==
    /\ faults < MaxFaults
    /\ phase # "down"
    /\ Gone
    /\ faults' = faults + 1

-----------------------------------------------------------------------------
(* Handlers.  A client that was never entered opens with its first request. *)

Deliver(s, u) ==
    /\ amqp[s] = "consuming"
    /\ handling[s] = NoUuid
    /\ u \in queue[s]
    /\ handling' = [handling EXCEPT ![s] = u]
    /\ queue' = [queue EXCEPT ![s] = @ \ {u}]
    /\ UNCHANGED <<process, declared, asked, stale, generator, unrecorded, due, faults>>

ReadFKK(s) ==
    /\ handling[s] # NoUuid /\ s \notin asked
    /\ client # "closed"
    /\ client' = "open"
    /\ asked' = asked \union {s}
    /\ UNCHANGED <<phase, entered, amqp, declared, queue, handling, stale, generator,
                   unrecorded, due, faults>>

\* The handler is done with u.
Idle(s) ==
    /\ handling' = [handling EXCEPT ![s] = NoUuid]
    /\ asked' = asked \ {s}
    /\ stale' = stale \ {s}

\* sync() returns.  If the Klasse has been registered since it was read, that
\* registration is still to be dealt with.
Return(s) ==
    /\ s \in asked
    /\ Idle(s)
    /\ due' = IF s \in stale THEN due ELSE due \ {handling[s]}
    /\ UNCHANGED <<process, declared, queue, generator, unrecorded, faults>>

\* Mutant: the message of a handler that raises is acknowledged.
Raise_Acknowledged(s) ==
    /\ handling[s] # NoUuid
    /\ client # "closed" => faults < MaxFaults
    /\ faults' = IF client = "closed" THEN faults ELSE faults + 1
    /\ Idle(s)
    /\ UNCHANGED <<process, declared, queue, generator, unrecorded, due>>

\* sync() raises, at the latest when the client has been closed.
Raise(s) ==
    /\ handling[s] # NoUuid
    /\ client # "closed" => faults < MaxFaults
    /\ faults' = IF client = "closed" THEN faults ELSE faults + 1
    /\ queue' = Redelivered({s})
    /\ Idle(s)
    /\ UNCHANGED <<process, declared, generator, unrecorded, due>>

\* MO publishes an event about a class.
MOEvent(u) ==
    /\ "mo" \in declared
    /\ queue' = [queue EXCEPT !["mo"] = @ \union {u}]
    /\ UNCHANGED <<process, declared, handlers, generator, unrecorded, due, faults>>

-----------------------------------------------------------------------------
(* The event generator. *)

StartRun ==
    /\ scheduler = "idle"
    /\ client # "closed"
    /\ client' = "open"
    /\ scheduler' = "search"
    /\ recent' = {}
    /\ UNCHANGED <<phase, entered, amqp, declared, queue, handlers, found, unrecorded, due, faults>>

Search ==
    /\ scheduler = "search"
    /\ scheduler' = "publish"
    /\ found' = unrecorded
    /\ UNCHANGED <<process, declared, queue, handlers, recent, unrecorded, due, faults>>

\* The exchange drops the message if no queue is bound to it.
Publish(u) ==
    /\ scheduler = "publish"
    /\ amqp["fkk"] # "closed"
    /\ u \in found
    /\ found' = found \ {u}
    /\ queue' = IF "fkk" \in declared THEN [queue EXCEPT !["fkk"] = @ \union {u}] ELSE queue
    /\ UNCHANGED <<process, declared, handlers, scheduler, recent, unrecorded, due, faults>>

Record ==
    /\ scheduler = "publish" /\ found = {}
    /\ scheduler' = "idle"
    /\ unrecorded' = recent
    /\ recent' = {}
    /\ UNCHANGED <<process, declared, queue, handlers, found, due, faults>>

\* The run fails, as when the fkk system is not connected.
FailRun ==
    /\ scheduler \in {"search", "publish"}
    /\ amqp["fkk"] # "closed" => faults < MaxFaults
    /\ faults' = IF amqp["fkk"] = "closed" THEN faults ELSE faults + 1
    /\ scheduler' = "idle" /\ found' = {} /\ recent' = {}
    /\ UNCHANGED <<process, declared, queue, handlers, unrecorded, due>>

\* FKK registers a Klasse.
Register(u) ==
    /\ u \notin recent \/ u \notin due \/ u \notin unrecorded
    /\ unrecorded' = unrecorded \union {u}
    /\ recent' = IF scheduler \in {"search", "publish"} THEN recent \union {u} ELSE recent
    /\ due' = due \union {u}
    /\ stale' = stale \union {s \in asked : handling[s] = u}
    /\ UNCHANGED <<process, declared, queue, handling, asked, scheduler, found, faults>>

-----------------------------------------------------------------------------
StartOrStop ==
    \/ Boot \/ EnterClient \/ EnterGenerator \/ Started
    \/ \E s \in Systems : DeclareExchange(s) \/ Consume(s) \/ LeaveSystem(s)
    \/ LeaveGenerator \/ LeaveClient \/ Stopped

Work(s) == (\E u \in Uuids : Deliver(s, u)) \/ ReadFKK(s) \/ Return(s)

Next ==
    \/ StartOrStop \/ Stop \/ Crash
    \/ \E s \in Systems : Work(s) \/ Raise(s)
    \/ \E u \in Uuids : MOEvent(u) \/ Publish(u) \/ Register(u)
    \/ StartRun \/ Search \/ Record \/ FailRun

Spec == Init /\ [][Next]_vars

\* The container is restarted, tasks that can run do, and every message gets its
\* turn.  Nothing is assumed of stops, failures, MO and FKK.
FairSpec ==
    /\ Spec
    /\ WF_vars(StartOrStop)
    /\ \A s \in Systems : WF_vars(Work(s))
    /\ \A u \in Uuids : SF_vars(Deliver("fkk", u))
    /\ WF_vars(StartRun) /\ WF_vars(Search) /\ WF_vars(Record)
    /\ \A u \in Uuids : WF_vars(Publish(u))

-----------------------------------------------------------------------------
(* Properties. *)

\* Types, and that nobody is at work in a process that is not there.
TypeOK ==
    /\ phase \in {"down", "starting", "up", "stopping"}
    /\ entered \subseteq Managers /\ declared \subseteq Systems
    /\ client \in {"unopened", "open", "closed"}
    /\ amqp \in [Systems -> {"closed", "exchange", "consuming"}]
    /\ queue \in [Systems -> SUBSET Uuids]
    /\ handling \in [Systems -> Uuids \union {NoUuid}]
    /\ asked \subseteq {s \in Systems : handling[s] # NoUuid} /\ stale \subseteq asked
    /\ scheduler \in {"none", "idle", "search", "publish"}
    /\ UNION {found, recent, unrecorded, due} \subseteq Uuids
    /\ faults \in Nat
    /\ scheduler # "none" <=> "generator" \in entered
    /\ phase = "down" => entered = {} /\ asked = {}

\* A handler of s will deal with the latest registration of u, or its message is
\* delivered again.
Attended(s, u) == amqp[s] = "consuming" /\ handling[s] = u /\ s \notin stale

\* A registration that no handler has dealt with is found by the next run, has its
\* message in the queue or is being dealt with, across starts that fail, stops and
\* crashes at any moment: the event generator starts after, and stops before, the
\* AMQP system it publishes on (app.py:64-66).
DueIsKept ==
    \A u \in due : u \in unrecorded \/ u \in queue["fkk"] \/ Attended("fkk", u)

\* Nobody makes a request with the FKK client before it is entered, which would
\* make its __aenter__() raise and the start fail (app.py:62-63).
ClientEntersUnopened == IsNext("api") => client = "unopened"

\* Handlers of a system that still delivers, and the event generator, never meet
\* a closed client: it is entered first and left last (app.py:62-66).  A handler
\* that is still at work when its system closes may do so; it raises then.
ClientOutlastsItsUsers ==
    client = "closed" =>
        scheduler = "none" /\ \A s \in Systems : amqp[s] = "closed"

\* A process that stops comes to an end: the scheduler task, which loops for ever,
\* is cancelled (event_generator.py:54-61).
StopEnds == phase = "stopping" ~> phase = "down"

\* Every registration is dealt with in the end, or the Klasse is registered yet
\* again while a handler is at work on it.
DealtWith ==
    \A u \in Uuids : u \in due ~> (u \notin due \/ \E s \in stale : handling[s] = u)

=============================================================================
