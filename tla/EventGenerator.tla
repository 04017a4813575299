--------------------------- MODULE EventGenerator ---------------------------
(***************************************************************************)
(* klassifikation/event_generator.py with get_changed_uuids(): FKK is      *)
(* polled for the Klasser registered since the last run, page by page,     *)
(* each is published on the fkk exchange, and only then is the time at     *)
(* which the run began recorded in the database.  A run may fail at any    *)
(* call, and the process may be restarted.                                 *)
(*                                                                         *)
(* FKK keeps changing while a run is in progress.  It is asked for a page  *)
(* by an offset into its current results, which it is assumed to order     *)
(* the same way every time (Before), and stamps registrations with its own *)
(* clock.                                                                  *)
(***************************************************************************)
EXTENDS Integers, FiniteSets

CONSTANTS
    Uuids,
    Before(_, _),   \* the order in which FKK lists its results
    Ahead,          \* how far FKK's clock is ahead of ours
    MILLISECOND,    \* clock ticks in a millisecond
    PAGE_LIMIT,
    NoRun,          \* there is no row in the table last_run
    MaxClock, MaxVersion, MaxFaults  \* bounds on time, changes and failures

ASSUME EventGeneratorAssumption ==
    /\ IsFiniteSet(Uuids)
    /\ Ahead \in Int
    /\ MILLISECOND \in Nat \ {0} /\ PAGE_LIMIT \in Nat \ {0}
    /\ NoRun \notin Int
    /\ MaxClock \in Nat /\ MaxVersion \in Nat /\ MaxFaults \in Nat

ASSUME BeforeAssumption ==
    \A u, v \in Uuids :
        /\ Before(u, v) \in BOOLEAN /\ ~Before(u, u)
        /\ u = v \/ Before(u, v) \/ Before(v, u)
        /\ \A w \in Uuids : Before(u, v) /\ Before(v, w) => Before(u, w)

VARIABLES
    clock,
    registered,   \* time of the last registration of each Klasse in FKK
    version,      \* how often each Klasse has been registered
    last_run,     \* the committed LastRun.datetime
    phase,        \* what the scheduler task is doing
    since, now,   \* locals of _generate() and get_changed_uuids()
    page_offset,
    changed,
    publishing,   \* UUIDs whose publish_message() is still under way
    stragglers,   \* publish tasks that outlive the failed run that made them
    notified,     \* version of each Klasse when its UUID was last published
    faults

fkk == <<clock, registered, version>>
run == <<since, now, page_offset, changed, publishing>>
vars == <<fkk, last_run, phase, run, stragglers, notified, faults>>

Init ==
    /\ clock = 1
    /\ registered = [u \in Uuids |-> 0]
    /\ version = [u \in Uuids |-> 1]
    /\ last_run = NoRun
    /\ phase = "sleep"
    /\ since = 0 /\ now = 0 /\ page_offset = 0
    /\ changed = {} /\ publishing = {} /\ stragglers = {}
    /\ notified = [u \in Uuids |-> 0]
    /\ faults = 0

-----------------------------------------------------------------------------
(* FKK *)

Tick ==
    /\ clock < MaxClock
    /\ clock' = clock + 1
    /\ UNCHANGED <<registered, version, last_run, phase, run, stragglers, notified, faults>>

Register(u) ==
    /\ version[u] < MaxVersion
    /\ clock + Ahead >= 0
    /\ registered' = [registered EXCEPT ![u] = clock + Ahead]
    /\ version' = [version EXCEPT ![u] = @ + 1]
    /\ UNCHANGED <<clock, last_run, phase, run, stragglers, notified, faults>>

\* Mutant: the timestamp is rounded up.
FormatTime_Up(t) == ((t + MILLISECOND - 1) \div MILLISECOND) * MILLISECOND

\* _format_time() drops everything below a millisecond.
FormatTime(t) == (t \div MILLISECOND) * MILLISECOND

Matching(t) == {u \in Uuids : registered[u] >= FormatTime(t)}
Position(u, t) == Cardinality({v \in Matching(t) : Before(v, u)})

\* Mutant: the results have pages of a size other than the step of the offset.
Page_Short(t, offset) ==
    {u \in Matching(t) : Position(u, t) \in offset..(offset + PAGE_LIMIT - 2)}

\* The answer of _search(): a page of the current results.
Page(t, offset) ==
    {u \in Matching(t) : Position(u, t) \in offset..(offset + PAGE_LIMIT - 1)}

-----------------------------------------------------------------------------
(* _generate(), one action per await. *)

Since(run_time) == IF run_time = NoRun THEN 0 ELSE run_time

StartRun ==
    /\ phase = "sleep"
    /\ phase' = "search"
    /\ since' = Since(last_run)
    /\ now' = clock
    /\ page_offset' = 0
    /\ changed' = {}
    /\ UNCHANGED <<fkk, last_run, publishing, stragglers, notified, faults>>

\* Mutant: the same page is asked for again and again.
Search_SamePage ==
    /\ phase = "search"
    /\ LET page == Page(since, page_offset) IN
           IF page = {}
           THEN phase' = "publish" /\ publishing' = changed /\ UNCHANGED changed
           ELSE changed' = changed \union page /\ UNCHANGED <<phase, publishing>>
    /\ UNCHANGED <<fkk, last_run, since, now, page_offset, stragglers, notified, faults>>

Search ==
    /\ phase = "search"
    /\ LET page == Page(since, page_offset) IN
           IF page = {}
           THEN /\ phase' = "publish" /\ publishing' = changed
                /\ UNCHANGED <<page_offset, changed>>
           ELSE /\ changed' = changed \union page
                /\ page_offset' = page_offset + PAGE_LIMIT
                /\ UNCHANGED <<phase, publishing>>
    /\ UNCHANGED <<fkk, last_run, since, now, stragglers, notified, faults>>

\* A message on the exchange is read by sync() later, which then finds at least
\* the version FKK has now.
Notify(u) == notified' = [notified EXCEPT ![u] = version[u]]

Publish(u) ==
    /\ phase = "publish"
    /\ u \in publishing
    /\ publishing' = publishing \ {u}
    /\ Notify(u)
    /\ UNCHANGED <<fkk, last_run, phase, since, now, page_offset, changed, stragglers, faults>>

Reset == since' = 0 /\ now' = 0 /\ page_offset' = 0 /\ changed' = {} /\ publishing' = {}

Commit ==
    /\ phase = "publish"
    /\ publishing = {}
    /\ last_run' = now
    /\ phase' = "sleep"
    /\ Reset
    /\ UNCHANGED <<fkk, stragglers, notified, faults>>

-----------------------------------------------------------------------------
(* Failures. *)

\* Mutant: the publish tasks of the failed run are kept for the next one.
Fail_KeepsTasks ==
    /\ faults < MaxFaults
    /\ phase \in {"search", "publish"}
    /\ phase' = "sleep"
    /\ faults' = faults + 1
    /\ UNCHANGED <<fkk, last_run, run, stragglers, notified>>

\* An await raises: the transaction is rolled back and the scheduler sleeps.
\* gather() does not cancel the other publish tasks.
Fail ==
    /\ faults < MaxFaults
    /\ phase \in {"search", "publish"}
    /\ phase' = "sleep"
    /\ stragglers' = stragglers \union publishing
    /\ Reset
    /\ faults' = faults + 1
    /\ UNCHANGED <<fkk, last_run, notified>>

PublishStraggler(u) ==
    /\ u \in stragglers
    /\ stragglers' = stragglers \ {u}
    /\ Notify(u)
    /\ UNCHANGED <<fkk, last_run, phase, run, faults>>

Crash ==
    /\ faults < MaxFaults
    /\ phase' = "sleep"
    /\ stragglers' = {}
    /\ Reset
    /\ faults' = faults + 1
    /\ UNCHANGED <<fkk, last_run, notified>>

Next ==
    \/ Tick
    \/ \E u \in Uuids : Register(u)
    \/ StartRun \/ Search \/ Commit
    \/ \E u \in Uuids : Publish(u)
    \/ Fail \/ Crash
    \/ \E u \in Uuids : PublishStraggler(u)

Spec == Init /\ [][Next]_vars

\* The scheduler loop never stops, and publish tasks run until they are done.
\* FKK, time and failures owe nothing.
FairSpec ==
    /\ Spec
    /\ WF_vars(StartRun) /\ WF_vars(Search) /\ WF_vars(Commit)
    /\ \A u \in Uuids : WF_vars(Publish(u))

-----------------------------------------------------------------------------
(* Properties. *)

\* Types, and that a sleeping scheduler has nothing left to publish.
TypeOK ==
    /\ clock \in Nat
    /\ registered \in [Uuids -> Nat]
    /\ version \in [Uuids -> Nat] /\ notified \in [Uuids -> Nat]
    /\ last_run \in Nat \union {NoRun}
    /\ phase \in {"sleep", "search", "publish"}
    /\ since \in Nat /\ now \in Nat /\ page_offset \in Nat
    /\ changed \subseteq Uuids /\ publishing \subseteq Uuids
    /\ stragglers \subseteq Uuids
    /\ faults \in Nat
    /\ phase # "publish" => publishing = {}

\* A registration nobody has been told of is found by the next run, whatever
\* happens to this one: the recorded time never passes it ("Publishes changed
\* UUIDs since last run.", event_generator.py:77-103).  This needs an FKK clock
\* that is not behind ours.
NoLostChange ==
    \A u \in Uuids :
        notified[u] = version[u] \/ u \in Matching(Since(last_run))

\* The current run will tell of u, or its time will not pass u's registration.
InWindow(u) ==
    \/ notified[u] = version[u]
    \/ u \in Matching(now)
    \/ /\ phase = "search"
       /\ \/ u \in changed
          \/ u \in Matching(since) /\ Position(u, since) >= page_offset
    \/ phase = "publish" /\ u \in publishing

\* Paging over results that change meanwhile skips nothing: a registration made
\* before the run began has been found, or lies on a page still to be asked for
\* (api.py:401-412).
RunCatchesUp == phase # "sleep" => \A u \in Uuids : InWindow(u)

\* Every registration is eventually told of.
EventuallyNotified ==
    \A u \in Uuids : \A n \in 1..MaxVersion :
        (version[u] = n) ~> (notified[u] >= n)

=============================================================================
