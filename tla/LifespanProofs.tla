--------------------------- MODULE LifespanProofs ---------------------------
(***************************************************************************)
(* No registration loses its last trace and the client is open for those   *)
(* who use it, for any Klasser and any number of stops and crashes.        *)
(*                                                                         *)
(* The invariant adds to the properties how far the lifespan has come:     *)
(* the managers entered are an initial part of their order, an AMQP system *)
(* consumes exactly while it is entered, and while a run publishes, a due  *)
(* Klasse that it does not publish any more has left a message.            *)
(***************************************************************************)
EXTENDS Lifespan, TLAPS

\* The managers that may have been entered.
Stages == {{}, {"api"}, {"api", "mo"}, {"api", "mo", "fkk"}, Managers}

Ordered == entered \in Stages

\* A system consumes while it is entered, and has its queue from then on.
Connected ==
    \A s \in Systems :
        /\ amqp[s] = "consuming" <=> s \in entered
        /\ s \in entered => s \in declared
        /\ amqp[s] = "exchange" => IsNext(s)

\* Before the client is entered, nobody is there to use it.
Beginning ==
    /\ phase = "down" => \A s \in Systems : handling[s] = NoUuid
    /\ phase = "starting" /\ "api" \notin entered =>
           client = "unopened" /\ \A s \in Systems : handling[s] = NoUuid

Closed == client = "closed" => phase \in {"stopping", "down"} /\ entered = {}

\* What a run has yet to publish, or has published, or is too recent for it.
Published ==
    scheduler = "publish" =>
        \A u \in due : \/ u \in recent \/ u \in found
                       \/ u \in queue["fkk"] \/ Attended("fkk", u)

LifeInv ==
    /\ TypeOK /\ Ordered /\ Connected /\ Beginning /\ Closed
    /\ DueIsKept /\ Published

-----------------------------------------------------------------------------
(* Which manager is next, and which is last. *)

LEMMA ManagersAre == Managers = {"api", "mo", "fkk", "generator"}
BY DEF Managers, Priority

LEMMA NextManager ==
    ASSUME Ordered, NEW m \in Managers, IsNext(m)
    PROVE  /\ phase = "starting" /\ m \notin entered
           /\ m = "api" => entered = {}
           /\ m = "mo" => entered = {"api"}
           /\ m = "fkk" => entered = {"api", "mo"}
           /\ m = "generator" => entered = {"api", "mo", "fkk"}
BY ManagersAre DEF Ordered, Stages, IsNext, Priority

LEMMA LastManager ==
    ASSUME Ordered, NEW m \in Managers, IsLast(m)
    PROVE  /\ phase = "stopping"
           /\ m = "api" => entered = {"api"}
           /\ m = "mo" => entered = {"api", "mo"}
           /\ m = "fkk" => entered = {"api", "mo", "fkk"}
           /\ m = "generator" => entered = Managers
BY ManagersAre DEF Ordered, Stages, IsLast, Priority

-----------------------------------------------------------------------------
(* Preservation. *)

LEMMA NextTyped ==
    ASSUME LifeInv, Next
    PROVE  TypeOK'
<1> USE LifespanAssumption DEF LifeInv, TypeOK, Beginning, Systems, Redelivered
<1>1. CASE Boot
    BY <1>1 DEF Boot, process, handlers, generator
<1>2. CASE EnterClient
    BY <1>2, NextManager, ManagersAre
       DEF EnterClient, process, handlers, generator
<1>3. CASE EnterGenerator
    BY <1>3, NextManager, ManagersAre
       DEF EnterGenerator, process, handlers, generator
<1>4. CASE Started
    BY <1>4 DEF Started, process, handlers, generator
<1>5. ASSUME NEW s \in Systems, DeclareExchange(s)
      PROVE  TypeOK'
    BY <1>5, NextManager, ManagersAre
       DEF DeclareExchange, process, handlers, generator
<1>6. ASSUME NEW s \in Systems, Consume(s)
      PROVE  TypeOK'
    BY <1>6, NextManager, ManagersAre DEF Consume, process, handlers, generator
<1>7. ASSUME NEW s \in Systems, LeaveSystem(s)
      PROVE  TypeOK'
    BY <1>7, LastManager, ManagersAre
       DEF LeaveSystem, process, handlers, generator
<1>8. CASE LeaveGenerator
    BY <1>8, LastManager, ManagersAre
       DEF LeaveGenerator, process, handlers, generator
<1>9. CASE LeaveClient
    BY <1>9, LastManager, ManagersAre
       DEF LeaveClient, process, handlers, generator
<1>10. CASE Stopped
    BY <1>10 DEF Stopped, Gone, process, handlers, generator
<1>11. CASE Stop
    BY <1>11 DEF Stop, process, handlers, generator
<1>12. CASE Crash
    BY <1>12 DEF Crash, Gone, process, handlers, generator
<1>13. ASSUME NEW s \in Systems, NEW u \in Uuids, Deliver(s, u)
      PROVE  TypeOK'
    BY <1>13 DEF Deliver, process, handlers, generator
<1>14. ASSUME NEW s \in Systems, ReadFKK(s)
      PROVE  TypeOK'
    BY <1>14 DEF ReadFKK, process, handlers, generator
<1>15. ASSUME NEW s \in Systems, Return(s)
      PROVE  TypeOK'
    BY <1>15 DEF Return, Idle, process, handlers, generator
<1>16. ASSUME NEW s \in Systems, Raise(s)
      PROVE  TypeOK'
    BY <1>16 DEF Raise, Idle, process, handlers, generator
<1>17. ASSUME NEW u \in Uuids, MOEvent(u)
      PROVE  TypeOK'
    BY <1>17 DEF MOEvent, process, handlers, generator
<1>18. ASSUME NEW u \in Uuids, Publish(u)
      PROVE  TypeOK'
    BY <1>18 DEF Publish, process, handlers, generator
<1>19. ASSUME NEW u \in Uuids, Register(u)
      PROVE  TypeOK'
  <2>1. UNION {found', recent', unrecorded', due'} \subseteq Uuids
    <3>1. /\ found' = found /\ unrecorded' = unrecorded \union {u} /\ due' = due \union {u}
          /\ recent' = recent \/ recent' = recent \union {u}
      BY <1>19 DEF Register
    <3>2. /\ found \subseteq Uuids /\ recent \subseteq Uuids
          /\ unrecorded \subseteq Uuids /\ due \subseteq Uuids
      BY SMT
    <3> QED
      BY <3>1, <3>2
  <2>2. stale' \subseteq asked
    BY <1>19 DEF Register
  <2>3. UNCHANGED <<process, declared, queue, handling, asked, scheduler, faults>>
    BY <1>19 DEF Register
  <2> QED
    BY <2>1, <2>2, <2>3 DEF process
<1>20. CASE StartRun
    BY <1>20 DEF StartRun, process, handlers, generator
<1>21. CASE Search
    BY <1>21 DEF Search, process, handlers, generator
<1>22. CASE Record
    BY <1>22 DEF Record, process, handlers, generator
<1>23. CASE FailRun
    BY <1>23 DEF FailRun, process, handlers, generator
<1> QED
    BY <1>1, <1>2, <1>3, <1>4, <1>5, <1>6, <1>7, <1>8, <1>9, <1>10, <1>11,
       <1>12, <1>13, <1>14, <1>15, <1>16, <1>17, <1>18, <1>19, <1>20, <1>21,
       <1>22, <1>23
       DEF Next, StartOrStop, Work

LEMMA NextOrdered ==
    ASSUME LifeInv, Next
    PROVE  Ordered'
<1> USE DEF LifeInv, TypeOK, Ordered, Stages, Systems
<1>1. CASE Boot
    BY <1>1 DEF Boot, process, handlers, generator
<1>2. CASE EnterClient
    BY <1>2, NextManager, ManagersAre
       DEF EnterClient, process, handlers, generator
<1>3. CASE EnterGenerator
    BY <1>3, NextManager, ManagersAre
       DEF EnterGenerator, process, handlers, generator
<1>4. CASE Started
    BY <1>4 DEF Started, process, handlers, generator
<1>5. ASSUME NEW s \in Systems,
           DeclareExchange(s)
      PROVE  Ordered'
    BY <1>5, NextManager, ManagersAre
       DEF DeclareExchange, process, handlers, generator
<1>6. ASSUME NEW s \in Systems,
           Consume(s)
      PROVE  Ordered'
    BY <1>6, NextManager, ManagersAre DEF Consume, process, handlers, generator
<1>7. ASSUME NEW s \in Systems,
           LeaveSystem(s)
      PROVE  Ordered'
    BY <1>7, LastManager, ManagersAre
       DEF LeaveSystem, process, handlers, generator
<1>8. CASE LeaveGenerator
    BY <1>8, LastManager, ManagersAre
       DEF LeaveGenerator, process, handlers, generator
<1>9. CASE LeaveClient
    BY <1>9, LastManager, ManagersAre
       DEF LeaveClient, process, handlers, generator
<1>10. CASE Stopped
    BY <1>10 DEF Stopped, Gone, process, handlers, generator
<1>11. CASE Stop
    BY <1>11 DEF Stop, process, handlers, generator
<1>12. CASE Crash
    BY <1>12 DEF Crash, Gone, process, handlers, generator
<1>13. ASSUME NEW s \in Systems, NEW u \in Uuids,
           Deliver(s, u)
      PROVE  Ordered'
    BY <1>13 DEF Deliver, process, handlers, generator
<1>14. ASSUME NEW s \in Systems,
           ReadFKK(s) \/ Return(s) \/ Raise(s)
      PROVE  Ordered'
    BY <1>14 DEF ReadFKK, Return, Raise, Idle, process, handlers, generator
<1>15. ASSUME NEW u \in Uuids,
           MOEvent(u) \/ Publish(u) \/ Register(u)
      PROVE  Ordered'
    BY <1>15 DEF MOEvent, Publish, Register, process, handlers, generator
<1>16. CASE StartRun \/ Search \/ Record \/ FailRun
    BY <1>16 DEF StartRun, Search, Record, FailRun, process, handlers, generator
<1> QED
    BY <1>1, <1>2, <1>3, <1>4, <1>5, <1>6, <1>7, <1>8, <1>9, <1>10, <1>11,
       <1>12, <1>13, <1>14, <1>15, <1>16
       DEF Next, StartOrStop, Work

LEMMA NextConnected ==
    ASSUME LifeInv, Next
    PROVE  Connected'
<1> USE DEF LifeInv, TypeOK, Connected, Systems, IsNext
<1>1. CASE Boot
    BY <1>1 DEF Boot, process, handlers, generator
<1>2. CASE EnterClient
    BY <1>2, NextManager, ManagersAre
       DEF EnterClient, process, handlers, generator
<1>3. CASE EnterGenerator
    BY <1>3, NextManager, ManagersAre
       DEF EnterGenerator, process, handlers, generator
<1>4. CASE Started
    BY <1>4, ManagersAre DEF Started, process, handlers, generator
<1>5. ASSUME NEW s \in Systems,
           DeclareExchange(s)
      PROVE  Connected'
    BY <1>5, NextManager, ManagersAre
       DEF DeclareExchange, process, handlers, generator
<1>6. ASSUME NEW s \in Systems,
           Consume(s)
      PROVE  Connected'
    BY <1>6, NextManager, ManagersAre DEF Consume, process, handlers, generator
<1>7. ASSUME NEW s \in Systems,
           LeaveSystem(s)
      PROVE  Connected'
    BY <1>7, LastManager, ManagersAre
       DEF LeaveSystem, process, handlers, generator
<1>8. CASE LeaveGenerator
    BY <1>8, LastManager, ManagersAre
       DEF LeaveGenerator, process, handlers, generator
<1>9. CASE LeaveClient
    BY <1>9, LastManager, ManagersAre
       DEF LeaveClient, process, handlers, generator
<1>10. CASE Stopped
    BY <1>10 DEF Stopped, Gone, process, handlers, generator
<1>11. CASE Stop
    BY <1>11 DEF Stop, process, handlers, generator
<1>12. CASE Crash
    BY <1>12 DEF Crash, Gone, process, handlers, generator
<1>13. ASSUME NEW s \in Systems, NEW u \in Uuids,
           Deliver(s, u)
      PROVE  Connected'
    BY <1>13 DEF Deliver, process, handlers, generator
<1>14. ASSUME NEW s \in Systems,
           ReadFKK(s) \/ Return(s) \/ Raise(s)
      PROVE  Connected'
    BY <1>14 DEF ReadFKK, Return, Raise, Idle, process, handlers, generator
<1>15. ASSUME NEW u \in Uuids,
           MOEvent(u) \/ Publish(u) \/ Register(u)
      PROVE  Connected'
    BY <1>15 DEF MOEvent, Publish, Register, process, handlers, generator
<1>16. CASE StartRun \/ Search \/ Record \/ FailRun
    BY <1>16 DEF StartRun, Search, Record, FailRun, process, handlers, generator
<1> QED
    BY <1>1, <1>2, <1>3, <1>4, <1>5, <1>6, <1>7, <1>8, <1>9, <1>10, <1>11,
       <1>12, <1>13, <1>14, <1>15, <1>16
       DEF Next, StartOrStop, Work

LEMMA NextBeginning ==
    ASSUME LifeInv, Next
    PROVE  Beginning'
<1> USE DEF LifeInv, TypeOK, Ordered, Stages, Connected, Beginning, Systems
<1>1. CASE Boot
    BY <1>1 DEF Boot, process, handlers, generator
<1>2. CASE EnterClient
    BY <1>2, NextManager, ManagersAre
       DEF EnterClient, process, handlers, generator
<1>3. CASE EnterGenerator
    BY <1>3, NextManager, ManagersAre
       DEF EnterGenerator, process, handlers, generator
<1>4. CASE Started
    BY <1>4 DEF Started, process, handlers, generator
<1>5. ASSUME NEW s \in Systems,
           DeclareExchange(s)
      PROVE  Beginning'
    BY <1>5, NextManager, ManagersAre
       DEF DeclareExchange, process, handlers, generator
<1>6. ASSUME NEW s \in Systems,
           Consume(s)
      PROVE  Beginning'
    BY <1>6, NextManager, ManagersAre DEF Consume, process, handlers, generator
<1>7. ASSUME NEW s \in Systems,
           LeaveSystem(s)
      PROVE  Beginning'
    BY <1>7, LastManager, ManagersAre
       DEF LeaveSystem, process, handlers, generator
<1>8. CASE LeaveGenerator
    BY <1>8, LastManager, ManagersAre
       DEF LeaveGenerator, process, handlers, generator
<1>9. CASE LeaveClient
    BY <1>9, LastManager, ManagersAre
       DEF LeaveClient, process, handlers, generator
<1>10. CASE Stopped
    BY <1>10 DEF Stopped, Gone, process, handlers, generator
<1>11. CASE Stop
    BY <1>11 DEF Stop, process, handlers, generator
<1>12. CASE Crash
    BY <1>12 DEF Crash, Gone, process, handlers, generator
<1>13. ASSUME NEW s \in Systems, NEW u \in Uuids,
           Deliver(s, u)
      PROVE  Beginning'
    BY <1>13, ManagersAre DEF Deliver, process, handlers, generator
<1>14. ASSUME NEW s \in Systems,
           ReadFKK(s)
      PROVE  Beginning'
    BY <1>14, ManagersAre DEF ReadFKK, process, handlers, generator
<1>15. ASSUME NEW s \in Systems,
           Return(s)
      PROVE  Beginning'
    BY <1>15 DEF Return, Idle, process, handlers, generator
<1>16. ASSUME NEW s \in Systems,
           Raise(s)
      PROVE  Beginning'
    BY <1>16 DEF Raise, Idle, process, handlers, generator
<1>17. CASE StartRun
    BY <1>17, ManagersAre DEF StartRun, process, handlers, generator
<1>18. ASSUME NEW u \in Uuids,
           MOEvent(u) \/ Publish(u) \/ Register(u)
      PROVE  Beginning'
    BY <1>18 DEF MOEvent, Publish, Register, process, handlers, generator
<1>19. CASE Search \/ Record \/ FailRun
    BY <1>19 DEF Search, Record, FailRun, process, handlers, generator
<1> QED
    BY <1>1, <1>2, <1>3, <1>4, <1>5, <1>6, <1>7, <1>8, <1>9, <1>10, <1>11,
       <1>12, <1>13, <1>14, <1>15, <1>16, <1>17, <1>18, <1>19
       DEF Next, StartOrStop, Work

LEMMA NextClosed ==
    ASSUME LifeInv, Next
    PROVE  Closed'
<1> USE DEF LifeInv, TypeOK, Ordered, Stages, Closed, Systems
<1>1. CASE Boot
    BY <1>1 DEF Boot, process, handlers, generator
<1>2. CASE EnterClient
    BY <1>2, NextManager, ManagersAre
       DEF EnterClient, process, handlers, generator
<1>3. CASE EnterGenerator
    BY <1>3, NextManager, ManagersAre
       DEF EnterGenerator, process, handlers, generator
<1>4. CASE Started
    BY <1>4 DEF Started, process, handlers, generator
<1>5. ASSUME NEW s \in Systems,
           DeclareExchange(s)
      PROVE  Closed'
    BY <1>5, NextManager, ManagersAre
       DEF DeclareExchange, process, handlers, generator
<1>6. ASSUME NEW s \in Systems,
           Consume(s)
      PROVE  Closed'
    BY <1>6, NextManager, ManagersAre DEF Consume, process, handlers, generator
<1>7. ASSUME NEW s \in Systems,
           LeaveSystem(s)
      PROVE  Closed'
    BY <1>7, LastManager, ManagersAre
       DEF LeaveSystem, process, handlers, generator
<1>8. CASE LeaveGenerator
    BY <1>8, LastManager, ManagersAre
       DEF LeaveGenerator, process, handlers, generator
<1>9. CASE LeaveClient
    BY <1>9, LastManager, ManagersAre
       DEF LeaveClient, process, handlers, generator
<1>10. CASE Stopped
    BY <1>10 DEF Stopped, Gone, process, handlers, generator
<1>11. CASE Stop
    BY <1>11 DEF Stop, process, handlers, generator
<1>12. CASE Crash
    BY <1>12 DEF Crash, Gone, process, handlers, generator
<1>13. ASSUME NEW s \in Systems, NEW u \in Uuids,
           Deliver(s, u)
      PROVE  Closed'
    BY <1>13 DEF Deliver, process, handlers, generator
<1>14. ASSUME NEW s \in Systems,
           ReadFKK(s) \/ Return(s) \/ Raise(s)
      PROVE  Closed'
    BY <1>14 DEF ReadFKK, Return, Raise, Idle, process, handlers, generator
<1>15. ASSUME NEW u \in Uuids,
           MOEvent(u) \/ Publish(u) \/ Register(u)
      PROVE  Closed'
    BY <1>15 DEF MOEvent, Publish, Register, process, handlers, generator
<1>16. CASE StartRun \/ Search \/ Record \/ FailRun
    BY <1>16 DEF StartRun, Search, Record, FailRun, process, handlers, generator
<1> QED
    BY <1>1, <1>2, <1>3, <1>4, <1>5, <1>6, <1>7, <1>8, <1>9, <1>10, <1>11,
       <1>12, <1>13, <1>14, <1>15, <1>16
       DEF Next, StartOrStop, Work

LEMMA NextKept ==
    ASSUME LifeInv, Next
    PROVE  DueIsKept'
<1> USE LifespanAssumption DEF LifeInv, TypeOK, Connected, Published, DueIsKept,
        Attended, Systems, Redelivered
<1>1. CASE Boot
    BY <1>1 DEF Boot, process, handlers, generator
<1>2. CASE EnterClient
    BY <1>2, NextManager, ManagersAre
       DEF EnterClient, process, handlers, generator
<1>3. CASE EnterGenerator
    BY <1>3, NextManager, ManagersAre
       DEF EnterGenerator, process, handlers, generator
<1>4. CASE Started
    BY <1>4 DEF Started, process, handlers, generator
<1>5. ASSUME NEW s \in Systems,
           DeclareExchange(s)
      PROVE  DueIsKept'
    BY <1>5, NextManager, ManagersAre
       DEF DeclareExchange, process, handlers, generator
<1>6. ASSUME NEW s \in Systems,
           Consume(s)
      PROVE  DueIsKept'
    BY <1>6, NextManager, ManagersAre DEF Consume, process, handlers, generator
<1>7. ASSUME NEW s \in Systems,
           LeaveSystem(s)
      PROVE  DueIsKept'
    BY <1>7, LastManager, ManagersAre
       DEF LeaveSystem, process, handlers, generator
<1>8. CASE LeaveGenerator
    BY <1>8, LastManager, ManagersAre
       DEF LeaveGenerator, process, handlers, generator
<1>9. CASE LeaveClient
    BY <1>9, LastManager, ManagersAre
       DEF LeaveClient, process, handlers, generator
<1>10. CASE Stopped
    BY <1>10 DEF Stopped, Gone, process, handlers, generator
<1>11. CASE Stop
    BY <1>11 DEF Stop, process, handlers, generator
<1>12. CASE Crash
    BY <1>12 DEF Crash, Gone, process, handlers, generator
<1>13. ASSUME NEW s \in Systems, NEW u \in Uuids,
           Deliver(s, u)
      PROVE  DueIsKept'
    BY <1>13 DEF Deliver, process, handlers, generator
<1>14. ASSUME NEW s \in Systems,
           ReadFKK(s)
      PROVE  DueIsKept'
    BY <1>14 DEF ReadFKK, process, handlers, generator
<1>15. ASSUME NEW s \in Systems,
           Return(s)
      PROVE  DueIsKept'
    BY <1>15 DEF Return, Idle, process, handlers, generator
<1>16. ASSUME NEW s \in Systems,
           Raise(s)
      PROVE  DueIsKept'
    BY <1>16 DEF Raise, Idle, process, handlers, generator
<1>17. ASSUME NEW u \in Uuids,
           MOEvent(u)
      PROVE  DueIsKept'
    BY <1>17 DEF MOEvent, process, handlers, generator
<1>18. ASSUME NEW u \in Uuids,
           Publish(u)
      PROVE  DueIsKept'
    BY <1>18 DEF Publish, process, handlers, generator
<1>19. ASSUME NEW u \in Uuids,
           Register(u)
      PROVE  DueIsKept'
    BY <1>19 DEF Register, process, handlers, generator
<1>20. CASE StartRun
    BY <1>20 DEF StartRun, process, handlers, generator
<1>21. CASE Search
    BY <1>21 DEF Search, process, handlers, generator
<1>22. CASE Record
    BY <1>22 DEF Record, process, handlers, generator
<1>23. CASE FailRun
    BY <1>23 DEF FailRun, process, handlers, generator
<1> QED
    BY <1>1, <1>2, <1>3, <1>4, <1>5, <1>6, <1>7, <1>8, <1>9, <1>10, <1>11,
       <1>12, <1>13, <1>14, <1>15, <1>16, <1>17, <1>18, <1>19, <1>20, <1>21,
       <1>22, <1>23
       DEF Next, StartOrStop, Work

LEMMA NextPublished ==
    ASSUME LifeInv, Next
    PROVE  Published'
<1> USE LifespanAssumption DEF LifeInv, TypeOK, Ordered, Stages, Connected, Published,
        DueIsKept, Attended, Systems, Redelivered
<1>1. CASE Boot
    BY <1>1 DEF Boot, process, handlers, generator
<1>2. CASE EnterClient
    BY <1>2, NextManager, ManagersAre
       DEF EnterClient, process, handlers, generator
<1>3. CASE EnterGenerator
    BY <1>3, NextManager, ManagersAre
       DEF EnterGenerator, process, handlers, generator
<1>4. CASE Started
    BY <1>4 DEF Started, process, handlers, generator
<1>5. ASSUME NEW s \in Systems,
           DeclareExchange(s)
      PROVE  Published'
    BY <1>5, NextManager, ManagersAre
       DEF DeclareExchange, process, handlers, generator
<1>6. ASSUME NEW s \in Systems,
           Consume(s)
      PROVE  Published'
    BY <1>6, NextManager, ManagersAre DEF Consume, process, handlers, generator
<1>7. ASSUME NEW s \in Systems,
           LeaveSystem(s)
      PROVE  Published'
    BY <1>7, LastManager, ManagersAre
       DEF LeaveSystem, process, handlers, generator
<1>8. CASE LeaveGenerator
    BY <1>8, LastManager, ManagersAre
       DEF LeaveGenerator, process, handlers, generator
<1>9. CASE LeaveClient
    BY <1>9, LastManager, ManagersAre
       DEF LeaveClient, process, handlers, generator
<1>10. CASE Stopped
    BY <1>10 DEF Stopped, Gone, process, handlers, generator
<1>11. CASE Stop
    BY <1>11 DEF Stop, process, handlers, generator
<1>12. CASE Crash
    BY <1>12 DEF Crash, Gone, process, handlers, generator
<1>13. ASSUME NEW s \in Systems, NEW u \in Uuids,
           Deliver(s, u)
      PROVE  Published'
    BY <1>13 DEF Deliver, process, handlers, generator
<1>14. ASSUME NEW s \in Systems,
           ReadFKK(s)
      PROVE  Published'
    BY <1>14 DEF ReadFKK, process, handlers, generator
<1>15. ASSUME NEW s \in Systems,
           Return(s)
      PROVE  Published'
    BY <1>15 DEF Return, Idle, process, handlers, generator
<1>16. ASSUME NEW s \in Systems,
           Raise(s)
      PROVE  Published'
    BY <1>16 DEF Raise, Idle, process, handlers, generator
<1>17. ASSUME NEW u \in Uuids,
           MOEvent(u)
      PROVE  Published'
    BY <1>17 DEF MOEvent, process, handlers, generator
<1>18. ASSUME NEW u \in Uuids,
           Publish(u)
      PROVE  Published'
    BY <1>18, ManagersAre DEF Publish, process, handlers, generator
<1>19. ASSUME NEW u \in Uuids,
           Register(u)
      PROVE  Published'
    BY <1>19 DEF Register, process, handlers, generator
<1>20. CASE StartRun
    BY <1>20 DEF StartRun, process, handlers, generator
<1>21. CASE Search
    BY <1>21 DEF Search, process, handlers, generator
<1>22. CASE Record
    BY <1>22 DEF Record, process, handlers, generator
<1>23. CASE FailRun
    BY <1>23 DEF FailRun, process, handlers, generator
<1> QED
    BY <1>1, <1>2, <1>3, <1>4, <1>5, <1>6, <1>7, <1>8, <1>9, <1>10, <1>11,
       <1>12, <1>13, <1>14, <1>15, <1>16, <1>17, <1>18, <1>19, <1>20, <1>21,
       <1>22, <1>23
       DEF Next, StartOrStop, Work

LEMMA StutterKeeps ==
    ASSUME LifeInv, UNCHANGED vars
    PROVE  LifeInv'
<1> USE DEF vars, process, handlers, generator
<1>1. TypeOK'
    BY DEF LifeInv, TypeOK
<1>2. Ordered' /\ Connected' /\ Beginning' /\ Closed'
    BY DEF LifeInv, Ordered, Stages, Connected, IsNext, Beginning, Closed
<1>3. DueIsKept' /\ Published'
    BY DEF LifeInv, DueIsKept, Published, Attended
<1> QED BY <1>1, <1>2, <1>3 DEF LifeInv

LEMMA InitKeeps == Init => LifeInv
<1> SUFFICES ASSUME Init PROVE LifeInv
    OBVIOUS
<1> USE LifespanAssumption DEF Init, Systems
<1>1. TypeOK
    BY ManagersAre DEF TypeOK
<1>2. Ordered /\ Connected /\ Beginning /\ Closed
    BY DEF Ordered, Stages, Connected, Beginning, Closed
<1>3. DueIsKept /\ Published
    BY DEF DueIsKept, Published
<1> QED BY <1>1, <1>2, <1>3 DEF LifeInv

-----------------------------------------------------------------------------

LEMMA Invariant == Spec => []LifeInv
<1>1. LifeInv /\ [Next]_vars => LifeInv'
    BY NextTyped, NextOrdered, NextConnected, NextBeginning, NextClosed,
       NextKept,
       NextPublished, StutterKeeps DEF LifeInv
<1> QED BY <1>1, InitKeeps, PTL DEF Spec

\* The variables of the lifespan are typed, and nobody is at work in a process
\* that is not there, for any Klasser and any number of faults.
THEOREM LifespanTypeCorrect == Spec => []TypeOK
<1>1. LifeInv => TypeOK
    BY DEF LifeInv
<1> QED BY <1>1, Invariant, PTL

\* A registration that no handler has dealt with is found by the next run, has
\* its message in the queue or is being dealt with (app.py:64-66): the managers
\* are entered in one order, so that a run only publishes while its queue exists.
THEOREM RegistrationsAreKept == Spec => []DueIsKept
<1>1. LifeInv => DueIsKept
    BY DEF LifeInv
<1> QED BY <1>1, Invariant, PTL

\* Nobody uses the FKK client before it is entered (app.py:62-63).
THEOREM NobodyOpensTheClient == Spec => []ClientEntersUnopened
<1>1. LifeInv => ClientEntersUnopened
    BY NextManager, ManagersAre DEF LifeInv, Beginning, ClientEntersUnopened
<1> QED BY <1>1, Invariant, PTL

\* The client is left only when no handler gets a message any more and no run is
\* under way (app.py:62-66); what a handler had begun may still meet it closed.
THEOREM ClientOutlasts == Spec => []ClientOutlastsItsUsers
<1>1. LifeInv => ClientOutlastsItsUsers
  <2> SUFFICES ASSUME LifeInv, client = "closed"
               PROVE  scheduler = "none" /\ \A s \in Systems : amqp[s] = "closed"
      BY DEF ClientOutlastsItsUsers
  <2>1. scheduler = "none"
      BY DEF LifeInv, TypeOK, Closed
  <2>2. \A s \in Systems : amqp[s] = "closed"
      BY DEF LifeInv, TypeOK, Closed, Connected, IsNext
  <2> QED BY <2>1, <2>2
<1> QED BY <1>1, Invariant, PTL

=============================================================================
