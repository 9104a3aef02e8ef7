--------------------------- MODULE LifecycleProofs ---------------------------
(***************************************************************************)
(* Theorems about module Lifecycle, for any number of clients, signals and *)
(* faults.                                                                 *)
(***************************************************************************)
EXTENDS Lifecycle, TLAPS

Past == {"unsubscribe", "quit subscriber", "await subscriber", "quit publisher",
         "await publisher", "prisma"}

PastSubscriber == {"await subscriber", "quit publisher", "await publisher", "prisma"}

\* A process that is down has nothing open; a running one has opened its clients
\* in the order of the start-up.
DownInv ==
    /\ ~ up => /\ \A s \in Signals : closing[s] = "none"
               /\ \A c \in Clients : work[c] = "none"
               /\ \A r \in Redis : link[r] = "new"
    /\ up => link["publisher"] # "new"
    /\ up /\ boot # "publisher" => link["subscriber"] # "new"

\* Once a shutdown is past server.close there are no connections, nor will be.
CloseInv ==
    \A s \in Signals :
        /\ closing[s] # "none" => ~ listening
        /\ closing[s] \in Past => conns = {}

\* Only a shutdown makes a client quit, and awaits that it has; a publisher that
\* has quit owes nobody an answer.
QuitInv ==
    /\ \/ link["publisher"] \in {"new", "connecting", "ready", "closed"}
       \/ \E s \in Signals : closing[s] = "await publisher"
    /\ \/ link["subscriber"] \in {"new", "connecting", "ready", "closed"}
       \/ \E s \in Signals : closing[s] = "await subscriber"
    /\ link["publisher"] = "closed" => Publishing = {}
    /\ up /\ ~ Open("publisher")
          => \E s \in Signals : closing[s] \in {"await publisher", "prisma"}
    /\ \A s \in Signals :
          /\ closing[s] \in {"await publisher", "prisma"} => ~ Open("publisher")
          /\ closing[s] # "none" /\ s \notin hasty => boot = "done"
          /\ closing[s] \in PastSubscriber /\ s \notin hasty => ~ Open("subscriber")

IInv == TypeOK /\ DownInv /\ CloseInv /\ QuitInv /\ OrderlyExitIsClean

-----------------------------------------------------------------------------
LEMMA InitInv == Init => IInv
  <1> SUFFICES ASSUME Init PROVE IInv
    OBVIOUS
  <1>1. TypeOK
    <2>1. left \in [conns : SUBSET Clients, calls : SUBSET Clients,
                   clients : SUBSET Redis, signals : SUBSET Signals]
      BY DEF Init, Nothing
    <2>2. /\ link \in [Redis -> Links]
          /\ boot \in Boots /\ exit \in Exits
          /\ work \in [Clients -> {"none", "query", "publish"}]
          /\ closing \in [Signals -> Stages]
      BY DEF Init, Boots, Redis, Links, Stages, Exits
    <2>3. faults \in 0..MaxFaults
      BY LifecycleAssumption DEF Init
    <2> QED
      BY <2>1, <2>2, <2>3 DEF Init, TypeOK
  <1>2. DownInv
    BY DEF Init, DownInv
  <1>3. CloseInv /\ OrderlyExitIsClean
    BY DEF Init, CloseInv, OrderlyExitIsClean, Past
  <1>4. QuitInv
    BY DEF Init, QuitInv, Publishing, Redis, PastSubscriber
  <1> QED
    BY <1>1, <1>2, <1>3, <1>4 DEF IInv

\* The end of the process keeps the types.
LEMMA EndsTyped ==
    ASSUME TypeOK, NEW how \in Exits, Ends(how), faults' \in 0..MaxFaults
    PROVE  TypeOK'
  <1>1. left' \in [conns : SUBSET Clients, calls : SUBSET Clients,
                  clients : SUBSET Redis, signals : SUBSET Signals]
    <2>1. /\ conns \in SUBSET Clients
          /\ Publishing \in SUBSET Clients
          /\ {r \in Redis : link[r] \notin {"new", "closed"}} \in SUBSET Redis
          /\ {s \in Signals : closing[s] # "none"} \in SUBSET Signals
      BY DEF TypeOK, Publishing
    <2> QED
      BY <2>1 DEF Ends
  <1>2. link' \in [Redis -> Links] /\ closing' \in [Signals -> Stages]
    BY DEF Ends, Links, Stages
  <1> QED
    BY <1>1, <1>2 DEF Ends, TypeOK, startup

\* So does a broken connection.
LEMMA BrokenTyped ==
    ASSUME TypeOK, NEW R \in SUBSET Redis, Broken(R),
           faults' \in 0..MaxFaults, redisUp' \in BOOLEAN
    PROVE  TypeOK'
  <1>1. link' \in [Redis -> Links]
    BY DEF Broken, TypeOK, Links
  <1>2. work' \in [Clients -> {"none", "query", "publish"}]
    BY DEF Broken, Rejects, TypeOK
  <1>3. closing' \in [Signals -> Stages]
    BY DEF Broken, UnsubscribeRejects, TypeOK, Stages
  <1> QED
    BY <1>1, <1>2, <1>3 DEF Broken, TypeOK, startup, ending

LEMMA FaultTyped ==
    ASSUME faults \in 0..MaxFaults, Fault
    PROVE  faults' \in 0..MaxFaults
  BY LifecycleAssumption DEF Fault

\* Every step keeps the types.
LEMMA TypeStep == TypeOK /\ [Next]_vars => TypeOK'
  <1> SUFFICES ASSUME TypeOK, [Next]_vars PROVE TypeOK'
    OBVIOUS
  <1>1. ASSUME Start PROVE TypeOK'
    <2>1. left' \in [conns : SUBSET Clients, calls : SUBSET Clients,
                    clients : SUBSET Redis, signals : SUBSET Signals]
      BY <1>1 DEF Start, Nothing
    <2>2. link' \in [Redis -> Links] /\ boot' \in Boots /\ exit' \in Exits
      BY <1>1 DEF Start, TypeOK, Boots, Redis, Links, Exits
    <2> QED
      BY <1>1, <2>1, <2>2 DEF Start, TypeOK, NoFault
  <1>2. ASSUME PublisherConnected PROVE TypeOK'
    BY <1>2 DEF PublisherConnected, TypeOK, NoFault, startup, traffic, ending, Boots,
           Redis, Links
  <1>3. ASSUME SubscriberConnected PROVE TypeOK'
    BY <1>3 DEF SubscriberConnected, TypeOK, NoFault, startup, traffic, ending, Boots,
           Channels
  <1>4. ASSUME Subscribed PROVE TypeOK'
    BY <1>4 DEF Subscribed, After, TypeOK, NoFault, startup, traffic, ending, Boots,
           Channels
  <1>5. ASSUME BootFails PROVE TypeOK'
    <2>1. faults' \in 0..MaxFaults
      BY <1>5, FaultTyped DEF BootFails, SubscribeRejects, TypeOK, NoFault
    <2> QED
      BY <1>5, <2>1, EndsTyped DEF BootFails, Exits
  <1>6. ASSUME Fatal PROVE TypeOK'
    BY <1>6, EndsTyped, FaultTyped DEF Fatal, TypeOK, Exits
  <1>7. ASSUME ExitForced PROVE TypeOK'
    BY <1>7, EndsTyped DEF ExitForced, TypeOK, NoFault, Exits
  <1>8. ASSUME ExitIdle PROVE TypeOK'
    BY <1>8, EndsTyped DEF ExitIdle, TypeOK, NoFault, Exits
  <1>9. ASSUME RedisDown PROVE TypeOK'
    BY <1>9, BrokenTyped, FaultTyped DEF RedisDown, HasLink, TypeOK
  <1>10. ASSUME RedisBack PROVE TypeOK'
    BY <1>10 DEF RedisBack, TypeOK, NoFault, startup, traffic, ending
  <1>11. ASSUME NEW r \in Redis, Linked(r) PROVE TypeOK'
    BY <1>11 DEF Linked, TypeOK, NoFault, startup, traffic, ending, Redis, Links
  <1>12. ASSUME NEW r \in Redis, LinkLost(r) PROVE TypeOK'
    BY <1>12, BrokenTyped, FaultTyped DEF LinkLost, TypeOK
  <1>13. ASSUME NEW r \in Redis, LastAttemptFails(r) PROVE TypeOK'
    BY <1>13, BrokenTyped DEF LastAttemptFails, TypeOK, NoFault
  <1>14. ASSUME NEW r \in Redis, QuitAnswered(r) PROVE TypeOK'
    BY <1>14 DEF QuitAnswered, TypeOK, NoFault, startup, traffic, ending, Redis, Links
  <1>15. ASSUME NEW c \in Clients, Accept(c) PROVE TypeOK'
    BY <1>15 DEF Accept, TypeOK, NoFault, startup, traffic, ending
  <1>16. ASSUME NEW c \in Clients, Leave(c) PROVE TypeOK'
    BY <1>16 DEF Leave, TypeOK, NoFault, startup, traffic, ending
  <1>17. ASSUME NEW c \in Clients, Call(c) PROVE TypeOK'
    BY <1>17 DEF Call, TypeOK, NoFault, startup, traffic, ending
  <1>18. ASSUME NEW c \in Clients, Queried(c) PROVE TypeOK'
    BY <1>18 DEF Queried, TypeOK, NoFault, startup, traffic, ending
  <1>19. ASSUME NEW c \in Clients, Published(c) PROVE TypeOK'
    BY <1>19 DEF Published, TypeOK, NoFault, startup, traffic, ending
  <1>20. ASSUME NEW s \in Signals, Signal(s) PROVE TypeOK'
    BY <1>20 DEF Signal, TypeOK, NoFault, startup, traffic, ending, Stages
  <1>21. ASSUME NEW s \in Signals, ServerClosed(s) PROVE TypeOK'
    BY <1>21 DEF ServerClosed, Stage, TypeOK, NoFault, startup, traffic, ending, Stages
  <1>22. ASSUME NEW s \in Signals, Unsubscribed(s) PROVE TypeOK'
    BY <1>22 DEF Unsubscribed, Stage, TypeOK, NoFault, startup, traffic, ending, Stages
  <1>23. ASSUME NEW s \in Signals, QuitSubscriber(s) PROVE TypeOK'
    BY <1>23 DEF QuitSubscriber, Quit, Stage, TypeOK, NoFault, startup, traffic, ending,
           Redis, Links, Stages
  <1>24. ASSUME NEW s \in Signals, QuitPublisher(s) PROVE TypeOK'
    BY <1>24 DEF QuitPublisher, Quit, Stage, TypeOK, NoFault, startup, traffic, ending,
           Redis, Links, Stages
  <1>25. ASSUME NEW s \in Signals, HasQuit(s) PROVE TypeOK'
    <2>1. ASSUME Stage(s, "await subscriber", "quit publisher") PROVE closing' \in [Signals -> Stages]
      BY <2>1 DEF Stage, TypeOK, Stages
    <2>2. ASSUME Stage(s, "await publisher", "prisma") PROVE closing' \in [Signals -> Stages]
      BY <2>2 DEF Stage, TypeOK, Stages
    <2>3. closing' \in [Signals -> Stages]
      BY <1>25, <2>1, <2>2 DEF HasQuit
    <2>4. UNCHANGED <<up, boot, wanted, traffic, link, redisUp, ending, faults>>
      BY <1>25 DEF HasQuit, Stage, NoFault
    <2> QED
      BY <2>3, <2>4 DEF TypeOK, traffic, ending
  <1>26. ASSUME NEW s \in Signals, ExitOrderly(s) PROVE TypeOK'
    BY <1>26, EndsTyped DEF ExitOrderly, TypeOK, NoFault, Exits
  <1>27. CASE UNCHANGED vars
    BY <1>27 DEF vars, TypeOK, NoFault, startup, traffic, ending
  <1> QED
    BY <1>1, <1>2, <1>3, <1>4, <1>5, <1>6, <1>7, <1>8, <1>9, <1>10, <1>11, <1>12, <1>13,
       <1>14, <1>15, <1>16, <1>17, <1>18, <1>19, <1>20, <1>21, <1>22, <1>23, <1>24,
       <1>25, <1>26, <1>27
       DEF Next, BootStep, CallStep, ShutdownStep

-----------------------------------------------------------------------------
Rest == DownInv /\ CloseInv /\ QuitInv /\ OrderlyExitIsClean

\* A broken connection never opens or quits a client; one that was told to quit
\* is closed by it, and then has rejected what it owed.
LEMMA BrokenRest ==
    ASSUME IInv, NEW R \in SUBSET Redis, Broken(R),
           \A r \in R : link[r] \in {"ready", "quitting", "draining"}
    PROVE  Rest'
  <1>0. /\ UNCHANGED <<up, boot, wanted, listening, conns, exit, left, hasty>>
        /\ TypeOK /\ DownInv /\ CloseInv /\ QuitInv /\ OrderlyExitIsClean
    BY DEF IInv, Broken, startup, ending
  <1>1. \A s \in Signals :
           \/ closing'[s] = closing[s]
           \/ closing[s] = "unsubscribe" /\ closing'[s] = "quit subscriber"
    BY DEF Broken, UnsubscribeRejects
  <1>2. \A r \in Redis :
           \/ link'[r] = link[r]
           \/ link[r] = "ready" /\ link'[r] = "connecting"
           \/ link[r] \in {"quitting", "draining"} /\ link'[r] = "closed" /\ r \in R
    BY DEF Broken
  <1>3. Publishing' \subseteq Publishing /\ \A c \in Clients : work[c] = "none" => work'[c] = "none"
    BY DEF Broken, Rejects, Publishing
  <1>4. "publisher" \in R /\ link["publisher"] # "ready" => Publishing' = {}
    BY DEF Broken, Rejects, Publishing
  <1>5. DownInv'
    BY <1>0, <1>1, <1>2, <1>3 DEF DownInv, Redis
  <1>6. CloseInv'
    BY <1>0, <1>1 DEF CloseInv, Past
  <1>7. QuitInv'
    <2>1. link'["publisher"] = "closed" => Publishing' = {}
      BY <1>0, <1>2, <1>3, <1>4 DEF QuitInv, Redis
    <2>2. Open("publisher") = Open("publisher")' /\ Open("subscriber") = Open("subscriber")'
      BY <1>2 DEF Open, Redis
    <2>3. \/ link'["publisher"] \in {"new", "connecting", "ready", "closed"}
          \/ \E s \in Signals : closing'[s] = "await publisher"
      <3>1. CASE link["publisher"] \in {"new", "connecting", "ready", "closed"}
        BY <3>1, <1>2 DEF Redis
      <3>2. CASE \E s \in Signals : closing[s] = "await publisher"
        BY <3>2, <1>1
      <3> QED
        BY <1>0, <3>1, <3>2 DEF QuitInv
    <2>4. \/ link'["subscriber"] \in {"new", "connecting", "ready", "closed"}
          \/ \E s \in Signals : closing'[s] = "await subscriber"
      <3>1. CASE link["subscriber"] \in {"new", "connecting", "ready", "closed"}
        BY <3>1, <1>2 DEF Redis
      <3>2. CASE \E s \in Signals : closing[s] = "await subscriber"
        BY <3>2, <1>1
      <3> QED
        BY <1>0, <3>1, <3>2 DEF QuitInv
    <2>5. up' /\ ~ Open("publisher")'
             => \E s \in Signals : closing'[s] \in {"await publisher", "prisma"}
      BY <1>0, <1>1, <2>2 DEF QuitInv
    <2>6. \A s \in Signals :
             /\ closing'[s] \in {"await publisher", "prisma"} => ~ Open("publisher")'
             /\ closing'[s] # "none" /\ s \notin hasty' => boot' = "done"
             /\ closing'[s] \in PastSubscriber /\ s \notin hasty' => ~ Open("subscriber")'
      BY <1>0, <1>1, <2>2 DEF QuitInv, PastSubscriber
    <2> QED
      BY <2>1, <2>3, <2>4, <2>5, <2>6 DEF QuitInv
  <1>8. OrderlyExitIsClean'
    BY <1>0 DEF OrderlyExitIsClean
  <1> QED
    BY <1>5, <1>6, <1>7, <1>8 DEF Rest

\* The other shutdowns stay where they are while one moves on.
LEMMA StageMoves ==
    ASSUME TypeOK, NEW s \in Signals, NEW from, NEW to, Stage(s, from, to)
    PROVE  /\ closing[s] = from
           /\ closing'[s] = to
           /\ \A t \in Signals : t # s => closing'[t] = closing[t]
           /\ UNCHANGED <<up, boot, listening, conns, work, exit, left, hasty>>
           /\ Publishing' = Publishing
  BY DEF TypeOK, Stage, traffic, ending, Publishing

\* Any other end of the process leaves nothing to account for.
LEMMA EndsRest ==
    ASSUME NEW how, how # "orderly", Ends(how)
    PROVE  Rest'
  <1>1. /\ ~ up' /\ exit' # "orderly" /\ conns' = {} /\ ~ listening'
        /\ \A s \in Signals : closing'[s] = "none"
        /\ \A c \in Clients : work'[c] = "none"
        /\ \A r \in Redis : link'[r] = "new"
        /\ Publishing' = {}
    BY DEF Ends, Publishing
  <1> QED
    BY <1>1 DEF Rest, DownInv, CloseInv, QuitInv, OrderlyExitIsClean, Open, Past,
                PastSubscriber, Redis

LEMMA RestStep == IInv /\ [Next]_vars => Rest'
  <1> SUFFICES ASSUME IInv, TypeOK, [Next]_vars PROVE Rest'
    BY DEF IInv
  <1>1. ASSUME Start PROVE Rest'
    BY <1>1 DEF Start, IInv, Rest, TypeOK, DownInv, CloseInv, QuitInv,
           OrderlyExitIsClean, Open, Publishing, Past, PastSubscriber, startup, traffic,
           ending, Redis
  <1>2. ASSUME PublisherConnected PROVE Rest'
    BY <1>2 DEF PublisherConnected, IInv, Rest, TypeOK, DownInv, CloseInv, QuitInv,
           OrderlyExitIsClean, Open, Publishing, Past, PastSubscriber, startup, traffic,
           ending, Redis
  <1>3. ASSUME SubscriberConnected PROVE Rest'
    BY <1>3 DEF SubscriberConnected, IInv, Rest, TypeOK, DownInv, CloseInv, QuitInv,
           OrderlyExitIsClean, Open, Publishing, Past, PastSubscriber, startup, traffic,
           ending, Redis
  <1>4. ASSUME Subscribed PROVE Rest'
    BY <1>4 DEF Subscribed, After, IInv, Rest, TypeOK, DownInv, CloseInv, QuitInv,
           OrderlyExitIsClean, Open, Publishing, Past, PastSubscriber, startup, traffic,
           ending, Redis
  <1>5. ASSUME BootFails PROVE Rest'
    BY <1>5, EndsRest DEF BootFails
  <1>6. ASSUME Fatal PROVE Rest'
    BY <1>6, EndsRest DEF Fatal
  <1>7. ASSUME ExitForced PROVE Rest'
    BY <1>7, EndsRest DEF ExitForced
  <1>8. ASSUME ExitIdle PROVE Rest'
    BY <1>8, EndsRest DEF ExitIdle
  <1>9. ASSUME RedisDown PROVE Rest'
    BY <1>9, BrokenRest DEF RedisDown, HasLink
  <1>10. ASSUME RedisBack PROVE Rest'
    BY <1>10 DEF RedisBack, IInv, Rest, TypeOK, DownInv, CloseInv, QuitInv,
           OrderlyExitIsClean, Open, Publishing, Past, PastSubscriber, startup, traffic,
           ending, Redis
  <1>11. ASSUME NEW r \in Redis, Linked(r) PROVE Rest'
    <2>1. /\ up /\ UNCHANGED <<up, boot, listening, conns, work, closing, exit, left, hasty>>
          /\ Publishing' = Publishing
      BY <1>11 DEF Linked, startup, traffic, ending, Publishing
    <2>2. \A q \in Redis :
             \/ link'[q] = link[q]
             \/ link[q] = "connecting" /\ link'[q] = "ready"
             \/ link[q] = "draining" /\ link'[q] = "quitting"
      BY <1>11 DEF Linked, TypeOK
    <2>11. DownInv'
      BY <2>1, <2>2 DEF IInv, DownInv, Redis
    <2>12. CloseInv'
      BY <2>1, <2>2 DEF IInv, CloseInv, Past
    <2>13. QuitInv'
      BY <2>1, <2>2 DEF IInv, DownInv, QuitInv, Open, PastSubscriber, Redis
    <2>14. OrderlyExitIsClean'
      BY <2>1, <2>2 DEF IInv, OrderlyExitIsClean
    <2> QED
      BY <2>11, <2>12, <2>13, <2>14 DEF Rest
  <1>12. ASSUME NEW r \in Redis, LinkLost(r) PROVE Rest'
    BY <1>12, BrokenRest DEF LinkLost, HasLink
  <1>13. ASSUME NEW r \in Redis, LastAttemptFails(r) PROVE Rest'
    BY <1>13, BrokenRest DEF LastAttemptFails, HasLink
  <1>14. ASSUME NEW r \in Redis, QuitAnswered(r) PROVE Rest'
    BY <1>14 DEF QuitAnswered, IInv, Rest, TypeOK, DownInv, CloseInv, QuitInv,
           OrderlyExitIsClean, Open, Publishing, Past, PastSubscriber, startup, traffic,
           ending, Redis
  <1>15. ASSUME NEW c \in Clients, Accept(c) PROVE Rest'
    BY <1>15 DEF Accept, IInv, Rest, TypeOK, DownInv, CloseInv, QuitInv,
           OrderlyExitIsClean, Open, Publishing, Past, PastSubscriber, startup, traffic,
           ending, Redis
  <1>16. ASSUME NEW c \in Clients, Leave(c) PROVE Rest'
    BY <1>16 DEF Leave, IInv, Rest, TypeOK, DownInv, CloseInv, QuitInv,
           OrderlyExitIsClean, Open, Publishing, Past, PastSubscriber, startup, traffic,
           ending, Redis
  <1>17. ASSUME NEW c \in Clients, Call(c) PROVE Rest'
    BY <1>17 DEF Call, IInv, Rest, TypeOK, DownInv, CloseInv, QuitInv,
           OrderlyExitIsClean, Open, Publishing, Past, PastSubscriber, startup, traffic,
           ending, Redis
  <1>18. ASSUME NEW c \in Clients, Queried(c) PROVE Rest'
    BY <1>18 DEF Queried, IInv, Rest, TypeOK, DownInv, CloseInv, QuitInv,
           OrderlyExitIsClean, Open, Publishing, Past, PastSubscriber, startup, traffic,
           ending, Redis
  <1>19. ASSUME NEW c \in Clients, Published(c) PROVE Rest'
    BY <1>19 DEF Published, IInv, Rest, TypeOK, DownInv, CloseInv, QuitInv,
           OrderlyExitIsClean, Open, Publishing, Past, PastSubscriber, startup, traffic,
           ending, Redis
  <1>20. ASSUME NEW s \in Signals, Signal(s) PROVE Rest'
    <2>1. /\ closing[s] = "none" /\ closing'[s] = "waiting"
          /\ \A t \in Signals : t # s => closing'[t] = closing[t]
          /\ Publishing' = Publishing
      BY <1>20 DEF Signal, TypeOK, Publishing
    <2>2. /\ up /\ ~ listening'
          /\ UNCHANGED <<up, boot, conns, work, link, exit, left>>
          /\ hasty' = IF boot = "done" THEN hasty ELSE hasty \cup {s}
      BY <1>20 DEF Signal, startup
    <2>11. DownInv'
      BY <2>1, <2>2 DEF IInv, DownInv, Redis, Open
    <2>12. CloseInv'
      BY <2>1, <2>2 DEF IInv, CloseInv, Past
    <2>13. QuitInv'
      BY <2>1, <2>2 DEF IInv, DownInv, QuitInv, Open, PastSubscriber, Redis
    <2>14. OrderlyExitIsClean'
      BY <2>1, <2>2 DEF IInv, OrderlyExitIsClean
    <2> QED
      BY <2>11, <2>12, <2>13, <2>14 DEF Rest
  <1>21. ASSUME NEW s \in Signals, ServerClosed(s) PROVE Rest'
    <2>1. /\ closing[s] = "waiting" /\ closing'[s] = "unsubscribe"
          /\ \A t \in Signals : t # s => closing'[t] = closing[t]
          /\ UNCHANGED <<up, boot, listening, conns, work, exit, left, hasty>>
          /\ Publishing' = Publishing
      BY <1>21, StageMoves DEF ServerClosed
    <2>2. conns = {} /\ UNCHANGED link
      BY <1>21 DEF ServerClosed, ServerIsClosed
    <2>11. DownInv'
      BY <2>1, <2>2 DEF IInv, DownInv, Redis, Open
    <2>12. CloseInv'
      BY <2>1, <2>2 DEF IInv, CloseInv, Past
    <2>13. QuitInv'
      BY <2>1, <2>2 DEF IInv, DownInv, QuitInv, Open, PastSubscriber, Redis
    <2>14. OrderlyExitIsClean'
      BY <2>1, <2>2 DEF IInv, OrderlyExitIsClean
    <2> QED
      BY <2>11, <2>12, <2>13, <2>14 DEF Rest
  <1>22. ASSUME NEW s \in Signals, Unsubscribed(s) PROVE Rest'
    <2>1. /\ closing[s] = "unsubscribe" /\ closing'[s] = "quit subscriber"
          /\ \A t \in Signals : t # s => closing'[t] = closing[t]
          /\ UNCHANGED <<up, boot, listening, conns, work, exit, left, hasty>>
          /\ Publishing' = Publishing
      BY <1>22, StageMoves DEF Unsubscribed
    <2>2. UNCHANGED link
      BY <1>22 DEF Unsubscribed
    <2>11. DownInv'
      BY <2>1, <2>2 DEF IInv, DownInv, Redis
    <2>12. CloseInv'
      BY <2>1, <2>2 DEF IInv, CloseInv, Past
    <2>13. QuitInv'
      BY <2>1, <2>2 DEF IInv, DownInv, QuitInv, Open, PastSubscriber, Redis
    <2>14. OrderlyExitIsClean'
      BY <2>1, <2>2 DEF IInv, OrderlyExitIsClean
    <2> QED
      BY <2>11, <2>12, <2>13, <2>14 DEF Rest
  <1>23. ASSUME NEW s \in Signals, QuitSubscriber(s) PROVE Rest'
    <2>1. /\ closing[s] = "quit subscriber"
          /\ closing'[s] = IF Open("subscriber") THEN "await subscriber" ELSE "quit publisher"
          /\ \A t \in Signals : t # s => closing'[t] = closing[t]
          /\ UNCHANGED <<up, boot, listening, conns, work, exit, left, hasty>>
          /\ Publishing' = Publishing
      BY <1>23, StageMoves DEF QuitSubscriber, Quit
    <2>2. /\ link'["publisher"] = link["publisher"]
          /\ link'["subscriber"] = CASE link["subscriber"] = "ready" -> "quitting"
                                     [] link["subscriber"] = "connecting" -> "draining"
                                     [] OTHER -> link["subscriber"]
      BY <1>23 DEF QuitSubscriber, Quit, TypeOK, Redis
    <2>3. up
      BY <2>1 DEF IInv, DownInv
    <2>11. DownInv'
      BY <2>1, <2>2, <2>3 DEF IInv, DownInv, Redis, Open
    <2>12. CloseInv'
      BY <2>1, <2>2, <2>3 DEF IInv, CloseInv, Past
    <2>13. QuitInv'
      BY <2>1, <2>2, <2>3 DEF IInv, DownInv, QuitInv, Open, PastSubscriber, Redis
    <2>14. OrderlyExitIsClean'
      BY <2>1, <2>2, <2>3 DEF IInv, OrderlyExitIsClean
    <2> QED
      BY <2>11, <2>12, <2>13, <2>14 DEF Rest
  <1>24. ASSUME NEW s \in Signals, QuitPublisher(s) PROVE Rest'
    <2>1. /\ closing[s] = "quit publisher"
          /\ closing'[s] = IF Open("publisher") THEN "await publisher" ELSE "prisma"
          /\ \A t \in Signals : t # s => closing'[t] = closing[t]
          /\ UNCHANGED <<up, boot, listening, conns, work, exit, left, hasty>>
          /\ Publishing' = Publishing
      BY <1>24, StageMoves DEF QuitPublisher, Quit
    <2>2. /\ link'["subscriber"] = link["subscriber"]
          /\ link'["publisher"] = CASE link["publisher"] = "ready" -> "quitting"
                                     [] link["publisher"] = "connecting" -> "draining"
                                     [] OTHER -> link["publisher"]
      BY <1>24 DEF QuitPublisher, Quit, TypeOK, Redis
    <2>3. up
      BY <2>1 DEF IInv, DownInv
    <2>11. DownInv'
      BY <2>1, <2>2, <2>3 DEF IInv, DownInv, Redis, Open
    <2>12. CloseInv'
      BY <2>1, <2>2, <2>3 DEF IInv, CloseInv, Past
    <2>13. QuitInv'
      BY <2>1, <2>2, <2>3 DEF IInv, DownInv, QuitInv, Open, PastSubscriber, Redis
    <2>14. OrderlyExitIsClean'
      BY <2>1, <2>2, <2>3 DEF IInv, OrderlyExitIsClean
    <2> QED
      BY <2>11, <2>12, <2>13, <2>14 DEF Rest
  <1>25. ASSUME NEW s \in Signals, HasQuit(s) PROVE Rest'
    <2>1. /\ \/ /\ link["subscriber"] = "closed"
                /\ closing[s] = "await subscriber" /\ closing'[s] = "quit publisher"
             \/ /\ link["publisher"] = "closed"
                /\ closing[s] = "await publisher" /\ closing'[s] = "prisma"
          /\ \A t \in Signals : t # s => closing'[t] = closing[t]
          /\ UNCHANGED <<up, boot, listening, conns, work, exit, left, hasty>>
          /\ Publishing' = Publishing
      BY <1>25, StageMoves DEF HasQuit
    <2>2. UNCHANGED link
      BY <1>25 DEF HasQuit
    <2>11. DownInv'
      BY <2>1, <2>2 DEF IInv, DownInv, Redis, Open
    <2>12. CloseInv'
      BY <2>1, <2>2 DEF IInv, CloseInv, Past
    <2>13. QuitInv'
      BY <2>1, <2>2 DEF IInv, DownInv, QuitInv, Open, PastSubscriber, Redis
    <2>14. OrderlyExitIsClean'
      BY <2>1, <2>2 DEF IInv, OrderlyExitIsClean
    <2> QED
      BY <2>11, <2>12, <2>13, <2>14 DEF Rest
  <1>26. ASSUME NEW s \in Signals, ExitOrderly(s) PROVE Rest'
    <2>1. /\ up /\ ~ up' /\ boot' = boot /\ hasty' = hasty
          /\ conns' = {} /\ ~ listening'
          /\ \A t \in Signals : closing'[t] = "none"
          /\ \A c \in Clients : work'[c] = "none"
          /\ \A r \in Redis : link'[r] = "new"
          /\ Publishing' = {}
      BY <1>26 DEF ExitOrderly, Ends, startup, Publishing
    <2>2. /\ left'.conns = conns
          /\ left'.calls = Publishing
          /\ left'.clients = {r \in Redis : link[r] \notin {"new", "closed"}}
          /\ left'.signals = {t \in Signals : closing[t] # "none"}
          /\ closing[s] = "prisma"
      BY <1>26 DEF ExitOrderly, Ends
    <2>3. DownInv' /\ CloseInv' /\ QuitInv'
      BY <2>1 DEF DownInv, CloseInv, QuitInv, Open, Past, PastSubscriber, Redis
    <2>4. conns = {} /\ ~ Open("publisher")
      BY <2>2 DEF IInv, CloseInv, QuitInv, Past
    <2>5. ASSUME NEW t \in Signals, left'.signals = {t}
          PROVE  /\ left'.calls = {}
                 /\ "publisher" \notin left'.clients
                 /\ t \notin hasty' => left'.clients = {}
      <3>1. t = s /\ \A v \in Signals : v # s => closing[v] = "none"
        BY <2>2, <2>5
      <3>2. link["publisher"] = "closed"
        BY <2>1, <2>2, <2>4, <3>1 DEF IInv, DownInv, QuitInv, TypeOK, Links, Open, Redis
      <3>3. s \notin hasty => link["subscriber"] = "closed"
        BY <2>1, <2>2, <3>1 DEF IInv, DownInv, QuitInv, TypeOK, Links, Open, PastSubscriber, Redis
      <3> QED
        <4>1. left'.calls = {}
          BY <2>2, <3>2 DEF IInv, QuitInv
        <4>2. "publisher" \notin left'.clients
          BY <2>2, <3>2
        <4>3. t \notin hasty' => left'.clients = {}
          BY <2>1, <2>2, <3>1, <3>2, <3>3 DEF Redis
        <4> QED
          BY <4>1, <4>2, <4>3
    <2>6. OrderlyExitIsClean'
      BY <2>2, <2>4, <2>5 DEF OrderlyExitIsClean
    <2> QED
      BY <2>3, <2>6 DEF Rest
  <1>27. CASE UNCHANGED vars
    BY <1>27 DEF vars, IInv, Rest, TypeOK, DownInv, CloseInv, QuitInv,
           OrderlyExitIsClean, Open, Publishing, Past, PastSubscriber, startup, traffic,
           ending, Redis
  <1> QED
    BY <1>1, <1>2, <1>3, <1>4, <1>5, <1>6, <1>7, <1>8, <1>9, <1>10, <1>11, <1>12, <1>13,
       <1>14, <1>15, <1>16, <1>17, <1>18, <1>19, <1>20, <1>21, <1>22, <1>23, <1>24,
       <1>25, <1>26, <1>27
       DEF Next, BootStep, CallStep, ShutdownStep

LEMMA StepInv == IInv /\ [Next]_vars => IInv'
  BY TypeStep, RestStep DEF IInv, Rest

THEOREM Inductive == Spec => []IInv
  BY InitInv, StepInv, PTL DEF Spec

-----------------------------------------------------------------------------
\* index.ts and redis.pubsub.ts: every variable keeps the type the code gives it.
THEOREM TypeCorrect == Spec => []TypeOK
  <1>1. IInv => TypeOK
    BY DEF IInv
  <1> QED
    BY <1>1, Inductive, PTL

\* index.ts:68-77: the publisher is open for as long as a connection is, for any
\* number of connections and signals.
THEOREM RedisIsThere == Spec => []RedisOutlivesConnections
  <1>1. IInv => RedisOutlivesConnections
    BY DEF IInv, TypeOK, DownInv, CloseInv, QuitInv, Past, RedisOutlivesConnections
  <1> QED
    BY <1>1, Inductive, PTL

\* index.ts:68-77, redis.pubsub.ts:216-249: an exit with code 0 cuts no
\* connection and, after a single signal, no publication and no Redis client.
THEOREM OrderlyIsClean == Spec => []OrderlyExitIsClean
  <1>1. IInv => OrderlyExitIsClean
    BY DEF IInv
  <1> QED
    BY <1>1, Inductive, PTL

-----------------------------------------------------------------------------
(* What DeafnessEnds waits for                                             *)

\* The channels that are subscribed to before the start-up awaits b.
Before(b) ==
    CASE b = "typing"        -> {"notifications"}
      [] b = "read-receipts" -> {"notifications", "typing"}
      [] b = "done"          -> Channels
      [] OTHER               -> {}

\* Of a process that nobody has told to stop: it has subscribed to the channels
\* in order, has lost none again, and its subscriber is not closed.
HearInv ==
    up /\ ~ Signalled =>
        /\ wanted = Before(boot)
        /\ link["subscriber"] \in {"new", "connecting", "ready"}

\* index.ts:41-47: a process that is past its start-up hears all channels, or is
\* told to stop, or waits for Redis to take its subscriber back.  No order of
\* lost connections, signals and failures leaves it up and deaf.
DeafOnlyWithoutRedis ==
    up /\ boot = "done" /\ ~ Signalled => Hears \/ link["subscriber"] = "connecting"

LEMMA HearEnds ==
    ASSUME NEW how, Ends(how)
    PROVE  HearInv'
  BY DEF Ends, HearInv

\* A broken connection of a client that is open is made again.
LEMMA HearBroken ==
    ASSUME TypeOK, HearInv, NEW R \in SUBSET Redis, Broken(R),
           \A r \in R : link[r] \in {"ready", "quitting", "draining"}
    PROVE  HearInv'
  <1>1. UNCHANGED <<up, boot, wanted>>
    BY DEF Broken, startup
  <1>2. Signalled => Signalled'
    BY DEF Broken, UnsubscribeRejects, Signalled
  <1>3. \A r \in Redis : link[r] \in {"new", "connecting"} => link'[r] = link[r]
    BY DEF Broken
  <1>4. \A r \in Redis : link[r] = "ready" => link'[r] \in {"connecting", "ready"}
    BY DEF Broken
  <1> QED
    BY <1>1, <1>2, <1>3, <1>4 DEF HearInv, Redis

LEMMA HearStep == TypeOK /\ DownInv /\ HearInv /\ [Next]_vars => HearInv'
  <1> SUFFICES ASSUME TypeOK, DownInv, HearInv, [Next]_vars PROVE HearInv'
    OBVIOUS
  <1>1. ASSUME Start PROVE HearInv'
    BY <1>1 DEF Start, DownInv, HearInv, Before, TypeOK, Redis
  <1>2. ASSUME PublisherConnected PROVE HearInv'
    BY <1>2 DEF PublisherConnected, HearInv, Before, Signalled, TypeOK, Redis, ending
  <1>3. ASSUME SubscriberConnected PROVE HearInv'
    BY <1>3 DEF SubscriberConnected, HearInv, Before, Signalled, traffic, ending
  <1>4. ASSUME Subscribed PROVE HearInv'
    BY <1>4 DEF Subscribed, After, HearInv, Before, Signalled, Channels, traffic, ending
  <1>5. ASSUME BootFails \/ Fatal \/ ExitForced \/ ExitIdle PROVE HearInv'
    BY <1>5, HearEnds DEF BootFails, Fatal, ExitForced, ExitIdle
  <1>6. ASSUME NEW s \in Signals, ExitOrderly(s) PROVE HearInv'
    BY <1>6, HearEnds DEF ExitOrderly
  <1>7. ASSUME RedisDown PROVE HearInv'
    BY <1>7, HearBroken DEF RedisDown, HasLink
  <1>8. ASSUME NEW r \in Redis, LinkLost(r) \/ LastAttemptFails(r) PROVE HearInv'
    <2>1. {r} \in SUBSET Redis /\ Broken({r}) /\ link[r] \in {"ready", "quitting", "draining"}
      BY <1>8 DEF LinkLost, LastAttemptFails, HasLink
    <2> QED
      BY <2>1, HearBroken
  <1>9. ASSUME NEW r \in Redis, Linked(r) \/ QuitAnswered(r) PROVE HearInv'
    <2>1. UNCHANGED <<up, boot, wanted, closing>>
      BY <1>9 DEF Linked, QuitAnswered, startup
    <2>2. \A q \in Redis :
             \/ link'[q] = link[q]
             \/ link[q] = "connecting" /\ link'[q] = "ready"
             \/ link[q] \in {"draining", "quitting"}
      BY <1>9 DEF Linked, QuitAnswered, TypeOK
    <2> QED
      BY <2>1, <2>2 DEF HearInv, Signalled, Redis
  <1>10. ASSUME RedisBack PROVE HearInv'
    BY <1>10 DEF RedisBack, HearInv, Signalled, startup
  <1>11. ASSUME NEW c \in Clients, Accept(c) \/ Leave(c) \/ Call(c) \/ CallStep(c) PROVE HearInv'
    BY <1>11 DEF Accept, Leave, Call, CallStep, Queried, Published, HearInv,
           Signalled, startup
  <1>12. ASSUME NEW s \in Signals, Signal(s) PROVE HearInv'
    BY <1>12 DEF Signal, HearInv, Signalled, TypeOK
  <1>13. ASSUME NEW s \in Signals, NEW from, NEW to, Stage(s, from, to), from # "none", to # "none"
         PROVE  HearInv'
    BY <1>13 DEF Stage, HearInv, Signalled, TypeOK
  <1>14. ASSUME NEW s \in Signals,
                ServerClosed(s) \/ Unsubscribed(s) \/ QuitSubscriber(s) \/ QuitPublisher(s)
                  \/ HasQuit(s)
         PROVE  HearInv'
    BY <1>13, <1>14 DEF ServerClosed, Unsubscribed, QuitSubscriber, QuitPublisher, Quit, HasQuit
  <1>15. CASE UNCHANGED vars
    BY <1>15 DEF vars, HearInv, Signalled, startup
  <1> QED
    BY <1>1, <1>2, <1>3, <1>4, <1>5, <1>6, <1>7, <1>8, <1>9, <1>10, <1>11, <1>12, <1>14,
       <1>15
       DEF Next, BootStep, ShutdownStep

\* DeafnessEnds takes the reconnection that is under way and nothing else.
THEOREM NeverLeftDeaf == Spec => []DeafOnlyWithoutRedis
  <1>1. Init => HearInv
    BY DEF Init, HearInv
  <1>2. IInv /\ HearInv => DeafOnlyWithoutRedis
    BY DEF IInv, DownInv, HearInv, Before, DeafOnlyWithoutRedis, Hears
  <1>3. IInv => TypeOK /\ DownInv
    BY DEF IInv
  <1> QED
    BY <1>1, <1>2, <1>3, HearStep, Inductive, PTL DEF Spec
=============================================================================
