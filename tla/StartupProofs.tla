--------------------------- MODULE StartupProofs ---------------------------
(***************************************************************************)
(* Theorems about Startup, for any finite set of clients and any number of *)
(* daemons killed, with an idle exit or without.                           *)
(***************************************************************************)
EXTENDS Startup, FiniteSetTheorems, TLAPS

\* The connections of d whose guard is held.
Open(d) == {c \in Clients : peer[c] = d /\ link[c] = "open"}

\* A client that still looks for a daemon has no connection, and no daemon of its
\* own before it has spawned one.
Seekers ==
  \A c \in Clients :
    cstage[c] \in Seeking =>
      /\ link[c] = "none" /\ peer[c] = None
      /\ cstage[c] # "poll" => dstage[c] = "none"

\* A connection that is open, or soon, belongs to a daemon that listens.
LinksLive ==
  \A c \in Clients :
    link[c] \in {"backlog", "open", "notify"} => peer[c] \in Daemons /\ Listens(peer[c])

\* The counter of a daemon counts the guards that are held.
GuardsCounted ==
  \A d \in Daemons :
    /\ dstage[d] \in {"none", "starting", "bound"} => active[d] = 0
    /\ Listens(d) => active[d] = Cardinality(Open(d))

\* A deadline is armed without connections only.
ArmedUnused ==
  \A d \in Daemons : dstage[d] \in {"select", "wait"} /\ armed[d] => active[d] = 0

StartupInv ==
  /\ TypeOK /\ Seekers /\ LinksLive /\ GuardsCounted
  /\ ArmedUnused /\ ReachableUnlessStolen

LEMMA OpenFinite ==
  ASSUME NEW d
  PROVE  IsFiniteSet(Open(d)) /\ Cardinality(Open(d)) \in 0..Cardinality(Clients)
<1>1. Open(d) \subseteq Clients
  BY DEF Open
<1>2. QED
  BY <1>1, StartupAssumption, FS_Subset, FS_CardinalityType

LEMMA OpenCount ==
  ASSUME NEW d, NEW c
  PROVE  /\ c \in Open(d) => Cardinality(Open(d) \ {c}) = Cardinality(Open(d)) - 1
         /\ c \notin Open(d) => Cardinality(Open(d) \cup {c}) = Cardinality(Open(d)) + 1
         /\ Open(d) = {} <=> Cardinality(Open(d)) = 0
BY OpenFinite, FS_AddElement, FS_RemoveElement, FS_EmptySet

LEMMA StartupInvInit == Init => StartupInv
<1> SUFFICES ASSUME Init PROVE StartupInv
  OBVIOUS
<1>1. Cardinality(Clients) \in Nat
  BY StartupAssumption, FS_CardinalityType
<1>2. TypeOK
  BY <1>1, StartupAssumption DEF Init, TypeOK, Daemons, Seeking, Loop
<1>3. QED
  BY <1>2, StartupAssumption DEF Init, StartupInv, Seekers, LinksLive, GuardsCounted,
     ArmedUnused, ReachableUnlessStolen, Listens, Loop, Daemons, Seeking

LEMMA TypeOKKept ==
  ASSUME StartupInv, [Next]_vars
  PROVE  TypeOK'
<1>0. TypeOK /\ LinksLive /\ GuardsCounted
  BY DEF StartupInv
<1> USE StartupAssumption DEF Daemons, Seeking, Loop, Listens, TypeOK
<1>1. ASSUME NEW c \in Clients, First(c) PROVE TypeOK'
  BY <1>0, <1>1 DEF TypeOK, ConnectSucceeds, Refused, Goes, daemonVars, First
<1>2. ASSUME NEW c \in Clients, Second(c) PROVE TypeOK'
  BY <1>0, <1>2 DEF TypeOK, ConnectSucceeds, Refused, Goes, daemonVars, Second
<1>3. ASSUME NEW c \in Clients, Unlink(c) PROVE TypeOK'
  BY <1>0, <1>3 DEF TypeOK, Goes, daemonVars, Runs, Unlink
<1>4. ASSUME NEW c \in Clients, SpawnDaemon(c) PROVE TypeOK'
  BY <1>0, <1>4 DEF TypeOK, Goes, SpawnDaemon
<1>5. ASSUME NEW c \in Clients, Poll(c) PROVE TypeOK'
  BY <1>0, <1>5 DEF TypeOK, ConnectSucceeds, Refused, Goes, daemonVars, Poll
<1>6. ASSUME NEW c \in Clients, GuardDrops(c) PROVE TypeOK'
  <2>1. peer[c] \in Daemons /\ Listens(peer[c])
    BY <1>0, <1>6 DEF GuardDrops, LinksLive
  <2>2. active[peer[c]] # 0
    <3>1. c \in Open(peer[c])
      BY <1>6 DEF GuardDrops, Open
    <3>2. QED
      BY <1>0, <2>1, <3>1, OpenCount DEF GuardsCounted
  <2>3. active[peer[c]] - 1 \in 0..Cardinality(Clients)
    BY <1>0, <2>1, <2>2, FS_CardinalityType
  <2>4. QED
    BY <1>0, <1>6, <2>1, <2>2, <2>3 DEF TypeOK, GuardDrops
<1>7. ASSUME NEW c \in Clients, Notify(c) PROVE TypeOK'
  BY <1>0, <1>7 DEF TypeOK, Notify
<1>8. ASSUME NEW d \in Daemons, Bind(d) PROVE TypeOK'
  BY <1>0, <1>8 DEF TypeOK, Bind
<1>9. ASSUME NEW d \in Daemons, Listen(d) PROVE TypeOK'
  BY <1>0, <1>9 DEF TypeOK, Listen
<1>10. ASSUME NEW d \in Daemons, Arm(d) PROVE TypeOK'
  BY <1>0, <1>10 DEF TypeOK, Arm
<1>11. ASSUME NEW d \in Daemons, Wait(d) PROVE TypeOK'
  BY <1>0, <1>11 DEF TypeOK, Wait
<1>12. ASSUME NEW d \in Daemons, Accept(d) PROVE TypeOK'
  <2>1. PICK c \in Clients :
          /\ peer[c] = d /\ link[c] = "backlog"
          /\ link' = [link EXCEPT ![c] = "open"]
    BY <1>12 DEF Accept
  <2>2. active[d] + 1 \in 0..Cardinality(Clients)
    <3>1. Open(d) \subseteq Clients /\ c \in Clients \ Open(d)
      BY <2>1 DEF Open
    <3>2. Open(d) # Clients /\ Cardinality(Open(d)) \in Nat
      BY <3>1, OpenFinite
    <3>3. Cardinality(Open(d)) < Cardinality(Clients)
      BY <3>1, <3>2, OpenFinite, FS_Subset, FS_CardinalityType
    <3>4. active[d] = Cardinality(Open(d))
      BY <1>0, <1>12 DEF Accept, GuardsCounted
    <3>5. QED
      BY <3>2, <3>3, <3>4, FS_CardinalityType
  <2>3. QED
    BY <1>0, <1>12, <2>1, <2>2 DEF Accept
<1>13. ASSUME NEW d \in Daemons, Notified(d) PROVE TypeOK'
  BY <1>0, <1>13 DEF TypeOK, Notified
<1>14. ASSUME NEW d \in Daemons, IdleExit(d) PROVE TypeOK'
  BY <1>0, <1>14 DEF TypeOK, Ends, IdleExit
<1>15. ASSUME NEW d \in Daemons, Kill(d) PROVE TypeOK'
  BY <1>0, <1>15 DEF TypeOK, Ends, Runs, Kill
<1>16. CASE UNCHANGED vars
  BY <1>0, <1>16 DEF vars, TypeOK
<1>17. QED
  BY <1>1, <1>2, <1>3, <1>4, <1>5, <1>6, <1>7, <1>8, <1>9, <1>10, <1>11, <1>12, <1>13, <1>14, <1>15, <1>16 DEF Next, Client, Connection, Daemon

LEMMA SeekersKept ==
  ASSUME StartupInv, [Next]_vars
  PROVE  Seekers'
<1>0. TypeOK /\ Seekers
  BY DEF StartupInv
<1> USE StartupAssumption DEF Daemons, Seeking, Loop, Listens, TypeOK
<1>1. ASSUME NEW c \in Clients, First(c) PROVE Seekers'
  BY <1>0, <1>1 DEF Seekers, ConnectSucceeds, Refused, Goes, daemonVars, First
<1>2. ASSUME NEW c \in Clients, Second(c) PROVE Seekers'
  BY <1>0, <1>2 DEF Seekers, ConnectSucceeds, Refused, Goes, daemonVars, Second
<1>3. ASSUME NEW c \in Clients, Unlink(c) PROVE Seekers'
  BY <1>0, <1>3 DEF Seekers, Goes, daemonVars, Runs, Unlink
<1>4. ASSUME NEW c \in Clients, SpawnDaemon(c) PROVE Seekers'
  BY <1>0, <1>4 DEF Seekers, Goes, SpawnDaemon
<1>5. ASSUME NEW c \in Clients, Poll(c) PROVE Seekers'
  BY <1>0, <1>5 DEF Seekers, ConnectSucceeds, Refused, Goes, daemonVars, Poll
<1>6. ASSUME NEW c \in Clients, GuardDrops(c) PROVE Seekers'
  BY <1>0, <1>6 DEF Seekers, GuardDrops
<1>7. ASSUME NEW c \in Clients, Notify(c) PROVE Seekers'
  BY <1>0, <1>7 DEF Seekers, Notify
<1>8. ASSUME NEW d \in Daemons, Bind(d) PROVE Seekers'
  BY <1>0, <1>8 DEF Seekers, Bind
<1>9. ASSUME NEW d \in Daemons, Listen(d) PROVE Seekers'
  BY <1>0, <1>9 DEF Seekers, Listen
<1>10. ASSUME NEW d \in Daemons, Arm(d) PROVE Seekers'
  BY <1>0, <1>10 DEF Seekers, Arm
<1>11. ASSUME NEW d \in Daemons, Wait(d) PROVE Seekers'
  BY <1>0, <1>11 DEF Seekers, Wait
<1>12. ASSUME NEW d \in Daemons, Accept(d) PROVE Seekers'
  BY <1>0, <1>12 DEF Seekers, Accept
<1>13. ASSUME NEW d \in Daemons, Notified(d) PROVE Seekers'
  BY <1>0, <1>13 DEF Seekers, Notified
<1>14. ASSUME NEW d \in Daemons, IdleExit(d) PROVE Seekers'
  BY <1>0, <1>14 DEF Seekers, Ends, IdleExit
<1>15. ASSUME NEW d \in Daemons, Kill(d) PROVE Seekers'
  BY <1>0, <1>15 DEF Seekers, Ends, Runs, Kill
<1>16. CASE UNCHANGED vars
  BY <1>0, <1>16 DEF vars, Seekers
<1>17. QED
  BY <1>1, <1>2, <1>3, <1>4, <1>5, <1>6, <1>7, <1>8, <1>9, <1>10, <1>11, <1>12, <1>13, <1>14, <1>15, <1>16 DEF Next, Client, Connection, Daemon

LEMMA LinksLiveKept ==
  ASSUME StartupInv, [Next]_vars
  PROVE  LinksLive'
<1>0. TypeOK /\ Seekers /\ LinksLive
  BY DEF StartupInv
<1> USE StartupAssumption DEF Daemons, Seeking, Loop, Listens, TypeOK
<1>1. ASSUME NEW c \in Clients, First(c) PROVE LinksLive'
  BY <1>0, <1>1 DEF LinksLive, Seekers, ConnectSucceeds, Refused, Goes, daemonVars, First
<1>2. ASSUME NEW c \in Clients, Second(c) PROVE LinksLive'
  BY <1>0, <1>2 DEF LinksLive, Seekers, ConnectSucceeds, Refused, Goes, daemonVars, Second
<1>3. ASSUME NEW c \in Clients, Unlink(c) PROVE LinksLive'
  BY <1>0, <1>3 DEF LinksLive, Seekers, Goes, daemonVars, Runs, Unlink
<1>4. ASSUME NEW c \in Clients, SpawnDaemon(c) PROVE LinksLive'
  BY <1>0, <1>4 DEF LinksLive, Seekers, Goes, SpawnDaemon
<1>5. ASSUME NEW c \in Clients, Poll(c) PROVE LinksLive'
  BY <1>0, <1>5 DEF LinksLive, Seekers, ConnectSucceeds, Refused, Goes, daemonVars, Poll
<1>6. ASSUME NEW c \in Clients, GuardDrops(c) PROVE LinksLive'
  BY <1>0, <1>6 DEF LinksLive, Seekers, GuardDrops
<1>7. ASSUME NEW c \in Clients, Notify(c) PROVE LinksLive'
  BY <1>0, <1>7 DEF LinksLive, Seekers, Notify
<1>8. ASSUME NEW d \in Daemons, Bind(d) PROVE LinksLive'
  BY <1>0, <1>8 DEF LinksLive, Seekers, Bind
<1>9. ASSUME NEW d \in Daemons, Listen(d) PROVE LinksLive'
  BY <1>0, <1>9 DEF LinksLive, Seekers, Listen
<1>10. ASSUME NEW d \in Daemons, Arm(d) PROVE LinksLive'
  BY <1>0, <1>10 DEF LinksLive, Seekers, Arm
<1>11. ASSUME NEW d \in Daemons, Wait(d) PROVE LinksLive'
  BY <1>0, <1>11 DEF LinksLive, Seekers, Wait
<1>12. ASSUME NEW d \in Daemons, Accept(d) PROVE LinksLive'
  BY <1>0, <1>12 DEF LinksLive, Seekers, Accept
<1>13. ASSUME NEW d \in Daemons, Notified(d) PROVE LinksLive'
  BY <1>0, <1>13 DEF LinksLive, Seekers, Notified
<1>14. ASSUME NEW d \in Daemons, IdleExit(d) PROVE LinksLive'
  BY <1>0, <1>14 DEF LinksLive, Seekers, Ends, IdleExit
<1>15. ASSUME NEW d \in Daemons, Kill(d) PROVE LinksLive'
  BY <1>0, <1>15 DEF LinksLive, Seekers, Ends, Runs, Kill
<1>16. CASE UNCHANGED vars
  BY <1>0, <1>16 DEF vars, LinksLive, Seekers
<1>17. QED
  BY <1>1, <1>2, <1>3, <1>4, <1>5, <1>6, <1>7, <1>8, <1>9, <1>10, <1>11, <1>12, <1>13, <1>14, <1>15, <1>16 DEF Next, Client, Connection, Daemon

LEMMA ArmedUnusedKept ==
  ASSUME StartupInv, [Next]_vars
  PROVE  ArmedUnused'
<1>0. TypeOK /\ Seekers /\ LinksLive /\ GuardsCounted /\ ArmedUnused
  BY DEF StartupInv
<1> USE StartupAssumption DEF Daemons, Seeking, Loop, Listens, TypeOK
<1>1. ASSUME NEW c \in Clients, First(c) PROVE ArmedUnused'
  BY <1>0, <1>1 DEF ArmedUnused, ConnectSucceeds, Refused, Goes, daemonVars, First
<1>2. ASSUME NEW c \in Clients, Second(c) PROVE ArmedUnused'
  BY <1>0, <1>2 DEF ArmedUnused, ConnectSucceeds, Refused, Goes, daemonVars, Second
<1>3. ASSUME NEW c \in Clients, Unlink(c) PROVE ArmedUnused'
  BY <1>0, <1>3 DEF ArmedUnused, Goes, daemonVars, Runs, Unlink
<1>4. ASSUME NEW c \in Clients, SpawnDaemon(c) PROVE ArmedUnused'
  BY <1>0, <1>4 DEF ArmedUnused, Goes, SpawnDaemon
<1>5. ASSUME NEW c \in Clients, Poll(c) PROVE ArmedUnused'
  BY <1>0, <1>5 DEF ArmedUnused, ConnectSucceeds, Refused, Goes, daemonVars, Poll
<1>6. ASSUME NEW c \in Clients, GuardDrops(c) PROVE ArmedUnused'
  <2>1. peer[c] \in Daemons /\ Listens(peer[c])
    BY <1>0, <1>6 DEF GuardDrops, LinksLive
  <2>2. active[peer[c]] # 0
    <3>1. c \in Open(peer[c])
      BY <1>6 DEF GuardDrops, Open
    <3>2. QED
      BY <1>0, <2>1, <3>1, OpenCount DEF GuardsCounted
  <2>3. active[peer[c]] - 1 \in 0..Cardinality(Clients)
    BY <1>0, <2>1, <2>2, FS_CardinalityType
  <2>4. QED
    BY <1>0, <1>6, <2>1, <2>2, <2>3 DEF ArmedUnused, GuardDrops
<1>7. ASSUME NEW c \in Clients, Notify(c) PROVE ArmedUnused'
  BY <1>0, <1>7 DEF ArmedUnused, Notify
<1>8. ASSUME NEW d \in Daemons, Bind(d) PROVE ArmedUnused'
  BY <1>0, <1>8 DEF ArmedUnused, Bind
<1>9. ASSUME NEW d \in Daemons, Listen(d) PROVE ArmedUnused'
  BY <1>0, <1>9 DEF ArmedUnused, Listen
<1>10. ASSUME NEW d \in Daemons, Arm(d) PROVE ArmedUnused'
  BY <1>0, <1>10 DEF ArmedUnused, Arm
<1>11. ASSUME NEW d \in Daemons, Wait(d) PROVE ArmedUnused'
  BY <1>0, <1>11 DEF ArmedUnused, Wait
<1>12. ASSUME NEW d \in Daemons, Accept(d) PROVE ArmedUnused'
  BY <1>0, <1>12 DEF ArmedUnused, Accept
<1>13. ASSUME NEW d \in Daemons, Notified(d) PROVE ArmedUnused'
  BY <1>0, <1>13 DEF ArmedUnused, Notified
<1>14. ASSUME NEW d \in Daemons, IdleExit(d) PROVE ArmedUnused'
  BY <1>0, <1>14 DEF ArmedUnused, Ends, IdleExit
<1>15. ASSUME NEW d \in Daemons, Kill(d) PROVE ArmedUnused'
  BY <1>0, <1>15 DEF ArmedUnused, Ends, Runs, Kill
<1>16. CASE UNCHANGED vars
  BY <1>0, <1>16 DEF vars, ArmedUnused
<1>17. QED
  BY <1>1, <1>2, <1>3, <1>4, <1>5, <1>6, <1>7, <1>8, <1>9, <1>10, <1>11, <1>12, <1>13, <1>14, <1>15, <1>16 DEF Next, Client, Connection, Daemon

LEMMA ReachableUnlessStolenKept ==
  ASSUME StartupInv, [Next]_vars
  PROVE  ReachableUnlessStolen'
<1>0. TypeOK /\ Seekers /\ ReachableUnlessStolen
  BY DEF StartupInv
<1> USE StartupAssumption DEF Daemons, Seeking, Loop, Listens, TypeOK
<1>1. ASSUME NEW c \in Clients, First(c) PROVE ReachableUnlessStolen'
  BY <1>0, <1>1 DEF ReachableUnlessStolen, Runs, ConnectSucceeds, Refused, Goes, daemonVars, First
<1>2. ASSUME NEW c \in Clients, Second(c) PROVE ReachableUnlessStolen'
  BY <1>0, <1>2 DEF ReachableUnlessStolen, Runs, ConnectSucceeds, Refused, Goes, daemonVars, Second
<1>3. ASSUME NEW c \in Clients, Unlink(c) PROVE ReachableUnlessStolen'
  BY <1>0, <1>3 DEF ReachableUnlessStolen, Runs, Goes, daemonVars, Unlink
<1>4. ASSUME NEW c \in Clients, SpawnDaemon(c) PROVE ReachableUnlessStolen'
  BY <1>0, <1>4 DEF ReachableUnlessStolen, Runs, Goes, SpawnDaemon
<1>5. ASSUME NEW c \in Clients, Poll(c) PROVE ReachableUnlessStolen'
  BY <1>0, <1>5 DEF ReachableUnlessStolen, Runs, ConnectSucceeds, Refused, Goes, daemonVars, Poll
<1>6. ASSUME NEW c \in Clients, GuardDrops(c) PROVE ReachableUnlessStolen'
  BY <1>0, <1>6 DEF ReachableUnlessStolen, Runs, GuardDrops
<1>7. ASSUME NEW c \in Clients, Notify(c) PROVE ReachableUnlessStolen'
  BY <1>0, <1>7 DEF ReachableUnlessStolen, Runs, Notify
<1>8. ASSUME NEW d \in Daemons, Bind(d) PROVE ReachableUnlessStolen'
  BY <1>0, <1>8 DEF ReachableUnlessStolen, Runs, Bind
<1>9. ASSUME NEW d \in Daemons, Listen(d) PROVE ReachableUnlessStolen'
  BY <1>0, <1>9 DEF ReachableUnlessStolen, Runs, Listen
<1>10. ASSUME NEW d \in Daemons, Arm(d) PROVE ReachableUnlessStolen'
  BY <1>0, <1>10 DEF ReachableUnlessStolen, Runs, Arm
<1>11. ASSUME NEW d \in Daemons, Wait(d) PROVE ReachableUnlessStolen'
  BY <1>0, <1>11 DEF ReachableUnlessStolen, Runs, Wait
<1>12. ASSUME NEW d \in Daemons, Accept(d) PROVE ReachableUnlessStolen'
  BY <1>0, <1>12 DEF ReachableUnlessStolen, Runs, Accept
<1>13. ASSUME NEW d \in Daemons, Notified(d) PROVE ReachableUnlessStolen'
  BY <1>0, <1>13 DEF ReachableUnlessStolen, Runs, Notified
<1>14. ASSUME NEW d \in Daemons, IdleExit(d) PROVE ReachableUnlessStolen'
  BY <1>0, <1>14 DEF ReachableUnlessStolen, Runs, Ends, IdleExit
<1>15. ASSUME NEW d \in Daemons, Kill(d) PROVE ReachableUnlessStolen'
  BY <1>0, <1>15 DEF ReachableUnlessStolen, Runs, Ends, Kill
<1>16. CASE UNCHANGED vars
  BY <1>0, <1>16 DEF vars, ReachableUnlessStolen, Runs
<1>17. QED
  BY <1>1, <1>2, <1>3, <1>4, <1>5, <1>6, <1>7, <1>8, <1>9, <1>10, <1>11, <1>12, <1>13, <1>14, <1>15, <1>16 DEF Next, Client, Connection, Daemon

LEMMA GuardsCountedKept ==
  ASSUME StartupInv, [Next]_vars
  PROVE  GuardsCounted'
<1>0. TypeOK /\ Seekers /\ LinksLive /\ GuardsCounted
  BY DEF StartupInv
<1> USE StartupAssumption DEF Daemons, Seeking, Loop, Listens, TypeOK
<1>1. ASSUME NEW c \in Clients, First(c) PROVE GuardsCounted'
  <2>1. \A e \in Daemons : Open(e)' = Open(e)
    BY <1>0, <1>1 DEF ConnectSucceeds, Refused, Goes, daemonVars, First, Open, Seekers
  <2>2. QED
    BY <1>0, <1>1, <2>1 DEF ConnectSucceeds, Refused, Goes, daemonVars, First, GuardsCounted, Seekers
<1>2. ASSUME NEW c \in Clients, Second(c) PROVE GuardsCounted'
  <2>1. \A e \in Daemons : Open(e)' = Open(e)
    BY <1>0, <1>2 DEF ConnectSucceeds, Refused, Goes, daemonVars, Second, Open, Seekers
  <2>2. QED
    BY <1>0, <1>2, <2>1 DEF ConnectSucceeds, Refused, Goes, daemonVars, Second, GuardsCounted, Seekers
<1>3. ASSUME NEW c \in Clients, Unlink(c) PROVE GuardsCounted'
  <2>1. \A e \in Daemons : Open(e)' = Open(e)
    BY <1>0, <1>3 DEF Goes, daemonVars, Runs, Unlink, Open, Seekers
  <2>2. QED
    BY <1>0, <1>3, <2>1 DEF Goes, daemonVars, Runs, Unlink, GuardsCounted, Seekers
<1>4. ASSUME NEW c \in Clients, SpawnDaemon(c) PROVE GuardsCounted'
  <2>1. \A e \in Daemons : Open(e)' = Open(e)
    BY <1>0, <1>4 DEF Goes, SpawnDaemon, Open, Seekers
  <2>2. QED
    BY <1>0, <1>4, <2>1 DEF Goes, SpawnDaemon, GuardsCounted, Seekers
<1>5. ASSUME NEW c \in Clients, Poll(c) PROVE GuardsCounted'
  <2>1. \A e \in Daemons : Open(e)' = Open(e)
    BY <1>0, <1>5 DEF ConnectSucceeds, Refused, Goes, daemonVars, Poll, Open, Seekers
  <2>2. QED
    BY <1>0, <1>5, <2>1 DEF ConnectSucceeds, Refused, Goes, daemonVars, Poll, GuardsCounted, Seekers
<1>6. ASSUME NEW c \in Clients, GuardDrops(c) PROVE GuardsCounted'
  <2>1. peer[c] \in Daemons /\ Listens(peer[c])
    BY <1>0, <1>6 DEF GuardDrops, LinksLive
  <2>2. Open(peer[c])' = Open(peer[c]) \ {c} /\ c \in Open(peer[c])
    BY <1>0, <1>6 DEF GuardDrops, Open
  <2>3. \A e \in Daemons \ {peer[c]} : Open(e)' = Open(e)
    BY <1>0, <1>6 DEF GuardDrops, Open
  <2>4. Cardinality(Open(peer[c])') = Cardinality(Open(peer[c])) - 1
    BY <2>2, OpenCount
  <2>5. QED
    BY <1>0, <1>6, <2>1, <2>3, <2>4 DEF GuardDrops, GuardsCounted
<1>7. ASSUME NEW c \in Clients, Notify(c) PROVE GuardsCounted'
  <2>1. \A e \in Daemons : Open(e)' = Open(e)
    BY <1>0, <1>7 DEF Notify, Open, Seekers
  <2>2. QED
    BY <1>0, <1>7, <2>1 DEF Notify, GuardsCounted, Seekers
<1>8. ASSUME NEW d \in Daemons, Bind(d) PROVE GuardsCounted'
  <2>1. \A e \in Daemons : Open(e)' = Open(e)
    BY <1>0, <1>8 DEF Bind, Open, Seekers
  <2>2. QED
    BY <1>0, <1>8, <2>1 DEF Bind, GuardsCounted, Seekers
<1>9. ASSUME NEW d \in Daemons, Listen(d) PROVE GuardsCounted'
  <2>1. \A e \in Daemons : Open(e)' = Open(e)
    BY <1>9 DEF Listen, Open
  <2>2. Open(d) = {}
    BY <1>0, <1>9 DEF Listen, Open, LinksLive
  <2>3. Cardinality(Open(d)) = 0
    BY <2>2, OpenCount
  <2>4. QED
    BY <1>0, <1>9, <2>1, <2>3 DEF Listen, GuardsCounted
<1>10. ASSUME NEW d \in Daemons, Arm(d) PROVE GuardsCounted'
  <2>1. \A e \in Daemons : Open(e)' = Open(e)
    BY <1>0, <1>10 DEF Arm, Open, Seekers
  <2>2. QED
    BY <1>0, <1>10, <2>1 DEF Arm, GuardsCounted, Seekers
<1>11. ASSUME NEW d \in Daemons, Wait(d) PROVE GuardsCounted'
  <2>1. \A e \in Daemons : Open(e)' = Open(e)
    BY <1>0, <1>11 DEF Wait, Open, Seekers
  <2>2. QED
    BY <1>0, <1>11, <2>1 DEF Wait, GuardsCounted, Seekers
<1>12. ASSUME NEW d \in Daemons, Accept(d) PROVE GuardsCounted'
  <2>1. PICK c \in Clients :
          /\ peer[c] = d /\ link[c] = "backlog"
          /\ link' = [link EXCEPT ![c] = "open"]
    BY <1>12 DEF Accept
  <2>2. Open(d)' = Open(d) \cup {c} /\ c \notin Open(d)
    BY <1>0, <1>12, <2>1 DEF Accept, Open
  <2>3. \A e \in Daemons \ {d} : Open(e)' = Open(e)
    BY <1>0, <1>12, <2>1 DEF Accept, Open
  <2>4. Cardinality(Open(d)') = Cardinality(Open(d)) + 1
    BY <2>2, OpenCount
  <2>5. QED
    BY <1>0, <1>12, <2>3, <2>4 DEF Accept, GuardsCounted
<1>13. ASSUME NEW d \in Daemons, Notified(d) PROVE GuardsCounted'
  <2>1. \A e \in Daemons : Open(e)' = Open(e)
    BY <1>0, <1>13 DEF Notified, Open, Seekers
  <2>2. QED
    BY <1>0, <1>13, <2>1 DEF Notified, GuardsCounted, Seekers
<1>14. ASSUME NEW d \in Daemons, IdleExit(d) PROVE GuardsCounted'
  <2>1. \A e \in Daemons \ {d} : Open(e)' = Open(e)
    BY <1>0, <1>14 DEF Ends, IdleExit, Open
  <2>2. QED
    BY <1>0, <1>14, <2>1 DEF Ends, IdleExit, GuardsCounted
<1>15. ASSUME NEW d \in Daemons, Kill(d) PROVE GuardsCounted'
  <2>1. \A e \in Daemons \ {d} : Open(e)' = Open(e)
    BY <1>0, <1>15 DEF Ends, Runs, Kill, Open
  <2>2. QED
    BY <1>0, <1>15, <2>1 DEF Ends, Runs, Kill, GuardsCounted
<1>16. CASE UNCHANGED vars
  BY <1>0, <1>16 DEF vars, GuardsCounted, Open
<1>17. QED
  BY <1>1, <1>2, <1>3, <1>4, <1>5, <1>6, <1>7, <1>8, <1>9, <1>10, <1>11, <1>12, <1>13, <1>14, <1>15, <1>16 DEF Next, Client, Connection, Daemon

LEMMA StartupInvHolds == Spec => []StartupInv
<1>1. StartupInv /\ [Next]_vars => StartupInv'
  BY TypeOKKept, SeekersKept, LinksLiveKept, GuardsCountedKept, ArmedUnusedKept,
     ReachableUnlessStolenKept DEF StartupInv
<1>2. QED
  BY <1>1, StartupInvInit, PTL DEF Spec

\* Every variable keeps its shape; the counter of connections never underflows.
THEOREM TypeCorrect == Spec => []TypeOK
<1>1. StartupInv => TypeOK
  BY DEF StartupInv
<1>2. QED
  BY <1>1, StartupInvHolds, PTL

\* A running daemon owns the path unless a client has removed its socket file.
THEOREM DaemonReachable == Spec => []ReachableUnlessStolen
<1>1. StartupInv => ReachableUnlessStolen
  BY DEF StartupInv
<1>2. QED
  BY <1>1, StartupInvHolds, PTL

\* The idle deadline only stands while no guard is held.
THEOREM IdleExitSafe == Spec => []IdleExitUnused
<1>1. StartupInv => IdleExitUnused
  <2> SUFFICES ASSUME StartupInv, NEW d \in Daemons,
                      dstage[d] \in {"select", "wait"}, armed[d]
               PROVE  ~ \E c \in Clients : peer[c] = d /\ link[c] = "open"
    BY DEF IdleExitUnused
  <2>1. active[d] = 0
    BY DEF StartupInv, ArmedUnused
  <2>2. active[d] = Cardinality(Open(d))
    BY DEF StartupInv, GuardsCounted, Listens, Loop
  <2>3. QED
    BY <2>1, <2>2, OpenCount DEF Open
<1>2. QED
  BY <1>1, StartupInvHolds, PTL

=============================================================================
