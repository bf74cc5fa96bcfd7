-------------------------- MODULE HostPoolProofs ---------------------------
(***************************************************************************)
(* Theorems about HostPool, for any set of daemons, requests and versions, *)
(* any number of lost connections, and any timeouts in the right order.    *)
(***************************************************************************)
EXTENDS HostPool, TLAPS

(***************************************************************************)
(* Type correctness                                                        *)
(***************************************************************************)
LEMMA ConstantTypes ==
  ASSUME NEW r \in Requests
  PROVE  daemonOf[r] \in Daemons /\ Ver(r) \in Versions
BY HostPoolAssumption DEF Ver, Versions

\* The queue of a first-contact lock: a request joins or the owner leaves.
LEMMA QueueTypes ==
  ASSUME NEW d \in Daemons, NEW r \in Requests, contact \in [Daemons -> Seq(Requests)]
  PROVE  /\ [contact EXCEPT ![d] = Append(@, r)] \in [Daemons -> Seq(Requests)]
         /\ contact[d] # << >>
              => [contact EXCEPT ![d] = Tail(@)] \in [Daemons -> Seq(Requests)]
<1> DEFINE longer == Append(contact[d], r)
           shorter == Tail(contact[d])
<1>1. longer \in Seq(Requests)
  OBVIOUS
<1>2. contact[d] # << >> => shorter \in Seq(Requests)
  OBVIOUS
<1> HIDE DEF longer, shorter
<1>3. [contact EXCEPT ![d] = longer] \in [Daemons -> Seq(Requests)]
  BY <1>1
<1>4. contact[d] # << >> => [contact EXCEPT ![d] = shorter] \in [Daemons -> Seq(Requests)]
  BY <1>2
<1>5. QED
  BY <1>3, <1>4 DEF longer, shorter

LEMMA AppendKeepsHead ==
  ASSUME NEW s \in Seq(Requests), s # << >>, NEW r \in Requests
  PROVE  Append(s, r) # << >> /\ Head(Append(s, r)) = Head(s)
OBVIOUS

\* Who makes a first contact owns the lock of its daemon.
ContactOwned ==
  \A r \in Requests :
    InProgress(r) => contact[daemonOf[r]] # << >> /\ Head(contact[daemonOf[r]]) = r

TypeInv == TypeOK /\ ContactOwned

LEMMA TypeInvKept ==
  ASSUME TypeInv, [Next]_vars
  PROVE  TypeInv'
<1> USE HostPoolAssumption DEF TypeInv, TypeOK, Stages, Attempting
<1>1. ASSUME NEW r \in Requests, TakeCached(r) PROVE TypeInv'
  <2>1. daemonOf[r] \in Daemons /\ Ver(r) \in Versions
    BY ConstantTypes
  <2>2. TypeOK'
    BY <1>1, <2>1 DEF vars, daemonVars, remoteVars, Goes, TakeCached, Live
  <2>3. ContactOwned'
    BY <1>1, <2>1 DEF ContactOwned, InProgress, vars, daemonVars, remoteVars, Goes, TakeCached, Live
  <2>4. QED
    BY <2>2, <2>3
<1>2. ASSUME NEW r \in Requests, Queue(r) PROVE TypeInv'
  <2>1. daemonOf[r] \in Daemons /\ Ver(r) \in Versions
    BY ConstantTypes
  <2>2. contact[daemonOf[r]] \in Seq(Requests)
    BY <2>1
  <2>3. contact' \in [Daemons -> Seq(Requests)]
    BY <1>2, <2>1, QueueTypes DEF vars, daemonVars, remoteVars, Goes, Queue, Live
  <2>4. TypeOK'
    BY <1>2, <2>1, <2>3 DEF vars, daemonVars, remoteVars, Goes, Queue, Live
  <2>5. ContactOwned'
    <3> SUFFICES ASSUME NEW q \in Requests, InProgress(q)'
                 PROVE  contact'[daemonOf[q]] # << >> /\ Head(contact'[daemonOf[q]]) = q
      BY DEF ContactOwned
    <3>1. InProgress(q)
      BY <1>2 DEF InProgress, vars, daemonVars, remoteVars, Goes, Queue, Live
    <3>2. daemonOf[q] \in Daemons
      BY ConstantTypes
    <3>3. /\ contact[daemonOf[q]] \in Seq(Requests)
          /\ contact[daemonOf[q]] # << >>
          /\ Head(contact[daemonOf[q]]) = q
      BY <3>1, <3>2 DEF ContactOwned
    <3>4. \/ contact'[daemonOf[q]] = contact[daemonOf[q]]
          \/ contact'[daemonOf[q]] = Append(contact[daemonOf[q]], r)
      BY <1>2, <2>1, <3>2 DEF Queue
    <3>5. QED
      BY <3>3, <3>4, AppendKeepsHead
  <2>6. QED
    BY <2>4, <2>5
<1>3. ASSUME NEW r \in Requests, Recheck(r) PROVE TypeInv'
  <2>1. daemonOf[r] \in Daemons /\ Ver(r) \in Versions
    BY ConstantTypes
  <2>2. contact[daemonOf[r]] # << >> /\ Head(contact[daemonOf[r]]) = r
    BY <1>3 DEF ContactOwned, InProgress, OwnsContact, Recheck
  <2>3. contact' \in [Daemons -> Seq(Requests)]
    BY <1>3, <2>1, <2>2, QueueTypes DEF vars, daemonVars, remoteVars, Goes, Recheck, Live, OwnsContact, Unlock
  <2>4. TypeOK'
    BY <1>3, <2>1, <2>3 DEF vars, daemonVars, remoteVars, Goes, Recheck, Live, OwnsContact, Unlock
  <2>5. ContactOwned'
    <3> SUFFICES ASSUME NEW q \in Requests, InProgress(q)'
                 PROVE  contact'[daemonOf[q]] # << >> /\ Head(contact'[daemonOf[q]]) = q
      BY DEF ContactOwned
    <3>1. InProgress(q) /\ q # r
      BY <1>3 DEF InProgress, vars, daemonVars, remoteVars, Goes, Recheck, Live, OwnsContact, Unlock
    <3>2. daemonOf[q] \in Daemons
      BY ConstantTypes
    <3>3. contact[daemonOf[q]] # << >> /\ Head(contact[daemonOf[q]]) = q
      BY <3>1 DEF ContactOwned
    <3>4. daemonOf[q] # daemonOf[r]
      BY <2>2, <3>1, <3>3
    <3>5. contact'[daemonOf[q]] = contact[daemonOf[q]]
      BY <1>3, <2>1, <3>2, <3>4 DEF vars, daemonVars, remoteVars, Goes, Recheck, Live, OwnsContact, Unlock
    <3>6. QED
      BY <3>3, <3>5
  <2>6. QED
    BY <2>4, <2>5
<1>4. ASSUME NEW r \in Requests, StartContact(r) PROVE TypeInv'
  <2>1. daemonOf[r] \in Daemons /\ Ver(r) \in Versions
    BY ConstantTypes
  <2>2. TypeOK'
    BY <1>4, <2>1 DEF vars, daemonVars, remoteVars, Goes, StartContact, Live, OwnsContact
  <2>3. ContactOwned'
    BY <1>4, <2>1 DEF ContactOwned, InProgress, vars, daemonVars, remoteVars, Goes, StartContact, Live, OwnsContact
  <2>4. QED
    BY <2>2, <2>3
<1>5. ASSUME NEW r \in Requests, Connect(r) PROVE TypeInv'
  <2>1. daemonOf[r] \in Daemons /\ Ver(r) \in Versions
    BY ConstantTypes
  <2>2. TypeOK'
    BY <1>5, <2>1 DEF vars, daemonVars, remoteVars, Goes, Connect
  <2>3. ContactOwned'
    BY <1>5, <2>1 DEF ContactOwned, InProgress, vars, daemonVars, remoteVars, Goes, Connect
  <2>4. QED
    BY <2>2, <2>3
<1>6. ASSUME NEW r \in Requests, AttemptFails(r) PROVE TypeInv'
  <2>1. daemonOf[r] \in Daemons /\ Ver(r) \in Versions
    BY ConstantTypes
  <2>2. contact[daemonOf[r]] # << >> /\ Head(contact[daemonOf[r]]) = r
    BY <1>6 DEF ContactOwned, InProgress, OwnsContact, AttemptFails
  <2>3. contact' \in [Daemons -> Seq(Requests)]
    BY <1>6, <2>1, <2>2, QueueTypes DEF vars, daemonVars, remoteVars, Goes, AttemptFails, Abort, Unlock, LeaveBehind
  <2>4. TypeOK'
    BY <1>6, <2>1, <2>3 DEF vars, daemonVars, remoteVars, Goes, AttemptFails, Abort, Unlock, LeaveBehind
  <2>5. ContactOwned'
    <3> SUFFICES ASSUME NEW q \in Requests, InProgress(q)'
                 PROVE  contact'[daemonOf[q]] # << >> /\ Head(contact'[daemonOf[q]]) = q
      BY DEF ContactOwned
    <3>1. InProgress(q) /\ q # r
      BY <1>6 DEF InProgress, vars, daemonVars, remoteVars, Goes, AttemptFails, Abort, Unlock, LeaveBehind
    <3>2. daemonOf[q] \in Daemons
      BY ConstantTypes
    <3>3. contact[daemonOf[q]] # << >> /\ Head(contact[daemonOf[q]]) = q
      BY <3>1 DEF ContactOwned
    <3>4. daemonOf[q] # daemonOf[r]
      BY <2>2, <3>1, <3>3
    <3>5. contact'[daemonOf[q]] = contact[daemonOf[q]]
      BY <1>6, <2>1, <3>2, <3>4 DEF vars, daemonVars, remoteVars, Goes, AttemptFails, Abort, Unlock, LeaveBehind
    <3>6. QED
      BY <3>3, <3>5
  <2>6. QED
    BY <2>4, <2>5
<1>7. ASSUME NEW r \in Requests, Timeout(r) PROVE TypeInv'
  <2>1. daemonOf[r] \in Daemons /\ Ver(r) \in Versions
    BY ConstantTypes
  <2>2. contact[daemonOf[r]] # << >> /\ Head(contact[daemonOf[r]]) = r
    BY <1>7 DEF ContactOwned, InProgress, OwnsContact, Timeout
  <2>3. contact' \in [Daemons -> Seq(Requests)]
    BY <1>7, <2>1, <2>2, QueueTypes DEF vars, daemonVars, remoteVars, Goes, Timeout, Abort, Unlock, LeaveBehind
  <2>4. TypeOK'
    <3>1. stage' \in [Requests -> Stages]
      BY <1>7 DEF vars, daemonVars, remoteVars, Goes, Timeout, Abort, Unlock, LeaveBehind
    <3>2. conn' \in [Requests -> Requests \cup {None}]
      BY <1>7, <2>1 DEF vars, daemonVars, remoteVars, Goes, Timeout, Abort, Unlock, LeaveBehind
    <3>3. pool' \in [Daemons -> Requests \cup {None}]
      BY <1>7, <2>1 DEF vars, daemonVars, remoteVars, Goes, Timeout, Abort, Unlock, LeaveBehind
    <3>4. up' \subseteq Requests
      BY <1>7 DEF vars, daemonVars, remoteVars, Goes, Timeout, Abort, Unlock, LeaveBehind
    <3>5. age' \in [Requests -> 0..UploadGc]
      BY <1>7 DEF vars, daemonVars, remoteVars, Goes, Timeout, Abort, Unlock, LeaveBehind
    <3>6. late' \in [Requests -> {"none", "rename", "remove"}]
      BY <1>7 DEF vars, daemonVars, remoteVars, Goes, Timeout, Abort, Unlock, LeaveBehind
    <3>7. UNCHANGED <<losses, bin, torn, temp, doomed>>
      BY <1>7 DEF vars, daemonVars, remoteVars, Goes, Timeout, Abort, Unlock, LeaveBehind
    <3>8. QED
      BY <2>3, <3>1, <3>2, <3>3, <3>4, <3>5, <3>6, <3>7
  <2>5. ContactOwned'
    <3> SUFFICES ASSUME NEW q \in Requests, InProgress(q)'
                 PROVE  contact'[daemonOf[q]] # << >> /\ Head(contact'[daemonOf[q]]) = q
      BY DEF ContactOwned
    <3>1. InProgress(q) /\ q # r
      BY <1>7 DEF InProgress, vars, daemonVars, remoteVars, Goes, Timeout, Abort, Unlock, LeaveBehind
    <3>2. daemonOf[q] \in Daemons
      BY ConstantTypes
    <3>3. contact[daemonOf[q]] # << >> /\ Head(contact[daemonOf[q]]) = q
      BY <3>1 DEF ContactOwned
    <3>4. daemonOf[q] # daemonOf[r]
      BY <2>2, <3>1, <3>3
    <3>5. contact'[daemonOf[q]] = contact[daemonOf[q]]
      BY <1>7, <2>1, <3>2, <3>4 DEF vars, daemonVars, remoteVars, Goes, Timeout, Abort, Unlock, LeaveBehind
    <3>6. QED
      BY <3>3, <3>5
  <2>6. QED
    BY <2>4, <2>5
<1>8. ASSUME NEW r \in Requests, Insert(r) PROVE TypeInv'
  <2>1. daemonOf[r] \in Daemons /\ Ver(r) \in Versions
    BY ConstantTypes
  <2>2. contact[daemonOf[r]] # << >> /\ Head(contact[daemonOf[r]]) = r
    BY <1>8 DEF ContactOwned, InProgress, OwnsContact, Insert
  <2>3. contact' \in [Daemons -> Seq(Requests)]
    BY <1>8, <2>1, <2>2, QueueTypes DEF vars, daemonVars, remoteVars, Goes, Insert, Live, Unlock
  <2>4. TypeOK'
    <3>1. stage' \in [Requests -> Stages]
      BY <1>8 DEF vars, daemonVars, remoteVars, Goes, Insert, Live, Unlock
    <3>2. conn' \in [Requests -> Requests \cup {None}]
      BY <1>8, <2>1 DEF vars, daemonVars, remoteVars, Goes, Insert, Live, Unlock
    <3>3. pool' \in [Daemons -> Requests \cup {None}]
      BY <1>8, <2>1 DEF vars, daemonVars, remoteVars, Goes, Insert, Live, Unlock
    <3>4. up' \subseteq Requests
      BY <1>8 DEF vars, daemonVars, remoteVars, Goes, Insert, Live, Unlock
    <3>5. age' \in [Requests -> 0..UploadGc]
      BY <1>8 DEF vars, daemonVars, remoteVars, Goes, Insert, Live, Unlock
    <3>6. late' \in [Requests -> {"none", "rename", "remove"}]
      BY <1>8 DEF vars, daemonVars, remoteVars, Goes, Insert, Live, Unlock
    <3>7. UNCHANGED <<losses, bin, torn, temp, doomed>>
      BY <1>8 DEF vars, daemonVars, remoteVars, Goes, Insert, Live, Unlock
    <3>8. QED
      BY <2>3, <3>1, <3>2, <3>3, <3>4, <3>5, <3>6, <3>7
  <2>5. ContactOwned'
    <3> SUFFICES ASSUME NEW q \in Requests, InProgress(q)'
                 PROVE  contact'[daemonOf[q]] # << >> /\ Head(contact'[daemonOf[q]]) = q
      BY DEF ContactOwned
    <3>1. InProgress(q) /\ q # r
      BY <1>8 DEF InProgress, vars, daemonVars, remoteVars, Goes, Insert, Live, Unlock
    <3>2. daemonOf[q] \in Daemons
      BY ConstantTypes
    <3>3. contact[daemonOf[q]] # << >> /\ Head(contact[daemonOf[q]]) = q
      BY <3>1 DEF ContactOwned
    <3>4. daemonOf[q] # daemonOf[r]
      BY <2>2, <3>1, <3>3
    <3>5. contact'[daemonOf[q]] = contact[daemonOf[q]]
      BY <1>8, <2>1, <3>2, <3>4 DEF vars, daemonVars, remoteVars, Goes, Insert, Live, Unlock
    <3>6. QED
      BY <3>3, <3>5
  <2>6. QED
    BY <2>4, <2>5
<1>9. ASSUME NEW r \in Requests, Probe(r) PROVE TypeInv'
  <2>1. daemonOf[r] \in Daemons /\ Ver(r) \in Versions
    BY ConstantTypes
  <2>2. TypeOK'
    BY <1>9, <2>1 DEF vars, daemonVars, remoteVars, Goes, Probe, Deploying
  <2>3. ContactOwned'
    BY <1>9, <2>1 DEF ContactOwned, InProgress, vars, daemonVars, remoteVars, Goes, Probe, Deploying
  <2>4. QED
    BY <2>2, <2>3
<1>10. ASSUME NEW r \in Requests, CreateTemp(r) PROVE TypeInv'
  <2>1. daemonOf[r] \in Daemons /\ Ver(r) \in Versions
    BY ConstantTypes
  <2>2. TypeOK'
    BY <1>10, <2>1 DEF vars, daemonVars, remoteVars, Goes, CreateTemp, Deploying
  <2>3. ContactOwned'
    BY <1>10, <2>1 DEF ContactOwned, InProgress, vars, daemonVars, remoteVars, Goes, CreateTemp, Deploying
  <2>4. QED
    BY <2>2, <2>3
<1>11. ASSUME NEW r \in Requests, Upload(r) PROVE TypeInv'
  <2>1. daemonOf[r] \in Daemons /\ Ver(r) \in Versions
    BY ConstantTypes
  <2>2. TypeOK'
    BY <1>11, <2>1 DEF vars, daemonVars, remoteVars, Goes, Upload, Deploying
  <2>3. ContactOwned'
    BY <1>11, <2>1 DEF ContactOwned, InProgress, vars, daemonVars, remoteVars, Goes, Upload, Deploying
  <2>4. QED
    BY <2>2, <2>3
<1>12. ASSUME NEW r \in Requests, Rename(r) PROVE TypeInv'
  <2>1. daemonOf[r] \in Daemons /\ Ver(r) \in Versions
    BY ConstantTypes
  <2>2. TypeOK'
    BY <1>12, <2>1 DEF vars, daemonVars, remoteVars, Goes, Rename, Deploying, MoveTemp
  <2>3. ContactOwned'
    BY <1>12, <2>1 DEF ContactOwned, InProgress, vars, daemonVars, remoteVars, Goes, Rename, Deploying, MoveTemp
  <2>4. QED
    BY <2>2, <2>3
<1>13. ASSUME NEW r \in Requests, Verify(r) PROVE TypeInv'
  <2>1. daemonOf[r] \in Daemons /\ Ver(r) \in Versions
    BY ConstantTypes
  <2>2. TypeOK'
    BY <1>13, <2>1 DEF vars, daemonVars, remoteVars, Goes, Verify, Deploying
  <2>3. ContactOwned'
    BY <1>13, <2>1 DEF ContactOwned, InProgress, vars, daemonVars, remoteVars, Goes, Verify, Deploying
  <2>4. QED
    BY <2>2, <2>3
<1>14. ASSUME NEW r \in Requests, List(r) PROVE TypeInv'
  <2>1. daemonOf[r] \in Daemons /\ Ver(r) \in Versions
    BY ConstantTypes
  <2>2. TypeOK'
    BY <1>14, <2>1 DEF vars, daemonVars, remoteVars, Goes, List, Deploying, OldTemps
  <2>3. ContactOwned'
    BY <1>14, <2>1 DEF ContactOwned, InProgress, vars, daemonVars, remoteVars, Goes, List, Deploying, OldTemps
  <2>4. QED
    BY <2>2, <2>3
<1>15. ASSUME NEW r \in Requests, Remove(r) PROVE TypeInv'
  <2>1. daemonOf[r] \in Daemons /\ Ver(r) \in Versions
    BY ConstantTypes
  <2>2. TypeOK'
    BY <1>15, <2>1 DEF vars, daemonVars, remoteVars, Goes, Remove, Deploying, RemoveDoomed
  <2>3. ContactOwned'
    BY <1>15, <2>1 DEF ContactOwned, InProgress, vars, daemonVars, remoteVars, Goes, Remove, Deploying, RemoveDoomed
  <2>4. QED
    BY <2>2, <2>3
<1>16. ASSUME NEW r \in Requests, CleanupFails(r) PROVE TypeInv'
  <2>1. daemonOf[r] \in Daemons /\ Ver(r) \in Versions
    BY ConstantTypes
  <2>2. TypeOK'
    BY <1>16, <2>1 DEF vars, daemonVars, remoteVars, Goes, CleanupFails, LeaveBehind
  <2>3. ContactOwned'
    BY <1>16, <2>1 DEF ContactOwned, InProgress, vars, daemonVars, remoteVars, Goes, CleanupFails, LeaveBehind
  <2>4. QED
    BY <2>2, <2>3
<1>17. ASSUME NEW r \in Requests, CheckVersion(r) PROVE TypeInv'
  <2>1. daemonOf[r] \in Daemons /\ Ver(r) \in Versions
    BY ConstantTypes
  <2>2. TypeOK'
    BY <1>17, <2>1 DEF vars, daemonVars, remoteVars, Goes, CheckVersion, Deploying
  <2>3. ContactOwned'
    BY <1>17, <2>1 DEF ContactOwned, InProgress, vars, daemonVars, remoteVars, Goes, CheckVersion, Deploying
  <2>4. QED
    BY <2>2, <2>3
<1>18. ASSUME NEW r \in Requests, ExecSucceeds(r) PROVE TypeInv'
  <2>1. daemonOf[r] \in Daemons /\ Ver(r) \in Versions
    BY ConstantTypes
  <2>2. TypeOK'
    BY <1>18, <2>1 DEF vars, daemonVars, remoteVars, Goes, ExecSucceeds
  <2>3. ContactOwned'
    BY <1>18, <2>1 DEF ContactOwned, InProgress, vars, daemonVars, remoteVars, Goes, ExecSucceeds
  <2>4. QED
    BY <2>2, <2>3
<1>19. ASSUME NEW r \in Requests, ExecFails(r) PROVE TypeInv'
  <2>1. daemonOf[r] \in Daemons /\ Ver(r) \in Versions
    BY ConstantTypes
  <2>2. TypeOK'
    BY <1>19, <2>1 DEF vars, daemonVars, remoteVars, Goes, ExecFails
  <2>3. ContactOwned'
    BY <1>19, <2>1 DEF ContactOwned, InProgress, vars, daemonVars, remoteVars, Goes, ExecFails
  <2>4. QED
    BY <2>2, <2>3
<1>20. ASSUME NEW r \in Requests, Evict(r) PROVE TypeInv'
  <2>1. daemonOf[r] \in Daemons /\ Ver(r) \in Versions
    BY ConstantTypes
  <2>2. TypeOK'
    BY <1>20, <2>1 DEF vars, daemonVars, remoteVars, Goes, Evict
  <2>3. ContactOwned'
    BY <1>20, <2>1 DEF ContactOwned, InProgress, vars, daemonVars, remoteVars, Goes, Evict
  <2>4. QED
    BY <2>2, <2>3
<1>21. ASSUME NEW r \in Requests, LateCommand(r) PROVE TypeInv'
  <2>1. daemonOf[r] \in Daemons /\ Ver(r) \in Versions
    BY ConstantTypes
  <2>2. TypeOK'
    BY <1>21, <2>1 DEF vars, daemonVars, remoteVars, Goes, LateCommand, MoveTemp, RemoveDoomed
  <2>3. ContactOwned'
    BY <1>21, <2>1 DEF ContactOwned, InProgress, vars, daemonVars, remoteVars, Goes, LateCommand, MoveTemp, RemoveDoomed
  <2>4. QED
    BY <2>2, <2>3
<1>22. ASSUME NEW r \in Requests, Tick(r) PROVE TypeInv'
  <2>1. daemonOf[r] \in Daemons /\ Ver(r) \in Versions
    BY ConstantTypes
  <2>2. TypeOK'
    BY <1>22, <2>1 DEF vars, daemonVars, remoteVars, Goes, Tick, InProgress
  <2>3. ContactOwned'
    BY <1>22, <2>1 DEF ContactOwned, vars, daemonVars, remoteVars, Goes, Tick, InProgress
  <2>4. QED
    BY <2>2, <2>3
<1>23. ASSUME NEW r \in Requests, LoseConnection(r) PROVE TypeInv'
  <2>1. daemonOf[r] \in Daemons /\ Ver(r) \in Versions
    BY ConstantTypes
  <2>2. TypeOK'
    BY <1>23, <2>1 DEF vars, daemonVars, remoteVars, Goes, LoseConnection
  <2>3. ContactOwned'
    BY <1>23, <2>1 DEF ContactOwned, InProgress, vars, daemonVars, remoteVars, Goes, LoseConnection
  <2>4. QED
    BY <2>2, <2>3
<1>24. CASE UNCHANGED vars
  BY <1>24 DEF vars, ContactOwned, InProgress
<1>25. QED
  BY <1>1, <1>2, <1>3, <1>4, <1>5, <1>6, <1>7, <1>8, <1>9, <1>10, <1>11, <1>12, <1>13, <1>14, <1>15, <1>16, <1>17, <1>18, <1>19, <1>20, <1>21, <1>22, <1>23, <1>24 DEF Next, Contact, Deploy, Exec

LEMMA TypeInvInit == Init => TypeInv
BY HostPoolAssumption DEF Init, TypeInv, TypeOK, Stages, Attempting, ContactOwned,
   InProgress, Nothing

LEMMA TypeInvHolds == Spec => []TypeInv
<1>1. Init => TypeInv
  BY TypeInvInit
<1>2. TypeInv /\ [Next]_vars => TypeInv'
  BY TypeInvKept
<1>3. QED
  BY <1>1, <1>2, PTL DEF Spec

\* Every variable keeps the shape its comment in HostPool gives it.
THEOREM TypeCorrect == Spec => []TypeOK
<1>1. TypeInv => TypeOK
  BY DEF TypeInv
<1>2. QED
  BY <1>1, TypeInvHolds, PTL

(***************************************************************************)
(* The invariant behind the safety properties                              *)
(***************************************************************************)
\* A first contact is only made while the daemon has no live connection, and a
\* connection is in the map only after its first contact.
ContactsNeeded ==
  /\ \A r \in Requests : InProgress(r) => Live(daemonOf[r]) = None
  /\ \A d \in Daemons :
       pool[d] # None => stage[pool[d]] \in {"using", "evict", "done"}

\* A rename, its late run included, moves an upload file that is complete.
RenamesWhole ==
  /\ torn = {}
  /\ \A r \in Requests :
       /\ stage[r] = "rename" => temp[r] # "partial"
       /\ late[r] = "rename" => stage[r] = "failed" /\ temp[r] # "partial"

\* The cleanup of another version has listed the binary of v.
Listed(v) == \E r \in Requests : Ver(r) # v /\ v \in doomed[r].bins

\* The binary of v is there, or such a cleanup explains its absence.
Accounted(v) == v \in bin \/ Listed(v)

\* A binary goes only once a cleanup has listed it, and no cleanup lists its own.
BinariesListed ==
  /\ \A r \in Requests : Ver(r) \notin doomed[r].bins
  /\ \A r \in Requests :
       stage[r] \in {"idle", "waiting"} \cup (Attempting \ {"remove", "check", "insert"})
         => doomed[r] = Nothing
  /\ \A r \in Requests : stage[r] = "insert" => Accounted(Ver(r))
  /\ \A d \in Daemons : Live(d) # None => Accounted(versionOf[d])

\* A contact in progress is younger than the orphans a cleanup lists.
Young ==
  \A r \in Requests :
    /\ InProgress(r) => age[r] <= DeployTimeout
    /\ stage[r] \in {"idle", "waiting"} => age[r] = 0 /\ temp[r] = "absent"

\* What a cleanup has listed belongs to no contact in progress, nor to a later one.
OrphansOnly ==
  \A q, r \in Requests :
    r \in doomed[q].temps => stage[r] \in {"using", "evict", "done", "failed"}

SafeInv ==
  /\ TypeInv /\ ContactsNeeded /\ RenamesWhole
  /\ BinariesListed /\ Young /\ OrphansOnly

LEMMA ContactsNeededKept ==
  ASSUME SafeInv, [Next]_vars
  PROVE  ContactsNeeded'
<1> USE HostPoolAssumption DEF SafeInv, TypeInv, TypeOK, Stages, Attempting
<1>1. ASSUME NEW r \in Requests, TakeCached(r) PROVE ContactsNeeded'
  BY <1>1, ConstantTypes DEF ContactOwned, OwnsContact, ContactsNeeded, InProgress, Live, vars, daemonVars, remoteVars, Goes, TakeCached
<1>2. ASSUME NEW r \in Requests, Queue(r) PROVE ContactsNeeded'
  BY <1>2, ConstantTypes DEF ContactOwned, OwnsContact, ContactsNeeded, InProgress, Live, vars, daemonVars, remoteVars, Goes, Queue
<1>3. ASSUME NEW r \in Requests, Recheck(r) PROVE ContactsNeeded'
  BY <1>3, ConstantTypes DEF ContactOwned, OwnsContact, ContactsNeeded, InProgress, Live, vars, daemonVars, remoteVars, Goes, Recheck, Unlock
<1>4. ASSUME NEW r \in Requests, StartContact(r) PROVE ContactsNeeded'
  BY <1>4, ConstantTypes DEF ContactOwned, OwnsContact, ContactsNeeded, InProgress, Live, vars, daemonVars, remoteVars, Goes, StartContact
<1>5. ASSUME NEW r \in Requests, Connect(r) PROVE ContactsNeeded'
  BY <1>5, ConstantTypes DEF ContactOwned, OwnsContact, ContactsNeeded, InProgress, Live, vars, daemonVars, remoteVars, Goes, Connect
<1>6. ASSUME NEW r \in Requests, AttemptFails(r) PROVE ContactsNeeded'
  BY <1>6, ConstantTypes DEF ContactOwned, OwnsContact, ContactsNeeded, InProgress, Live, vars, daemonVars, remoteVars, Goes, AttemptFails, Abort, Unlock, LeaveBehind
<1>7. ASSUME NEW r \in Requests, Timeout(r) PROVE ContactsNeeded'
  BY <1>7, ConstantTypes DEF ContactOwned, OwnsContact, ContactsNeeded, InProgress, Live, vars, daemonVars, remoteVars, Goes, Timeout, Abort, Unlock, LeaveBehind
<1>8. ASSUME NEW r \in Requests, Insert(r) PROVE ContactsNeeded'
  <2> DEFINE e == daemonOf[r]
  <2>1. e \in Daemons /\ Live(e) = None /\ stage[r] = "insert" /\ stage' = [stage EXCEPT ![r] = "using"]
    BY <1>8, ConstantTypes DEF Insert, Goes, ContactsNeeded, InProgress
  <2>2. pool' = [pool EXCEPT ![e] = r] /\ up' = up
    BY <1>8, <2>1 DEF Insert
  <2>3. ASSUME NEW q \in Requests, InProgress(q)' PROVE Live(daemonOf[q])' = None
    <3>1. q # r /\ InProgress(q)
      BY <2>1, <2>3 DEF InProgress
    <3>2. daemonOf[q] # e
      BY <2>1, <3>1 DEF ContactOwned, InProgress
    <3>3. QED
      BY <2>1, <2>2, <3>1, <3>2, ConstantTypes DEF ContactsNeeded, Live
  <2>4. ASSUME NEW d \in Daemons, pool'[d] # None
        PROVE  stage'[pool'[d]] \in {"using", "evict", "done"}
    BY <2>1, <2>2, <2>4 DEF ContactsNeeded
  <2>5. QED
    BY <2>3, <2>4 DEF ContactsNeeded
<1>9. ASSUME NEW r \in Requests, Probe(r) PROVE ContactsNeeded'
  BY <1>9, ConstantTypes DEF ContactOwned, OwnsContact, ContactsNeeded, InProgress, Live, vars, daemonVars, remoteVars, Goes, Probe, Deploying
<1>10. ASSUME NEW r \in Requests, CreateTemp(r) PROVE ContactsNeeded'
  BY <1>10, ConstantTypes DEF ContactOwned, OwnsContact, ContactsNeeded, InProgress, Live, vars, daemonVars, remoteVars, Goes, CreateTemp, Deploying
<1>11. ASSUME NEW r \in Requests, Upload(r) PROVE ContactsNeeded'
  BY <1>11, ConstantTypes DEF ContactOwned, OwnsContact, ContactsNeeded, InProgress, Live, vars, daemonVars, remoteVars, Goes, Upload, Deploying
<1>12. ASSUME NEW r \in Requests, Rename(r) PROVE ContactsNeeded'
  BY <1>12, ConstantTypes DEF ContactOwned, OwnsContact, ContactsNeeded, InProgress, Live, vars, daemonVars, remoteVars, Goes, Rename, Deploying, MoveTemp
<1>13. ASSUME NEW r \in Requests, Verify(r) PROVE ContactsNeeded'
  BY <1>13, ConstantTypes DEF ContactOwned, OwnsContact, ContactsNeeded, InProgress, Live, vars, daemonVars, remoteVars, Goes, Verify, Deploying
<1>14. ASSUME NEW r \in Requests, List(r) PROVE ContactsNeeded'
  BY <1>14, ConstantTypes DEF ContactOwned, OwnsContact, ContactsNeeded, InProgress, Live, vars, daemonVars, remoteVars, Goes, List, Deploying, OldTemps
<1>15. ASSUME NEW r \in Requests, Remove(r) PROVE ContactsNeeded'
  BY <1>15, ConstantTypes DEF ContactOwned, OwnsContact, ContactsNeeded, InProgress, Live, vars, daemonVars, remoteVars, Goes, Remove, Deploying, RemoveDoomed
<1>16. ASSUME NEW r \in Requests, CleanupFails(r) PROVE ContactsNeeded'
  BY <1>16, ConstantTypes DEF ContactOwned, OwnsContact, ContactsNeeded, InProgress, Live, vars, daemonVars, remoteVars, Goes, CleanupFails, LeaveBehind
<1>17. ASSUME NEW r \in Requests, CheckVersion(r) PROVE ContactsNeeded'
  BY <1>17, ConstantTypes DEF ContactOwned, OwnsContact, ContactsNeeded, InProgress, Live, vars, daemonVars, remoteVars, Goes, CheckVersion, Deploying
<1>18. ASSUME NEW r \in Requests, ExecSucceeds(r) PROVE ContactsNeeded'
  BY <1>18, ConstantTypes DEF ContactOwned, OwnsContact, ContactsNeeded, InProgress, Live, vars, daemonVars, remoteVars, Goes, ExecSucceeds
<1>19. ASSUME NEW r \in Requests, ExecFails(r) PROVE ContactsNeeded'
  BY <1>19, ConstantTypes DEF ContactOwned, OwnsContact, ContactsNeeded, InProgress, Live, vars, daemonVars, remoteVars, Goes, ExecFails
<1>20. ASSUME NEW r \in Requests, Evict(r) PROVE ContactsNeeded'
  BY <1>20, ConstantTypes DEF ContactOwned, OwnsContact, ContactsNeeded, InProgress, Live, vars, daemonVars, remoteVars, Goes, Evict
<1>21. ASSUME NEW r \in Requests, LateCommand(r) PROVE ContactsNeeded'
  BY <1>21, ConstantTypes DEF ContactOwned, OwnsContact, ContactsNeeded, InProgress, Live, vars, daemonVars, remoteVars, Goes, LateCommand, MoveTemp, RemoveDoomed
<1>22. ASSUME NEW r \in Requests, Tick(r) PROVE ContactsNeeded'
  BY <1>22, ConstantTypes DEF ContactOwned, OwnsContact, ContactsNeeded, InProgress, Live, vars, daemonVars, remoteVars, Goes, Tick
<1>23. ASSUME NEW r \in Requests, LoseConnection(r) PROVE ContactsNeeded'
  BY <1>23, ConstantTypes DEF ContactOwned, OwnsContact, ContactsNeeded, InProgress, Live, vars, daemonVars, remoteVars, Goes, LoseConnection
<1>24. CASE UNCHANGED vars
  BY <1>24 DEF vars, ContactsNeeded, InProgress, Live
<1>25. QED
  BY <1>1, <1>2, <1>3, <1>4, <1>5, <1>6, <1>7, <1>8, <1>9, <1>10, <1>11, <1>12, <1>13, <1>14, <1>15, <1>16, <1>17, <1>18, <1>19, <1>20, <1>21, <1>22, <1>23, <1>24 DEF Next, Contact, Deploy, Exec

LEMMA RenamesWholeKept ==
  ASSUME SafeInv, [Next]_vars
  PROVE  RenamesWhole'
<1> USE HostPoolAssumption DEF SafeInv, TypeInv, TypeOK, Stages, Attempting
<1>1. ASSUME NEW r \in Requests, TakeCached(r) PROVE RenamesWhole'
  BY <1>1, ConstantTypes DEF RenamesWhole, vars, daemonVars, remoteVars, Goes, TakeCached, Live
<1>2. ASSUME NEW r \in Requests, Queue(r) PROVE RenamesWhole'
  BY <1>2, ConstantTypes DEF RenamesWhole, vars, daemonVars, remoteVars, Goes, Queue, Live
<1>3. ASSUME NEW r \in Requests, Recheck(r) PROVE RenamesWhole'
  BY <1>3, ConstantTypes DEF RenamesWhole, vars, daemonVars, remoteVars, Goes, Recheck, Live, OwnsContact, Unlock
<1>4. ASSUME NEW r \in Requests, StartContact(r) PROVE RenamesWhole'
  BY <1>4, ConstantTypes DEF RenamesWhole, vars, daemonVars, remoteVars, Goes, StartContact, Live, OwnsContact
<1>5. ASSUME NEW r \in Requests, Connect(r) PROVE RenamesWhole'
  BY <1>5, ConstantTypes DEF RenamesWhole, vars, daemonVars, remoteVars, Goes, Connect
<1>6. ASSUME NEW r \in Requests, AttemptFails(r) PROVE RenamesWhole'
  BY <1>6, ConstantTypes DEF RenamesWhole, vars, daemonVars, remoteVars, Goes, AttemptFails, Abort, Unlock, LeaveBehind
<1>7. ASSUME NEW r \in Requests, Timeout(r) PROVE RenamesWhole'
  BY <1>7, ConstantTypes DEF RenamesWhole, vars, daemonVars, remoteVars, Goes, Timeout, Abort, Unlock, LeaveBehind
<1>8. ASSUME NEW r \in Requests, Insert(r) PROVE RenamesWhole'
  BY <1>8, ConstantTypes DEF RenamesWhole, vars, daemonVars, remoteVars, Goes, Insert, Live, Unlock
<1>9. ASSUME NEW r \in Requests, Probe(r) PROVE RenamesWhole'
  BY <1>9, ConstantTypes DEF RenamesWhole, vars, daemonVars, remoteVars, Goes, Probe, Deploying
<1>10. ASSUME NEW r \in Requests, CreateTemp(r) PROVE RenamesWhole'
  BY <1>10, ConstantTypes DEF RenamesWhole, vars, daemonVars, remoteVars, Goes, CreateTemp, Deploying
<1>11. ASSUME NEW r \in Requests, Upload(r) PROVE RenamesWhole'
  BY <1>11, ConstantTypes DEF RenamesWhole, vars, daemonVars, remoteVars, Goes, Upload, Deploying
<1>12. ASSUME NEW r \in Requests, Rename(r) PROVE RenamesWhole'
  BY <1>12, ConstantTypes DEF RenamesWhole, vars, daemonVars, remoteVars, Goes, Rename, Deploying, MoveTemp
<1>13. ASSUME NEW r \in Requests, Verify(r) PROVE RenamesWhole'
  BY <1>13, ConstantTypes DEF RenamesWhole, vars, daemonVars, remoteVars, Goes, Verify, Deploying
<1>14. ASSUME NEW r \in Requests, List(r) PROVE RenamesWhole'
  BY <1>14, ConstantTypes DEF RenamesWhole, vars, daemonVars, remoteVars, Goes, List, Deploying, OldTemps
<1>15. ASSUME NEW r \in Requests, Remove(r) PROVE RenamesWhole'
  BY <1>15, ConstantTypes DEF RenamesWhole, vars, daemonVars, remoteVars, Goes, Remove, Deploying, RemoveDoomed
<1>16. ASSUME NEW r \in Requests, CleanupFails(r) PROVE RenamesWhole'
  BY <1>16, ConstantTypes DEF RenamesWhole, vars, daemonVars, remoteVars, Goes, CleanupFails, LeaveBehind
<1>17. ASSUME NEW r \in Requests, CheckVersion(r) PROVE RenamesWhole'
  BY <1>17, ConstantTypes DEF RenamesWhole, vars, daemonVars, remoteVars, Goes, CheckVersion, Deploying
<1>18. ASSUME NEW r \in Requests, ExecSucceeds(r) PROVE RenamesWhole'
  BY <1>18, ConstantTypes DEF RenamesWhole, vars, daemonVars, remoteVars, Goes, ExecSucceeds
<1>19. ASSUME NEW r \in Requests, ExecFails(r) PROVE RenamesWhole'
  BY <1>19, ConstantTypes DEF RenamesWhole, vars, daemonVars, remoteVars, Goes, ExecFails
<1>20. ASSUME NEW r \in Requests, Evict(r) PROVE RenamesWhole'
  BY <1>20, ConstantTypes DEF RenamesWhole, vars, daemonVars, remoteVars, Goes, Evict
<1>21. ASSUME NEW r \in Requests, LateCommand(r) PROVE RenamesWhole'
  BY <1>21, ConstantTypes DEF RenamesWhole, vars, daemonVars, remoteVars, Goes, LateCommand, MoveTemp, RemoveDoomed
<1>22. ASSUME NEW r \in Requests, Tick(r) PROVE RenamesWhole'
  BY <1>22, ConstantTypes DEF RenamesWhole, vars, daemonVars, remoteVars, Goes, Tick, InProgress
<1>23. ASSUME NEW r \in Requests, LoseConnection(r) PROVE RenamesWhole'
  BY <1>23, ConstantTypes DEF RenamesWhole, vars, daemonVars, remoteVars, Goes, LoseConnection
<1>24. CASE UNCHANGED vars
  BY <1>24 DEF vars, RenamesWhole
<1>25. QED
  BY <1>1, <1>2, <1>3, <1>4, <1>5, <1>6, <1>7, <1>8, <1>9, <1>10, <1>11, <1>12, <1>13, <1>14, <1>15, <1>16, <1>17, <1>18, <1>19, <1>20, <1>21, <1>22, <1>23, <1>24 DEF Next, Contact, Deploy, Exec

LEMMA BinariesListedKept ==
  ASSUME SafeInv, [Next]_vars
  PROVE  BinariesListed'
<1> DEFINE Early == {"idle", "waiting"} \cup (Attempting \ {"remove", "check", "insert"})
<1>0. /\ BinariesListed /\ ContactsNeeded
      /\ stage \in [Requests -> Stages] /\ bin \subseteq Versions
      /\ pool \in [Daemons -> Requests \cup {None}]
      /\ doomed \in [Requests -> [bins : SUBSET Versions, temps : SUBSET Requests]]
  BY DEF SafeInv, TypeInv, TypeOK
<1> USE DEF Attempting
<1>1. ASSUME NEW r \in Requests, List(r) PROVE BinariesListed'
  <2>1. doomed' = [doomed EXCEPT ![r] = [bins |-> bin \ {Ver(r)}, temps |-> OldTemps]]
    BY <1>1 DEF List
  <2>2. doomed[r] = Nothing
    BY <1>0, <1>1 DEF List, Deploying, BinariesListed
  <2>3. \A q \in Requests :
          /\ Ver(q) \notin doomed'[q].bins
          /\ doomed[q].bins \subseteq doomed'[q].bins
    BY <1>0, <2>1, <2>2 DEF BinariesListed, Nothing
  <2>4. \A q \in Requests : stage'[q] \in Early => doomed'[q] = Nothing
    BY <1>0, <1>1, <2>1 DEF BinariesListed, List, Goes
  <2>5. bin' = bin
    BY <1>1 DEF List, remoteVars
  <2>6. \A v : Accounted(v) => Accounted(v)'
    BY <2>3, <2>5 DEF Accounted, Listed
  <2>7. ASSUME NEW q \in Requests, stage'[q] = "insert" PROVE Accounted(Ver(q))
    BY <1>0, <1>1, <2>7 DEF BinariesListed, Accounted,
       vars, daemonVars, remoteVars, Goes, List, Deploying, OldTemps
  <2>8. ASSUME NEW d \in Daemons, Live(d)' # None PROVE Accounted(versionOf[d])
    BY <1>0, <1>1, <2>8, ConstantTypes DEF BinariesListed, ContactsNeeded, Live, Ver,
       vars, daemonVars, remoteVars, Goes, List, Deploying, OldTemps
  <2>9. QED
    BY <2>3, <2>4, <2>6, <2>7, <2>8 DEF BinariesListed
\* The cleanup of r has listed what it removes.
<1>2. ASSUME NEW r \in Requests,
             \/ Remove(r) \/ LateCommand(r)
      PROVE  BinariesListed'
  <2>1. doomed' = doomed
    BY <1>2 DEF vars, daemonVars, remoteVars, Goes, Remove, Deploying, RemoveDoomed,
       LateCommand, MoveTemp
  <2>2. \A q \in Requests : stage'[q] \in Early => stage[q] \in Early
    BY <1>0, <1>2 DEF vars, daemonVars, remoteVars, Goes, Remove, Deploying, RemoveDoomed,
       LateCommand, MoveTemp
  <2>3. \A q \in Requests : Ver(q) \notin doomed'[q].bins
    BY <1>0, <2>1 DEF BinariesListed
  <2>4. \A q \in Requests : stage'[q] \in Early => doomed'[q] = Nothing
    BY <1>0, <2>1, <2>2 DEF BinariesListed
  <2>5. \A v \in bin \ bin' : v \in doomed[r].bins
    BY <1>2 DEF vars, daemonVars, remoteVars, Goes, Remove, Deploying, RemoveDoomed,
       LateCommand, MoveTemp
  <2>6. \A v : Accounted(v) => Accounted(v)'
    BY <1>0, <2>1, <2>5 DEF Accounted, Listed, BinariesListed
  <2>7. ASSUME NEW q \in Requests, stage'[q] = "insert" PROVE Accounted(Ver(q))
    BY <1>0, <1>2, <2>7 DEF BinariesListed, Accounted,
       vars, daemonVars, remoteVars, Goes, Remove, Deploying, RemoveDoomed,
       LateCommand, MoveTemp
  <2>8. ASSUME NEW d \in Daemons, Live(d)' # None PROVE Accounted(versionOf[d])
    BY <1>0, <1>2, <2>8, ConstantTypes DEF BinariesListed, ContactsNeeded, Live, Ver,
       vars, daemonVars, remoteVars, Goes, Remove, Deploying, RemoveDoomed,
       LateCommand, MoveTemp
  <2>9. QED
    BY <2>3, <2>4, <2>6, <2>7, <2>8 DEF BinariesListed
<1>3. ASSUME NEW r \in Requests,
             \/ TakeCached(r) \/ Queue(r) \/ Recheck(r)
             \/ StartContact(r) \/ Connect(r) \/ AttemptFails(r)
             \/ Timeout(r) \/ Insert(r) \/ Probe(r) \/ CreateTemp(r)
             \/ Upload(r) \/ Rename(r) \/ Verify(r) \/ CleanupFails(r)
             \/ CheckVersion(r) \/ ExecSucceeds(r) \/ ExecFails(r)
             \/ Evict(r) \/ Tick(r) \/ LoseConnection(r)
      PROVE  BinariesListed'
  <2>1. doomed' = doomed
    BY <1>3 DEF vars, daemonVars, remoteVars, Goes, TakeCached, Queue, Recheck,
       OwnsContact, Unlock, StartContact, Connect, AttemptFails, Abort,
       LeaveBehind, Timeout, Insert, Probe, Deploying, CreateTemp,
       Upload, Rename, MoveTemp, Verify, CleanupFails, CheckVersion,
       ExecSucceeds, ExecFails, Evict, Tick, InProgress, LoseConnection
  <2>2. \A q \in Requests : stage'[q] \in Early => stage[q] \in Early
    BY <1>0, <1>3 DEF vars, daemonVars, remoteVars, Goes, TakeCached, Queue, Recheck,
       OwnsContact, Unlock, StartContact, Connect, AttemptFails, Abort,
       LeaveBehind, Timeout, Insert, Probe, Deploying, CreateTemp,
       Upload, Rename, MoveTemp, Verify, CleanupFails, CheckVersion,
       ExecSucceeds, ExecFails, Evict, Tick, InProgress, LoseConnection
  <2>3. \A q \in Requests : Ver(q) \notin doomed'[q].bins
    BY <1>0, <2>1 DEF BinariesListed
  <2>4. \A q \in Requests : stage'[q] \in Early => doomed'[q] = Nothing
    BY <1>0, <2>1, <2>2 DEF BinariesListed
  <2>5. bin \subseteq bin'
    BY <1>3 DEF vars, daemonVars, remoteVars, Goes, TakeCached, Queue, Recheck,
       OwnsContact, Unlock, StartContact, Connect, AttemptFails, Abort,
       LeaveBehind, Timeout, Insert, Probe, Deploying, CreateTemp,
       Upload, Rename, MoveTemp, Verify, CleanupFails, CheckVersion,
       ExecSucceeds, ExecFails, Evict, Tick, InProgress, LoseConnection
  <2>6. \A v : Accounted(v) => Accounted(v)'
    BY <1>0, <2>1, <2>5 DEF Accounted, Listed, BinariesListed
  <2>7. ASSUME NEW q \in Requests, stage'[q] = "insert" PROVE Accounted(Ver(q))
    BY <1>0, <1>3, <2>7 DEF BinariesListed, Accounted,
       vars, daemonVars, remoteVars, Goes, TakeCached, Queue, Recheck,
       OwnsContact, Unlock, StartContact, Connect, AttemptFails, Abort,
       LeaveBehind, Timeout, Insert, Probe, Deploying, CreateTemp,
       Upload, Rename, MoveTemp, Verify, CleanupFails, CheckVersion,
       ExecSucceeds, ExecFails, Evict, Tick, InProgress, LoseConnection
  <2>8. ASSUME NEW d \in Daemons, Live(d)' # None PROVE Accounted(versionOf[d])
    BY <1>0, <1>3, <2>8, ConstantTypes DEF BinariesListed, ContactsNeeded, Live, Ver,
       vars, daemonVars, remoteVars, Goes, TakeCached, Queue, Recheck,
       OwnsContact, Unlock, StartContact, Connect, AttemptFails, Abort,
       LeaveBehind, Timeout, Insert, Probe, Deploying, CreateTemp,
       Upload, Rename, MoveTemp, Verify, CleanupFails, CheckVersion,
       ExecSucceeds, ExecFails, Evict, Tick, InProgress, LoseConnection
  <2>9. QED
    BY <2>3, <2>4, <2>6, <2>7, <2>8 DEF BinariesListed
<1>4. CASE UNCHANGED vars
  BY <1>0, <1>4 DEF vars, BinariesListed, Accounted, Listed, Live, Ver
<1>5. QED
  BY <1>1, <1>2, <1>3, <1>4 DEF Next, Contact, Deploy, Exec

LEMMA YoungKept ==
  ASSUME SafeInv, [Next]_vars
  PROVE  Young'
<1> USE DEF Attempting
<1>0. /\ Young
      /\ stage \in [Requests -> Stages] /\ age \in [Requests -> 0..UploadGc]
      /\ temp \in [Requests -> {"absent", "partial", "whole"}]
      /\ DeployTimeout \in Nat /\ UploadGc \in Nat /\ DeployTimeout < UploadGc
  BY HostPoolAssumption DEF SafeInv, TypeInv, TypeOK
<1>1. ASSUME NEW r \in Requests, TakeCached(r) PROVE Young'
  BY <1>0, <1>1 DEF Young, InProgress, vars, daemonVars, remoteVars, Goes, TakeCached
<1>2. ASSUME NEW r \in Requests, Queue(r) PROVE Young'
  BY <1>0, <1>2 DEF Young, InProgress, vars, daemonVars, remoteVars, Goes, Queue
<1>3. ASSUME NEW r \in Requests, Recheck(r) PROVE Young'
  BY <1>0, <1>3 DEF Young, InProgress, vars, daemonVars, remoteVars, Goes, Recheck, OwnsContact, Unlock
<1>4. ASSUME NEW r \in Requests, StartContact(r) PROVE Young'
  BY <1>0, <1>4 DEF Young, InProgress, vars, daemonVars, remoteVars, Goes, StartContact, OwnsContact
<1>5. ASSUME NEW r \in Requests, Connect(r) PROVE Young'
  BY <1>0, <1>5 DEF Young, InProgress, vars, daemonVars, remoteVars, Goes, Connect
<1>6. ASSUME NEW r \in Requests, AttemptFails(r) PROVE Young'
  BY <1>0, <1>6 DEF Young, InProgress, vars, daemonVars, remoteVars, Goes, AttemptFails, Abort, Unlock, LeaveBehind
<1>7. ASSUME NEW r \in Requests, Timeout(r) PROVE Young'
  BY <1>0, <1>7 DEF Young, InProgress, vars, daemonVars, remoteVars, Goes, Timeout, Abort, Unlock, LeaveBehind
<1>8. ASSUME NEW r \in Requests, Insert(r) PROVE Young'
  BY <1>0, <1>8 DEF Young, InProgress, vars, daemonVars, remoteVars, Goes, Insert, Unlock
<1>9. ASSUME NEW r \in Requests, Probe(r) PROVE Young'
  BY <1>0, <1>9 DEF Young, InProgress, vars, daemonVars, remoteVars, Goes, Probe, Deploying
<1>10. ASSUME NEW r \in Requests, CreateTemp(r) PROVE Young'
  BY <1>0, <1>10 DEF Young, InProgress, vars, daemonVars, remoteVars, Goes, CreateTemp, Deploying
<1>11. ASSUME NEW r \in Requests, Upload(r) PROVE Young'
  BY <1>0, <1>11 DEF Young, InProgress, vars, daemonVars, remoteVars, Goes, Upload, Deploying
<1>12. ASSUME NEW r \in Requests, Rename(r) PROVE Young'
  BY <1>0, <1>12 DEF Young, InProgress, vars, daemonVars, remoteVars, Goes, Rename, Deploying, MoveTemp
<1>13. ASSUME NEW r \in Requests, Verify(r) PROVE Young'
  BY <1>0, <1>13 DEF Young, InProgress, vars, daemonVars, remoteVars, Goes, Verify, Deploying
<1>14. ASSUME NEW r \in Requests, List(r) PROVE Young'
  BY <1>0, <1>14 DEF Young, InProgress, vars, daemonVars, remoteVars, Goes, List, Deploying, OldTemps
<1>15. ASSUME NEW r \in Requests, Remove(r) PROVE Young'
  BY <1>0, <1>15 DEF Young, InProgress, vars, daemonVars, remoteVars, Goes, Remove, Deploying, RemoveDoomed
<1>16. ASSUME NEW r \in Requests, CleanupFails(r) PROVE Young'
  BY <1>0, <1>16 DEF Young, InProgress, vars, daemonVars, remoteVars, Goes, CleanupFails, LeaveBehind
<1>17. ASSUME NEW r \in Requests, CheckVersion(r) PROVE Young'
  BY <1>0, <1>17 DEF Young, InProgress, vars, daemonVars, remoteVars, Goes, CheckVersion, Deploying
<1>18. ASSUME NEW r \in Requests, ExecSucceeds(r) PROVE Young'
  BY <1>0, <1>18 DEF Young, InProgress, vars, daemonVars, remoteVars, Goes, ExecSucceeds
<1>19. ASSUME NEW r \in Requests, ExecFails(r) PROVE Young'
  BY <1>0, <1>19 DEF Young, InProgress, vars, daemonVars, remoteVars, Goes, ExecFails
<1>20. ASSUME NEW r \in Requests, Evict(r) PROVE Young'
  BY <1>0, <1>20 DEF Young, InProgress, vars, daemonVars, remoteVars, Goes, Evict
<1>21. ASSUME NEW r \in Requests, LateCommand(r) PROVE Young'
  BY <1>0, <1>21 DEF Young, InProgress, vars, daemonVars, remoteVars, Goes, LateCommand, MoveTemp, RemoveDoomed
<1>22. ASSUME NEW r \in Requests, Tick(r) PROVE Young'
  BY <1>0, <1>22 DEF Young, InProgress, vars, daemonVars, remoteVars, Goes, Tick
<1>23. ASSUME NEW r \in Requests, LoseConnection(r) PROVE Young'
  BY <1>0, <1>23 DEF Young, InProgress, vars, daemonVars, remoteVars, Goes, LoseConnection
<1>24. CASE UNCHANGED vars
  BY <1>0, <1>24 DEF vars, Young, InProgress
<1>25. QED
  BY <1>1, <1>2, <1>3, <1>4, <1>5, <1>6, <1>7, <1>8, <1>9, <1>10, <1>11, <1>12, <1>13, <1>14, <1>15, <1>16, <1>17, <1>18, <1>19, <1>20, <1>21, <1>22, <1>23, <1>24 DEF Next, Contact, Deploy, Exec

LEMMA OrphansOnlyKept ==
  ASSUME SafeInv, [Next]_vars
  PROVE  OrphansOnly'
<1> DEFINE Over == {"using", "evict", "done", "failed"}
<1>0. /\ OrphansOnly
      /\ stage \in [Requests -> Stages]
      /\ doomed \in [Requests -> [bins : SUBSET Versions, temps : SUBSET Requests]]
  BY DEF SafeInv, TypeInv, TypeOK
<1>1. ASSUME NEW r \in Requests, List(r) PROVE OrphansOnly'
  <2>1. ASSUME NEW q \in OldTemps PROVE stage[q] \in Over
    <3>1. q \in Requests /\ temp[q] # "absent" /\ age[q] >= UploadGc
      BY DEF OldTemps
    <3>2. stage[q] \notin {"idle", "waiting"}
      BY <3>1 DEF SafeInv, Young
    <3>3. stage[q] \notin Attempting
      <4>1. age[q] \in 0..UploadGc
        BY <3>1 DEF SafeInv, TypeInv, TypeOK
      <4>2. InProgress(q) => age[q] <= DeployTimeout
        BY <3>1 DEF SafeInv, Young
      <4>3. QED
        BY <3>1, <4>1, <4>2, HostPoolAssumption DEF InProgress
    <3>4. QED
      BY <1>0, <3>1, <3>2, <3>3 DEF Stages
  <2>2. stage' = [stage EXCEPT ![r] = "remove"] /\ stage[r] = "list"
    BY <1>1 DEF List, Goes, Deploying
  <2>3. doomed' = [doomed EXCEPT ![r] = [bins |-> bin \ {Ver(r)}, temps |-> OldTemps]]
    BY <1>1 DEF List
  <2>4. /\ doomed'[r].temps = OldTemps
        /\ \A q \in Requests \ {r} : doomed'[q] = doomed[q]
        /\ \A q \in Requests \ {r} : stage'[q] = stage[q]
    BY <1>0, <2>2, <2>3
  <2>5. r \notin OldTemps /\ \A q \in Requests : r \notin doomed[q].temps
    BY <1>0, <2>1, <2>2 DEF OrphansOnly
  <2>6. QED
    BY <1>0, <2>1, <2>4, <2>5 DEF OrphansOnly
<1>2. ASSUME NEW r \in Requests,
             \/ TakeCached(r) \/ Queue(r) \/ Recheck(r) \/
                StartContact(r) \/ Connect(r) \/ AttemptFails(r) \/
                Timeout(r) \/ Insert(r) \/ Probe(r) \/ CreateTemp(r) \/
                Upload(r) \/ Rename(r) \/ Verify(r) \/ Remove(r) \/
                CleanupFails(r) \/ CheckVersion(r) \/ ExecSucceeds(r) \/
                ExecFails(r) \/ Evict(r) \/ LateCommand(r) \/ Tick(r) \/
                LoseConnection(r)
      PROVE  OrphansOnly'
  <2>1. doomed' = doomed
    BY <1>2 DEF vars, daemonVars, remoteVars, Goes, TakeCached, Queue, Recheck, OwnsContact,
       Unlock, StartContact, Connect, AttemptFails, Abort, LeaveBehind, Timeout,
       Insert, Probe, Deploying, CreateTemp, Upload, Rename, MoveTemp, Verify,
       Remove, RemoveDoomed, CleanupFails, CheckVersion, ExecSucceeds,
       ExecFails, Evict, LateCommand, Tick, InProgress, LoseConnection
  <2>2. \A q \in Requests : stage[q] \in Over => stage'[q] \in Over
    BY <1>0, <1>2 DEF Attempting, vars, daemonVars, remoteVars, Goes, TakeCached, Queue, Recheck, OwnsContact,
       Unlock, StartContact, Connect, AttemptFails, Abort, LeaveBehind, Timeout,
       Insert, Probe, Deploying, CreateTemp, Upload, Rename, MoveTemp, Verify,
       Remove, RemoveDoomed, CleanupFails, CheckVersion, ExecSucceeds,
       ExecFails, Evict, LateCommand, Tick, InProgress, LoseConnection
  <2>3. QED
    BY <1>0, <2>1, <2>2 DEF OrphansOnly
<1>3. CASE UNCHANGED vars
  BY <1>0, <1>3 DEF vars, OrphansOnly
<1>4. QED
  BY <1>1, <1>2, <1>3 DEF Next, Contact, Deploy, Exec

LEMMA SafeInvHolds == Spec => []SafeInv
<1>1. Init => SafeInv
  BY TypeInvInit, HostPoolAssumption DEF Init, SafeInv, ContactsNeeded, RenamesWhole,
     BinariesListed, Accounted, Young, OrphansOnly, InProgress, Attempting, Live, Nothing
<1>2. SafeInv /\ [Next]_vars => SafeInv'
  BY TypeInvKept, ContactsNeededKept, RenamesWholeKept, BinariesListedKept, YoungKept,
     OrphansOnlyKept
     DEF SafeInv
<1>3. QED
  BY <1>1, <1>2, PTL DEF Spec

(***************************************************************************)
(* The safety properties                                                   *)
(***************************************************************************)
\* No binary is ever incomplete at its path, and a daemon with a live cached
\* connection finds its binary unless another version's cleanup has listed it.
THEOREM CachedBinaryAlwaysRuns == Spec => []CachedBinaryRuns
<1>1. SafeInv => CachedBinaryRuns
  BY DEF SafeInv, RenamesWhole, BinariesListed, Accounted, Listed, CachedBinaryRuns
<1>2. QED
  BY <1>1, SafeInvHolds, PTL

\* The upload file of a first contact in progress is taken away by its rename only.
THEOREM UploadsInFlightKept == Spec => UploadInFlightKept
<1> DEFINE Kept ==
      \A r \in Requests :
        InProgress(r) /\ temp[r] # "absent" /\ temp'[r] = "absent"
          => stage[r] = "rename" /\ stage'[r] = "verify"
<1>1. SafeInv /\ [Next]_vars => [Kept]_vars
  <2> SUFFICES ASSUME SafeInv, Next, NEW q \in Requests,
                      InProgress(q), temp[q] # "absent", temp'[q] = "absent"
               PROVE  stage[q] = "rename" /\ stage'[q] = "verify"
    OBVIOUS
  <2> USE DEF SafeInv, TypeInv, TypeOK, Young, OrphansOnly, RenamesWhole
  <2>1. ASSUME NEW r \in Requests, Rename(r)
        PROVE  stage[q] = "rename" /\ stage'[q] = "verify"
    BY <2>1 DEF Rename, MoveTemp, Goes, Deploying
  <2>2. ASSUME NEW r \in Requests, Remove(r) PROVE FALSE
    BY <2>2 DEF Remove, RemoveDoomed, InProgress, Attempting
  <2>3. ASSUME NEW r \in Requests, LateCommand(r) PROVE FALSE
    BY <2>3 DEF LateCommand, MoveTemp, RemoveDoomed, InProgress, Attempting
  <2>4. ASSUME NEW r \in Requests, CreateTemp(r) \/ Upload(r) PROVE FALSE
    BY <2>4 DEF CreateTemp, Upload
  <2>5. ASSUME NEW r \in Requests,
               \/ TakeCached(r) \/ Queue(r) \/ Contact(r) \/ Exec(r) \/ Tick(r)
               \/ LoseConnection(r) \/ Probe(r) \/ Verify(r) \/ List(r)
               \/ CleanupFails(r) \/ CheckVersion(r)
        PROVE  FALSE
    BY <2>5 DEF TakeCached, Queue, Contact, Exec, Tick, LoseConnection, Probe, Verify,
       List, CleanupFails, CheckVersion, Recheck, StartContact, Connect, Insert,
       AttemptFails, Timeout, Abort, ExecSucceeds, ExecFails, Evict, remoteVars
  <2>6. QED
    BY <2>1, <2>2, <2>3, <2>4, <2>5 DEF Next, Deploy
<1>2. QED
  BY <1>1, SafeInvHolds, PTL DEF Spec, UploadInFlightKept

\* A live connection stays cached as long as it lives.
THEOREM LiveConnectionsKept == Spec => LiveConnectionKept
<1> DEFINE Kept ==
      \A d \in Daemons : Live(d) # None /\ Live(d) \in up' => pool'[d] = pool[d]
<1>1. SafeInv /\ [Next]_vars => [Kept]_vars
  <2> SUFFICES ASSUME SafeInv, Next, NEW d \in Daemons, Live(d) # None
               PROVE  pool'[d] = pool[d]
    OBVIOUS
  <2> USE DEF SafeInv, TypeInv, TypeOK, Live
  <2>1. ASSUME NEW r \in Requests, Insert(r) PROVE pool'[d] = pool[d]
    BY <2>1, ConstantTypes DEF Insert, Goes
  <2>2. ASSUME NEW r \in Requests, Evict(r) PROVE pool'[d] = pool[d]
    BY <2>2, ConstantTypes DEF Evict, Goes
  <2>3. ASSUME NEW r \in Requests,
               \/ TakeCached(r) \/ Queue(r) \/ Recheck(r) \/ StartContact(r)
               \/ Connect(r) \/ AttemptFails(r) \/ Timeout(r) \/ Deploy(r)
               \/ ExecSucceeds(r) \/ ExecFails(r) \/ LateCommand(r) \/ Tick(r)
               \/ LoseConnection(r)
        PROVE  pool' = pool
    BY <2>3 DEF TakeCached, Queue, Recheck, StartContact, Connect, AttemptFails, Timeout,
       Abort, Deploy, Probe, CreateTemp, Upload, Rename, Verify, List, Remove,
       CleanupFails, CheckVersion, ExecSucceeds, ExecFails, LateCommand, Tick,
       LoseConnection, daemonVars
  <2>4. QED
    BY <2>1, <2>2, <2>3 DEF Next, Contact, Exec
<1>2. QED
  BY <1>1, SafeInvHolds, PTL DEF Spec, LiveConnectionKept

=============================================================================
