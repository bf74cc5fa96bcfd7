------------------------------ MODULE SshProofs ------------------------------
(***************************************************************************)
(* Theorems about SshConnect, for any budget of attempts, any number of    *)
(* identities and key files, and any known_hosts files.                    *)
(***************************************************************************)
EXTENDS SshConnect, WellFoundedInduction, TLAPS

(***************************************************************************)
(* Type correctness                                                        *)
(***************************************************************************)
LEMMA Bounds ==
  MaxFiles \in Nat /\ MaxAttempts \in Nat /\ MaxAgent \in Nat /\ MaxKeys \in Nat
BY SshAssumption

LEMMA HashTypes ==
  ASSUME NEW p \in Hash \cup {"downgrade"}
  PROVE  RsaHashes(p) \in Seq(Hash)
<1>1. CASE p = "downgrade"
  BY <1>1 DEF RsaHashes, Hash
<1>2. CASE p \in Hash /\ p # "downgrade"
  BY <1>2 DEF RsaHashes
<1>3. QED
  BY <1>1, <1>2

\* One attempt more.
LEMMA RecordTypes ==
  ASSUME tried \in Seq(Attempt), offered \in BOOLEAN,
         NEW k \in 0 .. MaxKeys, NEW h \in Hash, NEW r \in Reply, Record(k, h, r)
  PROVE  tried' \in Seq(Attempt) /\ offered' \in BOOLEAN
<1>1. [key |-> k, hash |-> h, reply |-> r] \in Attempt
  BY DEF Attempt
<1>2. QED
  BY <1>1 DEF Record

\* Nothing has been tried before its turn.
Turns ==
  /\ phase \in {"resolve", "connect", "handshake", "hostkey"} => tried = << >> /\ offered
  /\ phase \in {"resolve", "connect", "handshake", "hostkey", "agent"} =>
       at = 0 /\ hashes = << >>

TypeInv == TypeOK /\ Turns

LEMMA TypeKept ==
  ASSUME TypeInv, [Next]_vars
  PROVE  TypeInv'
<1> USE Bounds DEF TypeInv, TypeOK, Turns
<1>0. CASE Resolve
  <2>1. Fallback \in Config /\ \A out \in Outputs : Parse(out) \in Config
    BY DEF Parse, Fallback, Config
  <2>2. config' \in Config
    <3>1. CASE Fail("resolve") /\ UNCHANGED config
      BY <3>1
    <3>2. CASE config' = Fallback \/ \E out \in Outputs : config' = Parse(out)
      BY <2>1, <3>2
    <3>3. QED
      BY <1>0, <3>1, <3>2 DEF Resolve
  <2>3. QED
    BY <1>0, <2>2 DEF Resolve, Fail, keys
<1>1. CASE Transport
  BY <1>1 DEF Transport, Config, Fail, setup, keys
<1>2. CASE HandshakeFails
  BY <1>2 DEF HandshakeFails, Fail, setup, keys
<1>3. CASE PresentKey
  BY <1>3 DEF PresentKey, keys
<1>4. CASE CheckFile
  <2>1. PICK f \in Files : read' = Append(read, f)
    BY <1>4 DEF CheckFile
  <2>2. read' \in Seq(Files) /\ Len(read') <= MaxFiles
    BY <1>4, <2>1 DEF CheckFile
  <2>3. verdict' \in {"none", "accept", "reject"}
    BY <1>4 DEF CheckFile
  <2>4. QED
    BY <1>4, <2>2, <2>3 DEF CheckFile, keys
<1>5. CASE FilesEnd
  BY <1>5 DEF FilesEnd, keys
<1>6. CASE Refuse
  BY <1>6 DEF Refuse, Fail, setup, keys
<1>7. CASE Accept
  <2>1. PICK n \in 0 .. MaxKeys : ids' \in [1 .. n -> Kind]
    BY <1>7 DEF Accept
  <2>2. ids' \in Seq(Kind) /\ Len(ids') = n
    BY <2>1
  <2>3. read' \in Seq(Files) /\ Len(read') <= MaxFiles
    BY <1>7 DEF Accept
  <2>4. at' \in 0 .. Len(ids')
    BY <1>7, <2>2 DEF Accept
  <2>5. QED
    BY <1>7, <2>2, <2>3, <2>4 DEF Accept
<1>8. ASSUME NEW r \in Reply, AgentTry(r) PROVE TypeInv'
  <2>1. tried' \in Seq(Attempt) /\ offered' \in BOOLEAN
    BY <1>8, RecordTypes DEF AgentTry, Hash
  <2>2. QED
    BY <1>8, <2>1 DEF AgentTry, setup
<1>9. CASE AgentEnds
  BY <1>9 DEF AgentEnds, setup, keys
<1>10. CASE LoadKey
  <2>1. ids[at + 1] \in Kind
    BY <1>10 DEF LoadKey
  <2>2. hashes' \in Seq(Hash) /\ plan' \in Hash \cup {"unknown", "downgrade"}
    <3>1. CASE ids[at + 1] = "rsa"
      <4>1. plan' \in Hash \cup {"downgrade"} /\ hashes' = RsaHashes(plan')
        BY <1>10, <3>1 DEF LoadKey
      <4>2. QED
        BY <4>1, HashTypes
    <3>2. CASE ids[at + 1] = "other"
      <4>1. "none" \in Hash
        BY DEF Hash
      <4>2. <<"none">> \in Seq(Hash)
        BY <4>1
      <4>3. hashes' = <<"none">> /\ plan' = plan
        BY <1>10, <3>2 DEF LoadKey
      <4>4. QED
        BY <4>2, <4>3
    <3>3. CASE ids[at + 1] \notin {"rsa", "other"}
      BY <1>10, <3>3 DEF LoadKey
    <3>4. QED
      BY <3>1, <3>2, <3>3
  <2>3. QED
    BY <1>10, <2>2 DEF LoadKey, setup
<1>11. ASSUME NEW r \in Reply, FileTry(r) PROVE TypeInv'
  <2>1. Head(hashes) \in Hash /\ Tail(hashes) \in Seq(Hash)
    BY <1>11 DEF FileTry
  <2>2. at \in 0 .. MaxKeys
    OBVIOUS
  <2>3. tried' \in Seq(Attempt) /\ offered' \in BOOLEAN
    BY <1>11, <2>1, <2>2, RecordTypes DEF FileTry
  <2>4. hashes' \in Seq(Hash)
    BY <1>11, <2>1 DEF FileTry
  <2>5. QED
    BY <1>11, <2>3, <2>4 DEF FileTry, setup
<1>12. CASE NothingLeft
  BY <1>12 DEF NothingLeft, Fail, setup, keys
<1>13. CASE Deadline
  BY <1>13 DEF Deadline, Fail, setup, keys
<1>14. CASE UNCHANGED vars
  BY <1>14 DEF vars
<1>15. QED
  BY <1>0, <1>1, <1>2, <1>3, <1>4, <1>5, <1>6, <1>7, <1>8, <1>9, <1>10, <1>11, <1>12, <1>13,
     <1>14 DEF Next, KeyStep, AuthStep

LEMMA TypeInit == Init => TypeInv
<1>1. SUFFICES ASSUME Init PROVE TypeInv
  OBVIOUS
<1>2. {proxy, cert, offered} \subseteq BOOLEAN
  BY <1>1 DEF Init
<1>3. Turns
  BY <1>1 DEF Init, Turns
<1>4. QED
  BY <1>1, <1>2, <1>3, Bounds DEF Init, Fallback, Config, TypeInv, TypeOK

LEMMA TypesKept == Spec => []TypeInv
<1>1. Init => TypeInv
  BY TypeInit
<1>2. TypeInv /\ [Next]_vars => TypeInv'
  BY TypeKept
<1>3. QED
  BY <1>1, <1>2, PTL DEF Spec

\* The types of the model: the verdicts, the queue of hashes and the record of attempts
\* stay what they are however the server answers.
THEOREM TypeCorrect == Spec => []TypeOK
<1>1. TypeInv => TypeOK
  BY DEF TypeInv
<1>2. QED
  BY <1>1, TypesKept, PTL

(***************************************************************************)
(* The attempts keep their order                                           *)
(***************************************************************************)
LastTry == tried[Len(tried)]

Trying == phase \in {"agent", "files"}

\* What is left of the hashes of the key that was tried last continues its downgrade.
Continues ==
  hashes # << >> /\ tried # << >> /\ LastTry.key = at =>
    /\ LastTry.reply = "rejected" \/ ~offered
    /\ \/ hashes = <<"sha256", "none">> /\ LastTry.hash = "sha512"
       \/ hashes = <<"none">> /\ LastTry.hash = "sha256"

\* The hashes of a key that has not been tried yet.
Starts ==
  hashes \in {<< >>, <<"sha512", "sha256", "none">>, <<"sha256", "none">>}
               \cup {<<h>> : h \in Hash}

OrderInv ==
  /\ AttemptsInOrder
  /\ Trying /\ offered => \A i \in DOMAIN tried : tried[i].reply \in {"rejected", "failed"}
  /\ \A i \in DOMAIN tried : tried[i].key <= at
  /\ phase = "files" => Starts /\ Continues

\* One attempt more keeps the order, if it goes on behind the last one.
LEMMA RecordInOrder ==
  ASSUME TypeInv, AttemptsInOrder, Trying, ~Exhausted,
         \A i \in DOMAIN tried : tried[i].reply \in {"rejected", "failed"},
         NEW k \in Nat, NEW h \in Hash, NEW r \in Reply, Record(k, h, r),
         k > 0 /\ tried # << >> /\ LastTry.key = k =>
           /\ LastTry.reply = "rejected"
           /\ <<LastTry.hash, h>> \in {<<"sha512", "sha256">>, <<"sha256", "none">>}
  PROVE  AttemptsInOrder'
<1> DEFINE t == [key |-> k, hash |-> h, reply |-> r]
           n == Len(tried)
<1>1. tried \in Seq(Attempt) /\ n \in Nat /\ n < MaxAttempts
  BY Bounds DEF TypeInv, TypeOK, Exhausted
<1>2. tried' = Append(tried, t)
  BY DEF Record
<1>3. /\ Len(tried') = n + 1 /\ DOMAIN tried' = 1 .. n + 1
      /\ \A i \in 1 .. n : tried'[i] = tried[i]
      /\ tried'[n + 1] = t
  BY <1>1, <1>2
<1> HIDE DEF n
<1>4. Len(tried') <= MaxAttempts
  BY <1>1, <1>3, Bounds
<1>5. \A i \in 1 .. Len(tried') - 1 : tried'[i].reply \in {"rejected", "failed"}
  <2>1. DOMAIN tried = 1 .. n
    BY <1>1 DEF n
  <2>2. QED
    BY <1>1, <1>3, <2>1
<1>6. ASSUME NEW i \in DOMAIN tried', NEW j \in DOMAIN tried',
             j = i + 1, tried'[i].key > 0, tried'[i].key = tried'[j].key
      PROVE  /\ tried'[i].reply = "rejected"
             /\ <<tried'[i].hash, tried'[j].hash>> \in
                  {<<"sha512", "sha256">>, <<"sha256", "none">>}
  <2>1. CASE j = n + 1
    <3>1. i = n /\ n > 0 /\ tried'[i] = LastTry
      BY <1>1, <1>3, <1>6, <2>1 DEF LastTry, n
    <3>2. tried # << >> /\ LastTry.key = k /\ k > 0
      BY <1>1, <1>3, <1>6, <2>1, <3>1 DEF n
    <3>3. QED
      BY <1>3, <2>1, <3>1, <3>2
  <2>2. CASE j # n + 1
    <3>1. i \in 1 .. n /\ j \in 1 .. n
      BY <1>1, <1>3, <1>6, <2>2
    <3>2. i \in DOMAIN tried /\ j \in DOMAIN tried
      BY <1>1, <3>1 DEF n
    <3>3. QED
      BY <1>3, <1>6, <3>1, <3>2 DEF AttemptsInOrder
  <2>3. QED
    BY <2>1, <2>2
<1>7. QED
  BY <1>4, <1>5, <1>6 DEF AttemptsInOrder

\* What no attempt changes keeps the invariant.
LEMMA OrderIdle ==
  ASSUME OrderInv, UNCHANGED <<at, hashes, offered, tried>>,
         phase' = phase \/ phase' \notin {"agent", "files"}
  PROVE  OrderInv'
BY DEF OrderInv, AttemptsInOrder, Trying, Starts, Continues, LastTry

LEMMA OrderKept ==
  ASSUME TypeInv, OrderInv, [Next]_vars
  PROVE  OrderInv'
<1>1. CASE Resolve \/ Transport \/ HandshakeFails \/ PresentKey \/ CheckFile \/ FilesEnd \/ Refuse
  BY <1>1, OrderIdle DEF Resolve, Transport, HandshakeFails, PresentKey, CheckFile, FilesEnd,
     Refuse, Fail, setup, keys
<1>2. CASE NothingLeft \/ Deadline \/ UNCHANGED vars
  BY <1>2, OrderIdle DEF NothingLeft, Deadline, Fail, setup, keys, vars
<1>3. CASE Accept
  <2>1. tried = << >> /\ tried' = tried /\ at' = at /\ phase' = "agent"
    BY <1>3 DEF Accept, TypeInv, Turns
  <2>2. DOMAIN tried = {}
    BY <2>1
  <2>3. AttemptsInOrder'
    BY <2>1 DEF OrderInv, AttemptsInOrder
  <2>4. QED
    BY <2>1, <2>2, <2>3 DEF OrderInv
<1>4. ASSUME NEW r \in Reply, AgentTry(r) PROVE OrderInv'
  <2>1. /\ Trying /\ ~Exhausted /\ Record(0, "none", r) /\ at = 0 /\ at' = 0
        /\ phase' # "files"
    BY <1>4 DEF AgentTry, Trying, TypeInv, Turns
  <2>2. "none" \in Hash
    BY DEF Hash
  <2>3. \A i \in DOMAIN tried : tried[i].reply \in {"rejected", "failed"}
    BY <2>1 DEF OrderInv, Exhausted
  <2>4. AttemptsInOrder'
    BY <2>1, <2>2, <2>3, RecordInOrder DEF OrderInv
  <2>5. /\ DOMAIN tried' = DOMAIN tried \cup {Len(tried) + 1}
        /\ \A i \in DOMAIN tried : tried'[i] = tried[i]
        /\ tried'[Len(tried) + 1] = [key |-> 0, hash |-> "none", reply |-> r]
    BY <2>1 DEF Record, TypeInv, TypeOK
  <2>6. (Trying /\ offered)' => r \in {"rejected", "failed"}
    BY <1>4, <2>1 DEF AgentTry, Trying, Record, Reply
  <2>7. QED
    BY <2>1, <2>3, <2>4, <2>5, <2>6 DEF OrderInv
<1>5. CASE AgentEnds
  <2>1. hashes = << >> /\ phase = "agent" /\ phase' = "files"
    BY <1>5 DEF AgentEnds, TypeInv, Turns
  <2>2. UNCHANGED <<at, hashes, offered, tried>>
    BY <1>5 DEF AgentEnds, keys
  <2>3. (Starts /\ Continues)'
    BY <2>1, <2>2 DEF Starts, Continues
  <2>4. QED
    BY <2>1, <2>2, <2>3 DEF OrderInv, AttemptsInOrder, Trying
<1>6. CASE LoadKey
  <2>1. /\ phase = "files" /\ phase' = "files" /\ at' = at + 1 /\ hashes = << >>
        /\ UNCHANGED <<offered, tried>>
    BY <1>6 DEF LoadKey
  <2>2. \A i \in DOMAIN tried : tried[i].key \in Nat /\ tried[i].key <= at
    <3>1. tried \in Seq(Attempt)
      BY DEF TypeInv, TypeOK
    <3>2. \A i \in DOMAIN tried : tried[i] \in Attempt
      BY <3>1
    <3>3. \A a \in Attempt : a.key \in Nat
      BY Bounds DEF Attempt
    <3>4. \A i \in DOMAIN tried : tried[i].key <= at
      BY DEF OrderInv
    <3>5. QED
      BY <3>2, <3>3, <3>4
  <2>3. \A i \in DOMAIN tried : tried[i].key < at'
    BY <2>1, <2>2 DEF TypeInv, TypeOK
  <2>4. Continues'
    <3>1. tried # << >> => Len(tried) \in DOMAIN tried
      BY DEF TypeInv, TypeOK
    <3>2. tried # << >> => LastTry.key \in Nat /\ LastTry.key < at'
      BY <2>2, <2>3, <3>1 DEF LastTry
    <3>3. at' \in Nat
      BY <2>1 DEF TypeInv, TypeOK
    <3>4. QED
      BY <2>1, <3>2, <3>3 DEF Continues, LastTry
  <2>5. Starts'
    <3>1. CASE ids[at + 1] = "rsa"
      <4>1. plan' \in Hash \cup {"downgrade"} /\ hashes' = RsaHashes(plan')
        BY <1>6, <3>1 DEF LoadKey, TypeInv, TypeOK
      <4>2. QED
        BY <4>1 DEF RsaHashes, Starts
    <3>2. CASE ids[at + 1] = "other"
      <4>1. "none" \in Hash
        BY DEF Hash
      <4>2. hashes' = <<"none">>
        BY <1>6, <3>2 DEF LoadKey
      <4>3. QED
        BY <4>1, <4>2 DEF Starts
    <3>3. CASE ids[at + 1] \notin {"rsa", "other"}
      BY <1>6, <3>3 DEF LoadKey, Starts
    <3>4. QED
      BY <3>1, <3>2, <3>3
  <2>6. \A i \in DOMAIN tried' : tried'[i].key <= at'
    BY <2>1, <2>2 DEF TypeInv, TypeOK
  <2>7. QED
    BY <2>1, <2>4, <2>5, <2>6 DEF OrderInv, AttemptsInOrder, Trying
<1>7. ASSUME NEW r \in Reply, FileTry(r) PROVE OrderInv'
  <2>1. /\ phase = "files" /\ hashes # << >> /\ ~Exhausted /\ Record(at, Head(hashes), r)
        /\ hashes' = IF r = "failed" THEN << >> ELSE Tail(hashes)
        /\ phase' = IF r = "success" THEN "connected" ELSE "files"
        /\ at' = at
    BY <1>7 DEF FileTry
  <2>2. at \in Nat /\ Head(hashes) \in Hash
    BY <2>1 DEF TypeInv, TypeOK
  <2>3. \A i \in DOMAIN tried : tried[i].reply \in {"rejected", "failed"}
    BY <2>1 DEF OrderInv, Exhausted, Trying
  <2>4. Starts /\ Continues /\ offered
    BY <2>1 DEF OrderInv, Exhausted
  <2>5. at > 0 /\ tried # << >> /\ LastTry.key = at =>
           /\ LastTry.reply = "rejected"
           /\ <<LastTry.hash, Head(hashes)>> \in {<<"sha512", "sha256">>, <<"sha256", "none">>}
    BY <2>1, <2>4 DEF Continues
  <2>6. AttemptsInOrder'
    BY <2>1, <2>2, <2>3, <2>5, RecordInOrder DEF OrderInv, Trying
  <2>7. /\ DOMAIN tried' = DOMAIN tried \cup {Len(tried) + 1}
        /\ \A i \in DOMAIN tried : tried'[i] = tried[i]
        /\ tried'[Len(tried) + 1] = [key |-> at, hash |-> Head(hashes), reply |-> r]
        /\ tried' # << >> /\ Len(tried') = Len(tried) + 1
    <3>1. tried \in Seq(Attempt) /\ Len(tried) \in Nat
      BY DEF TypeInv, TypeOK
    <3>2. tried' = Append(tried, [key |-> at, hash |-> Head(hashes), reply |-> r])
      BY <2>1 DEF Record
    <3>3. QED
      BY <3>1, <3>2
  <2>8. (Trying /\ offered)' => r \in {"rejected", "failed"}
    BY <2>1 DEF Trying, Record, Reply
  <2>9. (Trying /\ offered)' =>
          \A i \in DOMAIN tried' : tried'[i].reply \in {"rejected", "failed"}
    BY <2>3, <2>7, <2>8
  <2>10. \A i \in DOMAIN tried' : tried'[i].key <= at'
    BY <2>1, <2>2, <2>7 DEF OrderInv
  <2>11. Starts'
    <3>1. CASE r = "failed"
      BY <2>1, <3>1 DEF Starts
    <3>2. CASE hashes = <<"sha512", "sha256", "none">> /\ r # "failed"
      BY <2>1, <3>2 DEF Starts
    <3>3. CASE hashes = <<"sha256", "none">> /\ r # "failed"
      <4>1. hashes' = <<"none">> /\ "none" \in Hash
        BY <2>1, <3>3 DEF Hash
      <4>2. QED
        BY <4>1 DEF Starts
    <3>4. ASSUME NEW h \in Hash, hashes = <<h>>, r # "failed" PROVE Starts'
      BY <2>1, <3>4 DEF Starts
    <3>5. QED
      BY <2>1, <2>4, <3>1, <3>2, <3>3, <3>4 DEF Starts
  <2>12. phase' = "files" => Continues'
    <3>1. SUFFICES ASSUME phase' = "files", hashes' # << >>
                   PROVE  /\ LastTry'.reply = "rejected" \/ ~offered'
                          /\ \/ hashes' = <<"sha256", "none">> /\ LastTry'.hash = "sha512"
                             \/ hashes' = <<"none">> /\ LastTry'.hash = "sha256"
      BY DEF Continues
    <3>2. r \in {"rejected", "withdrawn"} /\ hashes' = Tail(hashes)
      BY <2>1, <3>1 DEF Reply
    <3>3. LastTry' = [key |-> at, hash |-> Head(hashes), reply |-> r]
      BY <2>7 DEF LastTry
    <3>4. r = "withdrawn" => ~offered'
      BY <2>1 DEF Record
    <3>5. CASE hashes = <<"sha512", "sha256", "none">>
      <4>1. Head(hashes) = "sha512" /\ Tail(hashes) = <<"sha256", "none">>
        BY <3>5
      <4>2. QED
        BY <3>2, <3>3, <3>4, <4>1
    <3>6. CASE hashes = <<"sha256", "none">>
      <4>1. Head(hashes) = "sha256" /\ Tail(hashes) = <<"none">>
        BY <3>6
      <4>2. QED
        BY <3>2, <3>3, <3>4, <4>1
    <3>7. ASSUME NEW h \in Hash, hashes = <<h>> PROVE FALSE
      <4>1. Tail(hashes) = << >>
        BY <3>7
      <4>2. QED
        BY <3>1, <3>2, <4>1
    <3>8. QED
      BY <2>1, <2>4, <3>5, <3>6, <3>7 DEF Starts
  <2>13. QED
    BY <2>6, <2>9, <2>10, <2>11, <2>12 DEF OrderInv
<1>8. QED
  BY <1>1, <1>2, <1>3, <1>4, <1>5, <1>6, <1>7 DEF Next, KeyStep, AuthStep

LEMMA OrderInit == Init => OrderInv
<1>1. SUFFICES ASSUME Init PROVE OrderInv
  OBVIOUS
<1>2. tried = << >> /\ DOMAIN tried = {} /\ Len(tried) = 0 /\ phase = "resolve"
  BY <1>1 DEF Init
<1>3. AttemptsInOrder
  BY <1>2, Bounds DEF AttemptsInOrder
<1>4. QED
  BY <1>2, <1>3 DEF OrderInv

\* The attempts of the agent and of the files together keep to the budget, stop at a
\* success or a withdrawal, and go down in the hash only after a rejection.
THEOREM AttemptsKeepOrder == Spec => []AttemptsInOrder
<1>1. Init => OrderInv
  BY OrderInit
<1>2. TypeInv /\ OrderInv /\ [Next]_vars => OrderInv'
  BY OrderKept
<1>3. OrderInv => AttemptsInOrder
  BY DEF OrderInv
<1>4. Spec => []TypeInv
  BY TypesKept
<1>5. QED
  BY <1>1, <1>2, <1>3, <1>4, PTL DEF Spec

(***************************************************************************)
(* Nothing is given up early                                               *)
(***************************************************************************)
HadTurn(s, k) == \E i \in DOMAIN s : s[i].key = k

GiveInv ==
  /\ GivesUpLast
  /\ error # "none" => phase = "failed"
  /\ ~offered => Withdrawn
  /\ phase = "files" =>
       /\ agent = 0 \/ (Exhausted /\ at = 0)
       /\ \A k \in 1 .. at :
            ids[k] \in Usable => HadTurn(tried, k) \/ (k = at /\ hashes # << >>)

\* One attempt more takes no turn back.
LEMMA RecordKeeps ==
  ASSUME TypeInv, NEW k \in Nat, NEW h \in Hash, NEW r \in Reply, Record(k, h, r)
  PROVE  /\ HadTurn(tried', k)
         /\ \A m \in Nat : HadTurn(tried, m) => HadTurn(tried', m)
         /\ (~offered => Withdrawn) => (~offered' => Withdrawn')
         /\ Len(tried') = Len(tried) + 1
<1> DEFINE t == [key |-> k, hash |-> h, reply |-> r]
<1>1. tried \in Seq(Attempt) /\ Len(tried) \in Nat
  BY DEF TypeInv, TypeOK
<1>2. tried' = Append(tried, t)
  BY DEF Record
<1>3. /\ DOMAIN tried' = DOMAIN tried \cup {Len(tried) + 1}
      /\ \A i \in DOMAIN tried : tried'[i] = tried[i]
      /\ tried'[Len(tried) + 1] = t
      /\ Len(tried') = Len(tried) + 1
  BY <1>1, <1>2
<1>4. offered' = (offered /\ r # "withdrawn")
  BY DEF Record
<1>5. HadTurn(tried', k)
  BY <1>3 DEF HadTurn
<1>6. \A m \in Nat : HadTurn(tried, m) => HadTurn(tried', m)
  BY <1>3 DEF HadTurn
<1>7. (~offered => Withdrawn) => (~offered' => Withdrawn')
  <2>1. CASE offered
    <3>1. r = "withdrawn" => tried'[Len(tried) + 1].reply = "withdrawn"
      BY <1>3
    <3>2. QED
      BY <1>3, <1>4, <2>1, <3>1 DEF Withdrawn
  <2>2. CASE ~offered
    BY <1>3, <2>2 DEF Withdrawn
  <2>3. QED
    BY <2>1, <2>2
<1>8. QED
  BY <1>3, <1>5, <1>6, <1>7

LEMMA GiveKept ==
  ASSUME TypeInv, OrderInv, GiveInv, [Next]_vars
  PROVE  GiveInv'
<1>1. CASE Resolve \/ Transport \/ HandshakeFails \/ PresentKey \/ CheckFile \/ FilesEnd \/ Refuse
  <2>1. error = "none"
    BY <1>1 DEF GiveInv, Resolve, Transport, HandshakeFails, PresentKey, CheckFile, FilesEnd, Refuse
  <2>2. UNCHANGED keys /\ phase' # "files" /\ error' # "auth"
        /\ (error' # "none" => phase' = "failed")
    BY <1>1, <2>1 DEF Resolve, Transport, HandshakeFails, PresentKey, CheckFile, FilesEnd,
       Refuse, Fail
  <2>3. QED
    BY <2>2 DEF GiveInv, GivesUpLast, Withdrawn, keys
<1>2. CASE Accept
  <2>1. error = "none"
    BY <1>2 DEF GiveInv, Accept
  <2>2. QED
    BY <1>2, <2>1 DEF Accept, GiveInv, GivesUpLast, Withdrawn
<1>3. CASE Deadline
  BY <1>3 DEF Deadline, Fail, keys, GiveInv, GivesUpLast, Withdrawn
<1>4. CASE UNCHANGED vars
  BY <1>4 DEF vars, GiveInv, GivesUpLast, HadTurn, Exhausted, Withdrawn, Spent
<1>5. CASE NothingLeft
  <2>1. phase = "files" /\ phase' = "failed" /\ UNCHANGED keys
        /\ (Exhausted \/ (hashes = << >> /\ at = Len(ids)))
    BY <1>5 DEF NothingLeft, Fail
  <2>4. Exhausted /\ ~Withdrawn => Spent
    <3>1. Len(tried) \in Nat /\ Len(tried) <= MaxAttempts
      BY DEF OrderInv, AttemptsInOrder, TypeInv, TypeOK
    <3>2. QED
      BY <3>1, Bounds DEF Exhausted, GiveInv, Spent
  <2>5. \A i \in DOMAIN tried : tried[i].key \in Nat /\ tried[i].key <= at
    <3>1. tried \in Seq(Attempt)
      BY DEF TypeInv, TypeOK
    <3>2. \A i \in DOMAIN tried : tried[i] \in Attempt
      BY <3>1
    <3>3. \A t \in Attempt : t.key \in Nat
      BY Bounds DEF Attempt
    <3>4. QED
      BY <3>2, <3>3 DEF OrderInv
  <2>2. ASSUME ~Withdrawn, agent > 0
        PROVE  Spent /\ \A i \in DOMAIN tried : tried[i].key = 0
    <3>1. Exhausted /\ at = 0 /\ agent \in Nat
      BY <2>1, <2>2, Bounds DEF GiveInv, TypeInv, TypeOK
    <3>2. Spent
      BY <2>2, <2>4, <3>1
    <3>3. \A i \in DOMAIN tried : tried[i].key \in Nat /\ tried[i].key <= 0
      BY <2>5, <3>1
    <3>4. QED
      BY <3>2, <3>3
  <2>3. ASSUME ~Withdrawn, NEW k \in DOMAIN ids, ids[k] \in Usable
        PROVE  HadTurn(tried, k) \/ (Spent /\ \A i \in DOMAIN tried : tried[i].key < k)
    <3>1. k \in 1 .. Len(ids) /\ at \in Nat
      BY DEF TypeInv, TypeOK
    <3>2. CASE HadTurn(tried, k)
      BY <3>2
    <3>3. CASE ~HadTurn(tried, k)
      <4>1. k > at \/ (k = at /\ hashes # << >>)
        BY <2>1, <2>3, <3>1, <3>3 DEF GiveInv
      <4>2. Exhausted
        BY <2>1, <3>1, <4>1
      <4>3. \A i \in DOMAIN tried : tried[i].key # k
        BY <3>3 DEF HadTurn
      <4>4. \A i \in DOMAIN tried : tried[i].key < k
        BY <2>5, <3>1, <4>1, <4>3
      <4>5. QED
        BY <2>3, <2>4, <4>2, <4>4
    <3>4. QED
      BY <3>2, <3>3
  <2>6. GivesUpLast'
    BY <2>1, <2>2, <2>3 DEF GivesUpLast, Withdrawn, Spent, HadTurn, keys
  <2>7. QED
    BY <2>1, <2>6 DEF GiveInv, Withdrawn, keys
<1>6. ASSUME NEW r \in Reply, AgentTry(r) PROVE GiveInv'
  <2>1. Record(0, "none", r) /\ phase' # "files" /\ error' = error /\ error = "none"
    BY <1>6 DEF AgentTry, GiveInv
  <2>2. "none" \in Hash
    BY DEF Hash
  <2>3. (~offered => Withdrawn) => (~offered' => Withdrawn')
    BY <2>1, <2>2, RecordKeeps
  <2>4. QED
    BY <2>1, <2>3 DEF GiveInv, GivesUpLast
<1>7. CASE AgentEnds
  <2>1. /\ agent = 0 \/ Exhausted
        /\ UNCHANGED <<keys, error>> /\ phase = "agent" /\ at = 0
    BY <1>7 DEF AgentEnds, TypeInv, Turns
  <2>2. error = "none" /\ 1 .. at' = {}
    BY <2>1 DEF GiveInv, keys
  <2>3. QED
    BY <2>1, <2>2 DEF GiveInv, GivesUpLast, Exhausted, Withdrawn, keys
<1>8. CASE LoadKey
  <2>1. /\ phase = "files" /\ at' = at + 1 /\ hashes = << >>
        /\ UNCHANGED <<offered, tried, error, agent, ids>> /\ error = "none" /\ agent = 0
    BY <1>8 DEF LoadKey, GiveInv
  <2>2. ids'[at'] \in Usable => hashes' # << >>
    <3>1. CASE ids[at + 1] = "rsa"
      <4>1. hashes' = RsaHashes(plan')
        BY <1>8, <3>1 DEF LoadKey
      <4>2. QED
        BY <4>1 DEF RsaHashes
    <3>2. CASE ids[at + 1] = "other"
      BY <1>8, <3>2 DEF LoadKey
    <3>3. CASE ids[at + 1] \notin {"rsa", "other"}
      BY <2>1, <3>3 DEF Usable
    <3>4. QED
      BY <3>1, <3>2, <3>3
  <2>3. at \in Nat
    BY DEF TypeInv, TypeOK
  <2>4. \A k \in 1 .. at' :
          ids'[k] \in Usable => HadTurn(tried', k) \/ (k = at' /\ hashes' # << >>)
    <3>1. SUFFICES ASSUME NEW k \in 1 .. at', ids'[k] \in Usable
                   PROVE  HadTurn(tried', k) \/ (k = at' /\ hashes' # << >>)
      OBVIOUS
    <3>2. CASE k = at'
      BY <2>2, <3>1, <3>2
    <3>3. CASE k # at'
      <4>1. k \in 1 .. at /\ ids[k] \in Usable
        BY <2>1, <2>3, <3>1, <3>3
      <4>2. HadTurn(tried, k)
        BY <2>1, <4>1 DEF GiveInv
      <4>3. QED
        BY <2>1, <4>2 DEF HadTurn
    <3>4. QED
      BY <3>2, <3>3
  <2>5. QED
    BY <2>1, <2>4 DEF GiveInv, GivesUpLast, Exhausted, Withdrawn
<1>9. ASSUME NEW r \in Reply, FileTry(r) PROVE GiveInv'
  <2>1. /\ phase = "files" /\ hashes # << >> /\ ~Exhausted /\ Record(at, Head(hashes), r)
        /\ UNCHANGED <<ids, at, agent, error>> /\ error = "none"
    BY <1>9 DEF FileTry, GiveInv
  <2>2. at \in Nat /\ Head(hashes) \in Hash
    BY <2>1 DEF TypeInv, TypeOK
  <2>3. /\ HadTurn(tried', at)
        /\ \A m \in Nat : HadTurn(tried, m) => HadTurn(tried', m)
        /\ (~offered => Withdrawn) => (~offered' => Withdrawn')
    BY <2>1, <2>2, RecordKeeps
  <2>4. agent' = 0
    BY <2>1 DEF GiveInv
  <2>5. \A k \in 1 .. at' : ids'[k] \in Usable => HadTurn(tried', k)
    <3>1. SUFFICES ASSUME NEW k \in 1 .. at, ids[k] \in Usable
                   PROVE  HadTurn(tried', k)
      BY <2>1
    <3>2. CASE k = at
      BY <2>3, <3>2 DEF HadTurn
    <3>3. CASE k # at
      BY <2>1, <2>2, <2>3, <3>1, <3>3 DEF GiveInv
    <3>4. QED
      BY <3>2, <3>3
  <2>6. QED
    BY <2>1, <2>3, <2>4, <2>5 DEF GiveInv, GivesUpLast
<1>10. QED
  BY <1>1, <1>2, <1>3, <1>4, <1>5, <1>6, <1>7, <1>8, <1>9 DEF Next, KeyStep, AuthStep

\* Authentication is given up, before its deadline, only when every identity and usable
\* file has had its turn, up to the one with which the budget was spent, or when the
\* server has withdrawn the method.
THEOREM NothingGivenUpEarly == Spec => []GivesUpLast
<1>1. Init => TypeInv /\ OrderInv /\ GiveInv
  <2>1. SUFFICES ASSUME Init PROVE GiveInv
    BY TypeInit, OrderInit
  <2>2. phase = "resolve" /\ offered /\ error = "none"
    BY <2>1 DEF Init
  <2>3. QED
    BY <2>2 DEF GiveInv, GivesUpLast
<1>2. TypeInv /\ OrderInv /\ GiveInv /\ [Next]_vars => TypeInv' /\ OrderInv' /\ GiveInv'
  BY TypeKept, OrderKept, GiveKept
<1>3. GiveInv => GivesUpLast
  BY DEF GiveInv
<1>4. QED
  BY <1>1, <1>2, <1>3, PTL DEF Spec

(***************************************************************************)
(* Induction over data.  A recursive function is the one its equation      *)
(* chooses, so it has to be shown that the equation has a solution; what   *)
(* every solution then computes is shown by a least counterexample.        *)
(***************************************************************************)
\* A set of naturals has a least element.
LEMMA Least ==
  ASSUME NEW T \in SUBSET Nat, T # {}
  PROVE  \E n \in T : \A m \in T : n <= m
<1> DEFINE R == {ss \in Nat \X Nat : ss[1] < ss[2]}
<1>1. IsWellFoundedOn(R, Nat)
  BY NatLessThanWellFounded DEF OpToRel
<1>2. \E n \in T : \A y \in T : <<y, n>> \notin R
  <2> HIDE DEF R
  <2>1. QED
    BY <1>1, WFMin
<1>3. PICK n \in T : \A y \in T : <<y, n>> \notin R
  BY <1>2
<1>4. \A m \in T : ~(m < n)
  BY <1>3
<1>5. QED
  BY <1>4

\* A monotone function on sets has a fixed point: the meet of the sets it shrinks.
LEMMA FixedPoint ==
  ASSUME NEW S, NEW F \in [SUBSET S -> SUBSET S],
         \A Q, R \in SUBSET S : Q \subseteq R => F[Q] \subseteq F[R]
  PROVE  \E L \in SUBSET S : F[L] = L
<1> DEFINE Closed == {Q \in SUBSET S : F[Q] \subseteq Q}
           L == {x \in S : \A Q \in Closed : x \in Q}
<1>1. L \in SUBSET S
  OBVIOUS
<1>2. \A Q \in Closed : L \subseteq Q
  OBVIOUS
<1>3. \A Q \in Closed : F[L] \subseteq Q
  <2> SUFFICES ASSUME NEW Q \in Closed PROVE F[L] \subseteq Q
    OBVIOUS
  <2>1. F[L] \subseteq F[Q] /\ F[Q] \subseteq Q
    BY <1>1, <1>2
  <2>2. QED
    BY <2>1
<1>4. F[L] \in SUBSET S
  BY <1>1
<1>5. F[L] \subseteq L
  BY <1>3, <1>4
<1>6. F[F[L]] \subseteq F[L]
  BY <1>1, <1>4, <1>5
<1>7. L \subseteq F[L]
  BY <1>2, <1>4, <1>6
<1>8. QED
  BY <1>1, <1>5, <1>7

(***************************************************************************)
(* The matcher, for subjects and patterns of every length                  *)
(***************************************************************************)
\* Where the matcher may stand, and the point with these coordinates.
Points(s, p) == [i : 0 .. Len(s), j : 0 .. Len(p), after : 0 .. Len(p), at : 0 .. Len(s)]
Point(i, j, after, back) == [i |-> i, j |-> j, after |-> after, at |-> back]

\* The right-hand side of the matcher's equation, and its solutions.
Moved(f, s, p, x) ==
  IF x.j < Len(p) /\ p[x.j + 1] = "*"
    THEN f[Point(x.i, x.j + 1, x.j + 1, x.i)]
    ELSE IF x.j < Len(p) /\ x.i < Len(s) /\ p[x.j + 1] \in {"?", s[x.i + 1]}
      THEN f[Point(x.i + 1, x.j + 1, x.after, x.at)]
      ELSE IF x.i = Len(s) /\ x.j = Len(p)
        THEN TRUE
        ELSE /\ x.after > 0 /\ x.at < Len(s)
             /\ f[Point(x.at + 1, x.after, x.after, x.at + 1)]
IsRun(f, s, p) == f = [x \in Points(s, p) |-> Moved(f, s, p, x)]

\* The matcher is the solution that is chosen.
LEMMA RunIs ==
  ASSUME NEW s, NEW p
  PROVE  MatchPattern(s, p) = (CHOOSE f : IsRun(f, s, p))[Point(0, 0, 0, 0)]
BY DEF MatchPattern, IsRun, Moved, Point, Points

\* So it is some solution, if there is one.
LEMMA RunChosen ==
  ASSUME NEW s, NEW p, NEW g, IsRun(g, s, p)
  PROVE  \E f : IsRun(f, s, p) /\ MatchPattern(s, p) = f[Point(0, 0, 0, 0)]
BY RunIs

\* The same of the reference definition.
Behind(f, s, p, j) ==
  IF j = Len(p) THEN {Len(s)}
    ELSE IF p[j + 1] = "*"
      THEN {i \in 0 .. Len(s) : \E k \in i .. Len(s) : k \in f[j + 1]}
      ELSE {i \in 0 .. Len(s) - 1 : p[j + 1] \in {"?", s[i + 1]} /\ i + 1 \in f[j + 1]}
IsFrom(f, s, p) == f = [j \in 0 .. Len(p) |-> Behind(f, s, p, j)]

\* It, too, is the solution that is chosen.
LEMMA FromIs ==
  ASSUME NEW s, NEW p
  PROVE  Glob(s, p) = (0 \in (CHOOSE f : IsFrom(f, s, p))[0])
BY DEF Glob, IsFrom, Behind

\* The next character of the pattern is a star, or fits that of the subject.
Star(p, x) == x.j < Len(p) /\ p[x.j + 1] = "*"
Fits(s, p, x) == x.j < Len(p) /\ x.i < Len(s) /\ p[x.j + 1] \in {"?", s[x.i + 1]}

\* Each move leads to a point.
LEMMA MovesToPoint ==
  ASSUME NEW s, NEW p, Len(s) \in Nat, Len(p) \in Nat, NEW x \in Points(s, p)
  PROVE  /\ Star(p, x) => Point(x.i, x.j + 1, x.j + 1, x.i) \in Points(s, p)
         /\ Fits(s, p, x) => Point(x.i + 1, x.j + 1, x.after, x.at) \in Points(s, p)
         /\ x.after > 0 /\ x.at < Len(s) =>
              Point(x.at + 1, x.after, x.after, x.at + 1) \in Points(s, p)
<1>1. /\ x.i \in 0 .. Len(s) /\ x.j \in 0 .. Len(p)
      /\ x.after \in 0 .. Len(p) /\ x.at \in 0 .. Len(s)
  BY DEF Points
<1>2. \A i, back \in 0 .. Len(s), j, after \in 0 .. Len(p) :
        Point(i, j, after, back) \in Points(s, p)
  BY DEF Points, Point
<1>3. /\ x.j < Len(p) => x.j + 1 \in 0 .. Len(p)
      /\ x.i < Len(s) => x.i + 1 \in 0 .. Len(s)
      /\ x.at < Len(s) => x.at + 1 \in 0 .. Len(s)
  BY <1>1
<1>4. QED
  BY ONLY <1>1, <1>2, <1>3, Zenon DEF Star, Fits

\* The three kinds of moves.
LEMMA MovedCases ==
  ASSUME NEW f, NEW s, NEW p, NEW x
  PROVE  /\ Star(p, x) => Moved(f, s, p, x) = f[Point(x.i, x.j + 1, x.j + 1, x.i)]
         /\ ~Star(p, x) /\ Fits(s, p, x) =>
              Moved(f, s, p, x) = f[Point(x.i + 1, x.j + 1, x.after, x.at)]
         /\ ~Star(p, x) /\ ~Fits(s, p, x) =>
              /\ Moved(f, s, p, x) \in BOOLEAN
              /\ Moved(f, s, p, x) <=>
                   \/ x.i = Len(s) /\ x.j = Len(p)
                   \/ /\ x.after > 0 /\ x.at < Len(s)
                      /\ f[Point(x.at + 1, x.after, x.after, x.at + 1)]
BY DEF Moved, Star, Fits

\* There is a solution: a set of points is moved to those that lead into it.
LEMMA RunExists ==
  ASSUME NEW s, NEW p, Len(s) \in Nat, Len(p) \in Nat
  PROVE  \E f : IsRun(f, s, p)
<1> DEFINE S == Points(s, p)
           In(Q) == [y \in S |-> IF y \in Q THEN TRUE ELSE FALSE]
           F == [Q \in SUBSET S |-> {x \in S : Moved(In(Q), s, p, x) = TRUE}]
<1>1. F \in [SUBSET S -> SUBSET S]
  OBVIOUS
<1>2. ASSUME NEW Q \in SUBSET S, NEW R \in SUBSET S, Q \subseteq R, NEW x \in S
      PROVE  /\ Moved(In(Q), s, p, x) = TRUE => Moved(In(R), s, p, x) = TRUE
             /\ Moved(In(Q), s, p, x) \in {TRUE, FALSE}
  <2>1. \A y \in S : (In(Q)[y] = TRUE => In(R)[y] = TRUE) /\ In(Q)[y] \in {TRUE, FALSE}
    BY <1>2, SMT
  <2> HIDE DEF In
  <2>2. CASE Star(p, x)
    <3> DEFINE y == Point(x.i, x.j + 1, x.j + 1, x.i)
    <3>1. y \in S
      BY <2>2, MovesToPoint
    <3>2. Moved(In(Q), s, p, x) = In(Q)[y] /\ Moved(In(R), s, p, x) = In(R)[y]
      BY ONLY <2>2, MovedCases
    <3> HIDE DEF y, S
    <3>3. QED
      BY <2>1, <3>1, <3>2
  <2>3. CASE ~Star(p, x) /\ Fits(s, p, x)
    <3> DEFINE y == Point(x.i + 1, x.j + 1, x.after, x.at)
    <3>1. y \in S
      BY <2>3, MovesToPoint
    <3>2. Moved(In(Q), s, p, x) = In(Q)[y] /\ Moved(In(R), s, p, x) = In(R)[y]
      BY ONLY <2>3, MovedCases
    <3> HIDE DEF y, S
    <3>3. QED
      BY <2>1, <3>1, <3>2
  <2>4. CASE ~Star(p, x) /\ ~Fits(s, p, x)
    <3> DEFINE y == Point(x.at + 1, x.after, x.after, x.at + 1)
               Back == x.after > 0 /\ x.at < Len(s)
               End == x.i = Len(s) /\ x.j = Len(p)
    <3>1. Back => y \in S
      BY MovesToPoint
    <3>2. \A f : /\ Moved(f, s, p, x) \in BOOLEAN
                 /\ Moved(f, s, p, x) <=> End \/ (Back /\ f[y])
      BY ONLY <2>4, MovedCases
    <3> HIDE DEF y, S, Back, End, In
    <3>3. Back => (In(Q)[y] = TRUE => In(R)[y] = TRUE) /\ In(Q)[y] \in {TRUE, FALSE}
      BY <2>1, <3>1
    <3>4. Moved(In(Q), s, p, x) => Moved(In(R), s, p, x)
      BY <3>2, <3>3
    <3>5. QED
      BY <3>2, <3>4
  <2>5. QED
    BY <2>2, <2>3, <2>4
<1>3. \A Q, R \in SUBSET S : Q \subseteq R => F[Q] \subseteq F[R]
  <2> SUFFICES ASSUME NEW Q \in SUBSET S, NEW R \in SUBSET S, Q \subseteq R,
                      NEW x \in F[Q]
               PROVE  x \in F[R]
    OBVIOUS
  <2>1. x \in S /\ Moved(In(Q), s, p, x) = TRUE
    OBVIOUS
  <2>2. Moved(In(R), s, p, x) = TRUE
    BY <1>2, <2>1
  <2>3. QED
    BY <2>1, <2>2
<1>4. PICK L \in SUBSET S : F[L] = L
  <2> HIDE DEF F, S
  <2>1. QED
    BY <1>1, <1>3, FixedPoint
<1>5. \A x \in S : Moved(In(L), s, p, x) = IF x \in L THEN TRUE ELSE FALSE
  BY <1>2, <1>4
<1>6. In(L) = [x \in S |-> Moved(In(L), s, p, x)]
  <2>1. In(L) = [x \in S |-> IF x \in L THEN TRUE ELSE FALSE]
    OBVIOUS
  <2> HIDE DEF In
  <2>2. QED
    BY <1>5, <2>1
<1>7. QED
  BY <1>6 DEF IsRun

\* There is one for the reference, likewise, as a set of pairs.
LEMMA FromExists ==
  ASSUME NEW s, NEW p, Len(s) \in Nat, Len(p) \in Nat
  PROVE  \E f : IsFrom(f, s, p)
<1> DEFINE S == (0 .. Len(p)) \X (0 .. Len(s))
           In(Q) == [j \in 0 .. Len(p) |-> {i \in 0 .. Len(s) : <<j, i>> \in Q}]
           F == [Q \in SUBSET S |-> {x \in S : x[2] \in Behind(In(Q), s, p, x[1])}]
<1>1. F \in [SUBSET S -> SUBSET S]
  OBVIOUS
<1>2. ASSUME NEW Q \in SUBSET S, NEW R \in SUBSET S, Q \subseteq R,
             NEW j \in 0 .. Len(p)
      PROVE  Behind(In(Q), s, p, j) \subseteq Behind(In(R), s, p, j)
  <2>1. ASSUME j < Len(p) PROVE In(Q)[j + 1] \subseteq In(R)[j + 1]
    BY <1>2, <2>1
  <2> HIDE DEF In
  <2>2. QED
    BY <2>1 DEF Behind
<1>3. \A Q, R \in SUBSET S : Q \subseteq R => F[Q] \subseteq F[R]
  <2> SUFFICES ASSUME NEW Q \in SUBSET S, NEW R \in SUBSET S, Q \subseteq R,
                      NEW x \in F[Q]
               PROVE  x \in F[R]
    OBVIOUS
  <2>1. x \in S /\ x[1] \in 0 .. Len(p) /\ x[2] \in Behind(In(Q), s, p, x[1])
    OBVIOUS
  <2>2. x[2] \in Behind(In(R), s, p, x[1])
    BY <1>2, <2>1
  <2>3. QED
    BY <2>1, <2>2
<1>4. PICK L \in SUBSET S : F[L] = L
  <2> HIDE DEF F, S
  <2>1. QED
    BY <1>1, <1>3, FixedPoint
<1>5. \A j \in 0 .. Len(p) : In(L)[j] = Behind(In(L), s, p, j)
  <2> SUFFICES ASSUME NEW j \in 0 .. Len(p) PROVE In(L)[j] = Behind(In(L), s, p, j)
    OBVIOUS
  <2>1. \A i \in 0 .. Len(s) : <<j, i>> \in L <=> i \in Behind(In(L), s, p, j)
    <3> SUFFICES ASSUME NEW i \in 0 .. Len(s)
                 PROVE <<j, i>> \in L <=> i \in Behind(In(L), s, p, j)
      OBVIOUS
    <3> DEFINE x == <<j, i>>
    <3>1. x \in S /\ x[1] = j /\ x[2] = i
      OBVIOUS
    <3>2. x \in L <=> x[2] \in Behind(In(L), s, p, x[1])
      BY <1>4, <3>1
    <3> QED
      BY <3>1, <3>2
  <2>2. Behind(In(L), s, p, j) \subseteq 0 .. Len(s)
    BY DEF Behind
  <2>3. In(L)[j] = {i \in 0 .. Len(s) : <<j, i>> \in L}
    OBVIOUS
  <2> HIDE DEF In
  <2>4. QED
    BY <2>1, <2>2, <2>3
<1>6. In(L) = [j \in 0 .. Len(p) |-> Behind(In(L), s, p, j)]
  <2>1. In(L) = [j \in 0 .. Len(p) |-> In(L)[j]]
    OBVIOUS
  <2> HIDE DEF In
  <2>2. QED
    BY <1>5, <2>1
<1>7. QED
  BY <1>6 DEF IsFrom

\* No star among these characters of the pattern.
Plain(p, a, j) == \A l \in a + 1 .. j : p[l] # "*"

\* The equation of the reference, case by case.
LEMMA FromCases ==
  ASSUME NEW s, NEW p, Len(s) \in Nat, Len(p) \in Nat, NEW g, IsFrom(g, s, p),
         NEW j \in 0 .. Len(p)
  PROVE  /\ g[j] \subseteq 0 .. Len(s)
         /\ j = Len(p) => g[j] = {Len(s)}
         /\ j < Len(p) /\ p[j + 1] = "*" =>
              g[j] = {i \in 0 .. Len(s) : \E k \in i .. Len(s) : k \in g[j + 1]}
         /\ j < Len(p) /\ p[j + 1] # "*" =>
              g[j] = {i \in 0 .. Len(s) - 1 :
                       p[j + 1] \in {"?", s[i + 1]} /\ i + 1 \in g[j + 1]}
<1>1. g[j] = Behind(g, s, p, j)
  BY DEF IsFrom
<1>2. CASE j = Len(p)
  BY <1>1, <1>2 DEF Behind
<1>3. CASE j < Len(p) /\ p[j + 1] = "*"
  BY <1>1, <1>3 DEF Behind
<1>4. CASE j < Len(p) /\ p[j + 1] # "*"
  <2>1. g[j] = {i \in 0 .. Len(s) - 1 :
                 p[j + 1] \in {"?", s[i + 1]} /\ i + 1 \in g[j + 1]}
    BY <1>1, <1>4 DEF Behind
  <2>2. 0 .. Len(s) - 1 \subseteq 0 .. Len(s)
    OBVIOUS
  <2>3. g[j] \subseteq 0 .. Len(s)
    BY <2>1, <2>2
  <2>4. QED
    BY <1>4, <2>1, <2>3
<1>5. QED
  BY <1>2, <1>3, <1>4

\* What stands behind j characters, of which the last contain no star.
LEMMA Slide ==
  ASSUME NEW s, NEW p, Len(s) \in Nat, Len(p) \in Nat, NEW g, IsFrom(g, s, p),
         NEW a \in 0 .. Len(p), NEW j \in a .. Len(p), Plain(p, a, j), NEW k \in g[a]
  PROVE  k + (j - a) \in g[j]
<1> DEFINE T == {l \in a .. j : k + (l - a) \notin g[l]}
<1>1. \A l \in 0 .. Len(p) : g[l] \subseteq 0 .. Len(s)
  BY FromCases
<1>2. k \in 0 .. Len(s)
  BY <1>1
<1>3. SUFFICES ASSUME T # {} PROVE FALSE
  <2>1. j \in T \/ k + (j - a) \in g[j]
    OBVIOUS
  <2>2. QED
    BY <1>3, <2>1
<1>4. PICK l \in T : \A m \in T : l <= m
  <2>1. T \in SUBSET Nat
    OBVIOUS
  <2>2. QED
    BY <1>3, <2>1, Least
<1>5. CASE l = a
  BY <1>2, <1>4, <1>5
<1>6. CASE l # a
  <2>1. l - 1 \in a .. j /\ l \in a + 1 .. j /\ l - 1 \in 0 .. Len(p) - 1
    BY <1>6
  <2>2. l - 1 \notin T
    <3>1. ~(l <= l - 1)
      BY <2>1
    <3> HIDE DEF T
    <3>2. QED
      BY <1>4, <3>1
  <2>3. k + (l - 1 - a) \in g[l - 1]
    BY <2>1, <2>2
  <2>4. (l - 1) + 1 = l /\ p[l] # "*" /\ l - 1 < Len(p)
    BY <2>1 DEF Plain
  <2>5. (k + (l - 1 - a)) + 1 \in g[l]
    BY <2>1, <2>3, <2>4, FromCases
  <2>6. QED
    BY <1>2, <1>4, <2>1, <2>5
<1>7. QED
  BY <1>5, <1>6

\* Where the matcher can be: what it has consumed behind the last star has no other.
Reached(p, x) ==
  /\ x.at <= x.i
  /\ x.after > 0 => /\ x.after <= x.j /\ x.i - x.at = x.j - x.after
                    /\ Plain(p, x.after, x.j)

\* It succeeds from where it is, or with a later end of what the last star absorbs.
Works(g, s, x) ==
  \/ x.i \in g[x.j]
  \/ x.after > 0 /\ \E k \in x.at + 1 .. Len(s) : k \in g[x.after]

\* The matcher finds out just that.
Right(f, g, s, x) == f[x] \in BOOLEAN /\ (f[x] <=> Works(g, s, x))

\* A move keeps to the reachable points.
LEMMA ReachedKept ==
  ASSUME NEW s, NEW p, Len(s) \in Nat, Len(p) \in Nat,
         NEW x \in Points(s, p), Reached(p, x)
  PROVE  /\ Star(p, x) => Reached(p, Point(x.i, x.j + 1, x.j + 1, x.i))
         /\ ~Star(p, x) /\ Fits(s, p, x) => Reached(p, Point(x.i + 1, x.j + 1, x.after, x.at))
         /\ x.after > 0 /\ x.at < Len(s) =>
              Reached(p, Point(x.at + 1, x.after, x.after, x.at + 1))
<1>1. /\ x.i \in 0 .. Len(s) /\ x.j \in 0 .. Len(p)
      /\ x.after \in 0 .. Len(p) /\ x.at \in 0 .. Len(s)
  BY DEF Points
<1>2. Reached(p, Point(x.i, x.j + 1, x.j + 1, x.i))
  BY <1>1 DEF Reached, Point, Plain
<1>3. ASSUME ~Star(p, x), Fits(s, p, x)
      PROVE Reached(p, Point(x.i + 1, x.j + 1, x.after, x.at))
  <2>1. p[x.j + 1] # "*"
    BY <1>3 DEF Star, Fits
  <2>2. x.after > 0 => Plain(p, x.after, x.j + 1)
    BY <1>1, <2>1 DEF Reached, Plain
  <2>3. QED
    BY <1>1, <2>2 DEF Reached, Point
<1>4. Reached(p, Point(x.at + 1, x.after, x.after, x.at + 1))
  BY <1>1 DEF Reached, Point, Plain
<1>5. QED
  BY <1>2, <1>3, <1>4

\* If the matcher is right where a move leads, it is right before it.
LEMMA RightBefore ==
  ASSUME NEW s, NEW p, Len(s) \in Nat, Len(p) \in Nat,
         NEW f, IsRun(f, s, p), NEW g, IsFrom(g, s, p),
         NEW x \in Points(s, p), Reached(p, x),
         Star(p, x) => Right(f, g, s, Point(x.i, x.j + 1, x.j + 1, x.i)),
         ~Star(p, x) /\ Fits(s, p, x) => Right(f, g, s, Point(x.i + 1, x.j + 1, x.after, x.at)),
         x.after > 0 /\ x.at < Len(s) =>
           Right(f, g, s, Point(x.at + 1, x.after, x.after, x.at + 1))
  PROVE  Right(f, g, s, x)
<1>1. /\ x.i \in 0 .. Len(s) /\ x.j \in 0 .. Len(p)
      /\ x.after \in 0 .. Len(p) /\ x.at \in 0 .. Len(s)
  BY DEF Points
<1>2. f[x] = Moved(f, s, p, x)
  BY DEF IsRun
<1>3. \A l \in 0 .. Len(p) : g[l] \subseteq 0 .. Len(s)
  BY FromCases
<1>5. CASE Star(p, x)
  <2> DEFINE y == Point(x.i, x.j + 1, x.j + 1, x.i)
  <2>1. f[x] = f[y] /\ Right(f, g, s, y)
    BY <1>2, <1>5, MovedCases
  <2>2. x.j < Len(p) /\ p[x.j + 1] = "*" /\ x.j # Len(p)
    BY <1>1, <1>5 DEF Star
  <2>3. g[x.j] = {i \in 0 .. Len(s) : \E k \in i .. Len(s) : k \in g[x.j + 1]}
    BY <1>1, <2>2, FromCases
  <2>4. Works(g, s, y) <=> \E k \in x.i .. Len(s) : k \in g[x.j + 1]
    BY <1>1 DEF Works, Point
  <2>5. Works(g, s, y) <=> x.i \in g[x.j]
    BY <1>1, <2>3, <2>4
  <2>6. ASSUME x.after > 0, NEW k \in x.at + 1 .. Len(s), k \in g[x.after]
        PROVE  x.i \in g[x.j]
    <3>1. k + (x.j - x.after) \in g[x.j]
      BY <1>1, <2>6, Slide DEF Reached
    <3>2. k + (x.j - x.after) >= x.i
      BY <1>1, <2>6 DEF Reached
    <3>3. QED
      BY <1>1, <2>3, <2>6, <3>1, <3>2
  <2>7. Works(g, s, x) <=> x.i \in g[x.j]
    BY <2>6 DEF Works
  <2>8. QED
    BY <2>1, <2>5, <2>7 DEF Right
<1>6. CASE ~Star(p, x) /\ Fits(s, p, x)
  <2> DEFINE y == Point(x.i + 1, x.j + 1, x.after, x.at)
  <2>1. f[x] = f[y] /\ Right(f, g, s, y)
    BY <1>2, <1>6, MovedCases
  <2>2. /\ x.j < Len(p) /\ p[x.j + 1] # "*" /\ x.j # Len(p)
        /\ x.i < Len(s) /\ p[x.j + 1] \in {"?", s[x.i + 1]}
    BY <1>1, <1>6 DEF Star, Fits
  <2>3. x.i \in g[x.j] <=> x.i + 1 \in g[x.j + 1]
    BY <1>1, <2>2, FromCases
  <2>4. Works(g, s, y) <=> Works(g, s, x)
    BY <2>3 DEF Works, Point
  <2>5. QED
    BY <2>1, <2>4 DEF Right
<1>7. CASE ~Star(p, x) /\ ~Fits(s, p, x)
  <2> DEFINE y == Point(x.at + 1, x.after, x.after, x.at + 1)
             End == x.i = Len(s) /\ x.j = Len(p)
             Back == x.after > 0 /\ x.at < Len(s)
  <2>1. /\ f[x] \in BOOLEAN
        /\ f[x] <=> End \/ (Back /\ f[y])
    BY <1>2, <1>7, MovedCases
  <2>2. x.i \in g[x.j] <=> End
    <3>1. CASE x.j = Len(p)
      BY <1>1, <3>1, FromCases
    <3>2. CASE x.j # Len(p)
      <4>1. /\ x.j < Len(p) /\ p[x.j + 1] # "*"
            /\ ~(x.i < Len(s) /\ p[x.j + 1] \in {"?", s[x.i + 1]})
        BY <1>1, <1>7, <3>2 DEF Star, Fits
      <4>2. g[x.j] = {i \in 0 .. Len(s) - 1 :
                       p[x.j + 1] \in {"?", s[i + 1]} /\ i + 1 \in g[x.j + 1]}
        BY <1>1, <4>1, FromCases
      <4>3. QED
        BY <1>1, <3>2, <4>1, <4>2
    <3>3. QED
      BY <3>1, <3>2
  <2>3. ASSUME x.after > 0
        PROVE  (\E k \in x.at + 1 .. Len(s) : k \in g[x.after])
                 <=> x.at < Len(s) /\ Works(g, s, y)
    <3>1. Works(g, s, y) <=> \/ x.at + 1 \in g[x.after]
                             \/ \E k \in (x.at + 1) + 1 .. Len(s) : k \in g[x.after]
      BY <2>3 DEF Works, Point
    <3>2. x.at + 1 \in g[x.after] => x.at < Len(s)
      BY <1>1, <1>3
    <3>3. QED
      BY <1>1, <3>1, <3>2
  <2>4. Back => (f[y] <=> Works(g, s, y))
    BY DEF Right
  <2> HIDE DEF y
  <2>5. QED
    BY <2>1, <2>2, <2>3, <2>4 DEF Right, Works
<1>8. QED
  BY <1>5, <1>6, <1>7

\* By descent on what is left for the star to absorb, then on what is left of the
\* pattern, there is no first point where the matcher is wrong.
LEMMA AlwaysRight ==
  ASSUME NEW s, NEW p, Len(s) \in Nat, Len(p) \in Nat,
         NEW f, IsRun(f, s, p), NEW g, IsFrom(g, s, p)
  PROVE  \A x \in Points(s, p) : Reached(p, x) => Right(f, g, s, x)
<1> DEFINE Bad == {x \in Points(s, p) : Reached(p, x) /\ ~Right(f, g, s, x)}
           D == {Len(s) - x.at : x \in Bad}
<1>1. SUFFICES ASSUME Bad # {} PROVE FALSE
  OBVIOUS
<1>2. \A x \in Points(s, p) :
        /\ x.i \in 0 .. Len(s) /\ x.j \in 0 .. Len(p)
        /\ x.after \in 0 .. Len(p) /\ x.at \in 0 .. Len(s)
  BY DEF Points
<1>3. PICK d \in D : \A e \in D : d <= e
  <2>1. D \in SUBSET Nat /\ D # {}
    BY <1>1, <1>2
  <2>2. QED
    BY <2>1, Least
<1> DEFINE E == {Len(p) - x.j : x \in {y \in Bad : Len(s) - y.at = d}}
<1>4. PICK e \in E : \A b \in E : e <= b
  <2>1. E \in SUBSET Nat /\ E # {}
    BY <1>2, <1>3
  <2>2. QED
    BY <2>1, Least
<1>5. PICK x \in Bad : Len(s) - x.at = d /\ Len(p) - x.j = e
  BY <1>4
<1>6. ASSUME NEW y \in Points(s, p), Reached(p, y),
             y.at > x.at \/ (y.at = x.at /\ y.j > x.j)
      PROVE  Right(f, g, s, y)
  <2>1. SUFFICES ASSUME y \in Bad PROVE FALSE
    BY <1>6
  <2>2. Len(s) - y.at \in D /\ Len(s) - y.at >= d
    BY <1>3, <2>1
  <2>3. y.at = x.at /\ y.j > x.j
    BY <1>2, <1>5, <1>6, <2>2
  <2>4. Len(p) - y.j \in E /\ Len(p) - y.j >= e
    BY <1>4, <1>5, <2>1, <2>3
  <2>5. QED
    BY <1>2, <1>5, <2>3, <2>4
<1>7. x \in Points(s, p) /\ Reached(p, x) /\ ~Right(f, g, s, x)
  OBVIOUS
<1> HIDE DEF Bad, D, E
<1>8. Star(p, x) => Right(f, g, s, Point(x.i, x.j + 1, x.j + 1, x.i))
  <2> DEFINE y == Point(x.i, x.j + 1, x.j + 1, x.i)
  <2>1. y.at = x.i /\ y.j = x.j + 1
    BY DEF Point
  <2>2. y.at > x.at \/ (y.at = x.at /\ y.j > x.j)
    BY <1>2, <1>7, <2>1 DEF Reached
  <2>3. Star(p, x) => y \in Points(s, p) /\ Reached(p, y)
    BY <1>7, MovesToPoint, ReachedKept
  <2>4. QED
    BY <1>6, <2>2, <2>3
<1>9. ~Star(p, x) /\ Fits(s, p, x) => Right(f, g, s, Point(x.i + 1, x.j + 1, x.after, x.at))
  <2> DEFINE y == Point(x.i + 1, x.j + 1, x.after, x.at)
  <2>1. y.at = x.at /\ y.j = x.j + 1
    BY DEF Point
  <2>2. y.at > x.at \/ (y.at = x.at /\ y.j > x.j)
    BY <1>2, <1>7, <2>1
  <2>3. ~Star(p, x) /\ Fits(s, p, x) => y \in Points(s, p) /\ Reached(p, y)
    BY <1>7, MovesToPoint, ReachedKept
  <2>4. QED
    BY <1>6, <2>2, <2>3
<1>10. x.after > 0 /\ x.at < Len(s) =>
         Right(f, g, s, Point(x.at + 1, x.after, x.after, x.at + 1))
  <2> DEFINE y == Point(x.at + 1, x.after, x.after, x.at + 1)
  <2>1. y.at = x.at + 1
    BY DEF Point
  <2>2. y.at > x.at
    BY <1>2, <1>7, <2>1
  <2>3. x.after > 0 /\ x.at < Len(s) => y \in Points(s, p) /\ Reached(p, y)
    BY <1>7, MovesToPoint, ReachedKept
  <2>4. QED
    BY <1>6, <2>2, <2>3
<1>11. QED
  BY <1>7, <1>8, <1>9, <1>10, RightBefore

\* match_pattern, with its single place to go back to, decides for every subject and
\* every pattern whether the pattern, a star standing for any sequence, yields it.
THEOREM MatcherIsGlob ==
  ASSUME NEW s, NEW p, Len(s) \in Nat, Len(p) \in Nat
  PROVE  MatchPattern(s, p) = Glob(s, p)
<1>1. PICK f : IsRun(f, s, p) /\ MatchPattern(s, p) = f[Point(0, 0, 0, 0)]
  BY RunExists, RunChosen
<1>2. PICK g : IsFrom(g, s, p) /\ Glob(s, p) = (0 \in g[0])
  BY FromExists, FromIs
<1> DEFINE x == Point(0, 0, 0, 0)
<1>3. x \in Points(s, p) /\ Reached(p, x) /\ x.i = 0 /\ x.j = 0 /\ x.after = 0
  BY DEF Points, Reached, Point
<1>4. Right(f, g, s, x)
  BY <1>1, <1>2, <1>3, AlwaysRight
<1>5. Works(g, s, x) <=> 0 \in g[0]
  BY <1>3 DEF Works
<1>6. (f[x] = TRUE <=> 0 \in g[0]) /\ f[x] \in BOOLEAN
  BY <1>4, <1>5 DEF Right
<1>7. QED
  BY <1>1, <1>2, <1>6

(***************************************************************************)
(* The lines of a file                                                     *)
(***************************************************************************)
\* A pattern list means what the reference says.
LEMMA NamesAgree ==
  ASSUME NEW chars, NEW line \in KnownLine(chars), NEW name, Len(name) \in Nat
  PROVE  MatchPatternList(name, line.hosts) <=> Names(line, name)
<1>1. \A i \in DOMAIN line.hosts : Len(line.hosts[i].glob) \in Nat
  BY DEF KnownLine
<1>2. \A i \in DOMAIN line.hosts :
        MatchPattern(name, line.hosts[i].glob) = Glob(name, line.hosts[i].glob)
  BY <1>1, MatcherIsGlob
<1>3. QED
  BY <1>2 DEF MatchPatternList, Names

\* A pattern without wildcards yields itself only.
LEMMA LiteralIsName ==
  ASSUME NEW S, NEW R, NEW s \in Seq(S), NEW p \in Seq(R), Literal(p)
  PROVE  Glob(s, p) <=> s = p
<1>1. Len(s) \in Nat /\ Len(p) \in Nat
  OBVIOUS
<1>2. PICK g : IsFrom(g, s, p) /\ Glob(s, p) = (0 \in g[0])
  BY <1>1, FromExists, FromIs
<1>3. \A j \in 0 .. Len(p) :
        j < Len(p) => g[j] = {i \in 0 .. Len(s) - 1 : p[j + 1] = s[i + 1] /\ i + 1 \in g[j + 1]}
  <2> SUFFICES ASSUME NEW j \in 0 .. Len(p), j < Len(p)
               PROVE  g[j] = {i \in 0 .. Len(s) - 1 : p[j + 1] = s[i + 1] /\ i + 1 \in g[j + 1]}
    OBVIOUS
  <2>1. p[j + 1] # "*" /\ p[j + 1] # "?"
    BY <1>1 DEF Literal
  <2>2. g[j] = {i \in 0 .. Len(s) - 1 : p[j + 1] \in {"?", s[i + 1]} /\ i + 1 \in g[j + 1]}
    BY <1>1, <1>2, <2>1, FromCases
  <2>3. QED
    BY <2>1, <2>2
<1>4. g[Len(p)] = {Len(s)}
  BY <1>1, <1>2, FromCases
<1>5. ASSUME 0 \in g[0] PROVE s = p
  <2>1. \A j \in 0 .. Len(p) : j \in g[j]
    <3> SUFFICES ASSUME NEW j \in 0 .. Len(p) PROVE j \in g[j]
      OBVIOUS
    <3>1. Plain(p, 0, j)
      BY <1>1 DEF Plain, Literal
    <3>2. 0 + (j - 0) \in g[j]
      BY <1>1, <1>2, <1>5, <3>1, Slide
    <3>3. QED
      BY <3>2
  <2>2. Len(p) = Len(s)
    BY <1>1, <1>4, <2>1
  <2>3. \A i \in 1 .. Len(p) : p[i] = s[i]
    <3> SUFFICES ASSUME NEW i \in 1 .. Len(p) PROVE p[i] = s[i]
      OBVIOUS
    <3>1. i - 1 \in 0 .. Len(p) /\ i - 1 < Len(p) /\ (i - 1) + 1 = i
      BY <1>1
    <3>2. i - 1 \in g[i - 1]
      BY <2>1, <3>1
    <3>3. QED
      BY <1>3, <3>1, <3>2
  <2>4. QED
    BY <2>2, <2>3
<1>6. ASSUME s = p PROVE 0 \in g[0]
  <2> DEFINE T == {k \in 0 .. Len(p) : Len(p) - k \notin g[Len(p) - k]}
  <2>1. SUFFICES ASSUME T # {} PROVE FALSE
    <3>1. Len(p) \in T \/ Len(p) - Len(p) \in g[Len(p) - Len(p)]
      BY <1>1
    <3>2. QED
      BY <1>1, <2>1, <3>1
  <2>2. PICK k \in T : \A m \in T : k <= m
    <3>1. T \in SUBSET Nat
      OBVIOUS
    <3>2. QED
      BY <2>1, <3>1, Least
  <2>3. k # 0
    BY <1>1, <1>4, <1>6
  <2>4. k - 1 \in 0 .. Len(p) /\ k \in 1 .. Len(p) /\ ~(k <= k - 1)
    BY <1>1, <2>3
  <2>5. k - 1 \notin T
    <3> HIDE DEF T
    <3> QED
      BY <2>2, <2>4
  <2> DEFINE j == Len(p) - k
  <2>6. j \in 0 .. Len(p) - 1 /\ j + 1 = Len(p) - (k - 1)
    BY <1>1, <2>4
  <2>7. j + 1 \in g[j + 1]
    BY <2>4, <2>5, <2>6
  <2>8. j \notin g[j]
    OBVIOUS
  <2> HIDE DEF j
  <2>9. g[j] = {i \in 0 .. Len(s) - 1 : p[j + 1] = s[i + 1] /\ i + 1 \in g[j + 1]}
    BY <1>1, <1>3, <2>6
  <2>10. p[j + 1] = s[j + 1] /\ j \in 0 .. Len(s) - 1
    BY <1>6, <2>6
  <2>11. QED
    BY <2>7, <2>8, <2>9, <2>10
<1>7. QED
  BY <1>2, <1>5, <1>6

\* A hashed entry is found by comparing names.
LEMMA HashedNames ==
  ASSUME NEW chars, NEW line \in KnownLine(chars), HashedLiteral(line), line.form = "hashed",
         NEW names, NEW name \in Seq(names)
  PROVE  Names(line, name) <=> line.hosts[1].glob = name
<1>1. DOMAIN line.hosts = {1} /\ line.hosts[1].glob \in Seq(chars)
  <2>1. line.hosts \in Seq([neg : BOOLEAN, glob : Seq(chars)]) /\ Len(line.hosts) = 1
    BY DEF KnownLine, HashedLiteral
  <2>2. 1 .. 1 = {1}
    OBVIOUS
  <2>3. DOMAIN line.hosts = 1 .. Len(line.hosts) /\ 1 \in 1 .. Len(line.hosts)
    BY <2>1
  <2>4. line.hosts[1] \in [neg : BOOLEAN, glob : Seq(chars)]
    <3>1. \A Z : \A q \in Seq(Z) : \A i \in 1 .. Len(q) : q[i] \in Z
      OBVIOUS
    <3>2. QED
      BY <2>1, <2>3, <3>1, Zenon
  <2>5. QED
    BY <2>1, <2>2, <2>3, <2>4
<1>2. Glob(name, line.hosts[1].glob) <=> line.hosts[1].glob = name
  BY <1>1, LiteralIsName DEF HashedLiteral
<1>3. QED
  BY <1>1, <1>2 DEF Names, HashedLiteral

\* The equation of the loop over the lines.
ScanEq(f, file, name, isCA) ==
  f = [k \in 0 .. Len(file) |->
        IF k = 0 THEN "absent" ELSE ScanLine(f[k - 1], file[k], name, isCA)]

\* The scan is the solution that is chosen.
LEMMA ScanIs ==
  ASSUME NEW file, NEW name, NEW isCA
  PROVE  ScanKnownHosts(file, name, isCA) = (CHOOSE f : ScanEq(f, file, name, isCA))[Len(file)]
BY DEF ScanKnownHosts, ScanEq

\* There is one for any number of lines.
LEMMA ScanExists ==
  ASSUME NEW file, Len(file) \in Nat, NEW name, NEW isCA
  PROVE  \E f : ScanEq(f, file, name, isCA)
<1> DEFINE Upto(f, n) == f = [k \in 0 .. n |->
             IF k = 0 THEN "absent" ELSE ScanLine(f[k - 1], file[k], name, isCA)]
           T == {n \in Nat : ~\E f : Upto(f, n)}
<1>1. SUFFICES ASSUME T # {} PROVE FALSE
  <2>1. \E f : Upto(f, Len(file))
    BY <1>1
  <2>2. QED
    BY <2>1 DEF ScanEq
<1>2. PICK n \in T : \A m \in T : n <= m
  BY <1>1, Least
<1>3. n # 0
  <2> DEFINE f == [k \in 0 .. 0 |-> "absent"]
  <2>1. Upto(f, 0)
    <3>1. \A k \in 0 .. 0 : k = 0
      OBVIOUS
    <3>2. QED
      BY <3>1
  <2>2. QED
    BY <2>1
<1>4. PICK f : Upto(f, n - 1)
  <2>1. n - 1 \in Nat /\ ~(n <= n - 1)
    BY <1>3
  <2>2. n - 1 \notin T
    <3> HIDE DEF T
    <3> QED
      BY <1>2, <2>1
  <2>3. QED
    BY <2>1, <2>2
<1> DEFINE next == ScanLine(f[n - 1], file[n], name, isCA)
           g == [k \in 0 .. n |-> IF k = n THEN next ELSE f[k]]
<1>5. \A k \in 0 .. n :
        g[k] = IF k = 0 THEN "absent" ELSE ScanLine(g[k - 1], file[k], name, isCA)
  <2> SUFFICES ASSUME NEW k \in 0 .. n
               PROVE  g[k] = IF k = 0 THEN "absent" ELSE ScanLine(g[k - 1], file[k], name, isCA)
    OBVIOUS
  <2>1. CASE k = n
    <3>1. g[k] = next /\ n - 1 \in 0 .. n /\ n - 1 # n
      BY <1>3, <2>1
    <3>2. g[n - 1] = f[n - 1]
      BY <3>1
    <3>3. QED
      BY <1>3, <2>1, <3>1, <3>2
  <2>2. CASE k # n
    <3>1. k \in 0 .. n - 1 /\ g[k] = f[k]
      BY <2>2
    <3>2. f[k] = IF k = 0 THEN "absent" ELSE ScanLine(f[k - 1], file[k], name, isCA)
      BY <1>4, <3>1
    <3>3. k # 0 => g[k - 1] = f[k - 1]
      BY <3>1
    <3> HIDE DEF g
    <3>4. QED
      BY <3>1, <3>2, <3>3
  <2>3. QED
    BY <2>1, <2>2
<1>6. Upto(g, n)
  <2>1. g = [k \in 0 .. n |-> g[k]]
    OBVIOUS
  <2> HIDE DEF g
  <2>2. QED
    BY <1>5, <2>1
<1>7. QED
  BY <1>6

\* What lines of a file may be.
RevokedOwn(l) == l.form = "revoked" /\ l.key = ServerKey
Broken(l, name) == l.form = "broken" /\ Names(l, name)
PlainEntry(l, name) == l.form = "plain" /\ Names(l, name)
Other(l) == l.key # ServerKey /\ SameAlgorithm(l.key)

\* What the verdict says of the first k lines.
Says(v, k, file, name, isCA) ==
  /\ v \in {"absent", "matched", "changed", "revoked", "malformed"}
  /\ v = "revoked" => \E i \in 1 .. k : RevokedOwn(file[i])
  /\ v = "malformed" => \E i \in 1 .. k : Broken(file[i], name)
  /\ v \notin {"revoked", "malformed"} => \A i \in 1 .. k : ~RevokedOwn(file[i])
  /\ v = "matched" => /\ ~isCA
                      /\ \E i \in 1 .. k : PlainEntry(file[i], name) /\ file[i].key = ServerKey
  /\ v = "changed" => ~isCA /\ \E i \in 1 .. k : PlainEntry(file[i], name) /\ Other(file[i])
  /\ v = "absent" /\ ~isCA =>
       \A i \in 1 .. k : PlainEntry(file[i], name) => ~SameAlgorithm(file[i].key)

\* One line more.
LEMMA SaysLine ==
  ASSUME NEW chars, NEW file \in Seq(KnownLine(chars)), NEW name, Len(name) \in Nat,
         NEW isCA \in BOOLEAN, NEW v, NEW k \in 1 .. Len(file),
         Says(v, k - 1, file, name, isCA)
  PROVE  Says(ScanLine(v, file[k], name, isCA), k, file, name, isCA)
<1> DEFINE line == file[k]
           w == ScanLine(v, line, name, isCA)
<1> SUFFICES Says(w, k, file, name, isCA)
  OBVIOUS
<1>1. (\A i : i \in 1 .. k <=> i \in 1 .. k - 1 \/ i = k) /\ line \in KnownLine(chars)
  OBVIOUS
<1>2. MatchPatternList(name, line.hosts) <=> Names(line, name)
  BY <1>1, NamesAgree
<1>3. CASE v \in {"revoked", "malformed"}
  <2>1. w = v
    BY <1>3 DEF ScanLine
  <2>2. QED
    BY <1>1, <1>3, <2>1 DEF Says
<1>4. CASE v \notin {"revoked", "malformed"} /\ line.form = "broken"
  <2>1. w = IF v # "matched" /\ Names(line, name) THEN "malformed" ELSE v
    BY <1>2, <1>4 DEF ScanLine
  <2>2. ~RevokedOwn(line) /\ ~PlainEntry(line, name)
    BY <1>4 DEF RevokedOwn, PlainEntry
  <2>3. w = "malformed" => Broken(line, name)
    BY <1>4, <2>1 DEF Broken
  <2> HIDE DEF w, line
  <2>4. CASE w = "malformed"
    BY <1>1, <2>3, <2>4 DEF Says, line
  <2>5. CASE w = v
    BY <1>1, <1>4, <2>2, <2>5 DEF Says, line
  <2>6. QED
    BY <2>1, <2>4, <2>5
<1>5. CASE v \notin {"revoked", "malformed"} /\ line.form = "revoked"
  <2>1. w = IF line.key = ServerKey THEN "revoked" ELSE v
    BY <1>5 DEF ScanLine
  <2>2. ~PlainEntry(line, name) /\ (RevokedOwn(line) <=> line.key = ServerKey)
    BY <1>5 DEF RevokedOwn, PlainEntry
  <2> HIDE DEF w, line
  <2>3. CASE line.key = ServerKey
    BY <1>1, <2>1, <2>2, <2>3 DEF Says, line
  <2>4. CASE line.key # ServerKey
    BY <1>1, <1>5, <2>1, <2>2, <2>4 DEF Says, line
  <2>5. QED
    BY <2>3, <2>4
<1>6. CASE /\ v \notin {"revoked", "malformed"} /\ line.form = "plain"
           /\ ~isCA /\ Names(line, name)
  <2>1. w = IF line.key = ServerKey THEN "matched"
              ELSE IF SameAlgorithm(line.key) /\ v = "absent" THEN "changed" ELSE v
    BY <1>2, <1>6 DEF ScanLine
  <2>2. PlainEntry(line, name) /\ ~RevokedOwn(line)
    BY <1>6 DEF RevokedOwn, PlainEntry
  <2> HIDE DEF w, line
  <2>3. CASE line.key = ServerKey
    BY <1>1, <1>6, <2>1, <2>2, <2>3 DEF Says, line
  <2>4. CASE line.key # ServerKey /\ SameAlgorithm(line.key) /\ v = "absent"
    BY <1>1, <1>6, <2>1, <2>2, <2>4 DEF Says, line, Other
  <2>5. CASE line.key # ServerKey /\ ~(SameAlgorithm(line.key) /\ v = "absent")
    BY <1>1, <1>6, <2>1, <2>2, <2>5 DEF Says, line
  <2>6. QED
    BY <2>3, <2>4, <2>5
<1>7. CASE /\ v \notin {"revoked", "malformed"} /\ line.form \notin {"broken", "revoked"}
           /\ ~(line.form = "plain" /\ ~isCA /\ Names(line, name))
  <2>1. w = v
    BY <1>2, <1>7 DEF ScanLine
  <2>2. ~RevokedOwn(line) /\ (~isCA => ~PlainEntry(line, name))
    BY <1>7 DEF RevokedOwn, PlainEntry
  <2> HIDE DEF w, line
  <2>3. QED
    BY <1>1, <1>7, <2>1, <2>2 DEF Says, line
<1>8. QED
  BY <1>3, <1>4, <1>5, <1>6, <1>7

\* The verdict of the scan says it of the whole file.
LEMMA ScanSays ==
  ASSUME NEW chars, NEW file \in Seq(KnownLine(chars)), NEW name, Len(name) \in Nat,
         NEW isCA \in BOOLEAN
  PROVE  Says(ScanKnownHosts(file, name, isCA), Len(file), file, name, isCA)
<1>1. Len(file) \in Nat
  OBVIOUS
<1>2. PICK f : ScanEq(f, file, name, isCA) /\ ScanKnownHosts(file, name, isCA) = f[Len(file)]
  BY <1>1, ScanExists, ScanIs
<1> DEFINE T == {k \in 0 .. Len(file) : ~Says(f[k], k, file, name, isCA)}
<1>3. SUFFICES ASSUME T # {} PROVE FALSE
  <2>1. Len(file) \in T \/ Says(f[Len(file)], Len(file), file, name, isCA)
    BY <1>1
  <2>2. QED
    BY <1>2, <1>3, <2>1
<1>4. PICK k \in T : \A m \in T : k <= m
  <2>1. T \in SUBSET Nat
    OBVIOUS
  <2> HIDE DEF T
  <2>2. QED
    BY <1>3, <2>1, Least
<1>5. CASE k = 0
  <2>1. f[k] = "absent"
    BY <1>1, <1>2, <1>5 DEF ScanEq
  <2>2. QED
    BY <1>5, <2>1 DEF Says
<1>6. CASE k # 0
  <2>1. k \in 1 .. Len(file) /\ k - 1 \in 0 .. Len(file) /\ ~(k <= k - 1)
    BY <1>1, <1>6
  <2>2. k - 1 \notin T
    <3> HIDE DEF T
    <3> QED
      BY <1>4, <2>1
  <2>3. f[k] = ScanLine(f[k - 1], file[k], name, isCA)
    BY <1>2, <2>1 DEF ScanEq
  <2>4. Says(f[k - 1], k - 1, file, name, isCA)
    BY <2>1, <2>2
  <2>5. QED
    BY <2>1, <2>3, <2>4, SaysLine
<1>7. QED
  BY <1>5, <1>6

\* What a file says with the library's check behind the scan.
FileSays(v, file, name, isCA) ==
  /\ v \in {"absent", "matched", "changed", "revoked", "malformed"}
  /\ v = "revoked" => Revokes(file)
  /\ v = "malformed" => Blocks(file, name)
  /\ v \notin {"revoked", "malformed"} => ~Revokes(file)
  /\ ~isCA => /\ v = "matched" => Vouches(file, name)
              /\ v = "changed" => Contradicts(file, name)
              /\ v = "absent" => ~Vouches(file, name) /\ ~Contradicts(file, name)

\* The library's verdict speaks of the first hashed entry for the name.
LEMMA FallbackSays ==
  ASSUME NEW chars, NEW file \in Seq(KnownLine(chars)),
         \A i \in DOMAIN file : HashedLiteral(file[i]),
         NEW names, NEW name \in Seq(names)
  PROVE  LET v == HashedFallback(file, name)
             Hashed(i) == file[i].form = "hashed" /\ Names(file[i], name)
         IN /\ v \in {"absent", "matched", "changed"}
            /\ v = "matched" => \E i \in DOMAIN file : Hashed(i) /\ file[i].key = ServerKey
            /\ v = "changed" => \E i \in DOMAIN file : Hashed(i) /\ Other(file[i])
            /\ v = "absent" => \A i \in DOMAIN file : Hashed(i) => ~SameAlgorithm(file[i].key)
<1> DEFINE Hashed(i) == file[i].form = "hashed" /\ Names(file[i], name)
           hits == {i \in DOMAIN file : Hashed(i) /\ SameAlgorithm(file[i].key)}
<1>1. \A i \in DOMAIN file :
        file[i].form = "hashed" => (Names(file[i], name) <=> file[i].hosts[1].glob = name)
  BY HashedNames
<1>2. hits = {i \in DOMAIN file : /\ file[i].form = "hashed"
                                 /\ file[i].hosts[1].glob = name
                                 /\ SameAlgorithm(file[i].key)}
  BY <1>1
<1>3. HashedFallback(file, name) =
        IF hits = {} THEN "absent"
          ELSE IF file[Min(hits)].key = ServerKey THEN "matched" ELSE "changed"
  BY <1>2 DEF HashedFallback
<1>4. hits # {} => Min(hits) \in hits
  <2>1. hits \in SUBSET Nat
    OBVIOUS
  <2>2. hits # {} => \E n \in hits : \A m \in hits : n <= m
    BY <2>1, Least
  <2>3. QED
    BY <2>2 DEF Min
<1>5. CASE hits = {}
  BY <1>3, <1>5
<1>6. CASE hits # {} /\ file[Min(hits)].key = ServerKey
  BY <1>3, <1>4, <1>6
<1>7. CASE hits # {} /\ file[Min(hits)].key # ServerKey
  BY <1>3, <1>4, <1>7 DEF Other
<1>8. QED
  BY <1>5, <1>6, <1>7

\* Both together.
LEMMA CheckSays ==
  ASSUME NEW chars, NEW file \in Seq(KnownLine(chars)),
         \A i \in DOMAIN file : HashedLiteral(file[i]),
         NEW names, NEW name \in Seq(names),
         NEW isCA \in BOOLEAN
  PROVE  FileSays(CheckKnownHostFile(file, name, isCA), file, name, isCA)
<1> DEFINE v == CheckKnownHostFile(file, name, isCA)
           scan == ScanKnownHosts(file, name, isCA)
           fall == HashedFallback(file, name)
           Hashed(i) == file[i].form = "hashed" /\ Names(file[i], name)
<1>1. Len(name) \in Nat /\ DOMAIN file = 1 .. Len(file)
  OBVIOUS
<1>2. Says(scan, Len(file), file, name, isCA)
  BY <1>1, ScanSays
<1>3. v = IF scan = "absent" THEN fall ELSE scan
  BY DEF CheckKnownHostFile
<1>4. \A i \in DOMAIN file : Entry(file[i], name) <=> PlainEntry(file[i], name) \/ Hashed(i)
  BY DEF Entry, PlainEntry
<1>5. (\A i \in DOMAIN file : ~RevokedOwn(file[i])) <=> ~Revokes(file)
  BY DEF Revokes, RevokedOwn
<1>6. CASE scan # "absent"
  <2>1. v = scan
    BY <1>3, <1>6
  <2>2. /\ scan = "revoked" => Revokes(file)
        /\ scan = "malformed" => Blocks(file, name)
        /\ scan \notin {"revoked", "malformed"} => ~Revokes(file)
    BY <1>1, <1>2, <1>5 DEF Says, Blocks, Broken
  <2>3. /\ scan = "matched" => Vouches(file, name)
        /\ scan = "changed" => Contradicts(file, name)
    BY <1>1, <1>2, <1>4 DEF Says, Vouches, Contradicts, Other
  <2>4. QED
    BY <1>2, <1>6, <2>1, <2>2, <2>3 DEF FileSays, Says
<1>7. CASE scan = "absent"
  <2>1. v = fall
    BY <1>3, <1>7
  <2>2. /\ fall \in {"absent", "matched", "changed"}
        /\ fall = "matched" => \E i \in DOMAIN file : Hashed(i) /\ file[i].key = ServerKey
        /\ fall = "changed" => \E i \in DOMAIN file : Hashed(i) /\ Other(file[i])
        /\ fall = "absent" => \A i \in DOMAIN file : Hashed(i) => ~SameAlgorithm(file[i].key)
    BY FallbackSays
  <2>3. ~Revokes(file)
    BY <1>1, <1>2, <1>5, <1>7 DEF Says
  <2>4. ~isCA => \A i \in DOMAIN file : PlainEntry(file[i], name) => ~SameAlgorithm(file[i].key)
    BY <1>1, <1>2, <1>7 DEF Says
  <2> HIDE DEF v, scan, fall, Hashed
  <2>5. fall = "matched" => Vouches(file, name)
    BY <1>4, <2>2 DEF Vouches
  <2>6. fall = "changed" => Contradicts(file, name)
    BY <1>4, <2>2 DEF Contradicts, Other
  <2>7. fall = "absent" /\ ~isCA => ~Vouches(file, name) /\ ~Contradicts(file, name)
    BY <1>4, <2>2, <2>4 DEF Vouches, Contradicts, SameAlgorithm, ServerKey
  <2>8. QED
    BY <2>1, <2>2, <2>3, <2>5, <2>6, <2>7 DEF FileSays, v
<1>8. QED
  BY <1>6, <1>7

(***************************************************************************)
(* The decision about the server's key                                     *)
(***************************************************************************)
\* The name that is looked up may have brackets, and be "none".
Wide == Char \cup {"[", "]", ":", "2", "none"}

\* A setting is one of those given, or the default.
LEMMA SettingType ==
  ASSUME NEW out \in Outputs, NEW key, NEW default \in Seq(Wide)
  PROVE  Setting(out, key, default) \in Seq(Wide)
<1> DEFINE lines == {i \in DOMAIN out : out[i].key = key /\ out[i].value # None}
<1>1. out \in Seq([key : STRING, value : Seq(Char)])
  BY NamesAssumption
<1>2. \A i \in DOMAIN out : out[i].value \in Seq(Char)
  <2> DEFINE R == [key : STRING, value : Seq(Char)]
  <2>1. \A r \in R : r.value \in Seq(Char)
    OBVIOUS
  <2>2. \A i \in DOMAIN out : out[i] \in R
    <3>1. out \in Seq(R)
      BY <1>1
    <3> HIDE DEF R
    <3>2. QED
      BY <3>1
  <2>3. QED
    BY <2>1, <2>2
<1>3. Seq(Char) \subseteq Seq(Wide)
  BY DEF Wide
<1>4. lines # {} => Max(lines) \in lines
  <2>1. Len(out) \in Nat /\ DOMAIN out = 1 .. Len(out)
    BY <1>1
  <2> DEFINE T == {Len(out) - i : i \in lines}
  <2>2. SUFFICES ASSUME lines # {} PROVE \E x \in lines : \A y \in lines : x >= y
    BY DEF Max
  <2>3. T \in SUBSET Nat /\ T # {}
    BY <2>1, <2>2
  <2>4. PICK d \in T : \A e \in T : d <= e
    <3> HIDE DEF T
    <3> QED
      BY <2>3, Least
  <2>5. PICK x \in lines : d = Len(out) - x
    OBVIOUS
  <2>6. \A y \in lines : x >= y
    <3> SUFFICES ASSUME NEW y \in lines PROVE x >= y
      OBVIOUS
    <3>1. x \in Nat /\ y \in Nat /\ Len(out) - x <= Len(out) - y
      BY <2>1, <2>4, <2>5
    <3>2. QED
      BY <2>1, <3>1
  <2>7. QED
    BY <2>6
<1>5. QED
  BY <1>2, <1>3, <1>4 DEF Setting

\* The name that is looked up is a sequence.
LEMMA LookupType ==
  ASSUME config \in Config
  PROVE  Lookup \in Seq(Wide)
<1>1. Alias \in Seq(Wide) /\ None \in Seq(Wide)
  BY NamesAssumption DEF Wide, None
<1>2. \A out \in Outputs : Parse(out).name \in Seq(Wide)
  BY <1>1, SettingType DEF Parse
<1>3. config.name \in Seq(Wide)
  BY <1>1, <1>2 DEF Config
<1>4. <<"[">> \in Seq(Wide) /\ <<"]", ":", "2">> \in Seq(Wide)
  BY DEF Wide
<1>5. <<"[">> \o config.name \o <<"]", ":", "2">> \in Seq(Wide)
  BY <1>3, <1>4
<1>6. QED
  BY <1>3, <1>5 DEF Lookup, LookupName

\* What the handshake finds out of a file.
LEMMA FileChecked ==
  ASSUME TypeOK, NEW f \in Files
  PROVE  FileSays(CheckKnownHostFile(f, Lookup, cert), f, Lookup, cert)
<1>1. Lookup \in Seq(Wide) /\ cert \in BOOLEAN
  BY LookupType DEF TypeOK
<1>2. f \in Seq(KnownLine(Char)) /\ \A i \in DOMAIN f : HashedLiteral(f[i])
  BY NamesAssumption
<1>3. QED
  BY <1>1, <1>2, CheckSays

\* A file that was read and did not decide.
Undecided(f) ==
  /\ Revokes(f) => cert /\ Blocks(f, Lookup)
  /\ ~cert => ~Vouches(f, Lookup) /\ ~Contradicts(f, Lookup)

\* The inductive form of KeyDecision: no file read so far decides, until one does.
KeyInv ==
  /\ phase \in {"resolve", "connect", "handshake"} => verdict = "none" /\ read = << >>
  /\ phase = "hostkey" /\ verdict = "none" => \A f \in ReadFiles : Undecided(f)
  /\ KeyDecision

\* Each file either decides, with the reason the property asks for, or is one more that
\* does not.
LEMMA KeyKept ==
  ASSUME TypeOK, KeyInv, [Next]_vars
  PROVE  KeyInv'
<1>1. ASSUME phase' # "hostkey", phase' \in {"resolve", "connect", "handshake"} =>
                                   verdict' = "none" /\ read' = << >>
      PROVE  KeyInv'
  BY <1>1 DEF KeyInv, KeyDecision, AcceptedKeyIsKnown, RefusalHasReason
<1>2. CASE Resolve
  BY <1>1, <1>2 DEF KeyInv, Resolve, Fail
<1>3. CASE Transport
  BY <1>1, <1>3 DEF KeyInv, Transport, Fail, setup
<1>4. CASE HandshakeFails
  BY <1>1, <1>4 DEF HandshakeFails, Fail
<1>5. CASE PresentKey
  BY <1>5 DEF PresentKey, KeyInv, KeyDecision, AcceptedKeyIsKnown, RefusalHasReason, ReadFiles
<1>6. CASE CheckFile
  <2>1. PICK f \in Files :
          LET check == CheckKnownHostFile(f, Lookup, cert)
          IN /\ read' = Append(read, f)
             /\ verdict' = IF check = "revoked" THEN "reject"
                           ELSE IF cert \/ check = "absent" THEN "none"
                           ELSE IF check = "matched" THEN "accept" ELSE "reject"
    BY <1>6 DEF CheckFile
  <2> DEFINE check == CheckKnownHostFile(f, Lookup, cert)
  <2>2. phase = "hostkey" /\ verdict = "none" /\ UNCHANGED <<phase, config, cert>>
    BY <1>6 DEF CheckFile
  <2>3. Lookup' = Lookup
    BY <2>2 DEF Lookup
  <2>4. FileSays(check, f, Lookup, cert)
    BY FileChecked
  <2>5. ReadFiles' = ReadFiles \cup {f}
    <3>1. \A q \in Seq(Files) :
            {Append(q, f)[i] : i \in DOMAIN Append(q, f)} = {q[i] : i \in DOMAIN q} \cup {f}
      <4> SUFFICES ASSUME NEW q \in Seq(Files)
                   PROVE  {Append(q, f)[i] : i \in DOMAIN Append(q, f)}
                            = {q[i] : i \in DOMAIN q} \cup {f}
        OBVIOUS
      <4> DEFINE r == Append(q, f)
      <4>1. Len(q) \in Nat /\ DOMAIN q = 1 .. Len(q) /\ DOMAIN r = 1 .. Len(q) + 1
        OBVIOUS
      <4>2. r[Len(q) + 1] = f /\ \A i \in DOMAIN q : r[i] = q[i]
        BY <4>1
      <4>3. \A i : i \in DOMAIN r <=> i \in DOMAIN q \/ i = Len(q) + 1
        BY <4>1
      <4> HIDE DEF r
      <4>4. {r[i] : i \in DOMAIN r} = {q[i] : i \in DOMAIN q} \cup {f}
        BY <4>2, <4>3
      <4>5. QED
        BY <4>4 DEF r
    <3>2. QED
      BY <2>1, <3>1 DEF ReadFiles, TypeOK
  <2>6. \A h \in ReadFiles : Undecided(h)
    BY <2>2 DEF KeyInv
  <2> HIDE DEF check
  <2>7. CASE check = "revoked"
    <3>1. Revokes(f) /\ verdict' = "reject"
      BY <2>1, <2>4, <2>7 DEF FileSays, check
    <3>2. QED
      BY <2>2, <2>5, <3>1 DEF KeyInv, KeyDecision, AcceptedKeyIsKnown, RefusalHasReason
  <2>8. CASE check # "revoked" /\ (cert \/ check = "absent")
    <3>1. verdict' = "none"
      BY <2>1, <2>8 DEF check
    <3>2. Undecided(f)
      BY <2>4, <2>8 DEF FileSays, Undecided
    <3>3. \A h : Undecided(h)' <=> Undecided(h)
      BY <2>2, <2>3 DEF Undecided
    <3>4. \A h \in ReadFiles' : Undecided(h)'
      BY <2>5, <2>6, <3>2, <3>3
    <3>5. QED
      BY <2>2, <3>1, <3>4 DEF KeyInv, KeyDecision, AcceptedKeyIsKnown, RefusalHasReason
  <2>9. CASE check = "matched" /\ ~cert
    <3>1. verdict' = "accept" /\ Vouches(f, Lookup) /\ ~Revokes(f)
      BY <2>1, <2>4, <2>9 DEF FileSays, check
    <3>2. \A h \in ReadFiles : ~Revokes(h) /\ ~Contradicts(h, Lookup)
      BY <2>6, <2>9 DEF Undecided
    <3>3. AcceptedKeyIsKnown'
      BY <2>2, <2>3, <2>5, <2>9, <3>1, <3>2 DEF AcceptedKeyIsKnown
    <3>4. QED
      BY <2>2, <3>1, <3>3 DEF KeyInv, KeyDecision, RefusalHasReason
  <2>10. CASE check \notin {"revoked", "absent", "matched"} /\ ~cert
    <3>1. verdict' = "reject"
      BY <2>1, <2>10 DEF check
    <3>2. Contradicts(f, Lookup) \/ Blocks(f, Lookup)
      BY <2>4, <2>10 DEF FileSays, check
    <3>3. QED
      BY <2>2, <2>3, <2>5, <2>10, <3>1, <3>2
        DEF KeyInv, KeyDecision, AcceptedKeyIsKnown, RefusalHasReason
  <2>11. QED
    BY <2>7, <2>8, <2>9, <2>10
<1>7. CASE FilesEnd
  <2>1. /\ phase = "hostkey" /\ verdict = "none"
        /\ verdict' = IF config.strict THEN "reject" ELSE "accept"
        /\ UNCHANGED <<phase, config, cert, read>>
    BY <1>7 DEF FilesEnd
  <2>2. ReadFiles' = ReadFiles /\ Lookup' = Lookup
    BY <2>1 DEF ReadFiles, Lookup
  <2>3. \A f \in ReadFiles : Undecided(f)
    BY <2>1 DEF KeyInv
  <2>4. AcceptedKeyIsKnown'
    BY <2>1, <2>2, <2>3 DEF AcceptedKeyIsKnown, Undecided
  <2>5. RefusalHasReason'
    BY <2>1, <2>2, <2>3 DEF RefusalHasReason, Undecided
  <2>6. QED
    BY <2>1, <2>4, <2>5 DEF KeyInv, KeyDecision
<1>8. CASE Refuse
  BY <1>1, <1>8 DEF Refuse, Fail
<1>9. CASE Accept
  BY <1>1, <1>9 DEF Accept
<1>10. CASE AuthStep
  <2>1. phase' \notin {"resolve", "connect", "handshake", "hostkey"}
    BY <1>10 DEF AuthStep, AgentEnds, LoadKey, NothingLeft, AgentTry, FileTry, Fail
  <2>2. QED
    BY <1>1, <2>1
<1>11. CASE Deadline
  BY <1>1, <1>11 DEF Deadline, Fail
<1>12. CASE UNCHANGED vars
  BY <1>12 DEF vars, KeyInv, KeyDecision, AcceptedKeyIsKnown, RefusalHasReason, ReadFiles,
               Lookup, Undecided
<1>13. QED
  BY <1>2, <1>3, <1>4, <1>5, <1>6, <1>7, <1>8, <1>9, <1>10, <1>11, <1>12 DEF Next, KeyStep

\* The decision about the server's key is the one of the reference definitions, for
\* any known_hosts files, names and patterns: what is accepted is known or may be
\* learnt, and what is refused is refused for a reason.
THEOREM KeyDecidedRightly == Spec => []KeyDecision
<1>1. Init => KeyInv
  BY DEF Init, KeyInv, KeyDecision, AcceptedKeyIsKnown, RefusalHasReason
<1>2. KeyInv => KeyDecision
  BY DEF KeyInv
<1>3. QED
  BY <1>1, <1>2, KeyKept, TypeCorrect, PTL DEF Spec
=============================================================================
