------------------------------ MODULE SshConnect ------------------------------
(***************************************************************************)
(* One attempt to connect and authenticate: the host's settings (resolve   *)
(* of ssh_config.rs), then connect of ssh.rs with transport, handshake and *)
(* the decision about the server's key, publickey attempts of the agent's  *)
(* identities and the identity files, one shared deadline.                 *)
(*                                                                         *)
(* The SSH library is taken at its interface: it asks for a decision about *)
(* a key, or reports an error, and answers every authentication attempt.   *)
(* A setting is [key, value], a name or a value a sequence of characters   *)
(* or words.                                                               *)
(***************************************************************************)
EXTENDS KnownHosts, FiniteSetsExt

CONSTANTS
  Char,        \* what names and values are made of
  Alias,       \* the host as the user names it
  Outputs,     \* what `ssh -G` may print of it: sequences of settings
  Files,       \* contents a known_hosts file may have
  MaxFiles,    \* bound: known_hosts files that exist
  MaxAttempts, \* MAX_PUBLICKEY_ATTEMPTS (6)
  MaxAgent,    \* bound: identities of the agent
  MaxKeys      \* bound: identity files

ASSUME NamesAssumption ==
  /\ Alias \in Seq(Char)
  /\ Outputs \subseteq Seq([key : STRING, value : Seq(Char)])
  /\ Files \subseteq Seq(KnownLine(Char))
  /\ \A f \in Files : \A i \in DOMAIN f : HashedLiteral(f[i])

ASSUME SshAssumption == {MaxFiles, MaxAttempts, MaxAgent, MaxKeys} \subseteq Nat

VARIABLES
  phase,   \* where connect() stands
  config,  \* the resolved host: name of its keys, transport, strictness, port
  proxy,   \* the ProxyCommand child runs
  cert,    \* the server presented a certificate
  read,    \* known_hosts files checked for the handshake, in order
  verdict, \* on the server's key
  agent,   \* identities the agent has left
  ids,     \* kinds of the identity files
  at,      \* identity file being tried
  hashes,  \* hashes left for it
  plan,    \* RSA hash selection
  offered, \* the server still offers publickey
  tried,   \* attempts: [key, hash, reply], agent identities having key 0
  error

vars == <<phase, config, proxy, cert, read, verdict, agent, ids, at, hashes, plan,
          offered, tried, error>>
setup == <<config, cert, read, verdict>>
keys == <<agent, ids, at, hashes, plan, offered, tried>>

Kind == {"rsa", "other", "encrypted", "unreadable"}
Hash == {"sha512", "sha256", "none"}

\* A direct connection to the name as it was given, used when there are no settings.
Fallback == [name |-> Alias, proxied |-> FALSE, strict |-> TRUE, defaultPort |-> TRUE]

Init ==
  /\ phase = "resolve" /\ proxy = FALSE /\ cert = FALSE
  /\ config = Fallback
  /\ read = << >> /\ verdict = "none"
  /\ agent = 0 /\ ids = << >> /\ at = 0 /\ hashes = << >> /\ plan = "unknown"
  /\ offered = TRUE /\ tried = << >> /\ error = "none"

Lookup == LookupName(config.name, config.defaultPort)

\* The error return drops the child, which is killed.
Fail(why) ==
  /\ phase' = "failed" /\ error' = why
  /\ proxy' = FALSE

(***************************************************************************)
(* Resolution                                                              *)
(***************************************************************************)
None == <<"none">>

\* Of several lines with a key the last one counts, but `none` takes nothing back.
Setting(out, key, default) ==
  LET lines == {i \in DOMAIN out : out[i].key = key /\ out[i].value # None}
  IN IF lines = {} THEN default ELSE out[Max(lines)].value

\* A port that is no number is 22.  A ProxyJump alone makes a ProxyCommand.
Parse(out) ==
  [name |-> Setting(out, "hostkeyalias", Setting(out, "hostname", None)),
   proxied |-> \E i \in DOMAIN out :
                 out[i].key \in {"proxycommand", "proxyjump"} /\ out[i].value # None,
   strict |-> Setting(out, "stricthostkeychecking", None) \notin
                {<<"no">>, <<"off">>, <<"false">>, <<"accept-new">>},
   defaultPort |-> Setting(out, "port", <<"22">>) \in {<<"22">>, <<"garbage">>}]

\* `ssh -G` may be missing, fail, exceed its ten seconds, or print no hostname, and none
\* of these is an error; an unknown user is.
Resolve ==
  /\ phase = "resolve"
  /\ \/ /\ \/ \E out \in Outputs :
                 /\ Setting(out, "hostname", None) # None
                 /\ config' = Parse(out)
           \/ config' = Fallback
        /\ phase' = "connect"
        /\ UNCHANGED <<proxy, error>>
     \/ Fail("resolve") /\ UNCHANGED config
  /\ UNCHANGED <<cert, read, verdict, keys>>

(***************************************************************************)
(* Transport and handshake                                                 *)
(***************************************************************************)
\* The TCP connect carries a timeout of its own; the setup deadline starts behind it.
Transport ==
  /\ phase = "connect"
  /\ \/ phase' = "handshake" /\ proxy' = config.proxied /\ UNCHANGED error
     \/ Fail("connect")
  /\ UNCHANGED <<setup, keys>>

HandshakeFails ==
  /\ phase = "handshake"
  /\ Fail("connect")
  /\ UNCHANGED <<setup, keys>>

\* The library asks for the decision; the whole of it runs without an await.
PresentKey ==
  /\ phase = "handshake"
  /\ phase' = "hostkey"
  /\ cert' \in BOOLEAN
  /\ UNCHANGED <<config, proxy, read, verdict, keys, error>>

\* decide_host_key and decide_certificate: the first file with a verdict decides,
\* for a certificate only a revocation does.
CheckFile ==
  /\ phase = "hostkey" /\ verdict = "none" /\ Len(read) < MaxFiles
  /\ \E f \in Files :
       LET check == CheckKnownHostFile(f, Lookup, cert)
       IN /\ read' = Append(read, f)
          /\ verdict' = IF check = "revoked" THEN "reject"
                        ELSE IF cert \/ check = "absent" THEN "none"
                        ELSE IF check = "matched" THEN "accept" ELSE "reject"
  /\ UNCHANGED <<phase, config, proxy, cert, keys, error>>

\* No file decides: strict mode refuses, first sight is accepted otherwise.
FilesEnd ==
  /\ phase = "hostkey" /\ verdict = "none"
  /\ verdict' = IF config.strict THEN "reject" ELSE "accept"
  /\ UNCHANGED <<phase, config, proxy, cert, read, keys, error>>

\* The reason of a refusal takes the place of the library's error.
Refuse ==
  /\ phase = "hostkey" /\ verdict = "reject"
  /\ Fail("hostkey")
  /\ UNCHANGED <<setup, keys>>

\* The identities and files that authenticate will meet; the files that were read
\* are forgotten.
Accept ==
  /\ phase = "hostkey" /\ verdict = "accept"
  /\ phase' = "agent"
  /\ agent' \in 0 .. MaxAgent
  /\ ids' \in UNION {[1 .. n -> Kind] : n \in 0 .. MaxKeys}
  /\ read' = << >>
  /\ UNCHANGED <<config, proxy, cert, verdict, at, hashes, plan, offered, tried, error>>

(***************************************************************************)
(* authenticate                                                            *)
(***************************************************************************)
Reply == {"success", "rejected", "withdrawn", "failed"}

Exhausted == ~offered \/ Len(tried) >= MaxAttempts

\* PublickeyBudget::record; a reply may withdraw the method.
Record(key, hash, reply) ==
  /\ tried' = Append(tried, [key |-> key, hash |-> hash, reply |-> reply])
  /\ offered' = (offered /\ reply # "withdrawn")

\* Also an error of the agent leaves the next identity its turn.
AgentTry(reply) ==
  /\ phase = "agent" /\ agent > 0 /\ ~Exhausted
  /\ agent' = agent - 1
  /\ Record(0, "none", reply)
  /\ phase' = IF reply = "success" THEN "connected" ELSE "agent"
  /\ UNCHANGED <<setup, proxy, ids, at, hashes, plan, error>>

AgentEnds ==
  /\ phase = "agent" /\ (agent = 0 \/ Exhausted)
  /\ phase' = "files"
  /\ UNCHANGED <<setup, proxy, keys, error>>

\* Hashes of one RSA key: what the server advertised, or a downgrade from SHA-512 to
\* ssh-rsa for servers that advertise nothing.
RsaHashes(p) == IF p = "downgrade" THEN <<"sha512", "sha256", "none">> ELSE <<p>>

\* The plan is asked for at the first RSA key.  An encrypted, missing or unreadable
\* file is skipped.
LoadKey ==
  /\ phase = "files" /\ hashes = << >>
  /\ at < Len(ids) /\ ~Exhausted
  /\ at' = at + 1
  /\ \/ /\ ids[at + 1] = "rsa"
        /\ plan' \in IF plan = "unknown" THEN Hash \cup {"downgrade"} ELSE {plan}
        /\ hashes' = RsaHashes(plan')
     \/ ids[at + 1] = "other" /\ hashes' = <<"none">> /\ UNCHANGED plan
     \/ ids[at + 1] \notin {"rsa", "other"} /\ UNCHANGED <<hashes, plan>>
  /\ UNCHANGED <<setup, proxy, phase, agent, ids, offered, tried, error>>

\* Faulty variant: an error, too, goes on to the next hash.
FileTryOn(reply) ==
  /\ phase = "files" /\ hashes # << >> /\ ~Exhausted
  /\ Record(at, Head(hashes), reply)
  /\ hashes' = Tail(hashes)
  /\ phase' = IF reply = "success" THEN "connected" ELSE "files"
  /\ UNCHANGED <<setup, proxy, agent, ids, at, plan, error>>

\* Only a rejection justifies the next hash.
FileTry(reply) ==
  /\ phase = "files" /\ hashes # << >> /\ ~Exhausted
  /\ Record(at, Head(hashes), reply)
  /\ hashes' = IF reply = "failed" THEN << >> ELSE Tail(hashes)
  /\ phase' = IF reply = "success" THEN "connected" ELSE "files"
  /\ UNCHANGED <<setup, proxy, agent, ids, at, plan, error>>

\* Faulty variant: the first key that is refused ends the files.
NothingLeftEarly ==
  /\ phase = "files"
  /\ Exhausted \/ (hashes = << >> /\ (at = Len(ids) \/ tried # << >>))
  /\ Fail("auth")
  /\ UNCHANGED <<setup, keys>>

NothingLeft ==
  /\ phase = "files"
  /\ Exhausted \/ (hashes = << >> /\ at = Len(ids))
  /\ Fail("auth")
  /\ UNCHANGED <<setup, keys>>

\* Faulty variant: the deadline covers the handshake only.
DeadlineOnce ==
  /\ phase = "handshake"
  /\ Fail("timeout")
  /\ UNCHANGED <<setup, keys>>

\* One deadline over the handshake and the authentication.
Deadline ==
  /\ phase \in {"handshake", "agent", "files"}
  /\ Fail("timeout")
  /\ UNCHANGED <<setup, keys>>

KeyStep == CheckFile \/ FilesEnd \/ Refuse \/ Accept
AuthStep == AgentEnds \/ LoadKey \/ NothingLeft \/ \E r \in Reply : AgentTry(r) \/ FileTry(r)

Next ==
  \/ Resolve \/ Transport \/ HandshakeFails \/ PresentKey
  \/ KeyStep \/ AuthStep \/ Deadline

\* The task is polled and its timers fire; nothing is assumed of the server.
Fairness ==
  WF_vars(Resolve) /\ WF_vars(Transport) /\ WF_vars(KeyStep) /\ WF_vars(Deadline)

Spec == Init /\ [][Next]_vars /\ Fairness

(***************************************************************************)
(* Properties                                                              *)
(***************************************************************************)
Config == [name : {Alias} \cup {Parse(out).name : out \in Outputs},
           proxied : BOOLEAN, strict : BOOLEAN, defaultPort : BOOLEAN]
Attempt == [key : 0 .. MaxKeys, hash : Hash, reply : Reply]

TypeOK ==
  /\ phase \in {"resolve", "connect", "handshake", "hostkey", "agent", "files",
                "connected", "failed"}
  /\ config \in Config
  /\ {proxy, cert, offered} \subseteq BOOLEAN
  /\ read \in Seq(Files) /\ Len(read) <= MaxFiles
  /\ verdict \in {"none", "accept", "reject"}
  /\ agent \in 0 .. MaxAgent
  /\ ids \in Seq(Kind) /\ Len(ids) <= MaxKeys /\ at \in 0 .. Len(ids)
  /\ hashes \in Seq(Hash)
  /\ plan \in Hash \cup {"unknown", "downgrade"}
  /\ tried \in Seq(Attempt)
  /\ error \in {"none", "resolve", "connect", "hostkey", "auth", "timeout"}

ReadFiles == {read[i] : i \in DOMAIN read}

\* What strict mode accepts is recorded in a file for this host as a plain key.  In
\* every mode no file that was read contradicts the acceptance: none records another
\* key of the algorithm without also recording this one, none revokes the key, except
\* behind a line that cannot be parsed (of which a certificate's check makes nothing).
AcceptedKeyIsKnown ==
  phase = "hostkey" /\ verdict = "accept" =>
    /\ config.strict => ~cert /\ \E f \in ReadFiles : Vouches(f, Lookup)
    /\ \A f \in ReadFiles :
         /\ Revokes(f) => cert /\ Blocks(f, Lookup)
         /\ ~cert /\ Contradicts(f, Lookup) => Vouches(f, Lookup)

\* A key is refused for a reason: it is revoked, contradicted or not decidable in a
\* file that was read, or strict mode has not seen it in any.
RefusalHasReason ==
  phase = "hostkey" /\ verdict = "reject" =>
    \/ \E f \in ReadFiles : Revokes(f)
    \/ ~cert /\ \E f \in ReadFiles : Contradicts(f, Lookup) \/ Blocks(f, Lookup)
    \/ config.strict /\ (cert \/ \A f \in ReadFiles : ~Vouches(f, Lookup))

KeyDecision == AcceptedKeyIsKnown /\ RefusalHasReason

\* The attempts keep to what a server tolerates: they stay within the budget, nothing
\* follows a success or the method's withdrawal, and a weaker hash is offered for a
\* key only right after the server has rejected the stronger one.
AttemptsInOrder ==
  /\ Len(tried) <= MaxAttempts
  /\ \A i \in 1 .. Len(tried) - 1 : tried[i].reply \in {"rejected", "failed"}
  /\ \A i, j \in DOMAIN tried :
       j = i + 1 /\ tried[i].key > 0 /\ tried[i].key = tried[j].key =>
         /\ tried[i].reply = "rejected"
         /\ <<tried[i].hash, tried[j].hash>> \in
              {<<"sha512", "sha256">>, <<"sha256", "none">>}

Spent == Len(tried) = MaxAttempts
Withdrawn == \E i \in DOMAIN tried : tried[i].reply = "withdrawn"
Usable == {"rsa", "other"}

\* Authentication is given up, before the deadline, only when nothing is left to try that
\* may be tried.  Unless the server withdraws the method, every identity of the agent and
\* every usable file has had its turn, in this order, up to the one with which the budget
\* was spent.
GivesUpLast ==
  error = "auth" /\ ~Withdrawn =>
    /\ agent > 0 => Spent /\ \A i \in DOMAIN tried : tried[i].key = 0
    /\ \A k \in DOMAIN ids : ids[k] \in Usable =>
         \/ \E i \in DOMAIN tried : tried[i].key = k
         \/ Spent /\ \A i \in DOMAIN tried : tried[i].key < k

\* A large keyring does not exhaust the budget before the identity files get their turn.
\* Refuted: the agent's identities are tried first and share the budget with the files.
FilesGetTheirTurn ==
  error = "auth" /\ ~Withdrawn /\ (\E k \in DOMAIN ids : ids[k] \in Usable) =>
    \E i \in DOMAIN tried : tried[i].key > 0

\* Whatever the server, the agent or the proxy does, connect() returns, and a failed
\* one leaves no ProxyCommand child.
ConnectEnds == <>(phase = "connected" \/ (phase = "failed" /\ ~proxy))

\* A key that a readable file revokes is refused.  Refuted: see AcceptedKeyIsKnown.
RevokedNeverAccepted ==
  phase = "hostkey" /\ verdict = "accept" => \A f \in ReadFiles : ~Revokes(f)
=============================================================================
