------------------------------ MODULE KnownHosts ------------------------------
(***************************************************************************)
(* What known_hosts says of the key a server has presented (ssh.rs): the   *)
(* scan of one file, the pattern lists of its lines, and the reference     *)
(* definitions they are compared with.                                     *)
(*                                                                         *)
(* A line is [form, hosts, key]: an unmarked entry, one marked @revoked or *)
(* @cert-authority, an unmarked one whose host is hashed, or a line the    *)
(* parser rejects.  Names and patterns are sequences of characters; a      *)
(* pattern of a list is [neg, glob].  Keys are the server's own, another   *)
(* of its algorithm, and one of a different algorithm.  Letter case, blank *)
(* lines and comments are left out.                                        *)
(***************************************************************************)
EXTENDS Naturals, Sequences, FiniteSetsExt

ServerKey == "own"
SameAlgorithm(key) == key \in {"own", "same"}
Key == {"own", "same", "foreign"}
Form == {"plain", "revoked", "authority", "hashed", "broken"}

\* The lines over some characters.
KnownLine(chars) ==
  [form : Form, hosts : Seq([neg : BOOLEAN, glob : Seq(chars)]), key : Key]

\* A hashed entry is of one name, and a name has no wildcards.
Literal(glob) == \A i \in 1 .. Len(glob) : glob[i] \notin {"*", "?"}
HashedLiteral(line) ==
  line.form = "hashed" =>
    Len(line.hosts) = 1 /\ ~line.hosts[1].neg /\ Literal(line.hosts[1].glob)

\* On the default port the name itself, else the bracketed one.
LookupName(host, defaultPort) ==
  IF defaultPort THEN host ELSE <<"[">> \o host \o <<"]", ":", "2">>

\* The iterative matcher: i characters of the subject and j of the pattern are
\* consumed; a mismatch goes back behind the last star seen (after, 0 if none), which
\* then absorbs one character more than up to position at.
MatchPattern(s, p) ==
  LET n == Len(s)
      m == Len(p)
      run[x \in [i : 0 .. n, j : 0 .. m, after : 0 .. m, at : 0 .. n]] ==
        IF x.j < m /\ p[x.j + 1] = "*"
          THEN run[[i |-> x.i, j |-> x.j + 1, after |-> x.j + 1, at |-> x.i]]
          ELSE IF x.j < m /\ x.i < n /\ p[x.j + 1] \in {"?", s[x.i + 1]}
            THEN run[[i |-> x.i + 1, j |-> x.j + 1, after |-> x.after, at |-> x.at]]
            ELSE IF x.i = n /\ x.j = m
              THEN TRUE
              ELSE /\ x.after > 0 /\ x.at < n
                   /\ run[[i |-> x.at + 1, j |-> x.after, after |-> x.after, at |-> x.at + 1]]
  IN run[[i |-> 0, j |-> 0, after |-> 0, at |-> 0]]

\* Faulty variant: a negation only withholds its own pattern.
MatchAnyPattern(name, patterns) ==
  \E i \in DOMAIN patterns : ~patterns[i].neg /\ MatchPattern(name, patterns[i].glob)

\* A matching negation vetoes the list, wherever it stands.
MatchPatternList(name, patterns) ==
  /\ \E i \in DOMAIN patterns : ~patterns[i].neg /\ MatchPattern(name, patterns[i].glob)
  /\ \A i \in DOMAIN patterns : patterns[i].neg => ~MatchPattern(name, patterns[i].glob)

\* One line of the loop in scan_known_hosts.  A revocation, and a line for the host
\* that cannot be parsed, return; a match keeps the scan going.
ScanLine(v, line, name, cert) ==
  IF v \in {"revoked", "malformed"} THEN v
  ELSE CASE line.form = "broken" ->
              IF v # "matched" /\ MatchPatternList(name, line.hosts) THEN "malformed" ELSE v
         [] line.form = "revoked" -> IF line.key = ServerKey THEN "revoked" ELSE v
         [] line.form = "plain" /\ ~cert /\ MatchPatternList(name, line.hosts) ->
              IF line.key = ServerKey THEN "matched"
                ELSE IF SameAlgorithm(line.key) /\ v = "absent" THEN "changed" ELSE v
         [] OTHER -> v

ScanKnownHosts(file, name, cert) ==
  LET scan[k \in 0 .. Len(file)] ==
        IF k = 0 THEN "absent" ELSE ScanLine(scan[k - 1], file[k], name, cert)
  IN scan[Len(file)]

\* The library's check of the hashed entries, of which the first one for the host and
\* the algorithm decides.
HashedFallback(file, name) ==
  LET hits == {i \in DOMAIN file : /\ file[i].form = "hashed"
                                   /\ file[i].hosts[1].glob = name
                                   /\ SameAlgorithm(file[i].key)}
  IN IF hits = {} THEN "absent"
       ELSE IF file[Min(hits)].key = ServerKey THEN "matched" ELSE "changed"

CheckKnownHostFile(file, name, cert) ==
  LET scan == ScanKnownHosts(file, name, cert)
  IN IF scan = "absent" THEN HashedFallback(file, name) ELSE scan

(***************************************************************************)
(* Reference definitions                                                   *)
(***************************************************************************)
\* A star stands for any sequence, a question mark for one character.  from[j] has the
\* positions behind which s is what the pattern says behind its j-th character.
Glob(s, p) ==
  LET n == Len(s)
      m == Len(p)
      from[j \in 0 .. m] ==
        IF j = m THEN {n}
          ELSE LET next == from[j + 1]
               IN IF p[j + 1] = "*"
                    THEN {i \in 0 .. n : \E k \in i .. n : k \in next}
                    ELSE {i \in 0 .. n - 1 : p[j + 1] \in {"?", s[i + 1]} /\ i + 1 \in next}
  IN 0 \in from[0]

Names(line, name) ==
  /\ \E i \in DOMAIN line.hosts : ~line.hosts[i].neg /\ Glob(name, line.hosts[i].glob)
  /\ \A i \in DOMAIN line.hosts : line.hosts[i].neg => ~Glob(name, line.hosts[i].glob)

Entry(line, name) == line.form \in {"plain", "hashed"} /\ Names(line, name)

Vouches(file, name) ==
  \E i \in DOMAIN file : Entry(file[i], name) /\ file[i].key = ServerKey
Contradicts(file, name) ==
  \E i \in DOMAIN file :
    Entry(file[i], name) /\ file[i].key # ServerKey /\ SameAlgorithm(file[i].key)
Revokes(file) ==
  \E i \in DOMAIN file : file[i].form = "revoked" /\ file[i].key = ServerKey
Blocks(file, name) ==
  \E i \in DOMAIN file : file[i].form = "broken" /\ Names(file[i], name)
=============================================================================
