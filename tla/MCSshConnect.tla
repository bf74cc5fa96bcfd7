----------------------------- MODULE MCSshConnect -----------------------------
(***************************************************************************)
(* Files of up to two lines about the host "aab" or others.                *)
(***************************************************************************)
EXTENDS SshConnect

Yes(glob) == [neg |-> FALSE, glob |-> glob]
No(glob) == [neg |-> TRUE, glob |-> glob]
Line(form, hosts, key) == [form |-> form, hosts |-> hosts, key |-> key]

MCChar == {"a", "b", "*", "?", "[", "]", ":", "2", "true", "accept-new", "no", "none",
           "hop", "garbage"}
MCAlias == <<"b">>

\* Every kind of host, under its own name or a HostKeyAlias; repeated lines.
Host == [key |-> "hostname", value |-> <<"a", "a", "b">>]
Say(key, word) == <<[key |-> key, value |-> <<word>>]>>
MCOutputs ==
  {<<Host>> \o port \o strict \o hop :
     port \in {<< >>, Say("port", "2")},
     strict \in {<< >>, Say("stricthostkeychecking", "true")
                        \o Say("stricthostkeychecking", "accept-new")},
     hop \in {Say("proxycommand", "none"), Say("proxyjump", "hop")}}
  \cup {<<[Host EXCEPT !.value = <<"b">>], [Host EXCEPT !.key = "hostkeyalias"]>>
           \o Say("hostkeyalias", "none") \o Say("port", "garbage"),
        Say("stricthostkeychecking", "no")}

\* Exact names, patterns that need more than one step back, negations.
MCLines == {
  Line("plain", <<Yes(<<"a", "a", "b">>)>>, "own"),
  Line("plain", <<Yes(<<"*", "a", "b">>)>>, "own"),
  Line("plain", <<Yes(<<"*">>), No(<<"a", "?", "b">>)>>, "own"),
  Line("plain", <<Yes(<<"?", "a">>), Yes(<<"*", "b", "*">>)>>, "same"),
  Line("plain", <<Yes(<<"a", "*", "b">>)>>, "foreign"),
  Line("revoked", <<Yes(<<"b">>)>>, "own"),
  Line("revoked", <<Yes(<<"*">>)>>, "same"),
  Line("authority", <<Yes(<<"*">>)>>, "own"),
  Line("hashed", <<Yes(<<"a", "a", "b">>)>>, "own"),
  Line("hashed", <<Yes(<<"[", "a", "a", "b", "]", ":", "2">>)>>, "same"),
  Line("broken", <<Yes(<<"[", "*">>), Yes(<<"a", "a", "?">>)>>, "own"),
  Line("broken", <<Yes(<<"b", "*">>)>>, "own") }

Strings(S, n) == UNION {[1 .. k -> S] : k \in 0 .. n}

\* The iterative matcher agrees with the reference for all short names and patterns.
ASSUME MatcherAgrees ==
  \A s \in Strings({"a", "b"}, 4), p \in Strings({"a", "b", "*", "?"}, 4) :
    MatchPattern(s, p) = Glob(s, p)

MCFiles == Strings(MCLines, 2)
=============================================================================
