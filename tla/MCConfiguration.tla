--------------------------- MODULE MCConfiguration ---------------------------
(* Every configuration of up to three lines of a small set, and a few longer  *)
(* ones; two directories, /h where the emulator is started and /t.            *)
EXTENDS Configuration, TLC

MCDir == {"/h", "/t"}
Local == {"a.bas", "A.BAS", "b.rel", "B.REL", "text", "TEXT", "p.com", "out", "in",
          "binary", "false", "true", "auto"}
MCAbsolute(d, p) == IF p \in Local THEN d \o "/" \o p ELSE p
MCPath == MCDir \cup Local \cup {"", "/none"} \cup {MCAbsolute(d, p) : d \in MCDir, p \in Local}
MCAbsolutes == [d \in MCDir |-> [p \in MCPath |-> MCAbsolute(d, p)]]
MCCreatable == {MCAbsolute(d, p) : d \in MCDir, p \in Local \ {"p.com"}}

MCName == {"A.BAS", "B.REL", "TEXT"}
MCExtOf == "A.BAS" :> "BAS" @@ "B.REL" :> "REL" @@ "TEXT" :> ""
MCLower == "A.BAS" :> "a.bas" @@ "B.REL" :> "b.rel" @@ "TEXT" :> "text"
MCAsIs == [n \in MCName |-> n]
MCSibling == [p \in MCPath |-> MCLower]
MCExpansion == "$D" :> "/t" @@ "$UNSET" :> ""

Setting(k, v) == [key |-> k, value |-> v]
Maps(pattern, v) == [key |-> "map", pattern |-> pattern, value |-> v]
ExactName(n) == [kind |-> "exact", name |-> n]
Extension(e) == [kind |-> "ext", ext |-> e]

Program == Setting("program", <<"/h/p.com">>)
Several ==
  {Setting("cd", <<"$D">>), Setting("cd", <<"/none">>), Setting("default_mode", <<"binary">>),
   Setting("eol_convert", <<"false">>),
   Setting("printer", <<"out">>), Setting("aux_input", <<"in">>),
   Maps(Extension("REL"), <<"text">>), Maps(Extension("REL"), <<"$D">>),
   Maps(Extension("REL"), <<"/t/b.rel">>), Maps(Extension("REL"), <<"b.rel", "binary">>),
   Maps(ExactName("B.REL"), <<"a.bas", "text">>), Maps([kind |-> "any"], <<"a.bas">>)}
Few ==
  {Setting("none", <<>>), Setting("debug", <<"true">>), Setting("", <<"out">>),
   Setting("default_mode", <<"auto">>), Setting("default_mode", <<"out">>),
   Setting("eol_convert", <<"true">>),
   Setting("aux_output", <<"out">>), Setting("printer", <<"/none">>), Setting("printer", <<>>), Setting("program", <<"p.com">>),
   Setting("program", <<"$UNSET">>), Maps(ExactName("A.BAS"), <<"$D", "text">>),
   Maps(Extension("BAS"), <<"binary">>)}
MCConfigs ==
  {<<Program>> \o s : s \in UNION {[1..k -> Several] : k \in 0..2}}
    \cup {<<Program, k, l, m>> : k \in Several,
              l \in {s \in Several : s.key # "map"}, m \in {s \in Several : s.key = "map"}}
    \cup {<<Program, l, m>> : l \in Several \cup Few, m \in Few} \cup {<<l>> : l \in Few}
MCEnvirons ==
  {[d \in Devices |-> NoFile],
   [printer |-> "/t/out", aux_input |-> "/none", aux_output |-> "out"]}

MCByte == {"x", "^A", "cr", "lf", "^Z", "0"}
MCInode == 1..14
OnDisk(S) ==
  [p \in MCPath |-> CASE p = "/h" -> 1 [] p = "/t" -> 2 [] p = "/h/p.com" -> 3
                      [] p = "/h/a.bas" /\ p \in S -> 4 [] p = "/h/b.rel" /\ p \in S -> 5
                      [] p = "/t/b.rel" /\ p \in S -> 6 [] p = "/t/text" /\ p \in S -> 7
                      [] p = "/h/in" /\ p \in S -> 8 [] OTHER -> NoFile]
MCHosts ==
  {[dir |-> OnDisk(S), data |-> [i \in MCInode |-> IF i = 5 THEN <<"^A", "^A">> ELSE <<"x">>]]
     : S \in {{"/h/a.bas", "/h/b.rel", "/t/b.rel"},
              {"/h/a.bas", "/t/b.rel", "/t/text", "/h/in"}}}
=============================================================================
