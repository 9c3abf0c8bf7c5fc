---------------------------- MODULE MCCatalogMatch ----------------------------
(* Versions are written as the characters they are made of.  An int holds  *)
(* -9 to 8, so that epochs reach its limits.                               *)
EXTENDS CatalogMatch

Ascii == [c \in {"0", "1", "2", "8", "9"} |-> CASE c = "0" -> 48 [] c = "1" -> 49
                  [] c = "2" -> 50 [] c = "8" -> 56 [] c = "9" -> 57]
         @@ ("+" :> 43) @@ ("-" :> 45) @@ ("." :> 46) @@ (":" :> 58) @@ ("<" :> 60)
         @@ ("_" :> 95) @@ ("a" :> 97) @@ ("e" :> 101) @@ ("l" :> 108)
         @@ ("r" :> 114) @@ ("~" :> 126)
V(s) == [i \in DOMAIN s |-> Ascii[s[i]]]
R(major, minor) == <<V(major), V(minor)>>

MCCves == {"c1", "c2"}
MCNames == MCCves \union {"", "debian", "alpine", "ubuntu", "redhat", "rhel", "import",
                           "book", "sid", "jammy", "main", "ssl", "ssl-libs", "lib",
                           "usn", "ghsa", "dpkg", "apk", "rpm", "brew", "alma", "suse",
                           "teal"}
MCVersions == UNION {[1 .. n -> {49, 97, Tilde, Hyphen}] : n \in 0 .. 3}
                \union {V(<<"1", ":", "0">>), V(<<"0", ":", "1">>), V(<<":", "1">>),
                        V(<<"a", ":", "1">>), V(<<"1", "0", "-", "1">>),
                        V(<<"9", "-", "1", "0">>), V(<<"1", "a", "1", "~", "1">>), V(<<"1", ".">>),
                        V(<<"0">>), V(<<"0", "1">>), V(<<"1", "0">>), V(<<"a", "0">>),
                        V(<<"1", ".", "0">>), V(<<"1", "+", "a">>),
                        V(<<"8", ":", "1">>), V(<<"9", ":", "1">>), V(<<"+", "2", ":", "0">>),
                        V(<<"-", "1", ":", "1">>), V(<<"-", "2", ":", "1">>),
                        V(<<"-", "9", ":", "1">>), V(<<"-", "1", "0", ":", "1">>)}

Pkg(source, name, version, sourceName, sourceVersion, distro, like, release, codename) ==
    [source |-> source, name |-> name, version |-> version, sourceName |-> sourceName,
     sourceVersion |-> sourceVersion, distro |-> distro, like |-> like,
     release |-> release, codename |-> codename]

v1 == V(<<"1", "-", "1">>)
v1rc == V(<<"1", "~", "r", "-", "1">>)
v2 == V(<<"1", "-", "2">>)
v9 == V(<<"1", "-", "9">>)
v10 == V(<<"1", "-", "1", "0">>)
b1 == V(<<"1", "-", "1", "+", "a", "1">>)
e1 == V(<<"1", ":", "1", "-", "1", ".", "e", "l", "9">>)
e2 == V(<<"1", ":", "1", "-", "2", ".", "e", "l", "9">>)
n2 == V(<<"1", "-", "2", ".", "e", "l", "9">>)

Jammy == R(<<"2", "2">>, <<"0", "2">>)
Alpine9 == R(<<"1">>, <<"9">>)
MCPackages ==
    {Pkg("dpkg", "lib", v, "ssl", sv, d, {}, r, c) :
        v \in {v1rc, v1, v9, v10}, sv \in {<<>>}, d \in {"debian"}, r \in {R(<<"1">>, <<"2">>)}, c \in {"book", "sid", ""}}
    \union {Pkg("dpkg", "lib", b1, "ssl", sv, "ubuntu", {}, Jammy, c) :
        sv \in {v1, v2, v10}, c \in {"jammy", ""}}
    \union {Pkg("dpkg", "ssl", v, "", <<>>, "ubuntu", {}, Jammy, "jammy") : v \in {v1, v9, v10}}
    \union {Pkg("apk", "ssl", v, "", <<>>, "alpine", {}, Alpine9, "main") : v \in {v1, v2, v10}}
    \union {Pkg("rpm", "ssl", v, "ssl", sv, "alma", {"rhel"}, R(<<"9">>, <<"2">>), "teal") :
        v \in {e1, e2}, sv \in {<<>>, V(<<"1">>)}}
    \union {Pkg("rpm", "ssl", e1, "ssl", e1, "alma", {"rhel"}, R(<<"9">>, <<"2">>), "teal"),
            Pkg("rpm", "ssl", e2, "ssl", n2, "alma", {"rhel"}, R(<<"9">>, <<"2">>), "teal"),
            Pkg("rpm", "ssl", e1, "ssl", e1, "suse", {}, R(<<"9">>, <<"2">>), "teal"),
            Pkg("rpm", "ssl", e1, "ssl", e1, "rhel", {}, R(<<"8">>, <<"2">>), "teal"),
            Pkg("brew", "ssl", v1, "ssl", v1, "debian", {}, <<>>, "book")}

Rel(status, fixed) == [status |-> status, fixed |-> fixed]
DebianDoc == [id |-> "debian", source |-> "debian", body |->
    {[name |-> "ssl", cve |-> "c1",
      releases |-> ("book" :> Rel("resolved", v2) @@ "sid" :> Rel("not-affected", v10))],
     [name |-> "lib", cve |-> "c2",
      releases |-> ("book" :> Rel("open", <<Less, 97>>) @@ "sid" :> Rel("resolved", v10))]}]
AlpineDoc == [id |-> "alpine", source |-> "alpine", release |-> Alpine9,
    repository |-> "main", body |->
    {[name |-> "ssl", secfixes |-> (v2 :> {"c1", "ghsa"} @@ V(<<"0">>) :> {"c2"})],
     [name |-> "", secfixes |-> (v10 :> {"c2"})]}]
RedHatDoc == [id |-> "redhat", source |-> "redhat", body |->
    {[cves |-> {"c1", "c2", ""}, packages |->
        {[name |-> "ssl", version |-> V(<<"1", ":", "1">>),
          release |-> V(<<"2", ".", "e", "l", "9", "_", "2">>), el |-> V(<<"9">>)],
         [name |-> "lib", version |-> <<>>, release |-> <<>>, el |-> <<>>]}]}]
Ubuntu(fixes, versions) ==
    [id |-> "ubuntu", source |-> "ubuntu", body |->
      [id |-> "", upstream |-> <<"usn", "c1">>, aliases |-> <<"ghsa">>,
       affected |-> {[name |-> "ssl",
                      ecosystem |-> <<<<V(<<"0">>)>>, R(<<"1">>, <<"2">>), Jammy>>,
                      codename |-> "jammy", events |-> fixes, versions |-> versions],
                     [name |-> "lib", ecosystem |-> <<Jammy>>, codename |-> "",
                      events |-> <<>>, versions |-> versions],
                     [name |-> "", ecosystem |-> <<>>, codename |-> "",
                      events |-> <<v10>>, versions |-> {}]}]]
(* Two notes on one release, as for Ubuntu and Ubuntu Pro.                 *)
Notice == [id |-> "notice", source |-> "ubuntu", body |->
    [id |-> "c1", upstream |-> <<>>, aliases |-> <<>>, affected |->
        {[name |-> "ssl", ecosystem |-> <<Jammy>>, codename |-> "jammy",
          events |-> <<v9>>, versions |-> {v2, v10}],
         [name |-> "ssl", ecosystem |-> <<<<V(<<"0">>)>>, Jammy>>, codename |-> "jammy",
          events |-> <<v9>>, versions |-> {v2}]}]]
MCDocuments == {DebianDoc, AlpineDoc, RedHatDoc,
                Ubuntu(<<<<>>, v2, v9, <<>>>>, {v1}),
                Ubuntu(<<v10>>, {b1}), Ubuntu(<<v9>>, NoList), Notice}

MCImported ==
    {[Row("import", "rhel", <<V(<<"9">>)>>, "", "c2", "ssl-libs", e2, {}, "")
        EXCEPT !.sourceName = "ssl"],
     Row("import", "rhel", <<V(<<"9">>)>>, "", "c1", "ssl", e2, {}, ""),
     Row("ubuntu", "ubuntu", Jammy, "jammy", "c1", "ssl", v9, {v2}, "")}
=============================================================================
