------------------------------ MODULE MCFeedSync ------------------------------
(* FeedSync with the two sources that main.go builds and a CVE: NVD scores *)
(* it, then dates it anew and rejects it; CISA KEV lists it as exploited,  *)
(* with no date and no severity.  NVD's second edition carries an affected *)
(* package, which the interface allows and the tests do.                   *)
EXTENDS FeedSync, TLC

CONSTANTS nvd, kev, c1, p1, high, unknown

MCSources == {nvd, kev}
MCRank == nvd :> 1 @@ kev :> 2
MCCves == {c1}
MCPackages == {p1}

Scored(date) == [rejected |-> FALSE, exploited |-> FALSE, severity |-> high,
                 modified |-> date]
Rejected(date) == [rejected |-> TRUE, exploited |-> FALSE, severity |-> unknown,
                   modified |-> date]
Exploited == [rejected |-> FALSE, exploited |-> TRUE, severity |-> unknown,
              modified |-> 0]
Affects(c) == [source |-> nvd, cve |-> c, package |-> p1]

MCEditions ==
    nvd :> << [records |-> c1 :> Scored(1), affected |-> {}],
              [records |-> c1 :> Rejected(2), affected |-> {Affects(c1)}] >> @@
    kev :> << [records |-> c1 :> Exploited, affected |-> {}] >>
=============================================================================
