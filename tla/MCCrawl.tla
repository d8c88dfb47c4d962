------------------------------ MODULE MCCrawl ------------------------------
(* Small values for Crawl: two stable nodes and one that comes, goes and    *)
(* calls; and two stable ones of the first class with one of the second and *)
(* an IPv6 node.                                                            *)
EXTENDS Crawl

CONSTANTS stable, steady, flaky,    \* addresses
          s1, s2, late, v6

MCClassOf == [a \in Addr |-> IF a = flaky THEN "other" ELSE "core"]
MCKnownNodes == [a \in {} |-> NodeInfo("unknown", 0)]
MCLibre == [a \in Addr |-> IF a = late THEN "core" ELSE "libre"]
MCLibreKnown == [a \in {s1, s2} |-> NodeInfo("libre", Today)]
=============================================================================
