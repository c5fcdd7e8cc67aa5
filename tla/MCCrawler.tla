----------------------------- MODULE MCCrawler -----------------------------
(* Address lists of three nodes, for TLC: the last one is known to both    *)
(* others, so that two workers may be told of it at the same time.         *)
EXTENDS Crawler

Addresses == {"a", "b", "c"}
AddressLists == [n \in Addresses |->
  CASE n = "a" -> {"b", "c"} [] n = "b" -> {"c"} [] n = "c" -> {"a", "b"}]
=============================================================================
