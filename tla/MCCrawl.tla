------------------------------ MODULE MCCrawl -------------------------------
(* Small instances of Crawl: what its constants are in the .cfg files. *)
EXTENDS Crawl

CONSTANTS
  s1, s2,       \* websites
  w1, w2        \* workers

\* The real steps are 2, 4, 8 and 24 hours, the real frequencies a day or more.
ShortBackoff == <<1, 1, 1, 1>>
Often == [s \in Sources |-> 1]
=============================================================================
