--------------------------- MODULE MCMediaResolver ---------------------------
(* Links of every provider: its own, one with an unknown path, one whose     *)
(* explicit provider is another's, one whose provider is not enabled.        *)
EXTENDS MediaResolver

L(s, p, e) == [site |-> s, path |-> p, explicit |-> e]
MCLinks ==
  {L("ig", "reel", None), L("ig", "post", None), L("fb", "reel", None), L("yt", "post", None),
   L("direct", "post", None), L("ig", "unknown", "ig"), L("direct", "post", "fb")}
MCInit == Init /\ link \in MCLinks

(* Clean-ups overlap for the one link only, to keep the instance small.      *)
First == CHOOSE s \in Sweeps : TRUE
MCNext == Next /\ (link.site = "fb" \/ \A s \in Sweeps \ {First} : sweep'[s] = NoSweep)
MCSpec == MCInit /\ [][MCNext]_vars /\ Fairness
=============================================================================
