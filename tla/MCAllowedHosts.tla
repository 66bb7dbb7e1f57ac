----------------------------- MODULE MCAllowedHosts -----------------------------
(* Small instances of AllowedHosts for TLC: a built-in host that is typed too, *)
(* another host in every form, alone and among others.                        *)
EXTENDS AllowedHosts, TLC

CONSTANTS h1, h2, e1, e2   \* hosts, editors

TwoHosts == {h1, h2}
Two      == {e1, e2}
One      == {e1}
OneBase  == <<h1>>

Url(host) == [https |-> TRUE, user |-> FALSE, port |-> FALSE, host |-> host]

SomeTexts ==
  {<<>>, <<h2>>, <<Nothing, Url(h2), h2, h1>>, <<h1, Url(h1), h2>>,
   <<[Url(h2) EXCEPT !.https = FALSE], h1>>, <<h2, Bad>>, <<Url(Bad)>>}
===============================================================================
