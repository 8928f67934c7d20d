--------------------------- MODULE MCInfiniteFetch ---------------------------
(* Small instances of InfiniteFetch. *)
EXTENDS InfiniteFetch

CONSTANTS o1, o2

MCObservers == {o1, o2}
MCLowPage == -1

\* One observer with every max_pages (None, 0, 1, 2), and two observers.
MCOne == [pool : BOOLEAN, live : {{o1}}, max : {0, 1, 2, NoMax},
          calls : {{"fetch", "fetch_with", "drop", "clear"}}, panics : {FALSE}]
MCTwo == [pool : BOOLEAN, live : {{o1, o2}}, max : {2},
          calls : {{"fetch", "drop", "set_infinite_data"}}, panics : BOOLEAN]
MCSetups == MCOne \cup MCTwo
=============================================================================
