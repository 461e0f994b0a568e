---- MODULE MCExploration ----
(***************************************************************************)
(* Three files and two symbols: more places than steps, a file found       *)
(* again under another symbol, an expansion that names a place twice, and  *)
(* as many items as there can be analyses, which any search hit contests.  *)
(***************************************************************************)
EXTENDS Exploration

CONSTANTS f1, f2, f3, s1, s2

MCFiles == {f1, f2, f3}
MCSymbols == {s1, s2}
MCOutline == [f \in MCFiles |-> IF f = f1 THEN {s1} ELSE IF f = f2 THEN {s2} ELSE {s1, s2}]

Found(f, symbols) == [file |-> f, symbols |-> symbols]
MCDiscoveries == { <<>>,
                   << Found(f1, <<s1>>) >>,
                   << Found(f2, <<s2, s1>>), Found(f1, <<>>) >>,
                   << Found(f1, <<s1>>), Found(f3, <<s2>>) >> }
MCExpansions == { <<>>,
                  << At(f3, s2), At(f3, s2) >>,
                  << At(f1, NoSymbol), At(f2, s2) >> }
====
