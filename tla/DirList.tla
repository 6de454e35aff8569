------------------------------ MODULE DirList -------------------------------
(***************************************************************************)
(* What cd, pushd, popd and dirs promise: each shell environment has one   *)
(* list of directories, the current one first; a command changes that of   *)
(* the innermost environment only, and leaving a subshell brings back the  *)
(* list the shell had when it was entered.                                 *)
(***************************************************************************)
EXTENDS Naturals, SequencesExt

CONSTANTS Dirs

VARIABLES lists              \* for each environment, outermost first, its directories

(* What a command may make of the list l, its first element the current    *)
(* directory.                                                              *)
Changed(l) == {<<d>> \o Tail(l) : d \in Dirs}
Added(l) == {<<d>> \o l : d \in Dirs} \cup {<<l[1], d>> \o Tail(l) : d \in Dirs}
Swapped(l) == IF Len(l) > 1 THEN {<<l[2], l[1]>> \o SubSeq(l, 3, Len(l))} ELSE {}
Rotated(l) == {SubSeq(l, i, Len(l)) \o SubSeq(l, 1, i - 1) : i \in 2..Len(l)}
Dropped(l) == IF Len(l) > 1 THEN {RemoveAt(l, i) : i \in 1..Len(l)} ELSE {}
Cleared(l) == {<<l[1]>>}
Results(l) == Changed(l) \cup Added(l) \cup Swapped(l) \cup Rotated(l) \cup Dropped(l) \cup Cleared(l)

Commands(ls) == {Append(Front(ls), l) : l \in Results(Last(ls))}
Entered(ls) == {Append(ls, Last(ls))}
Left(ls) == IF Len(ls) > 1 THEN {Front(ls)} ELSE {}
(* A forked process only ever leaves environments it has entered itself.   *)
Cloned(ls) == {<<Last(ls)>>}

ListInit == \E d \in Dirs : lists = <<<<d>>>>
ListNext == lists' \in Commands(lists) \cup Entered(lists) \cup Left(lists) \cup Cloned(lists)
ListSpec == ListInit /\ [][ListNext]_lists
=============================================================================
