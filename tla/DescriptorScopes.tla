-------------------------- MODULE DescriptorScopes --------------------------
(***************************************************************************)
(* What redirections promise.  A numbered descriptor means a file.  The    *)
(* redirections of a command take effect from left to right; a scope (a    *)
(* redirected command, a subshell, a substitution) starts from the         *)
(* meanings around it and, when it is left, gives back what it overrode.   *)
(***************************************************************************)
EXTENDS Naturals, Sequences, SequencesExt

CONSTANTS
  Nums,        \* the descriptor numbers scripts use
  Files,       \* what a descriptor may be open on
  Closed,      \* the meaning of a number that is not open
  Sinks,       \* where the output of a $( ) is collected
  Lists        \* the redirection lists of commands, from left to right

VARIABLES
  cur,         \* cur[n]: the file number n means now
  saved        \* one element per open scope: what leaving it gives back

scopeVars == <<cur, saved>>

Meanings == [Nums -> Files \cup {Closed}]

(* One redirection: n>file, n>&m, n>&- and n<<here.                        *)
Redirect(m, r) == [m EXCEPT ![r.n] = CASE r.act = "dup"   -> m[r.src]
                                       [] r.act = "close" -> Closed
                                       [] OTHER           -> r.file]
Redirected(m, list) == FoldLeft(Redirect, m, list)

ScopeInit == cur \in Meanings /\ saved = <<>>

(* A redirected command gives back the numbers it redirected.              *)
Open(list) == /\ saved' = Append(saved, [n \in {list[i].n : i \in DOMAIN list} |-> cur[n]])
              /\ cur' = Redirected(cur, list)

(* A subshell gives everything back; a substitution also collects number 1 *)
Isolate(m) == saved' = Append(saved, cur) /\ cur' = m

(* exec: no scope is opened, so a scope left later gives back only what    *)
(* that one saved.                                                         *)
Change(list) == cur' = Redirected(cur, list) /\ UNCHANGED saved

Close == /\ saved # <<>>
         /\ LET top == Last(saved)
            IN  cur' = [n \in Nums |-> IF n \in DOMAIN top THEN top[n] ELSE cur[n]]
         /\ saved' = Front(saved)

ScopeNext == \/ \E list \in Lists : Open(list) \/ Change(list)
             \/ \E m \in {cur} \cup {[cur EXCEPT ![1] = s] : s \in Sinks} : Isolate(m)
             \/ Close

ScopeSpec == ScopeInit /\ [][ScopeNext]_scopeVars
=============================================================================
