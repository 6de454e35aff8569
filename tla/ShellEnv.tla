------------------------------ MODULE ShellEnv ------------------------------
(***************************************************************************)
(* What variables promise.  A name has a value or none, and may be         *)
(* readonly.  A subshell works on a copy of everything; a function gives   *)
(* back, when it is left, the names it made local; a command gives back    *)
(* the names assigned in front of it.                                      *)
(***************************************************************************)
EXTENDS Naturals, Sequences, SequencesExt

CONSTANTS Names, Texts,
          Nil           \* the value of a name that is not set

VARIABLES env,          \* env[n]: what n is now, [val, ro]
          frames        \* one element per open scope: what leaving it gives back

envVars == <<env, frames>>

Entries == [val : Texts \cup {Nil}, ro : BOOLEAN]

Left(e, saved) == [n \in Names |-> IF n \in DOMAIN saved THEN saved[n] ELSE e[n]]
Nothing == [n \in {} |-> 0]

EnvInit == env \in [Names -> Entries] /\ frames = <<>>

(* What a command may make of the environment e under the scopes f: pairs  *)
(* of both.                                                                *)
Free(e) == {n \in Names : ~e[n].ro}
Set(e, f) == {<<[e EXCEPT ![n].val = v], f>> : n \in Free(e), v \in Texts \cup {Nil}}
Freeze(e, f) == {<<[e EXCEPT ![n] = [val |-> v, ro |-> TRUE]], f>> : n \in Free(e), v \in Texts}
                  \cup {<<[e EXCEPT ![n].ro = TRUE], f>> : n \in {m \in Names : e[m].val \in Texts}}
Fork(e, f) == {<<e, Append(f, e)>>}
Call(e, f) == {<<e, Append(f, Nothing)>>}
CallWith(e, f) == {<<[e EXCEPT ![n].val = v], Append(f, [m \in {n} |-> e[m]])>> : n \in Free(e), v \in Texts}
Saving(saved, e, n) == [m \in DOMAIN saved \cup {n} |-> IF m \in DOMAIN saved THEN saved[m] ELSE e[m]]
Localize(e, f) == IF f = <<>> THEN {}
                  ELSE {<<[e EXCEPT ![n].val = v], [f EXCEPT ![Len(f)] = Saving(@, e, n)]>> : n \in Free(e), v \in Texts}
(* Out of the innermost scope, or out of all down to the k-th.             *)
Leave(e, f) == {<<FoldRight(LAMBDA saved, d : Left(d, saved), SubSeq(f, k, Len(f)), e), SubSeq(f, 1, k - 1)>> : k \in DOMAIN f}
Results(e, f) == Set(e, f) \cup Freeze(e, f) \cup Fork(e, f) \cup Call(e, f) \cup CallWith(e, f) \cup Localize(e, f) \cup Leave(e, f)

EnvNext == <<env', frames'>> \in Results(env, frames)

EnvSpec == EnvInit /\ [][EnvNext]_envVars
=============================================================================
