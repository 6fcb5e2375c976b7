---------------------------- MODULE EffectGuard ----------------------------
(***************************************************************************)
(* What crash recovery promises about side effects.                        *)
(*                                                                         *)
(* A call that may apply its effect twice is, at any moment, free to be    *)
(* requested, begun, or ran-but-not-recorded; a crash turns either of the  *)
(* last two into a debt.  An owed call is not run again: the next request  *)
(* for it is answered with a refusal that tells the model to look at the   *)
(* world, and only that refusal, once durable, frees the call.             *)
(*                                                                         *)
(* landed[c] counts the effects of c that the model has not been told of,  *)
(* neither by a recorded result nor by a refusal.  The promise is that it  *)
(* never exceeds one, however often the process dies.                      *)
(***************************************************************************)
EXTENDS Naturals

CONSTANT Mutating     \* the calls whose effect may be applied twice

VARIABLES phase,      \* phase[c]: where call c is in its life
          landed      \* landed[c]: effects of c nobody has reported

vars == <<phase, landed>>

Phases == {"free", "begun", "ran", "owed"}

TypeOK == /\ phase  \in [Mutating -> Phases]
          /\ landed \in [Mutating -> Nat]

Init == /\ phase  = [c \in Mutating |-> "free"]
        /\ landed = [c \in Mutating |-> 0]

\* The call is written to the history before it executes.
Begin(c) == /\ phase[c] = "free"
            /\ phase' = [phase EXCEPT ![c] = "begun"]
            /\ UNCHANGED landed

\* The effect happens in the world.
Land(c) == /\ phase[c] = "begun"
           /\ phase'  = [phase  EXCEPT ![c] = "ran"]
           /\ landed' = [landed EXCEPT ![c] = @ + 1]

\* The result is durable, and with it what the model will read.
Record(c) == /\ phase[c] = "ran"
             /\ phase'  = [phase  EXCEPT ![c] = "free"]
             /\ landed' = [landed EXCEPT ![c] = 0]

\* The process dies: nobody can tell whether the effect happened.
Interrupt(c) == /\ phase[c] \in {"begun", "ran"}
                /\ phase' = [phase EXCEPT ![c] = "owed"]
                /\ UNCHANGED landed

\* The repeat is refused, and the refusal is durable.
Refuse(c) == /\ phase[c] = "owed"
             /\ phase'  = [phase  EXCEPT ![c] = "free"]
             /\ landed' = [landed EXCEPT ![c] = 0]

Next == \E c \in Mutating :
           Begin(c) \/ Land(c) \/ Record(c) \/ Interrupt(c) \/ Refuse(c)

Spec == Init /\ [][Next]_vars

\* The promise: an effect is never applied a second time while an earlier
\* application is still unreported.
AtMostOnceUnreported == \A c \in Mutating : landed[c] <= 1
=============================================================================
