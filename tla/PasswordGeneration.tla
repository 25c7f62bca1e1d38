-------------------------- MODULE PasswordGeneration --------------------------
(***************************************************************************)
(* User.generate_password of models/user.py, which makes the password that *)
(* create_or_update_user creates an account with, and nothing else:        *)
(* characters are drawn one by one, and one that would make a repetition   *)
(* or a sequence of three is drawn again.                                  *)
(*                                                                         *)
(* A character is its code (ord); a password is a sequence of them.        *)
(***************************************************************************)
EXTENDS Naturals, Sequences

CONSTANTS Char,   \* the codes of the letters and digits
          Length  \* GENERATED_PASSWORD_LENGTH

ASSUME PasswordGenerationAssumption ==
    /\ Char \subseteq Nat
    /\ \E a, b \in Char : a # b
    /\ Length \in Nat \ {0}

-----------------------------------------------------------------------------
(* The code.                                                               *)

(* is_sequential, of the last three characters x, y, z of a draft.         *)
IsSequential(x, y, z) ==
    \/ z = y + 1 /\ y = x + 1
    \/ y = z + 1 /\ x = y + 1

(* The operators named M_... are faults a change of this code could bring  *)
(* in; each property is shown to notice one of them.                       *)
M_IncreasingOnly(d, ch) ==
    Len(d) >= 2 =>
        LET y == d[Len(d)]
            x == d[Len(d) - 1]
        IN ~(ch = y /\ y = x) /\ ~(ch = y + 1 /\ y = x + 1)

(* Whether ch is appended to draft d; if not, the loop draws again.        *)
Accepts(d, ch) ==
    Len(d) >= 2 =>
        LET y == d[Len(d)]
            x == d[Len(d) - 1]
        IN ~(ch = y /\ y = x) /\ ~IsSequential(x, y, ch)

(* The drafts of n characters the loop can arrive at.                      *)
Drafts[n \in Nat] ==
    IF n <= 1 THEN {<<ch>> : ch \in Char}
    ELSE UNION {{Append(d, ch) : ch \in {x \in Char : Accepts(d, x)}} : d \in Drafts[n - 1]}

-----------------------------------------------------------------------------
(* What the docstring asks for.                                            *)

(* No character three times in a row, and no three that increase or        *)
(* decrease by one, anywhere.                                              *)
Strong(p) ==
    \A i \in 1..Len(p) : i + 2 <= Len(p) =>
        /\ ~(p[i] = p[i + 1] /\ p[i + 1] = p[i + 2])
        /\ ~(p[i + 1] = p[i] + 1 /\ p[i + 2] = p[i + 1] + 1)
        /\ ~(p[i] = p[i + 1] + 1 /\ p[i + 1] = p[i + 2] + 1)

=============================================================================
