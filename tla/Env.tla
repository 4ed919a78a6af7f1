-------------------------------- MODULE Env --------------------------------
(***************************************************************************)
(* The readers of environment variables in env.ts and jwt.config.ts.  What *)
(* process.env holds is kept as far as a reader tells it apart: a form, and *)
(* for numbers and durations the amount, in halves.                         *)
(***************************************************************************)
EXTENDS Integers

CONSTANT Throws    \* an Error instead of a value

\* "provider" is the name of an AuthProvider, "word" what is none of the others.
Forms == {"unset", "empty", "blank", "yes", "no", "number", "duration", "url",
          "provider", "word"}

Text(form) == [form |-> form, halves |-> 0]
Number(halves) == [form |-> "number", halves |-> halves]
Duration(halves) == [form |-> "duration", halves |-> halves]

RequireEnv(value) == IF value.form \in {"unset", "empty"} THEN Throws ELSE value

IsBlank(value) == value.form \in {"unset", "empty", "blank"}

OptionalEnv(value, fallback) == IF IsBlank(value) THEN fallback ELSE value

(* Mutant: what is not mboten is nggih.                                     *)
EnvToggleLenient(value) ==
    IF value.form \in {"unset", "empty"} THEN Throws ELSE value.form # "no"

\* nggih and mboten, in any case and with blanks around them.
EnvToggle(value) ==
    CASE value.form = "yes" -> TRUE
      [] value.form = "no"  -> FALSE
      [] OTHER              -> Throws

\* JavaScript's Number, of a number or of blanks; of anything else it is NaN.
ToNumber(value) == IF value.form = "number" THEN value.halves ELSE 0

(* Mutant: a value that is no number takes the default.                     *)
EnvNumberLenient(value, fallback) ==
    IF value.form = "number" /\ value.halves > 0 THEN value.halves ELSE fallback

EnvNumber(value, fallback) ==
    CASE IsBlank(value)                            -> fallback
      [] value.form = "number" /\ value.halves > 0 -> value.halves
      [] OTHER                                     -> Throws

(* envList, whose value is the sequence of entries between the commas; ""   *)
(* is an entry that trimming leaves empty.                                  *)
EnvList(entries, fallback) ==
    IF entries = <<>> THEN fallback
    ELSE {entries[i] : i \in DOMAIN entries} \ {""}

(* Mutant: zero is let through.                                             *)
ExpiresInAllowingZero(value) ==
    IF value.form \in {"number", "duration"} THEN value ELSE Throws

(* jwt.config: JWT_EXPIRE_IN is a positive number of seconds, or a duration *)
(* whose amount nobody looks at.                                            *)
ExpiresIn(value) ==
    CASE value.form = "number" /\ value.halves > 0 -> value
      [] value.form = "duration"                  -> value
      [] OTHER                                    -> Throws

(* jsonwebtoken's `exp - iat`, in seconds: a number must be whole, and what *)
(* a duration has beyond whole seconds is dropped.                          *)
SignedLifetime(expiresIn) ==
    IF expiresIn.form = "number" /\ expiresIn.halves % 2 # 0
    THEN Throws
    ELSE expiresIn.halves \div 2
=============================================================================
