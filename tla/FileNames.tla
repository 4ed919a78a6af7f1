------------------------------ MODULE FileNames ------------------------------
(***************************************************************************)
(* R2Service.sanitizeFilename: what becomes of the name of an uploaded     *)
(* file, before it ends a key.  A character stands for its class: a        *)
(* letter, digit or underscore ("a"); a dot; a dash; a separator; the      *)
(* ellipsis, for the characters that NFKD writes as several dots; or       *)
(* anything else.  A character that NFKD writes as one or several other    *)
(* characters is written as those here; but one that it writes as a        *)
(* separator counts as anything else, since the code cuts at separators    *)
(* before it normalizes, and then makes a dash of either.                  *)
(***************************************************************************)
EXTENDS Naturals, SequencesExt

CONSTANT MaxName   \* characters a name may keep

Characters == {"a", ".", "-", "/", "\\", "ellipsis", "other"}
Separators == {"/", "\\"}
Kept       == {"a", ".", "-"}
Trimmed    == {".", "-"}

\* The name of a file whose own name leaves nothing: file.
DefaultName == <<"a", "a", "a", "a">>

\* A hundred in the code; the default is not cut.
ASSUME NameAssumption == MaxName \in Nat /\ MaxName >= Len(DefaultName)

-----------------------------------------------------------------------------
(* The steps of sanitizeFilename, in their order.                           *)
Base(name) ==
    SubSeq(name, SelectLastInSeq(name, LAMBDA c : c \in Separators) + 1, Len(name))

Nfkd(c) == IF c = "ellipsis" THEN <<".", ".", ".">> ELSE <<c>>

Decomposed(name) == FlattenSeq([i \in DOMAIN name |-> Nfkd(name[i])])

(* Mutant: what is not kept is dropped, not replaced.                       *)
ConservativeDropping(name) == SelectSeq(name, LAMBDA c : c \in Kept)

Conservative(name) == [i \in DOMAIN name |-> IF name[i] \in Kept THEN name[i] ELSE "-"]

\* Of a run of dashes the first is left.
Collapsed(name) ==
    FlattenSeq([i \in DOMAIN name |->
                   IF i > 1 /\ name[i] = "-" /\ name[i - 1] = "-" THEN <<>> ELSE <<name[i]>>])

Stripped(name) ==
    LET first == SelectInSeq(name, LAMBDA c : c \notin Trimmed)
    IN  IF first = 0 THEN <<>> ELSE SubSeq(name, first, Len(name))

SanitizeFilename(originalname) ==
    LET cleaned == Stripped(Collapsed(Conservative(Decomposed(Base(originalname)))))
    IN  IF cleaned = <<>> THEN DefaultName
        ELSE SubSeq(cleaned, 1, IF Len(cleaned) < MaxName THEN Len(cleaned) ELSE MaxName)

-----------------------------------------------------------------------------
(* What the names are like.                                                 *)
HasTwo(name, c) == \E i \in 1 .. Len(name) - 1 : name[i] = c /\ name[i + 1] = c

HasTwoDots(name) == HasTwo(name, ".")

\* A name that sanitizeFilename returns.
CleanName(name) ==
    /\ name \in Seq(Kept)
    /\ Len(name) \in 1..MaxName
    /\ name[1] \notin Trimmed
    /\ ~HasTwo(name, "-")

\* A name without two dots in a row, or a character that stands for some.
PlainName(name) == ~HasTwoDots(name) /\ \A i \in DOMAIN name : name[i] # "ellipsis"
=============================================================================
