------------------------------ MODULE TextTools ------------------------------
(***************************************************************************)
(* StringTool and CheckTool, which server and client both have: how lists  *)
(* of numbers travel as text (the record of a statement, the rights of a   *)
(* user, the list of subjects), and what the client lets its user type.  A *)
(* text is a sequence of character codes.                                  *)
(***************************************************************************)
EXTENDS Integers, FiniteSets, SequencesExt

Bar == 124
Tilde == 126
Dash == 45
Digits == 48..57

Byte(n) == n % 256

------------------------------------------------------------------------------
(* StringTool *)

\* The pieces between the separators; one after the last separator only if it is
\* not empty.
Splite(str, spl) ==
    LET cuts == {i \in DOMAIN str : str[i] = spl}
        n == Cardinality(cuts)
        ends == [k \in 0..(n + 1) |->
                    IF k = 0 THEN 0 ELSE IF k > n THEN Len(str) + 1
                    ELSE CHOOSE i \in cuts : Cardinality({j \in cuts : j <= i}) = k]
    IN [k \in 1..(IF ends[n] = Len(str) THEN n ELSE n + 1) |->
           SubSeq(str, ends[k - 1] + 1, ends[k] - 1)]

\* sprintf("%d") of a number that is not negative.
NumberToStr(n) ==
    LET width == CHOOSE w \in 1..9 : n < 10^w /\ (w = 1 \/ n >= 10^(w - 1))
    IN [i \in 1..width |-> 48 + ((n \div 10^(width - i)) % 10)]

\* The number a text begins with; what follows it is not looked at.
Atoi(str) ==
    LET n == CHOOSE k \in 0..Len(str) :
                 /\ \A i \in 1..k : str[i] \in Digits
                 /\ k = Len(str) \/ str[k + 1] \notin Digits
        value[k \in 0..n] == IF k = 0 THEN 0 ELSE 10 * value[k - 1] + str[k] - 48
    IN value[n]

CombVecToStr(vec, com) ==
    LET comb[k \in DOMAIN vec] == IF k = 1 THEN vec[1] ELSE Append(comb[k - 1], com) \o vec[k]
    IN IF vec = <<>> THEN <<>> ELSE comb[Len(vec)]

CombArrayToStr(arr, com) == CombVecToStr([i \in DOMAIN arr |-> NumberToStr(arr[i])], com)

StrSpliteToUcArray(arr, str, spl) ==
    LET items == Splite(str, spl)
    IN [i \in DOMAIN arr |-> IF i \in DOMAIN items THEN Byte(Atoi(items[i])) ELSE arr[i]]

------------------------------------------------------------------------------
(* CheckTool *)

AtoZ == <<65, 126, 90>>
atoz == <<97, 126, 122>>
OtoNine == <<48, 126, 57>>

CheckStringLen(str, len) == Len(str) <= len

\* A list of what is valid names no range twice, and besides ranges only single
\* characters, each once.
CheckValidString(items) ==
    /\ IsInjective(items)
    /\ \A i \in DOMAIN items : items[i] \in {AtoZ, atoz, OtoNine} \/ Len(items[i]) <= 1

\* FindValidIndex and the functions of CheckValidForXXX.
CheckValidForXXX(ch, item) ==
    CASE item = AtoZ -> ch \in 65..90
      [] item = atoz -> ch \in 97..122
      [] item = OtoNine -> ch \in 48..57
      [] OTHER -> item = <<ch>>

\* An item that is neither a range nor one character ends the search.
CheckCharByValid(ch, items) ==
    \E i \in DOMAIN items :
        /\ CheckValidForXXX(ch, items[i])
        /\ \A j \in 1..(i - 1) : items[j] # <<>>

CheckStringByValid(str, valid) ==
    \/ valid = <<>>
    \/ LET items == Splite(valid, Bar)
       IN /\ CheckValidString(items)
          /\ \A i \in DOMAIN str : CheckCharByValid(str[i], items)

\* The check of a list that the user has typed: the separators are taken out.
CheckStringVaildRemoveSpl(str, spl, valid) ==
    CheckStringByValid(SelectSeq(str, LAMBDA ch : ch # spl), valid)
==============================================================================
