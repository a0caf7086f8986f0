------------------------------- MODULE ConfigNumber -------------------------------
(***************************************************************************)
(* How a number of the configuration file is read twice: config::integer()   *)
(* checks the text as decimal, and iniparser_getint() later reads the same    *)
(* text with strtol() and base 0, which also knows octal and hexadecimal.    *)
(***************************************************************************)
EXTENDS Integers, Sequences

CONSTANTS
    MaxLength,  \* of a text
    Low, High,  \* the range that the key allows
    LongMax     \* strtol() goes no further; a long has 32 bits here

ASSUME ConfigNumberAssumption ==
    {MaxLength, LongMax} \subseteq Nat /\ Low \in Int /\ High \in Low..LongMax /\ -LongMax < Low

Chars == {"-", "0", "1", "8", "x", "y"}

VARIABLES
    text,     \* the value in the file
    reading,    \* check, read, done or refused
    checked,  \* what config::number() returned
    read      \* what rk_param_get_int() returned

numberVars == <<text, reading, checked, read>>

NumberInitWith(t) == text = t /\ reading = "check" /\ checked = 0 /\ read = 0
NumberInit == \E t \in UNION {[1..n -> Chars] : n \in 0..MaxLength} : NumberInitWith(t)

-----------------------------------------------------------------------------
(* strtol() *)

Digit(c) == CASE c = "0" -> 0 [] c = "1" -> 1 [] c = "8" -> 8 [] OTHER -> 99
Negative(s) == s # <<>> /\ s[1] = "-"
Unsigned(s) == IF Negative(s) THEN Tail(s) ELSE s

\* The longest run of digits of the base at the beginning.
Run(s, base) ==
    LET n == CHOOSE k \in 0..Len(s) :
                /\ \A i \in 1..k : Digit(s[i]) < base
                /\ k = Len(s) \/ Digit(s[k + 1]) >= base
    IN  SubSeq(s, 1, n)

\* The number that the first digits of a run make, for each count of them.
NumberOf(run, base) ==
    LET value[i \in 0..Len(run)] ==
            IF i = 0 THEN 0 ELSE value[i - 1] * base + Digit(run[i])
    IN  value
Magnitude(s, base) == NumberOf(Run(s, base), base)[Len(Run(s, base))]

Overflows(s, base) == Magnitude(s, base) > LongMax
Value(s, base) == IF Overflows(s, base) THEN LongMax ELSE Magnitude(s, base)

\* Base 0: a leading 0x means 16 (when a digit follows), a leading 0 means 8.
Hex(s) == Len(s) > 2 /\ s[1] = "0" /\ s[2] = "x" /\ Digit(s[3]) < 16
Strtol0(s) ==
    LET u == Unsigned(s)
        n == IF Hex(u) THEN Value(SubSeq(u, 3, Len(u)), 16)
             ELSE IF u # <<>> /\ u[1] = "0" THEN Value(u, 8)
             ELSE Value(u, 10)
    IN  IF Negative(s) THEN -n ELSE n
Strtol10(s) == IF Negative(s) THEN -Value(Unsigned(s), 10) ELSE Value(Unsigned(s), 10)

-----------------------------------------------------------------------------
(* The two readers *)

\* Mutant: a zero behind the sign is not seen.
PaddedBehindSign(s) == Len(s) > 1 /\ s[1] = "0"

\* A zero followed by anything is refused, because it would be read as octal.
Padded(s) == LET u == Unsigned(s) IN Len(u) > 1 /\ u[1] = "0"

Accepted(s) ==
    /\ s # <<>> /\ \A i \in DOMAIN s : s[i] \in {"-", "0", "1", "8"}
    /\ ~Padded(s)
    /\ ~Overflows(Unsigned(s), 10)
    /\ Unsigned(s) # <<>> /\ Run(Unsigned(s), 10) = Unsigned(s)
    /\ Strtol10(s) \in Low..High

Check ==
    /\ reading = "check"
    /\ IF Accepted(text) THEN reading' = "read" /\ checked' = Strtol10(text)
       ELSE reading' = "refused" /\ UNCHANGED checked
    /\ UNCHANGED <<text, read>>

Read ==
    /\ reading = "read"
    /\ reading' = "done" /\ read' = Strtol0(text)
    /\ UNCHANGED <<text, checked>>

NumberNext == Check \/ Read

NumberSpec == NumberInit /\ [][NumberNext]_numberVars

-----------------------------------------------------------------------------
(* Properties *)

\* What runs is what was checked: no text is one number for the check and another
\* for the program, and no text leaves the range on the way.
RunsAsChecked == reading = "done" => read = checked /\ read \in Low..High

\* The digits of a number below 1000, and the text a person writes for it.
Decimal(n) ==
    LET m == IF n < 0 THEN -n ELSE n
    IN  IF m < 10 THEN <<m>> ELSE IF m < 100 THEN <<m \div 10, m % 10>>
        ELSE <<m \div 100, (m \div 10) % 10, m % 10>>
Written(n, s) ==
    /\ -1000 < n /\ n < 1000 /\ (Negative(s) <=> n < 0)
    /\ Len(Unsigned(s)) = Len(Decimal(n))
    /\ \A i \in DOMAIN Unsigned(s) : Digit(Unsigned(s)[i]) = Decimal(n)[i]

\* The check is no stricter than it must be: every number of the range (below 1000),
\* written plainly, is accepted, zero and negative ones too.
PlainNumbersAccepted ==
    reading = "refused" => \A n \in Low..High : ~Written(n, text)

\* A number means one thing: what config::validate() checks is what the program
\* reads, and every number of the range has a text that is accepted.
NumbersAgree == RunsAsChecked /\ PlainNumbersAccepted
=============================================================================
