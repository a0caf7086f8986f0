--------------------------------- MODULE IniFile ---------------------------------
(***************************************************************************)
(* common/param/iniparser.c: loading an INI file into a dictionary and       *)
(* dumping one. A text is a sequence of characters of interest, a name is    *)
(* the sequence of its parts between colons ("section:key"), and a           *)
(* dictionary is the sequence of its entries in slot order (nothing in the   *)
(* program removes an entry, so insertion order is slot order).              *)
(***************************************************************************)
EXTENDS Naturals, SequencesExt

IsSequence(s) == s \in Seq(ToSet(s))

Quotes == {"\"", "'"}

\* Characters: "a" any other, "L" so many that padding the key makes the line
\* too long, "~" the text of a line that a continuation swallowed.
Entry(name, val) == [name |-> name, val |-> val, null |-> FALSE]
SectionEntry(name) == [name |-> name, val |-> <<>>, null |-> TRUE]

\* Kinds of line: section, entry, comment, blank, syntax (an error), long.
Line(kind, name, text) == [kind |-> kind, name |-> name, text |-> text]
Blank == Line("blank", <<>>, <<>>)

-----------------------------------------------------------------------------
(* Loading *)

Strip(t) ==
    LET ink == {i \in DOMAIN t : t[i] # " "}
    IN  IF ink = {} THEN <<>> ELSE SubSeq(t, Min(ink), Max(ink))

\* The longest prefix with none of the characters.
UpTo(t, stops) ==
    LET at == {i \in DOMAIN t : t[i] \in stops}
    IN  IF at = {} THEN t ELSE SubSeq(t, 1, Min(at) - 1)

\* The value of "key = text": quoted text to the next quote or the end, or
\* text up to a comment; "" and '' are the empty value.
ValueOf(text) ==
    LET t == Strip(text)
        quoted == Len(t) > 1 /\ t[1] \in Quotes /\ t[2] # t[1]
        plain == Strip(UpTo(t, {";", "#"}))
    IN  IF quoted THEN UpTo(Tail(t), {t[1]})
        ELSE IF plain \in {<<q, q>> : q \in Quotes} THEN <<>> ELSE plain

\* dictionary_set().
Put(d, e) ==
    IF \E i \in DOMAIN d : d[i].name = e.name
    THEN [i \in DOMAIN d |-> IF d[i].name = e.name THEN e ELSE d[i]]
    ELSE Append(d, e)

Process(r, line) ==
    CASE line.kind = "section" ->
            [r EXCEPT !.section = line.name, !.dict = Put(@, SectionEntry(line.name))]
      [] line.kind = "entry" ->
            [r EXCEPT !.dict = Put(@, Entry(r.section \o line.name, ValueOf(line.text)))]
      [] line.kind = "syntax" -> [r EXCEPT !.ok = FALSE]
      [] OTHER -> r

\* A line that ends in a backslash waits for the next one.
Continues(line) ==
    LET t == Strip(line.text) IN Len(t) > 0 /\ Last(t) = "\\"

\* What a waiting line becomes when the next one is read.
Joined(r, line) ==
    IF r.waiting.kind = "none" THEN line
    ELSE LET more == IF line.kind = "blank" THEN <<>>
                     ELSE <<"~">> \o (IF Continues(line) THEN <<"\\">> ELSE <<>>)
         IN  [r.waiting EXCEPT !.text = @ \o more]

NoLine == Line("none", <<>>, <<>>)

ReadLine(r, line) ==
    IF ~r.ok THEN r
    ELSE IF line.kind = "long" THEN [r EXCEPT !.ok = FALSE]
    ELSE LET l == Joined(r, line)
         IN  IF Continues(l) THEN [r EXCEPT !.waiting = [l EXCEPT !.text = Front(Strip(@))]]
             ELSE Process([r EXCEPT !.waiting = NoLine], l)

Opened == [ok |-> TRUE, dict |-> <<>>, section |-> <<"">>, waiting |-> NoLine]

\* What is known after each of the lines.
Reading(lines) ==
    LET r[i \in 0..Len(lines)] == IF i = 0 THEN Opened ELSE ReadLine(r[i - 1], lines[i]) IN r

\* iniparser_load(): no dictionary after an error or inside a continuation.
Load(lines) ==
    LET r == Reading(lines)[Len(lines)]
    IN  [ok |-> r.ok /\ r.waiting = NoLine,
         dict |-> IF r.ok /\ r.waiting = NoLine THEN r.dict ELSE <<>>]

-----------------------------------------------------------------------------
(* Dumping *)

IsSection(e) == Len(e.name) = 1

\* "%-30s = %s", unquoted.
DumpEntry(name, val) ==
    Line(IF \E i \in DOMAIN val : val[i] = "L" THEN "long" ELSE "entry", name, val)

DumpSection(d, s) ==
    <<Blank, Line("section", <<s>>, <<>>)>>
    \o FlattenSeq([i \in DOMAIN d |->
            IF Len(d[i].name) > 1 /\ d[i].name[1] = s
            THEN <<DumpEntry(Tail(d[i].name), d[i].val)>> ELSE <<>>])
    \o <<Blank>>

\* Mutant: keys are written in the order of the table.
DumpUnordered(d) == [i \in DOMAIN d |-> DumpEntry(d[i].name, d[i].val)]
\* iniparser_dump_ini(): section by section, or all keys as they are.
Dump(d) ==
    IF \A i \in DOMAIN d : ~IsSection(d[i])
    THEN [i \in DOMAIN d |-> DumpEntry(d[i].name, d[i].val)]
    ELSE FlattenSeq([i \in DOMAIN d |->
            IF IsSection(d[i]) THEN DumpSection(d, d[i].name[1]) ELSE <<>>]) \o <<Blank>>
=============================================================================
