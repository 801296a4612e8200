---------------------------- MODULE ArchiveSyntax ----------------------------
(***************************************************************************)
(* What a Discord export's bytes are taken for                             *)
(* (crates/discord-archive/src/structure.rs, profile.rs, record.rs): the   *)
(* byte-wise guard in front of the JSON parser with the scanner of numbers *)
(* it drives, the shape that the records of a transcript are merged into,  *)
(* and the calendar.  Each is driven through bounded inputs - bytes one at *)
(* a time, pairs of records, days one after the other - and compared with  *)
(* what it is meant to accept.                                             *)
(*                                                                         *)
(* A byte is a one-character string.  Integers stop at MaxU64 as the       *)
(* checked arithmetic of the code does.                                    *)
(***************************************************************************)
EXTENDS Integers, Sequences, FiniteSets, SequencesExt

CONSTANTS
    MaxU64,         \* the largest identifier
    MaxDepth, MaxScalar, MaxRecord,   \* limits of the guard
    Expansion,      \* raw bytes a decoded byte of a string may take, 6 in the code
    Alphabets,      \* sets of bytes an input is made of
    MaxBytes,       \* length of an input
    Ids, Stamps, Texts,   \* what the fields of a record may hold, "absent" among them
    FirstDays,      \* [y, m, d, n]: days whose number since 1970 is known
    MaxDays         \* days walked from a first day

VARIABLES
    alphabet, fed,  \* the bytes read so far
    guard,          \* LexicalGuard
    records,        \* the items of a transcript
    today, walked   \* a day and how many days it is after the first one

syntaxVars == <<alphabet, fed, guard, records, today, walked>>
-----------------------------------------------------------------------------
\* DecimalScanner

Digits == {"0", "1", "2", "3", "4", "5", "6", "7", "8", "9"}
Blank == {" ", "\t", "\n", "\r"}
Value(b) == CHOOSE n \in 0..9 : ToString(n) = b
Overflow == -1
Scanner == [at |-> "Leading", noncanonical |-> FALSE, zero |-> FALSE, value |-> Overflow]

\* checked_mul(10) and checked_add
Times10(value, digit) ==
    IF value = Overflow \/ 10 * value + digit > MaxU64 THEN Overflow ELSE 10 * value + digit

Push(s, b) ==
    CASE s.at = "Leading" /\ b \in Blank -> [s EXCEPT !.noncanonical = TRUE]
      [] s.at = "Leading" /\ b \in {"+", "-"} -> [s EXCEPT !.noncanonical = TRUE, !.at = "Sign"]
      [] s.at \in {"Leading", "Sign"} /\ b \in Digits ->
            [s EXCEPT !.zero = (b = "0"), !.value = Value(b), !.at = "Integer"]
      [] s.at \in {"Leading", "Sign"} /\ b = "." ->
            [s EXCEPT !.noncanonical = TRUE, !.at = "BarePoint"]
      [] s.at = "Integer" /\ b \in Digits ->
            [s EXCEPT !.noncanonical = @ \/ s.zero, !.value = Times10(@, Value(b))]
      [] s.at = "Integer" /\ b = "." -> [s EXCEPT !.noncanonical = TRUE, !.at = "IntegerPoint"]
      [] s.at \in {"BarePoint", "IntegerPoint", "Fraction"} /\ b \in Digits ->
            [s EXCEPT !.at = "Fraction"]
      [] s.at \in {"Integer", "IntegerPoint", "Fraction"} /\ b \in {"e", "E"} ->
            [s EXCEPT !.noncanonical = TRUE, !.at = "Exponent"]
      [] s.at = "Exponent" /\ b \in {"+", "-"} -> [s EXCEPT !.at = "ExponentSign"]
      [] s.at \in {"Exponent", "ExponentSign", "ExponentDigits"} /\ b \in Digits ->
            [s EXCEPT !.at = "ExponentDigits"]
      [] s.at \in {"Integer", "IntegerPoint", "Fraction", "ExponentDigits", "Trailing"}
            /\ b \in Blank -> [s EXCEPT !.noncanonical = TRUE, !.at = "Trailing"]
      [] OTHER -> [s EXCEPT !.at = "Invalid"]

Finish(s) ==
    IF s.at \notin {"Integer", "IntegerPoint", "Fraction", "ExponentDigits", "Trailing"} THEN "Other"
    ELSE IF s.noncanonical THEN "NoncanonicalDecimal"
    ELSE IF s.value = Overflow THEN "OutOfU64Range"
    ELSE IF s.value = 0 THEN "Zero" ELSE "CanonicalPositiveU64Decimal"

DecimalGrammar(bytes) == Finish(FoldLeft(Push, Scanner, bytes))
-----------------------------------------------------------------------------
\* LexicalGuard::observe, one byte at a time

Guard == [started |-> FALSE, array |-> FALSE, depth |-> 0, string |-> FALSE, escaped |-> FALSE,
          scalar |-> 0, number |-> FALSE, decimal |-> Scanner, numeric |-> "Other", record |-> 0,
          refused |-> FALSE]

Started(g, b) == IF g.started \/ b \in Blank THEN g
                 ELSE [g EXCEPT !.started = TRUE, !.array = (b = "[")]

\* The bytes of the item of a root array that is being read.
Counted_Shared(g, b) ==
    IF g.started /\ ~(g.array /\ g.depth = 0) THEN [g EXCEPT !.record = @ + 1] ELSE g

Counted(g, b) ==
    IF g.array /\ g.depth = 1 /\ ~g.string /\ b \in {",", "]"} THEN [g EXCEPT !.record = 0]
    ELSE IF g.started /\ ~(g.array /\ g.depth = 0) THEN [g EXCEPT !.record = @ + 1]
    ELSE g

InString(g, b) ==
    IF ~g.escaped /\ b = "\"" THEN [g EXCEPT !.string = FALSE, !.scalar = 0]
    ELSE [g EXCEPT !.scalar = @ + 1, !.escaped = ~@ /\ b = "\\"]

Numeric(g, b) ==
    LET decimal == Push(IF g.number THEN g.decimal ELSE Scanner, b)
    IN [g EXCEPT !.scalar = IF g.number THEN @ + 1 ELSE 1, !.number = TRUE,
                 !.decimal = decimal, !.numeric = Finish(decimal)]

Outside(g, b) ==
    CASE b = "\"" -> [g EXCEPT !.string = TRUE, !.escaped = FALSE, !.scalar = 0, !.number = FALSE]
      [] b \in {"[", "{"} -> [g EXCEPT !.depth = @ + 1, !.number = FALSE]
      [] b \in {"]", "}"} -> [g EXCEPT !.depth = IF @ = 0 THEN 0 ELSE @ - 1, !.number = FALSE]
      [] b \in Blank \cup {",", ":"} -> [g EXCEPT !.number = FALSE, !.scalar = 0]
      [] OTHER -> Numeric(g, b)

Observe(g, b) ==
    LET counted == Counted(Started(g, b), b)
        after == IF counted.string THEN InString(counted, b) ELSE Outside(counted, b)
    IN [after EXCEPT !.refused =
            \/ after.record > MaxRecord
            \/ after.depth > MaxDepth
            \/ after.scalar > IF after.string THEN Expansion * MaxScalar ELSE MaxScalar]

Feed(b) ==
    /\ Len(fed) < MaxBytes /\ ~guard.refused /\ b \in alphabet
    /\ fed' = Append(fed, b) /\ guard' = Observe(guard, b)
    /\ UNCHANGED <<alphabet, records, today, walked>>
-----------------------------------------------------------------------------
\* ObservedShape and the summary of a transcript

\* An item of a transcript is an object of some fields, or something else.  The
\* fields stand for themselves and for Attachments, which is read as Contents is.
\* What a value is seen as: numbers and strings of every grammar look alike.
Shape(value) == IF value \in {"id", "zero", "large"} THEN "unsigned"
                ELSE IF value \in {"seconds", "millis", "text"} THEN "string"
                ELSE value
ShapeOf(item) == [item EXCEPT !.fields = [k \in DOMAIN @ |-> Shape(@[k])]]

\* merge: a key that either side has is kept, and what differs is mixed.
Merge(a, b) ==
    CASE a.type = "object" /\ b.type = "object" ->
            [type |-> "object",
             fields |-> [k \in DOMAIN a.fields \cup DOMAIN b.fields |->
                            IF k \notin DOMAIN b.fields THEN a.fields[k]
                            ELSE IF k \notin DOMAIN a.fields \/ a.fields[k] = b.fields[k]
                            THEN b.fields[k] ELSE "mixed"]]
      [] a.type # "object" /\ a = b -> a
      [] OTHER -> [type |-> "mixed", fields |-> <<>>]

Items == FoldLeft(Merge, ShapeOf(Head(records)), [n \in 1..Len(records) - 1 |-> ShapeOf(records[n + 1])])
Objects == {n \in DOMAIN records : records[n].type = "object"}
With(key) == {n \in Objects : key \in DOMAIN records[n].fields}

\* NodeSummary: the grammars seen at a key and how many objects lack it.
Grammars(key, kinds) == {records[n].fields[key] : n \in With(key)} \cap kinds
Missing(key) == Cardinality(Objects) - Cardinality(With(key))

\* transcript: the fields every sent message has to have, in one shape.
Transcript ==
    records = <<>> \/
    LET items == Items
        field(key, type) == /\ key \in DOMAIN items.fields /\ items.fields[key] = type
                            /\ Missing(key) = 0
    IN /\ items.type = "object"
       /\ field("ID", "unsigned") /\ Grammars("ID", {"id", "zero", "large"}) = {"id"}
       /\ field("Timestamp", "string")
       /\ Grammars("Timestamp", {"seconds", "millis", "text"}) = {"seconds"}
       /\ field("Contents", "string")
-----------------------------------------------------------------------------
\* The calendar

Leap(y) == y % 4 = 0 /\ (y % 100 # 0 \/ y % 400 = 0)
MonthDays == <<0, 31, 59, 90, 120, 151, 181, 212, 243, 273, 304, 334>>

LastDay(y, m) == CASE m \in {1, 3, 5, 7, 8, 10, 12} -> 31
                   [] m \in {4, 6, 9, 11} -> 30
                   [] m = 2 -> IF Leap(y) THEN 29 ELSE 28

\* calendar_grammar
IsDay(y, m, d) == y \in 1..9999 /\ m \in 1..12 /\ d >= 1 /\ d <= LastDay(y, m)

\* timestamp_millis: days since 1970 by arithmetic
DayNumber(y, m, d) ==
    LET before == y - 1
    IN before * 365 + before \div 4 - before \div 100 + before \div 400 + MonthDays[m]
       + (IF Leap(y) /\ m > 2 THEN 1 ELSE 0) + d - 1 - 719162

\* The next day is the first of the three candidates that is a day.
Tomorrow(t) == IF IsDay(t.y, t.m, t.d + 1) THEN [t EXCEPT !.d = @ + 1]
               ELSE IF t.m < 12 THEN [t EXCEPT !.m = @ + 1, !.d = 1]
               ELSE [t EXCEPT !.y = @ + 1, !.m = 1, !.d = 1]

Walk ==
    /\ today.y > 0 /\ walked < MaxDays
    /\ today' = Tomorrow(today) /\ walked' = walked + 1
    /\ UNCHANGED <<alphabet, fed, guard, records>>
-----------------------------------------------------------------------------
NoDay == [y |-> 0, m |-> 0, d |-> 0, n |-> 0]

SyntaxStart(letters, items, day) ==
    /\ alphabet = letters /\ fed = <<>> /\ guard = Guard
    /\ records = items /\ today = day /\ walked = 0
SyntaxIdle == SyntaxStart({}, <<>>, NoDay)

Item == {[type |-> "null", fields |-> <<>>]} \cup
        {[type |-> "object", fields |-> [k \in {x \in DOMAIN r : r[x] # "absent"} |-> r[k]]] :
            r \in [ID : Ids, Timestamp : Stamps, Contents : Texts]}

SyntaxInit == \/ \E a \in Alphabets : SyntaxStart(a, <<>>, NoDay)
              \/ \E a, b \in Item : SyntaxStart({}, <<a, b>>, NoDay)
              \/ \E t \in FirstDays : SyntaxStart({}, <<>>, t)

SyntaxNext == (\E b \in alphabet : Feed(b)) \/ Walk
-----------------------------------------------------------------------------
\* What a decimal is: blanks, a sign, digits with at most one point among them,
\* an exponent, blanks.
AllIn(s, set) == ToSet(s) \subseteq set
Trimmed(s) ==
    LET solid == {n \in DOMAIN s : s[n] \notin Blank}
    IN IF solid = {} THEN <<>>
       ELSE SubSeq(s, CHOOSE n \in solid : \A k \in solid : n <= k,
                      CHOOSE n \in solid : \A k \in solid : n >= k)
Unsigned(s) == IF s # <<>> /\ Head(s) \in {"+", "-"} THEN Tail(s) ELSE s
Mantissa(s) == /\ AllIn(s, Digits \cup {"."}) /\ ToSet(s) \cap Digits # {}
               /\ Cardinality({n \in DOMAIN s : s[n] = "."}) <= 1
IsDecimal(s) ==
    LET body == Unsigned(Trimmed(s))
        marks == {n \in DOMAIN body : body[n] \in {"e", "E"}}
    IN \/ marks = {} /\ Mantissa(body)
       \/ \E n \in marks : LET exponent == Unsigned(SubSeq(body, n + 1, Len(body)))
                           IN /\ Mantissa(SubSeq(body, 1, n - 1))
                              /\ exponent # <<>> /\ AllIn(exponent, Digits)
Canonical(s) == s # <<>> /\ AllIn(s, Digits) /\ (Len(s) > 1 => Head(s) # "0")
Numeral(s) == FoldLeft(LAMBDA total, b : 10 * total + Value(b), 0, s)

Grammar(s) == IF ~IsDecimal(s) THEN "Other"
              ELSE IF ~Canonical(s) THEN "NoncanonicalDecimal"
              ELSE IF Numeral(s) = 0 THEN "Zero"
              ELSE IF Numeral(s) > MaxU64 THEN "OutOfU64Range" ELSE "CanonicalPositiveU64Decimal"

\* Where the string that is open after k bytes began, or 0.
Quoted == [k \in 0..Len(fed) |->
    LET inside[n \in 0..Len(fed)] ==
            IF n = 0 THEN 0
            ELSE IF inside[n - 1] = 0 THEN IF fed[n] = "\"" THEN n ELSE 0
            ELSE LET solid == {x \in inside[n - 1]..n - 1 : fed[x] # "\\" \/ x = inside[n - 1]}
                     last == CHOOSE x \in solid : \A y \in solid : y <= x
                 IN IF fed[n] = "\"" /\ (n - 1 - last) % 2 = 0 THEN 0 ELSE inside[n - 1]
    IN inside[k]]
Bare(n) == Quoted[n - 1] = 0
DepthAt(n) == Cardinality({k \in 1..n : Bare(k) /\ fed[k] \in {"[", "{"}})
              - Cardinality({k \in 1..n : Bare(k) /\ fed[k] \in {"]", "}"}})
Balanced == \A n \in 1..Len(fed) : DepthAt(n) >= 0

\* The bytes of the item being read, and of the bare word it ends with.
ItemBytes == LET ends == {0} \cup {k \in 1..Len(fed) : Bare(k) /\ DepthAt(k - 1) = 1
                                                       /\ fed[k] \in {",", "]"}}
             IN {k \in 1..Len(fed) : DepthAt(k - 1) >= 1 /\ \A e \in ends : e < k}
WordBytes == LET breaks == {k \in 1..Len(fed) : fed[k] \in Blank \cup {",", ":", "[", "]", "{", "}", "\""}}
             IN SelectSeq([k \in 1..Len(fed) |-> k], LAMBDA k : \A x \in breaks : x < k)
Word == [k \in DOMAIN WordBytes |-> fed[WordBytes[k]]]

\* The scanner takes exactly the decimals for decimals and exactly the canonical
\* ones within range for identifiers.
DecimalsAreExact == DecimalGrammar(fed) = Grammar(fed)

\* The guard knows when it is in a string, what the number it last read is, and
\* counts the bytes of one item of an array against its quota, no more and no less.
GuardIsExact ==
    fed # <<>> =>
        /\ guard.string = (Quoted[Len(fed)] # 0)
        /\ ~guard.string /\ Word # <<>> => guard.numeric = Grammar(Word)
        /\ (Balanced /\ Head(fed) = "[") =>
              /\ guard.depth = DepthAt(Len(fed))
              /\ guard.record = Cardinality(ItemBytes)

\* A transcript is taken for one exactly if each of its items is a sent message,
\* although only the merged shape, the grammars and the counts are looked at.
Message(item) == /\ item.type = "object" /\ {"ID", "Timestamp", "Contents"} \subseteq DOMAIN item.fields
                 /\ item.fields.ID = "id" /\ item.fields.Timestamp = "seconds"
                 /\ Shape(item.fields.Contents) = "string"
TranscriptsAreExact == Transcript = \A n \in DOMAIN records : Message(records[n])

\* Walking day by day from a day of known number, the arithmetic counts the days.
CalendarIsExact == today.y > 0 => /\ IsDay(today.y, today.m, today.d)
                                  /\ DayNumber(today.y, today.m, today.d) = today.n + walked

\* What the reader takes a decimal, a number, a transcript or a date for is what
\* it is: no input of these bounds is told apart from its reference.
SyntaxIsExact == DecimalsAreExact /\ GuardIsExact /\ TranscriptsAreExact /\ CalendarIsExact
=============================================================================
