------------------------------ MODULE MCShell ------------------------------
(* Shell on a small buffer and a set of lines.                             *)
EXTENDS Shell

Letter == 101
Blanks(n) == [i \in 1..n |-> SPACE]

(* Each name and exit; for sl, calc and exit also a letter short, a letter *)
(* too long, and with blanks around it; two words; nothing at all.         *)
Names == {arr[i].name : i \in 1..Len(arr)} \cup {exit}
Tried == {arr[6].name, arr[7].name, exit}
Words == Names \cup {Front(w) : w \in Tried} \cup {Append(w, Letter) : w \in Tried}
         \cup {Blanks(1) \o w \o Blanks(j) : w \in Tried, j \in 0..2}
         \cup {arr[6].name \o Blanks(1) \o arr[6].name}

(* Lines around the size of the buffer, of letters, and blank ones.        *)
LongLines == {[i \in 1..n |-> Letter] : n \in (MAXSTRLENG - 2)..(MAXSTRLENG + 1)}

LinesTyped == Words \cup LongLines \cup {Blanks(n) : n \in {0, 1, MAXSTRLENG - 1}}

(* Up to four characters out of blank, 7 and -; a letter in every place;   *)
(* every digit with every operator and digit; one expression followed by   *)
(* blanks or by digits, around the size of the calculator's buffers.       *)
Expressions ==
    UNION {[1..n -> {SPACE, 55, MINUS}] : n \in 0..4}
    \cup {<<Letter, 43, 48>>, <<48, Letter, 48>>, <<48, 43, Letter>>}
    \cup {<<a, o, b>> : a \in 48..57, b \in 48..57, o \in operators}
    \cup {[i \in 1..n |-> IF i <= 3 THEN <<55, MINUS, 55>>[i] ELSE c] :
            n \in (CalcSize - 2)..(CalcSize + 1), c \in {SPACE, 55}}
=============================================================================
