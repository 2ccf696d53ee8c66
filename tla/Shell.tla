------------------------------- MODULE Shell -------------------------------
(***************************************************************************)
(* Who sits at the terminal: the shell (testers/shell.c), the calculator   *)
(* it can execute (testers/calc.c) and READTERMINAL, through which both    *)
(* get their lines (readTerminal of phase3/src/syscalls.c).  Characters    *)
(* are their ASCII codes and buffers are memory: they keep what earlier    *)
(* lines left in them.                                                     *)
(***************************************************************************)
EXTENDS ProcQueue

CONSTANTS
    MAXSTRLENG,    \* size of the shell's buffer; READTERMINAL stores no more
    ShellLines,    \* lines somebody may type at the prompt, without newline
    CalcLines      \* and when the calculator asks for an expression

NUL == 0
NL == 10
SPACE == 32
MINUS == 45
ZERO == 48

(* The table of programs: name and ASID.                                   *)
arr == <<
    [name |-> <<102, 105, 98, 69, 105, 103, 104, 116>>, asid |-> 2],      \* fibEight
    [name |-> <<101, 99, 104, 111>>, asid |-> 3],                         \* echo
    [name |-> <<102, 105, 98, 69, 108, 101, 118, 101, 110>>, asid |-> 4], \* fibEleven
    [name |-> <<117, 110, 97, 109, 101>>, asid |-> 5],                    \* uname
    [name |-> <<100, 97, 116, 101>>, asid |-> 6],                         \* date
    [name |-> <<115, 108>>, asid |-> 7],                                  \* sl
    [name |-> <<99, 97, 108, 99>>, asid |-> 8] >>                         \* calc
CALC == 8
exit == <<101, 120, 105, 116>>

Char == 1..127
CalcSize == 10                 \* of the calculator's buffers
Cells == 0..(MAXSTRLENG - 1)
CalcCells == 0..(CalcSize - 1)

(* 128 in the code: the shell's buffer is the larger one.                  *)
ASSUME SizeAssumption == MAXSTRLENG \in Nat /\ MAXSTRLENG > CalcSize
ASSUME LinesAssumption == ShellLines \cup CalcLines \subseteq Seq(Char \ {NL})

VARIABLES
    pc,          \* "shell", "calc", "resume", "done", or "undefined": the shell
                 \* reads on behind a buffer without a NUL, or something is
                 \* stored behind a buffer of the calculator
    buffer,      \* of the shell
    line,        \* history: what was typed last
    outcome,     \* what was done about it: <<"EXECUTE", asid>>, <<"exit">>,
                 \* <<"unknown">> or <<"none">> by the shell, <<"calc">>
    answer       \* the result the calculator printed, without the newline;
                 \* empty when it printed an error message

vars == <<pc, buffer, line, outcome, answer>>
-----------------------------------------------------------------------------
(* Mutants: one character less is kept; the bound is not looked at.        *)
receivedShort(typed) == Min({Len(typed), MAXSTRLENG - 1})
receivedUnbounded(typed) == Len(typed)

(* readTerminal: the characters up to the newline, as many as are stored.  *)
received(typed) == Min({Len(typed), MAXSTRLENG})

(* The memory at buf after READTERMINAL(buf).  The return of a negative    *)
(* status after a device error is left out: the Nucleus never wakes the    *)
(* reader with one (deviceInterruptHandler of Interrupts).                 *)
readTerminal(buf, typed) ==
    [i \in DOMAIN buf \cup 0..(received(typed) - 1) |->
        IF i < received(typed) THEN typed[i + 1] ELSE buf[i]]

(* The newline becomes the end of the string.                              *)
cutNewline(s, n) == IF s[n - 1] = NL THEN [s EXCEPT ![n - 1] = NUL] ELSE s

(* Where a loop that starts at i finds a NUL, or the end of the buffer.    *)
strEnd(s, i) == Min({j \in Cells : j >= i /\ s[j] = NUL} \cup {MAXSTRLENG})

(* trimSpaces, on a string that has a NUL: shift left, then cut spaces off *)
(* the end.  What lies behind the new end stays as it was.                 *)
trimSpaces(s) ==
    LET start == Min({i \in Cells : s[i] # SPACE})
        len == strEnd(s, start) - start
        shifted == [i \in Cells |-> CASE i < len -> s[start + i]
                                      [] i = len -> NUL
                                      [] OTHER -> s[i]]
    IN [i \in Cells |-> IF i < len /\ \A j \in i..(len - 1) : shifted[j] = SPACE
                        THEN NUL ELSE shifted[i]]

(* Mutant: a name matches whatever begins with it.                         *)
sameStringPrefix(s, name) == \A i \in 1..Len(name) : s[i - 1] = name[i]

(* The comparison of the buffer with a name, its NUL included.             *)
sameString(s, name) ==
    /\ \A i \in 1..Len(name) : s[i - 1] = name[i]
    /\ s[Len(name)] = NUL

(* The first entry of the table that matches; 0 when there is none.        *)
search(s) ==
    LET found == {i \in 1..Len(arr) : sameString(s, arr[i].name)}
    IN IF found = {} THEN 0 ELSE Min(found)

(* One round of main(): the prompt, the line, trimSpaces,                  *)
(* chkExitAndTerminate, the search and EXECUTE.  The calculator is the     *)
(* program whose run is followed; the others come back at once.            *)
shellMain(l) ==
    /\ pc = "shell"
    /\ line' = l
    /\ answer' = <<>>
    /\ LET typed == Append(l, NL)
           raw == cutNewline(readTerminal(buffer, typed), received(typed))
           s == trimSpaces(raw)
       IN \/ /\ strEnd(raw, 0) = MAXSTRLENG
             /\ pc' = "undefined"
             /\ buffer' = raw
             /\ outcome' = <<"none">>
          \/ /\ strEnd(raw, 0) < MAXSTRLENG
             /\ buffer' = s
             /\ \/ /\ sameString(s, exit)
                   /\ outcome' = <<"exit">>
                   /\ pc' = "done"
                \/ /\ s[0] = NUL
                   /\ outcome' = <<"none">>
                   /\ UNCHANGED pc
                \/ /\ ~sameString(s, exit) /\ s[0] # NUL /\ search(s) # 0
                   /\ outcome' = <<"EXECUTE", arr[search(s)].asid>>
                   /\ pc' = IF arr[search(s)].asid = CALC THEN "calc" ELSE "shell"
                \/ /\ ~sameString(s, exit) /\ s[0] # NUL /\ search(s) = 0
                   /\ outcome' = <<"unknown">>
                   /\ UNCHANGED pc
-----------------------------------------------------------------------------
(***************************************************************************)
(* calc.c.                                                                 *)
(***************************************************************************)
(* The n characters of expr without spaces, ended by a NUL.                *)
deleteSpaces(expr, n) ==
    Append(Without([i \in 1..n |-> expr[i - 1]], {SPACE}), NUL)

digit(c) == c - ZERO \in 0..9
operators == {42, 43, 45, 47}      \* * + - /

(* asciiToInt: whether the expression is accepted, read left to right.     *)
asciiToInt(e) == digit(e[1]) /\ e[2] \in operators /\ digit(e[3])

calculate(num1, opr, num2) ==
    CASE opr = 43 -> num1 + num2
      [] opr = 45 -> num1 - num2
      [] opr = 42 -> num1 * num2
      [] opr = 47 -> num1 \div num2

(* Mutant: the sign is lost.                                               *)
res_bufferUnsigned(result) ==
    LET r == IF result < 0 THEN -result ELSE result
    IN <<(r \div 10) + ZERO, (r % 10) + ZERO>>

res_buffer(result) ==
    IF result < 0 THEN <<MINUS, -result + ZERO>>
    ELSE <<(result \div 10) + ZERO, (result % 10) + ZERO>>

(* main() of the calculator, from its READTERMINAL to TERMINATE, which     *)
(* gives the terminal back to the shell.  Nothing compares a length with   *)
(* the size of buffer or newExpr: what happens after a store behind one of *)
(* them is undefined.  Only the cells that were read are looked at; after  *)
(* the third character of the expression nothing is.                       *)
calcMain(l) ==
    /\ pc = "calc"
    /\ line' = l
    /\ LET typed == Append(l, NL)
           memory == readTerminal([i \in CalcCells |-> NUL], typed)
           e == deleteSpaces(memory, received(typed))
           overrun == received(typed) > CalcSize \/ Len(e) > CalcSize
       IN \/ /\ overrun
             /\ answer' = <<>>
             /\ pc' = "undefined"
          \/ /\ ~overrun
             /\ \/ ~asciiToInt(e) /\ answer' = <<>>
                \/ asciiToInt(e) /\ e[2] = 47 /\ e[3] = ZERO /\ answer' = <<>>
                \/ /\ asciiToInt(e)
                   /\ ~(e[2] = 47 /\ e[3] = ZERO)
                   /\ answer' = res_buffer(calculate(e[1] - ZERO, e[2], e[3] - ZERO))
             /\ pc' = "resume"
    /\ outcome' = <<"calc">>
    /\ UNCHANGED buffer

(* EXECUTE returns to the shell, which prompts again.                      *)
executeReturns ==
    /\ pc = "resume"
    /\ pc' = "shell"
    /\ line' = <<>>
    /\ outcome' = <<"none">>
    /\ answer' = <<>>
    /\ UNCHANGED buffer
-----------------------------------------------------------------------------
(* The buffer is on the stack: it starts with whatever is there.           *)
Init ==
    /\ pc = "shell"
    /\ buffer \in {[i \in Cells |-> c] : c \in {NUL, SPACE, arr[6].name[1]}}
    /\ line = <<>>
    /\ outcome = <<"none">>
    /\ answer = <<>>

Next == \/ \E l \in ShellLines : shellMain(l)
        \/ \E l \in CalcLines : calcMain(l)
        \/ executeReturns

Spec == Init /\ [][Next]_vars
-----------------------------------------------------------------------------
(* readTerminal stores inside the buffer it was given, however long the    *)
(* line; the other variables hold values of their kind.                    *)
TypeOK ==
    /\ pc \in {"shell", "calc", "resume", "done", "undefined"}
    /\ buffer \in [Cells -> Char \cup {NUL}]
    /\ answer \in Seq(Char)

(* Reference: a line without the spaces around it.                         *)
Trimmed(l) ==
    LET inner == {i \in 1..Len(l) : l[i] # SPACE}
    IN IF inner = {} THEN <<>> ELSE SubSeq(l, Min(inner), Max(inner))

Fits(l) == Len(l) + 1 <= MAXSTRLENG

(* Reference: the same of the calculator's buffer and, with the NUL but    *)
(* without the spaces, of newExpr.                                         *)
FitsCalc(l) == Len(l) + 1 <= CalcSize /\ Len(Without(l, {SPACE})) + 2 <= CalcSize

(* Every line that fits in the buffer with its newline, to the last cell,  *)
(* is a string: the loops of the shell end inside the buffer whatever      *)
(* earlier lines or the stack left in it, and those of the calculator for  *)
(* every line that fits its two buffers.                                   *)
ScansEnd ==
    pc = "undefined" => ~ IF outcome = <<"calc">> THEN FitsCalc(line) ELSE Fits(line)

(* The shell executes a program exactly when the line, without the spaces  *)
(* around it, is its name; exit is exactly exit; no longer or shorter      *)
(* name, and nothing an earlier line left behind in the buffer, is taken   *)
(* for it.                                                                 *)
ShellObeys ==
    Fits(line) /\ outcome # <<"calc">> =>
        LET w == Trimmed(line)
            named == {i \in 1..Len(arr) : arr[i].name = w}
        IN /\ outcome = <<"none">> <=> w = <<>>
           /\ outcome = <<"exit">> <=> w = exit
           /\ \A i \in 1..Len(arr) : outcome = <<"EXECUTE", arr[i].asid>> <=> i \in named
           /\ outcome = <<"unknown">> <=> w # <<>> /\ w # exit /\ named = {}

(* Reference: the number that two characters stand for.                    *)
Number(s) == IF s[1] = MINUS THEN ZERO - s[2] ELSE 10 * (s[1] - ZERO) + s[2] - ZERO

(* The calculator prints a result exactly when the line, its spaces        *)
(* removed, begins with digit, operator, digit and does not divide by      *)
(* zero; the result is the value of these three characters, in decimal and *)
(* with its sign, and what follows them counts for nothing, although the   *)
(* comment of asciiToInt wants digit operator digit only: 7-77 is answered *)
(* like 7-7.  For any other line that fits its buffers it prints no result *)
(* but an error message.                                                   *)
CalcRight ==
    outcome = <<"calc">> /\ pc # "undefined" =>
        LET w == Without(line, {SPACE})
            accepted == Len(w) >= 3 /\ digit(w[1]) /\ digit(w[3]) /\ w[2] \in operators
            a == w[1] - ZERO
            b == w[3] - ZERO
        IN IF accepted /\ (w[2] = 47 => b # 0)
           THEN /\ Len(answer) = 2
                /\ w[2] = 43 => Number(answer) = a + b
                /\ w[2] = 45 => Number(answer) = a - b
                /\ w[2] = 42 => Number(answer) = a * b
                /\ w[2] = 47 => Number(answer) = a \div b
           ELSE answer = <<>>
=============================================================================
