---------------------------- MODULE ShellProofs ----------------------------
(***************************************************************************)
(* The shell and the calculator, proved for every buffer size that holds   *)
(* the calculator's line, every set of lines somebody may type and every   *)
(* content earlier lines left in the buffer.                               *)
(***************************************************************************)
EXTENDS Shell, ProcQueueProofs

(* The greatest of a bounded set of positions.                             *)
LEMMA MaxOfPositions ==
    ASSUME NEW n \in Nat, NEW T \in SUBSET (1..n), T # {}
    PROVE  Max(T) \in T /\ \A y \in T : y <= Max(T)
<1>. DEFINE U == {u \in Nat : n - u \in T}
<1>1. PICK t \in T : TRUE
  OBVIOUS
<1>2. n - t \in U
  OBVIOUS
<1>3. Min(U) \in U /\ \A u \in U : Min(U) <= u
  BY <1>2, MinOfNaturals
<1>4. \A y \in T : n - y \in U
  OBVIOUS
<1>. DEFINE x == n - Min(U)
<1>5. x \in T
  BY <1>3
<1>6. \A y \in T : x >= y
  BY <1>3, <1>4
<1>. QED BY <1>5, <1>6 DEF Max

(* The sizes, as numbers.                                                  *)
LEMMA Sizes == MAXSTRLENG \in Nat /\ MAXSTRLENG > 10 /\ MAXSTRLENG >= 10 /\ CalcSize = 10
  BY SizeAssumption DEF CalcSize

(* The table: seven names, no two alike, none empty, none of them exit,    *)
(* each with the ASID after its place.                                     *)
LEMMA Names ==
    /\ Len(arr) = 7
    /\ \A i \in 1..7 : arr[i].name \in Seq(Char) /\ arr[i].name # <<>>
    /\ \A i \in 1..7 : arr[i].name # exit /\ arr[i].asid = i + 1
    /\ exit \in Seq(Char) /\ exit # <<>>
    /\ \A i, j \in 1..7 : arr[i].name = arr[j].name => i = j
<1>. DEFINE first == <<102, 101, 102, 117, 100, 115, 99>>
            second == <<105, 99, 105, 110, 97, 108, 97>>
            size == <<8, 4, 9, 5, 4, 2, 4>>
            Is(i) == /\ arr[i].name \in Seq(Char) /\ Len(arr[i].name) = size[i]
                     /\ arr[i].name[1] = first[i] /\ arr[i].name[2] = second[i]
<1>1. Len(arr) = 7 /\ \A i \in 1..7 : arr[i].asid = i + 1
  BY DEF arr
<1>2. exit \in Seq(Char) /\ exit # <<>> /\ exit[2] = 120
  BY DEF exit, Char
<1>3. Is(1)
  <2>1. arr[1].name = <<102, 105, 98, 69, 105, 103, 104, 116>>
    BY DEF arr
  <2>2. <<102, 105, 98, 69, 105, 103, 104, 116>> \in Seq(Char)
    BY DEF Char
  <2>. QED BY <2>1, <2>2
<1>4. Is(2)
  <2>1. arr[2].name = <<101, 99, 104, 111>>
    BY DEF arr
  <2>2. <<101, 99, 104, 111>> \in Seq(Char)
    BY DEF Char
  <2>. QED BY <2>1, <2>2
<1>5. Is(3)
  <2>1. arr[3].name = <<102, 105, 98, 69, 108, 101, 118, 101, 110>>
    BY DEF arr
  <2>2. <<102, 105, 98, 69, 108, 101, 118, 101, 110>> \in Seq(Char)
    BY DEF Char
  <2>. QED BY <2>1, <2>2
<1>6. Is(4)
  <2>1. arr[4].name = <<117, 110, 97, 109, 101>>
    BY DEF arr
  <2>2. <<117, 110, 97, 109, 101>> \in Seq(Char)
    BY DEF Char
  <2>. QED BY <2>1, <2>2
<1>7. Is(5)
  <2>1. arr[5].name = <<100, 97, 116, 101>>
    BY DEF arr
  <2>2. <<100, 97, 116, 101>> \in Seq(Char)
    BY DEF Char
  <2>. QED BY <2>1, <2>2
<1>8. Is(6)
  <2>1. arr[6].name = <<115, 108>>
    BY DEF arr
  <2>2. <<115, 108>> \in Seq(Char)
    BY DEF Char
  <2>. QED BY <2>1, <2>2
<1>9. Is(7)
  <2>1. arr[7].name = <<99, 97, 108, 99>>
    BY DEF arr
  <2>2. <<99, 97, 108, 99>> \in Seq(Char)
    BY DEF Char
  <2>. QED BY <2>1, <2>2
<1>. HIDE DEF Is
<1>10. \A i \in 1..7 : Is(i)
  <2>1. \A i \in 1..7 : i = 1 \/ i = 2 \/ i = 3 \/ i = 4 \/ i = 5 \/ i = 6 \/ i = 7
    OBVIOUS
  <2>. QED BY <1>3, <1>4, <1>5, <1>6, <1>7, <1>8, <1>9, <2>1
<1>11. /\ \A i \in 1..7 : size[i] # 0 /\ second[i] # 120
       /\ \A i, j \in 1..7 : first[i] = first[j] /\ size[i] = size[j] => i = j
  OBVIOUS
<1>. HIDE DEF first, second, size
<1>12. ASSUME NEW i \in 1..7
       PROVE  arr[i].name \in Seq(Char) /\ arr[i].name # <<>> /\ arr[i].name # exit
  <2>1. Is(i) /\ size[i] # 0 /\ second[i] # 120
    BY <1>10, <1>11
  <2>2. Len(<<>>) = 0
    OBVIOUS
  <2>. QED BY <1>2, <2>1, <2>2, ZenonT(60) DEF Is
<1>13. ASSUME NEW i \in 1..7, NEW j \in 1..7, arr[i].name = arr[j].name
       PROVE  i = j
  <2>1. Is(i) /\ Is(j)
    BY <1>10
  <2>2. first[i] = first[j] /\ size[i] = size[j]
    BY <1>13, <2>1, Zenon DEF Is
  <2>. QED BY <1>11, <2>2
<1>. QED BY <1>1, <1>2, <1>12, <1>13

(* A buffer holds a string: its characters from the first cell on, then a  *)
(* NUL.                                                                    *)
Holds(s, w) ==
    /\ w \in Seq(Char)
    /\ Len(w) < MAXSTRLENG
    /\ \A i \in 0..(Len(w) - 1) : s[i] = w[i + 1]
    /\ s[Len(w)] = NUL

(* The comparison of the shell is equality of strings.                     *)
LEMMA SameIsEqual ==
    ASSUME NEW s, NEW w, Holds(s, w), NEW name \in Seq(Char)
    PROVE  sameString(s, name) <=> name = w
<1>1. w \in Seq(Char) /\ Len(w) \in Nat /\ Len(name) \in Nat
  BY DEF Holds
<1>2. /\ \A i \in 1..Len(w) : w[i] \in Int /\ w[i] # NUL /\ s[i - 1] = w[i]
      /\ \A i \in 1..Len(name) : name[i] \in Int /\ name[i] # NUL
      /\ s[Len(w)] = NUL
  <2>1. \A i \in 1..Len(w) : i - 1 \in 0..(Len(w) - 1) /\ (i - 1) + 1 = i
    BY <1>1
  <2>2. \A i \in 1..Len(w) : w[i] \in Char
    BY <1>1
  <2>3. \A i \in 1..Len(name) : name[i] \in Char
    OBVIOUS
  <2>4. \A i \in 1..Len(w) : s[i - 1] = w[i]
    <3>. TAKE i \in 1..Len(w)
    <3>1. s[i - 1] = w[(i - 1) + 1]
      BY <2>1 DEF Holds
    <3>. QED BY <2>1, <3>1
  <2>5. s[Len(w)] = NUL
    BY DEF Holds
  <2>6. \A c \in Char : c \in Int /\ c # NUL
    BY DEF Char, NUL
  <2>. QED BY <2>2, <2>3, <2>4, <2>5, <2>6, Zenon
<1>3. ASSUME sameString(s, name) PROVE name = w
  <2>1. (\A i \in 1..Len(name) : s[i - 1] = name[i]) /\ s[Len(name)] = NUL
    BY <1>3 DEF sameString
  <2>2. ~ (Len(name) < Len(w))
    <3>. SUFFICES ASSUME Len(name) < Len(w) PROVE FALSE
      OBVIOUS
    <3>1. Len(name) + 1 \in 1..Len(w) /\ (Len(name) + 1) - 1 = Len(name)
      BY <1>1
    <3>. QED BY <1>2, <2>1, <3>1
  <2>3. ~ (Len(w) < Len(name))
    <3>. SUFFICES ASSUME Len(w) < Len(name) PROVE FALSE
      OBVIOUS
    <3>1. Len(w) + 1 \in 1..Len(name) /\ (Len(w) + 1) - 1 = Len(w)
      BY <1>1
    <3>. QED BY <1>2, <2>1, <3>1
  <2>4. Len(name) = Len(w)
    BY <1>1, <2>2, <2>3
  <2>5. \A i \in 1..Len(w) : name[i] = w[i]
    BY <1>2, <2>1, <2>4
  <2>. QED BY <1>1, <2>4, <2>5
<1>4. ASSUME name = w PROVE sameString(s, name)
  BY <1>2, <1>4 DEF sameString
<1>. QED BY <1>3, <1>4
-----------------------------------------------------------------------------
(* The memory of the shell after a line: the line and a NUL when both fit  *)
(* in the buffer, and otherwise no NUL anywhere.                           *)
typedAt(b, l) ==
    cutNewline(readTerminal(b, Append(l, NL)), received(Append(l, NL)))

LEMMA LineStored ==
    ASSUME NEW b \in [Cells -> Char \cup {NUL}], NEW l \in Seq(Char \ {NL})
    PROVE  /\ typedAt(b, l) \in [Cells -> Char \cup {NUL}]
           /\ Fits(l) => Holds(typedAt(b, l), l)
           /\ ~Fits(l) => \A i \in Cells : typedAt(b, l)[i] # NUL
<1>. DEFINE M == MAXSTRLENG
            typed == Append(l, NL)
            n == received(typed)
            mem == readTerminal(b, typed)
<1>1. M \in Nat /\ M >= 10 /\ Len(l) \in Nat /\ Cells = 0..(M - 1)
  BY Sizes DEF Cells
<1>2. Len(typed) = Len(l) + 1 /\ \A i \in 1..Len(l) : typed[i] = l[i]
  OBVIOUS
<1>3. typed[Len(l) + 1] = NL
  OBVIOUS
<1>4. \A i \in 1..Len(l) : l[i] \in Char /\ l[i] # NL /\ l[i] # NUL
  <2>1. \A i \in 1..Len(l) : l[i] \in Char \ {NL}
    OBVIOUS
  <2>2. \A c \in Char : c # NUL
    BY DEF Char, NUL
  <2>. QED BY <2>1, <2>2, Zenon
<1>5. n = IF Len(l) + 1 <= M THEN Len(l) + 1 ELSE M
  <2>. DEFINE T == {Len(typed), M}
  <2>1. T \subseteq Nat /\ T # {}
    BY <1>1, <1>2
  <2>2. Min(T) \in T /\ \A y \in T : Min(T) <= y
    BY <2>1, MinOfNaturals
  <2>. QED BY <1>1, <1>2, <2>2 DEF received
<1>. HIDE DEF M, typed, n
<1>6. n \in 1..M /\ DOMAIN b = Cells /\ DOMAIN b \cup 0..(n - 1) = Cells
  BY <1>1, <1>5
<1>7. mem = [i \in Cells |-> IF i < n THEN typed[i + 1] ELSE b[i]]
  BY <1>6, Zenon DEF readTerminal, n
<1>8. typedAt(b, l) = IF mem[n - 1] = NL THEN [mem EXCEPT ![n - 1] = NUL] ELSE mem
  BY DEF typedAt, cutNewline, n, typed
<1>. HIDE DEF mem
<1>9. NL \in Char /\ NL # NUL
  BY DEF NL, Char, NUL
<1>10. \A i \in 1..(Len(l) + 1) : typed[i] \in Char /\ typed[i] # NUL
  <2>1. \A i \in 1..(Len(l) + 1) : i \in 1..Len(l) \/ i = Len(l) + 1
    BY <1>1
  <2>. QED BY <1>2, <1>3, <1>4, <1>9, <2>1
<1>11. mem \in [Cells -> Char \cup {NUL}]
  <2>1. ASSUME NEW i \in Cells
        PROVE  (IF i < n THEN typed[i + 1] ELSE b[i]) \in Char \cup {NUL}
    <3>1. i < n => i + 1 \in 1..(Len(l) + 1)
      BY <1>1, <1>5
    <3>. QED BY <1>10, <3>1
  <2>. QED BY <1>7, <2>1
<1>12. typedAt(b, l) \in [Cells -> Char \cup {NUL}]
  BY <1>8, <1>11
<1>13. ASSUME Fits(l) PROVE Holds(typedAt(b, l), l)
  <2>1. n = Len(l) + 1 /\ Len(l) < M /\ n - 1 = Len(l) /\ Len(l) \in Cells
    BY <1>1, <1>5, <1>13 DEF Fits, M
  <2>2. mem[Len(l)] = NL
    BY <1>1, <1>3, <1>7, <2>1
  <2>3. typedAt(b, l) = [mem EXCEPT ![Len(l)] = NUL]
    BY <1>8, <2>1, <2>2
  <2>4. typedAt(b, l)[Len(l)] = NUL
    BY <1>11, <2>1, <2>3
  <2>5. ASSUME NEW i \in 0..(Len(l) - 1) PROVE typedAt(b, l)[i] = l[i + 1]
    <3>0. ASSUME NEW k \in Nat, NEW m \in Nat, k < m, NEW j \in 0..(k - 1)
          PROVE  j \in 0..(m - 1) /\ j # k /\ j < k + 1 /\ j + 1 \in 1..k
      BY <3>0
    <3>1. i \in 0..(M - 1) /\ i # Len(l) /\ i < Len(l) + 1 /\ i + 1 \in 1..Len(l)
      BY <1>1, <2>1, <3>0, Zenon
    <3>2. i \in Cells /\ i < n
      BY <1>1, <2>1, <3>1
    <3>3. typedAt(b, l)[i] = mem[i]
      BY <1>11, <2>3, <3>1, <3>2
    <3>. QED BY <1>2, <1>7, <3>1, <3>2, <3>3
  <2>6. l \in Seq(Char)
    <3>1. l \in [1..Len(l) -> Char]
      BY <1>4
    <3>. QED BY <1>1, <3>1
  <2>. QED BY <2>1, <2>4, <2>5, <2>6 DEF Holds, M
<1>14. ASSUME ~Fits(l) PROVE \A i \in Cells : typedAt(b, l)[i] # NUL
  <2>1. n = M /\ M < Len(l) + 1
    BY <1>1, <1>5, <1>14 DEF Fits, M
  <2>2. \A i \in Cells : i < n /\ i + 1 \in 1..Len(l)
    BY <1>1, <2>1
  <2>3. \A i \in Cells : mem[i] = l[i + 1]
    BY <1>2, <1>7, <2>2
  <2>4. n - 1 \in Cells
    BY <1>1, <2>1
  <2>5. mem[n - 1] # NL
    BY <1>4, <2>2, <2>3, <2>4
  <2>6. typedAt(b, l) = mem
    BY <1>8, <2>5
  <2>. QED BY <1>4, <2>2, <2>3, <2>6
<1>. QED BY <1>12, <1>13, <1>14

(* What trimSpaces leaves is the line without the spaces around it.        *)
LEMMA TrimmedStored ==
    ASSUME NEW s \in [Cells -> Char \cup {NUL}], NEW l, Holds(s, l)
    PROVE  /\ trimSpaces(s) \in [Cells -> Char \cup {NUL}]
           /\ Holds(trimSpaces(s), Trimmed(l))
<1>. DEFINE M == MAXSTRLENG
            n == Len(l)
            T == {i \in Cells : s[i] # SPACE}
            start == Min(T)
            len == strEnd(s, start) - start
            shifted == [i \in Cells |-> CASE i < len -> s[start + i]
                                          [] i = len -> NUL
                                          [] OTHER -> s[i]]
            cut(i) == i < len /\ \A j \in i..(len - 1) : shifted[j] = SPACE
            r == [i \in Cells |-> IF cut(i) THEN NUL ELSE shifted[i]]
            inner == {i \in 1..n : l[i] # SPACE}
<1>1. M \in Nat /\ M >= 10 /\ Cells = 0..(M - 1)
  BY Sizes DEF Cells
<1>2. n \in Nat /\ n < M /\ l \in Seq(Char) /\ s[n] = NUL
  BY DEF Holds
<1>3. \A i \in 0..(n - 1) : s[i] = l[i + 1] /\ s[i] # NUL
  <2>1. \A i \in 0..(n - 1) : s[i] = l[i + 1] /\ i + 1 \in 1..n
    BY <1>2 DEF Holds
  <2>2. \A i \in 1..n : l[i] \in Char
    BY <1>2
  <2>3. \A c \in Char : c # NUL
    BY DEF Char, NUL
  <2>. QED BY <2>1, <2>2, <2>3, Zenon
<1>4. trimSpaces(s) = r
  BY DEF trimSpaces
<1>5. Trimmed(l) = IF inner = {} THEN <<>> ELSE SubSeq(l, Min(inner), Max(inner))
  BY DEF Trimmed
<1>6. n \in T /\ T \subseteq Nat
  BY <1>1, <1>2 DEF NUL, SPACE
<1>7. start \in T /\ \A y \in T : start <= y
  BY <1>6, MinOfNaturals
<1>8. start \in 0..n
  BY <1>6, <1>7, <1>2
<1>9. strEnd(s, start) = n
  <2>. DEFINE U == {j \in Cells : j >= start /\ s[j] = NUL} \cup {M}
  <2>1. n \in U /\ U \subseteq Nat
    BY <1>1, <1>2, <1>8
  <2>2. Min(U) \in U /\ \A y \in U : Min(U) <= y
    BY <2>1, MinOfNaturals
  <2>3. Min(U) <= n /\ Min(U) \in Nat
    BY <2>1, <2>2
  <2>4. s[Min(U)] = NUL
    BY <1>2, <2>2, <2>3
  <2>5. ~ (Min(U) < n)
    <3>1. Min(U) < n => Min(U) \in 0..(n - 1)
      BY <1>2, <2>3
    <3>. QED BY <1>3, <2>4, <3>1
  <2>6. Min(U) = n
    BY <1>2, <2>3, <2>5
  <2>. QED BY <2>6 DEF strEnd
<1>10. len = n - start /\ len \in 0..n
  BY <1>2, <1>8, <1>9
<1>. HIDE DEF start, len
<1>11. /\ \A i \in Cells : i < len => shifted[i] = s[start + i]
       /\ \A i \in Cells : i = len => shifted[i] = NUL
       /\ \A i \in Cells : i > len => shifted[i] = s[i]
  <2>1. \A i \in Cells : i \in Int
    BY <1>1
  <2>. QED BY <1>10, <2>1
<1>12. \A i \in Cells : shifted[i] \in Char \cup {NUL}
  <2>. SUFFICES ASSUME NEW i \in Cells PROVE shifted[i] \in Char \cup {NUL}
    OBVIOUS
  <2>1. i < len => start + i \in Cells
    BY <1>1, <1>2, <1>8, <1>10
  <2>2. \A j \in Cells : s[j] \in Char \cup {NUL}
    OBVIOUS
  <2>3. i < len \/ i = len \/ i > len
    BY <1>1, <1>10
  <2>. HIDE DEF shifted
  <2>. QED BY <1>11, <2>1, <2>2, <2>3
<1>. HIDE DEF shifted
<1>13. r \in [Cells -> Char \cup {NUL}]
  BY <1>12
<1>14. \A i \in Cells : r[i] = IF cut(i) THEN NUL ELSE shifted[i]
  OBVIOUS
<1>. HIDE DEF r
<1>15. CASE inner = {}
  <2>1. \A i \in 0..(n - 1) : s[i] = SPACE
    <3>. TAKE i \in 0..(n - 1)
    <3>1. i + 1 \in 1..n
      BY <1>2
    <3>. QED BY <1>3, <1>15, <3>1
  <2>2. start = n
    <3>1. start < n => start \in 0..(n - 1)
      BY <1>2, <1>8
    <3>2. s[start] # SPACE
      BY <1>7
    <3>. QED BY <1>2, <1>8, <2>1, <3>1, <3>2
  <2>3. len = 0 /\ 0 \in Cells
    BY <1>1, <1>2, <1>10, <2>2
  <2>4. r[0] = NUL
    BY <1>11, <1>14, <2>3
  <2>5. <<>> \in Seq(Char) /\ Len(<<>>) = 0
    OBVIOUS
  <2>6. Holds(r, <<>>)
    BY <1>1, <2>4, <2>5 DEF Holds
  <2>. QED BY <1>4, <1>5, <1>13, <1>15, <2>6
<1>16. CASE inner # {}
  <2>. DEFINE a == Min(inner)
              z == Max(inner)
              w == SubSeq(l, a, z)
  <2>1. inner \subseteq Nat /\ inner \in SUBSET (1..n)
    BY <1>2
  <2>2. a \in inner /\ (\A y \in inner : a <= y) /\ z \in inner /\ (\A y \in inner : y <= z)
    <3>. HIDE DEF inner
    <3>1. a \in inner /\ \A y \in inner : a <= y
      BY <1>16, <2>1, MinOfNaturals
    <3>2. z \in inner /\ \A y \in inner : y <= z
      BY <1>2, <1>16, <2>1, MaxOfPositions
    <3>. QED BY <3>1, <3>2
  <2>. HIDE DEF a, z
  <2>3. /\ a \in 1..n /\ z \in 1..n /\ a <= z
        /\ l[a] # SPACE /\ l[z] # SPACE
        /\ \A i \in (z + 1)..n : l[i] = SPACE
    <3>1. a \in 1..n /\ z \in 1..n /\ a <= z /\ l[a] # SPACE /\ l[z] # SPACE
      BY <2>2
    <3>2. ASSUME NEW i \in (z + 1)..n PROVE l[i] = SPACE
      <4>1. i \in 1..n /\ ~ (i <= z)
        BY <1>2, <3>1
      <4>. QED BY <2>2, <4>1
    <3>. QED BY <3>1, <3>2
  <2>4. start = a - 1
    <3>1. a - 1 \in 0..(n - 1) /\ (a - 1) + 1 = a
      BY <1>2, <2>3
    <3>2. a - 1 \in T
      <4>1. a - 1 \in Cells
        BY <1>1, <1>2, <3>1
      <4>. QED BY <1>3, <2>3, <3>1, <4>1
    <3>3. start <= a - 1
      BY <1>7, <3>2
    <3>4. start \in 0..(n - 1) /\ start + 1 \in 1..n
      BY <1>2, <1>8, <3>1, <3>3
    <3>5. start + 1 \in inner
      BY <1>3, <1>7, <3>4
    <3>6. a <= start + 1
      BY <2>2, <3>5
    <3>. QED BY <1>8, <2>3, <3>3, <3>6
  <2>5. len = n - a + 1 /\ z - a \in 0..(len - 1) /\ z - a + 1 \in 0..len
    BY <1>2, <1>10, <2>3, <2>4
  <2>6. ASSUME NEW i \in 0..(len - 1) PROVE i \in Cells /\ shifted[i] = l[a + i]
    <3>1. i \in Cells /\ i < len /\ start + i \in 0..(n - 1) /\ (start + i) + 1 = a + i
      BY <1>1, <1>2, <2>3, <2>4, <2>5
    <3>. QED BY <1>3, <1>11, <3>1
  <2>7. ASSUME NEW i \in 0..(z - a) PROVE i \in Cells /\ r[i] = l[a + i]
    <3>1. i \in 0..(len - 1) /\ z - a \in i..(len - 1) /\ a + (z - a) = z
      BY <2>3, <2>5
    <3>2. shifted[z - a] # SPACE
      BY <2>3, <2>5, <2>6, <3>1
    <3>3. ~ cut(i)
      BY <3>1, <3>2
    <3>. QED BY <1>14, <2>6, <3>1, <3>3
  <2>8. r[z - a + 1] = NUL
    <3>1. z - a + 1 \in Cells
      BY <1>1, <1>2, <2>3
    <3>2. CASE z - a + 1 = len
      BY <1>11, <1>14, <3>1, <3>2
    <3>3. CASE z - a + 1 < len
      <4>1. \A j \in (z - a + 1)..(len - 1) : j \in 0..(len - 1) /\ a + j \in (z + 1)..n
        BY <1>2, <2>3, <2>5
      <4>2. cut(z - a + 1)
        BY <2>3, <2>6, <3>3, <4>1
      <4>. QED BY <1>14, <3>1, <4>2
    <3>4. z - a + 1 = len \/ z - a + 1 < len
      BY <1>2, <2>3, <2>5
    <3>. QED BY <3>2, <3>3, <3>4
  <2>9. w \in Seq(Char) /\ Len(w) = z - a + 1 /\ \A i \in 1..(z - a + 1) : w[i] = l[a + i - 1]
    BY <1>2, <2>3
  <2>10. Holds(r, w)
    <3>. HIDE DEF w
    <3>1. ASSUME NEW i \in 0..(z - a) PROVE r[i] = w[i + 1]
      <4>1. i + 1 \in 1..(z - a + 1) /\ a + (i + 1) - 1 = a + i
        BY <2>3
      <4>. QED BY <2>7, <2>9, <4>1
    <3>2. Len(w) - 1 = z - a /\ Len(w) < MAXSTRLENG
      <4>1. (z - a + 1) - 1 = z - a /\ z - a + 1 < M
        BY <1>1, <1>2, <2>3
      <4>. QED BY <2>9, <4>1, Zenon
    <3>. QED BY <2>8, <2>9, <3>1, <3>2 DEF Holds
  <2>. QED BY <1>4, <1>5, <1>13, <1>16, <2>10 DEF a, z
<1>. QED BY <1>15, <1>16
-----------------------------------------------------------------------------
(* The search of the table finds the one program of that name.             *)
LEMMA SearchFinds ==
    ASSUME NEW s, NEW w, Holds(s, w)
    PROVE  /\ search(s) # 0 => search(s) \in 1..7 /\ arr[search(s)].name = w
           /\ search(s) = 0 => \A i \in 1..7 : arr[i].name # w
<1>. DEFINE F == {i \in 1..Len(arr) : sameString(s, arr[i].name)}
<1>1. F = {i \in 1..7 : arr[i].name = w}
  BY Names, SameIsEqual
<1>2. search(s) = IF F = {} THEN 0 ELSE Min(F)
  BY DEF search
<1>. HIDE DEF F
<1>3. F # {} => Min(F) \in F
  <2>1. F \subseteq Nat
    BY <1>1
  <2>. QED BY <2>1, MinOfNaturals
<1>. QED BY <1>1, <1>2, <1>3

(* A string is empty when the first cell is NUL.                           *)
LEMMA EmptyHeld ==
    ASSUME NEW s, NEW w, Holds(s, w)
    PROVE  s[0] = NUL <=> w = <<>>
<1>1. w \in Seq(Char) /\ s[Len(w)] = NUL /\ \A i \in 0..(Len(w) - 1) : s[i] = w[i + 1]
  BY DEF Holds
<1>2. ASSUME w = <<>> PROVE s[0] = NUL
  <2>1. Len(<<>>) = 0
    OBVIOUS
  <2>. QED BY <1>1, <1>2, <2>1
<1>3. ASSUME w # <<>> PROVE s[0] # NUL
  <2>1. 0 \in 0..(Len(w) - 1) /\ w[1] \in Char
    BY <1>1, <1>3
  <2>2. s[0] = w[0 + 1] /\ 0 + 1 = 1
    BY <1>1, <2>1
  <2>3. \A c \in Char : c # NUL
    BY DEF Char, NUL
  <2>. QED BY <2>1, <2>2, <2>3
<1>. QED BY <1>2, <1>3

(* Where the scan of a string from its first cell ends.                    *)
LEMMA ScanOf ==
    ASSUME NEW s
    PROVE  /\ \A w : Holds(s, w) => strEnd(s, 0) < MAXSTRLENG
           /\ (\A i \in Cells : s[i] # NUL) => strEnd(s, 0) = MAXSTRLENG
<1>. DEFINE U == {j \in Cells : j >= 0 /\ s[j] = NUL} \cup {MAXSTRLENG}
<1>1. MAXSTRLENG \in Nat /\ Cells = 0..(MAXSTRLENG - 1)
  BY Sizes DEF Cells
<1>2. U \subseteq Nat /\ U # {}
  BY <1>1
<1>3. Min(U) \in U /\ \A y \in U : Min(U) <= y
  BY <1>2, MinOfNaturals
<1>4. strEnd(s, 0) = Min(U)
  BY DEF strEnd
<1>5. ASSUME NEW w, Holds(s, w) PROVE Min(U) < MAXSTRLENG
  <2>1. Len(w) \in Nat /\ Len(w) < MAXSTRLENG /\ s[Len(w)] = NUL
    BY <1>5 DEF Holds
  <2>2. Len(w) \in U
    BY <1>1, <2>1
  <2>3. Min(U) <= Len(w) /\ Min(U) \in Nat
    BY <1>2, <1>3, <2>2
  <2>. QED BY <1>1, <2>1, <2>3
<1>6. (\A i \in Cells : s[i] # NUL) => Min(U) = MAXSTRLENG
  BY <1>3
<1>. QED BY <1>4, <1>5, <1>6

(* What one round of the shell does about a line, in terms of the line:    *)
(* the cases of main() for a line that fits, and the one for a line that   *)
(* does not.                                                               *)
Does(l) ==
    LET w == Trimmed(l)
    IN \/ w = exit /\ outcome' = <<"exit">> /\ pc' = "done"
       \/ w = <<>> /\ outcome' = <<"none">> /\ pc' = pc
       \/ /\ w # exit /\ w # <<>>
          /\ \E i \in 1..7 : /\ arr[i].name = w
                             /\ outcome' = <<"EXECUTE", i + 1>>
                             /\ pc' \in {"calc", "shell"}
       \/ /\ w # exit /\ w # <<>> /\ \A i \in 1..7 : arr[i].name # w
          /\ outcome' = <<"unknown">> /\ pc' = pc

LEMMA Round ==
    ASSUME TypeOK, NEW l \in ShellLines, shellMain(l)
    PROVE  /\ pc = "shell" /\ line' = l /\ answer' = <<>>
           /\ buffer' \in [Cells -> Char \cup {NUL}]
           /\ Fits(l) => Does(l)
           /\ ~Fits(l) => pc' = "undefined" /\ outcome' = <<"none">>
<1>. DEFINE raw == typedAt(buffer, l)
            s == trimSpaces(raw)
            w == Trimmed(l)
<1>1. buffer \in [Cells -> Char \cup {NUL}] /\ l \in Seq(Char \ {NL})
  BY LinesAssumption DEF TypeOK
<1>2. /\ raw \in [Cells -> Char \cup {NUL}]
      /\ Fits(l) => Holds(raw, l)
      /\ ~Fits(l) => \A i \in Cells : raw[i] # NUL
  BY <1>1, LineStored
<1>3. pc = "shell" /\ line' = l /\ answer' = <<>>
  BY DEF shellMain
<1>. DEFINE Overruns == strEnd(raw, 0) = MAXSTRLENG /\ pc' = "undefined" /\ buffer' = raw /\ outcome' = <<"none">>
            Exits == sameString(s, exit) /\ outcome' = <<"exit">> /\ pc' = "done"
            Empty == s[0] = NUL /\ outcome' = <<"none">> /\ pc' = pc
            Runs == /\ ~sameString(s, exit) /\ s[0] # NUL /\ search(s) # 0
                    /\ outcome' = <<"EXECUTE", arr[search(s)].asid>>
                    /\ pc' = IF arr[search(s)].asid = CALC THEN "calc" ELSE "shell"
            Unknown == /\ ~sameString(s, exit) /\ s[0] # NUL /\ search(s) = 0
                       /\ outcome' = <<"unknown">> /\ pc' = pc
<1>4. \/ Overruns
      \/ strEnd(raw, 0) < MAXSTRLENG /\ buffer' = s /\ (Exits \/ Empty \/ Runs \/ Unknown)
  BY Zenon DEF shellMain, typedAt
<1>. HIDE DEF raw
<1>5. CASE ~Fits(l)
  <2>1. strEnd(raw, 0) = MAXSTRLENG
    BY <1>2, <1>5, ScanOf
  <2>2. Overruns
    BY <1>4, <2>1, Sizes
  <2>. QED BY <1>2, <1>3, <1>5, <2>2
<1>6. CASE Fits(l)
  <2>1. strEnd(raw, 0) < MAXSTRLENG
    BY <1>2, <1>6, ScanOf
  <2>2. buffer' = s /\ (Exits \/ Empty \/ Runs \/ Unknown)
    BY <1>4, <2>1, Sizes
  <2>3. s \in [Cells -> Char \cup {NUL}] /\ Holds(s, w)
    BY <1>2, <1>6, TrimmedStored
  <2>. HIDE DEF s, w
  <2>4. sameString(s, exit) <=> w = exit
    BY <2>3, SameIsEqual, Names
  <2>5. s[0] = NUL <=> w = <<>>
    BY <2>3, EmptyHeld
  <2>6. /\ search(s) # 0 => search(s) \in 1..7 /\ arr[search(s)].name = w
        /\ search(s) = 0 => \A i \in 1..7 : arr[i].name # w
    BY <2>3, SearchFinds
  <2>7. Does(l)
    <3>1. CASE Exits
      BY <2>4, <3>1 DEF Does, w
    <3>2. CASE Empty
      BY <2>5, <3>2 DEF Does, w
    <3>3. CASE Runs
      <4>1. /\ search(s) \in 1..7 /\ arr[search(s)].name = w /\ w # exit /\ w # <<>>
            /\ outcome' = <<"EXECUTE", search(s) + 1>> /\ pc' \in {"calc", "shell"}
        BY <2>4, <2>5, <2>6, <3>3, Names
      <4>. QED BY <4>1, Zenon DEF Does, w
    <3>4. CASE Unknown
      <4>1. /\ w # exit /\ w # <<>> /\ (\A i \in 1..7 : arr[i].name # w)
            /\ outcome' = <<"unknown">> /\ pc' = pc
        BY <2>4, <2>5, <2>6, <3>4
      <4>. QED BY <4>1, Zenon DEF Does, w
    <3>. QED BY <2>2, <3>1, <3>2, <3>3, <3>4
  <2>. QED BY <1>3, <1>6, <2>2, <2>3, <2>7
<1>. QED BY <1>5, <1>6
-----------------------------------------------------------------------------
(* The newline at the end of a line is kept behind what is kept of it.     *)
LEMMA WithoutAppend ==
    ASSUME NEW S, NEW q \in Seq(S), NEW D, NEW x \in S, x \notin D
    PROVE  Without(Append(q, x), D) = Append(Without(q, D), x)
<1>. DEFINE n == Len(q)
            p == Append(q, x)
            K == Kept(q, D)
            L == Kept(p, D)
            v == Without(q, D)
            w == Without(p, D)
<1>1. n \in Nat /\ p \in Seq(S) /\ Len(p) = n + 1 /\ (\A i \in 1..n : p[i] = q[i]) /\ p[n + 1] = x
  OBVIOUS
<1>2. L = K \cup {n + 1} /\ K \in SUBSET (1..n) /\ n + 1 \notin K
  <2>1. \A i \in 1..(n + 1) : i \in 1..n \/ i = n + 1
    BY <1>1
  <2>2. \A i \in 1..n : i \in 1..(n + 1) /\ i # n + 1
    BY <1>1
  <2>3. n + 1 \in 1..(n + 1)
    BY <1>1
  <2>. QED BY <1>1, <2>1, <2>2, <2>3 DEF Kept
<1>3. /\ v \in Seq(S) /\ Len(v) = Cardinality(K) /\ Cardinality(K) \in Nat
      /\ \A i \in K : v[Rank(K, i)] = q[i]
      /\ \A k \in 1..Cardinality(K) : \E i \in K : Rank(K, i) = k
  BY WithoutAt
<1>4. /\ w \in Seq(S) /\ Len(w) = Cardinality(L)
      /\ \A i \in L : w[Rank(L, i)] = p[i]
  <2>. HIDE DEF p
  <2>. QED BY <1>1, WithoutAt
<1>. HIDE DEF n, p, K, L, v, w
<1>5. Cardinality(L) = Cardinality(K) + 1
  <2>1. IsFiniteSet(1..n)
    BY <1>1, FS_Interval
  <2>2. IsFiniteSet(K)
    BY <1>2, <2>1, FS_Subset
  <2>. QED BY <1>2, <2>2, FS_AddElement
<1>6. \A i \in K : Rank(L, i) = Rank(K, i)
  <2>. SUFFICES ASSUME NEW i \in K PROVE {j \in L : j <= i} = {j \in K : j <= i}
    BY DEF Rank
  <2>1. ~ (n + 1 <= i)
    BY <1>1, <1>2
  <2>. QED BY <1>2, <2>1
<1>7. Rank(L, n + 1) = Cardinality(L)
  <2>1. \A j \in L : j <= n + 1
    BY <1>1, <1>2
  <2>2. {j \in L : j <= n + 1} = L
    BY <2>1
  <2>. QED BY <2>2 DEF Rank
<1>8. w[Cardinality(K) + 1] = x
  <2>1. n + 1 \in L
    BY <1>2
  <2>2. w[Rank(L, n + 1)] = p[n + 1]
    BY <1>4, <2>1
  <2>. QED BY <1>1, <1>5, <1>7, <2>2
<1>9. \A k \in 1..Cardinality(K) : w[k] = v[k]
  <2>. TAKE k \in 1..Cardinality(K)
  <2>1. PICK i \in K : Rank(K, i) = k
    BY <1>3
  <2>2. i \in L /\ i \in 1..n
    BY <1>2
  <2>. QED BY <1>1, <1>3, <1>4, <1>6, <2>1, <2>2
<1>10. w = Append(v, x)
  <2>. DEFINE u == Append(v, x)
  <2>1. /\ u \in Seq(S) /\ Len(u) = Cardinality(K) + 1
        /\ (\A k \in 1..Cardinality(K) : u[k] = v[k]) /\ u[Cardinality(K) + 1] = x
    BY <1>3
  <2>. HIDE DEF u
  <2>2. \A k \in 1..Len(u) : u[k] = w[k]
    <3>1. \A k \in 1..Len(u) : k \in 1..Cardinality(K) \/ k = Cardinality(K) + 1
      BY <1>3, <2>1
    <3>. QED BY <1>8, <1>9, <2>1, <3>1
  <2>3. Len(u) = Len(w)
    BY <1>4, <1>5, <2>1
  <2>4. u = w
    BY <1>4, <2>1, <2>2, <2>3
  <2>. QED BY <2>4 DEF u
<1>. QED BY <1>10 DEF n, p, K, L, v, w

(* The result of two digits fits in the two places it is printed in.       *)
LEMMA ResultSmall ==
    ASSUME NEW a \in 0..9, NEW b \in 0..9, NEW o \in operators, ~ (o = 47 /\ b = 0)
    PROVE  calculate(a, o, b) \in -9..81
<1>1. CASE o = 43
  BY <1>1 DEF calculate
<1>2. CASE o = 45
  BY <1>2 DEF calculate
<1>. DEFINE P(c) == a * c \in 0..81
            R(c) == a \div c \in 0..9
<1>3. P(0) /\ P(1) /\ P(2) /\ P(3) /\ P(4) /\ P(5) /\ P(6) /\ P(7) /\ P(8) /\ P(9)
  OBVIOUS
<1>4. R(1) /\ R(2) /\ R(3) /\ R(4) /\ R(5) /\ R(6) /\ R(7) /\ R(8) /\ R(9)
  OBVIOUS
<1>5. \/ b = 0 \/ b = 1 \/ b = 2 \/ b = 3 \/ b = 4
      \/ b = 5 \/ b = 6 \/ b = 7 \/ b = 8 \/ b = 9
  OBVIOUS
<1>. HIDE DEF P, R
<1>6. P(b) /\ (b # 0 => R(b))
  BY <1>3, <1>4, <1>5
<1>7. CASE o = 42
  <2>1. calculate(a, o, b) = a * b
    BY <1>7 DEF calculate
  <2>. QED BY <1>6, <2>1 DEF P
<1>8. CASE o = 47
  <2>1. calculate(a, o, b) = a \div b
    BY <1>8 DEF calculate
  <2>. QED BY <1>6, <1>8, <2>1 DEF R
<1>. QED BY <1>1, <1>2, <1>7, <1>8 DEF operators

(* Two characters print it, its sign included.                             *)
LEMMA ResultPrinted ==
    ASSUME NEW r \in -9..81
    PROVE  /\ res_buffer(r) \in Seq(Char) /\ Len(res_buffer(r)) = 2
           /\ Number(res_buffer(r)) = r
<1>1. CASE r < 0
  <2>. DEFINE c == -r + ZERO
  <2>1. c \in 49..57 /\ MINUS = 45 /\ ZERO = 48
    BY <1>1 DEF ZERO, MINUS
  <2>2. res_buffer(r) = <<MINUS, c>>
    BY <1>1 DEF res_buffer
  <2>3. ZERO - c = r
    BY <2>1
  <2>. HIDE DEF c
  <2>4. <<MINUS, c>> \in Seq(Char) /\ Len(<<MINUS, c>>) = 2
    BY <2>1 DEF Char
  <2>. QED BY <2>2, <2>3, <2>4 DEF Number
<1>2. CASE r >= 0
  <2>. DEFINE c == (r \div 10) + ZERO
              d == (r % 10) + ZERO
  <2>1. /\ r \div 10 \in 0..8 /\ r % 10 \in 0..9 /\ 10 * (r \div 10) + (r % 10) = r
    BY <1>2
  <2>2. c \in 48..56 /\ d \in 48..57 /\ MINUS = 45 /\ ZERO = 48
    BY <2>1 DEF ZERO, MINUS
  <2>3. res_buffer(r) = <<c, d>>
    BY <1>2 DEF res_buffer
  <2>4. 10 * (c - ZERO) + d - ZERO = r
    BY <2>1, <2>2
  <2>. HIDE DEF c, d
  <2>5. <<c, d>> \in Seq(Char) /\ Len(<<c, d>>) = 2
    BY <2>2 DEF Char
  <2>6. c # MINUS
    BY <2>2
  <2>. QED BY <2>3, <2>4, <2>5, <2>6 DEF Number
<1>. QED BY <1>1, <1>2

(* The expression without spaces: what is kept of the line, the newline    *)
(* and the NUL.  The parser accepts it exactly when the line begins with   *)
(* digit, operator, digit, because the newline is neither of them.         *)
Accepted(w) == Len(w) >= 3 /\ digit(w[1]) /\ digit(w[3]) /\ w[2] \in operators

LEMMA Parsed ==
    ASSUME NEW l \in CalcLines, received(Append(l, NL)) <= CalcSize,
           NEW w, w = Without(l, {SPACE}), NEW e,
           e = deleteSpaces(readTerminal([i \in CalcCells |-> NUL], Append(l, NL)),
                            received(Append(l, NL)))
    PROVE  /\ w \in Seq(Char) /\ Len(e) = Len(w) + 2
           /\ asciiToInt(e) <=> Accepted(w)
           /\ Accepted(w) => e[1] = w[1] /\ e[2] = w[2] /\ e[3] = w[3]
<1>. DEFINE typed == Append(l, NL)
            n == received(typed)
            mem == readTerminal([i \in CalcCells |-> NUL], typed)
<1>1. l \in Seq(Char \ {NL}) /\ Len(l) \in Nat
  BY LinesAssumption
<1>2. NL \in Char /\ NUL \notin Char /\ NL # SPACE
  BY DEF NL, NUL, Char, SPACE
<1>3. l \in Seq(Char) /\ typed \in Seq(Char) /\ Len(typed) = Len(l) + 1
  <2>1. l \in Seq(Char)
    BY <1>1
  <2>. QED BY <1>2, <2>1
<1>4. n = Len(typed)
  <2>. DEFINE T == {Len(typed), MAXSTRLENG}
  <2>1. T \subseteq Nat /\ T # {}
    BY <1>1, <1>3, Sizes
  <2>2. Min(T) \in T /\ Min(T) <= 10
    BY <2>1, MinOfNaturals, Sizes DEF received
  <2>. QED BY <2>2, Sizes DEF received
<1>. HIDE DEF n, typed
<1>5. [i \in 1..n |-> mem[i - 1]] = typed
  <2>1. ASSUME NEW i \in 1..n PROVE mem[i - 1] = typed[i]
    <3>1. i - 1 \in 0..(n - 1) /\ i - 1 < n /\ (i - 1) + 1 = i
      BY <1>1, <1>3, <1>4
    <3>2. mem[i - 1] = typed[(i - 1) + 1]
      BY <3>1 DEF readTerminal, n
    <3>. QED BY <3>1, <3>2
  <2>2. typed = [i \in 1..Len(typed) |-> typed[i]]
    BY <1>3
  <2>. HIDE DEF mem
  <2>. QED BY <1>4, <2>1, <2>2
<1>6. e = Append(Without(typed, {SPACE}), NUL)
  BY <1>5, Zenon DEF deleteSpaces, n, typed
<1>7. Without(typed, {SPACE}) = Append(w, NL)
  BY <1>2, <1>3, WithoutAppend DEF typed
<1>8. w \in Seq(Char)
  BY <1>3, WithoutAt
<1>9. e = Append(Append(w, NL), NUL)
  BY <1>6, <1>7
<1>10. ~digit(NL) /\ NL \notin operators
  BY DEF digit, NL, ZERO, operators
<1>. DEFINE u == Append(w, NL)
            k == Len(w)
<1>11. k \in Nat /\ (\A i \in 1..k : e[i] = w[i]) /\ e[k + 1] = NL
  <2>1. w \in Seq(Int) /\ NL \in Int /\ NUL \in Int
    <3>1. Char \subseteq Int
      BY DEF Char
    <3>2. w \in [1..Len(w) -> Char] /\ Len(w) \in Nat
      BY <1>8, ElementOfSeq, LenProperties
    <3>3. w \in [1..Len(w) -> Int]
      BY <3>1, <3>2
    <3>4. w \in Seq(Int)
      BY <3>2, <3>3, SeqDef, Zenon
    <3>. QED BY <3>4 DEF NL, NUL
  <2>2. /\ u \in Seq(Int) /\ Len(u) = k + 1 /\ k \in Nat
        /\ (\A i \in 1..k : u[i] = w[i]) /\ u[k + 1] = NL
    BY <2>1
  <2>. HIDE DEF u, k
  <2>3. \A i \in 1..(k + 1) : Append(u, NUL)[i] = u[i]
    BY <2>1, <2>2
  <2>4. e = Append(u, NUL)
    BY <1>9 DEF u
  <2>5. k + 1 \in 1..(k + 1) /\ \A i \in 1..k : i \in 1..(k + 1)
    BY <2>2
  <2>. QED BY <2>2, <2>3, <2>4, <2>5, Zenon
<1>l. Len(e) = k + 2
  BY <1>8, <1>9, <1>11
<1>. HIDE DEF k
<1>12. CASE k >= 3
  <2>1. 1 \in 1..k /\ 2 \in 1..k /\ 3 \in 1..k
    BY <1>11, <1>12
  <2>2. e[1] = w[1] /\ e[2] = w[2] /\ e[3] = w[3]
    BY <1>11, <2>1, Zenon
  <2>. QED BY <1>8, <1>l, <1>12, <2>2, Zenon DEF asciiToInt, Accepted, k
<1>13. CASE ~ (k >= 3)
  <2>1. ~Accepted(w)
    BY <1>13 DEF Accepted, k
  <2>2. e[1] = NL \/ e[2] = NL \/ e[3] = NL
    BY <1>11, <1>13
  <2>3. ~asciiToInt(e)
    BY <1>10, <2>2, Zenon DEF asciiToInt
  <2>. QED BY <1>8, <1>l, <2>1, <2>3 DEF k
<1>. QED BY <1>8, <1>12, <1>13

(* What the calculator prints for a line.                                  *)
Right(l, ans) ==
    LET w == Without(l, {SPACE})
        a == w[1] - ZERO
        b == w[3] - ZERO
    IN IF Accepted(w) /\ (w[2] = 47 => b # 0)
       THEN /\ Len(ans) = 2
            /\ w[2] = 43 => Number(ans) = a + b
            /\ w[2] = 45 => Number(ans) = a - b
            /\ w[2] = 42 => Number(ans) = a * b
            /\ w[2] = 47 => Number(ans) = a \div b
       ELSE ans = <<>>

LEMMA Calculation ==
    ASSUME NEW l \in CalcLines, calcMain(l)
    PROVE  /\ line' = l /\ outcome' = <<"calc">> /\ buffer' = buffer
           /\ answer' \in Seq(Char)
           /\ \/ pc' = "resume" /\ Right(l, answer')
              \/ pc' = "undefined" /\ ~FitsCalc(l)
<1>. DEFINE w == Without(l, {SPACE})
            n == received(Append(l, NL))
            e == deleteSpaces(readTerminal([i \in CalcCells |-> NUL], Append(l, NL)), n)
            a == w[1] - ZERO
            b == w[3] - ZERO
            o == w[2]
            Overruns == n > CalcSize \/ Len(e) > CalcSize
            Prints == \/ ~asciiToInt(e) /\ answer' = <<>>
                      \/ asciiToInt(e) /\ e[2] = 47 /\ e[3] = ZERO /\ answer' = <<>>
                      \/ /\ asciiToInt(e) /\ ~ (e[2] = 47 /\ e[3] = ZERO)
                         /\ answer' = res_buffer(calculate(e[1] - ZERO, e[2], e[3] - ZERO))
<1>1. line' = l /\ outcome' = <<"calc">> /\ buffer' = buffer
  BY DEF calcMain
<1>2. \/ Overruns /\ answer' = <<>> /\ pc' = "undefined"
      \/ ~Overruns /\ Prints /\ pc' = "resume"
  BY Zenon DEF calcMain
<1>m. n \in Nat /\ n <= Len(l) + 1 /\ Len(l) \in Nat
  <2>. DEFINE T == {Len(Append(l, NL)), MAXSTRLENG}
  <2>1. Len(l) \in Nat /\ Len(Append(l, NL)) = Len(l) + 1
    BY LinesAssumption
  <2>2. T \subseteq Nat /\ T # {} /\ Len(l) + 1 \in T
    BY <2>1, Sizes
  <2>3. Min(T) \in T /\ \A y \in T : Min(T) <= y
    BY <2>2, MinOfNaturals
  <2>. QED BY <2>1, <2>2, <2>3 DEF received
<1>. HIDE DEF e, w, n
<1>p. ASSUME n <= CalcSize
      PROVE  /\ w \in Seq(Char) /\ Len(e) = Len(w) + 2
             /\ asciiToInt(e) <=> Accepted(w)
             /\ Accepted(w) => e[1] = w[1] /\ e[2] = w[2] /\ e[3] = w[3]
  BY <1>p, Parsed DEF e, w, n
<1>c. CASE Overruns /\ answer' = <<>> /\ pc' = "undefined"
  <2>1. CASE n > CalcSize
    <3>1. ~ (Len(l) + 1 <= CalcSize)
      BY <1>m, <2>1, Sizes
    <3>. QED BY <1>1, <1>c, <3>1 DEF FitsCalc
  <2>2. CASE ~ (n > CalcSize)
    <3>1. n <= CalcSize
      BY <1>m, <2>2, Sizes
    <3>2. Len(w) + 2 > CalcSize /\ Len(w) \in Nat
      BY <1>c, <1>p, <2>2, <3>1
    <3>3. ~ (Len(w) + 2 <= CalcSize)
      BY <3>2, Sizes
    <3>. QED BY <1>1, <1>c, <3>3 DEF FitsCalc, w
  <2>. QED BY <2>1, <2>2
<1>o. SUFFICES ASSUME ~Overruns, Prints, pc' = "resume"
              PROVE  answer' \in Seq(Char) /\ Right(l, answer')
  BY <1>1, <1>2, <1>c
<1>3. /\ w \in Seq(Char)
      /\ asciiToInt(e) <=> Accepted(w)
      /\ Accepted(w) => e[1] = w[1] /\ e[2] = w[2] /\ e[3] = w[3]
  <2>1. n <= CalcSize
    BY <1>m, <1>o, Sizes
  <2>. QED BY <1>p, <2>1
<1>4. <<>> \in Seq(Char)
  OBVIOUS
<1>5. CASE ~Accepted(w)
  <2>1. answer' = <<>>
    BY <1>o, <1>3, <1>5
  <2>. QED BY <1>4, <1>5, <2>1 DEF Right, w
<1>6. CASE Accepted(w)
  <2>1. a \in 0..9 /\ b \in 0..9 /\ o \in operators
    BY <1>6 DEF Accepted, digit
  <2>2. w[3] \in Int
    BY <1>3, <1>6 DEF Accepted, Char
  <2>3. e[3] = ZERO <=> b = 0
    BY <1>3, <1>6, <2>2 DEF ZERO
  <2>. HIDE DEF a, b
  <2>4. CASE o = 47 /\ b = 0
    <3>1. answer' = <<>>
      BY <1>o, <1>3, <1>6, <2>3, <2>4
    <3>. QED BY <1>4, <2>4, <3>1 DEF Right, w, b
  <2>5. CASE ~ (o = 47 /\ b = 0)
    <3>. DEFINE r == calculate(a, o, b)
    <3>1. answer' = res_buffer(r)
      BY <1>o, <1>3, <1>6, <2>3, <2>5 DEF a, b
    <3>2. r \in -9..81
      BY <2>1, <2>5, ResultSmall
    <3>3. answer' \in Seq(Char) /\ Len(answer') = 2 /\ Number(answer') = r
      BY <3>1, <3>2, ResultPrinted
    <3>4. /\ o = 43 => r = a + b
          /\ o = 45 => r = a - b
          /\ o = 42 => r = a * b
          /\ o = 47 => r = a \div b
      BY DEF calculate
    <3>. HIDE DEF r
    <3>5. Accepted(w) /\ (o = 47 => b # 0)
      BY <1>6, <2>5
    <3>6. Right(l, answer')
      BY <3>3, <3>4, <3>5, Zenon DEF Right, w, a, b
    <3>. QED BY <3>3, <3>6
  <2>. QED BY <2>4, <2>5
<1>. QED BY <1>5, <1>6
-----------------------------------------------------------------------------
(* The outcomes are told apart, and so are the programs that are executed. *)
LEMMA Outcomes ==
    /\ <<"none">> # <<"exit">> /\ <<"none">> # <<"unknown">> /\ <<"exit">> # <<"unknown">>
    /\ <<"calc">> # <<"none">> /\ <<"calc">> # <<"exit">> /\ <<"calc">> # <<"unknown">>
    /\ \A i : /\ <<"EXECUTE", i>> # <<"none">> /\ <<"EXECUTE", i>> # <<"exit">>
              /\ <<"EXECUTE", i>> # <<"unknown">> /\ <<"EXECUTE", i>> # <<"calc">>
    /\ \A i, j : <<"EXECUTE", i>> = <<"EXECUTE", j>> => i = j
<1>1. /\ <<"none">> # <<"exit">> /\ <<"none">> # <<"unknown">> /\ <<"exit">> # <<"unknown">>
      /\ <<"calc">> # <<"none">> /\ <<"calc">> # <<"exit">> /\ <<"calc">> # <<"unknown">>
  OBVIOUS
<1>2. ASSUME NEW i
      PROVE  /\ <<"EXECUTE", i>> # <<"none">> /\ <<"EXECUTE", i>> # <<"exit">>
             /\ <<"EXECUTE", i>> # <<"unknown">> /\ <<"EXECUTE", i>> # <<"calc">>
  <2>1. <<"EXECUTE", i>>[1] = "EXECUTE"
    OBVIOUS
  <2>2. /\ <<"none">>[1] = "none" /\ <<"exit">>[1] = "exit"
        /\ <<"unknown">>[1] = "unknown" /\ <<"calc">>[1] = "calc"
    OBVIOUS
  <2>. QED BY <2>1, <2>2
<1>3. ASSUME NEW i, NEW j, <<"EXECUTE", i>> = <<"EXECUTE", j>> PROVE i = j
  BY <1>3
<1>. QED BY <1>1, <1>2, <1>3

(* ShellObeys of a line and an outcome, with the table spelled out.        *)
Obeys(l, out) ==
    LET w == Trimmed(l)
    IN /\ out = <<"none">> <=> w = <<>>
       /\ out = <<"exit">> <=> w = exit
       /\ \A i \in 1..7 : out = <<"EXECUTE", i + 1>> <=> arr[i].name = w
       /\ out = <<"unknown">> <=> w # <<>> /\ w # exit /\ \A i \in 1..7 : arr[i].name # w

LEMMA ObeysIs ==
    ShellObeys <=> (Fits(line) /\ outcome # <<"calc">> => Obeys(line, outcome))
<1>. DEFINE w == Trimmed(line)
            named == {i \in 1..Len(arr) : arr[i].name = w}
<1>1. /\ 1..Len(arr) = 1..7 /\ (\A i \in 1..7 : arr[i].asid = i + 1)
      /\ \A i \in 1..7 : i \in named <=> arr[i].name = w
  BY Names
<1>2. named = {} <=> \A i \in 1..7 : arr[i].name # w
  BY Names
<1>3. ShellObeys <=> (Fits(line) /\ outcome # <<"calc">> =>
                        /\ outcome = <<"none">> <=> w = <<>>
                        /\ outcome = <<"exit">> <=> w = exit
                        /\ \A i \in 1..Len(arr) :
                             outcome = <<"EXECUTE", arr[i].asid>> <=> i \in named
                        /\ outcome = <<"unknown">> <=> w # <<>> /\ w # exit /\ named = {})
  BY Zenon DEF ShellObeys
<1>4. (\A i \in 1..Len(arr) : outcome = <<"EXECUTE", arr[i].asid>> <=> i \in named)
        <=> (\A i \in 1..7 : outcome = <<"EXECUTE", i + 1>> <=> arr[i].name = w)
  <2>. HIDE DEF named, w
  <2>. QED BY <1>1
<1>. HIDE DEF named, w
<1>. QED BY <1>2, <1>3, <1>4, Zenon DEF Obeys, w

LEMMA DoesObeys ==
    ASSUME NEW l, Does(l)
    PROVE  Obeys(l, outcome')
<1>. DEFINE w == Trimmed(l)
            out == outcome'
<1>1. exit # <<>> /\ \A i \in 1..7 : arr[i].name # exit /\ arr[i].name # <<>>
  BY Names
<1>2. \/ w = exit /\ out = <<"exit">>
      \/ w = <<>> /\ out = <<"none">>
      \/ /\ w # exit /\ w # <<>>
         /\ \E i \in 1..7 : arr[i].name = w /\ out = <<"EXECUTE", i + 1>>
      \/ w # exit /\ w # <<>> /\ (\A i \in 1..7 : arr[i].name # w) /\ out = <<"unknown">>
  BY Zenon DEF Does
<1>. HIDE DEF w, out
<1>3. CASE w = exit /\ out = <<"exit">>
  BY <1>1, <1>3, Outcomes, Zenon DEF Obeys, w, out
<1>4. CASE w = <<>> /\ out = <<"none">>
  BY <1>1, <1>4, Outcomes, Zenon DEF Obeys, w, out
<1>5. CASE /\ w # exit /\ w # <<>>
           /\ \E i \in 1..7 : arr[i].name = w /\ out = <<"EXECUTE", i + 1>>
  <2>1. PICK k \in 1..7 : arr[k].name = w /\ out = <<"EXECUTE", k + 1>>
    BY <1>5
  <2>2. ASSUME NEW i \in 1..7 PROVE out = <<"EXECUTE", i + 1>> <=> arr[i].name = w
    <3>1. out = <<"EXECUTE", i + 1>> => i + 1 = k + 1
      BY <2>1, Outcomes, Zenon
    <3>2. i + 1 = k + 1 => i = k
      OBVIOUS
    <3>3. arr[i].name = w => i = k
      BY <2>1, Names
    <3>. QED BY <2>1, <3>1, <3>2, <3>3, Zenon
  <2>3. out # <<"none">> /\ out # <<"exit">> /\ out # <<"unknown">>
    BY <2>1, Outcomes, Zenon
  <2>. QED BY <1>5, <2>1, <2>2, <2>3, Zenon DEF Obeys, w, out
<1>6. CASE w # exit /\ w # <<>> /\ (\A i \in 1..7 : arr[i].name # w) /\ out = <<"unknown">>
  BY <1>6, Outcomes, Zenon DEF Obeys, w, out
<1>. QED BY <1>2, <1>3, <1>4, <1>5, <1>6

(* Nothing typed, nothing done: the prompt before the first line.          *)
LEMMA PromptObeys == Obeys(<<>>, <<"none">>)
<1>1. Len(<<>>) = 0
  OBVIOUS
<1>2. Trimmed(<<>>) = <<>>
  BY <1>1 DEF Trimmed
<1>. QED BY <1>2, Names, Outcomes, Zenon DEF Obeys

LEMMA RightIs ==
    CalcRight <=> (outcome = <<"calc">> /\ pc # "undefined" => Right(line, answer))
  BY Zenon DEF CalcRight, Right, Accepted
-----------------------------------------------------------------------------
(* The invariant: the types, and what the checked invariants say.  The     *)
(* types alone carry the induction: each round of the shell or of the      *)
(* calculator makes its own outcome right, whatever the buffer held.       *)
ShellInv == TypeOK /\ ScansEnd /\ ShellObeys /\ CalcRight

LEMMA InitInv == Init => ShellInv
<1>. SUFFICES ASSUME Init PROVE ShellInv
  OBVIOUS
<1>1. pc = "shell" /\ line = <<>> /\ outcome = <<"none">> /\ answer = <<>>
  BY DEF Init
<1>2. buffer \in [Cells -> Char \cup {NUL}]
  <2>1. \A c \in {NUL, SPACE, arr[6].name[1]} : c \in Char \cup {NUL}
    BY DEF arr, Char, NUL, SPACE
  <2>2. PICK c \in {NUL, SPACE, arr[6].name[1]} : buffer = [i \in Cells |-> c]
    BY DEF Init
  <2>. QED BY <2>1, <2>2
<1>3. TypeOK
  BY <1>1, <1>2 DEF TypeOK
<1>4. ScansEnd
  BY <1>1 DEF ScansEnd
<1>5. ShellObeys
  BY <1>1, PromptObeys, ObeysIs
<1>6. CalcRight
  BY <1>1, RightIs, Outcomes
<1>. QED BY <1>3, <1>4, <1>5, <1>6 DEF ShellInv

(* One way of stating the checked invariants for the state after a step.   *)
Facts ==
    /\ ShellObeys <=> (Fits(line) /\ outcome # <<"calc">> => Obeys(line, outcome))
    /\ CalcRight <=> (outcome = <<"calc">> /\ pc # "undefined" => Right(line, answer))

LEMMA NextInv == ASSUME ShellInv, [Next]_vars, Facts' PROVE ShellInv'
<1>1. ASSUME NEW l \in ShellLines, shellMain(l) PROVE ShellInv'
  <2>1. /\ pc = "shell" /\ line' = l /\ answer' = <<>>
        /\ buffer' \in [Cells -> Char \cup {NUL}]
        /\ Fits(l) => Does(l)
        /\ ~Fits(l) => pc' = "undefined" /\ outcome' = <<"none">>
    BY <1>1, Round DEF ShellInv
  <2>2. Does(l) => /\ pc' \in {"shell", "calc", "done"}
                   /\ outcome' # <<"calc">>
    <3>. SUFFICES ASSUME Does(l)
                  PROVE  pc' \in {"shell", "calc", "done"} /\ outcome' # <<"calc">>
      OBVIOUS
    <3>1. \/ outcome' = <<"exit">> /\ pc' = "done"
          \/ outcome' = <<"none">> /\ pc' = pc
          \/ (\E i \in 1..7 : outcome' = <<"EXECUTE", i + 1>>) /\ pc' \in {"calc", "shell"}
          \/ outcome' = <<"unknown">> /\ pc' = pc
      BY Zenon DEF Does
    <3>. QED BY <2>1, <3>1, Outcomes, Zenon
  <2>3. <<>> \in Seq(Char)
    OBVIOUS
  <2>4. pc' \in {"shell", "calc", "done", "undefined"} /\ outcome' # <<"calc">>
    BY <2>1, <2>2, Outcomes, Zenon
  <2>5. TypeOK'
    BY <2>1, <2>3, <2>4 DEF TypeOK
  <2>6. ScansEnd'
    BY <2>1, <2>2, <2>4 DEF ScansEnd, Fits
  <2>7. ShellObeys'
    <3>1. Fits(line)' => Obeys(line, outcome)'
      <4>1. Fits(l) => Obeys(l, outcome')
        BY <2>1, DoesObeys
      <4>2. Fits(line)' <=> Fits(l)
        BY <2>1 DEF Fits
      <4>3. Obeys(line, outcome)' <=> Obeys(l, outcome')
        BY <2>1 DEF Obeys, Trimmed
      <4>. QED BY <4>1, <4>2, <4>3
    <3>. QED BY <3>1 DEF Facts
  <2>8. CalcRight'
    BY <2>4 DEF Facts
  <2>. QED BY <2>5, <2>6, <2>7, <2>8 DEF ShellInv
<1>2. ASSUME NEW l \in CalcLines, calcMain(l) PROVE ShellInv'
  <2>1. /\ line' = l /\ outcome' = <<"calc">> /\ buffer' = buffer
        /\ answer' \in Seq(Char)
        /\ \/ pc' = "resume" /\ Right(l, answer')
           \/ pc' = "undefined" /\ ~FitsCalc(l)
    BY <1>2, Calculation
  <2>2. TypeOK'
    BY <2>1 DEF TypeOK, ShellInv
  <2>3. ScansEnd'
    <3>1. pc' = "undefined" => ~FitsCalc(l)
      BY <2>1
    <3>2. FitsCalc(line)' <=> FitsCalc(l)
      BY <2>1 DEF FitsCalc
    <3>. QED BY <2>1, <3>1, <3>2 DEF ScansEnd
  <2>4. ShellObeys'
    BY <2>1 DEF Facts
  <2>5. CalcRight'
    <3>1. Right(line, answer)' <=> Right(l, answer')
      BY <2>1 DEF Right
    <3>. QED BY <2>1, <3>1 DEF Facts
  <2>. QED BY <2>2, <2>3, <2>4, <2>5 DEF ShellInv
<1>3. CASE executeReturns
  <2>1. pc' = "shell" /\ line' = <<>> /\ outcome' = <<"none">> /\ answer' = <<>> /\ buffer' = buffer
    BY <1>3 DEF executeReturns
  <2>2. <<>> \in Seq(Char)
    OBVIOUS
  <2>3. TypeOK'
    BY <2>1, <2>2 DEF TypeOK, ShellInv
  <2>4. ScansEnd'
    BY <2>1 DEF ScansEnd
  <2>5. ShellObeys'
    <3>1. Obeys(line, outcome)' <=> Obeys(<<>>, <<"none">>)
      BY <2>1 DEF Obeys, Trimmed
    <3>. QED BY <3>1, PromptObeys DEF Facts
  <2>6. CalcRight'
    BY <2>1, Outcomes DEF Facts
  <2>. QED BY <2>3, <2>4, <2>5, <2>6 DEF ShellInv
<1>4. CASE UNCHANGED vars
  <2>1. pc' = pc /\ buffer' = buffer /\ line' = line /\ outcome' = outcome /\ answer' = answer
    BY <1>4 DEF vars
  <2>2. TypeOK'
    BY <2>1 DEF TypeOK, ShellInv
  <2>3. ScansEnd'
    BY <2>1 DEF ScansEnd, ShellInv, Fits, FitsCalc
  <2>4. ShellObeys'
    BY <2>1, Zenon DEF ShellObeys, ShellInv, Fits, Trimmed
  <2>5. CalcRight'
    <3>1. Right(line, answer)' <=> Right(line, answer)
      BY <2>1 DEF Right
    <3>. QED BY <2>1, <3>1, RightIs DEF Facts, ShellInv
  <2>. QED BY <2>2, <2>3, <2>4, <2>5 DEF ShellInv
<1>. QED BY <1>1, <1>2, <1>3, <1>4 DEF Next

LEMMA Invariant == Spec => []ShellInv
<1>1. Facts
  BY ObeysIs, RightIs DEF Facts
<1>2. ShellInv /\ [Next]_vars => ShellInv'
  <2>1. Facts'
    BY <1>1, PTL
  <2>. QED BY <2>1, NextInv
<1>. QED BY <1>2, InitInv, PTL DEF Spec

(* Whatever is typed, READTERMINAL stores inside the shell's buffer, which *)
(* stays an array of characters of its size, and what the calculator       *)
(* prints is made of characters.                                           *)
THEOREM BufferSafe == Spec => []TypeOK
  BY Invariant, PTL DEF ShellInv

(* A line that fits in the buffer with its newline is always a string: the *)
(* loops of trimSpaces and of the search end inside the buffer, for every  *)
(* buffer size and whatever earlier lines left in it; and deleteSpaces     *)
(* stays inside newExpr for every line that fits the calculator's buffers. *)
THEOREM ScansSafe == Spec => []ScansEnd
  BY Invariant, PTL DEF ShellInv

(* trimSpaces, chkExitAndTerminate and the search together recognise       *)
(* exactly the line that is a name without the spaces around it: a program *)
(* is executed, or the shell ends, for that line and for no other.         *)
THEOREM ObeysSafe == Spec => []ShellObeys
  BY Invariant, PTL DEF ShellInv

(* deleteSpaces, asciiToInt, calculate and the printing of the result, for *)
(* every line that does not overrun the calculator's buffers: one that     *)
(* begins with digit operator digit is answered with the value of these    *)
(* three characters whatever follows them, unless it divides by zero; for  *)
(* any other line no result is printed.                                    *)
THEOREM CalculatorSafe == Spec => []CalcRight
  BY Invariant, PTL DEF ShellInv
=============================================================================
