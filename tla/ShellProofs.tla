---------------------------- MODULE ShellProofs ----------------------------
(***************************************************************************)
(* Proofs about Shell, for every alphabet, every line and every size of    *)
(* the buffer.                                                             *)
(*                                                                         *)
(* Words are found by folding over a line.  The first part says how a fold *)
(* goes on when the line grows by a character; what a fold does for every  *)
(* line is then shown by induction over a set of numbers or of sequences.  *)
(***************************************************************************)
EXTENDS Shell, TLAPS, FiniteSetTheorems, SequenceTheorems

-----------------------------------------------------------------------------
(* Induction.                                                              *)

\* A set of natural numbers has a least one.
LEMMA LeastNumber ==
  ASSUME NEW S, S \subseteq Nat, S # {}
  PROVE  \E n \in S : \A m \in S : n <= m
  <1>1. IsWellFoundedOn(OpToRel(<, Nat), Nat)
    BY NatLessThanWellFounded
  <1>2. PICK n \in S : \A m \in S : <<m, n>> \notin OpToRel(<, Nat)
    BY <1>1, WFMin
  <1>3. \A m \in S : m < n => <<m, n>> \in OpToRel(<, Nat)
    BY DEF OpToRel
  <1>4. \A m \in S : ~(m < n)
    BY <1>2, <1>3
  <1>5. \A m \in S : n <= m
    BY <1>4
  <1>6. QED
    BY <1>5

\* A set that has zero and, with a number, the next one has every number.
LEMMA Induction ==
  ASSUME NEW S, 0 \in S, \A n \in Nat : n \in S => n + 1 \in S
  PROVE  Nat \subseteq S
  <1>1. SUFFICES ASSUME NEW k \in Nat, k \notin S PROVE FALSE
    OBVIOUS
  <1>2. PICK n \in Nat \ S : \A m \in Nat \ S : n <= m
    BY <1>1, LeastNumber
  <1>3. n # 0 /\ n - 1 \in Nat /\ n - 1 \in S
    BY <1>2
  <1>4. QED
    BY <1>3

\* A set that has the empty sequence and, with a sequence, those that are one
\* longer has every sequence.
LEMMA Growing ==
  ASSUME NEW A, NEW S, <<>> \in S,
         \A w \in Seq(A), c \in A : w \in S => Append(w, c) \in S
  PROVE  Seq(A) \subseteq S
  <1> DEFINE N == {n \in Nat : \A w \in Seq(A) : Len(w) = n => w \in S}
  <1>1. 0 \in N
    BY EmptySeq
  <1>2. ASSUME NEW n \in Nat, n \in N PROVE n + 1 \in N
    <2>1. SUFFICES ASSUME NEW w \in Seq(A), Len(w) = n + 1 PROVE w \in S
      BY <1>2
    <2>2. PICK v \in Seq(A), c \in A : w = Append(v, c)
      BY <2>1, SequenceEmptyOrAppend, EmptySeq
    <2>3. Len(v) = n
      BY <2>1, <2>2, AppendProperties, LenProperties
    <2>4. v \in S
      BY <1>2, <2>3
    <2>5. QED
      BY <2>2, <2>4
  <1>3. Nat \subseteq N
    <2> HIDE DEF N
    <2>1. QED
      BY <1>1, <1>2, Induction
  <1>4. QED
    BY <1>3, LenProperties

-----------------------------------------------------------------------------
(* Folds.                                                                  *)

\* What is meant by the largest number.
LEMMA Largest == ASSUME NEW S, S \subseteq Int, NEW x \in S, \A y \in S : x >= y PROVE Max(S) = x
  <1>1. \A z \in S : (\A y \in S : z >= y) => z = x
    <2>1. SUFFICES ASSUME NEW z \in S, \A y \in S : z >= y PROVE z = x
      OBVIOUS
    <2>2. z >= x /\ x >= z /\ z \in Int /\ x \in Int
      BY <2>1
    <2>3. QED
      BY <2>2
  <1>2. QED
    BY <1>1 DEF Max

\* Among the numbers up to n there is a largest one.
LEMMA LargestExists ==
  ASSUME NEW n \in Nat, NEW S, S \subseteq 1..n, S # {}
  PROVE  \E x \in S : \A y \in S : x >= y
  <1> DEFINE M == {n - x : x \in S}
  <1>1. M \subseteq Nat /\ M # {}
    <2>1. \A x \in S : n - x \in Nat
      OBVIOUS
    <2>2. QED
      BY <2>1
  <1>2. PICK m \in M : \A k \in M : m <= k
    BY <1>1, LeastNumber
  <1>3. PICK x \in S : m = n - x
    BY <1>2
  <1>4. \A y \in S : n - x <= n - y
    BY <1>2, <1>3
  <1>5. QED
    BY <1>4

\* A fold from base over elements of A stays within T.
Fold(T, A, base, step) == base \in T /\ step \in [T \X A -> T]

Tabled(T, base, step, word) ==
  \E iter \in [SUBSET (1..Len(word)) -> T] :
    \A s \in SUBSET (1..Len(word)) :
      iter[s] = IF s = {} THEN base ELSE step[<<iter[s \ {Max(s)}], word[Max(s)]>>]

\* What FoldLeft folds with exists: a table of what comes out for every part of
\* the sequence, made by taking the last element of the part first.
LEMMA FoldTable ==
  ASSUME NEW T, NEW A, NEW base, NEW step, Fold(T, A, base, step), NEW word \in Seq(A)
  PROVE  Tabled(T, base, step, word)
  <1> DEFINE Rule(iter, s) ==
               iter[s] = IF s = {} THEN base ELSE step[<<iter[s \ {Max(s)}], word[Max(s)]>>]
             N == {n \in Nat : n <= Len(word) =>
                     \E iter \in [SUBSET (1..n) -> T] : \A s \in SUBSET (1..n) : Rule(iter, s)}
  <1> USE DEF Fold
  <1>1. 0 \in N
    <2>1. [s \in SUBSET (1..0) |-> base] \in [SUBSET (1..0) -> T]
      OBVIOUS
    <2>2. \A s \in SUBSET (1..0) : s = {}
      OBVIOUS
    <2>3. QED
      BY <2>1, <2>2
  <1>2. ASSUME NEW n \in Nat, n \in N PROVE n + 1 \in N
    <2>1. SUFFICES ASSUME n + 1 <= Len(word)
                   PROVE  \E iter \in [SUBSET (1..n + 1) -> T] : \A s \in SUBSET (1..n + 1) : Rule(iter, s)
      <3>1. n + 1 \in Nat
        OBVIOUS
      <3>2. QED
        BY <3>1, Zenon
    <2>2. PICK old \in [SUBSET (1..n) -> T] : \A s \in SUBSET (1..n) : Rule(old, s)
      <3>1. n <= Len(word)
        BY <2>1, LenProperties
      <3>2. QED
        BY <1>2, <3>1, Zenon
    <2> DEFINE new == [s \in SUBSET (1..n + 1) |->
                         IF n + 1 \in s THEN step[<<old[s \ {n + 1}], word[n + 1]>>] ELSE old[s]]
    <2>3. word[n + 1] \in A
      BY <2>1, LenProperties, ElementOfSeq
    <2>4. \A s \in SUBSET (1..n + 1) : s \ {n + 1} \in SUBSET (1..n) /\ (n + 1 \notin s => s \in SUBSET (1..n))
      <3>1. \A i \in 1..n + 1 : i # n + 1 => i \in 1..n
        OBVIOUS
      <3>2. QED
        BY <3>1, Zenon
    <2>5. new \in [SUBSET (1..n + 1) -> T]
      <3>1. \A s \in SUBSET (1..n + 1) : n + 1 \in s => step[<<old[s \ {n + 1}], word[n + 1]>>] \in T
        BY <2>2, <2>3, <2>4
      <3>2. \A s \in SUBSET (1..n + 1) : n + 1 \notin s => old[s] \in T
        BY <2>2, <2>4
      <3>3. QED
        BY <3>1, <3>2
    <2>6. ASSUME NEW s \in SUBSET (1..n + 1) PROVE Rule(new, s)
      <3>1. CASE n + 1 \in s
        <4>1. Max(s) = n + 1
          <5>1. s \subseteq Int /\ \A y \in s : n + 1 >= y
            OBVIOUS
          <5>2. QED
            BY <3>1, <5>1, Largest
        <4>2. new[s \ {n + 1}] = old[s \ {n + 1}]
          BY <2>4
        <4>3. new[s] = step[<<old[s \ {n + 1}], word[n + 1]>>]
          BY <3>1
        <4>4. QED
          BY <3>1, <4>1, <4>2, <4>3
      <3>2. CASE n + 1 \notin s
        <4>1. s \in SUBSET (1..n) /\ s \ {Max(s)} \in SUBSET (1..n)
          BY <2>4, <3>2
        <4>2. s \ {Max(s)} \in SUBSET (1..n + 1) /\ n + 1 \notin s \ {Max(s)}
          BY <4>1, <3>2
        <4>3. new[s] = old[s] /\ new[s \ {Max(s)}] = old[s \ {Max(s)}]
          BY <3>2, <4>2
        <4>4. QED
          BY <2>2, <4>1, <4>3
      <3>3. QED
        BY <3>1, <3>2
    <2>7. QED
      BY <2>5, <2>6
  <1>3. Nat \subseteq N
    <2> HIDE DEF N
    <2>1. QED
      BY <1>1, <1>2, Induction
  <1>4. Len(word) \in N /\ Len(word) <= Len(word)
    <2> HIDE DEF N
    <2>1. Len(word) \in Nat
      BY LenProperties
    <2>2. QED
      BY <1>3, <2>1
  <1>5. QED
    BY <1>4, Zenon DEF Tabled

\* A table of what comes out for every part of a word.
Table(T, base, step, word, t) ==
  /\ t[{}] = base
  /\ \A s \in SUBSET (1..Len(word)) :
       s # {} /\ t[s \ {Max(s)}] \in T => t[s] = step[<<t[s \ {Max(s)}], word[Max(s)]>>]

\* Word w begins with v.
Starts(w, v) == Len(v) <= Len(w) /\ \A i \in 1..Len(v) : v[i] = w[i]

Agree(T, v, t, u) == t[1..Len(v)] \in T /\ u[1..Len(v)] = t[1..Len(v)]

\* The beginning of a word comes out the same whatever follows it.
LEMMA TablesAgree ==
  ASSUME NEW T, NEW A, NEW base, NEW step, Fold(T, A, base, step), NEW v \in Seq(A), NEW w \in Seq(A),
         Starts(w, v),
         NEW t, NEW u, Table(T, base, step, v, t), Table(T, base, step, w, u)
  PROVE  Agree(T, v, t, u)
  <1> USE DEF Fold, Starts
  <1> DEFINE N == {n \in Nat : n <= Len(v) => t[1..n] \in T /\ u[1..n] = t[1..n]}
  <1>0. Len(v) \in Nat /\ Len(w) \in Nat
    BY LenProperties
  <1>1. 0 \in N
    <2>1. 1..0 = {}
      OBVIOUS
    <2>2. QED
      BY <2>1 DEF Table
  <1>2. ASSUME NEW n \in Nat, n \in N PROVE n + 1 \in N
    <2>1. SUFFICES ASSUME n + 1 <= Len(v)
                   PROVE  t[1..n + 1] \in T /\ u[1..n + 1] = t[1..n + 1]
      OBVIOUS
    <2>2. t[1..n] \in T /\ u[1..n] = t[1..n]
      BY <1>0, <1>2, <2>1
    <2>3. Max(1..n + 1) = n + 1
      <3>1. 1..n + 1 \subseteq Int /\ n + 1 \in 1..n + 1 /\ \A y \in 1..n + 1 : n + 1 >= y
        OBVIOUS
      <3>2. QED
        BY <3>1, Largest
    <2>4. /\ (1..n + 1) \ {n + 1} = 1..n /\ 1..n + 1 # {}
          /\ 1..n + 1 \in SUBSET (1..Len(v)) /\ 1..n + 1 \in SUBSET (1..Len(w))
      <3>1. (1..n + 1) \ {n + 1} = 1..n
        OBVIOUS
      <3>2. 1..n + 1 # {}
        <4>1. n + 1 \in 1..n + 1
          OBVIOUS
        <4>2. QED
          BY <4>1
      <3>3. 1..n + 1 \in SUBSET (1..Len(v)) /\ 1..n + 1 \in SUBSET (1..Len(w))
        <4>1. n + 1 <= Len(v) /\ n + 1 <= Len(w)
          BY <1>0, <2>1
        <4>2. \A i \in 1..n + 1 : i \in 1..Len(v) /\ i \in 1..Len(w)
          BY <1>0, <4>1
        <4>3. QED
          BY <4>2
      <3>4. QED
        BY <3>1, <3>2, <3>3
    <2>5. v[n + 1] = w[n + 1] /\ v[n + 1] \in A
      BY <1>0, <2>1, ElementOfSeq
    <2>6. t[1..n + 1] = step[<<t[1..n], v[n + 1]>>]
      BY <2>2, <2>3, <2>4, Zenon DEF Table
    <2>7. u[1..n + 1] = step[<<u[1..n], w[n + 1]>>]
      BY <2>2, <2>3, <2>4, Zenon DEF Table
    <2>8. QED
      BY <2>2, <2>5, <2>6, <2>7
  <1>3. Nat \subseteq N
    <2> HIDE DEF N
    <2>1. QED
      BY <1>1, <1>2, Induction
  <1>4. Len(v) \in N /\ Len(v) <= Len(v)
    <2> HIDE DEF N
    <2>1. QED
      BY <1>0, <1>3
  <1>5. QED
    BY <1>4, Zenon DEF Agree

Grown(step, w, c, t, u) == u[1..Len(Append(w, c))] = step[<<t[1..Len(w)], c>>]

\* A word that grows by a character takes one step more.
LEMMA TableGrows ==
  ASSUME NEW T, NEW A, NEW base, NEW step, Fold(T, A, base, step), NEW w \in Seq(A), NEW c \in A,
         NEW t, NEW u, Table(T, base, step, w, t), Table(T, base, step, Append(w, c), u)
  PROVE  Grown(step, w, c, t, u)
  <1> DEFINE n == Len(w)
  <1>1. /\ n \in Nat /\ Append(w, c) \in Seq(A) /\ Len(Append(w, c)) = n + 1
        /\ Append(w, c)[n + 1] = c /\ \A i \in 1..n : w[i] = Append(w, c)[i]
    BY LenProperties, AppendProperties
  <1>2. Agree(T, w, t, u)
    <2>1. Starts(Append(w, c), w)
      BY <1>1 DEF Starts
    <2>2. Append(w, c) \in Seq(A)
      BY <1>1
    <2>3. QED
      BY <2>1, <2>2, TablesAgree, Zenon
  <1>3. Max(1..n + 1) = n + 1
    <2>1. 1..n + 1 \subseteq Int /\ n + 1 \in 1..n + 1 /\ \A y \in 1..n + 1 : n + 1 >= y
      BY <1>1
    <2>2. QED
      BY <2>1, Largest
  <1>4. (1..n + 1) \ {n + 1} = 1..n /\ 1..n + 1 # {} /\ 1..n + 1 \in SUBSET (1..Len(Append(w, c)))
    BY <1>1
  <1>5. u[1..n + 1] = step[<<u[1..n], Append(w, c)[n + 1]>>]
    BY <1>2, <1>3, <1>4, Zenon DEF Table, Agree
  <1>6. QED
    BY <1>1, <1>2, <1>5 DEF Grown, Agree

-----------------------------------------------------------------------------
(* What unquote() does, character by character.                            *)

Mode == Quote \cup {"none"}
Seen == [quote : Mode, text : Seq(Char)]
NothingSeen(quote) == [quote |-> quote, text |-> <<>>]
LookStep == [x \in Seen \X Char |-> UnquoteStep(x[1], x[2])]

\* A step of unquote() stays within the types.
LEMMA LookStepType ==
  /\ LookStep \in [Seen \X Char -> Seen]
  /\ \A quote \in Mode : NothingSeen(quote) \in Seen
  /\ \A seen \in Seen, c \in Char : LookStep[<<seen, c>>] = UnquoteStep(seen, c)
  <1>1. ASSUME NEW seen \in Seen, NEW c \in Char PROVE UnquoteStep(seen, c) \in Seen
    <2>1. NextQuote(seen.quote, c) \in Mode
      BY DEF NextQuote, Seen, Mode
    <2>2. Append(seen.text, c) \in Seq(Char) /\ seen.text \in Seq(Char)
      BY AppendProperties DEF Seen
    <2>3. QED
      BY <2>1, <2>2 DEF UnquoteStep, Seen
  <1>2. \A quote \in Mode : NothingSeen(quote) \in Seen
    BY EmptySeq DEF NothingSeen, Seen
  <1>3. QED
    BY <1>1, <1>2 DEF LookStep

\* What the fold of a look is, as a table.
LEMMA LookTable ==
  ASSUME NEW quote \in Mode, NEW word \in Seq(Char)
  PROVE  \E t : Table(Seen, NothingSeen(quote), LookStep, word, t) /\ Look(quote, word) = t[1..Len(word)]
  <1> DEFINE D == DOMAIN word
             Rule(iter) == iter = [s \in SUBSET D |->
                             IF s = {} THEN NothingSeen(quote)
                             ELSE UnquoteStep(iter[s \ {Max(s)}], word[Max(s)])]
             t == CHOOSE iter : Rule(iter)
  <1>1. D = 1..Len(word) /\ \A i \in D : word[i] \in Char
    BY LenProperties, ElementOfSeq
  <1>2. PICK u \in [SUBSET D -> Seen] :
          \A s \in SUBSET D :
            u[s] = IF s = {} THEN NothingSeen(quote) ELSE LookStep[<<u[s \ {Max(s)}], word[Max(s)]>>]
    <2>1. Fold(Seen, Char, NothingSeen(quote), LookStep)
      BY LookStepType DEF Fold
    <2>2. Tabled(Seen, NothingSeen(quote), LookStep, word)
      BY <2>1, FoldTable, Zenon
    <2>3. QED
      BY <1>1, <2>2, Zenon DEF Tabled
  <1>3. \A s \in SUBSET D : s # {} => Max(s) \in s /\ s \ {Max(s)} \in SUBSET D
    <2>1. SUFFICES ASSUME NEW s \in SUBSET D, s # {} PROVE Max(s) \in s
      BY Zenon
    <2>2. \E x \in s : \A y \in s : x >= y
      BY <1>1, <2>1, LargestExists
    <2>3. QED
      BY <2>2 DEF Max
  <1>4. Rule(u)
    <2>1. ASSUME NEW s \in SUBSET D, s # {}
          PROVE  LookStep[<<u[s \ {Max(s)}], word[Max(s)]>>] = UnquoteStep(u[s \ {Max(s)}], word[Max(s)])
      BY <1>1, <1>2, <1>3, <2>1, LookStepType
    <2>2. QED
      BY <1>2, <2>1
  <1>5. Rule(t)
    BY <1>4
  <1>6. Look(quote, word) = t[D]
    BY DEF Look, FoldLeft, MapThenFoldSet, NothingSeen
  <1>7. Table(Seen, NothingSeen(quote), LookStep, word, t)
    <2>0. \A s \in SUBSET D : t[s] = IF s = {} THEN NothingSeen(quote)
                                     ELSE UnquoteStep(t[s \ {Max(s)}], word[Max(s)])
      BY <1>5
    <2> HIDE DEF t
    <2>1. t[{}] = NothingSeen(quote)
      BY <2>0
    <2>2. ASSUME NEW s \in SUBSET D, s # {}, t[s \ {Max(s)}] \in Seen
          PROVE  t[s] = LookStep[<<t[s \ {Max(s)}], word[Max(s)]>>]
      BY <1>1, <1>3, <2>0, <2>2, LookStepType
    <2>3. QED
      BY <1>1, <2>1, <2>2 DEF Table
  <1>8. QED
    BY <1>1, <1>6, <1>7

\* unquote() sees nothing in an empty word, and a character more in a longer one.
LEMMA LookGrows ==
  /\ \A quote \in Mode : Look(quote, <<>>) = NothingSeen(quote)
  /\ \A quote \in Mode, w \in Seq(Char) : Look(quote, w) \in Seen
  /\ \A quote \in Mode, w \in Seq(Char), c \in Char :
       Look(quote, Append(w, c)) = UnquoteStep(Look(quote, w), c)
  <1>1. ASSUME NEW quote \in Mode PROVE Look(quote, <<>>) = NothingSeen(quote)
    <2>1. <<>> \in Seq(Char) /\ 1..Len(<<>>) = {}
      BY EmptySeq
    <2>2. PICK t : Table(Seen, NothingSeen(quote), LookStep, <<>>, t) /\ Look(quote, <<>>) = t[1..Len(<<>>)]
      BY <2>1, LookTable
    <2>3. QED
      BY <2>1, <2>2 DEF Table
  <1>2. ASSUME NEW quote \in Mode, NEW w \in Seq(Char) PROVE Look(quote, w) \in Seen
    <2>1. PICK t : Table(Seen, NothingSeen(quote), LookStep, w, t) /\ Look(quote, w) = t[1..Len(w)]
      BY LookTable
    <2>2. Fold(Seen, Char, NothingSeen(quote), LookStep)
      BY LookStepType DEF Fold
    <2>3. Starts(w, w)
      BY LenProperties DEF Starts
    <2>4. Agree(Seen, w, t, t)
      BY <2>1, <2>2, <2>3, TablesAgree, Zenon
    <2>5. QED
      BY <2>1, <2>4 DEF Agree
  <1>3. ASSUME NEW quote \in Mode, NEW w \in Seq(Char), NEW c \in Char
        PROVE  Look(quote, Append(w, c)) = UnquoteStep(Look(quote, w), c)
    <2>1. PICK t : Table(Seen, NothingSeen(quote), LookStep, w, t) /\ Look(quote, w) = t[1..Len(w)]
      BY LookTable
    <2>2. Append(w, c) \in Seq(Char)
      BY AppendProperties
    <2>3. PICK u : /\ Table(Seen, NothingSeen(quote), LookStep, Append(w, c), u)
                   /\ Look(quote, Append(w, c)) = u[1..Len(Append(w, c))]
      BY <2>2, LookTable
    <2>4. Fold(Seen, Char, NothingSeen(quote), LookStep)
      BY LookStepType DEF Fold
    <2>5. Grown(LookStep, w, c, t, u)
      BY <2>1, <2>3, <2>4, TableGrows, Zenon
    <2>6. u[1..Len(Append(w, c))] = LookStep[<<t[1..Len(w)], c>>]
      BY <2>5 DEF Grown
    <2>7. QED
      BY <1>2, <2>1, <2>3, <2>6, LookStepType
  <1>4. QED
    BY <1>1, <1>2, <1>3

-----------------------------------------------------------------------------
(* What shell_parse() does, character by character.                        *)

Reading == [quote : Mode, word : Seq(Char), words : Seq(Seq(Char))]
NothingRead == [quote |-> "none", word |-> <<>>, words |-> <<>>]
ReadStep == [x \in Reading \X Char |-> ParseStep(x[1], x[2])]
ReadAll(string) == FoldLeft(ParseStep, NothingRead, string)

\* A step of shell_parse() stays within the types.
LEMMA ReadStepType ==
  /\ ReadStep \in [Reading \X Char -> Reading]
  /\ NothingRead \in Reading
  /\ \A seen \in Reading, c \in Char : ReadStep[<<seen, c>>] = ParseStep(seen, c)
  <1>1. ASSUME NEW seen \in Reading, NEW c \in Char PROVE ParseStep(seen, c) \in Reading
    <2>1. NextQuote(seen.quote, c) \in Mode
      BY DEF NextQuote, Reading, Mode
    <2>2. Append(seen.word, c) \in Seq(Char) /\ <<>> \in Seq(Char) /\ Append(seen.words, seen.word) \in Seq(Seq(Char))
      BY AppendProperties, EmptySeq DEF Reading
    <2>3. QED
      BY <2>1, <2>2 DEF ParseStep, Reading
  <1>2. NothingRead \in Reading
    BY EmptySeq DEF NothingRead, Reading, Mode
  <1>3. QED
    BY <1>1, <1>2 DEF ReadStep

\* What the fold of shell_parse() is, as a table.
LEMMA ReadTable ==
  ASSUME NEW string \in Seq(Char)
  PROVE  \E t : Table(Reading, NothingRead, ReadStep, string, t) /\ ReadAll(string) = t[1..Len(string)]
  <1> DEFINE D == DOMAIN string
             Rule(iter) == iter = [s \in SUBSET D |->
                             IF s = {} THEN NothingRead ELSE ParseStep(iter[s \ {Max(s)}], string[Max(s)])]
             t == CHOOSE iter : Rule(iter)
  <1>1. D = 1..Len(string) /\ \A i \in D : string[i] \in Char
    BY LenProperties, ElementOfSeq
  <1>2. PICK u \in [SUBSET D -> Reading] :
          \A s \in SUBSET D :
            u[s] = IF s = {} THEN NothingRead ELSE ReadStep[<<u[s \ {Max(s)}], string[Max(s)]>>]
    <2>1. Fold(Reading, Char, NothingRead, ReadStep)
      BY ReadStepType DEF Fold
    <2>2. Tabled(Reading, NothingRead, ReadStep, string)
      BY <2>1, FoldTable, Zenon
    <2>3. QED
      BY <1>1, <2>2, Zenon DEF Tabled
  <1>3. \A s \in SUBSET D : s # {} => Max(s) \in s /\ s \ {Max(s)} \in SUBSET D
    <2>1. SUFFICES ASSUME NEW s \in SUBSET D, s # {} PROVE Max(s) \in s
      BY Zenon
    <2>2. \E x \in s : \A y \in s : x >= y
      BY <1>1, <2>1, LargestExists
    <2>3. QED
      BY <2>2 DEF Max
  <1>4. Rule(u)
    <2>1. ASSUME NEW s \in SUBSET D, s # {}
          PROVE  ReadStep[<<u[s \ {Max(s)}], string[Max(s)]>>] = ParseStep(u[s \ {Max(s)}], string[Max(s)])
      BY <1>1, <1>2, <1>3, <2>1, ReadStepType
    <2>2. QED
      BY <1>2, <2>1
  <1>5. Rule(t)
    BY <1>4
  <1>6. ReadAll(string) = t[D]
    BY DEF ReadAll, FoldLeft, MapThenFoldSet
  <1>7. Table(Reading, NothingRead, ReadStep, string, t)
    <2>0. \A s \in SUBSET D : t[s] = IF s = {} THEN NothingRead
                                     ELSE ParseStep(t[s \ {Max(s)}], string[Max(s)])
      BY <1>5
    <2> HIDE DEF t
    <2>1. t[{}] = NothingRead
      BY <2>0
    <2>2. ASSUME NEW s \in SUBSET D, s # {}, t[s \ {Max(s)}] \in Reading
          PROVE  t[s] = ReadStep[<<t[s \ {Max(s)}], string[Max(s)]>>]
      BY <1>1, <1>3, <2>0, <2>2, ReadStepType
    <2>3. QED
      BY <1>1, <2>1, <2>2 DEF Table
  <1>8. QED
    BY <1>1, <1>6, <1>7

\* shell_parse() has read nothing of an empty line, and a character more of a
\* longer one.
LEMMA ReadGrows ==
  /\ ReadAll(<<>>) = NothingRead
  /\ \A w \in Seq(Char) : ReadAll(w) \in Reading
  /\ \A w \in Seq(Char), c \in Char : ReadAll(Append(w, c)) = ParseStep(ReadAll(w), c)
  <1>0. Fold(Reading, Char, NothingRead, ReadStep)
    BY ReadStepType DEF Fold
  <1>1. ReadAll(<<>>) = NothingRead
    <2>1. <<>> \in Seq(Char) /\ 1..Len(<<>>) = {}
      BY EmptySeq
    <2>2. PICK t : Table(Reading, NothingRead, ReadStep, <<>>, t) /\ ReadAll(<<>>) = t[1..Len(<<>>)]
      BY <2>1, ReadTable
    <2>3. QED
      BY <2>1, <2>2 DEF Table
  <1>2. ASSUME NEW w \in Seq(Char) PROVE ReadAll(w) \in Reading
    <2>1. PICK t : Table(Reading, NothingRead, ReadStep, w, t) /\ ReadAll(w) = t[1..Len(w)]
      BY ReadTable
    <2>2. Starts(w, w)
      BY LenProperties DEF Starts
    <2>3. Agree(Reading, w, t, t)
      BY <1>0, <2>1, <2>2, TablesAgree, Zenon
    <2>4. QED
      BY <2>1, <2>3 DEF Agree
  <1>3. ASSUME NEW w \in Seq(Char), NEW c \in Char PROVE ReadAll(Append(w, c)) = ParseStep(ReadAll(w), c)
    <2>1. PICK t : Table(Reading, NothingRead, ReadStep, w, t) /\ ReadAll(w) = t[1..Len(w)]
      BY ReadTable
    <2>2. Append(w, c) \in Seq(Char)
      BY AppendProperties
    <2>3. PICK u : /\ Table(Reading, NothingRead, ReadStep, Append(w, c), u)
                   /\ ReadAll(Append(w, c)) = u[1..Len(Append(w, c))]
      BY <2>2, ReadTable
    <2>4. Grown(ReadStep, w, c, t, u)
      BY <1>0, <2>1, <2>3, TableGrows, Zenon
    <2>5. u[1..Len(Append(w, c))] = ReadStep[<<t[1..Len(w)], c>>]
      BY <2>4 DEF Grown
    <2>6. QED
      BY <1>2, <2>1, <2>3, <2>5, ReadStepType
  <1>4. QED
    BY <1>1, <1>2, <1>3

\* The quote shell_parse() is in is the one unquote() ends with in the word that
\* is being read; the words before are balanced.
Balanced(seen) ==
  /\ Look("none", seen.word).quote = seen.quote
  /\ \A i \in 1..Len(seen.words) : Look("none", seen.words[i]).quote = "none"

\* shell_parse() and unquote() follow the quotes in the same way.
LEMMA StepBalanced ==
  ASSUME NEW seen \in Reading, NEW c \in Char, Balanced(seen)
  PROVE  Balanced(ParseStep(seen, c))
  <1> DEFINE new == ParseStep(seen, c)
  <1>0. /\ seen.word \in Seq(Char) /\ seen.words \in Seq(Seq(Char)) /\ seen.quote \in Mode
        /\ "none" \in Mode
    BY DEF Reading, Mode
  <1>1. Look("none", <<>>).quote = "none"
    BY <1>0, LookGrows DEF NothingSeen
  <1>2. Look("none", Append(seen.word, c)).quote = NextQuote(seen.quote, c)
    <2>1. Look("none", Append(seen.word, c)) = UnquoteStep(Look("none", seen.word), c)
      BY <1>0, LookGrows
    <2>2. QED
      BY <2>1 DEF UnquoteStep, Balanced
  <1>3. CASE c = "blank" /\ seen.quote = "none" /\ seen.word = <<>>
    <2>1. new = seen
      BY <1>3 DEF ParseStep
    <2>2. QED
      BY <2>1
  <1>4. CASE c = "blank" /\ seen.quote = "none" /\ seen.word # <<>>
    <2>1. new.word = <<>> /\ new.words = Append(seen.words, seen.word) /\ new.quote = "none"
      BY <1>4 DEF ParseStep, Reading
    <2>2. \A i \in 1..Len(new.words) : new.words[i] = seen.word \/ (i \in 1..Len(seen.words) /\ new.words[i] = seen.words[i])
      BY <1>0, <2>1, AppendProperties, LenProperties
    <2>3. QED
      BY <1>1, <1>4, <2>1, <2>2 DEF Balanced
  <1>5. CASE ~(c = "blank" /\ seen.quote = "none")
    <2>1. new.word = Append(seen.word, c) /\ new.words = seen.words /\ new.quote = NextQuote(seen.quote, c)
      BY <1>5 DEF ParseStep, Reading
    <2>2. QED
      BY <1>2, <2>1 DEF Balanced
  <1>6. QED
    BY <1>3, <1>4, <1>5

\* So it is for every line.
LEMMA AlwaysBalanced == \A string \in Seq(Char) : Balanced(ReadAll(string))
  <1> DEFINE S == {w \in Seq(Char) : Balanced(ReadAll(w))}
  <1>1. <<>> \in S
    <2>1. Look("none", <<>>) = NothingSeen("none")
      BY LookGrows DEF Mode
    <2>2. Balanced(NothingRead)
      BY <2>1, EmptySeq DEF Balanced, NothingRead, NothingSeen
    <2>3. QED
      BY <2>2, EmptySeq, ReadGrows
  <1>2. ASSUME NEW w \in Seq(Char), NEW c \in Char, w \in S PROVE Append(w, c) \in S
    <2>1. ReadAll(w) \in Reading /\ Balanced(ReadAll(w)) /\ ReadAll(Append(w, c)) = ParseStep(ReadAll(w), c)
      BY <1>2, ReadGrows
    <2>2. QED
      BY <2>1, StepBalanced, AppendProperties
  <1>3. Seq(Char) \subseteq S
    <2> HIDE DEF S
    <2>1. QED
      BY <1>1, <1>2, Growing
  <1>4. QED
    BY <1>3

\* What shell_parse() has read after each character of a line.
Reads(string, rd) ==
  /\ rd \in [0..Len(string) -> Reading]
  /\ rd[0] = NothingRead
  /\ \A i \in 1..Len(string) : rd[i] = ParseStep(rd[i - 1], string[i])
  /\ rd[Len(string)] = ReadAll(string)
  /\ \A i \in 0..Len(string) : Balanced(rd[i])

\* A line is read character by character.
LEMMA ReadPrefixes == ASSUME NEW string \in Seq(Char) PROVE \E rd : Reads(string, rd)
  <1> DEFINE n == Len(string)
             rd == [i \in 0..n |-> ReadAll(SubSeq(string, 1, i))]
  <1>0. n \in Nat /\ \A i \in 1..n : string[i] \in Char
    BY LenProperties, ElementOfSeq
  <1>1. \A i \in 0..n : SubSeq(string, 1, i) \in Seq(Char)
    <2>1. SUFFICES ASSUME NEW i \in 0..n PROVE SubSeq(string, 1, i) \in Seq(Char)
      OBVIOUS
    <2>2. \A j \in 1..i : string[j] \in Char
      BY <1>0
    <2>3. 1 \in Int /\ i \in Int
      BY <1>0
    <2>4. QED
      BY <2>2, <2>3, SubSeqProperties
  <1>2. rd \in [0..n -> Reading]
    BY <1>1, ReadGrows
  <1>3. rd[0] = NothingRead
    <2>1. SubSeq(string, 1, 0) = <<>>
      BY SubSeqEmpty
    <2>2. 0 \in 0..n
      BY <1>0
    <2>3. QED
      BY <2>1, <2>2, ReadGrows
  <1>4. ASSUME NEW i \in 1..n PROVE rd[i] = ParseStep(rd[i - 1], string[i])
    <2>1. SubSeq(string, 1, i) = SubSeq(string, 1, i - 1) \o <<string[i]>>
      BY <1>0, SubSeqRecursiveSecond
    <2>2. i - 1 \in 0..n /\ i \in 0..n
      BY <1>0
    <2>3. SubSeq(string, 1, i) = Append(SubSeq(string, 1, i - 1), string[i])
      BY <1>0, <1>1, <2>1, <2>2, AppendIsConcat
    <2>4. ReadAll(SubSeq(string, 1, i)) = ParseStep(ReadAll(SubSeq(string, 1, i - 1)), string[i])
      BY <1>0, <1>1, <2>2, <2>3, ReadGrows
    <2>5. QED
      BY <2>2, <2>4
  <1>5. rd[n] = ReadAll(string)
    <2>1. SubSeq(string, 1, n) = string
      BY SubSeqFull
    <2>2. n \in 0..n
      BY <1>0
    <2>3. QED
      BY <2>1, <2>2
  <1>6. ASSUME NEW i \in 0..n PROVE Balanced(rd[i])
    BY <1>1, AlwaysBalanced
  <1>7. Reads(string, rd)
    <2> HIDE DEF rd
    <2>1. QED
      BY <1>2, <1>3, <1>4, <1>5, <1>6 DEF Reads
  <1>8. QED
    BY <1>7

\* In a balanced word, the second look of unquote() finds what the first did.
LEMMA BalancedLooks ==
  ASSUME NEW word \in Seq(Char), Look("none", word).quote = "none"
  PROVE  Unquote(word) = Look("none", word).text /\ Len(Unquote(word)) = Room(word)
  BY DEF Unquote, Room

\* The words shell_parse() makes.
LEMMA ShellParseIs ==
  ASSUME NEW string \in Seq(Char)
  PROVE  LET seen == ReadAll(string) IN
           ShellParse(string) = IF seen.word = <<>> THEN seen.words ELSE Append(seen.words, seen.word)
  BY DEF ShellParse, ReadAll, NothingRead

\* Types of words, with and without their quotes.
LEMMA WordTypes ==
  /\ \A word \in Seq(Char) : Unquote(word) \in Seq(Char)
  /\ \A string \in Seq(Char) : ShellParse(string) \in Seq(Seq(Char))
  <1>1. ASSUME NEW word \in Seq(Char) PROVE Unquote(word) \in Seq(Char)
    <2>1. Look("none", word).quote \in Mode
      BY LookGrows DEF Seen, Mode
    <2>2. Look(Look("none", word).quote, word) \in Seen
      BY <2>1, LookGrows
    <2>3. QED
      BY <2>2 DEF Unquote, Seen
  <1>2. ASSUME NEW string \in Seq(Char) PROVE ShellParse(string) \in Seq(Seq(Char))
    <2>1. ReadAll(string) \in Reading
      BY ReadGrows
    <2>2. ReadAll(string).words \in Seq(Seq(Char)) /\ ReadAll(string).word \in Seq(Char)
      BY <2>1 DEF Reading
    <2>3. Append(ReadAll(string).words, ReadAll(string).word) \in Seq(Seq(Char))
      BY <2>2, AppendProperties
    <2>4. ShellParse(string) \in {ReadAll(string).words, Append(ReadAll(string).words, ReadAll(string).word)}
      BY ShellParseIs, Zenon
    <2>5. QED
      BY <2>2, <2>3, <2>4
  <1>3. QED
    BY <1>1, <1>2

-----------------------------------------------------------------------------
(* The pieces of a line.                                                   *)

Piece == [kind : {"gap", "open", "text"}, text : Seq(Char)]
Closing(string, i) == {j \in i + 1..Len(string) : string[j] = string[i]}

\* The pieces from character i on, given those from later ones on.
PieceRule(string, from, i) ==
  IF i > Len(string) THEN <<>>
  ELSE IF string[i] = "blank" THEN <<Gap>> \o from[i + 1]
  ELSE IF string[i] \notin Quote THEN <<Text(<<string[i]>>)>> \o from[i + 1]
  ELSE IF Closing(string, i) = {} THEN <<Open>>
  ELSE <<Text(SubSeq(string, i + 1, Min(Closing(string, i)) - 1))>> \o from[Min(Closing(string, i)) + 1]

\* The first of the quotes that close a quotation; there is none before it.
LEMMA Nearest ==
  ASSUME NEW string \in Seq(Char), NEW i \in 1..Len(string), Closing(string, i) # {}
  PROVE  LET q == Min(Closing(string, i)) IN
           /\ q \in i + 1..Len(string)
           /\ string[q] = string[i]
           /\ \A j \in i + 1..q - 1 : string[j] # string[i]
  <1> DEFINE C == Closing(string, i)
             q == Min(C)
  <1>0. Len(string) \in Nat /\ C \subseteq Nat /\ C # {}
    BY LenProperties DEF Closing
  <1>1. \E x \in C : \A y \in C : x <= y
    BY <1>0, LeastNumber, Zenon
  <1>2. q \in C /\ \A y \in C : q <= y
    BY <1>1 DEF Min
  <1>3. q \in i + 1..Len(string) /\ string[q] = string[i]
    BY <1>2 DEF Closing
  <1>4. ASSUME NEW j \in i + 1..q - 1, string[j] = string[i] PROVE FALSE
    <2>1. j \in i + 1..Len(string) /\ j < q /\ j \in Int /\ q \in Int
      BY <1>0, <1>3
    <2>2. j \in C
      BY <1>4, <2>1 DEF Closing
    <2>3. q <= j
      BY <1>2, <2>2
    <2>4. QED
      BY <2>1, <2>3
  <1>5. QED
    BY <1>3, <1>4

\* The rule looks at later characters only.
LEMMA PieceRuleLooksAhead ==
  ASSUME NEW string \in Seq(Char), NEW i \in 1..Len(string) + 1, NEW f,
         \A j \in i + 1..Len(string) + 1 : f[j] \in Seq(Piece)
  PROVE  /\ PieceRule(string, f, i) \in Seq(Piece)
         /\ \A g : (\A j \in i + 1..Len(string) + 1 : g[j] = f[j]) => PieceRule(string, g, i) = PieceRule(string, f, i)
  <1> DEFINE n == Len(string)
  <1>0. n \in Nat /\ i \in Nat /\ \A k \in 1..n : string[k] \in Char
    BY LenProperties, ElementOfSeq
  <1>1. /\ <<Gap>> \in Seq(Piece) /\ <<Open>> \in Seq(Piece) /\ <<>> \in Seq(Piece)
        /\ \A t \in Seq(Char) : <<Text(t)>> \in Seq(Piece)
    BY EmptySeq DEF Gap, Open, Text, Piece
  <1>2. CASE i > n
    BY <1>1, <1>2 DEF PieceRule
  <1>3. CASE i <= n /\ string[i] \notin Quote
    <2>1. i + 1 \in i + 1..n + 1 /\ ~(i > n) /\ i \in 1..n
      BY <1>0, <1>3
    <2>2. <<string[i]>> \in Seq(Char)
      BY <1>0, <2>1
    <2>3. f[i + 1] \in Seq(Piece)
      BY <2>1
    <2>4. <<Gap>> \o f[i + 1] \in Seq(Piece) /\ <<Text(<<string[i]>>)>> \o f[i + 1] \in Seq(Piece)
      BY <1>1, <2>2, <2>3, ConcatProperties
    <2>5. \A g : PieceRule(string, g, i) = IF string[i] = "blank" THEN <<Gap>> \o g[i + 1]
                                           ELSE <<Text(<<string[i]>>)>> \o g[i + 1]
      <3>1. string[i] = "blank" => string[i] \notin Quote
        BY DEF Quote
      <3>2. QED
        BY <1>3, <2>1, <3>1, Zenon DEF PieceRule
    <2>6. QED
      BY <2>1, <2>4, <2>5
  <1>4. CASE i <= n /\ string[i] \in Quote /\ Closing(string, i) = {}
    <2>1. ~(i > n) /\ string[i] # "blank"
      BY <1>0, <1>4 DEF Quote
    <2>2. \A g : PieceRule(string, g, i) = <<Open>>
      BY <1>4, <2>1, Zenon DEF PieceRule
    <2>3. QED
      BY <1>1, <2>2
  <1>5. CASE i <= n /\ string[i] \in Quote /\ Closing(string, i) # {}
    <2> DEFINE q == Min(Closing(string, i))
    <2>1. ~(i > n) /\ string[i] # "blank" /\ i \in 1..n
      BY <1>0, <1>5 DEF Quote
    <2>2. q \in i + 1..n
      BY <1>5, <2>1, Nearest
    <2> HIDE DEF q
    <2>3. q + 1 \in i + 1..n + 1 /\ i + 1 \in Int /\ q - 1 \in Int /\ \A k \in i + 1..q - 1 : string[k] \in Char
      BY <1>0, <2>2
    <2>4. SubSeq(string, i + 1, q - 1) \in Seq(Char)
      BY <2>3, SubSeqProperties
    <2>5. \A g : PieceRule(string, g, i) = <<Text(SubSeq(string, i + 1, q - 1))>> \o g[q + 1]
      BY <1>5, <2>1, Zenon DEF PieceRule, q
    <2>6. <<Text(SubSeq(string, i + 1, q - 1))>> \o f[q + 1] \in Seq(Piece)
      BY <1>1, <2>3, <2>4, ConcatProperties
    <2>7. QED
      BY <2>3, <2>5, <2>6
  <1>6. QED
    BY <1>0, <1>2, <1>3, <1>4, <1>5

\* The pieces from each character on.
Rest(string, from) ==
  /\ from \in [1..Len(string) + 1 -> Seq(Piece)]
  /\ \A i \in 1..Len(string) + 1 : from[i] = PieceRule(string, from, i)

\* There are such pieces, made from the last character backwards.
LEMMA RestExists == ASSUME NEW string \in Seq(Char) PROVE \E from : Rest(string, from)
  <1> DEFINE n == Len(string)
             Good(d, f) == /\ f \in [n + 1 - d..n + 1 -> Seq(Piece)]
                           /\ \A i \in n + 1 - d..n + 1 : f[i] = PieceRule(string, f, i)
             N == {d \in Nat : d <= n => \E f : Good(d, f)}
  <1>0. n \in Nat
    BY LenProperties
  <1>1. 0 \in N
    <2> DEFINE f == [i \in n + 1 - 0..n + 1 |-> <<>>]
    <2>1. <<>> \in Seq(Piece)
      BY EmptySeq
    <2>2. ASSUME NEW i \in n + 1 - 0..n + 1 PROVE f[i] = PieceRule(string, f, i)
      <3>1. i > Len(string)
        BY <1>0
      <3>2. QED
        BY <3>1 DEF PieceRule
    <2>3. f \in [n + 1 - 0..n + 1 -> Seq(Piece)]
      BY <2>1
    <2>4. Good(0, f)
      BY <2>2, <2>3
    <2>5. QED
      BY <2>4
  <1>2. ASSUME NEW d \in Nat, d \in N PROVE d + 1 \in N
    <2>1. SUFFICES ASSUME d + 1 <= n PROVE \E f : Good(d + 1, f)
      <3>1. d + 1 \in Nat
        OBVIOUS
      <3>2. QED
        BY <3>1, Zenon
    <2>2. PICK f : Good(d, f)
      <3>1. d <= n
        BY <1>0, <2>1
      <3>2. QED
        BY <1>2, <3>1, Zenon
    <2> DEFINE e == n - d
               g == [i \in e..n + 1 |-> IF i = e THEN PieceRule(string, f, e) ELSE f[i]]
    <2>3. /\ e \in 1..n + 1 /\ n + 1 - d = e + 1 /\ n + 1 - (d + 1) = e
          /\ e..n + 1 = {e} \cup (e + 1..n + 1) /\ e \notin e + 1..n + 1
      BY <1>0, <2>1
    <2>4. \A j \in e + 1..n + 1 : f[j] \in Seq(Piece) /\ g[j] = f[j]
      BY <2>2, <2>3
    <2>5. PieceRule(string, f, e) \in Seq(Piece) /\ PieceRule(string, g, e) = PieceRule(string, f, e)
      <3> HIDE DEF e, g
      <3>1. QED
        BY <2>3, <2>4, PieceRuleLooksAhead
    <2>6. g \in [e..n + 1 -> Seq(Piece)]
      BY <2>3, <2>4, <2>5
    <2>7. ASSUME NEW i \in e..n + 1 PROVE g[i] = PieceRule(string, g, i)
      <3>1. CASE i = e
        BY <2>5, <3>1
      <3>2. CASE i \in e + 1..n + 1
        <4>1. f[i] = PieceRule(string, f, i)
          BY <2>2, <2>3, <3>2
        <4>2. i \in 1..n + 1 /\ \A j \in i + 1..n + 1 : j \in e + 1..n + 1
          BY <1>0, <2>3, <3>2
        <4>3. PieceRule(string, g, i) = PieceRule(string, f, i)
          <5> HIDE DEF e, g
          <5>1. QED
            BY <2>4, <4>2, PieceRuleLooksAhead
        <4>4. QED
          BY <2>4, <3>2, <4>1, <4>3
      <3>3. QED
        BY <2>3, <3>1, <3>2
    <2>8. Good(d + 1, g)
      BY <2>3, <2>6, <2>7
    <2>9. QED
      BY <2>8
  <1>3. Nat \subseteq N
    <2> HIDE DEF N
    <2>1. QED
      BY <1>1, <1>2, Induction
  <1>4. n \in N /\ n <= n /\ n + 1 - n = 1
    <2> HIDE DEF N
    <2>1. QED
      BY <1>0, <1>3
  <1>5. PICK f : Good(n, f)
    BY <1>4, Zenon
  <1>6. Rest(string, f)
    BY <1>4, <1>5 DEF Rest
  <1>7. QED
    BY <1>6

\* Each character begins a piece.
LEMMA RuleNotEmpty ==
  ASSUME NEW string \in Seq(Char), NEW i \in 1..Len(string), NEW f,
         \A j \in 1..Len(string) + 1 : f[j] \in Seq(Piece)
  PROVE  \E x \in Piece, more \in Seq(Piece) : PieceRule(string, f, i) = <<x>> \o more
  <1> DEFINE n == Len(string)
  <1>0. n \in Nat /\ i \in Nat /\ ~(i > n) /\ i + 1 \in 1..n + 1 /\ \A k \in 1..n : string[k] \in Char
    BY LenProperties, ElementOfSeq
  <1>1. Gap \in Piece /\ Open \in Piece /\ \A t \in Seq(Char) : Text(t) \in Piece
    BY EmptySeq DEF Gap, Open, Text, Piece
  <1>2. CASE string[i] = "blank"
    <2>1. PieceRule(string, f, i) = <<Gap>> \o f[i + 1]
      BY <1>0, <1>2 DEF PieceRule
    <2>2. QED
      BY <1>0, <1>1, <2>1
  <1>3. CASE string[i] # "blank" /\ string[i] \notin Quote
    <2>1. PieceRule(string, f, i) = <<Text(<<string[i]>>)>> \o f[i + 1]
      BY <1>0, <1>3 DEF PieceRule
    <2>2. <<string[i]>> \in Seq(Char)
      BY <1>0
    <2>3. QED
      BY <1>0, <1>1, <2>1, <2>2
  <1>4. CASE string[i] \in Quote /\ Closing(string, i) = {}
    <2>1. string[i] # "blank"
      BY <1>4 DEF Quote
    <2>2. PieceRule(string, f, i) = <<Open>>
      BY <1>0, <1>4, <2>1 DEF PieceRule
    <2>3. <<Open>> = <<Open>> \o <<>> /\ <<>> \in Seq(Piece)
      BY <1>1, ConcatEmptySeq, EmptySeq
    <2>4. QED
      BY <1>1, <2>2, <2>3
  <1>5. CASE string[i] \in Quote /\ Closing(string, i) # {}
    <2> DEFINE q == Min(Closing(string, i))
               t == SubSeq(string, i + 1, q - 1)
    <2>1. string[i] # "blank"
      BY <1>5 DEF Quote
    <2>2. PieceRule(string, f, i) = <<Text(t)>> \o f[q + 1]
      BY <1>0, <1>5, <2>1, Zenon DEF PieceRule
    <2>3. q \in i + 1..n
      BY <1>5, Nearest
    <2> HIDE DEF q
    <2>4. q + 1 \in 1..n + 1 /\ i + 1 \in Int /\ q - 1 \in Int /\ \A j \in i + 1..q - 1 : string[j] \in Char
      BY <1>0, <2>3
    <2>5. t \in Seq(Char)
      BY <2>4, SubSeqProperties
    <2> HIDE DEF t
    <2>6. QED
      BY <1>1, <2>2, <2>4, <2>5
  <1>6. QED
    BY <1>2, <1>3, <1>4, <1>5

\* Whatever follows the rule has the right types.
LEMMA RestType ==
  ASSUME NEW string \in Seq(Char), NEW f, DOMAIN f = 1..Len(string) + 1, f = [i \in DOMAIN f |-> f[i]],
         \A i \in 1..Len(string) + 1 : f[i] = PieceRule(string, f, i)
  PROVE  Rest(string, f)
  <1> DEFINE n == Len(string)
             N == {d \in Nat : d <= n => \A j \in n + 1 - d..n + 1 : f[j] \in Seq(Piece)}
  <1>0. n \in Nat
    BY LenProperties
  <1>1. 0 \in N
    <2>1. ASSUME NEW j \in n + 1 - 0..n + 1 PROVE f[j] \in Seq(Piece)
      <3>1. j = n + 1 /\ j \in 1..n + 1 /\ j > Len(string)
        BY <1>0
      <3>2. PieceRule(string, f, j) = <<>>
        BY <3>1 DEF PieceRule
      <3>3. QED
        BY <3>1, <3>2, EmptySeq
    <2>2. QED
      BY <2>1
  <1>2. ASSUME NEW d \in Nat, d \in N PROVE d + 1 \in N
    <2>1. SUFFICES ASSUME d + 1 <= n, NEW j \in n + 1 - (d + 1)..n + 1 PROVE f[j] \in Seq(Piece)
      <3>1. d + 1 \in Nat
        OBVIOUS
      <3>2. QED
        BY <3>1, Zenon
    <2>2. \A k \in n + 1 - d..n + 1 : f[k] \in Seq(Piece)
      BY <1>0, <1>2, <2>1
    <2>3. j \in 1..n + 1 /\ \A k \in j + 1..n + 1 : k \in n + 1 - d..n + 1
      BY <1>0, <2>1
    <2>4. QED
      BY <2>2, <2>3, PieceRuleLooksAhead
  <1>3. Nat \subseteq N
    <2> HIDE DEF N
    <2>1. QED
      BY <1>1, <1>2, Induction
  <1>4. n \in N /\ n <= n /\ n + 1 - n = 1
    <2> HIDE DEF N
    <2>1. QED
      BY <1>0, <1>3
  <1>5. \A j \in n + 1 - n..n + 1 : f[j] \in Seq(Piece)
    BY <1>4, Zenon
  <1>6. QED
    BY <1>4, <1>5 DEF Rest

\* The pieces of a line are those from its first character on.
LEMMA PiecesAre ==
  ASSUME NEW string \in Seq(Char)
  PROVE  \E from : Rest(string, from) /\ Pieces(string) = from[1]
  <1> DEFINE Rule(f) == f = [i \in 1..Len(string) + 1 |-> PieceRule(string, f, i)]
             from == CHOOSE f : Rule(f)
  <1>1. \E f : Rule(f)
    <2>1. PICK f : Rest(string, f)
      BY RestExists
    <2>2. Rule(f)
      BY <2>1 DEF Rest
    <2>3. QED
      BY <2>2
  <1>2. Rule(from)
    BY <1>1
  <1>3. Pieces(string) = from[1]
    BY Zenon DEF Pieces, PieceRule, Closing
  <1>4. Rest(string, from)
    <2> HIDE DEF from
    <2>1. DOMAIN from = 1..Len(string) + 1 /\ \A i \in 1..Len(string) + 1 : from[i] = PieceRule(string, from, i)
      BY <1>2
    <2>2. from = [i \in DOMAIN from |-> from[i]]
      BY <1>2, <2>1
    <2>3. QED
      BY <2>1, <2>2, RestType
  <1>5. QED
    BY <1>3, <1>4

-----------------------------------------------------------------------------
(* Texts in a row.                                                         *)

ConcatStep == [x \in Seq(Char) \X Seq(Char) |-> x[1] \o x[2]]

\* Texts are put together by a fold.
LEMMA ConcatFold ==
  /\ Fold(Seq(Char), Seq(Char), <<>>, ConcatStep)
  /\ \A s, t \in Seq(Char) : ConcatStep[<<s, t>>] = s \o t
  <1>1. \A s, t \in Seq(Char) : s \o t \in Seq(Char)
    BY ConcatProperties
  <1>2. <<>> \in Seq(Char)
    BY EmptySeq
  <1>3. QED
    BY <1>1, <1>2 DEF Fold, ConcatStep

\* What FlattenSeq makes, as a table.
LEMMA FlattenTable ==
  ASSUME NEW w \in Seq(Seq(Char))
  PROVE  \E u : Table(Seq(Char), <<>>, ConcatStep, w, u) /\ FlattenSeq(w) = u[1..Len(w)]
  <1> DEFINE n == Len(w)
             Rule(f) == f = [i \in 1..n |-> IF i = 1 THEN w[i] ELSE f[i - 1] \o w[i]]
             t == CHOOSE f : Rule(f)
  <1>0. n \in Nat /\ \A i \in 1..n : w[i] \in Seq(Char)
    BY LenProperties, ElementOfSeq
  <1>1. PICK u \in [SUBSET (1..n) -> Seq(Char)] :
          \A s \in SUBSET (1..n) : u[s] = IF s = {} THEN <<>> ELSE ConcatStep[<<u[s \ {Max(s)}], w[Max(s)]>>]
    <2>1. Tabled(Seq(Char), <<>>, ConcatStep, w)
      BY ConcatFold, FoldTable, Zenon
    <2>2. QED
      BY <2>1, Zenon DEF Tabled
  <1>2. u[{}] = <<>>
    BY <1>1
  <1>3. Table(Seq(Char), <<>>, ConcatStep, w, u)
    BY <1>1, <1>2 DEF Table
  <1>4. ASSUME NEW i \in 1..n PROVE u[1..i] = u[1..i - 1] \o w[i] /\ u[1..i] \in Seq(Char)
    <2>1. Max(1..i) = i
      <3>1. 1..i \subseteq Int /\ i \in 1..i /\ \A y \in 1..i : i >= y
        BY <1>0
      <3>2. QED
        BY <3>1, Largest
    <2>2. (1..i) \ {i} = 1..i - 1
      BY <1>0
    <2>3. 1..i \in SUBSET (1..n) /\ 1..i - 1 \in SUBSET (1..n)
      BY <1>0
    <2>4. i \in 1..i
      BY <1>0
    <2>5. 1..i # {}
      BY <2>4
    <2>6. u[1..i] = ConcatStep[<<u[1..i - 1], w[i]>>]
      BY <1>1, <2>1, <2>2, <2>3, <2>5
    <2>7. u[1..i - 1] \in Seq(Char) /\ u[1..i] \in Seq(Char) /\ w[i] \in Seq(Char)
      BY <1>0, <1>1, <2>3
    <2>8. QED
      BY <2>6, <2>7, ConcatFold
  <1>5. n > 0 => u[1..1] = w[1]
    <2>1. SUFFICES ASSUME n > 0 PROVE u[1..1] = w[1]
      OBVIOUS
    <2>2. 1 \in 1..n /\ 1..1 - 1 = {}
      BY <1>0, <2>1
    <2>3. u[1..1] = <<>> \o w[1]
      BY <1>2, <1>4, <2>2
    <2>4. QED
      BY <1>0, <2>2, <2>3, ConcatEmptySeq
  <1>6. Rule([i \in 1..n |-> u[1..i]])
    <2> DEFINE f == [i \in 1..n |-> u[1..i]]
    <2>1. ASSUME NEW i \in 1..n PROVE u[1..i] = IF i = 1 THEN w[i] ELSE f[i - 1] \o w[i]
      <3>1. CASE i = 1
        BY <1>0, <1>5, <3>1
      <3>2. CASE i # 1
        <4>1. i - 1 \in 1..n
          BY <1>0, <3>2
        <4>2. QED
          BY <1>4, <3>2, <4>1
      <3>3. QED
        BY <3>1, <3>2
    <2>2. QED
      BY <2>1
  <1>7. Rule(t)
    BY <1>6
  <1>8. n # 0 => FlattenSeq(w) = t[n]
    BY Zenon DEF FlattenSeq
  <1>9. \A i \in 1..n : t[i] = u[1..i]
    <2> HIDE DEF t
    <2> DEFINE N == {d \in Nat : \A i \in 1..n : i <= d => t[i] = u[1..i]}
    <2>1. 0 \in N
      OBVIOUS
    <2>2. ASSUME NEW d \in Nat, d \in N PROVE d + 1 \in N
      <3>1. SUFFICES ASSUME NEW i \in 1..n, i <= d + 1 PROVE t[i] = u[1..i]
        <4>1. d + 1 \in Nat
          OBVIOUS
        <4>2. QED
          BY <4>1, Zenon
      <3>2. t[i] = IF i = 1 THEN w[i] ELSE t[i - 1] \o w[i]
        BY <1>7
      <3>3. CASE i = 1
        BY <1>0, <1>5, <3>2, <3>3
      <3>4. CASE i # 1
        <4>1. i - 1 \in 1..n /\ i - 1 <= d
          BY <1>0, <3>1, <3>4
        <4>2. t[i - 1] = u[1..i - 1]
          BY <2>2, <4>1
        <4>3. QED
          BY <1>4, <3>2, <3>4, <4>2
      <3>5. QED
        BY <3>3, <3>4
    <2>3. Nat \subseteq N
      <3> HIDE DEF N
      <3>1. QED
        BY <2>1, <2>2, Induction
    <2>4. n \in N
      <3> HIDE DEF N
      <3>1. QED
        BY <1>0, <2>3
    <2>5. QED
      BY <1>0, <2>4
  <1>10. FlattenSeq(w) = u[1..n]
    <2>1. CASE n = 0
      <3>1. w = <<>> /\ 1..n = {}
        BY <2>1, EmptySeq
      <3>2. FlattenSeq(w) = w
        BY <2>1 DEF FlattenSeq
      <3>3. QED
        BY <1>2, <3>1, <3>2
    <2>2. CASE n # 0
      <3>1. n \in 1..n
        BY <1>0, <2>2
      <3>2. QED
        BY <1>8, <1>9, <2>2, <3>1
    <2>3. QED
      BY <2>1, <2>2
  <1>11. QED
    BY <1>3, <1>10

\* A row of texts that grows by one has its text at the end.
LEMMA FlattenGrows ==
  /\ FlattenSeq(<<>>) = <<>>
  /\ \A w \in Seq(Seq(Char)) : FlattenSeq(w) \in Seq(Char)
  /\ \A w \in Seq(Seq(Char)), s \in Seq(Char) : FlattenSeq(Append(w, s)) = FlattenSeq(w) \o s
  <1>1. FlattenSeq(<<>>) = <<>>
    BY EmptySeq DEF FlattenSeq
  <1>2. ASSUME NEW w \in Seq(Seq(Char)) PROVE FlattenSeq(w) \in Seq(Char)
    <2>1. PICK u : Table(Seq(Char), <<>>, ConcatStep, w, u) /\ FlattenSeq(w) = u[1..Len(w)]
      BY FlattenTable
    <2>2. Starts(w, w)
      BY LenProperties DEF Starts
    <2>3. Agree(Seq(Char), w, u, u)
      BY <2>1, <2>2, ConcatFold, TablesAgree, Zenon
    <2>4. QED
      BY <2>1, <2>3 DEF Agree
  <1>3. ASSUME NEW w \in Seq(Seq(Char)), NEW s \in Seq(Char) PROVE FlattenSeq(Append(w, s)) = FlattenSeq(w) \o s
    <2>1. PICK t : Table(Seq(Char), <<>>, ConcatStep, w, t) /\ FlattenSeq(w) = t[1..Len(w)]
      BY FlattenTable
    <2>2. Append(w, s) \in Seq(Seq(Char))
      BY AppendProperties
    <2>3. PICK u : /\ Table(Seq(Char), <<>>, ConcatStep, Append(w, s), u)
                   /\ FlattenSeq(Append(w, s)) = u[1..Len(Append(w, s))]
      BY <2>2, FlattenTable
    <2>4. Grown(ConcatStep, w, s, t, u)
      BY <2>1, <2>3, ConcatFold, TableGrows, Zenon
    <2>5. u[1..Len(Append(w, s))] = ConcatStep[<<t[1..Len(w)], s>>]
      BY <2>4 DEF Grown
    <2>6. QED
      BY <1>2, <2>1, <2>3, <2>5, ConcatFold
  <1>4. QED
    BY <1>1, <1>2, <1>3

Texts(piece, b, k) == [m \in 1..k + 1 - b |-> piece[b + m - 1].text]
Flat(piece, b, k) == FlattenSeq(Texts(piece, b, k))

\* The text of pieces b to k, and of one more.
LEMMA FlatGrows ==
  ASSUME NEW piece \in Seq(Piece), NEW k \in 0..Len(piece), NEW b \in 1..k + 1
  PROVE  /\ Flat(piece, b, k) \in Seq(Char)
         /\ b = k + 1 => Flat(piece, b, k) = <<>>
         /\ k < Len(piece) => Flat(piece, b, k + 1) = Flat(piece, b, k) \o piece[k + 1].text
  <1>0. /\ Len(piece) \in Nat /\ k \in Nat /\ b \in Nat /\ k + 1 - b \in Nat
        /\ \A i \in 1..Len(piece) : piece[i].text \in Seq(Char)
    <2>1. Len(piece) \in Nat
      BY LenProperties
    <2>2. \A i \in 1..Len(piece) : piece[i] \in Piece
      BY ElementOfSeq
    <2>3. \A i \in 1..Len(piece) : piece[i].text \in Seq(Char)
      BY <2>2 DEF Piece
    <2>4. QED
      BY <2>1, <2>3
  <1>1. Texts(piece, b, k) \in Seq(Seq(Char)) /\ Len(Texts(piece, b, k)) = k + 1 - b
    <2>1. \A m \in 1..k + 1 - b : piece[b + m - 1].text \in Seq(Char)
      BY <1>0
    <2>2. QED
      BY <1>0, <2>1 DEF Texts
  <1>2. b = k + 1 => Flat(piece, b, k) = <<>>
    <2>1. SUFFICES ASSUME b = k + 1 PROVE Flat(piece, b, k) = <<>>
      OBVIOUS
    <2>2. Len(Texts(piece, b, k)) = 0
      BY <1>0, <1>1, <2>1
    <2>3. Texts(piece, b, k) = <<>>
      BY <1>1, <2>2, EmptySeq
    <2>4. QED
      BY <2>3, FlattenGrows DEF Flat
  <1>3. ASSUME k < Len(piece) PROVE Flat(piece, b, k + 1) = Flat(piece, b, k) \o piece[k + 1].text
    <2> DEFINE s == piece[k + 1].text
               v == Texts(piece, b, k)
               w == Texts(piece, b, k + 1)
    <2>1. k + 1 \in 1..Len(piece) /\ s \in Seq(Char)
      BY <1>0, <1>3
    <2>2. w \in Seq(Seq(Char)) /\ Len(w) = k + 2 - b
      <3>1. \A m \in 1..k + 1 + 1 - b : piece[b + m - 1].text \in Seq(Char)
        BY <1>0, <1>3
      <3>2. k + 1 + 1 - b \in Nat /\ k + 1 + 1 - b = k + 2 - b
        BY <1>0
      <3>3. QED
        BY <1>0, <3>1, <3>2 DEF Texts
    <2>3. ASSUME NEW i \in 1..k + 2 - b PROVE w[i] = Append(v, s)[i]
      <3>1. w[i] = piece[b + i - 1].text
        BY <1>0 DEF Texts
      <3>2. CASE i = k + 2 - b
        <4>1. b + i - 1 = k + 1 /\ i = Len(v) + 1
          BY <1>0, <1>1, <3>2
        <4>2. Append(v, s)[Len(v) + 1] = s
          <5> HIDE DEF v, s
          <5>1. QED
            BY <1>1, <2>1, AppendProperties
        <4>3. QED
          BY <3>1, <4>1, <4>2
      <3>3. CASE i # k + 2 - b
        <4>1. i \in 1..Len(v) /\ i \in 1..k + 1 - b
          BY <1>0, <1>1, <3>3
        <4>2. v[i] = piece[b + i - 1].text
          BY <4>1 DEF Texts
        <4>3. QED
          BY <1>1, <2>1, <3>1, <4>1, <4>2, AppendProperties
      <3>4. QED
        BY <3>2, <3>3
    <2>4. Append(v, s) \in Seq(Seq(Char)) /\ Len(Append(v, s)) = k + 2 - b
      BY <1>0, <1>1, <2>1, AppendProperties
    <2>5. w = Append(v, s)
      <3> HIDE DEF v, w, s
      <3>1. QED
        BY <2>2, <2>3, <2>4, SeqEqual
    <2>6. QED
      BY <1>1, <2>1, <2>5, FlattenGrows DEF Flat
  <1>4. Flat(piece, b, k) \in Seq(Char)
    BY <1>1, FlattenGrows DEF Flat
  <1>5. QED
    BY <1>2, <1>3, <1>4

-----------------------------------------------------------------------------
(* From characters to pieces.                                              *)

\* What a character does to the word it belongs to.
Lengthened(seen, c) ==
  LET new == ParseStep(seen, c)
      text == Look("none", seen.word).text
  IN /\ new.words = seen.words
     /\ new.word # <<>>
     /\ new.quote = NextQuote(seen.quote, c)
     /\ Look("none", new.word).text = IF new.quote = seen.quote THEN Append(text, c) ELSE text

\* A character that does not end a word is copied unless it opens or closes.
LEMMA WordStep ==
  ASSUME NEW seen \in Reading, Balanced(seen), NEW c \in Char, ~(c = "blank" /\ seen.quote = "none")
  PROVE  Lengthened(seen, c)
  <1>0. seen.word \in Seq(Char) /\ "none" \in Mode
    BY DEF Reading, Mode
  <1>1. /\ ParseStep(seen, c).word = Append(seen.word, c) /\ ParseStep(seen, c).words = seen.words
        /\ ParseStep(seen, c).quote = NextQuote(seen.quote, c)
    BY DEF ParseStep, Reading
  <1>2. Append(seen.word, c) # <<>>
    BY <1>0, AppendProperties
  <1>3. Look("none", Append(seen.word, c)) = UnquoteStep(Look("none", seen.word), c)
    BY <1>0, LookGrows
  <1>4. Look("none", seen.word).quote = seen.quote
    BY DEF Balanced
  <1>5. UnquoteStep(Look("none", seen.word), c).text =
          IF NextQuote(seen.quote, c) = seen.quote THEN Append(Look("none", seen.word).text, c)
          ELSE Look("none", seen.word).text
    BY <1>4 DEF UnquoteStep
  <1>6. QED
    BY <1>1, <1>2, <1>3, <1>5 DEF Lengthened

\* What a quotation, or a part of one, does to a line that is being read.
Copied(old, new, text) ==
  /\ new.words = old.words
  /\ new.word # <<>>
  /\ Look("none", new.word).text = Look("none", old.word).text \o text

\* What is appended is appended to the end.
LEMMA AppendRight == \A s, t \in Seq(Char), c \in Char : Append(s \o t, c) = s \o Append(t, c)
  OBVIOUS

\* A quotation is copied without its quotes, blanks and other quotes included.
LEMMA Quotation ==
  ASSUME NEW string \in Seq(Char), NEW rd, Reads(string, rd), NEW p \in 1..Len(string),
         rd[p - 1].quote = "none", string[p] \in Quote, Closing(string, p) # {}
  PROVE  LET q == Min(Closing(string, p)) IN
           Copied(rd[p - 1], rd[q], SubSeq(string, p + 1, q - 1)) /\ rd[q].quote = "none"
  <1> DEFINE n == Len(string)
             q == Min(Closing(string, p))
             Part(i) == Copied(rd[p - 1], rd[i], SubSeq(string, p + 1, i)) /\ rd[i].quote = string[p]
             N == {d \in Nat : p + d <= q - 1 => Part(p + d)}
  <1>0. n \in Nat /\ \A i \in 1..n : string[i] \in Char
    BY LenProperties, ElementOfSeq
  <1>1. q \in p + 1..n /\ string[q] = string[p] /\ \A j \in p + 1..q - 1 : string[j] # string[p]
    BY Nearest
  <1> HIDE DEF q
  <1>2. \A i \in 0..n : rd[i] \in Reading /\ Balanced(rd[i])
    BY DEF Reads
  <1>3. \A i \in 1..n : rd[i] = ParseStep(rd[i - 1], string[i])
    BY DEF Reads
  <1>4. \A i \in 0..n : Look("none", rd[i].word).text \in Seq(Char)
    <2>1. \A i \in 0..n : rd[i].word \in Seq(Char)
      BY <1>2 DEF Reading
    <2>2. "none" \in Mode
      BY DEF Mode
    <2>3. \A i \in 0..n : Look("none", rd[i].word) \in Seen
      BY <2>1, <2>2, LookGrows
    <2>4. QED
      BY <2>3 DEF Seen
  <1>5. string[p] # "blank" /\ string[p] # "none"
    BY DEF Quote
  <1>6. 0 \in N
    <2>1. p - 1 \in 0..n /\ p + 0 = p
      BY <1>0
    <2>2. NextQuote("none", string[p]) = string[p]
      BY DEF NextQuote
    <2>3. rd[p] = ParseStep(rd[p - 1], string[p]) /\ string[p] \in Char
      BY <1>0, <1>3
    <2>4. /\ rd[p].words = rd[p - 1].words /\ rd[p].word # <<>> /\ rd[p].quote = string[p]
          /\ Look("none", rd[p].word).text = Look("none", rd[p - 1].word).text
      BY <1>2, <1>5, <2>1, <2>2, <2>3, WordStep DEF Lengthened
    <2>5. SubSeq(string, p + 1, p) = <<>>
      BY <1>0, SubSeqEmpty
    <2>6. Look("none", rd[p - 1].word).text \o <<>> = Look("none", rd[p - 1].word).text
      BY <1>4, <2>1, ConcatEmptySeq
    <2>7. Part(p)
      BY <2>4, <2>5, <2>6 DEF Copied
    <2>8. QED
      BY <2>1, <2>7
  <1>7. ASSUME NEW d \in Nat, d \in N PROVE d + 1 \in N
    <2>1. SUFFICES ASSUME p + (d + 1) <= q - 1 PROVE Part(p + (d + 1))
      <3>1. d + 1 \in Nat
        OBVIOUS
      <3>2. QED
        BY <3>1, Zenon
    <2> DEFINE i == p + d
    <2>2. /\ i \in p..q - 2 /\ i \in 0..n /\ i + 1 \in 1..n /\ i + 1 \in p + 1..q - 1 /\ i + 1 - 1 = i
          /\ p + (d + 1) = i + 1 /\ p - 1 \in 0..n /\ i <= q - 1
      BY <1>0, <1>1, <2>1
    <2>3. Part(i)
      <3> HIDE DEF i
      <3>1. p + d <= q - 1
        BY <2>2 DEF i
      <3>2. Part(p + d)
        BY <1>7, <3>1, Zenon
      <3>3. QED
        BY <3>2 DEF i
    <2> HIDE DEF i
    <2>4. string[i + 1] \in Char /\ string[i + 1] # string[p]
      BY <1>0, <1>1, <2>2
    <2>5. NextQuote(string[p], string[i + 1]) = string[p]
      BY <1>5, <2>4 DEF NextQuote
    <2>6. rd[i + 1] = ParseStep(rd[i], string[i + 1])
      BY <1>3, <2>2
    <2>7. /\ rd[i + 1].words = rd[i].words /\ rd[i + 1].word # <<>> /\ rd[i + 1].quote = string[p]
          /\ Look("none", rd[i + 1].word).text = Append(Look("none", rd[i].word).text, string[i + 1])
      <3>1. rd[i] \in Reading /\ Balanced(rd[i]) /\ string[i + 1] \in Char
        BY <1>2, <2>2, <2>4
      <3>2. rd[i].quote = string[p] /\ ~(string[i + 1] = "blank" /\ rd[i].quote = "none")
        BY <1>5, <2>3
      <3>3. /\ ParseStep(rd[i], string[i + 1]).words = rd[i].words
            /\ ParseStep(rd[i], string[i + 1]).word # <<>>
            /\ ParseStep(rd[i], string[i + 1]).quote = string[p]
            /\ Look("none", ParseStep(rd[i], string[i + 1]).word).text
                 = Append(Look("none", rd[i].word).text, string[i + 1])
        <4>1. Lengthened(rd[i], string[i + 1])
          BY <3>1, <3>2, WordStep
        <4>2. NextQuote(rd[i].quote, string[i + 1]) = rd[i].quote
          BY <2>5, <3>2
        <4>3. ParseStep(rd[i], string[i + 1]).quote = rd[i].quote
          BY <4>1, <4>2, Zenon DEF Lengthened
        <4>4. QED
          BY <3>2, <4>1, <4>3, Zenon DEF Lengthened
      <3>4. QED
        BY <2>6, <3>3
    <2>8. SubSeq(string, p + 1, i + 1) = Append(SubSeq(string, p + 1, i), string[i + 1])
      <3>1. p + 1 \in 1..n /\ i + 1 \in p + 1..n
        BY <1>0, <1>1, <2>2
      <3>2. SubSeq(string, p + 1, i + 1) = SubSeq(string, p + 1, i) \o <<string[i + 1]>>
        BY <2>2, <3>1, SubSeqRecursiveSecond, SMTT(20)
      <3>3. SubSeq(string, p + 1, i) \in Seq(Char)
        <4>1. p + 1 \in Int /\ i \in Int /\ \A j \in p + 1..i : string[j] \in Char
          BY <1>0, <2>2
        <4>2. QED
          BY <4>1, SubSeqProperties
      <3>4. QED
        BY <2>4, <3>2, <3>3, AppendIsConcat
    <2>9. SubSeq(string, p + 1, i) \in Seq(Char)
      <3>1. p + 1 \in Int /\ i \in Int /\ \A j \in p + 1..i : string[j] \in Char
        BY <1>0, <2>2
      <3>2. QED
        BY <3>1, SubSeqProperties
    <2>10. \A s, t \in Seq(Char), c \in Char : Append(s \o t, c) = s \o Append(t, c)
      BY AppendRight
    <2>11. /\ Look("none", rd[i].word).text = Look("none", rd[p - 1].word).text \o SubSeq(string, p + 1, i)
           /\ rd[i].words = rd[p - 1].words
      BY <2>3 DEF Copied
    <2>12. Look("none", rd[i + 1].word).text = Look("none", rd[p - 1].word).text \o SubSeq(string, p + 1, i + 1)
      <3>1. Look("none", rd[p - 1].word).text \in Seq(Char)
        BY <1>4
      <3>2. Append(Look("none", rd[p - 1].word).text \o SubSeq(string, p + 1, i), string[i + 1])
              = Look("none", rd[p - 1].word).text \o Append(SubSeq(string, p + 1, i), string[i + 1])
        BY <2>4, <2>9, <2>10, <3>1, Zenon
      <3>3. QED
        BY <2>7, <2>8, <2>11, <3>2, Zenon
    <2>13. Part(i + 1)
      BY <2>7, <2>11, <2>12 DEF Copied
    <2>14. QED
      BY <2>2, <2>13
  <1>8. Part(q - 1)
    <2>1. q - 1 - p \in Nat /\ p + (q - 1 - p) = q - 1 /\ q - 1 <= q - 1
      BY <1>0, <1>1
    <2>2. Nat \subseteq N
      <3> HIDE DEF N
      <3>1. QED
        BY <1>6, <1>7, Induction
    <2>3. q - 1 - p \in N
      <3> HIDE DEF N
      <3>1. QED
        BY <2>1, <2>2
    <2>4. p + (q - 1 - p) <= q - 1 => Part(p + (q - 1 - p))
      BY <2>3, Zenon
    <2>5. QED
      BY <2>1, <2>4
  <1>9. q \in 1..n /\ q - 1 \in 0..n /\ string[q] \in Char
    BY <1>0, <1>1
  <1>10. NextQuote(string[p], string[q]) = "none"
    BY <1>1, <1>5 DEF NextQuote
  <1>11. rd[q] = ParseStep(rd[q - 1], string[q])
    BY <1>3, <1>9
  <1>12. /\ rd[q].words = rd[q - 1].words /\ rd[q].word # <<>> /\ rd[q].quote = "none"
         /\ Look("none", rd[q].word).text = Look("none", rd[q - 1].word).text
    BY <1>1, <1>2, <1>5, <1>8, <1>9, <1>10, <1>11, WordStep DEF Lengthened
  <1>13. QED
    BY <1>8, <1>12 DEF Copied, q

-----------------------------------------------------------------------------
(* From pieces to words.                                                   *)

Solid(piece, r) == r[1] <= r[2] /\ \A m \in r[1]..r[2] : piece[m] # Gap

\* Pieces r[1] to r[2] stand between gaps.
Between(piece, r) ==
  /\ r[1] \in 1..Len(piece) /\ r[2] \in r[1]..Len(piece)
  /\ \A m \in r[1]..r[2] : piece[m] # Gap
  /\ r[1] > 1 => piece[r[1] - 1] = Gap
  /\ r[2] < Len(piece) => piece[r[2] + 1] = Gap

\* The words among the first e pieces, from left to right.
Listed(piece, e, r) ==
  /\ r \in Seq(Nat \X Nat)
  /\ \A i \in 1..Len(r) : Between(piece, r[i]) /\ r[i][2] <= e
  /\ \A i, j \in 1..Len(r) : i < j => r[i][1] < r[j][1]
  /\ \A m \in 1..e : piece[m] # Gap => \E i \in 1..Len(r) : r[i][1] <= m /\ m <= r[i][2]

\* One more word.
LEMMA ListMore ==
  ASSUME NEW piece \in Seq(Piece), NEW b \in 1..Len(piece), NEW k \in b..Len(piece), NEW r,
         Listed(piece, b - 1, r), Between(piece, <<b, k>>)
  PROVE  Listed(piece, k, Append(r, <<b, k>>))
  <1> DEFINE L == Len(r)
             new == Append(r, <<b, k>>)
  <1>0. /\ r \in Seq(Nat \X Nat) /\ <<b, k>> \in Nat \X Nat /\ L \in Nat /\ Len(piece) \in Nat
        /\ <<b, k>>[1] = b /\ <<b, k>>[2] = k
    BY LenProperties DEF Listed
  <1>1. /\ new \in Seq(Nat \X Nat) /\ Len(new) = L + 1 /\ new[L + 1] = <<b, k>>
        /\ \A i \in 1..L : new[i] = r[i]
    BY <1>0, AppendProperties
  <1> HIDE DEF new, L
  <1>2. \A i \in 1..L : /\ Between(piece, r[i]) /\ r[i][2] <= b - 1
                        /\ r[i][1] \in Nat /\ r[i][2] \in Nat /\ r[i][1] <= r[i][2]
    <2>1. \A i \in 1..L : r[i] \in Nat \X Nat
      BY <1>0, ElementOfSeq DEF L
    <2>2. \A i \in 1..L : Between(piece, r[i]) /\ r[i][2] <= b - 1
      BY DEF Listed, L
    <2>3. \A i \in 1..L : r[i][1] \in Nat /\ r[i][2] \in Nat
      BY <2>1
    <2>4. \A i \in 1..L : r[i][1] <= r[i][2]
      BY <1>0, <2>2, <2>3 DEF Between
    <2>5. QED
      BY <2>2, <2>3, <2>4
  <1>3. \A i \in 1..L + 1 : Between(piece, new[i]) /\ new[i][2] <= k
    <2>1. SUFFICES ASSUME NEW i \in 1..L + 1 PROVE Between(piece, new[i]) /\ new[i][2] <= k
      OBVIOUS
    <2>2. CASE i = L + 1
      <3>1. new[i] = <<b, k>>
        BY <1>1, <2>2
      <3>2. k <= k
        OBVIOUS
      <3>3. QED
        BY <1>0, <3>1, <3>2
    <2>3. CASE i # L + 1
      <3>1. i \in 1..L
        BY <1>0, <2>3
      <3>2. QED
        BY <1>1, <1>2, <3>1
    <2>4. QED
      BY <2>2, <2>3
  <1>4. ASSUME NEW i \in 1..L + 1, NEW j \in 1..L + 1, i < j PROVE new[i][1] < new[j][1]
    <2>1. i \in 1..L
      BY <1>0, <1>4
    <2>2. CASE j = L + 1
      <3>1. new[j][1] = b
        BY <1>0, <1>1, <2>2
      <3>2. r[i][1] < b
        BY <1>2, <2>1
      <3>3. QED
        BY <1>1, <2>1, <3>1, <3>2
    <2>3. CASE j # L + 1
      <3>1. j \in 1..L
        BY <1>0, <2>3
      <3>2. r[i][1] < r[j][1]
        BY <1>4, <2>1, <3>1 DEF Listed, L
      <3>3. QED
        BY <1>1, <2>1, <3>1, <3>2
    <2>4. QED
      BY <2>2, <2>3
  <1>5. ASSUME NEW m \in 1..k, piece[m] # Gap PROVE \E i \in 1..L + 1 : new[i][1] <= m /\ m <= new[i][2]
    <2>1. CASE m < b
      <3>1. m \in 1..b - 1
        BY <1>0, <2>1
      <3>2. PICK i \in 1..L : r[i][1] <= m /\ m <= r[i][2]
        BY <1>5, <3>1 DEF Listed, L
      <3>3. i \in 1..L + 1 /\ new[i] = r[i]
        BY <1>0, <1>1, <3>2
      <3>4. QED
        BY <3>2, <3>3
    <2>2. CASE m >= b
      <3>1. L + 1 \in 1..L + 1 /\ new[L + 1][1] <= m /\ m <= new[L + 1][2]
        BY <1>0, <1>1, <2>2
      <3>2. QED
        BY <3>1
    <2>3. QED
      BY <1>0, <2>1, <2>2
  <1>6. QED
    BY <1>1, <1>3, <1>4, <1>5 DEF Listed, new

\* A gap adds no word.
LEMMA ListGap ==
  ASSUME NEW piece \in Seq(Piece), NEW k \in 0..Len(piece) - 1, NEW r, Listed(piece, k, r), piece[k + 1] = Gap
  PROVE  Listed(piece, k + 1, r)
  <1>1. r \in Seq(Nat \X Nat) /\ Len(r) \in Nat /\ \A i \in 1..Len(r) : r[i] \in Nat \X Nat
    BY LenProperties, ElementOfSeq DEF Listed
  <1>2. \A i \in 1..Len(r) : Between(piece, r[i]) /\ r[i][2] <= k + 1
    BY <1>1 DEF Listed
  <1>3. \A m \in 1..k + 1 : piece[m] # Gap => m \in 1..k
    BY LenProperties
  <1>4. QED
    BY <1>1, <1>2, <1>3 DEF Listed

\* The words, without their quotes, are those among the first e pieces.
Spelled(piece, e, raw, r) ==
  /\ Listed(piece, e, r)
  /\ Len(r) = Len(raw)
  /\ \A i \in 1..Len(r) : Look("none", raw[i]).text = Flat(piece, r[i][1], r[i][2])

\* After the first k pieces, the words that are complete and the one that is
\* being read, from piece b on, are those of the pieces.
Means(piece, k, seen, b, r) ==
  /\ k \in 0..Len(piece) /\ b \in 1..k + 1
  /\ seen \in Reading
  /\ seen.quote = "none"
  /\ b > 1 => piece[b - 1] = Gap
  /\ \A m \in b..k : piece[m] # Gap
  /\ seen.word = <<>> <=> b = k + 1
  /\ Look("none", seen.word).text = Flat(piece, b, k)
  /\ Spelled(piece, b - 1, seen.words, r)

\* Before a gap or the end, the word that is being read is one of the line's.
LEMMA MeansWord ==
  ASSUME NEW piece \in Seq(Piece), NEW k, NEW seen, NEW b, NEW r, Means(piece, k, seen, b, r),
         seen.word # <<>>, k < Len(piece) => piece[k + 1] = Gap
  PROVE  Spelled(piece, k, Append(seen.words, seen.word), Append(r, <<b, k>>))
  <1> DEFINE raw == Append(seen.words, seen.word)
             all == Append(r, <<b, k>>)
             L == Len(r)
  <1>0. /\ Len(piece) \in Nat /\ k \in 0..Len(piece) /\ b \in 1..k
        /\ r \in Seq(Nat \X Nat) /\ L \in Nat /\ L = Len(seen.words)
        /\ seen.words \in Seq(Seq(Char)) /\ seen.word \in Seq(Char)
    <2>1. Len(piece) \in Nat
      BY LenProperties
    <2>2. k \in 0..Len(piece) /\ b \in 1..k + 1 /\ b # k + 1
      BY DEF Means
    <2>3. seen.words \in Seq(Seq(Char)) /\ seen.word \in Seq(Char)
      BY DEF Means, Reading
    <2>4. r \in Seq(Nat \X Nat) /\ L = Len(seen.words)
      BY DEF Means, Spelled, Listed
    <2>5. L \in Nat
      BY <2>4, LenProperties
    <2>6. QED
      BY <2>1, <2>2, <2>3, <2>4, <2>5
  <1>1. Between(piece, <<b, k>>)
    BY <1>0 DEF Between, Means
  <1>2. Listed(piece, k, all)
    <2>1. b \in 1..Len(piece) /\ k \in b..Len(piece) /\ Listed(piece, b - 1, r)
      BY <1>0 DEF Means, Spelled
    <2>2. QED
      BY <1>1, <2>1, ListMore
  <1>3. /\ Len(all) = L + 1 /\ Len(raw) = L + 1 /\ all[L + 1] = <<b, k>> /\ raw[L + 1] = seen.word
        /\ \A i \in 1..L : all[i] = r[i] /\ raw[i] = seen.words[i]
    <2>1. <<b, k>> \in Nat \X Nat
      BY <1>0
    <2>2. /\ Len(all) = L + 1 /\ all[L + 1] = <<b, k>>
          /\ \A i \in 1..L : all[i] = r[i]
      BY <1>0, <2>1, AppendProperties
    <2>3. /\ Len(raw) = L + 1 /\ raw[L + 1] = seen.word
          /\ \A i \in 1..L : raw[i] = seen.words[i]
      BY <1>0, AppendProperties
    <2>4. QED
      BY <2>2, <2>3
  <1> HIDE DEF Spelled, all, raw, L
  <1>4. ASSUME NEW i \in 1..L + 1 PROVE Look("none", raw[i]).text = Flat(piece, all[i][1], all[i][2])
    <2>1. CASE i = L + 1
      <3>1. Look("none", seen.word).text = Flat(piece, b, k)
        BY DEF Means
      <3>2. QED
        BY <1>3, <2>1, <3>1
    <2>2. CASE i # L + 1
      <3>1. i \in 1..L
        BY <1>0, <2>2
      <3>2. Look("none", seen.words[i]).text = Flat(piece, r[i][1], r[i][2])
        BY <3>1 DEF Means, Spelled, L
      <3>3. QED
        BY <1>3, <3>1, <3>2
    <2>3. QED
      BY <2>1, <2>2
  <1>5. QED
    BY <1>2, <1>3, <1>4 DEF Spelled, all, raw, L

\* A gap ends the word before it.
LEMMA MeansGap ==
  ASSUME NEW piece \in Seq(Piece), NEW k, NEW seen, NEW b, NEW r, Means(piece, k, seen, b, r),
         k < Len(piece), piece[k + 1] = Gap
  PROVE  \E all : Means(piece, k + 1, ParseStep(seen, "blank"), k + 2, all)
  <1> DEFINE new == ParseStep(seen, "blank")
  <1>0. /\ Len(piece) \in Nat /\ k \in 0..Len(piece) - 1 /\ k + 1 \in 0..Len(piece) /\ k + 2 \in 1..k + 2
        /\ k + 2 - 1 = k + 1 /\ k + 1 + 1 = k + 2 /\ b \in 1..k + 1
    <2>1. Len(piece) \in Nat /\ k \in 0..Len(piece) /\ b \in 1..k + 1
      BY LenProperties DEF Means
    <2>2. QED
      BY <2>1
  <1>1. seen \in Reading /\ seen.quote = "none"
    BY DEF Means
  <1>2. "blank" \in Char /\ "none" \in Mode
    BY DEF Char, Mode
  <1>3. new \in Reading /\ new.quote = "none" /\ new.word = <<>>
        /\ new.words = IF seen.word = <<>> THEN seen.words ELSE Append(seen.words, seen.word)
    <2>1. ReadStep[<<seen, "blank">>] = new /\ ReadStep \in [Reading \X Char -> Reading]
      BY <1>1, <1>2, ReadStepType
    <2>2. new \in Reading
      BY <1>1, <1>2, <2>1
    <2>3. new = IF seen.word = <<>> THEN seen ELSE [seen EXCEPT !.words = Append(@, seen.word), !.word = <<>>]
      BY <1>1 DEF ParseStep
    <2>4. QED
      BY <1>1, <2>2, <2>3 DEF Reading
  <1> HIDE DEF new
  <1>4. Look("none", <<>>).text = Flat(piece, k + 2, k + 1)
    <2>1. Look("none", <<>>).text = <<>>
      BY <1>2, LookGrows DEF NothingSeen
    <2>2. Flat(piece, k + 2, k + 1) = <<>>
      BY <1>0, FlatGrows
    <2>3. QED
      BY <2>1, <2>2
  <1>5. \E all : Spelled(piece, k, new.words, all)
    <2>1. CASE seen.word = <<>>
      <3>1. b - 1 = k /\ new.words = seen.words
        BY <1>0, <1>3, <2>1 DEF Means
      <3>2. QED
        BY <3>1 DEF Means
    <2>2. CASE seen.word # <<>>
      <3>1. new.words = Append(seen.words, seen.word)
        BY <1>3, <2>2
      <3>2. QED
        BY <2>2, <3>1, MeansWord
    <2>3. QED
      BY <2>1, <2>2
  <1>6. PICK all : Spelled(piece, k, new.words, all)
    BY <1>5
  <1>7. Spelled(piece, k + 1, new.words, all)
    BY <1>0, <1>6, ListGap DEF Spelled
  <1>8. Means(piece, k + 1, new, k + 2, all)
    <2>1. k + 2 > 1 => piece[k + 2 - 1] = Gap
      BY <1>0
    <2>2. \A m \in k + 2..k + 1 : piece[m] # Gap
      BY <1>0
    <2>3. Spelled(piece, k + 2 - 1, new.words, all)
      BY <1>0, <1>7
    <2>4. QED
      BY <1>0, <1>3, <1>4, <2>1, <2>2, <2>3 DEF Means
  <1>9. QED
    BY <1>8 DEF new

\* Any other piece adds its text to the word.
LEMMA MeansText ==
  ASSUME NEW piece \in Seq(Piece), NEW k, NEW seen, NEW b, NEW r, Means(piece, k, seen, b, r),
         k < Len(piece), piece[k + 1] # Gap,
         NEW new \in Reading, new.quote = "none", Copied(seen, new, piece[k + 1].text)
  PROVE  Means(piece, k + 1, new, b, r)
  <1>0. /\ Len(piece) \in Nat /\ k \in 0..Len(piece) - 1 /\ k + 1 \in 0..Len(piece) /\ k \in 0..Len(piece)
        /\ b \in 1..k + 1 /\ b \in 1..k + 1 + 1 /\ b # k + 1 + 1
    <2>1. Len(piece) \in Nat /\ k \in 0..Len(piece) /\ b \in 1..k + 1
      BY LenProperties DEF Means
    <2>2. QED
      BY <2>1
  <1>1. \A m \in b..k + 1 : piece[m] # Gap
    <2>1. \A m \in b..k + 1 : m \in b..k \/ m = k + 1
      BY <1>0
    <2>2. QED
      BY <2>1 DEF Means
  <1>2. Look("none", new.word).text = Flat(piece, b, k + 1)
    <2>1. Flat(piece, b, k + 1) = Flat(piece, b, k) \o piece[k + 1].text
      BY <1>0, FlatGrows
    <2>2. Look("none", new.word).text = Look("none", seen.word).text \o piece[k + 1].text
      BY DEF Copied
    <2>3. Look("none", seen.word).text = Flat(piece, b, k)
      BY DEF Means
    <2>4. QED
      BY <2>1, <2>2, <2>3
  <1>3. new.word # <<>> /\ new.words = seen.words
    BY DEF Copied
  <1>4. /\ b > 1 => piece[b - 1] = Gap
        /\ Spelled(piece, b - 1, seen.words, r)
    BY DEF Means
  <1>5. QED
    BY <1>0, <1>1, <1>2, <1>3, <1>4 DEF Means

\* The pieces from character p on are all but the first k.
Follows(piece, k, rest) ==
  /\ rest \in Seq(Piece)
  /\ Len(piece) = k + Len(rest)
  /\ \A i \in 1..Len(rest) : rest[i] = piece[k + i]

Ahead(piece, k, first, more) == k < Len(piece) /\ piece[k + 1] = first /\ Follows(piece, k + 1, more)

\* After its first piece, the same holds for the next k.
LEMMA FollowsNext ==
  ASSUME NEW piece \in Seq(Piece), NEW k \in Nat, NEW first \in Piece, NEW more \in Seq(Piece),
         Follows(piece, k, <<first>> \o more)
  PROVE  Ahead(piece, k, first, more)
  <1> DEFINE rest == <<first>> \o more
  <1>1. /\ <<first>> \in Seq(Piece) /\ Len(<<first>>) = 1 /\ <<first>>[1] = first
        /\ Len(more) \in Nat /\ Len(piece) \in Nat
    BY LenProperties
  <1>2. Len(rest) = 1 + Len(more) /\ rest[1] = first /\ \A i \in 1..Len(more) : rest[i + 1] = more[i]
    <2>1. /\ Len(rest) = Len(<<first>>) + Len(more)
          /\ \A i \in 1..Len(<<first>>) + Len(more) : rest[i] = IF i <= Len(<<first>>) THEN <<first>>[i]
                                                                ELSE more[i - Len(<<first>>)]
      BY <1>1, ConcatProperties
    <2>2. rest[1] = first
      BY <1>1, <2>1
    <2>3. ASSUME NEW i \in 1..Len(more) PROVE rest[i + 1] = more[i]
      <3>1. i + 1 \in 1..1 + Len(more) /\ ~(i + 1 <= 1) /\ i + 1 - 1 = i
        BY <1>1
      <3>2. QED
        BY <1>1, <2>1, <3>1
    <2>4. QED
      BY <1>1, <2>1, <2>2, <2>3
  <1> HIDE DEF rest
  <1>3. Len(piece) = k + Len(rest) /\ \A i \in 1..Len(rest) : rest[i] = piece[k + i]
    BY DEF Follows, rest
  <1>4. k < Len(piece) /\ piece[k + 1] = first
    BY <1>1, <1>2, <1>3
  <1>5. ASSUME NEW i \in 1..Len(more) PROVE more[i] = piece[k + 1 + i]
    <2>1. i + 1 \in 1..Len(rest) /\ k + (i + 1) = k + 1 + i
      BY <1>1, <1>2
    <2>2. QED
      BY <1>2, <1>3, <2>1
  <1>6. Len(piece) = k + 1 + Len(more)
    BY <1>1, <1>2, <1>3
  <1>7. QED
    BY <1>4, <1>5, <1>6 DEF Follows, Ahead

Scanned(string, piece, from, rd, k) ==
  \E p \in 1..Len(string) + 1 : \E b, r :
    Follows(piece, k, from[p]) /\ Means(piece, k, rd[p - 1], b, r)

\* Before the first piece nothing is read.
LEMMA ScanStart ==
  ASSUME NEW string \in Seq(Char), NEW rd, NEW from, Reads(string, rd), Rest(string, from)
  PROVE  Scanned(string, from[1], from, rd, 0)
  <1> DEFINE piece == from[1]
  <1>0. Len(string) \in Nat /\ 1 \in 1..Len(string) + 1 /\ 1 - 1 = 0
    BY LenProperties
  <1>1. piece \in Seq(Piece) /\ Len(piece) \in Nat
    BY <1>0, LenProperties DEF Rest
  <1> HIDE DEF piece
  <1>2. Follows(piece, 0, piece)
    BY <1>1 DEF Follows
  <1>3. rd[0] = NothingRead
    BY DEF Reads
  <1>4. Listed(piece, 0, <<>>)
    BY EmptySeq DEF Listed
  <1>5. /\ NothingRead \in Reading /\ NothingRead.quote = "none" /\ NothingRead.word = <<>>
        /\ NothingRead.words = <<>>
    BY ReadStepType DEF NothingRead
  <1>6. Look("none", <<>>).text = <<>>
    BY LookGrows DEF Mode, NothingSeen
  <1>7. Flat(piece, 1, 0) = <<>>
    BY <1>1, FlatGrows
  <1>8. Spelled(piece, 1 - 1, NothingRead.words, <<>>)
    BY <1>4, <1>5, EmptySeq DEF Spelled
  <1>9. Means(piece, 0, NothingRead, 1, <<>>)
    BY <1>1, <1>5, <1>6, <1>7, <1>8 DEF Means
  <1>10. QED
    BY <1>0, <1>2, <1>3, <1>9 DEF Scanned, piece

\* A piece more is read by reading its characters.
LEMMA ScanStep ==
  ASSUME NEW string \in Seq(Char), NEW rd, NEW from, Reads(string, rd), Rest(string, from),
         Open \notin ToSet(from[1]), NEW k \in Nat, k < Len(from[1]), Scanned(string, from[1], from, rd, k)
  PROVE  Scanned(string, from[1], from, rd, k + 1)
  <1> DEFINE piece == from[1]
             n == Len(string)
             To(q) == \E b, r : Follows(piece, k + 1, from[q]) /\ Means(piece, k + 1, rd[q - 1], b, r)
  <1>0. n \in Nat /\ piece \in Seq(Piece) /\ Len(piece) \in Nat /\ \A i \in 1..n : string[i] \in Char
    <2>1. n \in Nat /\ \A i \in 1..n : string[i] \in Char
      BY LenProperties, ElementOfSeq
    <2>2. piece \in Seq(Piece)
      BY <2>1 DEF Rest
    <2>3. QED
      BY <2>1, <2>2, LenProperties
  <1>1. PICK p \in 1..n + 1 : \E b, r : Follows(piece, k, from[p]) /\ Means(piece, k, rd[p - 1], b, r)
    BY DEF Scanned
  <1>2. PICK b, r : Follows(piece, k, from[p]) /\ Means(piece, k, rd[p - 1], b, r)
    BY <1>1
  <1>3. SUFFICES \E q \in 1..n + 1 : To(q)
    BY DEF Scanned
  <1>4. from[p] = PieceRule(string, from, p) /\ \A i \in 1..n + 1 : from[i] \in Seq(Piece)
    BY DEF Rest
  <1> HIDE DEF piece
  <1>5. p \in 1..n
    <2>1. CASE p > n
      <3>1. from[p] = <<>>
        BY <1>4, <2>1 DEF PieceRule
      <3>2. Len(piece) = k + 0
        BY <1>2, <3>1 DEF Follows
      <3>3. QED
        BY <1>0, <3>2 DEF piece
    <2>2. QED
      BY <1>0, <2>1
  <1>6. /\ p - 1 \in 0..n /\ p + 1 \in 1..n + 1 /\ p + 1 - 1 = p /\ p \in 0..n /\ ~(p > n)
        /\ string[p] \in Char /\ k < Len(piece)
    BY <1>0, <1>5 DEF piece
  <1>7. rd[p - 1] \in Reading /\ Balanced(rd[p - 1]) /\ rd[p] \in Reading /\ rd[p] = ParseStep(rd[p - 1], string[p])
    BY <1>5, <1>6 DEF Reads
  <1>8. rd[p - 1].quote = "none"
    BY <1>2 DEF Means
  <1>9. Gap \in Piece /\ Open \in Piece /\ \A t \in Seq(Char) : Text(t) \in Piece /\ Text(t) # Gap /\ Text(t).text = t
    BY EmptySeq DEF Gap, Open, Text, Piece
  <1>10. CASE string[p] = "blank"
    <2>1. from[p] = <<Gap>> \o from[p + 1]
      BY <1>4, <1>6, <1>10 DEF PieceRule
    <2>2. from[p + 1] \in Seq(Piece)
      BY <1>4, <1>6
    <2>3. piece[k + 1] = Gap /\ Follows(piece, k + 1, from[p + 1])
      <3>1. Follows(piece, k, <<Gap>> \o from[p + 1])
        BY <1>2, <2>1
      <3>2. Ahead(piece, k, Gap, from[p + 1])
        BY <1>0, <1>9, <2>2, <3>1, FollowsNext
      <3>3. QED
        BY <3>2 DEF Ahead
    <2>4. \E all : Means(piece, k + 1, rd[p], k + 2, all)
      BY <1>0, <1>2, <1>6, <1>7, <1>10, <2>3, MeansGap
    <2>5. To(p + 1)
      BY <1>6, <2>3, <2>4
    <2>6. QED
      BY <1>6, <2>5
  <1>11. CASE string[p] # "blank" /\ string[p] \notin Quote
    <2> DEFINE t == <<string[p]>>
    <2>1. from[p] = <<Text(t)>> \o from[p + 1]
      BY <1>4, <1>6, <1>11 DEF PieceRule
    <2>2. from[p + 1] \in Seq(Piece) /\ t \in Seq(Char)
      BY <1>4, <1>6
    <2>3. piece[k + 1] = Text(t) /\ Follows(piece, k + 1, from[p + 1])
      <3>1. Follows(piece, k, <<Text(t)>> \o from[p + 1])
        BY <1>2, <2>1
      <3>2. Ahead(piece, k, Text(t), from[p + 1])
        <4> HIDE DEF t
        <4>1. QED
          BY <1>0, <1>9, <2>2, <3>1, FollowsNext
      <3>3. QED
        BY <3>2 DEF Ahead
    <2>4. Lengthened(rd[p - 1], string[p])
      BY <1>6, <1>7, <1>11, WordStep
    <2>5. NextQuote(rd[p - 1].quote, string[p]) = rd[p - 1].quote
      BY <1>11 DEF NextQuote
    <2>6. /\ rd[p].words = rd[p - 1].words /\ rd[p].word # <<>> /\ rd[p].quote = "none"
          /\ Look("none", rd[p].word).text = Append(Look("none", rd[p - 1].word).text, string[p])
      BY <1>7, <1>8, <2>4, <2>5 DEF Lengthened
    <2>7. Look("none", rd[p - 1].word).text \in Seq(Char)
      <3>1. rd[p - 1].word \in Seq(Char) /\ "none" \in Mode
        BY <1>7 DEF Reading, Mode
      <3>2. Look("none", rd[p - 1].word) \in Seen
        BY <3>1, LookGrows
      <3>3. QED
        BY <3>2 DEF Seen
    <2>8. Append(Look("none", rd[p - 1].word).text, string[p]) = Look("none", rd[p - 1].word).text \o t
      BY <1>6, <2>7, AppendIsConcat
    <2>9. piece[k + 1].text = t /\ piece[k + 1] # Gap
      BY <1>9, <2>2, <2>3
    <2>10. Copied(rd[p - 1], rd[p], piece[k + 1].text)
      BY <2>6, <2>8, <2>9 DEF Copied
    <2>11. Means(piece, k + 1, rd[p], b, r)
      BY <1>0, <1>2, <1>6, <1>7, <2>6, <2>9, <2>10, MeansText
    <2>12. To(p + 1)
      BY <1>6, <2>3, <2>11
    <2>13. QED
      BY <1>6, <2>12
  <1>12. CASE string[p] \in Quote /\ Closing(string, p) = {}
    <2>1. string[p] # "blank"
      BY <1>12 DEF Quote
    <2>2. from[p] = <<Open>> /\ <<>> \in Seq(Piece)
      BY <1>4, <1>6, <1>12, <2>1, EmptySeq DEF PieceRule
    <2>3. <<Open>> = <<Open>> \o <<>>
      BY <1>9, ConcatEmptySeq
    <2>4. k < Len(piece) /\ piece[k + 1] = Open
      <3>1. Follows(piece, k, <<Open>> \o <<>>)
        BY <1>2, <2>2, <2>3
      <3>2. Ahead(piece, k, Open, <<>>)
        BY <1>0, <1>9, <2>2, <3>1, FollowsNext
      <3>3. QED
        BY <3>2 DEF Ahead
    <2>5. k + 1 \in 1..Len(piece)
      BY <1>0, <2>4
    <2>6. Open \in ToSet(piece)
      BY <1>0, <2>4, <2>5, LenProperties DEF ToSet
    <2>7. QED
      BY <2>6 DEF piece
  <1>13. CASE string[p] \in Quote /\ Closing(string, p) # {}
    <2> DEFINE q == Min(Closing(string, p))
               t == SubSeq(string, p + 1, q - 1)
    <2>1. string[p] # "blank"
      BY <1>13 DEF Quote
    <2>2. from[p] = <<Text(t)>> \o from[q + 1]
      BY <1>4, <1>6, <1>13, <2>1, Zenon DEF PieceRule
    <2>3. q \in p + 1..n
      BY <1>5, <1>13, Nearest
    <2>4. Copied(rd[p - 1], rd[q], t) /\ rd[q].quote = "none"
      BY <1>5, <1>8, <1>13, Quotation
    <2> HIDE DEF q
    <2>5. t \in Seq(Char)
      <3>1. p + 1 \in Int /\ q - 1 \in Int /\ \A j \in p + 1..q - 1 : string[j] \in Char
        BY <1>0, <1>5, <2>3
      <3>2. QED
        BY <3>1, SubSeqProperties
    <2> HIDE DEF t
    <2>6. q + 1 \in 1..n + 1 /\ q + 1 - 1 = q /\ q \in 0..n
      BY <1>0, <1>5, <2>3
    <2>7. from[q + 1] \in Seq(Piece) /\ rd[q] \in Reading
      BY <1>4, <2>6 DEF Reads
    <2>8. piece[k + 1] = Text(t) /\ Follows(piece, k + 1, from[q + 1])
      <3>1. Follows(piece, k, <<Text(t)>> \o from[q + 1])
        BY <1>2, <2>2
      <3>2. Ahead(piece, k, Text(t), from[q + 1])
        BY <1>0, <1>9, <2>5, <2>7, <3>1, FollowsNext
      <3>3. QED
        BY <3>2 DEF Ahead
    <2>9. piece[k + 1].text = t /\ piece[k + 1] # Gap
      BY <1>9, <2>5, <2>8
    <2>10. Means(piece, k + 1, rd[q], b, r)
      BY <1>0, <1>2, <1>6, <2>4, <2>7, <2>9, MeansText
    <2>11. To(q + 1)
      BY <2>6, <2>8, <2>10
    <2>12. QED
      BY <2>6, <2>11
  <1>14. QED
    BY <1>10, <1>11, <1>12, <1>13

\* When all pieces are read, so are all characters.
LEMMA ScanAll ==
  ASSUME NEW string \in Seq(Char), Terminated(string)
  PROVE  \E b, r : /\ Pieces(string) \in Seq(Piece)
                   /\ Means(Pieces(string), Len(Pieces(string)), ReadAll(string), b, r)
  <1>1. PICK rd : Reads(string, rd)
    BY ReadPrefixes
  <1>2. PICK from : Rest(string, from) /\ Pieces(string) = from[1]
    BY PiecesAre
  <1> DEFINE piece == from[1]
             n == Len(string)
             N == {k \in Nat : k <= Len(piece) => Scanned(string, piece, from, rd, k)}
  <1>0. n \in Nat /\ piece \in Seq(Piece) /\ Len(piece) \in Nat
    <2>1. n \in Nat
      BY LenProperties
    <2>2. piece \in Seq(Piece)
      BY <1>2, <2>1 DEF Rest
    <2>3. QED
      BY <2>1, <2>2, LenProperties
  <1>3. Open \notin ToSet(piece)
    BY <1>2 DEF Terminated
  <1>4. 0 \in N
    BY <1>1, <1>2, ScanStart
  <1>5. ASSUME NEW k \in Nat, k \in N PROVE k + 1 \in N
    <2>1. SUFFICES ASSUME k + 1 <= Len(piece) PROVE Scanned(string, piece, from, rd, k + 1)
      <3>1. k + 1 \in Nat
        OBVIOUS
      <3>2. QED
        BY <3>1, Zenon
    <2>2. k <= Len(piece) /\ k < Len(piece)
      BY <1>0, <2>1
    <2>3. Scanned(string, piece, from, rd, k)
      BY <1>5, <2>2, Zenon
    <2>4. QED
      BY <1>1, <1>2, <1>3, <2>2, <2>3, ScanStep
  <1>6. Scanned(string, piece, from, rd, Len(piece))
    <2>1. Nat \subseteq N
      <3> HIDE DEF N
      <3>1. QED
        BY <1>4, <1>5, Induction
    <2>2. Len(piece) \in N /\ Len(piece) <= Len(piece)
      <3> HIDE DEF N, piece
      <3>1. QED
        BY <1>0, <2>1
    <2>3. QED
      BY <2>2, Zenon
  <1>7. PICK p \in 1..n + 1 : \E b, r : Follows(piece, Len(piece), from[p]) /\ Means(piece, Len(piece), rd[p - 1], b, r)
    BY <1>6 DEF Scanned
  <1>8. PICK b, r : Follows(piece, Len(piece), from[p]) /\ Means(piece, Len(piece), rd[p - 1], b, r)
    BY <1>7
  <1>9. p = n + 1
    <2>1. SUFFICES ASSUME p \in 1..n PROVE FALSE
      BY <1>0
    <2>2. Len(from[p]) = 0 /\ from[p] \in Seq(Piece)
      <3>1. from[p] \in Seq(Piece) /\ Len(piece) = Len(piece) + Len(from[p])
        BY <1>8 DEF Follows
      <3>2. Len(from[p]) \in Nat
        BY <3>1, LenProperties
      <3>3. Len(piece) \in Nat
        BY <1>0
      <3>4. QED
        <4> HIDE DEF piece
        <4>1. QED
          BY <3>1, <3>2, <3>3
    <2>3. from[p] = PieceRule(string, from, p) /\ \A i \in 1..n + 1 : from[i] \in Seq(Piece)
      BY <1>2 DEF Rest
    <2>4. \E x \in Piece, more \in Seq(Piece) : from[p] = <<x>> \o more
      BY <1>0, <2>1, <2>3, RuleNotEmpty
    <2>5. PICK x \in Piece, more \in Seq(Piece) : from[p] = <<x>> \o more
      BY <2>4
    <2>6. Len(from[p]) = 1 + Len(more) /\ Len(more) \in Nat
      <3>1. <<x>> \in Seq(Piece) /\ Len(<<x>>) = 1
        OBVIOUS
      <3>2. QED
        BY <2>5, <3>1, ConcatProperties, LenProperties
    <2>7. QED
      BY <2>2, <2>6
  <1>10. rd[p - 1] = ReadAll(string)
    BY <1>0, <1>1, <1>9 DEF Reads
  <1>11. QED
    BY <1>0, <1>2, <1>8, <1>10

-----------------------------------------------------------------------------
(* The words of a line.                                                    *)

WordRanges(piece) ==
  {r \in (DOMAIN piece) \X (DOMAIN piece) :
     /\ Solid(piece, r)
     /\ r[1] > 1 => ~Solid(piece, <<r[1] - 1, r[2]>>)
     /\ r[2] < Len(piece) => ~Solid(piece, <<r[1], r[2] + 1>>)}

\* A row of pieces that cannot be made longer stands between gaps.
LEMMA RangesBetween ==
  ASSUME NEW piece \in Seq(Piece)
  PROVE  WordRanges(piece) = {r \in (DOMAIN piece) \X (DOMAIN piece) : Between(piece, r)}
  <1>0. Len(piece) \in Nat /\ DOMAIN piece = 1..Len(piece)
    BY LenProperties
  <1>1. SUFFICES ASSUME NEW x \in DOMAIN piece, NEW y \in DOMAIN piece
                 PROVE  <<x, y>> \in WordRanges(piece) <=> Between(piece, <<x, y>>)
    <2>1. \A r \in (DOMAIN piece) \X (DOMAIN piece) : r = <<r[1], r[2]>> /\ r[1] \in DOMAIN piece /\ r[2] \in DOMAIN piece
      OBVIOUS
    <2>2. \A r \in (DOMAIN piece) \X (DOMAIN piece) : r \in WordRanges(piece) <=> Between(piece, r)
      BY <1>1, <2>1
    <2>3. WordRanges(piece) \subseteq (DOMAIN piece) \X (DOMAIN piece)
      BY DEF WordRanges
    <2>4. QED
      BY <2>2, <2>3
  <1>2. x \in Nat /\ y \in Nat /\ x >= 1 /\ y >= 1 /\ x <= Len(piece) /\ y <= Len(piece)
    BY <1>0
  <1>3. <<x, y>> \in (DOMAIN piece) \X (DOMAIN piece) /\ <<x, y>>[1] = x /\ <<x, y>>[2] = y
    OBVIOUS
  <1>4. <<x, y>> \in WordRanges(piece) <=>
          /\ Solid(piece, <<x, y>>)
          /\ x > 1 => ~Solid(piece, <<x - 1, y>>)
          /\ y < Len(piece) => ~Solid(piece, <<x, y + 1>>)
    BY <1>3 DEF WordRanges
  <1>5. \A u, v \in Int : Solid(piece, <<u, v>>) <=> u <= v /\ \A m \in u..v : piece[m] # Gap
    BY DEF Solid
  <1>6. Between(piece, <<x, y>>) <=>
          /\ x <= y
          /\ \A m \in x..y : piece[m] # Gap
          /\ x > 1 => piece[x - 1] = Gap
          /\ y < Len(piece) => piece[y + 1] = Gap
    BY <1>2, <1>3 DEF Between
  <1>7. x <= y /\ (\A m \in x..y : piece[m] # Gap) =>
          /\ Solid(piece, <<x - 1, y>>) <=> piece[x - 1] # Gap
          /\ Solid(piece, <<x, y + 1>>) <=> piece[y + 1] # Gap
    <2>1. SUFFICES ASSUME x <= y, \A m \in x..y : piece[m] # Gap
                   PROVE  /\ Solid(piece, <<x - 1, y>>) <=> piece[x - 1] # Gap
                          /\ Solid(piece, <<x, y + 1>>) <=> piece[y + 1] # Gap
      OBVIOUS
    <2>2. x - 1 \in Int /\ y + 1 \in Int /\ x - 1 <= y /\ x <= y + 1 /\ x \in Int /\ y \in Int
      BY <1>2, <2>1
    <2>3. Solid(piece, <<x - 1, y>>) <=> piece[x - 1] # Gap
      <3>1. \A m \in x - 1..y : m = x - 1 \/ m \in x..y
        BY <1>2
      <3>2. x - 1 \in x - 1..y
        BY <1>2, <2>2
      <3>3. QED
        BY <1>5, <2>1, <2>2, <3>1, <3>2
    <2>4. Solid(piece, <<x, y + 1>>) <=> piece[y + 1] # Gap
      <3>1. \A m \in x..y + 1 : m = y + 1 \/ m \in x..y
        BY <1>2
      <3>2. y + 1 \in x..y + 1
        BY <1>2, <2>2
      <3>3. QED
        BY <1>5, <2>1, <2>2, <3>1, <3>2
    <2>5. QED
      BY <2>3, <2>4
  <1>8. Solid(piece, <<x, y>>) <=> x <= y /\ \A m \in x..y : piece[m] # Gap
    BY <1>2, <1>5
  <1>9. QED
    BY <1>4, <1>6, <1>7, <1>8, Zenon

\* From left to right.
Ordered(r) == \A i, j \in DOMAIN r : i < j => r[i][1] < r[j][1]

\* There is one way only to order a set of ranges from left to right.
LEMMA OneOrder ==
  ASSUME NEW S, S \subseteq Nat \X Nat, NEW n \in Nat, NEW e \in [1..n -> S], Ordered(e),
         \A x \in S : \E i \in 1..n : e[i] = x
  PROVE  (CHOOSE s \in SetToSeqs(S) : Ordered(s)) = e
  <1>1. \A f \in [1..n -> S] : Ordered(f) => \A i, j \in 1..n : i # j => f[i] # f[j]
    <2>1. SUFFICES ASSUME NEW f \in [1..n -> S], Ordered(f) PROVE \A i, j \in 1..n : i # j => f[i] # f[j]
      OBVIOUS
    <2>2. ASSUME NEW i \in 1..n, NEW j \in 1..n, i < j PROVE f[i] # f[j]
      <3>1. f[i][1] < f[j][1] /\ f[i] \in Nat \X Nat
        BY <2>1, <2>2 DEF Ordered
      <3>2. f[i][1] \in Nat
        BY <3>1
      <3>3. f[i] = f[j] => f[i][1] < f[i][1]
        BY <3>1
      <3>4. ~(f[i][1] < f[i][1])
        BY <3>2
      <3>5. QED
        BY <3>3, <3>4
    <2>3. \A i, j \in 1..n : i # j => i < j \/ j < i
      OBVIOUS
    <2>4. QED
      BY <2>2, <2>3
  <1>2. e \in Bijection(1..n, S)
    BY <1>1 DEF Bijection, Injection, Surjection, IsInjective
  <1>3. IsFiniteSet(S) /\ Cardinality(S) = n
    BY <1>2, FS_CountingElements, FS_NatBijection DEF ExistsBijection
  <1>4. e \in SetToSeqs(S)
    BY <1>1, <1>3 DEF SetToSeqs
  <1>5. ASSUME NEW f \in SetToSeqs(S), Ordered(f) PROVE f = e
    <2>1. f \in [1..n -> S] /\ \A i, j \in 1..n : i # j => f[i] # f[j]
      BY <1>3, <1>5 DEF SetToSeqs
    <2>2. \A x \in S : \E i \in 1..n : f[i] = x
      <3>1. f \in Injection(1..n, S)
        BY <2>1 DEF Injection, IsInjective
      <3>2. Cardinality(1..n) = n
        BY FS_Interval
      <3>3. f \in Surjection(1..n, S)
        BY <1>3, <3>1, <3>2, FS_Injection
      <3>4. QED
        BY <3>3 DEF Surjection
    <2>3. SUFFICES ASSUME \E i \in 1..n : f[i] # e[i] PROVE FALSE
      BY <2>1
    <2> DEFINE D == {m \in 1..n : f[m] # e[m]}
    <2>4. PICK i \in D : \A j \in D : i <= j
      <3>1. D # {}
        BY <2>3, Zenon
      <3>2. D \subseteq Nat
        OBVIOUS
      <3> HIDE DEF D
      <3>3. QED
        BY <3>1, <3>2, LeastNumber
    <2>5. \A j \in 1..n : j < i => f[j] = e[j]
      <3>1. SUFFICES ASSUME NEW j \in 1..n, j < i, f[j] # e[j] PROVE FALSE
        OBVIOUS
      <3>2. i <= j
        BY <2>4, <3>1, Zenon
      <3>3. i \in 1..n
        BY <2>4
      <3>4. QED
        BY <3>1, <3>2, <3>3
    <2>6. PICK j \in 1..n : e[j] = f[i]
      BY <2>1, <2>4
    <2>7. PICK k \in 1..n : f[k] = e[i]
      BY <2>1, <2>2, <2>4
    <2>8. \A m \in 1..n : f[m][1] \in Nat /\ e[m][1] \in Nat
      <3>1. \A m \in 1..n : f[m] \in Nat \X Nat /\ e[m] \in Nat \X Nat
        BY <2>1
      <3>2. QED
        BY <3>1
    <2>9. i < j
      <3>1. j # i
        BY <2>4, <2>6
      <3>2. ~(j < i)
        BY <2>1, <2>4, <2>5, <2>6
      <3>3. QED
        BY <2>4, <3>1, <3>2
    <2>10. i < k
      <3>1. k # i
        BY <2>4, <2>7
      <3>2. ~(k < i)
        <4>1. ASSUME k < i PROVE FALSE
          <5>1. e[k] = e[i]
            BY <2>5, <2>7, <4>1
          <5>2. QED
            BY <1>1, <2>4, <3>1, <5>1
        <4>2. QED
          BY <4>1
      <3>3. QED
        BY <2>4, <3>1, <3>2
    <2>11. e[i][1] < e[j][1] /\ f[i][1] < f[k][1]
      <3>1. DOMAIN e = 1..n /\ DOMAIN f = 1..n
        BY <2>1
      <3>2. QED
        BY <1>5, <2>4, <2>9, <2>10, <3>1 DEF Ordered
    <2>12. QED
      BY <2>4, <2>6, <2>7, <2>8, <2>11
  <1>6. \E s \in SetToSeqs(S) : Ordered(s)
    BY <1>4
  <1>7. QED
    BY <1>5, <1>6

SameRange(piece, r, x) == r[1] = x[1] /\ r[2] = x[2]

\* Two rows between gaps that overlap are the same.
LEMMA Overlap ==
  ASSUME NEW piece \in Seq(Piece), NEW r, NEW x, Between(piece, r), Between(piece, x),
         r[1] <= x[1], x[1] <= r[2]
  PROVE  SameRange(piece, r, x)
  <1>0. Len(piece) \in Nat
    BY LenProperties
  <1>1. /\ r[1] \in 1..Len(piece) /\ r[2] \in r[1]..Len(piece)
        /\ x[1] \in 1..Len(piece) /\ x[2] \in x[1]..Len(piece)
    BY DEF Between
  <1>2. \A m \in r[1]..r[2] : piece[m] # Gap
    BY DEF Between
  <1>3. \A m \in x[1]..x[2] : piece[m] # Gap
    BY DEF Between
  <1>4. r[1] = x[1]
    <2>1. SUFFICES ASSUME r[1] < x[1] PROVE FALSE
      BY <1>0, <1>1
    <2>2. x[1] - 1 \in r[1]..r[2] /\ x[1] > 1
      BY <1>0, <1>1, <2>1
    <2>3. piece[x[1] - 1] = Gap
      BY <2>2 DEF Between
    <2>4. QED
      BY <1>2, <2>2, <2>3
  <1>5. r[2] = x[2]
    <2>1. CASE r[2] < x[2]
      <3>1. r[2] + 1 \in x[1]..x[2] /\ r[2] < Len(piece)
        BY <1>0, <1>1, <2>1
      <3>2. piece[r[2] + 1] = Gap
        BY <3>1 DEF Between
      <3>3. QED
        BY <1>3, <3>1, <3>2
    <2>2. CASE x[2] < r[2]
      <3>1. x[2] + 1 \in r[1]..r[2] /\ x[2] < Len(piece)
        BY <1>0, <1>1, <1>4, <2>2
      <3>2. piece[x[2] + 1] = Gap
        BY <3>1 DEF Between
      <3>3. QED
        BY <1>2, <3>1, <3>2
    <2>3. QED
      BY <1>0, <1>1, <2>1, <2>2
  <1>6. QED
    BY <1>4, <1>5 DEF SameRange

\* A list of all words of a line is what Words orders.
LEMMA WordsListed ==
  ASSUME NEW string, Pieces(string) \in Seq(Piece), NEW r, Listed(Pieces(string), Len(Pieces(string)), r)
  PROVE  Words(string) = [i \in 1..Len(r) |-> Flat(Pieces(string), r[i][1], r[i][2])]
  <1> DEFINE piece == Pieces(string)
             S == WordRanges(piece)
             order == CHOOSE s \in SetToSeqs(S) : Ordered(s)
  <1>1. Words(string) = [n \in DOMAIN order |-> Flat(piece, order[n][1], order[n][2])]
    BY Zenon DEF Words, WordRanges, Solid, Ordered, Flat, Texts
  <1> HIDE DEF piece
  <1>2. /\ Len(piece) \in Nat /\ DOMAIN piece = 1..Len(piece) /\ piece \in Seq(Piece)
        /\ r \in Seq(Nat \X Nat) /\ Len(r) \in Nat /\ r \in [1..Len(r) -> Nat \X Nat]
        /\ DOMAIN r = 1..Len(r)
    <2>1. piece \in Seq(Piece) /\ r \in Seq(Nat \X Nat)
      BY DEF piece, Listed
    <2>2. QED
      BY <2>1, LenProperties
  <1>3. /\ \A i \in 1..Len(r) : Between(piece, r[i])
        /\ Ordered(r)
        /\ \A m \in 1..Len(piece) : piece[m] # Gap => \E i \in 1..Len(r) : r[i][1] <= m /\ m <= r[i][2]
    BY <1>2 DEF Listed, Ordered, piece
  <1>4. S = {x \in (DOMAIN piece) \X (DOMAIN piece) : Between(piece, x)}
    BY <1>2, RangesBetween
  <1> HIDE DEF S
  <1>5. \A i \in 1..Len(r) : r[i] \in S
    <2>1. SUFFICES ASSUME NEW i \in 1..Len(r) PROVE r[i] \in S
      OBVIOUS
    <2>2. r[i] \in Nat \X Nat /\ Between(piece, r[i])
      BY <1>2, <1>3
    <2>3. r[i][1] \in 1..Len(piece) /\ r[i][2] \in 1..Len(piece)
      BY <1>2, <2>2 DEF Between
    <2>4. r[i] \in (DOMAIN piece) \X (DOMAIN piece)
      BY <1>2, <2>2, <2>3
    <2>5. QED
      BY <1>4, <2>2, <2>4
  <1>6. r \in [1..Len(r) -> S]
    BY <1>2, <1>5
  <1>7. S \subseteq Nat \X Nat
    <2>1. \A x \in S : x \in (1..Len(piece)) \X (1..Len(piece))
      BY <1>2, <1>4
    <2>2. QED
      BY <1>2, <2>1
  <1>8. ASSUME NEW x \in S PROVE \E i \in 1..Len(r) : r[i] = x
    <2>1. Between(piece, x) /\ x = <<x[1], x[2]>> /\ x[1] \in 1..Len(piece) /\ x[2] \in x[1]..Len(piece)
      <3>1. Between(piece, x) /\ x \in (DOMAIN piece) \X (DOMAIN piece)
        BY <1>4
      <3>2. x = <<x[1], x[2]>>
        BY <3>1
      <3>3. QED
        BY <3>1, <3>2 DEF Between
    <2>2. piece[x[1]] # Gap
      <3>1. x[1] \in x[1]..x[2]
        BY <1>2, <2>1
      <3>2. QED
        BY <2>1, <3>1 DEF Between
    <2>3. PICK i \in 1..Len(r) : r[i][1] <= x[1] /\ x[1] <= r[i][2]
      BY <1>3, <2>1, <2>2
    <2>4. Between(piece, r[i]) /\ r[i] = <<r[i][1], r[i][2]>>
          /\ r[i][1] \in 1..Len(piece) /\ r[i][2] \in r[i][1]..Len(piece)
      <3>1. Between(piece, r[i]) /\ r[i] \in Nat \X Nat
        BY <1>2, <1>3
      <3>2. r[i] = <<r[i][1], r[i][2]>>
        BY <3>1
      <3>3. QED
        BY <3>1, <3>2 DEF Between
    <2>5. SameRange(piece, r[i], x)
      BY <1>2, <2>1, <2>3, <2>4, Overlap
    <2>6. QED
      BY <2>1, <2>4, <2>5 DEF SameRange
  <1>9. order = r
    <2> HIDE DEF order
    <2>1. (CHOOSE s \in SetToSeqs(S) : Ordered(s)) = r
      BY <1>2, <1>3, <1>6, <1>7, <1>8, OneOrder
    <2>2. QED
      BY <2>1 DEF order
  <1>10. QED
    BY <1>1, <1>2, <1>9 DEF piece

\* The words shell_parse() and unquote() make of a line whose quotes are closed
\* are the line's, and the two looks of unquote() agree on how long they are.
THEOREM ReadingIsMeaning ==
  ASSUME NEW string \in Seq(Char), Terminated(string)
  PROVE  LET raw == ShellParse(string) IN
           /\ Words(string) \in Seq(Seq(Char)) /\ Len(Words(string)) = Len(raw)
           /\ \A i \in 1..Len(raw) : Words(string)[i] = Unquote(raw[i]) /\ Len(Unquote(raw[i])) = Room(raw[i])
  <1> DEFINE raw == ShellParse(string)
             piece == Pieces(string)
             seen == ReadAll(string)
  <1>1. PICK b, r : piece \in Seq(Piece) /\ Means(piece, Len(piece), seen, b, r)
    BY ScanAll
  <1>2. /\ seen \in Reading /\ seen.words \in Seq(Seq(Char)) /\ seen.word \in Seq(Char)
        /\ seen.quote = "none" /\ Balanced(seen)
    <2>1. seen \in Reading /\ Balanced(seen)
      BY ReadGrows, AlwaysBalanced
    <2>2. seen.quote = "none"
      BY <1>1 DEF Means
    <2>3. QED
      BY <2>1, <2>2 DEF Reading
  <1>3. raw = IF seen.word = <<>> THEN seen.words ELSE Append(seen.words, seen.word)
    BY ShellParseIs
  <1>4. raw \in Seq(Seq(Char)) /\ Len(raw) \in Nat
    BY WordTypes, LenProperties
  <1> HIDE DEF raw, seen, piece
  <1>5. Len(piece) \in Nat
    BY <1>1, LenProperties
  <1>6. \E all : Spelled(piece, Len(piece), raw, all)
    <2>1. CASE seen.word = <<>>
      <3>1. b = Len(piece) + 1 /\ Spelled(piece, b - 1, seen.words, r)
        BY <1>1, <2>1 DEF Means
      <3>2. b - 1 = Len(piece)
        BY <1>5, <3>1
      <3>3. QED
        BY <1>3, <2>1, <3>1, <3>2
    <2>2. CASE seen.word # <<>>
      <3>1. ~(Len(piece) < Len(piece))
        BY <1>5
      <3>2. Spelled(piece, Len(piece), Append(seen.words, seen.word), Append(r, <<b, Len(piece)>>))
        BY <1>1, <2>2, <3>1, MeansWord
      <3>3. QED
        BY <1>3, <2>2, <3>2
    <2>3. QED
      BY <2>1, <2>2
  <1>7. PICK all : Spelled(piece, Len(piece), raw, all)
    BY <1>6
  <1>8. /\ Listed(piece, Len(piece), all) /\ Len(all) = Len(raw)
        /\ \A i \in 1..Len(raw) : Look("none", raw[i]).text = Flat(piece, all[i][1], all[i][2])
    BY <1>7 DEF Spelled
  <1>9. Words(string) = [i \in 1..Len(raw) |-> Flat(piece, all[i][1], all[i][2])]
    BY <1>1, <1>8, WordsListed DEF piece
  <1>10. \A i \in 1..Len(raw) : raw[i] \in Seq(Char) /\ Look("none", raw[i]).quote = "none"
    <2>1. SUFFICES ASSUME NEW i \in 1..Len(raw) PROVE Look("none", raw[i]).quote = "none"
      BY <1>4, ElementOfSeq
    <2>2. CASE seen.word = <<>>
      BY <1>2, <1>3, <2>2 DEF Balanced
    <2>3. CASE seen.word # <<>>
      <3>1. /\ raw = Append(seen.words, seen.word) /\ Len(raw) = Len(seen.words) + 1 /\ Len(seen.words) \in Nat
            /\ raw[Len(seen.words) + 1] = seen.word /\ \A j \in 1..Len(seen.words) : raw[j] = seen.words[j]
        BY <1>2, <1>3, <2>3, AppendProperties, LenProperties
      <3>2. CASE i = Len(seen.words) + 1
        BY <1>2, <3>1, <3>2 DEF Balanced
      <3>3. CASE i # Len(seen.words) + 1
        <4>1. i \in 1..Len(seen.words)
          BY <3>1, <3>3
        <4>2. QED
          BY <1>2, <3>1, <4>1 DEF Balanced
      <3>4. QED
        BY <3>2, <3>3
    <2>4. QED
      BY <2>2, <2>3
  <1>11. \A i \in 1..Len(raw) : Unquote(raw[i]) = Look("none", raw[i]).text /\ Len(Unquote(raw[i])) = Room(raw[i])
    BY <1>10, BalancedLooks
  <1>12. Len(Words(string)) = Len(raw)
    BY <1>4, <1>9
  <1>13. \A i \in 1..Len(raw) : Words(string)[i] = Unquote(raw[i])
    BY <1>8, <1>9, <1>11
  <1>14. Words(string) \in Seq(Seq(Char))
    <2>1. \A i \in 1..Len(raw) : Unquote(raw[i]) \in Seq(Char)
      BY <1>10, WordTypes
    <2>2. \A i \in 1..Len(raw) : Flat(piece, all[i][1], all[i][2]) \in Seq(Char)
      BY <1>8, <1>11, <2>1
    <2>3. [i \in 1..Len(raw) |-> Flat(piece, all[i][1], all[i][2])] \in [1..Len(raw) -> Seq(Char)]
      BY <2>2
    <2>4. QED
      BY <1>4, <1>9, <2>3
  <1>15. QED
    BY <1>11, <1>12, <1>13, <1>14 DEF raw

-----------------------------------------------------------------------------
(* The program's state.                                                    *)

\* Where the client is when its words are those of the command.
Executing == {"exec", "running", "return"}

\* Of what is still to be read, only the end of the line is no character.  No
\* line was typed before the first prompt, and nothing was made at the start.
InputInv ==
  /\ \A i \in 1..Len(input) - 1 : input[i] \in Char
  /\ pc \in {"start", "connect"} => line = NULL
  /\ pc = "start" => argv = <<>> /\ client = "none" /\ ~leaked

\* A line that fits is read as a whole, but for a newline there was no room for.
LineInv ==
  line # NULL /\ Len(line) < LineSize =>
    /\ input \in {<<>>, <<"newline">>, Append(line, "newline")}
    /\ pc = "parse" \/ pc \in Executing => command = line

\* The words are those of the command, or were given as arguments.
WordsInv ==
  /\ pc = "parse" => command # <<>>
  /\ pc \in Executing =>
       \/ line = NULL /\ argc > 0
       \/ LET raw == ShellParse(command) IN
            /\ command # <<>>
            /\ argc = Len(raw)
            /\ \A i \in 1..argc : argv[i] = Unquote(raw[i]) \/ (starved /\ argv[i] = NULL)

\* Only a word that could not be copied ends the vector early.
EarlyEndInv == starved \/ \A i \in DOMAIN argv : argv[i] = NULL => i = Len(argv)

\* There is a vector unless it could not be allocated, and a command that runs is
\* one that the first word names.
VectorInv ==
  /\ EarlyEndInv
  /\ argv = <<>> /\ argc > 0 => starved
  /\ pc = "running" => argv # <<>> /\ argv[1] \in CommandName

IInv == TypeOK /\ InputInv /\ LineInv /\ WordsInv /\ VectorInv /\ NothingLeaks /\ OnlyKnownCrashes

\* A vector of copies ends with its NULL, and has no other unless one failed.
LEMMA CopiesAre ==
  ASSUME NEW copy \in Seq(Seq(Char)), NEW failed \in SUBSET (1..Len(copy))
  PROVE  /\ Copies(copy, failed) \in Seq(Seq(Char) \cup {NULL})
         /\ Copies(copy, failed) # <<>>
         /\ Len(Copies(copy, failed)) = Len(copy) + 1
         /\ Last(Copies(copy, failed)) = NULL
         /\ \A i \in 1..Len(copy) : Copies(copy, failed)[i] = IF i \in failed THEN NULL ELSE copy[i]
  <1> DEFINE n == Len(copy)
             v == Copies(copy, failed)
  <1>0. n \in Nat /\ n + 1 \in Nat /\ \A i \in 1..n : copy[i] \in Seq(Char)
    BY LenProperties, ElementOfSeq
  <1>1. v = [i \in 1..n + 1 |-> IF i \in failed \cup {n + 1} THEN NULL ELSE copy[i]]
    BY DEF Copies
  <1>2. \A i \in 1..n + 1 : (IF i \in failed \cup {n + 1} THEN NULL ELSE copy[i]) \in Seq(Char) \cup {NULL}
    <2>1. \A i \in 1..n + 1 : i \in 1..n \/ i = n + 1
      BY <1>0
    <2>2. QED
      BY <1>0, <2>1
  <1> HIDE DEF v
  <1>3. v \in Seq(Seq(Char) \cup {NULL}) /\ Len(v) = n + 1
    <2>1. v \in [1..n + 1 -> Seq(Char) \cup {NULL}]
      BY <1>1, <1>2
    <2>2. v \in Seq(Seq(Char) \cup {NULL})
      BY <1>0, <2>1
    <2>3. QED
      BY <1>0, <2>1, <2>2, LenProperties
  <1>4. v # <<>>
    BY <1>0, <1>3, EmptySeq
  <1>5. Last(v) = NULL
    <2>1. n + 1 \in 1..n + 1
      BY <1>0
    <2>2. v[n + 1] = NULL
      BY <1>1, <2>1
    <2>3. QED
      BY <1>3, <2>2 DEF Last
  <1>6. \A i \in 1..n : v[i] = IF i \in failed THEN NULL ELSE copy[i]
    <2>1. \A i \in 1..n : i \in 1..n + 1 /\ i # n + 1
      BY <1>0
    <2>2. QED
      BY <1>1, <2>1
  <1>7. QED
    BY <1>3, <1>4, <1>5, <1>6 DEF v

\* The copies of the words of a line.
LEMMA UnquotedAre ==
  ASSUME NEW raw \in Seq(Seq(Char))
  PROVE  LET copy == [i \in 1..Len(raw) |-> Unquote(raw[i])] IN copy \in Seq(Seq(Char)) /\ Len(copy) = Len(raw)
  <1>1. Len(raw) \in Nat /\ \A i \in 1..Len(raw) : Unquote(raw[i]) \in Seq(Char)
    BY LenProperties, ElementOfSeq, WordTypes
  <1>2. QED
    BY <1>1

\* What fgets takes of the input.
LEMMA ChunkIs ==
  ASSUME TypeOK, InputInv, input # <<>>
  PROVE  LET n == Min({ChunkSize, Len(input)})
             chunk == SubSeq(input, 1, n)
         IN /\ n \in 1..Len(input) /\ (n = ChunkSize \/ n = Len(input)) /\ n <= ChunkSize
            /\ chunk \in Seq(Char \cup {"newline"}) /\ Len(chunk) = n
            /\ \A i \in 1..n : chunk[i] = input[i]
  <1> DEFINE n == Min({ChunkSize, Len(input)})
             chunk == SubSeq(input, 1, n)
  <1>0. input \in Seq(Char \cup {"newline"}) /\ Len(input) \in Nat \ {0} /\ ChunkSize \in Nat \ {0}
    <2>1. input \in Seq(Char \cup {"newline"})
      BY DEF TypeOK
    <2>2. ChunkSize \in Nat \ {0}
      BY ShellAssumption DEF ChunkSize
    <2>3. QED
      BY <2>1, <2>2, EmptySeq
  <1>1. n \in {ChunkSize, Len(input)} /\ n <= ChunkSize /\ n <= Len(input)
    <2>1. \E x \in {ChunkSize, Len(input)} : \A y \in {ChunkSize, Len(input)} : x <= y
      BY <1>0
    <2>2. n \in {ChunkSize, Len(input)} /\ \A y \in {ChunkSize, Len(input)} : n <= y
      BY <2>1 DEF Min
    <2>3. QED
      BY <2>2
  <1> HIDE DEF n
  <1>2. n \in 1..Len(input) /\ (n = ChunkSize \/ n = Len(input)) /\ n <= ChunkSize
    BY <1>0, <1>1
  <1>3. \A i \in 1..n : input[i] \in Char \cup {"newline"}
    BY <1>0, <1>2, ElementOfSeq
  <1>4. /\ SubSeq(input, 1, n) \in Seq(Char \cup {"newline"})
        /\ Len(SubSeq(input, 1, n)) = n
        /\ \A i \in 1..n : SubSeq(input, 1, n)[i] = input[i]
    <2>1. 1 \in Int /\ n \in Int /\ 1 <= n /\ n - 1 + 1 = n
      BY <1>0, <1>2
    <2>2. /\ SubSeq(input, 1, n) \in Seq(Char \cup {"newline"})
          /\ Len(SubSeq(input, 1, n)) = IF 1 <= n THEN n - 1 + 1 ELSE 0
          /\ \A i \in 1..n - 1 + 1 : SubSeq(input, 1, n)[i] = input[1 + i - 1]
      BY <1>3, <2>1, SubSeqProperties
    <2>3. \A i \in 1..n : 1 + i - 1 = i
      BY <2>1
    <2>4. QED
      BY <2>1, <2>2, <2>3
  <1>5. QED
    BY <1>2, <1>4 DEF n

\* At the start nothing is known.
LEMMA InitIInv == Init => IInv
  <1> SUFFICES ASSUME Init PROVE IInv
    OBVIOUS
  <1>1. TypeOK
    BY EmptySeq DEF Init, TypeOK
  <1>2. InputInv /\ LineInv /\ WordsInv /\ VectorInv
    BY EmptySeq DEF Init, InputInv, LineInv, WordsInv, VectorInv, EarlyEndInv, Executing
  <1>3. NothingLeaks /\ OnlyKnownCrashes
    BY DEF Init, NothingLeaks, OnlyKnownCrashes
  <1>4. QED
    BY <1>1, <1>2, <1>3 DEF IInv

\* The vector that cli_free() frees is reachable, unless a copy failed.
LEMMA FreedWhole ==
  ASSUME IInv, ~starved
  PROVE  ~Unreachable(argv)
  <1>1. argv \in Seq(Seq(Char) \cup {NULL})
    BY DEF IInv, TypeOK
  <1>2. Len(argv) \in Nat /\ DOMAIN argv = 1..Len(argv)
    BY <1>1, LenProperties
  <1>3. \A i \in DOMAIN argv : argv[i] = NULL => i = Len(argv)
    BY DEF IInv, VectorInv, EarlyEndInv
  <1>4. QED
    BY <1>2, <1>3 DEF Unreachable

\* Replacing the words loses none, unless a copy failed.
LEMMA ReplaceLeaks ==
  ASSUME IInv, NEW v, NEW n, Replace(v, n)
  PROVE  leaked' \in BOOLEAN /\ (leaked' => starved)
  <1>1. leaked' = (leaked \/ Unreachable(argv))
    BY DEF Replace
  <1>2. leaked' \in BOOLEAN
    BY <1>1, Zenon
  <1>3. leaked => starved
    BY DEF IInv, NothingLeaks
  <1>4. leaked' => starved
    BY <1>1, <1>3, FreedWhole, Zenon
  <1>5. QED
    BY <1>2, <1>4

\* The end of the program frees everything.
LEMMA CliFreeIInv ==
  ASSUME IInv, CliFree, UNCHANGED <<starved, line, input, lines, command>>
  PROVE  IInv'
  <1>1. /\ argv' = <<>> /\ argc' = 0 /\ pc' = "done" /\ client' = IF client = "up" THEN "freed" ELSE client
        /\ leaked' \in BOOLEAN /\ (leaked' => starved)
    <2>1. Replace(<<>>, 0)
      BY DEF CliFree
    <2>2. leaked' \in BOOLEAN /\ (leaked' => starved)
      BY <2>1, ReplaceLeaks
    <2>3. QED
      BY <2>1, <2>2 DEF CliFree, Replace
  <1>2. TypeOK'
    BY <1>1, EmptySeq DEF IInv, TypeOK
  <1>3. InputInv' /\ WordsInv'
    BY <1>1 DEF IInv, InputInv, WordsInv, Executing
  <1>4. LineInv'
    BY <1>1 DEF IInv, LineInv, Executing
  <1>5. VectorInv'
    BY <1>1, EmptySeq DEF VectorInv, EarlyEndInv
  <1>6. NothingLeaks'
    BY <1>1 DEF NothingLeaks, IInv, TypeOK
  <1>7. OnlyKnownCrashes'
    BY <1>1 DEF OnlyKnownCrashes
  <1>8. QED
    BY <1>2, <1>3, <1>4, <1>5, <1>6, <1>7 DEF IInv

\* Help and version end the program before anything was made.
LEMMA InformIInv == ASSUME IInv, Inform PROVE IInv'
  <1>1. /\ pc = "start" /\ pc' = "done" /\ argv = <<>> /\ client = "none"
        /\ UNCHANGED <<client, argc, argv, starved, leaked, line, input, lines, command>>
    BY DEF Inform, IInv, InputInv, words, typing
  <1>2. TypeOK'
    BY <1>1 DEF IInv, TypeOK
  <1>3. InputInv' /\ WordsInv' /\ LineInv' /\ VectorInv'
    BY <1>1 DEF IInv, InputInv, LineInv, WordsInv, VectorInv, EarlyEndInv, Executing
  <1>4. NothingLeaks' /\ OnlyKnownCrashes'
    BY <1>1 DEF IInv, NothingLeaks, OnlyKnownCrashes
  <1>5. QED
    BY <1>2, <1>3, <1>4 DEF IInv

\* Words of the arguments are copied as they are.
LEMMA ArgumentsIInv == ASSUME IInv, NEW given \in Given, ParseCommandLine(given) PROVE IInv'
  <1>1. /\ pc = "start" /\ pc' = "connect" /\ argc' = Len(given) /\ argv = <<>> /\ client = "none" /\ line = NULL
        /\ UNCHANGED <<client, leaked, line, input, lines, command>>
    BY DEF ParseCommandLine, IInv, InputInv, typing
  <1>2. given \in Seq(Seq(Char)) /\ Len(given) \in Nat
    <2>1. given \in Seq(Seq(Char))
      BY ShellAssumption
    <2>2. QED
      BY <2>1, LenProperties
  <1>3. /\ argv' \in Seq(Seq(Char) \cup {NULL})
        /\ argv' # <<>> => Len(argv') = argc' + 1 /\ Last(argv') = NULL
        /\ starved' \in BOOLEAN
        /\ EarlyEndInv'
    <2>1. CASE argv' = <<>> /\ starved' \in BOOLEAN
      BY <2>1, EmptySeq DEF EarlyEndInv
    <2>2. ASSUME NEW failed \in Failures(Len(given)), argv' = Copies(given, failed), starved' = (failed # {})
          PROVE  /\ argv' \in Seq(Seq(Char) \cup {NULL})
                 /\ argv' # <<>> => Len(argv') = argc' + 1 /\ Last(argv') = NULL
                 /\ starved' \in BOOLEAN
                 /\ EarlyEndInv'
      <3>1. failed \in SUBSET (1..Len(given))
        BY DEF Failures
      <3>2. /\ Copies(given, failed) \in Seq(Seq(Char) \cup {NULL})
            /\ Len(Copies(given, failed)) = Len(given) + 1
            /\ Last(Copies(given, failed)) = NULL
            /\ \A i \in 1..Len(given) : Copies(given, failed)[i] = IF i \in failed THEN NULL ELSE given[i]
        BY <1>2, <3>1, CopiesAre
      <3>3. EarlyEndInv'
        <4>1. SUFFICES ASSUME failed = {}, NEW i \in DOMAIN argv', argv'[i] = NULL PROVE i = Len(argv')
          BY <2>2 DEF EarlyEndInv
        <4>2. i \in 1..Len(given) + 1 /\ Len(argv') = Len(given) + 1
          BY <1>2, <2>2, <3>2, <4>1, LenProperties
        <4>3. CASE i \in 1..Len(given)
          <5>1. argv'[i] = given[i] /\ given[i] \in Seq(Char)
            BY <1>2, <2>2, <3>2, <4>1, <4>3, ElementOfSeq
          <5>2. QED
            BY <4>1, <5>1, ShellAssumption
        <4>4. QED
          BY <1>2, <4>2, <4>3
      <3>4. starved' \in BOOLEAN
        BY <2>2, Zenon
      <3>5. QED
        BY <1>1, <2>2, <3>2, <3>3, <3>4
    <2>3. CASE \E failed \in Failures(Len(given)) :
                 /\ argv' = IF given = <<>> THEN <<>> ELSE Copies(given, failed)
                 /\ starved' = (failed # {})
      <3>1. PICK failed \in Failures(Len(given)) :
                 /\ argv' = IF given = <<>> THEN <<>> ELSE Copies(given, failed)
                 /\ starved' = (failed # {})
        BY <2>3
      <3>2. starved' \in BOOLEAN
        BY <3>1, Zenon
      <3>3. CASE given = <<>>
        BY <2>1, <3>1, <3>2, <3>3
      <3>4. CASE given # <<>>
        BY <2>2, <3>1, <3>4, Zenon
      <3>5. QED
        BY <3>3, <3>4
    <2>4. CASE argv' = <<>> /\ starved' = TRUE
      BY <2>1, <2>4
    <2>5. QED
      BY <2>3, <2>4 DEF ParseCommandLine
  <1>8. VectorInv'
    <2>1. argv' = <<>> /\ argc' > 0 => starved'
      <3>1. CASE \E failed \in Failures(Len(given)) :
                   /\ argv' = IF given = <<>> THEN <<>> ELSE Copies(given, failed)
                   /\ starved' = (failed # {})
        <4>1. PICK failed \in Failures(Len(given)) :
                   argv' = IF given = <<>> THEN <<>> ELSE Copies(given, failed)
          BY <3>1
        <4>2. failed \in SUBSET (1..Len(given))
          BY DEF Failures
        <4>3. Len(Copies(given, failed)) = Len(given) + 1
          BY <1>2, <4>2, CopiesAre
        <4>4. argv' = <<>> => given = <<>>
          BY <1>2, <4>1, <4>3, EmptySeq
        <4>5. QED
          BY <1>1, <4>4, EmptySeq
      <3>2. CASE starved' = TRUE
        BY <3>2
      <3>3. QED
        BY <3>1, <3>2 DEF ParseCommandLine
    <2>2. QED
      BY <1>1, <1>3, <2>1 DEF VectorInv
  <1>4. TypeOK'
    BY <1>1, <1>2, <1>3 DEF IInv, TypeOK
  <1>5. InputInv' /\ WordsInv' /\ LineInv'
    BY <1>1 DEF IInv, InputInv, LineInv, WordsInv, Executing
  <1>6. NothingLeaks' /\ OnlyKnownCrashes'
    <2>1. ~leaked
      BY <1>1 DEF IInv, InputInv
    <2>2. QED
      BY <1>1, <2>1 DEF NothingLeaks, OnlyKnownCrashes
  <1>7. QED
    BY <1>4, <1>5, <1>6, <1>8 DEF IInv

\* The client is made.  Without words from the arguments a line is asked for.
LEMMA ConnectIInv == ASSUME IInv, Connect PROVE IInv'
  <1>1. /\ pc = "connect" /\ line = NULL /\ client' = "up"
        /\ pc' \in {"prompt", "exec"} /\ (pc' = "exec" => argc > 0)
        /\ UNCHANGED <<argc, argv, starved, leaked, line, input, lines, command>>
    BY DEF Connect, IInv, InputInv, TypeOK, words, typing
  <1>2. TypeOK'
    BY <1>1 DEF IInv, TypeOK
  <1>3. InputInv' /\ WordsInv' /\ LineInv' /\ VectorInv'
    BY <1>1 DEF IInv, InputInv, LineInv, WordsInv, VectorInv, EarlyEndInv, Executing
  <1>4. NothingLeaks' /\ OnlyKnownCrashes'
    BY <1>1 DEF IInv, NothingLeaks, OnlyKnownCrashes
  <1>5. QED
    BY <1>2, <1>3, <1>4 DEF IInv

\* A line of a bounded length is a line.
LEMMA LineIs == ASSUME NEW n, NEW string \in Line(n) PROVE string \in Seq(Char)
  <1>1. PICK m \in 0..n : string \in [1..m -> Char]
    BY DEF Line, BoundedSeq, SeqOf
  <1>2. m \in Nat
    BY <1>1
  <1>3. QED
    BY <1>1, <1>2

\* A line is typed: nothing has been read of it.
LEMMA TypeIInv == ASSUME IInv, Type PROVE IInv'
  <1>1. /\ pc = "prompt" /\ line' \in Seq(Char) /\ input' = Append(line', "newline") /\ lines' = lines + 1
        /\ UNCHANGED <<pc, client, argc, argv, starved, leaked, command>>
    BY LineIs DEF Type, words
  <1>2. /\ input' \in Seq(Char \cup {"newline"}) /\ Len(line') \in Nat /\ Len(input') = Len(line') + 1
        /\ \A i \in 1..Len(line') : input'[i] = line'[i] /\ line'[i] \in Char
    <2>1. line' \in Seq(Char \cup {"newline"}) /\ "newline" \in Char \cup {"newline"}
      BY <1>1
    <2>2. /\ input' \in Seq(Char \cup {"newline"}) /\ Len(input') = Len(line') + 1
          /\ \A i \in 1..Len(line') : input'[i] = line'[i]
      BY <1>1, <2>1, AppendProperties
    <2>3. Len(line') \in Nat /\ \A i \in 1..Len(line') : line'[i] \in Char
      BY <1>1, LenProperties, ElementOfSeq
    <2>4. QED
      BY <2>2, <2>3
  <1>3. TypeOK'
    BY <1>1, <1>2 DEF IInv, TypeOK
  <1>4. InputInv'
    <2>1. \A i \in 1..Len(input') - 1 : input'[i] \in Char
      BY <1>2
    <2>2. QED
      BY <1>1, <2>1 DEF InputInv
  <1>5. LineInv'
    BY <1>1 DEF LineInv, Executing
  <1>6. WordsInv' /\ VectorInv'
    BY <1>1 DEF IInv, WordsInv, VectorInv, EarlyEndInv, Executing
  <1>7. NothingLeaks' /\ OnlyKnownCrashes'
    BY <1>1 DEF IInv, NothingLeaks, OnlyKnownCrashes
  <1>8. QED
    BY <1>3, <1>4, <1>5, <1>6, <1>7 DEF IInv

\* No character of a line ends it.
LEMMA NewlineIsNoChar == "newline" \notin Char
  BY ShellAssumption DEF Char, Quote

\* What is left for the next fgets.
LEMMA RestIs ==
  ASSUME TypeOK, InputInv, NEW n \in 1..Len(input)
  PROVE  LET rest == SubSeq(input, n + 1, Len(input)) IN
           /\ rest \in Seq(Char \cup {"newline"})
           /\ Len(rest) = Len(input) - n
           /\ \A i \in 1..Len(rest) : rest[i] = input[n + i]
           /\ \A i \in 1..Len(rest) - 1 : rest[i] \in Char
  <1> DEFINE rest == SubSeq(input, n + 1, Len(input))
  <1>0. input \in Seq(Char \cup {"newline"}) /\ Len(input) \in Nat /\ n \in Nat
    <2>1. input \in Seq(Char \cup {"newline"})
      BY DEF TypeOK
    <2>2. Len(input) \in Nat
      BY <2>1, LenProperties
    <2>3. QED
      BY <2>1, <2>2
  <1>1. /\ rest \in Seq(Char \cup {"newline"})
        /\ Len(rest) = IF n + 1 <= Len(input) THEN Len(input) - (n + 1) + 1 ELSE 0
        /\ \A i \in 1..Len(input) - (n + 1) + 1 : rest[i] = input[n + 1 + i - 1]
    <2>1. \A i \in n + 1..Len(input) : input[i] \in Char \cup {"newline"}
      <3>1. \A i \in n + 1..Len(input) : i \in 1..Len(input)
        BY <1>0
      <3>2. QED
        BY <1>0, <3>1, ElementOfSeq
    <2>2. n + 1 \in Int /\ Len(input) \in Int
      BY <1>0
    <2>3. QED
      BY <2>1, <2>2, SubSeqProperties
  <1> HIDE DEF rest
  <1>2. Len(rest) = Len(input) - n
    BY <1>0, <1>1
  <1>3. \A i \in 1..Len(rest) : rest[i] = input[n + i]
    <2>1. \A i \in 1..Len(rest) : i \in 1..Len(input) - (n + 1) + 1 /\ n + 1 + i - 1 = n + i
      BY <1>0, <1>2
    <2>2. QED
      BY <1>1, <2>1
  <1>4. \A i \in 1..Len(rest) - 1 : rest[i] \in Char
    <2>1. \A i \in 1..Len(rest) - 1 : i \in 1..Len(rest) /\ n + i \in 1..Len(input) - 1
      BY <1>0, <1>2
    <2>2. QED
      BY <1>3, <2>1 DEF InputInv
  <1>5. QED
    BY <1>1, <1>2, <1>3, <1>4 DEF rest

\* What fgets returns, without a newline at its end, has none.
LEMMA CommandIs ==
  ASSUME NEW chunk \in Seq(Char \cup {"newline"}), chunk # <<>>,
         \A i \in 1..Len(chunk) - 1 : chunk[i] \in Char
  PROVE  LET n == IF Last(chunk) = "newline" THEN Len(chunk) - 1 ELSE Len(chunk) IN
           /\ WithoutNewline(chunk) \in Seq(Char)
           /\ Len(WithoutNewline(chunk)) = n
           /\ \A i \in 1..n : WithoutNewline(chunk)[i] = chunk[i]
  <1>0. Len(chunk) \in Nat \ {0} /\ Last(chunk) = chunk[Len(chunk)] /\ Last(chunk) \in Char \cup {"newline"}
    <2>1. Len(chunk) \in Nat \ {0}
      BY EmptySeq
    <2>2. Len(chunk) \in 1..Len(chunk)
      BY <2>1
    <2>3. QED
      BY <2>1, <2>2, ElementOfSeq DEF Last
  <1>1. CASE Last(chunk) = "newline"
    <2>1. WithoutNewline(chunk) = SubSeq(chunk, 1, Len(chunk) - 1)
      BY <1>1 DEF WithoutNewline, Front
    <2>2. 1 \in Int /\ Len(chunk) - 1 \in Int
      BY <1>0
    <2>3. /\ SubSeq(chunk, 1, Len(chunk) - 1) \in Seq(Char)
          /\ Len(SubSeq(chunk, 1, Len(chunk) - 1)) = IF 1 <= Len(chunk) - 1 THEN Len(chunk) - 1 - 1 + 1 ELSE 0
          /\ \A i \in 1..Len(chunk) - 1 - 1 + 1 : SubSeq(chunk, 1, Len(chunk) - 1)[i] = chunk[1 + i - 1]
      BY <2>2, SubSeqProperties
    <2>4. \A i \in 1..Len(chunk) - 1 : i \in 1..Len(chunk) - 1 - 1 + 1 /\ 1 + i - 1 = i
      BY <1>0
    <2>5. (IF 1 <= Len(chunk) - 1 THEN Len(chunk) - 1 - 1 + 1 ELSE 0) = Len(chunk) - 1
      <3>1. ASSUME NEW k \in Nat PROVE (IF 1 <= k THEN k - 1 + 1 ELSE 0) = k
        OBVIOUS
      <3>2. Len(chunk) - 1 \in Nat
        BY <1>0
      <3>3. QED
        BY <3>1, <3>2
    <2>6. QED
      BY <1>1, <2>1, <2>3, <2>4, <2>5
  <1>2. CASE Last(chunk) # "newline"
    <2>1. WithoutNewline(chunk) = chunk
      BY <1>2 DEF WithoutNewline
    <2>2. \A i \in 1..Len(chunk) : chunk[i] \in Char
      <3>1. \A i \in 1..Len(chunk) : i \in 1..Len(chunk) - 1 \/ i = Len(chunk)
        BY <1>0
      <3>2. QED
        BY <1>0, <1>2, <3>1
    <2>3. chunk \in Seq(Char)
      <3>1. chunk \in [1..Len(chunk) -> Char]
        BY <2>2, LenProperties
      <3>2. QED
        BY <1>0, <3>1
    <2>4. QED
      BY <1>2, <2>1, <2>3
  <1>3. QED
    BY <1>1, <1>2

\* Reading takes a line, or a part of one, and leaves the rest.
LEMMA ReadIs ==
  ASSUME IInv, Read
  PROVE  /\ command' \in Seq(Char) /\ input' \in Seq(Char \cup {"newline"})
         /\ \A i \in 1..Len(input') - 1 : input'[i] \in Char
         /\ pc = "prompt" /\ pc' = IF command' = <<>> THEN "prompt" ELSE "parse"
         /\ UNCHANGED <<client, argc, argv, starved, leaked, line, lines>>
  <1> DEFINE n == Min({ChunkSize, Len(input)})
             chunk == SubSeq(input, 1, n)
  <1>0. TypeOK /\ InputInv /\ input # <<>>
    BY DEF IInv, Read
  <1>1. /\ pc = "prompt" /\ pc' = IF command' = <<>> THEN "prompt" ELSE "parse"
        /\ UNCHANGED <<client, argc, argv, starved, leaked, line, lines>>
    BY DEF Read, words
  <1>2. command' = WithoutNewline(chunk) /\ input' = SubSeq(input, n + 1, Len(input))
    BY DEF Read
  <1>3. /\ n \in 1..Len(input)
        /\ chunk \in Seq(Char \cup {"newline"}) /\ Len(chunk) = n
        /\ \A i \in 1..n : chunk[i] = input[i]
    BY <1>0, ChunkIs
  <1> HIDE DEF chunk, n
  <1>4. /\ input' \in Seq(Char \cup {"newline"})
        /\ \A i \in 1..Len(input') - 1 : input'[i] \in Char
    BY <1>0, <1>2, <1>3, RestIs
  <1>5. command' \in Seq(Char)
    <2>1. Len(input) \in Nat
      <3>1. input \in Seq(Char \cup {"newline"})
        BY <1>0 DEF TypeOK
      <3>2. QED
        BY <3>1, LenProperties
    <2>2. \A i \in 1..n - 1 : i \in 1..n /\ i \in 1..Len(input) - 1
      BY <1>3, <2>1
    <2>3. \A i \in 1..Len(chunk) - 1 : chunk[i] \in Char
      BY <1>0, <1>3, <2>2 DEF InputInv
    <2>4. chunk # <<>>
      BY <1>3, <2>1, EmptySeq
    <2>5. QED
      BY <1>2, <1>3, <2>3, <2>4, CommandIs
  <1>6. QED
    BY <1>1, <1>4, <1>5

\* A line that fits is read as it is, and at most its newline is left.
LEMMA ReadFits ==
  ASSUME IInv, Read, line # NULL, Len(line) < LineSize
  PROVE  /\ input' \in {<<>>, <<"newline">>}
         /\ command' # <<>> => command' = line
  <1> DEFINE n == Min({ChunkSize, Len(input)})
             chunk == SubSeq(input, 1, n)
             w == WithoutNewline(chunk)
             rest == SubSeq(input, n + 1, Len(input))
  <1>0. TypeOK /\ InputInv /\ input # <<>> /\ line \in Seq(Char) /\ input \in Seq(Char \cup {"newline"})
    BY DEF IInv, Read, TypeOK
  <1>1. command' = w /\ input' = rest
    BY DEF Read
  <1>2. /\ n \in 1..Len(input) /\ (n = ChunkSize \/ n = Len(input)) /\ n <= ChunkSize
        /\ chunk \in Seq(Char \cup {"newline"}) /\ Len(chunk) = n
        /\ \A i \in 1..n : chunk[i] = input[i]
    BY <1>0, ChunkIs
  <1> HIDE DEF chunk, n
  <1>3. /\ rest \in Seq(Char \cup {"newline"}) /\ Len(rest) = Len(input) - n
        /\ \A i \in 1..Len(rest) : rest[i] = input[n + i]
    BY <1>0, <1>2, RestIs
  <1>4. Len(input) \in Nat \ {0} /\ Len(line) \in Nat /\ n \in Nat \ {0} /\ LineSize \in Nat /\ ChunkSize = LineSize - 1
    <2>1. Len(input) \in Nat \ {0} /\ Len(line) \in Nat
      BY <1>0, EmptySeq, LenProperties
    <2>2. QED
      BY <1>2, <2>1, ShellAssumption DEF ChunkSize
  <1>5. /\ w \in Seq(Char)
        /\ Len(w) = IF Last(chunk) = "newline" THEN n - 1 ELSE n
        /\ \A i \in 1..Len(w) : w[i] = chunk[i]
    <2>1. \A i \in 1..n - 1 : i \in 1..n /\ i \in 1..Len(input) - 1
      BY <1>2, <1>4
    <2>2. \A i \in 1..Len(chunk) - 1 : chunk[i] \in Char
      BY <1>0, <1>2, <2>1 DEF InputInv
    <2>3. chunk # <<>>
      BY <1>2, <1>4, EmptySeq
    <2>4. QED
      BY <1>2, <2>2, <2>3, CommandIs
  <1>6. Last(chunk) = input[n]
    <2>1. n \in 1..n
      BY <1>4
    <2>2. QED
      BY <1>2, <2>1 DEF Last
  <1> HIDE DEF w, rest
  <1>7. CASE input = <<"newline">>
    <2>1. Len(input) = 1 /\ input[1] = "newline"
      BY <1>7
    <2>2. n = 1 /\ Len(rest) = 0 /\ Len(w) = 0
      BY <1>2, <1>3, <1>4, <1>5, <1>6, <2>1
    <2>3. rest = <<>> /\ w = <<>>
      BY <1>3, <1>5, <2>2, EmptySeq
    <2>4. QED
      BY <1>1, <2>3
  <1>8. CASE input = Append(line, "newline")
    <2>1. /\ Len(input) = Len(line) + 1 /\ input[Len(line) + 1] = "newline"
          /\ \A i \in 1..Len(line) : input[i] = line[i]
      <3>1. line \in Seq(Char \cup {"newline"}) /\ "newline" \in Char \cup {"newline"}
        BY <1>0
      <3>2. QED
        BY <1>8, <3>1, AppendProperties
    <2>2. n \in {Len(line), Len(line) + 1}
      BY <1>2, <1>4, <2>1
    <2>3. Len(w) = Len(line)
      <3>1. CASE n = Len(line)
        <4>1. n \in 1..Len(line)
          BY <1>4, <3>1
        <4>2. input[n] \in Char
          BY <1>0, <2>1, <4>1, ElementOfSeq
        <4>3. QED
          BY <1>5, <1>6, <3>1, <4>2, NewlineIsNoChar
      <3>2. CASE n = Len(line) + 1
        BY <1>4, <1>5, <1>6, <2>1, <3>2
      <3>3. QED
        BY <2>2, <3>1, <3>2
    <2>4. w = line
      <3>1. \A i \in 1..Len(line) : i \in 1..n
        BY <1>4, <2>2
      <3>2. \A i \in 1..Len(w) : w[i] = line[i]
        BY <1>2, <1>5, <2>1, <2>3, <3>1
      <3>3. QED
        BY <1>0, <1>5, <2>3, <3>2, SeqEqual
    <2>5. rest \in {<<>>, <<"newline">>}
      <3>1. CASE n = Len(line)
        <4>1. Len(rest) = 1 /\ 1 \in 1..Len(rest)
          BY <1>3, <1>4, <2>1, <3>1
        <4>2. rest[1] = "newline"
          BY <1>3, <2>1, <3>1, <4>1
        <4>3. rest = <<"newline">>
          <5>1. <<"newline">> \in Seq(Char \cup {"newline"}) /\ Len(<<"newline">>) = 1
            OBVIOUS
          <5>2. \A i \in 1..Len(rest) : rest[i] = <<"newline">>[i]
            BY <4>1, <4>2
          <5>3. QED
            BY <1>3, <4>1, <5>1, <5>2, SeqEqual
        <4>4. QED
          BY <4>3
      <3>2. CASE n = Len(line) + 1
        <4>1. Len(rest) = 0
          BY <1>3, <1>4, <2>1, <3>2
        <4>2. rest = <<>>
          BY <1>3, <4>1, EmptySeq
        <4>3. QED
          BY <4>2
      <3>3. QED
        BY <2>2, <3>1, <3>2
    <2>6. QED
      BY <1>1, <2>4, <2>5
  <1>9. input \in {<<"newline">>, Append(line, "newline")}
    BY <1>0 DEF IInv, LineInv
  <1>10. QED
    BY <1>7, <1>8, <1>9

\* A line is read.
LEMMA ReadIInv == ASSUME IInv, Read PROVE IInv'
  <1>1. /\ command' \in Seq(Char) /\ input' \in Seq(Char \cup {"newline"})
        /\ \A i \in 1..Len(input') - 1 : input'[i] \in Char
        /\ pc = "prompt" /\ pc' = IF command' = <<>> THEN "prompt" ELSE "parse"
        /\ UNCHANGED <<client, argc, argv, starved, leaked, line, lines>>
    BY ReadIs
  <1>2. pc' \in {"prompt", "parse"} /\ (pc' = "parse" => command' # <<>>)
    BY <1>1
  <1>3. TypeOK'
    BY <1>1, <1>2 DEF IInv, TypeOK
  <1>4. InputInv'
    BY <1>1, <1>2 DEF InputInv
  <1>5. LineInv'
    <2>1. SUFFICES ASSUME line # NULL, Len(line) < LineSize
                   PROVE  /\ input' \in {<<>>, <<"newline">>, Append(line, "newline")}
                          /\ pc' = "parse" => command' = line
      BY <1>1, <1>2 DEF LineInv, Executing
    <2>2. input' \in {<<>>, <<"newline">>} /\ (command' # <<>> => command' = line)
      BY <2>1, ReadFits
    <2>3. QED
      BY <1>2, <2>2
  <1>6. WordsInv' /\ VectorInv'
    BY <1>1, <1>2 DEF IInv, WordsInv, VectorInv, EarlyEndInv, Executing
  <1>7. NothingLeaks' /\ OnlyKnownCrashes'
    BY <1>1, <1>2 DEF IInv, NothingLeaks, OnlyKnownCrashes
  <1>8. QED
    BY <1>3, <1>4, <1>5, <1>6, <1>7 DEF IInv

\* Without a client, or without another line, the program ends.
LEMMA EndIInv == ASSUME IInv, ConnectFails \/ EndOfInput PROVE IInv'
  <1>1. CliFree /\ UNCHANGED <<starved, line, input, lines, command>>
    BY DEF ConnectFails, EndOfInput, typing
  <1>2. QED
    BY <1>1, CliFreeIInv

\* The words of the line replace the previous ones.
LEMMA ParseIInv == ASSUME IInv, Parse PROVE IInv'
  <1> DEFINE raw == ShellParse(command)
             copy == [i \in 1..Len(raw) |-> Unquote(raw[i])]
  <1>0. TypeOK /\ command \in Seq(Char) /\ command # <<>> /\ pc = "parse"
    BY DEF IInv, TypeOK, WordsInv, Parse
  <1>1. raw \in Seq(Seq(Char)) /\ Len(raw) \in Nat /\ DOMAIN raw = 1..Len(raw)
    <2>1. raw \in Seq(Seq(Char))
      BY <1>0, WordTypes
    <2>2. QED
      BY <2>1, LenProperties
  <1>2. copy \in Seq(Seq(Char)) /\ Len(copy) = Len(raw)
    BY <1>1, UnquotedAre
  <1>3. \A i \in 1..Len(raw) : copy[i] = Unquote(raw[i]) /\ copy[i] \in Seq(Char)
    BY <1>2, ElementOfSeq
  <1>4. PICK failed \in Failures(Len(raw)) :
          /\ Replace(Copies(copy, failed), Len(raw))
          /\ starved' = (starved \/ failed # {})
          /\ \/ pc' = "exec"
             \/ /\ \E i \in DOMAIN raw \ failed : Len(Unquote(raw[i])) > Room(raw[i])
                /\ pc' = "crashed"
    BY DEF Parse
  <1>5. UNCHANGED <<client, line, input, lines, command>>
    BY DEF Parse, typing
  <1> HIDE DEF copy
  <1>6. failed \in SUBSET (1..Len(raw))
    BY DEF Failures
  <1>7. /\ argv' \in Seq(Seq(Char) \cup {NULL}) /\ argv' # <<>>
        /\ Len(argv') = Len(raw) + 1 /\ Last(argv') = NULL
        /\ \A i \in 1..Len(raw) : argv'[i] = IF i \in failed THEN NULL ELSE Unquote(raw[i])
    <2>1. argv' = Copies(copy, failed)
      BY <1>4 DEF Replace
    <2>2. QED
      BY <1>2, <1>3, <1>6, <2>1, CopiesAre
  <1>8. argc' = Len(raw) /\ leaked' \in BOOLEAN /\ (leaked' => starved)
    BY <1>4, ReplaceLeaks DEF Replace
  <1>9. starved' \in BOOLEAN /\ (starved => starved') /\ (failed # {} => starved')
    <2>1. starved' = (starved \/ failed # {})
      BY <1>4
    <2>2. QED
      BY <2>1, Zenon
  <1>10. pc' \in {"exec", "crashed"} /\ (pc' = "crashed" => ~Terminated(command))
    <2>1. pc' \in {"exec", "crashed"}
      BY <1>4
    <2>2. ASSUME pc' = "crashed", Terminated(command) PROVE FALSE
      <3>1. PICK i \in 1..Len(raw) : Len(Unquote(raw[i])) > Room(raw[i])
        BY <1>1, <1>4, <2>2
      <3>2. Len(Unquote(raw[i])) = Room(raw[i]) /\ Len(Unquote(raw[i])) \in Nat
        <4>1. copy[i] = Unquote(raw[i]) /\ copy[i] \in Seq(Char)
          BY <1>3
        <4>2. QED
          BY <1>0, <2>2, <4>1, ReadingIsMeaning, LenProperties
      <3>3. QED
        BY <3>1, <3>2
    <2>3. QED
      BY <2>1, <2>2
  <1> HIDE DEF raw
  <1>11. TypeOK'
    BY <1>0, <1>1, <1>5, <1>7, <1>8, <1>9, <1>10 DEF TypeOK
  <1>12. InputInv'
    BY <1>5, <1>10 DEF IInv, InputInv
  <1>13. LineInv'
    BY <1>0, <1>5, <1>10 DEF IInv, LineInv, Executing
  <1>14. WordsInv'
    <2>1. \A i \in 1..argc' : argv'[i] = Unquote(raw[i]) \/ (starved' /\ argv'[i] = NULL)
      <3>1. \A i \in 1..Len(raw) : i \in failed => starved' /\ argv'[i] = NULL
        BY <1>7, <1>9
      <3>2. \A i \in 1..Len(raw) : i \notin failed => argv'[i] = Unquote(raw[i])
        BY <1>7
      <3>3. QED
        BY <1>8, <3>1, <3>2
    <2>2. ShellParse(command') = raw
      BY <1>5 DEF raw
    <2>3. pc' # "parse"
      BY <1>10
    <2>4. QED
      BY <1>0, <1>5, <1>8, <2>1, <2>2, <2>3 DEF WordsInv
  <1>19. EarlyEndInv'
    <2>1. SUFFICES ASSUME ~starved', NEW i \in DOMAIN argv', argv'[i] = NULL PROVE i = Len(argv')
      BY DEF EarlyEndInv
    <2>2. failed = {}
      BY <1>9, <2>1
    <2>3. i \in 1..Len(raw) + 1
      BY <1>7, <2>1, LenProperties
    <2>4. CASE i \in 1..Len(raw)
      <3>1. argv'[i] \in Seq(Char)
        BY <1>3, <1>7, <2>2, <2>4
      <3>2. QED
        BY <2>1, <3>1, ShellAssumption
    <2>5. QED
      BY <1>1, <1>7, <2>3, <2>4
  <1>15. VectorInv'
    BY <1>7, <1>10, <1>19 DEF VectorInv
  <1>16. NothingLeaks'
    BY <1>8, <1>9, <1>10 DEF NothingLeaks
  <1>17. OnlyKnownCrashes'
    BY <1>5, <1>10 DEF OnlyKnownCrashes
  <1>18. QED
    BY <1>11, <1>12, <1>13, <1>14, <1>15, <1>16, <1>17 DEF IInv

\* Without memory for the vector there is no word.
LEMMA ParseFailsIInv == ASSUME IInv, ParseFails PROVE IInv'
  <1>1. /\ pc = "parse" /\ pc' = "prompt" /\ argv' = <<>> /\ argc' = 0
        /\ UNCHANGED <<client, starved, line, input, lines, command>>
        /\ leaked' \in BOOLEAN /\ (leaked' => starved)
    <2>1. Replace(<<>>, 0)
      BY DEF ParseFails
    <2>2. leaked' \in BOOLEAN /\ (leaked' => starved)
      BY <2>1, ReplaceLeaks
    <2>3. QED
      BY <2>1, <2>2 DEF ParseFails, Replace, typing
  <1>2. TypeOK'
    BY <1>1, EmptySeq DEF IInv, TypeOK
  <1>3. InputInv' /\ WordsInv' /\ LineInv'
    BY <1>1 DEF IInv, InputInv, LineInv, WordsInv, Executing
  <1>4. VectorInv'
    BY <1>1, EmptySeq DEF VectorInv, EarlyEndInv
  <1>5. NothingLeaks' /\ OnlyKnownCrashes'
    BY <1>1 DEF NothingLeaks, OnlyKnownCrashes
  <1>6. QED
    BY <1>2, <1>3, <1>4, <1>5 DEF IInv

\* A word is only missing from the vector if it could not be copied.
LEMMA MissingWord ==
  ASSUME IInv, argv # <<>>, NEW i \in 1..argc, argv[i] = NULL
  PROVE  starved
  <1>1. argc \in Nat /\ argv \in Seq(Seq(Char) \cup {NULL}) /\ Len(argv) = argc + 1
    BY DEF IInv, TypeOK
  <1>2. i \in DOMAIN argv /\ i # Len(argv)
    BY <1>1, LenProperties
  <1>3. QED
    BY <1>2 DEF IInv, VectorInv, EarlyEndInv

\* A missing first word is one of the known reasons for a crash.
LEMMA ExecIInv == ASSUME IInv, Exec PROVE IInv'
  <1>1. /\ pc = "exec" /\ pc' \in {"crashed", "running", "return"}
        /\ pc' = "crashed" => argv = <<>> \/ argv[1] = NULL
        /\ pc' = "running" => argv # <<>> /\ argv[1] \in CommandName
        /\ UNCHANGED <<client, argc, argv, starved, leaked, line, input, lines, command>>
    BY DEF Exec, words, typing
  <1>2. TypeOK'
    BY <1>1 DEF IInv, TypeOK
  <1>3. InputInv' /\ LineInv' /\ VectorInv'
    BY <1>1 DEF IInv, InputInv, LineInv, VectorInv, EarlyEndInv, Executing
  <1>4. WordsInv'
    BY <1>1 DEF IInv, WordsInv, Executing
  <1>5. NothingLeaks'
    BY <1>1 DEF IInv, NothingLeaks
  <1>6. CASE argc > 0
    <2>1. argv = <<>> \/ argv[1] = NULL => starved /\ (argv = <<>> \/ \E i \in 1..argc : argv[i] = NULL)
      <3>1. argv = <<>> => starved
        BY <1>6 DEF IInv, VectorInv
      <3>2. ASSUME argv # <<>>, argv[1] = NULL PROVE starved /\ 1 \in 1..argc
        <4>1. argc \in Nat /\ 1 \in 1..argc
          BY <1>6 DEF IInv, TypeOK
        <4>2. QED
          BY <3>2, <4>1, MissingWord
      <3>3. QED
        BY <3>1, <3>2
    <2>2. OnlyKnownCrashes'
      BY <1>1, <2>1 DEF OnlyKnownCrashes
    <2>3. QED
      BY <1>2, <1>3, <1>4, <1>5, <2>2 DEF IInv
  <1>7. CASE ~(argc > 0)
    <2>1. SUFFICES ASSUME pc' = "crashed", Terminated(command)
                   PROVE  command # <<>> /\ Words(command) = <<>>
      BY <1>1, <1>2, <1>3, <1>4, <1>5 DEF IInv, OnlyKnownCrashes
    <2>2. argc \in Nat /\ command \in Seq(Char)
      BY DEF IInv, TypeOK
    <2>3. command # <<>> /\ Len(ShellParse(command)) = 0
      BY <1>1, <1>7, <2>2 DEF IInv, WordsInv, Executing
    <2>4. Words(command) \in Seq(Seq(Char)) /\ Len(Words(command)) = 0
      BY <2>1, <2>2, <2>3, ReadingIsMeaning
    <2>5. QED
      BY <2>3, <2>4, EmptySeq
  <1>8. QED
    BY <1>6, <1>7

\* So is a word that the command lacks.
LEMMA CommandCrashesIInv == ASSUME IInv, CommandCrashes PROVE IInv'
  <1>1. /\ pc = "running" /\ pc' = "crashed"
        /\ UNCHANGED <<client, argc, argv, starved, leaked, line, input, lines, command>>
    BY DEF CommandCrashes, words, typing
  <1>2. TypeOK'
    BY <1>1 DEF IInv, TypeOK
  <1>3. InputInv' /\ LineInv' /\ WordsInv' /\ VectorInv'
    BY <1>1 DEF IInv, InputInv, LineInv, WordsInv, VectorInv, EarlyEndInv, Executing
  <1>4. NothingLeaks'
    BY <1>1 DEF IInv, NothingLeaks
  <1>5. argv # <<>> /\ argv[1] \in CommandName
    BY <1>1 DEF IInv, VectorInv
  <1>6. CASE argc < Needs[argv[1]]
    BY <1>1, <1>2, <1>3, <1>4, <1>5, <1>6 DEF IInv, OnlyKnownCrashes
  <1>7. ASSUME NEW i \in 2..argc, argv[i] = NULL PROVE IInv'
    <2>1. argc \in Nat /\ i \in 1..argc
      BY <1>7 DEF IInv, TypeOK
    <2>2. starved
      BY <1>5, <1>7, <2>1, MissingWord
    <2>3. OnlyKnownCrashes'
      BY <1>1, <1>7, <2>1, <2>2 DEF OnlyKnownCrashes
    <2>4. QED
      BY <1>2, <1>3, <1>4, <2>3 DEF IInv
  <1>8. QED
    BY <1>6, <1>7 DEF CommandCrashes

\* After a command comes the next line or the end.
LEMMA ReturnIInv == ASSUME IInv, Return PROVE IInv'
  <1>1. CASE line # NULL
    <2>1. /\ pc' = "prompt" /\ pc \in Executing
          /\ UNCHANGED <<client, argc, argv, starved, leaked, line, input, lines, command>>
      BY <1>1 DEF Return, words, typing, Executing
    <2>2. TypeOK'
      BY <2>1 DEF IInv, TypeOK
    <2>3. InputInv' /\ LineInv' /\ WordsInv' /\ VectorInv'
      BY <2>1 DEF IInv, InputInv, LineInv, WordsInv, VectorInv, EarlyEndInv, Executing
    <2>4. NothingLeaks' /\ OnlyKnownCrashes'
      BY <2>1 DEF IInv, NothingLeaks, OnlyKnownCrashes
    <2>5. QED
      BY <2>2, <2>3, <2>4 DEF IInv
  <1>2. CASE line = NULL
    <2>1. CliFree /\ UNCHANGED <<starved, line, input, lines, command>>
      BY <1>2 DEF Return, typing
    <2>2. QED
      BY <2>1, CliFreeIInv
  <1>3. QED
    BY <1>1, <1>2

\* Every step keeps the invariant.
LEMMA NextIInv == IInv /\ [Next]_vars => IInv'
  <1> SUFFICES ASSUME IInv, [Next]_vars PROVE IInv'
    OBVIOUS
  <1>1. CASE Inform
    BY <1>1, InformIInv
  <1>2. CASE \E given \in Given : ParseCommandLine(given)
    BY <1>2, ArgumentsIInv
  <1>3. CASE Connect
    BY <1>3, ConnectIInv
  <1>4. CASE ConnectFails
    BY <1>4, EndIInv
  <1>5. CASE Type
    BY <1>5, TypeIInv
  <1>6. CASE Read
    BY <1>6, ReadIInv
  <1>7. CASE EndOfInput
    BY <1>7, EndIInv
  <1>8. CASE Parse
    BY <1>8, ParseIInv
  <1>9. CASE ParseFails
    BY <1>9, ParseFailsIInv
  <1>10. CASE Exec
    BY <1>10, ExecIInv
  <1>11. CASE Return
    BY <1>11, ReturnIInv
  <1>14. CASE CommandCrashes
    BY <1>14, CommandCrashesIInv
  <1>12. CASE UNCHANGED vars
    BY <1>12 DEF vars, IInv, TypeOK, InputInv, LineInv, WordsInv, VectorInv, EarlyEndInv, NothingLeaks, OnlyKnownCrashes
  <1>13. QED
    BY <1>1, <1>2, <1>3, <1>4, <1>5, <1>6, <1>7, <1>8, <1>9, <1>10, <1>11, <1>12, <1>14 DEF Next

\* The words of a line that fits and whose quotes are closed are what was typed.
LEMMA IInvRuns == IInv => RunsWhatWasTyped
  <1> SUFFICES ASSUME IInv, pc \in {"exec", "running"}, line # NULL, Len(line) < LineSize, Terminated(line)
               PROVE  /\ argc = Len(Words(line))
                      /\ \A i \in 1..argc : argv[i] = Words(line)[i] \/ (starved /\ argv[i] = NULL)
    BY DEF RunsWhatWasTyped
  <1>1. command = line /\ line \in Seq(Char)
    BY DEF IInv, LineInv, TypeOK, Executing
  <1>2. /\ argc = Len(ShellParse(line))
        /\ \A i \in 1..argc : argv[i] = Unquote(ShellParse(line)[i]) \/ (starved /\ argv[i] = NULL)
    BY <1>1 DEF IInv, WordsInv, Executing
  <1>3. /\ Len(Words(line)) = Len(ShellParse(line))
        /\ \A i \in 1..Len(ShellParse(line)) : Words(line)[i] = Unquote(ShellParse(line)[i])
    BY <1>1, ReadingIsMeaning
  <1>4. QED
    BY <1>2, <1>3

\* The invariant holds in every state.
LEMMA Invariance == Spec => []IInv
  BY InitIInv, NextIInv, PTL DEF Spec

-----------------------------------------------------------------------------
(* Theorems.                                                               *)

\* In every state main() and its struct cli have values of their types, and
\* cli->argv has cli->argc words and a NULL behind them.
THEOREM TypeCorrect == Spec => []TypeOK
  <1>1. IInv => TypeOK
    BY DEF IInv
  <1>2. QED
    BY <1>1, Invariance, PTL

\* The program crashes only for want of memory, of a first word or of words that the
\* command uses uncounted, or in unquote() because a quote of the line is left open.
THEOREM CrashesKnown == Spec => []OnlyKnownCrashes
  <1>1. IInv => OnlyKnownCrashes
    BY DEF IInv
  <1>2. QED
    BY <1>1, Invariance, PTL

\* cli_parse_command() and cli_free() lose no word unless a copy failed, and when
\* the program ends nothing is left.
THEOREM Freed == Spec => []NothingLeaks
  <1>1. IInv => NothingLeaks
    BY DEF IInv
  <1>2. QED
    BY <1>1, Invariance, PTL

\* For every line that fits the buffer and whose quotes are closed, what
\* shell_parse() and unquote() leave in cli->argv are the words that were typed.
THEOREM TypedIsRun == Spec => []RunsWhatWasTyped
  BY IInvRuns, Invariance, PTL
=============================================================================
