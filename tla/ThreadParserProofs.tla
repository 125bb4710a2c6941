------------------------- MODULE ThreadParserProofs -------------------------
(***************************************************************************)
(* Proofs about ThreadParser on the snapshots of ThreadCorpus: what        *)
(* parse_thread reads of threads of any length, in whatever form each of   *)
(* their messages is.                                                      *)
(***************************************************************************)
EXTENDS EvaluationProofs

-----------------------------------------------------------------------------
(* The loops                                                               *)

\* A property of numbers that each one has if all before it have it.
LEMMA FirstCounterexample ==
  ASSUME NEW wrong \in SUBSET Nat,
         \A n \in wrong : \E k \in wrong : k < n
  PROVE  wrong = {}
<1> SUFFICES ASSUME wrong # {} PROVE FALSE
  OBVIOUS
<1>1. Min(wrong) \in wrong /\ \A y \in wrong : Min(wrong) <= y
  BY LeastNumber
<1> DEFINE least == Min(wrong)
<1>2. PICK k \in wrong : k < least
  BY <1>1
<1> HIDE DEF least
<1>3. least \in Nat /\ k \in Nat /\ least <= k
  BY <1>1 DEF least
<1> QED
  BY <1>2, <1>3

start == [current |-> "", message_id |-> "", in_body |-> FALSE]

\* The fold of message_id_of, written out over sets of positions.
LEMMA MessageIdUnfolds ==
  ASSUME NEW block
  PROVE  message_id_of(block) =
           (CHOOSE f : f = [s \in SUBSET (DOMAIN strip_quote_prefixes(block)) |->
              IF s = {} THEN start
              ELSE read_line(f[s \ {Max(s)}], strip_quote_prefixes(block)[Max(s)])])
             [DOMAIN strip_quote_prefixes(block)].message_id
BY DEF message_id_of, FoldLeft, MapThenFoldSet, start

\* The states of the header loop, one after each line.
LEMMA StatesOfLoop ==
  ASSUME NEW n \in Nat, NEW block, DOMAIN block = 1 .. n
  PROVE  \E st :
           /\ st[0] = start
           /\ \A j \in 1 .. n : st[j] = read_line(st[j - 1], strip_quote_prefixes(block)[j])
           /\ message_id_of(block) = st[n].message_id
<1> DEFINE lines == strip_quote_prefixes(block)
           step(f, s) == IF s = {} THEN start
                         ELSE read_line(f[s \ {Max(s)}], lines[Max(s)])
           solves(f, k) == f = [s \in SUBSET (1 .. k) |-> step(f, s)]
           wrong == {k \in Nat : ~ \E f : solves(f, k)}
<1>1. wrong = {}
  <2>1. ASSUME NEW k \in wrong PROVE \E i \in wrong : i < k
    <3>1. k # 0
      <4>1. SUBSET (1 .. 0) = {{}}
        OBVIOUS
      <4>2. solves([s \in {{}} |-> start], 0)
        BY <4>1
      <4> QED
        BY <4>2
    <3>2. k - 1 \in Nat /\ k - 1 < k
      BY <3>1
    <3>3. SUFFICES ASSUME NEW f, solves(f, k - 1) PROVE FALSE
      BY <3>2
    <3> DEFINE g == [s \in SUBSET (1 .. k) |->
                       IF k \in s THEN read_line(f[s \ {k}], lines[k]) ELSE f[s]]
    <3>4. ASSUME NEW s \in SUBSET (1 .. k), k \notin s
          PROVE  g[s] = step(g, s)
      <4>1. s \in SUBSET (1 .. k - 1)
        BY <3>2, <3>4
      <4>2. f[s] = step(f, s)
        BY <3>3, <4>1
      <4>3. s # {} => g[s \ {Max(s)}] = f[s \ {Max(s)}]
        BY <3>4
      <4> QED
        BY <3>4, <4>2, <4>3
    <3>5. ASSUME NEW s \in SUBSET (1 .. k), k \in s
          PROVE  g[s] = step(g, s)
      <4>1. Max(s) = k
        <5>1. Max(s) \in s /\ \A y \in s : Max(s) >= y
          BY <3>5, GreatestNumber
        <5>2. PICK x \in s : x = Max(s)
          BY <5>1
        <5> QED
          BY <3>5, <5>1, <5>2
      <4>2. g[s \ {k}] = f[s \ {k}]
        OBVIOUS
      <4> QED
        BY <3>5, <4>1, <4>2
    <3>6. solves(g, k)
      BY <3>4, <3>5
    <3> QED
      BY <3>6
  <2> QED
    BY <2>1, FirstCounterexample
<1>2. PICK f : solves(f, n)
  BY <1>1
<1> DEFINE c == CHOOSE h : solves(h, n)
<1>3. solves(c, n)
  <2> HIDE DEF solves
  <2> QED
    BY <1>2
<1>4. \A s \in SUBSET (1 .. n) : c[s] = step(c, s)
  <2> HIDE DEF c
  <2> QED
    BY <1>3
<1>5. message_id_of(block) = c[1 .. n].message_id
  <2>1. DOMAIN lines = 1 .. n
    BY DEF strip_quote_prefixes
  <2> QED
    BY <2>1, MessageIdUnfolds
<1> HIDE DEF c
<1> DEFINE st == [j \in 0 .. n |-> c[1 .. j]]
<1>6. st[0] = start
  <2>1. 1 .. 0 = {} /\ {} \in SUBSET (1 .. n)
    OBVIOUS
  <2>2. c[{}] = start
    BY <1>4, <2>1
  <2> QED
    BY <2>1, <2>2
<1>7. ASSUME NEW j \in 1 .. n PROVE st[j] = read_line(st[j - 1], lines[j])
  <2>1. (1 .. j) \in SUBSET (1 .. n) /\ j \in 1 .. j
    OBVIOUS
  <2>2. Max(1 .. j) = j
    <3>1. Max(1 .. j) \in 1 .. j /\ \A y \in 1 .. j : Max(1 .. j) >= y
      BY <2>1, GreatestNumber
    <3>2. PICK x \in 1 .. j : x = Max(1 .. j)
      BY <3>1
    <3> QED
      BY <2>1, <3>1, <3>2
  <2>3. (1 .. j) \ {j} = 1 .. (j - 1)
    OBVIOUS
  <2>4. c[1 .. j] = read_line(c[(1 .. j) \ {Max(1 .. j)}], lines[Max(1 .. j)])
    BY <1>4, <2>1, Zenon
  <2>5. st[j] = c[1 .. j] /\ st[j - 1] = c[1 .. (j - 1)]
    OBVIOUS
  <2> HIDE DEF st, lines
  <2> QED
    BY <2>2, <2>3, <2>4, <2>5, Zenon
<1>8. st[n] = c[1 .. n]
  OBVIOUS
<1> HIDE DEF st
<1> QED
  BY <1>5, <1>6, <1>7, <1>8

-----------------------------------------------------------------------------
(* Lines that are put together from parts                                  *)

\* Two sequences of lines, one after the other.
LEMMA ConcatLines ==
  ASSUME NEW S, NEW a \in Seq(S), NEW b \in Seq(S)
  PROVE  /\ a \o b \in Seq(S)
         /\ Len(a \o b) = Len(a) + Len(b)
         /\ Len(a) \in Nat /\ Len(b) \in Nat
         /\ \A i \in 1 .. Len(a) : (a \o b)[i] = a[i]
         /\ \A i \in 1 .. Len(b) : (a \o b)[Len(a) + i] = b[i]
  OBVIOUS

\* The parts one after the other, each from where the one before ends.
Cuts(S, parts, N, lines, off) ==
  /\ off \in [0 .. N -> Nat] /\ off[0] = 0
  /\ \A n \in 1 .. N : off[n] = off[n - 1] + Len(parts[n])
  /\ lines \in Seq(S) /\ Len(lines) = off[N]
  /\ \A n \in 1 .. N : \A j \in 1 .. Len(parts[n]) : lines[off[n - 1] + j] = parts[n][j]

\* FlattenSeq is such a sequence.
LEMMA FlattenParts ==
  ASSUME NEW S, NEW parts \in Seq(Seq(S)), NEW N \in Nat \ {0}, N = Len(parts)
  PROVE  \E off : Cuts(S, parts, N, FlattenSeq(parts), off)
<1> DEFINE step(f, i) == IF i = 1 THEN parts[i] ELSE f[i - 1] \o parts[i]
           solves(f, k) == f = [i \in 1 .. k |-> step(f, i)]
           unsolved == {k \in Nat : ~ \E f : solves(f, k)}
<1>1. unsolved = {}
  <2>1. ASSUME NEW k \in unsolved PROVE \E i \in unsolved : i < k
    <3>1. k # 0
      <4>1. solves([i \in {} |-> start], 0)
        OBVIOUS
      <4> QED
        BY <4>1
    <3>2. k - 1 \in Nat /\ k - 1 < k
      BY <3>1
    <3>3. SUFFICES ASSUME NEW f, solves(f, k - 1) PROVE FALSE
      BY <3>2
    <3> DEFINE g == [i \in 1 .. k |-> IF i = k THEN step(f, k) ELSE f[i]]
    <3>4. ASSUME NEW i \in 1 .. k, i # k
          PROVE  g[i] = step(g, i)
      <4>1. i \in 1 .. k - 1
        BY <3>4
      <4>2. f[i] = step(f, i)
        BY <3>3, <4>1
      <4>3. i # 1 => g[i - 1] = f[i - 1]
        BY <3>4
      <4> QED
        BY <3>4, <4>2, <4>3
    <3>5. g[k] = step(g, k)
      <4>1. k # 1 => g[k - 1] = f[k - 1]
        BY <3>2
      <4>2. g[k] = step(f, k)
        BY <3>1
      <4> QED
        BY <4>1, <4>2
    <3>6. solves(g, k)
      BY <3>4, <3>5, ZenonT(30)
    <3> QED
      BY <3>6
  <2> QED
    BY <2>1, FirstCounterexample
<1> DEFINE c == CHOOSE h : solves(h, N)
<1>2. solves(c, N)
  <2>1. \E f : solves(f, N)
    <3> HIDE DEF solves
    <3> QED
      BY <1>1
  <2> HIDE DEF solves
  <2> QED
    BY <2>1
<1>3. \A i \in 1 .. N : c[i] = step(c, i)
  <2> HIDE DEF c
  <2> QED
    BY <1>2
<1>4. FlattenSeq(parts) = c[N]
  BY DEF FlattenSeq
<1> HIDE DEF c
<1>5. /\ c[1] = parts[1]
      /\ \A i \in 2 .. N : c[i] = c[i - 1] \o parts[i]
  <2>1. 1 \in 1 .. N /\ (\A i \in 2 .. N : i \in 1 .. N /\ i # 1)
    OBVIOUS
  <2>2. c[1] = step(c, 1)
    BY <1>3, <2>1, Zenon
  <2>3. ASSUME NEW i \in 2 .. N PROVE c[i] = c[i - 1] \o parts[i]
    <3>1. c[i] = step(c, i)
      BY <1>3, <2>1, Zenon
    <3> QED
      BY <2>1, <3>1, Zenon
  <2> QED
    BY <2>2, <2>3
<1> HIDE DEF unsolved, solves, step
<1>6. \A i \in 1 .. N : parts[i] \in Seq(S)
  OBVIOUS
<1> DEFINE off == [n \in 0 .. N |-> IF n = 0 THEN 0 ELSE Len(c[n])]
           good(n) == /\ c[n] \in Seq(S)
                      /\ off[n] = off[n - 1] + Len(parts[n])
                      /\ \A i \in 1 .. n : /\ off[i - 1] \in Nat
                                            /\ off[i - 1] + Len(parts[i]) <= Len(c[n])
                      /\ \A i \in 1 .. n : \A j \in 1 .. Len(parts[i]) :
                           c[n][off[i - 1] + j] = parts[i][j]
           bad == {n \in Nat : n \in 1 .. N /\ ~ good(n)}
<1>7. bad = {}
  <2>1. ASSUME NEW n \in bad PROVE \E k \in bad : k < n
    <3>1. n # 1
      <4>1. good(1)
        BY <1>5, <1>6
      <4> QED
        BY <4>1
    <3>2. n \in 2 .. N /\ n - 1 \in 1 .. N /\ n - 1 < n
      BY <3>1
    <3>3. SUFFICES ASSUME good(n - 1) PROVE FALSE
      <4> HIDE DEF good
      <4> QED
        BY <3>2
    <3>4. /\ c[n] = c[n - 1] \o parts[n]
          /\ c[n - 1] \in Seq(S) /\ parts[n] \in Seq(S)
      BY <1>5, <1>6, <3>2, <3>3
    <3> HIDE DEF off, good, bad
    <3>5. /\ c[n] \in Seq(S)
          /\ Len(c[n]) = Len(c[n - 1]) + Len(parts[n])
          /\ Len(c[n - 1]) \in Nat /\ Len(parts[n]) \in Nat
          /\ \A i \in 1 .. Len(c[n - 1]) : c[n][i] = c[n - 1][i]
          /\ \A i \in 1 .. Len(parts[n]) : c[n][Len(c[n - 1]) + i] = parts[n][i]
      <4>1. PICK a \in Seq(S), b \in Seq(S) : a = c[n - 1] /\ b = parts[n]
        BY <3>4
      <4>2. c[n] = a \o b
        BY <3>4, <4>1
      <4>3. /\ a \o b \in Seq(S)
            /\ Len(a \o b) = Len(a) + Len(b)
            /\ Len(a) \in Nat /\ Len(b) \in Nat
            /\ \A i \in 1 .. Len(a) : (a \o b)[i] = a[i]
            /\ \A i \in 1 .. Len(b) : (a \o b)[Len(a) + i] = b[i]
        BY ConcatLines
      <4> QED
        BY <4>1, <4>2, <4>3, Zenon
    <3>6. off[n] = Len(c[n]) /\ off[n - 1] = Len(c[n - 1])
      BY <3>2 DEF off
    <3>7. \A i \in 1 .. n : off[i - 1] \in Nat /\ off[i - 1] + Len(parts[i]) <= Len(c[n])
      <4>1. ASSUME NEW i \in 1 .. n, i # n
            PROVE  off[i - 1] \in Nat /\ off[i - 1] + Len(parts[i]) <= Len(c[n])
        <5>1. i \in 1 .. (n - 1) /\ i \in 1 .. N
          BY <3>2, <4>1
        <5>2. PICK l \in Nat : l = Len(parts[i])
          BY <1>6, <5>1
        <5>3. off[i - 1] \in Nat /\ off[i - 1] + Len(parts[i]) <= Len(c[n - 1])
          BY <3>3, <5>1 DEF good
        <5>4. PICK a \in Nat : a = off[i - 1]
          BY <5>3
        <5>5. PICK m \in Nat, k \in Nat : m = Len(c[n - 1]) /\ k = Len(parts[n])
          BY <3>5
        <5>6. Len(c[n]) = m + k /\ a + l <= m
          BY <3>5, <5>2, <5>3, <5>4, <5>5, Zenon
        <5> QED
          BY <5>2, <5>4, <5>6
      <4>2. off[n - 1] \in Nat /\ off[n - 1] + Len(parts[n]) <= Len(c[n])
        <5> QED
          BY <3>5, <3>6
      <4> QED
        BY <4>1, <4>2
    <3>8. \A i \in 1 .. n : \A j \in 1 .. Len(parts[i]) : c[n][off[i - 1] + j] = parts[i][j]
      <4>1. ASSUME NEW i \in 1 .. n, i # n, NEW j \in 1 .. Len(parts[i])
            PROVE  c[n][off[i - 1] + j] = parts[i][j]
        <5>1. i \in 1 .. (n - 1) /\ i \in 1 .. N
          BY <3>2, <4>1
        <5>2. PICK l \in Nat : l = Len(parts[i])
          BY <1>6, <5>1
        <5>3. off[i - 1] \in Nat /\ off[i - 1] + Len(parts[i]) <= Len(c[n - 1])
          BY <3>3, <5>1 DEF good
        <5>4. PICK a \in Nat : a = off[i - 1]
          BY <5>3
        <5>5. PICK m \in Nat : m = Len(c[n - 1])
          BY <3>5
        <5>6. a + l <= m /\ j \in 1 .. l
          BY <5>2, <5>3, <5>4, <5>5, Zenon
        <5>7. a + j \in 1 .. m
          <6> QED
            BY <5>6
        <5>8. c[n - 1][a + j] = parts[i][j]
          BY <3>3, <5>1, <5>4 DEF good
        <5>9. c[n][a + j] = c[n - 1][a + j]
          BY <3>5, <5>5, <5>7
        <5> QED
          BY <5>4, <5>8, <5>9
      <4>2. \A j \in 1 .. Len(parts[n]) : c[n][off[n - 1] + j] = parts[n][j]
        BY <3>5, <3>6, Zenon
      <4> QED
        BY <4>1, <4>2, Zenon
    <3>9. off[n] = off[n - 1] + Len(parts[n])
      BY <3>5, <3>6, Zenon
    <3>10. good(n)
      BY <3>5, <3>7, <3>8, <3>9, Zenon DEF good
    <3> QED
      BY <3>10 DEF bad
  <2> HIDE DEF bad
  <2>2. bad \in SUBSET Nat
    BY DEF bad
  <2> QED
    BY <2>1, <2>2, FirstCounterexample
<1>8. \A n \in 1 .. N : good(n)
  <2> HIDE DEF good
  <2> SUFFICES ASSUME NEW n \in 1 .. N, ~ good(n) PROVE FALSE
    OBVIOUS
  <2>1. n \in Nat
    OBVIOUS
  <2>2. n \in bad
    BY <2>1
  <2> HIDE DEF bad
  <2> QED
    BY <1>7, <2>2
<1> HIDE DEF bad
<1>9. off \in [0 .. N -> Nat] /\ off[0] = 0 /\ off[N] = Len(c[N])
  <2>1. \A n \in 1 .. N : Len(c[n]) \in Nat
    BY <1>8
  <2> QED
    BY <2>1
<1> HIDE DEF off
<1>10. Cuts(S, parts, N, FlattenSeq(parts), off)
  BY <1>4, <1>8, <1>9, SMTT(30) DEF Cuts
<1> QED
  BY <1>10

-----------------------------------------------------------------------------
(* The header loop on the lines of a block                                 *)

\* STRING, with the literals that occur: the provers know of no literal that
\* it is a string.
Strings ==
  STRING \cup {"", "From", "To", "from", "Message-ID", "Message-Id", "message-id", "x", "-----"}

Lines == [mark : Marks, indented : BOOLEAN,
          kind : {"header", "text", "dashes", "blank"}, name : Strings, value : Strings]

States == [current : Strings, message_id : Strings, in_body : BOOLEAN]

names_id(line) == line.kind = "header" /\ line.name \in MessageIdNames

empty(line) == line.kind = "blank" /\ line.mark = ""

continues(line) == line.mark = "" /\ line.indented

opens_body(line) == line.mark = "" /\ line.kind = "text" /\ ~line.indented

\* No Message-ID was read, and none is being read.
Before == {s \in States : s.message_id = "" /\ s.current \notin MessageIdNames}

\* A header was read and more can follow.
Within == {s \in Before : s.current # "" /\ ~s.in_body}

\* The headers ended without a Message-ID.
Lost == {s \in States : s.message_id = "" /\ s.in_body}

\* The Message-ID is the last header so far.
Just(id) == {s \in States : s.message_id = id /\ s.current \in MessageIdNames /\ ~s.in_body}

\* The Message-ID was read and no line is a continuation of it any more.
Kept(id) == {s \in States : s.message_id = id /\ (s.in_body \/ s.current \notin MessageIdNames)}

\* The loop starts before any Message-ID.
LEMMA Starts == start \in Before /\ start.in_body = FALSE /\ start.current = ""
  BY DEF start, Before, States, Strings, MessageIdNames

\* What one line does to these states (the loop of _split_headers_and_body).
LEMMA StepBefore ==
  ASSUME NEW line \in Lines, NEW s \in Before, ~names_id(line)
  PROVE  read_line(s, line) \in Before
<1>1. s \in States /\ s.message_id = "" /\ s.current \notin MessageIdNames
  BY DEF Before
<1>2. CASE read_line(s, line) = s
  BY <1>2
<1>3. CASE read_line(s, line) = [s EXCEPT !.in_body = TRUE]
  BY <1>1, <1>3 DEF Before, States
<1>4. CASE line.kind = "header" /\ read_line(s, line) = [s EXCEPT !.current = line.name]
  BY <1>1, <1>4 DEF Before, States, Strings, Lines, names_id
<1> QED
  BY <1>1, <1>2, <1>3, <1>4 DEF read_line, names_id, States

\* A body that has begun stays without an id.
LEMMA StepLost ==
  ASSUME NEW line \in Lines, NEW s \in Lost
  PROVE  read_line(s, line) \in Lost
BY DEF Lost, States, read_line

\* Header lines leave the loop in the headers.
LEMMA StepWithin ==
  ASSUME NEW line \in Lines, NEW s \in Within, ~names_id(line),
         empty(line) \/ continues(line) \/ (line.mark = "" /\ line.kind = "header"),
         line.kind = "header" => line.name # ""
  PROVE  read_line(s, line) \in Within
<1>1. s \in States /\ s.message_id = "" /\ s.current \notin MessageIdNames /\ s.current # "" /\ ~s.in_body
  BY DEF Within, Before
<1>2. CASE empty(line)
  BY <1>2 DEF empty, read_line
<1>3. CASE ~empty(line) /\ line.mark = "" /\ ~line.indented /\ line.kind = "header"
  <2>1. read_line(s, line) = [s EXCEPT !.current = line.name]
    BY <1>1, <1>3 DEF empty, names_id, read_line, States
  <2> QED
    BY <1>1, <1>3, <2>1 DEF Within, Before, States, Strings, Lines, names_id
<1>4. CASE ~empty(line) /\ continues(line)
  <2>1. read_line(s, line) = s
    BY <1>1, <1>4 DEF empty, continues, read_line, States
  <2> QED
    BY <2>1
<1> QED
  BY <1>2, <1>3, <1>4 DEF continues, Lines

\* An empty line changes nothing.
LEMMA StepBlank ==
  ASSUME NEW line \in Lines, NEW id, NEW s \in Just(id), empty(line)
  PROVE  read_line(s, line) \in Just(id)
BY DEF Just, States, empty, read_line

\* After the value, a line that does not continue it ends it.
LEMMA StepEnds ==
  ASSUME NEW line \in Lines, NEW id, NEW s \in Just(id),
         ~names_id(line), ~empty(line), ~continues(line)
  PROVE  read_line(s, line) \in Kept(id)
BY DEF Just, Kept, States, Strings, Lines, names_id, empty, continues, read_line

\* From then on the id is kept.
LEMMA StepKept ==
  ASSUME NEW line \in Lines, NEW id, NEW s \in Kept(id), ~names_id(line)
  PROVE  read_line(s, line) \in Kept(id)
<1>1. s \in States /\ s.message_id = id /\ (s.in_body \/ s.current \notin MessageIdNames)
  BY DEF Kept
<1>2. CASE read_line(s, line) = s
  BY <1>2
<1>3. CASE read_line(s, line) = [s EXCEPT !.in_body = TRUE]
  BY <1>1, <1>3 DEF Kept, States
<1>4. CASE line.kind = "header" /\ read_line(s, line) = [s EXCEPT !.current = line.name]
  BY <1>1, <1>4 DEF Kept, States, Strings, Lines, names_id
<1> QED
  BY <1>1, <1>2, <1>3, <1>4 DEF read_line, names_id, States

\* What all lines between two positions keep.
LEMMA Through ==
  ASSUME NEW I, NEW st, NEW a \in Nat, NEW b \in Nat, a <= b, st[a] \in I,
         \A j \in a + 1 .. b : st[j - 1] \in I => st[j] \in I
  PROVE  st[b] \in I
<1> DEFINE wrong == {j \in Nat : j \in a .. b /\ st[j] \notin I}
<1>1. ASSUME NEW j \in wrong PROVE \E k \in wrong : k < j
  <2>1. j \in a + 1 .. b /\ j - 1 \in a .. b /\ j - 1 < j /\ j - 1 \in Nat
    OBVIOUS
  <2>2. st[j - 1] \notin I
    BY <2>1
  <2> QED
    BY <2>1, <2>2
<1>2. wrong = {}
  <2> HIDE DEF wrong
  <2>1. wrong \in SUBSET Nat
    BY DEF wrong
  <2> QED
    BY <1>1, <2>1, FirstCounterexample
<1> QED
  BY <1>2

\* The states of the header loop over the lines of a block.
Reading(st, lines, n) ==
  /\ st[0] = start
  /\ \A j \in 1 .. n : lines[j] \in Lines /\ st[j] = read_line(st[j - 1], lines[j])

\* A block without Message-ID is refused.
LEMMA NoIdRead ==
  ASSUME NEW n \in Nat, NEW lines, NEW st, Reading(st, lines, n),
         \A j \in 1 .. n : ~names_id(lines[j])
  PROVE  st[n].message_id = ""
<1>1. st[0] \in Before
  BY Starts DEF Reading
<1>2. \A j \in 0 + 1 .. n : st[j - 1] \in Before => st[j] \in Before
  BY StepBefore DEF Reading
<1>3. st[n] \in Before
  BY <1>1, <1>2, Through
<1> QED
  BY <1>3 DEF Before

\* A block that starts with an indented header is refused.
LEMMA IndentedRead ==
  ASSUME NEW n \in Nat \ {0}, NEW lines, NEW st, Reading(st, lines, n),
         lines[1].kind = "header", lines[1].indented
  PROVE  st[n].message_id = ""
<1>1. st[1] \in Lost
  <2>1. st[1] = read_line(start, lines[1]) /\ lines[1] \in Lines
    BY DEF Reading
  <2> QED
    <3>1. read_line(start, lines[1]) = [start EXCEPT !.in_body = TRUE]
      BY <2>1 DEF start, Lines, read_line
    <3>2. start \in States /\ start.message_id = ""
      BY DEF start, States, Strings
    <3> QED
      BY <2>1, <3>1, <3>2 DEF Lost, States
<1>2. \A j \in 1 + 1 .. n : st[j - 1] \in Lost => st[j] \in Lost
  <2>1. \A j \in 1 + 1 .. n : j \in 1 .. n
    OBVIOUS
  <2> QED
    BY <2>1, StepLost DEF Reading
<1>3. st[n] \in Lost
  BY <1>1, <1>2, Through
<1> QED
  BY <1>3 DEF Lost

\* A line of text that is not indented ends the headers: what follows it
\* changes nothing.
LEMMA BodyKeeps ==
  ASSUME NEW n \in Nat, NEW lines, NEW st, Reading(st, lines, n), NEW e \in 1 .. n,
         opens_body(lines[e])
  PROVE  st[n].message_id = st[e].message_id
<1>1. \A j \in 1 .. n : st[j] = read_line(st[j - 1], lines[j])
  BY DEF Reading
<1>2. "in_body" \in DOMAIN st[e - 1]
  <2> DEFINE I == {s \in {st[j] : j \in 0 .. n} : "in_body" \in DOMAIN s}
  <2>1. st[0] \in I
    <3>1. "in_body" \in DOMAIN st[0]
      <4>1. st[0] \in States
        BY Starts DEF Reading, Before
      <4> QED
        BY <4>1 DEF States
    <3>2. st[0] \in {st[j] : j \in 0 .. n}
      OBVIOUS
    <3> QED
      BY <3>1, <3>2
  <2>2. \A j \in 0 + 1 .. e - 1 : st[j - 1] \in I => st[j] \in I
    <3> SUFFICES ASSUME NEW j \in 0 + 1 .. e - 1, "in_body" \in DOMAIN st[j - 1]
                 PROVE  "in_body" \in DOMAIN st[j] /\ st[j] \in {st[k] : k \in 0 .. n}
      OBVIOUS
    <3>1. j \in 1 .. n /\ j \in 0 .. n
      OBVIOUS
    <3>2. st[j] = read_line(st[j - 1], lines[j])
      BY <1>1, <3>1
    <3> QED
      BY <3>1, <3>2 DEF read_line
  <2>3. e - 1 \in Nat /\ 0 <= e - 1
    OBVIOUS
  <2> HIDE DEF I
  <2>4. st[e - 1] \in I
    BY <2>1, <2>2, <2>3, Through
  <2> QED
    BY <2>4 DEF I
<1>3. st[e].in_body
  <2>1. st[e] = read_line(st[e - 1], lines[e])
    BY <1>1
  <2> QED
    BY <1>2, <2>1 DEF read_line, opens_body
<1>4. \A j \in e + 1 .. n : st[j - 1] \in {st[e]} => st[j] \in {st[e]}
  <2> SUFFICES ASSUME NEW j \in e + 1 .. n, st[j - 1] = st[e] PROVE st[j] = st[e]
    OBVIOUS
  <2>1. j \in 1 .. n
    OBVIOUS
  <2> QED
    BY <1>1, <1>3, <2>1 DEF read_line
<1>5. e \in Nat /\ e <= n /\ st[e] \in {st[e]}
  OBVIOUS
<1>6. st[n] \in {st[e]}
  BY <1>4, <1>5, Through
<1> QED
  BY <1>6

\* The lines before the Message-ID are headers, blank or continuations.
headers_only(lines, h) ==
  /\ \A j \in 1 .. h - 1 :
       /\ empty(lines[j]) \/ continues(lines[j])
            \/ (lines[j].mark = "" /\ lines[j].kind = "header")
       /\ lines[j].kind = "header" => lines[j].name # ""
  /\ h > 1 => lines[1].mark = "" /\ lines[1].kind = "header" /\ ~lines[1].indented

\* The Message-ID header is on line h, its value ends on line q, empty lines
\* follow up to line z and then no continuation.
IdAt(lines, n, id, h, q, z) ==
  /\ h \in Nat \ {0} /\ q \in Nat /\ z \in Nat /\ h <= q /\ q <= z /\ z <= n
  /\ \A j \in 1 .. n : names_id(lines[j]) <=> j = h
  /\ lines[h].mark = "" /\ ~lines[h].indented
  /\ \/ q = h /\ lines[h].value = id
     \/ /\ q = h + 1 /\ lines[h].value = ""
        /\ lines[q].mark = "" /\ lines[q].kind = "text" /\ lines[q].value = id
  /\ \A j \in q + 1 .. z : empty(lines[j])
  /\ z < n => ~empty(lines[z + 1]) /\ ~continues(lines[z + 1])

\* Such a block gives its id, or is refused because its headers ended before.
LEMMA IdRead ==
  ASSUME NEW n \in Nat, NEW lines, NEW st, Reading(st, lines, n), NEW id \in STRING,
         NEW h \in Nat \ {0}, NEW q \in Nat, NEW z \in Nat, IdAt(lines, n, id, h, q, z)
  PROVE  /\ st[n].message_id \in {"", id}
         /\ headers_only(lines, h) /\ (q = h \/ continues(lines[q])) =>
              st[n].message_id = id
<1>1. \A j \in 1 .. n : lines[j] \in Lines /\ st[j] = read_line(st[j - 1], lines[j])
  BY DEF Reading
<1> DEFINE order == h <= q /\ q <= z /\ z <= n
<1>0. /\ order
      /\ \A j \in 1 .. n : names_id(lines[j]) <=> j = h
  BY DEF IdAt
<1>2. st[h - 1] \in Before
  <2>1. st[0] \in Before
    BY Starts DEF Reading
  <2>2. \A j \in 0 + 1 .. h - 1 : st[j - 1] \in Before => st[j] \in Before
    <3>1. \A j \in 0 + 1 .. h - 1 : j \in 1 .. n /\ j # h
      BY <1>0
    <3> QED
      BY <1>0, <1>1, <3>1, StepBefore
  <2>3. h - 1 \in Nat /\ 0 <= h - 1
    OBVIOUS
  <2> QED
    BY <2>1, <2>2, <2>3, Through
<1>3. ASSUME NEW k \in 0 .. n, st[k] \in Lost PROVE st[n].message_id = ""
  <2>1. \A j \in k + 1 .. n : j \in 1 .. n
    OBVIOUS
  <2>2. \A j \in k + 1 .. n : st[j - 1] \in Lost => st[j] \in Lost
    BY <1>1, <2>1, StepLost
  <2>3. k \in Nat /\ k <= n
    OBVIOUS
  <2>4. st[n] \in Lost
    BY <1>3, <2>2, <2>3, Through
  <2> QED
    BY <2>4 DEF Lost
<1>4. ASSUME st[q] \in Just(id) PROVE st[n].message_id = id
  <2>1. q \in Nat /\ z \in Nat /\ q <= z
    BY <1>0
  <2>2. \A j \in q + 1 .. z : j \in 1 .. n /\ empty(lines[j])
    <3>1. \A j \in q + 1 .. z : j \in 1 .. n
      BY <1>0
    <3> QED
      BY <3>1 DEF IdAt
  <2>3. \A j \in q + 1 .. z : st[j - 1] \in Just(id) => st[j] \in Just(id)
    BY <1>1, <2>2, StepBlank
  <2>4. st[z] \in Just(id)
    BY <1>4, <2>1, <2>3, Through
  <2>5. CASE z = n
    BY <2>4, <2>5 DEF Just
  <2>6. CASE z < n
    <3>1. z + 1 \in 1 .. n /\ z + 1 # h /\ (z + 1) - 1 = z
      BY <1>0, <2>6
    <3>2. st[z + 1] = read_line(st[z], lines[z + 1]) /\ lines[z + 1] \in Lines
      BY <1>1, <3>1
    <3>3. st[z + 1] \in Kept(id)
      <4>1. ~names_id(lines[z + 1]) /\ ~empty(lines[z + 1]) /\ ~continues(lines[z + 1])
        BY <1>0, <2>6, <3>1 DEF IdAt
      <4> QED
        BY <2>4, <3>2, <4>1, StepEnds
    <3>4. \A j \in (z + 1) + 1 .. n : j \in 1 .. n /\ j # h
      BY <1>0
    <3>5. \A j \in (z + 1) + 1 .. n : st[j - 1] \in Kept(id) => st[j] \in Kept(id)
      BY <1>0, <1>1, <3>4, StepKept
    <3>6. z + 1 \in Nat /\ z + 1 <= n
      BY <2>6
    <3>7. st[n] \in Kept(id)
      BY <3>3, <3>5, <3>6, Through
    <3> QED
      BY <3>7 DEF Kept
  <2> QED
    BY <1>0, <2>5, <2>6
<1>5. st[h] = read_line(st[h - 1], lines[h]) /\ lines[h] \in Lines /\ names_id(lines[h])
  <2>1. h \in 1 .. n
    BY <1>0
  <2> QED
    BY <1>0, <1>1, <2>1
<1>6. ASSUME ~ st[h - 1].in_body
      PROVE  /\ q = h \/ continues(lines[q]) => st[q] \in Just(id)
             /\ ~ (q = h \/ continues(lines[q])) => st[q] \in Lost
  <2>1. /\ st[h] \in States /\ st[h].message_id = lines[h].value
        /\ st[h].current \in MessageIdNames /\ ~ st[h].in_body
    <3>1. st[h] = [st[h - 1] EXCEPT !.current = lines[h].name, !.message_id = lines[h].value]
      BY <1>5, <1>6 DEF IdAt, read_line, names_id
    <3> QED
      BY <1>2, <1>5, <1>6, <3>1 DEF Before, States, Lines, names_id
  <2>2. CASE q = h
    BY <2>1, <2>2 DEF IdAt, Just
  <2>3. CASE q # h
    <3>1. st[q] = read_line(st[h], lines[q]) /\ lines[q].kind = "text" /\ lines[q].mark = ""
      <4>1. q = h + 1
        BY <2>3 DEF IdAt
      <4>2. q \in 1 .. n /\ q - 1 = h
        BY <1>0, <4>1
      <4> QED
        BY <1>1, <2>3, <4>2 DEF IdAt
    <3>2. CASE continues(lines[q])
      <4>1. folded(st[h].message_id, lines[q]) = id
        BY <2>1, <2>3 DEF IdAt, folded, text_of
      <4>2. st[q] = [st[h] EXCEPT !.message_id = id]
        <5>1. lines[q].kind # "blank" /\ lines[q].kind # "header"
          BY <3>1
        <5>2. lines[q].indented /\ lines[q].mark = "" /\ st[h].current # ""
          BY <2>1, <3>2 DEF continues, MessageIdNames
        <5>3. ~st[h].in_body /\ st[h].current \in MessageIdNames
          BY <2>1
        <5> QED
          BY <3>1, <4>1, <5>1, <5>2, <5>3 DEF read_line
      <4> QED
        BY <2>1, <3>2, <4>2 DEF Just, States, Strings
    <3>3. CASE ~ continues(lines[q])
      <4>1. st[q] = [st[h] EXCEPT !.in_body = TRUE]
        BY <2>1, <3>1, <3>3 DEF read_line, continues
      <4>2. st[h].message_id = ""
        BY <2>1, <2>3 DEF IdAt
      <4> QED
        BY <2>1, <3>3, <4>1, <4>2 DEF Lost, States
    <3> QED
      BY <3>2, <3>3
  <2> QED
    BY <2>2, <2>3
<1>7. ASSUME st[h - 1].in_body PROVE st[n].message_id = ""
  <2>1. st[h - 1] \in Lost
    BY <1>2, <1>7 DEF Lost, Before
  <2>2. h - 1 \in 0 .. n
    BY <1>0
  <2> QED
    BY <1>3, <2>1, <2>2
<1>8. ASSUME headers_only(lines, h) PROVE ~ st[h - 1].in_body
  <2>1. CASE h = 1
    <3>1. h - 1 = 0
      BY <2>1
    <3>2. st[h - 1] = start
      BY <3>1 DEF Reading
    <3> QED
      BY <3>2, Starts
  <2>2. CASE h > 1
    <3>1. st[1] \in Within
      <4>1. /\ st[1] = read_line(start, lines[1]) /\ lines[1] \in Lines
            /\ lines[1].mark = "" /\ lines[1].kind = "header" /\ ~lines[1].indented
            /\ lines[1].name # "" /\ ~ names_id(lines[1])
        <5>1. 1 \in 1 .. n /\ 1 # h /\ 1 \in 1 .. h - 1
          BY <1>0, <2>2
        <5>2. st[0] = start /\ 1 - 1 = 0
          BY DEF Reading
        <5>3. st[1] = read_line(start, lines[1]) /\ lines[1] \in Lines
          BY <1>1, <5>1, <5>2
        <5>4. ~ names_id(lines[1])
          BY <1>0, <5>1
        <5> QED
          BY <1>8, <2>2, <5>1, <5>3, <5>4 DEF headers_only
      <4>2. st[1] = [start EXCEPT !.current = lines[1].name]
        BY <4>1, Starts DEF read_line, names_id, Before, States
      <4> QED
        BY <4>1, <4>2, Starts DEF Within, Before, States, Lines, names_id
    <3>2. \A j \in 1 + 1 .. h - 1 : st[j - 1] \in Within => st[j] \in Within
      <4> SUFFICES ASSUME NEW j \in 1 + 1 .. h - 1, st[j - 1] \in Within
                   PROVE  st[j] \in Within
        OBVIOUS
      <4>1. j \in 1 .. h - 1 /\ j \in 1 .. n /\ j # h
        BY <1>0
      <4> QED
        BY <1>0, <1>1, <1>8, <4>1, StepWithin DEF headers_only
    <3>3. h - 1 \in Nat /\ 1 <= h - 1
      BY <2>2
    <3>4. st[h - 1] \in Within
      BY <3>1, <3>2, <3>3, Through
    <3> QED
      BY <3>4 DEF Within
  <2> QED
    BY <2>1, <2>2
<1> QED
  <2>1. q \in 0 .. n
    BY <1>0
  <2> QED
    BY <1>3, <1>4, <1>6, <1>7, <1>8, <2>1

-----------------------------------------------------------------------------
(* The lines of a message                                                  *)

Orders == {<<"From", "To", "Message-ID">>, <<"To", "From", "Message-ID">>,
           <<"Message-ID", "From", "To">>}

Ids == STRING \ {""}

Foldings == {"", "To", "Message-ID"}

\* Without the bodies that begin with a Message-ID.
BodyForms == {"empty", "text", "named", "indented", "forwarded"}

Rules == {"none", "tight", "loose"}

Messages ==
  [id : Ids, order : Orders, spaced : BOOLEAN, folded : Foldings,
   body : BodyForms, mark : {"|", ">"}, wide : BOOLEAN, rule : Rules]

value_of(m, name) == IF name = "Message-ID" THEN m.id ELSE "x"

\* Literal sequences of one to four elements.
LEMMA OneLine ==
  ASSUME NEW S, NEW a \in S, NEW B, B = <<a>>
  PROVE  B \in Seq(S) /\ Len(B) = 1 /\ B[1] = a
  OBVIOUS

LEMMA TwoLines ==
  ASSUME NEW S, NEW a \in S, NEW b \in S, NEW B, B = <<a, b>>
  PROVE  /\ B \in Seq(S) /\ Len(B) = 2 /\ B[1] = a /\ B[2] = b
         /\ \A j \in 1 .. Len(B) : j = 1 \/ j = 2
  OBVIOUS

LEMMA ThreeLines ==
  ASSUME NEW S, NEW a \in S, NEW b \in S, NEW c \in S, NEW B, B = <<a, b, c>>
  PROVE  /\ B \in Seq(S) /\ Len(B) = 3 /\ B[1] = a /\ B[2] = b /\ B[3] = c
         /\ \A j \in 1 .. Len(B) : j = 1 \/ j = 2 \/ j = 3
  OBVIOUS

LEMMA FourLines ==
  ASSUME NEW S, NEW a \in S, NEW b \in S, NEW c \in S, NEW d \in S,
         NEW B, B = <<a, b, c, d>>
  PROVE  /\ B \in Seq(S) /\ Len(B) = 4
         /\ B[1] = a /\ B[2] = b /\ B[3] = c /\ B[4] = d
         /\ \A j \in 1 .. Len(B) : j = 1 \/ j = 2 \/ j = 3 \/ j = 4
  OBVIOUS

header_line(m, name) == header(name, IF m.folded = name THEN "" ELSE value_of(m, name))

folded_line(m, name) == [text(value_of(m, name)) EXCEPT !.indented = TRUE]

\* The lines of a header: its name, one more line if it is folded, a blank one
\* if the headers are spaced.
HeaderLines(m, name, A) ==
  /\ A \in Seq(Lines) /\ Len(A) >= 1 /\ A[1] = header_line(m, name)
  /\ m.folded = name => Len(A) >= 2 /\ A[2] = folded_line(m, name)
  /\ \A j \in 2 .. Len(A) : A[j] = blank \/ (j = 2 /\ m.folded = name)

\* A header is one line or two, and perhaps a blank line.
LEMMA HeaderShape ==
  ASSUME NEW m \in Messages, NEW name \in {"From", "To", "Message-ID"},
         NEW A, A = header_lines(m, name)
  PROVE  HeaderLines(m, name, A)
<1> DEFINE v == value_of(m, name)
           h == header(name, IF m.folded = name THEN "" ELSE v)
           t == [text(v) EXCEPT !.indented = TRUE]
<1>1. v \in Strings /\ name \in Strings /\ "" \in Strings
  BY DEF value_of, Strings, Messages, Ids
<1>2. h \in Lines /\ t \in Lines /\ blank \in Lines
  BY <1>1 DEF header, text, blank, Lines, Marks, Strings
<1>3. A = (IF m.folded = name THEN <<h, t>> ELSE <<h>>)
            \o (IF m.spaced THEN <<blank>> ELSE <<>>)
  BY DEF header_lines, value_of
<1> HIDE DEF h, t, v
<1> DEFINE P == IF m.folded = name THEN <<h, t>> ELSE <<h>>
           Q == IF m.spaced THEN <<blank>> ELSE <<>>
<1>4. /\ P \in Seq(Lines) /\ Len(P) \in {1, 2} /\ P[1] = h
      /\ m.folded = name => Len(P) = 2 /\ P[2] = t
      /\ m.folded # name => Len(P) = 1
  BY <1>2, OneLine, TwoLines
<1>5. Q \in Seq(Lines) /\ Len(Q) \in {0, 1} /\ (Len(Q) = 1 => Q[1] = blank)
  <2>1. CASE m.spaced
    <3>1. Q = <<blank>>
      BY <2>1
    <3> HIDE DEF Q
    <3> QED
      BY <1>2, <3>1, OneLine
  <2>2. CASE ~m.spaced
    BY <2>2
  <2> QED
    BY <2>1, <2>2
<1>6. A = P \o Q
  BY <1>3
<1> HIDE DEF P, Q
<1>7. /\ A \in Seq(Lines) /\ Len(A) = Len(P) + Len(Q)
      /\ \A j \in 1 .. Len(P) : A[j] = P[j]
      /\ \A j \in 1 .. Len(Q) : A[Len(P) + j] = Q[j]
  BY <1>4, <1>5, <1>6, ConcatLines
<1>8. A[1] = h /\ Len(A) >= 1
  BY <1>4, <1>5, <1>7
<1>9. m.folded = name => Len(A) >= 2 /\ A[2] = t
  BY <1>4, <1>5, <1>7, SMTT(30)
<1>10. \A j \in 2 .. Len(A) : A[j] = blank \/ (j = 2 /\ m.folded = name)
  <2> SUFFICES ASSUME NEW j \in 2 .. Len(A), j # 2 \/ m.folded # name
               PROVE  A[j] = blank
    OBVIOUS
  <2>1. Len(Q) = 1 /\ j = Len(P) + 1
    BY <1>4, <1>5, <1>7
  <2> QED
    BY <1>5, <1>7, <2>1
<1> QED
  BY <1>7, <1>8, <1>9, <1>10, Zenon DEF h, t, v, HeaderLines, header_line, folded_line

vacant(line) == line.kind = "blank"

is_header(line) == line.kind = "header"

names_from(line) == line.kind = "header" /\ line.name = "From"

\* No line of a message that is not quoted is dashes or an indented header.
OwnLine(line) ==
  /\ line.mark = "" /\ line.kind # "dashes"
  /\ line.kind = "header" => ~line.indented /\ line.name # ""

harmless(line) == ~names_from(line) /\ ~names_id(line)

BodyLines(m, B) ==
  /\ B \in Seq(Lines)
  /\ \A j \in 1 .. Len(B) : OwnLine(B[j]) /\ ((m.body = "forwarded" /\ j > 2) \/ harmless(B[j]))
  /\ \/ B = <<>>
     \/ /\ Len(B) >= 2 /\ B[1] = blank /\ ~vacant(B[2])
        /\ m.body # "indented" => ~B[2].indented
        /\ m.body = "forwarded" => opens_body(B[2])
  /\ m.body = "forwarded" => B # <<>>

\* A line of one of the bodies.
BodyLine(m, line) ==
  /\ OwnLine(line) /\ harmless(line) /\ ~vacant(line)
  /\ m.body # "indented" => ~line.indented
  /\ m.body = "forwarded" => opens_body(line)

\* A body starts, if it is not empty, after a blank line; what it forwards
\* comes after a line of text.
LEMMA BodyShape ==
  ASSUME NEW m \in Messages, NEW B, B = body_lines(m)
  PROVE  BodyLines(m, B)
<1>1. m.body \in {"empty", "text", "named", "indented", "forwarded"}
  BY DEF Messages, BodyForms
<1> DEFINE t == text("x")
           i == [text("x") EXCEPT !.indented = TRUE]
           n == header("from", "x")
           f == header("From", "x")
           d == header("Message-ID", "x")
<1>2. /\ t.mark = "" /\ t.kind = "text" /\ ~t.indented
      /\ i.mark = "" /\ i.kind = "text"
      /\ n.mark = "" /\ n.kind = "header" /\ ~n.indented /\ n.name = "from"
      /\ f.mark = "" /\ f.kind = "header" /\ ~f.indented /\ f.name = "From"
      /\ d.mark = "" /\ d.kind = "header" /\ ~d.indented /\ d.name = "Message-ID"
      /\ blank.mark = "" /\ blank.kind = "blank"
  BY DEF header, text, blank
<1>3. t \in Lines /\ i \in Lines /\ n \in Lines /\ f \in Lines /\ d \in Lines /\ blank \in Lines
  BY DEF header, text, blank, Lines, Marks, Strings
<1>4. B = CASE m.body = "empty"     -> <<>>
            [] m.body = "text"      -> <<blank, t>>
            [] m.body = "named"     -> <<blank, n, t>>
            [] m.body = "indented"  -> <<blank, i>>
            [] m.body = "id_first"  -> <<blank, header("Message-Id", "x"), t>>
            [] m.body = "forwarded" -> <<blank, t, f, d>>
  BY DEF body_lines
<1> HIDE DEF t, i, n, f, d
<1>5. OwnLine(f) /\ OwnLine(d) /\ OwnLine(blank) /\ harmless(blank)
  BY <1>2 DEF OwnLine, harmless, names_from, names_id
<1>6. BodyLine(m, t)
  BY <1>2 DEF BodyLine, OwnLine, harmless, names_from, names_id, vacant, opens_body
<1>7. m.body = "indented" => BodyLine(m, i)
  BY <1>2 DEF BodyLine, OwnLine, harmless, names_from, names_id, vacant, opens_body
<1>8. m.body = "named" => BodyLine(m, n)
  BY <1>2 DEF BodyLine, OwnLine, harmless, names_from, names_id, vacant, opens_body,
              MessageIdNames
<1>9. CASE m.body = "empty"
  <2>1. B = <<>>
    BY <1>4, <1>9
  <2>2. B \in Seq(Lines) /\ 1 .. Len(B) = {}
    BY <2>1
  <2> QED
    BY <1>9, <2>1, <2>2, Zenon DEF BodyLines
<1>10. ASSUME NEW x \in Lines, BodyLine(m, x), B = <<blank, x>>
       PROVE  BodyLines(m, B)
  <2>1. /\ B \in Seq(Lines) /\ Len(B) = 2 /\ B[1] = blank /\ B[2] = x
        /\ \A j \in 1 .. Len(B) : j = 1 \/ j = 2
    BY <1>3, <1>10, TwoLines
  <2>2. Len(B) >= 2 /\ B # <<>>
    <3>1. Len(B) # 0 /\ Len(B) >= 2
      BY <2>1
    <3>2. B = <<>> => Len(B) = 0
      OBVIOUS
    <3> QED
      BY <3>1, <3>2
  <2> QED
    BY <1>5, <1>10, <2>1, <2>2, Zenon DEF BodyLines, BodyLine
<1>11. ASSUME NEW x \in Lines, BodyLine(m, x), B = <<blank, x, t>>
       PROVE  BodyLines(m, B)
  <2>1. /\ B \in Seq(Lines) /\ Len(B) = 3 /\ B[1] = blank /\ B[2] = x /\ B[3] = t
        /\ \A j \in 1 .. Len(B) : j = 1 \/ j = 2 \/ j = 3
    BY <1>3, <1>11, ThreeLines
  <2>2. Len(B) >= 2 /\ B # <<>>
    <3>1. Len(B) # 0 /\ Len(B) >= 2
      BY <2>1
    <3>2. B = <<>> => Len(B) = 0
      OBVIOUS
    <3> QED
      BY <3>1, <3>2
  <2> QED
    BY <1>5, <1>6, <1>11, <2>1, <2>2, Zenon DEF BodyLines, BodyLine
<1>12. CASE m.body = "forwarded"
  <2>0. B = <<blank, t, f, d>>
    BY <1>4, <1>12
  <2>1. /\ B \in Seq(Lines) /\ Len(B) = 4
        /\ B[1] = blank /\ B[2] = t /\ B[3] = f /\ B[4] = d
        /\ \A j \in 1 .. Len(B) : j = 1 \/ j = 2 \/ j = 3 \/ j = 4
    BY <1>3, <2>0, FourLines
  <2>2. Len(B) >= 2 /\ B # <<>>
    <3>1. Len(B) = 4
      BY <2>1
    <3>2. Len(B) # 0 /\ Len(B) >= 2
      BY <3>1
    <3>3. B = <<>> => Len(B) = 0
      OBVIOUS
    <3> QED
      BY <3>2, <3>3
  <2>3. 3 > 2 /\ 4 > 2
    OBVIOUS
  <2> QED
    BY <1>5, <1>6, <1>12, <2>1, <2>2, <2>3, Zenon DEF BodyLines, BodyLine
<1>13. CASE m.body = "text"
  BY <1>3, <1>4, <1>6, <1>10, <1>13
<1>14. CASE m.body = "indented"
  BY <1>3, <1>4, <1>7, <1>10, <1>14
<1>15. CASE m.body = "named"
  BY <1>3, <1>4, <1>8, <1>11, <1>15
<1> QED
  BY <1>1, <1>9, <1>12, <1>13, <1>14, <1>15

\* Every position of a concatenation lies in one of its parts.
LEMMA Located ==
  ASSUME NEW N \in Nat \ {0}, NEW off \in [0 .. N -> Nat], off[0] = 0,
         NEW i \in 1 .. off[N]
  PROVE  \E n \in 1 .. N : off[n - 1] < i /\ i <= off[n]
<1> DEFINE reached == {n \in 1 .. N : i <= off[n]}
<1>1. reached \in SUBSET Nat /\ reached # {}
  <2>1. N \in reached
    OBVIOUS
  <2> QED
    BY <2>1
<1>2. PICK n \in reached : \A k \in reached : n <= k
  BY <1>1, LeastNumber
<1>3. off[n - 1] < i
  <2>1. CASE n = 1
    BY <2>1
  <2>2. CASE n # 1
    <3>1. n - 1 \in 1 .. N /\ ~ (n <= n - 1)
      BY <2>2
    <3>2. n - 1 \notin reached
      BY <1>2, <3>1
    <3>3. off[n - 1] \in Nat
      BY <3>1
    <3> QED
      BY <3>1, <3>2, <3>3
  <2> QED
    BY <2>1, <2>2
<1> QED
  BY <1>3

\* The parts of a message are its three headers and its body.
LEMMA OrderShape ==
  ASSUME NEW order \in Orders
  PROVE  /\ DOMAIN order = 1 .. 3
         /\ \A k \in 1 .. 3 : order[k] \in {"From", "To", "Message-ID"}
  BY DEF Orders

\* The body comes after the headers.
LEMMA AppendOne ==
  ASSUME NEW S, NEW H \in Seq(S), Len(H) = 3, NEW b \in S
  PROVE  /\ Append(H, b) \in Seq(S) /\ Len(Append(H, b)) = 4 /\ Append(H, b)[4] = b
         /\ \A k \in 1 .. 3 : Append(H, b)[k] = H[k]
  BY SMTT(30)

Pieces(m, M, o) ==
  /\ o \in [0 .. 4 -> Nat] /\ o[0] = 0 /\ M \in Seq(Lines) /\ Len(M) = o[4]
  /\ \A k \in 1 .. 3 :
       /\ o[k] = o[k - 1] + Len(header_lines(m, m.order[k]))
       /\ \A j \in 1 .. Len(header_lines(m, m.order[k])) :
            M[o[k - 1] + j] = header_lines(m, m.order[k])[j]
  /\ o[4] = o[3] + Len(body_lines(m))
  /\ \A j \in 1 .. Len(body_lines(m)) : M[o[3] + j] = body_lines(m)[j]

\* A message is the lines of its three headers and of its body.
LEMMA MessageParts ==
  ASSUME NEW m \in Messages, NEW M, M = message_lines(m)
  PROVE  \E o : Pieces(m, M, o)
<1> DEFINE H == [k \in DOMAIN m.order |-> header_lines(m, m.order[k])]
           P == Append(H, body_lines(m))
<1>1. /\ DOMAIN m.order = 1 .. 3
      /\ \A k \in 1 .. 3 : m.order[k] \in {"From", "To", "Message-ID"}
  <2>1. m.order \in Orders
    BY DEF Messages
  <2> QED
    BY <2>1, OrderShape
<1>2. \A k \in 1 .. 3 : header_lines(m, m.order[k]) \in Seq(Lines)
  BY <1>1, HeaderShape DEF HeaderLines
<1>3. body_lines(m) \in Seq(Lines)
  BY BodyShape DEF BodyLines
<1>4. H \in Seq(Seq(Lines)) /\ Len(H) = 3 /\ \A k \in 1 .. 3 : H[k] = header_lines(m, m.order[k])
  BY <1>1, <1>2
<1> HIDE DEF H
<1>5. /\ P \in Seq(Seq(Lines)) /\ Len(P) = 4 /\ P[4] = body_lines(m)
      /\ \A k \in 1 .. 3 : P[k] = header_lines(m, m.order[k])
  BY <1>3, <1>4, AppendOne
<1> HIDE DEF P
<1>6. PICK o : Cuts(Lines, P, 4, FlattenSeq(P), o)
  <2>1. PICK N \in Nat \ {0} : N = 4
    OBVIOUS
  <2>2. N = Len(P) /\ P \in Seq(Seq(Lines))
    BY <1>5, <2>1
  <2> QED
    BY <2>1, <2>2, FlattenParts
<1>7. M = FlattenSeq(P)
  BY DEF message_lines, P, H
<1>8. \A k \in 1 .. 3 : k \in 1 .. 4
  OBVIOUS
<1>9. 4 \in 1 .. 4 /\ 4 - 1 = 3
  OBVIOUS
<1>10. \A k \in 1 .. 3 :
         /\ o[k] = o[k - 1] + Len(header_lines(m, m.order[k]))
         /\ \A j \in 1 .. Len(header_lines(m, m.order[k])) :
              M[o[k - 1] + j] = header_lines(m, m.order[k])[j]
  BY <1>5, <1>6, <1>7, <1>8, ZenonT(30) DEF Cuts
<1>11. /\ o[4] = o[3] + Len(body_lines(m))
       /\ \A j \in 1 .. Len(body_lines(m)) : M[o[3] + j] = body_lines(m)[j]
  <2>1. /\ o[4] = o[4 - 1] + Len(P[4])
        /\ \A j \in 1 .. Len(P[4]) : FlattenSeq(P)[o[4 - 1] + j] = P[4][j]
    BY <1>6, <1>9, Zenon DEF Cuts
  <2> QED
    BY <1>5, <1>7, <1>9, <2>1
<1>12. o \in [0 .. 4 -> Nat] /\ o[0] = 0 /\ M \in Seq(Lines) /\ Len(M) = o[4]
  BY <1>6, <1>7, Zenon DEF Cuts
<1>13. Pieces(m, M, o)
  BY <1>10, <1>11, <1>12, Zenon DEF Pieces
<1> QED
  BY <1>13, Zenon

\* The lines of a message, from o[k - 1] + 1 to o[k] those of its k-th header
\* and from o[3] + 1 to o[4] those of its body.
Parts(m, M, o) ==
  /\ o \in [0 .. 4 -> Nat] /\ o[0] = 0 /\ M \in Seq(Lines) /\ Len(M) = o[4]
  /\ \A k \in 1 .. 3 :
       /\ o[k] >= o[k - 1] + 1 /\ M[o[k - 1] + 1] = header_line(m, m.order[k])
       /\ m.folded = m.order[k] =>
            o[k] >= o[k - 1] + 2 /\ M[o[k - 1] + 2] = folded_line(m, m.order[k])
       /\ \A j \in o[k - 1] + 2 .. o[k] :
            M[j] = blank \/ (j = o[k - 1] + 2 /\ m.folded = m.order[k])
  /\ \A j \in o[3] + 1 .. o[4] :
       OwnLine(M[j]) /\ ((m.body = "forwarded" /\ j > o[3] + 2) \/ harmless(M[j]))
  /\ \/ o[4] = o[3]
     \/ /\ o[4] >= o[3] + 2 /\ M[o[3] + 1] = blank /\ ~vacant(M[o[3] + 2])
        /\ m.body # "indented" => ~M[o[3] + 2].indented
        /\ m.body = "forwarded" => opens_body(M[o[3] + 2])
  /\ m.body = "forwarded" => o[4] # o[3]

\* The lines at which these four parts start and what is on them.
LEMMA PartLines ==
  ASSUME NEW m \in Messages, NEW M, M = message_lines(m)
  PROVE  \E o : Parts(m, M, o)
<1>0. PICK o : Pieces(m, M, o)
  BY MessageParts
<1>1. /\ o \in [0 .. 4 -> Nat] /\ o[0] = 0 /\ M \in Seq(Lines) /\ Len(M) = o[4]
      /\ \A k \in 1 .. 3 :
           /\ o[k] = o[k - 1] + Len(header_lines(m, m.order[k]))
           /\ \A j \in 1 .. Len(header_lines(m, m.order[k])) :
                M[o[k - 1] + j] = header_lines(m, m.order[k])[j]
      /\ o[4] = o[3] + Len(body_lines(m))
      /\ \A j \in 1 .. Len(body_lines(m)) : M[o[3] + j] = body_lines(m)[j]
  BY <1>0 DEF Pieces
<1>2. \A k \in 1 .. 3 : m.order[k] \in {"From", "To", "Message-ID"}
  BY OrderShape DEF Messages
<1>3. ASSUME NEW k \in 1 .. 3
      PROVE
       /\ o[k] >= o[k - 1] + 1 /\ M[o[k - 1] + 1] = header_line(m, m.order[k])
       /\ m.folded = m.order[k] =>
            o[k] >= o[k - 1] + 2 /\ M[o[k - 1] + 2] = folded_line(m, m.order[k])
       /\ \A j \in o[k - 1] + 2 .. o[k] :
            M[j] = blank \/ (j = o[k - 1] + 2 /\ m.folded = m.order[k])
  <2>0. PICK w \in {"From", "To", "Message-ID"} : w = m.order[k]
    BY <1>2
  <2> DEFINE x == header_line(m, w)
             y == folded_line(m, w)
             folds == m.folded = w
  <2>1. PICK A : A = header_lines(m, w)
    OBVIOUS
  <2>2. PICK a \in Nat, b \in Nat : a = o[k - 1] /\ b = o[k]
    <3>1. k - 1 \in 0 .. 4 /\ k \in 0 .. 4
      OBVIOUS
    <3> QED
      BY <1>1, <3>1
  <2>3. /\ A \in Seq(Lines) /\ Len(A) >= 1 /\ A[1] = x
        /\ folds => Len(A) >= 2 /\ A[2] = y
        /\ \A j \in 2 .. Len(A) : A[j] = blank \/ (j = 2 /\ folds)
    BY <2>1, HeaderShape DEF HeaderLines
  <2> HIDE DEF x, y, folds
  <2>4. PICK l \in Nat : l = Len(A)
    BY <2>3
  <2>5. b = a + l /\ \A j \in 1 .. l : M[a + j] = A[j]
    BY <1>1, <2>0, <2>1, <2>2, <2>4, Zenon
  <2>6. l >= 1 /\ M[a + 1] = x
    <3>1. l >= 1
      BY <2>3, <2>4
    <3>2. 1 \in 1 .. l
      BY <3>1
    <3> QED
      BY <2>3, <2>5, <3>1, <3>2, Zenon
  <2>7. folds => l >= 2 /\ M[a + 2] = y
    <3> SUFFICES ASSUME folds PROVE l >= 2 /\ M[a + 2] = y
      OBVIOUS
    <3>1. l >= 2
      BY <2>3, <2>4
    <3>2. 2 \in 1 .. l
      BY <3>1
    <3> QED
      BY <2>3, <2>5, <3>1, <3>2, Zenon
  <2>8. \A j \in a + 2 .. b : M[j] = blank \/ (j = a + 2 /\ folds)
    <3> SUFFICES ASSUME NEW j \in a + 2 .. b
                 PROVE  M[j] = blank \/ (j = a + 2 /\ folds)
      OBVIOUS
    <3>0. b = a + l
      BY <2>5
    <3>1. PICK i \in 2 .. l : j = a + i
      <4>1. j - a \in 2 .. l /\ j = a + (j - a)
        BY <3>0
      <4> QED
        BY <4>1
    <3>2. M[j] = A[i]
      <4>1. i \in 1 .. l
        OBVIOUS
      <4> QED
        BY <2>5, <3>1, <4>1
    <3>3. A[i] = blank \/ (i = 2 /\ folds)
      BY <2>3, <2>4, Zenon
    <3> QED
      BY <3>1, <3>2, <3>3
  <2>9. b >= a + 1 /\ (folds => b >= a + 2)
    <3>1. b = a + l
      BY <2>5
    <3>2. l >= 1 /\ (folds => l >= 2)
      BY <2>6, <2>7
    <3> QED
      BY <3>1, <3>2
  <2> QED
    BY <2>0, <2>2, <2>6, <2>7, <2>8, <2>9, Zenon DEF x, y, folds
<1>4. PICK B : B = body_lines(m)
  OBVIOUS
<1>5. PICK a \in Nat, b \in Nat : a = o[3] /\ b = o[4]
  <2>1. o \in [0 .. 4 -> Nat]
    BY <1>1
  <2>2. o[3] \in Nat /\ o[4] \in Nat
    BY <2>1
  <2> QED
    BY <2>2
<1>6. BodyLines(m, B)
  BY <1>4, BodyShape
<1>7. PICK l \in Nat : l = Len(B)
  BY <1>6 DEF BodyLines
<1>8. b = a + l /\ \A j \in 1 .. l : M[a + j] = B[j]
  BY <1>1, <1>4, <1>5, <1>7, Zenon
<1>9. \A j \in a + 1 .. b :
        OwnLine(M[j]) /\ ((m.body = "forwarded" /\ j > a + 2) \/ harmless(M[j]))
  <2> SUFFICES ASSUME NEW j \in a + 1 .. b
               PROVE  OwnLine(M[j]) /\ ((m.body = "forwarded" /\ j > a + 2) \/ harmless(M[j]))
    OBVIOUS
  <2>1. PICK i \in 1 .. l : j = a + i
    <3>1. j - a \in 1 .. l /\ j = a + (j - a)
      BY <1>8
    <3> QED
      BY <3>1
  <2>2. M[j] = B[i] /\ (i > 2 => j > a + 2)
    BY <1>8, <2>1
  <2> QED
    BY <1>6, <1>7, <2>2, Zenon DEF BodyLines
<1>10. /\ \/ b = a
          \/ /\ b >= a + 2 /\ M[a + 1] = blank /\ ~vacant(M[a + 2])
             /\ m.body # "indented" => ~M[a + 2].indented
             /\ m.body = "forwarded" => opens_body(M[a + 2])
       /\ m.body = "forwarded" => b # a
  <2>1. CASE B = <<>>
    <3>1. m.body # "forwarded"
      BY <1>6, <2>1 DEF BodyLines
    <3>2. l = 0
      BY <1>7, <2>1
    <3> QED
      BY <1>8, <3>1, <3>2
  <2>2. CASE B # <<>>
    <3>1. l >= 2 /\ B[1] = blank /\ ~vacant(B[2])
          /\ (m.body # "indented" => ~B[2].indented)
          /\ (m.body = "forwarded" => opens_body(B[2]))
      BY <1>6, <1>7, <2>2 DEF BodyLines
    <3>2. M[a + 1] = B[1] /\ M[a + 2] = B[2] /\ b >= a + 2 /\ b # a
      BY <1>8, <3>1
    <3> QED
      BY <3>1, <3>2
  <2> QED
    BY <2>1, <2>2
<1> QED
  BY <1>1, <1>3, <1>5, <1>9, <1>10, Zenon DEF Parts

\* A line of the headers.
HeaderPart(m, line) == is_header(line) \/ vacant(line) \/ (line.indented /\ m.folded # "")

IdOnOneLine(m, line) == line.value = m.id

IdOnTwoLines(m, first, second) ==
  /\ first.value = "" /\ second.kind = "text" /\ second.value = m.id
  /\ second.indented /\ m.folded # ""

\* The first line of a header.
LEMMA HeaderLineFacts ==
  ASSUME NEW m \in Messages, NEW name \in {"From", "To", "Message-ID"},
         NEW line, line = header_line(m, name)
  PROVE  /\ OwnLine(line) /\ is_header(line) /\ ~vacant(line) /\ ~line.indented
         /\ names_from(line) <=> name = "From"
         /\ names_id(line) <=> name = "Message-ID"
         /\ name = "Message-ID" /\ m.folded # name => IdOnOneLine(m, line)
<1>1. line.kind = "header" /\ line.name = name /\ line.mark = "" /\ ~line.indented
  BY DEF header_line, header
<1>2. line.value = IF m.folded = name THEN "" ELSE value_of(m, name)
  BY DEF header_line, header
<1> QED
  BY <1>1, <1>2, Zenon
     DEF OwnLine, is_header, vacant, names_from, names_id, IdOnOneLine, value_of,
         MessageIdNames

\* The second line of a folded header.
LEMMA FoldedLineFacts ==
  ASSUME NEW m \in Messages, NEW name \in {"From", "To", "Message-ID"},
         NEW first, first = header_line(m, name), NEW line, line = folded_line(m, name),
         m.folded = name
  PROVE  /\ OwnLine(line) /\ ~is_header(line) /\ HeaderPart(m, line)
         /\ name = "Message-ID" => IdOnTwoLines(m, first, line)
<1>1. /\ line.kind = "text" /\ line.mark = "" /\ line.indented
      /\ line.value = value_of(m, name)
  BY DEF folded_line, text
<1>2. first.value = ""
  BY DEF header_line, header
<1>3. m.folded # ""
  OBVIOUS
<1> QED
  BY <1>1, <1>2, <1>3, Zenon
     DEF OwnLine, is_header, HeaderPart, IdOnTwoLines, value_of

\* A blank line between headers.
LEMMA BlankFacts == OwnLine(blank) /\ ~is_header(blank) /\ vacant(blank)
<1>1. blank.kind = "blank" /\ blank.mark = ""
  BY DEF blank
<1> QED
  BY <1>1, Zenon DEF OwnLine, is_header, vacant

\* In each order of headers, From and Message-ID have one place.
LEMMA OrderPlaces ==
  ASSUME NEW order \in Orders
  PROVE  \E kf \in 1 .. 3, km \in 1 .. 3 :
           /\ \A k \in 1 .. 3 : /\ order[k] \in {"From", "To", "Message-ID"}
                                /\ order[k] = "From" <=> k = kf
                                /\ order[k] = "Message-ID" <=> k = km
           /\ Head(order) = "Message-ID" => km < kf
           /\ Head(order) # "Message-ID" => kf < km
           /\ km = 3 => Last(order) = "Message-ID"
<1>1. CASE order = <<"From", "To", "Message-ID">>
  <2> WITNESS 1 \in 1 .. 3, 3 \in 1 .. 3
  <2> QED
    BY <1>1 DEF Last
<1>2. CASE order = <<"To", "From", "Message-ID">>
  <2> WITNESS 2 \in 1 .. 3, 3 \in 1 .. 3
  <2> QED
    BY <1>2 DEF Last
<1>3. CASE order = <<"Message-ID", "From", "To">>
  <2> WITNESS 2 \in 1 .. 3, 1 \in 1 .. 3
  <2> QED
    BY <1>3 DEF Last
<1> QED
  BY <1>1, <1>2, <1>3 DEF Orders

\* Where a message has its From, its Message-ID, the end of the value of that
\* header and the end of the blank lines after it, and where what it forwards
\* begins, if it does, after a line of text.
Places == [from : Nat, id : Nat, end : Nat, gap : Nat, stop : Nat]

Shape(m, M, x) ==
  /\ M \in Seq(Lines) /\ 1 <= x.from /\ x.from <= Len(M)
  /\ 1 <= x.id /\ x.id <= x.end /\ x.end <= x.gap /\ x.gap <= x.stop
  /\ x.from <= x.stop /\ x.stop <= Len(M)
  /\ \/ x.stop = Len(M)
     \/ m.body = "forwarded" /\ x.gap < x.stop /\ opens_body(M[x.stop])
  /\ \A j \in 1 .. Len(M) : /\ OwnLine(M[j])
                            /\ j <= x.stop => /\ names_from(M[j]) <=> j = x.from
                                              /\ names_id(M[j]) <=> j = x.id
  /\ is_header(M[1])
  /\ \A j \in 1 .. x.id - 1 : HeaderPart(m, M[j])
  /\ \/ x.end = x.id /\ IdOnOneLine(m, M[x.id])
     \/ x.end = x.id + 1 /\ IdOnTwoLines(m, M[x.id], M[x.end])
  /\ \A j \in x.end + 1 .. x.gap : vacant(M[j])
  /\ x.gap < x.stop =>
       ~vacant(M[x.gap + 1]) /\ (body_is_apart(m) => ~M[x.gap + 1].indented)
  /\ Head(m.order) = "Message-ID" => x.id < x.from
  /\ Head(m.order) # "Message-ID" => x.from < x.id

\* Every message has such places.
LEMMA MessageShape ==
  ASSUME NEW m \in Messages, NEW M, M = message_lines(m)
  PROVE  \E x \in Places : Shape(m, M, x)
<1>1. PICK o : Parts(m, M, o)
  BY PartLines
<1>2. m.order \in Orders
  BY DEF Messages
<1>3. PICK kf \in 1 .. 3, km \in 1 .. 3 :
        /\ \A k \in 1 .. 3 : /\ m.order[k] \in {"From", "To", "Message-ID"}
                             /\ m.order[k] = "From" <=> k = kf
                             /\ m.order[k] = "Message-ID" <=> k = km
        /\ Head(m.order) = "Message-ID" => km < kf
        /\ Head(m.order) # "Message-ID" => kf < km
        /\ km = 3 => Last(m.order) = "Message-ID"
  BY <1>2, OrderPlaces
<1>4. o \in [0 .. 4 -> Nat] /\ o[0] = 0 /\ M \in Seq(Lines) /\ Len(M) = o[4]
  BY <1>1 DEF Parts
<1> DEFINE folds(k) == m.folded = m.order[k]
<1>5. \A k \in 1 .. 3 :
        /\ o[k] >= o[k - 1] + 1 /\ M[o[k - 1] + 1] = header_line(m, m.order[k])
        /\ folds(k) => o[k] >= o[k - 1] + 2 /\ M[o[k - 1] + 2] = folded_line(m, m.order[k])
        /\ \A j \in o[k - 1] + 2 .. o[k] : M[j] = blank \/ (j = o[k - 1] + 2 /\ folds(k))
  BY <1>1 DEF Parts
<1>6. /\ \A j \in o[3] + 1 .. o[4] :
           OwnLine(M[j]) /\ ((m.body = "forwarded" /\ j > o[3] + 2) \/ harmless(M[j]))
      /\ \/ o[4] = o[3]
         \/ /\ o[4] >= o[3] + 2 /\ M[o[3] + 1] = blank /\ ~vacant(M[o[3] + 2])
            /\ m.body # "indented" => ~M[o[3] + 2].indented
            /\ m.body = "forwarded" => opens_body(M[o[3] + 2])
      /\ m.body = "forwarded" => o[4] # o[3]
  BY <1>1 DEF Parts
<1> HIDE DEF folds
<1>7. o[0] \in Nat /\ o[1] \in Nat /\ o[2] \in Nat /\ o[3] \in Nat /\ o[4] \in Nat
  BY <1>4
<1>8. o[1] >= 1 /\ o[2] >= o[1] + 1 /\ o[3] >= o[2] + 1 /\ o[4] >= o[3]
  <2>1. \A k \in 1 .. 3 : o[k] >= o[k - 1] + 1
    BY <1>5
  <2>2. o[1] >= o[0] + 1 /\ o[2] >= o[1] + 1 /\ o[3] >= o[2] + 1
    BY <2>1
  <2>3. o[4] >= o[3]
    BY <1>6, <1>7
  <2> QED
    BY <1>4, <1>7, <2>2, <2>3
<1>9. \A k \in 1 .. 3, l \in 1 .. 3 :
        o[k] \in Nat /\ o[k - 1] \in Nat /\ o[k] <= o[3] /\ (k < l => o[k] <= o[l - 1])
  <2>1. \A k \in 1 .. 3 : o[k] \in Nat /\ o[k - 1] \in Nat
    BY <1>4
  <2>2. \A k \in 1 .. 3 : o[k] <= o[3]
    BY <1>7, <1>8
  <2>3. \A k \in 1 .. 3, l \in 1 .. 3 : k < l => o[k] <= o[l - 1]
    <3> SUFFICES ASSUME NEW k \in 1 .. 3, NEW l \in 1 .. 3, k < l PROVE o[k] <= o[l - 1]
      OBVIOUS
    <3>1. (k = 1 /\ l = 2) \/ (k = 1 /\ l = 3) \/ (k = 2 /\ l = 3)
      OBVIOUS
    <3> QED
      BY <1>7, <1>8, <3>1
  <2> QED
    BY <2>1, <2>2, <2>3
<1> DEFINE f == o[kf - 1] + 1
           h == o[km - 1] + 1
           q == IF folds(km) THEN h + 1 ELSE h
           z == IF km = 3 /\ o[4] # o[3] THEN o[3] + 1 ELSE o[km]
           s == IF m.body = "forwarded" THEN o[3] + 2 ELSE o[4]
           x == [from |-> f, id |-> h, end |-> q, gap |-> z, stop |-> s]
\* Every line is of the body or of one of the headers.
<1>10. ASSUME NEW j \in 1 .. o[4]
       PROVE  \/ j \in o[3] + 1 .. o[4]
              \/ \E k \in 1 .. 3 : j = o[k - 1] + 1 \/ j \in o[k - 1] + 2 .. o[k]
  <2>1. PICK k \in 1 .. 4 : o[k - 1] < j /\ j <= o[k]
    <3>1. PICK N \in Nat \ {0} : N = 4
      OBVIOUS
    <3>2. o \in [0 .. N -> Nat] /\ j \in 1 .. o[N]
      BY <1>4, <3>1
    <3>3. \E n \in 1 .. N : o[n - 1] < j /\ j <= o[n]
      BY <1>4, <3>2, Located
    <3> QED
      BY <3>1, <3>3
  <2>2. CASE k = 4
    BY <1>7, <2>1, <2>2
  <2>3. CASE k # 4
    <3>1. k \in 1 .. 3
      BY <2>3
    <3>2. o[k - 1] \in Nat /\ o[k] \in Nat
      BY <1>9, <3>1
    <3> QED
      BY <2>1, <3>1, <3>2
  <2> QED
    BY <2>2, <2>3
<1>11. ASSUME NEW k \in 1 .. 3, NEW j \in Nat, j = o[k - 1] + 1
       PROVE  /\ OwnLine(M[j]) /\ is_header(M[j]) /\ ~vacant(M[j]) /\ ~M[j].indented
              /\ names_from(M[j]) <=> k = kf
              /\ names_id(M[j]) <=> k = km
              /\ k = km /\ ~folds(k) => IdOnOneLine(m, M[j])
              /\ j = f <=> k = kf
              /\ j = h <=> k = km
              /\ j <= o[3]
  <2>1. PICK w \in {"From", "To", "Message-ID"} : w = m.order[k]
    BY <1>3
  <2>2. PICK line : line = header_line(m, w)
    OBVIOUS
  <2>3. M[j] = line
    BY <1>5, <1>11, <2>1, <2>2, Zenon
  <2>4. /\ OwnLine(line) /\ is_header(line) /\ ~vacant(line) /\ ~line.indented
        /\ names_from(line) <=> w = "From"
        /\ names_id(line) <=> w = "Message-ID"
        /\ w = "Message-ID" /\ m.folded # w => IdOnOneLine(m, line)
    BY <2>2, HeaderLineFacts
  <2>5. (w = "From" <=> k = kf) /\ (w = "Message-ID" <=> k = km)
    BY <1>3, <2>1, Zenon
  <2>6. \A l \in 1 .. 3 : j = o[l - 1] + 1 <=> k = l
    <3> SUFFICES ASSUME NEW l \in 1 .. 3, k # l PROVE j # o[l - 1] + 1
      BY <1>11
    <3>1. o[k] >= o[k - 1] + 1 /\ o[l] >= o[l - 1] + 1
      BY <1>5
    <3>2. CASE k < l
      BY <1>9, <1>11, <3>1, <3>2
    <3>3. CASE l < k
      BY <1>9, <1>11, <3>1, <3>3
    <3> QED
      BY <3>2, <3>3
  <2>7. j <= o[3]
    <3>1. o[k] >= o[k - 1] + 1
      BY <1>5
    <3> QED
      BY <1>7, <1>9, <1>11, <3>1
  <2>8. (j = f <=> k = kf) /\ (j = h <=> k = km)
    BY <2>6
  <2> QED
    BY <2>1, <2>3, <2>4, <2>5, <2>7, <2>8, Zenon DEF folds
<1>12. ASSUME NEW k \in 1 .. 3, NEW j \in o[k - 1] + 2 .. o[k]
       PROVE  /\ OwnLine(M[j]) /\ ~is_header(M[j]) /\ HeaderPart(m, M[j])
              /\ ~(j = o[k - 1] + 2 /\ folds(k)) => vacant(M[j])
              /\ k = km /\ j = o[k - 1] + 2 /\ folds(k) =>
                   IdOnTwoLines(m, M[o[k - 1] + 1], M[j])
              /\ j # f /\ j # h
  <2>1. PICK w \in {"From", "To", "Message-ID"} : w = m.order[k]
    BY <1>3
  <2>2. PICK first, line : first = header_line(m, w) /\ line = folded_line(m, w)
    OBVIOUS
  <2>3. M[o[k - 1] + 1] = first
    BY <1>5, <2>1, <2>2, Zenon
  <2>4. folds(k) => M[o[k - 1] + 2] = line
    BY <1>5, <2>1, <2>2, Zenon
  <2>5. M[j] = blank \/ (j = o[k - 1] + 2 /\ folds(k))
    BY <1>5, Zenon
  <2>6. \A l \in 1 .. 3 : j # o[l - 1] + 1
    <3> SUFFICES ASSUME NEW l \in 1 .. 3 PROVE j # o[l - 1] + 1
      OBVIOUS
    <3>1. o[k] >= o[k - 1] + 1 /\ o[l] >= o[l - 1] + 1
      BY <1>5
    <3>2. CASE k < l
      BY <1>9, <3>1, <3>2
    <3>3. CASE l < k
      BY <1>9, <3>1, <3>3
    <3>4. CASE l = k
      BY <1>9, <3>1, <3>4
    <3> QED
      BY <3>2, <3>3, <3>4
  <2>7. j # f /\ j # h
    BY <2>6
  <2>8. CASE j = o[k - 1] + 2 /\ folds(k)
    <3>1. m.folded = w
      BY <2>1, <2>8 DEF folds
    <3>2. M[j] = line
      BY <2>4, <2>8
    <3>3. /\ OwnLine(line) /\ ~is_header(line) /\ HeaderPart(m, line)
          /\ w = "Message-ID" => IdOnTwoLines(m, first, line)
      BY <2>2, <3>1, FoldedLineFacts
    <3>4. k = km => w = "Message-ID"
      BY <1>3, <2>1
    <3>5. /\ OwnLine(M[j]) /\ ~is_header(M[j]) /\ HeaderPart(m, M[j])
          /\ k = km => IdOnTwoLines(m, M[o[k - 1] + 1], M[j])
      BY <2>3, <3>2, <3>3, <3>4, Zenon
    <3> QED
      BY <2>8, <2>7, <3>5, Zenon
  <2>9. CASE ~ (j = o[k - 1] + 2 /\ folds(k))
    <3>1. M[j] = blank
      BY <2>5, <2>9, Zenon
    <3> QED
      BY <2>9, <2>7, <3>1, BlankFacts, Zenon DEF HeaderPart
  <2> QED
    BY <2>8, <2>9, Zenon
<1>13. /\ f \in Nat /\ h \in Nat /\ q \in Nat /\ z \in Nat /\ s \in Nat
       /\ 1 <= f /\ f <= s /\ 1 <= h /\ h <= q /\ q <= z /\ z <= s /\ s <= o[4]
       /\ m.body = "forwarded" => z < s
       /\ q <= o[km] /\ o[km] <= z
  <2>1. o[kf] >= o[kf - 1] + 1 /\ o[km] >= o[km - 1] + 1 /\ (folds(km) => o[km] >= o[km - 1] + 2)
    BY <1>5, Zenon
  <2>2. /\ o[kf - 1] \in Nat /\ o[kf] \in Nat /\ o[kf] <= o[3]
        /\ o[km - 1] \in Nat /\ o[km] \in Nat /\ o[km] <= o[3]
    BY <1>9
  <2>3. (o[4] = o[3] \/ o[4] >= o[3] + 2) /\ (m.body = "forwarded" => o[4] # o[3])
    BY <1>6
  <2>4. (s = o[3] + 2 /\ o[4] >= o[3] + 2 /\ m.body = "forwarded") \/ (s = o[4] /\ m.body # "forwarded")
    BY <1>7, <2>3
  <2> HIDE DEF s
  <2> QED
    BY <1>7, <1>8, <2>1, <2>2, <2>3, <2>4
<1> HIDE DEF f, h, q, z, s
<1>14. ASSUME NEW j \in 1 .. o[4]
       PROVE  /\ OwnLine(M[j])
              /\ j <= s => (names_from(M[j]) <=> j = f)
              /\ j <= s => (names_id(M[j]) <=> j = h)
  <2>1. CASE j \in o[3] + 1 .. o[4]
    <3>1. OwnLine(M[j]) /\ ((m.body = "forwarded" /\ j > o[3] + 2) \/ harmless(M[j]))
      BY <1>6, <2>1, Zenon
    <3>0. j <= s => ~names_from(M[j]) /\ ~names_id(M[j])
      <4>1. CASE harmless(M[j])
        BY <4>1 DEF harmless
      <4>2. CASE m.body = "forwarded" /\ j > o[3] + 2
        BY <1>7, <4>2 DEF s
      <4> QED
        BY <3>1, <4>1, <4>2
    <3>2. j # f /\ j # h
      <4>1. f <= o[3] /\ h <= o[3]
        <5>1. f \in Nat /\ f = o[kf - 1] + 1 /\ h \in Nat /\ h = o[km - 1] + 1
          BY <1>13 DEF f, h
        <5> QED
          BY <1>11, <5>1, Zenon
      <4> QED
        BY <1>7, <1>13, <2>1, <4>1
    <3> QED
      BY <3>0, <3>1, <3>2, Zenon
  <2>2. ASSUME NEW k \in 1 .. 3, j = o[k - 1] + 1
        PROVE  /\ OwnLine(M[j])
               /\ j <= s => (names_from(M[j]) <=> j = f)
               /\ j <= s => (names_id(M[j]) <=> j = h)
    <3>1. j \in Nat
      BY <1>7
    <3> QED
      BY <1>11, <2>2, <3>1, Zenon
  <2>3. ASSUME NEW k \in 1 .. 3, j \in o[k - 1] + 2 .. o[k]
        PROVE  /\ OwnLine(M[j])
               /\ j <= s => (names_from(M[j]) <=> j = f)
               /\ j <= s => (names_id(M[j]) <=> j = h)
    BY <1>12, <2>3, Zenon DEF names_from, names_id, is_header
  <2> QED
    BY <1>10, <2>1, <2>2, <2>3, Zenon
<1>15. is_header(M[1])
  <2>1. PICK k \in 1 .. 3, j \in Nat : k = 1 /\ j = 1 /\ j = o[k - 1] + 1
    BY <1>4
  <2>2. is_header(M[j])
    BY <1>11, <2>1, Zenon
  <2> QED
    BY <2>1, <2>2
<1>16. ASSUME NEW j \in 1 .. h - 1 PROVE HeaderPart(m, M[j])
  <2>1. j \in 1 .. o[4] /\ j \in Nat /\ ~ (j \in o[3] + 1 .. o[4])
    <3>1. h <= o[3]
      <4>1. h = o[km - 1] + 1 /\ o[km - 1] \in Nat
        BY <1>9 DEF h
      <4> QED
        BY <1>11, <1>13, <4>1, Zenon
    <3> QED
      BY <1>7, <1>8, <1>13, <3>1
  <2>2. PICK k \in 1 .. 3 : j = o[k - 1] + 1 \/ j \in o[k - 1] + 2 .. o[k]
    BY <1>10, <2>1, Zenon
  <2> QED
    BY <1>11, <1>12, <2>1, <2>2, Zenon DEF HeaderPart
<1>17. \/ q = h /\ IdOnOneLine(m, M[h])
       \/ q = h + 1 /\ IdOnTwoLines(m, M[h], M[q])
  <2>1. h \in Nat /\ h = o[km - 1] + 1
    BY <1>13 DEF h
  <2>2. CASE ~folds(km)
    <3>1. IdOnOneLine(m, M[h])
      BY <1>11, <2>1, <2>2, Zenon
    <3> QED
      BY <2>2, <3>1 DEF q
  <2>3. CASE folds(km)
    <3>1. q = h + 1
      BY <2>3 DEF q
    <3>2. q = o[km - 1] + 2 /\ q \in o[km - 1] + 2 .. o[km]
      BY <1>9, <1>13, <2>1, <3>1
    <3>3. IdOnTwoLines(m, M[o[km - 1] + 1], M[q])
      BY <1>12, <2>3, <3>2, Zenon
    <3> QED
      BY <2>1, <3>1, <3>3
  <2> QED
    BY <2>2, <2>3
<1>18. ASSUME NEW j \in q + 1 .. z PROVE vacant(M[j])
  <2>1. CASE j <= o[km]
    <3>1. h = o[km - 1] + 1 /\ q = IF folds(km) THEN h + 1 ELSE h
      BY DEF h, q
    <3>2. j \in o[km - 1] + 2 .. o[km] /\ ~ (j = o[km - 1] + 2 /\ folds(km))
      BY <1>9, <1>13, <2>1, <3>1
    <3> QED
      BY <1>12, <3>2, Zenon
  <2>2. CASE ~ (j <= o[km])
    <3>1. km = 3 /\ o[4] # o[3] /\ z = o[3] + 1
      BY <1>9, <1>13, <2>2 DEF z
    <3>2. j = o[3] + 1
      BY <1>7, <1>13, <2>2, <3>1
    <3>3. M[o[3] + 1] = blank
      BY <1>6, <3>1, Zenon
    <3> QED
      BY <3>2, <3>3, BlankFacts, Zenon
  <2> QED
    BY <2>1, <2>2
<1>19. ASSUME z < s
       PROVE  ~vacant(M[z + 1]) /\ (body_is_apart(m) => ~M[z + 1].indented)
  <2>1. CASE km = 3
    <3>0. m.body = "forwarded" => o[4] # o[3]
      BY <1>6
    <3>1. o[4] # o[3] /\ z + 1 = o[3] + 2
      BY <1>7, <1>19, <2>1, <3>0 DEF z, s
    <3>2. ~vacant(M[o[3] + 2]) /\ (m.body # "indented" => ~M[o[3] + 2].indented)
      BY <1>6, <3>1, Zenon
    <3>3. body_is_apart(m) => m.body # "indented"
      BY <1>3, <2>1, Zenon DEF body_is_apart
    <3> QED
      BY <3>1, <3>2, <3>3, Zenon
  <2>2. CASE km # 3
    <3>1. PICK k \in 1 .. 3 : k - 1 = km
      <4>1. km + 1 \in 1 .. 3 /\ (km + 1) - 1 = km
        BY <2>2
      <4> QED
        BY <4>1
    <3>2. z = o[km]
      BY <2>2 DEF z
    <3>3. PICK j \in Nat : j = z + 1
      BY <1>13
    <3>4. j = o[k - 1] + 1
      BY <3>1, <3>2, <3>3
    <3>5. ~vacant(M[j]) /\ ~M[j].indented
      BY <1>11, <3>4, Zenon
    <3> QED
      BY <3>3, <3>5, Zenon
  <2> QED
    BY <2>1, <2>2
<1>20. (Head(m.order) = "Message-ID" => h < f) /\ (Head(m.order) # "Message-ID" => f < h)
  <2>1. \A k \in 1 .. 3, l \in 1 .. 3 : k < l => o[k - 1] + 1 < o[l - 1] + 1
    <3> SUFFICES ASSUME NEW k \in 1 .. 3, NEW l \in 1 .. 3, k < l
                 PROVE  o[k - 1] + 1 < o[l - 1] + 1
      OBVIOUS
    <3>1. o[k] >= o[k - 1] + 1
      BY <1>5, Zenon
    <3> QED
      BY <1>9, <3>1
  <2>2. (km < kf => h < f) /\ (kf < km => f < h)
    BY <2>1 DEF h, f
  <2> QED
    BY <1>3, <2>2, Zenon
<1>21. x \in Places /\ x.from = f /\ x.id = h /\ x.end = q /\ x.gap = z /\ x.stop = s
  BY <1>13 DEF Places
<1> HIDE DEF x
<1>22. /\ 1 <= x.from /\ x.from <= Len(M)
       /\ 1 <= x.id /\ x.id <= x.end /\ x.end <= x.gap /\ x.gap <= x.stop
       /\ x.from <= x.stop /\ x.stop <= Len(M)
  BY <1>4, <1>13, <1>21
<1>24. x.stop = Len(M) \/ (m.body = "forwarded" /\ x.gap < x.stop /\ opens_body(M[x.stop]))
  <2>1. CASE m.body = "forwarded"
    <3>1. s = o[3] + 2 /\ z < s
      BY <1>13, <2>1 DEF s
    <3>2. opens_body(M[o[3] + 2])
      BY <1>6, <2>1, Zenon
    <3> QED
      BY <1>21, <2>1, <3>1, <3>2
  <2>2. CASE m.body # "forwarded"
    BY <1>4, <1>21, <2>2 DEF s
  <2> QED
    BY <2>1, <2>2
<1>23. Shape(m, M, x)
  BY <1>4, <1>14, <1>15, <1>16, <1>17, <1>18, <1>19, <1>20, <1>21, <1>22, <1>24, Zenon DEF Shape
<1> QED
  BY <1>21, <1>23

-----------------------------------------------------------------------------
(* The lines of a snapshot                                                 *)

quoted(m, line) == [line EXCEPT !.mark = m.mark, !.indented = @ \/ m.wide]

\* Quoting changes the mark and the whitespace of a line.
LEMMA QuotedLine ==
  ASSUME NEW m \in Messages, NEW line \in Lines
  PROVE  /\ quoted(m, line) \in Lines
         /\ quoted(m, line).mark = m.mark
         /\ quoted(m, line).indented = (line.indented \/ m.wide)
         /\ quoted(m, line).kind = line.kind
         /\ quoted(m, line).name = line.name
         /\ quoted(m, line).value = line.value
<1>1. m.mark \in Marks /\ m.wide \in BOOLEAN
  BY DEF Messages, Marks
<1> QED
  BY <1>1 DEF quoted, Lines

\* Dashes are on a line of their own, with a blank line after it or not.
LEMMA RuleLines ==
  ASSUME NEW m \in Messages, NEW A, A = rule_lines(m)
  PROVE  /\ A \in Seq(Lines) /\ Len(A) \in 0 .. 2
         /\ Len(A) # 0 => A[1] = dashes
         /\ Len(A) = 2 => A[2] = blank
<1>1. dashes \in Lines /\ blank \in Lines
  BY DEF dashes, blank, Lines, Marks, Strings
<1>2. m.rule \in {"none", "tight", "loose"}
  BY DEF Messages, Rules
<1>3. CASE m.rule = "none"
  BY <1>3 DEF rule_lines
<1>4. CASE m.rule = "tight"
  <2>1. A = <<dashes>>
    BY <1>4 DEF rule_lines
  <2> QED
    BY <1>1, <2>1, OneLine
<1>5. CASE m.rule = "loose"
  <2>1. A = <<dashes, blank>>
    BY <1>5 DEF rule_lines
  <2> QED
    BY <1>1, <2>1, TwoLines
<1> QED
  BY <1>2, <1>3, <1>4, <1>5

\* A quoted message has dashes before it or not, and the same lines.
QuotationOf(m, M, Q, d) ==
  /\ Q \in Seq(Lines) /\ Len(Q) = d + Len(M)
  /\ d # 0 => Q[1] = dashes
  /\ d = 2 => Q[2] = blank
  /\ \A j \in 1 .. Len(M) : Q[d + j] = quoted(m, M[j])

LEMMA QuotedLines ==
  ASSUME NEW m \in Messages, NEW M \in Seq(Lines), M = message_lines(m),
         NEW Q, Q = quoted_lines(m), NEW d, d = Len(rule_lines(m))
  PROVE  QuotationOf(m, M, Q, d)
<1> DEFINE B == [k \in DOMAIN M |-> quoted(m, M[k])]
           A == rule_lines(m)
<1>1. Q = A \o B
  BY DEF quoted_lines, quoted
<1>2. B \in Seq(Lines) /\ Len(B) = Len(M) /\ \A j \in 1 .. Len(M) : B[j] = quoted(m, M[j])
  <2>1. \A j \in 1 .. Len(M) : quoted(m, M[j]) \in Lines
    BY QuotedLine
  <2> HIDE DEF quoted
  <2> QED
    BY <2>1
<1>3. /\ A \in Seq(Lines) /\ Len(A) = d /\ d \in 0 .. 2
      /\ d # 0 => A[1] = dashes
      /\ d = 2 => A[2] = blank
  BY RuleLines
<1> HIDE DEF A, B
<1>4. /\ Q \in Seq(Lines) /\ Len(Q) = Len(A) + Len(B)
      /\ Len(A) \in Nat /\ Len(B) \in Nat
      /\ \A i \in 1 .. Len(A) : Q[i] = A[i]
      /\ \A i \in 1 .. Len(B) : Q[Len(A) + i] = B[i]
  <2>1. PICK a \in Seq(Lines), b \in Seq(Lines) : a = A /\ b = B
    BY <1>2, <1>3
  <2>2. Q = a \o b
    BY <1>1, <2>1
  <2>3. /\ a \o b \in Seq(Lines) /\ Len(a \o b) = Len(a) + Len(b)
        /\ Len(a) \in Nat /\ Len(b) \in Nat
        /\ \A i \in 1 .. Len(a) : (a \o b)[i] = a[i]
        /\ \A i \in 1 .. Len(b) : (a \o b)[Len(a) + i] = b[i]
    BY ConcatLines
  <2> QED
    BY <2>1, <2>2, <2>3, Zenon
<1>5. (d # 0 => Q[1] = dashes) /\ (d = 2 => Q[2] = blank)
  <2>1. (d # 0 => 1 \in 1 .. Len(A)) /\ (d = 2 => 2 \in 1 .. Len(A))
    BY <1>3
  <2> QED
    BY <1>3, <1>4, <2>1
<1> QED
  BY <1>2, <1>3, <1>4, <1>5 DEF QuotationOf

length(T, n) == Len(message_lines(T[n]))

\* The lines before a message: dashes, and perhaps a blank one.
extra(T, n) == IF n = 1 THEN 0 ELSE Len(rule_lines(T[n]))

rule_at(T, c, n) == (c[n] + 1) - extra(T, n)

line_of(T, n, j) ==
  IF n = 1 THEN message_lines(T[n])[j] ELSE quoted(T[n], message_lines(T[n])[j])

\* Line i is of the n-th message, or before it.
Covered(T, c, n, i) ==
  \/ extra(T, n) # 0 /\ i = rule_at(T, c, n)
  \/ extra(T, n) = 2 /\ i = c[n]
  \/ \E j \in 1 .. length(T, n) : i = c[n] + j

\* The lines of the n-th message follow c[n], dashes before it and a blank line
\* end there.
Layout(T, N, c, L) ==
  /\ c \in [1 .. N -> Nat] /\ c[1] = 0
  /\ \A n \in 1 .. N - 1 : c[n + 1] = c[n] + length(T, n) + extra(T, n + 1)
  /\ L \in Seq(Lines) /\ Len(L) = c[N] + length(T, N)
  /\ \A n \in 1 .. N : /\ length(T, n) \in Nat \ {0} /\ extra(T, n) \in 0 .. 2
                       /\ extra(T, n) # 0 => L[rule_at(T, c, n)] = dashes
                       /\ extra(T, n) = 2 => L[c[n]] = blank
                       /\ \A j \in 1 .. length(T, n) : L[c[n] + j] = line_of(T, n, j)
  /\ \A i \in 1 .. Len(L) : \E n \in 1 .. N :
       Covered(T, c, n, i)

\* A snapshot is its messages, one after the other.
LEMMA SnapshotLayout ==
  ASSUME NEW T \in Seq(Messages), NEW N \in Nat \ {0}, N = Len(T)
  PROVE  \E c : Layout(T, N, c, snapshot(T))
<1> DEFINE parts == [i \in DOMAIN T |->
                       IF i = 1 THEN message_lines(T[i]) ELSE quoted_lines(T[i])]
<1>1. ASSUME NEW n \in 1 .. N
      PROVE  /\ T[n] \in Messages /\ message_lines(T[n]) \in Seq(Lines)
             /\ length(T, n) \in Nat \ {0} /\ extra(T, n) \in 0 .. 2
             /\ parts[n] \in Seq(Lines) /\ Len(parts[n]) = extra(T, n) + length(T, n)
             /\ extra(T, n) # 0 => parts[n][1] = dashes
             /\ extra(T, n) = 2 => parts[n][2] = blank
             /\ \A j \in 1 .. length(T, n) : parts[n][extra(T, n) + j] = line_of(T, n, j)
  <2>1. T[n] \in Messages
    OBVIOUS
  <2>2. PICK m \in Messages : m = T[n]
    BY <2>1
  <2>3. PICK M : M = message_lines(m)
    OBVIOUS
  <2>4. M \in Seq(Lines) /\ Len(M) \in Nat \ {0}
    <3>1. PICK x \in Places : Shape(m, M, x)
      BY <2>2, <2>3, MessageShape
    <3>2. M \in Seq(Lines) /\ 1 <= x.from /\ x.from <= Len(M) /\ x.from \in Nat
      BY <3>1 DEF Shape, Places
    <3> QED
      BY <3>2
  <2>5. length(T, n) = Len(M) /\ extra(T, n) \in 0 .. 2
    BY <2>2, <2>3, RuleLines DEF length, extra
  <2>6. CASE n = 1
    <3>1. parts[n] = M /\ extra(T, n) = 0 /\ \A j \in 1 .. Len(M) : line_of(T, n, j) = M[j]
      BY <2>2, <2>3, <2>6 DEF extra, line_of
    <3> HIDE DEF parts
    <3> QED
      BY <2>1, <2>2, <2>3, <2>4, <2>5, <3>1
  <2>7. CASE n # 1
    <3>1. PICK Q : Q = quoted_lines(m)
      OBVIOUS
    <3>2. parts[n] = Q /\ \A j \in 1 .. Len(M) : line_of(T, n, j) = quoted(m, M[j])
      BY <2>2, <2>3, <2>7, <3>1 DEF line_of
    <3>3. PICK e : e = extra(T, n) /\ e = Len(rule_lines(m))
      BY <2>2, <2>3, <2>7 DEF extra
    <3>5. M \in Seq(Lines) /\ e = Len(rule_lines(m))
      BY <2>4, <3>3
    <3>6. QuotationOf(m, M, Q, e)
      BY <2>3, <3>1, <3>5, QuotedLines
    <3>4. /\ Q \in Seq(Lines) /\ Len(Q) = e + Len(M)
          /\ e # 0 => Q[1] = dashes
          /\ e = 2 => Q[2] = blank
          /\ \A j \in 1 .. Len(M) : Q[e + j] = quoted(m, M[j])
      BY <3>6, Zenon DEF QuotationOf
    <3> HIDE DEF parts
    <3> QED
      BY <2>1, <2>2, <2>3, <2>4, <2>5, <3>2, <3>3, <3>4, Zenon
  <2> QED
    BY <2>6, <2>7
<1>2. parts \in Seq(Seq(Lines)) /\ Len(parts) = N
  <2>1. \A n \in 1 .. N : parts[n] \in Seq(Lines)
    BY <1>1
  <2>2. parts = [n \in 1 .. N |-> parts[n]]
    OBVIOUS
  <2> HIDE DEF parts
  <2> QED
    BY <2>1, <2>2
<1>3. PICK L : L = snapshot(T) /\ L = FlattenSeq(parts)
  BY DEF snapshot
<1> HIDE DEF parts
<1>4. PICK off : Cuts(Lines, parts, N, L, off)
  BY <1>2, <1>3, FlattenParts
<1>5. /\ off \in [0 .. N -> Nat] /\ off[0] = 0
      /\ \A n \in 1 .. N : off[n] = off[n - 1] + Len(parts[n])
      /\ L \in Seq(Lines) /\ Len(L) = off[N]
      /\ \A n \in 1 .. N : \A j \in 1 .. Len(parts[n]) : L[off[n - 1] + j] = parts[n][j]
  BY <1>4 DEF Cuts
<1> DEFINE c == [n \in 1 .. N |-> off[n - 1] + extra(T, n)]
<1>6. ASSUME NEW n \in 1 .. N
      PROVE  /\ off[n - 1] \in Nat /\ off[n] \in Nat /\ c[n] \in Nat
             /\ extra(T, n) \in 0 .. 2 /\ length(T, n) \in Nat \ {0}
             /\ c[n] = off[n - 1] + extra(T, n) /\ off[n] = c[n] + length(T, n)
  <2>1. off[n - 1] \in Nat /\ off[n] \in Nat
    BY <1>5, SMTT(30)
  <2>2. off[n] = off[n - 1] + Len(parts[n]) /\ Len(parts[n]) = extra(T, n) + length(T, n)
    BY <1>1, <1>5
  <2>3. extra(T, n) \in 0 .. 2 /\ length(T, n) \in Nat \ {0}
    BY <1>1
  <2> QED
    BY <2>1, <2>2, <2>3, SMTT(30)
<1> HIDE DEF c
<1>7. c \in [1 .. N -> Nat] /\ c[1] = 0
  <2>1. \A n \in 1 .. N : off[n - 1] + extra(T, n) \in Nat
    BY <1>6
  <2>2. 1 \in 1 .. N /\ extra(T, 1) = 0 /\ off[1 - 1] = 0
    BY <1>5 DEF extra
  <2>3. c \in [1 .. N -> Nat]
    BY <2>1 DEF c
  <2>4. c[1] = off[1 - 1] + extra(T, 1)
    BY <2>2 DEF c
  <2> QED
    BY <2>2, <2>3, <2>4
<1>8. \A n \in 1 .. N - 1 : c[n + 1] = c[n] + length(T, n) + extra(T, n + 1)
  <2> SUFFICES ASSUME NEW n \in 1 .. N - 1
               PROVE  c[n + 1] = c[n] + length(T, n) + extra(T, n + 1)
    OBVIOUS
  <2>1. n \in 1 .. N /\ n + 1 \in 1 .. N /\ (n + 1) - 1 = n
    OBVIOUS
  <2>2. c[n + 1] = off[n] + extra(T, n + 1)
    BY <1>6, <2>1
  <2>3. off[n] = c[n] + length(T, n)
    BY <1>6, <2>1
  <2> QED
    BY <2>2, <2>3
<1>9. Len(L) = c[N] + length(T, N)
  BY <1>5, <1>6
<1>10. ASSUME NEW n \in 1 .. N
       PROVE  /\ extra(T, n) # 0 => L[rule_at(T, c, n)] = dashes
              /\ extra(T, n) = 2 => L[c[n]] = blank
              /\ \A j \in 1 .. length(T, n) : L[c[n] + j] = line_of(T, n, j)
  <2>0. PICK a \in Nat, e \in 0 .. 2, l \in Nat \ {0} :
          a = off[n - 1] /\ e = extra(T, n) /\ l = length(T, n) /\ c[n] = a + e
    BY <1>6
  <2>1. \A j \in 1 .. e + l : L[a + j] = parts[n][j]
    <3>1. Len(parts[n]) = e + l
      BY <1>1, <2>0, Zenon
    <3>2. \A j \in 1 .. Len(parts[n]) : L[off[n - 1] + j] = parts[n][j]
      BY <1>5, Zenon
    <3> QED
      BY <2>0, <3>1, <3>2, Zenon
  <2>2. /\ extra(T, n) # 0 => L[rule_at(T, c, n)] = dashes
        /\ extra(T, n) = 2 => L[c[n]] = blank
    <3>1. (e # 0 => parts[n][1] = dashes) /\ (e = 2 => parts[n][2] = blank)
      BY <1>1, <2>0
    <3>2. (e # 0 => L[a + 1] = dashes) /\ (e = 2 => L[a + 2] = blank)
      <4>1. (e # 0 => 1 \in 1 .. e + l) /\ (e = 2 => 2 \in 1 .. e + l)
        OBVIOUS
      <4> QED
        BY <2>1, <3>1, <4>1
    <3>3. rule_at(T, c, n) = a + 1 /\ (e = 2 => c[n] = a + 2)
      BY <2>0 DEF rule_at
    <3> QED
      BY <2>0, <3>2, <3>3
  <2>3. ASSUME NEW j \in 1 .. l PROVE L[(a + e) + j] = line_of(T, n, j)
    <3>1. e + j \in 1 .. e + l /\ a + (e + j) = (a + e) + j
      OBVIOUS
    <3>2. L[a + (e + j)] = parts[n][e + j]
      BY <2>1, <3>1
    <3>3. parts[n][e + j] = line_of(T, n, j)
      BY <1>1, <2>0
    <3> QED
      BY <3>1, <3>2, <3>3
  <2> QED
    BY <2>0, <2>2, <2>3
<1>11. ASSUME NEW i \in 1 .. Len(L)
       PROVE  \E n \in 1 .. N : Covered(T, c, n, i)
  <2>1. PICK n \in 1 .. N : off[n - 1] < i /\ i <= off[n]
    BY <1>5, Located
  <2>2. PICK a \in Nat, b \in Nat, e \in 0 .. 2, l \in Nat \ {0} :
          /\ a = off[n - 1] /\ e = extra(T, n) /\ l = length(T, n) /\ c[n] = a + e
          /\ b = c[n] /\ off[n] = b + l
    <3>1. /\ off[n - 1] \in Nat /\ off[n] \in Nat /\ c[n] \in Nat
          /\ extra(T, n) \in 0 .. 2 /\ length(T, n) \in Nat \ {0}
          /\ c[n] = off[n - 1] + extra(T, n) /\ off[n] = c[n] + length(T, n)
      BY <1>6
    <3> QED
      BY <3>1, Zenon
  <2>3. a < i /\ i <= b + l /\ b = a + e /\ i \in Nat
    BY <1>5, <2>1, <2>2
  <2>4. \/ e # 0 /\ i = (b + 1) - e
        \/ e = 2 /\ i = b
        \/ \E j \in 1 .. l : i = b + j
    <3>1. CASE i <= b
      <4>1. (e # 0 /\ i = (b + 1) - e) \/ (e = 2 /\ i = b)
        BY <2>3, <3>1
      <4> QED
        BY <4>1
    <3>2. CASE ~ (i <= b)
      <4>1. i - b \in 1 .. l /\ i = b + (i - b)
        BY <2>3, <3>2
      <4> QED
        BY <4>1
    <3> QED
      BY <3>1, <3>2
  <2> QED
    <3>1. rule_at(T, c, n) = (b + 1) - e
      BY <2>2 DEF rule_at
    <3>2. e = 2 /\ i = b => extra(T, n) = 2 /\ i = c[n]
      BY <2>2
    <3>3. e # 0 /\ i = (b + 1) - e => extra(T, n) # 0 /\ i = rule_at(T, c, n)
      BY <2>2, <3>1
    <3>4. (\E j \in 1 .. l : i = b + j) => \E j \in 1 .. length(T, n) : i = c[n] + j
      BY <2>2
    <3>5. Covered(T, c, n, i)
      BY <2>4, <3>2, <3>3, <3>4, Zenon DEF Covered
    <3> QED
      BY <3>5, Zenon
<1>12. \A n \in 1 .. N : length(T, n) \in Nat \ {0} /\ extra(T, n) \in 0 .. 2
  BY <1>1
<1>13. Layout(T, N, c, L)
  BY <1>5, <1>7, <1>8, <1>9, <1>10, <1>11, <1>12, Zenon DEF Layout
<1> QED
  BY <1>3, <1>13

place(T, n) == CHOOSE x \in Places : Shape(T[n], message_lines(T[n]), x)

\* The places are those of the lines of the message.
LEMMA PlaceShape ==
  ASSUME NEW T \in Seq(Messages), NEW n \in 1 .. Len(T)
  PROVE  /\ T[n] \in Messages
         /\ place(T, n) \in Places /\ Shape(T[n], message_lines(T[n]), place(T, n))
<1>1. T[n] \in Messages
  OBVIOUS
<1>2. \E x \in Places : Shape(T[n], message_lines(T[n]), x)
  BY <1>1, MessageShape
<1> QED
  BY <1>1, <1>2, Zenon DEF place

\* How a message is quoted.
mark_of(T, n) == IF n = 1 THEN "" ELSE T[n].mark

wide_of(T, n) == n # 1 /\ T[n].wide

\* A line of a snapshot is a line of its message, quoted as that is.
LEMMA LineFacts ==
  ASSUME NEW T \in Seq(Messages), NEW n \in 1 .. Len(T), NEW j \in 1 .. length(T, n),
         NEW line, line = line_of(T, n, j), NEW own, own = message_lines(T[n])[j]
  PROVE  /\ line \in Lines /\ own \in Lines /\ OwnLine(own)
         /\ line.mark = mark_of(T, n) /\ line.indented = (own.indented \/ wide_of(T, n))
         /\ line.kind = own.kind /\ line.name = own.name /\ line.value = own.value
         /\ line.kind # "dashes"
         /\ j <= place(T, n).stop => /\ names_from(line) <=> j = place(T, n).from
                                     /\ names_id(line) <=> j = place(T, n).id
<1>1. PICK x \in Places : x = place(T, n) /\ Shape(T[n], message_lines(T[n]), x)
  BY PlaceShape
<1>2. PICK m \in Messages : m = T[n]
  BY PlaceShape
<1>3. PICK M : M = message_lines(m)
  OBVIOUS
<1>4. /\ M \in Seq(Lines) /\ j \in 1 .. Len(M)
      /\ OwnLine(M[j])
      /\ j <= x.stop => /\ names_from(M[j]) <=> j = x.from
                        /\ names_id(M[j]) <=> j = x.id
  BY <1>1, <1>2, <1>3 DEF Shape, length
<1>5. own = M[j] /\ own \in Lines /\ own.mark = ""
  <2>1. M[j] \in Lines
    BY <1>4
  <2> QED
    BY <1>2, <1>3, <1>4, <2>1, Zenon DEF OwnLine
<1>6. own.kind # "dashes"
  BY <1>4, <1>5 DEF OwnLine
<1>7. /\ line \in Lines /\ line.mark = mark_of(T, n)
      /\ line.indented = (own.indented \/ wide_of(T, n))
      /\ line.kind = own.kind /\ line.name = own.name /\ line.value = own.value
  <2>1. CASE n = 1
    <3>1. line = own /\ mark_of(T, n) = "" /\ ~wide_of(T, n)
      BY <1>2, <1>3, <1>5, <2>1 DEF line_of, mark_of, wide_of
    <3>2. own.indented \in BOOLEAN
      BY <1>5 DEF Lines
    <3> QED
      BY <1>5, <3>1, <3>2, Zenon
  <2>2. CASE n # 1
    <3>1. line = quoted(m, own) /\ mark_of(T, n) = m.mark /\ wide_of(T, n) = m.wide
      <4>1. m.wide \in BOOLEAN
        BY DEF Messages
      <4> QED
        BY <1>2, <1>3, <1>5, <2>2, <4>1 DEF line_of, mark_of, wide_of
    <3>2. /\ quoted(m, own) \in Lines
          /\ quoted(m, own).mark = m.mark
          /\ quoted(m, own).indented = (own.indented \/ m.wide)
          /\ quoted(m, own).kind = own.kind
          /\ quoted(m, own).name = own.name
          /\ quoted(m, own).value = own.value
      BY <1>5, QuotedLine
    <3> QED
      BY <3>1, <3>2, Zenon
  <2> QED
    BY <2>1, <2>2
<1>8. (names_from(line) <=> names_from(own)) /\ (names_id(line) <=> names_id(own))
  BY <1>7, Zenon DEF names_from, names_id
<1> QED
  BY <1>1, <1>4, <1>5, <1>6, <1>7, <1>8, Zenon

\* The numbers of a layout.
LEMMA PlaceNumbers ==
  ASSUME NEW T \in Seq(Messages), NEW n \in 1 .. Len(T)
  PROVE  /\ place(T, n).from \in 1 .. length(T, n) /\ place(T, n).id \in 1 .. length(T, n)
         /\ length(T, n) \in Nat \ {0}
         /\ place(T, n).stop \in 1 .. length(T, n)
         /\ place(T, n).from <= place(T, n).stop /\ place(T, n).id <= place(T, n).stop
<1>1. PICK x \in Places : x = place(T, n) /\ Shape(T[n], message_lines(T[n]), x)
  BY PlaceShape
<1>2. PICK M \in Seq(Lines) : M = message_lines(T[n])
  BY <1>1 DEF Shape
<1>3. /\ 1 <= x.from /\ x.from <= Len(M)
      /\ 1 <= x.id /\ x.id <= x.end /\ x.end <= x.gap /\ x.gap <= x.stop
      /\ x.from <= x.stop /\ x.stop <= Len(M)
      /\ x.from \in Nat /\ x.id \in Nat /\ x.end \in Nat /\ x.gap \in Nat /\ x.stop \in Nat
  BY <1>1, <1>2 DEF Shape, Places
<1>4. length(T, n) = Len(M) /\ Len(M) \in Nat
  BY <1>2 DEF length
<1> QED
  BY <1>1, <1>3, <1>4

\* A message ends before the dashes of a later one.
LEMMA Spread ==
  ASSUME NEW T \in Seq(Messages), NEW N \in Nat \ {0}, N = Len(T),
         NEW c, NEW L, Layout(T, N, c, L)
  PROVE  /\ \A n \in 1 .. N : /\ c[n] \in Nat /\ extra(T, n) \in 0 .. 2
                              /\ length(T, n) \in Nat \ {0}
                              /\ c[n] + length(T, n) <= Len(L)
                              /\ extra(T, n) <= c[n]
         /\ \A n \in 1 .. N, k \in 1 .. N :
              n < k => c[n] + length(T, n) + extra(T, k) <= c[k]
<1>1. \A n \in 1 .. N : c[n] \in Nat /\ extra(T, n) \in 0 .. 2 /\ length(T, n) \in Nat \ {0}
  BY DEF Layout
<1>2. \A n \in 1 .. N - 1 : c[n + 1] = c[n] + length(T, n) + extra(T, n + 1)
  BY DEF Layout
<1>3. c[1] = 0 /\ Len(L) = c[N] + length(T, N) /\ Len(L) \in Nat
  BY DEF Layout
<1>4. ASSUME NEW n \in 1 .. N, NEW k \in 1 .. N, n < k
      PROVE  c[n] + length(T, n) + extra(T, k) <= c[k]
  <2> DEFINE I(j) == c[n] + length(T, n) + extra(T, j) <= c[j]
             wrong == {j \in Nat : j \in n + 1 .. N /\ ~ I(j)}
  <2>1. ASSUME NEW j \in wrong PROVE \E i \in wrong : i < j
    <3>1. j \in n + 1 .. N /\ j - 1 \in 1 .. N - 1 /\ j - 1 \in 1 .. N /\ j \in 1 .. N
      OBVIOUS
    <3>2. c[j] = c[j - 1] + length(T, j - 1) + extra(T, j)
      <4>1. (j - 1) + 1 = j
        BY <3>1
      <4> QED
        BY <1>2, <3>1, <4>1
    <3>3. j # n + 1
      <4> SUFFICES ASSUME j = n + 1 PROVE FALSE
        OBVIOUS
      <4>1. j - 1 = n
        OBVIOUS
      <4>2. c[j] = c[n] + length(T, n) + extra(T, j)
        BY <3>2, <4>1
      <4>3. /\ c[n] \in Nat /\ length(T, n) \in Nat /\ extra(T, j) \in 0 .. 2
            /\ c[j] \in Nat
        BY <1>1, <3>1
      <4>4. ~ (c[n] + length(T, n) + extra(T, j) <= c[j])
        OBVIOUS
      <4> QED
        BY <4>2, <4>3, <4>4
    <3>4. j - 1 \in n + 1 .. N /\ j - 1 < j /\ j - 1 \in Nat
      BY <3>1, <3>3
    <3>5. ~ I(j - 1)
      <4> SUFFICES ASSUME I(j - 1) PROVE FALSE
        OBVIOUS
      <4>1. PICK a \in Nat, b \in Nat, u \in Nat, v \in Nat, w \in 0 .. 2, e \in 0 .. 2 :
              /\ a = c[n] /\ b = length(T, n) /\ u = c[j - 1] /\ v = length(T, j - 1)
              /\ w = extra(T, j - 1) /\ e = extra(T, j)
        BY <1>1, <3>1
      <4>2. a + b + w <= u /\ c[j] = u + v + e
        BY <3>2, <4>1
      <4>3. ~ (a + b + e <= c[j])
        BY <4>1
      <4> QED
        BY <4>2, <4>3
    <3> QED
      BY <3>4, <3>5
  <2> HIDE DEF wrong, I
  <2>2. wrong \in SUBSET Nat
    BY DEF wrong
  <2>3. wrong = {}
    BY <2>1, <2>2, FirstCounterexample
  <2>4. k \in n + 1 .. N /\ k \in Nat
    BY <1>4
  <2> QED
    BY <2>3, <2>4 DEF wrong, I
<1>5. ASSUME NEW n \in 1 .. N PROVE c[n] + length(T, n) <= Len(L)
  <2>1. CASE n = N
    BY <1>1, <1>3, <2>1
  <2>2. CASE n # N
    <3>1. N \in 1 .. N /\ n < N
      BY <2>2
    <3>2. c[n] + length(T, n) + extra(T, N) <= c[N]
      BY <1>4, <3>1
    <3>3. /\ c[n] \in Nat /\ length(T, n) \in Nat /\ extra(T, N) \in 0 .. 2
          /\ c[N] \in Nat /\ length(T, N) \in Nat
      BY <1>1, <3>1
    <3> QED
      BY <1>3, <3>2, <3>3
  <2> QED
    BY <2>1, <2>2
<1>6. ASSUME NEW n \in 1 .. N PROVE extra(T, n) <= c[n]
  <2>1. CASE n = 1
    BY <1>1, <2>1 DEF extra
  <2>2. CASE n # 1
    <3>1. 1 \in 1 .. N /\ 1 < n
      BY <2>2
    <3>2. c[1] + length(T, 1) + extra(T, n) <= c[n]
      BY <1>4, <3>1
    <3>3. /\ c[1] \in Nat /\ length(T, 1) \in Nat /\ extra(T, n) \in 0 .. 2 /\ c[n] \in Nat
      BY <1>1, <3>1
    <3> QED
      BY <3>2, <3>3
  <2> QED
    BY <2>1, <2>2
<1> QED
  BY <1>1, <1>4, <1>5, <1>6

-----------------------------------------------------------------------------
(* The blocks of a snapshot                                                *)

from(T, n) == place(T, n).from

\* The bodies that are quoted forward nothing.
Quotable(T) == \A n \in 2 .. Len(T) : T[n].body # "forwarded"

LEMMA WholeQuoted ==
  ASSUME NEW T \in Seq(Messages), Quotable(T), NEW n \in 2 .. Len(T)
  PROVE  place(T, n).stop = length(T, n)
<1>1. n \in 1 .. Len(T)
  OBVIOUS
<1>2. Shape(T[n], message_lines(T[n]), place(T, n))
  BY <1>1, PlaceShape
<1>3. T[n].body # "forwarded"
  BY DEF Quotable
<1> QED
  BY <1>2, <1>3, Zenon DEF Shape, length

\* Only quoted messages are marked.
LEMMA MarkOf ==
  ASSUME NEW T \in Seq(Messages), NEW n \in 1 .. Len(T)
  PROVE  /\ mark_of(T, n) \in Marks /\ wide_of(T, n) \in BOOLEAN
         /\ mark_of(T, n) # "" <=> n # 1
         /\ n = 1 => ~wide_of(T, n)
<1>1. CASE n = 1
  BY <1>1 DEF mark_of, wide_of, Marks
<1>2. CASE n # 1
  <2>1. T[n] \in Messages
    BY PlaceShape
  <2>2. T[n].mark \in {"|", ">"} /\ T[n].wide \in BOOLEAN
    BY <2>1 DEF Messages
  <2> QED
    BY <1>2, <2>2 DEF mark_of, wide_of, Marks
<1> QED
  BY <1>1, <1>2

\* The first line of a message is not blank.
LEMMA FirstLine ==
  ASSUME NEW T \in Seq(Messages), NEW N \in Nat \ {0}, N = Len(T),
         NEW c, NEW L, Layout(T, N, c, L), NEW n \in 1 .. N
  PROVE  is_header(L[c[n] + 1]) /\ L[c[n] + 1] # blank
<1>1. length(T, n) \in Nat \ {0} /\ \A j \in 1 .. length(T, n) : L[c[n] + j] = line_of(T, n, j)
  BY DEF Layout
<1>2. PICK j \in 1 .. length(T, n) : j = 1
  BY <1>1
<1>3. L[c[n] + 1] = line_of(T, n, j)
  BY <1>1, <1>2
<1>4. PICK line, own : line = line_of(T, n, j) /\ own = message_lines(T[n])[j]
  OBVIOUS
<1>5. line.kind = own.kind
  BY <1>4, LineFacts
<1>6. own.kind = "header"
  <2>1. Shape(T[n], message_lines(T[n]), place(T, n))
    BY PlaceShape
  <2>2. is_header(message_lines(T[n])[1])
    BY <2>1 DEF Shape
  <2> QED
    BY <1>2, <1>4, <2>2 DEF is_header
<1>7. blank.kind # "header"
  BY DEF blank
<1> QED
  BY <1>3, <1>4, <1>5, <1>6, <1>7, Zenon DEF is_header

marked(line) == line.mark # ""

\* Quoted messages are seen where their From is, and nowhere else.
LEMMA SeenAtFrom ==
  ASSUME NEW T \in Seq(Messages), Quotable(T), NEW N \in Nat \ {0}, N = Len(T),
         NEW c, NEW L, Layout(T, N, c, L), NEW i \in 1 .. Len(L)
  PROVE  /\ starts_quoted_message(L, i) <=> \E n \in 2 .. N : i = c[n] + from(T, n)
         /\ L[i] = dashes <=> \E n \in 2 .. N : extra(T, n) # 0 /\ i = rule_at(T, c, n)
<1>0. Len(L) \in Nat
  BY DEF Layout
<1>1. \A n \in 1 .. N : /\ extra(T, n) # 0 => L[rule_at(T, c, n)] = dashes
                        /\ extra(T, n) = 2 => L[c[n]] = blank
                        /\ \A j \in 1 .. length(T, n) : L[c[n] + j] = line_of(T, n, j)
  BY DEF Layout
<1>2. \A n \in 1 .. N : extra(T, n) # 0 => n \in 2 .. N
  BY DEF extra
<1>3. \A n \in 1 .. N : from(T, n) \in 1 .. length(T, n)
  BY PlaceNumbers DEF from
<1>4. dashes.kind = "dashes" /\ blank.kind = "blank" /\ ~marked(dashes) /\ ~marked(blank)
  BY DEF dashes, blank, marked
<1>5. ASSUME NEW k \in 1 .. Len(L), NEW n \in 1 .. N, NEW j \in 1 .. length(T, n), k = c[n] + j
      PROVE  /\ L[k] # dashes
             /\ marked(L[k]) <=> n # 1
             /\ n # 1 => (names_from(L[k]) <=> j = from(T, n))
  <2>1. PICK line, own : line = line_of(T, n, j) /\ own = message_lines(T[n])[j]
    OBVIOUS
  <2>2. L[k] = line
    BY <1>1, <1>5, <2>1
  <2>3. /\ line.mark = mark_of(T, n) /\ line.kind # "dashes"
        /\ j <= place(T, n).stop => (names_from(line) <=> j = place(T, n).from)
    BY <2>1, LineFacts
  <2>4. n # 1 => j <= place(T, n).stop
    <3> SUFFICES ASSUME n # 1 PROVE j <= place(T, n).stop
      OBVIOUS
    <3>1. n \in 2 .. Len(T)
      OBVIOUS
    <3>2. place(T, n).stop = length(T, n)
      BY <3>1, WholeQuoted
    <3> QED
      BY <3>2
  <2>5. line # dashes
    BY <1>4, <2>3
  <2> QED
    BY <2>2, <2>3, <2>4, <2>5, MarkOf, Zenon DEF from, marked
<1>6. ASSUME NEW k \in 1 .. Len(L)
      PROVE  \E n \in 1 .. N : Covered(T, c, n, k)
  BY DEF Layout
\* A line with a mark is of a quoted message, a From without one of the first.
<1>7. ASSUME NEW k \in 1 .. Len(L), marked(L[k])
      PROVE  \E n \in 2 .. N : \E j \in 1 .. length(T, n) : k = c[n] + j
  <2>1. PICK n \in 1 .. N : Covered(T, c, n, k)
    BY <1>6
  <2>2. L[k] # dashes /\ L[k] # blank
    BY <1>4, <1>7
  <2>3. PICK j \in 1 .. length(T, n) : k = c[n] + j
    BY <1>1, <2>1, <2>2, Zenon DEF Covered
  <2>4. n # 1
    BY <1>5, <1>7, <2>3, Zenon
  <2>5. n \in 2 .. N
    BY <2>4
  <2> QED
    BY <2>3, <2>5
<1>8. ASSUME NEW k \in 1 .. Len(L), ~marked(L[k]), says_from(L[k])
      PROVE  k <= c[1] + length(T, 1)
  <2>1. PICK n \in 1 .. N : Covered(T, c, n, k)
    BY <1>6
  <2>2. L[k] # dashes /\ L[k] # blank
    BY <1>4, <1>8 DEF says_from
  <2>3. PICK j \in 1 .. length(T, n) : k = c[n] + j
    BY <1>1, <2>1, <2>2, Zenon DEF Covered
  <2>4. n = 1
    BY <1>5, <1>8, <2>3, Zenon
  <2>5. c[1] \in Nat /\ length(T, 1) \in Nat
    BY <2>4, Spread
  <2> QED
    BY <2>3, <2>4, <2>5
<1>9. ASSUME NEW k \in 1 .. Len(L), i < k, marked(L[i]), ~marked(L[k]), says_from(L[k])
      PROVE  FALSE
  <2>0. PICK n \in 2 .. N : \E j \in 1 .. length(T, n) : i = c[n] + j
    BY <1>7, <1>9
  <2>1. PICK a \in 1 .. length(T, n) : i = c[n] + a
    BY <2>0
  <2>2. k <= c[1] + length(T, 1)
    BY <1>8, <1>9
  <2>3. 1 \in 1 .. N /\ n \in 1 .. N /\ 1 < n
    OBVIOUS
  <2>4. c[1] + length(T, 1) + extra(T, n) <= c[n]
    BY <2>3, Spread
  <2>5. /\ c[1] \in Nat /\ length(T, 1) \in Nat /\ extra(T, n) \in 0 .. 2 /\ c[n] \in Nat
        /\ length(T, n) \in Nat
    BY <2>3, Spread
  <2>6. PICK b \in Nat, l \in Nat, e \in Nat, g \in Nat :
          b = c[1] /\ l = length(T, 1) /\ e = extra(T, n) /\ g = c[n]
    BY <2>5
  <2>7. b + l + e <= g /\ k <= b + l /\ i = g + a /\ a >= 1
    BY <2>1, <2>2, <2>4, <2>6
  <2>8. i < k
    BY <1>9
  <2>9. k <= g /\ g < i
    <3>1. a \in Nat /\ k \in Nat /\ i \in Nat
      BY <1>0, <2>5
    <3> QED
      BY <2>7, <3>1
  <2> QED
    BY <2>6, <2>8, <2>9
<1>10. starts_quoted_message(L, i) <=> marked(L[i]) /\ names_from(L[i])
  <2>1. \A j \in i + 1 .. Len(L) : j \in 1 .. Len(L) /\ i < j
    OBVIOUS
  <2>2. ~ \E j \in i + 1 .. Len(L) : marked(L[i]) /\ ~marked(L[j]) /\ says_from(L[j])
    BY <1>9, <2>1, Zenon
  <2> QED
    BY <2>2, Zenon DEF starts_quoted_message, says_from, names_from, marked
<1>11. starts_quoted_message(L, i) => \E k \in 2 .. N : i = c[k] + from(T, k)
  <2> SUFFICES ASSUME marked(L[i]), names_from(L[i])
               PROVE  \E k \in 2 .. N : i = c[k] + from(T, k)
    BY <1>10
  <2>0. PICK n \in 2 .. N : \E k \in 1 .. length(T, n) : i = c[n] + k
    BY <1>7
  <2>1. PICK j \in 1 .. length(T, n) : i = c[n] + j
    BY <2>0
  <2>2. n \in 1 .. N /\ n # 1
    OBVIOUS
  <2>3. j = from(T, n)
    BY <1>5, <2>1, <2>2, Zenon
  <2> QED
    BY <2>1, <2>3
<1>12. ASSUME NEW k \in 2 .. N, i = c[k] + from(T, k) PROVE starts_quoted_message(L, i)
  <2>1. PICK j \in 1 .. length(T, k) : j = from(T, k)
    BY <1>3
  <2>2. k \in 1 .. N /\ k # 1
    OBVIOUS
  <2> QED
    BY <1>5, <1>10, <1>12, <2>1, <2>2, Zenon
<1>13. L[i] = dashes => \E k \in 2 .. N : extra(T, k) # 0 /\ i = rule_at(T, c, k)
  <2> SUFFICES ASSUME L[i] = dashes
               PROVE  \E k \in 2 .. N : extra(T, k) # 0 /\ i = rule_at(T, c, k)
    OBVIOUS
  <2>1. PICK n \in 1 .. N : Covered(T, c, n, i)
    BY <1>6
  <2>2. ~ \E j \in 1 .. length(T, n) : i = c[n] + j
    BY <1>5, Zenon
  <2>3. L[i] # blank
    BY <1>4
  <2>4. ~ (extra(T, n) = 2 /\ i = c[n])
    BY <1>1, <2>3, Zenon
  <2>5. extra(T, n) # 0 /\ i = rule_at(T, c, n)
    BY <2>1, <2>2, <2>4, Zenon DEF Covered
  <2> QED
    BY <1>2, <2>5
<1>14. ASSUME NEW k \in 2 .. N, extra(T, k) # 0 /\ i = rule_at(T, c, k) PROVE L[i] = dashes
  <2>1. k \in 1 .. N
    OBVIOUS
  <2> QED
    BY <1>1, <1>14, <2>1
<1> QED
  BY <1>11, <1>12, <1>13, <1>14

\* The same for the numbers of two messages: one has its From on line a + f, the
\* other follows b, and e lines before it start with dashes.
TwoMessages(L, o, n, k, a, l, f, b, m, e, d, r) ==
  /\ o \in Nat /\ n \in Nat /\ k \in Nat /\ a \in Nat /\ l \in Nat \ {0} /\ f \in Nat \ {0}
  /\ b \in Nat /\ m \in Nat \ {0} /\ d \in Nat /\ r = (b + 1) - e /\ e \in {1, 2}
  /\ f <= l /\ e <= b /\ a + l <= o /\ b + m <= o
  /\ n < k => a + l + e <= b
  /\ k < n => b + m + d <= a
  /\ k = n => a = b
  /\ e = 2 => L[b] = blank
  /\ L[b + 1] # blank

LEMMA RuleGap ==
  ASSUME NEW L, NEW o, NEW n, NEW k, NEW a, NEW l, NEW f, NEW b, NEW m, NEW e, NEW d, NEW r,
         TwoMessages(L, o, n, k, a, l, f, b, m, e, d, r)
  PROVE  /\ r \in Nat \ {0} /\ r <= o /\ a + f \in 1 .. o
         /\ r < a + f /\ blank_between(L, r, a + f) <=> k = n /\ f = 1
<1>0. /\ o \in Nat /\ n \in Nat /\ k \in Nat /\ a \in Nat /\ l \in Nat \ {0} /\ f \in Nat \ {0}
      /\ b \in Nat /\ m \in Nat \ {0} /\ d \in Nat /\ r = (b + 1) - e /\ e \in {1, 2}
      /\ f <= l /\ e <= b /\ a + l <= o /\ b + m <= o
      /\ n < k => a + l + e <= b
      /\ k < n => b + m + d <= a
      /\ k = n => a = b
  BY DEF TwoMessages
<1>4. (e = 2 => L[b] = blank) /\ L[b + 1] # blank
  BY DEF TwoMessages
<1>1. r \in Nat \ {0} /\ r <= o /\ a + f \in 1 .. o
  BY <1>0
<1>2. ASSUME r < a + f, blank_between(L, r, a + f) PROVE k = n /\ f = 1
  <2>1. ~ (b + 1 \in r + 1 .. (a + f) - 1)
    BY <1>2, <1>4 DEF blank_between
  <2>2. ~ (b + 1 < a + f)
    BY <1>0, <1>1, <2>1
  <2>3. ~ (k < n)
    BY <1>0, <2>2
  <2>4. ~ (n < k)
    BY <1>0, <1>1, <1>2
  <2>5. k = n /\ a = b
    BY <1>0, <2>3, <2>4
  <2> QED
    BY <1>0, <2>2, <2>5
<1>3. ASSUME k = n, f = 1 PROVE r < a + f /\ blank_between(L, r, a + f)
  <2>1. r < a + f
    BY <1>0, <1>3
  <2>2. ASSUME NEW i \in r + 1 .. (a + f) - 1 PROVE L[i] = blank
    <3>1. e = 2 /\ i = b
      BY <1>0, <1>1, <1>3
    <3> QED
      BY <1>4, <3>1
  <2> QED
    BY <2>1, <2>2 DEF blank_between
<1> QED
  BY <1>1, <1>2, <1>3

\* Dashes belong to the message after them: nothing but blank lines is between
\* them and a From only if that is the first line of it.
LEMMA DashesBefore ==
  ASSUME NEW T \in Seq(Messages), NEW N \in Nat \ {0}, N = Len(T),
         NEW c, NEW L, Layout(T, N, c, L), NEW n \in 2 .. N, NEW k \in 2 .. N,
         extra(T, k) # 0
  PROVE  /\ rule_at(T, c, k) \in Nat \ {0} /\ rule_at(T, c, k) <= Len(L)
         /\ c[n] + from(T, n) \in 1 .. Len(L)
         /\ (/\ rule_at(T, c, k) < c[n] + from(T, n)
             /\ blank_between(L, rule_at(T, c, k), c[n] + from(T, n))) <=> k = n /\ from(T, n) = 1
<1>1. n \in 1 .. N /\ k \in 1 .. N
  OBVIOUS
<1>2. /\ c[n] \in Nat /\ length(T, n) \in Nat \ {0} /\ c[n] + length(T, n) <= Len(L)
      /\ c[k] \in Nat /\ length(T, k) \in Nat \ {0} /\ c[k] + length(T, k) <= Len(L)
      /\ extra(T, n) \in 0 .. 2 /\ extra(T, k) \in 0 .. 2 /\ extra(T, k) <= c[k]
  BY <1>1, Spread
<1>3. from(T, n) \in 1 .. length(T, n)
  BY <1>1, PlaceNumbers DEF from
<1>4. /\ n < k => c[n] + length(T, n) + extra(T, k) <= c[k]
      /\ k < n => c[k] + length(T, k) + extra(T, n) <= c[n]
  BY <1>1, Spread
<1>5. extra(T, k) = 2 => L[c[k]] = blank
  BY <1>1 DEF Layout
<1>6. L[c[k] + 1] # blank
  BY <1>1, FirstLine
<1>7. Len(L) \in Nat
  BY DEF Layout
<1>8. PICK a \in Nat, l \in Nat \ {0}, f \in Nat \ {0}, b \in Nat, m \in Nat \ {0}, e \in Nat,
           d \in Nat, o \in Nat :
        /\ a = c[n] /\ l = length(T, n) /\ f = from(T, n) /\ b = c[k] /\ m = length(T, k)
        /\ e = extra(T, k) /\ d = extra(T, n) /\ o = Len(L)
        /\ e \in 1 .. 2
  <2>1. from(T, n) \in Nat \ {0} /\ extra(T, k) \in 1 .. 2
    BY <1>2, <1>3
  <2>2. extra(T, k) \in Nat /\ extra(T, n) \in Nat
    BY <1>2
  <2> QED
    BY <1>2, <1>7, <2>1, <2>2, Zenon
<1>9. PICK r \in Int : r = rule_at(T, c, k) /\ r = (b + 1) - e
  <2>1. (b + 1) - e \in Int
    BY <1>8
  <2> QED
    BY <1>8, <2>1 DEF rule_at
<1>10. a + l <= o /\ b + m <= o /\ f <= l /\ e <= b
  BY <1>2, <1>3, <1>8
<1>11. (n < k => a + l + e <= b) /\ (k < n => b + m + d <= a) /\ (k = n => a = b)
  BY <1>4, <1>8
<1>12. (e = 2 => L[b] = blank) /\ L[b + 1] # blank /\ (e = 1 \/ e = 2) /\ n \in Nat /\ k \in Nat
  BY <1>5, <1>6, <1>8
<1>13. /\ r \in Nat \ {0} /\ r <= o /\ a + f \in 1 .. o
       /\ r < a + f /\ blank_between(L, r, a + f) <=> k = n /\ f = 1
  <2>1. TwoMessages(L, o, n, k, a, l, f, b, m, e, d, r)
    BY <1>9, <1>10, <1>11, <1>12 DEF TwoMessages
  <2> QED
    BY <2>1, RuleGap, Zenon
<1> QED
  BY <1>8, <1>9, <1>13

\* The line on which a quoted message starts.
first(T, c, n) ==
  IF extra(T, n) # 0 /\ from(T, n) = 1 THEN rule_at(T, c, n) ELSE c[n] + from(T, n)

\* A message starts at each quoted one, and nowhere else.
LEMMA MessageStarts ==
  ASSUME NEW T \in Seq(Messages), Quotable(T), NEW N \in Nat \ {0}, N = Len(T),
         NEW c, NEW L, Layout(T, N, c, L)
  PROVE  {i \in DOMAIN L : starts_message(L, i)} = {first(T, c, n) : n \in 2 .. N}
<1>1. L \in Seq(Lines) /\ Len(L) \in Nat /\ DOMAIN L = 1 .. Len(L)
  BY DEF Layout
<1>2. \A n \in 2 .. N : c[n] + from(T, n) \in 1 .. Len(L) /\ c[n] + from(T, n) \in Nat
  <2> SUFFICES ASSUME NEW n \in 2 .. N PROVE c[n] + from(T, n) \in 1 .. Len(L)
    BY <1>1
  <2>1. n \in 1 .. N
    OBVIOUS
  <2>2. c[n] \in Nat /\ length(T, n) \in Nat /\ c[n] + length(T, n) <= Len(L)
    BY <2>1, Spread
  <2>3. from(T, n) \in 1 .. length(T, n)
    BY <2>1, PlaceNumbers DEF from
  <2> QED
    BY <1>1, <2>2, <2>3
<1>3. \A n \in 2 .. N, k \in 2 .. N : extra(T, k) # 0 =>
        /\ rule_at(T, c, k) \in Nat \ {0} /\ rule_at(T, c, k) <= Len(L)
        /\ (/\ rule_at(T, c, k) < c[n] + from(T, n)
            /\ blank_between(L, rule_at(T, c, k), c[n] + from(T, n))) <=> k = n /\ from(T, n) = 1
  BY DashesBefore
<1>4. \A i \in 1 .. Len(L) :
         /\ starts_quoted_message(L, i) <=> \E n \in 2 .. N : i = c[n] + from(T, n)
         /\ L[i] = dashes <=> \E n \in 2 .. N : extra(T, n) # 0 /\ i = rule_at(T, c, n)
  BY SeenAtFrom
<1>5. ASSUME NEW n \in 2 .. N, extra(T, n) # 0, from(T, n) = 1
      PROVE  /\ rule_at(T, c, n) \in 1 .. Len(L) /\ L[rule_at(T, c, n)] = dashes
             /\ c[n] + from(T, n) \in rule_at(T, c, n) + 1 .. Len(L)
             /\ rule_at(T, c, n) \in 1 .. (c[n] + from(T, n)) - 1
             /\ blank_between(L, rule_at(T, c, n), c[n] + from(T, n))
  <2>1. PICK r \in Nat \ {0}, i \in Nat : r = rule_at(T, c, n) /\ i = c[n] + from(T, n)
    BY <1>2, <1>3, <1>5
  <2>2. r <= Len(L) /\ r < i /\ blank_between(L, r, i) /\ i <= Len(L)
    BY <1>2, <1>3, <1>5, <2>1
  <2>3. r \in 1 .. Len(L) /\ i \in r + 1 .. Len(L) /\ r \in 1 .. i - 1
    BY <1>1, <2>2
  <2>4. L[r] = dashes
    BY <1>4, <1>5, <2>1, <2>3
  <2> QED
    BY <2>1, <2>2, <2>3, <2>4
<1>6. ASSUME NEW n \in 2 .. N
      PROVE  first(T, c, n) \in DOMAIN L /\ starts_message(L, first(T, c, n))
  <2>1. CASE extra(T, n) # 0 /\ from(T, n) = 1
    <3>1. first(T, c, n) = rule_at(T, c, n)
      BY <2>1 DEF first
    <3>2. starts_quoted_message(L, c[n] + from(T, n))
      BY <1>2, <1>4, Zenon
    <3> QED
      BY <1>1, <1>5, <2>1, <3>1, <3>2, Zenon DEF starts_message
  <2>2. CASE ~ (extra(T, n) # 0 /\ from(T, n) = 1)
    <3>1. PICK i \in 1 .. Len(L) : i = first(T, c, n) /\ i = c[n] + from(T, n) /\ i \in Nat
      BY <1>2, <2>2 DEF first
    <3>2. starts_quoted_message(L, i)
      BY <1>4, <3>1, Zenon
    <3>3. ASSUME NEW j \in 1 .. i - 1, L[j] = dashes, blank_between(L, j, i) PROVE FALSE
      <4>1. j \in 1 .. Len(L) /\ j < i
        BY <1>1, <3>1
      <4>2. PICK k \in 2 .. N : extra(T, k) # 0 /\ j = rule_at(T, c, k)
        BY <1>4, <3>3, <4>1
      <4>3. k = n /\ from(T, n) = 1
        BY <1>3, <3>1, <3>3, <4>1, <4>2
      <4> QED
        BY <2>2, <4>2, <4>3
    <3> QED
      BY <1>1, <3>1, <3>2, <3>3, Zenon DEF starts_message
  <2> QED
    BY <2>1, <2>2
<1>7. ASSUME NEW i \in 1 .. Len(L), starts_message(L, i)
      PROVE  \E n \in 2 .. N : i = first(T, c, n)
  <2>1. ASSUME L[i] = dashes, NEW j \in i + 1 .. Len(L), blank_between(L, i, j),
               starts_quoted_message(L, j)
        PROVE  \E n \in 2 .. N : i = first(T, c, n)
    <3>1. PICK k \in 2 .. N : extra(T, k) # 0 /\ i = rule_at(T, c, k)
      BY <1>4, <2>1
    <3>2. j \in 1 .. Len(L) /\ i < j
      BY <1>1
    <3>3. PICK n \in 2 .. N : j = c[n] + from(T, n)
      BY <1>4, <2>1, <3>2
    <3>4. k = n /\ from(T, n) = 1
      BY <1>3, <2>1, <3>1, <3>2, <3>3
    <3> QED
      BY <3>1, <3>4 DEF first
  <2>2. ASSUME starts_quoted_message(L, i),
               ~ \E j \in 1 .. i - 1 : L[j] = dashes /\ blank_between(L, j, i)
        PROVE  \E n \in 2 .. N : i = first(T, c, n)
    <3>1. PICK n \in 2 .. N : i = c[n] + from(T, n)
      BY <1>4, <2>2
    <3>2. ~ (extra(T, n) # 0 /\ from(T, n) = 1)
      BY <1>5, <2>2, <3>1, Zenon
    <3> QED
      BY <3>1, <3>2 DEF first
  <2> QED
    BY <1>7, <2>1, <2>2, Zenon DEF starts_message
<1> QED
  BY <1>1, <1>6, <1>7

\* The starts are in the order of the messages.
LEMMA StartsIncrease ==
  ASSUME NEW T \in Seq(Messages), NEW N \in Nat \ {0}, N = Len(T),
         NEW c, NEW L, Layout(T, N, c, L)
  PROVE  /\ \A n \in 2 .. N : first(T, c, n) \in Nat
         /\ \A n \in 2 .. N, k \in 2 .. N : n < k => first(T, c, n) < first(T, c, k)
<1>1. ASSUME NEW n \in 2 .. N
      PROVE  /\ c[n] \in Nat /\ extra(T, n) \in 0 .. 2 /\ length(T, n) \in Nat \ {0}
             /\ from(T, n) \in Nat \ {0} /\ from(T, n) <= length(T, n)
             /\ extra(T, n) <= c[n]
  <2>1. n \in 1 .. N
    OBVIOUS
  <2>2. /\ c[n] \in Nat /\ extra(T, n) \in 0 .. 2 /\ length(T, n) \in Nat \ {0}
        /\ extra(T, n) <= c[n]
    BY <2>1, Spread
  <2>3. from(T, n) \in 1 .. length(T, n)
    BY <2>1, PlaceNumbers DEF from
  <2> QED
    BY <2>2, <2>3
<1>2. \A n \in 2 .. N : first(T, c, n) \in Nat
  BY <1>1 DEF first, rule_at
<1>3. ASSUME NEW n \in 2 .. N, NEW k \in 2 .. N, n < k
      PROVE  first(T, c, n) < first(T, c, k)
  <2>1. c[n] + length(T, n) + extra(T, k) <= c[k]
    <3>1. n \in 1 .. N /\ k \in 1 .. N
      OBVIOUS
    <3> QED
      BY <1>3, <3>1, Spread
  <2>2. first(T, c, n) <= c[n] + length(T, n)
    BY <1>1 DEF first, rule_at
  <2>3. c[k] + 1 <= first(T, c, k) + extra(T, k)
    <3>1. PICK b \in Nat, e \in 0 .. 2, f \in Nat \ {0} :
            b = c[k] /\ e = extra(T, k) /\ f = from(T, k)
      BY <1>1
    <3>2. first(T, c, k) = IF e # 0 /\ f = 1 THEN (b + 1) - e ELSE b + f
      BY <3>1 DEF first, rule_at
    <3>3. b + 1 <= (IF e # 0 /\ f = 1 THEN (b + 1) - e ELSE b + f) + e
      OBVIOUS
    <3> QED
      BY <3>1, <3>2, <3>3
  <2>4. PICK a \in Nat, l \in Nat, e \in 0 .. 2, b \in Nat, s \in Nat, t \in Nat :
          /\ a = c[n] /\ l = length(T, n) /\ e = extra(T, k) /\ b = c[k]
          /\ s = first(T, c, n) /\ t = first(T, c, k)
    BY <1>1, <1>2
  <2>5. a + l + e <= b /\ s <= a + l /\ b + 1 <= t + e
    BY <2>1, <2>2, <2>3, <2>4
  <2>6. s < t
    BY <2>5
  <2> QED
    BY <2>4, <2>6, Zenon
<1> QED
  BY <1>2, <1>3

\* in_order gives back the numbers of an increasing sequence.
LEMMA CountImage ==
  ASSUME NEW k \in Nat, NEW s, \A i \in 1 .. k : s[i] \in Nat,
         \A i \in 1 .. k, j \in 1 .. k : i < j => s[i] < s[j]
  PROVE  Cardinality({s[i] : i \in 1 .. k}) = k
<1> DEFINE S == {s[i] : i \in 1 .. k}
           b == [i \in 1 .. k |-> s[i]]
<1>1. b \in [1 .. k -> S] /\ \A x \in S : \E i \in 1 .. k : b[i] = x
  OBVIOUS
<1>2. \A i \in 1 .. k, j \in 1 .. k : b[i] = b[j] => i = j
  <2> SUFFICES ASSUME NEW i \in 1 .. k, NEW j \in 1 .. k, i # j PROVE s[i] # s[j]
    OBVIOUS
  <2>1. s[i] \in Nat /\ s[j] \in Nat /\ (s[i] < s[j] \/ s[j] < s[i])
    <3>1. i < j \/ j < i
      OBVIOUS
    <3> QED
      BY <3>1
  <2> QED
    BY <2>1
<1> HIDE DEF b, S
<1>3. b \in Bijection(1 .. k, S)
  BY <1>1, <1>2 DEF Bijection, Injection, Surjection, IsInjective
<1>4. ExistsBijection(1 .. k, S)
  BY <1>3 DEF ExistsBijection
<1>5. IsFiniteSet(1 .. k) /\ Cardinality(1 .. k) = k
  <2>1. PICK a \in Int, e \in Int : a = 1 /\ e = k
    OBVIOUS
  <2>2. IsFiniteSet(a .. e) /\ Cardinality(a .. e) = IF a > e THEN 0 ELSE e - a + 1
    BY FS_Interval
  <2> QED
    BY <2>1, <2>2
<1>6. Cardinality(S) = Cardinality(1 .. k)
  BY <1>4, <1>5, FS_Bijection
<1> QED
  BY <1>5, <1>6 DEF S

\* The numbers of an increasing sequence, put in order, are that sequence.
LEMMA InOrder ==
  ASSUME NEW K \in Nat, NEW s \in [1 .. K -> Nat],
         \A i \in 1 .. K, j \in 1 .. K : i < j => s[i] < s[j],
         NEW S, S = {s[i] : i \in 1 .. K}
  PROVE  in_order(S) = s
<1>1. ASSUME NEW k \in 1 .. K
      PROVE  Cardinality({j \in S : j <= s[k]}) = k
  <2>1. {j \in S : j <= s[k]} = {s[i] : i \in 1 .. k}
    <3>1. ASSUME NEW i \in 1 .. K PROVE s[i] <= s[k] <=> i \in 1 .. k
      <4>1. s[i] \in Nat /\ s[k] \in Nat
        OBVIOUS
      <4>2. CASE i < k
        BY <4>1, <4>2
      <4>3. CASE k < i
        <5>1. s[k] < s[i]
          BY <4>3
        <5>2. ~ (s[i] <= s[k])
          BY <4>1, <5>1
        <5>3. i \notin 1 .. k
          BY <4>3
        <5> QED
          BY <5>2, <5>3
      <4>4. CASE i = k
        BY <4>1, <4>4
      <4> QED
        BY <4>2, <4>3, <4>4
    <3>2. \A i \in 1 .. k : i \in 1 .. K
      OBVIOUS
    <3> QED
      BY <3>1, <3>2
  <2>2. k \in Nat /\ \A i \in 1 .. k : i \in 1 .. K
    OBVIOUS
  <2>3. \A i \in 1 .. k : s[i] \in Nat
    BY <2>2
  <2>4. \A i \in 1 .. k, j \in 1 .. k : i < j => s[i] < s[j]
    BY <2>2
  <2>5. Cardinality({s[i] : i \in 1 .. k}) = k
    BY <2>2, <2>3, <2>4, CountImage
  <2> QED
    BY <2>1, <2>5
<1>2. Cardinality(S) = K
  <2>1. Cardinality({s[i] : i \in 1 .. K}) = K
    BY CountImage
  <2> QED
    BY <2>1
<1>3. ASSUME NEW k \in 1 .. K
      PROVE  (CHOOSE i \in S : Cardinality({j \in S : j <= i}) = k) = s[k]
  <2> DEFINE P(i) == Cardinality({j \in S : j <= i}) = k
  <2>1. s[k] \in S /\ P(s[k])
    BY <1>1
  <2>2. ASSUME NEW i \in S, P(i) PROVE i = s[k]
    <3>1. PICK l \in 1 .. K : i = s[l]
      OBVIOUS
    <3>2. Cardinality({j \in S : j <= s[l]}) = l
      BY <1>1
    <3> QED
      BY <2>2, <3>1, <3>2
  <2> HIDE DEF P
  <2>3. (CHOOSE i \in S : P(i)) = s[k]
    BY <2>1, <2>2
  <2> QED
    BY <2>3 DEF P
<1>4. in_order(S) = [k \in 1 .. K |-> s[k]]
  BY <1>2, <1>3, Zenon DEF in_order
<1> QED
  BY <1>4

\* The last line of the block of a message.
last(T, N, c, L, n) == IF n = N THEN Len(L) ELSE first(T, c, n + 1) - 1

\* A block ends after the lines of its message.
LEMMA BlockNumbers ==
  ASSUME NEW T \in Seq(Messages), NEW N \in Nat \ {0}, N = Len(T),
         NEW c, NEW L, Layout(T, N, c, L), NEW n \in 1 .. N
  PROVE  /\ last(T, N, c, L, n) \in Nat /\ last(T, N, c, L, n) <= Len(L)
         /\ c[n] + length(T, n) <= last(T, N, c, L, n)
         /\ c[n] \in Nat /\ length(T, n) \in Nat \ {0}
         /\ from(T, n) \in Nat \ {0} /\ from(T, n) <= length(T, n)
<1>1. \A k \in 1 .. N : /\ c[k] \in Nat /\ extra(T, k) \in 0 .. 2
                        /\ length(T, k) \in Nat \ {0}
                        /\ c[k] + length(T, k) <= Len(L)
                        /\ extra(T, k) <= c[k]
  BY Spread
<1>2. \A k \in 1 .. N : from(T, k) \in 1 .. length(T, k)
  BY PlaceNumbers DEF from
<1>3. Len(L) \in Nat
  BY DEF Layout
<1>4. CASE n = N
  BY <1>1, <1>2, <1>3, <1>4 DEF last
<1>5. CASE n # N
  <2>1. n + 1 \in 1 .. N /\ n < n + 1
    BY <1>5
  <2>2. PICK k \in 1 .. N : k = n + 1 /\ n < k
    BY <2>1
  <2>3. c[n] + length(T, n) + extra(T, k) <= c[k]
    BY <2>2, Spread
  <2>4. PICK a \in Nat, l \in Nat \ {0}, e \in 0 .. 2, b \in Nat, m \in Nat \ {0}, f \in Nat \ {0},
             o \in Nat :
          /\ a = c[n] /\ l = length(T, n) /\ e = extra(T, k) /\ b = c[k]
          /\ m = length(T, k) /\ f = from(T, k) /\ f <= m /\ o = Len(L)
    <3>1. from(T, k) \in Nat \ {0} /\ from(T, k) <= length(T, k)
      BY <1>1, <1>2
    <3>2. /\ c[n] \in Nat /\ length(T, n) \in Nat \ {0} /\ extra(T, k) \in 0 .. 2
          /\ c[k] \in Nat /\ length(T, k) \in Nat \ {0}
      BY <1>1
    <3> QED
      BY <1>3, <3>1, <3>2, Zenon
  <2>5. a + l + e <= b /\ b + m <= o
    BY <1>1, <2>3, <2>4
  <2>6. last(T, N, c, L, n) = (IF e # 0 /\ f = 1 THEN (b + 1) - e ELSE b + f) - 1
    BY <1>5, <2>2, <2>4 DEF last, first, rule_at
  <2>7. /\ last(T, N, c, L, n) \in Nat /\ last(T, N, c, L, n) <= o
        /\ a + l <= last(T, N, c, L, n)
    <3>1. PICK r \in Int : r = (IF e # 0 /\ f = 1 THEN (b + 1) - e ELSE b + f) - 1
      OBVIOUS
    <3>2. f <= m
      BY <2>4
    <3>3. r \in Nat /\ r <= o /\ a + l <= r
      BY <2>5, <3>1, <3>2
    <3> QED
      BY <2>6, <3>1, <3>3
  <2>8. from(T, n) \in Nat \ {0} /\ from(T, n) <= length(T, n)
    BY <1>1, <1>2
  <2> QED
    BY <2>4, <2>7, <2>8
<1> QED
  BY <1>4, <1>5

\* The lines of L from a to b.
Part(L, a, b, B) ==
  /\ B \in Seq(Lines) /\ Len(B) = b - a + 1
  /\ \A j \in 1 .. Len(B) : B[j] = L[a - 1 + j]

\* A subsequence is the part between its bounds.
LEMMA SubSeqPart ==
  ASSUME NEW L \in Seq(Lines), NEW a \in 1 .. Len(L), NEW b \in a .. Len(L),
         NEW B, B = SubSeq(L, a, b)
  PROVE  /\ Part(L, a, b, B) /\ B # <<>> /\ Head(B) = L[a]
         /\ a < b => Part(L, a + 1, b, Tail(B))
<1>1. /\ B \in Seq(Lines) /\ Len(B) = b - a + 1
      /\ \A j \in 1 .. Len(B) : B[j] = L[a - 1 + j]
  OBVIOUS
<1>2. B # <<>> /\ Head(B) = L[a]
  <2>1. 1 \in 1 .. Len(B)
    BY <1>1
  <2>2. B[1] = L[a]
    BY <1>1, <2>1
  <2> QED
    BY <1>1, <2>1, <2>2
<1>3. Part(L, a, b, B)
  BY <1>1 DEF Part
<1>4. ASSUME a < b PROVE Part(L, a + 1, b, Tail(B))
  <2>1. /\ Tail(B) \in Seq(Lines) /\ Len(Tail(B)) = Len(B) - 1
        /\ \A j \in 1 .. Len(B) - 1 : Tail(B)[j] = B[j + 1]
    BY <1>1, <1>2
  <2>2. \A j \in 1 .. Len(B) - 1 : Tail(B)[j] = L[(a + 1) - 1 + j]
    <3> SUFFICES ASSUME NEW j \in 1 .. Len(B) - 1 PROVE Tail(B)[j] = L[(a + 1) - 1 + j]
      OBVIOUS
    <3>1. j + 1 \in 1 .. Len(B) /\ a - 1 + (j + 1) = (a + 1) - 1 + j
      BY <1>1
    <3>2. B[j + 1] = L[a - 1 + (j + 1)]
      BY <1>1, <3>1
    <3> QED
      BY <2>1, <3>1, <3>2
  <2>3. Len(Tail(B)) = b - (a + 1) + 1
    BY <1>1, <2>1
  <2> QED
    BY <2>1, <2>2, <2>3 DEF Part
<1> QED
  BY <1>2, <1>3, <1>4

\* The first k lines taken away.
LEMMA PartRest ==
  ASSUME NEW L, NEW a \in Nat, NEW b \in Nat, NEW A, Part(L, a, b, A),
         NEW k \in Nat, k <= Len(A)
  PROVE  Part(L, a + k, b, SubSeq(A, k + 1, Len(A)))
<1>1. A \in Seq(Lines) /\ Len(A) = b - a + 1 /\ \A j \in 1 .. Len(A) : A[j] = L[a - 1 + j]
  BY DEF Part
<1>2. PICK o \in Nat : o = Len(A)
  BY <1>1
<1>3. PICK B : B = SubSeq(A, k + 1, o)
  OBVIOUS
<1>4. B \in Seq(Lines) /\ Len(B) = o - k /\ \A j \in 1 .. o - k : B[j] = A[j + k]
  BY <1>1, <1>2, <1>3
<1>5. ASSUME NEW j \in 1 .. o - k PROVE B[j] = L[(a + k) - 1 + j]
  <2>1. j + k \in 1 .. o /\ a - 1 + (j + k) = (a + k) - 1 + j
    BY <1>2
  <2>2. A[j + k] = L[a - 1 + (j + k)]
    BY <1>1, <1>2, <2>1, Zenon
  <2> QED
    BY <1>4, <2>1, <2>2
<1>6. Len(B) = b - (a + k) + 1
  BY <1>1, <1>2, <1>4
<1> QED
  BY <1>2, <1>3, <1>4, <1>5, <1>6 DEF Part

\* The blank lines that a sequence begins with are taken away, no others.
LEMMA WithoutBlanks ==
  ASSUME NEW A \in Seq(Lines), NEW k \in Nat, k < Len(A),
         \A i \in 1 .. k : A[i] = blank, A[k + 1] # blank
  PROVE  without_blanks(A) = SubSeq(A, k + 1, Len(A))
<1> DEFINE S == {i \in DOMAIN A : is_blank(SubSeq(A, 1, i))}
<1>1. ASSUME NEW i \in 1 .. Len(A) PROVE is_blank(SubSeq(A, 1, i)) <=> i <= k
  <2>1. DOMAIN SubSeq(A, 1, i) = 1 .. i /\ \A j \in 1 .. i : SubSeq(A, 1, i)[j] = A[j]
    OBVIOUS
  <2>2. is_blank(SubSeq(A, 1, i)) <=> \A j \in 1 .. i : A[j] = blank
    BY <2>1, Zenon DEF is_blank
  <2>3. ASSUME i <= k PROVE \A j \in 1 .. i : A[j] = blank
    <3>1. \A j \in 1 .. i : j \in 1 .. k
      BY <2>3
    <3> QED
      BY <3>1
  <2>4. ASSUME ~ (i <= k) PROVE k + 1 \in 1 .. i
    BY <2>4
  <2> QED
    BY <2>2, <2>3, <2>4
<1>2. S = 1 .. k
  <2>1. DOMAIN A = 1 .. Len(A) /\ Len(A) \in Nat
    OBVIOUS
  <2>2. \A i : i \in 1 .. k <=> i \in 1 .. Len(A) /\ i <= k
    BY <2>1
  <2> QED
    BY <1>1, <2>1, <2>2
<1> HIDE DEF S
<1>3. Cardinality(S) = k
  <2>1. PICK a \in Int, e \in Int : a = 1 /\ e = k
    OBVIOUS
  <2>2. Cardinality(a .. e) = IF a > e THEN 0 ELSE e - a + 1
    BY FS_Interval
  <2> QED
    BY <1>2, <2>1, <2>2
<1>4. without_blanks(A) = SubSeq(A, 1 + Cardinality(S), Len(A))
  BY DEF without_blanks, S
<1>5. 1 + k = k + 1
  OBVIOUS
<1> QED
  BY <1>3, <1>4, <1>5

\* A block has its message from the From on, the first one all of it.
base(T, n) == IF n = 1 THEN 1 ELSE from(T, n)

\* The block of a quoted message, its dashes taken away.
LEMMA BlockOf ==
  ASSUME NEW T \in Seq(Messages), Quotable(T), NEW N \in Nat \ {0}, N = Len(T),
         NEW c, NEW L, Layout(T, N, c, L), NEW n \in 2 .. N, NEW Q,
         Q = without_dashes(SubSeq(L, first(T, c, n), last(T, N, c, L, n)))
  PROVE  Part(L, c[n] + base(T, n), last(T, N, c, L, n), Q)
<1>0. n \in 1 .. N /\ n # 1
  OBVIOUS
<1>1. L \in Seq(Lines) /\ Len(L) \in Nat
  BY DEF Layout
<1>2. PICK a \in Nat, l \in Nat \ {0}, f \in Nat \ {0}, r \in Nat :
        /\ a = c[n] /\ l = length(T, n) /\ f = from(T, n) /\ r = last(T, N, c, L, n)
        /\ f <= l /\ a + l <= r /\ r <= Len(L)
  <2>1. /\ last(T, N, c, L, n) \in Nat /\ last(T, N, c, L, n) <= Len(L)
        /\ c[n] + length(T, n) <= last(T, N, c, L, n)
        /\ c[n] \in Nat /\ length(T, n) \in Nat \ {0}
        /\ from(T, n) \in Nat \ {0} /\ from(T, n) <= length(T, n)
    BY <1>0, BlockNumbers
  <2> QED
    BY <2>1, Zenon
<1>3. base(T, n) = f
  BY <1>0, <1>2 DEF base
<1>4. CASE extra(T, n) # 0 /\ f = 1
  <2>1. PICK e \in Nat : e = extra(T, n) /\ e <= a /\ (e = 1 \/ e = 2)
    <3>1. extra(T, n) \in 0 .. 2 /\ extra(T, n) <= c[n]
      BY <1>0, Spread
    <3>2. extra(T, n) \in Nat /\ (extra(T, n) = 1 \/ extra(T, n) = 2)
      BY <1>4, <3>1
    <3> QED
      BY <1>2, <3>1, <3>2
  <2>2. PICK p \in Nat : p = first(T, c, n) /\ p = (a + 1) - e
    <3>1. (a + 1) - e \in Nat
      BY <2>1
    <3> QED
      BY <1>2, <1>4, <2>1, <3>1 DEF first, rule_at
  <2>3. p \in 1 .. Len(L) /\ r \in p .. Len(L) /\ p < r /\ a < r
    <3>1. PICK o \in Nat : o = Len(L)
      BY <1>1
    <3>2. a + 1 <= r
      BY <1>2
    <3>3. r <= o
      BY <1>2, <3>1
    <3>4. p >= 1 /\ p <= a
      BY <2>1, <2>2
    <3>5. p \in 1 .. o /\ r \in p .. o /\ p < r /\ a < r
      BY <3>2, <3>3, <3>4
    <3> QED
      BY <3>1, <3>5
  <2>4. PICK B : B = SubSeq(L, p, r)
    OBVIOUS
  <2>5. B # <<>> /\ Head(B) = L[p] /\ Part(L, p + 1, r, Tail(B))
    BY <1>1, <2>3, <2>4, SubSeqPart
  <2>6. L[p] = dashes /\ (e = 2 => L[a] = blank)
    <3>1. /\ extra(T, n) # 0 => L[rule_at(T, c, n)] = dashes
          /\ extra(T, n) = 2 => L[c[n]] = blank
      BY <1>0 DEF Layout
    <3>2. p = rule_at(T, c, n)
      BY <1>2, <1>4, <2>2 DEF first
    <3> QED
      BY <1>2, <1>4, <2>1, <3>1, <3>2
  <2>7. Q = without_blanks(Tail(B))
    BY <1>2, <2>2, <2>4, <2>5, <2>6 DEF without_dashes
  <2>8. PICK A : A = Tail(B) /\ Part(L, p + 1, r, A)
    BY <2>5
  <2>9. A \in Seq(Lines) /\ Len(A) = r - p /\ \A j \in 1 .. Len(A) : A[j] = L[p + j]
    <3>1. A \in Seq(Lines) /\ Len(A) = r - (p + 1) + 1 /\ \A j \in 1 .. Len(A) : A[j] = L[(p + 1) - 1 + j]
      BY <2>8 DEF Part
    <3>2. \A j \in 1 .. Len(A) : (p + 1) - 1 + j = p + j
      BY <3>1
    <3> QED
      BY <3>1, <3>2
  <2>10. PICK k \in Nat : k = e - 1 /\ k < Len(A) /\ p + (k + 1) = a + 1 /\ k + 1 \in 1 .. Len(A)
    <3>1. /\ e - 1 \in Nat /\ e - 1 < r - p /\ p + ((e - 1) + 1) = a + 1
          /\ (e - 1) + 1 \in 1 .. r - p
      BY <2>1, <2>2, <2>3
    <3> QED
      BY <2>9, <3>1
  <2>11. A[k + 1] # blank
    <3>1. A[k + 1] = L[a + 1]
      BY <2>9, <2>10
    <3>2. L[a + 1] # blank
      BY <1>0, <1>2, FirstLine
    <3> QED
      BY <3>1, <3>2
  <2>12. ASSUME NEW i \in 1 .. k PROVE A[i] = blank
    <3>0. e = 2 /\ i = 1 /\ p + i = a
      <4>1. k = e - 1 /\ i \in 1 .. k
        BY <2>10
      <4>2. e = 2
        BY <2>1, <4>1
      <4>3. i = 1
        BY <4>1, <4>2
      <4>4. p + 1 = a
        BY <2>2, <4>2
      <4> QED
        BY <4>2, <4>3, <4>4
    <3>1. e = 2 /\ i \in 1 .. Len(A) /\ p + i = a
      <4>1. PICK z \in Nat : z = Len(A)
        BY <2>9
      <4> QED
        BY <2>10, <3>0, <4>1
    <3> QED
      BY <2>6, <2>9, <3>1
  <2>13. Q = SubSeq(A, k + 1, Len(A))
    BY <2>7, <2>8, <2>9, <2>10, <2>11, <2>12, WithoutBlanks
  <2>14. Part(L, (p + 1) + k, r, Q)
    <3>1. p + 1 \in Nat /\ k <= Len(A)
      BY <2>9, <2>10
    <3> QED
      BY <2>8, <2>13, <3>1, PartRest
  <2>15. (p + 1) + k = a + f
    BY <1>4, <2>10
  <2> QED
    BY <1>2, <1>3, <2>14, <2>15
<1>5. CASE ~ (extra(T, n) # 0 /\ f = 1)
  <2>1. first(T, c, n) = a + f
    BY <1>2, <1>5 DEF first
  <2>2. PICK p \in 1 .. Len(L) : p = a + f /\ r \in p .. Len(L)
    <3>1. a + f \in 1 .. Len(L) /\ r \in a + f .. Len(L)
      BY <1>1, <1>2
    <3> QED
      BY <3>1
  <2>3. PICK B : B = SubSeq(L, p, r)
    OBVIOUS
  <2>4. B # <<>> /\ Head(B) = L[p] /\ Part(L, p, r, B)
    BY <1>1, <2>2, <2>3, SubSeqPart
  <2>5. L[p] # dashes
    <3>1. starts_quoted_message(L, p)
      BY <1>2, <2>2, SeenAtFrom
    <3>2. marked(L[p])
      BY <3>1, Zenon DEF starts_quoted_message, marked
    <3>3. ~ marked(dashes)
      BY DEF marked, dashes
    <3> QED
      BY <3>2, <3>3
  <2>6. Q = B
    BY <1>2, <2>1, <2>2, <2>3, <2>4, <2>5 DEF without_dashes
  <2> QED
    BY <1>2, <1>3, <2>2, <2>4, <2>6
<1> QED
  BY <1>4, <1>5

\* The first block is not quoted and not blank.
LEMMA TopBlock ==
  ASSUME NEW T \in Seq(Messages), NEW N \in Nat \ {0}, N = Len(T),
         NEW c, NEW L, Layout(T, N, c, L), NEW B, B = SubSeq(L, 1, last(T, N, c, L, 1))
  PROVE  Part(L, c[1] + base(T, 1), last(T, N, c, L, 1), without_blanks(B)) /\ ~is_blank(B)
<1>0. 1 \in 1 .. N
  OBVIOUS
<1>1. L \in Seq(Lines) /\ Len(L) \in Nat /\ c[1] = 0
  BY DEF Layout
<1>2. PICK r \in Nat : r = last(T, N, c, L, 1) /\ r <= Len(L) /\ 1 <= r
  <2>1. /\ last(T, N, c, L, 1) \in Nat /\ last(T, N, c, L, 1) <= Len(L)
        /\ c[1] + length(T, 1) <= last(T, N, c, L, 1) /\ length(T, 1) \in Nat \ {0}
    BY <1>0, BlockNumbers
  <2> QED
    BY <1>1, <2>1
<1>3. PICK a \in 1 .. Len(L) : a = 1 /\ r \in a .. Len(L)
  BY <1>1, <1>2
<1>4. Part(L, a, r, B) /\ B # <<>> /\ Head(B) = L[a]
  <2>1. B = SubSeq(L, a, r)
    BY <1>2, <1>3
  <2> QED
    BY <1>1, <1>3, <2>1, SubSeqPart, ZenonT(30)
<1>5. B \in Seq(Lines) /\ B[1] = L[1] /\ L[1] # blank /\ 0 < Len(B) /\ 1 \in DOMAIN B
  <2>1. B \in Seq(Lines)
    BY <1>4 DEF Part
  <2>2. L[c[1] + 1] # blank /\ c[1] + 1 = 1
    BY <1>0, <1>1, FirstLine
  <2> QED
    BY <1>3, <1>4, <2>1, <2>2
<1>6. ~is_blank(B)
  BY <1>5 DEF is_blank
<1>7. PICK k \in Nat : k = 0 /\ k < Len(B) /\ k + 1 = 1
  BY <1>5
<1>8. without_blanks(B) = SubSeq(B, k + 1, Len(B))
  <2>1. \A i \in 1 .. k : B[i] = blank
    BY <1>7
  <2> QED
    BY <1>5, <1>7, <2>1, WithoutBlanks
<1>9. Part(L, a + k, r, without_blanks(B))
  <2>1. a \in Nat /\ k <= Len(B)
    BY <1>3, <1>5, <1>7
  <2> QED
    BY <1>4, <1>8, <2>1, PartRest
<1>10. a + k = c[1] + base(T, 1)
  BY <1>1, <1>3, <1>7 DEF base
<1> QED
  BY <1>2, <1>6, <1>9, <1>10

\* There is one block for each message.
LEMMA Blocks ==
  ASSUME NEW T \in Seq(Messages), Quotable(T), NEW N \in Nat \ {0}, N = Len(T),
         NEW c, NEW L, Layout(T, N, c, L)
  PROVE  \E blocks :
           /\ split_message_blocks(L) = blocks
           /\ DOMAIN blocks = 1 .. N
           /\ \A n \in 1 .. N :
                Part(L, c[n] + base(T, n), last(T, N, c, L, n), blocks[n])
<1> DEFINE s == [k \in 1 .. N - 1 |-> first(T, c, k + 1)]
           S == {i \in DOMAIN L : starts_message(L, i)}
           top == SubSeq(L, 1, IF s = <<>> THEN Len(L) ELSE s[1] - 1)
           head == without_blanks(top)
           rest == [k \in DOMAIN s |->
                      without_dashes(SubSeq(L, s[k],
                        IF k = Len(s) THEN Len(L) ELSE s[k + 1] - 1))]
<1>1. in_order(S) = s
  <2>1. \A k \in 1 .. N - 1 : k + 1 \in 2 .. N
    OBVIOUS
  <2>2. s \in [1 .. N - 1 -> Nat]
    BY <2>1, StartsIncrease
  <2>3. \A i \in 1 .. N - 1, j \in 1 .. N - 1 : i < j => s[i] < s[j]
    <3> SUFFICES ASSUME NEW i \in 1 .. N - 1, NEW j \in 1 .. N - 1, i < j PROVE s[i] < s[j]
      OBVIOUS
    <3>1. i + 1 < j + 1
      OBVIOUS
    <3>2. first(T, c, i + 1) < first(T, c, j + 1)
      BY <2>1, <3>1, StartsIncrease
    <3> QED
      BY <3>2
  <2>4. S = {s[i] : i \in 1 .. N - 1}
    <3>1. S = {first(T, c, n) : n \in 2 .. N}
      BY MessageStarts
    <3>2. \A n \in 2 .. N : n - 1 \in 1 .. N - 1 /\ (n - 1) + 1 = n
      OBVIOUS
    <3>3. \A n \in 2 .. N : first(T, c, n) = s[n - 1]
      BY <3>2
    <3>4. \A i \in 1 .. N - 1 : s[i] = first(T, c, i + 1)
      OBVIOUS
    <3> HIDE DEF s, S
    <3> QED
      BY <2>1, <3>1, <3>2, <3>3, <3>4
  <2>5. N - 1 \in Nat
    OBVIOUS
  <2> HIDE DEF s, S
  <2> QED
    BY <2>2, <2>3, <2>4, <2>5, InOrder
<1>2. s \in Seq(Nat) /\ Len(s) = N - 1 /\ DOMAIN s = 1 .. N - 1
  <2>1. \A k \in 1 .. N - 1 : first(T, c, k + 1) \in Nat
    <3>1. \A k \in 1 .. N - 1 : k + 1 \in 2 .. N
      OBVIOUS
    <3> QED
      BY <3>1, StartsIncrease
  <2> QED
    BY <2>1
<1>3. \A k \in 1 .. N - 1 : s[k] = first(T, c, k + 1)
  OBVIOUS
<1>4. split_message_blocks(L) = (IF is_blank(top) THEN <<>> ELSE <<head>>) \o rest
  <2> HIDE DEF s
  <2> QED
    BY <1>1, Zenon DEF split_message_blocks
<1> HIDE DEF s
<1>5. top = SubSeq(L, 1, last(T, N, c, L, 1))
  <2>1. CASE N = 1
    <3>1. s = <<>>
      BY <1>2, <2>1
    <3> QED
      BY <2>1, <3>1 DEF last
  <2>2. CASE N # 1
    <3>1. s # <<>> /\ 1 \in 1 .. N - 1
      BY <1>2, <2>2
    <3>2. s[1] = first(T, c, 1 + 1)
      BY <1>3, <3>1
    <3> QED
      BY <2>2, <3>1, <3>2 DEF last
  <2> QED
    BY <2>1, <2>2
<1>6. ASSUME NEW n \in 2 .. N
      PROVE  Part(L, c[n] + base(T, n), last(T, N, c, L, n), rest[n - 1])
  <2>1. n - 1 \in 1 .. N - 1 /\ (n - 1) + 1 = n
    OBVIOUS
  <2>2. s[n - 1] = first(T, c, n)
    BY <1>3, <2>1
  <2>3. (IF n - 1 = Len(s) THEN Len(L) ELSE s[n] - 1) = last(T, N, c, L, n)
    <3>1. CASE n = N
      BY <1>2, <3>1 DEF last
    <3>2. CASE n # N
      <4>1. n \in 1 .. N - 1 /\ n - 1 # Len(s)
        BY <1>2, <3>2
      <4>2. s[n] = first(T, c, n + 1)
        BY <1>3, <4>1
      <4> QED
        BY <3>2, <4>1, <4>2 DEF last
    <3> QED
      BY <3>1, <3>2
  <2>4. rest[n - 1] = without_dashes(SubSeq(L, first(T, c, n), last(T, N, c, L, n)))
    BY <1>2, <2>1, <2>2, <2>3
  <2> HIDE DEF rest
  <2> QED
    BY <2>4, BlockOf
<1>7. Part(L, c[1] + base(T, 1), last(T, N, c, L, 1), head) /\ ~is_blank(top)
  <2> HIDE DEF top
  <2> QED
    BY <1>5, TopBlock
<1>8. split_message_blocks(L) = <<head>> \o rest
  BY <1>4, <1>7, Zenon
<1>9. rest \in Seq(Seq(Lines)) /\ Len(rest) = N - 1
  <2>1. \A k \in 1 .. N - 1 : rest[k] \in Seq(Lines)
    <3>1. \A k \in 1 .. N - 1 : k + 1 \in 2 .. N /\ (k + 1) - 1 = k
      OBVIOUS
    <3> HIDE DEF rest
    <3>2. \A k \in 1 .. N - 1 : Part(L, c[k + 1] + base(T, k + 1), last(T, N, c, L, k + 1), rest[k])
      BY <1>6, <3>1
    <3> QED
      BY <3>2 DEF Part
  <2>2. rest = [k \in 1 .. N - 1 |-> rest[k]]
    BY <1>2
  <2> HIDE DEF rest
  <2> QED
    BY <2>1, <2>2
<1>10. PICK a \in Seq(Seq(Lines)) : a = <<head>> /\ Len(a) = 1 /\ a[1] = head
  <2>1. head \in Seq(Lines)
    BY <1>7 DEF Part
  <2> HIDE DEF head
  <2>2. PICK a : a = <<head>>
    OBVIOUS
  <2>3. a \in Seq(Seq(Lines)) /\ Len(a) = 1 /\ a[1] = head
    BY <2>1, <2>2, OneLine
  <2> QED
    BY <2>2, <2>3
<1> HIDE DEF top, head, rest
<1> DEFINE blocks == a \o rest
<1>11. /\ blocks \in Seq(Seq(Lines)) /\ Len(blocks) = N
       /\ blocks[1] = head /\ \A k \in 1 .. N - 1 : blocks[k + 1] = rest[k]
  BY <1>9, <1>10
<1> HIDE DEF blocks
<1>12. ASSUME NEW n \in 1 .. N
       PROVE  Part(L, c[n] + base(T, n), last(T, N, c, L, n), blocks[n])
  <2>1. CASE n = 1
    BY <1>7, <1>11, <2>1
  <2>2. CASE n # 1
    <3>1. n \in 2 .. N /\ n - 1 \in 1 .. N - 1 /\ (n - 1) + 1 = n
      BY <2>2
    <3>2. blocks[n] = rest[n - 1]
      BY <1>11, <3>1
    <3> QED
      BY <1>6, <3>1, <3>2
  <2> QED
    BY <2>1, <2>2
<1>13. split_message_blocks(L) = blocks /\ DOMAIN blocks = 1 .. N
  BY <1>8, <1>10, <1>11 DEF blocks
<1> QED
  BY <1>12, <1>13

-----------------------------------------------------------------------------
(* The Message-ID of a block                                               *)

\* Unquoting takes the mark away and nothing of what the line says.
LEMMA UnquoteLine ==
  ASSUME NEW line \in Lines, NEW mark \in Marks, NEW u, u = unquote(line, mark)
  PROVE  /\ u \in Lines /\ u.kind = line.kind /\ u.name = line.name /\ u.value = line.value
         /\ line.mark # mark => u = line
         /\ line.mark = mark => u.mark = "" /\ u.indented = (mark # ">" /\ line.indented)
<1>1. CASE line.mark # mark
  BY <1>1 DEF unquote
<1>2. CASE line.mark = mark
  <2>1. u = [line EXCEPT !.mark = "", !.indented = (mark # ">") /\ line.indented]
    BY <1>2 DEF unquote
  <2> QED
    BY <1>2, <2>1 DEF Lines, Marks
<1> QED
  BY <1>1, <1>2

\* An unquoted line is a line.
LEMMA UnquotedIsLine ==
  ASSUME NEW line \in Lines, NEW mark \in Marks
  PROVE  unquote(line, mark) \in Lines
<1>1. PICK u : u = unquote(line, mark)
  OBVIOUS
<1>2. u \in Lines
  BY <1>1, UnquoteLine, Zenon
<1> QED
  BY <1>1, <1>2

\* A line of a message once the quotation of its block is taken away.
Unquoted(T, n, own, u) ==
  /\ u \in Lines /\ OwnLine(own) /\ u.mark = ""
  /\ u.kind = own.kind /\ u.name = own.name /\ u.value = own.value
  /\ u.indented = (mark_of(T, n) # ">" /\ (own.indented \/ wide_of(T, n)))

\* A line of the message of a block, once it is unquoted.
LEMMA OwnUnquoted ==
  ASSUME NEW T \in Seq(Messages), NEW n \in 1 .. Len(T), NEW i \in 1 .. length(T, n),
         NEW own, own = message_lines(T[n])[i],
         NEW u, u = unquote(line_of(T, n, i), mark_of(T, n))
  PROVE  /\ Unquoted(T, n, own, u)
         /\ i <= place(T, n).stop => /\ names_from(u) <=> i = place(T, n).from
                                     /\ names_id(u) <=> i = place(T, n).id
<1>1. PICK line : line = line_of(T, n, i)
  OBVIOUS
<1>2. /\ line \in Lines /\ own \in Lines /\ OwnLine(own)
      /\ line.mark = mark_of(T, n) /\ line.indented = (own.indented \/ wide_of(T, n))
      /\ line.kind = own.kind /\ line.name = own.name /\ line.value = own.value
      /\ i <= place(T, n).stop => /\ names_from(line) <=> i = place(T, n).from
                                  /\ names_id(line) <=> i = place(T, n).id
  BY <1>1, LineFacts
<1>3. PICK mark \in Marks : mark = mark_of(T, n)
  BY MarkOf
<1>4. /\ u \in Lines /\ u.kind = line.kind /\ u.name = line.name /\ u.value = line.value
      /\ u.mark = "" /\ u.indented = (mark # ">" /\ line.indented)
  <2>1. u = unquote(line, mark) /\ line \in Lines
    BY <1>1, <1>2, <1>3, Zenon
  <2>2. /\ u \in Lines /\ u.kind = line.kind /\ u.name = line.name /\ u.value = line.value
        /\ line.mark # mark => u = line
        /\ line.mark = mark => u.mark = "" /\ u.indented = (mark # ">" /\ line.indented)
    BY <2>1, UnquoteLine, Zenon
  <2> QED
    BY <1>2, <1>3, <2>2, Zenon
<1>5. Unquoted(T, n, own, u)
  BY <1>2, <1>3, <1>4, Zenon DEF Unquoted
<1>6. (names_from(u) <=> names_from(line)) /\ (names_id(u) <=> names_id(line))
  BY <1>4, Zenon DEF names_from, names_id
<1> QED
  BY <1>2, <1>5, <1>6, Zenon

\* The block of a message has its lines from the first one that is read.
LEMMA OwnPart ==
  ASSUME NEW T \in Seq(Messages), NEW N \in Nat \ {0}, N = Len(T),
         NEW c, NEW L, Layout(T, N, c, L), NEW n \in 1 .. N,
         NEW B, Part(L, c[n] + base(T, n), last(T, N, c, L, n), B)
  PROVE  /\ base(T, n) \in 1 .. length(T, n)
         /\ B \in Seq(Lines) /\ length(T, n) - base(T, n) + 1 <= Len(B)
         /\ \A i \in base(T, n) .. length(T, n) : B[i - base(T, n) + 1] = line_of(T, n, i)
<1>1. PICK a \in Nat, l \in Nat \ {0}, b \in Nat \ {0}, r \in Nat :
        /\ a = c[n] /\ l = length(T, n) /\ b = base(T, n) /\ r = last(T, N, c, L, n)
        /\ b <= l /\ a + l <= r
  <2>1. /\ last(T, N, c, L, n) \in Nat
        /\ c[n] + length(T, n) <= last(T, N, c, L, n)
        /\ c[n] \in Nat /\ length(T, n) \in Nat \ {0}
        /\ from(T, n) \in Nat \ {0} /\ from(T, n) <= length(T, n)
    BY BlockNumbers
  <2>2. base(T, n) \in Nat \ {0} /\ base(T, n) <= length(T, n)
    BY <2>1 DEF base
  <2> QED
    BY <2>1, <2>2, Zenon
<1>2. /\ B \in Seq(Lines) /\ Len(B) = r - (a + b) + 1
      /\ \A j \in 1 .. Len(B) : B[j] = L[(a + b) - 1 + j]
  BY <1>1, Zenon DEF Part
<1>3. b \in 1 .. l /\ l - b + 1 <= Len(B)
  <2>1. PICK z \in Nat : z = Len(B) /\ z = r - (a + b) + 1
    BY <1>2
  <2>2. b <= l /\ a + l <= r
    BY <1>1, Zenon
  <2>3. b \in 1 .. l /\ l - b + 1 <= z
    BY <2>1, <2>2
  <2> QED
    BY <2>1, <2>3, Zenon
<1>4. \A i \in 1 .. l : L[a + i] = line_of(T, n, i)
  BY <1>1 DEF Layout
<1>5. ASSUME NEW i \in b .. l PROVE B[i - b + 1] = line_of(T, n, i)
  <2>1. i - b + 1 \in 1 .. Len(B) /\ (a + b) - 1 + (i - b + 1) = a + i /\ i \in 1 .. l
    BY <1>3
  <2>2. B[i - b + 1] = L[(a + b) - 1 + (i - b + 1)]
    BY <1>2, <2>1
  <2> QED
    BY <1>4, <2>1, <2>2
<1> QED
  BY <1>1, <1>2, <1>3, <1>5

\* After that come the lines of the next message that its block does not
\* start with: the dashes with their blank line, and the headers before its
\* From.
LEMMA TailPart ==
  ASSUME NEW T \in Seq(Messages), NEW N \in Nat \ {0}, N = Len(T),
         NEW c, NEW L, Layout(T, N, c, L), NEW n \in 1 .. N,
         NEW B, Part(L, c[n] + base(T, n), last(T, N, c, L, n), B),
         NEW j \in 1 .. Len(B), length(T, n) - base(T, n) + 1 < j
  PROVE  \E k \in 2 .. N :
           /\ k = n + 1
           /\ \/ B[j] = dashes
              \/ B[j] = blank /\ j # length(T, n) - base(T, n) + 2
              \/ \E t \in 1 .. from(T, k) - 1 :
                   /\ B[j] = line_of(T, k, t)
                   /\ j = length(T, n) - base(T, n) + 2 => t = 1
<1>1. PICK a \in Nat, l \in Nat \ {0}, b \in Nat \ {0}, r \in Nat, o \in Nat :
        /\ a = c[n] /\ l = length(T, n) /\ b = base(T, n) /\ r = last(T, N, c, L, n)
        /\ b <= l /\ a + l <= r /\ o = Len(L) /\ r <= o
  <2>1. /\ last(T, N, c, L, n) \in Nat /\ last(T, N, c, L, n) <= Len(L)
        /\ c[n] + length(T, n) <= last(T, N, c, L, n)
        /\ c[n] \in Nat /\ length(T, n) \in Nat \ {0}
        /\ from(T, n) \in Nat \ {0} /\ from(T, n) <= length(T, n)
    BY BlockNumbers
  <2>2. base(T, n) \in Nat \ {0} /\ base(T, n) <= length(T, n)
    BY <2>1 DEF base
  <2>3. Len(L) \in Nat
    BY DEF Layout
  <2> QED
    BY <2>1, <2>2, <2>3, Zenon
<1>2. B \in Seq(Lines) /\ Len(B) = r - (a + b) + 1 /\ B[j] = L[(a + b) - 1 + j]
  BY <1>1, Zenon DEF Part
<1>3. PICK i \in Nat : i = (a + b) - 1 + j /\ a + l < i /\ i <= r /\ B[j] = L[i]
  <2>1. PICK w \in Int : w = Len(B) /\ w = r - (a + b) + 1
    BY <1>2
  <2>2. j \in Nat /\ j <= w /\ l - b + 1 < j
    BY <1>1, <2>1
  <2>3. (a + b) - 1 + j \in Nat /\ a + l < (a + b) - 1 + j /\ (a + b) - 1 + j <= r
    BY <2>1, <2>2
  <2> QED
    BY <1>2, <2>3
<1>4. n # N
  <2> SUFFICES ASSUME n = N PROVE FALSE
    OBVIOUS
  <2>1. r = o
    BY <1>1 DEF last
  <2>2. Len(L) = c[N] + length(T, N)
    BY DEF Layout
  <2>3. r = a + l
    BY <1>1, <2>1, <2>2, Zenon
  <2>4. a + l < i /\ i <= r
    BY <1>3
  <2> QED
    BY <2>3, <2>4
<1>5. PICK k \in 2 .. N : k = n + 1 /\ n \in 1 .. N - 1 /\ k \in 1 .. N
  <2>1. n + 1 \in 2 .. N /\ n \in 1 .. N - 1
    BY <1>4
  <2> QED
    BY <2>1
<1>6. PICK d \in Nat, e \in 0 .. 2, f \in Nat \ {0} :
        d = c[k] /\ e = extra(T, k) /\ f = from(T, k) /\ d = a + l + e
  <2>1. c[n + 1] = c[n] + length(T, n) + extra(T, n + 1)
    BY <1>5 DEF Layout
  <2>2. /\ c[k] \in Nat /\ length(T, k) \in Nat \ {0}
        /\ from(T, k) \in Nat \ {0} /\ from(T, k) <= length(T, k)
    BY <1>5, BlockNumbers
  <2>3. extra(T, k) \in 0 .. 2
    BY <1>5 DEF Layout
  <2> QED
    BY <1>1, <1>5, <2>1, <2>2, <2>3
<1>7. r = (IF e # 0 /\ f = 1 THEN (d + 1) - e ELSE d + f) - 1
  BY <1>1, <1>4, <1>5, <1>6 DEF last, first, rule_at
<1>8. ~ (e # 0 /\ f = 1) /\ r = d + f - 1
  <2>1. ASSUME e # 0, f = 1 PROVE FALSE
    <3>1. r = ((d + 1) - e) - 1
      BY <1>7, <2>1
    <3>2. r = a + l
      BY <1>6, <3>1
    <3> QED
      BY <1>3, <3>2
  <2>2. ~ (e # 0 /\ f = 1)
    BY <2>1
  <2> QED
    BY <1>7, <2>2
<1>9. CASE i <= d
  <2>1. (e # 0 /\ i = (d + 1) - e) \/ (e = 2 /\ i = d)
    <3>1. a + l < i /\ i <= d /\ d = a + l + e
      BY <1>3, <1>6, <1>9
    <3>2. e = 0 \/ e = 1 \/ e = 2
      BY <1>6
    <3>3. e # 0
      BY <3>1
    <3>4. e = 1 => i = d
      BY <3>1
    <3>5. e = 2 => i = d \/ i = d - 1
      BY <3>1
    <3> QED
      BY <3>2, <3>3, <3>4, <3>5
  <2>2. CASE e # 0 /\ i = (d + 1) - e
    <3>1. L[rule_at(T, c, k)] = dashes
      BY <1>5, <1>6, <2>2 DEF Layout
    <3>2. rule_at(T, c, k) = i
      BY <1>6, <2>2 DEF rule_at
    <3> QED
      BY <1>3, <1>5, <3>1, <3>2
  <2>3. CASE e = 2 /\ i = d
    <3>1. L[c[k]] = blank
      BY <1>5, <1>6, <2>3 DEF Layout
    <3>2. j # l - b + 2
      <4>1. d = a + l + 2 /\ d = (a + b) - 1 + j
        BY <1>3, <1>6, <2>3
      <4> QED
        BY <4>1
    <3> QED
      BY <1>1, <1>3, <1>5, <1>6, <2>3, <3>1, <3>2
  <2> QED
    BY <2>1, <2>2, <2>3
<1>10. CASE ~ (i <= d)
  <2>1. PICK t \in 1 .. f - 1 : i = d + t
    <3>1. i <= r /\ r = d + f - 1
      BY <1>3, <1>8
    <3>2. i - d \in 1 .. f - 1 /\ i = d + (i - d)
      BY <1>10, <3>1
    <3> QED
      BY <3>2
  <2>2. t \in 1 .. length(T, k)
    <3>1. length(T, k) \in Nat \ {0} /\ from(T, k) <= length(T, k)
      BY <1>5, BlockNumbers
    <3> QED
      BY <1>6, <3>1
  <2>3. L[d + t] = line_of(T, k, t)
    <3>1. \A s \in 1 .. length(T, k) : L[c[k] + s] = line_of(T, k, s)
      BY <1>5, Zenon DEF Layout
    <3> QED
      BY <1>6, <2>2, <3>1, Zenon
  <2>4. j = l - b + 2 => t = 1
    <3>1. i = (a + b) - 1 + j /\ d = a + l + e /\ i = d + t
      BY <1>3, <1>6, <2>1
    <3>2. j = l - b + 2 => e + t = 1
      BY <3>1
    <3> QED
      BY <3>2
  <2> QED
    BY <1>1, <1>3, <1>5, <1>6, <2>1, <2>3, <2>4
<1> QED
  BY <1>9, <1>10

\* The lines of a block without the quotation.
LEMMA BlockLines ==
  ASSUME NEW T \in Seq(Messages), NEW N \in Nat \ {0}, N = Len(T),
         NEW c, NEW L, Layout(T, N, c, L), NEW n \in 1 .. N,
         NEW B, Part(L, c[n] + base(T, n), last(T, N, c, L, n), B)
  PROVE  /\ B \in Seq(Lines) /\ Len(B) \in Nat \ {0}
         /\ strip_quote_prefixes(B) = [j \in 1 .. Len(B) |-> unquote(B[j], mark_of(T, n))]
<1>1. /\ base(T, n) \in 1 .. length(T, n)
      /\ B \in Seq(Lines) /\ length(T, n) - base(T, n) + 1 <= Len(B)
      /\ \A i \in base(T, n) .. length(T, n) : B[i - base(T, n) + 1] = line_of(T, n, i)
  BY OwnPart
<1>2. PICK b \in Nat \ {0}, l \in Nat \ {0} : b = base(T, n) /\ l = length(T, n) /\ b <= l
  <2>1. length(T, n) \in Nat \ {0}
    BY BlockNumbers
  <2> QED
    BY <1>1, <2>1
<1>3. Len(B) \in Nat \ {0}
  <2>1. l - b + 1 <= Len(B) /\ Len(B) \in Nat
    BY <1>1, <1>2
  <2> QED
    BY <1>2, <2>1
<1>4. Head(B).mark = mark_of(T, n)
  <2>1. b - b + 1 = 1 /\ b \in b .. l /\ b \in 1 .. l
    BY <1>2
  <2>2. B[1] = line_of(T, n, b)
    BY <1>1, <1>2, <2>1
  <2>3. Head(B) = B[1]
    BY <1>1, <1>3
  <2>4. PICK i \in 1 .. length(T, n) : i = b
    BY <1>2, <2>1
  <2>5. PICK line, own : line = line_of(T, n, i) /\ own = message_lines(T[n])[i]
    OBVIOUS
  <2>6. line.mark = mark_of(T, n)
    BY <2>5, LineFacts
  <2> QED
    BY <2>2, <2>3, <2>4, <2>5, <2>6
<1>5. DOMAIN B = 1 .. Len(B)
  BY <1>1
<1> QED
  BY <1>1, <1>3, <1>4, <1>5 DEF strip_quote_prefixes

\* Its own lines and those of the next message.
OwnLines(T, n, b, l, u) ==
  \A i \in b .. l :
    /\ Unquoted(T, n, message_lines(T[n])[i], u[i - b + 1])
    /\ i <= place(T, n).stop => /\ names_from(u[i - b + 1]) <=> i = place(T, n).from
                                /\ names_id(u[i - b + 1]) <=> i = place(T, n).id

TailLines(T, N, n, q, p, u) ==
  \A j \in q + 1 .. p :
    \E k \in 2 .. N :
      /\ k = n + 1
      /\ \/ u[j] = unquote(dashes, mark_of(T, n))
         \/ u[j] = unquote(blank, mark_of(T, n)) /\ j # q + 1
         \/ \E t \in 1 .. from(T, k) - 1 :
              u[j] = unquote(line_of(T, k, t), mark_of(T, n)) /\ (j = q + 1 => t = 1)

\* How the block B of the n-th message is read: p lines, of which the first q
\* are its own.
ReadsAs(T, N, n, B, u, p, l, b, q, st) ==
  /\ p \in Nat \ {0} /\ l \in Nat \ {0} /\ b \in Nat \ {0} /\ q \in Nat \ {0}
  /\ l = length(T, n) /\ b = base(T, n) /\ b <= l /\ q = l - b + 1 /\ q <= p
  /\ OwnLines(T, n, b, l, u) /\ TailLines(T, N, n, q, p, u)
  /\ Reading(st, u, p) /\ message_id_of(B) = st[p].message_id

\* Each block is read in this way.
LEMMA BlockReading ==
  ASSUME NEW T \in Seq(Messages), NEW N \in Nat \ {0}, N = Len(T),
         NEW c, NEW L, Layout(T, N, c, L), NEW n \in 1 .. N,
         NEW B, Part(L, c[n] + base(T, n), last(T, N, c, L, n), B)
  PROVE  \E u, p, l, b, q, st : ReadsAs(T, N, n, B, u, p, l, b, q, st)
<1>1. /\ B \in Seq(Lines) /\ Len(B) \in Nat \ {0}
      /\ strip_quote_prefixes(B) = [j \in 1 .. Len(B) |-> unquote(B[j], mark_of(T, n))]
  BY BlockLines
<1>2. PICK p \in Nat \ {0} : p = Len(B)
  BY <1>1
<1>3. PICK u : u = [j \in 1 .. p |-> unquote(B[j], mark_of(T, n))]
  OBVIOUS
<1>4. PICK b \in Nat \ {0}, l \in Nat \ {0}, q \in Nat \ {0} :
        b = base(T, n) /\ l = length(T, n) /\ b <= l /\ q = l - b + 1 /\ q <= p
  <2>1. /\ base(T, n) \in 1 .. length(T, n) /\ length(T, n) - base(T, n) + 1 <= Len(B)
    BY OwnPart
  <2>2. PICK l \in Nat \ {0} : l = length(T, n)
    BY BlockNumbers
  <2>3. PICK b \in Nat \ {0} : b = base(T, n) /\ b <= l
    BY <2>1, <2>2
  <2>4. l - b + 1 \in Nat \ {0} /\ l - b + 1 <= p
    BY <1>2, <1>3, <2>1, <2>2, <2>3
  <2> QED
    BY <2>2, <2>3, <2>4
<1>5. PICK st : /\ st[0] = start
                /\ \A j \in 1 .. p : st[j] = read_line(st[j - 1], strip_quote_prefixes(B)[j])
                /\ message_id_of(B) = st[p].message_id
  <2>1. DOMAIN B = 1 .. p /\ p \in Nat
    BY <1>1, <1>2, <1>3
  <2> QED
    BY <2>1, StatesOfLoop
<1>6. Reading(st, u, p)
  <2>1. ASSUME NEW j \in 1 .. p PROVE u[j] \in Lines
    <3>1. PICK line \in Lines : line = B[j]
      BY <1>1, <1>2, <1>3
    <3>2. PICK mark \in Marks : mark = mark_of(T, n)
      BY MarkOf
    <3>3. u[j] = unquote(line, mark)
      BY <1>2, <1>3, <3>1, <3>2
    <3> QED
      BY <3>3, UnquotedIsLine
  <2>2. strip_quote_prefixes(B) = u
    BY <1>1, <1>2, <1>3
  <2> QED
    BY <1>5, <2>1, <2>2 DEF Reading
<1>7. OwnLines(T, n, b, l, u)
  <2> SUFFICES ASSUME NEW i \in b .. l
               PROVE  /\ Unquoted(T, n, message_lines(T[n])[i], u[i - b + 1])
                      /\ i <= place(T, n).stop =>
                           /\ names_from(u[i - b + 1]) <=> i = place(T, n).from
                           /\ names_id(u[i - b + 1]) <=> i = place(T, n).id
    BY DEF OwnLines
  <2>1. i \in 1 .. length(T, n) /\ i - b + 1 \in 1 .. p
    BY <1>4, SMTT(30)
  <2>2. B[i - b + 1] = line_of(T, n, i)
    <3>1. \A k \in base(T, n) .. length(T, n) : B[k - base(T, n) + 1] = line_of(T, n, k)
      BY OwnPart
    <3> QED
      BY <1>4, <3>1
  <2>3. PICK w : w = u[i - b + 1] /\ w = unquote(line_of(T, n, i), mark_of(T, n))
    BY <1>2, <1>3, <2>1, <2>2
  <2>4. PICK own : own = message_lines(T[n])[i]
    OBVIOUS
  <2>5. /\ Unquoted(T, n, own, w)
        /\ i <= place(T, n).stop => /\ names_from(w) <=> i = place(T, n).from
                                    /\ names_id(w) <=> i = place(T, n).id
    BY <2>1, <2>3, <2>4, OwnUnquoted
  <2> QED
    BY <2>3, <2>4, <2>5, Zenon
<1>8. TailLines(T, N, n, q, p, u)
  <2> SUFFICES ASSUME NEW j \in q + 1 .. p
               PROVE  \E k \in 2 .. N :
                        /\ k = n + 1
                        /\ \/ u[j] = unquote(dashes, mark_of(T, n))
                           \/ u[j] = unquote(blank, mark_of(T, n)) /\ j # q + 1
                           \/ \E t \in 1 .. from(T, k) - 1 :
                                /\ u[j] = unquote(line_of(T, k, t), mark_of(T, n))
                                /\ j = q + 1 => t = 1
    BY DEF TailLines
  <2>1. j \in 1 .. Len(B) /\ length(T, n) - base(T, n) + 1 < j
    BY <1>2, <1>3, <1>4, SMTT(30)
  <2>2. PICK k \in 2 .. N :
           /\ k = n + 1
           /\ \/ B[j] = dashes
              \/ B[j] = blank /\ j # length(T, n) - base(T, n) + 2
              \/ \E t \in 1 .. from(T, k) - 1 :
                   /\ B[j] = line_of(T, k, t)
                   /\ j = length(T, n) - base(T, n) + 2 => t = 1
    BY <2>1, TailPart
  <2>3. u[j] = unquote(B[j], mark_of(T, n))
    BY <1>2, <1>3, <2>1
  <2>4. j = q + 1 <=> j = length(T, n) - base(T, n) + 2
    <3>1. l - b + 2 = q + 1
      BY <1>4
    <3> QED
      BY <1>4, <3>1
  <2> QED
    BY <2>2, <2>3, <2>4
<1>9. ReadsAs(T, N, n, B, u, p, l, b, q, st)
  BY <1>4, <1>5, <1>6, <1>7, <1>8, Zenon DEF ReadsAs
<1> QED
  BY <1>9

\* A line of the next message within a block.
LEMMA DashesUnquoted ==
  ASSUME NEW mark \in Marks, NEW w, w = unquote(dashes, mark)
  PROVE  ~names_id(w) /\ ~empty(w) /\ ~continues(w)
<1>1. dashes \in Lines /\ dashes.kind = "dashes" /\ ~dashes.indented
  BY DEF dashes, Lines, Marks, Strings
<1>2. PICK line \in Lines : line = dashes
  BY <1>1
<1>3. w = unquote(line, mark)
  BY <1>2
<1>4. /\ w \in Lines /\ w.kind = line.kind /\ w.name = line.name /\ w.value = line.value
      /\ line.mark # mark => w = line
      /\ line.mark = mark => w.mark = "" /\ w.indented = (mark # ">" /\ line.indented)
  BY <1>2, <1>3, UnquoteLine, Zenon
<1>5. ~line.indented /\ line.kind = "dashes"
  BY <1>1, <1>2, Zenon
<1>6. w.kind = "dashes"
  BY <1>4, <1>5, Zenon
<1>7. ~w.indented
  <2>1. CASE line.mark # mark
    <3>1. w = line
      BY <1>4, <2>1, Zenon
    <3> QED
      BY <1>5, <3>1, Zenon
  <2>2. CASE line.mark = mark
    <3>1. w.indented = (mark # ">" /\ line.indented)
      BY <1>4, <2>2, Zenon
    <3> QED
      BY <1>5, <3>1
  <2> QED
    BY <2>1, <2>2
<1>8. w.kind # "header" /\ w.kind # "blank"
  BY <1>6
<1> QED
  BY <1>7, <1>8, Zenon DEF names_id, empty, continues

\* So has the blank line after the dashes.
LEMMA BlankUnquoted ==
  ASSUME NEW mark \in Marks, NEW w, w = unquote(blank, mark)
  PROVE  ~names_id(w)
<1>1. blank \in Lines /\ blank.kind = "blank"
  BY DEF blank, Lines, Marks, Strings
<1>2. PICK line \in Lines : line = blank
  BY <1>1
<1>3. w = unquote(line, mark)
  BY <1>2
<1>4. /\ w \in Lines /\ w.kind = line.kind /\ w.name = line.name /\ w.value = line.value
      /\ line.mark # mark => w = line
      /\ line.mark = mark => w.mark = "" /\ w.indented = (mark # ">" /\ line.indented)
  BY <1>2, <1>3, UnquoteLine, Zenon
<1>5. w.kind # "header"
  BY <1>1, <1>2, <1>4
<1> QED
  BY <1>5, Zenon DEF names_id

narrow(T, n) == wide_of(T, n) => mark_of(T, n) = ">"

\* A line of the next message, which may be quoted in another way.
LEMMA NextUnquoted ==
  ASSUME NEW T \in Seq(Messages), NEW k \in 2 .. Len(T), NEW t \in 1 .. length(T, k),
         NEW mark \in Marks, NEW w, w = unquote(line_of(T, k, t), mark)
  PROVE  /\ t <= place(T, k).stop => (names_id(w) <=> t = place(T, k).id)
         /\ t = 1 /\ narrow(T, k) => ~empty(w) /\ ~continues(w)
<1>0. k \in 1 .. Len(T) /\ k # 1
  OBVIOUS
<1>1. PICK line, own : line = line_of(T, k, t) /\ own = message_lines(T[k])[t]
  OBVIOUS
<1>2. /\ line \in Lines /\ own \in Lines /\ OwnLine(own)
      /\ line.mark = mark_of(T, k) /\ line.indented = (own.indented \/ wide_of(T, k))
      /\ line.kind = own.kind
      /\ t <= place(T, k).stop => (names_id(line) <=> t = place(T, k).id)
  BY <1>0, <1>1, LineFacts
<1>3. w = unquote(line, mark)
  BY <1>1
<1>4. /\ w \in Lines /\ w.kind = line.kind /\ w.name = line.name /\ w.value = line.value
      /\ line.mark # mark => w = line
      /\ line.mark = mark => w.mark = "" /\ w.indented = (mark # ">" /\ line.indented)
  BY <1>2, <1>3, UnquoteLine, Zenon
<1>5. ASSUME t = 1, narrow(T, k) PROVE ~empty(w) /\ ~continues(w)
  <2>1. own.kind = "header" /\ ~own.indented
    <3>1. Shape(T[k], message_lines(T[k]), place(T, k))
      BY <1>0, PlaceShape
    <3>2. is_header(own)
      BY <1>1, <1>5, <3>1 DEF Shape
    <3> QED
      BY <1>2, <3>2, Zenon DEF OwnLine, is_header
  <2>2. ~empty(w)
    <3>1. w.kind # "blank"
      BY <1>2, <1>4, <2>1
    <3> QED
      BY <3>1, Zenon DEF empty
  <2>3. CASE line.mark = mark
    <3>1. w.indented = (mark # ">" /\ wide_of(T, k))
      BY <1>2, <1>4, <2>1, <2>3, Zenon
    <3>2. wide_of(T, k) => mark = ">"
      BY <1>2, <1>5, <2>3, Zenon DEF narrow
    <3> QED
      BY <2>2, <3>1, <3>2, Zenon DEF continues
  <2>4. CASE line.mark # mark
    <3>1. w = line
      BY <1>4, <2>4, Zenon
    <3>2. line.mark # ""
      <4>1. T[k] \in Messages
        BY <1>0, PlaceShape
      <4>2. T[k].mark # ""
        BY <4>1 DEF Messages
      <4> QED
        BY <1>0, <1>2, <4>2, Zenon DEF mark_of
    <3> QED
      BY <2>2, <3>1, <3>2, Zenon DEF continues
  <2> QED
    BY <2>3, <2>4
<1>6. names_id(w) <=> names_id(line)
  BY <1>4, Zenon DEF names_id
<1> QED
  BY <1>2, <1>5, <1>6, Zenon

\* A quoted message with its Message-ID before its From loses it.
LEMMA BlockWithoutId ==
  ASSUME NEW T \in Seq(Messages), Quotable(T), NEW N \in Nat \ {0}, N = Len(T),
         NEW n \in 2 .. N,
         NEW B, NEW u, NEW p, NEW l, NEW b, NEW q, NEW st, ReadsAs(T, N, n, B, u, p, l, b, q, st),
         place(T, n).id < from(T, n),
         n < N => from(T, n + 1) < place(T, n + 1).id
  PROVE  message_id_of(B) = ""
<1>0. /\ p \in Nat \ {0} /\ l \in Nat \ {0} /\ b \in Nat \ {0} /\ q \in Nat \ {0}
      /\ b <= l /\ q = l - b + 1 /\ q <= p
  BY DEF ReadsAs
<1>1. l = length(T, n) /\ b = from(T, n) /\ n \in 1 .. N
  <2>1. n # 1 /\ n \in 1 .. N
    OBVIOUS
  <2> QED
    BY <2>1 DEF ReadsAs, base
<1>2. OwnLines(T, n, b, l, u) /\ TailLines(T, N, n, q, p, u) /\ Reading(st, u, p)
      /\ message_id_of(B) = st[p].message_id
  BY DEF ReadsAs
<1>3. place(T, n).id \in Nat
  <2>1. place(T, n).id \in 1 .. length(T, n)
    BY <1>1, PlaceNumbers
  <2> QED
    BY <2>1
<1>4. ASSUME NEW j \in 1 .. p PROVE ~names_id(u[j])
  <2>1. CASE j <= q
    <3>1. PICK i \in b .. l : i - b + 1 = j
      <4>1. j + b - 1 \in b .. l /\ (j + b - 1) - b + 1 = j
        BY <1>0, <2>1
      <4> QED
        BY <4>1
    <3>2. i # place(T, n).id
      BY <1>0, <1>1, <1>3
    <3>4. i <= place(T, n).stop
      BY <1>0, <1>1, WholeQuoted
    <3>3. names_id(u[i - b + 1]) <=> i = place(T, n).id
      BY <1>2, <3>4, Zenon DEF OwnLines
    <3> QED
      BY <3>1, <3>2, <3>3, Zenon
  <2>2. CASE ~ (j <= q)
    <3>1. j \in q + 1 .. p
      BY <1>0, <2>2
    <3>2. PICK k \in 2 .. N :
            /\ k = n + 1
            /\ \/ u[j] = unquote(dashes, mark_of(T, n))
               \/ u[j] = unquote(blank, mark_of(T, n)) /\ j # q + 1
               \/ \E t \in 1 .. from(T, k) - 1 :
                    u[j] = unquote(line_of(T, k, t), mark_of(T, n)) /\ (j = q + 1 => t = 1)
      BY <1>2, <3>1, Zenon DEF TailLines
    <3>3. PICK mark \in Marks : mark = mark_of(T, n)
      BY <1>1, MarkOf
    <3>4. CASE u[j] = unquote(dashes, mark_of(T, n))
      BY <3>3, <3>4, DashesUnquoted
    <3>6. CASE u[j] = unquote(blank, mark_of(T, n))
      BY <3>3, <3>6, BlankUnquoted
    <3>5. ASSUME NEW t \in 1 .. from(T, k) - 1,
                 u[j] = unquote(line_of(T, k, t), mark_of(T, n))
          PROVE  ~names_id(u[j])
      <4>1. k \in 1 .. N /\ n < N
        BY <3>2
      <4>2. /\ from(T, k) \in 1 .. length(T, k) /\ place(T, k).id \in 1 .. length(T, k)
            /\ length(T, k) \in Nat \ {0}
        BY <4>1, PlaceNumbers DEF from
      <4>3. from(T, k) < place(T, k).id
        BY <3>2, <4>1
      <4>7. from(T, k) <= place(T, k).stop /\ place(T, k).stop \in 1 .. length(T, k)
        BY <4>1, PlaceNumbers DEF from
      <4>4. t \in 1 .. length(T, k) /\ t # place(T, k).id /\ t <= place(T, k).stop
        BY <4>2, <4>3, <4>7
      <4>5. PICK w : w = u[j] /\ w = unquote(line_of(T, k, t), mark)
        BY <3>3, <3>5
      <4>6. t <= place(T, k).stop => (names_id(w) <=> t = place(T, k).id)
        BY <4>4, <4>5, NextUnquoted
      <4> QED
        BY <4>4, <4>5, <4>6, Zenon
    <3> QED
      BY <3>2, <3>4, <3>5, <3>6, Zenon
  <2> QED
    BY <2>1, <2>2
<1>5. st[p].message_id = ""
  BY <1>0, <1>2, <1>4, NoIdRead, Zenon
<1> QED
  BY <1>2, <1>5, Zenon

\* A message that is quoted with a pipe and two blanks is refused.
LEMMA BlockIndented ==
  ASSUME NEW T \in Seq(Messages), NEW N \in Nat \ {0}, N = Len(T), NEW n \in 2 .. N,
         NEW B, NEW u, NEW p, NEW l, NEW b, NEW q, NEW st, ReadsAs(T, N, n, B, u, p, l, b, q, st),
         ~narrow(T, n)
  PROVE  message_id_of(B) = ""
<1>0. p \in Nat \ {0} /\ l \in Nat \ {0} /\ b \in Nat \ {0} /\ b <= l
  BY DEF ReadsAs
<1>1. b = from(T, n)
  BY DEF ReadsAs, base
<1>2. OwnLines(T, n, b, l, u) /\ Reading(st, u, p) /\ message_id_of(B) = st[p].message_id
  BY DEF ReadsAs
<1>3. PICK i \in b .. l : i = b
  BY <1>0
<1>4. PICK j \in {1} : j = i - b + 1
  BY <1>0, <1>3
<1>9. i <= place(T, n).stop
  <2>1. n \in 1 .. Len(T)
    OBVIOUS
  <2>2. place(T, n).from <= place(T, n).stop
    BY <2>1, PlaceNumbers
  <2> QED
    BY <1>1, <1>3, <2>2 DEF from
<1>5. Unquoted(T, n, message_lines(T[n])[i], u[j]) /\ (names_from(u[j]) <=> i = place(T, n).from)
  BY <1>2, <1>3, <1>4, <1>9, Zenon DEF OwnLines
<1>6. u[j].kind = "header"
  BY <1>1, <1>3, <1>4, <1>5, Zenon DEF names_from, from
<1>7. u[j].indented
  BY <1>5, Zenon DEF Unquoted, narrow
<1>8. st[p].message_id = ""
  BY <1>0, <1>2, <1>3, <1>4, <1>6, <1>7, IndentedRead, Zenon
<1> QED
  BY <1>2, <1>8, Zenon

\* Folded headers continue in the quotation of the message.
firm(T, n) == n = 1 \/ (T[n].folded # "" => T[n].mark = "|")

\* A header starts at the margin once it is unquoted.
LEMMA HeaderUnquoted ==
  ASSUME NEW T, NEW n, NEW own, NEW w, Unquoted(T, n, own, w), is_header(own), narrow(T, n)
  PROVE  w.mark = "" /\ ~w.indented /\ w.kind = "header" /\ w.name # ""
<1>1. w.mark = "" /\ w.kind = "header" /\ w.name # "" /\ ~own.indented
  BY Zenon DEF Unquoted, is_header, OwnLine
<1>2. w.indented = (mark_of(T, n) # ">" /\ (own.indented \/ wide_of(T, n)))
  BY DEF Unquoted
<1>3. ~ (mark_of(T, n) # ">" /\ (own.indented \/ wide_of(T, n)))
  BY <1>1, Zenon DEF narrow
<1> QED
  BY <1>1, <1>2, <1>3, Zenon

\* A folded value stays indented once it is unquoted.
LEMMA FoldedUnquoted ==
  ASSUME NEW T \in Seq(Messages), NEW n \in 1 .. Len(T), NEW own, NEW w,
         Unquoted(T, n, own, w), own.indented, T[n].folded # "", firm(T, n)
  PROVE  continues(w)
<1>1. mark_of(T, n) # ">"
  <2>1. mark_of(T, n) = "" \/ mark_of(T, n) = "|"
    BY Zenon DEF firm, mark_of
  <2> QED
    BY <2>1, Zenon
<1>2. w.mark = "" /\ w.indented = (mark_of(T, n) # ">" /\ (own.indented \/ wide_of(T, n)))
  BY DEF Unquoted
<1>3. mark_of(T, n) # ">" /\ (own.indented \/ wide_of(T, n))
  BY <1>1
<1> QED
  BY <1>2, <1>3, Zenon DEF continues

\* A blank line is empty once it is unquoted, and no other is.
LEMMA VacantUnquoted ==
  ASSUME NEW T, NEW n, NEW own, NEW w, Unquoted(T, n, own, w)
  PROVE  vacant(own) <=> empty(w)
BY Zenon DEF Unquoted, vacant, empty

\* The lines of the next message in the block have no id and do not start
\* with a continuation.
LEMMA TailOfBlock ==
  ASSUME NEW T \in Seq(Messages), NEW N \in Nat \ {0}, N = Len(T), NEW n \in 1 .. N,
         n < N => from(T, n + 1) < place(T, n + 1).id /\ narrow(T, n + 1),
         NEW q \in Nat \ {0}, NEW p \in Nat \ {0}, NEW u, TailLines(T, N, n, q, p, u),
         NEW j \in q + 1 .. p
  PROVE  /\ ~names_id(u[j])
         /\ j = q + 1 => ~empty(u[j]) /\ ~continues(u[j])
<1>1. PICK k \in 2 .. N :
        /\ k = n + 1
        /\ \/ u[j] = unquote(dashes, mark_of(T, n))
           \/ u[j] = unquote(blank, mark_of(T, n)) /\ j # q + 1
           \/ \E t \in 1 .. from(T, k) - 1 :
                u[j] = unquote(line_of(T, k, t), mark_of(T, n)) /\ (j = q + 1 => t = 1)
  BY Zenon DEF TailLines
<1>2. PICK mark \in Marks : mark = mark_of(T, n)
  BY MarkOf
<1>3. CASE u[j] = unquote(dashes, mark_of(T, n))
  BY <1>2, <1>3, DashesUnquoted
<1>5. CASE u[j] = unquote(blank, mark_of(T, n)) /\ j # q + 1
  BY <1>2, <1>5, BlankUnquoted
<1>4. ASSUME NEW t \in 1 .. from(T, k) - 1,
             u[j] = unquote(line_of(T, k, t), mark_of(T, n)), j = q + 1 => t = 1
      PROVE  /\ ~names_id(u[j])
             /\ j = q + 1 => ~empty(u[j]) /\ ~continues(u[j])
  <2>1. k \in 1 .. N /\ n < N
    BY <1>1
  <2>2. /\ from(T, k) \in 1 .. length(T, k) /\ place(T, k).id \in 1 .. length(T, k)
        /\ length(T, k) \in Nat \ {0}
    BY <2>1, PlaceNumbers DEF from
  <2>3. from(T, k) < place(T, k).id /\ narrow(T, k)
    BY <1>1, <2>1
  <2>7. from(T, k) <= place(T, k).stop /\ place(T, k).stop \in 1 .. length(T, k)
    BY <2>1, PlaceNumbers DEF from
  <2>4. t \in 1 .. length(T, k) /\ t # place(T, k).id /\ t <= place(T, k).stop
    BY <2>2, <2>3, <2>7
  <2>5. PICK w : w = u[j] /\ w = unquote(line_of(T, k, t), mark)
    BY <1>2, <1>4
  <2>6. /\ t <= place(T, k).stop => (names_id(w) <=> t = place(T, k).id)
        /\ t = 1 /\ narrow(T, k) => ~empty(w) /\ ~continues(w)
    BY <2>4, <2>5, NextUnquoted
  <2> QED
    BY <1>4, <2>3, <2>4, <2>5, <2>6, Zenon
<1> QED
  BY <1>1, <1>3, <1>4, <1>5, Zenon

\* The block of a message with its From first gives its id or is refused.
LEMMA BlockWithId ==
  ASSUME NEW T \in Seq(Messages), Quotable(T), NEW N \in Nat \ {0}, N = Len(T),
         NEW n \in 1 .. N, NEW B, NEW u, NEW p \in Nat \ {0}, NEW l \in Nat \ {0}, NEW b \in Nat \ {0},
         NEW q \in Nat \ {0}, NEW st, ReadsAs(T, N, n, B, u, p, l, b, q, st),
         n # 1 => from(T, n) < place(T, n).id,
         narrow(T, n), body_is_apart(T[n]),
         n < N => from(T, n + 1) < place(T, n + 1).id /\ narrow(T, n + 1)
  PROVE  /\ message_id_of(B) \in {"", T[n].id}
         /\ firm(T, n) => message_id_of(B) = T[n].id
<1>1. PICK x \in Places, m \in Messages :
        x = place(T, n) /\ m = T[n] /\ Shape(m, message_lines(m), x)
  BY PlaceShape
<1>2. PICK M : M = message_lines(m) /\ Shape(m, M, x)
  BY <1>1
<1>3. b <= l /\ q = l - b + 1 /\ q <= p
  BY DEF ReadsAs
<1>4. l = Len(M) /\ b = base(T, n)
  BY <1>1, <1>2 DEF ReadsAs, length
<1>5. OwnLines(T, n, b, l, u) /\ TailLines(T, N, n, q, p, u) /\ Reading(st, u, p)
      /\ message_id_of(B) = st[p].message_id
  BY DEF ReadsAs
<1>6. PICK r \in Nat, s \in Nat, t \in Nat, y \in Nat :
        r = x.id /\ s = x.end /\ t = x.gap /\ y = x.stop
  <2>1. x.id \in Nat /\ x.end \in Nat /\ x.gap \in Nat /\ x.stop \in Nat
    BY DEF Places
  <2> QED
    BY <2>1
<1>7. b <= r /\ r <= s /\ s <= t /\ t <= y /\ y <= l /\ (y = l \/ t < y)
  <2>1. x.from \in Nat
    BY DEF Places
  <2>2. 1 <= r /\ r <= s /\ s <= t /\ t <= y /\ y <= l /\ (y = l \/ t < y)
    <3>1. /\ 1 <= x.id /\ x.id <= x.end /\ x.end <= x.gap /\ x.gap <= x.stop
          /\ x.stop <= Len(M) /\ (x.stop = Len(M) \/ x.gap < x.stop)
      BY <1>1, <1>2, Zenon DEF Shape
    <3> QED
      BY <1>4, <1>6, <3>1, Zenon
  <2>3. CASE n = 1
    <3>1. b = 1
      BY <1>4, <2>3 DEF base
    <3> QED
      BY <2>2, <3>1
  <2>4. CASE n # 1
    <3>1. b = x.from /\ x.from < x.id
      BY <1>1, <1>2, <1>4, <2>4 DEF base, from
    <3>2. b < r
      BY <1>6, <3>1, Zenon
    <3> QED
      BY <2>2, <3>2
  <2> QED
    BY <2>3, <2>4
<1>8. PICK h \in Nat \ {0}, e \in Nat, z \in Nat :
        h = r - b + 1 /\ e = s - b + 1 /\ z = t - b + 1
  BY <1>3, <1>7
<1>26. PICK g \in Nat \ {0} : g = IF y = l THEN p ELSE y - b + 1
  <2>1. y - b + 1 \in Nat \ {0}
    BY <1>7
  <2> QED
    BY <2>1
<1>9. /\ h <= e /\ e <= z /\ z <= q /\ q <= p /\ z <= g /\ g <= p
      /\ y = l => g = p
      /\ y # l => g <= q /\ z < g /\ g = y - b + 1
  <2>1. h <= e /\ e <= z /\ z <= q /\ q <= p
    BY <1>3, <1>7, <1>8
  <2>2. CASE y = l
    <3>1. g = p
      BY <1>26, <2>2
    <3> QED
      BY <2>1, <2>2, <3>1
  <2>3. CASE y # l
    <3>1. g = y - b + 1 /\ t < y /\ y <= l
      BY <1>7, <1>26, <2>3
    <3>2. g <= q /\ z < g
      BY <1>3, <1>8, <3>1
    <3> QED
      BY <2>1, <2>3, <3>1, <3>2
  <2> QED
    BY <2>2, <2>3
<1>10. ASSUME NEW j \in 1 .. q
      PROVE  \E i \in b .. l :
               /\ i = j + b - 1
               /\ Unquoted(T, n, M[i], u[j])
               /\ i <= y => (names_id(u[j]) <=> i = r)
  <2>1. PICK i \in b .. l : i = j + b - 1 /\ i - b + 1 = j
    BY <1>3
  <2>2. /\ Unquoted(T, n, message_lines(T[n])[i], u[i - b + 1])
        /\ i <= place(T, n).stop => (names_id(u[i - b + 1]) <=> i = place(T, n).id)
    BY <1>5, Zenon DEF OwnLines
  <2> QED
    BY <1>1, <1>2, <1>6, <2>1, <2>2, Zenon
<1>11. ASSUME NEW i \in b .. l, NEW j \in 1 .. q, j = i - b + 1
      PROVE  Unquoted(T, n, M[i], u[j])
  <2>1. PICK k \in b .. l : k = j + b - 1 /\ Unquoted(T, n, M[k], u[j])
    BY <1>10
  <2>2. k = i
    BY <1>3, <1>11, <2>1
  <2> QED
    BY <2>1, <2>2, Zenon
<1>12. ASSUME NEW j \in 1 .. g PROVE names_id(u[j]) <=> j = h
  <2>1. CASE j <= q
    <3>0. j \in 1 .. q
      BY <2>1
    <3>1. PICK i \in b .. l :
            i = j + b - 1 /\ (i <= y => (names_id(u[j]) <=> i = r))
      BY <1>10, <3>0
    <3>2. i = r <=> j = h
      BY <1>3, <1>7, <1>8, <3>1
    <3>3. i <= y
      <4>1. CASE y = l
        BY <4>1
      <4>2. CASE y # l
        <5>1. g = y - b + 1 /\ j <= g /\ i = j + b - 1
          BY <1>9, <3>1, <4>2
        <5> QED
          BY <5>1
      <4> QED
        BY <4>1, <4>2
    <3> QED
      BY <3>1, <3>2, <3>3, Zenon
  <2>2. CASE ~ (j <= q)
    <3>1. j \in q + 1 .. p /\ j # h
      <4>1. j <= p /\ q + 1 <= j
        BY <1>9, <2>2
      <4>2. h <= q
        BY <1>9, <1>8
      <4> QED
        BY <4>1, <4>2
    <3>2. /\ ~names_id(u[j])
          /\ j = q + 1 => ~empty(u[j]) /\ ~continues(u[j])
      BY <1>5, <3>1, TailOfBlock
    <3> QED
      BY <3>1, <3>2, Zenon
  <2> QED
    BY <2>1, <2>2
<1>13. r \in b .. l /\ h \in 1 .. q /\ s \in b .. l /\ e \in 1 .. q
  BY <1>3, <1>7, <1>8, <1>9
<1>14. Unquoted(T, n, M[r], u[h]) /\ Unquoted(T, n, M[s], u[e])
  BY <1>8, <1>11, <1>13
<1>15. is_header(M[r])
  <2>1. r \in 1 .. Len(M)
    BY <1>3, <1>4, <1>7
  <2>3. r <= y
    BY <1>7
  <2>2. names_id(M[r]) <=> r = r
    BY <1>1, <1>2, <2>1, <2>3, <1>6, Zenon DEF Shape
  <2> QED
    BY <2>2, Zenon DEF names_id, is_header
<1>16. u[h].mark = "" /\ ~u[h].indented
  BY <1>14, <1>15, HeaderUnquoted, Zenon
<1>17. \/ e = h /\ u[h].value = m.id
       \/ /\ e = h + 1 /\ u[h].value = ""
          /\ u[e].mark = "" /\ u[e].kind = "text" /\ u[e].value = m.id
          /\ M[s].indented /\ m.folded # ""
  <2>1. CASE s = r /\ IdOnOneLine(m, M[r])
    <3>1. e = h
      BY <1>3, <1>7, <1>8, <2>1
    <3>2. u[h].value = m.id
      BY <1>14, <2>1, Zenon DEF Unquoted, IdOnOneLine
    <3> QED
      BY <3>1, <3>2, Zenon
  <2>2. CASE s = r + 1 /\ IdOnTwoLines(m, M[r], M[s])
    <3>1. e = h + 1
      BY <1>3, <1>7, <1>8, <2>2
    <3>2. /\ u[h].value = "" /\ u[e].mark = "" /\ u[e].kind = "text" /\ u[e].value = m.id
          /\ M[s].indented /\ m.folded # ""
      BY <1>14, <2>2, Zenon DEF Unquoted, IdOnTwoLines
    <3> QED
      BY <3>1, <3>2, Zenon
  <2>3. \/ s = r /\ IdOnOneLine(m, M[r])
        \/ s = r + 1 /\ IdOnTwoLines(m, M[r], M[s])
    BY <1>1, <1>2, <1>6, Zenon DEF Shape
  <2> QED
    BY <2>1, <2>2, <2>3, Zenon
<1>18. ASSUME NEW j \in e + 1 .. z PROVE empty(u[j])
  <2>1. PICK i \in b .. l : i = j + b - 1
    BY <1>3, <1>7, <1>8
  <2>2. j \in 1 .. q /\ j = i - b + 1 /\ i \in s + 1 .. t
    BY <1>3, <1>7, <1>8, <1>9, <2>1
  <2>3. Unquoted(T, n, M[i], u[j])
    BY <1>11, <2>2
  <2>4. vacant(M[i])
    BY <1>1, <1>2, <2>2, <1>6, Zenon DEF Shape
  <2> QED
    BY <2>3, <2>4, VacantUnquoted, Zenon
<1>19. ASSUME z < g PROVE ~empty(u[z + 1]) /\ ~continues(u[z + 1])
  <2>1. CASE z < q
    <3>1. PICK i \in b .. l, j \in 1 .. q : i = t + 1 /\ j = z + 1 /\ j = i - b + 1
      BY <1>3, <1>7, <1>8, <1>9, <2>1
    <3>2. Unquoted(T, n, M[i], u[j])
      BY <1>11, <3>1
    <3>3. ~vacant(M[i]) /\ ~M[i].indented
      <4>1. t < y /\ body_is_apart(m)
        <5>1. t < l
          BY <1>3, <1>8, <2>1
        <5>2. t < y
          BY <1>7, <5>1
        <5> QED
          BY <1>1, <5>2
      <4>2. ~vacant(M[t + 1]) /\ ~M[t + 1].indented
        BY <1>1, <1>2, <4>1, <1>6, Zenon DEF Shape
      <4> QED
        BY <3>1, <4>2, Zenon
    <3>4. ~empty(u[j])
      BY <3>2, <3>3, VacantUnquoted, Zenon
    <3>5. ~continues(u[j])
      <4>1. u[j].indented = (mark_of(T, n) # ">" /\ (M[i].indented \/ wide_of(T, n)))
        BY <3>2, Zenon DEF Unquoted
      <4>2. ~ (mark_of(T, n) # ">" /\ (M[i].indented \/ wide_of(T, n)))
        BY <3>3, Zenon DEF narrow
      <4> QED
        BY <4>1, <4>2, Zenon DEF continues
    <3> QED
      BY <3>1, <3>4, <3>5, Zenon
  <2>2. CASE ~ (z < q)
    <3>1. PICK j \in q + 1 .. p : j = z + 1 /\ j = q + 1
      <4>1. z = q /\ z < p
        BY <1>8, <1>9, <1>19, <2>2
      <4>2. z + 1 \in q + 1 .. p
        BY <4>1
      <4> QED
        BY <4>1, <4>2
    <3>2. /\ ~names_id(u[j])
          /\ j = q + 1 => ~empty(u[j]) /\ ~continues(u[j])
      BY <1>5, TailOfBlock
    <3> QED
      BY <3>1, <3>2, Zenon
  <2> QED
    BY <2>1, <2>2
<1>20. IdAt(u, g, m.id, h, e, z)
  <2>1. h \in Nat \ {0} /\ e \in Nat /\ z \in Nat /\ h <= e /\ e <= z /\ z <= g
    BY <1>9, <1>8
  <2> QED
    BY <1>12, <1>16, <1>17, <1>18, <1>19, <2>1, Zenon DEF IdAt
<1>21. PICK id \in STRING : id = m.id
  BY DEF Messages, Ids
<1>22. g \in Nat /\ Reading(st, u, g)
  <2>1. \A j \in 1 .. g : j \in 1 .. p
    BY <1>9
  <2>2. st[0] = start /\ \A j \in 1 .. p : u[j] \in Lines /\ st[j] = read_line(st[j - 1], u[j])
    BY <1>5 DEF Reading
  <2> QED
    BY <2>1, <2>2 DEF Reading
<1>23. IdAt(u, g, id, h, e, z)
  BY <1>20, <1>21, Zenon
<1>27. /\ st[g].message_id \in {"", id}
       /\ headers_only(u, h) /\ (e = h \/ continues(u[e])) => st[g].message_id = id
  BY <1>22, <1>23, IdRead, ZenonT(30)
<1>28. st[p].message_id = st[g].message_id
  <2>1. CASE y = l
    BY <1>9, <2>1
  <2>2. CASE y # l
    <3>1. m.body = "forwarded" /\ opens_body(M[y])
      BY <1>1, <1>2, <1>4, <1>6, <2>2, Zenon DEF Shape
    <3>2. PICK i \in b .. l, j \in 1 .. q : i = y /\ j = g /\ j = i - b + 1
      <4>1. y \in b .. l /\ g \in 1 .. q /\ g = y - b + 1
        BY <1>7, <1>9, <2>2
      <4> QED
        BY <4>1
    <3>3. Unquoted(T, n, M[y], u[g])
      BY <1>11, <3>2
    <3>4. ~wide_of(T, n)
      <4>1. T[n].body = "forwarded"
        BY <1>1, <3>1, Zenon
      <4>2. n = 1
        BY <4>1 DEF Quotable
      <4> QED
        BY <4>2, MarkOf
    <3>5. opens_body(u[g])
      BY <3>1, <3>3, <3>4, Zenon DEF opens_body, Unquoted
    <3>6. p \in Nat /\ g \in 1 .. p
      BY <1>9
    <3> QED
      BY <1>5, <3>5, <3>6, BodyKeeps
  <2> QED
    BY <2>1, <2>2
<1>24. /\ st[p].message_id \in {"", id}
       /\ headers_only(u, h) /\ (e = h \/ continues(u[e])) => st[p].message_id = id
  BY <1>27, <1>28, Zenon
<1>25. ASSUME firm(T, n) PROVE headers_only(u, h) /\ (e = h \/ continues(u[e]))
  <2>1. ASSUME NEW j \in 1 .. h - 1
        PROVE  /\ empty(u[j]) \/ continues(u[j])
                    \/ (u[j].mark = "" /\ u[j].kind = "header")
               /\ u[j].kind = "header" => u[j].name # ""
    <3>1. PICK i \in b .. l : i = j + b - 1
      BY <1>3, <1>7, <1>8
    <3>2. j \in 1 .. q /\ j = i - b + 1 /\ i \in 1 .. r - 1
      BY <1>3, <1>7, <1>8, <1>9, <3>1
    <3>3. Unquoted(T, n, M[i], u[j])
      BY <1>11, <3>2
    <3>4. HeaderPart(m, M[i])
      BY <1>1, <1>2, <3>2, <1>6, Zenon DEF Shape
    <3>5. u[j].kind = "header" => is_header(M[i])
      BY <3>3, Zenon DEF Unquoted, is_header
    <3>6. CASE is_header(M[i])
      BY <3>3, <3>6, HeaderUnquoted, Zenon
    <3>7. CASE vacant(M[i])
      <4>1. empty(u[j])
        BY <3>3, <3>7, VacantUnquoted, Zenon
      <4> QED
        BY <3>5, <3>6, <4>1, Zenon
    <3>8. CASE M[i].indented /\ m.folded # ""
      <4>1. continues(u[j])
        <5>1. T[n].folded # ""
          BY <1>1, <1>2, <3>8, Zenon
        <5> QED
          BY <1>25, <3>3, <3>8, <5>1, FoldedUnquoted, Zenon
      <4> QED
        BY <3>5, <3>6, <4>1, Zenon
    <3> QED
      BY <3>4, <3>6, <3>7, <3>8, Zenon DEF HeaderPart
  <2>2. u[1].mark = "" /\ u[1].kind = "header" /\ ~u[1].indented
    <3>1. PICK i \in b .. l, j \in 1 .. q : i = b /\ j = 1 /\ j = i - b + 1
      BY <1>3
    <3>2. Unquoted(T, n, M[i], u[j])
      BY <1>11, <3>1
    <3>3. is_header(M[i])
      <4>1. CASE n = 1
        <5>1. i = 1
          BY <1>4, <3>1, <4>1 DEF base
        <5>2. is_header(M[1])
          BY <1>1, <1>2, <1>6, Zenon DEF Shape
        <5> QED
          BY <5>1, <5>2, Zenon
      <4>2. CASE n # 1
        <5>1. i = x.from
          BY <1>1, <1>2, <1>4, <3>1, <4>2 DEF base, from
        <5>2. i \in 1 .. Len(M)
          BY <1>3, <1>4, <3>1
        <5>4. x.from <= x.stop
          BY <1>1, <1>2, Zenon DEF Shape
        <5>3. names_from(M[i])
          BY <1>1, <1>2, <5>1, <5>2, <5>4, <1>6, Zenon DEF Shape
        <5> QED
          BY <5>3, Zenon DEF names_from, is_header
      <4> QED
        BY <4>1, <4>2
    <3>4. u[j].mark = "" /\ ~u[j].indented /\ u[j].kind = "header" /\ u[j].name # ""
      BY <3>2, <3>3, HeaderUnquoted, Zenon
    <3> QED
      BY <3>1, <3>4, Zenon
  <2>3. headers_only(u, h)
    BY <2>1, <2>2, Zenon DEF headers_only
  <2>4. e = h \/ continues(u[e])
    <3>1. CASE M[s].indented /\ m.folded # ""
      <4>1. T[n].folded # "" /\ n \in 1 .. Len(T)
        BY <1>1, <1>2, <3>1, Zenon
      <4>2. continues(u[e])
        BY <1>14, <1>25, <3>1, <4>1, FoldedUnquoted, Zenon
      <4> QED
        BY <4>2
    <3> QED
      BY <1>17, <3>1, Zenon
  <2> QED
    BY <2>3, <2>4
<1> QED
  BY <1>1, <1>2, <1>5, <1>21, <1>24, <1>25, Zenon

-----------------------------------------------------------------------------
(* The whole snapshot                                                      *)

Splits(L, N, blocks) == split_message_blocks(L) = blocks /\ DOMAIN blocks = 1 .. N

some_refused(N, blocks) == \E k \in 1 .. N : message_id_of(blocks[k]) = ""

ids_read(N, blocks) == [k \in 1 .. N |-> message_id_of(blocks[k])]

\* A thread is refused with any of its blocks.
LEMMA ParseOfBlocks ==
  ASSUME NEW L, NEW N, NEW blocks, Splits(L, N, blocks)
  PROVE  /\ some_refused(N, blocks) => parse_thread(L) = <<>>
         /\ ~some_refused(N, blocks) => parse_thread(L) = ids_read(N, blocks)
<1>1. parse_thread(L) = IF \E k \in DOMAIN ids_read(N, blocks) : ids_read(N, blocks)[k] = ""
                        THEN <<>> ELSE ids_read(N, blocks)
  BY Zenon DEF parse_thread, Splits, ids_read
<1>2. /\ DOMAIN ids_read(N, blocks) = 1 .. N
      /\ \A k \in 1 .. N : ids_read(N, blocks)[k] = message_id_of(blocks[k])
  BY Zenon DEF ids_read
<1>3. (\E k \in DOMAIN ids_read(N, blocks) : ids_read(N, blocks)[k] = "")
        <=> some_refused(N, blocks)
  BY <1>2, Zenon DEF some_refused
<1> QED
  BY <1>1, <1>3, Zenon

\* A message with its Message-ID before its From.
id_first(T, n) == place(T, n).id < from(T, n)

\* From comes first unless Message-ID does.
LEMMA EitherFirst ==
  ASSUME NEW T \in Seq(Messages), NEW n \in 1 .. Len(T)
  PROVE  /\ ~id_first(T, n) => from(T, n) < place(T, n).id
         /\ quotation_is_readable(T[n]) => from(T, n) < place(T, n).id
<1>1. PICK x : x = place(T, n) /\ x \in Places /\ Shape(T[n], message_lines(T[n]), x)
  BY PlaceShape
<1>2. /\ Head(T[n].order) = "Message-ID" => x.id < x.from
      /\ Head(T[n].order) # "Message-ID" => x.from < x.id
  BY <1>1, Zenon DEF Shape
<1>3. quotation_is_readable(T[n]) => Head(T[n].order) # "Message-ID"
  BY Zenon DEF quotation_is_readable
<1> QED
  BY <1>1, <1>2, <1>3, Zenon DEF id_first, from

\* The last message that has it so loses its Message-ID.
LEMMA IdFirstIsRefused ==
  ASSUME NEW T \in Seq(Messages), Quotable(T), NEW N \in Nat \ {0}, N = Len(T),
         NEW blocks,
         \A n \in 1 .. N :
           \E u, p, l, b, q, st : ReadsAs(T, N, n, blocks[n], u, p, l, b, q, st),
         NEW n \in 2 .. N, id_first(T, n)
  PROVE  \E k \in 1 .. N : message_id_of(blocks[k]) = ""
<1> DEFINE S == {k \in 2 .. N : id_first(T, k)}
<1>1. PICK k \in S : \A i \in S : i <= k
  <2>1. S \in SUBSET (1 .. N) /\ n \in S
    OBVIOUS
  <2> HIDE DEF S
  <2>2. Max(S) \in S /\ \A y \in S : Max(S) >= y
    BY <2>1, GreatestNumber
  <2>3. PICK k : k = Max(S)
    OBVIOUS
  <2>4. ASSUME NEW i \in S PROVE i \in Nat /\ k \in Nat
    <3>1. i \in 1 .. N /\ k \in 1 .. N
      BY <2>1, <2>2, <2>3
    <3> QED
      BY <3>1
  <2>5. k \in S /\ \A i \in S : k >= i
    BY <2>2, <2>3
  <2> QED
    BY <2>4, <2>5
<1>2. k \in 2 .. N /\ k \in 1 .. N /\ id_first(T, k)
  OBVIOUS
<1>3. k < N => from(T, k + 1) < place(T, k + 1).id
  <2> SUFFICES ASSUME k < N PROVE from(T, k + 1) < place(T, k + 1).id
    OBVIOUS
  <2>1. PICK i \in 1 .. N : i = k + 1 /\ i \in 2 .. N /\ ~ (i <= k)
    BY <1>2
  <2>2. ~id_first(T, i)
    BY <1>1, <2>1
  <2>3. from(T, i) < place(T, i).id
    BY <2>2, EitherFirst
  <2> QED
    BY <2>1, <2>3
<1> HIDE DEF S
<1>4. PICK B : B = blocks[k]
  OBVIOUS
<1>5. PICK u, p, l, b, q, st : ReadsAs(T, N, k, B, u, p, l, b, q, st)
  BY <1>2, <1>4
<1>6. place(T, k).id < from(T, k)
  BY <1>2 DEF id_first
<1>7. message_id_of(B) = ""
  BY <1>2, <1>3, <1>5, <1>6, BlockWithoutId
<1> QED
  BY <1>2, <1>4, <1>7, Zenon

\* Without such a message and without a pipe and two blanks, each id is read
\* or its block refused.
LEMMA StraightBlocks ==
  ASSUME NEW T \in Seq(Messages), Quotable(T), NEW N \in Nat \ {0}, N = Len(T),
         \A n \in 1 .. N : body_is_apart(T[n]),
         NEW blocks,
         \A n \in 1 .. N :
           \E u, p, l, b, q, st : ReadsAs(T, N, n, blocks[n], u, p, l, b, q, st),
         \A n \in 2 .. N : from(T, n) < place(T, n).id /\ narrow(T, n),
         NEW n \in 1 .. N
  PROVE  /\ message_id_of(blocks[n]) \in {"", T[n].id}
         /\ firm(T, n) => message_id_of(blocks[n]) = T[n].id
<1>1. PICK B : B = blocks[n]
  OBVIOUS
<1>2. PICK u, p, l, b, q, st : ReadsAs(T, N, n, B, u, p, l, b, q, st)
  BY <1>1
<1>3. /\ p \in Nat \ {0} /\ l \in Nat \ {0} /\ b \in Nat \ {0} /\ q \in Nat \ {0}
  BY <1>2 DEF ReadsAs
<1>4. n # 1 => from(T, n) < place(T, n).id
  OBVIOUS
<1>5. narrow(T, n)
  <2>1. CASE n = 1
    BY <2>1 DEF narrow, wide_of
  <2>2. CASE n # 1
    BY <2>2
  <2> QED
    BY <2>1, <2>2
<1>6. n < N => from(T, n + 1) < place(T, n + 1).id /\ narrow(T, n + 1)
  <2> SUFFICES ASSUME n < N
               PROVE  from(T, n + 1) < place(T, n + 1).id /\ narrow(T, n + 1)
    OBVIOUS
  <2>1. n + 1 \in 2 .. N
    OBVIOUS
  <2> QED
    BY <2>1
<1>7. body_is_apart(T[n])
  OBVIOUS
<1>8. /\ message_id_of(B) \in {"", T[n].id}
      /\ firm(T, n) => message_id_of(B) = T[n].id
  BY <1>2, <1>3, <1>4, <1>5, <1>6, <1>7, BlockWithId
<1> QED
  BY <1>1, <1>8, Zenon

\* A snapshot is refused or gives the ids that were written.
LEMMA SnapshotRead ==
  ASSUME NEW T \in Seq(Messages), Quotable(T), NEW N \in Nat \ {0}, N = Len(T),
         \A n \in 1 .. N : body_is_apart(T[n])
  PROVE  /\ parse_thread(snapshot(T)) \in {<<>>, ids_written(T)}
         /\ (\A n \in 2 .. N : quotation_is_readable(T[n])) =>
              parse_thread(snapshot(T)) = ids_written(T)
<1>1. PICK L : L = snapshot(T)
  OBVIOUS
<1>2. PICK c : Layout(T, N, c, L)
  BY <1>1, SnapshotLayout
<1>3. PICK blocks :
        /\ split_message_blocks(L) = blocks
        /\ DOMAIN blocks = 1 .. N
        /\ \A n \in 1 .. N :
             Part(L, c[n] + base(T, n), last(T, N, c, L, n), blocks[n])
  BY <1>2, Blocks
<1>4. ASSUME NEW n \in 1 .. N
      PROVE  \E u, p, l, b, q, st : ReadsAs(T, N, n, blocks[n], u, p, l, b, q, st)
  <2>1. PICK B : B = blocks[n]
    OBVIOUS
  <2>2. Part(L, c[n] + base(T, n), last(T, N, c, L, n), B)
    BY <1>3, <2>1
  <2>3. \E u, p, l, b, q, st : ReadsAs(T, N, n, B, u, p, l, b, q, st)
    BY <1>2, <2>2, BlockReading
  <2> QED
    BY <2>1, <2>3
<1>5. /\ some_refused(N, blocks) => parse_thread(L) = <<>>
      /\ ~some_refused(N, blocks) => parse_thread(L) = ids_read(N, blocks)
  <2>1. Splits(L, N, blocks)
    BY <1>3 DEF Splits
  <2> QED
    BY <2>1, ParseOfBlocks, Zenon
<1>6. ids_written(T) = [k \in 1 .. N |-> T[k].id]
  BY DEF ids_written
<1>7. ASSUME \A n \in 2 .. N : from(T, n) < place(T, n).id /\ narrow(T, n)
      PROVE  \A n \in 1 .. N :
               /\ message_id_of(blocks[n]) \in {"", T[n].id}
               /\ firm(T, n) => message_id_of(blocks[n]) = T[n].id
  BY <1>4, <1>7, StraightBlocks
<1>8. ASSUME ~some_refused(N, blocks)
      PROVE  parse_thread(L) = ids_written(T)
  <2>1. ASSUME NEW n \in 2 .. N PROVE from(T, n) < place(T, n).id
    <3>1. ~id_first(T, n)
      <4>1. ASSUME id_first(T, n) PROVE FALSE
        <5>1. \E k \in 1 .. N : message_id_of(blocks[k]) = ""
          BY <1>4, <4>1, IdFirstIsRefused
        <5> QED
          BY <1>8, <5>1, Zenon DEF some_refused
      <4> QED
        BY <4>1
    <3>2. n \in 1 .. N
      OBVIOUS
    <3> QED
      BY <3>1, <3>2, EitherFirst
  <2>2. ASSUME NEW n \in 2 .. N PROVE narrow(T, n)
    <3>1. ASSUME ~narrow(T, n) PROVE FALSE
      <4>1. PICK B : B = blocks[n]
        OBVIOUS
      <4>2. n \in 1 .. N
        OBVIOUS
      <4>3. PICK u, p, l, b, q, st : ReadsAs(T, N, n, B, u, p, l, b, q, st)
        BY <1>4, <4>1, <4>2
      <4>4. message_id_of(B) = ""
        BY <3>1, <4>3, BlockIndented
      <4> QED
        BY <1>8, <4>1, <4>2, <4>4, Zenon DEF some_refused
    <3> QED
      BY <3>1
  <2>3. \A n \in 1 .. N : message_id_of(blocks[n]) = T[n].id
    BY <1>7, <1>8, <2>1, <2>2, Zenon DEF some_refused
  <2>4. parse_thread(L) = [k \in 1 .. N |-> message_id_of(blocks[k])]
    BY <1>5, <1>8, Zenon DEF ids_read
  <2>5. [k \in 1 .. N |-> message_id_of(blocks[k])] = [k \in 1 .. N |-> T[k].id]
    BY <2>3, Zenon
  <2> QED
    BY <1>6, <2>4, <2>5, Zenon
<1>9. parse_thread(L) \in {<<>>, ids_written(T)}
  <2>1. CASE ~some_refused(N, blocks)
    BY <1>8, <2>1, Zenon
  <2>2. CASE some_refused(N, blocks)
    BY <1>5, <2>2, Zenon
  <2> QED
    BY <2>1, <2>2, Zenon
<1>10. ASSUME \A n \in 2 .. N : quotation_is_readable(T[n])
       PROVE  parse_thread(L) = ids_written(T)
  <2>1. ASSUME NEW n \in 2 .. N
        PROVE  from(T, n) < place(T, n).id /\ narrow(T, n) /\ firm(T, n)
    <3>1. n \in 1 .. N /\ n # 1
      OBVIOUS
    <3>2. quotation_is_readable(T[n])
      BY <1>10
    <3>3. from(T, n) < place(T, n).id
      BY <3>1, <3>2, EitherFirst
    <3>4. narrow(T, n)
      BY <3>1, <3>2, Zenon DEF narrow, wide_of, mark_of, quotation_is_readable
    <3>5. firm(T, n)
      BY <3>2, Zenon DEF firm, quotation_is_readable
    <3> QED
      BY <3>3, <3>4, <3>5
  <2>2. ASSUME NEW n \in 1 .. N PROVE firm(T, n)
    <3>1. CASE n = 1
      BY <3>1, Zenon DEF firm
    <3>2. CASE n # 1
      BY <2>1, <3>2
    <3> QED
      BY <3>1, <3>2
  <2>3. ASSUME NEW n \in 1 .. N PROVE message_id_of(blocks[n]) # ""
    <3>1. message_id_of(blocks[n]) = T[n].id
      BY <1>7, <2>1, <2>2, Zenon
    <3>2. T[n] \in Messages
      OBVIOUS
    <3>3. T[n].id # ""
      BY <3>2 DEF Messages, Ids
    <3> QED
      BY <3>1, <3>3, Zenon
  <2> QED
    BY <1>8, <2>3, Zenon DEF some_refused
<1> QED
  BY <1>1, <1>9, <1>10, Zenon

-----------------------------------------------------------------------------
(* The corpus                                                              *)

\* Messages with any body.
Letters ==
  [id : Ids, order : Orders, spaced : BOOLEAN, folded : Foldings,
   body : BodyForms \cup {"id_first"}, mark : {"|", ">"}, wide : BOOLEAN, rule : Rules]

\* Every file has a message, and all of its messages are in some form.
CorpusTyped == \A n \in DOMAIN corpus : corpus[n] \in Seq(Letters) /\ corpus[n] # <<>>

\* The ids are not empty.
LEMMA MessageIdsAssumption == MessageIds \in Seq(Ids) /\ MaxDepth \in Nat
BY FormsAssumption, Zenon DEF Ids

\* A new message is in the plain form.
LEMMA PlainMessage ==
  ASSUME NEW id \in Ids
  PROVE  message(id) \in Letters
<1>1. PICK none \in Foldings :
        Plain = [order |-> <<"From", "To", "Message-ID">>, spaced |-> FALSE, folded |-> none,
                 body |-> "text", mark |-> "|", wide |-> FALSE, rule |-> "tight"]
  BY DEF Plain, Foldings
<1>2. message(id) = [a \in {"id"} \cup DOMAIN Plain |-> IF a = "id" THEN id ELSE Plain[a]]
  BY DEF message
<1>3. <<"From", "To", "Message-ID">> \in Orders
  BY DEF Orders
<1>4. PICK order \in Orders : order = <<"From", "To", "Message-ID">>
  BY <1>3
<1>5. message(id) = [id |-> id, order |-> order, spaced |-> FALSE, folded |-> none,
                     body |-> "text", mark |-> "|", wide |-> FALSE, rule |-> "tight"]
  BY <1>1, <1>2, <1>4
<1>6. "text" \in BodyForms
  BY DEF BodyForms
<1> QED
  BY <1>5, <1>6 DEF Letters, Rules

\* A message is in another form when one of its parts is.
LEMMA FormedMessage ==
  ASSUME NEW m \in Letters, NEW a \in DOMAIN Forms, NEW form \in Forms[a]
  PROVE  [m EXCEPT ![a] = form] \in Letters
<1>1. Forms = [order |-> Orders, spaced |-> BOOLEAN, folded |-> Foldings, body |-> Bodies,
               mark |-> {"|", ">"}, wide |-> BOOLEAN, rule |-> Rules]
  BY Zenon DEF Forms, Orders, Foldings, Rules
<1>2. Bodies \subseteq BodyForms \cup {"id_first"}
  BY FormsAssumption, Zenon DEF BodyForms
<1>3. a \in {"order", "spaced", "folded", "body", "mark", "wide", "rule"}
  BY <1>1
<1>4. CASE a = "order"
  BY <1>1, <1>4 DEF Letters
<1>5. CASE a = "spaced"
  BY <1>1, <1>5 DEF Letters
<1>6. CASE a = "folded"
  BY <1>1, <1>6 DEF Letters
<1>7. CASE a = "body"
  BY <1>1, <1>2, <1>7 DEF Letters
<1>8. CASE a = "mark"
  BY <1>1, <1>8 DEF Letters
<1>9. CASE a = "wide"
  BY <1>1, <1>9 DEF Letters
<1>10. CASE a = "rule"
  BY <1>1, <1>10 DEF Letters
<1> QED
  BY <1>3, <1>4, <1>5, <1>6, <1>7, <1>8, <1>9, <1>10

\* New messages are a thread.
LEMMA FreshMessages ==
  ASSUME NEW count \in Nat \ {0}, NEW thread \in fresh_messages(count)
  PROVE  thread \in Seq(Letters) /\ thread # <<>>
<1>1. PICK lowest \in DOMAIN MessageIds :
        /\ lowest + count - 1 <= Len(MessageIds)
        /\ thread = [k \in 1 .. count |-> message(MessageIds[lowest + k - 1])]
  BY DEF fresh_messages
<1>2. ASSUME NEW k \in 1 .. count PROVE message(MessageIds[lowest + k - 1]) \in Letters
  <2>1. lowest + k - 1 \in 1 .. Len(MessageIds)
    BY <1>1, MessageIdsAssumption
  <2>2. MessageIds[lowest + k - 1] \in Ids
    BY <2>1, MessageIdsAssumption
  <2> QED
    BY <2>2, PlainMessage
<1> QED
  BY <1>1, <1>2

\* A file that is written is a thread.
LEMMA WriteKeepsTypes ==
  ASSUME NEW n, NEW thread \in Seq(Letters), thread # <<>>, CorpusTyped, write(n, thread)
  PROVE  CorpusTyped'
<1>1. corpus' = [k \in DOMAIN corpus \cup {n} |-> IF k = n THEN thread ELSE corpus[k]]
  BY DEF write
<1> QED
  BY <1>1 DEF CorpusTyped

\* A file in another form is a thread.
LEMMA ReformatKeepsTypes ==
  ASSUME NEW n, CorpusTyped, Reformat(n)
  PROVE  CorpusTyped'
<1>1. PICK i \in DOMAIN corpus[n], a \in DOMAIN Forms :
        \E form \in Forms[a] \ {Plain[a]} : corpus' = [corpus EXCEPT ![n][i][a] = form]
  BY DEF Reformat
<1>2. PICK form \in Forms[a] : corpus' = [corpus EXCEPT ![n][i][a] = form]
  BY <1>1
<1>3. PICK T \in Seq(Letters) : T = corpus[n] /\ T # <<>>
  BY DEF CorpusTyped, Reformat
<1>4. PICK m \in Letters : m = T[i]
  BY <1>3
<1>5. PICK new \in Letters : new = [m EXCEPT ![a] = form]
  BY <1>2, FormedMessage
<1>6. PICK U : U = [T EXCEPT ![i] = new]
  OBVIOUS
<1>7. U \in Seq(Letters) /\ U # <<>>
  BY <1>3, <1>5, <1>6
<1>8. corpus' = [corpus EXCEPT ![n] = U]
  BY <1>2, <1>3, <1>4, <1>5, <1>6
<1> QED
  BY <1>7, <1>8 DEF CorpusTyped

\* Every file is a thread at all times.
LEMMA CorpusTypedHolds == Spec => []CorpusTyped
<1>1. Init => CorpusTyped
  BY DEF Init, CorpusInit, CorpusTyped
<1>2. CorpusTyped /\ [Next]_vars => CorpusTyped'
  <2> SUFFICES ASSUME CorpusTyped, [Next]_vars PROVE CorpusTyped'
    OBVIOUS
  <2>1. ASSUME NEW n \in DOMAIN FileNames, WriteThread(n) PROVE CorpusTyped'
    <3>1. PICK count \in 1 .. MaxDepth :
            \E thread \in fresh_messages(count) : write(n, thread)
      BY <2>1 DEF WriteThread
    <3>2. PICK thread \in fresh_messages(count) : write(n, thread)
      BY <3>1
    <3>3. thread \in Seq(Letters) /\ thread # <<>>
      BY MessageIdsAssumption, FreshMessages
    <3> QED
      BY <3>2, <3>3, WriteKeepsTypes
  <2>2. ASSUME NEW n \in DOMAIN FileNames, WriteReply(n) PROVE CorpusTyped'
    <3>1. PICK source \in DOMAIN corpus, reply \in fresh_messages(1) :
            write(n, reply \o corpus[source])
      BY <2>2 DEF WriteReply
    <3>2. reply \in Seq(Letters) /\ reply # <<>>
      BY FreshMessages
    <3>3. corpus[source] \in Seq(Letters)
      BY DEF CorpusTyped
    <3>4. PICK thread : thread = reply \o corpus[source]
      OBVIOUS
    <3>5. thread \in Seq(Letters) /\ thread # <<>>
      BY <3>2, <3>3, <3>4
    <3> QED
      BY <3>1, <3>4, <3>5, WriteKeepsTypes
  <2>3. ASSUME NEW n \in DOMAIN FileNames, WriteCopy(n) PROVE CorpusTyped'
    <3>1. PICK source \in DOMAIN corpus : write(n, corpus[source])
      BY <2>3 DEF WriteCopy
    <3>2. corpus[source] \in Seq(Letters) /\ corpus[source] # <<>>
      BY DEF CorpusTyped
    <3> QED
      BY <3>1, <3>2, WriteKeepsTypes
  <2>4. ASSUME NEW n \in DOMAIN FileNames, Reformat(n) PROVE CorpusTyped'
    BY <2>4, ReformatKeepsTypes
  <2>5. ASSUME Load PROVE CorpusTyped'
    BY <2>5 DEF Load, CorpusTyped
  <2>6. ASSUME UNCHANGED vars PROVE CorpusTyped'
    BY <2>6 DEF vars, CorpusTyped
  <2> QED
    BY <2>1, <2>2, <2>3, <2>4, <2>5, <2>6 DEF Next, Write
<1> QED
  BY <1>1, <1>2, PTL DEF Spec

\* What is read of a file is what was written, or nothing.
LEMMA FileRead ==
  ASSUME CorpusTyped, NEW n \in DOMAIN corpus, bodies_are_apart(corpus[n])
  PROVE  /\ parsed(n) \in {<<>>, written(n)}
         /\ (\A m \in ToSet(Tail(corpus[n])) : quotation_is_readable(m)) =>
              parsed(n) = written(n)
<1>0. PICK A \in Seq(Letters) : A = corpus[n] /\ A # <<>>
  BY DEF CorpusTyped
<1>2. PICK N \in Nat \ {0} : N = Len(A)
  BY <1>0
<1>3. \A i \in 1 .. N : body_is_apart(A[i]) /\ A[i] \in Letters
  BY <1>0, <1>2 DEF ToSet, bodies_are_apart
<1>6. \A i \in 1 .. N : A[i] \in Messages
  BY <1>3 DEF body_is_apart, Letters, Messages
<1>1. PICK T \in Seq(Messages) : T = A /\ T = corpus[n] /\ T # <<>>
  <2>1. A = [i \in 1 .. N |-> A[i]]
    BY <1>2
  <2>2. A \in Seq(Messages)
    BY <1>6, <2>1
  <2> QED
    BY <1>0, <2>2
<1>7. /\ Tail(T) \in Seq(Messages) /\ Len(Tail(T)) = N - 1
      /\ \A k \in 1 .. N - 1 : Tail(T)[k] = T[k + 1]
  <2>1. T \in Seq(Messages) /\ T # <<>> /\ Len(T) = N
    BY <1>1, <1>2
  <2> QED
    BY <2>1
<1>8. ASSUME NEW i \in 2 .. N PROVE i - 1 \in DOMAIN Tail(T) /\ Tail(T)[i - 1] = T[i]
  <2>1. i - 1 \in 1 .. N - 1 /\ (i - 1) + 1 = i
    OBVIOUS
  <2> QED
    BY <1>7, <2>1
<1>9. Quotable(T)
  <2> SUFFICES ASSUME NEW i \in 2 .. N PROVE T[i].body # "forwarded"
    BY <1>1, <1>2 DEF Quotable
  <2>1. T[i] \in ToSet(Tail(T))
    BY <1>8 DEF ToSet
  <2> QED
    BY <1>1, <2>1 DEF bodies_are_apart
<1>4. /\ parse_thread(snapshot(T)) \in {<<>>, ids_written(T)}
      /\ (\A i \in 2 .. N : quotation_is_readable(T[i])) =>
           parse_thread(snapshot(T)) = ids_written(T)
  BY <1>1, <1>2, <1>3, <1>9, SnapshotRead
<1>5. ASSUME \A m \in ToSet(Tail(T)) : quotation_is_readable(m), NEW i \in 2 .. N
      PROVE  quotation_is_readable(T[i])
  BY <1>5, <1>8 DEF ToSet
<1> QED
  BY <1>1, <1>4, <1>5, Zenon DEF parsed, written

\* It takes a body that passes for headers or for a quotation to make
\* parse_thread misread a snapshot: one that begins with a Message-ID line, an
\* indented one directly after the Message-ID, or a line "From:" in a body that
\* is quoted.  Without these, for threads of any length and in any mix of forms,
\* it gives the Message-IDs that were written, all of them and in their order,
\* or it refuses the file, so that no thread gets the canonical id of another
\* one (parse_thread, _split_message_blocks, _parse_message_block).
THEOREM NothingIsMisread == Spec => []NeverMisread
<1>1. CorpusTyped => NeverMisread
  <2> SUFFICES ASSUME CorpusTyped, NEW n \in DOMAIN corpus,
                      bodies_are_apart(corpus[n])
               PROVE  parsed(n) \in {<<>>, written(n)}
    BY Zenon DEF NeverMisread
  <2> QED
    BY FileRead, Zenon
<1> QED
  BY <1>1, CorpusTypedHolds, PTL

\* Blank lines, folded and reordered headers, bodies that begin with some other
\* header, headers forwarded in the newest body, either quote style, dashes with
\* or without a blank line after them: but for those bodies, a thread within
\* what quotations can express is parsed to its Message-IDs, however long it is
\* (parse_thread, _strip_quote_prefixes, _parse_message_block).
THEOREM ReadableThreadsParse == Spec => []ReadableFilesParse
<1>1. CorpusTyped => ReadableFilesParse
  <2> SUFFICES ASSUME CorpusTyped, NEW n \in DOMAIN corpus,
                      bodies_are_apart(corpus[n]),
                      \A m \in ToSet(Tail(corpus[n])) : quotation_is_readable(m)
               PROVE  parsed(n) = written(n)
    BY Zenon DEF ReadableFilesParse
  <2> QED
    BY FileRead, Zenon
<1> QED
  BY <1>1, CorpusTypedHolds, PTL
=============================================================================
