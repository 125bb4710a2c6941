---------------------------- MODULE ThreadCorpus ----------------------------
(***************************************************************************)
(* A directory of thread snapshots as it is described in DESIGN.md         *)
(* ("Findings"): each file is a whole thread, newest message first, older  *)
(* messages quoted, and near-duplicates of a file differ in form only.     *)
(* Nothing keeps a name from being wrong about the thread in its file.     *)
(***************************************************************************)
EXTENDS ThreadParser, FiniteSets

CONSTANTS
  FileNames,     \* the names that files can get, in the order of sorted()
  MessageIds,  \* the Message-IDs that mail clients generate, in this order
  Bodies,      \* the forms of message bodies
  MaxDepth,    \* bound: messages in a thread
  MaxWrites    \* bound: files, and their departures from the plain form

ASSUME FileNamesAssumption ==
  FileNames \in Seq([path : Seq(STRING), base : STRING, variant : STRING])

ASSUME FormsAssumption ==
  /\ MessageIds \in Seq(STRING \ {""})
  /\ Bodies \subseteq {"empty", "text", "named", "indented", "id_first", "forwarded"}
  /\ MaxDepth \in Nat

VARIABLE corpus   \* the thread in each file, by the position of its name

\* The forms a message can take; the last three are those of its quotation.
Forms ==
  [order  |-> {<<"From", "To", "Message-ID">>, <<"To", "From", "Message-ID">>,
               <<"Message-ID", "From", "To">>},
   spaced |-> BOOLEAN,                    \* blank lines between headers
   folded |-> {"", "To", "Message-ID"},   \* a header that goes on a second line
   body   |-> Bodies,
   mark   |-> {"|", ">"},
   wide   |-> BOOLEAN,                    \* two blanks after the mark
   rule   |-> {"none", "tight", "loose"}] \* dashes before the quotation, and a blank line

Plain ==
  [order |-> <<"From", "To", "Message-ID">>, spaced |-> FALSE, folded |-> "",
   body |-> "text", mark |-> "|", wide |-> FALSE, rule |-> "tight"]

message(id) ==
  [a \in {"id"} \cup DOMAIN Plain |-> IF a = "id" THEN id ELSE Plain[a]]

variations(files) ==
  {x \in (DOMAIN files) \X (1 .. MaxDepth) \X (DOMAIN Plain) :
     x[2] <= Len(files[x[1]]) /\ files[x[1]][x[2]][x[3]] # Plain[x[3]]}

ids_written(thread) == [i \in DOMAIN thread |-> thread[i].id]

-----------------------------------------------------------------------------
(* The lines of a file                                                     *)

header_lines(m, name) ==
  LET value == IF name = "Message-ID" THEN m.id ELSE "x"
  IN  (IF m.folded = name
       THEN <<header(name, ""), [text(value) EXCEPT !.indented = TRUE]>>
       ELSE <<header(name, value)>>)
      \o (IF m.spaced THEN <<blank>> ELSE <<>>)

\* Bodies that begin with a line like a header, or with a Message-ID, and one
\* that forwards the headers of another message.
body_lines(m) ==
  CASE m.body = "empty"     -> <<>>
    [] m.body = "text"      -> <<blank, text("x")>>
    [] m.body = "named"     -> <<blank, header("from", "x"), text("x")>>
    [] m.body = "indented"  -> <<blank, [text("x") EXCEPT !.indented = TRUE]>>
    [] m.body = "id_first"  -> <<blank, header("Message-Id", "x"), text("x")>>
    [] m.body = "forwarded" -> <<blank, text("x"), header("From", "x"),
                                 header("Message-ID", "x")>>

message_lines(m) ==
  FlattenSeq(Append([k \in DOMAIN m.order |-> header_lines(m, m.order[k])], body_lines(m)))

rule_lines(m) ==
  CASE m.rule = "none"  -> <<>>
    [] m.rule = "tight" -> <<dashes>>
    [] m.rule = "loose" -> <<dashes, blank>>

quoted_lines(m) ==
  LET lines == message_lines(m)
  IN  rule_lines(m)
      \o [k \in DOMAIN lines |->
            [lines[k] EXCEPT !.mark = m.mark, !.indented = @ \/ m.wide]]

snapshot(thread) ==
  FlattenSeq([i \in DOMAIN thread |->
                IF i = 1 THEN message_lines(thread[i]) ELSE quoted_lines(thread[i])])

-----------------------------------------------------------------------------

CorpusInit == corpus = << >>

size(files) == Cardinality(DOMAIN files) + Cardinality(variations(files))

\* A file is written under a name that is free.
write(n, thread) ==
  /\ n \notin DOMAIN corpus
  /\ Len(thread) <= MaxDepth
  /\ corpus' = [k \in DOMAIN corpus \cup {n} |-> IF k = n THEN thread ELSE corpus[k]]
  /\ size(corpus') <= MaxWrites

\* Message-IDs are unique: a new message takes the next one.
fresh_messages(count) ==
  LET used == {m.id : m \in UNION {ToSet(corpus[n]) : n \in DOMAIN corpus}}
      free == {i \in DOMAIN MessageIds : MessageIds[i] \notin used}
  IN  {[k \in 1 .. count |-> message(MessageIds[first + k - 1])] :
         first \in {i \in free : /\ i + count - 1 <= Len(MessageIds)
                                  /\ \A j \in free : i <= j}}

\* A thread of which the directory has no earlier snapshot.
WriteThread(n) ==
  \E count \in 1 .. MaxDepth : \E thread \in fresh_messages(count) : write(n, thread)

WriteReply(n) ==
  \E source \in DOMAIN corpus, reply \in fresh_messages(1) :
    write(n, reply \o corpus[source])

WriteCopy(n) == \E source \in DOMAIN corpus : write(n, corpus[source])

\* The file is the near-duplicate that another mail client made of it.
Reformat(n) ==
  /\ n \in DOMAIN corpus
  /\ size(corpus) < MaxWrites
  /\ \E i \in DOMAIN corpus[n], a \in DOMAIN Forms : \E form \in Forms[a] \ {Plain[a]} :
       /\ corpus[n][i][a] = Plain[a]
       /\ i = 1 => a \notin {"mark", "wide", "rule"}
       /\ corpus' = [corpus EXCEPT ![n][i][a] = form]

Write ==
  \E n \in DOMAIN FileNames :
    WriteThread(n) \/ WriteReply(n) \/ WriteCopy(n) \/ Reformat(n)
=============================================================================
