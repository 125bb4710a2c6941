---------------------------- MODULE ThreadParser ----------------------------
(***************************************************************************)
(* parse_thread (parser.py) on the lines of a thread snapshot.             *)
(*                                                                         *)
(* A line is a record: its quote mark, whether more whitespace precedes    *)
(* its text than the one blank that belongs to a pipe, what kind of text   *)
(* that is, and what it says.  The kind "header" is any text of the form   *)
(* "Name: value", wherever it stands, with a blank or the end of the line  *)
(* after the colon; a header name is as it is written.  Headers other than *)
(* Message-ID, and bodies, matter only as far as they decide which         *)
(* Message-IDs are read.                                                   *)
(***************************************************************************)
EXTENDS Naturals, Sequences, SequencesExt, FiniteSets

Marks == {"", "|", ">"}

header(name, value) ==
  [mark |-> "", indented |-> FALSE, kind |-> "header", name |-> name, value |-> value]

text(value) ==
  [mark |-> "", indented |-> FALSE, kind |-> "text", name |-> "", value |-> value]

blank == [mark |-> "", indented |-> FALSE, kind |-> "blank", name |-> "", value |-> ""]

dashes ==
  [mark |-> "", indented |-> FALSE, kind |-> "dashes", name |-> "", value |-> "-----"]

\* headers[name] has the name in lower case.
MessageIdNames == {"Message-ID", "Message-Id", "message-id"}

-----------------------------------------------------------------------------
(* _split_message_blocks                                                   *)

is_blank(lines) == \A i \in DOMAIN lines : lines[i] = blank

\* Nothing but blank lines stands between the two.
blank_between(lines, i, j) == \A k \in i + 1 .. j - 1 : lines[k] = blank

says_from(line) == line.kind = "header" /\ line.name = "From"

\* "| From:", "> From:" or ">  From:", and as whitespace may be line ends, a
\* mark alone on its line with the From: on a later one.
starts_quoted_message(lines, i) ==
  /\ lines[i].mark # ""
  /\ \/ says_from(lines[i])
     \/ /\ lines[i].kind = "blank"
        /\ \E j \in i + 1 .. Len(lines) :
             blank_between(lines, i, j) /\ lines[j].mark = "" /\ says_from(lines[j])

\* A quoted message starts here: at the dashes before it, if there are any.
starts_message(lines, i) ==
  \/ /\ lines[i] = dashes
     /\ \E j \in i + 1 .. Len(lines) :
          blank_between(lines, i, j) /\ starts_quoted_message(lines, j)
  \/ /\ starts_quoted_message(lines, i)
     /\ ~ \E j \in 1 .. i - 1 : lines[j] = dashes /\ blank_between(lines, j, i)

\* The lines from the first that is not blank.
without_blanks(lines) ==
  SubSeq(lines, 1 + Cardinality({i \in DOMAIN lines : is_blank(SubSeq(lines, 1, i))}),
         Len(lines))

without_dashes(block) ==
  IF block # <<>> /\ Head(block) = dashes THEN without_blanks(Tail(block)) ELSE block

\* A set of numbers as a sequence, the least one first.
in_order(S) ==
  [k \in 1 .. Cardinality(S) |->
     CHOOSE i \in S : Cardinality({j \in S : j <= i}) = k]

split_message_blocks(lines) ==
  LET starts == in_order({i \in DOMAIN lines : starts_message(lines, i)})
      top    == SubSeq(lines, 1, IF starts = <<>> THEN Len(lines) ELSE starts[1] - 1)
      quoted == [k \in DOMAIN starts |->
                   without_dashes(SubSeq(lines, starts[k],
                     IF k = Len(starts) THEN Len(lines) ELSE starts[k + 1] - 1))]
  IN  (IF is_blank(top) THEN <<>> ELSE <<without_blanks(top)>>) \o quoted

-----------------------------------------------------------------------------
(* _parse_message_block                                                    *)

\* A pipe goes with one blank, a greater-than sign with all of them.
unquote(line, mark) ==
  IF line.mark # mark THEN line
  ELSE [line EXCEPT !.mark = "", !.indented = (mark # ">") /\ line.indented]

\* The first line tells how the block is quoted.
strip_quote_prefixes(block) ==
  [i \in DOMAIN block |-> unquote(block[i], Head(block).mark)]

\* The text of a line, stripped.
text_of(line) ==
  IF line.kind # "header" THEN line.value
  ELSE line.name \o (IF line.value = "" THEN ":" ELSE ": ") \o line.value

folded(value, line) ==
  IF value = "" THEN text_of(line) ELSE value \o " " \o text_of(line)

\* Mutant: an empty line ends the headers.
read_line_to_blank(state, line) ==
  IF state.in_body \/ line.kind = "blank" THEN [state EXCEPT !.in_body = TRUE]
  ELSE IF line.kind = "header" THEN
    [state EXCEPT !.current = line.name,
                  !.message_id = IF line.name \in MessageIdNames THEN line.value ELSE @]
  ELSE [state EXCEPT !.message_id =
          IF state.current \in MessageIdNames THEN folded(@, line) ELSE @]

\* One line of the header loop: blank lines are skipped wherever they stand,
\* a header is set or set again, an indented line continues the header
\* before it, and any other line begins the body.
read_line(state, line) ==
  IF state.in_body \/ (line.kind = "blank" /\ line.mark = "") THEN state
  ELSE IF line.mark = "" /\ ~line.indented /\ line.kind = "header"
  THEN [state EXCEPT !.current = line.name,
                     !.message_id = IF line.name \in MessageIdNames THEN line.value ELSE @]
  ELSE IF line.mark = "" /\ line.indented /\ state.current # ""
  THEN [state EXCEPT !.message_id =
          IF state.current \in MessageIdNames THEN folded(@, line) ELSE @]
  ELSE [state EXCEPT !.in_body = TRUE]

\* The Message-ID of a block, "" if the header is absent or empty.
message_id_of(block) ==
  FoldLeft(read_line, [current |-> "", message_id |-> "", in_body |-> FALSE],
           strip_quote_prefixes(block)).message_id

-----------------------------------------------------------------------------

\* Mutant: a message without an id is left out.
parse_messages_with_id(lines) ==
  LET blocks == split_message_blocks(lines)
  IN  SelectSeq([k \in DOMAIN blocks |-> message_id_of(blocks[k])], LAMBDA id : id # "")

\* The Message-IDs of a snapshot, newest first; <<>> stands for a ParseError.
parse_thread(lines) ==
  LET blocks == split_message_blocks(lines)
      ids    == [k \in DOMAIN blocks |-> message_id_of(blocks[k])]
  IN  IF \E k \in DOMAIN ids : ids[k] = "" THEN <<>> ELSE ids
=============================================================================
