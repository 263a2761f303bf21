---------------------------- MODULE SmtpMessage ----------------------------
(***************************************************************************)
(* What becomes of the lines that follow DATA: readSmtpData trims them,    *)
(* parseEmailContent splits them into header fields and body               *)
(* (handler/smtp.go).  A line is known by whether it begins with a blank,  *)
(* and by what it holds: a name and a colon, other words, nothing or a     *)
(* single dot.  Lines that begin with a dot among other characters are     *)
(* left out.                                                               *)
(***************************************************************************)
EXTENDS Naturals, Sequences

CONSTANT Names \* what can stand before the colon of a header field

BodyLines == [indented : BOOLEAN, holds : Names \cup {"words", "nothing"}]
DotLines == [indented : BOOLEAN, holds : {"dot"}]

Blank(line) == line.holds = "nothing"

\* readSmtpData, whose strings.TrimSpace makes an indented dot a dot, too.
ReadSmtpData(sent) ==
  [i \in DOMAIN sent |-> [sent[i] EXCEPT !.indented = FALSE]]

\* The first blank line, or the end of the message.
HeaderEnd(lines) ==
  CHOOSE n \in 1 .. Len(lines) + 1 :
    /\ n <= Len(lines) => Blank(lines[n])
    /\ \A i \in 1 .. n - 1 : ~Blank(lines[i])

\* The header lines, by number, that make the field beginning with line i: those
\* after it that are indented continue it, up to the first that is not.
Folded(header, i) ==
  LET Numbers == {j \in i .. Len(header) : \A k \in i + 1 .. j : header[k].indented}
  IN [j \in Numbers |-> header[j]]

\* Line i begins a field of this name: the name is before the field's first colon.
\* (It would take in the words of a line i without a colon; these are left out.)
Begins(header, i, name) ==
  /\ ~header[i].indented
  /\ \E j \in DOMAIN Folded(header, i) :
       /\ header[j].holds = name
       /\ \A k \in i .. j - 1 : header[k].holds \notin Names

\* headers[key] = val: the last field of a name replaces those before it.  An
\* indented line with none before it is dropped, and so is what has no colon.
Fields(header) ==
  LET Begun(name) == {i \in DOMAIN header : Begins(header, i, name)}
      Last(name) == CHOOSE i \in Begun(name) : \A k \in Begun(name) : k <= i
  IN [name \in {n \in Names : Begun(n) # {}} |-> Folded(header, Last(name))]

\* Variant with a bug: the blank line is taken into the body.
ParseWithBlank(lines) ==
  [headers |-> Fields(SubSeq(lines, 1, HeaderEnd(lines) - 1)),
   text |-> SubSeq(lines, HeaderEnd(lines), Len(lines))]

ParseEmailContent(lines) ==
  [headers |-> Fields(SubSeq(lines, 1, HeaderEnd(lines) - 1)),
   text |-> SubSeq(lines, HeaderEnd(lines) + 1, Len(lines))]

\* What is logged of the lines of a message, with the lines themselves.
Captured(sent) ==
  LET parsed == ParseEmailContent(ReadSmtpData(sent)) IN
  [sent |-> sent, headers |-> parsed.headers, text |-> parsed.text]

=============================================================================
