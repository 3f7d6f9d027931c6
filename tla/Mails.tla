-------------------------------- MODULE Mails ---------------------------------
(* From a mail to its predigest (src/src/digest.rs): the parts of a MIME        *)
(* message, HTML, and the predigest of the lines that count.  More words:       *)
(*   <<"name", n>>   "n:" at the beginning of a header                          *)
(*   <<"indent">>    the space a line begins with                               *)
(*   <<"media", main, sub>>, <<"boundary", b>>, <<"encoding", e>> in a header   *)
(*   <<"tag", n>>, <<"endtag", n>>       of HTML                                *)
(* Base64, escaped bytes, entities and character sets spell words differently   *)
(* and are left out.                                                            *)
EXTENDS MailLines

(***************************************************************************)
(* Parts                                                                   *)
(***************************************************************************)
\* A line without a colon is passed over, a folded one belongs to the last header.
HasColon(line) == \E i \in DOMAIN line : line[i][1] \in {"name", "url"}
Headers(lines) ==
    FoldLeft(LAMBDA headers, line :
               IF Begins(line, "indent")
               THEN IF headers = << >> THEN << >>
                    ELSE [headers EXCEPT ![Len(headers)].value = @ \o Tail(line)]
               ELSE IF ~HasColon(line) THEN headers
               ELSE Append(headers, [name |-> IF Begins(line, "name") THEN line[1][2] ELSE "other",
                                     value |-> Tail(line)]),
             << >>, lines)

\* An empty line ends the headers, unless it is the very first line: a part that
\* begins with one has its headers up to the next.
Parse(text) ==
    LET blank == {i \in 2..(Len(text) - 1) : text[i] = << >>}
    IN IF blank # {}
       THEN [headers |-> Headers(SubSeq(text, 1, Min(blank) - 1)),
             body |-> SubSeq(text, Min(blank) + 1, Len(text))]
       ELSE IF TextLines(text) # << >> /\ Begins(text[1], "name")
       THEN [headers |-> Headers(TextLines(text)), body |-> << >>]
       ELSE [headers |-> << >>, body |-> text]

HeaderOf(part, name) ==
    LET mine == {i \in DOMAIN part.headers : part.headers[i].name = name}
    IN IF mine = {} THEN << >> ELSE part.headers[Min(mine)].value
Media(part) ==
    LET value == HeaderOf(part, "Content-Type")
    IN IF Begins(value, "media") THEN Tail(value[1]) ELSE <<"text", "plain">>
Boundaries(part) == SelectSeq(HeaderOf(part, "Content-Type"), LAMBDA w : w[1] = "boundary")

(***************************************************************************)
(* Texts                                                                   *)
(***************************************************************************)
\* The text between two tags without the line ends around it, joined by a space to
\* the one before, and left out inside of script and style.
Trimmed(run) ==
    LET full == {i \in DOMAIN run : run[i] # << >>}
    IN IF full = {} THEN << >> ELSE SubSeq(run, Min(full), Max(full))
JoinedBySpace(a, b) ==
    IF a = << >> THEN b ELSE IF b = << >> THEN a
    ELSE Front(a) \o <<Last(a) \o Head(b)>> \o Tail(b)
NormalizeHtmlPart(text) ==
    LET push(state) == IF state.collect THEN JoinedBySpace(state.data, Trimmed(state.run))
                       ELSE state.data
        step(state, word) ==
          IF word[1] \in {"tag", "endtag"}
          THEN [data |-> push(state), run |-> <<<< >>>>,
                collect |-> IF word[2] \in {"script", "style"} THEN word[1] = "endtag"
                            ELSE state.collect]
          ELSE [state EXCEPT !.run = Append(Front(@), Append(Last(@), word))]
        line(state, words) == FoldLeft(step, [state EXCEPT !.run = Append(@, << >>)], words)
    IN push(FoldLeft(line, [data |-> << >>, run |-> << >>, collect |-> TRUE], text))

RECURSIVE DigestPayloads(_)
DigestPayloads(part) ==
    LET media == Media(part)
        text == DecodeTransfer(part.body, HeaderOf(part, "Content-Transfer-Encoding"))
    IN CASE media[1] = "multipart" ->
              IF Boundaries(part) = << >> THEN << >>
              ELSE LET children == SplitMultipart(part.body, Last(Boundaries(part))[2])
                   IN FlattenSeq([i \in DOMAIN children |-> DigestPayloads(Parse(children[i]))])
         [] media = <<"text", "html">> -> <<NormalizeHtmlPart(text)>>
         [] media[1] = "text" /\ media # <<"text", "html">> -> <<text>>
         [] OTHER -> <<part.body>>

(***************************************************************************)
(* The predigest                                                           *)
(***************************************************************************)
Predigest(text, spec) == Selected(LinesThatCount(DigestPayloads(Parse(text))), spec)

InputPredigests(style, text) ==
    LET mails == IF style = "mbox" THEN SplitMbox(text) ELSE <<text>>
    IN [i \in DOMAIN mails |-> Predigest(mails[i], DigestSpec)]
===============================================================================
