------------------------------- MODULE MailLines -------------------------------
(* The lines of a mail (src/src/digest.rs): those of each mail of an mbox, those *)
(* of each part of a body, those that quoted-printable has broken, the words    *)
(* and lines that count, and which of them are digested.  A text is the         *)
(* sequence of its lines, whatever ends them, the last one being what follows   *)
(* the last line end; a line is a sequence of words.  A word is <<form, ...>>:  *)
(*   <<"plain", id, size>>, and "email", "url" which are never digested         *)
(*   <<"soft">>      the "=" at the end of a line of quoted-printable           *)
(*   <<"From", 0, 4>>   "From " at the beginning of a line                      *)
(*   <<"marker", b>>, <<"closing", b>>   "--b" and "--b--", a line each         *)
(* and others that Mails says.                                                  *)
EXTENDS Integers, Sifting, SequencesExt

DigestSpec == <<<<20, 3>>, <<60, 3>>>>

Begins(line, form) == line # << >> /\ line[1][1] = form
\* str::lines: nothing follows a last line end.
TextLines(text) == IF text # << >> /\ Last(text) = << >> THEN Front(text) ELSE text

(***************************************************************************)
(* Mails of an mbox                                                        *)
(***************************************************************************)
NoMail == [mails |-> << >>, current |-> << >>, seen |-> FALSE]
Delivered(state, line) ==
    IF ~Begins(line, "From") THEN [state EXCEPT !.current = Append(@, line)]
    ELSE [mails |-> IF state.seen /\ state.current # << >>
                    THEN Append(state.mails, state.current) ELSE state.mails,
          current |-> IF state.seen THEN << >> ELSE state.current,
          seen |-> TRUE]
\* What comes before the first "From " line belongs to the first mail.
SplitMbox(text) ==
    LET lines == TextLines(text)
        after[n \in 0..Len(lines)] ==
            IF n = 0 THEN NoMail ELSE Delivered(after[n - 1], lines[n])
        end == after[Len(lines)]
    IN IF end.current # << >> \/ ~end.seen THEN Append(end.mails, end.current) ELSE end.mails

(***************************************************************************)
(* Parts of a multipart body                                               *)
(***************************************************************************)
NoPart == [parts |-> << >>, current |-> << >>, inside |-> FALSE, closed |-> FALSE]
Parted(state, line, boundary) ==
    IF state.closed THEN state
    ELSE IF line \in {<<<<"marker", boundary>>>>, <<<<"closing", boundary>>>>}
    THEN [parts |-> IF state.inside /\ state.current # << >>
                    THEN Append(state.parts, state.current) ELSE state.parts,
          current |-> << >>, inside |-> TRUE, closed |-> line = <<<<"closing", boundary>>>>]
    ELSE IF state.inside THEN [state EXCEPT !.current = Append(@, line)] ELSE state

\* Mutant: the last part is only complete with its closing marker.
OnlyClosed(state) == state.parts
\* A mail that breaks off inside its last part keeps what there is of it.
AtTheEnd(state) == IF state.current # << >> THEN Append(state.parts, state.current) ELSE state.parts

SplitMultipart(text, boundary) ==
    LET lines == TextLines(text)
        after[n \in 0..Len(lines)] ==
            IF n = 0 THEN NoPart ELSE Parted(after[n - 1], lines[n], boundary)
    IN AtTheEnd(after[Len(lines)])

(***************************************************************************)
(* Quoted-printable                                                        *)
(***************************************************************************)
Unbroken(lines, line) ==
    IF lines # << >> /\ Last(lines) # << >> /\ Last(Last(lines)) = <<"soft">>
    THEN Append(Front(lines), Front(Last(lines)) \o line)
    ELSE Append(lines, line)
DecodeTransfer(text, encoding) ==
    LET decoded[n \in 0..Len(text)] ==
            IF n = 0 THEN << >> ELSE Unbroken(decoded[n - 1], text[n])
    IN IF encoding = <<<<"encoding", "quoted-printable">>>> THEN decoded[Len(text)] ELSE text

(***************************************************************************)
(* The lines that are digested                                             *)
(***************************************************************************)
Digestible(word) == word[1] \in {"plain", "From"} /\ word[3] < 10
Normalize(line) == Sift(line, {word \in Range(line) : Digestible(word)})
ShouldHandleLine(line) == FoldLeft(LAMBDA n, word : n + word[3], 0, line) >= 8

LinesThatCount(payloads) ==
    LET lines == FlattenSeq([i \in DOMAIN payloads |->
                               [j \in DOMAIN payloads[i] |-> Normalize(payloads[i][j])]])
    IN Sift(lines, {line \in Range(lines) : ShouldHandleLine(line)})

\* What one entry of the spec selects; positions past the end select nothing.
Piece(lines, offset, length) ==
    LET first == (offset * Len(lines)) \div 100 + 1
    IN SubSeq(lines, first, Min({first + length - 1, Len(lines)}))
Selected(lines, spec) ==
    IF Len(lines) <= 4 THEN lines
    ELSE FlattenSeq([i \in DOMAIN spec |-> Piece(lines, spec[i][1], spec[i][2])])
================================================================================
