----------------------------- MODULE RuleParsers -----------------------------
(***************************************************************************)
(* What a mail is to the parse pass: the bodies the Gmail connector takes  *)
(* from its parts, and what the rule parsers make of them.                 *)
(*                                                                         *)
(* A text is the set of things a parser's patterns find in it, a sender or *)
(* a subject the set of the parsers' patterns it contains; {} is the empty *)
(* text.  A mark says where a thing stands: in the first 4096 bytes of the *)
(* message's text or in the rest, inside <script> or <style> or not.       *)
(***************************************************************************)
EXTENDS Integers

Thing == {"words", "won", "dollars", "card"}
Plain == Thing \X {"start", "rest"}
Html  == Thing \X {"shown", "hidden"}

\* A MIME part: its type and decoded data.  A message is the sequence of its parts in
\* the order of the recursive walk, with its sender, its subject, the second of its Date
\* header (-1: none that can be read) and that of Gmail's internalDate.
Part == [mime : {"text/plain", "text/html", "other"}, data : SUBSET Plain \cup SUBSET Html]

Collected(parts, mime) ==
  UNION {parts[i].data : i \in {j \in DOMAIN parts : parts[j].mime = mime}}

BodyText(m) == Collected(m.parts, "text/plain")
BodyHtml(m) == Collected(m.parts, "text/html")

ReceivedAt(m) == IF m.date >= 0 THEN m.date ELSE m.internalDate

\* DEFAULT_PARSERS: the first that takes a mail is the only one asked.
Parsers ==
  << [name |-> "trancy", sender |-> "@trancy.org", subject |-> "Receipt from Trancy",
      amount |-> "won", currency |-> "KRW", card |-> FALSE],
     [name |-> "anthropic", sender |-> "@mail.anthropic.com",
      subject |-> "Your receipt from Anthropic",
      amount |-> "dollars", currency |-> "USD", card |-> TRUE] >>

CanParse(p, m) == p.sender \in m.sender /\ p.subject \in m.subject
Takers(m) == {i \in DOMAIN Parsers : CanParse(Parsers[i], m)}
SelectParser(m) == CHOOSE i \in Takers(m) : \A j \in Takers(m) : i <= j

Words(text)      == {t \in Thing : \E mark \in {"start", "rest"} : <<t, mark>> \in text}
HtmlToText(html) == {t \in Thing : <<t, "shown">> \in html}

\* The HTML is looked at only when there is no text part, whatever the text lacks.
Text(m) == IF BodyText(m) # {} THEN Words(BodyText(m)) ELSE HtmlToText(BodyHtml(m))

\* An event, dated received_at, or a failure for want of an amount.
Parse(p, m) ==
  IF p.amount \in Text(m)
  THEN [rule |-> "ok", currency |-> p.currency, last4 |-> p.card /\ "card" \in Text(m)]
  ELSE [rule |-> "fail"]

\* What the parse pass sees of a mail; `start` is all its cache key takes of the text.
Kind(m) ==
  [body     |-> IF BodyText(m) # {} THEN "text" ELSE IF BodyHtml(m) # {} THEN "html" ELSE "none",
   rule     |-> IF Takers(m) = {} THEN "none" ELSE Parse(Parsers[SelectParser(m)], m).rule,
   from     |-> <<m.sender, m.subject>>,
   start    |-> {t \in Thing : <<t, "start">> \in BodyText(m)},
   received |-> ReceivedAt(m)]
=============================================================================
