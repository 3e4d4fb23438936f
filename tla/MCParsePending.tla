--------------------------- MODULE MCParsePending ---------------------------
(* Instances of ParsePending.  Mails of every kind that takes a path of its *)
(* own: read by a rule; by the LLM from its text, although the HTML has the *)
(* amount; by the LLM from its HTML, its rule failing; and empty.  Two of a *)
(* kind share a cache key, and most pairs may be of one second.             *)
EXTENDS ParsePending, RuleParsers, TLC

CONSTANTS s1, s2, e1, e2

Message(sender, subject, parts, date) ==
  [sender |-> sender, subject |-> subject, parts |-> parts, date |-> date, internalDate |-> 1]
TextPart(things)   == [mime |-> "text/plain", data |-> things \X {"start"}]
HtmlPart(things)   == [mime |-> "text/html", data |-> things \X {"shown"}]
Trancy(parts, date) == Message({"@trancy.org"}, {"Receipt from Trancy"}, parts, date)
Bank(parts, date)   == Message({}, {}, parts, date)

Picture == <<[mime |-> "other", data |-> {}]>>

MCMail ==
  {Kind(Trancy(<<HtmlPart({"words", "won"})>>, 0)),
   Kind(Trancy(<<TextPart({"words"}), HtmlPart({"words", "won"})>>, 0)),
   Kind(Trancy(<<TextPart({"words"}), HtmlPart({"words", "won"})>>, -1)),
   Kind(Trancy(<<HtmlPart({"words"})>>, 0)),
   Kind(Bank(Picture, 1))}

\* Mails of one sender and one subject, without a text part.
MCHtmlOnly == {Kind(Bank(<<HtmlPart({"words", "won"})>>, 0))}

MCSymmetry == Permutations({s1, s2}) \cup Permutations({e1, e2})
=============================================================================
