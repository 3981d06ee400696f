------------------------------- MODULE Patterns -------------------------------
(***************************************************************************)
(* fnmatch (src/fnmatch.c).  Patterns and names are sequences of character *)
(* codes, written with Code; flags is a set of FNM_ names.                 *)
(***************************************************************************)
EXTENDS Characters, Sequences, FiniteSets, FiniteSetsExt, SequencesExt

Unit(text, i) == IF i \in DOMAIN text THEN text[i] ELSE 0
Is(text, i, name) == Unit(text, i) = Code[name]

Folded(c, flags) == IF "CASEFOLD" \in flags THEN tolower(c) ELSE c
wcrt_fn_equal(left, right, flags) == Folded(left, flags) = Folded(right, flags)

(* The rest of a bracket expression, from place i: matched so far, and the *)
(* code before a possible "-", or -1.  next is past the "]", or 0 if there *)
(* is none.                                                                *)
RECURSIVE BracketFrom(_, _, _, _, _, _)
BracketFrom(pattern, i, c, flags, matched, previous) ==
  LET escaped == Is(pattern, i, "backslash") /\ "NOESCAPE" \notin flags /\ i < Len(pattern)
      at == IF escaped THEN i + 1 ELSE i
      current == pattern[at]
      range == /\ current = Code["-"] /\ previous >= 0
               /\ at < Len(pattern) /\ ~Is(pattern, at + 1, "]")
      within == /\ Folded(previous, flags) <= Folded(c, flags)
                /\ Folded(c, flags) <= Folded(pattern[at + 1], flags)
  IN IF i > Len(pattern) THEN [matched |-> FALSE, next |-> 0]
     ELSE IF Is(pattern, i, "]") THEN [matched |-> matched, next |-> i + 1]
     ELSE IF range THEN BracketFrom(pattern, at + 2, c, flags, matched \/ within, -1)
     ELSE BracketFrom(pattern, at + 1, c, flags, matched \/ wcrt_fn_equal(current, c, flags), current)

(* A "]" that comes first is a character of the set.                       *)
wcrt_fn_bracket(pattern, i, c, flags) ==
  LET negate == Is(pattern, i, "!") \/ Is(pattern, i, "^")
      first == IF negate THEN i + 1 ELSE i
      close == Is(pattern, first, "]")
      set == IF close THEN BracketFrom(pattern, first + 1, c, flags, c = Code["]"], Code["]"])
             ELSE BracketFrom(pattern, first, c, flags, FALSE, -1)
  IN [set EXCEPT !.matched = @ # negate]

(* Whether the pattern from place p on matches the name from place s on;   *)
(* start: a component of the path begins there.                            *)
RECURSIVE wcrt_fn_match(_, _, _, _, _, _)
wcrt_fn_match(pattern, p, string, s, flags, start) ==
  LET token == pattern[p]
      slash == "PATHNAME" \in flags /\ Is(string, s, "/")
      period == "PERIOD" \in flags /\ start /\ Is(string, s, ".")
      past == Min({i \in p..Len(pattern) + 1 : ~Is(pattern, i, "*")})
      Rest(next) == wcrt_fn_match(pattern, next, string, s + 1, flags, token = Code["/"])
      bracket == wcrt_fn_bracket(pattern, p + 1, string[s], flags)
      escape == token = Code["backslash"] /\ "NOESCAPE" \notin flags /\ p < Len(pattern)
      literal == IF escape THEN p + 1 ELSE p
      Slash(i) == string[i] = Code["/"]
      (* How far the star may reach: to the next slash, or to the end.     *)
      reach == IF "PATHNAME" \in flags THEN Min({Len(string) + 1} \cup {i \in s..Len(string) : Slash(i)})
               ELSE Len(string) + 1
  IN CASE p > Len(pattern) -> s > Len(string)
       [] p <= Len(pattern) /\ token = Code["*"] ->
            /\ ~period
            /\ \E i \in s..reach : wcrt_fn_match(pattern, past, string, i, flags,
                                                 IF i = s THEN start ELSE Slash(i - 1))
       [] p <= Len(pattern) /\ token # Code["*"] /\ s > Len(string) -> FALSE
       [] p <= Len(pattern) /\ s <= Len(string) /\ token = Code["?"] -> ~period /\ ~slash /\ Rest(p + 1)
       [] p <= Len(pattern) /\ s <= Len(string) /\ token = Code["["] ->
            /\ ~period /\ ~slash
            /\ IF bracket.next = 0 THEN string[s] = Code["["] /\ Rest(p + 1)
               ELSE bracket.matched /\ Rest(bracket.next)
       [] OTHER ->
            /\ wcrt_fn_equal(pattern[literal], string[s], flags)
            /\ wcrt_fn_match(pattern, literal + 1, string, s + 1, flags, pattern[literal] = Code["/"])
fnmatch(pattern, string, flags) == wcrt_fn_match(pattern, 1, string, 1, flags, TRUE)

-----------------------------------------------------------------------------
(* What fnmatch promises: a pattern spells a list of tokens, and a name    *)
(* matches it if it can be cut into one piece for each of them.            *)

(* A token is [kind: "literal", "any", "star", "set" or "other", of]: the  *)
(* character, the characters of a set, or those a set leaves out.          *)
Set(of) == IF Cardinality(of) > 1 /\ of = Min(of)..Max(of) THEN <<Min(of), Code["-"], Max(of)>>
           ELSE LET close == of \cap {Code["]"]} IN SetToSeq(close) \o SetToSeq(of \ close)
Special == {Code["*"], Code["?"], Code["["], Code["backslash"]}
Spelt(token) ==
  CASE token.kind = "literal" -> IF token.of \in Special THEN <<Code["backslash"], token.of>> ELSE <<token.of>>
    [] token.kind = "any"     -> <<Code["?"]>>
    [] token.kind = "star"    -> <<Code["*"]>>
    [] token.kind = "set"     -> <<Code["["]>> \o Set(token.of) \o <<Code["]"]>>
    [] token.kind = "other"   -> <<Code["["], Code["!"]>> \o Set(token.of) \o <<Code["]"]>>

(* Whether name[from .. to - 1] is a piece for the token: a wildcard takes *)
(* no slash of a path, and neither takes nor stands before a period that   *)
(* begins a component.                                                     *)
Begins(name, i) == i = 1 \/ Is(name, i - 1, "/")
Hidden(name, i, flags) == "PERIOD" \in flags /\ Is(name, i, ".") /\ Begins(name, i)
Wild(name, i, flags) == ~("PATHNAME" \in flags /\ Is(name, i, "/")) /\ ~Hidden(name, i, flags)
In(c, of, flags) == \E each \in of : wcrt_fn_equal(each, c, flags)
Piece(token, name, from, to, flags) ==
  CASE token.kind = "literal" -> to = from + 1 /\ wcrt_fn_equal(token.of, name[from], flags)
    [] token.kind = "any"     -> to = from + 1 /\ Wild(name, from, flags)
    [] token.kind = "set"     -> to = from + 1 /\ Wild(name, from, flags) /\ In(name[from], token.of, flags)
    [] token.kind = "other"   -> to = from + 1 /\ Wild(name, from, flags) /\ ~In(name[from], token.of, flags)
    [] token.kind = "star"    -> ~Hidden(name, from, flags) /\ \A i \in from..to - 1 : Wild(name, i, flags)
Matches(tokens, name, flags) ==
  IF tokens = <<>> THEN name = <<>>
  ELSE \E inner \in [2..Len(tokens) -> 1..Len(name) + 1] :
    LET cut == [t \in 1..Len(tokens) + 1 |-> IF t = 1 THEN 1 ELSE IF t = Len(tokens) + 1 THEN Len(name) + 1
                                             ELSE inner[t]]
    IN \A t \in DOMAIN tokens : cut[t] <= cut[t + 1] /\ Piece(tokens[t], name, cut[t], cut[t + 1], flags)

(* docs/req-0068-posix-fnmatch.md, with FNM_PERIOD where FNM_PATHNAME is   *)
(* set or the name has no slash: otherwise the code does not agree with    *)
(* itself on which periods begin a component.                              *)
PatternMatches(tokens, name, flags) ==
  ("PERIOD" \in flags => "PATHNAME" \in flags \/ \A i \in DOMAIN name : ~Is(name, i, "/")) =>
    fnmatch(FlattenSeq([t \in DOMAIN tokens |-> Spelt(tokens[t])]), name, flags) = Matches(tokens, name, flags)
=============================================================================
