---------------------------- MODULE ClassTokens ----------------------------
(***************************************************************************)
(* The class list of an element as operators on the value of its class     *)
(* attribute.  A string is the sequence of the words between its white     *)
(* space; a token is a string, too: callers may pass one with no word or   *)
(* with several, and nothing refuses it.                                    *)
(***************************************************************************)
EXTENDS Sequences, SequencesExt

\* Mutant of Values: a word that is repeated is listed again.
ValuesAsTheyAre(v) == v

\* The words of v, each at its first place.
Values(v) == FoldLeft(LAMBDA ws, w : IF w \in ToSet(ws) THEN ws ELSE Append(ws, w), <<>>, v)

Tokens(v) == [i \in DOMAIN Values(v) |-> <<Values(v)[i]>>]

HasToken(v, token) == token \in ToSet(Tokens(v))

WithTokens(v, tokens) ==
    FlattenSeq(FoldLeft(LAMBDA ts, t : IF t \in ToSet(ts) THEN ts ELSE Append(ts, t), Tokens(v), tokens))

WithoutTokens(v, tokens) == SelectSeq(Values(v), LAMBDA w : <<w>> \notin ToSet(tokens))

WithReplaced(v, old, new) ==
    FlattenSeq([i \in DOMAIN Tokens(v) |-> IF Tokens(v)[i] = old THEN new ELSE Tokens(v)[i]])

\* force is "auto" where the caller passes none.
ToggleOn(v, token, force) == force = "on" \/ (force = "auto" /\ ~HasToken(v, token))
WithToggled(v, token, force) ==
    IF ToggleOn(v, token, force) THEN WithTokens(v, <<token>>) ELSE WithoutTokens(v, <<token>>)

----------------------------------------------------------------------------
(***************************************************************************)
(* The reference: what each call means for an ordered set of words.        *)
(***************************************************************************)
WithWord(s, w) == IF w \in ToSet(s) THEN s ELSE Append(s, w)
WithoutWord(s, w) == SelectSeq(s, LAMBDA x : x # w)

\* new stands where the first of the two stood; the other one is gone.
Exchanged(s, old, new) ==
    IF old \notin ToSet(s) THEN s
    ELSE LET first == CHOOSE i \in DOMAIN s :
                         s[i] \in {old, new} /\ \A j \in 1..(i - 1) : s[j] \notin {old, new}
             Rest(t) == SelectSeq(t, LAMBDA x : x \notin {old, new})
         IN  Rest(SubSeq(s, 1, first - 1)) \o <<new>> \o Rest(SubSeq(s, first + 1, Len(s)))

ActsAsSet(v, w, u) ==
    /\ Values(WithTokens(v, <<<<w>>, <<u>>>>)) = WithWord(WithWord(Values(v), w), u)
    /\ Values(WithoutTokens(v, <<<<w>>>>)) = WithoutWord(Values(v), w)
    /\ Values(WithReplaced(v, <<w>>, <<u>>)) = Exchanged(Values(v), w, u)
    /\ \A force \in {"on", "off", "auto"} :
          HasToken(WithToggled(v, <<w>>, force), <<w>>) = ToggleOn(v, <<w>>, force)
=============================================================================
