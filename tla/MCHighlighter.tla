---------------------------- MODULE MCHighlighter ----------------------------
EXTENDS SyntaxHighlighter

(* Three greedy patterns, so that a rematch can cause another, and a plain one.  *)
FourPatterns == <<TRUE, FALSE, TRUE, TRUE>>

(* The plain pattern and the last greedy one have a grammar inside, the latter  *)
(* the grammar it is itself in.                                                 *)
InsideTwo == <<FALSE, TRUE, FALSE, TRUE>>
Asked == <<71>>

PatternWith(text, alias, inside, flags) ==
    [pattern |-> text, alias |-> alias, inside |-> inside, flags |-> flags]
LanguageWith(name, displayName, index) ==
    [name |-> name, displayName |-> displayName, index |-> index]

(* The language asked for, with the four patterns in two tokens of its grammar, *)
(* which is not the first, nor are they.                                        *)
Found ==
    [patterns  |-> [i \in 1..5 |-> CASE i = 2 -> PatternWith(<<65>>, <<>>, 0, {"icase"})
                                    [] i = 4 -> PatternWith(<<65>>, <<>>, 1, {"greedy"})
                                    [] OTHER -> PatternWith(<<65>>, <<>>, NoGrammar, {"greedy"})],
     grammars  |-> <<<<>>, <<[name |-> <<68>>, patterns |-> <<4, 1, 2>>],
                             [name |-> <<69>>, patterns |-> <<3>>]>>>>,
     languages |-> {LanguageWith(Asked, <<72>>, 1), LanguageWith(<<70>>, <<>>, 0)}]

(* Another language, a pattern with any text, alias, grammar and flags in front *)
(* of a plain one, and names around the length at which the format changes.     *)
Texts   == {<<47>>, <<65, 47, 44>>, <<47, 65, 47>>, [i \in 1..9 |-> 65]}
Aliases == {<<>>, <<66>>, <<66, 44, 51>>}
Others  ==
    {[patterns  |-> <<PatternWith(text, alias, inside, flags),
                      PatternWith(<<67>>, <<>>, NoGrammar, {})>>,
      grammars  |-> <<<<[name |-> <<68>>, patterns |-> <<1, 0>>],
                       [name |-> [i \in 1..length |-> 69], patterns |-> <<300>>]>>, <<>>>>,
      languages |-> {LanguageWith(<<70>>, <<>>, 1),
                     LanguageWith([i \in 1..length |-> 71], <<72>>, 0)}] :
        text \in Texts, alias \in Aliases, inside \in {NoGrammar, 0, 10, 921},
        flags \in {{}, {"greedy"}, DOMAIN Flags}, length \in {6, 7, 8, 260}}

FilesWritten == {Found} \cup Others
=============================================================================
