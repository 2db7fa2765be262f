-------------------------- MODULE SyntaxHighlighter --------------------------
(* SyntaxHighlighter of libprisma: the constructor loads the grammars, then     *)
(* tokenize finds the one of a language and matches its patterns.               *)
EXTENDS Highlighter, LanguageTree

CONSTANT language       \* the language of the text

SyntaxInit == TreeInit /\ Init

(* The constructor loads the grammars before there is a text.                   *)
Construct == load /\ UNCHANGED vars

(* tokenize without a grammar: the text is one piece of plain text.             *)
Untokenized ==
    /\ Loaded /\ find(language) = {}
    /\ stack # <<>>
    /\ stack' = <<>>
    /\ UNCHANGED <<list, nested, treeVars>>

(* tokenize with the patterns that were read.                                   *)
Tokenize ==
    /\ Loaded
    /\ \E grammar \in find(language) :
           LET patterns == PatternsOf(grammar)
           IN  /\ Greedy = [i \in DOMAIN patterns |-> "greedy" \in patterns[i].flags]
               /\ Inside = [i \in DOMAIN patterns |-> patterns[i].inside # NoGrammar]
    /\ Next
    /\ UNCHANGED treeVars

SyntaxNext == Construct \/ Untokenized \/ Tokenize

(* The calling thread goes on, but a nested call is not known to return.        *)
Own == Construct \/ Untokenized \/ (Tokenize /\ ~nested)

LiveSpec == SyntaxInit /\ [][SyntaxNext]_<<vars, treeVars>> /\ WF_<<vars, treeVars>>(Own)
=============================================================================
