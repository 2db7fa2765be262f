----------------------------- MODULE Highlighter -----------------------------
(* SyntaxHighlighter::matchGrammar of libprisma: the patterns of a grammar are  *)
(* tried one after the other on a doubly linked list of plain texts and         *)
(* tokens.  A greedy pattern searches the whole text and may swallow tokens of  *)
(* earlier patterns; then the earlier patterns are tried again on what was      *)
(* uncovered, by a recursive call that edits the list its caller is walking.    *)
(*                                                                              *)
(* One step is one iteration of the innermost loop.  The regular expressions    *)
(* (boost) are external: a search finds any match the text has room for, or     *)
(* none.  The characters are abstracted: a string_view is an offset and a       *)
(* length.                                                                       *)
(*                                                                              *)
(* A token of a pattern with a grammar inside has a list of its own, which      *)
(* tokenize makes of the token's text by a nested call.  That call sees nothing *)
(* of this list and is another instance of this module; here it is a wait that  *)
(* ends when the nested call returns, and need not: a grammar may be inside     *)
(* itself.                                                                      *)
EXTENDS Naturals, FiniteSetsExt, SequencesExt

CONSTANTS
    N,        \* text.length()
    Greedy,   \* Greedy[x]: is the x-th pattern of the grammar greedy?
    Inside    \* Inside[x]: has it a grammar for the text of its tokens?

ASSUME NAssumption == N \in Nat \ {0}
ASSUME GreedyAssumption == Greedy \in Seq(BOOLEAN) /\ Greedy # <<>>
ASSUME InsideAssumption == Inside \in [DOMAIN Greedy -> BOOLEAN]

VARIABLES
    list,     \* the TokenList: its nodes in order, and its own `length' field
    stack,    \* the calls of matchGrammar on this list, the running one last
    nested    \* is the running one in tokenize(match, inside)?

vars == <<list, stack, nested>>

-------------------------------------------------------------------------------
(* A node is identified by an address, so that a pointer to a deleted node is   *)
(* seen to dangle.  The list is circular: head precedes the first node and      *)
(* follows the last.                                                            *)
head == 0
Patterns == 1..Len(Greedy)
NoRematch == 0          \* rematch == nullptr
Addresses == 1..(N + 3 + 2 * (Len(Greedy) + 1))

Addressed(nodes) == {nodes[i].id : i \in DOMAIN nodes}
Pointers == UNION {{stack[d].startNode, stack[d].currentNode} : d \in DOMAIN stack}
IndexOf(id) == CHOOSE i \in DOMAIN list.nodes : list.nodes[i].id = id
NodeOf(id) == list.nodes[IndexOf(id)]

Following(nodes, id) ==
    LET i == IF id = head THEN 1 ELSE 1 + CHOOSE k \in DOMAIN nodes : nodes[k].id = id
    IN  IF i \in DOMAIN nodes THEN nodes[i].id ELSE head

(* What `new' returns for the text before a match, for the token and for the    *)
(* text after it: addresses that are neither in use nor still pointed to.       *)
New(taken) == CHOOSE a \in Addresses \ (Addressed(list.nodes) \cup Pointers \cup taken) : TRUE
newBefore == New({})
newToken  == New({newBefore})
newRest   == New({newBefore, newToken})

Text(id, at, len)   == [id |-> id, isSyntax |-> FALSE, at |-> at, len |-> len]
Syntax(id, at, len) == [id |-> id, isSyntax |-> TRUE, at |-> at, len |-> len]

(* TokenList's two edits, after the node with index k (0 for head).             *)
addAfter(l, k, node) == [nodes |-> InsertAt(l.nodes, k + 1, node), length |-> l.length + 1]

(* Mutants: the loop runs to i <= count; the length is counted down only once.  *)
removeRangeOneMore(l, k, count) ==
    [nodes  |-> SubSeq(l.nodes, 1, k) \o SubSeq(l.nodes, k + count + 2, Len(l.nodes)),
     length |-> l.length - count]
removeRangeUncounted(l, k, count) ==
    [nodes  |-> SubSeq(l.nodes, 1, k) \o SubSeq(l.nodes, k + count + 1, Len(l.nodes)),
     length |-> l.length - 1]

removeRange(l, k, count) ==
    [nodes  |-> SubSeq(l.nodes, 1, k) \o SubSeq(l.nodes, k + count + 1, Len(l.nodes)),
     length |-> l.length - count]

(* `if (after.size())'                                                          *)
addRest(l, k, node) == IF node.len > 0 THEN addAfter(l, k, node) ELSE l

(* Length of the nodes with index i to j - 1, as the loops add it up.           *)
Length(i, j) ==
    LET sum[k \in i..j] == IF k = i THEN 0 ELSE sum[k - 1] + list.nodes[k - 1].len
    IN  sum[j]

-------------------------------------------------------------------------------
(* A call: the pattern it is at, where it starts, how far it is, and, for a     *)
(* rematch, the pattern that caused it and how far it has to go.                *)
Call(cause, reach, startNode, startPos, first) ==
    [cause |-> cause, reach |-> reach, pattern |-> 1, startNode |-> startNode,
     startPos |-> startPos, currentNode |-> first, pos |-> startPos]

top == Last(stack)
Here == NodeOf(top.currentNode)
Under == Front(stack)

(* The increment of the for loop.  Mutant: its two parts in the other order.    *)
AdvanceSwapped(f) ==
    LET next == Following(list.nodes, f.currentNode)
    IN  [f EXCEPT !.currentNode = next,
                  !.pos = f.pos + IF next = head THEN 0 ELSE NodeOf(next).len]
Advance(f) == [f EXCEPT !.pos = f.pos + NodeOf(f.currentNode).len,
                        !.currentNode = Following(list.nodes, f.currentNode)]

(* A rematch stops where it reached, a call before the pattern that caused it   *)
(* (the mutant goes on to the last pattern).                                    *)
FinishedWithLast(f) == f.pattern > Len(Greedy)
Reached(f)  == f.cause # NoRematch /\ f.pos >= f.reach
Finished(f) == f.pattern > Len(Greedy) \/ f.pattern = f.cause

Extended(f, reach) ==
    IF f.cause # NoRematch /\ reach > f.reach THEN [f EXCEPT !.reach = reach] ELSE f

Running == stack # <<>> /\ ~Finished(top)
InLoop  == Running /\ top.currentNode # head /\ ~Reached(top)
InText  == InLoop /\ list.length <= N /\ ~Here.isSyntax

OnTop(f) == stack' = Append(Under, f)
NextPattern ==
    OnTop([top EXCEPT !.pattern = top.pattern + 1, !.pos = top.startPos,
                      !.currentNode = Following(list.nodes, top.startNode)])

(* The caller's loop goes on after its token; the reach of the rematch it is    *)
(* itself part of grows with that of the finished call.                         *)
Resumed(caller) == Advance(Extended(caller, top.reach))
Return == stack' = IF Under = <<>> THEN <<>> ELSE Append(Front(Under), Resumed(Last(Under)))

-------------------------------------------------------------------------------
Init ==
    /\ list = [nodes |-> <<Text(1, 0, N)>>, length |-> 1]
    /\ stack = <<Call(NoRematch, 0, head, 0, 1)>>
    /\ nested = FALSE

LoopEnds ==
    /\ Running
    /\ top.currentNode = head \/ Reached(top)
    /\ NextPattern
    /\ UNCHANGED <<list, nested>>

CallEnds ==
    /\ stack # <<>> /\ Finished(top)
    /\ Return
    /\ UNCHANGED <<list, nested>>

(* "Something went terribly wrong, ABORT, ABORT!"                               *)
Abort ==
    /\ InLoop /\ list.length > N
    /\ Return
    /\ UNCHANGED <<list, nested>>

(* Mutant: `continue' in a loop that does not advance by itself.                *)
SkipSyntaxStays ==
    /\ InLoop /\ list.length <= N /\ Here.isSyntax
    /\ UNCHANGED vars

SkipSyntax ==
    /\ InLoop /\ list.length <= N /\ Here.isSyntax
    /\ OnTop(Advance(top))
    /\ UNCHANGED <<list, nested>>

(* A plain pattern that does not match moves on; a greedy one that does not     *)
(* match from here on has nothing left to find.                                 *)
NoMatch ==
    /\ InText
    /\ IF Greedy[top.pattern] THEN NextPattern ELSE OnTop(Advance(top))
    /\ UNCHANGED <<list, nested>>

(* Cut the text from node i to the text offset `end', which is `count' nodes,   *)
(* into what is before the match, the token and what is after it.  The nested   *)
(* call for a grammar inside runs between the removal and the insertion; as     *)
(* nobody looks at this list before it returns, the step is taken at its start. *)
Replace(i, pos, from, to, end, count) ==
    LET k     == IF from > pos THEN i ELSE i - 1     \* removeFrom
        l1    == IF from > pos THEN addAfter(list, i - 1, Text(newBefore, pos, from - pos)) ELSE list
        l2    == removeRange(l1, k, count)
        l3    == addAfter(l2, k, Syntax(newToken, from, to - from))
        f     == [Extended(top, end) EXCEPT !.pos = from, !.currentNode = newToken]
        first == IF k = 0 THEN head ELSE l3.nodes[k].id
    IN  /\ list' = addRest(l3, k + 1, Text(newRest, to, end - to))
        /\ IF count > 1
           THEN stack' = Under \o <<f, Call(top.pattern, end, first, from, newToken)>>
           ELSE OnTop([f EXCEPT !.pos = to, !.currentNode = Following(list'.nodes, newToken)])
        /\ nested' = Inside[top.pattern]

PlainMatch ==
    /\ InText /\ ~Greedy[top.pattern]
    /\ \E from \in top.pos..(top.pos + Here.len) : \E to \in from..(top.pos + Here.len) :
           Replace(IndexOf(top.currentNode), top.pos, from, to, top.pos + Here.len, 1)

(* The node a greedy match starts in, and the last node it affects: texts that  *)
(* follow are taken along, a token only if the match extends into it.           *)
(* The mutant walks on while from > p only.                                     *)
ContainingBeforeEnd(from) ==
    LET i == IndexOf(top.currentNode)
    IN  CHOOSE m \in i..Len(list.nodes) :
            /\ from <= top.pos + Length(i, m + 1)
            /\ m = i \/ from > top.pos + Length(i, m)

Containing(from) ==
    LET i == IndexOf(top.currentNode)
    IN  CHOOSE m \in i..Len(list.nodes) :
            /\ from < top.pos + Length(i, m + 1)
            /\ m = i \/ from >= top.pos + Length(i, m)

Affected(i, pos, to) ==
    LET Stops(k) == pos + Length(i, k) >= to /\ list.nodes[k].isSyntax
    IN  CHOOSE m \in i..Len(list.nodes) :
            /\ m = Len(list.nodes) \/ Stops(m + 1)
            /\ \A k \in (i + 1)..m : ~Stops(k)

GreedyMatch ==
    /\ InText /\ Greedy[top.pattern]
    /\ \E from \in top.pos..(N - 1) : \E to \in from..N :
           LET i    == Containing(from)
               pos  == top.pos + Length(IndexOf(top.currentNode), i)
               last == Affected(i, pos, to)
           IN  IF list.nodes[i].isSyntax
               THEN /\ OnTop(Advance([top EXCEPT !.pos = pos, !.currentNode = list.nodes[i].id]))
                    /\ UNCHANGED <<list, nested>>
               ELSE Replace(i, pos, from, to, pos + Length(i, last + 1), last + 1 - i)

(* matchGrammar on this list; it stands still during a nested call.             *)
Step == /\ ~nested
        /\ \/ LoopEnds \/ CallEnds \/ Abort \/ SkipSyntax
           \/ NoMatch \/ PlainMatch \/ GreedyMatch

(* tokenize(match, inside) returns the list of the token.                       *)
InsideTokenized ==
    /\ nested
    /\ nested' = FALSE
    /\ UNCHANGED <<list, stack>>

Next == Step \/ InsideTokenized

Spec == Init /\ [][Next]_vars

-------------------------------------------------------------------------------
(* The list and the calls have their shapes, and `length' counts the nodes.     *)
TypeOK ==
    /\ list.nodes \in Seq([id : Addresses, isSyntax : BOOLEAN, at : 0..N, len : 0..N])
    /\ list.length = Len(list.nodes)
    /\ stack \in Seq([cause : Patterns \cup {NoRematch}, reach : 0..N,
                      pattern : 1..(Len(Greedy) + 1), startNode : {head} \cup Addresses,
                      startPos : 0..N, currentNode : {head} \cup Addresses, pos : 0..N])
    /\ nested \in BOOLEAN

(* The nodes are the text, cut into pieces: nothing is lost, repeated or moved, *)
(* whatever is removed and put back (SyntaxHighlighter.cpp:135-174), so that    *)
(* Syntaxer.mm, which puts the strings of the nodes one behind the other, shows *)
(* the text.  And no two texts touch, or a pattern could miss a match across    *)
(* the seam.                                                                    *)
TextPreserved ==
    LET ns == list.nodes
    IN  /\ ns[1].at = 0 /\ ns[Len(ns)].at + ns[Len(ns)].len = N
        /\ \A i \in 2..Len(ns) : ns[i].at = ns[i - 1].at + ns[i - 1].len
        /\ \A i \in 2..Len(ns) : ns[i].isSyntax \/ ns[i - 1].isSyntax
        /\ \A i \in DOMAIN ns : ns[i].isSyntax \/ ns[i].len > 0

(* A rematch deletes nodes while its callers hold pointers into the list,       *)
(* which they follow when it returns (matchGrammar:186, then 56); Prism's       *)
(* original leaves the nodes to a garbage collector.  No pointer dangles, and   *)
(* the positions that every call adds up agree with the list, also after the    *)
(* calls it made have changed it: a text is searched where it is.               *)
CallersAgree ==
    \A d \in DOMAIN stack :
        LET f == stack[d]
        IN  /\ {f.startNode, f.currentNode} \subseteq Addressed(list.nodes) \cup {head}
            /\ f.currentNode # head => f.pos = NodeOf(f.currentNode).at
            /\ f.startPos = IF f.startNode = head THEN 0
                            ELSE NodeOf(f.startNode).at + NodeOf(f.startNode).len

(* A rematch caused inside a rematch is caused by an earlier greedy pattern, so *)
(* the rematches of one list are never deeper than the grammar has greedy       *)
(* patterns, however often the text makes one swallow the tokens of another.    *)
(* The nested calls of tokenize come on top: they are as deep as the text and   *)
(* the grammars inside grammars make them.                                      *)
RematchesDescend ==
    /\ \A d \in 2..Len(stack) : Greedy[stack[d].cause]
    /\ \A d \in 2..(Len(stack) - 1) : stack[d + 1].cause < stack[d].cause

(* A token once found is given up only to a greedy match that begins before it  *)
(* and reaches into it (matchGrammar:111-119), and is never cut.                *)
TokensYieldToOverlap ==
    [][\A old \in Range(list.nodes) \ Range(list'.nodes) :
           old.isSyntax =>
               /\ Greedy[top.pattern]
               /\ \E new \in Range(list'.nodes) \ Range(list.nodes) :
                      new.isSyntax /\ new.at < old.at /\ old.at < new.at + new.len]_vars

(* tokenize returns if the nested calls it makes for the texts of its tokens    *)
(* do, also on a grammar whose patterns match the empty text: the rematching    *)
(* comes to an end, and so do the tokens that have a grammar inside.            *)
Terminates == []<>~nested => <>(stack = <<>>)
=============================================================================
