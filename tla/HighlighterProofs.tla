--------------------------- MODULE HighlighterProofs --------------------------
(* What TLAPS proves of matchGrammar, for a text of any length, any number of   *)
(* patterns, greedy or not, and whatever they match.                            *)
EXTENDS SyntaxHighlighter, SequenceTheorems, FiniteSetTheorems, TLAPS

(* Numbers.                                                                     *)
LEMMA Least ==
  ASSUME NEW S \in SUBSET Nat, S # {}
  PROVE  \E n \in S : \A m \in S : n <= m
<1> DEFINE R == OpToRel(<, Nat)
<1>1. \A x, y \in Nat : <<y, x>> \in R <=> y < x
  BY DEF OpToRel
<1>2. IsWellFoundedOn(R, Nat)
  BY NatLessThanWellFounded
<1> HIDE DEF R
<1>3. PICK x \in S : \A y \in S : ~ (<<y, x>> \in R)
  BY <1>2, WFMin, Zenon
<1>4. ASSUME NEW m \in S
      PROVE  x <= m
  <2>1. x \in Nat /\ m \in Nat /\ <<m, x>> \notin R
    BY <1>3
  <2>2. <<m, x>> \in R <=> m < x
    BY <1>1, <2>1, Zenon
  <2> QED
    BY <2>1, <2>2
<1> QED
  BY <1>4

LEMMA Induction ==
  ASSUME NEW S \in SUBSET Nat, 0 \in S, \A n \in S : n + 1 \in S
  PROVE  S = Nat
<1>1. SUFFICES ASSUME Nat \ S # {}
               PROVE  FALSE
  OBVIOUS
<1>2. PICK n \in Nat \ S : \A m \in Nat \ S : n <= m
  BY <1>1, Least
<1>3. n # 0 /\ n - 1 \in Nat /\ n - 1 \in S
  BY <1>2
<1> QED
  BY <1>3

LEMMA MinIsLeast ==
  ASSUME NEW S \in SUBSET Nat, S # {}
  PROVE  Min(S) \in S /\ \A m \in S : Min(S) <= m
BY Least, Zenon DEF Min

-------------------------------------------------------------------------------
(* The two edits of a list, element by element.                                 *)
LEMMA Inserted ==
  ASSUME NEW S, NEW s \in Seq(S), NEW k \in 0 .. Len(s), NEW e \in S
  PROVE  LET t == InsertAt(s, k + 1, e)
         IN  /\ t \in Seq(S) /\ Len(t) = Len(s) + 1
             /\ \A j \in 1 .. Len(s) + 1 :
                  t[j] = IF j <= k THEN s[j] ELSE IF j = k + 1 THEN e ELSE s[j - 1]
<1> DEFINE p == SubSeq(s, 1, k)
           q == SubSeq(s, k + 1, Len(s))
           t == InsertAt(s, k + 1, e)
<1>1. Len(s) \in Nat /\ k \in Nat /\ k + 1 \in Int
  BY LenProperties
<1>2. /\ p \in Seq(S) /\ Len(p) = IF 1 <= k THEN k - 1 + 1 ELSE 0
      /\ \A j \in 1 .. k - 1 + 1 : p[j] = s[1 + j - 1]
  <2>1. \A j \in 1 .. k : s[j] \in S
    BY <1>1, ElementOfSeq
  <2> QED
    BY <1>1, <2>1, SubSeqProperties
<1>3. /\ q \in Seq(S)
      /\ Len(q) = IF k + 1 <= Len(s) THEN Len(s) - (k + 1) + 1 ELSE 0
      /\ \A j \in 1 .. Len(s) - (k + 1) + 1 : q[j] = s[(k + 1) + j - 1]
  <2>1. \A j \in k + 1 .. Len(s) : s[j] \in S
    BY <1>1, ElementOfSeq
  <2> QED
    BY <1>1, <2>1, SubSeqProperties
<1>4. t = p \o <<e>> \o q
  <2>1. (k + 1) - 1 = k
    BY <1>1
  <2>2. t = SubSeq(s, 1, (k + 1) - 1) \o <<e>> \o SubSeq(s, k + 1, Len(s))
    BY DEF InsertAt
  <2> QED
    BY <2>1, <2>2
<1> HIDE DEF p, q, t
<1>5. Len(p) = k /\ \A j \in 1 .. k : p[j] = s[j]
  BY <1>1, <1>2
<1>6. Len(q) = Len(s) - k /\ \A j \in 1 .. Len(s) - k : q[j] = s[k + j]
  BY <1>1, <1>3
<1>7. <<e>> \in Seq(S) /\ Len(<<e>>) = 1 /\ <<e>>[1] = e
  OBVIOUS
<1> DEFINE pe == p \o <<e>>
<1>8. /\ pe \in Seq(S) /\ Len(pe) = k + 1
      /\ \A j \in 1 .. k + 1 : pe[j] = IF j <= k THEN s[j] ELSE e
  <2>1. /\ p \o <<e>> \in Seq(S) /\ Len(p \o <<e>>) = Len(p) + Len(<<e>>)
        /\ \A j \in 1 .. Len(p) + Len(<<e>>) :
             (p \o <<e>>)[j] = IF j <= Len(p) THEN p[j] ELSE <<e>>[j - Len(p)]
    BY <1>2, <1>7, ConcatProperties
  <2> QED
    BY <1>1, <1>5, <1>7, <2>1
<1>9. t = pe \o q
  BY <1>4
<1> HIDE DEF pe
<1>10. /\ t \in Seq(S) /\ Len(t) = Len(pe) + Len(q)
      /\ \A j \in 1 .. Len(pe) + Len(q) :
           t[j] = IF j <= Len(pe) THEN pe[j] ELSE q[j - Len(pe)]
  BY <1>3, <1>8, <1>9, ConcatProperties
<1>11. Len(t) = Len(s) + 1
  BY <1>1, <1>6, <1>8, <1>10
<1>12. ASSUME NEW j \in 1 .. Len(s) + 1
       PROVE  t[j] = IF j <= k THEN s[j] ELSE IF j = k + 1 THEN e ELSE s[j - 1]
  <2>1. t[j] = IF j <= k + 1 THEN pe[j] ELSE q[j - (k + 1)]
    <3>1. Len(pe) + Len(q) = Len(s) + 1 /\ Len(pe) = k + 1
      BY <1>1, <1>6, <1>8
    <3>2. j \in 1 .. Len(pe) + Len(q)
      BY <3>1
    <3>3. t[j] = IF j <= Len(pe) THEN pe[j] ELSE q[j - Len(pe)]
      BY <1>10, <3>2, Zenon
    <3> QED
      BY <3>1, <3>3, Zenon
  <2>2. CASE j <= k + 1
    BY <1>1, <1>8, <2>1, <2>2
  <2>3. CASE ~(j <= k + 1)
    <3>1. j - (k + 1) \in 1 .. Len(s) - k /\ k + (j - (k + 1)) = j - 1
      BY <1>1, <2>3
    <3> QED
      BY <1>1, <1>6, <2>1, <2>3, <3>1
  <2> QED
    BY <2>2, <2>3
<1> QED
  BY <1>10, <1>11, <1>12 DEF t

LEMMA Removed ==
  ASSUME NEW S, NEW s \in Seq(S), NEW k \in 0 .. Len(s), NEW taken \in 0 .. Len(s) - k
  PROVE  LET t == SubSeq(s, 1, k) \o SubSeq(s, k + taken + 1, Len(s))
         IN  /\ t \in Seq(S) /\ Len(t) = Len(s) - taken
             /\ \A j \in 1 .. Len(s) - taken : t[j] = IF j <= k THEN s[j] ELSE s[j + taken]
<1> DEFINE p == SubSeq(s, 1, k)
           m == k + taken + 1
           q == SubSeq(s, m, Len(s))
           t == p \o q
<1>1. Len(s) \in Nat /\ k \in Nat /\ taken \in Nat /\ m \in Int
  BY LenProperties
<1>2. /\ p \in Seq(S) /\ Len(p) = IF 1 <= k THEN k - 1 + 1 ELSE 0
      /\ \A j \in 1 .. k - 1 + 1 : p[j] = s[1 + j - 1]
  <2>1. \A j \in 1 .. k : s[j] \in S
    BY <1>1, ElementOfSeq
  <2> QED
    BY <1>1, <2>1, SubSeqProperties
<1>3. /\ q \in Seq(S)
      /\ Len(q) = IF m <= Len(s) THEN Len(s) - m + 1 ELSE 0
      /\ \A j \in 1 .. Len(s) - m + 1 : q[j] = s[m + j - 1]
  <2>1. \A j \in m .. Len(s) : s[j] \in S
    BY <1>1, ElementOfSeq
  <2> HIDE DEF m
  <2> QED
    BY <1>1, <2>1, SubSeqProperties
<1> HIDE DEF p, q
<1>4. Len(p) = k /\ \A j \in 1 .. k : p[j] = s[j]
  BY <1>1, <1>2
<1>5. Len(q) = Len(s) - taken - k /\ \A j \in 1 .. Len(s) - taken - k : q[j] = s[k + taken + j]
  <2>1. Len(s) - m + 1 = Len(s) - taken - k /\ (m <= Len(s) <=> Len(s) - taken - k >= 1)
        /\ Len(s) - taken - k \in Nat
    BY <1>1
  <2>2. \A j \in Int : m + j - 1 = k + taken + j
    BY <1>1
  <2> HIDE DEF m
  <2>3. Len(q) = Len(s) - taken - k
    BY <1>3, <2>1
  <2>4. ASSUME NEW j \in 1 .. Len(s) - taken - k
        PROVE  q[j] = s[k + taken + j]
    <3>1. q[j] = s[m + j - 1] /\ j \in Int
      BY <1>3, <2>1
    <3> QED
      BY <2>2, <3>1, Zenon
  <2> QED
    BY <2>3, <2>4
<1>6. /\ t \in Seq(S) /\ Len(t) = Len(p) + Len(q)
      /\ \A j \in 1 .. Len(p) + Len(q) : t[j] = IF j <= Len(p) THEN p[j] ELSE q[j - Len(p)]
  BY <1>2, <1>3, ConcatProperties
<1> HIDE DEF t
<1>7. Len(t) = Len(s) - taken
  BY <1>1, <1>4, <1>5, <1>6
<1>8. ASSUME NEW j \in 1 .. Len(s) - taken
      PROVE  t[j] = IF j <= k THEN s[j] ELSE s[j + taken]
  <2>1. t[j] = IF j <= k THEN p[j] ELSE q[j - k]
    BY <1>1, <1>4, <1>5, <1>6
  <2>2. CASE j <= k
    BY <1>1, <1>4, <2>1, <2>2
  <2>3. CASE ~(j <= k)
    <3>1. j - k \in 1 .. Len(s) - taken - k /\ k + taken + (j - k) = j + taken
      BY <1>1, <2>3
    <3> QED
      BY <1>5, <2>1, <2>3, <3>1
  <2> QED
    BY <2>2, <2>3
<1> QED
  BY <1>6, <1>7, <1>8 DEF t, p, q

-------------------------------------------------------------------------------
(* The invariant, with the list and the calls as arguments: a step is reasoned  *)
(* about as a relation between two lists and two sequences of calls.            *)
Node == [id : Addresses, isSyntax : BOOLEAN, at : 0 .. N, len : 0 .. N]
CallRec == [cause : Patterns \cup {NoRematch}, reach : 0 .. N,
            pattern : 1 .. (Len(Greedy) + 1), startNode : {head} \cup Addresses,
            startPos : 0 .. N, currentNode : {head} \cup Addresses, pos : 0 .. N]

(* Where a node is in a list, and where its text begins; N behind the last one. *)
IndexIn(ns, id) == CHOOSE i \in DOMAIN ns : ns[i].id = id
Edge(ns, j) == IF j <= Len(ns) THEN ns[j].at ELSE N

Distinct(ns) == \A i, j \in 1 .. Len(ns) : ns[i].id = ns[j].id => i = j

(* The list is the text cut into pieces: TextPreserved, with distinct addresses.*)
Pieces(ns) ==
    /\ ns \in Seq(Node) /\ Len(ns) > 0
    /\ Distinct(ns)
    /\ ns[1].at = 0 /\ ns[Len(ns)].at + ns[Len(ns)].len = N
    /\ \A i \in 2 .. Len(ns) : ns[i].at = ns[i - 1].at + ns[i - 1].len
    /\ \A i \in 2 .. Len(ns) : ns[i].isSyntax \/ ns[i - 1].isSyntax
    /\ \A i \in 1 .. Len(ns) : ns[i].isSyntax \/ ns[i].len > 0

(* The indices of the nodes a call starts behind and is at.                     *)
Before(ns, f) == IF f.startNode = head THEN 0 ELSE IndexIn(ns, f.startNode)
Place(ns, f) == IF f.currentNode = head THEN Len(ns) + 1 ELSE IndexIn(ns, f.currentNode)

(* CallersAgree of one call.                                                    *)
Starts(ns, f) ==
    /\ f.startNode \in Addressed(ns) \cup {head}
    /\ f.startPos = IF f.startNode = head THEN 0
                    ELSE ns[IndexIn(ns, f.startNode)].at + ns[IndexIn(ns, f.startNode)].len
At(ns, f) ==
    /\ f.currentNode \in Addressed(ns) \cup {head}
    /\ f.currentNode # head => f.pos = ns[IndexIn(ns, f.currentNode)].at
Stands(ns, f) == Starts(ns, f) /\ At(ns, f)

(* A caller is at the token that the call above it begins with; what lies below *)
(* that token, the calls above it never touch.                                  *)
Waits(ns, f, above) ==
    /\ f.currentNode # head
    /\ ns[Place(ns, f)].isSyntax
    /\ Before(ns, above) = Place(ns, f) - 1

Calls(ns, calls) ==
    /\ calls \in Seq(CallRec)
    /\ \A d \in 1 .. Len(calls) : Stands(ns, calls[d]) /\ Before(ns, calls[d]) < Place(ns, calls[d])
    /\ \A d \in 1 .. Len(calls) - 1 : Waits(ns, calls[d], calls[d + 1])
    /\ \A d, e \in 1 .. Len(calls) : d < e => Place(ns, calls[d]) <= Place(ns, calls[e])

(* RematchesDescend, and that a rematch stays below the pattern that caused it. *)
Causes(calls) ==
    /\ \A d \in 1 .. Len(calls) : calls[d].cause # NoRematch => calls[d].pattern <= calls[d].cause
    /\ \A d \in 2 .. Len(calls) :
           /\ calls[d].cause # NoRematch /\ Greedy[calls[d].cause]
           /\ calls[d].cause + d <= Len(Greedy) + 2
    /\ \A d \in 2 .. Len(calls) - 1 : calls[d + 1].cause < calls[d].cause

HInv ==
    /\ Pieces(list.nodes) /\ list.length = Len(list.nodes)
    /\ Calls(list.nodes, stack)
    /\ Causes(stack)

-------------------------------------------------------------------------------
(* Nodes and their neighbours.                                                  *)
LEMMA Constants == N \in Nat \ {0} /\ Len(Greedy) \in Nat /\ Addresses \subseteq Nat \ {0}
BY NAssumption, GreedyAssumption, LenProperties DEF Addresses

LEMMA NodeFields ==
  ASSUME NEW ns \in Seq(Node), NEW i \in 1 .. Len(ns)
  PROVE  /\ ns[i] \in Node /\ ns[i].id \in Addresses /\ ns[i].isSyntax \in BOOLEAN
         /\ ns[i].at \in 0 .. N /\ ns[i].len \in 0 .. N /\ ns[i].id # head
         /\ i \in DOMAIN ns /\ ns[i].id \in Addressed(ns)
<1>1. ns[i] \in Node
  BY ElementOfSeq
<1>2. i \in DOMAIN ns
  BY LenProperties
<1>3. ns[i].id \in Addresses /\ ns[i].id # head
  BY <1>1, Constants DEF Node, head
<1> QED
  BY <1>1, <1>2, <1>3 DEF Node, Addressed

LEMMA IndexFacts ==
  ASSUME NEW ns \in Seq(Node), Distinct(ns)
  PROVE  /\ \A i \in 1 .. Len(ns) : IndexIn(ns, ns[i].id) = i
         /\ \A id \in Addressed(ns) : /\ IndexIn(ns, id) \in 1 .. Len(ns)
                                      /\ ns[IndexIn(ns, id)].id = id
                                      /\ id # head /\ id \in Addresses
<1>1. DOMAIN ns = 1 .. Len(ns)
  BY LenProperties
<1>2. ASSUME NEW id \in Addressed(ns)
      PROVE  IndexIn(ns, id) \in 1 .. Len(ns) /\ ns[IndexIn(ns, id)].id = id
  BY <1>1, <1>2 DEF IndexIn, Addressed
<1>3. ASSUME NEW i \in 1 .. Len(ns)
      PROVE  IndexIn(ns, ns[i].id) = i
  <2>1. ns[i].id \in Addressed(ns)
    BY NodeFields
  <2> QED
    BY <1>2, <2>1 DEF Distinct
<1>4. ASSUME NEW id \in Addressed(ns)
      PROVE  id # head /\ id \in Addresses
  <2>1. PICK i \in 1 .. Len(ns) : ns[i].id = id
    BY <1>2, <1>4
  <2> QED
    BY <2>1, NodeFields
<1> QED
  BY <1>2, <1>3, <1>4

LEMMA EdgeFacts ==
  ASSUME NEW ns, Pieces(ns)
  PROVE  /\ Len(ns) \in Nat \ {0} /\ Edge(ns, 1) = 0 /\ Edge(ns, Len(ns) + 1) = N
         /\ \A j \in 1 .. Len(ns) : /\ Edge(ns, j) = ns[j].at
                                    /\ Edge(ns, j + 1) = ns[j].at + ns[j].len
         /\ \A j \in 1 .. Len(ns) + 1 : Edge(ns, j) \in 0 .. N
<1>1. Len(ns) \in Nat \ {0} /\ ns \in Seq(Node)
  BY LenProperties DEF Pieces
<1>2. Edge(ns, 1) = 0 /\ Edge(ns, Len(ns) + 1) = N
  BY <1>1 DEF Pieces, Edge
<1>3. ASSUME NEW j \in 1 .. Len(ns)
      PROVE  Edge(ns, j) = ns[j].at /\ Edge(ns, j + 1) = ns[j].at + ns[j].len
  <2>1. Edge(ns, j) = ns[j].at
    BY <1>1 DEF Edge
  <2>2. CASE j = Len(ns)
    <3>1. Edge(ns, j + 1) = N
      BY <1>2, <2>2
    <3> QED
      BY <2>1, <2>2, <3>1 DEF Pieces
  <2>3. CASE j # Len(ns)
    <3>1. j + 1 \in 2 .. Len(ns) /\ (j + 1) - 1 = j
      BY <1>1, <2>3
    <3>2. ns[j + 1].at = ns[(j + 1) - 1].at + ns[(j + 1) - 1].len
      BY <3>1 DEF Pieces
    <3>3. Edge(ns, j + 1) = ns[j + 1].at
      BY <1>1, <3>1 DEF Edge
    <3> QED
      BY <2>1, <3>1, <3>2, <3>3
  <2> QED
    BY <2>2, <2>3
<1>4. ASSUME NEW j \in 1 .. Len(ns) + 1
      PROVE  Edge(ns, j) \in 0 .. N
  <2>1. CASE j = Len(ns) + 1
    BY <1>2, <2>1, Constants
  <2>2. CASE j # Len(ns) + 1
    <3>1. j \in 1 .. Len(ns)
      BY <1>1, <2>2
    <3> QED
      BY <1>1, <1>3, <3>1, NodeFields
  <2> QED
    BY <2>1, <2>2
<1> QED
  BY <1>1, <1>2, <1>3, <1>4

LEMMA FollowingFacts ==
  ASSUME NEW ns \in Seq(Node), Distinct(ns), NEW id \in Addressed(ns) \cup {head}, NEW k,
         k = IF id = head THEN 0 ELSE IndexIn(ns, id)
  PROVE  /\ k \in 0 .. Len(ns)
         /\ Following(ns, id) = IF k + 1 <= Len(ns) THEN ns[k + 1].id ELSE head
<1>1. DOMAIN ns = 1 .. Len(ns) /\ Len(ns) \in Nat
  BY LenProperties
<1>2. k \in 0 .. Len(ns)
  BY <1>1, IndexFacts
<1>3. Following(ns, id) = IF k + 1 \in DOMAIN ns THEN ns[k + 1].id ELSE head
  <2>1. CASE id = head
    BY <2>1 DEF Following
  <2>2. CASE id # head
    <3>1. 1 + IndexIn(ns, id) = k + 1
      BY <1>2, <2>2
    <3> QED
      BY <2>2, <3>1 DEF Following, IndexIn
  <2> QED
    BY <2>1, <2>2
<1> QED
  BY <1>1, <1>2, <1>3

(* A call that goes to the node behind another stands where that one ends.      *)
LEMMA AtFollowing ==
  ASSUME NEW ns, Pieces(ns), NEW id \in Addressed(ns) \cup {head}, NEW k,
         k = IF id = head THEN 0 ELSE IndexIn(ns, id),
         NEW f, f.currentNode = Following(ns, id), f.pos = Edge(ns, k + 1)
  PROVE  /\ k \in 0 .. Len(ns)
         /\ At(ns, f) /\ Place(ns, f) = k + 1
         /\ f.currentNode \in {head} \cup Addresses
         /\ k + 1 <= Len(ns) => f.currentNode # head
<1>1. ns \in Seq(Node) /\ Distinct(ns)
  BY DEF Pieces
<1>2. /\ k \in 0 .. Len(ns)
      /\ Following(ns, id) = IF k + 1 <= Len(ns) THEN ns[k + 1].id ELSE head
  BY <1>1, FollowingFacts
<1>3. CASE k + 1 <= Len(ns)
  <2>1. k + 1 \in 1 .. Len(ns) /\ f.currentNode = ns[k + 1].id
    BY <1>2, <1>3
  <2>2. IndexIn(ns, ns[k + 1].id) = k + 1
    BY <1>1, <2>1, IndexFacts
  <2>3. /\ ns[k + 1].id # head /\ ns[k + 1].id \in Addressed(ns)
        /\ ns[k + 1].id \in Addresses
    BY <1>1, <2>1, NodeFields
  <2>4. f.pos = ns[k + 1].at
    BY <2>1, EdgeFacts
  <2> QED
    BY <1>2, <2>1, <2>2, <2>3, <2>4 DEF At, Place
<1>4. CASE ~(k + 1 <= Len(ns))
  <2>1. f.currentNode = head /\ k + 1 = Len(ns) + 1
    BY <1>2, <1>4, EdgeFacts
  <2> QED
    BY <1>2, <1>4, <2>1 DEF At, Place
<1> QED
  BY <1>3, <1>4

LEMMA Standing ==
  ASSUME NEW ns, Pieces(ns), NEW f, Stands(ns, f)
  PROVE  /\ Before(ns, f) \in 0 .. Len(ns) /\ f.startPos = Edge(ns, Before(ns, f) + 1)
         /\ Place(ns, f) \in 1 .. Len(ns) + 1
         /\ f.currentNode # head => /\ Place(ns, f) \in 1 .. Len(ns)
                                    /\ ns[Place(ns, f)].id = f.currentNode
                                    /\ f.pos = Edge(ns, Place(ns, f))
<1>1. ns \in Seq(Node) /\ Distinct(ns) /\ Len(ns) \in Nat \ {0}
  BY EdgeFacts DEF Pieces
<1>2. Before(ns, f) \in 0 .. Len(ns) /\ f.startPos = Edge(ns, Before(ns, f) + 1)
  <2>1. CASE f.startNode = head
    BY <1>1, <2>1, EdgeFacts DEF Stands, Starts, Before
  <2>2. CASE f.startNode # head
    <3>1. Before(ns, f) = IndexIn(ns, f.startNode) /\ f.startNode \in Addressed(ns)
      BY <2>2 DEF Stands, Starts, Before
    <3>2. Before(ns, f) \in 1 .. Len(ns)
      BY <1>1, <3>1, IndexFacts
    <3>3. f.startPos = ns[Before(ns, f)].at + ns[Before(ns, f)].len
      BY <2>2, <3>1 DEF Stands, Starts
    <3>4. Edge(ns, Before(ns, f) + 1) = ns[Before(ns, f)].at + ns[Before(ns, f)].len
      BY <3>2, EdgeFacts
    <3> QED
      BY <3>2, <3>3, <3>4
  <2> QED
    BY <2>1, <2>2
<1>3. ASSUME f.currentNode # head
      PROVE  /\ Place(ns, f) \in 1 .. Len(ns)
             /\ ns[Place(ns, f)].id = f.currentNode
             /\ f.pos = Edge(ns, Place(ns, f))
  <2>1. Place(ns, f) = IndexIn(ns, f.currentNode) /\ f.currentNode \in Addressed(ns)
    BY <1>3 DEF Stands, At, Place
  <2>2. Place(ns, f) \in 1 .. Len(ns) /\ ns[Place(ns, f)].id = f.currentNode
    BY <1>1, <2>1, IndexFacts
  <2>3. f.pos = ns[Place(ns, f)].at
    BY <1>3, <2>1 DEF Stands, At
  <2> QED
    BY <2>2, <2>3, EdgeFacts
<1>4. Place(ns, f) \in 1 .. Len(ns) + 1
  BY <1>1, <1>3 DEF Place
<1> QED
  BY <1>2, <1>3, <1>4

-------------------------------------------------------------------------------
(* The stack of calls, and what becomes of the running one.                     *)
LEMMA Fronts ==
  ASSUME NEW S, NEW cs \in Seq(S), Len(cs) > 0
  PROVE  /\ Front(cs) \in Seq(S) /\ Len(Front(cs)) = Len(cs) - 1
         /\ \A d \in 1 .. Len(cs) - 1 : Front(cs)[d] = cs[d]
         /\ Last(cs) = cs[Len(cs)] /\ Last(cs) \in S
<1>1. Len(cs) \in Nat /\ \A d \in 1 .. Len(cs) : cs[d] \in S
  BY LenProperties, ElementOfSeq
<1> DEFINE q == SubSeq(cs, 1, Len(cs) - 1)
<1>2. Front(cs) = q
  BY DEF Front
<1>3. /\ q \in Seq(S) /\ Len(q) = IF 1 <= Len(cs) - 1 THEN Len(cs) - 1 - 1 + 1 ELSE 0
      /\ \A j \in 1 .. Len(cs) - 1 - 1 + 1 : q[j] = cs[1 + j - 1]
  <2>1. \A d \in 1 .. Len(cs) - 1 : cs[d] \in S
    BY <1>1
  <2> QED
    BY <1>1, <2>1, SubSeqProperties
<1> HIDE DEF q
<1>4. Len(q) = Len(cs) - 1 /\ \A j \in 1 .. Len(cs) - 1 : q[j] = cs[j]
  <2>1. PICK k \in Nat : k = Len(cs) - 1
    BY <1>1
  <2>2. Len(q) = k /\ \A j \in 1 .. k : q[j] = cs[1 + j - 1]
    BY <1>3, <2>1
  <2>3. \A j \in 1 .. k : q[j] = cs[j]
    <3>1. ASSUME NEW j \in 1 .. k
          PROVE  q[j] = cs[j]
      <4>1. 1 + j - 1 = j
        OBVIOUS
      <4> QED
        BY <2>2, <4>1
    <3> QED
      BY <3>1
  <2> QED
    BY <2>1, <2>2, <2>3
<1> QED
  BY <1>1, <1>2, <1>3, <1>4 DEF Last

LEMMA Stacked ==
  ASSUME NEW S, NEW cs \in Seq(S), Len(cs) > 0, NEW g \in S
  PROVE  LET ds == Append(Front(cs), g)
         IN  /\ ds \in Seq(S) /\ Len(ds) = Len(cs) /\ ds[Len(cs)] = g
             /\ \A d \in 1 .. Len(cs) - 1 : ds[d] = cs[d]
<1> DEFINE ds == Append(Front(cs), g)
<1>1. /\ Front(cs) \in Seq(S) /\ Len(Front(cs)) = Len(cs) - 1
      /\ \A d \in 1 .. Len(cs) - 1 : Front(cs)[d] = cs[d]
  BY Fronts
<1>2. /\ ds \in Seq(S) /\ Len(ds) = Len(Front(cs)) + 1
      /\ \A d \in 1 .. Len(Front(cs)) : ds[d] = Front(cs)[d]
      /\ ds[Len(Front(cs)) + 1] = g
  BY <1>1, AppendProperties
<1> HIDE DEF ds
<1>3. Len(cs) \in Nat
  BY LenProperties
<1> QED
  BY <1>1, <1>2, <1>3 DEF ds

(* Only the running call changes; the running call goes on to the next node.    *)
IsTop(f, cs) == f = cs[Len(cs)]
TopIs(ds, cs, g) == ds = Append(Front(cs), g)
GoesOn(ns, f, g) == g = [f EXCEPT !.pos = f.pos + ns[IndexIn(ns, f.currentNode)].len,
                                  !.currentNode = Following(ns, f.currentNode)]

(* What stays of a call that only moves.                                        *)
Moves(f, g) == /\ g.cause = f.cause /\ g.startNode = f.startNode /\ g.startPos = f.startPos

LEMMA Advanced ==
  ASSUME NEW ns, Pieces(ns), NEW f \in CallRec, At(ns, f), f.currentNode # head, NEW g,
         GoesOn(ns, f, g)
  PROVE  /\ g \in CallRec /\ At(ns, g) /\ Place(ns, g) = Place(ns, f) + 1
         /\ Moves(f, g) /\ g.pattern = f.pattern
<1>1. ns \in Seq(Node) /\ Distinct(ns)
  BY DEF Pieces
<1>2. PICK k : k = IndexIn(ns, f.currentNode)
  OBVIOUS
<1>3. f.currentNode \in Addressed(ns) \cup {head} /\ f.currentNode \in Addressed(ns)
  BY DEF At
<1>4. k \in 1 .. Len(ns) /\ Place(ns, f) = k
  BY <1>1, <1>2, <1>3, IndexFacts DEF Place
<1>5. f.pos = ns[k].at
  BY <1>2 DEF At
<1>6. f.pos + ns[k].len = Edge(ns, k + 1)
  BY <1>4, <1>5, EdgeFacts
<1>7. /\ g.pos = Edge(ns, k + 1) /\ g.currentNode = Following(ns, f.currentNode)
      /\ Moves(f, g) /\ g.pattern = f.pattern
  BY <1>2, <1>6 DEF CallRec, Moves, GoesOn
<1>8. /\ At(ns, g) /\ Place(ns, g) = k + 1 /\ g.currentNode \in {head} \cup Addresses
  BY <1>2, <1>3, <1>7, AtFollowing
<1>9. g.pos \in 0 .. N
  <2>1. k + 1 \in 1 .. Len(ns) + 1
    BY <1>4, EdgeFacts
  <2> QED
    BY <1>7, <2>1, EdgeFacts
<1>10. g \in CallRec
  <2>1. /\ f.pos + ns[IndexIn(ns, f.currentNode)].len \in 0 .. N
        /\ Following(ns, f.currentNode) \in {head} \cup Addresses
    BY <1>2, <1>6, <1>7, <1>8, <1>9
  <2> QED
    BY <2>1, Zenon DEF CallRec, GoesOn
<1> QED
  BY <1>4, <1>7, <1>8, <1>10

LEMMA Restarted ==
  ASSUME NEW ns, Pieces(ns), NEW f \in CallRec, Stands(ns, f), f.pattern <= Len(Greedy), NEW g,
         g = [f EXCEPT !.pattern = f.pattern + 1, !.pos = f.startPos,
                       !.currentNode = Following(ns, f.startNode)]
  PROVE  /\ g \in CallRec /\ At(ns, g) /\ Place(ns, g) = Before(ns, f) + 1
         /\ Moves(f, g) /\ g.pattern = f.pattern + 1
<1>1. PICK k : k = Before(ns, f)
  OBVIOUS
<1>2. f.startNode \in Addressed(ns) \cup {head}
  BY DEF Stands, Starts
<1>3. k = IF f.startNode = head THEN 0 ELSE IndexIn(ns, f.startNode)
  BY <1>1 DEF Before
<1>4. f.startPos = Edge(ns, k + 1)
  BY <1>1, Standing
<1>5. /\ g.pos = Edge(ns, k + 1) /\ g.currentNode = Following(ns, f.startNode)
      /\ Moves(f, g) /\ g.pattern = f.pattern + 1
  BY <1>4 DEF CallRec, Moves
<1>6. At(ns, g) /\ Place(ns, g) = k + 1 /\ g.currentNode \in {head} \cup Addresses
  <2>1. PICK id \in Addressed(ns) \cup {head} : id = f.startNode
    BY <1>2
  <2>2. k = (IF id = head THEN 0 ELSE IndexIn(ns, id)) /\ g.currentNode = Following(ns, id)
    BY <1>3, <1>5, <2>1
  <2>3. k = IF id = head THEN 0 ELSE IndexIn(ns, id)
    BY <2>2
  <2>4. g.currentNode = Following(ns, id) /\ g.pos = Edge(ns, k + 1)
    BY <1>5, <2>2
  <2> QED
    BY <2>3, <2>4, AtFollowing, Zenon
<1>7. g \in CallRec
  <2>1. /\ f.startPos \in 0 .. N /\ Following(ns, f.startNode) \in {head} \cup Addresses
        /\ f.pattern + 1 \in 1 .. (Len(Greedy) + 1)
    BY <1>5, <1>6, Constants DEF CallRec
  <2> QED
    BY <2>1, Zenon DEF CallRec
<1> QED
  BY <1>1, <1>5, <1>6, <1>7

(* The calls under the running one stand in another list as they do in this one.*)
UnderKept(ns, ms, cs) ==
    \A d \in 1 .. Len(cs) - 1 :
        /\ Stands(ms, cs[d]) /\ Before(ms, cs[d]) = Before(ns, cs[d])
        /\ Place(ms, cs[d]) = Place(ns, cs[d]) /\ ms[Place(ns, cs[d])].isSyntax

LEMMA SameList ==
  ASSUME NEW ns, NEW cs, Calls(ns, cs)
  PROVE  UnderKept(ns, ns, cs)
<1>1. Len(cs) \in Nat
  BY LenProperties DEF Calls
<1> QED
  BY <1>1 DEF Calls, UnderKept, Waits

LEMMA TopMoved ==
  ASSUME NEW ns, NEW ms, Pieces(ns), Pieces(ms), NEW cs, Calls(ns, cs), Len(cs) > 0,
         UnderKept(ns, ms, cs),
         NEW g \in CallRec, Starts(ms, g), At(ms, g),
         Before(ms, g) = Before(ns, cs[Len(cs)]), Before(ms, g) < Place(ms, g),
         NEW ds, TopIs(ds, cs, g)
  PROVE  /\ Calls(ms, ds) /\ Len(ds) = Len(cs) /\ ds[Len(cs)] = g
         /\ \A d \in 1 .. Len(cs) - 1 : ds[d] = cs[d]
<1> DEFINE n == Len(cs)
<1>1. n \in Nat \ {0} /\ cs \in Seq(CallRec)
  BY LenProperties DEF Calls
<1>2. /\ ds \in Seq(CallRec) /\ Len(ds) = n /\ ds[n] = g
      /\ \A d \in 1 .. n - 1 : ds[d] = cs[d]
  <2>1. cs \in Seq(CallRec)
    BY <1>1
  <2> QED
    BY <2>1, Stacked DEF TopIs
<1> HIDE DEF n
<1>3. ASSUME NEW d \in 1 .. n
      PROVE  Stands(ms, ds[d]) /\ Before(ms, ds[d]) < Place(ms, ds[d])
  <2>1. CASE d = n
    BY <1>2, <2>1 DEF Stands
  <2>2. CASE d # n
    <3>1. d \in 1 .. n - 1 /\ ds[d] = cs[d]
      BY <1>1, <1>2, <2>2
    <3> QED
      BY <1>1, <3>1 DEF Calls, UnderKept, n
  <2> QED
    BY <2>1, <2>2
<1>4. ASSUME NEW d \in 1 .. n - 1
      PROVE  /\ ds[d] = cs[d] /\ Place(ms, ds[d]) = Place(ns, cs[d])
             /\ Before(ms, ds[d + 1]) = Before(ns, cs[d + 1])
             /\ Waits(ns, cs[d], cs[d + 1])
  <2>1. ds[d] = cs[d] /\ Place(ms, ds[d]) = Place(ns, cs[d]) /\ Waits(ns, cs[d], cs[d + 1])
    BY <1>2 DEF Calls, UnderKept, n
  <2>2. CASE d + 1 = n
    BY <1>2, <2>1, <2>2 DEF n
  <2>3. CASE d + 1 # n
    <3>1. d + 1 \in 1 .. n - 1
      BY <1>1, <2>3
    <3> QED
      BY <1>2, <2>1, <3>1 DEF UnderKept, n
  <2> QED
    BY <2>2, <2>3
<1>5. ASSUME NEW d \in 1 .. n - 1
      PROVE  Waits(ms, ds[d], ds[d + 1])
  <2>1. ms[Place(ns, cs[d])].isSyntax
    BY DEF UnderKept, n
  <2> QED
    BY <1>4, <2>1 DEF Waits
<1>6. ASSUME NEW d \in 1 .. n, NEW e \in 1 .. n, d < e
      PROVE  Place(ms, ds[d]) <= Place(ms, ds[e])
  <2>1. d \in 1 .. n - 1
    BY <1>1, <1>6
  <2>2. Place(ms, ds[d]) = Place(ns, cs[d])
    BY <1>4, <2>1
  <2>3. CASE e # n
    <3>1. e \in 1 .. n - 1
      BY <1>1, <2>3
    <3>2. Place(ms, ds[e]) = Place(ns, cs[e])
      BY <1>4, <3>1
    <3> QED
      BY <1>6, <2>2, <3>2 DEF Calls, n
  <2>4. CASE e = n
    <3>1. n - 1 \in 1 .. n - 1 /\ (n - 1) + 1 = n
      BY <1>1, <2>1
    <3>2. Waits(ns, cs[n - 1], cs[n])
      BY <1>4, <3>1
    <3>3. Before(ns, cs[n]) = Place(ns, cs[n - 1]) - 1
      BY <3>2 DEF Waits
    <3>4. Before(ms, g) = Place(ns, cs[n - 1]) - 1
      BY <3>3 DEF n
    <3>5. Stands(ns, cs[n - 1])
      BY <1>1, <3>1 DEF Calls, n
    <3>6. Place(ns, cs[n - 1]) \in Nat
      BY <3>5, Standing, EdgeFacts
    <3>7. Stands(ns, cs[d]) /\ Stands(ms, g)
      BY <1>1, <2>1 DEF Calls, Stands, n
    <3>8. Place(ns, cs[d]) \in Nat /\ Place(ms, g) \in Nat
      <4>1. Place(ns, cs[d]) \in 1 .. Len(ns) + 1 /\ Len(ns) \in Nat
        BY <3>7, Standing, EdgeFacts
      <4>2. Place(ms, g) \in 1 .. Len(ms) + 1 /\ Len(ms) \in Nat
        BY <3>7, Standing, EdgeFacts
      <4> QED
        BY <4>1, <4>2
    <3>9. Place(ns, cs[n - 1]) <= Place(ms, g)
      BY <3>4, <3>6, <3>8
    <3>10. CASE d = n - 1
      BY <1>2, <2>2, <2>4, <3>9, <3>10
    <3>11. CASE d # n - 1
      <4>1. d \in 1 .. n /\ n - 1 \in 1 .. n /\ d < n - 1
        BY <1>1, <2>1, <3>11
      <4>2. Place(ns, cs[d]) <= Place(ns, cs[n - 1])
        BY <4>1 DEF Calls, n
      <4> QED
        BY <1>2, <2>2, <2>4, <3>6, <3>8, <3>9, <4>2
    <3> QED
      BY <3>10, <3>11
  <2> QED
    BY <2>3, <2>4
<1>7. Calls(ms, ds)
  BY <1>2, <1>3, <1>5, <1>6 DEF Calls
<1> QED
  BY <1>2, <1>7 DEF n

LEMMA Popped ==
  ASSUME NEW ns, NEW cs, Calls(ns, cs), Causes(cs), Len(cs) > 0
  PROVE  Calls(ns, Front(cs)) /\ Causes(Front(cs))
<1> DEFINE q == Front(cs)
<1>1. cs \in Seq(CallRec) /\ Len(cs) \in Nat \ {0}
  BY LenProperties DEF Calls
<1>2. /\ q \in Seq(CallRec) /\ Len(q) = Len(cs) - 1
      /\ \A d \in 1 .. Len(cs) - 1 : q[d] = cs[d]
  BY <1>1, Fronts
<1> HIDE DEF q
<1>3. ASSUME NEW d \in 1 .. Len(q)
      PROVE  d \in 1 .. Len(cs) /\ q[d] = cs[d]
  BY <1>1, <1>2
<1>4. ASSUME NEW d \in 1 .. Len(q) - 1
      PROVE  /\ d \in 1 .. Len(cs) - 1 /\ q[d] = cs[d] /\ q[d + 1] = cs[d + 1]
             /\ d \in 2 .. Len(q) - 1 => d \in 2 .. Len(cs) - 1
  <2>1. d + 1 \in 1 .. Len(q) /\ d \in 1 .. Len(q) /\ d \in 1 .. Len(cs) - 1
    BY <1>1, <1>2
  <2>2. d \in 2 .. Len(q) - 1 => d \in 2 .. Len(cs) - 1
    BY <1>1, <1>2
  <2> QED
    BY <1>3, <2>1, <2>2
<1>5. Calls(ns, q)
  <2>1. \A d \in 1 .. Len(q) : Stands(ns, q[d]) /\ Before(ns, q[d]) < Place(ns, q[d])
    BY <1>3 DEF Calls
  <2>2. \A d \in 1 .. Len(q) - 1 : Waits(ns, q[d], q[d + 1])
    BY <1>4 DEF Calls
  <2>3. \A d, e \in 1 .. Len(q) : d < e => Place(ns, q[d]) <= Place(ns, q[e])
    BY <1>3 DEF Calls
  <2> QED
    BY <1>2, <2>1, <2>2, <2>3 DEF Calls
<1>6. Causes(q)
  <2>1. \A d \in 1 .. Len(q) : q[d].cause # NoRematch => q[d].pattern <= q[d].cause
    BY <1>3 DEF Causes
  <2>2. ASSUME NEW d \in 2 .. Len(q)
        PROVE  /\ q[d].cause # NoRematch /\ Greedy[q[d].cause]
               /\ q[d].cause + d <= Len(Greedy) + 2
    <3>1. d \in 2 .. Len(cs) /\ q[d] = cs[d]
      BY <1>1, <1>2
    <3> QED
      BY <3>1 DEF Causes
  <2>3. ASSUME NEW d \in 2 .. Len(q) - 1
        PROVE  q[d + 1].cause < q[d].cause
    <3>1. d \in 1 .. Len(q) - 1
      BY <1>1, <1>2
    <3>2. d \in 2 .. Len(cs) - 1 /\ q[d] = cs[d] /\ q[d + 1] = cs[d + 1]
      BY <1>4, <3>1
    <3> QED
      BY <3>2 DEF Causes
  <2> QED
    BY <2>1, <2>2, <2>3 DEF Causes
<1> QED
  BY <1>5, <1>6 DEF q

LEMMA CausesMoved ==
  ASSUME NEW cs \in Seq(CallRec), Causes(cs), Len(cs) > 0, NEW ds,
         Len(ds) = Len(cs), \A d \in 1 .. Len(cs) - 1 : ds[d] = cs[d],
         ds[Len(cs)].cause = cs[Len(cs)].cause,
         ds[Len(cs)].cause # NoRematch => ds[Len(cs)].pattern <= ds[Len(cs)].cause
  PROVE  Causes(ds)
<1>1. PICK n : n = Len(cs)
  OBVIOUS
<1>2. n \in Nat \ {0}
  BY <1>1, LenProperties
<1>3. ASSUME NEW d \in 1 .. n
      PROVE  ds[d].cause = cs[d].cause
  <2>1. CASE d = n
    BY <1>1, <2>1
  <2>2. CASE d # n
    <3>1. d \in 1 .. n - 1
      BY <1>2, <2>2
    <3> QED
      BY <1>1, <3>1
  <2> QED
    BY <2>1, <2>2
<1>4. ASSUME NEW d \in 1 .. n, ds[d].cause # NoRematch
      PROVE  ds[d].pattern <= ds[d].cause
  <2>1. CASE d = n
    BY <1>1, <1>4, <2>1
  <2>2. CASE d # n
    <3>1. d \in 1 .. n - 1
      BY <1>2, <2>2
    <3>2. ds[d] = cs[d]
      BY <1>1, <3>1
    <3> QED
      BY <1>1, <1>4, <3>2 DEF Causes
  <2> QED
    BY <2>1, <2>2
<1>5. ASSUME NEW d \in 2 .. n
      PROVE  /\ ds[d].cause # NoRematch /\ Greedy[ds[d].cause]
             /\ ds[d].cause + d <= Len(Greedy) + 2
  <2>1. d \in 1 .. n
    BY <1>2
  <2>2. ds[d].cause = cs[d].cause
    BY <1>3, <2>1
  <2> QED
    BY <1>1, <2>2 DEF Causes
<1>6. ASSUME NEW d \in 2 .. n - 1
      PROVE  ds[d + 1].cause < ds[d].cause
  <2>1. d \in 1 .. n /\ d + 1 \in 1 .. n
    BY <1>2
  <2>2. ds[d].cause = cs[d].cause /\ ds[d + 1].cause = cs[d + 1].cause
    BY <1>3, <2>1
  <2> QED
    BY <1>1, <2>2 DEF Causes
<1> QED
  BY <1>1, <1>4, <1>5, <1>6 DEF Causes

(* A rematch is caused by a pattern below the one that caused the call it is    *)
(* made in.                                                                     *)
LEMMA CausesPushed ==
  ASSUME NEW cs \in Seq(CallRec), Causes(cs), Len(cs) > 0, NEW x,
         x = cs[Len(cs)].pattern, x <= Len(Greedy), x # cs[Len(cs)].cause, Greedy[x],
         NEW c \in CallRec, c.cause = x, c.pattern = 1
  PROVE  Causes(Append(cs, c))
<1> DEFINE ds == Append(cs, c)
<1>1. /\ Len(ds) = Len(cs) + 1 /\ \A d \in 1 .. Len(cs) : ds[d] = cs[d]
      /\ ds[Len(cs) + 1] = c
  BY AppendProperties
<1> HIDE DEF ds
<1>2. PICK n : n = Len(cs)
  OBVIOUS
<1>3. n \in Nat \ {0}
  BY <1>2, LenProperties
<1>4. cs[n] \in CallRec
  BY <1>2, <1>3, ElementOfSeq
<1>5. x \in Nat \ {0} /\ cs[n].cause \in Nat /\ Len(Greedy) \in Nat
  <2>1. cs[n].cause \in Patterns \cup {NoRematch} /\ cs[n].pattern \in 1 .. (Len(Greedy) + 1)
    BY <1>4, Zenon DEF CallRec
  <2> QED
    BY <1>2, <2>1, Constants DEF Patterns, NoRematch
<1>6. ds[n + 1] = c /\ \A d \in 1 .. n : ds[d] = cs[d]
  BY <1>1, <1>2
<1>7. n >= 2 => x < cs[n].cause /\ cs[n].cause + n <= Len(Greedy) + 2
  <2>1. SUFFICES ASSUME n >= 2
                 PROVE  x < cs[n].cause /\ cs[n].cause + n <= Len(Greedy) + 2
    OBVIOUS
  <2>2. n \in 2 .. Len(cs) /\ n \in 1 .. Len(cs)
    BY <1>2, <1>3, <2>1
  <2>3. cs[n].cause # NoRematch /\ cs[n].cause + n <= Len(Greedy) + 2
    BY <2>2 DEF Causes
  <2>4. cs[n].pattern <= cs[n].cause
    BY <2>2, <2>3 DEF Causes
  <2> QED
    BY <1>2, <1>5, <2>3, <2>4
<1>8. ASSUME NEW d \in 1 .. n + 1, ds[d].cause # NoRematch
      PROVE  ds[d].pattern <= ds[d].cause
  <2>1. CASE d = n + 1
    BY <1>5, <1>6, <2>1
  <2>2. CASE d # n + 1
    <3>1. d \in 1 .. n
      BY <1>3, <2>2
    <3> QED
      BY <1>2, <1>6, <1>8, <3>1 DEF Causes
  <2> QED
    BY <2>1, <2>2
<1>9. ASSUME NEW d \in 2 .. n + 1
      PROVE  /\ ds[d].cause # NoRematch /\ Greedy[ds[d].cause]
             /\ ds[d].cause + d <= Len(Greedy) + 2
  <2>1. CASE d = n + 1
    <3>1. ds[d].cause = x
      BY <1>6, <2>1
    <3>2. x + d <= Len(Greedy) + 2
      <4>1. CASE n >= 2
        <5>1. x < cs[n].cause /\ cs[n].cause + n <= Len(Greedy) + 2
          BY <1>7, <4>1
        <5>2. PICK y \in Nat, m \in Nat : y = cs[n].cause /\ m = Len(Greedy)
          BY <1>5
        <5>3. x < y /\ y + n <= m + 2
          BY <5>1, <5>2
        <5>4. x + d <= m + 2
          BY <1>3, <1>5, <2>1, <5>3
        <5> QED
          BY <5>2, <5>4
      <4>2. CASE ~(n >= 2)
        BY <1>3, <1>5, <2>1, <4>2
      <4> QED
        BY <4>1, <4>2
    <3> QED
      BY <1>5, <3>1, <3>2 DEF NoRematch
  <2>2. CASE d # n + 1
    <3>1. d \in 1 .. n /\ d \in 2 .. n
      BY <1>3, <2>2
    <3> QED
      BY <1>2, <1>6, <3>1 DEF Causes
  <2> QED
    BY <2>1, <2>2
<1>10. ASSUME NEW d \in 2 .. n
       PROVE  ds[d + 1].cause < ds[d].cause
  <2>1. CASE d = n
    <3>1. n >= 2 /\ n \in 1 .. n
      BY <1>3, <2>1
    <3> QED
      BY <1>6, <1>7, <2>1, <3>1
  <2>2. CASE d # n
    <3>1. d \in 2 .. n - 1 /\ d \in 1 .. n /\ d + 1 \in 1 .. n
      BY <1>3, <2>2
    <3> QED
      BY <1>2, <1>6, <3>1 DEF Causes
  <2> QED
    BY <2>1, <2>2
<1>11. Len(ds) = n + 1 /\ Len(ds) - 1 = n
  BY <1>1, <1>2, <1>3
<1>12. Causes(ds)
  BY <1>8, <1>9, <1>10, <1>11 DEF Causes
<1> QED
  BY <1>12 DEF ds

-------------------------------------------------------------------------------
(* The steps that leave the list alone: the running call moves, or the one      *)
(* below it goes on behind its token.                                           *)
LEMMA TopSteps ==
  ASSUME NEW ns, Pieces(ns), NEW cs, Calls(ns, cs), Causes(cs), Len(cs) > 0,
         NEW f, f = cs[Len(cs)], NEW g \in CallRec, At(ns, g), Moves(f, g),
         Before(ns, f) < Place(ns, g), g.cause # NoRematch => g.pattern <= g.cause,
         NEW ds, TopIs(ds, cs, g)
  PROVE  Calls(ns, ds) /\ Causes(ds)
<1>1. cs \in Seq(CallRec) /\ Len(cs) \in Nat \ {0} /\ Len(cs) \in 1 .. Len(cs)
  BY LenProperties DEF Calls
<1>2. Stands(ns, f)
  BY <1>1 DEF Calls
<1>3. Starts(ns, g) /\ Before(ns, g) = Before(ns, f)
  BY <1>2 DEF Moves, Stands, Starts, Before
<1>4. UnderKept(ns, ns, cs)
  BY SameList
<1>5. Before(ns, g) = Before(ns, cs[Len(cs)]) /\ Before(ns, g) < Place(ns, g)
  BY <1>3
<1>6. /\ Calls(ns, ds) /\ Len(ds) = Len(cs) /\ ds[Len(cs)] = g
      /\ \A d \in 1 .. Len(cs) - 1 : ds[d] = cs[d]
  BY <1>3, <1>4, <1>5, TopMoved, SMTT(30)
<1>7. Causes(ds)
  BY <1>1, <1>6, CausesMoved DEF Moves
<1> QED
  BY <1>6, <1>7

LEMMA Typed ==
  ASSUME NEW cs \in Seq(CallRec), NEW d \in 1 .. Len(cs)
  PROVE  /\ cs[d] \in CallRec /\ cs[d].pattern \in Nat \ {0} /\ cs[d].cause \in Nat
         /\ cs[d].pos \in 0 .. N /\ cs[d].startPos \in 0 .. N /\ cs[d].reach \in 0 .. N
<1>1. cs[d] \in CallRec
  BY ElementOfSeq
<1>2. /\ cs[d].cause \in Patterns \cup {NoRematch} /\ cs[d].pattern \in 1 .. (Len(Greedy) + 1)
      /\ cs[d].pos \in 0 .. N /\ cs[d].startPos \in 0 .. N /\ cs[d].reach \in 0 .. N
  BY <1>1, Zenon DEF CallRec
<1> QED
  BY <1>1, <1>2, Constants DEF Patterns, NoRematch

LEMMA ExtendedFacts ==
  ASSUME NEW f \in CallRec, NEW reach \in 0 .. N, NEW e, e = Extended(f, reach)
  PROVE  /\ e \in CallRec /\ e.cause = f.cause /\ e.startNode = f.startNode
         /\ e.startPos = f.startPos /\ e.pattern = f.pattern
         /\ e.currentNode = f.currentNode /\ e.pos = f.pos
BY DEF Extended, CallRec

LEMMA Returned ==
  ASSUME NEW ns, Pieces(ns), NEW cs, Calls(ns, cs), Causes(cs), Len(cs) > 1,
         NEW e, e = Extended(Last(Front(cs)), cs[Len(cs)].reach), NEW g,
         GoesOn(ns, e, g), NEW ds, TopIs(ds, Front(cs), g)
  PROVE  Calls(ns, ds) /\ Causes(ds)
<1>1. cs \in Seq(CallRec) /\ Len(cs) \in Nat /\ Len(cs) > 0
  BY LenProperties DEF Calls
<1>2. PICK q : q = Front(cs)
  OBVIOUS
<1>3. /\ q \in Seq(CallRec) /\ Len(q) = Len(cs) - 1
      /\ \A d \in 1 .. Len(cs) - 1 : q[d] = cs[d]
  BY <1>1, <1>2, Fronts
<1>4. Calls(ns, q) /\ Causes(q)
  BY <1>1, <1>2, Popped
<1>5. PICK f : f = q[Len(q)]
  OBVIOUS
<1>6. Len(q) > 0 /\ Len(q) \in 1 .. Len(cs) - 1 /\ Len(q) + 1 = Len(cs) /\ Len(q) \in 1 .. Len(q)
  BY <1>1, <1>3
<1>7. f = cs[Len(q)] /\ f = Last(q) /\ f \in CallRec
  BY <1>3, <1>5, <1>6, Typed DEF Last
<1>8. f.currentNode # head
  <2>1. Waits(ns, cs[Len(q)], cs[Len(q) + 1])
    BY <1>4, <1>6 DEF Calls
  <2> QED
    BY <1>7, <2>1 DEF Waits
<1>9. Stands(ns, f) /\ Before(ns, f) < Place(ns, f)
  BY <1>4, <1>5, <1>6 DEF Calls
<1>10. cs[Len(cs)].reach \in 0 .. N
  BY <1>1, Typed
<1>11. e = Extended(f, cs[Len(cs)].reach)
  BY <1>2, <1>7
<1>12. /\ e \in CallRec /\ e.cause = f.cause /\ e.startNode = f.startNode
       /\ e.startPos = f.startPos /\ e.pattern = f.pattern
       /\ e.currentNode = f.currentNode /\ e.pos = f.pos
  BY <1>7, <1>10, <1>11, ExtendedFacts
<1>13. At(ns, e) /\ Place(ns, e) = Place(ns, f) /\ Before(ns, e) = Before(ns, f)
  BY <1>9, <1>12 DEF Stands, At, Place, Before
<1>14. /\ g \in CallRec /\ At(ns, g) /\ Place(ns, g) = Place(ns, f) + 1
       /\ Moves(e, g) /\ g.pattern = e.pattern
  <2>1. e \in CallRec /\ At(ns, e) /\ e.currentNode # head
    BY <1>8, <1>12, <1>13
  <2>2. /\ g \in CallRec /\ At(ns, g) /\ Place(ns, g) = Place(ns, e) + 1
        /\ Moves(e, g) /\ g.pattern = e.pattern
    BY <2>1, Advanced, Zenon
  <2> QED
    BY <1>13, <2>2
<1>15. Before(ns, f) < Place(ns, g)
  BY <1>9, <1>14, Standing, EdgeFacts
<1>16. f.cause # NoRematch => f.pattern <= f.cause
  BY <1>4, <1>5, <1>6 DEF Causes
<1>17. TopIs(ds, q, g)
  BY <1>2
<1>18. Moves(f, g) /\ (g.cause # NoRematch => g.pattern <= g.cause)
  BY <1>12, <1>14, <1>16 DEF Moves
<1> QED
  BY <1>4, <1>5, <1>6, <1>14, <1>15, <1>17, <1>18, TopSteps, Zenon

-------------------------------------------------------------------------------
(* The list after a match: the nodes i to last have made way for the text       *)
(* before the match (if c1 is 1), the token, and the text after it (if c2 is 1).*)
IsCut(ns, ms, i, last, b, c1, t, c2, r) ==
    /\ ms \in Seq(Node)
    /\ Len(ms) = Len(ns) - (last + 1 - i) + c1 + 1 + c2
    /\ \A m \in 1 .. Len(ms) :
           ms[m] = IF m < i THEN ns[m]
                   ELSE IF m < i + c1 THEN b
                   ELSE IF m = i + c1 THEN t
                   ELSE IF m <= i + c1 + c2 THEN r
                   ELSE ns[m - (i + c1 + c2 - last)]

(* The list with the text before and the token, and with the text after too.    *)
Edited(l, i, taken, b, c1, t) ==
    LET k  == i - 1 + c1
        l1 == IF c1 = 1 THEN addAfter(l, i - 1, b) ELSE l
    IN  addAfter(removeRange(l1, k, taken), k, t)
Rested(l, i, taken, b, c1, t, r) == addRest(Edited(l, i, taken, b, c1, t), i - 1 + c1 + 1, r)
Counted(l) == l.length = Len(l.nodes)
Editable(l, i, taken, b, c1, t, c2, r) ==
    /\ l.nodes \in Seq(Node) /\ Counted(l)
    /\ i \in 1 .. Len(l.nodes) /\ taken \in 1 .. Len(l.nodes) - i + 1
    /\ c1 \in {0, 1} /\ c2 \in {0, 1}
    /\ b \in Node /\ t \in Node /\ r \in Node /\ (c2 = 1 <=> r.len > 0)

LEMMA ListReplaced ==
  ASSUME NEW l, NEW i, NEW taken, NEW b, NEW c1, NEW t, NEW c2, NEW r,
         Editable(l, i, taken, b, c1, t, c2, r)
  PROVE  /\ IsCut(l.nodes, Rested(l, i, taken, b, c1, t, r).nodes, i, i + taken - 1, b, c1, t, c2, r)
         /\ Counted(Rested(l, i, taken, b, c1, t, r))
         /\ i - 1 + c1 > 0 => Edited(l, i, taken, b, c1, t).nodes[i - 1 + c1]
                                 = Rested(l, i, taken, b, c1, t, r).nodes[i - 1 + c1]
<1> DEFINE k  == i - 1 + c1
           l1 == IF c1 = 1 THEN addAfter(l, i - 1, b) ELSE l
           l2 == removeRange(l1, k, taken)
           l3 == addAfter(l2, k, t)
           l4 == addRest(l3, k + 1, r)
<1>0. /\ l.nodes \in Seq(Node) /\ Counted(l)
      /\ i \in 1 .. Len(l.nodes) /\ taken \in 1 .. Len(l.nodes) - i + 1
      /\ c1 \in {0, 1} /\ c2 \in {0, 1}
      /\ b \in Node /\ t \in Node /\ r \in Node /\ (c2 = 1 <=> r.len > 0)
  BY DEF Editable
<1>a. b \in Node
  BY <1>0
<1> USE <1>0
<1>1. PICK ns \in Seq(Node), n \in Nat : ns = l.nodes /\ n = Len(ns)
  BY LenProperties
<1>2. i \in 1 .. n /\ taken \in 1 .. n - i + 1 /\ l.length = n
  BY <1>1 DEF Counted
<1>3. PICK n1 : n1 = n + c1
  OBVIOUS
<1>4. /\ l1.nodes \in Seq(Node) /\ Len(l1.nodes) = n1 /\ l1.length = n1
      /\ \A j \in 1 .. n1 : l1.nodes[j] = IF j < i THEN ns[j]
                                           ELSE IF j < i + c1 THEN b ELSE ns[j - c1]
  <2>1. CASE c1 = 1
    <3>1. PICK h \in 0 .. Len(ns) : h = i - 1
      BY <1>1, <1>2
    <3> DEFINE q == InsertAt(ns, h + 1, b)
    <3>2. /\ q \in Seq(Node) /\ Len(q) = Len(ns) + 1
          /\ \A j \in 1 .. Len(ns) + 1 :
               q[j] = IF j <= h THEN ns[j] ELSE IF j = h + 1 THEN b ELSE ns[j - 1]
      <4> HIDE <1>0
      <4>1. ns \in Seq(Node) /\ h \in 0 .. Len(ns) /\ b \in Node
        BY <1>1, <1>a, <3>1
      <4> QED
        BY <4>1, Inserted, SMTT(60)
    <3>3. l1.nodes = q /\ l1.length = l.length + 1
      BY <1>1, <2>1, <3>1 DEF addAfter
    <3> HIDE DEF q, l1
    <3> QED
      <4>1. n \in Nat /\ h = i - 1 /\ n1 = n + 1 /\ i \in Nat \ {0} /\ i + c1 = i + 1
        BY <1>1, <1>2, <1>3, <2>1, <3>1
      <4>2. l1.nodes \in Seq(Node) /\ Len(l1.nodes) = n1 /\ l1.length = n1
        BY <1>1, <1>2, <1>3, <2>1, <3>2, <3>3
      <4>3. \A j \in 1 .. n1 :
               l1.nodes[j] = IF j <= h THEN ns[j] ELSE IF j = h + 1 THEN b ELSE ns[j - 1]
        BY <1>1, <3>2, <3>3, <4>1
      <4>4. ASSUME NEW j \in 1 .. n1
            PROVE  l1.nodes[j] = IF j < i THEN ns[j] ELSE IF j < i + c1 THEN b ELSE ns[j - c1]
        <5>1. j \in Nat /\ (j <= h <=> j < i) /\ j - c1 = j - 1
          BY <2>1, <4>1
        <5>2. ~(j <= h) => (j = h + 1 <=> j < i + c1)
          BY <2>1, <4>1, <5>1
        <5> QED
          BY <4>3, <5>1, <5>2, Zenon
      <4> QED
        BY <4>2, <4>4
  <2>2. CASE c1 = 0
    <3>1. l1 = l
      BY <2>2
    <3> HIDE DEF l1
    <3> QED
      BY <1>1, <1>2, <1>3, <2>2, <3>1
  <2> QED
    BY <2>1, <2>2
<1> HIDE DEF l1
<1>5. PICK n2 : n2 = n1 - taken
  OBVIOUS
<1>6. k \in 0 .. n1 /\ taken \in 0 .. n1 - k /\ n1 \in Nat /\ n2 \in Nat /\ k <= n2
  BY <1>1, <1>2, <1>3, <1>5
<1>7. /\ l2.nodes \in Seq(Node) /\ Len(l2.nodes) = n2 /\ l2.length = n2
      /\ \A j \in 1 .. n2 : l2.nodes[j] = IF j <= k THEN l1.nodes[j] ELSE l1.nodes[j + taken]
  <2>1. PICK s \in Seq(Node) : s = l1.nodes
    BY <1>4
  <2>2. Len(s) = n1
    BY <1>4, <2>1
  <2> DEFINE q == SubSeq(s, 1, k) \o SubSeq(s, k + taken + 1, Len(s))
  <2>3. l2.nodes = q /\ l2.length = l1.length - taken
    BY <2>1 DEF removeRange
  <2>4. k \in 0 .. Len(s) /\ taken \in 0 .. Len(s) - k
    BY <1>6, <2>2
  <2> HIDE DEF k
  <2>5. /\ q \in Seq(Node) /\ Len(q) = Len(s) - taken
        /\ \A j \in 1 .. Len(s) - taken : q[j] = IF j <= k THEN s[j] ELSE s[j + taken]
    BY <2>4, Removed
  <2> HIDE DEF q, l2
  <2> QED
    BY <1>4, <1>5, <2>1, <2>2, <2>3, <2>5
<1> HIDE DEF l2
<1>8. /\ l3.nodes \in Seq(Node) /\ Len(l3.nodes) = n2 + 1 /\ l3.length = n2 + 1
      /\ \A j \in 1 .. n2 + 1 :
           l3.nodes[j] = IF j <= k THEN l2.nodes[j] ELSE IF j = k + 1 THEN t ELSE l2.nodes[j - 1]
  <2>1. PICK s \in Seq(Node) : s = l2.nodes
    BY <1>7
  <2>2. PICK h \in 0 .. Len(s) : h = k
    BY <1>6, <1>7, <2>1
  <2> HIDE DEF k
  <2> DEFINE q == InsertAt(s, h + 1, t)
  <2>3. /\ q \in Seq(Node) /\ Len(q) = Len(s) + 1
        /\ \A j \in 1 .. Len(s) + 1 :
             q[j] = IF j <= h THEN s[j] ELSE IF j = h + 1 THEN t ELSE s[j - 1]
    BY Inserted
  <2>4. l3.nodes = q /\ l3.length = l2.length + 1
    BY <2>1, <2>2 DEF addAfter
  <2> HIDE DEF q, l3
  <2> QED
    BY <1>7, <2>1, <2>2, <2>3, <2>4
<1> HIDE DEF l3
<1>9. /\ l4.nodes \in Seq(Node) /\ Len(l4.nodes) = n2 + 1 + c2 /\ l4.length = n2 + 1 + c2
      /\ \A j \in 1 .. n2 + 1 + c2 :
           l4.nodes[j] = IF j <= k + 1 THEN l3.nodes[j]
                         ELSE IF j <= k + 1 + c2 THEN r ELSE l3.nodes[j - c2]
  <2>1. CASE c2 = 1
    <3>1. PICK s \in Seq(Node) : s = l3.nodes
      BY <1>8
    <3>2. k + 1 \in 0 .. Len(s)
      BY <1>6, <1>8, <3>1
    <3>3. PICK h \in 0 .. Len(s) : h = k + 1 /\ Len(s) = n2 + 1
      BY <1>8, <3>1, <3>2
    <3> HIDE DEF k
    <3> DEFINE q == InsertAt(s, h + 1, r)
    <3>4. /\ q \in Seq(Node) /\ Len(q) = Len(s) + 1
          /\ \A j \in 1 .. Len(s) + 1 :
               q[j] = IF j <= h THEN s[j] ELSE IF j = h + 1 THEN r ELSE s[j - 1]
      BY Inserted
    <3>5. l4.nodes = q /\ l4.length = l3.length + 1
      BY <2>1, <3>1, <3>3 DEF addAfter, addRest
    <3> HIDE DEF q, l4
    <3>6. l4.nodes \in Seq(Node) /\ Len(l4.nodes) = n2 + 1 + c2 /\ l4.length = n2 + 1 + c2
      BY <1>6, <1>8, <2>1, <3>3, <3>4, <3>5
    <3>7. ASSUME NEW j \in 1 .. n2 + 1 + c2
          PROVE  l4.nodes[j] = IF j <= k + 1 THEN l3.nodes[j]
                               ELSE IF j <= k + 1 + c2 THEN r ELSE l3.nodes[j - c2]
      <4>1. l4.nodes[j] = IF j <= h THEN s[j] ELSE IF j = h + 1 THEN r ELSE s[j - 1]
        BY <2>1, <3>3, <3>4, <3>5
      <4>2. j \in Nat /\ h \in Nat /\ h + 1 = k + 1 + c2
        BY <1>6, <2>1, <3>3
      <4>3. CASE j <= h
        BY <3>1, <3>3, <4>1, <4>3
      <4>4. CASE j = h + 1
        BY <2>1, <3>3, <4>1, <4>2, <4>4
      <4>5. CASE j > h + 1
        <5>1. ~(j <= h) /\ j # h + 1 /\ ~(j <= h + 1) /\ j - 1 = j - c2
          BY <2>1, <4>2, <4>5
        <5> QED
          BY <3>1, <3>3, <4>1, <4>2, <5>1
      <4> QED
        BY <4>2, <4>3, <4>4, <4>5
    <3> QED
      BY <3>6, <3>7
  <2>2. CASE c2 = 0
    <3>1. l4 = l3
      BY <2>2 DEF addRest
    <3> HIDE DEF l4, k
    <3> QED
      BY <1>6, <1>8, <2>2, <3>1
  <2> QED
    BY <2>1, <2>2
<1> HIDE DEF l4
<1>10. k > 0 => l3.nodes[k] = l4.nodes[k]
  <2>1. SUFFICES ASSUME k > 0
                 PROVE  l3.nodes[k] = l4.nodes[k]
    OBVIOUS
  <2>2. PICK h : h = k
    OBVIOUS
  <2>3. h \in 1 .. n2 + 1 + c2 /\ h <= k + 1
    BY <1>6, <2>1, <2>2
  <2>4. l4.nodes[h] = l3.nodes[h]
    BY <1>9, <2>3
  <2> QED
    BY <2>2, <2>4
<1>11. Len(l4.nodes) = Len(l.nodes) - (i + taken - 1 + 1 - i) + c1 + 1 + c2
  BY <1>1, <1>2, <1>3, <1>5, <1>9
<1>12. ASSUME NEW m \in 1 .. Len(l4.nodes)
       PROVE  l4.nodes[m] = IF m < i THEN ns[m]
                            ELSE IF m < i + c1 THEN b
                            ELSE IF m = i + c1 THEN t
                            ELSE IF m <= i + c1 + c2 THEN r
                            ELSE ns[m - (i + c1 + c2 - (i + taken - 1))]
  <2>1. m \in 1 .. n2 + 1 + c2 /\ m \in Nat /\ k + 1 = i + c1 /\ i \in Nat
    <3>1. Len(l4.nodes) = n2 + 1 + c2
      BY <1>9
    <3>2. m \in 1 .. n2 + 1 + c2
      BY <3>1
    <3>3. i \in Nat /\ i - 1 + c1 + 1 = i + c1
      BY <1>1, <1>2
    <3> QED
      BY <1>6, <3>2, <3>3
  <2>10. c1 \in Nat /\ c2 \in Nat
    OBVIOUS
  <2> HIDE DEF k
  <2>2. CASE m <= k
    <3>1. l4.nodes[m] = l1.nodes[m]
      BY <1>6, <1>7, <1>8, <1>9, <2>1, <2>2
    <3>2. m \in 1 .. n1 /\ m < i + c1
      BY <1>6, <2>1, <2>10, <2>2
    <3>3. l1.nodes[m] = IF m < i THEN ns[m] ELSE b
      BY <1>4, <3>2
    <3> QED
      BY <3>1, <3>2, <3>3
  <2>3. CASE m = k + 1
    <3>1. l4.nodes[m] = l3.nodes[m] /\ m \in 1 .. n2 + 1 /\ ~(m <= k)
      BY <1>6, <1>9, <2>1, <2>3
    <3>2. l4.nodes[m] = t
      BY <1>8, <2>3, <3>1
    <3>3. m = i + c1 /\ ~(m < i + c1) /\ ~(m < i)
      BY <2>1, <2>10, <2>3
    <3> QED
      BY <3>2, <3>3
  <2>4. CASE m > k + 1 /\ m <= k + 1 + c2
    <3>1. l4.nodes[m] = r
      BY <1>6, <1>9, <2>1, <2>4
    <3>2. m # i + c1 /\ ~(m < i + c1) /\ ~(m < i) /\ m <= i + c1 + c2
      BY <2>1, <2>10, <2>4
    <3> QED
      BY <3>1, <3>2
  <2>5. CASE m > k + 1 + c2
    <3>1. PICK h : h = m - c2
      OBVIOUS
    <3>2. PICK g : g = h - 1
      OBVIOUS
    <3>3. PICK j : j = g + taken
      OBVIOUS
    <3>4. k \in Nat /\ n1 \in Nat /\ n2 \in Nat /\ taken \in Nat /\ n2 = n1 - taken
      BY <1>5, <1>6
    <3>5. h \in 1 .. n2 + 1 /\ h > k + 1 /\ g \in 1 .. n2 /\ g > k
      BY <2>1, <2>10, <2>5, <3>1, <3>2, <3>4
    <3>6. ~(m <= k + 1) /\ ~(m <= k + 1 + c2)
      BY <2>1, <2>10, <2>5, <3>4
    <3>7. l4.nodes[m] = l3.nodes[h]
      BY <1>9, <2>1, <3>1, <3>6
    <3>8. l3.nodes[h] = l2.nodes[g]
      BY <1>8, <3>2, <3>4, <3>5
    <3>9. l2.nodes[g] = l1.nodes[j]
      <4>1. g \in 1 .. n2 /\ ~(g <= k)
        BY <3>4, <3>5
      <4>2. l2.nodes[g] = IF g <= k THEN l1.nodes[g] ELSE l1.nodes[g + taken]
        BY <1>7, <4>1, Zenon
      <4> QED
        BY <3>3, <4>1, <4>2, Zenon
    <3>10. /\ j \in 1 .. n1 /\ ~(j < i + c1) /\ ~(j < i)
           /\ j - c1 = m - (i + c1 + c2 - (i + taken - 1))
      BY <1>2, <2>1, <2>10, <3>1, <3>2, <3>3, <3>4, <3>5
    <3>11. l1.nodes[j] = ns[j - c1]
      BY <1>4, <3>10
    <3>12. l4.nodes[m] = ns[m - (i + c1 + c2 - (i + taken - 1))]
      BY <3>7, <3>8, <3>9, <3>10, <3>11
    <3>13. m # i + c1 /\ ~(m < i + c1) /\ ~(m < i) /\ ~(m <= i + c1 + c2)
      BY <2>1, <2>10, <2>5
    <3> QED
      BY <3>12, <3>13
  <2>11. \/ m <= k \/ m = k + 1 \/ (m > k + 1 /\ m <= k + 1 + c2)
         \/ m > k + 1 + c2
    <3>1. k \in Nat /\ m \in Nat
      BY <1>6, <2>1
    <3> QED
      BY <2>10, <3>1
  <2> QED
    BY <2>2, <2>3, <2>4, <2>5, <2>11, Zenon
<1>13. IsCut(l.nodes, l4.nodes, i, i + taken - 1, b, c1, t, c2, r)
  BY <1>1, <1>9, <1>11, <1>12 DEF IsCut
<1>14. Counted(l4)
  BY <1>9 DEF Counted
<1>15. Edited(l, i, taken, b, c1, t) = l3
  BY Zenon DEF Edited, k, l1, l2, l3
<1>16. Rested(l, i, taken, b, c1, t, r) = l4
  BY <1>15, Zenon DEF Rested, k, l4
<1>17. k > 0 => l3.nodes[k] = l4.nodes[k]
  BY <1>10
<1> QED
  BY <1>13, <1>14, <1>15, <1>16, <1>17 DEF k

(* What a match is: it begins in the text i, the node behind the last one is a  *)
(* token, and the three new nodes have addresses of their own.                  *)
Fits(ns, i, last, from, to, b, c1, t, c2, r) ==
    /\ i \in 1 .. Len(ns) /\ last \in i .. Len(ns)
    /\ ~ns[i].isSyntax /\ (last < Len(ns) => ns[last + 1].isSyntax)
    /\ from \in Edge(ns, i) .. N /\ to \in from .. Edge(ns, last + 1)
    /\ c1 \in {0, 1} /\ (c1 = 1 <=> from > Edge(ns, i))
    /\ c2 \in {0, 1} /\ (c2 = 1 <=> Edge(ns, last + 1) > to)
    /\ b.at = Edge(ns, i) /\ b.len = from - Edge(ns, i)
    /\ t.at = from /\ t.len = to - from /\ t.isSyntax
    /\ r.at = to /\ r.len = Edge(ns, last + 1) - to
    /\ b \in Node /\ t \in Node /\ r \in Node
    /\ {b.id, t.id, r.id} \cap Addressed(ns) = {}
    /\ b.id # t.id /\ b.id # r.id /\ t.id # r.id

LEMMA CutNodes ==
  ASSUME NEW ns, NEW ms, NEW i, NEW last, NEW from, NEW to,
         NEW b, NEW c1, NEW t, NEW c2, NEW r, ns \in Seq(Node),
         Fits(ns, i, last, from, to, b, c1, t, c2, r), IsCut(ns, ms, i, last, b, c1, t, c2, r)
  PROVE  LET z == i + c1 + c2
         IN  /\ z \in Nat /\ i + c1 \in Nat /\ last \in Nat /\ i \in Nat \ {0} /\ last <= Len(ns)
             /\ Len(ms) = Len(ns) + z - last /\ z <= Len(ms)
             /\ Len(ms) \in Nat /\ Len(ns) \in Nat
             /\ \A m \in 1 .. i - 1 : m \in 1 .. Len(ns) /\ m \in 1 .. Len(ms) /\ ms[m] = ns[m]
             /\ c1 = 1 => ms[i] = b
             /\ ms[i + c1] = t
             /\ c2 = 1 => ms[z] = r
             /\ \A m \in z + 1 .. Len(ms) : /\ m - (z - last) \in last + 1 .. Len(ns)
                                            /\ ms[m] = ns[m - (z - last)]
<1> DEFINE z == i + c1 + c2
<1>1. Len(ns) \in Nat /\ Len(ms) \in Nat
  BY LenProperties DEF IsCut
<1>2. i \in Nat \ {0} /\ last \in Nat /\ i <= last /\ last <= Len(ns)
  BY <1>1 DEF Fits
<1>3. c1 \in {0, 1} /\ c2 \in {0, 1}
  BY DEF Fits
<1>4. z \in Nat /\ i + c1 \in Nat /\ z >= i /\ z >= i + c1 /\ z - last \in Int
  BY <1>2, <1>3
<1>5. Len(ms) = Len(ns) + z - last /\ z <= Len(ms)
  <2>1. Len(ms) = Len(ns) - (last + 1 - i) + c1 + 1 + c2
    BY DEF IsCut
  <2> QED
    BY <1>1, <1>2, <1>3, <2>1
<1>6. ASSUME NEW m \in 1 .. Len(ms)
      PROVE  ms[m] = IF m < i THEN ns[m]
                     ELSE IF m < i + c1 THEN b
                     ELSE IF m = i + c1 THEN t
                     ELSE IF m <= z THEN r
                     ELSE ns[m - (z - last)]
  <2>1. m \in Nat /\ last \in Nat /\ i \in Nat
    BY <1>1, <1>2
  <2> QED
    BY <1>3, <2>1 DEF IsCut
<1> HIDE DEF z
<1>7. ASSUME NEW m \in 1 .. i - 1
      PROVE  m \in 1 .. Len(ns) /\ m \in 1 .. Len(ms) /\ ms[m] = ns[m]
  <2>1. m < i /\ m \in 1 .. Len(ns) /\ m \in 1 .. Len(ms)
    BY <1>1, <1>2, <1>4, <1>5
  <2> QED
    BY <1>6, <2>1
<1>8. c1 = 1 => ms[i] = b
  <2>1. SUFFICES ASSUME c1 = 1
                 PROVE  ms[i] = b
    OBVIOUS
  <2>2. i \in 1 .. Len(ms) /\ ~(i < i) /\ i < i + c1
    BY <1>1, <1>2, <1>4, <1>5, <2>1
  <2> QED
    BY <1>6, <2>2
<1>9. ms[i + c1] = t
  <2>1. PICK m : m = i + c1
    OBVIOUS
  <2>2. m \in 1 .. Len(ms) /\ ~(m < i) /\ ~(m < i + c1)
    BY <1>1, <1>2, <1>3, <1>4, <1>5, <2>1
  <2> QED
    BY <1>6, <2>1, <2>2
<1>10. c2 = 1 => ms[z] = r
  <2>1. SUFFICES ASSUME c2 = 1
                 PROVE  ms[z] = r
    OBVIOUS
  <2>2. z \in 1 .. Len(ms) /\ ~(z < i) /\ ~(z < i + c1) /\ z # i + c1
    BY <1>1, <1>2, <1>3, <1>4, <1>5, <2>1 DEF z
  <2> QED
    BY <1>6, <2>2
<1>11. ASSUME NEW m \in z + 1 .. Len(ms)
       PROVE  m - (z - last) \in last + 1 .. Len(ns) /\ ms[m] = ns[m - (z - last)]
  <2>1. m \in 1 .. Len(ms) /\ ~(m < i) /\ ~(m < i + c1) /\ m # i + c1 /\ ~(m <= z)
    BY <1>1, <1>2, <1>4
  <2>2. m - (z - last) \in last + 1 .. Len(ns)
    BY <1>1, <1>2, <1>4, <1>5
  <2>3. ms[m] = ns[m - (z - last)]
    BY <1>6, <2>1
  <2> QED
    BY <2>2, <2>3
<1> QED
  BY <1>1, <1>2, <1>4, <1>5, <1>7, <1>8, <1>9, <1>10, <1>11 DEF z

(* The list that comes of it is again the text cut into pieces: nothing lost,   *)
(* repeated or moved, and no two texts touch.                                   *)
LEMMA PiecesKept ==
  ASSUME NEW ns, NEW ms, NEW i, NEW last, NEW from, NEW to,
         NEW b, NEW c1, NEW t, NEW c2, NEW r, Pieces(ns),
         Fits(ns, i, last, from, to, b, c1, t, c2, r), IsCut(ns, ms, i, last, b, c1, t, c2, r)
  PROVE  Pieces(ms)
<1>1. ns \in Seq(Node) /\ Distinct(ns)
  BY DEF Pieces
<1> DEFINE z == i + c1 + c2
           x == i + c1
           h == z - last
<1>2. /\ z \in Nat /\ x \in Nat /\ last \in Nat /\ i \in Nat \ {0} /\ last <= Len(ns)
      /\ Len(ms) = Len(ns) + z - last /\ z <= Len(ms)
      /\ Len(ms) \in Nat /\ Len(ns) \in Nat
  BY <1>1, CutNodes
<1>3. /\ \A m \in 1 .. i - 1 : m \in 1 .. Len(ns) /\ m \in 1 .. Len(ms) /\ ms[m] = ns[m]
      /\ c1 = 1 => ms[i] = b
      /\ ms[x] = t
      /\ c2 = 1 => ms[z] = r
      /\ \A m \in z + 1 .. Len(ms) : m - h \in last + 1 .. Len(ns) /\ ms[m] = ns[m - h]
  BY <1>1, CutNodes
<1>4. /\ c1 \in {0, 1} /\ c2 \in {0, 1} /\ i <= last /\ i \in 1 .. Len(ns) /\ last \in 1 .. Len(ns)
      /\ h \in Int /\ x = i + c1 /\ z = x + c2 /\ h = z - last
  BY <1>2 DEF Fits
<1> HIDE DEF z, x, h
<1>5. PICK pos, end : pos = Edge(ns, i) /\ end = Edge(ns, last + 1)
  OBVIOUS
<1>6. /\ pos \in 0 .. N /\ end \in 0 .. N /\ from \in pos .. N /\ to \in from .. end
      /\ c1 = 1 <=> from > pos
      /\ c2 = 1 <=> end > to
      /\ b.at = pos /\ b.len = from - pos /\ t.at = from /\ t.len = to - from /\ t.isSyntax
      /\ r.at = to /\ r.len = end - to
  <2>1. i \in 1 .. Len(ns) + 1 /\ last + 1 \in 1 .. Len(ns) + 1
    BY <1>2, <1>4
  <2> QED
    BY <1>5, <2>1, EdgeFacts DEF Fits
<1>7. ASSUME NEW m \in 1 .. Len(ms)
      PROVE  \/ m \in 1 .. i - 1 \/ (c1 = 1 /\ m = i) \/ m = x
             \/ (c2 = 1 /\ m = z) \/ m \in z + 1 .. Len(ms)
  <2>1. m \in Nat /\ m >= 1 /\ i \in Nat /\ z \in Nat
    BY <1>2
  <2>2. CASE m < i
    BY <2>1, <2>2
  <2>3. CASE m >= i /\ m <= z
    <3>1. CASE c1 = 0
      BY <1>4, <2>1, <2>3, <3>1
    <3>2. CASE c1 = 1
      BY <1>4, <2>1, <2>3, <3>2
    <3> QED
      BY <1>4, <3>1, <3>2
  <2>4. CASE m > z
    BY <1>2, <2>1, <2>4
  <2> QED
    BY <2>1, <2>2, <2>3, <2>4
<1>8. ms \in Seq(Node) /\ Len(ms) > 0
  BY <1>2, <1>3, <1>4 DEF IsCut
<1>9. Distinct(ms)
  <2> DEFINE Old(m) == m \in 1 .. i - 1 \/ m \in z + 1 .. Len(ms)
             was(m) == IF m < i THEN m ELSE m - h
  <2>1. ASSUME NEW m \in 1 .. Len(ms), Old(m)
        PROVE  /\ was(m) \in 1 .. Len(ns) /\ ms[m] = ns[was(m)]
               /\ m < i <=> was(m) < i
               /\ ms[m].id \in Addressed(ns)
    <3>1. CASE m \in 1 .. i - 1
      <4>1. m < i /\ m \in 1 .. Len(ns) /\ ms[m] = ns[m]
        BY <1>2, <1>3, <3>1
      <4> QED
        BY <1>1, <4>1, NodeFields
    <3>2. CASE m \in z + 1 .. Len(ms)
      <4>1. ~(m < i) /\ m - h \in last + 1 .. Len(ns) /\ ms[m] = ns[m - h]
        BY <1>2, <1>3, <1>4, <3>2
      <4>2. m - h \in 1 .. Len(ns) /\ ~(m - h < i)
        BY <1>2, <1>3, <1>4, <4>1
      <4>3. ns[m - h].id \in Addressed(ns)
        BY <1>1, <4>2, NodeFields
      <4> QED
        BY <4>1, <4>2, <4>3
    <3> QED
      BY <2>1, <3>1, <3>2
  <2>2. ASSUME NEW m \in 1 .. Len(ms), ~Old(m)
        PROVE  \/ m = i /\ c1 = 1 /\ ms[m].id = b.id
               \/ m = x /\ ms[m].id = t.id
               \/ m = z /\ c2 = 1 /\ ms[m].id = r.id
    BY <1>2, <1>3, <1>7, <2>2
  <2>3. /\ b.id \notin Addressed(ns) /\ t.id \notin Addressed(ns) /\ r.id \notin Addressed(ns)
        /\ b.id # t.id /\ b.id # r.id /\ t.id # r.id
    BY DEF Fits
  <2>4. ASSUME NEW m \in 1 .. Len(ms), NEW k \in 1 .. Len(ms), ms[m].id = ms[k].id, Old(m), Old(k)
        PROVE  m = k
    <3>1. /\ was(m) \in 1 .. Len(ns) /\ was(k) \in 1 .. Len(ns)
          /\ ns[was(m)].id = ns[was(k)].id
          /\ m < i <=> was(m) < i
          /\ k < i <=> was(k) < i
      BY <2>1, <2>4
    <3>2. was(m) = was(k)
      BY <1>1, <3>1 DEF Distinct
    <3>3. m \in Nat /\ k \in Nat
      OBVIOUS
    <3>4. (m < i /\ k < i) \/ (~(m < i) /\ ~(k < i))
      BY <3>1, <3>2
    <3> QED
      BY <1>4, <3>2, <3>3, <3>4
  <2>5. ASSUME NEW m \in 1 .. Len(ms), NEW k \in 1 .. Len(ms), ms[m].id = ms[k].id
        PROVE  m = k
    <3>1. Old(m) => ms[m].id \in Addressed(ns)
      BY <2>1
    <3>2. Old(k) => ms[k].id \in Addressed(ns)
      BY <2>1
    <3>3. ~Old(m) => ms[m].id \notin Addressed(ns)
      BY <2>2, <2>3
    <3>4. ~Old(k) => ms[k].id \notin Addressed(ns)
      BY <2>2, <2>3
    <3>5. CASE Old(m)
      BY <2>4, <2>5, <3>1, <3>4, <3>5
    <3>6. CASE ~Old(m)
      <4>1. ~Old(k)
        BY <2>5, <3>2, <3>3, <3>6
      <4> QED
        BY <2>2, <2>3, <2>5, <3>6, <4>1
    <3> QED
      BY <3>5, <3>6
  <2> QED
    BY <2>5 DEF Distinct
<1>10. \A m \in 1 .. Len(ms) : ms[m].isSyntax \/ ms[m].len > 0
  <2>1. ASSUME NEW m \in 1 .. Len(ms)
        PROVE  ms[m].isSyntax \/ ms[m].len > 0
    <3>1. CASE m \in 1 .. i - 1
      BY <1>2, <1>3, <3>1 DEF Pieces
    <3>2. CASE c1 = 1 /\ m = i
      BY <1>2, <1>3, <1>6, <3>2
    <3>3. CASE m = x
      BY <1>2, <1>3, <1>6, <3>3
    <3>4. CASE c2 = 1 /\ m = z
      BY <1>2, <1>3, <1>6, <3>4
    <3>5. CASE m \in z + 1 .. Len(ms)
      <4>1. m - h \in 1 .. Len(ns) /\ ms[m] = ns[m - h]
        BY <1>2, <1>3, <3>5
      <4> QED
        BY <4>1 DEF Pieces
    <3> QED
      BY <1>7, <3>1, <3>2, <3>3, <3>4, <3>5
  <2> QED
    BY <2>1
<1>11. ms[1].at = 0
  <2>1. CASE i > 1
    <3>1. 1 \in 1 .. i - 1
      BY <1>2, <1>3, <2>1
    <3> QED
      BY <1>2, <1>3, <3>1 DEF Pieces
  <2>2. CASE i = 1
    <3>1. pos = 0
      BY <1>5, <2>2, EdgeFacts
    <3>2. CASE c1 = 1
      BY <1>2, <1>3, <1>6, <2>2, <3>1, <3>2
    <3>3. CASE c1 = 0
      <4>1. from = pos /\ x = 1
        BY <1>4, <1>6, <2>2, <3>3
      <4> QED
        BY <1>2, <1>3, <1>6, <3>1, <4>1
    <3> QED
      BY <1>4, <3>2, <3>3
  <2> QED
    BY <1>2, <1>3, <2>1, <2>2
<1>12. ms[z].at + ms[z].len = end
  <2>1. CASE c2 = 1
    BY <1>2, <1>3, <1>6, <2>1
  <2>2. CASE c2 = 0
    <3>1. z = x /\ to = end
      BY <1>4, <1>6, <2>2
    <3> QED
      BY <1>2, <1>3, <1>6, <3>1
  <2> QED
    BY <1>4, <2>1, <2>2
<1>13. ms[Len(ms)].at + ms[Len(ms)].len = N
  <2>1. CASE last = Len(ns)
    <3>1. Len(ms) = z /\ end = N
      BY <1>2, <1>3, <1>5, <2>1, EdgeFacts
    <3> QED
      BY <1>12, <3>1
  <2>2. CASE last # Len(ns)
    <3>1. PICK k : k = Len(ms)
      OBVIOUS
    <3>2. k \in z + 1 .. Len(ms) /\ k - h = Len(ns)
      <4>1. last < Len(ns) /\ k = Len(ns) + z - last /\ k \in Nat /\ z < k
        BY <1>2, <2>2, <3>1
      <4> QED
        BY <1>2, <1>4, <3>1, <4>1
    <3>3. ms[k] = ns[k - h]
      BY <1>2, <1>3, <3>2
    <3> QED
      BY <3>1, <3>2, <3>3 DEF Pieces
  <2> QED
    BY <2>1, <2>2
<1>14. ASSUME NEW m \in 2 .. Len(ms)
       PROVE  /\ ms[m].at = ms[m - 1].at + ms[m - 1].len
              /\ ms[m].isSyntax \/ ms[m - 1].isSyntax
  <2>1. PICK p : p = m - 1
    OBVIOUS
  <2>2. m \in 1 .. Len(ms) /\ p \in 1 .. Len(ms) /\ m \in Nat /\ p \in Nat /\ m = p + 1
    BY <1>2, <1>3, <2>1
  <2>3. \A k \in 2 .. Len(ns) : ns[k].isSyntax \/ ns[k - 1].isSyntax
    BY DEF Pieces
  <2>4. \A k \in 2 .. Len(ns) : ns[k].at = ns[k - 1].at + ns[k - 1].len
    BY DEF Pieces
  <2>5. ASSUME m = i
        PROVE  /\ p \in 1 .. i - 1 /\ ms[p] = ns[p] /\ ns[p].isSyntax
               /\ ms[p].at + ms[p].len = pos
    <3>1. p \in 1 .. i - 1 /\ i \in 2 .. Len(ns) /\ i - 1 = p /\ p \in 1 .. Len(ns)
      BY <1>2, <1>3, <1>4, <2>2, <2>5
    <3>2. ms[p] = ns[p]
      BY <1>2, <1>3, <3>1
    <3>3. ns[p].isSyntax
      BY <2>3, <3>1 DEF Fits
    <3>4. Edge(ns, p + 1) = ns[p].at + ns[p].len
      BY <3>1, EdgeFacts
    <3> QED
      BY <1>5, <2>2, <2>5, <3>1, <3>2, <3>3, <3>4
  <2>6. CASE m \in 1 .. i - 1
    <3>1. p \in 1 .. i - 1 /\ m \in 2 .. Len(ns)
      BY <1>2, <1>3, <2>2, <2>6
    <3>2. ms[m] = ns[m] /\ ms[p] = ns[m - 1]
      BY <1>2, <1>3, <2>1, <2>6, <3>1
    <3> QED
      BY <2>1, <2>3, <2>4, <3>1, <3>2
  <2>7. CASE c1 = 1 /\ m = i
    BY <1>2, <1>3, <1>6, <2>1, <2>5, <2>7
  <2>8. CASE m = x
    <3>1. CASE c1 = 1
      <4>1. p = i
        BY <1>4, <2>2, <2>8, <3>1
      <4>2. ms[p] = b /\ ms[m] = t
        BY <1>3, <2>8, <3>1, <4>1
      <4>3. b.at + b.len = from
        BY <1>6
      <4> QED
        BY <1>6, <2>1, <4>2, <4>3
    <3>2. CASE c1 = 0
      <4>1. m = i /\ from = pos
        BY <1>4, <1>6, <2>8, <3>2
      <4> QED
        BY <1>2, <1>3, <1>6, <2>1, <2>5, <2>8, <4>1
    <3> QED
      BY <1>4, <3>1, <3>2
  <2>9. CASE c2 = 1 /\ m = z
    <3>1. p = x
      BY <1>4, <2>2, <2>9
    <3> QED
      <4>1. ms[m] = r /\ ms[p] = t
        BY <1>3, <2>9, <3>1
      <4>2. t.at + t.len = to /\ t.isSyntax /\ r.at = to
        BY <1>6
      <4> QED
        BY <2>1, <4>1, <4>2
  <2>10. CASE m \in z + 1 .. Len(ms)
    <3>1. PICK k : k = m - h
      OBVIOUS
    <3>2. k \in last + 1 .. Len(ns) /\ ms[m] = ns[k]
      BY <1>2, <1>3, <2>10, <3>1
    <3>3. CASE m = z + 1
      <4>1. k = last + 1 /\ last < Len(ns) /\ p = z /\ k \in 1 .. Len(ns)
        BY <1>2, <1>3, <1>4, <2>2, <3>1, <3>2, <3>3
      <4>2. ns[k].isSyntax /\ ns[k].at = end
        <5>1. ns[k].isSyntax
          BY <4>1 DEF Fits
        <5>2. Edge(ns, k) = ns[k].at
          BY <4>1, EdgeFacts
        <5> QED
          BY <1>5, <4>1, <5>1, <5>2
      <4> QED
        BY <1>12, <2>1, <3>2, <4>1, <4>2
    <3>4. CASE m # z + 1
      <4>1. p \in z + 1 .. Len(ms) /\ p - h = k - 1 /\ k \in 2 .. Len(ns)
        BY <1>2, <1>3, <1>4, <2>2, <2>10, <3>1, <3>2, <3>4
      <4>2. ms[p] = ns[k - 1]
        BY <1>2, <1>3, <4>1
      <4> QED
        BY <2>1, <2>3, <2>4, <3>2, <4>1, <4>2
    <3> QED
      BY <3>3, <3>4
  <2> QED
    BY <1>7, <2>2, <2>6, <2>7, <2>8, <2>9, <2>10
<1> QED
  BY <1>8, <1>9, <1>10, <1>11, <1>13, <1>14 DEF Pieces

-------------------------------------------------------------------------------
(* What lies below a node that is still there stands where it stood.            *)
SameBelow(ns, ms, i) == \A m \in 1 .. i - 1 : m \in 1 .. Len(ns) /\ m \in 1 .. Len(ms) /\ ms[m] = ns[m]

LEMMA KeptBelow ==
  ASSUME NEW ns, NEW ms, Pieces(ns), Pieces(ms), NEW i \in Nat, SameBelow(ns, ms, i),
         NEW id \in Addressed(ns), IndexIn(ns, id) < i
  PROVE  /\ id \in Addressed(ms) /\ IndexIn(ms, id) = IndexIn(ns, id)
         /\ ms[IndexIn(ns, id)] = ns[IndexIn(ns, id)]
<1>1. ns \in Seq(Node) /\ Distinct(ns) /\ ms \in Seq(Node) /\ Distinct(ms)
  BY DEF Pieces
<1>2. PICK k : k = IndexIn(ns, id)
  OBVIOUS
<1>3. k \in 1 .. Len(ns) /\ ns[k].id = id
  BY <1>1, <1>2, IndexFacts
<1>4. k \in 1 .. i - 1
  BY <1>2, <1>3
<1>5. k \in 1 .. Len(ms) /\ ms[k] = ns[k]
  BY <1>4 DEF SameBelow
<1>6. ms[k].id = id /\ ms[k].id \in Addressed(ms) /\ IndexIn(ms, ms[k].id) = k
  BY <1>1, <1>3, <1>5, IndexFacts, NodeFields
<1> QED
  BY <1>2, <1>5, <1>6

LEMMA StartsKept ==
  ASSUME NEW ns, NEW ms, Pieces(ns), Pieces(ms), NEW i \in Nat, SameBelow(ns, ms, i),
         NEW f, Starts(ns, f), Before(ns, f) < i
  PROVE  Starts(ms, f) /\ Before(ms, f) = Before(ns, f)
<1>1. CASE f.startNode = head
  BY <1>1 DEF Starts, Before
<1>2. CASE f.startNode # head
  <2>1. PICK id \in Addressed(ns) : id = f.startNode
    BY <1>2 DEF Starts
  <2>2. IndexIn(ns, id) < i
    BY <1>2, <2>1 DEF Before
  <2>3. /\ id \in Addressed(ms) /\ IndexIn(ms, id) = IndexIn(ns, id)
        /\ ms[IndexIn(ns, id)] = ns[IndexIn(ns, id)]
    BY <2>2, KeptBelow
  <2> QED
    BY <1>2, <2>1, <2>3 DEF Starts, Before
<1> QED
  BY <1>1, <1>2

LEMMA AtKept ==
  ASSUME NEW ns, NEW ms, Pieces(ns), Pieces(ms), NEW i \in Nat, SameBelow(ns, ms, i),
         NEW f, At(ns, f), f.currentNode # head, Place(ns, f) < i
  PROVE  At(ms, f) /\ Place(ms, f) = Place(ns, f) /\ ms[Place(ns, f)] = ns[Place(ns, f)]
<1>1. PICK id \in Addressed(ns) : id = f.currentNode
  BY DEF At
<1>2. IndexIn(ns, id) = Place(ns, f)
  BY <1>1 DEF Place
<1>3. /\ id \in Addressed(ms) /\ IndexIn(ms, id) = IndexIn(ns, id)
      /\ ms[IndexIn(ns, id)] = ns[IndexIn(ns, id)]
  BY <1>2, KeptBelow
<1> QED
  BY <1>1, <1>2, <1>3 DEF At, Place

(* The callers wait at tokens, so they wait below the text that is cut.         *)
LEMMA UnderCut ==
  ASSUME NEW ns, NEW ms, Pieces(ns), Pieces(ms), NEW i \in 1 .. Len(ns), SameBelow(ns, ms, i),
         ~ns[i].isSyntax, NEW cs, Calls(ns, cs), Len(cs) > 0,
         Place(ns, cs[Len(cs)]) <= i
  PROVE  /\ UnderKept(ns, ms, cs)
         /\ Starts(ms, cs[Len(cs)]) /\ Before(ms, cs[Len(cs)]) = Before(ns, cs[Len(cs)])
         /\ Before(ns, cs[Len(cs)]) < i
<1>1. Len(cs) \in Nat \ {0} /\ Len(cs) \in 1 .. Len(cs) /\ i \in Nat
  BY LenProperties, EdgeFacts DEF Calls
<1>2. ASSUME NEW d \in 1 .. Len(cs)
      PROVE  /\ Stands(ns, cs[d]) /\ Before(ns, cs[d]) \in Nat /\ Place(ns, cs[d]) \in Nat
             /\ Before(ns, cs[d]) < Place(ns, cs[d])
  BY Standing, EdgeFacts DEF Calls
<1>3. ASSUME NEW d \in 1 .. Len(cs) - 1
      PROVE  /\ Stands(ms, cs[d]) /\ Before(ms, cs[d]) = Before(ns, cs[d])
             /\ Place(ms, cs[d]) = Place(ns, cs[d]) /\ ms[Place(ns, cs[d])].isSyntax
  <2>1. d \in 1 .. Len(cs) /\ d < Len(cs)
    BY <1>1
  <2>2. Waits(ns, cs[d], cs[d + 1])
    BY DEF Calls
  <2>3. Place(ns, cs[d]) <= Place(ns, cs[Len(cs)])
    BY <1>1, <2>1 DEF Calls
  <2>4. Place(ns, cs[d]) # i
    BY <2>2 DEF Waits
  <2>5. Place(ns, cs[d]) < i /\ Before(ns, cs[d]) < i
    <3>1. Place(ns, cs[d]) \in Nat /\ Before(ns, cs[d]) \in Nat /\ Place(ns, cs[Len(cs)]) \in Nat
      BY <1>1, <1>2, <2>1
    <3>2. Before(ns, cs[d]) < Place(ns, cs[d])
      BY <1>2, <2>1
    <3> QED
      BY <1>1, <2>3, <2>4, <3>1, <3>2
  <2>6. PICK f : f = cs[d]
    OBVIOUS
  <2>7. /\ Starts(ns, f) /\ At(ns, f) /\ f.currentNode # head /\ ns[Place(ns, f)].isSyntax
        /\ Before(ns, f) < i /\ Place(ns, f) < i
    BY <1>2, <2>1, <2>2, <2>5, <2>6 DEF Stands, Waits
  <2>8. Starts(ms, f) /\ Before(ms, f) = Before(ns, f)
    BY <1>1, <2>7, StartsKept
  <2>9. At(ms, f) /\ Place(ms, f) = Place(ns, f) /\ ms[Place(ns, f)] = ns[Place(ns, f)]
    BY <1>1, <2>7, AtKept
  <2> QED
    BY <2>6, <2>7, <2>8, <2>9 DEF Stands
<1>4. UnderKept(ns, ms, cs)
  BY <1>3 DEF UnderKept
<1>5. PICK f : f = cs[Len(cs)]
  OBVIOUS
<1>6. Starts(ns, f) /\ Before(ns, f) < i
  BY <1>1, <1>2, <1>5 DEF Stands
<1>7. Starts(ms, f) /\ Before(ms, f) = Before(ns, f)
  BY <1>1, <1>6, StartsKept
<1> QED
  BY <1>4, <1>5, <1>6, <1>7

(* A call is made with the token of its caller.                                 *)
LEMMA Pushed ==
  ASSUME NEW ns, Pieces(ns), NEW cs, Calls(ns, cs), Len(cs) > 0,
         NEW g, g = cs[Len(cs)], g.currentNode # head, ns[Place(ns, g)].isSyntax,
         NEW c \in CallRec, c.currentNode = g.currentNode, c.pos = g.pos,
         Starts(ns, c), Before(ns, c) = Place(ns, g) - 1
  PROVE  Calls(ns, Append(cs, c))
<1> DEFINE ds == Append(cs, c)
<1>1. cs \in Seq(CallRec)
  BY DEF Calls
<1>2. /\ ds \in Seq(CallRec) /\ Len(ds) = Len(cs) + 1
      /\ \A d \in 1 .. Len(cs) : ds[d] = cs[d]
      /\ ds[Len(cs) + 1] = c
  BY <1>1, AppendProperties
<1> HIDE DEF ds
<1>3. PICK n : n = Len(cs)
  OBVIOUS
<1>4. n \in Nat \ {0} /\ Len(ds) = n + 1 /\ n \in 1 .. n
  BY <1>1, <1>2, <1>3, LenProperties
<1>5. ds[n + 1] = c /\ g = cs[n] /\ \A d \in 1 .. n : ds[d] = cs[d]
  BY <1>2, <1>3
<1>6. Stands(ns, g) /\ Before(ns, g) < Place(ns, g)
  BY <1>3, <1>4 DEF Calls
<1>7. Place(ns, g) \in Nat
  BY <1>6, Standing, EdgeFacts
<1>8. Stands(ns, c) /\ Place(ns, c) = Place(ns, g) /\ Before(ns, c) < Place(ns, c)
  <2>1. At(ns, c) /\ Place(ns, c) = Place(ns, g)
    BY <1>6 DEF Stands, At, Place
  <2> QED
    BY <1>7, <2>1 DEF Stands
<1>9. ASSUME NEW d \in 1 .. n + 1
      PROVE  Stands(ns, ds[d]) /\ Before(ns, ds[d]) < Place(ns, ds[d])
  <2>1. CASE d = n + 1
    BY <1>5, <1>8, <2>1
  <2>2. CASE d # n + 1
    <3>1. d \in 1 .. n
      BY <1>4, <2>2
    <3> QED
      BY <1>3, <1>5, <3>1 DEF Calls
  <2> QED
    BY <2>1, <2>2
<1>10. ASSUME NEW d \in 1 .. n
       PROVE  Waits(ns, ds[d], ds[d + 1])
  <2>1. CASE d = n
    BY <1>4, <1>5, <2>1 DEF Waits
  <2>2. CASE d # n
    <3>1. d \in 1 .. n - 1 /\ d + 1 \in 1 .. n
      BY <1>4, <2>2
    <3>2. ds[d] = cs[d] /\ ds[d + 1] = cs[d + 1]
      BY <1>5, <3>1
    <3> QED
      BY <1>3, <3>1, <3>2 DEF Calls
  <2> QED
    BY <2>1, <2>2
<1>11. ASSUME NEW d \in 1 .. n + 1, NEW e \in 1 .. n + 1, d < e
       PROVE  Place(ns, ds[d]) <= Place(ns, ds[e])
  <2>1. d \in 1 .. n /\ ds[d] = cs[d]
    BY <1>4, <1>5, <1>11
  <2>2. CASE e # n + 1
    <3>1. e \in 1 .. n /\ ds[e] = cs[e]
      BY <1>4, <1>5, <2>2
    <3> QED
      BY <1>3, <1>11, <2>1, <3>1 DEF Calls
  <2>3. CASE e = n + 1
    <3>1. Place(ns, ds[e]) = Place(ns, g)
      BY <1>5, <1>8, <2>3
    <3>2. CASE d = n
      BY <1>5, <1>7, <2>1, <3>1, <3>2
    <3>3. CASE d # n
      <4>1. d < n /\ n \in 1 .. n
        BY <1>4, <2>1, <3>3
      <4>2. Place(ns, cs[d]) <= Place(ns, cs[n])
        BY <1>3, <2>1, <4>1 DEF Calls
      <4> QED
        BY <1>5, <2>1, <3>1, <4>2
    <3> QED
      BY <3>2, <3>3
  <2> QED
    BY <2>2, <2>3
<1>12. \A d \in 1 .. Len(ds) - 1 : Waits(ns, ds[d], ds[d + 1])
  <2>1. Len(ds) - 1 = n
    BY <1>4
  <2> QED
    BY <1>10, <2>1
<1>13. Calls(ns, ds)
  BY <1>2, <1>4, <1>9, <1>11, <1>12 DEF Calls
<1> QED
  BY <1>13 DEF ds

(* A match by the running call: it goes on behind the token, or waits at it for *)
(* the rematch of what was uncovered.                                           *)
LEMMA TokenThere ==
  ASSUME NEW ns, NEW ms, NEW i, NEW last, NEW from, NEW to,
         NEW b, NEW c1, NEW t, NEW c2, NEW r, Pieces(ns),
         Fits(ns, i, last, from, to, b, c1, t, c2, r), IsCut(ns, ms, i, last, b, c1, t, c2, r)
  PROVE  /\ Pieces(ms) /\ SameBelow(ns, ms, i) /\ i + c1 \in 1 .. Len(ms) /\ i \in Nat /\ c1 \in Nat
         /\ ms[i + c1] = t /\ t.isSyntax
         /\ t.id \in Addressed(ms) /\ t.id # head /\ t.id \in Addresses /\ IndexIn(ms, t.id) = i + c1
         /\ Edge(ms, i + c1) = from /\ Edge(ms, i + c1 + 1) = to
<1>1. ns \in Seq(Node)
  BY DEF Pieces
<1>2. Pieces(ms)
  BY PiecesKept
<1>3. ms \in Seq(Node) /\ Distinct(ms)
  BY <1>2 DEF Pieces
<1> DEFINE x == i + c1
           z == i + c1 + c2
<1>4. /\ z \in Nat /\ x \in Nat /\ i \in Nat \ {0} /\ z <= Len(ms) /\ Len(ms) \in Nat
      /\ \A m \in 1 .. i - 1 : m \in 1 .. Len(ns) /\ m \in 1 .. Len(ms) /\ ms[m] = ns[m]
      /\ ms[x] = t
  BY <1>1, CutNodes
<1>5. c1 \in {0, 1} /\ c2 \in {0, 1} /\ z = x + c2 /\ x = i + c1
  BY DEF Fits
<1> HIDE DEF x, z
<1>6. SameBelow(ns, ms, i)
  BY <1>4 DEF SameBelow
<1>7. x \in 1 .. Len(ms)
  BY <1>4, <1>5
<1>8. ms[x].id \in Addressed(ms) /\ ms[x].id # head /\ ms[x].id \in Addresses /\ IndexIn(ms, ms[x].id) = x
  BY <1>3, <1>7, NodeFields, IndexFacts
<1>9. t.at = from /\ t.len = to - from /\ t.isSyntax
  BY DEF Fits
<1>10. Edge(ms, x) = from /\ Edge(ms, x + 1) = from + (to - from)
  BY <1>2, <1>4, <1>7, <1>9, EdgeFacts
<1>11. from \in Int /\ to \in Int
  <2>1. i \in 1 .. Len(ns) + 1 /\ last + 1 \in 1 .. Len(ns) + 1
    <3>1. Len(ns) \in Nat
      BY <1>1, LenProperties
    <3> QED
      BY <3>1 DEF Fits
  <2> QED
    BY <2>1, EdgeFacts DEF Fits
<1>12. Edge(ms, x + 1) = to
  BY <1>10, <1>11
<1> QED
  BY <1>2, <1>4, <1>5, <1>6, <1>7, <1>8, <1>9, <1>10, <1>12 DEF x

LEMMA Matched ==
  ASSUME NEW ns, NEW ms, NEW i, Pieces(ns), Pieces(ms), SameBelow(ns, ms, i),
         i \in 1 .. Len(ns), ~ns[i].isSyntax,
         NEW cs, Calls(ns, cs), Causes(cs), Len(cs) > 0,
         NEW f, IsTop(f, cs), Place(ns, f) <= i,
         NEW g \in CallRec, Moves(f, g), g.pattern = f.pattern, At(ms, g), Place(ms, g) >= i,
         NEW ds, TopIs(ds, cs, g)
  PROVE  Calls(ms, ds) /\ Causes(ds) /\ Len(ds) = Len(cs) /\ ds[Len(cs)] = g
         /\ Starts(ms, g)
<1>1. cs \in Seq(CallRec) /\ Len(cs) \in 1 .. Len(cs) /\ i \in Nat
  BY LenProperties, EdgeFacts DEF Calls
<1>2. f = cs[Len(cs)]
  BY DEF IsTop
<1>3. /\ UnderKept(ns, ms, cs)
      /\ Starts(ms, f) /\ Before(ms, f) = Before(ns, f) /\ Before(ns, f) < i
  BY <1>2, UnderCut
<1>4. Starts(ms, g) /\ Before(ms, g) = Before(ns, f)
  BY <1>3 DEF Moves, Starts, Before
<1>5. Before(ms, g) < Place(ms, g)
  <2>1. Stands(ms, g)
    BY <1>4 DEF Stands
  <2>2. Before(ms, g) \in Nat /\ Place(ms, g) \in Nat
    BY <2>1, Standing, EdgeFacts
  <2> QED
    BY <1>1, <1>3, <1>4, <2>2
<1>6. Before(ms, g) = Before(ns, cs[Len(cs)])
  BY <1>2, <1>4
<1>7. /\ Calls(ms, ds) /\ Len(ds) = Len(cs) /\ ds[Len(cs)] = g
      /\ \A d \in 1 .. Len(cs) - 1 : ds[d] = cs[d]
  BY <1>3, <1>4, <1>5, <1>6, TopMoved
<1>8. f.cause # NoRematch => f.pattern <= f.cause
  BY <1>1, <1>2 DEF Causes
<1>9. /\ ds[Len(cs)].cause = cs[Len(cs)].cause
      /\ ds[Len(cs)].cause # NoRematch => ds[Len(cs)].pattern <= ds[Len(cs)].cause
  BY <1>2, <1>7, <1>8 DEF Moves
<1>10. Causes(ds)
  BY <1>1, <1>7, <1>9, CausesMoved
<1> QED
  BY <1>4, <1>7, <1>10

-------------------------------------------------------------------------------
(* The nodes a greedy match lies in.  The lengths that matchGrammar adds up are *)
(* distances in the text.                                                       *)
LEMMA LengthIs ==
  ASSUME NEW ns, ns = list.nodes, Pieces(ns), NEW i \in 1 .. Len(ns), NEW j \in i .. Len(ns) + 1
  PROVE  Length(i, j) = Edge(ns, j) - Edge(ns, i)
<1> DEFINE Def(g) == g = [k \in i .. j |-> IF k = i THEN 0 ELSE g[k - 1] + list.nodes[k - 1].len]
           sum == CHOOSE g : Def(g)
           f == [k \in i .. j |-> Edge(ns, k) - Edge(ns, i)]
<1>1. Len(ns) \in Nat /\ i \in Nat /\ j \in Nat /\ i <= j
  BY EdgeFacts
<1>2. ASSUME NEW k \in i .. j
      PROVE  Edge(ns, k) \in Nat
  <2>1. k \in 1 .. Len(ns) + 1
    BY <1>1
  <2> QED
    BY <2>1, EdgeFacts, Constants
<1>3. ASSUME NEW k \in i .. j, k # i
      PROVE  /\ k - 1 \in i .. j /\ Edge(ns, k) = Edge(ns, k - 1) + ns[k - 1].len
             /\ ns[k - 1].len \in Nat
  <2>1. PICK p : p = k - 1
    OBVIOUS
  <2>2. p \in i .. j /\ p \in 1 .. Len(ns) /\ p + 1 = k
    BY <1>1, <1>3, <2>1
  <2>3. Edge(ns, p + 1) = ns[p].at + ns[p].len /\ Edge(ns, p) = ns[p].at
    BY <2>2, EdgeFacts
  <2>4. ns[p].len \in Nat
    BY <2>2, NodeFields, Constants DEF Pieces
  <2> QED
    BY <2>1, <2>2, <2>3, <2>4
<1>4. Def(f)
  <2>1. ASSUME NEW k \in i .. j
        PROVE  f[k] = IF k = i THEN 0 ELSE f[k - 1] + list.nodes[k - 1].len
    <3>1. CASE k = i
      BY <1>2, <3>1
    <3>2. CASE k # i
      <4>1. /\ k - 1 \in i .. j /\ Edge(ns, k) = Edge(ns, k - 1) + ns[k - 1].len
            /\ ns[k - 1].len \in Nat
        BY <1>3, <3>2
      <4>2. Edge(ns, k) \in Nat /\ Edge(ns, k - 1) \in Nat /\ Edge(ns, i) \in Nat
        BY <1>1, <1>2, <4>1
      <4>3. f[k] = Edge(ns, k) - Edge(ns, i) /\ f[k - 1] = Edge(ns, k - 1) - Edge(ns, i)
        BY <4>1
      <4> QED
        BY <3>2, <4>1, <4>2, <4>3
    <3> QED
      BY <3>1, <3>2
  <2> QED
    BY <2>1
<1>5. Def(sum)
  BY <1>4
<1>6. Length(i, j) = sum[j]
  BY DEF Length
<1> HIDE DEF sum
<1>7. \A k \in i .. j : sum[k] = IF k = i THEN 0 ELSE sum[k - 1] + ns[k - 1].len
  BY <1>5
<1> DEFINE S == {n \in Nat : i + n <= j => sum[i + n] = Edge(ns, i + n) - Edge(ns, i)}
<1>8. 0 \in S
  <2>1. sum[i] = 0 /\ i + 0 = i /\ Edge(ns, i) \in Nat
    BY <1>1, <1>2, <1>7
  <2> QED
    BY <2>1
<1>9. ASSUME NEW n \in S
      PROVE  n + 1 \in S
  <2>1. SUFFICES ASSUME i + (n + 1) <= j
                 PROVE  sum[i + (n + 1)] = Edge(ns, i + (n + 1)) - Edge(ns, i)
    OBVIOUS
  <2>2. PICK k : k = i + n
    OBVIOUS
  <2>3. k \in i .. j /\ k + 1 \in i .. j /\ k + 1 # i /\ (k + 1) - 1 = k /\ i + (n + 1) = k + 1
    BY <1>1, <2>1, <2>2
  <2>4. sum[k] = Edge(ns, k) - Edge(ns, i)
    BY <2>2, <2>3
  <2>5. sum[k + 1] = sum[k] + ns[k].len
    BY <1>7, <2>3
  <2>6. Edge(ns, k + 1) = Edge(ns, k) + ns[k].len /\ ns[k].len \in Nat
    BY <1>3, <2>3
  <2>7. Edge(ns, k) \in Nat /\ Edge(ns, i) \in Nat
    BY <1>1, <1>2, <2>3
  <2>8. sum[k + 1] = Edge(ns, k + 1) - Edge(ns, i)
    BY <2>4, <2>5, <2>6, <2>7
  <2> QED
    BY <2>3, <2>8
<1>10. S \in SUBSET Nat
  OBVIOUS
<1> HIDE DEF S
<1>11. S = Nat
  BY <1>8, <1>9, <1>10, Induction
<1>12. PICK n \in Nat : n = j - i /\ i + n = j
  BY <1>1
<1>13. n \in S
  BY <1>11
<1>14. sum[i + n] = Edge(ns, i + n) - Edge(ns, i)
  BY <1>1, <1>12, <1>13 DEF S
<1> QED
  BY <1>6, <1>12, <1>14

LEMMA EdgesRise ==
  ASSUME NEW ns, Pieces(ns), NEW i \in 1 .. Len(ns) + 1, NEW j \in i .. Len(ns) + 1
  PROVE  Edge(ns, i) <= Edge(ns, j)
<1>1. Len(ns) \in Nat /\ i \in Nat /\ j \in Nat /\ i <= j
  BY EdgeFacts
<1>2. \A k \in 1 .. Len(ns) + 1 : Edge(ns, k) \in Nat
  BY EdgeFacts, Constants
<1> DEFINE S == {n \in Nat : i + n <= Len(ns) + 1 => Edge(ns, i) <= Edge(ns, i + n)}
<1>3. 0 \in S
  BY <1>1, <1>2
<1>4. ASSUME NEW n \in S
      PROVE  n + 1 \in S
  <2>1. SUFFICES ASSUME i + (n + 1) <= Len(ns) + 1
                 PROVE  Edge(ns, i) <= Edge(ns, i + (n + 1))
    OBVIOUS
  <2>2. PICK k : k = i + n
    OBVIOUS
  <2>3. k \in 1 .. Len(ns) /\ k \in 1 .. Len(ns) + 1 /\ k + 1 \in 1 .. Len(ns) + 1 /\ i + (n + 1) = k + 1
    BY <1>1, <2>1, <2>2
  <2>4. Edge(ns, i) <= Edge(ns, k)
    BY <2>2, <2>3
  <2>5. Edge(ns, k) = ns[k].at /\ Edge(ns, k + 1) = ns[k].at + ns[k].len /\ ns[k].len \in Nat
    <3>1. ns[k].len \in Nat
      BY <2>3, NodeFields, Constants DEF Pieces
    <3> QED
      BY <2>3, <3>1, EdgeFacts
  <2>6. Edge(ns, i) \in Nat /\ Edge(ns, k) \in Nat /\ Edge(ns, k + 1) \in Nat
    BY <1>2, <2>3
  <2>7. Edge(ns, k) <= Edge(ns, k + 1)
    BY <2>5, <2>6
  <2>8. Edge(ns, i) <= Edge(ns, k + 1)
    <3> HIDE DEF S
    <3> QED
      BY <2>4, <2>6, <2>7
  <2>9. i + (n + 1) = k + 1
    BY <2>3
  <2> QED
    BY <2>8, <2>9, Zenon
<1>5. S \in SUBSET Nat
  OBVIOUS
<1> HIDE DEF S
<1>6. S = Nat
  BY <1>3, <1>4, <1>5, Induction
<1>7. PICK n \in Nat : n = j - i /\ i + n = j
  BY <1>1
<1>8. n \in S
  BY <1>6
<1>9. i + n <= Len(ns) + 1 => Edge(ns, i) <= Edge(ns, i + n)
  BY <1>8 DEF S
<1> QED
  BY <1>1, <1>7, <1>9

(* Some node contains the beginning of the match, and some one is the last that *)
(* the match affects.                                                           *)
LEMMA ContainingThere ==
  ASSUME NEW ns, Pieces(ns), NEW i \in 1 .. Len(ns), NEW from \in Edge(ns, i) .. (N - 1)
  PROVE  \E m \in i .. Len(ns) : from < Edge(ns, m + 1) /\ (m = i \/ from >= Edge(ns, m))
<1>1. Len(ns) \in Nat /\ i \in Nat /\ i <= Len(ns) /\ Edge(ns, Len(ns) + 1) = N
  BY EdgeFacts
<1>2. \A k \in 1 .. Len(ns) + 1 : Edge(ns, k) \in Nat
  BY EdgeFacts, Constants
<1>3. from \in Nat /\ from < N /\ N \in Nat
  BY <1>1, <1>2, Constants
<1> DEFINE S == {m \in i .. Len(ns) : from < Edge(ns, m + 1)}
<1>4. S \in SUBSET Nat /\ Len(ns) \in S
  BY <1>1, <1>3
<1>5. PICK m \in S : \A k \in S : m <= k
  <2> HIDE DEF S
  <2> QED
    BY <1>4, Least
<1>6. m = i \/ from >= Edge(ns, m)
  <2>1. SUFFICES ASSUME m # i
                 PROVE  from >= Edge(ns, m)
    OBVIOUS
  <2>2. m - 1 \in i .. Len(ns) /\ (m - 1) + 1 = m /\ ~(m <= m - 1) /\ m \in 1 .. Len(ns) + 1
    BY <1>1, <2>1
  <2>3. m - 1 \notin S
    BY <1>5, <2>2
  <2>4. ~(from < Edge(ns, m))
    BY <2>2, <2>3
  <2> QED
    BY <1>2, <1>3, <2>2, <2>4
<1> QED
  BY <1>6

LEMMA AffectedThere ==
  ASSUME NEW ns, Pieces(ns), NEW i \in 1 .. Len(ns), NEW Stop, Stop \subseteq Nat
  PROVE  \E m \in i .. Len(ns) : /\ m = Len(ns) \/ m + 1 \in Stop
                                 /\ \A k \in (i + 1) .. m : k \notin Stop
<1>1. Len(ns) \in Nat /\ i \in Nat /\ i <= Len(ns)
  BY EdgeFacts
<1> DEFINE S == {m \in i .. Len(ns) : m = Len(ns) \/ m + 1 \in Stop}
<1>2. S \in SUBSET Nat /\ Len(ns) \in S
  BY <1>1
<1>3. PICK m \in S : \A k \in S : m <= k
  <2> HIDE DEF S
  <2> QED
    BY <1>2, Least
<1>4. ASSUME NEW k \in (i + 1) .. m
      PROVE  k \notin Stop
  <2>1. k - 1 \in i .. Len(ns) /\ (k - 1) + 1 = k /\ ~(m <= k - 1)
    BY <1>1
  <2>2. k - 1 \notin S
    BY <1>3, <2>1
  <2> QED
    BY <2>1, <2>2
<1> QED
  BY <1>4

-------------------------------------------------------------------------------
(* `new' finds an address that nothing uses.                                    *)
LEMMA Fresh ==
  ASSUME NEW ns \in Seq(Node), Len(ns) <= N, NEW P, P \subseteq Addressed(ns) \cup {head}, NEW a, NEW b
  PROVE  \E c \in Addresses : c \notin Addressed(ns) \cup P \cup {a, b}
<1> DEFINE D == 1 .. Len(ns)
           A == {ns[i].id : i \in D}
           f == [i \in D |-> ns[i].id]
<1>1. Len(ns) \in Nat /\ DOMAIN ns = D /\ N \in Nat
  BY LenProperties, Constants
<1>2. Addressed(ns) = A
  BY <1>1 DEF Addressed
<1>3. IsFiniteSet(D) /\ Cardinality(D) = Len(ns)
  <2>1. PICK n \in Nat : n = Len(ns)
    BY <1>1
  <2>2. /\ IsFiniteSet(1 .. n)
        /\ Cardinality(1 .. n) = IF 1 > n THEN 0 ELSE n - 1 + 1
    BY FS_Interval
  <2>3. Cardinality(1 .. n) = n
    BY <2>2
  <2> QED
    BY <2>1, <2>2, <2>3
<1>4. f \in Surjection(D, A)
  BY DEF Surjection
<1> HIDE DEF f, D, A
<1>5. IsFiniteSet(A) /\ Cardinality(A) <= Cardinality(D)
  BY <1>3, <1>4, FS_Surjection
<1>6. Cardinality(A) \in Nat
  BY <1>5, FS_CardinalityType
<1> DEFINE A1 == A \cup {a}
           A2 == A1 \cup {b}
<1>7. IsFiniteSet(A1) /\ Cardinality(A1) <= Cardinality(A) + 1 /\ Cardinality(A1) \in Nat
  <2>1. /\ IsFiniteSet(A1)
        /\ Cardinality(A1) = IF a \in A THEN Cardinality(A) ELSE Cardinality(A) + 1
    BY <1>5, FS_AddElement, Zenon
  <2> QED
    BY <1>6, <2>1
<1> HIDE DEF A1
<1>8. IsFiniteSet(A2) /\ Cardinality(A2) <= Cardinality(A1) + 1 /\ Cardinality(A2) \in Nat
  <2>1. /\ IsFiniteSet(A2)
        /\ Cardinality(A2) = IF b \in A1 THEN Cardinality(A1) ELSE Cardinality(A1) + 1
    BY <1>7, FS_AddElement, Zenon
  <2> QED
    BY <1>7, <2>1
<1> HIDE DEF A2
<1>9. PICK top0 : top0 = N + 3 + 2 * (Len(Greedy) + 1)
  OBVIOUS
<1>10. top0 \in Nat /\ top0 > N + 2 /\ Addresses = 1 .. top0
  BY <1>1, <1>9, Constants DEF Addresses
<1>11. IsFiniteSet(1 .. top0) /\ Cardinality(1 .. top0) = top0
  BY <1>10, FS_Interval
<1>12. ~(Addresses \subseteq A2)
  <2>1. SUFFICES ASSUME Addresses \subseteq A2
                 PROVE  FALSE
    OBVIOUS
  <2>2. Cardinality(Addresses) <= Cardinality(A2)
    BY <1>8, <2>1, FS_Subset
  <2> QED
    BY <1>1, <1>3, <1>5, <1>6, <1>7, <1>8, <1>10, <1>11, <2>2
<1>13. PICK c \in Addresses : c \notin A2
  BY <1>12
<1>14. c # head
  BY Constants DEF head
<1> QED
  BY <1>2, <1>13, <1>14 DEF A1, A2

LEMMA NewFacts ==
  ASSUME HInv, list.length <= N
  PROVE  /\ newBefore \in Addresses /\ newToken \in Addresses /\ newRest \in Addresses
         /\ {newBefore, newToken, newRest} \cap Addressed(list.nodes) = {}
         /\ newBefore # newToken /\ newBefore # newRest /\ newToken # newRest
<1>1. PICK ns, cs, P, A : ns = list.nodes /\ cs = stack /\ P = Pointers /\ A = Addressed(list.nodes)
  OBVIOUS
<1>2. ns \in Seq(Node) /\ Len(ns) <= N /\ A = Addressed(ns)
  BY <1>1 DEF HInv, Pieces
<1>3. P \subseteq A \cup {head}
  <2>1. \A d \in 1 .. Len(cs) : cs[d].startNode \in A \cup {head} /\ cs[d].currentNode \in A \cup {head}
    BY <1>1, <1>2 DEF HInv, Calls, Stands, Starts, At
  <2>2. DOMAIN cs = 1 .. Len(cs)
    BY <1>1, LenProperties DEF HInv, Calls
  <2>3. P = UNION {{cs[d].startNode, cs[d].currentNode} : d \in DOMAIN cs}
    BY <1>1 DEF Pointers
  <2> QED
    BY <2>1, <2>2, <2>3
<1>4. ASSUME NEW a, NEW b
      PROVE  \E c \in Addresses : c \notin A \cup P \cup {a, b}
  BY <1>2, <1>3, Fresh
<1>5. ASSUME NEW taken, NEW a, NEW b, taken \subseteq {a, b}
      PROVE  New(taken) \in Addresses /\ New(taken) \notin A /\ New(taken) \notin taken
  <2>1. \E c : c \in Addresses \ (A \cup P \cup taken)
    BY <1>4, <1>5
  <2>2. New(taken) \in Addresses \ (A \cup P \cup taken)
    BY <1>1, <2>1, Zenon DEF New
  <2> QED
    BY <2>2
<1>6. PICK x, y, z : x = newBefore /\ y = newToken /\ z = newRest
  OBVIOUS
<1>7. x \in Addresses /\ x \notin A
  <2>1. New({}) \in Addresses /\ New({}) \notin A
    BY <1>5
  <2> QED
    BY <1>6, <2>1 DEF newBefore
<1>8. y \in Addresses /\ y \notin A /\ y # x
  <2>1. New({x}) \in Addresses /\ New({x}) \notin A /\ New({x}) \notin {x}
    BY <1>5
  <2> QED
    BY <1>6, <2>1 DEF newToken
<1>9. z \in Addresses /\ z \notin A /\ z # x /\ z # y
  <2>1. New({x, y}) \in Addresses /\ New({x, y}) \notin A /\ New({x, y}) \notin {x, y}
    BY <1>5
  <2> QED
    BY <1>6, <2>1 DEF newRest
<1> QED
  BY <1>1, <1>6, <1>7, <1>8, <1>9

-------------------------------------------------------------------------------
(* The steps.  Those that leave the list alone come first.                      *)
LEMMA RunningFacts ==
  ASSUME HInv, stack # <<>>
  PROVE  /\ stack \in Seq(CallRec) /\ Len(stack) \in Nat \ {0} /\ Len(stack) \in 1 .. Len(stack)
         /\ top = stack[Len(stack)] /\ top \in CallRec /\ Stands(list.nodes, top)
         /\ Before(list.nodes, top) < Place(list.nodes, top)
         /\ top.cause # NoRematch => top.pattern <= top.cause
         /\ top.pattern \in Nat \ {0} /\ top.cause \in Nat
         /\ list.nodes \in Seq(Node) /\ Distinct(list.nodes)
<1>1. stack \in Seq(CallRec)
  BY DEF HInv, Calls
<1>2. Len(stack) \in Nat \ {0} /\ Len(stack) \in 1 .. Len(stack)
  BY <1>1, LenProperties, EmptySeq
<1>3. top = stack[Len(stack)]
  BY DEF top, Last
<1>4. top \in CallRec /\ top.pattern \in Nat \ {0} /\ top.cause \in Nat
  BY <1>1, <1>2, <1>3, Typed
<1>5. /\ Stands(list.nodes, top)
      /\ Before(list.nodes, top) < Place(list.nodes, top)
  BY <1>2, <1>3 DEF HInv, Calls
<1>6. top.cause # NoRematch => top.pattern <= top.cause
  BY <1>2, <1>3 DEF HInv, Causes
<1> QED
  BY <1>1, <1>2, <1>3, <1>4, <1>5, <1>6 DEF HInv, Pieces

LEMMA TopStep ==
  ASSUME HInv, stack # <<>>, list' = list, NEW g \in CallRec, At(list.nodes, g), Moves(top, g),
         Before(list.nodes, top) < Place(list.nodes, g),
         g.cause # NoRematch => g.pattern <= g.cause, OnTop(g)
  PROVE  HInv'
<1>1. PICK ns, cs, f, ds : ns = list.nodes /\ cs = stack /\ f = top /\ ds = stack'
  OBVIOUS
<1>2. Pieces(ns) /\ Calls(ns, cs) /\ Causes(cs) /\ Len(cs) > 0 /\ f = cs[Len(cs)]
  BY <1>1, RunningFacts DEF HInv
<1>3. TopIs(ds, cs, g)
  BY <1>1 DEF OnTop, Under, TopIs
<1>4. At(ns, g) /\ Moves(f, g) /\ Before(ns, f) < Place(ns, g)
  BY <1>1
<1>5. Calls(ns, ds) /\ Causes(ds)
  BY <1>2, <1>3, <1>4, TopSteps
<1> QED
  BY <1>1, <1>5 DEF HInv

LEMMA NextPatternStep ==
  ASSUME HInv, Running, list' = list, NextPattern
  PROVE  HInv'
<1>1. stack # <<>> /\ top.pattern <= Len(Greedy) /\ top.pattern # top.cause
  BY RunningFacts, Constants DEF Running, Finished
<1>2. PICK ns, f : ns = list.nodes /\ f = top
  OBVIOUS
<1>3. /\ Pieces(ns) /\ f \in CallRec /\ Stands(ns, f) /\ f.pattern <= Len(Greedy)
      /\ f.pattern \in Nat \ {0} /\ f.cause \in Nat /\ f.pattern # f.cause
      /\ f.cause # NoRematch => f.pattern <= f.cause
  BY <1>1, <1>2, RunningFacts DEF HInv
<1>4. PICK g : g = [f EXCEPT !.pattern = f.pattern + 1, !.pos = f.startPos,
                             !.currentNode = Following(ns, f.startNode)]
  OBVIOUS
<1>5. /\ g \in CallRec /\ At(ns, g) /\ Place(ns, g) = Before(ns, f) + 1
      /\ Moves(f, g) /\ g.pattern = f.pattern + 1
  BY <1>3, <1>4, Restarted
<1>6. g.cause # NoRematch => g.pattern <= g.cause
  BY <1>3, <1>5 DEF Moves
<1>7. Before(ns, f) < Place(ns, g)
  BY <1>3, <1>5, Standing, EdgeFacts
<1>8. OnTop(g)
  BY <1>2, <1>4 DEF NextPattern
<1> QED
  BY <1>1, <1>2, <1>5, <1>6, <1>7, <1>8, TopStep

LEMMA AdvanceStep ==
  ASSUME HInv, stack # <<>>, list' = list, NEW f \in CallRec, At(list.nodes, f), f.currentNode # head,
         Place(list.nodes, f) >= Place(list.nodes, top), Moves(top, f), f.pattern = top.pattern,
         OnTop(Advance(f))
  PROVE  HInv'
<1>1. PICK ns, t : ns = list.nodes /\ t = top
  OBVIOUS
<1>2. PICK g : g = Advance(f)
  OBVIOUS
<1>3. GoesOn(ns, f, g)
  BY <1>1, <1>2 DEF GoesOn, Advance, NodeOf, IndexOf, IndexIn
<1>4. Pieces(ns) /\ At(ns, f) /\ Place(ns, f) >= Place(ns, t) /\ Moves(t, f) /\ f.pattern = t.pattern
  BY <1>1 DEF HInv
<1>5. /\ g \in CallRec /\ At(ns, g) /\ Place(ns, g) = Place(ns, f) + 1
      /\ Moves(f, g) /\ g.pattern = f.pattern
  BY <1>3, <1>4, Advanced
<1>6. Moves(t, g) /\ g.pattern = t.pattern
  BY <1>4, <1>5 DEF Moves
<1>7. /\ Stands(ns, t) /\ Before(ns, t) < Place(ns, t)
      /\ t.cause # NoRematch => t.pattern <= t.cause
  BY <1>1, RunningFacts
<1>8. Before(ns, t) \in Nat /\ Place(ns, t) \in Nat /\ Len(ns) \in Nat
  BY <1>4, <1>7, Standing, EdgeFacts
<1>9. Place(ns, f) \in Nat
  <2>1. f.currentNode \in Addressed(ns) /\ ns \in Seq(Node) /\ Distinct(ns)
    BY <1>4 DEF At, Pieces
  <2> QED
    BY <2>1, <1>8, IndexFacts DEF Place
<1>10. Before(ns, t) < Place(ns, g)
  BY <1>4, <1>5, <1>7, <1>8, <1>9
<1>11. g.cause # NoRematch => g.pattern <= g.cause
  BY <1>6, <1>7 DEF Moves
<1>12. OnTop(g)
  BY <1>2
<1> QED
  BY <1>1, <1>5, <1>6, <1>10, <1>11, <1>12, TopStep

LEMMA ReturnStep ==
  ASSUME HInv, stack # <<>>, list' = list, Return
  PROVE  HInv'
<1>1. PICK ns, cs, ds : ns = list.nodes /\ cs = stack /\ ds = stack'
  OBVIOUS
<1>2. /\ Pieces(ns) /\ Calls(ns, cs) /\ Causes(cs) /\ cs \in Seq(CallRec)
      /\ Len(cs) \in Nat \ {0} /\ top = cs[Len(cs)]
  BY <1>1, RunningFacts DEF HInv
<1>3. PICK q : q = Front(cs)
  OBVIOUS
<1>4. q \in Seq(CallRec) /\ Len(q) = Len(cs) - 1 /\ Under = q
  BY <1>1, <1>2, <1>3, Fronts DEF Under
<1>5. CASE q = <<>>
  <2>1. ds = <<>>
    BY <1>1, <1>4, <1>5 DEF Return
  <2>2. Len(ds) = 0 /\ ds \in Seq(CallRec)
    BY <2>1, EmptySeq
  <2>3. Calls(ns, ds) /\ Causes(ds)
    BY <2>2 DEF Calls, Causes
  <2> QED
    BY <1>1, <2>3 DEF HInv
<1>6. CASE q # <<>>
  <2>1. Len(cs) > 1
    BY <1>2, <1>4, <1>6, EmptySeq
  <2>2. PICK e : e = Extended(Last(Front(cs)), cs[Len(cs)].reach)
    OBVIOUS
  <2>3. PICK g : g = Resumed(Last(q))
    OBVIOUS
  <2>4. GoesOn(ns, e, g)
    BY <1>1, <1>2, <1>3, <2>2, <2>3 DEF Resumed, Advance, NodeOf, IndexOf, IndexIn, GoesOn
  <2>5. TopIs(ds, q, g)
    BY <1>1, <1>4, <1>6, <2>3 DEF Return, TopIs
  <2>6. TopIs(ds, Front(cs), g)
    BY <1>3, <2>5
  <2>7. Calls(ns, ds) /\ Causes(ds)
    BY <1>2, <2>1, <2>2, <2>4, <2>6, Returned
  <2> QED
    BY <1>1, <2>7 DEF HInv
<1> QED
  BY <1>5, <1>6

LEMMA TwoMore ==
  ASSUME NEW S, NEW q \in Seq(S), NEW a \in S, NEW c \in S
  PROVE  q \o <<a, c>> = Append(Append(q, a), c)
<1> DEFINE p == <<a, c>>
           u == q \o p
           v == Append(q, a)
           w == Append(v, c)
<1>1. p \in Seq(S) /\ Len(p) = 2 /\ p[1] = a /\ p[2] = c
  OBVIOUS
<1> HIDE DEF p
<1>2. /\ u \in Seq(S) /\ Len(u) = Len(q) + Len(p)
      /\ \A j \in 1 .. Len(q) + Len(p) : u[j] = IF j <= Len(q) THEN q[j] ELSE p[j - Len(q)]
  BY <1>1, ConcatProperties
<1>3. /\ v \in Seq(S) /\ Len(v) = Len(q) + 1
      /\ \A j \in 1 .. Len(q) : v[j] = q[j]
      /\ v[Len(q) + 1] = a
  BY AppendProperties
<1> HIDE DEF u, v
<1>4. /\ w \in Seq(S) /\ Len(w) = Len(v) + 1
      /\ \A j \in 1 .. Len(v) : w[j] = v[j]
      /\ w[Len(v) + 1] = c
  BY <1>3, AppendProperties
<1> HIDE DEF w
<1>5. PICK n \in Nat : n = Len(q)
  BY LenProperties
<1>6. Len(u) = n + 2 /\ Len(w) = n + 2
  BY <1>1, <1>2, <1>3, <1>4, <1>5
<1>7. ASSUME NEW j \in 1 .. n + 2
      PROVE  u[j] = w[j]
  <2>1. u[j] = IF j <= n THEN q[j] ELSE p[j - n]
    BY <1>1, <1>2, <1>5
  <2>2. CASE j \in 1 .. n
    BY <1>3, <1>4, <1>5, <2>1, <2>2
  <2>3. CASE j = n + 1
    <3>1. j - n = 1 /\ ~(j <= n) /\ j \in 1 .. n + 1
      BY <2>3
    <3> QED
      BY <1>1, <1>3, <1>4, <1>5, <2>1, <2>3, <3>1
  <2>4. CASE j = n + 2
    <3>1. j - n = 2 /\ ~(j <= n) /\ (n + 1) + 1 = j
      BY <2>4
    <3>2. w[j] = c
      BY <1>3, <1>4, <1>5, <3>1
    <3> QED
      BY <1>1, <2>1, <3>1, <3>2
  <2> QED
    BY <2>2, <2>3, <2>4
<1>8. u = w
  BY <1>2, <1>4, <1>6, <1>7, SeqEqual
<1> QED
  BY <1>8 DEF u, v, w, p

LEMMA GoesOnBehind ==
  ASSUME NEW ns, NEW ms, NEW i, NEW last, NEW from, NEW to,
         NEW b, NEW c1, NEW t, NEW c2, NEW r, Pieces(ns),
         Fits(ns, i, last, from, to, b, c1, t, c2, r), IsCut(ns, ms, i, last, b, c1, t, c2, r),
         NEW cs, Calls(ns, cs), Causes(cs), Len(cs) > 0,
         NEW f, IsTop(f, cs), Place(ns, f) <= i,
         NEW g \in CallRec, Moves(f, g), g.pattern = f.pattern,
         g.pos = to, g.currentNode = Following(ms, t.id),
         NEW ds, TopIs(ds, cs, g)
  PROVE  Calls(ms, ds) /\ Causes(ds)
<1>1. /\ Pieces(ms) /\ SameBelow(ns, ms, i) /\ i + c1 \in 1 .. Len(ms) /\ i \in Nat /\ c1 \in Nat
      /\ t.id \in Addressed(ms) /\ t.id # head /\ IndexIn(ms, t.id) = i + c1
      /\ Edge(ms, i + c1 + 1) = to
  BY TokenThere
<1>2. PICK x, id : x = i + c1 /\ id = t.id
  OBVIOUS
<1>3. g.currentNode = Following(ms, id) /\ id \in Addressed(ms) \cup {head}
  BY <1>1, <1>2
<1>4. x = IF id = head THEN 0 ELSE IndexIn(ms, id)
  BY <1>1, <1>2
<1>5. g.pos = Edge(ms, x + 1)
  BY <1>1, <1>2
<1>6. At(ms, g) /\ Place(ms, g) = x + 1
  BY <1>1, <1>3, <1>4, <1>5, AtFollowing, Zenon
<1>7. Place(ms, g) >= i
  BY <1>1, <1>2, <1>6
<1>8. i \in 1 .. Len(ns) /\ ~ns[i].isSyntax
  BY DEF Fits
<1> QED
  BY <1>1, <1>6, <1>7, <1>8, Matched, Zenon

LEMMA WaitsThere ==
  ASSUME NEW ns, NEW ms, NEW i, NEW last, NEW from, NEW to,
         NEW b, NEW c1, NEW t, NEW c2, NEW r, Pieces(ns),
         Fits(ns, i, last, from, to, b, c1, t, c2, r), IsCut(ns, ms, i, last, b, c1, t, c2, r),
         NEW cs, Calls(ns, cs), Causes(cs), Len(cs) > 0,
         NEW f, IsTop(f, cs), Place(ns, f) <= i,
         NEW g \in CallRec, Moves(f, g), g.pattern = f.pattern,
         g.pos = from, g.currentNode = t.id,
         NEW ds, TopIs(ds, cs, g)
  PROVE  /\ Calls(ms, ds) /\ Causes(ds) /\ Len(ds) = Len(cs) /\ ds[Len(cs)] = g
         /\ At(ms, g) /\ Place(ms, g) = i + c1
<1>1. /\ Pieces(ms) /\ SameBelow(ns, ms, i) /\ i + c1 \in 1 .. Len(ms) /\ i \in Nat /\ c1 \in Nat
      /\ ms[i + c1] = t /\ t.isSyntax
      /\ t.id \in Addressed(ms) /\ t.id # head /\ t.id \in Addresses /\ IndexIn(ms, t.id) = i + c1
      /\ Edge(ms, i + c1) = from
  BY TokenThere
<1>2. PICK x, id : x = i + c1 /\ id = t.id
  OBVIOUS
<1>3. /\ x \in 1 .. Len(ms) /\ ms[x].isSyntax /\ id \in Addressed(ms) /\ id # head
      /\ id \in Addresses /\ IndexIn(ms, id) = x /\ Edge(ms, x) = from
  BY <1>1, <1>2
<1>4. g.pos = from /\ g.currentNode = id
  BY <1>2
<1>5. At(ms, g) /\ Place(ms, g) = x
  <2>1. Edge(ms, x) = ms[x].at
    BY <1>1, <1>3, EdgeFacts
  <2> QED
    BY <1>3, <1>4, <2>1 DEF At, Place
<1>6. Place(ms, g) >= i
  BY <1>1, <1>2, <1>5
<1>7. i \in 1 .. Len(ns) /\ ~ns[i].isSyntax
  BY DEF Fits
<1>8. Calls(ms, ds) /\ Causes(ds)
  BY <1>1, <1>5, <1>6, <1>7, Matched, Zenon
<1>9. Len(ds) = Len(cs) /\ ds[Len(cs)] = g
  <2>1. cs \in Seq(CallRec)
    BY DEF Calls
  <2> QED
    BY <2>1, Stacked DEF TopIs
<1> QED
  BY <1>2, <1>5, <1>8, <1>9

LEMMA WaitsAt ==
  ASSUME NEW ns, NEW ms, NEW i, NEW last, NEW from, NEW to,
         NEW b, NEW c1, NEW t, NEW c2, NEW r, Pieces(ns),
         Fits(ns, i, last, from, to, b, c1, t, c2, r), IsCut(ns, ms, i, last, b, c1, t, c2, r),
         NEW cs, Calls(ns, cs), Causes(cs), Len(cs) > 0,
         NEW f, IsTop(f, cs), Place(ns, f) <= i,
         f.pattern <= Len(Greedy), f.pattern # f.cause, Greedy[f.pattern],
         NEW g \in CallRec, Moves(f, g), g.pattern = f.pattern,
         g.pos = from, g.currentNode = t.id,
         NEW c \in CallRec, c.cause = f.pattern, c.pattern = 1,
         c.startNode = IF i + c1 = 1 THEN head ELSE ms[i + c1 - 1].id,
         c.startPos = from, c.currentNode = t.id, c.pos = from,
         NEW ds, TopIs(ds, cs, g)
  PROVE  Calls(ms, Append(ds, c)) /\ Causes(Append(ds, c))
<1>1. /\ Pieces(ms) /\ SameBelow(ns, ms, i) /\ i + c1 \in 1 .. Len(ms) /\ i \in Nat /\ c1 \in Nat
      /\ ms[i + c1] = t /\ t.isSyntax
      /\ t.id \in Addressed(ms) /\ t.id # head /\ t.id \in Addresses /\ IndexIn(ms, t.id) = i + c1
      /\ Edge(ms, i + c1) = from
  BY TokenThere
<1>2. PICK x, id : x = i + c1 /\ id = t.id
  OBVIOUS
<1>3. /\ x \in 1 .. Len(ms) /\ ms[x].isSyntax /\ id \in Addressed(ms) /\ id # head
      /\ id \in Addresses /\ IndexIn(ms, id) = x /\ Edge(ms, x) = from
  BY <1>1, <1>2
<1>4. g.pos = from /\ g.currentNode = id /\ c.currentNode = id
  BY <1>2
<1>8. /\ Calls(ms, ds) /\ Causes(ds) /\ Len(ds) = Len(cs) /\ ds[Len(cs)] = g
      /\ At(ms, g) /\ Place(ms, g) = i + c1
  BY WaitsThere
<1>9. Len(ms) \in Nat \ {0} /\ ms \in Seq(Node) /\ Distinct(ms)
  BY <1>1, EdgeFacts DEF Pieces
<1>10. Starts(ms, c) /\ Before(ms, c) = x - 1
  <2>1. c.startNode = IF x = 1 THEN head ELSE ms[x - 1].id
    <3>1. i + c1 - 1 = x - 1 /\ (i + c1 = 1 <=> x = 1)
      BY <1>1, <1>2
    <3> QED
      BY <3>1
  <2>2. CASE x = 1
    <3>1. c.startNode = head /\ from = 0
      BY <1>1, <1>3, <2>1, <2>2, EdgeFacts
    <3> QED
      BY <2>2, <3>1 DEF Starts, Before
  <2>3. CASE x # 1
    <3>1. PICK p : p = x - 1
      OBVIOUS
    <3>2. p \in 1 .. Len(ms) /\ p + 1 = x
      BY <1>3, <1>9, <2>3, <3>1
    <3>3. c.startNode = ms[p].id
      BY <2>1, <2>3, <3>1
    <3>4. /\ c.startNode # head /\ c.startNode \in Addressed(ms) /\ IndexIn(ms, c.startNode) = p
      BY <1>9, <3>2, <3>3, NodeFields, IndexFacts
    <3>5. Edge(ms, p + 1) = ms[p].at + ms[p].len
      BY <1>1, <3>2, EdgeFacts
    <3>6. from = ms[p].at + ms[p].len
      BY <1>3, <3>2, <3>5
    <3> QED
      BY <3>1, <3>4, <3>6 DEF Starts, Before
  <2> QED
    BY <2>2, <2>3
<1>11. Calls(ms, Append(ds, c))
  <2>1. /\ Len(ds) > 0 /\ g = ds[Len(ds)] /\ g.currentNode # head /\ ms[Place(ms, g)].isSyntax
        /\ c.currentNode = g.currentNode /\ c.pos = g.pos /\ Starts(ms, c)
        /\ Before(ms, c) = Place(ms, g) - 1
    BY <1>2, <1>3, <1>4, <1>8, <1>10
  <2> QED
    BY <1>1, <1>8, <2>1, Pushed
<1>12. Causes(Append(ds, c))
  <2>1. ds \in Seq(CallRec) /\ Len(ds) > 0
    BY <1>8 DEF Calls
  <2>2. PICK p : p = f.pattern
    OBVIOUS
  <2>3. p = ds[Len(ds)].pattern /\ p <= Len(Greedy) /\ p # ds[Len(ds)].cause /\ Greedy[p]
    BY <1>8, <2>2 DEF Moves
  <2>4. c.cause = p /\ c.pattern = 1
    BY <2>2
  <2> QED
    BY <1>8, <2>1, <2>3, <2>4, CausesPushed
<1> QED
  BY <1>11, <1>12

-------------------------------------------------------------------------------
(* The steps that replace.  Where a match may be: it begins in the text i and   *)
(* ends with the node `last', behind which is a token or nothing.               *)
Spot(ns, i, last, pos, end, from, to) ==
    /\ i \in 1 .. Len(ns) /\ last \in i .. Len(ns)
    /\ pos = Edge(ns, i) /\ end = Edge(ns, last + 1)
    /\ ~ns[i].isSyntax /\ (last < Len(ns) => ns[last + 1].isSyntax)
    /\ from \in pos .. N /\ to \in from .. end

LEMMA SpotFacts ==
  ASSUME NEW ns, Pieces(ns), NEW i, NEW last, NEW pos, NEW end, NEW from, NEW to,
         Spot(ns, i, last, pos, end, from, to)
  PROVE  /\ Len(ns) \in Nat /\ i \in Nat \ {0} /\ last \in Nat /\ i <= last /\ last <= Len(ns)
         /\ pos \in 0 .. N /\ end \in 0 .. N /\ from \in 0 .. N /\ to \in 0 .. N /\ N \in Nat
         /\ pos <= from /\ from <= to /\ to <= end
<1>1. Len(ns) \in Nat
  BY EdgeFacts
<1>2. i \in Nat \ {0} /\ last \in Nat /\ i <= last /\ last <= Len(ns)
  BY <1>1 DEF Spot
<1>3. i \in 1 .. Len(ns) + 1 /\ last + 1 \in 1 .. Len(ns) + 1
  BY <1>1, <1>2
<1>4. pos \in 0 .. N /\ end \in 0 .. N /\ N \in Nat
  BY <1>3, EdgeFacts, Constants DEF Spot
<1>5. from \in pos .. N /\ to \in from .. end
  BY DEF Spot
<1> QED
  BY <1>1, <1>2, <1>4, <1>5

(* The list becomes the one described by IsCut.                                   *)
Unused(ns, x1, x2, x3) ==
    /\ x1 \in Addresses /\ x2 \in Addresses /\ x3 \in Addresses
    /\ {x1, x2, x3} \cap Addressed(ns) = {} /\ x1 # x2 /\ x1 # x3 /\ x2 # x3

ReplaceIsCut(l, i, last, pos, end, from, to, x1, x2, x3) ==
    LET k  == IF from > pos THEN i ELSE i - 1
        l1 == IF from > pos THEN addAfter(l, i - 1, Text(x1, pos, from - pos)) ELSE l
        l2 == removeRange(l1, k, last + 1 - i)
        l3 == addAfter(l2, k, Syntax(x2, from, to - from))
        l4 == addRest(l3, k + 1, Text(x3, to, end - to))
        c1 == IF from > pos THEN 1 ELSE 0
        c2 == IF end > to THEN 1 ELSE 0
        b  == Text(x1, pos, from - pos)
        t  == Syntax(x2, from, to - from)
        r  == Text(x3, to, end - to)
    IN  /\ Fits(l.nodes, i, last, from, to, b, c1, t, c2, r)
        /\ IsCut(l.nodes, l4.nodes, i, last, b, c1, t, c2, r)
        /\ Counted(l4)
        /\ k = i + c1 - 1 /\ (k > 0 => l3.nodes[k] = l4.nodes[k])

LEMMA ReplaceCuts ==
  ASSUME NEW l, Pieces(l.nodes), Counted(l), NEW i, NEW last, NEW pos, NEW end, NEW from, NEW to,
         Spot(l.nodes, i, last, pos, end, from, to),
         NEW x1, NEW x2, NEW x3, Unused(l.nodes, x1, x2, x3)
  PROVE  ReplaceIsCut(l, i, last, pos, end, from, to, x1, x2, x3)
<1> DEFINE k  == IF from > pos THEN i ELSE i - 1
           l1 == IF from > pos THEN addAfter(l, i - 1, Text(x1, pos, from - pos)) ELSE l
           l2 == removeRange(l1, k, last + 1 - i)
           l3 == addAfter(l2, k, Syntax(x2, from, to - from))
           l4 == addRest(l3, k + 1, Text(x3, to, end - to))
<1>0. /\ x1 \in Addresses /\ x2 \in Addresses /\ x3 \in Addresses
      /\ {x1, x2, x3} \cap Addressed(l.nodes) = {} /\ x1 # x2 /\ x1 # x3 /\ x2 # x3
  BY DEF Unused
<1>1. PICK ns : ns = l.nodes
  OBVIOUS
<1>2. PICK c1, c2 : c1 = (IF from > pos THEN 1 ELSE 0) /\ c2 = (IF end > to THEN 1 ELSE 0)
  OBVIOUS
<1>3. PICK b, t, r : /\ b = Text(x1, pos, from - pos) /\ t = Syntax(x2, from, to - from)
                     /\ r = Text(x3, to, end - to)
  OBVIOUS
<1>4. /\ Len(ns) \in Nat /\ i \in Nat \ {0} /\ last \in Nat /\ i <= last /\ last <= Len(ns)
      /\ pos \in 0 .. N /\ end \in 0 .. N /\ from \in 0 .. N /\ to \in 0 .. N /\ N \in Nat
      /\ pos <= from /\ from <= to /\ to <= end
  BY <1>1, SpotFacts
<1>5. /\ c1 \in {0, 1} /\ c2 \in {0, 1}
      /\ c1 = 1 <=> from > pos
      /\ c2 = 1 <=> end > to
  BY <1>2
<1>6. /\ b.id = x1 /\ b.at = pos /\ b.len = from - pos
      /\ t.id = x2 /\ t.at = from /\ t.len = to - from /\ t.isSyntax
      /\ r.id = x3 /\ r.at = to /\ r.len = end - to
  BY <1>3 DEF Text, Syntax
<1>7. b \in Node /\ t \in Node /\ r \in Node
  <2>1. from - pos \in 0 .. N /\ to - from \in 0 .. N /\ end - to \in 0 .. N
    BY <1>4
  <2> QED
    BY <1>0, <1>3, <1>4, <2>1 DEF Text, Syntax, Node
<1>8. Fits(ns, i, last, from, to, b, c1, t, c2, r)
  <2>1. Spot(ns, i, last, pos, end, from, to)
    BY <1>1
  <2>2. /\ x1 \notin Addressed(ns) /\ x2 \notin Addressed(ns) /\ x3 \notin Addressed(ns)
    BY <1>0, <1>1
  <2>3. /\ {b.id, t.id, r.id} \cap Addressed(ns) = {}
        /\ b.id # t.id /\ b.id # r.id /\ t.id # r.id
    BY <1>0, <1>6, <2>2
  <2>4. /\ i \in 1 .. Len(ns) /\ last \in i .. Len(ns)
        /\ pos = Edge(ns, i) /\ end = Edge(ns, last + 1)
        /\ ~ns[i].isSyntax /\ (last < Len(ns) => ns[last + 1].isSyntax)
        /\ from \in pos .. N /\ to \in from .. end
    BY <2>1 DEF Spot
  <2> QED
    BY <1>5, <1>6, <1>7, <2>3, <2>4 DEF Fits
<1>9. PICK taken : taken = last + 1 - i
  OBVIOUS
<1>10. /\ i \in 1 .. Len(ns) /\ taken \in 1 .. Len(ns) - i + 1 /\ i + taken - 1 = last
       /\ c2 = 1 <=> r.len > 0
  BY <1>4, <1>5, <1>6, <1>9
<1>11. Editable(l, i, taken, b, c1, t, c2, r)
  BY <1>1, <1>5, <1>7, <1>10 DEF Pieces, Editable
<1>12. i - 1 + c1 = k /\ k = i + c1 - 1
  BY <1>2, <1>4
<1>13. i - 1 + c1 > 0 => Edited(l, i, taken, b, c1, t).nodes[i - 1 + c1]
                             = Rested(l, i, taken, b, c1, t, r).nodes[i - 1 + c1]
  BY <1>11, ListReplaced
<1>14. /\ IsCut(l.nodes, Rested(l, i, taken, b, c1, t, r).nodes, i, i + taken - 1, b, c1, t, c2, r)
       /\ Counted(Rested(l, i, taken, b, c1, t, r))
  BY <1>11, ListReplaced
<1>15. Edited(l, i, taken, b, c1, t) = l3
  <2>1. (IF c1 = 1 THEN addAfter(l, i - 1, b) ELSE l) = l1
    BY <1>3, <1>5
  <2> HIDE DEF l1
  <2> QED
    BY <1>3, <1>9, <1>12, <2>1 DEF Edited
<1> HIDE DEF l1, l2, l3
<1>16. Rested(l, i, taken, b, c1, t, r) = l4
  BY <1>3, <1>12, <1>15 DEF Rested
<1> HIDE DEF l4, k
<1>17. /\ IsCut(l.nodes, l4.nodes, i, last, b, c1, t, c2, r)
       /\ Counted(l4)
       /\ k > 0 => l3.nodes[k] = l4.nodes[k]
  BY <1>10, <1>12, <1>13, <1>14, <1>15, <1>16
<1>18. Fits(l.nodes, i, last, from, to, b, c1, t, c2, r)
  BY <1>1, <1>8
<1> QED
  BY <1>2, <1>3, <1>12, <1>17, <1>18 DEF ReplaceIsCut, l1, l2, l3, l4, k


(* A pattern that matches keeps the invariant, and the list is cut as said.     *)
Spans(i, last, taken) == taken = last + 1 - i
Matches(ns, ms, i, last, from, to) ==
    \E b, c1, t, c2, r : /\ Fits(ns, i, last, from, to, b, c1, t, c2, r)
                         /\ IsCut(ns, ms, i, last, b, c1, t, c2, r)

LEMMA ReplaceStep ==
  ASSUME HInv, Running, list.length <= N,
         NEW i, NEW last, NEW pos, NEW end, NEW from, NEW to,
         Spot(list.nodes, i, last, pos, end, from, to),
         Place(list.nodes, top) <= i, last > i => Greedy[top.pattern],
         NEW taken, Spans(i, last, taken), Replace(i, pos, from, to, end, taken)
  PROVE  HInv' /\ Matches(list.nodes, list'.nodes, i, last, from, to)
<1> DEFINE ns == list.nodes
           k  == IF from > pos THEN i ELSE i - 1
           l1 == IF from > pos THEN addAfter(list, i - 1, Text(newBefore, pos, from - pos)) ELSE list
           l2 == removeRange(l1, k, last + 1 - i)
           l3 == addAfter(l2, k, Syntax(newToken, from, to - from))
           l4 == addRest(l3, k + 1, Text(newRest, to, end - to))
           e  == Extended(top, end)
           g  == [e EXCEPT !.pos = from, !.currentNode = newToken]
           first == IF k = 0 THEN head ELSE l3.nodes[k].id
           c  == Call(top.pattern, end, first, from, newToken)
           h  == [g EXCEPT !.pos = to, !.currentNode = Following(list'.nodes, newToken)]
<1>1. taken = last + 1 - i
  BY DEF Spans
<1>2. /\ list' = l4
      /\ taken > 1 => stack' = Under \o <<g, c>>
      /\ ~(taken > 1) => stack' = Append(Under, h)
  BY <1>1 DEF Replace, OnTop
<1>3. /\ Pieces(ns) /\ Counted(list) /\ Calls(ns, stack) /\ Causes(stack)
  BY DEF HInv, Counted
<1>4. stack # <<>> /\ top.pattern <= Len(Greedy) /\ top.pattern # top.cause
  <2>1. stack # <<>> /\ ~Finished(top)
    BY DEF Running
  <2>2. top.pattern \in Nat \ {0}
    BY <2>1, RunningFacts
  <2> QED
    BY <2>1, <2>2, Constants DEF Finished
<1>5. /\ stack \in Seq(CallRec) /\ Len(stack) \in Nat \ {0} /\ Len(stack) > 0
      /\ IsTop(top, stack) /\ top \in CallRec /\ top.pattern \in Nat \ {0}
  BY <1>4, RunningFacts DEF IsTop
<1>6. Unused(ns, newBefore, newToken, newRest) /\ newToken \in Addresses
  BY NewFacts DEF Unused
<1>7. PICK b, c1, t, c2, r :
        /\ t = Syntax(newToken, from, to - from)
        /\ Fits(ns, i, last, from, to, b, c1, t, c2, r)
        /\ IsCut(ns, l4.nodes, i, last, b, c1, t, c2, r)
        /\ Counted(l4)
        /\ k = i + c1 - 1 /\ (k > 0 => l3.nodes[k] = l4.nodes[k])
  <2> DEFINE d1 == IF from > pos THEN 1 ELSE 0
             d2 == IF end > to THEN 1 ELSE 0
             b  == Text(newBefore, pos, from - pos)
             t  == Syntax(newToken, from, to - from)
             r  == Text(newRest, to, end - to)
  <2>1. /\ Fits(ns, i, last, from, to, b, d1, t, d2, r)
        /\ IsCut(ns, l4.nodes, i, last, b, d1, t, d2, r)
        /\ Counted(l4)
        /\ k = i + d1 - 1 /\ (k > 0 => l3.nodes[k] = l4.nodes[k])
    <3>1. ReplaceIsCut(list, i, last, pos, end, from, to, newBefore, newToken, newRest)
      BY <1>3, <1>6, ReplaceCuts
    <3> QED
      BY <3>1, Zenon DEF ReplaceIsCut
  <2> HIDE DEF d1, d2, b, r, l1, l2, l3, l4, k
  <2> QED
    BY <2>1
<1> HIDE DEF l1, l2, l3, l4, k
<1>17. c1 \in {0, 1}
  BY <1>7 DEF Fits
<1>8. PICK ms : ms = list'.nodes
  OBVIOUS
<1>9. IsCut(ns, ms, i, last, b, c1, t, c2, r)
  BY <1>2, <1>7, <1>8
<1>10. Pieces(ms) /\ list'.length = Len(ms)
  BY <1>2, <1>3, <1>7, <1>8, <1>9, PiecesKept DEF Counted
<1>11. from \in 0 .. N /\ to \in 0 .. N /\ end \in 0 .. N /\ i \in Nat \ {0} /\ last \in Nat
  BY <1>3, SpotFacts
<1>12. t.id = newToken
  BY <1>7 DEF Syntax
<1>13. e \in CallRec /\ e.cause = top.cause /\ e.startNode = top.startNode
       /\ e.startPos = top.startPos /\ e.pattern = top.pattern
  BY <1>5, <1>11, ExtendedFacts
<1> HIDE DEF e
<1>16. Matches(ns, list'.nodes, i, last, from, to)
  BY <1>7, <1>8, <1>9 DEF Matches
<1>14. CASE taken > 1
  <2>1. g \in CallRec /\ Moves(top, g) /\ g.pattern = top.pattern /\ g.pos = from /\ g.currentNode = t.id
    BY <1>6, <1>11, <1>12, <1>13 DEF CallRec, Moves
  <2>2. k = 0 <=> i + c1 = 1
    BY <1>7, <1>11, <1>17
  <2>3. c.startNode = IF i + c1 = 1 THEN head ELSE ms[i + c1 - 1].id
    <3>1. c.startNode = first
      BY DEF Call
    <3>2. k \in Int /\ k >= 0 /\ k = i + c1 - 1
      BY <1>7, <1>11, <1>17
    <3>3. CASE k = 0
      BY <2>2, <3>1, <3>3
    <3>4. CASE k > 0
      <4>1. l3.nodes[k] = ms[k]
        BY <1>2, <1>7, <1>8, <3>4
      <4> QED
        BY <2>2, <3>1, <3>2, <3>4, <4>1
    <3> QED
      BY <3>2, <3>3, <3>4
  <2>4. /\ c.cause = top.pattern /\ c.pattern = 1 /\ c.startPos = from
        /\ c.currentNode = t.id /\ c.pos = from
    BY <1>12 DEF Call
  <2>5. c \in CallRec
    <3>1. ms \in Seq(Node) /\ first \in {head} \cup Addresses
      <4>1. ms \in Seq(Node)
        BY <1>10 DEF Pieces
      <4>2. c.startNode = first
        BY DEF Call
      <4>3. CASE i + c1 = 1
        <5> HIDE DEF c, first
        <5> QED
          BY <2>3, <4>1, <4>2, <4>3
      <4>4. CASE i + c1 # 1
        <5>1. i + c1 - 1 \in 1 .. Len(ms)
          <6>1. i + c1 \in 1 .. Len(ms) /\ Len(ms) \in Nat
            BY <1>3, <1>7, <1>9, <4>1, TokenThere, LenProperties
          <6> QED
            BY <1>11, <1>17, <4>4, <6>1
        <5>2. ms[i + c1 - 1].id \in Addresses
          BY <4>1, <5>1, NodeFields
        <5> QED
          <6> HIDE DEF c, first
          <6> QED
            BY <2>3, <4>1, <4>2, <4>4, <5>2
      <4> QED
        BY <4>3, <4>4
    <3>2. top.pattern \in Patterns
      BY <1>4, <1>5, Constants DEF Patterns
    <3>3. 1 \in 1 .. Len(Greedy) + 1
      BY Constants
    <3> HIDE DEF first
    <3> QED
      BY <1>6, <1>11, <3>1, <3>2, <3>3 DEF Call, CallRec
  <2>6. last > i
    BY <1>1, <1>11, <1>14
  <2> HIDE DEF g, c
  <2>7. PICK ds : ds = Append(Under, g)
    OBVIOUS
  <2>8. TopIs(ds, stack, g)
    BY <2>7 DEF TopIs, Under
  <2>9. Calls(ms, Append(ds, c)) /\ Causes(Append(ds, c))
    BY <1>3, <1>4, <1>5, <1>7, <1>9, <2>1, <2>3, <2>4, <2>5, <2>6, <2>8, WaitsAt
  <2>10. stack' = Append(ds, c)
    <3>1. Under \in Seq(CallRec)
      BY <1>5, Fronts DEF Under
    <3> QED
      BY <1>2, <1>14, <2>1, <2>5, <2>7, <3>1, TwoMore
  <2> QED
    BY <1>8, <1>10, <1>16, <2>9, <2>10 DEF HInv
<1>15. CASE ~(taken > 1)
  <2>1. h \in CallRec /\ Moves(top, h) /\ h.pattern = top.pattern /\ h.pos = to
        /\ h.currentNode = Following(ms, t.id)
    <3>1. ms \in Seq(Node) /\ Distinct(ms)
      BY <1>10 DEF Pieces
    <3>2. PICK n : n = Following(ms, t.id)
      OBVIOUS
    <3>3. n \in {head} \cup Addresses
      <4>1. t.id \in Addressed(ms) /\ t.id # head
        BY <1>3, <1>7, <1>9, TokenThere
      <4>2. PICK m \in 0 .. Len(ms) : Following(ms, t.id) = IF m + 1 <= Len(ms) THEN ms[m + 1].id ELSE head
        BY <3>1, <4>1, FollowingFacts
      <4>3. CASE m + 1 <= Len(ms)
        <5>1. m + 1 \in 1 .. Len(ms)
          BY <3>1, <4>3, LenProperties
        <5> QED
          BY <3>1, <3>2, <4>2, <4>3, <5>1, NodeFields
      <4> QED
        BY <3>2, <4>2, <4>3
    <3>4. h = [g EXCEPT !.pos = to, !.currentNode = n]
      BY <1>8, <1>12, <3>2
    <3> QED
      BY <1>6, <1>11, <1>13, <3>2, <3>3, <3>4 DEF CallRec, Moves
  <2> HIDE DEF h
  <2>2. TopIs(stack', stack, h)
    BY <1>2, <1>15 DEF TopIs, Under
  <2>3. Calls(ms, stack') /\ Causes(stack')
    BY <1>3, <1>5, <1>7, <1>9, <2>1, <2>2, GoesOnBehind
  <2> QED
    BY <1>8, <1>10, <1>16, <2>3 DEF HInv
<1> QED
  BY <1>14, <1>15


(* Where a running call that is at a text is.                                   *)
LEMMA TextFacts ==
  ASSUME HInv, InText
  PROVE  LET i == IndexOf(top.currentNode)
         IN  /\ Running /\ stack # <<>> /\ list.length <= N /\ top.currentNode # head
             /\ i \in 1 .. Len(list.nodes) /\ Place(list.nodes, top) = i
             /\ Here = list.nodes[i] /\ ~list.nodes[i].isSyntax
             /\ top.pos = Edge(list.nodes, i) /\ top.pos = list.nodes[i].at
             /\ Before(list.nodes, top) < i
<1> DEFINE ns == list.nodes
           i  == IndexOf(top.currentNode)
<1>1. /\ Running /\ stack # <<>> /\ list.length <= N /\ top.currentNode # head /\ ~Here.isSyntax
  BY DEF InText, InLoop, Running
<1>2. Stands(ns, top) /\ Before(ns, top) < Place(ns, top) /\ Pieces(ns)
  BY <1>1, RunningFacts DEF HInv
<1>3. i = Place(ns, top) /\ Here = ns[i]
  BY <1>1 DEF IndexOf, Here, NodeOf, Place, IndexIn
<1> HIDE DEF i
<1>4. /\ i \in 1 .. Len(ns) /\ top.pos = Edge(ns, i)
  BY <1>1, <1>2, <1>3, Standing
<1>5. Edge(ns, i) = ns[i].at
  BY <1>2, <1>4, EdgeFacts
<1> QED
  BY <1>1, <1>2, <1>3, <1>4, <1>5 DEF i

(* What a match does to the list: tokens make way only for one that begins      *)
(* before them and reaches into them.                                           *)
Yields(ns, ms, greedy) ==
    \E i, last, from, to :
        /\ Matches(ns, ms, i, last, from, to)
        /\ last > i => greedy /\ from < Edge(ns, i + 1)
        /\ \A k \in i + 1 .. last : ns[k].isSyntax => Edge(ns, k) < to

LEMMA PlainMatchStep ==
  ASSUME HInv, PlainMatch
  PROVE  HInv' /\ Yields(list.nodes, list'.nodes, Greedy[top.pattern])
<1> DEFINE ns == list.nodes
<1>1. InText
  BY DEF PlainMatch
<1>2. PICK i : i = IndexOf(top.currentNode)
  OBVIOUS
<1>3. /\ Running /\ list.length <= N
      /\ i \in 1 .. Len(ns) /\ Place(ns, top) = i
      /\ Here = ns[i] /\ ~ns[i].isSyntax /\ top.pos = Edge(ns, i) /\ top.pos = ns[i].at
  BY <1>1, <1>2, TextFacts
<1>4. Pieces(ns) /\ Len(ns) \in Nat
  BY EdgeFacts DEF HInv
<1>5. PICK from, to, end :
         /\ end = top.pos + ns[i].len
         /\ from \in top.pos .. end /\ to \in from .. end
         /\ Replace(i, top.pos, from, to, end, 1)
  BY <1>2, <1>3 DEF PlainMatch
<1>6. end = Edge(ns, i + 1) /\ end \in 0 .. N /\ top.pos \in 0 .. N
  <2>1. i + 1 \in 1 .. Len(ns) + 1 /\ i \in 1 .. Len(ns) + 1
    BY <1>3, <1>4
  <2>2. Edge(ns, i + 1) = ns[i].at + ns[i].len
    BY <1>3, <1>4, EdgeFacts
  <2>3. Edge(ns, i + 1) \in 0 .. N /\ Edge(ns, i) \in 0 .. N
    BY <1>4, <2>1, EdgeFacts
  <2> QED
    BY <1>3, <1>5, <2>2, <2>3
<1>7. i < Len(ns) => ns[i + 1].isSyntax
  <2>1. SUFFICES ASSUME i < Len(ns) PROVE ns[i + 1].isSyntax
    OBVIOUS
  <2>2. PICK j \in 2 .. Len(ns) : j = i + 1
    BY <1>3, <1>4, <2>1
  <2>3. ns[j].isSyntax \/ ns[j - 1].isSyntax
    BY <1>4 DEF Pieces
  <2>4. j - 1 = i
    BY <1>3, <1>4, <2>2
  <2> QED
    BY <1>3, <2>2, <2>3, <2>4
<1>8. Spot(ns, i, i, top.pos, end, from, to)
  <2>1. i \in i .. Len(ns) /\ from \in top.pos .. N /\ N \in Nat
    BY <1>3, <1>4, <1>5, <1>6, Constants
  <2> QED
    BY <1>3, <1>5, <1>6, <1>7, <2>1 DEF Spot
<1>9. Spans(i, i, 1) /\ ~(i > i)
  BY <1>3, <1>4 DEF Spans
<1>10. Place(ns, top) <= i
  BY <1>3, <1>4
<1>11. HInv' /\ Matches(ns, list'.nodes, i, i, from, to)
  BY <1>3, <1>5, <1>8, <1>9, <1>10, ReplaceStep
<1>12. \A k \in i + 1 .. i : FALSE
  BY <1>3, <1>4
<1> QED
  BY <1>9, <1>11, <1>12 DEF Yields

(* A greedy match begins in the node that Containing finds, and the last node   *)
(* it affects is the one before the first token that begins behind it.          *)
LEMMA ContainingIs ==
  ASSUME HInv, InText, NEW from \in top.pos .. (N - 1)
  PROVE  LET ns == list.nodes
             j  == IndexOf(top.currentNode)
             i  == Containing(from)
         IN  /\ i \in j .. Len(ns) /\ from < Edge(ns, i + 1) /\ Edge(ns, i) <= from
             /\ top.pos + Length(j, i) = Edge(ns, i)
<1> DEFINE ns == list.nodes
           i  == Containing(from)
<1>1. PICK j : j = IndexOf(top.currentNode)
  OBVIOUS
<1>2. j \in 1 .. Len(ns) /\ top.pos = Edge(ns, j)
  BY <1>1, TextFacts
<1>3. Pieces(ns) /\ Len(ns) \in Nat
  BY EdgeFacts DEF HInv
<1>4. \A m \in j .. Len(ns) + 1 : top.pos + Length(j, m) = Edge(ns, m)
  <2>1. TAKE m \in j .. Len(ns) + 1
  <2>2. Length(j, m) = Edge(ns, m) - Edge(ns, j)
    BY <1>2, <1>3, LengthIs
  <2>3. j \in 1 .. Len(ns) + 1 /\ m \in 1 .. Len(ns) + 1
    BY <1>2, <1>3
  <2>4. Edge(ns, m) \in 0 .. N /\ Edge(ns, j) \in 0 .. N
    BY <1>3, <2>3, EdgeFacts
  <2> QED
    BY <1>2, <2>2, <2>4
<1>5. \A m \in j .. Len(ns) : top.pos + Length(j, m + 1) = Edge(ns, m + 1)
  <2>1. TAKE m \in j .. Len(ns)
  <2>2. PICK q \in j .. Len(ns) + 1 : q = m + 1
    BY <1>2, <1>3
  <2> QED
    BY <1>4, <2>2
<1>6. PICK m \in j .. Len(ns) : from < Edge(ns, m + 1) /\ (m = j \/ from >= Edge(ns, m))
  BY <1>2, <1>3, ContainingThere
<1>7. \A q \in j .. Len(ns) : q \in j .. Len(ns) + 1
  BY <1>2, <1>3
<1>8. /\ i \in j .. Len(ns)
      /\ from < top.pos + Length(j, i + 1)
      /\ i = j \/ from >= top.pos + Length(j, i)
  <2>1. /\ from < top.pos + Length(j, m + 1)
        /\ m = j \/ from >= top.pos + Length(j, m)
    BY <1>4, <1>5, <1>6, <1>7
  <2>2. \E q \in j .. Len(ns) : /\ from < top.pos + Length(j, q + 1)
                                /\ q = j \/ from >= top.pos + Length(j, q)
    BY <2>1
  <2> HIDE DEF ns
  <2> QED
    BY <1>1, <2>2, Zenon DEF Containing, ns
<1> HIDE DEF i
<1>9. from < Edge(ns, i + 1) /\ (i = j \/ from >= Edge(ns, i)) /\ top.pos + Length(j, i) = Edge(ns, i)
  BY <1>4, <1>5, <1>7, <1>8
<1>10. Edge(ns, i) <= from
  <2>1. top.pos <= from /\ i \in 1 .. Len(ns) + 1
    BY <1>2, <1>3, <1>8
  <2>2. Edge(ns, i) \in 0 .. N
    BY <1>3, <2>1, EdgeFacts
  <2> QED
    BY <1>2, <1>9, <2>1, <2>2
<1> QED
  BY <1>1, <1>8, <1>9, <1>10 DEF i


LEMMA AffectedIs ==
  ASSUME HInv, NEW i \in 1 .. Len(list.nodes), NEW pos, pos = Edge(list.nodes, i), NEW to \in 0 .. N
  PROVE  LET ns   == list.nodes
             last == Affected(i, pos, to)
         IN  /\ last \in i .. Len(ns)
             /\ last < Len(ns) => ns[last + 1].isSyntax
             /\ to <= Edge(ns, last + 1) /\ pos + Length(i, last + 1) = Edge(ns, last + 1)
             /\ \A k \in i + 1 .. last : ns[k].isSyntax => Edge(ns, k) < to
<1> DEFINE ns   == list.nodes
           last == Affected(i, pos, to)
           Stops(k) == pos + Length(i, k) >= to /\ ns[k].isSyntax
           Stop == {k \in Nat : Stops(k)}
<1>1. Pieces(ns) /\ Len(ns) \in Nat
  BY EdgeFacts DEF HInv
<1>2. \A k \in i .. Len(ns) + 1 : pos + Length(i, k) = Edge(ns, k) /\ Edge(ns, k) \in 0 .. N
  <2>1. TAKE k \in i .. Len(ns) + 1
  <2>2. Length(i, k) = Edge(ns, k) - Edge(ns, i)
    BY <1>1, LengthIs
  <2>3. i \in 1 .. Len(ns) + 1 /\ k \in 1 .. Len(ns) + 1
    BY <1>1
  <2>4. Edge(ns, k) \in 0 .. N /\ Edge(ns, i) \in 0 .. N
    BY <1>1, <2>3, EdgeFacts
  <2> QED
    BY <2>2, <2>4
<1>3. PICK m \in i .. Len(ns) : /\ m = Len(ns) \/ m + 1 \in Stop
                                /\ \A k \in (i + 1) .. m : k \notin Stop
  <2>1. Stop \subseteq Nat
    OBVIOUS
  <2>2. i \in 1 .. Len(ns)
    OBVIOUS
  <2> HIDE DEF Stop, ns
  <2>3. \E m \in i .. Len(ns) : /\ m = Len(ns) \/ m + 1 \in Stop
                                /\ \A k \in (i + 1) .. m : k \notin Stop
    BY <1>1, <2>1, <2>2, AffectedThere
  <2> QED
    BY <2>3
<1>4. \A k \in (i + 1) .. m : k \in Nat
  OBVIOUS
<1>5. /\ last \in i .. Len(ns)
      /\ last = Len(ns) \/ Stops(last + 1)
      /\ \A k \in (i + 1) .. last : ~Stops(k)
  <2>1. /\ m = Len(ns) \/ Stops(m + 1)
        /\ \A k \in (i + 1) .. m : ~Stops(k)
    BY <1>3, <1>4
  <2>2. \E q \in i .. Len(ns) : /\ q = Len(ns) \/ Stops(q + 1)
                                /\ \A k \in (i + 1) .. q : ~Stops(k)
    BY <2>1
  <2> HIDE DEF ns
  <2> QED
    BY <2>2, Zenon DEF Affected, ns
<1> HIDE DEF last
<1>6. PICK e \in i .. Len(ns) + 1 : e = last + 1
  BY <1>1, <1>5
<1>7. pos + Length(i, last + 1) = Edge(ns, last + 1) /\ Edge(ns, last + 1) \in 0 .. N
  BY <1>2, <1>6
<1>8. last < Len(ns) => Stops(last + 1)
  BY <1>1, <1>5
<1>9. to <= Edge(ns, last + 1)
  <2>1. CASE last = Len(ns)
    <3>1. Edge(ns, last + 1) = N
      BY <1>1, <2>1, EdgeFacts
    <3> QED
      BY <3>1, Constants
  <2>2. CASE last < Len(ns)
    BY <1>7, <1>8, <2>2
  <2> QED
    BY <1>1, <1>5, <2>1, <2>2
<1>10. \A k \in i + 1 .. last : ns[k].isSyntax => Edge(ns, k) < to
  <2>1. TAKE k \in i + 1 .. last
  <2>2. k \in i .. Len(ns) + 1
    BY <1>1, <1>5
  <2>3. ~Stops(k) /\ pos + Length(i, k) = Edge(ns, k) /\ Edge(ns, k) \in 0 .. N
    BY <1>2, <1>5, <2>2
  <2> QED
    BY <2>3
<1> QED
  BY <1>5, <1>7, <1>8, <1>9, <1>10 DEF last

LEMMA GreedyMatchStep ==
  ASSUME HInv, GreedyMatch
  PROVE  HInv' /\ (list' # list => Yields(list.nodes, list'.nodes, Greedy[top.pattern]))
<1> DEFINE ns == list.nodes
<1>1. InText /\ Greedy[top.pattern]
  BY DEF GreedyMatch
<1>2. PICK j : j = IndexOf(top.currentNode)
  OBVIOUS
<1>3. /\ Running /\ stack # <<>> /\ list.length <= N
      /\ j \in 1 .. Len(ns) /\ Place(ns, top) = j /\ top.pos = Edge(ns, j)
  BY <1>1, <1>2, TextFacts
<1>4. Pieces(ns) /\ Len(ns) \in Nat /\ N \in Nat /\ ns \in Seq(Node) /\ Distinct(ns)
  BY EdgeFacts, Constants DEF HInv, Pieces
<1>5. PICK from, to, i, pos, last :
         /\ from \in top.pos .. (N - 1) /\ to \in from .. N
         /\ i = Containing(from) /\ pos = top.pos + Length(j, i) /\ last = Affected(i, pos, to)
         /\ IF ns[i].isSyntax
            THEN /\ OnTop(Advance([top EXCEPT !.pos = pos, !.currentNode = ns[i].id]))
                 /\ UNCHANGED list
            ELSE Replace(i, pos, from, to, pos + Length(i, last + 1), last + 1 - i)
  BY <1>2 DEF GreedyMatch
<1>6. /\ i \in j .. Len(ns) /\ from < Edge(ns, i + 1) /\ Edge(ns, i) <= from /\ pos = Edge(ns, i)
  BY <1>1, <1>2, <1>5, ContainingIs
<1>7. i \in 1 .. Len(ns) /\ i \in 1 .. Len(ns) + 1 /\ j <= i
  BY <1>3, <1>4, <1>6
<1>8. pos \in 0 .. N /\ pos = ns[i].at
  <2>1. Edge(ns, i) \in 0 .. N /\ Edge(ns, i) = ns[i].at
    BY <1>4, <1>7, EdgeFacts
  <2> QED
    BY <1>6, <2>1
<1>9. from \in 0 .. N /\ to \in 0 .. N /\ from \in pos .. N /\ from <= to
  BY <1>4, <1>5, <1>6, <1>8
<1>10. CASE ns[i].isSyntax
  <2> DEFINE f == [top EXCEPT !.pos = pos, !.currentNode = ns[i].id]
  <2>1. OnTop(Advance(f)) /\ list' = list
    BY <1>5, <1>10
  <2>2. top \in CallRec
    BY <1>3, RunningFacts
  <2>3. ns[i].id \in Addresses /\ ns[i].id \in Addressed(ns) /\ ns[i].id # head /\ IndexIn(ns, ns[i].id) = i
    BY <1>4, <1>7, NodeFields, IndexFacts
  <2>4. f \in CallRec /\ f.pos = pos /\ f.currentNode = ns[i].id /\ Moves(top, f) /\ f.pattern = top.pattern
    BY <1>8, <2>2, <2>3 DEF CallRec, Moves
  <2> HIDE DEF f
  <2>5. At(ns, f) /\ Place(ns, f) = i /\ f.currentNode # head
    BY <1>8, <2>3, <2>4 DEF At, Place
  <2>6. Place(ns, f) >= Place(ns, top)
    BY <1>3, <1>7, <2>5
  <2>7. HInv'
    BY <1>3, <2>1, <2>4, <2>5, <2>6, AdvanceStep
  <2> QED
    BY <2>1, <2>7
<1>11. CASE ~ns[i].isSyntax
  <2>1. PICK end, taken : /\ end = pos + Length(i, last + 1) /\ taken = last + 1 - i
                          /\ Replace(i, pos, from, to, end, taken)
    BY <1>5, <1>11
  <2>2. /\ last \in i .. Len(ns)
        /\ last < Len(ns) => ns[last + 1].isSyntax
        /\ to <= Edge(ns, last + 1) /\ end = Edge(ns, last + 1)
        /\ \A k \in i + 1 .. last : ns[k].isSyntax => Edge(ns, k) < to
    <3>1. last = Affected(i, pos, to) /\ end = pos + Length(i, last + 1)
      BY <1>5, <2>1
    <3>2. i \in 1 .. Len(ns) /\ pos = Edge(ns, i) /\ to \in 0 .. N
      BY <1>6, <1>7, <1>9
    <3> DEFINE z == Affected(i, pos, to)
    <3>3. /\ z \in i .. Len(ns)
          /\ z < Len(ns) => ns[z + 1].isSyntax
          /\ to <= Edge(ns, z + 1) /\ pos + Length(i, z + 1) = Edge(ns, z + 1)
          /\ \A k \in i + 1 .. z : ns[k].isSyntax => Edge(ns, k) < to
      BY <3>2, AffectedIs
    <3> HIDE DEF z
    <3>4. last = z
      BY <3>1 DEF z
    <3> QED
      BY <3>1, <3>3, <3>4
  <2>3. last + 1 \in 1 .. Len(ns) + 1
    BY <1>4, <1>7, <2>2
  <2>4. end \in 0 .. N
    BY <1>4, <2>2, <2>3, EdgeFacts
  <2>5. to \in from .. end
    BY <1>9, <2>2, <2>4
  <2>6. Spot(ns, i, last, pos, end, from, to)
    BY <1>6, <1>7, <1>9, <1>11, <2>2, <2>5 DEF Spot
  <2>7. Spans(i, last, taken)
    BY <2>1 DEF Spans
  <2>8. Place(ns, top) <= i
    BY <1>3, <1>7
  <2>9. HInv' /\ Matches(ns, list'.nodes, i, last, from, to)
    BY <1>1, <1>3, <2>1, <2>6, <2>7, <2>8, ReplaceStep
  <2>10. Yields(ns, list'.nodes, Greedy[top.pattern])
    BY <1>1, <1>6, <2>2, <2>9 DEF Yields
  <2> QED
    BY <2>9, <2>10
<1> QED
  BY <1>10, <1>11


-------------------------------------------------------------------------------
(* The invariant holds of the text as one piece and the one call on it.         *)
LEMMA InitHolds == Init => HInv
<1> SUFFICES ASSUME Init PROVE HInv
  OBVIOUS
<1> DEFINE n == Text(1, 0, N)
           c == Call(NoRematch, 0, head, 0, 1)
<1>1. PICK ns, cs : ns = list.nodes /\ cs = stack
  OBVIOUS
<1>2. ns = <<n>> /\ list.length = 1 /\ cs = <<c>>
  BY <1>1 DEF Init
<1>3. 1 \in Addresses /\ N \in Nat \ {0} /\ N \in 0 .. N /\ 0 \in 0 .. N /\ 1 \in 1 .. Len(Greedy) + 1
  <2>1. Len(Greedy) \in Nat /\ N \in Nat \ {0}
    BY Constants
  <2> QED
    BY <2>1 DEF Addresses
<1>4. n \in Node /\ n.id = 1 /\ n.at = 0 /\ n.len = N /\ ~n.isSyntax
  BY <1>3 DEF Text, Node
<1>5. /\ c \in CallRec /\ c.cause = NoRematch /\ c.pattern = 1
      /\ c.startNode = head /\ c.startPos = 0 /\ c.currentNode = 1 /\ c.pos = 0
  BY <1>3 DEF Call, CallRec
<1> HIDE DEF n, c
<1>6. ns \in Seq(Node) /\ Len(ns) = 1 /\ ns[1] = n /\ DOMAIN ns = 1 .. 1
  BY <1>2, <1>4
<1>7. cs \in Seq(CallRec) /\ Len(cs) = 1 /\ cs[1] = c
  BY <1>2, <1>5
<1>8. Distinct(ns)
  BY <1>6 DEF Distinct
<1>9. Pieces(ns)
  <2>1. \A i \in 2 .. Len(ns) : FALSE
    BY <1>6
  <2>2. \A i \in 1 .. Len(ns) : i = 1
    BY <1>6
  <2>3. /\ ns[1].at = 0 /\ ns[Len(ns)].at + ns[Len(ns)].len = N
        /\ \A i \in 1 .. Len(ns) : ns[i].isSyntax \/ ns[i].len > 0
    BY <1>3, <1>4, <1>6, <2>2
  <2> QED
    BY <1>6, <1>8, <2>1, <2>3 DEF Pieces
<1>10. 1 \in Addressed(ns) /\ IndexIn(ns, 1) = 1
  <2>1. 1 \in 1 .. Len(ns) /\ ns[1].id = 1
    BY <1>4, <1>6
  <2>2. ns[1].id \in Addressed(ns)
    BY <1>6, <2>1, NodeFields
  <2>3. IndexIn(ns, ns[1].id) = 1
    BY <1>6, <1>8, <2>1, IndexFacts
  <2> QED
    BY <2>1, <2>2, <2>3
<1>11. Stands(ns, c) /\ Before(ns, c) = 0 /\ Place(ns, c) = 1
  BY <1>4, <1>5, <1>6, <1>10 DEF Stands, Starts, At, Before, Place, head
<1>12. Calls(ns, cs)
  <2>1. \A d \in 1 .. Len(cs) : cs[d] = c
    BY <1>7
  <2>2. \A d \in 1 .. Len(cs) - 1 : FALSE
    BY <1>7
  <2>3. \A d \in 1 .. Len(cs) : Stands(ns, cs[d]) /\ Before(ns, cs[d]) < Place(ns, cs[d])
    BY <1>11, <2>1
  <2>4. \A d, e \in 1 .. Len(cs) : ~(d < e)
    BY <1>7
  <2> QED
    BY <1>7, <2>2, <2>3, <2>4 DEF Calls
<1>13. Causes(cs)
  <2>1. (\A d \in 1 .. Len(cs) : cs[d] = c) /\ (\A d \in 2 .. Len(cs) : FALSE)
        /\ (\A d \in 2 .. Len(cs) - 1 : FALSE)
    BY <1>7
  <2> QED
    BY <1>5, <2>1 DEF Causes
<1> QED
  BY <1>1, <1>2, <1>6, <1>9, <1>12, <1>13 DEF HInv

LEMMA Unchanged == ASSUME HInv, UNCHANGED vars PROVE HInv'
BY DEF vars, HInv

(* Every step keeps the invariant; one that edits the list is a match.          *)
LEMMA StepHolds ==
  ASSUME HInv, Step
  PROVE  HInv' /\ (list' # list => Yields(list.nodes, list'.nodes, Greedy[top.pattern]))
<1>1. CASE LoopEnds
  BY <1>1, NextPatternStep DEF LoopEnds
<1>2. CASE CallEnds
  BY <1>2, ReturnStep DEF CallEnds
<1>3. CASE Abort
  BY <1>3, ReturnStep DEF Abort, InLoop, Running
<1>4. CASE InLoop /\ list' = list /\ OnTop(Advance(top))
  <2>1. stack # <<>> /\ top.currentNode # head
    BY <1>4 DEF InLoop, Running
  <2>2. top \in CallRec /\ At(list.nodes, top) /\ Moves(top, top)
    BY <2>1, RunningFacts DEF Stands, Moves
  <2>3. Place(list.nodes, top) >= Place(list.nodes, top)
    <3>1. Place(list.nodes, top) \in 1 .. Len(list.nodes) + 1
      BY <2>1, RunningFacts, Standing DEF HInv
    <3>2. Len(list.nodes) \in Nat
      BY EdgeFacts DEF HInv
    <3> QED
      BY <3>1, <3>2
  <2>4. HInv'
    BY <1>4, <2>1, <2>2, <2>3, AdvanceStep
  <2> QED
    BY <1>4, <2>4
<1>5. CASE SkipSyntax
  BY <1>4, <1>5 DEF SkipSyntax
<1>6. CASE NoMatch
  <2>1. InLoop /\ Running /\ list' = list
    BY <1>6 DEF NoMatch, InText, InLoop
  <2>2. CASE Greedy[top.pattern]
    BY <1>6, <2>1, <2>2, NextPatternStep DEF NoMatch
  <2>3. CASE ~Greedy[top.pattern]
    BY <1>4, <1>6, <2>1, <2>3 DEF NoMatch
  <2> QED
    BY <2>2, <2>3
<1>7. CASE PlainMatch
  BY <1>7, PlainMatchStep
<1>8. CASE GreedyMatch
  BY <1>8, GreedyMatchStep
<1> QED
  BY <1>1, <1>2, <1>3, <1>5, <1>6, <1>7, <1>8 DEF Step

(* Beside it: whether the running call is in a nested one.  Only a match makes  *)
(* one, at a pattern of the grammar.                                            *)
MayWait == nested \in BOOLEAN

LEMMA StepWaits ==
  ASSUME HInv, MayWait, Step
  PROVE  MayWait'
<1>1. Step => \/ nested' = nested
              \/ Running /\ nested' = Inside[top.pattern]
  BY DEF Step, LoopEnds, CallEnds, Abort, SkipSyntax, NoMatch, PlainMatch, GreedyMatch,
         Replace, InText, InLoop
<1>2. CASE nested' = nested
  BY <1>2 DEF MayWait
<1>3. CASE Running /\ nested' = Inside[top.pattern]
  <2>1. top.pattern \in DOMAIN Greedy
    <3>1. top \in CallRec /\ ~(top.pattern > Len(Greedy))
      BY <1>3, RunningFacts DEF Running, Finished
    <3>2. DOMAIN Greedy = 1 .. Len(Greedy) /\ Len(Greedy) \in Nat
      BY GreedyAssumption, LenProperties
    <3> QED
      BY <3>1, <3>2 DEF CallRec
  <2> QED
    BY <1>3, <2>1, InsideAssumption DEF MayWait
<1> QED
  BY <1>1, <1>2, <1>3

(* During a nested call the list and the calls stand still.                     *)
LEMMA NextHolds ==
  ASSUME HInv, MayWait, Next
  PROVE  /\ HInv' /\ MayWait'
         /\ list' # list => Yields(list.nodes, list'.nodes, Greedy[top.pattern])
<1>1. CASE Step
  BY <1>1, StepHolds, StepWaits
<1>2. CASE InsideTokenized
  <2>1. list' = list /\ stack' = stack /\ nested' = FALSE
    BY <1>2 DEF InsideTokenized
  <2> QED
    BY <2>1 DEF HInv, MayWait
<1> QED
  BY <1>1, <1>2 DEF Next

LEMMA Inductive == Spec => [](HInv /\ MayWait)
<1>1. Init => HInv /\ MayWait
  BY InitHolds DEF Init, MayWait
<1>2. HInv /\ MayWait /\ [Next]_vars => HInv' /\ MayWait'
  BY NextHolds, Unchanged DEF vars, MayWait
<1> QED
  BY <1>1, <1>2, PTL DEF Spec

-------------------------------------------------------------------------------
(* What the invariant says of the list and of the calls: those that one call of *)
(* tokenize has running on its list.                                            *)
Shallow == Len(stack) <= Len(Greedy) + 1

LEMMA InvariantSays ==
  ASSUME HInv, MayWait
  PROVE  TypeOK /\ TextPreserved /\ CallersAgree /\ RematchesDescend /\ Shallow
<1>1. TypeOK
  BY DEF HInv, MayWait, Pieces, Calls, TypeOK, Node, CallRec
<1>2. TextPreserved
  <2>1. Pieces(list.nodes) /\ DOMAIN list.nodes = 1 .. Len(list.nodes)
    BY DEF HInv, Pieces
  <2> QED
    BY <2>1 DEF Pieces, TextPreserved
<1>3. CallersAgree
  <2> SUFFICES ASSUME NEW d \in DOMAIN stack
               PROVE  LET f == stack[d]
                      IN  /\ {f.startNode, f.currentNode} \subseteq Addressed(list.nodes) \cup {head}
                          /\ f.currentNode # head => f.pos = NodeOf(f.currentNode).at
                          /\ f.startPos = IF f.startNode = head THEN 0
                                          ELSE NodeOf(f.startNode).at + NodeOf(f.startNode).len
    BY DEF CallersAgree
  <2>1. d \in 1 .. Len(stack)
    BY DEF HInv, Calls
  <2>2. Stands(list.nodes, stack[d])
    BY <2>1 DEF HInv, Calls
  <2>3. \A id : NodeOf(id) = list.nodes[IndexIn(list.nodes, id)]
    BY DEF NodeOf, IndexOf, IndexIn
  <2> QED
    BY <2>2, <2>3 DEF Stands, Starts, At
<1>4. RematchesDescend
  BY DEF HInv, Causes, RematchesDescend
<1>5. Shallow
  <2>1. stack \in Seq(CallRec) /\ Len(stack) \in Nat /\ Len(Greedy) \in Nat
    BY Constants, LenProperties DEF HInv, Calls
  <2>2. CASE Len(stack) < 2
    BY <2>1, <2>2 DEF Shallow
  <2>3. CASE Len(stack) >= 2
    <3>1. PICK n \in 2 .. Len(stack) : n = Len(stack)
      BY <2>1, <2>3
    <3>2. stack[n].cause # NoRematch /\ stack[n].cause + n <= Len(Greedy) + 2
      BY DEF HInv, Causes
    <3>3. n \in 1 .. Len(stack)
      BY <2>1
    <3>4. stack[n].cause \in Nat
      BY <2>1, <3>3, Typed
    <3> QED
      BY <2>1, <3>1, <3>2, <3>4 DEF NoRematch, Shallow
  <2> QED
    BY <2>1, <2>2, <2>3
<1> QED
  BY <1>1, <1>2, <1>3, <1>4, <1>5

(* A token once found is given up only to a greedy match that begins before it  *)
(* and reaches into it, and is never cut.                                       *)
LEMMA YieldsToOverlap ==
  ASSUME NEW ns, NEW ms, Pieces(ns), NEW greedy, Yields(ns, ms, greedy),
         NEW old \in Range(ns) \ Range(ms), old.isSyntax
  PROVE  greedy /\ \E new \in Range(ms) \ Range(ns) :
                       new.isSyntax /\ new.at < old.at /\ old.at < new.at + new.len
<1>1. PICK i, last, from, to, b, c1, t, c2, r :
         /\ Fits(ns, i, last, from, to, b, c1, t, c2, r) /\ IsCut(ns, ms, i, last, b, c1, t, c2, r)
         /\ last > i => greedy /\ from < Edge(ns, i + 1)
         /\ \A k \in i + 1 .. last : ns[k].isSyntax => Edge(ns, k) < to
  BY DEF Yields, Matches
<1>2. /\ ns \in Seq(Node) /\ ms \in Seq(Node)
      /\ DOMAIN ns = 1 .. Len(ns) /\ DOMAIN ms = 1 .. Len(ms)
  BY <1>1 DEF Pieces, IsCut
<1>3. PICK k \in 1 .. Len(ns) : old = ns[k]
  BY <1>2 DEF Range
<1>4. \A m \in 1 .. Len(ms) : ms[m] # ns[k]
  BY <1>2, <1>3 DEF Range
<1> DEFINE z == i + c1 + c2
           h == z - last
<1>5. /\ z \in Nat /\ i + c1 \in Nat /\ last \in Nat /\ i \in Nat \ {0} /\ last <= Len(ns)
      /\ Len(ms) = Len(ns) + z - last /\ Len(ms) \in Nat /\ Len(ns) \in Nat
      /\ \A m \in 1 .. i - 1 : m \in 1 .. Len(ns) /\ m \in 1 .. Len(ms) /\ ms[m] = ns[m]
      /\ \A m \in z + 1 .. Len(ms) : m - h \in last + 1 .. Len(ns) /\ ms[m] = ns[m - h]
  <2>1. Fits(ns, i, last, from, to, b, c1, t, c2, r) /\ IsCut(ns, ms, i, last, b, c1, t, c2, r)
    BY <1>1
  <2>2. /\ z \in Nat /\ i + c1 \in Nat /\ last \in Nat /\ i \in Nat \ {0} /\ last <= Len(ns)
        /\ Len(ms) = Len(ns) + z - last /\ Len(ms) \in Nat /\ Len(ns) \in Nat
    BY <1>2, <2>1, CutNodes
  <2>3. /\ \A m \in 1 .. i - 1 : m \in 1 .. Len(ns) /\ m \in 1 .. Len(ms) /\ ms[m] = ns[m]
        /\ c1 = 1 => ms[i] = b
        /\ ms[i + c1] = t
        /\ c2 = 1 => ms[z] = r
        /\ \A m \in z + 1 .. Len(ms) : m - h \in last + 1 .. Len(ns) /\ ms[m] = ns[m - h]
    <3>1. ns \in Seq(Node)
      BY <1>2
    <3> QED
      BY <2>1, <3>1, CutNodes
  <2> HIDE DEF z, h
  <2> QED
    BY <2>2, <2>3
<1>6. ~ns[i].isSyntax /\ t.isSyntax /\ t.at = from /\ t.len = to - from /\ t.id \notin Addressed(ns)
  BY <1>1 DEF Fits
<1>7. z >= i /\ h \in Int /\ h = z - last
  <2>1. c1 \in {0, 1} /\ c2 \in {0, 1}
    BY <1>1 DEF Fits
  <2> QED
    BY <1>5, <2>1
<1> HIDE DEF z, h
<1>8. k \in i + 1 .. last
  <2>1. ~(k < i)
    BY <1>4, <1>5
  <2>2. k # i
    BY <1>3, <1>6
  <2>3. ~(k > last)
    <3>1. SUFFICES ASSUME k > last PROVE FALSE
      OBVIOUS
    <3>2. PICK m : m = k + h
      OBVIOUS
    <3>3. m \in z + 1 .. Len(ms) /\ m - h = k /\ m \in 1 .. Len(ms)
      BY <1>5, <1>7, <3>1, <3>2
    <3>4. ms[m] = ns[k]
      BY <1>5, <3>3
    <3> QED
      BY <1>4, <3>3, <3>4
  <2> QED
    BY <1>5, <2>1, <2>2, <2>3
<1>9. greedy /\ from < Edge(ns, i + 1)
  BY <1>1, <1>5, <1>8
<1>10. Edge(ns, k) < to /\ Edge(ns, k) = old.at
  BY <1>1, <1>3, <1>8, EdgeFacts
<1>11. Edge(ns, i + 1) <= Edge(ns, k)
  <2>1. i + 1 \in 1 .. Len(ns) + 1 /\ k \in i + 1 .. Len(ns) + 1
    BY <1>5, <1>8
  <2> QED
    BY <2>1, EdgesRise
<1>12. /\ i + c1 \in 1 .. Len(ms) /\ ms[i + c1] = t
  BY <1>1, TokenThere
<1>13. t \in Range(ms)
  BY <1>2, <1>12 DEF Range
<1>14. t \notin Range(ns)
  <2>1. SUFFICES ASSUME NEW m \in 1 .. Len(ns), ns[m] = t PROVE FALSE
    BY <1>2 DEF Range
  <2>2. ns[m].id \in Addressed(ns)
    BY <1>2, NodeFields
  <2> QED
    BY <1>6, <2>1, <2>2
<1>15. from \in Int /\ to \in Int /\ Edge(ns, k) \in Int /\ Edge(ns, i + 1) \in Int
  <2>1. /\ i \in 1 .. Len(ns) + 1 /\ i + 1 \in 1 .. Len(ns) + 1 /\ k \in 1 .. Len(ns) + 1
        /\ last + 1 \in 1 .. Len(ns) + 1
    BY <1>5, <1>8
  <2>2. from \in Edge(ns, i) .. N /\ to \in from .. Edge(ns, last + 1)
    BY <1>1 DEF Fits
  <2> QED
    BY <2>1, <2>2, EdgeFacts
<1>16. t.at < old.at /\ old.at < t.at + t.len
  BY <1>6, <1>9, <1>10, <1>11, <1>15
<1> QED
  BY <1>6, <1>9, <1>13, <1>14, <1>16

(* The action that TokensYieldToOverlap requires of every step.                 *)
Yielding ==
    \A old \in Range(list.nodes) \ Range(list'.nodes) :
        old.isSyntax =>
            /\ Greedy[top.pattern]
            /\ \E new \in Range(list'.nodes) \ Range(list.nodes) :
                   new.isSyntax /\ new.at < old.at /\ old.at < new.at + new.len

LEMMA EditYields ==
  ASSUME HInv, list' # list => Yields(list.nodes, list'.nodes, Greedy[top.pattern])
  PROVE  Yielding
<1>1. CASE list' = list
  BY <1>1 DEF Yielding
<1>2. CASE list' # list
  <2>1. Yields(list.nodes, list'.nodes, Greedy[top.pattern]) /\ Pieces(list.nodes)
    BY <1>2 DEF HInv
  <2> QED
    BY <2>1, YieldsToOverlap DEF Yielding
<1> QED
  BY <1>1, <1>2

-------------------------------------------------------------------------------
(* The list and the calls have their shapes, and `length' counts the nodes.     *)
THEOREM TypeCorrect == Spec => []TypeOK
BY Inductive, InvariantSays, PTL

(* matchGrammar neither loses, repeats nor moves any of the text, whatever the  *)
(* patterns match: Syntaxer.mm, which puts the nodes one behind the other,      *)
(* shows all of it.                                                             *)
THEOREM TextIsPreserved == Spec => []TextPreserved
BY Inductive, InvariantSays, PTL

(* No call of matchGrammar follows a dangling pointer after the rematches it    *)
(* made have edited the list, and each searches the text where it is.           *)
THEOREM CallersDoAgree == Spec => []CallersAgree
BY Inductive, InvariantSays, PTL

(* A rematch caused inside a rematch is caused by an earlier greedy pattern.    *)
THEOREM RematchesDoDescend == Spec => []RematchesDescend
BY Inductive, InvariantSays, PTL

(* Rematching does not recurse with the text: the calls of matchGrammar that    *)
(* run on one list, which is within one call of tokenize, are never more than   *)
(* the patterns of its grammar and one.  The lists of tokens with a grammar     *)
(* inside are made by further calls of tokenize, each with a bound of its own;  *)
(* how many of them nest, the text decides.                                     *)
THEOREM DepthBounded == Spec => []Shallow
BY Inductive, InvariantSays, PTL

(* A token once found is given up only to a greedy match that begins before it  *)
(* and reaches into it, and is never cut.                                       *)
THEOREM TokensDoYieldToOverlap == Spec => TokensYieldToOverlap
<1>1. HInv /\ MayWait /\ [Next]_vars => [Yielding]_vars
  BY NextHolds, EditYields
<1> QED
  BY Inductive, <1>1, PTL DEF Spec, TokensYieldToOverlap, Yielding

-------------------------------------------------------------------------------
(* The highlighter as a whole: the grammars are loaded first, and a language    *)
(* without one leaves the text in one piece.                                    *)
LEMMA NoCalls ==
  ASSUME HInv, list' = list, stack' = <<>>
  PROVE  HInv'
<1>1. PICK ns, cs : ns = list.nodes /\ cs = stack'
  OBVIOUS
<1>2. cs = <<>> /\ Len(cs) = 0 /\ cs \in Seq(CallRec)
  BY <1>1
<1>3. (\A d \in 1 .. Len(cs) : FALSE) /\ (\A d \in 1 .. Len(cs) - 1 : FALSE)
      /\ (\A d \in 2 .. Len(cs) : FALSE) /\ (\A d \in 2 .. Len(cs) - 1 : FALSE)
  BY <1>2
<1>4. Calls(ns, cs)
  BY <1>2, <1>3 DEF Calls
<1>5. Causes(cs)
  BY <1>3 DEF Causes
<1> QED
  BY <1>1, <1>4, <1>5 DEF HInv

LEMMA SyntaxStepHolds ==
  ASSUME HInv, MayWait, [SyntaxNext]_<<vars, treeVars>>
  PROVE  /\ HInv' /\ MayWait'
         /\ list' # list => Yields(list.nodes, list'.nodes, Greedy[top.pattern])
<1>1. CASE UNCHANGED vars
  BY <1>1, Unchanged DEF vars, MayWait
<1>2. CASE Untokenized
  BY <1>2, NoCalls DEF Untokenized, MayWait
<1>3. CASE Next
  BY <1>3, NextHolds
<1> QED
  BY <1>1, <1>2, <1>3 DEF SyntaxNext, Construct, Tokenize

(* What holds of matchGrammar holds of tokenize, whatever file the grammars     *)
(* were read from and whichever language is asked for.                          *)
THEOREM TokenizeKeepsAll ==
  LiveSpec => /\ [](TypeOK /\ TextPreserved /\ CallersAgree /\ RematchesDescend)
              /\ TokensYieldToOverlap
<1>1. Init => HInv /\ MayWait
  BY InitHolds DEF Init, MayWait
<1>2. HInv /\ MayWait /\ [SyntaxNext]_<<vars, treeVars>> => HInv' /\ MayWait' /\ [Yielding]_vars
  BY SyntaxStepHolds, EditYields
<1>3. HInv /\ MayWait => TypeOK /\ TextPreserved /\ CallersAgree /\ RematchesDescend
  BY InvariantSays
<1> QED
  BY <1>1, <1>2, <1>3, PTL DEF LiveSpec, SyntaxInit, TokensYieldToOverlap, Yielding
=============================================================================
