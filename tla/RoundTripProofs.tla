-------------------------- MODULE RoundTripProofs --------------------------
(***************************************************************************)
(* The proof that printTrace prints what was recorded: on a thread whose   *)
(* loops are even, the events that come out of the reader are those that   *)
(* went into the writer, in their order.  UnfoldedTraceProofs says what    *)
(* the grammar in the archive stands for, HtfPrintProofs what the reader's *)
(* call stack is; here the call stack is what is left of the unfolding.    *)
(***************************************************************************)
EXTENDS HtfPrintProofs, UnfoldedTraceProofs


-----------------------------------------------------------------------------
(* Part 1, what the call stack still has to read: a list of tokens *)

\* What follows the token under the cursor in the block of a frame.
RestOf(t, frame) ==
  IF frame.block.type = "Sequence"
  THEN LET s == SequenceAt(t, frame.block.id) IN SubSeq(s, frame.index + 2, Len(s))
  ELSE LET loop == t.loops[frame.block.id]
       IN  Times(loop.repeated_token, LastIterations(loop) - (frame.loop_iteration + 1))

\* lists[k] is what the frames up to k have after their cursors.
Follows(t, cs, lists) ==
  /\ lists \in [0..Len(cs) -> Seq(Token)]
  /\ lists[0] = <<>>
  /\ \A k \in 1..Len(cs) : lists[k] = RestOf(t, cs[k]) \o lists[k - 1]

Behind(t, cs, rest) == \E lists : Follows(t, cs, lists) /\ lists[Len(cs)] = rest

\* The list of the tokens that are left to read, the one under the cursor first.
Ahead(t, cs, list) ==
  IF cs = <<>> THEN list = <<>>
  ELSE \E rest \in Seq(Token) : Behind(t, cs, rest) /\ list = <<CurToken(t, cs)>> \o rest

\* The block of a frame is in the tables, and the cursor on one of its tokens.
OnBlock(t, frame) ==
  /\ frame \in Frame
  /\ HasToken(t, frame)
  /\ \/ frame.block.type = "Sequence" /\ frame.block.id \in 0..Len(t.sequences)
     \/ frame.block.type = "Loop" /\ frame.block.id \in DOMAIN t.loops

\* No token, a number of times that is not positive.
LEMMA NoTimes ==
  ASSUME NEW x, NEW n \in Int, n <= 0
  PROVE  Times(x, n) = <<>>
<1>1. 1..n = {}
  BY Z3
<1>2. Times(x, n) = [k \in {} |-> x]
  BY <1>1 DEF Times
<1>3. <<>> = [k \in {} |-> x]
  BY Z3
<1> QED BY <1>2, <1>3

\* Three lists of tokens after each other.
LEMMA ConcatThree ==
  ASSUME NEW r \in Seq(Token), NEW s \in Seq(Token), NEW t \in Seq(Token)
  PROVE  (r \o s) \o t = r \o (s \o t)
<1> DEFINE x == (r \o s) \o t
           y == r \o (s \o t)
           n == Len(r) + Len(s) + Len(t)
<1>1. r \o s \in Seq(Token) /\ s \o t \in Seq(Token)
  OBVIOUS
<1>2. x \in Seq(Token) /\ y \in Seq(Token)
  BY <1>1
<1>3. Len(x) = n /\ Len(y) = n /\ n \in Nat
  BY <1>1
<1>4. ASSUME NEW k \in 1..n
      PROVE  x[k] = y[k]
  <2>1. CASE k <= Len(r)
    <3>1. k \in 1..Len(r) /\ k \in 1..Len(r \o s)
      BY <1>1, <2>1
    <3>2. x[k] = (r \o s)[k] /\ (r \o s)[k] = r[k] /\ y[k] = r[k]
      BY <1>1, <3>1
    <3> QED BY <3>2
  <2>2. CASE k > Len(r) /\ k <= Len(r) + Len(s)
    <3>1. k - Len(r) \in 1..Len(s) /\ k \in 1..Len(r \o s) /\ k > Len(r)
      BY <1>1, <2>2
    <3>2. x[k] = (r \o s)[k] /\ (r \o s)[k] = s[k - Len(r)]
      BY <1>1, <3>1
    <3>3. y[k] = (s \o t)[k - Len(r)] /\ (s \o t)[k - Len(r)] = s[k - Len(r)]
      BY <1>1, <3>1, <1>3
    <3> QED BY <3>2, <3>3
  <2>3. CASE k > Len(r) + Len(s)
    <3> DEFINE j == k - Len(r) - Len(s)
    <3>1. j \in 1..Len(t) /\ j = (k - Len(r)) - Len(s) /\ j = k - Len(r \o s)
          /\ k > Len(r) /\ k - Len(r) > Len(s) /\ k > Len(r \o s)
      BY <1>1, <1>3, <2>3
    <3>2. x[k] = t[k - Len(r \o s)]
      BY <1>1, <1>3, <3>1
    <3>3. y[k] = (s \o t)[k - Len(r)] /\ (s \o t)[k - Len(r)] = t[(k - Len(r)) - Len(s)]
      BY <1>1, <1>3, <3>1
    <3> QED BY <3>1, <3>2, <3>3
  <2> QED BY <1>3, <2>1, <2>2, <2>3
<1> HIDE DEF x, y, n
<1>5. x = y
  BY <1>2, <1>3, <1>4
<1> QED BY <1>5 DEF x, y

\* The first of n + 1 times.
LEMMA TimesFirst ==
  ASSUME NEW x, NEW S, x \in S, NEW n \in Nat
  PROVE  /\ Times(x, n) \in Seq(S) /\ Len(Times(x, n)) = n
         /\ Times(x, n + 1) = <<x>> \o Times(x, n)
<1>1. /\ Times(x, n) \in Seq(S) /\ Len(Times(x, n)) = n
      /\ \A k \in 1..n : Times(x, n)[k] = x
  BY DEF Times
<1>2. /\ Times(x, n + 1) \in Seq(S) /\ Len(Times(x, n + 1)) = n + 1
      /\ \A k \in 1..(n + 1) : Times(x, n + 1)[k] = x
  BY DEF Times
<1> DEFINE a == Times(x, n)
           b == Times(x, n + 1)
<1> HIDE DEF a, b
<1>3. /\ <<x>> \o a \in Seq(S) /\ Len(<<x>> \o a) = n + 1
      /\ \A k \in 1..(n + 1) : (<<x>> \o a)[k] = x
  BY <1>1 DEF a
<1>4. b = <<x>> \o a
  BY <1>2, <1>3 DEF b
<1> QED BY <1>1, <1>4 DEF a, b

\* The last of the tokens of a thread's loop.
LEMMA LoopIterations ==
  ASSUME NEW t, IsWellFormed(t), NEW l \in DOMAIN t.loops
  PROVE  /\ LastIterations(t.loops[l]) \in Nat
         /\ t.loops[l].nb_iterations \in Seq(Nat)
         /\ t.loops[l].nb_iterations # <<>>
<1>1. t.loops \in Seq(Loop) /\ t.loops[l].nb_iterations # <<>>
  BY DEF IsWellFormed, Thread
<1>2. t.loops[l] \in Loop
  BY <1>1
<1> DEFINE s == t.loops[l].nb_iterations
<1>3. s \in Seq(Nat)
  BY <1>2 DEF Loop
<1> HIDE DEF s
<1>4. s # <<>>
  BY <1>1 DEF s
<1>5. s[Len(s)] \in Nat
  BY <1>3, <1>4
<1> QED BY <1>3, <1>4, <1>5 DEF s, LastIterations

\* What follows the cursor of a frame: nothing at the end of its block, and the
\* next token and what follows that before it.
LEMMA RestProps ==
  ASSUME NEW t, IsWellFormed(t), NEW frame, OnBlock(t, frame)
  PROVE  /\ RestOf(t, frame) \in Seq(Token)
         /\ TokenAt(t, frame) \in Token
         /\ IsAtEnd(t, frame) => RestOf(t, frame) = <<>>
         /\ ~IsAtEnd(t, frame) =>
              /\ OnBlock(t, Advance(frame))
              /\ RestOf(t, Advance(frame)) \in Seq(Token)
              /\ RestOf(t, frame) = <<TokenAt(t, Advance(frame))>> \o RestOf(t, Advance(frame))
<1> DEFINE next == Advance(frame)
<1>1. CASE frame.block.type = "Sequence"
  <2> DEFINE s == SequenceAt(t, frame.block.id)
             i == frame.index
  <2>1. frame.block.id \in 0..Len(t.sequences)
    BY <1>1 DEF OnBlock
  <2>2. s \in Seq(Token)
    BY <2>1, SequencesAreTyped
  <2>3. i \in Nat /\ i < Len(s)
    BY <1>1 DEF OnBlock, Frame, HasToken
  <2>4. /\ next \in Frame /\ next.block = frame.block /\ next.index = i + 1
    BY <1>1 DEF OnBlock, Frame, Advance
  <2>5. RestOf(t, frame) = SubSeq(s, i + 2, Len(s)) /\ TokenAt(t, frame) = s[i + 1]
    BY <1>1 DEF RestOf, TokenAt
  <2>6. RestOf(t, next) = SubSeq(s, i + 3, Len(s)) /\ TokenAt(t, next) = s[i + 2]
    <3>1. RestOf(t, next) = SubSeq(s, (i + 1) + 2, Len(s)) /\ TokenAt(t, next) = s[(i + 1) + 1]
      BY <1>1, <2>4 DEF RestOf, TokenAt
    <3>2. (i + 1) + 2 = i + 3 /\ (i + 1) + 1 = i + 2
      BY <2>3
    <3> QED BY <3>1, <3>2
  <2>7. IsAtEnd(t, frame) <=> i + 1 >= Len(s)
    BY <1>1 DEF IsAtEnd, IsEndOfSequence
  <2>8. i + 1 < Len(s) => OnBlock(t, next)
    BY <1>1, <2>4 DEF OnBlock, HasToken
  <2> HIDE DEF s, i, next
  <2>9. SubSeq(s, i + 2, Len(s)) \in Seq(Token) /\ s[i + 1] \in Token
    BY <2>2, <2>3
  <2>10. i + 1 >= Len(s) => SubSeq(s, i + 2, Len(s)) = <<>>
    BY <2>2, <2>3
  <2>11. ASSUME i + 1 < Len(s)
         PROVE  /\ SubSeq(s, i + 3, Len(s)) \in Seq(Token)
                /\ SubSeq(s, i + 2, Len(s)) = <<s[i + 2]>> \o SubSeq(s, i + 3, Len(s))
    BY <2>2, <2>3, <2>11
  <2>12. i + 1 >= Len(s) \/ i + 1 < Len(s)
    BY <2>2, <2>3
  <2> QED BY <2>5, <2>6, <2>7, <2>8, <2>9, <2>10, <2>11, <2>12 DEF next
<1>2. CASE frame.block.type = "Loop"
  <2> DEFINE l == frame.block.id
             body == t.loops[l].repeated_token
             m == LastIterations(t.loops[l])
             i == frame.loop_iteration
  <2>1. l \in DOMAIN t.loops
    BY <1>2 DEF OnBlock
  <2>2. body \in Token /\ m \in Nat
    BY <2>1, LoopsAreTyped, LoopIterations
  <2>3. i \in Nat
    BY DEF OnBlock, Frame
  <2>4. next \in Frame /\ next.block = frame.block /\ next.loop_iteration = i + 1
    BY <1>2 DEF OnBlock, Frame, Advance
  <2>5. RestOf(t, frame) = Times(body, m - (i + 1)) /\ TokenAt(t, frame) = body
    BY <1>2 DEF RestOf, TokenAt
  <2>6. RestOf(t, next) = Times(body, m - ((i + 1) + 1)) /\ TokenAt(t, next) = body
    BY <1>2, <2>4 DEF RestOf, TokenAt
  <2>7. IsAtEnd(t, frame) <=> i + 1 >= m
    BY <1>2 DEF IsAtEnd, IsEndOfLoop
  <2>8. OnBlock(t, next)
    BY <1>2, <2>1, <2>4 DEF OnBlock, HasToken
  <2> HIDE DEF l, body, m, i, next
  <2>9. i + 1 >= m => Times(body, m - (i + 1)) = <<>>
    <3>1. m - (i + 1) \in Int /\ (i + 1 >= m => m - (i + 1) <= 0)
      BY <2>2, <2>3
    <3> QED BY <3>1, NoTimes
  <2>10. ASSUME i + 1 < m
         PROVE  /\ Times(body, m - (i + 1)) \in Seq(Token)
                /\ Times(body, m - ((i + 1) + 1)) \in Seq(Token)
                /\ Times(body, m - (i + 1)) = <<body>> \o Times(body, m - ((i + 1) + 1))
    <3> DEFINE n == m - ((i + 1) + 1)
    <3>1. n \in Nat /\ m - (i + 1) = n + 1
      BY <2>2, <2>3, <2>10
    <3> HIDE DEF n
    <3>2. /\ Times(body, n) \in Seq(Token) /\ Times(body, n + 1) = <<body>> \o Times(body, n)
      BY <2>2, <3>1, TimesFirst
    <3>3. <<body>> \o Times(body, n) \in Seq(Token)
      BY <2>2, <3>2
    <3> QED BY <3>1, <3>2, <3>3 DEF n
  <2>11. i + 1 >= m \/ i + 1 < m
    BY <2>2, <2>3
  <2>12. <<>> \in Seq(Token)
    OBVIOUS
  <2> QED BY <2>2, <2>5, <2>6, <2>7, <2>8, <2>9, <2>10, <2>11, <2>12 DEF next
<1> QED BY <1>1, <1>2 DEF OnBlock

\* Every frame of a good stack is on a block.
LEMMA StackOnBlocks ==
  ASSUME NEW t, IsWellFormed(t), NEW cs, GoodStack(t, cs), NEW k \in 1..Len(cs)
  PROVE  OnBlock(t, cs[k])
<1>1. cs[k] \in Frame /\ HasToken(t, cs[k])
  BY ElementOfSeq DEF GoodStack
<1>2. t.sequences \in Seq(Seq(Token))
  BY DEF IsWellFormed, Thread
<1>3. CASE k = 1
  <2>1. cs[k].block = SequenceToken(0)
    BY <1>3 DEF GoodStack
  <2> QED BY <1>1, <1>2, <2>1 DEF OnBlock, SequenceToken
<1>4. CASE k > 1
  <2>1. cs[k].block \in TokensOf(t) /\ IsIterable(cs[k].block)
    BY <1>4 DEF GoodStack, WellPlaced
  <2>2. \/ cs[k].block.type = "Sequence" /\ cs[k].block.id \in 1..Len(t.sequences)
        \/ cs[k].block.type = "Loop" /\ cs[k].block.id \in DOMAIN t.loops
    BY <2>1, BlocksAreTyped
  <2> QED BY <1>1, <1>2, <2>2 DEF OnBlock
<1> QED BY <1>3, <1>4 DEF GoodStack

\* Frames at the end of their blocks have nothing left to read.
LEMMA AtEndFollows ==
  ASSUME NEW t, IsWellFormed(t), NEW cs, GoodStack(t, cs), NEW lists, Follows(t, cs, lists),
         NEW k \in 0..Len(cs), \A j \in (k + 1)..Len(cs) : IsAtEnd(t, cs[j])
  PROVE  lists[Len(cs)] = lists[k]
<1> DEFINE P == {n \in Nat : k + n <= Len(cs) => lists[k + n] = lists[k]}
<1>1. Len(cs) \in Nat
  BY DEF GoodStack
<1>2. 0 \in P
  OBVIOUS
<1>3. ASSUME NEW n \in Nat, n \in P
      PROVE  n + 1 \in P
  <2>1. SUFFICES ASSUME k + (n + 1) <= Len(cs)
                 PROVE  lists[k + (n + 1)] = lists[k]
    OBVIOUS
  <2> DEFINE j == k + (n + 1)
  <2>2. j \in 1..Len(cs) /\ j \in (k + 1)..Len(cs) /\ j - 1 = k + n /\ k + n <= Len(cs)
        /\ j - 1 \in 0..Len(cs)
    BY <1>1, <2>1
  <2> HIDE DEF j
  <2>3. RestOf(t, cs[j]) = <<>>
    BY <2>2, StackOnBlocks, RestProps
  <2>4. lists[j] = <<>> \o lists[j - 1] /\ lists[j - 1] \in Seq(Token)
    BY <2>2, <2>3 DEF Follows
  <2>5. lists[j] = lists[j - 1]
    BY <2>4
  <2>6. lists[k + n] = lists[k]
    BY <1>3, <2>2
  <2> QED BY <2>2, <2>5, <2>6 DEF j
<1> HIDE DEF P
<1>4. Nat \subseteq P
  BY <1>2, <1>3, SetInduction
<1>5. Len(cs) - k \in Nat /\ k + (Len(cs) - k) = Len(cs)
  BY <1>1
<1>6. Len(cs) - k \in P
  BY <1>4, <1>5
<1> QED BY <1>1, <1>5, <1>6 DEF P

\* A frame on top of the first m frames reads its block from its cursor on, and
\* then what they have left.
LEMMA OneMoreFrame ==
  ASSUME NEW t, IsWellFormed(t), NEW cs, GoodStack(t, cs), NEW lists, Follows(t, cs, lists),
         NEW m \in 0..Len(cs), NEW new \in Seq(Frame), Len(new) = m + 1,
         \A i \in 1..m : new[i] = cs[i], NEW f, new[m + 1] = f, OnBlock(t, f)
  PROVE  /\ Ahead(t, new, (<<TokenAt(t, f)>> \o RestOf(t, f)) \o lists[m])
         /\ (<<TokenAt(t, f)>> \o RestOf(t, f)) \o lists[m] \in Seq(Token)
<1> DEFINE r == RestOf(t, f)
           token == TokenAt(t, f)
           lists2 == [j \in 0..(m + 1) |-> IF j = m + 1 THEN r \o lists[m] ELSE lists[j]]
<1>1. Len(cs) \in Nat
  BY DEF GoodStack
<1>2. r \in Seq(Token) /\ token \in Token
  BY RestProps
<1>3. /\ \A j \in 0..Len(cs) : lists[j] \in Seq(Token)
      /\ lists[0] = <<>>
      /\ \A k \in 1..Len(cs) : lists[k] = RestOf(t, cs[k]) \o lists[k - 1]
  BY DEF Follows
<1> HIDE DEF r, token
<1>4. r \o lists[m] \in Seq(Token) /\ lists[m] \in Seq(Token)
  BY <1>2, <1>3
<1>5. lists2 \in [0..(m + 1) -> Seq(Token)]
  BY <1>1, <1>3, <1>4
<1>6. lists2[m + 1] = r \o lists[m] /\ \A j \in 0..m : lists2[j] = lists[j]
  BY <1>1
<1> HIDE DEF lists2
<1>7. ASSUME NEW k \in 1..(m + 1)
      PROVE  lists2[k] = RestOf(t, new[k]) \o lists2[k - 1]
  <2>1. CASE k = m + 1
    <3>1. k - 1 = m /\ m \in 0..m
      BY <1>1, <2>1
    <3> QED BY <1>6, <2>1, <3>1 DEF r
  <2>2. CASE k # m + 1
    <3>1. k \in 1..m /\ k - 1 \in 0..m /\ k \in 0..m /\ k \in 1..Len(cs)
      BY <1>1, <2>2
    <3> QED BY <1>3, <1>6, <3>1
  <2> QED BY <2>1, <2>2
<1>8. lists2[0] = <<>>
  BY <1>1, <1>3, <1>6
<1>9. Follows(t, new, lists2)
  BY <1>5, <1>7, <1>8 DEF Follows
<1>10. Behind(t, new, r \o lists[m])
  BY <1>6, <1>9 DEF Behind
<1>11. CurToken(t, new) = token /\ new # <<>>
  BY <1>1 DEF CurToken, CurFrame, token
<1>12. (<<token>> \o r) \o lists[m] = <<token>> \o (r \o lists[m])
  <2>1. <<token>> \in Seq(Token)
    BY <1>2
  <2> QED BY <1>2, <1>4, <2>1, ConcatThree
<1>13. (<<token>> \o r) \o lists[m] \in Seq(Token)
  BY <1>2, <1>4
<1>14. Ahead(t, new, <<token>> \o (r \o lists[m]))
  BY <1>4, <1>10, <1>11 DEF Ahead
<1> QED BY <1>12, <1>13, <1>14 DEF token, r

\* moveToNextToken goes on with what follows the cursor, wherever it is.
LEMMA MoveAhead ==
  ASSUME NEW t, IsWellFormed(t), NEW cs, GoodStack(t, cs), NEW rest, Behind(t, cs, rest)
  PROVE  Ahead(t, MoveToNextToken(t, cs), rest)
<1> DEFINE unfinished == {k \in DOMAIN cs : ~IsAtEnd(t, cs[k])}
<1>1. cs \in Seq(Frame) /\ Len(cs) \in Nat /\ DOMAIN cs = 1..Len(cs)
  BY DEF GoodStack
<1>2. PICK lists : Follows(t, cs, lists) /\ lists[Len(cs)] = rest
  BY DEF Behind
<1>3. CASE unfinished = {}
  <2>1. MoveToNextToken(t, cs) = <<>>
    BY <1>3 DEF MoveToNextToken
  <2>2. \A j \in (0 + 1)..Len(cs) : IsAtEnd(t, cs[j])
    BY <1>1, <1>3
  <2>3. lists[Len(cs)] = lists[0]
    <3>1. 0 \in 0..Len(cs)
      BY <1>1
    <3> QED BY <1>2, <2>2, <3>1, AtEndFollows
  <2>4. rest = <<>>
    BY <1>2, <2>3 DEF Follows
  <2> QED BY <2>1, <2>4 DEF Ahead
<1>4. CASE unfinished # {}
  <2>1. unfinished \in SUBSET (1..Len(cs))
    BY <1>1
  <2> HIDE DEF unfinished
  <2>2. \E k \in unfinished : \A j \in unfinished : j <= k
    BY <1>1, <1>4, <2>1, Greatest
  <2> DEFINE k == CHOOSE k \in unfinished : \A j \in unfinished : j <= k
  <2>3. k \in unfinished /\ \A j \in unfinished : j <= k
    BY <2>2
  <2>4. MoveToNextToken(t, cs) = Append(SubSeq(cs, 1, k - 1), Advance(cs[k]))
    BY <1>4 DEF MoveToNextToken, unfinished
  <2> HIDE DEF k
  <2>5. k \in 1..Len(cs) /\ ~IsAtEnd(t, cs[k])
    BY <1>1, <2>3 DEF unfinished
  <2>6. \A j \in (k + 1)..Len(cs) : IsAtEnd(t, cs[j])
    <3>1. SUFFICES ASSUME NEW j \in (k + 1)..Len(cs), ~IsAtEnd(t, cs[j])
                   PROVE  FALSE
      OBVIOUS
    <3>2. j \in 1..Len(cs) /\ ~(j <= k)
      BY <1>1, <2>5
    <3>3. j \in unfinished
      BY <1>1, <3>1, <3>2 DEF unfinished
    <3> QED BY <2>3, <3>2, <3>3
  <2> DEFINE f == Advance(cs[k])
             new == Append(SubSeq(cs, 1, k - 1), f)
             m == k - 1
  <2>7. /\ OnBlock(t, f) /\ RestOf(t, f) \in Seq(Token)
        /\ RestOf(t, cs[k]) = <<TokenAt(t, f)>> \o RestOf(t, f)
    BY <2>5, StackOnBlocks, RestProps
  <2> HIDE DEF f
  <2>8. f \in Frame
    BY <2>7 DEF OnBlock
  <2>9. new \in Seq(Frame) /\ Len(new) = k /\ new[k] = f /\ \A i \in 1..(k - 1) : new[i] = cs[i]
    BY <1>1, <2>5, <2>8, PrefixProps
  <2> HIDE DEF new
  <2>10. m \in 0..Len(cs) /\ m + 1 = k /\ k \in 0..Len(cs)
    BY <1>1, <2>5
  <2>11. Ahead(t, new, (<<TokenAt(t, f)>> \o RestOf(t, f)) \o lists[m])
    <3>1. Len(new) = m + 1 /\ new[m + 1] = f /\ \A i \in 1..m : new[i] = cs[i]
      BY <2>9, <2>10
    <3> HIDE DEF m
    <3> QED BY <1>2, <2>7, <2>9, <2>10, <3>1, OneMoreFrame
  <2>12. lists[k] = RestOf(t, cs[k]) \o lists[k - 1]
    BY <1>2, <2>5 DEF Follows
  <2>13. rest = lists[k]
    BY <1>2, <2>6, <2>10, AtEndFollows
  <2> QED BY <2>4, <2>7, <2>11, <2>12, <2>13 DEF f, new
<1> QED BY <1>3, <1>4

\* A block that is entered is read from its first token.
LEMMA EnterRest ==
  ASSUME NEW t, IsWellFormed(t), NEW id \in 0..Len(t.sequences)
  PROVE  LET f == NewFrame(SequenceToken(id))
         IN  /\ OnBlock(t, f)
             /\ <<TokenAt(t, f)>> \o RestOf(t, f) = SequenceAt(t, id)
<1> DEFINE f == NewFrame(SequenceToken(id))
           s == SequenceAt(t, id)
<1>1. Len(t.sequences) \in Nat
  BY DEF IsWellFormed, Thread
<1>2. s \in Seq(Token) /\ Len(s) > 0
  BY SequencesAreTyped
<1>3. f \in Frame /\ f.index = 0 /\ f.block.type = "Sequence" /\ f.block.id = id
  BY <1>1 DEF NewFrame, Frame, SequenceToken, Token, TokenType
<1> HIDE DEF f
<1>4. OnBlock(t, f)
  BY <1>2, <1>3 DEF OnBlock, HasToken
<1>5. TokenAt(t, f) = s[1] /\ RestOf(t, f) = SubSeq(s, 2, Len(s))
  BY <1>3 DEF TokenAt, RestOf
<1> HIDE DEF s
<1>6. <<s[1]>> \o SubSeq(s, 2, Len(s)) = s
  BY <1>2
<1> QED BY <1>4, <1>5, <1>6 DEF f, s

\* A loop that is entered has its body ahead as often as its last count says.
LEMMA EnterLoopRest ==
  ASSUME NEW t, IsWellFormed(t), NEW l \in DOMAIN t.loops, LastIterations(t.loops[l]) > 0,
         LoopToken(l) \in Token
  PROVE  LET f == NewFrame(LoopToken(l))
         IN  /\ OnBlock(t, f)
             /\ <<TokenAt(t, f)>> \o RestOf(t, f) =
                  Times(t.loops[l].repeated_token, LastIterations(t.loops[l]))
<1> DEFINE f == NewFrame(LoopToken(l))
           n == LastIterations(t.loops[l])
           body == t.loops[l].repeated_token
<1>1. n \in Nat /\ body \in Token
  BY LoopIterations, LoopsAreTyped
<1>2. f \in Frame /\ f.loop_iteration = 0 /\ f.block.type = "Loop" /\ f.block.id = l
  BY DEF NewFrame, Frame, LoopToken
<1> HIDE DEF f
<1>3. OnBlock(t, f)
  BY <1>2 DEF OnBlock, HasToken
<1>4. TokenAt(t, f) = body /\ RestOf(t, f) = Times(body, n - (0 + 1))
  BY <1>2 DEF TokenAt, RestOf
<1>5. n > 0
  OBVIOUS
<1> DEFINE m == n - 1
<1> HIDE DEF n, body
<1>6. m \in Nat /\ n = m + 1 /\ n - (0 + 1) = m
  BY <1>1, <1>5
<1> HIDE DEF m
<1>7. Times(body, m + 1) = <<body>> \o Times(body, m)
  BY <1>1, <1>6, TimesFirst
<1> QED BY <1>3, <1>4, <1>6, <1>7 DEF f, n, body

\* A block that is entered comes before what follows the cursor.
LEMMA EnterAhead ==
  ASSUME NEW t, IsWellFormed(t), NEW cs, GoodStack(t, cs), NEW rest, Behind(t, cs, rest),
         NEW token, OnBlock(t, NewFrame(token)),
         NEW block, block = <<TokenAt(t, NewFrame(token))>> \o RestOf(t, NewFrame(token))
  PROVE  Ahead(t, EnterBlock(cs, token), block \o rest)
<1> DEFINE f == NewFrame(token)
           new == EnterBlock(cs, token)
           m == Len(cs)
<1>1. cs \in Seq(Frame) /\ m \in Nat
  BY DEF GoodStack
<1>2. PICK lists : Follows(t, cs, lists) /\ lists[Len(cs)] = rest
  BY DEF Behind
<1>3. f \in Frame
  BY DEF OnBlock
<1>4. new = Append(cs, f)
  BY DEF EnterBlock
<1> HIDE DEF f, new
<1>5. new \in Seq(Frame) /\ Len(new) = m + 1 /\ new[m + 1] = f /\ \A i \in 1..m : new[i] = cs[i]
  BY <1>1, <1>3, <1>4
<1>6. m \in 0..Len(cs) /\ OnBlock(t, f) /\ block = <<TokenAt(t, f)>> \o RestOf(t, f)
  BY <1>1 DEF f
<1> HIDE DEF m
<1>7. Ahead(t, new, (<<TokenAt(t, f)>> \o RestOf(t, f)) \o lists[m])
  BY <1>2, <1>5, <1>6, OneMoreFrame
<1> QED BY <1>2, <1>6, <1>7 DEF new, m

\* The whole main sequence is ahead when the thread is opened.
LEMMA FirstAhead ==
  ASSUME NEW t, IsWellFormed(t)
  PROVE  Ahead(t, FirstCallstack, t.tokens)
<1> DEFINE f == NewFrame(SequenceToken(0))
           lists == [j \in 0..1 |-> IF j = 0 THEN <<>> ELSE RestOf(t, f)]
<1>1. t.sequences \in Seq(Seq(Token)) /\ t.tokens \in Seq(Token)
  BY DEF IsWellFormed, Thread
<1>2. 0 \in 0..Len(t.sequences)
  BY <1>1
<1>3. OnBlock(t, f) /\ <<TokenAt(t, f)>> \o RestOf(t, f) = SequenceAt(t, 0)
  BY <1>2, EnterRest
<1>4. SequenceAt(t, 0) = t.tokens
  BY DEF SequenceAt
<1>5. RestOf(t, f) \in Seq(Token)
  BY <1>3, RestProps
<1>6. FirstCallstack = <<f>>
  BY DEF FirstCallstack
<1> HIDE DEF f
<1>7. lists \in [0..1 -> Seq(Token)] /\ lists[0] = <<>> /\ lists[1] = RestOf(t, f)
  BY <1>5
<1> HIDE DEF lists
<1>8. Len(<<f>>) = 1 /\ <<f>> # <<>> /\ <<f>>[1] = f
  OBVIOUS
<1>9. RestOf(t, f) = RestOf(t, f) \o <<>>
  BY <1>5
<1>10. ASSUME NEW k \in 1..1
       PROVE  lists[k] = RestOf(t, <<f>>[k]) \o lists[k - 1]
  <2>1. k = 1 /\ k - 1 = 0
    OBVIOUS
  <2> QED BY <1>7, <1>8, <1>9, <2>1
<1>11. Follows(t, <<f>>, lists)
  BY <1>7, <1>8, <1>10 DEF Follows
<1>12. Behind(t, <<f>>, RestOf(t, f))
  BY <1>7, <1>8, <1>11 DEF Behind
<1>13. CurToken(t, <<f>>) = TokenAt(t, f)
  BY <1>8 DEF CurToken, CurFrame
<1> QED BY <1>3, <1>4, <1>5, <1>6, <1>8, <1>12, <1>13 DEF Ahead


-----------------------------------------------------------------------------
(* Part 2, how far the reading has come when a token has been read *)

GrammarOf(t) == [sequences |-> t.sequences, loops |-> t.loops, tokens |-> t.tokens]

\* The counts that are left of every loop are the last count of the loop.
EvenCounts(ls) ==
  {p \in Progress : \A l \in Nat : \A k \in 1..Len(Remaining(p, l)) :
     Remaining(p, l)[k] = LastIterations(ls[l])}

\* No step of a reading makes the counts uneven.
LEMMA EvenKept ==
  ASSUME NEW ls, NEW p \in EvenCounts(ls)
  PROVE  /\ \A id \in Nat : Meet(p, id) \in EvenCounts(ls)
         /\ \A n \in Nat \ {0} : Enter(p, n) \in EvenCounts(ls)
         /\ \A l \in Nat : Remaining(p, l) # <<>> => TakeCount(p, l) \in EvenCounts(ls)
<1>1. p \in Progress
  BY DEF EvenCounts
<1>2. ASSUME NEW id \in Nat
      PROVE  Meet(p, id) \in EvenCounts(ls)
  <2>1. Meet(p, id) \in Progress /\ Meet(p, id).left = p.left
    BY <1>1, MeetProps
  <2>2. \A l : Remaining(Meet(p, id), l) = Remaining(p, l)
    BY <2>1, SameRemaining
  <2> QED BY <2>1, <2>2 DEF EvenCounts
<1>3. ASSUME NEW n \in Nat \ {0}
      PROVE  Enter(p, n) \in EvenCounts(ls)
  <2>1. Enter(p, n) \in Progress /\ Enter(p, n).left = p.left
    BY <1>1, EnterProps
  <2>2. \A l : Remaining(Enter(p, n), l) = Remaining(p, l)
    BY <2>1, SameRemaining
  <2> QED BY <2>1, <2>2 DEF EvenCounts
<1>4. ASSUME NEW l \in Nat, Remaining(p, l) # <<>>
      PROVE  TakeCount(p, l) \in EvenCounts(ls)
  <2> DEFINE q == TakeCount(p, l)
  <2>1. q \in Progress
        /\ \A j : Remaining(q, j) = IF j = l THEN Tail(Remaining(p, l)) ELSE Remaining(p, j)
    BY <1>1, <1>4, TakeProps
  <2> HIDE DEF q
  <2>2. ASSUME NEW j \in Nat, NEW k \in 1..Len(Remaining(q, j))
        PROVE  Remaining(q, j)[k] = LastIterations(ls[j])
    <3>1. CASE j # l
      BY <1>1, <2>1, <3>1 DEF EvenCounts
    <3>2. CASE j = l
      <4> DEFINE s == Remaining(p, l)
      <4>1. s \in Seq(Nat) /\ s # <<>>
        BY <1>1, <1>4, RemainingType
      <4>2. Remaining(q, j) = Tail(s)
        BY <2>1, <3>2
      <4>3. \A i \in 1..Len(s) : s[i] = LastIterations(ls[l])
        BY DEF EvenCounts
      <4> HIDE DEF s
      <4>4. k + 1 \in 1..Len(s) /\ Tail(s)[k] = s[k + 1]
        BY <4>1, <4>2
      <4> QED BY <3>2, <4>2, <4>3, <4>4
    <3> QED BY <3>1, <3>2
  <2> QED BY <2>1, <2>2 DEF EvenCounts, q
<1> QED BY <1>2, <1>3, <1>4

\* s is what t begins with.
BeginsWith(t, s) == Len(s) <= Len(t) /\ \A k \in 1..Len(s) : t[k] = s[k]

\* q has at least what p has.
GoneOn(p, q) ==
  /\ BeginsWith(q.ids, p.ids)
  /\ \A n \in Nat : Count(q.entered, n) >= Count(p.entered, n)
  /\ \A i \in Nat : Occurrences(q.ids, i) >= Occurrences(p.ids, i)

\* What begins a sequence still begins it when something is appended.
LEMMA BeginsAppend ==
  ASSUME NEW s \in Seq(Nat), NEW t \in Seq(Nat), BeginsWith(t, s), NEW x \in Nat,
         NEW u, u = Append(t, x)
  PROVE  BeginsWith(u, s)
<1>1. Len(u) = Len(t) + 1 /\ \A k \in 1..Len(t) : u[k] = t[k]
  OBVIOUS
<1>2. Len(s) \in Nat /\ Len(t) \in Nat
  OBVIOUS
<1> QED BY <1>1, <1>2 DEF BeginsWith

\* Of i there is one more in u than in s if it is x, and as many if it is not.
OccursMore(s, u, i, x) ==
  /\ Occurrences(s, i) \in Nat
  /\ Occurrences(u, i) = Occurrences(s, i) + (IF i = x THEN 1 ELSE 0)
CountsMore(s, u, k, n) ==
  /\ Count(s, k) \in Nat
  /\ Count(u, k) = Count(s, k) + (IF k = n THEN 1 ELSE 0)

\* The occurrences in a sequence u that is s and one element more,
LEMMA OccursOnceMore ==
  ASSUME NEW s \in Seq(Nat), NEW x \in Nat, NEW u, u = Append(s, x), NEW i \in Nat
  PROVE  OccursMore(s, u, i, x)
BY OccurrencesAppend DEF OccursMore

\* and the counts in a vector u that is s with n counted up.
LEMMA CountedUp ==
  ASSUME NEW s \in Seq(Nat), NEW n \in Nat \ {0}, NEW u, u = CountUp(s, n), NEW k \in Nat
  PROVE  CountsMore(s, u, k, n)
BY CountUpProps DEF CountsMore

\* Nothing occurs less often in a sequence that has grown.
LEMMA OccurrencesGrow ==
  ASSUME NEW s \in Seq(Nat), NEW t \in Seq(Nat), NEW i \in Nat,
         Occurrences(t, i) >= Occurrences(s, i), NEW x \in Nat, NEW u, u = Append(t, x)
  PROVE  Occurrences(u, i) >= Occurrences(s, i)
<1>1. OccursMore(t, u, i, x)
  BY OccursOnceMore
<1>2. Occurrences(s, i) \in Nat
  BY OccurrencesAppend
<1> QED BY <1>1, <1>2 DEF OccursMore

\* Nor is it counted less often.
LEMMA CountGrows ==
  ASSUME NEW s \in Seq(Nat), NEW t \in Seq(Nat), NEW k \in Nat,
         Count(t, k) >= Count(s, k), NEW n \in Nat \ {0}, NEW u, u = CountUp(t, n)
  PROVE  Count(u, k) >= Count(s, k)
<1>1. CountsMore(t, u, k, n)
  BY CountedUp
<1>2. Count(s, k) \in Nat
  <2>1. \A i \in Nat : Count(s, i) \in Nat
    BY CountUpProps
  <2> QED BY <2>1
<1> QED BY <1>1, <1>2 DEF CountsMore

\* A reading forgets nothing, whatever it reads next.
LEMMA UniformGoesOn ==
  ASSUME NEW f, Uniform(f), NEW p \in Progress
  PROVE  f[p] \in Progress /\ GoneOn(p, f[p])
<1> DEFINE D == {q \in Progress : GoneOn(p, q)}
<1>1. p.ids \in Seq(Nat) /\ \A n \in Nat : Count(p.entered, n) \in Nat
  BY ProgressFields, CountType
<1>2. \A i \in Nat : Occurrences(p.ids, i) \in Nat
  BY <1>1, OccurrencesAppend
<1>3. ASSUME NEW q \in D, NEW id \in Nat
      PROVE  Meet(q, id) \in D
  <2> DEFINE r == Meet(q, id)
  <2>1. q \in Progress /\ GoneOn(p, q) /\ q.ids \in Seq(Nat)
    BY ProgressFields
  <2>2. r \in Progress /\ r.ids = Append(q.ids, id) /\ r.entered = q.entered
    BY <2>1, MeetProps
  <2> HIDE DEF r
  <2>3. BeginsWith(r.ids, p.ids)
    <3>1. BeginsWith(q.ids, p.ids)
      BY <2>1 DEF GoneOn
    <3> QED BY <1>1, <2>1, <2>2, <3>1, BeginsAppend
  <2>4. ASSUME NEW i \in Nat
        PROVE  Occurrences(r.ids, i) >= Occurrences(p.ids, i)
    <3>1. Occurrences(q.ids, i) >= Occurrences(p.ids, i)
      BY <2>1 DEF GoneOn
    <3> QED BY <1>1, <2>1, <2>2, <3>1, OccurrencesGrow
  <2>5. \A n \in Nat : Count(r.entered, n) >= Count(p.entered, n)
    BY <2>1, <2>2 DEF GoneOn
  <2>6. GoneOn(p, r)
    BY <2>3, <2>4, <2>5 DEF GoneOn
  <2> QED BY <2>2, <2>6 DEF r
<1>4. ASSUME NEW q \in D, NEW n \in Nat \ {0}
      PROVE  Enter(q, n) \in D
  <2> DEFINE r == Enter(q, n)
  <2>1. q \in Progress /\ GoneOn(p, q) /\ q.entered \in Seq(Nat)
    BY ProgressFields
  <2>2. r \in Progress /\ r.ids = q.ids /\ r.entered = CountUp(q.entered, n)
    BY <2>1, EnterProps
  <2> HIDE DEF r
  <2>3. ASSUME NEW k \in Nat
        PROVE  Count(r.entered, k) >= Count(p.entered, k)
    <3>1. Count(q.entered, k) >= Count(p.entered, k)
      BY <2>1 DEF GoneOn
    <3>2. p.entered \in Seq(Nat)
      BY ProgressFields
    <3> QED BY <2>1, <2>2, <3>1, <3>2, CountGrows
  <2>4. GoneOn(p, r)
    BY <2>1, <2>2, <2>3 DEF GoneOn
  <2> QED BY <2>2, <2>4 DEF r
<1>5. ASSUME NEW q \in D, NEW l \in Nat, Remaining(q, l) # <<>>
      PROVE  TakeCount(q, l) \in D
  <2> DEFINE r == TakeCount(q, l)
  <2>1. q \in Progress /\ GoneOn(p, q)
    OBVIOUS
  <2>2. r \in Progress /\ r.ids = q.ids /\ r.entered = q.entered
    BY <1>5, <2>1, TakeProps
  <2> HIDE DEF r
  <2>3. GoneOn(p, r)
    BY <2>1, <2>2 DEF GoneOn
  <2> QED BY <2>2, <2>3 DEF r
<1>6. p \in D
  <2>1. BeginsWith(p.ids, p.ids)
    BY <1>1 DEF BeginsWith
  <2>2. \A n \in Nat : Count(p.entered, n) >= Count(p.entered, n)
    BY <1>1
  <2>3. \A i \in Nat : Occurrences(p.ids, i) >= Occurrences(p.ids, i)
    BY <1>2
  <2> QED BY <2>1, <2>2, <2>3 DEF GoneOn
<1>7. D \subseteq Progress
  OBVIOUS
<1>8. D = {q \in Progress : GoneOn(p, q)}
  OBVIOUS
<1> HIDE DEF D
<1>9. Kept(D, Nat)
  BY <1>3, <1>4, <1>5, <1>7 DEF Kept
<1>10. f \in Keeps(D)
  BY <1>9, KeepsIsClosed DEF Uniform
<1>11. f[p] \in D
  BY <1>6, <1>10 DEF Keeps
<1> QED BY <1>8, <1>11

\* m copies of the token of sequence n read the sequence m times.
ReadsCopies(g, n, m, p) ==
  LET f == Entered(Reading(g, g.sequences[n]), n)
  IN  /\ Times(SequenceToken(n), m) \in Seq(Token)
      /\ Run(Times(f, m), p) \in Progress
      /\ Reading(g, Times(SequenceToken(n), m))[p] = Run(Times(f, m), p)

\* n copies of a sequence's token read the sequence n times.
LEMMA CopiesRead ==
  ASSUME NEW E, NEW S, NEW F, NEW g, GoodTables(E, S, F, g), NEW n \in 1..Len(g.sequences),
         NEW m \in Nat, NEW p \in Progress
  PROVE  ReadsCopies(g, n, m, p)
<1> DEFINE token == SequenceToken(n)
           f == Entered(Reading(g, g.sequences[n]), n)
           P == {k \in Nat : Reading(g, Times(token, k))[p] = Run(Times(f, k), p)}
<1>1. token \in Token
  BY BodiesProps DEF SequenceToken, Token, TokenType
<1>2. n \in Nat \ {0} /\ g.sequences[n] \in Seq(Token)
  BY BodiesProps, BlockTokens
<1>3. f \in Readings
  <2>1. Reading(g, g.sequences[n]) \in Readings
    BY <1>2, UniformReading, UniformReads
  <2>2. \A q \in Progress : Enter(q, n) \in Progress
    BY <1>2, EnterProps
  <2> QED BY <2>1, <2>2 DEF Entered, Readings
<1>4. \A q \in Progress : Reading(g, <<token>>)[q] = f[q]
  BY SequenceRead
<1> HIDE DEF token, f
<1>5. 0 \in P
  <2>1. Times(token, 0) = <<>> /\ Times(f, 0) = <<>>
    BY NoTimes
  <2>2. Reading(g, <<>>)[p] = p /\ Run(<<>>, p) = p
    BY EmptyRead, RunNothing
  <2> QED BY <2>1, <2>2
<1>6. ASSUME NEW k \in Nat, k \in P
      PROVE  k + 1 \in P
  <2> DEFINE ts == Times(token, k)
  <2>1. ts \in Seq(Token) /\ Times(token, k + 1) = <<token>> \o ts
    BY <1>1, TimesFirst
  <2>2. <<token>> \o ts = ts \o <<token>>
    <3>1. Len(ts) = k /\ \A j \in 1..k : ts[j] = token
      BY DEF Times
    <3> HIDE DEF ts
    <3> DEFINE a == <<token>> \o ts
               b == ts \o <<token>>
    <3>2. a \in Seq(Token) /\ Len(a) = k + 1 /\ \A j \in 1..(k + 1) : a[j] = token
      BY <1>1, <2>1, <3>1
    <3>3. b \in Seq(Token) /\ Len(b) = k + 1 /\ \A j \in 1..(k + 1) : b[j] = token
      BY <1>1, <2>1, <3>1
    <3> HIDE DEF a, b
    <3>4. a = b
      BY <3>2, <3>3
    <3> QED BY <3>4 DEF a, b
  <2> DEFINE one == <<token>>
  <2>3. one \in Seq(Token)
    BY <1>1
  <2> HIDE DEF one, ts
  <2>4. /\ Reading(g, ts)[p] \in Progress
        /\ Reading(g, ts \o one)[p] = Reading(g, one)[Reading(g, ts)[p]]
    BY <2>1, <2>3, ReadingSplits
  <2>5. Run(Times(f, k + 1), p) = f[Run(Times(f, k), p)]
    BY <1>3, OnceMore
  <2>6. Reading(g, ts)[p] = Run(Times(f, k), p)
    BY <1>6 DEF ts
  <2>7. Times(token, k + 1) = ts \o one /\ Reading(g, one)[Reading(g, ts)[p]] = f[Reading(g, ts)[p]]
    BY <1>4, <2>1, <2>2, <2>4 DEF one
  <2>8. Reading(g, Times(token, k + 1))[p] = Run(Times(f, k + 1), p)
    BY <2>4, <2>5, <2>6, <2>7
  <2> QED BY <2>8
<1> HIDE DEF P
<1>7. Nat \subseteq P
  BY <1>5, <1>6, SetInduction
<1>8. Reading(g, Times(token, m))[p] = Run(Times(f, m), p)
  BY <1>7 DEF P
<1>9. Times(token, m) \in Seq(Token)
  BY <1>1, TimesFirst
<1>10. Times(f, m) \in Seq(Readings)
  BY <1>3, TimesProps
<1>11. Run(Times(f, m), p) \in Progress
  BY <1>10, RunType
<1> QED BY <1>8, <1>9, <1>11 DEF token, f, ReadsCopies

\* An event that comes next is met, and the rest is read as it was to be.
LEMMA ReadOnEvent ==
  ASSUME NEW E, NEW S, NEW F, NEW g, GoodTables(E, S, F, g), NEW rest \in Seq(Token),
         NEW p \in Progress, NEW id \in Nat
  PROVE  Reading(g, <<EventToken(id)>> \o rest)[p] = Reading(g, rest)[Meet(p, id)]
<1> DEFINE one == <<EventToken(id)>>
<1>1. one \in Seq(Token)
  BY DEF EventToken, Token, TokenType
<1>2. Reading(g, one)[p] = Meet(p, id)
  BY EventRead
<1> HIDE DEF one
<1>3. Reading(g, one \o rest)[p] = Reading(g, rest)[Reading(g, one)[p]]
  BY <1>1, ReadingSplits
<1> QED BY <1>2, <1>3 DEF one

\* A call that comes next is entered: its tokens come next.
LEMMA ReadOnSequence ==
  ASSUME NEW E, NEW S, NEW F, NEW g, GoodTables(E, S, F, g), NEW rest \in Seq(Token),
         NEW p \in Progress, NEW n \in 1..Len(g.sequences)
  PROVE  /\ g.sequences[n] \in Seq(Token)
         /\ Reading(g, <<SequenceToken(n)>> \o rest)[p] =
              Reading(g, g.sequences[n] \o rest)[Enter(p, n)]
<1> DEFINE one == <<SequenceToken(n)>>
           b == g.sequences[n]
<1>1. n \in Nat \ {0} /\ b \in Seq(Token)
  BY BodiesProps, BlockTokens
<1>2. one \in Seq(Token)
  BY <1>1 DEF SequenceToken, Token, TokenType
<1>3. Reading(g, one)[p] = Entered(Reading(g, b), n)[p]
  BY SequenceRead
<1> HIDE DEF one, b
<1>4. Reading(g, one \o rest)[p] = Reading(g, rest)[Reading(g, one)[p]]
  BY <1>2, ReadingSplits
<1>5. Entered(Reading(g, b), n)[p] = Reading(g, b)[Enter(p, n)]
  BY DEF Entered
<1>6. Enter(p, n) \in Progress
  BY <1>1, EnterProps
<1>7. Reading(g, b \o rest)[Enter(p, n)] = Reading(g, rest)[Reading(g, b)[Enter(p, n)]]
  BY <1>1, <1>6, ReadingSplits
<1> QED BY <1>1, <1>3, <1>4, <1>5, <1>7 DEF one, b

\* A loop that comes next takes its next count, and has its body as often before
\* the rest.
LEMMA ReadOnLoop ==
  ASSUME NEW E, NEW S, NEW F, NEW g, GoodTables(E, S, F, g), NEW rest \in Seq(Token),
         NEW p \in Progress, NEW l \in 1..Len(g.loops),
         Clean(Reading(g, <<LoopToken(l)>> \o rest)[p])
  PROVE  LET n == BodiesOf(g)[l]
             m == Head(Remaining(p, l))
         IN  /\ Remaining(p, l) # <<>> /\ m \in Nat
             /\ n \in 1..Len(g.sequences)
             /\ Times(SequenceToken(n), m) \in Seq(Token)
             /\ Reading(g, <<LoopToken(l)>> \o rest)[p] =
                  Reading(g, Times(SequenceToken(n), m) \o rest)[TakeCount(p, l)]
<1> DEFINE one == <<LoopToken(l)>>
           n == BodiesOf(g)[l]
           m == Head(Remaining(p, l))
           b == Reading(g, g.sequences[n])
           f == Entered(b, n)
           met == LoopMeaning(l, f)
           copies == Times(SequenceToken(n), m)
           u == Reading(g, copies \o rest)[p]
<1>1. l \in Nat /\ n \in 1..Len(g.sequences) /\ n \in Nat \ {0}
  BY BodiesProps
<1>2. one \in Seq(Token)
  BY <1>1 DEF LoopToken, Token, TokenType
<1>3. Reading(g, one)[p] = met[p]
  BY LoopRead
<1>4. Without(l, b)
  BY BodyWithout
<1> HIDE DEF one, b
<1>5. Without(l, f) /\ f \in Readings
  BY <1>1, <1>4, EnteredProps
<1> HIDE DEF f
<1>6. Reading(g, one \o rest)[p] = Reading(g, rest)[Reading(g, one)[p]] /\ Reading(g, one)[p] \in Progress
  BY <1>2, ReadingSplits
<1>7. Clean(met[p])
  <2>1. Uniform(Reading(g, rest))
    BY UniformReading
  <2>2. Clean(Reading(g, rest)[met[p]])
    BY <1>3, <1>6 DEF one
  <2> QED BY <1>3, <1>6, <2>1, <2>2, UncleanStays
<1>8. /\ Remaining(p, l) # <<>> /\ m \in Nat
      /\ met[p] = Run(Times(f, m), TakeCount(p, l))
  BY <1>1, <1>5, <1>7, LoopMet
<1>9. TakeCount(p, l) \in Progress
  BY <1>8, TakeProps
<1> HIDE DEF met, m, n
<1>10. /\ copies \in Seq(Token)
       /\ Reading(g, copies)[TakeCount(p, l)] = Run(Times(f, m), TakeCount(p, l))
  BY <1>1, <1>8, <1>9, CopiesRead DEF ReadsCopies, f, b
<1> HIDE DEF copies
<1>11. Reading(g, copies \o rest)[TakeCount(p, l)] = Reading(g, rest)[Reading(g, copies)[TakeCount(p, l)]]
  BY <1>9, <1>10, ReadingSplits
<1> QED BY <1>1, <1>3, <1>6, <1>8, <1>10, <1>11 DEF one, copies, m, n


-----------------------------------------------------------------------------
(* Part 3, the steps of the reader *)

\* The counts of the reader are those of the reading p.
Counts(t, p, tc) ==
  /\ tc \in [TokensOf(t) -> Nat]
  /\ \A i \in DOMAIN t.nb_occurences : tc[EventToken(i)] = Occurrences(p.ids, i)
  /\ \A n \in DOMAIN t.sequences : tc[SequenceToken(n)] = Count(p.entered, n)
  /\ \A l \in DOMAIN t.loops :
       tc[LoopToken(l)] + Len(Remaining(p, l)) = Len(t.loops[l].nb_iterations)

\* The reader has read ids of the trace that u stands for, and what is left is
\* the rest of it.
Replaying(t, cs, tc, ids, u) ==
  \E p \in EvenCounts(t.loops) : \E list \in Seq(Token) :
    /\ p.ids = ids
    /\ Ahead(t, cs, list)
    /\ Reading(GrammarOf(t), list)[p] = u
    /\ Counts(t, p, tc)

\* There is an occurrence in the thread for all that u has met and entered.
Stores(t, u) ==
  /\ u \in Progress /\ Exact(u)
  /\ \A i \in DOMAIN t.nb_occurences : t.nb_occurences[i] = Occurrences(u.ids, i)
  /\ \A n \in DOMAIN t.sequences : t.nb_durations[n] = Count(u.entered, n)

\* A thread that can be read, with the tables that a writer makes.
Written(E, S, F, t) == IsWellFormed(t) /\ GoodTables(E, S, F, GrammarOf(t))

\* The tokens of a thread and their numbers.
LEMMA TokenKinds ==
  ASSUME NEW t, IsWellFormed(t), NEW token \in TokensOf(t)
  PROVE  /\ token.id \in Nat
         /\ token.type = "Event" =>
              token = EventToken(token.id) /\ token.id \in DOMAIN t.nb_occurences
         /\ token.type = "Sequence" =>
              token = SequenceToken(token.id) /\ token.id \in 1..Len(t.sequences)
         /\ token.type = "Loop" =>
              token = LoopToken(token.id) /\ token.id \in 1..Len(t.loops)
<1>1. /\ DOMAIN t.sequences = 1..Len(t.sequences)
      /\ DOMAIN t.loops = 1..Len(t.loops)
      /\ DOMAIN t.nb_occurences \subseteq Nat
  BY DEF IsWellFormed, Thread
<1>2. CASE \E i \in DOMAIN t.nb_occurences : token = EventToken(i)
  BY <1>1, <1>2 DEF EventToken
<1>3. CASE \E n \in DOMAIN t.sequences : token = SequenceToken(n)
  BY <1>1, <1>3 DEF SequenceToken
<1>4. CASE \E l \in DOMAIN t.loops : token = LoopToken(l)
  BY <1>1, <1>4 DEF LoopToken
<1> QED BY <1>2, <1>3, <1>4 DEF TokensOf

\* The counts when a token was counted: one more of it, and all others as before.
LEMMA CountTokenIs ==
  ASSUME NEW T, NEW tc \in [T -> Nat], NEW token \in T
  PROVE  /\ CountToken(tc, token) \in [T -> Nat]
         /\ CountToken(tc, token)[token] = tc[token] + 1
         /\ \A x \in T : x # token => CountToken(tc, token)[x] = tc[x]
BY DEF CountToken, CountTokens

\* A token that is counted when it is read keeps the counts right: an event,
LEMMA CountsEvent ==
  ASSUME NEW t, IsWellFormed(t), NEW p \in Progress, NEW tc, Counts(t, p, tc),
         NEW i \in DOMAIN t.nb_occurences
  PROVE  Counts(t, Meet(p, i), CountToken(tc, EventToken(i)))
<1> DEFINE q == Meet(p, i)
           token == EventToken(i)
           tc2 == CountToken(tc, token)
<1>1. i \in Nat /\ \A k \in DOMAIN t.nb_occurences : k \in Nat
  BY DEF IsWellFormed, Thread
<1>2. q.ids = Append(p.ids, i) /\ q.left = p.left /\ q.entered = p.entered /\ p.ids \in Seq(Nat)
  BY <1>1, MeetProps, ProgressFields
<1>3. \A l : Remaining(q, l) = Remaining(p, l)
  BY <1>2, SameRemaining
<1>4. tc \in [TokensOf(t) -> Nat] /\ token \in TokensOf(t)
  BY DEF Counts, TokensOf
<1>5. /\ tc2 \in [TokensOf(t) -> Nat] /\ tc2[token] = tc[token] + 1
      /\ \A x \in TokensOf(t) : x # token => tc2[x] = tc[x]
  BY <1>4, CountTokenIs
<1> HIDE DEF q, tc2
<1>6. ASSUME NEW k \in DOMAIN t.nb_occurences
      PROVE  tc2[EventToken(k)] = Occurrences(q.ids, k)
  <2>1. OccursMore(p.ids, q.ids, k, i)
    BY <1>1, <1>2, OccursOnceMore
  <2>2. tc[EventToken(k)] = Occurrences(p.ids, k) /\ EventToken(k) \in TokensOf(t)
    BY DEF Counts, TokensOf
  <2>3. k # i => EventToken(k) # token
    BY DEF EventToken
  <2> QED BY <1>5, <2>1, <2>2, <2>3 DEF OccursMore
<1>7. ASSUME NEW n \in DOMAIN t.sequences
      PROVE  tc2[SequenceToken(n)] = Count(q.entered, n)
  <2>1. tc[SequenceToken(n)] = Count(p.entered, n) /\ SequenceToken(n) \in TokensOf(t)
    BY DEF Counts, TokensOf
  <2>2. SequenceToken(n) # token
    BY DEF SequenceToken, EventToken
  <2> QED BY <1>2, <1>5, <2>1, <2>2
<1>8. ASSUME NEW l \in DOMAIN t.loops
      PROVE  tc2[LoopToken(l)] + Len(Remaining(q, l)) = Len(t.loops[l].nb_iterations)
  <2>1. /\ tc[LoopToken(l)] + Len(Remaining(p, l)) = Len(t.loops[l].nb_iterations)
        /\ LoopToken(l) \in TokensOf(t)
    BY DEF Counts, TokensOf
  <2>2. LoopToken(l) # token
    BY DEF LoopToken, EventToken
  <2>3. tc2[LoopToken(l)] = tc[LoopToken(l)]
    BY <1>5, <2>1, <2>2
  <2> QED BY <1>3, <2>1, <2>3
<1> QED BY <1>5, <1>6, <1>7, <1>8 DEF Counts, q, tc2

\* a sequence,
LEMMA CountsSequence ==
  ASSUME NEW t, IsWellFormed(t), NEW p \in Progress, NEW tc, Counts(t, p, tc),
         NEW m \in DOMAIN t.sequences
  PROVE  Counts(t, Enter(p, m), CountToken(tc, SequenceToken(m)))
<1> DEFINE q == Enter(p, m)
           token == SequenceToken(m)
           tc2 == CountToken(tc, token)
<1>1. m \in Nat \ {0} /\ \A k \in DOMAIN t.sequences : k \in Nat
  BY DEF IsWellFormed, Thread
<1>2. q.ids = p.ids /\ q.left = p.left /\ q.entered = CountUp(p.entered, m) /\ p.entered \in Seq(Nat)
  BY <1>1, EnterProps, ProgressFields
<1>3. \A l : Remaining(q, l) = Remaining(p, l)
  <2>1. q.left = p.left
    BY <1>2
  <2> HIDE DEF q
  <2> QED BY <2>1, SameRemaining
<1>4. tc \in [TokensOf(t) -> Nat] /\ token \in TokensOf(t)
  BY DEF Counts, TokensOf
<1>5. /\ tc2 \in [TokensOf(t) -> Nat] /\ tc2[token] = tc[token] + 1
      /\ \A x \in TokensOf(t) : x # token => tc2[x] = tc[x]
  BY <1>4, CountTokenIs
<1> HIDE DEF q, tc2
<1>6. ASSUME NEW k \in DOMAIN t.nb_occurences
      PROVE  tc2[EventToken(k)] = Occurrences(q.ids, k)
  <2>1. tc[EventToken(k)] = Occurrences(p.ids, k) /\ EventToken(k) \in TokensOf(t)
    BY DEF Counts, TokensOf
  <2>2. EventToken(k) # token
    BY DEF EventToken, SequenceToken
  <2> QED BY <1>2, <1>5, <2>1, <2>2
<1>7. ASSUME NEW n \in DOMAIN t.sequences
      PROVE  tc2[SequenceToken(n)] = Count(q.entered, n)
  <2>1. n \in Nat
    BY <1>1
  <2>2. tc[SequenceToken(n)] = Count(p.entered, n) /\ SequenceToken(n) \in TokensOf(t)
    BY DEF Counts, TokensOf
  <2>3. n # m => SequenceToken(n) # token
    BY DEF SequenceToken
  <2>4. CountsMore(p.entered, q.entered, n, m)
    BY <1>1, <1>2, <2>1, CountedUp
  <2> QED BY <1>5, <2>2, <2>3, <2>4 DEF CountsMore
<1>8. ASSUME NEW l \in DOMAIN t.loops
      PROVE  tc2[LoopToken(l)] + Len(Remaining(q, l)) = Len(t.loops[l].nb_iterations)
  <2>1. /\ tc[LoopToken(l)] + Len(Remaining(p, l)) = Len(t.loops[l].nb_iterations)
        /\ LoopToken(l) \in TokensOf(t)
    BY DEF Counts, TokensOf
  <2>2. LoopToken(l) # token
    BY DEF LoopToken, SequenceToken
  <2>3. tc2[LoopToken(l)] = tc[LoopToken(l)]
    BY <1>5, <2>1, <2>2
  <2> QED BY <1>3, <2>1, <2>3
<1> QED BY <1>5, <1>6, <1>7, <1>8 DEF Counts, q, tc2

\* and a loop, of which one count is used.
LEMMA CountsLoop ==
  ASSUME NEW t, IsWellFormed(t), NEW p \in Progress, NEW tc, Counts(t, p, tc),
         NEW m \in DOMAIN t.loops, Remaining(p, m) # <<>>
  PROVE  Counts(t, TakeCount(p, m), CountToken(tc, LoopToken(m)))
<1> DEFINE q == TakeCount(p, m)
           token == LoopToken(m)
           tc2 == CountToken(tc, token)
<1>2. /\ q.ids = p.ids /\ q.entered = p.entered
      /\ \A l : Remaining(q, l) = IF l = m THEN Tail(Remaining(p, m)) ELSE Remaining(p, l)
  BY TakeProps
<1>3. Remaining(p, m) \in Seq(Nat)
  BY RemainingType
<1>4. tc \in [TokensOf(t) -> Nat] /\ token \in TokensOf(t)
  BY DEF Counts, TokensOf
<1>5. /\ tc2 \in [TokensOf(t) -> Nat] /\ tc2[token] = tc[token] + 1
      /\ \A x \in TokensOf(t) : x # token => tc2[x] = tc[x]
  BY <1>4, CountTokenIs
<1> HIDE DEF q, tc2
<1>6. ASSUME NEW k \in DOMAIN t.nb_occurences
      PROVE  tc2[EventToken(k)] = Occurrences(q.ids, k)
  <2>1. tc[EventToken(k)] = Occurrences(p.ids, k) /\ EventToken(k) \in TokensOf(t)
    BY DEF Counts, TokensOf
  <2>2. EventToken(k) # token
    BY DEF EventToken, LoopToken
  <2> QED BY <1>2, <1>5, <2>1, <2>2
<1>7. ASSUME NEW n \in DOMAIN t.sequences
      PROVE  tc2[SequenceToken(n)] = Count(q.entered, n)
  <2>1. tc[SequenceToken(n)] = Count(p.entered, n) /\ SequenceToken(n) \in TokensOf(t)
    BY DEF Counts, TokensOf
  <2>2. SequenceToken(n) # token
    BY DEF SequenceToken, LoopToken
  <2> QED BY <1>2, <1>5, <2>1, <2>2
<1>8. ASSUME NEW l \in DOMAIN t.loops
      PROVE  tc2[LoopToken(l)] + Len(Remaining(q, l)) = Len(t.loops[l].nb_iterations)
  <2>1. /\ tc[LoopToken(l)] + Len(Remaining(p, l)) = Len(t.loops[l].nb_iterations)
        /\ LoopToken(l) \in TokensOf(t)
    BY DEF Counts, TokensOf
  <2>2. CASE l # m
    <3>1. LoopToken(l) # token
      BY <2>2 DEF LoopToken
    <3>2. tc2[LoopToken(l)] = tc[LoopToken(l)]
      BY <1>5, <2>1, <3>1
    <3>3. Remaining(q, l) = Remaining(p, l)
      BY <1>2, <2>2
    <3> QED BY <2>1, <3>2, <3>3
  <2>3. CASE l = m
    <3>1. Remaining(q, l) = Tail(Remaining(p, l))
      BY <1>2, <2>3
    <3> DEFINE s == Remaining(p, l)
    <3>2. s \in Seq(Nat) /\ s # <<>>
      BY <1>3, <2>3
    <3> HIDE DEF s
    <3>3. Len(Tail(s)) = Len(s) - 1 /\ Len(s) \in Nat
      BY <3>2
    <3>4. tc2[LoopToken(l)] = tc[LoopToken(l)] + 1
      BY <1>5, <2>3
    <3>5. tc[LoopToken(l)] \in Nat
      BY <1>4, <2>1
    <3>6. tc[LoopToken(l)] + Len(s) = Len(t.loops[l].nb_iterations) /\ Remaining(q, l) = Tail(s)
      BY <2>1, <3>1 DEF s
    <3>7. Len(Remaining(q, l)) = Len(s) - 1
      BY <3>3, <3>6
    <3> DEFINE a == tc[LoopToken(l)]
               b == Len(s)
    <3>8. a \in Nat /\ b \in Nat
      BY <3>3, <3>5
    <3>9. tc2[LoopToken(l)] = a + 1 /\ a + b = Len(t.loops[l].nb_iterations)
      BY <3>4, <3>6
    <3> HIDE DEF a, b
    <3>10. (a + 1) + (b - 1) = a + b
      BY <3>8
    <3> QED BY <3>7, <3>9, <3>10 DEF b
  <2> QED BY <2>2, <2>3
<1> QED BY <1>5, <1>6, <1>7, <1>8 DEF Counts, q, tc2


\* What is left to read only adds to what has been read.
LEMMA RestGoesOn ==
  ASSUME NEW E, NEW S, NEW F, NEW g, GoodTables(E, S, F, g), NEW list \in Seq(Token),
         NEW p \in Progress, NEW u, Reading(g, list)[p] = u
  PROVE  u \in Progress /\ GoneOn(p, u)
<1>1. Uniform(Reading(g, list))
  BY UniformReading
<1> QED BY <1>1, UniformGoesOn

\* A sequence that is read m times is entered m times, or more.
LEMMA TimesEnter ==
  ASSUME NEW E, NEW S, NEW F, NEW g, GoodTables(E, S, F, g), NEW n \in 1..Len(g.sequences),
         NEW m \in Nat, NEW p \in Progress
  PROVE  LET f == Entered(Reading(g, g.sequences[n]), n)
         IN  Count(Run(Times(f, m), p).entered, n) >= Count(p.entered, n) + m
<1> DEFINE b == Reading(g, g.sequences[n])
           f == Entered(b, n)
           c == Count(p.entered, n)
           P == {k \in Nat : Count(Run(Times(f, k), p).entered, n) >= c + k}
<1>1. n \in Nat \ {0} /\ g.sequences[n] \in Seq(Token)
  BY BodiesProps, BlockTokens
<1>2. Uniform(b)
  BY <1>1, UniformReading
<1>3. f \in Readings
  <2>1. b \in Readings
    BY <1>2, UniformReads
  <2>2. \A q \in Progress : Enter(q, n) \in Progress
    BY <1>1, EnterProps
  <2> QED BY <2>1, <2>2 DEF Entered, Readings
<1>4. c \in Nat
  BY CountType
<1>5. \A q \in Progress : f[q] = b[Enter(q, n)]
  BY DEF Entered
<1> HIDE DEF b, f
<1>6. 0 \in P
  <2>1. Times(f, 0) = <<>>
    BY NoTimes
  <2>2. Run(Times(f, 0), p) = p
    BY <2>1, RunNothing
  <2>3. c >= c + 0
    BY <1>4
  <2>4. Count(Run(Times(f, 0), p).entered, n) = c
    BY <2>2
  <2> QED BY <2>3, <2>4
<1>7. ASSUME NEW k \in Nat, k \in P
      PROVE  k + 1 \in P
  <2> DEFINE r == Run(Times(f, k), p)
  <2>1. r \in Progress
    <3>1. Times(f, k) \in Seq(Readings)
      BY <1>3, TimesProps
    <3> QED BY <3>1, RunType
  <2>2. Run(Times(f, k + 1), p) = f[r]
    BY <1>3, OnceMore
  <2>3. Count(r.entered, n) >= c + k
    BY <1>7
  <2> HIDE DEF r
  <2> DEFINE q == Enter(r, n)
  <2>4. q \in Progress /\ q.entered = CountUp(r.entered, n) /\ r.entered \in Seq(Nat)
    BY <1>1, <2>1, EnterProps, ProgressFields
  <2> HIDE DEF q
  <2>5. CountsMore(r.entered, q.entered, n, n)
    BY <1>1, <2>4, CountedUp
  <2>6. f[r] = b[q]
    BY <1>5, <2>1 DEF q
  <2>7. b[q] \in Progress /\ GoneOn(q, b[q])
    BY <1>2, <2>4, UniformGoesOn
  <2>8. Count(b[q].entered, n) >= Count(q.entered, n)
    BY <1>1, <2>7 DEF GoneOn
  <2>9. Count(b[q].entered, n) \in Nat
    BY <2>7, CountType
  <2>10. Count(b[q].entered, n) >= c + (k + 1)
    BY <1>4, <2>3, <2>5, <2>8, <2>9 DEF CountsMore
  <2>11. Count(Run(Times(f, k + 1), p).entered, n) >= c + (k + 1)
    BY <2>2, <2>6, <2>10
  <2> QED BY <2>11
<1> HIDE DEF P
<1>8. Nat \subseteq P
  BY <1>6, <1>7, SetInduction
<1>9. Count(Run(Times(f, m), p).entered, n) >= c + m
  BY <1>8 DEF P
<1> QED BY <1>9 DEF f, b

\* The list that is ahead of a stack that is not empty.
LEMMA AheadProps ==
  ASSUME NEW t, IsWellFormed(t), NEW cs, GoodStack(t, cs), cs # <<>>, NEW list, Ahead(t, cs, list)
  PROVE  \E rest \in Seq(Token) : Behind(t, cs, rest) /\ list = <<CurToken(t, cs)>> \o rest
BY DEF Ahead

\* The parts of the grammar of a thread.
LEMMA GrammarProps ==
  ASSUME NEW t
  PROVE  /\ GrammarOf(t).sequences = t.sequences
         /\ GrammarOf(t).loops = t.loops
         /\ GrammarOf(t).tokens = t.tokens
BY DEF GrammarOf

\* An event that is next has an occurrence, is the next that u has met, and when
\* it is printed the rest of u is left.
LEMMA EventIsNext ==
  ASSUME NEW E, NEW S, NEW F, NEW t, Written(E, S, F, t), NEW u, Stores(t, u),
         NEW cs, GoodStack(t, cs), cs # <<>>, NEW tc, NEW ids, Replaying(t, cs, tc, ids, u),
         CurToken(t, cs).type = "Event"
  PROVE  LET token == CurToken(t, cs)
         IN  /\ HasOccurence(t, tc, token)
             /\ token.id \in DOMAIN t.nb_occurences
             /\ BeginsWith(u.ids, Append(ids, token.id))
             /\ Replaying(t, MoveToNextToken(t, cs), CountToken(tc, token),
                          Append(ids, token.id), u)
<1> DEFINE token == CurToken(t, cs)
           i == token.id
           g == GrammarOf(t)
<1>1. IsWellFormed(t) /\ GoodTables(E, S, F, g)
  BY DEF Written
<1>2. token \in TokensOf(t)
  <2>1. Len(cs) \in 1..Len(cs)
    BY DEF GoodStack
  <2> QED BY <1>1, <2>1, CurTokenProps DEF CurToken, CurFrame
<1>3. i \in Nat /\ i \in DOMAIN t.nb_occurences /\ token = EventToken(i)
  BY <1>1, <1>2, TokenKinds
<1>4. PICK p \in EvenCounts(t.loops) : \E list \in Seq(Token) :
        /\ p.ids = ids
        /\ Ahead(t, cs, list)
        /\ Reading(g, list)[p] = u
        /\ Counts(t, p, tc)
  BY DEF Replaying
<1>5. PICK list \in Seq(Token) : Ahead(t, cs, list) /\ Reading(g, list)[p] = u
  BY <1>4
<1>6. PICK rest \in Seq(Token) : Behind(t, cs, rest) /\ list = <<token>> \o rest
  BY <1>1, <1>5, AheadProps
<1>7. p \in Progress
  BY DEF EvenCounts
<1> HIDE DEF token, g, i
<1> DEFINE q == Meet(p, i)
<1>8. q \in EvenCounts(t.loops) /\ q \in Progress /\ q.ids = Append(ids, i)
  BY <1>3, <1>4, <1>7, EvenKept, MeetProps
<1>9. Reading(g, rest)[q] = u
  BY <1>1, <1>3, <1>5, <1>6, <1>7, ReadOnEvent
<1>10. Ahead(t, MoveToNextToken(t, cs), rest)
  BY <1>1, <1>6, MoveAhead
<1>11. Counts(t, q, CountToken(tc, token))
  BY <1>1, <1>3, <1>4, <1>7, CountsEvent
<1>12. OccursMore(p.ids, q.ids, i, i)
  <2>1. p.ids \in Seq(Nat) /\ q.ids = Append(p.ids, i)
    BY <1>4, <1>7, <1>8, ProgressFields
  <2> QED BY <1>3, <2>1, OccursOnceMore
<1> HIDE DEF q
<1>13. Replaying(t, MoveToNextToken(t, cs), CountToken(tc, token), Append(ids, i), u)
  BY <1>8, <1>9, <1>10, <1>11 DEF Replaying, g
<1>14. u \in Progress /\ GoneOn(q, u)
  BY <1>1, <1>8, <1>9, RestGoesOn
<1>15. BeginsWith(u.ids, Append(ids, i))
  BY <1>8, <1>14 DEF GoneOn
<1>16. tc[token] < t.nb_occurences[i]
  <2>1. tc[token] = Occurrences(p.ids, i)
    BY <1>3, <1>4 DEF Counts
  <2>2. t.nb_occurences[i] = Occurrences(u.ids, i)
    BY <1>3 DEF Stores
  <2>3. Occurrences(u.ids, i) >= Occurrences(q.ids, i)
    BY <1>3, <1>14 DEF GoneOn
  <2>4. Occurrences(u.ids, i) \in Nat
    <3>1. u.ids \in Seq(Nat)
      BY <1>14, ProgressFields
    <3> QED BY <1>3, <3>1, OccurrencesAppend
  <2> QED BY <1>12, <2>1, <2>2, <2>3, <2>4 DEF OccursMore
<1>17. HasOccurence(t, tc, token)
  BY <1>16 DEF HasOccurence, token, i
<1> QED BY <1>3, <1>13, <1>15, <1>17 DEF token, i

\* So does a call that is next, and when it is entered the rest of u is left.
LEMMA SequenceIsNext ==
  ASSUME NEW E, NEW S, NEW F, NEW t, Written(E, S, F, t), NEW u, Stores(t, u),
         NEW cs, GoodStack(t, cs), cs # <<>>, NEW tc, NEW ids, Replaying(t, cs, tc, ids, u),
         CurToken(t, cs).type = "Sequence"
  PROVE  LET token == CurToken(t, cs)
         IN  /\ HasOccurence(t, tc, token)
             /\ Replaying(t, EnterBlock(cs, token), CountToken(tc, token), ids, u)
<1> DEFINE token == CurToken(t, cs)
           n == token.id
           g == GrammarOf(t)
<1>1. IsWellFormed(t) /\ GoodTables(E, S, F, g) /\ g.sequences = t.sequences
  BY GrammarProps DEF Written
<1>2. token \in TokensOf(t)
  <2>1. Len(cs) \in 1..Len(cs)
    BY DEF GoodStack
  <2> QED BY <1>1, <2>1, CurTokenProps DEF CurToken, CurFrame
<1>3. n \in Nat /\ n \in 1..Len(t.sequences) /\ token = SequenceToken(n)
  BY <1>1, <1>2, TokenKinds
<1>4. PICK p \in EvenCounts(t.loops) : \E list \in Seq(Token) :
        /\ p.ids = ids
        /\ Ahead(t, cs, list)
        /\ Reading(g, list)[p] = u
        /\ Counts(t, p, tc)
  BY DEF Replaying
<1>5. PICK list \in Seq(Token) : Ahead(t, cs, list) /\ Reading(g, list)[p] = u
  BY <1>4
<1>6. PICK rest \in Seq(Token) : Behind(t, cs, rest) /\ list = <<token>> \o rest
  BY <1>1, <1>5, AheadProps
<1>7. p \in Progress
  BY DEF EvenCounts
<1>8. n \in Nat \ {0} /\ n \in 0..Len(t.sequences) /\ n \in DOMAIN t.sequences
      /\ SequenceAt(t, n) = t.sequences[n]
  BY <1>1, <1>3 DEF IsWellFormed, Thread, SequenceAt
<1> HIDE DEF token, g, n
<1> DEFINE q == Enter(p, n)
           block == t.sequences[n]
<1>9. q \in EvenCounts(t.loops) /\ q \in Progress /\ q.ids = ids
      /\ q.entered = CountUp(p.entered, n) /\ p.entered \in Seq(Nat)
  BY <1>4, <1>7, <1>8, EvenKept, EnterProps, ProgressFields
<1>10. block \in Seq(Token) /\ Reading(g, block \o rest)[q] = u
  BY <1>1, <1>3, <1>5, <1>6, <1>7, ReadOnSequence
<1>11. OnBlock(t, NewFrame(token))
       /\ block = <<TokenAt(t, NewFrame(token))>> \o RestOf(t, NewFrame(token))
  BY <1>1, <1>3, <1>8, EnterRest
<1> HIDE DEF q, block
<1>12. Ahead(t, EnterBlock(cs, token), block \o rest)
  BY <1>1, <1>6, <1>11, EnterAhead
<1>13. Counts(t, q, CountToken(tc, token))
  BY <1>1, <1>3, <1>4, <1>7, <1>8, CountsSequence DEF q
<1>14. block \o rest \in Seq(Token)
  BY <1>6, <1>10
<1>15. Replaying(t, EnterBlock(cs, token), CountToken(tc, token), ids, u)
  BY <1>9, <1>10, <1>12, <1>13, <1>14 DEF Replaying, g
<1>16. u \in Progress /\ GoneOn(q, u)
  BY <1>1, <1>9, <1>10, <1>14, RestGoesOn
<1>17. CountsMore(p.entered, q.entered, n, n)
  BY <1>8, <1>9, CountedUp
<1>18. tc[token] < t.nb_durations[n]
  <2>1. tc[token] = Count(p.entered, n)
    BY <1>3, <1>4, <1>8 DEF Counts
  <2>2. t.nb_durations[n] = Count(u.entered, n)
    BY <1>8 DEF Stores
  <2>3. Count(u.entered, n) >= Count(q.entered, n)
    BY <1>3, <1>16 DEF GoneOn
  <2>4. Count(u.entered, n) \in Nat
    BY <1>16, CountType
  <2> QED BY <1>17, <2>1, <2>2, <2>3, <2>4 DEF CountsMore
<1>19. HasOccurence(t, tc, token)
  BY <1>18 DEF HasOccurence, HasSequenceOccurence, token, n
<1> QED BY <1>15, <1>19 DEF token


\* n copies of a sequence's token enter it n times, or more, whatever comes next.
LEMMA CopiesEnter ==
  ASSUME NEW E, NEW S, NEW F, NEW g, GoodTables(E, S, F, g), NEW n \in 1..Len(g.sequences),
         NEW m \in Nat, NEW p \in Progress, NEW rest \in Seq(Token)
  PROVE  Count(Reading(g, Times(SequenceToken(n), m) \o rest)[p].entered, n) >=
           Count(p.entered, n) + m
<1> DEFINE b == Reading(g, g.sequences[n])
           f == Entered(b, n)
           r == Run(Times(f, m), p)
           copies == Times(SequenceToken(n), m)
           u == Reading(g, copies \o rest)[p]
<1>1. Count(r.entered, n) >= Count(p.entered, n) + m
  BY TimesEnter
<1>2. ReadsCopies(g, n, m, p)
  BY CopiesRead
<1>3. copies \in Seq(Token) /\ r \in Progress /\ Reading(g, copies)[p] = r
  BY <1>2 DEF ReadsCopies
<1> HIDE DEF r, copies
<1>4. Reading(g, rest)[r] = u
  BY <1>3, ReadingSplits
<1> HIDE DEF u
<1>5. u \in Progress /\ GoneOn(r, u)
  BY <1>3, <1>4, RestGoesOn
<1>6. n \in Nat
  BY BodiesProps
<1>7. Count(u.entered, n) >= Count(r.entered, n)
  BY <1>5, <1>6 DEF GoneOn
<1>8. Count(u.entered, n) \in Nat /\ Count(r.entered, n) \in Nat /\ Count(p.entered, n) \in Nat
  BY <1>3, <1>5, CountType
<1> QED BY <1>1, <1>7, <1>8 DEF u, copies

\* The next count of a loop whose counts are even is the last one, and at least 2.
LEMMA EvenCount ==
  ASSUME NEW E, NEW S, NEW F, NEW t, Written(E, S, F, t), NEW p \in EvenCounts(t.loops),
         NEW l \in DOMAIN t.loops, Remaining(p, l) # <<>>, l \in Nat
  PROVE  /\ Head(Remaining(p, l)) = LastIterations(t.loops[l])
         /\ LastIterations(t.loops[l]) > 0
         /\ t.loops[l].repeated_token = SequenceToken(BodiesOf(GrammarOf(t))[l])
<1> DEFINE g == GrammarOf(t)
           counts == t.loops[l].nb_iterations
<1>1. IsWellFormed(t) /\ GoodTables(E, S, F, g) /\ g.loops = t.loops
  BY GrammarProps DEF Written
<1>2. l \in 1..Len(g.loops)
  BY <1>1 DEF IsWellFormed, Thread
<1>3. p \in Progress
  BY DEF EvenCounts
<1>4. Remaining(p, l) \in Seq(Nat)
  BY <1>3 DEF Remaining, Progress
<1>5. Len(Remaining(p, l)) \in Nat /\ Len(Remaining(p, l)) >= 1 /\ Head(Remaining(p, l)) = Remaining(p, l)[1]
  BY <1>4
<1>6. 1 \in 1..Len(Remaining(p, l))
  BY <1>5
<1>7. Remaining(p, l)[1] = LastIterations(t.loops[l])
  BY <1>6 DEF EvenCounts
<1>8. counts \in Seq(Nat) /\ counts # <<>>
  BY <1>1, LoopIterations
<1>9. Len(counts) \in 1..Len(counts)
  <2> HIDE DEF counts
  <2> QED BY <1>8
<1>10. GoodLoops(S \cup F, g)
  BY <1>1 DEF GoodTables
<1> HIDE DEF g
<1>11. g.loops[l].nb_iterations[Len(counts)] >= 2
  BY <1>1, <1>2, <1>9, <1>10 DEF GoodLoops
<1>12. LastIterations(t.loops[l]) >= 2 /\ LastIterations(t.loops[l]) \in Nat
  BY <1>1, <1>11, LoopIterations DEF LastIterations
<1>13. BodiesOf(g)[l] = t.loops[l].repeated_token.id
  BY <1>1, <1>2, BodiesProps
<1>14. t.loops[l].repeated_token = SequenceToken(t.loops[l].repeated_token.id)
  BY <1>1, LoopsAreTyped DEF Token, SequenceToken
<1> QED BY <1>5, <1>7, <1>12, <1>13, <1>14 DEF g

\* And for a loop that is next, of which all counts are the last one.
LEMMA LoopIsNext ==
  ASSUME NEW E, NEW S, NEW F, NEW t, Written(E, S, F, t), NEW u, Stores(t, u), HasEvenLoops(t),
         NEW cs, GoodStack(t, cs), cs # <<>>, NEW tc, NEW ids, Replaying(t, cs, tc, ids, u),
         CurToken(t, cs).type = "Loop"
  PROVE  LET token == CurToken(t, cs)
         IN  /\ HasOccurence(t, tc, token)
             /\ Replaying(t, EnterBlock(cs, token), CountToken(tc, token), ids, u)
<1> DEFINE token == CurToken(t, cs)
           l == token.id
           g == GrammarOf(t)
<1>1. /\ IsWellFormed(t) /\ GoodTables(E, S, F, g)
      /\ g.sequences = t.sequences /\ g.loops = t.loops
  BY GrammarProps DEF Written
<1>2. token \in TokensOf(t) /\ token \in Token
  <2>1. Len(cs) \in 1..Len(cs)
    BY DEF GoodStack
  <2>2. token \in TokensOf(t)
    BY <1>1, <2>1, CurTokenProps DEF CurToken, CurFrame
  <2> QED BY <1>1, <2>2, TokensAreTyped
<1>3. l \in Nat /\ l \in 1..Len(t.loops) /\ token = LoopToken(l)
  BY <1>1, <1>2, TokenKinds
<1>4. PICK p \in EvenCounts(t.loops) : \E list \in Seq(Token) :
        /\ p.ids = ids
        /\ Ahead(t, cs, list)
        /\ Reading(g, list)[p] = u
        /\ Counts(t, p, tc)
  BY DEF Replaying
<1>5. PICK list \in Seq(Token) : Ahead(t, cs, list) /\ Reading(g, list)[p] = u
  BY <1>4
<1>6. PICK rest \in Seq(Token) : Behind(t, cs, rest) /\ list = <<token>> \o rest
  BY <1>1, <1>5, AheadProps
<1>7. p \in Progress
  BY DEF EvenCounts
<1>8. l \in DOMAIN t.loops /\ l \in 1..Len(g.loops)
  BY <1>1, <1>3 DEF IsWellFormed, Thread
<1> HIDE DEF token, g, l
<1> DEFINE q == TakeCount(p, l)
           n == BodiesOf(g)[l]
           m == Head(Remaining(p, l))
           block == Times(SequenceToken(n), m)
<1>9. Clean(Reading(g, <<LoopToken(l)>> \o rest)[p])
  BY <1>3, <1>5, <1>6 DEF Stores, Exact
<1>10. /\ Remaining(p, l) # <<>> /\ m \in Nat /\ n \in 1..Len(g.sequences)
       /\ block \in Seq(Token)
       /\ Reading(g, <<LoopToken(l)>> \o rest)[p] = Reading(g, block \o rest)[q]
  BY <1>1, <1>6, <1>7, <1>8, <1>9, ReadOnLoop
<1>11. Reading(g, block \o rest)[q] = u
  BY <1>3, <1>5, <1>6, <1>10
<1>12. /\ m = LastIterations(t.loops[l]) /\ LastIterations(t.loops[l]) > 0
       /\ t.loops[l].repeated_token = SequenceToken(n)
  BY <1>3, <1>8, <1>10, EvenCount DEF g
<1>13. /\ q \in EvenCounts(t.loops) /\ q \in Progress /\ q.ids = ids /\ q.entered = p.entered
  BY <1>3, <1>4, <1>7, <1>10, EvenKept, TakeProps
<1>14. OnBlock(t, NewFrame(token))
       /\ block = <<TokenAt(t, NewFrame(token))>> \o RestOf(t, NewFrame(token))
  BY <1>1, <1>2, <1>3, <1>8, <1>12, EnterLoopRest
<1> HIDE DEF q, block
<1>15. Ahead(t, EnterBlock(cs, token), block \o rest)
  BY <1>1, <1>6, <1>14, EnterAhead
<1>16. Counts(t, q, CountToken(tc, token))
  BY <1>1, <1>3, <1>4, <1>7, <1>8, <1>10, CountsLoop DEF q
<1>17. block \o rest \in Seq(Token)
  BY <1>6, <1>10
<1>18. Replaying(t, EnterBlock(cs, token), CountToken(tc, token), ids, u)
  BY <1>11, <1>13, <1>15, <1>16, <1>17 DEF Replaying, g
<1>19. tc[token] < Len(t.loops[l].nb_iterations) /\ tc[token] \in Nat
  <2>1. tc[token] + Len(Remaining(p, l)) = Len(t.loops[l].nb_iterations)
    BY <1>3, <1>4, <1>8 DEF Counts
  <2>2. Len(Remaining(p, l)) \in Nat /\ Len(Remaining(p, l)) > 0
    <3>1. Remaining(p, l) \in Seq(Nat)
      BY <1>7 DEF Remaining, Progress
    <3> QED BY <1>10, <3>1
  <2>3. tc[token] \in Nat
    BY <1>2, <1>4 DEF Counts
  <2> QED BY <2>1, <2>2, <2>3
<1>20. t.loops[l].nb_iterations[tc[token] + 1] = m
  <2>1. t.loops[l].nb_iterations \in Seq(Nat)
    BY <1>1, <1>8, LoopIterations
  <2> DEFINE c == t.loops[l].nb_iterations
  <2>2. tc[token] + 1 \in DOMAIN c
    <3> HIDE DEF c
    <3>1. c \in Seq(Nat) /\ tc[token] < Len(c)
      BY <1>19, <2>1 DEF c
    <3> QED BY <1>19, <3>1
  <2> QED BY <1>8, <1>12, <2>2 DEF HasEvenLoops
<1>21. n \in DOMAIN t.sequences /\ n \in 1..Len(t.sequences) /\ n \in Nat
  BY <1>1, <1>10 DEF IsWellFormed, Thread
<1>22. tc[SequenceToken(n)] = Count(p.entered, n)
  BY <1>4, <1>21 DEF Counts
<1>23. Count(u.entered, n) >= Count(p.entered, n) + m
  <2>1. block = Times(SequenceToken(n), m)
    BY DEF block
  <2>2. GoodTables(E, S, F, g) /\ n \in 1..Len(g.sequences) /\ m \in Nat
    BY <1>1, <1>10
  <2> HIDE DEF m, n
  <2>3. Count(u.entered, n) >= Count(q.entered, n) + m
    BY <1>6, <1>11, <1>13, <2>1, <2>2, CopiesEnter
  <2> QED BY <1>13, <2>3
<1>24. t.nb_durations[n] = Count(u.entered, n)
  BY <1>21 DEF Stores
<1>25. HasLoopOccurence(t, tc, token)
  <2>1. SequenceToken(n).id = n
    BY DEF SequenceToken
  <2> HIDE DEF n, m
  <2> QED BY <1>12, <1>19, <1>20, <1>22, <1>23, <1>24, <2>1 DEF HasLoopOccurence, l
<1>26. HasOccurence(t, tc, token)
  BY <1>25 DEF HasOccurence, token
<1> QED BY <1>18, <1>26 DEF token

\* The reader that was just opened has read nothing, and has all of the trace
\* ahead.
LEMMA OpenIsReplaying ==
  ASSUME NEW E, NEW S, NEW F, NEW t, Written(E, S, F, t), HasEvenLoops(t),
         NEW u, u = Reading(GrammarOf(t), t.tokens)[Unread(t.loops)]
  PROVE  Replaying(t, FirstCallstack, NothingRead(t), <<>>, u)
<1> DEFINE p == Unread(t.loops)
           tc == NothingRead(t)
<1>1. IsWellFormed(t) /\ t.loops \in Seq(Loop) /\ t.tokens \in Seq(Token)
  BY DEF Written, IsWellFormed, Thread
<1>2. /\ p \in Progress /\ p.ids = <<>> /\ p.entered = <<>>
      /\ \A l : Remaining(p, l) = IF l \in 1..Len(t.loops) THEN t.loops[l].nb_iterations ELSE <<>>
  BY <1>1, UnreadProps
<1> HIDE DEF p
<1>3. p \in EvenCounts(t.loops)
  <2>1. ASSUME NEW l \in Nat, NEW k \in 1..Len(Remaining(p, l))
        PROVE  Remaining(p, l)[k] = LastIterations(t.loops[l])
    <3>1. l \in 1..Len(t.loops)
      <4>1. Len(<<>>) = 0 /\ 1..0 = {}
        OBVIOUS
      <4> QED BY <1>2, <2>1, <4>1
    <3>2. Remaining(p, l) = t.loops[l].nb_iterations /\ l \in DOMAIN t.loops
      BY <1>1, <1>2, <3>1
    <3>3. t.loops[l].nb_iterations \in Seq(Nat)
      BY <1>1, <3>2, LoopIterations
    <3>4. k \in DOMAIN t.loops[l].nb_iterations
      BY <2>1, <3>2, <3>3
    <3> QED BY <3>2, <3>4 DEF HasEvenLoops
  <2> QED BY <1>2, <2>1 DEF EvenCounts
<1>4. Counts(t, p, tc)
  <2>1. tc \in [TokensOf(t) -> Nat] /\ \A x \in TokensOf(t) : tc[x] = 0
    BY DEF NothingRead
  <2>2. ASSUME NEW i \in DOMAIN t.nb_occurences
        PROVE  tc[EventToken(i)] = Occurrences(p.ids, i)
    <3>1. <<>> \in Seq(Nat) /\ \A k \in 1..Len(<<>>) : <<>>[k] # i
      OBVIOUS
    <3>2. Occurrences(p.ids, i) = 0
      BY <1>2, <3>1, NoOccurrence
    <3>3. EventToken(i) \in TokensOf(t)
      BY DEF TokensOf
    <3> QED BY <2>1, <3>2, <3>3
  <2>3. ASSUME NEW n \in DOMAIN t.sequences
        PROVE  tc[SequenceToken(n)] = Count(p.entered, n)
    <3>1. DOMAIN <<>> = {}
      OBVIOUS
    <3>2. Count(p.entered, n) = 0
      BY <1>2, <3>1 DEF Count
    <3>3. SequenceToken(n) \in TokensOf(t)
      BY DEF TokensOf
    <3> QED BY <2>1, <3>2, <3>3
  <2>4. ASSUME NEW l \in DOMAIN t.loops
        PROVE  tc[LoopToken(l)] + Len(Remaining(p, l)) = Len(t.loops[l].nb_iterations)
    <3>1. LoopToken(l) \in TokensOf(t) /\ l \in 1..Len(t.loops)
      BY <1>1 DEF TokensOf
    <3>2. Remaining(p, l) = t.loops[l].nb_iterations
      BY <1>2, <3>1
    <3>3. t.loops[l].nb_iterations \in Seq(Nat)
      BY <1>1, LoopIterations
    <3>4. Len(t.loops[l].nb_iterations) \in Nat /\ tc[LoopToken(l)] = 0
      BY <2>1, <3>1, <3>3
    <3> QED BY <3>2, <3>4
  <2> HIDE DEF tc
  <2> QED BY <2>1, <2>2, <2>3, <2>4 DEF Counts
<1>5. Ahead(t, FirstCallstack, t.tokens)
  BY <1>1, FirstAhead
<1> QED BY <1>1, <1>2, <1>3, <1>4, <1>5 DEF Replaying, p

-----------------------------------------------------------------------------
(* Part 4, a recorded thread: its durations are those of what it stands for *)

\* nb counts what p has entered.
Tallied(p, nb) == \A k \in Nat : Count(p.entered, k) = Count(nb, k)

\* The durations that are added, of a sequence known or new, one by one.
LEMMA AddedCount ==
  ASSUME NEW nb \in Seq(Nat), NEW id \in 1..(Len(nb) + 1), NEW c \in Nat, NEW k \in Nat
  PROVE  Count(AddDurations(nb, id, c), k) = Count(nb, k) + (IF k = id THEN c ELSE 0)
<1>1. DOMAIN nb = 1..Len(nb) /\ Len(nb) \in Nat
  OBVIOUS
<1>2. CASE id \in 1..Len(nb)
  <2> DEFINE after == [nb EXCEPT ![id] = @ + c]
  <2>1. AddDurations(nb, id, c) = after /\ DOMAIN after = 1..Len(nb)
    BY <1>1, <1>2 DEF AddDurations
  <2>2. k \in 1..Len(nb) => after[k] = nb[k] + (IF k = id THEN c ELSE 0) /\ nb[k] \in Nat
    BY <1>1, <1>2
  <2> HIDE DEF after
  <2> QED BY <1>1, <1>2, <2>1, <2>2 DEF Count
<1>3. CASE id = Len(nb) + 1
  <2> DEFINE after == Append(nb, c)
  <2>1. AddDurations(nb, id, c) = after
    <3>1. id \notin DOMAIN nb
      BY <1>1, <1>3
    <3> QED BY <3>1 DEF AddDurations
  <2>2. /\ DOMAIN after = 1..(Len(nb) + 1)
        /\ after[Len(nb) + 1] = c
        /\ \A j \in 1..Len(nb) : after[j] = nb[j]
    BY <1>1
  <2> HIDE DEF after
  <2>3. k \in 1..Len(nb) => nb[k] \in Nat
    BY <1>1
  <2> QED BY <1>1, <1>3, <2>1, <2>2, <2>3 DEF Count
<1> QED BY <1>1, <1>2, <1>3

\* What is entered more often has as many durations more.
LEMMA AddTallies ==
  ASSUME NEW nb \in Seq(Nat), NEW id \in 1..(Len(nb) + 1), NEW c \in Nat,
         NEW p, NEW q, Tallied(p, nb), More(p, q, id, c)
  PROVE  Tallied(q, AddDurations(nb, id, c))
<1> SUFFICES ASSUME NEW k \in Nat
             PROVE  Count(q.entered, k) = Count(AddDurations(nb, id, c), k)
  BY DEF Tallied
<1>1. Count(AddDurations(nb, id, c), k) = Count(nb, k) + (IF k = id THEN c ELSE 0)
  BY AddedCount
<1> QED BY <1>1 DEF More, Tallied

\* The number that a sequence has in the table, or gets.
LEMMA IdInTable ==
  ASSUME NEW g \in Grammar, NEW nb, Measured(nb, g), NEW a
  PROVE  nb \in Seq(Nat) /\ SequenceIdOf(g.sequences, a) \in 1..(Len(nb) + 1)
<1>1. nb \in Seq(Nat) /\ Len(nb) = Len(g.sequences) /\ g.sequences \in Seq(Seq(Token))
  BY DEF Measured, Grammar
<1> QED BY <1>1 DEF SequenceIdOf, IsKnown

\* A loop that is found is measured as often as its body is entered anew.
LEMMA FindTallies ==
  ASSUME NEW g \in Grammar, NEW nb, Measured(nb, g), NEW token, NEW p, NEW q,
         Tallied(p, nb), FindGains(p, q, Pushed(g, token)),
         Pushed(g, token).sequences = g.sequences
  PROVE  Tallied(q, MeasureLoop(nb, g, token))
<1> DEFINE h  == Pushed(g, token)
           n  == LengthFound(h)
           c  == IF EndsWithIteration(h, n) THEN 1 ELSE 2
           id == SequenceIdOf(h.sequences, LastTokens(h.tokens, n))
<1>1. MeasureLoop(nb, g, token) = IF ~Looping(h) THEN nb ELSE AddDurations(nb, id, c)
  BY DEF MeasureLoop, Pushed
<1>2. nb \in Seq(Nat) /\ id \in 1..(Len(nb) + 1)
  BY IdInTable
<1>3. CASE Looping(h)
  <2>1. More(p, q, id, c)
    BY <1>3 DEF FindGains, Gains
  <2>2. c \in Nat
    OBVIOUS
  <2> HIDE DEF id, c, h
  <2> QED BY <1>1, <1>2, <1>3, <2>1, <2>2, AddTallies
<1>4. CASE ~Looping(h)
  BY <1>1, <1>4 DEF FindGains
<1> QED BY <1>3, <1>4

\* So is a block that is closed, once for the call, and then for its loop.
LEMMA ExitTallies ==
  ASSUME NEW g \in Grammar, NEW nb, Measured(nb, g), NEW upper \in Seq(Token), NEW p, NEW q,
         Tallied(p, nb), ExitGains(p, q, g, upper)
  PROVE  Tallied(q, MeasureExit(nb, g, upper))
<1> DEFINE id == SequenceIdOf(g.sequences, g.tokens)
           m  == [g EXCEPT !.sequences = WithSequence(@, g.tokens), !.tokens = upper]
           nb2 == AddDurations(nb, id, 1)
<1>1. PICK r \in Progress : More(p, r, id, 1) /\ FindGains(r, q, Pushed(m, SequenceToken(id)))
  BY DEF ExitGains
<1>2. nb \in Seq(Nat) /\ id \in 1..(Len(nb) + 1)
  BY IdInTable
<1>3. /\ g.sequences \in Seq(Seq(Token)) /\ g.tokens \in Seq(Token) /\ g.loops \in Seq(Loop)
  BY DEF Grammar
<1>4. nb2 \in Seq(Nat) /\ Len(nb2) = Len(WithSequence(g.sequences, g.tokens))
  BY <1>3, AddDurationsProps
<1>5. WithSequence(g.sequences, g.tokens) \in Seq(Seq(Token))
  BY <1>3, AppendProperties DEF WithSequence
<1>6. m = [g EXCEPT !.sequences = WithSequence(g.sequences, g.tokens), !.tokens = upper]
  OBVIOUS
<1>7. m \in Grammar /\ m.sequences = WithSequence(g.sequences, g.tokens)
  <2> DEFINE sq == WithSequence(g.sequences, g.tokens)
  <2> HIDE DEF sq
  <2>1. sq \in Seq(Seq(Token)) /\ m = [g EXCEPT !.sequences = sq, !.tokens = upper]
    BY <1>5, <1>6 DEF sq
  <2> HIDE DEF m
  <2>2. m \in Grammar /\ m.sequences = sq
    BY <1>3, <2>1 DEF Grammar
  <2> QED BY <2>2 DEF sq
<1>8. Tallied(r, nb2)
  <2> HIDE DEF id
  <2> QED BY <1>1, <1>2, AddTallies DEF nb2
<1>9. MeasureExit(nb, g, upper) = MeasureLoop(nb2, m, SequenceToken(id))
  BY DEF MeasureExit
<1> HIDE DEF m, nb2, id
<1>10. Measured(nb2, m)
  BY <1>4, <1>7 DEF Measured
<1>11. Pushed(m, SequenceToken(id)).sequences = m.sequences
  BY <1>7 DEF Pushed, Grammar
<1> QED BY <1>1, <1>7, <1>8, <1>9, <1>10, <1>11, FindTallies


\* A token that is stored is measured as often as the trace enters its loop.
LEMMA StoreTallies ==
  ASSUME NEW g \in Grammar, NEW nb, Measured(nb, g), NEW token, NEW id, NEW p \in Progress, NEW q,
         Tallied(p, nb), FindGains(Meet(p, id), q, Pushed(g, token))
  PROVE  Tallied(q, MeasureLoop(nb, g, token))
<1>1. Meet(p, id).entered = p.entered
  BY DEF Meet, Progress
<1>2. Tallied(Meet(p, id), nb)
  BY <1>1 DEF Tallied
<1>3. Pushed(g, token).sequences = g.sequences
  BY DEF Pushed, Grammar
<1> DEFINE r == Meet(p, id)
<1> HIDE DEF r
<1>4. Tallied(r, nb) /\ FindGains(r, q, Pushed(g, token))
  BY <1>2 DEF r
<1> QED BY <1>3, <1>4, FindTallies

\* The writer's durations and its log are those of what the grammar stands for,
\* and the archive keeps the thread that was closed, for good.
Recorded ==
  /\ LInv
  /\ Tallied(Unfolding, nb_durations)
  /\ log = Story(events, Unfolding.ids)
  /\ archive # {} => status = "closed" /\ cur_depth = 0 /\ archive = {WrittenThread}

\* A grammar of the state, at any depth.
LEMMA MeasuredAt ==
  ASSUME RInv, NEW d \in Depths
  PROVE  /\ GrammarAt(d) \in Grammar /\ Measured(nb_durations, GrammarAt(d))
         /\ Sound(GrammarAt(d)) /\ og_seq[d] \in Seq(Token)
<1>1. Sound(GrammarAt(d)) /\ Measured(nb_durations, GrammarAt(d)) /\ og_seq[d] \in Seq(Token)
  BY FrameSound DEF RInv
<1> QED BY <1>1 DEF Sound, SoundTables

\* An event that is recorded is the next in the log, and nothing is in the archive.
LEMMA EventIsRecorded ==
  ASSUME RInv, Recorded, NEW e \in Event, SummarizeEvent(e), status = "open",
         LInv', Unfolding'.ids = Append(Unfolding.ids, EventIdOf(e)),
         Tallied(Unfolding', nb_durations'), log' = Append(log, e), UNCHANGED archive
  PROVE  Recorded'
<1>1. archive = {}
  BY DEF Recorded
<1>2. log' = Story(events', Unfolding'.ids)
  <2>1. Story(events', Unfolding'.ids) = Append(Story(events, Unfolding.ids), e)
    BY StoryGoesOn DEF RInv, Recorded
  <2> QED BY <2>1 DEF Recorded
<1> QED BY <1>1, <1>2 DEF Recorded

\* A call that begins a block is recorded,
LEMMA BlockStartIsRecorded ==
  ASSUME Algorithm # "Filter", RInv, Recorded, NEW e \in BlockStart, RecordBlockStart(e),
         Logged(e, MeasureEvent(cur_depth + 1, e))
  PROVE  Recorded'
<1> DEFINE g == GrammarAt(cur_depth + 1)
           token == EventToken(EventIdOf(e))
<1>1. IInv /\ LInv /\ TypeOK /\ Unfolding \in Progress
  BY DEF RInv, Recorded, IInv, LInv, Matches
<1>2. /\ LInv' /\ Unfolding'.ids = Append(Unfolding.ids, EventIdOf(e))
      /\ FindGains(Meet(Unfolding, EventIdOf(e)), Unfolding', Pushed(g, token))
  BY <1>1, BlockStartReads
<1>3. cur_depth + 1 \in Depths /\ status = "open" /\ SummarizeEvent(e) /\ e \in Event
  BY <1>1, MaxDepthAssumption DEF RecordBlockStart, TypeOK, Depths, Event
<1>4. g \in Grammar /\ Measured(nb_durations, g)
  BY <1>3, MeasuredAt
<1>5. nb_durations' = MeasureLoop(nb_durations, g, token) /\ log' = Append(log, e)
      /\ UNCHANGED archive
  BY DEF Logged, MeasureEvent
<1> HIDE DEF g, token
<1>6. Tallied(Unfolding', nb_durations')
  BY <1>1, <1>2, <1>4, <1>5, StoreTallies DEF Recorded
<1> QED BY <1>2, <1>3, <1>5, <1>6, EventIsRecorded

\* as is one that happens at once,
LEMMA SingletonIsRecorded ==
  ASSUME Algorithm # "Filter", RInv, Recorded, NEW e \in Singleton, RecordSingleton(e),
         Logged(e, MeasureEvent(cur_depth, e))
  PROVE  Recorded'
<1> DEFINE g == GrammarAt(cur_depth)
           token == EventToken(EventIdOf(e))
<1>1. IInv /\ LInv /\ TypeOK /\ Unfolding \in Progress
  BY DEF RInv, Recorded, IInv, LInv, Matches
<1>2. /\ LInv' /\ Unfolding'.ids = Append(Unfolding.ids, EventIdOf(e))
      /\ FindGains(Meet(Unfolding, EventIdOf(e)), Unfolding', Pushed(g, token))
  BY <1>1, SingletonReads
<1>3. cur_depth \in Depths /\ status = "open" /\ SummarizeEvent(e) /\ e \in Event
  BY <1>1 DEF RecordSingleton, TypeOK, Event
<1>4. g \in Grammar /\ Measured(nb_durations, g)
  BY <1>3, MeasuredAt
<1>5. nb_durations' = MeasureLoop(nb_durations, g, token) /\ log' = Append(log, e)
      /\ UNCHANGED archive
  BY DEF Logged, MeasureEvent
<1> HIDE DEF g, token
<1>6. Tallied(Unfolding', nb_durations')
  BY <1>1, <1>2, <1>4, <1>5, StoreTallies DEF Recorded
<1> QED BY <1>2, <1>3, <1>5, <1>6, EventIsRecorded

\* and one that ends a block, whose frame cannot end with a loop.
LEMMA BlockEndIsRecorded ==
  ASSUME Algorithm # "Filter", RInv, Recorded, NEW e \in BlockEnd, RecordBlockEnd(e),
         Logged(e, MeasureBlockEnd(e))
  PROVE  Recorded'
<1> DEFINE g     == GrammarAt(cur_depth)
           id    == EventIdOf(e)
           token == EventToken(id)
           b     == StoreToken(g, token)
           upper == og_seq[cur_depth - 1]
           p     == Meet(Unfolding, id)
<1>1. IInv /\ LInv /\ TypeOK /\ Unfolding \in Progress /\ Tallied(Unfolding, nb_durations)
  BY DEF RInv, Recorded, IInv, LInv, Matches
<1>2. /\ LInv' /\ Unfolding'.ids = Append(Unfolding.ids, id)
      /\ ~Looping(Pushed(g, token))
      /\ ExitGains(p, Unfolding', b, upper)
  BY <1>1, BlockEndReads
<1>3. /\ cur_depth \in Depths /\ cur_depth - 1 \in Depths /\ status = "open"
      /\ SummarizeEvent(e) /\ e \in Event
  BY <1>1, MaxDepthAssumption DEF RecordBlockEnd, TypeOK, Depths, Event
<1>4. g \in Grammar /\ Measured(nb_durations, g) /\ Sound(g) /\ upper \in Seq(Token)
  BY <1>3, MeasuredAt
<1>5. token \in Token /\ token.type # "Loop"
  BY <1>1, <1>3, EventIsToken
<1>6. /\ nb_durations' = MeasureExit(MeasureLoop(nb_durations, g, token), b, upper)
      /\ log' = Append(log, e) /\ UNCHANGED archive
  BY DEF Logged, MeasureBlockEnd, MeasureEvent
<1>7. MeasureLoop(nb_durations, g, token) = nb_durations
  BY <1>2 DEF MeasureLoop, Pushed
<1>8. Tallied(p, nb_durations)
  <2>1. p.entered = Unfolding.entered
    <3> DEFINE u == Unfolding
    <3>1. u \in Progress
      BY <1>1
    <3> HIDE DEF u
    <3>2. Meet(u, id).entered = u.entered
      BY <3>1 DEF Meet, Progress
    <3> QED BY <3>2 DEF u
  <2> QED BY <1>1, <2>1 DEF Tallied
<1> HIDE DEF token, b, g, upper, p
<1>9. b \in Grammar /\ Measured(nb_durations, b)
  <2>1. Sound(b) /\ Measured(MeasureLoop(nb_durations, g, token), b)
    BY <1>4, <1>5, StoreSound DEF Sound, b
  <2> QED BY <1>7, <2>1 DEF Sound, SoundTables
<1>10. Tallied(Unfolding', nb_durations')
  BY <1>2, <1>4, <1>6, <1>7, <1>8, <1>9, ExitTallies
<1> QED BY <1>2, <1>3, <1>6, <1>10, EventIsRecorded

\* A block that the thread leaves open is closed without an event.
LEMMA UnfinishedIsRecorded ==
  ASSUME Algorithm # "Filter", RInv, Recorded, CloseUnfinished, UNCHANGED <<log, archive>>,
         nb_durations' = MeasureExit(nb_durations, GrammarAt(cur_depth), og_seq[cur_depth - 1])
  PROVE  Recorded'
<1> DEFINE g     == GrammarAt(cur_depth)
           upper == og_seq[cur_depth - 1]
<1>1. IInv /\ LInv /\ TypeOK /\ Unfolding \in Progress /\ Tallied(Unfolding, nb_durations)
  BY DEF RInv, Recorded, IInv, LInv, Matches
<1>2. /\ LInv' /\ Unfolding'.ids = Unfolding.ids
      /\ ExitGains(Unfolding, Unfolding', g, upper)
  BY <1>1, UnfinishedReads
<1>3. /\ cur_depth \in Depths /\ cur_depth - 1 \in Depths /\ status = "closing"
      /\ events' = events
  BY <1>1, MaxDepthAssumption DEF CloseUnfinished, TypeOK, Depths
<1>4. g \in Grammar /\ Measured(nb_durations, g) /\ upper \in Seq(Token)
  BY <1>3, MeasuredAt
<1> HIDE DEF g, upper
<1>5. Tallied(Unfolding', nb_durations')
  BY <1>1, <1>2, <1>4, ExitTallies DEF g, upper
<1>6. archive = {}
  BY <1>3 DEF Recorded
<1>7. log' = Story(events', Unfolding'.ids)
  BY <1>2, <1>3 DEF Recorded
<1> QED BY <1>2, <1>5, <1>6, <1>7 DEF Recorded

\* The thread is put into the archive as it is.
LEMMA StoreIsRecorded ==
  ASSUME RInv, Recorded, StoreThread
  PROVE  Recorded'
<1>1. /\ FinalizeThread /\ status = "closing" /\ cur_depth' = 0
      /\ UNCHANGED <<events, sequences, loops, og_seq, nb_durations, log>>
      /\ archive' = IF events = <<>> THEN archive ELSE {WrittenThread}
      /\ status' = IF events = <<>> THEN "aborted" ELSE "closed"
  BY DEF StoreThread, FinalizeThread
<1>2. LInv' /\ Unfolding' = Unfolding
  BY <1>1, OtherReads DEF RInv, Recorded
<1>3. WrittenThread' = WrittenThread
  BY <1>1 DEF WrittenThread
<1>4. archive = {}
  BY <1>1 DEF Recorded
<1> QED BY <1>1, <1>2, <1>3, <1>4 DEF Recorded

\* Nothing is recorded when nothing but the status of the writer changes.
LEMMA SameIsRecorded ==
  ASSUME RInv, Recorded,
         \/ ThreadClose /\ UNCHANGED <<log, nb_durations, archive>>
         \/ UNCHANGED recordVars
  PROVE  Recorded'
<1>1. /\ UNCHANGED <<events, sequences, loops, og_seq, cur_depth, log, nb_durations, archive>>
      /\ ThreadClose \/ UNCHANGED vars
  BY DEF ThreadClose, recordVars, vars
<1>2. LInv' /\ Unfolding' = Unfolding
  BY <1>1, OtherReads DEF RInv, Recorded
<1>3. WrittenThread' = WrittenThread
  BY <1>1 DEF WrittenThread
<1>4. archive # {} => status' = status
  BY <1>1 DEF ThreadClose, Recorded, vars
<1> QED BY <1>1, <1>2, <1>3, <1>4 DEF Recorded

\* Whatever the writer does, it is recorded.
LEMMA NextIsRecorded ==
  ASSUME Algorithm # "Filter", RInv, Recorded, [RecordNext]_recordVars
  PROVE  Recorded'
<1>1. CASE \E e \in BlockStart : RecordBlockStart(e) /\ Logged(e, MeasureEvent(cur_depth + 1, e))
  BY <1>1, BlockStartIsRecorded
<1>2. CASE \E e \in Singleton : RecordSingleton(e) /\ Logged(e, MeasureEvent(cur_depth, e))
  BY <1>2, SingletonIsRecorded
<1>3. CASE \E e \in BlockEnd : RecordBlockEnd(e) /\ Logged(e, MeasureBlockEnd(e))
  BY <1>3, BlockEndIsRecorded
<1>4. CASE \/ ThreadClose /\ UNCHANGED <<log, nb_durations, archive>>
           \/ UNCHANGED recordVars
  BY <1>4, SameIsRecorded
<1>5. CASE /\ CloseUnfinished /\ UNCHANGED <<log, archive>>
           /\ nb_durations' = MeasureExit(nb_durations, GrammarAt(cur_depth), og_seq[cur_depth - 1])
  BY <1>5, UnfinishedIsRecorded
<1>6. CASE StoreThread
  BY <1>6, StoreIsRecorded
<1> QED BY <1>1, <1>2, <1>3, <1>4, <1>5, <1>6 DEF RecordNext

\* A new writer has recorded nothing.
LEMMA InitIsRecorded == RecordInit => Recorded
<1> SUFFICES ASSUME RecordInit PROVE Recorded
  OBVIOUS
<1>1. Init /\ log = <<>> /\ nb_durations = <<>> /\ archive = {} /\ events = <<>>
  BY DEF RecordInit, Init
<1>2. LInv /\ Unfolding.entered = <<>>
  BY <1>1, InitReads
<1>3. Log!Init
  BY <1>1, InitRefines
<1>4. cur_depth \in Depths
  BY <1>1, MaxDepthAssumption DEF Init, Depths
<1>5. Happened[Unfolding.ids] = <<>> /\ Happened[Unfolding.ids] = Story(events, Unfolding.ids)
  BY <1>2, <1>3, <1>4, LogBefore DEF Log!Init
<1>6. Tallied(Unfolding, nb_durations)
  BY <1>1, <1>2 DEF Tallied
<1> QED BY <1>1, <1>2, <1>5, <1>6 DEF Recorded


-----------------------------------------------------------------------------
(* Part 5, the thread is read back *)

\* The numbers of the events that were read.
IdsOf(reads) == [k \in DOMAIN reads |-> reads[k].token.id]

\* The thread that is read is the one in the archive; if its loops are even, no
\* read fails, and what is still to be read is the rest of what was recorded.
Reopened ==
  /\ progress = "closed" => printed = <<>>
  /\ progress = "done" => callstack = <<>>
  /\ progress # "closed" => thread \in archive
  /\ (progress # "closed" /\ HasEvenLoops(thread)) =>
       /\ progress # "aborted"
       /\ Replaying(thread, callstack, tokenCount, IdsOf(printed), Unfolding)

\* A thread in the archive is the one that was recorded, with an occurrence for
\* all that it stands for.
LEMMA ArchivedThread ==
  ASSUME RInv, Recorded, EventsGrow, NEW t \in archive
  PROVE  /\ t = WrittenThread
         /\ Written(Ids, Starts, Ends, t)
         /\ Stores(t, Unfolding)
         /\ Unfolding = Reading(GrammarOf(t), t.tokens)[Unread(t.loops)]
<1>1. archive = {WrittenThread} /\ cur_depth = 0 /\ LInv /\ Tallied(Unfolding, nb_durations)
  BY DEF Recorded
<1>2. t = WrittenThread
  BY <1>1
<1>3. IInv /\ TypeOK /\ 0 \in Depths
  BY MaxDepthAssumption DEF RInv, IInv, Depths
<1>4. /\ t.sequences = sequences /\ t.loops = loops /\ t.tokens = og_seq[0]
      /\ t.nb_occurences = [i \in DOMAIN events |-> events[i].nb_occurences]
      /\ t.nb_durations = nb_durations
      /\ GrammarOf(t) = GrammarAt(0)
  BY <1>2 DEF WrittenThread, GrammarOf, GrammarAt
<1>5. GoodTables(Ids, Starts, Ends, GrammarOf(t))
  BY <1>3, <1>4 DEF IInv, GoodFrame
<1>6. Written(Ids, Starts, Ends, t)
  BY <1>5 DEF Written, RInv, StoredThreadsAreWellFormed
<1>7. Matches(Unfolding, events, Len(sequences))
  BY <1>1 DEF LInv
<1>8. /\ events \in Seq(EventSummary) /\ DOMAIN events = 1..Len(events)
      /\ sequences \in Seq(Seq(Token)) /\ DOMAIN sequences = 1..Len(sequences)
      /\ nb_durations \in Seq(Nat) /\ Len(nb_durations) = Len(sequences)
  BY <1>3 DEF TypeOK, RInv, Measured, GrammarAt
<1>9. \A i \in DOMAIN t.nb_occurences : t.nb_occurences[i] = Occurrences(Unfolding.ids, i)
  BY <1>4, <1>7, <1>8 DEF Matches
<1>10. ASSUME NEW n \in DOMAIN t.sequences
       PROVE  t.nb_durations[n] = Count(Unfolding.entered, n)
  <2>1. n \in 1..Len(sequences) /\ n \in Nat /\ n \in DOMAIN nb_durations
    BY <1>4, <1>8, <1>10
  <2>2. Count(Unfolding.entered, n) = Count(nb_durations, n)
    BY <1>1, <2>1 DEF Tallied
  <2> QED BY <1>4, <2>1, <2>2 DEF Count
<1>11. Stores(t, Unfolding)
  BY <1>7, <1>9, <1>10 DEF Stores, Matches
<1>12. \A c \in Depths : c > 0 => og_seq[c] = <<>>
  BY <1>1, <1>3, NothingAbove
<1>13. Unfolding = Whole(GrammarAt(0), og_seq, 0)
  BY <1>3, <1>12, UnfoldingBefore
<1>14. Whole(GrammarAt(0), og_seq, 0) = Reading(GrammarOf(t), t.tokens)[Unread(t.loops)]
  <2> DEFINE g == GrammarAt(0)
             u == Unread(g.loops)
  <2>1. g.loops = loops /\ g.tokens = og_seq[0]
    BY DEF GrammarAt
  <2>2. GoodTables(Ids, Starts, Ends, g) /\ GoodFrames(Ids, g, og_seq, 0)
    BY <1>4, <1>5 DEF GoodFrames
  <2> HIDE DEF g
  <2>3. u \in Progress
    <3>1. 0 \in Nat
      OBVIOUS
    <3> QED BY <2>2, <3>1, WholeType
  <2>4. Under(g, og_seq, 0)[u] = u
    <3>1. Under(g, og_seq, 0)[u] = Run(FrameReadings(g, og_seq, 0), u)
      BY <2>3 DEF Under
    <3>2. FrameReadings(g, og_seq, 0) = <<>>
      BY DEF FrameReadings
    <3> QED BY <2>3, <3>1, <3>2, RunNothing
  <2>5. Whole(g, og_seq, 0) = Reading(g, g.tokens)[u]
    BY <2>4 DEF Whole
  <2> QED BY <1>4, <2>1, <2>5 DEF g
<1> QED BY <1>2, <1>6, <1>11, <1>13, <1>14

\* The numbers of what was read and one more.
LEMMA IdsAppend ==
  ASSUME NEW S, NEW reads \in Seq(S), NEW item
  PROVE  IdsOf(Append(reads, item)) = Append(IdsOf(reads), item.token.id)
<1> DEFINE t == Append(reads, item)
           n == Len(reads)
<1>1. /\ n \in Nat /\ DOMAIN reads = 1..n /\ DOMAIN t = 1..(n + 1)
      /\ t[n + 1] = item /\ \A k \in 1..n : t[k] = reads[k]
  OBVIOUS
<1> HIDE DEF t, n
<1>2. IdsOf(t) = [k \in 1..(n + 1) |-> t[k].token.id] /\ IdsOf(reads) = [k \in 1..n |-> reads[k].token.id]
  BY <1>1 DEF IdsOf
<1>3. [k \in 1..(n + 1) |-> t[k].token.id] = Append([k \in 1..n |-> reads[k].token.id], item.token.id)
  BY <1>1
<1> QED BY <1>2, <1>3 DEF t

\* On a thread with even loops there is always something under the cursor, and an
\* occurrence of it to be read.
LEMMA EvenCanRead ==
  ASSUME NEW E, NEW S, NEW F, NEW t, Written(E, S, F, t), NEW u, Stores(t, u), HasEvenLoops(t),
         NEW cs, GoodStack(t, cs), cs # <<>>, NEW tc, NEW ids, Replaying(t, cs, tc, ids, u)
  PROVE  HasToken(t, CurFrame(cs)) /\ HasOccurence(t, tc, CurToken(t, cs))
<1>1. cs \in Seq(Frame) /\ Len(cs) \in 1..Len(cs)
  BY DEF GoodStack
<1>2. HasToken(t, CurFrame(cs))
  BY <1>1 DEF GoodStack, CurFrame
<1>3. CurToken(t, cs).type \in {"Event", "Sequence", "Loop"}
  <2>1. CurToken(t, cs).type = "Event" \/ IsIterable(CurToken(t, cs))
    BY <1>1, CurTokenProps DEF Written, CurToken, CurFrame
  <2> QED BY <2>1 DEF IsIterable
<1>4. CASE CurToken(t, cs).type = "Event"
  BY <1>2, <1>4, EventIsNext
<1>5. CASE CurToken(t, cs).type = "Sequence"
  BY <1>2, <1>5, SequenceIsNext
<1>6. CASE CurToken(t, cs).type = "Loop"
  BY <1>2, <1>6, LoopIsNext
<1> QED BY <1>3, <1>4, <1>5, <1>6

\* A block that is entered comes next.
LEMMA BlockIsNext ==
  ASSUME NEW E, NEW S, NEW F, NEW t, Written(E, S, F, t), NEW u, Stores(t, u), HasEvenLoops(t),
         NEW cs, GoodStack(t, cs), cs # <<>>, NEW tc, NEW ids, Replaying(t, cs, tc, ids, u),
         IsIterable(CurToken(t, cs))
  PROVE  Replaying(t, EnterBlock(cs, CurToken(t, cs)), CountToken(tc, CurToken(t, cs)), ids, u)
<1>1. CurToken(t, cs).type \in {"Sequence", "Loop"}
  BY DEF IsIterable
<1>2. CASE CurToken(t, cs).type = "Sequence"
  BY <1>2, SequenceIsNext
<1>3. CASE CurToken(t, cs).type = "Loop"
  BY <1>3, LoopIsNext
<1> QED BY <1>1, <1>2, <1>3


\* Reading leaves what was recorded as it is.
LEMMA SameRecord ==
  ASSUME RInv, Recorded, UNCHANGED <<vars, log, nb_durations, archive>>
  PROVE  Recorded' /\ Unfolding' = Unfolding /\ EventsGrow
<1>1. UNCHANGED recordVars /\ UNCHANGED vars /\ events' = events
  BY DEF recordVars, vars
<1>2. Recorded'
  BY <1>1, SameIsRecorded
<1>3. Unfolding' = Unfolding
  BY <1>1, OtherReads DEF RInv, Recorded
<1>4. events \in Seq(EventSummary)
  BY DEF RInv, IInv, TypeOK
<1> QED BY <1>1, <1>2, <1>3, <1>4 DEF EventsGrow, Ids

\* What is known of the thread while it is read.
LEMMA WhileReading ==
  ASSUME PrintInv, Recorded, Reopened, EventsGrow, progress # "closed", HasEvenLoops(thread)
  PROVE  /\ Written(Ids, Starts, Ends, thread) /\ Stores(thread, Unfolding)
         /\ GoodStack(thread, callstack)
         /\ Replaying(thread, callstack, tokenCount, IdsOf(printed), Unfolding)
         /\ printed \in Seq([token : Token, occurence : Nat])
<1>1. thread \in archive
  BY DEF Reopened
<1>2. Written(Ids, Starts, Ends, thread) /\ Stores(thread, Unfolding)
  BY <1>1, ArchivedThread DEF PrintInv
<1> QED BY <1>2 DEF Reopened, PrintInv, ReaderInv, ReaderTypeOK

\* An event that is printed is the next that was recorded.
LEMMA PrintReads ==
  ASSUME PrintInv, Recorded, Reopened, EventsGrow, PrintEvent, HasEvenLoops(thread)
  PROVE  /\ BeginsWith(Unfolding.ids, Append(IdsOf(printed), CurToken(thread, callstack).id))
         /\ IdsOf(printed') = Append(IdsOf(printed), CurToken(thread, callstack).id)
         /\ Replaying(thread, callstack', tokenCount', IdsOf(printed'), Unfolding)
<1> DEFINE token == CurToken(thread, callstack)
           item  == [token |-> token, occurence |-> tokenCount[token]]
<1>1. /\ progress = "reading" /\ callstack # <<>> /\ token.type = "Event"
      /\ printed' = Append(printed, item)
      /\ tokenCount' = CountToken(tokenCount, token)
      /\ callstack' = MoveToNextToken(thread, callstack)
  BY DEF PrintEvent, CanRead
<1>2. /\ Written(Ids, Starts, Ends, thread) /\ Stores(thread, Unfolding)
      /\ GoodStack(thread, callstack)
      /\ Replaying(thread, callstack, tokenCount, IdsOf(printed), Unfolding)
      /\ printed \in Seq([token : Token, occurence : Nat])
  BY <1>1, WhileReading
<1>3. /\ BeginsWith(Unfolding.ids, Append(IdsOf(printed), token.id))
      /\ Replaying(thread, MoveToNextToken(thread, callstack), CountToken(tokenCount, token),
                   Append(IdsOf(printed), token.id), Unfolding)
  BY <1>1, <1>2, EventIsNext
<1>4. item.token.id = token.id
  OBVIOUS
<1> HIDE DEF item
<1>5. IdsOf(printed') = Append(IdsOf(printed), token.id)
  BY <1>1, <1>2, <1>4, IdsAppend
<1> QED BY <1>1, <1>3, <1>5

\* Every step of the reader goes on with the rest of what was recorded.
LEMMA ReaderGoesOn ==
  ASSUME PrintInv, Recorded, Reopened, ReaderNext, UNCHANGED <<vars, log, nb_durations, archive>>
  PROVE  Reopened'
<1>1. Unfolding' = Unfolding /\ EventsGrow
  BY SameRecord DEF PrintInv
<1>2. ASSUME NEW t \in archive, OpenThread(t) PROVE Reopened'
  <2>1. /\ progress' = "reading" /\ thread' = t /\ callstack' = FirstCallstack
        /\ tokenCount' = NothingRead(t) /\ printed' = <<>>
    BY <1>2 DEF OpenThread
  <2>2. IdsOf(printed') = <<>>
    BY <2>1 DEF IdsOf
  <2>3. HasEvenLoops(t) => Replaying(t, FirstCallstack, NothingRead(t), <<>>, Unfolding)
    <3> SUFFICES ASSUME HasEvenLoops(t)
                 PROVE  Replaying(t, FirstCallstack, NothingRead(t), <<>>, Unfolding)
      OBVIOUS
    <3>1. /\ Written(Ids, Starts, Ends, t)
          /\ Unfolding = Reading(GrammarOf(t), t.tokens)[Unread(t.loops)]
      BY <1>1, ArchivedThread DEF PrintInv
    <3> QED BY <3>1, OpenIsReplaying
  <2> QED BY <1>1, <2>1, <2>2, <2>3 DEF Reopened
<1>3. CASE PrintEvent
  <2>1. progress' = "reading" /\ progress = "reading" /\ thread' = thread
    BY <1>3 DEF PrintEvent, CanRead
  <2>2. HasEvenLoops(thread) =>
          Replaying(thread, callstack', tokenCount', IdsOf(printed'), Unfolding)
    BY <1>1, <1>3, PrintReads
  <2> QED BY <1>1, <2>1, <2>2 DEF Reopened
<1>4. CASE EnterToken
  <2>1. /\ progress' = "reading" /\ progress = "reading" /\ thread' = thread
        /\ printed' = printed /\ callstack # <<>>
        /\ IsIterable(CurToken(thread, callstack))
        /\ tokenCount' = CountToken(tokenCount, CurToken(thread, callstack))
        /\ callstack' = EnterBlock(callstack, CurToken(thread, callstack))
    BY <1>4 DEF EnterToken, CanRead
  <2>2. HasEvenLoops(thread) =>
          Replaying(thread, callstack', tokenCount', IdsOf(printed), Unfolding)
    BY <1>1, <2>1, WhileReading, BlockIsNext
  <2> QED BY <1>1, <2>1, <2>2 DEF Reopened
<1>5. CASE OverrunCallstack \/ EndOfTrace
  BY <1>1, <1>5 DEF OverrunCallstack, EndOfTrace, CanRead, Reopened
<1>6. CASE FailToRead
  <2>1. /\ progress = "reading" /\ callstack # <<>> /\ ~CanRead
        /\ UNCHANGED <<thread, callstack, tokenCount, printed>> /\ progress' = "aborted"
    BY <1>6 DEF FailToRead
  <2>2. ~HasEvenLoops(thread)
    <3> SUFFICES ASSUME HasEvenLoops(thread) PROVE FALSE
      OBVIOUS
    <3>1. HasToken(thread, CurFrame(callstack))
          /\ HasOccurence(thread, tokenCount, CurToken(thread, callstack))
      BY <1>1, <2>1, WhileReading, EvenCanRead
    <3> QED BY <2>1, <3>1 DEF CanRead
  <2> QED BY <2>1, <2>2 DEF Reopened
<1> QED BY <1>2, <1>3, <1>4, <1>5, <1>6 DEF ReaderNext, GetNextToken

\* Recording goes on only while nothing is in the archive.
LEMMA RecordingFirst ==
  ASSUME Recorded, RecordNext
  PROVE  archive = {}
<1>1. archive # {} => status = "closed"
  BY DEF Recorded
<1> QED BY <1>1 DEF RecordNext, RecordBlockStart, RecordSingleton, RecordBlockEnd, ThreadClose,
                    CloseUnfinished, StoreThread, FinalizeThread

-----------------------------------------------------------------------------
(* The invariant of a thread that is recorded, closed and read back *)

RoundInv == PrintInv /\ Recorded /\ Reopened

\* At first nothing is recorded, and nothing read.
LEMMA InitRound == PrintInit => RoundInv
<1> SUFFICES ASSUME PrintInit PROVE RoundInv
  OBVIOUS
<1>1. RecordInit /\ ReaderInit
  BY DEF PrintInit
<1>2. RInv
  BY <1>1, RecordInitInvariant
<1>3. ReaderInv
  BY <1>1, <1>2, InitReader DEF RInv, StoredThreadsAreWellFormed
<1>4. Recorded
  BY <1>1, InitIsRecorded
<1>5. Reopened
  BY <1>1 DEF ReaderInit, Reopened
<1> QED BY <1>2, <1>3, <1>4, <1>5 DEF RoundInv, PrintInv

\* A step of the writer,
LEMMA RecordRound ==
  ASSUME RoundInv, RecordNext, UNCHANGED readerVars
  PROVE  RoundInv'
<1>1. PrintInv'
  BY RecordStep DEF RoundInv
<1>2. Recorded'
  BY SearchByLength, NextIsRecorded DEF RoundInv, PrintInv
<1>3. archive = {} /\ progress = "closed" /\ printed = <<>>
  BY RecordingFirst DEF RoundInv, Reopened
<1>4. Reopened'
  BY <1>3 DEF readerVars, Reopened
<1> QED BY <1>1, <1>2, <1>4 DEF RoundInv

\* one of the reader,
LEMMA ReadRound ==
  ASSUME RoundInv, ReaderNext, UNCHANGED <<vars, log, nb_durations>>
  PROVE  RoundInv'
<1>1. UNCHANGED archive
  BY DEF ReaderNext, OpenThread, GetNextToken, PrintEvent, EnterToken, OverrunCallstack,
         FailToRead, EndOfTrace
<1>2. PrintInv'
  BY ReadStep DEF RoundInv
<1>3. Recorded'
  BY <1>1, SameRecord DEF RoundInv, PrintInv
<1>4. Reopened'
  BY <1>1, ReaderGoesOn DEF RoundInv
<1> QED BY <1>2, <1>3, <1>4 DEF RoundInv

\* and one that changes neither.
LEMMA SameRound ==
  ASSUME RoundInv, PrintInv', UNCHANGED <<vars, log, nb_durations, archive, readerVars>>
  PROVE  RoundInv'
<1>1. Recorded' /\ Unfolding' = Unfolding
  BY SameRecord DEF RoundInv, PrintInv
<1>2. Reopened'
  BY <1>1 DEF RoundInv, Reopened, readerVars
<1> QED BY <1>1, <1>2 DEF RoundInv

\* Every step keeps the invariant.
LEMMA NextRound ==
  ASSUME RoundInv, [PrintNext]_<<recordVars, readerVars, shownVars>>
  PROVE  RoundInv'
<1>1. CASE RecordNext /\ UNCHANGED <<readerVars, shownVars>>
  BY <1>1, RecordRound
<1>2. CASE ReaderNext /\ UNCHANGED <<vars, log, nb_durations, shownVars>>
  BY <1>2, ReadRound
<1>3. CASE PerThread!Next /\ UNCHANGED <<vars, log, nb_durations, readerVars>>
  <2>1. UNCHANGED archive
    BY <1>3 DEF PerThread!Next, PerThread!OpenThread, PerThread!DisplaySequence,
                PerThread!DisplayEvent, PerThread!DisplayBlock, PerThread!LeaveLevel
  <2>2. PrintInv'
    BY <1>3, DisplayStep DEF RoundInv
  <2> QED BY <1>3, <2>1, <2>2, SameRound
<1>4. CASE UNCHANGED <<recordVars, readerVars, shownVars>>
  <2>1. UNCHANGED <<vars, log, nb_durations, archive, readerVars>>
    BY <1>4 DEF recordVars
  <2>2. RInv'
    BY <1>4, SearchByLength, RecordNextKeeps DEF RoundInv, PrintInv
  <2>3. ReaderInv'
    BY <2>1, NextReader DEF RoundInv, PrintInv
  <2> QED BY <2>1, <2>2, <2>3, SameRound DEF PrintInv
<1> QED BY <1>1, <1>2, <1>3, <1>4 DEF PrintNext

-----------------------------------------------------------------------------
(* The theorems.  They hold for any events, any number of blocks open at   *)
(* once, any maxLoopLength and any depth of the reader's call stack, and   *)
(* for every search for loops but the filtered one.                        *)

\* The invariant that the others are read from.
THEOREM RoundInvariant == PrintSpec => []RoundInv
<1>1. PrintInit => RoundInv
  BY InitRound
<1>2. RoundInv /\ [PrintNext]_<<recordVars, readerVars, shownVars>> => RoundInv'
  BY NextRound
<1> QED BY <1>1, <1>2, PTL DEF PrintSpec

\* Reading back a thread that was recorded fails only if some occurrence of a
\* loop has another number of iterations than the last one: there is a duration
\* for each token that comes under the cursor, and an iteration count for each
\* loop, however the loops are nested and whatever the sequences share.
THEOREM EvenTracesDoNotAbort == PrintSpec => []AbortsOnlyOnUnevenLoops
<1>1. RoundInv => AbortsOnlyOnUnevenLoops
  BY DEF RoundInv, Reopened, AbortsOnlyOnUnevenLoops
<1> QED BY <1>1, RoundInvariant, PTL


-----------------------------------------------------------------------------
(* Printing is replaying *)

\* The reading stands for the log, event by event.
LEMMA StoryProps ==
  ASSUME NEW ev, NEW ids \in Seq(Nat), \A k \in 1..Len(ids) : ids[k] \in DOMAIN ev
  PROVE  /\ Len(Story(ev, ids)) = Len(ids)
         /\ \A k \in 1..Len(ids) : Story(ev, ids)[k] = ev[ids[k]].event
<1>1. DOMAIN ids = 1..Len(ids) /\ Len(ids) \in Nat
  OBVIOUS
<1>2. Story(ev, ids) = [k \in 1..Len(ids) |-> IF ids[k] \in DOMAIN ev THEN ev[ids[k]].event ELSE "invalid"]
  BY <1>1 DEF Story
<1> DEFINE F(k) == IF ids[k] \in DOMAIN ev THEN ev[ids[k]].event ELSE "invalid"
<1>3. \A k \in 1..Len(ids) : F(k) = ev[ids[k]].event
  OBVIOUS
<1>4. Story(ev, ids) = [k \in 1..Len(ids) |-> F(k)]
  BY <1>2
<1> HIDE DEF F
<1>5. DOMAIN Story(ev, ids) = 1..Len(ids)
  BY <1>4
<1>6. \A k \in 1..Len(ids) : Story(ev, ids)[k] = F(k)
  BY <1>4
<1>7. Len(Story(ev, ids)) = Len(ids)
  <2> DEFINE s == Story(ev, ids)
  <2>1. s = [k \in 1..Len(ids) |-> F(k)]
    BY <1>4
  <2> HIDE DEF s
  <2>2. Len(s) = Len(ids)
    BY <1>1, <2>1
  <2> QED BY <2>2 DEF s
<1> QED BY <1>3, <1>6, <1>7

\* The event that is printed next is the one that was recorded next.
LEMMA NextInLog ==
  ASSUME NEW ev, NEW whole \in Seq(Nat), \A k \in 1..Len(whole) : whole[k] \in DOMAIN ev,
         NEW ids \in Seq(Nat), NEW id \in Nat, BeginsWith(whole, Append(ids, id))
  PROVE  /\ Len(ids) < Len(Story(ev, whole))
         /\ Story(ev, whole)[Len(ids) + 1] = ev[id].event
<1> DEFINE s == Append(ids, id)
           n == Len(ids)
<1>1. n \in Nat /\ Len(s) = n + 1 /\ s[n + 1] = id /\ Len(whole) \in Nat
  OBVIOUS
<1>2. Len(s) <= Len(whole) /\ \A k \in 1..Len(s) : whole[k] = s[k]
  BY DEF BeginsWith
<1> HIDE DEF s, n
<1>3. n < Len(whole) /\ n + 1 \in 1..Len(whole) /\ whole[n + 1] = id
  BY <1>1, <1>2
<1>4. /\ Len(Story(ev, whole)) = Len(whole)
      /\ Story(ev, whole)[n + 1] = ev[whole[n + 1]].event
  BY <1>3, StoryProps
<1> QED BY <1>3, <1>4 DEF n

\* What was printed, and one event more.
LEMMA EventsAppend ==
  ASSUME NEW S, NEW reads \in Seq(S), NEW item
  PROVE  /\ Len(EventsOf(reads)) = Len(reads)
         /\ EventsOf(Append(reads, item)) = Append(EventsOf(reads), events[item.token.id].event)
<1> DEFINE t == Append(reads, item)
           n == Len(reads)
<1>1. /\ n \in Nat /\ DOMAIN reads = 1..n /\ DOMAIN t = 1..(n + 1)
      /\ t[n + 1] = item /\ \A k \in 1..n : t[k] = reads[k]
  OBVIOUS
<1> DEFINE X(r, k) == events[r[k].token.id].event
<1>2. EventsOf(t) = [k \in 1..(n + 1) |-> X(t, k)] /\ EventsOf(reads) = [k \in 1..n |-> X(reads, k)]
  BY <1>1 DEF EventsOf
<1>3. X(t, n + 1) = events[item.token.id].event /\ \A k \in 1..n : X(t, k) = X(reads, k)
  BY <1>1
<1> HIDE DEF t, n, X
<1>4. [k \in 1..(n + 1) |-> X(t, k)] = Append([k \in 1..n |-> X(reads, k)], X(t, n + 1))
  BY <1>1, <1>3
<1>5. Len([k \in 1..n |-> X(reads, k)]) = n
  BY <1>1
<1> QED BY <1>2, <1>3, <1>4, <1>5 DEF t, n

\* What was printed, by its numbers.
LEMMA EventsByIds ==
  ASSUME NEW S, NEW reads \in Seq(S), \A k \in 1..Len(IdsOf(reads)) : IdsOf(reads)[k] \in DOMAIN events
  PROVE  /\ Len(IdsOf(reads)) = Len(reads)
         /\ EventsOf(reads) = Story(events, IdsOf(reads))
<1> DEFINE ids == IdsOf(reads)
           n == Len(reads)
<1>1. n \in Nat /\ DOMAIN reads = 1..n
  OBVIOUS
<1>2. ids = [k \in 1..n |-> reads[k].token.id]
  BY <1>1 DEF IdsOf
<1>3. DOMAIN ids = 1..n /\ Len(ids) = n /\ \A k \in 1..n : ids[k] = reads[k].token.id
  BY <1>1, <1>2
<1>4. EventsOf(reads) = [k \in 1..n |-> events[reads[k].token.id].event]
  BY <1>1 DEF EventsOf
<1> HIDE DEF ids
<1>5. \A k \in 1..n : ids[k] \in DOMAIN events
  BY <1>3 DEF ids
<1>6. Story(events, ids) = [k \in 1..n |-> events[reads[k].token.id].event]
  BY <1>3, <1>5 DEF Story
<1> QED BY <1>3, <1>4, <1>6 DEF ids


\* What is known of the numbers that the trace stands for.
LEMMA IdsAreEvents ==
  ASSUME RoundInv
  PROVE  /\ Unfolding.ids \in Seq(Nat)
         /\ \A k \in 1..Len(Unfolding.ids) : Unfolding.ids[k] \in DOMAIN events
         /\ log = Story(events, Unfolding.ids)
<1>1. Matches(Unfolding, events, Len(sequences)) /\ log = Story(events, Unfolding.ids)
  BY DEF RoundInv, Recorded, LInv
<1>2. DOMAIN events = 1..Len(events)
  BY DEF RoundInv, PrintInv, RInv, IInv, TypeOK
<1> QED BY <1>1, <1>2 DEF Matches, Progress

\* A recorded event is Record, and every other step of the writer changes nothing
\* that is promised.
LEMMA RecordReplays ==
  ASSUME RoundInv, RecordNext, UNCHANGED readerVars
  PROVE  [EvenReplay!Next]_EvenReplay!vars
<1>1. progress = "closed" /\ printed = <<>>
  BY RecordingFirst DEF RoundInv, Reopened
<1>2. EventsOf(printed) = <<>> /\ EventsOf(printed)' = <<>> /\ UNCHANGED <<thread, progress>>
  BY <1>1 DEF EventsOf, readerVars
<1>3. ReplayPhase(progress) = "recording"
  BY <1>1 DEF ReplayPhase
<1>4. ASSUME NEW e \in Event, log' = Append(log, e)
      PROVE  EvenReplay!Record(e)
  BY <1>2, <1>3, <1>4 DEF EvenReplay!Record
<1>5. ASSUME log' = log
      PROVE  UNCHANGED EvenReplay!vars
  BY <1>2, <1>5 DEF EvenReplay!vars
<1>6. (\E e \in Event : log' = Append(log, e)) \/ log' = log
  BY DEF RecordNext, Logged, StoreThread, Event
<1> QED BY <1>4, <1>5, <1>6 DEF EvenReplay!Next

\* Opening a thread is Rewind, or nothing if its loops are uneven.
LEMMA OpenReplays ==
  ASSUME RoundInv, NEW t \in archive, OpenThread(t), UNCHANGED <<vars, log, nb_durations>>
  PROVE  [EvenReplay!Next]_EvenReplay!vars
<1>1. /\ progress = "closed" /\ printed = <<>> /\ progress' = "reading" /\ printed' = <<>>
      /\ thread' = t /\ log' = log
  BY DEF OpenThread, RoundInv, Reopened
<1>2. EventsOf(printed) = <<>> /\ EventsOf(printed)' = <<>>
  BY <1>1 DEF EventsOf
<1>3. ReplayPhase(progress) = "recording" /\ ReplayPhase(progress') = "replaying"
  BY <1>1 DEF ReplayPhase
<1>4. CASE HasEvenLoops(t)
  <2>1. HasEvenLoops(thread)'
    BY <1>1, <1>4
  <2>2. EvenReplay!Rewind
    BY <1>1, <1>2, <1>3, <2>1 DEF EvenReplay!Rewind
  <2> QED BY <2>2 DEF EvenReplay!Next
<1>5. CASE ~HasEvenLoops(t)
  <2>1. ~HasEvenLoops(thread)'
    BY <1>1, <1>5
  <2> QED BY <1>1, <1>2, <1>3, <2>1 DEF EvenReplay!vars
<1> QED BY <1>4, <1>5

\* Printing an event is Replay.
LEMMA PrintReplays ==
  ASSUME RoundInv, PrintEvent, UNCHANGED <<vars, log, nb_durations>>
  PROVE  [EvenReplay!Next]_EvenReplay!vars
<1> DEFINE token == CurToken(thread, callstack)
           item  == [token |-> token, occurence |-> tokenCount[token]]
           S     == [token : Token, occurence : Nat]
<1>1. /\ progress = "reading" /\ UNCHANGED <<archive, thread, progress>>
      /\ printed' = Append(printed, item) /\ log' = log /\ events' = events
  BY DEF PrintEvent, CanRead, vars
<1>2. CASE HasEvenLoops(thread)
  <2>1. EventsGrow
    BY <1>1, SameRecord DEF RoundInv, PrintInv
  <2>2. BeginsWith(Unfolding.ids, Append(IdsOf(printed), token.id))
    BY <1>2, <2>1, PrintReads DEF RoundInv
  <2>3. printed \in Seq(S)
    BY <1>1, <1>2, <2>1, WhileReading DEF RoundInv
  <2>4. IdsOf(printed) \in Seq(Nat) /\ Len(IdsOf(printed)) = Len(printed)
    <3>1. DOMAIN printed = 1..Len(printed) /\ Len(printed) \in Nat
      BY <2>3
    <3>2. \A k \in 1..Len(printed) : printed[k].token.id \in Nat
      <4>1. \A k \in 1..Len(printed) : printed[k] \in S
        BY <2>3, ElementOfSeq
      <4> QED BY <4>1 DEF Token
    <3>3. IdsOf(printed) \in [1..Len(printed) -> Nat]
      BY <3>1, <3>2 DEF IdsOf
    <3> QED BY <3>1, <3>3
  <2>5. token.id \in Nat
    BY Readable DEF RoundInv, PrintInv, PrintEvent, Token
  <2>6. /\ Unfolding.ids \in Seq(Nat)
        /\ \A k \in 1..Len(Unfolding.ids) : Unfolding.ids[k] \in DOMAIN events
        /\ log = Story(events, Unfolding.ids)
    BY IdsAreEvents
  <2> DEFINE ids == IdsOf(printed)
             whole == Unfolding.ids
  <2>7. Len(ids) < Len(log) /\ log[Len(ids) + 1] = events[token.id].event
    <3>1. /\ whole \in Seq(Nat) /\ \A k \in 1..Len(whole) : whole[k] \in DOMAIN events
          /\ ids \in Seq(Nat) /\ BeginsWith(whole, Append(ids, token.id)) /\ token.id \in Nat
      BY <2>2, <2>4, <2>5, <2>6
    <3>2. log = Story(events, whole)
      BY <2>6
    <3> HIDE DEF ids, whole, token
    <3> QED BY <3>1, <3>2, NextInLog
  <2>8. /\ Len(EventsOf(printed)) = Len(printed)
        /\ EventsOf(printed)' = Append(EventsOf(printed), events[token.id].event)
    <3>1. item.token.id = token.id
      OBVIOUS
    <3> HIDE DEF item, token, S
    <3>2. /\ Len(EventsOf(printed)) = Len(printed)
          /\ EventsOf(Append(printed, item)) = Append(EventsOf(printed), events[item.token.id].event)
      BY <2>3, EventsAppend
    <3>3. EventsOf(printed)' = EventsOf(Append(printed, item))
      BY <1>1 DEF EventsOf
    <3> QED BY <3>1, <3>2, <3>3
  <2>9. ReplayPhase(progress) = "replaying" /\ ReplayPhase(progress)' = "replaying"
    BY <1>1 DEF ReplayPhase
  <2>10. HasEvenLoops(thread)'
    BY <1>1, <1>2
  <2> HIDE DEF token, item, S
  <2>11. EvenReplay!Replay
    BY <1>1, <1>2, <2>4, <2>7, <2>8, <2>9, <2>10 DEF EvenReplay!Replay
  <2> QED BY <2>11 DEF EvenReplay!Next
<1>3. CASE ~HasEvenLoops(thread)
  <2>1. ~HasEvenLoops(thread)'
    BY <1>1, <1>3
  <2> QED BY <1>1, <1>3, <2>1 DEF EvenReplay!vars
<1> QED BY <1>2, <1>3

\* Overrunning the call stack is Lose.
LEMMA OverrunReplays ==
  ASSUME RoundInv, OverrunCallstack, UNCHANGED <<vars, log, nb_durations>>
  PROVE  [EvenReplay!Next]_EvenReplay!vars
<1>1. /\ progress = "reading" /\ progress' = "overrun" /\ UNCHANGED <<thread, printed>>
      /\ log' = log /\ events' = events
  BY DEF OverrunCallstack, CanRead, vars
<1>2. EventsOf(printed)' = EventsOf(printed) /\ (HasEvenLoops(thread)' <=> HasEvenLoops(thread))
  BY <1>1 DEF EventsOf
<1>3. ReplayPhase(progress) = "replaying" /\ ReplayPhase(progress)' = "lost"
  BY <1>1 DEF ReplayPhase
<1>4. CASE HasEvenLoops(thread)
  <2>1. EvenReplay!Lose
    BY <1>1, <1>2, <1>3, <1>4 DEF EvenReplay!Lose
  <2> QED BY <2>1 DEF EvenReplay!Next
<1>5. CASE ~HasEvenLoops(thread)
  BY <1>1, <1>2, <1>5 DEF EvenReplay!vars
<1> QED BY <1>4, <1>5

\* Every other step of the reader changes nothing that is promised.
LEMMA QuietReplays ==
  ASSUME UNCHANGED <<thread, printed, log, events>>,
         progress' = progress \/ (progress = "reading" /\ progress' \in {"reading", "aborted", "done"})
  PROVE  UNCHANGED EvenReplay!vars
<1>1. EventsOf(printed)' = EventsOf(printed) /\ (HasEvenLoops(thread)' <=> HasEvenLoops(thread))
  BY DEF EventsOf
<1>2. ReplayPhase(progress)' = ReplayPhase(progress)
  BY DEF ReplayPhase
<1> QED BY <1>1, <1>2 DEF EvenReplay!vars

\* Every step of the program is a step of the replay, or none.
LEMMA NextReplays ==
  ASSUME RoundInv, [PrintNext]_<<recordVars, readerVars, shownVars>>
  PROVE  [EvenReplay!Next]_EvenReplay!vars
<1>1. CASE RecordNext /\ UNCHANGED <<readerVars, shownVars>>
  BY <1>1, RecordReplays
<1>2. CASE (\E t \in archive : OpenThread(t)) /\ UNCHANGED <<vars, log, nb_durations, shownVars>>
  BY <1>2, OpenReplays
<1>3. CASE PrintEvent /\ UNCHANGED <<vars, log, nb_durations, shownVars>>
  BY <1>3, PrintReplays
<1>4. CASE OverrunCallstack /\ UNCHANGED <<vars, log, nb_durations, shownVars>>
  BY <1>4, OverrunReplays
<1>5. CASE /\ EnterToken \/ FailToRead \/ EndOfTrace
           /\ UNCHANGED <<vars, log, nb_durations, shownVars>>
  <2>1. /\ UNCHANGED <<thread, printed, log, events>>
        /\ progress = "reading" /\ progress' \in {"reading", "aborted", "done"}
    BY <1>5 DEF EnterToken, FailToRead, EndOfTrace, CanRead, vars
  <2> QED BY <2>1, QuietReplays
<1>6. CASE \/ PerThread!Next /\ UNCHANGED <<vars, log, nb_durations, readerVars>>
           \/ UNCHANGED <<recordVars, readerVars, shownVars>>
  <2>1. UNCHANGED <<thread, printed, log, events>> /\ progress' = progress
    BY <1>6 DEF readerVars, recordVars, vars
  <2> QED BY <2>1, QuietReplays
<1> QED BY <1>1, <1>2, <1>3, <1>4, <1>5, <1>6 DEF PrintNext, ReaderNext, GetNextToken

\* printTrace prints what was recorded: on a thread whose loops are even, each
\* event that it prints is the next that the writer was given, whatever loops
\* were folded meanwhile and however deep they are nested.
THEOREM PrintsInOrder == PrintSpec => EvenReplay!Spec
<1>1. PrintInit => EvenReplay!Init
  <2> SUFFICES ASSUME PrintInit PROVE EvenReplay!Init
    OBVIOUS
  <2>1. log = <<>> /\ printed = <<>> /\ progress = "closed"
    BY DEF PrintInit, RecordInit, ReaderInit
  <2> QED BY <2>1 DEF EvenReplay!Init, EventsOf, ReplayPhase
<1>2. RoundInv /\ [PrintNext]_<<recordVars, readerVars, shownVars>>
        => [EvenReplay!Next]_EvenReplay!vars
  BY NextReplays
<1> QED BY <1>1, <1>2, RoundInvariant, PTL DEF PrintSpec, EvenReplay!Spec

\* And it prints all of it: when it is done, nothing that was recorded is left.
THEOREM PrintsEverything == PrintSpec => []DoneWithAllEvents
<1>1. RoundInv => DoneWithAllEvents
  <2> SUFFICES ASSUME RoundInv, progress = "done", HasEvenLoops(thread)
               PROVE  EventsOf(printed) = log
    BY DEF DoneWithAllEvents
  <2>1. /\ callstack = <<>> /\ thread \in archive
        /\ Replaying(thread, callstack, tokenCount, IdsOf(printed), Unfolding)
    BY DEF RoundInv, Reopened
  <2>2. PICK p \in EvenCounts(thread.loops) : \E list \in Seq(Token) :
          /\ p.ids = IdsOf(printed)
          /\ Ahead(thread, callstack, list)
          /\ Reading(GrammarOf(thread), list)[p] = Unfolding
    BY <2>1 DEF Replaying
  <2>3. p.ids = IdsOf(printed) /\ Reading(GrammarOf(thread), <<>>)[p] = Unfolding
    BY <2>1, <2>2 DEF Ahead
  <2>4. p \in Progress
    BY <2>2 DEF EvenCounts
  <2>5. GoodTables(Ids, Starts, Ends, GrammarOf(thread))
    <3>1. archive = {WrittenThread}
      BY <2>1 DEF RoundInv, Recorded
    <3>2. GrammarOf(thread) = GrammarAt(0)
      BY <2>1, <3>1 DEF WrittenThread, GrammarOf, GrammarAt
    <3>3. 0 \in Depths
      BY MaxDepthAssumption DEF Depths
    <3> QED BY <3>2, <3>3 DEF RoundInv, PrintInv, RInv, IInv, GoodFrame
  <2>6. Unfolding = p
    BY <2>3, <2>4, <2>5, EmptyRead
  <2>7. IdsOf(printed) = Unfolding.ids
    BY <2>3, <2>6
  <2>8. printed \in Seq([token : Token, occurence : Nat])
    BY DEF RoundInv, PrintInv, ReaderInv, ReaderTypeOK
  <2>9. EventsOf(printed) = Story(events, IdsOf(printed))
    <3>1. \A k \in 1..Len(IdsOf(printed)) : IdsOf(printed)[k] \in DOMAIN events
      BY <2>7, IdsAreEvents
    <3> QED BY <2>8, <3>1, EventsByIds
  <2> QED BY <2>7, <2>9, IdsAreEvents
<1> QED BY <1>1, RoundInvariant, PTL

=============================================================================
