----------------------------- MODULE Answer_proofs -----------------------------
(***************************************************************************)
(* What the client makes of a streamed answer is what the server said.     *)
(***************************************************************************)
EXTENDS Answer, FiniteSetTheorems, SequenceTheorems, WellFoundedInduction, TLAPS

(***************************************************************************)
(* The calls, in the order of their indices.                               *)
(***************************************************************************)

Increasing(s) == \A m, n \in DOMAIN s : m < n => s[m] < s[n]

(* A set of numbers that is not empty has a least element.                 *)
LEMMA Least ==
  ASSUME NEW set \in SUBSET Nat, set # {}
  PROVE  \E x \in set : \A y \in set : x <= y
<1>1. PICK x \in set : \A y \in set : ~ (<<y, x>> \in OpToRel(<, Nat))
  BY NatLessThanWellFounded, WFMin
<1>2. \A y \in set : ~ (y < x)
  BY <1>1 DEF OpToRel
<1>3. \A y \in set : x \in Nat /\ y \in Nat
  OBVIOUS
<1> QED BY <1>2, <1>3

(* A bounded set of numbers that is not empty has a greatest element.      *)
LEMMA Greatest ==
  ASSUME NEW set \in SUBSET Nat, set # {}, NEW top \in Nat, \A y \in set : y <= top
  PROVE  \E x \in set : \A y \in set : y <= x
<1> DEFINE below == {n \in Nat : top - n \in set}
<1>1. below # {}
  <2>1. PICK y \in set : TRUE  OBVIOUS
  <2>2. top - y \in Nat /\ top - (top - y) = y
    BY <2>1
  <2> QED BY <2>1, <2>2
<1>2. PICK n \in below : \A m \in below : n <= m
  BY <1>1, Least
<1>3. ASSUME NEW y \in set PROVE y <= top - n
  <2>1. top - y \in Nat /\ top - (top - y) = y
    BY <1>3
  <2>2. top - y \in below
    BY <2>1
  <2> QED BY <1>2, <2>1, <2>2
<1> QED BY <1>2, <1>3

(* A finite set of numbers can be written in increasing order.             *)
LEMMA Sortable ==
  ASSUME NEW set \in SUBSET Nat, IsFiniteSet(set)
  PROVE  \E s \in [1 .. Cardinality(set) -> set] : Increasing(s)
<1> DEFINE Sorts(n, S) == \E s \in [1 .. n -> S] : Increasing(s)
           Bad == {n \in Nat : \E S \in SUBSET Nat :
                      IsFiniteSet(S) /\ Cardinality(S) = n /\ ~Sorts(n, S)}
<1>1. SUFFICES ASSUME Bad # {} PROVE FALSE
  BY FS_CardinalityType
<1>2. PICK n \in Bad : \A m \in Bad : n <= m
  BY <1>1, Least
<1>3. PICK S \in SUBSET Nat : IsFiniteSet(S) /\ Cardinality(S) = n /\ ~Sorts(n, S)
  BY <1>2
<1>4. CASE S = {}
  <2>1. n = 0
    BY <1>3, <1>4, FS_EmptySet
  <2>2. [i \in {} |-> 0] \in [1 .. n -> S] /\ Increasing([i \in {} |-> 0])
    BY <2>1 DEF Increasing
  <2> QED BY <1>3, <2>2
<1>5. CASE S # {}
  <2>1. PICK x \in S : \A y \in S : x <= y
    BY <1>5, Least
  <2> DEFINE T == S \ {x}
  <2>2. IsFiniteSet(T) /\ Cardinality(T) = n - 1
    BY <1>3, FS_RemoveElement
  <2>3. n - 1 \in Nat
    BY <2>2, FS_CardinalityType
  <2>4. Sorts(n - 1, T)
    BY <1>2, <2>2, <2>3
  <2>5. PICK t \in [1 .. n - 1 -> T] : Increasing(t)
    BY <2>4
  <2> DEFINE s == [i \in 1 .. n |-> IF i = 1 THEN x ELSE t[i - 1]]
  <2>6. \A i \in 1 .. n : i # 1 => t[i - 1] \in T
    BY <2>3, <2>5
  <2>7. s \in [1 .. n -> S]
    BY <2>6
  <2>8. ASSUME NEW i \in 1 .. n, NEW j \in 1 .. n, i < j PROVE s[i] < s[j]
    <3>1. j # 1 /\ s[j] = t[j - 1] /\ t[j - 1] \in T
      BY <2>6, <2>8, <2>3
    <3>2. CASE i = 1
      <4>1. s[i] = x /\ x <= t[j - 1] /\ x # t[j - 1]
        BY <2>1, <3>1, <3>2
      <4>2. x \in Nat /\ t[j - 1] \in Nat
        BY <3>1
      <4> QED BY <3>1, <4>1, <4>2
    <3>3. CASE i # 1
      <4>1. i - 1 \in 1 .. n - 1 /\ j - 1 \in 1 .. n - 1 /\ i - 1 < j - 1
        BY <2>8, <3>3, <2>3
      <4>2. t[i - 1] < t[j - 1]
        BY <2>5, <4>1 DEF Increasing
      <4> QED BY <3>1, <3>3, <4>2
    <3> QED BY <3>2, <3>3
  <2>9. Increasing(s)
    BY <2>7, <2>8 DEF Increasing
  <2> QED BY <1>3, <2>7, <2>9
<1> QED BY <1>4, <1>5

(* orderCalls: every call once, in the order of the indices.               *)
LEMMA InOrder ==
  ASSUME NEW set \in SUBSET Nat, IsFiniteSet(set)
  PROVE  /\ Range(InSequence(set)) = set
         /\ \A m, n \in DOMAIN InSequence(set) :
              m < n => InSequence(set)[m] < InSequence(set)[n]
<1> DEFINE s == InSequence(set)
           N == Cardinality(set)
<1>1. s \in [1 .. N -> set] /\ Increasing(s)
  BY Sortable DEF InSequence, Increasing
<1>2. N \in Nat /\ IsFiniteSet(1 .. N) /\ Cardinality(1 .. N) = N
  BY FS_CardinalityType, FS_Interval
<1> HIDE DEF s
<1>3. \A m, n \in 1 .. N : m # n => s[m] # s[n]
  <2> SUFFICES ASSUME NEW m \in 1 .. N, NEW n \in 1 .. N, m # n PROVE s[m] # s[n]
    OBVIOUS
  <2>1. m < n \/ n < m
    BY <1>2
  <2>2. s[m] \in Nat /\ s[n] \in Nat
    BY <1>1
  <2>3. s[m] < s[n] \/ s[n] < s[m]
    BY <1>1, <2>1 DEF Increasing
  <2> QED BY <2>2, <2>3
<1>4. s \in Injection(1 .. N, set)
  BY <1>1, <1>3 DEF Injection, IsInjective
<1>5. s \in Surjection(1 .. N, set)
  BY <1>2, <1>4, FS_Injection
<1>6. Range(s) = set
  BY <1>1, <1>5 DEF Surjection, Range
<1> QED BY <1>1, <1>6 DEF s, Increasing

(***************************************************************************)
(* The images and the text of an event.                                    *)
(***************************************************************************)

LEMMA NoNumbers ==
  InSequence({}) = <<>>
<1>1. Cardinality({}) = 0 /\ IsFiniteSet({})
  BY FS_EmptySet
<1>2. InSequence({}) \in [1 .. 0 -> {}]
  BY <1>1, Sortable DEF InSequence, Increasing
<1> QED BY <1>2

LEMMA OneNumber ==
  ASSUME NEW n \in Nat
  PROVE  InSequence({n}) = <<n>>
<1>1. Cardinality({n}) = 1 /\ IsFiniteSet({n}) /\ {n} \in SUBSET Nat
  BY FS_Singleton
<1>2. InSequence({n}) \in [1 .. 1 -> {n}]
  BY <1>1, Sortable DEF InSequence, Increasing
<1> QED BY <1>2

\* An event that names no image adds none.
LEMMA NoImages ==
  ASSUME NEW known
  PROVE  NewImages(known, <<>>) = <<>>
<1>1. {i \in DOMAIN <<>> : /\ <<>>[i] \notin Range(known)
                          /\ \A j \in 1 .. i - 1 : <<>>[j] # <<>>[i]} = {}
  OBVIOUS
<1> QED BY <1>1, NoNumbers DEF NewImages

\* An event that names an image, once or twice, adds it if it is not known.
LEMMA OneImage ==
  ASSUME NEW known, NEW u, NEW urls \in {<<u>>, <<u, u>>}
  PROVE  NewImages(known, urls) = IF u \in Range(known) THEN <<>> ELSE <<u>>
<1> DEFINE new == {i \in DOMAIN urls : /\ urls[i] \notin Range(known)
                                       /\ \A j \in 1 .. i - 1 : urls[j] # urls[i]}
<1>1. 1 \in DOMAIN urls /\ DOMAIN urls \subseteq {1, 2} /\ \A i \in DOMAIN urls : urls[i] = u
  OBVIOUS
<1>2. new = IF u \in Range(known) THEN {} ELSE {1}
  BY <1>1
<1>3. InSequence(new) = IF u \in Range(known) THEN <<>> ELSE <<1>>
  BY <1>2, NoNumbers, OneNumber
<1>4. NewImages(known, urls) = [k \in DOMAIN InSequence(new) |-> urls[InSequence(new)[k]]]
  BY DEF NewImages
<1> HIDE DEF new
<1>5. CASE u \in Range(known)
  BY <1>3, <1>4, <1>5
<1>6. CASE u \notin Range(known)
  BY <1>1, <1>3, <1>4, <1>6
<1> QED BY <1>5, <1>6

\* normalizeAssistantContent drops nothing of an event without text.
LEMMA NothingNew ==
  ASSUME NEW s \in Seq(Words)
  PROVE  Normalized(s, <<>>) = <<>>
BY DEF Normalized, IsPrefix

\* It drops a text that is stated again.
LEMMA Restated ==
  ASSUME NEW s \in Seq(Words)
  PROVE  Normalized(s, s) = <<>>
<1>1. CASE s = <<>>
  BY <1>1 DEF Normalized
<1>2. CASE s # <<>>
  <2>1. IsPrefix(s, s)
    BY DEF IsPrefix
  <2>2. SubSeq(s, Len(s) + 1, Len(s)) = <<>>
    BY SubSeqEmpty
  <2> QED BY <1>2, <2>1, <2>2 DEF Normalized
<1> QED BY <1>1, <1>2

\* It drops nothing of a word, unless the word is the whole text so far.
LEMMA NewWord ==
  ASSUME NEW s \in Seq(Words), NEW w \in Words, s # <<w>>
  PROVE  Normalized(s, <<w>>) = <<w>>
<1>1. SUFFICES ASSUME s # <<>>, IsPrefix(s, <<w>>) PROVE FALSE
  BY DEF Normalized
<1>2. Len(s) = 1 /\ SubSeq(s, 1, Len(s)) = SubSeq(<<w>>, 1, Len(s))
  BY <1>1 DEF IsPrefix
<1>3. s = <<w>>
  BY <1>2
<1> QED BY <1>3

LEMMA NormalizedTyped ==
  ASSUME NEW s \in Seq(Words), NEW t \in Seq(Words)
  PROVE  Normalized(s, t) \in Seq(Words)
<1>1. SubSeq(t, Len(s) + 1, Len(t)) \in Seq(Words)
  BY SubSeqProperties
<1> QED BY <1>1 DEF Normalized

\* strings.TrimSpace: what is left begins and ends with something to keep.
LEMMA TrimmedProperties ==
  ASSUME NEW s \in Seq(Words)
  PROVE  /\ Trimmed(s) \in Seq(Words)
         /\ Trimmed(Trimmed(s)) = Trimmed(s)
<1> DEFINE Solid(q)  == {i \in DOMAIN q : q[i] # Space}
           First(q)  == CHOOSE i \in Solid(q) : \A j \in Solid(q) : i <= j
           Final(q)  == CHOOSE i \in Solid(q) : \A j \in Solid(q) : j <= i
<1>1. \A q : Trimmed(q) = IF Solid(q) = {} THEN <<>> ELSE SubSeq(q, First(q), Final(q))
  BY DEF Trimmed
<1>2. ASSUME NEW q \in Seq(Words), Solid(q) # {}
      PROVE  /\ First(q) \in Solid(q) /\ \A j \in Solid(q) : First(q) <= j
             /\ Final(q) \in Solid(q) /\ \A j \in Solid(q) : j <= Final(q)
  <2>1. Solid(q) \in SUBSET Nat /\ Len(q) \in Nat /\ \A j \in Solid(q) : j <= Len(q)
    OBVIOUS
  <2>2. \E i \in Solid(q) : \A j \in Solid(q) : i <= j
    BY <1>2, <2>1, Least
  <2>3. \E i \in Solid(q) : \A j \in Solid(q) : j <= i
    BY <1>2, <2>1, Greatest
  <2> HIDE DEF Solid
  <2> QED BY <2>2, <2>3
<1>3. CASE Solid(s) = {}
  <2>1. Trimmed(s) = <<>>
    BY <1>1, <1>3
  <2>2. Solid(<<>>) = {}
    OBVIOUS
  <2>3. Trimmed(<<>>) = <<>>
    BY <1>1, <2>2
  <2> QED BY <2>1, <2>3
<1>4. CASE Solid(s) # {}
  <2> DEFINE a == First(s)
             b == Final(s)
             t == SubSeq(s, a, b)
  <2>1. a \in 1 .. Len(s) /\ b \in a .. Len(s) /\ s[a] # Space /\ s[b] # Space
    <3>1. a \in Solid(s) /\ b \in Solid(s) /\ a <= b
      BY <1>2, <1>4
    <3> HIDE DEF First, Final
    <3> QED BY <3>1
  <2>2. Trimmed(s) = t
    BY <1>1, <1>4
  <2> HIDE DEF a, b
  <2>3. /\ t \in Seq(Words) /\ Len(t) = b - a + 1
        /\ t[1] = s[a] /\ t[Len(t)] = s[b]
    BY <2>1, SubSeqProperties
  <2> HIDE DEF t
  <2>4. Len(t) \in Nat \ {0}
    BY <2>1, <2>3
  <2>5. 1 \in Solid(t) /\ Len(t) \in Solid(t) /\ \A j \in Solid(t) : 1 <= j /\ j <= Len(t)
    BY <2>1, <2>3, <2>4
  <2>6. First(t) = 1 /\ Final(t) = Len(t)
    <3>1. /\ First(t) \in Solid(t) /\ \A j \in Solid(t) : First(t) <= j
          /\ Final(t) \in Solid(t) /\ \A j \in Solid(t) : j <= Final(t)
      BY <1>2, <2>3, <2>5
    <3>2. First(t) <= 1 /\ 1 <= First(t) /\ Len(t) <= Final(t) /\ Final(t) <= Len(t)
      BY <2>5, <3>1
    <3>3. First(t) \in Nat /\ Final(t) \in Nat
      BY <2>3, <3>1
    <3> HIDE DEF First, Final
    <3> QED BY <2>4, <3>2, <3>3
  <2>7. Trimmed(t) = SubSeq(t, 1, Len(t))
    BY <1>1, <2>5, <2>6
  <2>8. Trimmed(t) = t
    BY <2>3, <2>7, SubSeqFull
  <2> QED BY <2>2, <2>3, <2>8
<1> QED BY <1>3, <1>4

-----------------------------------------------------------------------------
(***************************************************************************)
(* The inductive invariant.  Its parts say of the values of the client,    *)
(* with what the event on its way will still add to them, what TextAsSaid, *)
(* ShownIsKept and CallsAsSent say of the values at the end.               *)
(***************************************************************************)

Pending  == IF event = None THEN Silent ELSE event
Chunk    == Parsed(Pending)
Quiet(c) == c.content = <<>> /\ c.images = <<>> /\ c.tools = {}

(* An error carries nothing else, and the stream is not left before the    *)
(* last event is handled.                                                  *)
ShapeInv ==
  /\ Len(said) <= MaxWords
  /\ Chunk.bad => Quiet(Chunk)
  /\ done = "yes" => event = None

\* Every error event is counted once, and a token count of 0 says nothing.
CountInv ==
  /\ errors + (IF Chunk.bad THEN 1 ELSE 0) = reported.errors
  /\ (IF Pending.usage = 0 THEN usage ELSE Pending.usage) = reported.usage

\* The images the server has named, each once.
ImagesInv ==
  /\ IsInjective(named)
  /\ done = "no" => named = images \o NewImages(images, Chunk.images)
  /\ done = "yes" => named = images

\* The text the server has said.
TextInv ==
  ~unclear =>
    /\ done = "no" => said = text \o Normalized(text, Chunk.content)
    /\ done = "yes" => text = Trimmed(said)

\* What the application has been shown.
ShownInv ==
  /\ done = "no" /\ partial => shown.text = text /\ shown.images = images
  /\ done = "yes" => Trimmed(shown.text) = text /\ shown.images = images

\* A call, when the event on its way has been handled.
After(i) == IF i \in Chunk.tools THEN Collected(calls[i], Pending) ELSE calls[i]

(* Of a call that is being streamed the client has the pieces sent; one    *)
(* that was stated has arguments, which are the whole ones the first time. *)
CallInv(i) ==
  /\ asked[i].stated = 0 => /\ asked[i].sent < Pieces
                            /\ After(i).args = [p \in 1 .. asked[i].sent |-> p]
  /\ asked[i].stated = 1 => asked[i].sent = Pieces /\ After(i).args = Whole
  /\ asked[i] # Unstarted => After(i).args # <<>>
  /\ mode = "chat" /\ asked[i].sent > 0 => After(i).id = i
CallsInv ==
  done # "cancelled" =>
    /\ IsFiniteSet({i \in Indices : After(i) # NoCall})
    /\ \A i \in Indices : CallInv(i)

AnswerInv == TypeOK /\ ShapeInv /\ CountInv /\ ImagesInv /\ TextInv /\ ShownInv /\ CallsInv

-----------------------------------------------------------------------------
(***************************************************************************)
(* What the actions of the server put on the way.                          *)
(***************************************************************************)

Made(type, words, urls, index, id, args, count) ==
  [type |-> type, text |-> words, urls |-> urls, index |-> index, id |-> id,
   args |-> args, usage |-> count]

LEMMA SilentMade == Silent = Made("other", <<>>, <<>>, None, None, <<>>, 0)
BY DEF Silent, Made

LEMMA TypeMade ==
  ASSUME NEW t
  PROVE  [Silent EXCEPT !.type = t] = Made(t, <<>>, <<>>, None, None, <<>>, 0)
BY DEF Silent, Made

LEMMA UsageMade ==
  ASSUME NEW n
  PROVE  [Silent EXCEPT !.usage = n] = Made("other", <<>>, <<>>, None, None, <<>>, n)
BY DEF Silent, Made

LEMMA TextMade ==
  ASSUME NEW t, NEW x
  PROVE  [Silent EXCEPT !.type = t, !.text = x] = Made(t, x, <<>>, None, None, <<>>, 0)
<1> DEFINE r == [Silent EXCEPT !.type = t]
<1>1. [Silent EXCEPT !.type = t, !.text = x] = [r EXCEPT !.text = x]
  OBVIOUS
<1>2. r = Made(t, <<>>, <<>>, None, None, <<>>, 0)
  BY TypeMade
<1> HIDE DEF r
<1>3. [r EXCEPT !.text = x] = Made(t, x, <<>>, None, None, <<>>, 0)
  BY <1>2 DEF Made
<1> QED BY <1>1, <1>3, Zenon

LEMMA ImageMade ==
  ASSUME NEW t, NEW x
  PROVE  [Silent EXCEPT !.type = t, !.urls = x] = Made(t, <<>>, x, None, None, <<>>, 0)
<1> DEFINE r == [Silent EXCEPT !.type = t]
<1>1. [Silent EXCEPT !.type = t, !.urls = x] = [r EXCEPT !.urls = x]
  OBVIOUS
<1>2. r = Made(t, <<>>, <<>>, None, None, <<>>, 0)
  BY TypeMade
<1> HIDE DEF r
<1>3. [r EXCEPT !.urls = x] = Made(t, <<>>, x, None, None, <<>>, 0)
  BY <1>2 DEF Made
<1> QED BY <1>1, <1>3, Zenon

LEMMA CallMade ==
  ASSUME NEW t, NEW i, NEW j
  PROVE  [Silent EXCEPT !.type = t, !.index = i, !.id = j]
           = Made(t, <<>>, <<>>, i, j, <<>>, 0)
<1> DEFINE r == [Silent EXCEPT !.type = t]
           q == [r EXCEPT !.index = i]
<1>1. [Silent EXCEPT !.type = t, !.index = i, !.id = j] = [q EXCEPT !.id = j]
  OBVIOUS
<1>2. r = Made(t, <<>>, <<>>, None, None, <<>>, 0)
  BY TypeMade
<1> HIDE DEF r
<1>3. q = Made(t, <<>>, <<>>, i, None, <<>>, 0)
  BY <1>2 DEF Made
<1> HIDE DEF q
<1>4. [q EXCEPT !.id = j] = Made(t, <<>>, <<>>, i, j, <<>>, 0)
  BY <1>3 DEF Made
<1> QED BY <1>1, <1>4, Zenon

LEMMA PieceMade ==
  ASSUME NEW t, NEW i, NEW j, NEW x
  PROVE  [Silent EXCEPT !.type = t, !.index = i, !.id = j, !.args = x]
           = Made(t, <<>>, <<>>, i, j, x, 0)
<1> DEFINE r == [Silent EXCEPT !.type = t, !.index = i, !.id = j]
<1>1. [Silent EXCEPT !.type = t, !.index = i, !.id = j, !.args = x] = [r EXCEPT !.args = x]
  OBVIOUS
<1>2. r = Made(t, <<>>, <<>>, i, j, <<>>, 0)
  BY CallMade
<1> HIDE DEF r
<1>3. [r EXCEPT !.args = x] = Made(t, <<>>, <<>>, i, j, x, 0)
  BY <1>2 DEF Made
<1> QED BY <1>1, <1>3, Zenon

LEMMA MadeTyped ==
  ASSUME NEW t \in {"other", "finish"} \cup Errors \cup TextTypes \cup ImageTypes \cup CallTypes,
         NEW x \in Seq(Words), NEW u \in Seq(Urls), NEW i \in Indices \cup {None},
         NEW j \in Indices \cup {None}, NEW a \in Seq(1 .. Pieces), NEW n \in 0 .. MaxUsage
  PROVE  Made(t, x, u, i, j, a, n) \in Event
BY DEF Made, Event

\* What an event is to the client: its error, text, images, call and token count.
Carries(ev, bad, content, urls, index, count) ==
  /\ (Parsed(ev).bad <=> bad) /\ Parsed(ev).content = content /\ Parsed(ev).images = urls
  /\ Parsed(ev).tools = {index} \ {None} /\ ev.usage = count

LEMMA MadeCarries ==
  ASSUME NEW t, NEW x, NEW u, NEW i, NEW j, NEW a, NEW n,
         x # <<>> => t \in TextTypes, u # <<>> => t \in ImageTypes, i # None => t \in CallTypes
  PROVE  Carries(Made(t, x, u, i, j, a, n), t \in Errors, x, u, i, n)
BY DEF Made, Carries, Parsed

LEMMA SilentCarries == Carries(Silent, FALSE, <<>>, <<>>, None, 0)
<1>1. Carries(Silent, "other" \in Errors, <<>>, <<>>, None, 0)
  BY SilentMade, MadeCarries
<1>2. "other" \notin Errors
  BY DEF Errors
<1> QED BY <1>1, <1>2 DEF Carries

\* Between two events there is nothing on the way.
LEMMA NothingPending ==
  ASSUME event = None
  PROVE  /\ Carries(Pending, FALSE, <<>>, <<>>, None, 0) /\ Quiet(Chunk) /\ ~Chunk.bad
<1>2. Carries(Pending, FALSE, <<>>, <<>>, None, 0)
  BY SilentCarries DEF Pending
<1> QED BY <1>2 DEF Carries, Chunk, Quiet

LEMMA NothingLater ==
  ASSUME event' = None
  PROVE  /\ Pending'.usage = 0 /\ ~Chunk'.bad
         /\ Chunk'.content = <<>> /\ Chunk'.images = <<>> /\ Chunk'.tools = {}
<1>2. Pending' = Silent /\ Chunk' = Parsed(Silent)
  BY DEF Pending, Chunk
<1> QED BY <1>2, SilentCarries DEF Carries

\* What is sent is on its way.
Sends(type, words, urls, index, id, args, count) ==
  /\ event = None /\ ~over /\ done = "no" /\ event' \in Event
  /\ Pending' = Made(type, words, urls, index, id, args, count)
  /\ Carries(Pending', type \in Errors, words, urls, index, count)
  /\ type \in Errors => words = <<>> /\ urls = <<>> /\ index = None

LEMMA Sending ==
  ASSUME NEW t \in {"other", "finish"} \cup Errors \cup TextTypes \cup ImageTypes \cup CallTypes,
         NEW x \in Seq(Words), NEW u \in Seq(Urls), NEW i \in Indices \cup {None},
         NEW j \in Indices \cup {None}, NEW a \in Seq(1 .. Pieces), NEW n \in 0 .. MaxUsage,
         x # <<>> => t \in TextTypes, u # <<>> => t \in ImageTypes, i # None => t \in CallTypes,
         Send(Made(t, x, u, i, j, a, n))
  PROVE  Sends(t, x, u, i, j, a, n)
<1> DEFINE ev == Made(t, x, u, i, j, a, n)
<1>1. ev \in Event
  BY MadeTyped
<1>2. Carries(ev, t \in Errors, x, u, i, n)
  BY MadeCarries
<1> HIDE DEF ev
<1>3. event' = ev /\ event = None /\ ~over /\ done = "no"
  BY DEF Send, ev
<1>4. Pending' = ev
  BY <1>1, <1>3, NoEventAssumption DEF Pending
<1>5. Carries(Pending', t \in Errors, x, u, i, n)
  BY <1>2, <1>4
<1>6. event' \in Event
  BY <1>1, <1>3
<1>7. t \in Errors => t \notin TextTypes \cup ImageTypes \cup CallTypes
  BY DEF Errors, TextTypes, ImageTypes, CallTypes
<1>8. t \in Errors => x = <<>> /\ u = <<>> /\ i = None
  BY <1>7
<1> QED BY <1>3, <1>4, <1>5, <1>6, <1>8 DEF Sends, ev

LEMMA Sent ==
  ASSUME NEW t, NEW x, NEW u, NEW i, NEW j, NEW a, NEW n, Sends(t, x, u, i, j, a, n)
  PROVE  /\ event = None /\ done = "no" /\ ~Chunk.bad /\ Quiet(Chunk) /\ Pending.usage = 0
         /\ (Chunk'.bad <=> t \in Errors) /\ Chunk'.content = x /\ Chunk'.images = u
         /\ Chunk'.tools = {i} \ {None}
         /\ Pending'.id = j /\ Pending'.args = a /\ Pending'.usage = n
         /\ Chunk'.bad => Quiet(Chunk')
<1>1. event = None /\ done = "no" /\ Pending' = Made(t, x, u, i, j, a, n)
  BY DEF Sends
<1>2. ~Chunk.bad /\ Quiet(Chunk) /\ Pending.usage = 0
  BY <1>1, NothingPending DEF Carries
<1>3. /\ (Chunk'.bad <=> t \in Errors) /\ Chunk'.content = x /\ Chunk'.images = u
      /\ Chunk'.tools = {i} \ {None}
  BY DEF Sends, Carries, Chunk
<1>4. Pending'.id = j /\ Pending'.args = a /\ Pending'.usage = n
  BY <1>1 DEF Made
<1>5. Chunk'.bad => Quiet(Chunk')
  <2>1. t \in Errors => x = <<>> /\ u = <<>> /\ i = None
    BY DEF Sends
  <2> QED BY <1>3, <2>1 DEF Quiet
<1> QED BY <1>1, <1>2, <1>3, <1>4, <1>5

LEMMA NoneOf ==
  /\ <<>> \in Seq(Words) /\ <<>> \in Seq(Urls) /\ <<>> \in Seq(1 .. Pieces)
  /\ 0 \in 0 .. MaxUsage /\ None \in Indices \cup {None} /\ <<>> = <<>>
BY AnswerAssumption, EmptySeq

LEMMA TextSending ==
  ASSUME NEW t \in TextTypes, NEW x \in Seq(Words), Send(Made(t, x, <<>>, None, None, <<>>, 0))
  PROVE  Sends(t, x, <<>>, None, None, <<>>, 0)
BY NoneOf, Sending

LEMMA ImageSending ==
  ASSUME NEW t \in ImageTypes, NEW u \in Seq(Urls), Send(Made(t, <<>>, u, None, None, <<>>, 0))
  PROVE  Sends(t, <<>>, u, None, None, <<>>, 0)
BY NoneOf, Sending

LEMMA CallSending ==
  ASSUME NEW t \in CallTypes, NEW i \in Indices, NEW j \in Indices \cup {None},
         NEW a \in Seq(1 .. Pieces), Send(Made(t, <<>>, <<>>, i, j, a, 0))
  PROVE  Sends(t, <<>>, <<>>, i, j, a, 0)
BY NoneOf, Sending

LEMMA OtherSending ==
  ASSUME NEW t \in {"other", "finish"} \cup Errors, NEW n \in 0 .. MaxUsage,
         Send(Made(t, <<>>, <<>>, None, None, <<>>, n))
  PROVE  Sends(t, <<>>, <<>>, None, None, <<>>, n)
BY NoneOf, Sending

LEMMA TypesOfEvents ==
  /\ {"chat", "text.delta", "text.done", "part.added", "part.done", "item.done"} \subseteq TextTypes
  /\ {"chat", "image"} \subseteq ImageTypes /\ {"chat", "args.delta", "call"} \subseteq CallTypes
  /\ Errors = {"chat.error", "error", "failed"}
BY DEF TextTypes, ImageTypes, CallTypes, Errors

LEMMA SayWordSends ==
  ASSUME TypeOK, NEW w \in Words, SayWord(w)
  PROVE  Sends(IF mode = "chat" THEN "chat" ELSE "text.delta", <<w>>, <<>>, None, None, <<>>, 0)
<1> DEFINE t == IF mode = "chat" THEN "chat" ELSE "text.delta"
<1>1. Send(Made(t, <<w>>, <<>>, None, None, <<>>, 0))
  BY TextMade DEF SayWord
<1>2. t \in TextTypes
  BY TypesOfEvents
<1>3. <<w>> \in Seq(Words) /\ 0 \in 0 .. MaxUsage
  BY AnswerAssumption
<1> HIDE DEF t
<1>4. Sends(t, <<w>>, <<>>, None, None, <<>>, 0)
  BY <1>1, <1>2, <1>3, NoneOf, TextSending
<1> QED BY <1>4 DEF t

\* The part is stated, in an event of its own kind.
LEMMA StatePartSends ==
  ASSUME TypeOK, ShapeInv, StatePart
  PROVE  \E t \in {"text.done", "part.done"} :
           /\ Sends(t, SubSeq(said, part.from, Len(said)), <<>>, None, None, <<>>, 0)
           /\ part' = [part EXCEPT !.stated = @ \cup {t}]
<1> DEFINE x == SubSeq(said, part.from, Len(said))
<1>1. PICK t \in {"text.done", "part.done"} :
        /\ Send(Made(t, x, <<>>, None, None, <<>>, 0))
        /\ part' = [part EXCEPT !.stated = @ \cup {t}]
  <2>1. PICK t \in {"text.done", "part.done"} \ part.stated :
          /\ Send([Silent EXCEPT !.type = t, !.text = x])
          /\ part' = [part EXCEPT !.stated = @ \cup {t}]
    BY Zenon DEF StatePart
  <2>2. Send(Made(t, x, <<>>, None, None, <<>>, 0))
    BY <2>1, TextMade
  <2> QED BY <2>1, <2>2
<1>2. t \in TextTypes
  BY TypesOfEvents
<1>3. x \in Seq(Words)
  <2>1. said \in Seq(Words) /\ part.from \in Nat /\ part.from >= 1
    BY AnswerAssumption DEF TypeOK
  <2> QED BY <2>1, SubSeqProperties
<1>4. 0 \in 0 .. MaxUsage
  BY AnswerAssumption
<1> HIDE DEF x
<1>5. Sends(t, x, <<>>, None, None, <<>>, 0)
  BY <1>1, <1>2, <1>3, <1>4, NoneOf, TextSending
<1> QED BY <1>1, <1>5 DEF x

LEMMA NextPartSends ==
  ASSUME NextPart
  PROVE  Sends("part.added", <<>>, <<>>, None, None, <<>>, 0)
<1>1. Send(Made("part.added", <<>>, <<>>, None, None, <<>>, 0))
  BY TypeMade DEF NextPart
<1>2. "part.added" \in TextTypes /\ 0 \in 0 .. MaxUsage
  BY TypesOfEvents, AnswerAssumption
<1> QED BY <1>1, <1>2, NoneOf, TextSending

LEMMA StateItemSends ==
  ASSUME TypeOK, StateItem
  PROVE  Sends("item.done", said, <<>>, None, None, <<>>, 0)
<1>1. Send(Made("item.done", said, <<>>, None, None, <<>>, 0))
  BY TextMade DEF StateItem
<1>2. "item.done" \in TextTypes /\ 0 \in 0 .. MaxUsage /\ said \in Seq(Words)
  BY TypesOfEvents, AnswerAssumption DEF TypeOK
<1> QED BY <1>1, <1>2, NoneOf, TextSending

LEMMA SendImageSends ==
  ASSUME NEW u \in Urls, SendImage(u)
  PROVE  \E t \in ImageTypes, urls \in {<<u>>, <<u, u>>} :
           Sends(t, <<>>, urls, None, None, <<>>, 0)
<1> DEFINE t == IF mode = "chat" THEN "chat" ELSE "image"
<1>1. PICK urls \in {<<u>>, <<u, u>>} : Send(Made(t, <<>>, urls, None, None, <<>>, 0))
  BY ImageMade DEF SendImage
<1>2. t \in ImageTypes
  BY TypesOfEvents
<1>3. urls \in Seq(Urls)
  <2>1. <<u>> \in Seq(Urls) /\ <<u, u>> \in Seq(Urls)
    OBVIOUS
  <2> QED BY <1>1, <2>1
<1> HIDE DEF t
<1>4. Sends(t, <<>>, urls, None, None, <<>>, 0)
  BY <1>1, <1>2, <1>3, ImageSending
<1> QED BY <1>2, <1>4

LEMMA SendPieceSends ==
  ASSUME TypeOK, NEW i \in Indices, SendPiece(i)
  PROVE  \E t \in CallTypes \ Errors, id \in {i, None} :
           /\ Sends(t, <<>>, <<>>, i, id, <<asked[i].sent + 1>>, 0)
           /\ mode = "chat" /\ asked[i].sent = 0 => id = i
<1> DEFINE t == IF mode = "chat" THEN "chat" ELSE "args.delta"
           x == <<asked[i].sent + 1>>
<1>1. \E id \in {i} \cup (IF mode = "responses" \/ asked[i].sent > 0 THEN {None} ELSE {}) :
        Send([Silent EXCEPT !.type = t, !.index = i, !.id = id, !.args = x])
  BY Zenon DEF SendPiece
<1>2. t \in CallTypes \ Errors
  BY TypesOfEvents
<1>3. x \in Seq(1 .. Pieces)
  <2>1. asked[i].sent \in 0 .. Pieces /\ asked[i].sent < Pieces /\ Pieces \in Nat
    BY AnswerAssumption DEF TypeOK, SendPiece
  <2>2. asked[i].sent + 1 \in 1 .. Pieces
    BY <2>1
  <2> QED BY <2>2
<1> HIDE DEF t
<1>4. PICK id \in {i} \cup (IF mode = "responses" \/ asked[i].sent > 0 THEN {None} ELSE {}) :
        Send([Silent EXCEPT !.type = t, !.index = i, !.id = id, !.args = x])
  BY <1>1, Zenon
<1>5. Send(Made(t, <<>>, <<>>, i, id, x, 0))
  BY <1>4, PieceMade, Zenon
<1>6. id \in {i, None} /\ (mode = "chat" /\ asked[i].sent = 0 => id = i)
  BY <1>4
<1>7. t \in CallTypes /\ id \in Indices \cup {None}
  BY <1>2, <1>6
<1>8. Sends(t, <<>>, <<>>, i, id, x, 0)
  BY <1>3, <1>5, <1>7, CallSending, Zenon
<1> QED BY <1>2, <1>6, <1>8

LEMMA StateCallSends ==
  ASSUME NEW i \in Indices, StateCall(i)
  PROVE  Sends("call", <<>>, <<>>, i, i, Whole, 0)
<1>1. Send(Made("call", <<>>, <<>>, i, i, Whole, 0))
  BY PieceMade DEF StateCall
<1>2. "call" \in CallTypes /\ 0 \in 0 .. MaxUsage
  BY TypesOfEvents, AnswerAssumption
<1>3. Whole \in Seq(1 .. Pieces)
  BY AnswerAssumption DEF Whole
<1> QED BY <1>1, <1>2, <1>3, NoneOf, CallSending

LEMMA AnnounceCallSends ==
  ASSUME NEW i \in Indices, AnnounceCall(i)
  PROVE  Sends("call", <<>>, <<>>, i, i, <<>>, 0)
<1>1. Send(Made("call", <<>>, <<>>, i, i, <<>>, 0))
  BY CallMade DEF AnnounceCall
<1>2. "call" \in CallTypes /\ 0 \in 0 .. MaxUsage
  BY TypesOfEvents, AnswerAssumption
<1> QED BY <1>1, <1>2, NoneOf, CallSending

LEMMA CountTokensSends ==
  ASSUME NEW n \in 0 .. MaxUsage, CountTokens(n)
  PROVE  Sends("other", <<>>, <<>>, None, None, <<>>, n)
<1>1. Send(Made("other", <<>>, <<>>, None, None, <<>>, n))
  BY UsageMade DEF CountTokens
<1> QED BY <1>1, NoneOf, OtherSending

LEMMA SendErrorSends ==
  ASSUME SendError
  PROVE  \E t \in Errors : Sends(t, <<>>, <<>>, None, None, <<>>, 0)
<1>1. PICK t \in Errors : Send(Made(t, <<>>, <<>>, None, None, <<>>, 0))
  BY TypeMade, TypesOfEvents DEF SendError
<1>2. 0 \in 0 .. MaxUsage
  BY AnswerAssumption
<1>3. Sends(t, <<>>, <<>>, None, None, <<>>, 0)
  BY <1>1, <1>2, NoneOf, OtherSending
<1> QED BY <1>3

LEMMA FinishSends ==
  ASSUME Finish
  PROVE  Sends("finish", <<>>, <<>>, None, None, <<>>, 0)
<1>1. Send(Made("finish", <<>>, <<>>, None, None, <<>>, 0))
  BY TypeMade DEF Finish
<1>2. 0 \in 0 .. MaxUsage
  BY AnswerAssumption
<1> QED BY <1>1, <1>2, NoneOf, OtherSending

-----------------------------------------------------------------------------
(***************************************************************************)
(* What the client makes of an event.                                      *)
(***************************************************************************)

LEMMA ChunkTyped ==
  ASSUME TypeOK
  PROVE  /\ Pending \in Event /\ Pending.usage \in 0 .. MaxUsage
         /\ Pending.id \in Indices \cup {None} /\ Pending.args \in Seq(1 .. Pieces)
         /\ Chunk.content \in Seq(Words) /\ Chunk.images \in Seq(Urls)
         /\ Chunk.tools \in SUBSET Indices /\ Chunk.bad \in BOOLEAN
<1>1. Silent \in Event
  BY SilentMade, MadeTyped, NoneOf
<1>2. Pending \in Event
  BY <1>1 DEF TypeOK, Pending
<1>3. ASSUME NEW ev \in Event
      PROVE  /\ ev.usage \in 0 .. MaxUsage /\ ev.id \in Indices \cup {None}
             /\ ev.args \in Seq(1 .. Pieces)
             /\ Parsed(ev).content \in Seq(Words) /\ Parsed(ev).images \in Seq(Urls)
             /\ Parsed(ev).tools \in SUBSET Indices /\ Parsed(ev).bad \in BOOLEAN
  <2>1. /\ ev.usage \in 0 .. MaxUsage /\ ev.id \in Indices \cup {None}
        /\ ev.args \in Seq(1 .. Pieces) /\ ev.text \in Seq(Words) /\ ev.urls \in Seq(Urls)
        /\ ev.index \in Indices \cup {None}
    BY DEF Event
  <2> QED BY <2>1, NoneOf DEF Parsed
<1> QED BY <1>2, <1>3 DEF Chunk

(* An error changes nothing but the count; any other event adds what it    *)
(* carries.  In either case what was on its way is there.                  *)
LEMMA Handled ==
  ASSUME TypeOK, ShapeInv, ProcessEvent
  PROVE  /\ event # None /\ done = "no" /\ event' = None
         /\ text' = text \o Normalized(text, Chunk.content)
         /\ images' = images \o NewImages(images, Chunk.images)
         /\ calls' = [i \in Indices |-> After(i)]
         /\ usage' = (IF Pending.usage = 0 THEN usage ELSE Pending.usage)
         /\ errors' = errors + (IF Chunk.bad THEN 1 ELSE 0)
         /\ partial => /\ shown'.text = shown.text \o Normalized(text, Chunk.content)
                       /\ shown'.images = shown.images \o NewImages(images, Chunk.images)
         /\ ~partial => shown' = shown
         /\ UNCHANGED <<mode, partial, serverVars, done>>
<1>1. event # None /\ Pending = event /\ Chunk = Parsed(event)
  BY DEF ProcessEvent, Pending, Chunk
<1>2. /\ text \in Seq(Words) /\ images \in Seq(Urls) /\ shown.text \in Seq(Words)
      /\ shown.images \in Seq(Urls) /\ errors \in Nat
      /\ calls \in [Indices -> [id : Indices \cup {None}, args : Seq(1 .. Pieces)]]
  BY AnswerAssumption DEF TypeOK
<1>3. /\ event' = None /\ done = "no" /\ UNCHANGED <<mode, partial, serverVars, done>>
      /\ usage' = (IF Pending.usage = 0 THEN usage ELSE Pending.usage)
  BY <1>1 DEF ProcessEvent, Usage
<1>4. CASE Chunk.bad
  <2>1. Chunk.content = <<>> /\ Chunk.images = <<>> /\ Chunk.tools = {}
    BY <1>4 DEF ShapeInv, Quiet
  <2>2. errors' = errors + 1 /\ UNCHANGED <<text, images, calls, shown>>
    BY <1>1, <1>4 DEF ProcessEvent
  <2>3. Normalized(text, Chunk.content) = <<>> /\ NewImages(images, Chunk.images) = <<>>
    BY <1>2, <2>1, NothingNew, NoImages
  <2>4. /\ text \o <<>> = text /\ images \o <<>> = images
        /\ shown.text \o <<>> = shown.text /\ shown.images \o <<>> = shown.images
    BY <1>2, ConcatEmptySeq
  <2>5. \A i \in Indices : After(i) = calls[i]
    BY <2>1 DEF After
  <2>6. calls' = [i \in Indices |-> After(i)]
    <3>1. calls = [i \in Indices |-> calls[i]]
      BY <1>2
    <3> QED BY <2>2, <2>5, <3>1
  <2> QED BY <1>1, <1>3, <1>4, <2>2, <2>3, <2>4, <2>6
<1>5. CASE ~Chunk.bad
  <2>1. /\ text' = text \o Normalized(text, Chunk.content)
        /\ images' = images \o NewImages(images, Chunk.images)
        /\ calls' = [i \in Indices |->
                       IF i \in Chunk.tools THEN Collected(calls[i], event) ELSE calls[i]]
        /\ shown' = IF partial
                    THEN [text   |-> shown.text \o Normalized(text, Chunk.content),
                          images |-> shown.images \o NewImages(images, Chunk.images)]
                    ELSE shown
        /\ errors' = errors
    BY <1>1, <1>5 DEF ProcessEvent, WhatIsNew
  <2>2. calls' = [i \in Indices |-> After(i)]
    BY <1>1, <2>1 DEF After
  <2>3. errors' = errors + 0
    BY <1>2, <2>1
  <2> QED BY <1>1, <1>3, <1>5, <2>1, <2>2, <2>3
<1> QED BY <1>4, <1>5

-----------------------------------------------------------------------------
(***************************************************************************)
(* The invariant holds at the beginning and is kept.                       *)
(***************************************************************************)

LEMMA AfterTyped ==
  ASSUME TypeOK, NEW i \in Indices
  PROVE  After(i) \in [id : Indices \cup {None}, args : Seq(1 .. Pieces)]
<1>1. calls[i] \in [id : Indices \cup {None}, args : Seq(1 .. Pieces)]
  BY DEF TypeOK
<1>2. calls[i].args \o Pending.args \in Seq(1 .. Pieces)
  BY <1>1, ChunkTyped
<1>3. Collected(calls[i], Pending) \in [id : Indices \cup {None}, args : Seq(1 .. Pieces)]
  BY <1>1, <1>2, ChunkTyped DEF Collected
<1> QED BY <1>1, <1>3 DEF After

LEMMA TypeInit == Init => TypeOK
<1> SUFFICES ASSUME Init PROVE TypeOK
  OBVIOUS
<1>1. /\ mode \in {"chat", "responses"} /\ partial \in BOOLEAN
      /\ event \in Event \cup {None}
      /\ said \in Seq(Words) /\ named \in Seq(Urls)
      /\ over \in BOOLEAN /\ unclear \in BOOLEAN
      /\ text \in Seq(Words) /\ images \in Seq(Urls)
      /\ shown \in [text : Seq(Words), images : Seq(Urls)]
      /\ done \in {"no", "yes", "cancelled"}
  BY NoneOf DEF Init
<1>2. part \in [number : 1 .. MaxParts + 1, from : 1 .. MaxWords + 1,
                stated : SUBSET {"text.done", "part.done", "item.done"}]
  BY AnswerAssumption DEF Init
<1>3. asked \in [Indices -> [sent : 0 .. Pieces, stated : 0 .. MaxStated + 1]]
  BY AnswerAssumption DEF Init, Unstarted
<1>4. reported \in [usage : 0 .. MaxUsage, errors : 0 .. MaxErrors]
      /\ usage \in 0 .. MaxUsage /\ errors \in 0 .. MaxErrors
  BY AnswerAssumption DEF Init
<1>5. calls \in [Indices -> [id : Indices \cup {None}, args : Seq(1 .. Pieces)]]
  BY NoneOf DEF Init, NoCall
<1>6. IsInjective(images)
  BY DEF Init, IsInjective
<1> QED BY <1>1, <1>2, <1>3, <1>4, <1>5, <1>6 DEF TypeOK

LEMMA TypeStep == TypeOK /\ ShapeInv /\ CountInv /\ ImagesInv /\ ShownInv /\ [Next]_vars => TypeOK'
<1> SUFFICES ASSUME TypeOK, ShapeInv, CountInv, ImagesInv, ShownInv, [Next]_vars PROVE TypeOK'
  OBVIOUS
<1> USE AnswerAssumption
<1>1. ASSUME NEW w \in Words, SayWord(w) PROVE TypeOK'
  <2>1. event' \in Event
    BY <1>1, SayWordSends DEF Sends
  <2>2. said' \in Seq(Words) /\ unclear' \in BOOLEAN
    BY <1>1 DEF SayWord, TypeOK
  <2> QED BY <1>1, <2>1, <2>2 DEF SayWord, TypeOK, clientVars
<1>2. ASSUME StatePart PROVE TypeOK'
  <2>1. PICK t \in {"text.done", "part.done"} :
          event' \in Event /\ part' = [part EXCEPT !.stated = @ \cup {t}]
    BY <1>2, StatePartSends DEF Sends
  <2>2. part' \in [number : 1 .. MaxParts + 1, from : 1 .. MaxWords + 1,
                   stated : SUBSET {"text.done", "part.done", "item.done"}]
    BY <2>1 DEF TypeOK
  <2> QED BY <1>2, <2>1, <2>2 DEF StatePart, TypeOK, clientVars
<1>3. ASSUME NextPart PROVE TypeOK'
  <2>1. event' \in Event
    BY <1>3, NextPartSends DEF Sends
  <2>2. part.number + 1 \in 1 .. MaxParts + 1 /\ Len(said) + 1 \in 1 .. MaxWords + 1
    <3>1. part.number \in 1 .. MaxParts + 1 /\ part.number < MaxParts
      BY <1>3 DEF NextPart, TypeOK
    <3>2. Len(said) \in Nat /\ Len(said) <= MaxWords
      BY DEF TypeOK, ShapeInv
    <3> QED BY <3>1, <3>2
  <2>3. part' \in [number : 1 .. MaxParts + 1, from : 1 .. MaxWords + 1,
                   stated : SUBSET {"text.done", "part.done", "item.done"}]
    BY <1>3, <2>2 DEF NextPart
  <2> QED BY <1>3, <2>1, <2>3 DEF NextPart, TypeOK, clientVars
<1>4. ASSUME StateItem PROVE TypeOK'
  <2>1. event' \in Event
    BY <1>4, StateItemSends DEF Sends
  <2>2. part' \in [number : 1 .. MaxParts + 1, from : 1 .. MaxWords + 1,
                   stated : SUBSET {"text.done", "part.done", "item.done"}]
    BY <1>4 DEF StateItem, TypeOK
  <2> QED BY <1>4, <2>1, <2>2 DEF StateItem, TypeOK, clientVars
<1>5. ASSUME NEW u \in Urls, SendImage(u) PROVE TypeOK'
  <2>1. event' \in Event
    BY <1>5, SendImageSends DEF Sends
  <2>2. named' \in Seq(Urls)
    BY <1>5 DEF SendImage, TypeOK
  <2> QED BY <1>5, <2>1, <2>2 DEF SendImage, TypeOK, clientVars
<1>6. ASSUME NEW i \in Indices, SendPiece(i) PROVE TypeOK'
  <2>1. event' \in Event
    BY <1>6, SendPieceSends DEF Sends
  <2>2. asked[i] \in [sent : 0 .. Pieces, stated : 0 .. MaxStated + 1] /\ asked[i].sent < Pieces
    BY <1>6 DEF SendPiece, TypeOK
  <2>3. [sent |-> asked[i].sent + 1, stated |-> IF asked[i].sent + 1 = Pieces THEN 1 ELSE 0]
          \in [sent : 0 .. Pieces, stated : 0 .. MaxStated + 1]
    BY <2>2
  <2>4. asked' = [asked EXCEPT ![i] = [sent |-> asked[i].sent + 1,
                                      stated |-> IF asked[i].sent + 1 = Pieces THEN 1 ELSE 0]]
    BY <1>6 DEF SendPiece
  <2>5. asked' \in [Indices -> [sent : 0 .. Pieces, stated : 0 .. MaxStated + 1]]
    BY <2>3, <2>4 DEF TypeOK
  <2> QED BY <1>6, <2>1, <2>5 DEF SendPiece, TypeOK, clientVars
<1>7. ASSUME NEW i \in Indices, StateCall(i) PROVE TypeOK'
  <2>1. event' \in Event
    BY <1>7, StateCallSends DEF Sends
  <2>2. asked[i] \in [sent : 0 .. Pieces, stated : 0 .. MaxStated + 1] /\ asked[i].stated < MaxStated
    BY <1>7 DEF StateCall, TypeOK
  <2>3. [sent |-> Pieces, stated |-> asked[i].stated + 1]
          \in [sent : 0 .. Pieces, stated : 0 .. MaxStated + 1]
    BY <2>2
  <2>4. asked' = [asked EXCEPT ![i] = [sent |-> Pieces, stated |-> asked[i].stated + 1]]
    BY <1>7 DEF StateCall
  <2>5. asked' \in [Indices -> [sent : 0 .. Pieces, stated : 0 .. MaxStated + 1]]
    BY <2>3, <2>4 DEF TypeOK
  <2> QED BY <1>7, <2>1, <2>5 DEF StateCall, TypeOK, clientVars
<1>8. ASSUME NEW i \in Indices, AnnounceCall(i) PROVE TypeOK'
  <2>1. event' \in Event
    BY <1>8, AnnounceCallSends DEF Sends
  <2> QED BY <1>8, <2>1 DEF AnnounceCall, TypeOK, clientVars, serverVars
<1>9. ASSUME NEW n \in 0 .. MaxUsage, CountTokens(n) PROVE TypeOK'
  <2>1. event' \in Event
    BY <1>9, CountTokensSends DEF Sends
  <2>2. reported' \in [usage : 0 .. MaxUsage, errors : 0 .. MaxErrors]
    BY <1>9 DEF CountTokens, TypeOK
  <2> QED BY <1>9, <2>1, <2>2 DEF CountTokens, TypeOK, clientVars
<1>10. ASSUME SendError PROVE TypeOK'
  <2>1. event' \in Event
    BY <1>10, SendErrorSends DEF Sends
  <2>2. reported' \in [usage : 0 .. MaxUsage, errors : 0 .. MaxErrors]
    <3>1. reported \in [usage : 0 .. MaxUsage, errors : 0 .. MaxErrors] /\ reported.errors < MaxErrors
      BY <1>10 DEF SendError, TypeOK
    <3>2. reported' = [reported EXCEPT !.errors = reported.errors + 1]
      BY <1>10 DEF SendError
    <3>3. reported.errors + 1 \in 0 .. MaxErrors
      BY <3>1
    <3> QED BY <3>1, <3>2, <3>3
  <2> QED BY <1>10, <2>1, <2>2 DEF SendError, TypeOK, clientVars
<1>11. ASSUME Finish PROVE TypeOK'
  <2>1. event' \in Event
    BY <1>11, FinishSends DEF Sends
  <2> QED BY <1>11, <2>1 DEF Finish, TypeOK, clientVars
<1>12. ASSUME ProcessEvent PROVE TypeOK'
  <2> DEFINE fresh == Normalized(text, Chunk.content)
             added == NewImages(images, Chunk.images)
  <2>1. fresh \in Seq(Words)
    BY ChunkTyped, NormalizedTyped DEF TypeOK
  <2>2. images \o added = named /\ IsInjective(named) /\ named \in Seq(Urls)
    BY <1>12, Handled DEF ImagesInv, TypeOK
  <2> HIDE DEF fresh, added
  <2>3. images' \in Seq(Urls) /\ IsInjective(images')
    BY <1>12, <2>2, Handled DEF added
  <2>4. text' \in Seq(Words)
    <3>1. text' = text \o fresh /\ text \in Seq(Words)
      BY <1>12, Handled DEF TypeOK, fresh
    <3> QED BY <2>1, <3>1, ConcatProperties
  <2>5. calls' \in [Indices -> [id : Indices \cup {None}, args : Seq(1 .. Pieces)]]
    BY <1>12, Handled, AfterTyped
  <2>6. usage' \in 0 .. MaxUsage
    BY <1>12, Handled, ChunkTyped DEF TypeOK
  <2>7. errors' \in 0 .. MaxErrors
    BY <1>12, Handled DEF CountInv, TypeOK
  <2>8. shown' \in [text : Seq(Words), images : Seq(Urls)]
    <3>1. CASE ~partial
      BY <1>12, <3>1, Handled DEF TypeOK
    <3>2. CASE partial
      <4>1. shown.images = images /\ shown.text \in Seq(Words)
        BY <1>12, <3>2, Handled DEF ShownInv, TypeOK
      <4>2. shown.text \o fresh \in Seq(Words) /\ shown.images \o added \in Seq(Urls)
        BY <2>1, <2>2, <4>1, ConcatProperties
      <4>3. shown' = shown \/ shown' = [text |-> shown.text \o fresh, images |-> shown.images \o added]
        <5>1. CASE Chunk.bad
          BY <1>12, <5>1 DEF ProcessEvent, Chunk, Pending
        <5>2. CASE ~Chunk.bad
          BY <1>12, <3>2, <5>2 DEF ProcessEvent, Chunk, Pending, WhatIsNew, fresh, added
        <5> QED BY <5>1, <5>2
      <4>4. shown \in [text : Seq(Words), images : Seq(Urls)]
        BY DEF TypeOK
      <4>5. [text |-> shown.text \o fresh, images |-> shown.images \o added]
              \in [text : Seq(Words), images : Seq(Urls)]
        BY <4>2
      <4> QED BY <4>3, <4>4, <4>5
    <3> QED BY <3>1, <3>2
  <2>9. event' = None /\ UNCHANGED <<mode, partial, serverVars, done>>
    BY <1>12, Handled
  <2> QED BY <2>3, <2>4, <2>5, <2>6, <2>7, <2>8, <2>9 DEF TypeOK, serverVars
<1>13. ASSUME EndOfStream PROVE TypeOK'
  <2>1. Trimmed(text) \in Seq(Words)
    BY TrimmedProperties DEF TypeOK
  <2>2. shown' \in [text : Seq(Words), images : Seq(Urls)]
    BY <1>13, <2>1 DEF EndOfStream, TypeOK
  <2> QED BY <1>13, <2>1, <2>2 DEF EndOfStream, TypeOK, serverVars
<1>14. ASSUME Cancel PROVE TypeOK'
  <2>1. images' \in Seq(Urls) /\ IsInjective(images') /\ text' \in Seq(Words)
    BY <1>14, NoneOf DEF Cancel, IsInjective
  <2>2. calls' \in [Indices -> [id : Indices \cup {None}, args : Seq(1 .. Pieces)]]
    BY <1>14, NoneOf DEF Cancel, NoCall
  <2> QED BY <1>14, <2>1, <2>2 DEF Cancel, TypeOK, serverVars
<1>15. CASE UNCHANGED vars
  BY <1>15 DEF vars, serverVars, clientVars, TypeOK
<1> QED
  BY <1>1, <1>2, <1>3, <1>4, <1>5, <1>6, <1>7, <1>8, <1>9, <1>10, <1>11, <1>12, <1>13, <1>14,
     <1>15 DEF Next

\* The server sends one event at a time; the client is where it was.
Serves == event = None /\ done = "no" /\ (Chunk'.bad => Quiet(Chunk'))

ServerStep ==
  \/ \E w \in Words : SayWord(w)
  \/ StatePart \/ NextPart \/ StateItem
  \/ \E u \in Urls : SendImage(u)
  \/ \E i \in Indices : SendPiece(i) \/ StateCall(i) \/ AnnounceCall(i)
  \/ \E n \in 0 .. MaxUsage : CountTokens(n)
  \/ SendError \/ Finish

LEMMA Serving ==
  ASSUME TypeOK, ShapeInv, ServerStep
  PROVE  Serves /\ UNCHANGED <<mode, partial, clientVars>>
<1>1. UNCHANGED <<mode, partial, clientVars>>
  BY DEF ServerStep, SayWord, StatePart, NextPart, StateItem, SendImage, SendPiece, StateCall,
         AnnounceCall, CountTokens, SendError, Finish
<1>2. ASSUME NEW w \in Words, SayWord(w) PROVE Serves
  BY <1>2, SayWordSends, Sent DEF Serves
<1>3. ASSUME StatePart PROVE Serves
  BY <1>3, StatePartSends, Sent DEF Serves
<1>4. ASSUME NextPart PROVE Serves
  BY <1>4, NextPartSends, Sent DEF Serves
<1>5. ASSUME StateItem PROVE Serves
  BY <1>5, StateItemSends, Sent DEF Serves
<1>6. ASSUME NEW u \in Urls, SendImage(u) PROVE Serves
  BY <1>6, SendImageSends, Sent DEF Serves
<1>7. ASSUME NEW i \in Indices, SendPiece(i) PROVE Serves
  <2>1. PICK t \in CallTypes \ Errors, id \in {i, None} :
          Sends(t, <<>>, <<>>, i, id, <<asked[i].sent + 1>>, 0)
    BY <1>7, SendPieceSends
  <2> DEFINE x == <<asked[i].sent + 1>>
  <2>2. Sends(t, <<>>, <<>>, i, id, x, 0)
    BY <2>1
  <2> HIDE DEF x
  <2> QED BY <2>2, Sent DEF Serves
<1>8. ASSUME NEW i \in Indices, StateCall(i) PROVE Serves
  BY <1>8, StateCallSends, Sent DEF Serves
<1>9. ASSUME NEW i \in Indices, AnnounceCall(i) PROVE Serves
  BY <1>9, AnnounceCallSends, Sent DEF Serves
<1>10. ASSUME NEW n \in 0 .. MaxUsage, CountTokens(n) PROVE Serves
  BY <1>10, CountTokensSends, Sent DEF Serves
<1>11. ASSUME SendError PROVE Serves
  BY <1>11, SendErrorSends, Sent DEF Serves
<1>12. ASSUME Finish PROVE Serves
  BY <1>12, FinishSends, Sent DEF Serves
<1> QED BY <1>1, <1>2, <1>3, <1>4, <1>5, <1>6, <1>7, <1>8, <1>9, <1>10, <1>11, <1>12 DEF ServerStep

LEMMA Steps == [Next]_vars <=> ServerStep \/ ProcessEvent \/ EndOfStream \/ Cancel \/ UNCHANGED vars
BY DEF Next, ServerStep

LEMMA ShapeStep == TypeOK /\ ShapeInv /\ [Next]_vars => ShapeInv'
<1> SUFFICES ASSUME TypeOK, ShapeInv, [Next]_vars PROVE ShapeInv'
  OBVIOUS
<1>1. CASE ServerStep
  <2>2. (Chunk'.bad => Quiet(Chunk')) /\ done = "no"
    BY <1>1, Serving DEF Serves
  <2>3. done' = "no"
    BY <1>1, <2>2, Serving DEF clientVars
  <2>4. Len(said') <= MaxWords
    <3>1. ASSUME NEW w \in Words, SayWord(w) PROVE Len(said') <= MaxWords
      <4>1. said' = Append(said, w) /\ Len(said) < MaxWords /\ said \in Seq(Words)
        BY <3>1 DEF SayWord, TypeOK
      <4> QED BY <4>1, AnswerAssumption
    <3>2. said' = said \/ \E w \in Words : SayWord(w)
      BY <1>1 DEF ServerStep, StatePart, NextPart, StateItem, SendImage, SendPiece, StateCall,
                  AnnounceCall, CountTokens, SendError, Finish, serverVars
    <3> QED BY <3>1, <3>2 DEF ShapeInv
  <2> QED BY <2>2, <2>3, <2>4 DEF ShapeInv
<1>2. CASE ProcessEvent
  <2>1. event' = None /\ said' = said
    BY <1>2, Handled DEF serverVars
  <2>2. ~Chunk'.bad
    BY <2>1, NothingLater
  <2> QED BY <2>1, <2>2 DEF ShapeInv
<1>3. CASE EndOfStream
  BY <1>3 DEF EndOfStream, ShapeInv, serverVars, Chunk, Pending
<1>4. CASE Cancel
  BY <1>4 DEF Cancel, ShapeInv, serverVars, Chunk, Pending
<1>5. CASE UNCHANGED vars
  BY <1>5 DEF vars, ShapeInv, serverVars, clientVars, Chunk, Pending
<1> QED BY <1>1, <1>2, <1>3, <1>4, <1>5, Steps

LEMMA CountStep == TypeOK /\ ShapeInv /\ CountInv /\ [Next]_vars => CountInv'
<1> SUFFICES ASSUME TypeOK, ShapeInv, CountInv, [Next]_vars PROVE CountInv'
  OBVIOUS
<1>1. errors \in Nat /\ reported.errors \in Nat /\ usage \in 0 .. MaxUsage
      /\ reported \in [usage : 0 .. MaxUsage, errors : 0 .. MaxErrors]
  BY AnswerAssumption DEF TypeOK
<1>2. ASSUME ServerStep, ~Chunk'.bad, Pending'.usage = 0, reported' = reported PROVE CountInv'
  <2>1. ~Chunk.bad /\ Pending.usage = 0 /\ errors' = errors /\ usage' = usage
    <3>1. event = None /\ UNCHANGED clientVars
      BY <1>2, Serving DEF Serves
    <3> QED BY <3>1, NothingPending DEF Carries, clientVars
  <2> QED BY <1>2, <2>1 DEF CountInv
<1>3. ASSUME NEW n \in 0 .. MaxUsage, CountTokens(n) PROVE CountInv'
  <2>1. Sends("other", <<>>, <<>>, None, None, <<>>, n)
    BY <1>3, CountTokensSends
  <2>2. ~Chunk.bad /\ Pending.usage = 0 /\ ~Chunk'.bad /\ Pending'.usage = n
    BY <2>1, Sent, TypesOfEvents
  <2>3. errors' = errors /\ usage' = usage
        /\ reported' = IF n = 0 THEN reported ELSE [reported EXCEPT !.usage = n]
    BY <1>3 DEF CountTokens, clientVars
  <2>4. reported'.errors = reported.errors /\ reported'.usage = IF n = 0 THEN reported.usage ELSE n
    BY <1>1, <2>3
  <2> QED BY <2>2, <2>3, <2>4 DEF CountInv
<1>4. ASSUME SendError PROVE CountInv'
  <2>1. PICK t \in Errors : Sends(t, <<>>, <<>>, None, None, <<>>, 0)
    BY <1>4, SendErrorSends
  <2>2. ~Chunk.bad /\ Pending.usage = 0 /\ Chunk'.bad /\ Pending'.usage = 0
    BY <2>1, Sent
  <2>3. errors' = errors /\ usage' = usage
        /\ reported' = [reported EXCEPT !.errors = reported.errors + 1]
    BY <1>4 DEF SendError, clientVars
  <2>4. reported'.errors = reported.errors + 1 /\ reported'.usage = reported.usage
    BY <1>1, <2>3
  <2> QED BY <1>1, <2>2, <2>3, <2>4 DEF CountInv
<1>5. CASE ServerStep
  <2>1. ASSUME NEW w \in Words, SayWord(w) PROVE CountInv'
    <3>1. ~Chunk'.bad /\ Pending'.usage = 0
      BY <2>1, SayWordSends, Sent, TypesOfEvents
    <3> QED BY <1>2, <1>5, <2>1, <3>1 DEF SayWord
  <2>2. ASSUME StatePart PROVE CountInv'
    <3>1. ~Chunk'.bad /\ Pending'.usage = 0
      BY <2>2, StatePartSends, Sent, TypesOfEvents
    <3> QED BY <1>2, <1>5, <2>2, <3>1 DEF StatePart
  <2>3. ASSUME NextPart PROVE CountInv'
    <3>1. ~Chunk'.bad /\ Pending'.usage = 0
      BY <2>3, NextPartSends, Sent, TypesOfEvents
    <3> QED BY <1>2, <1>5, <2>3, <3>1 DEF NextPart
  <2>4. ASSUME StateItem PROVE CountInv'
    <3>1. ~Chunk'.bad /\ Pending'.usage = 0
      BY <2>4, StateItemSends, Sent, TypesOfEvents
    <3> QED BY <1>2, <1>5, <2>4, <3>1 DEF StateItem
  <2>5. ASSUME NEW u \in Urls, SendImage(u) PROVE CountInv'
    <3>1. ~Chunk'.bad /\ Pending'.usage = 0
      BY <2>5, SendImageSends, Sent DEF ImageTypes, Errors
    <3> QED BY <1>2, <1>5, <2>5, <3>1 DEF SendImage
  <2>6. ASSUME NEW i \in Indices, SendPiece(i) PROVE CountInv'
    <3>1. PICK t \in CallTypes \ Errors, id \in {i, None} :
            Sends(t, <<>>, <<>>, i, id, <<asked[i].sent + 1>>, 0)
      BY <2>6, SendPieceSends
    <3> DEFINE x == <<asked[i].sent + 1>>
    <3>2. Sends(t, <<>>, <<>>, i, id, x, 0)
      BY <3>1
    <3> HIDE DEF x
    <3>3. ~Chunk'.bad /\ Pending'.usage = 0
      BY <3>2, Sent
    <3> QED BY <1>2, <1>5, <2>6, <3>3 DEF SendPiece
  <2>7. ASSUME NEW i \in Indices, StateCall(i) PROVE CountInv'
    <3>1. ~Chunk'.bad /\ Pending'.usage = 0
      BY <2>7, StateCallSends, Sent, TypesOfEvents
    <3> QED BY <1>2, <1>5, <2>7, <3>1 DEF StateCall
  <2>8. ASSUME NEW i \in Indices, AnnounceCall(i) PROVE CountInv'
    <3>1. ~Chunk'.bad /\ Pending'.usage = 0
      BY <2>8, AnnounceCallSends, Sent, TypesOfEvents
    <3> QED BY <1>2, <1>5, <2>8, <3>1 DEF AnnounceCall, serverVars
  <2>9. ASSUME Finish PROVE CountInv'
    <3>1. ~Chunk'.bad /\ Pending'.usage = 0
      BY <2>9, FinishSends, Sent, TypesOfEvents
    <3> QED BY <1>2, <1>5, <2>9, <3>1 DEF Finish
  <2> QED
    BY <1>3, <1>4, <1>5, <2>1, <2>2, <2>3, <2>4, <2>5, <2>6, <2>7, <2>8, <2>9 DEF ServerStep
<1>6. CASE ProcessEvent
  <2>1. event' = None /\ reported' = reported
        /\ usage' = (IF Pending.usage = 0 THEN usage ELSE Pending.usage)
        /\ errors' = errors + (IF Chunk.bad THEN 1 ELSE 0)
    BY <1>6, Handled DEF serverVars
  <2>2. ~Chunk'.bad /\ Pending'.usage = 0
    BY <2>1, NothingLater
  <2> QED BY <1>1, <2>1, <2>2 DEF CountInv
<1>7. CASE EndOfStream
  BY <1>7 DEF EndOfStream, CountInv, serverVars, Chunk, Pending
<1>8. CASE Cancel
  BY <1>8 DEF Cancel, CountInv, serverVars, Chunk, Pending
<1>9. CASE UNCHANGED vars
  BY <1>9 DEF vars, CountInv, serverVars, clientVars, Chunk, Pending
<1> QED BY <1>5, <1>6, <1>7, <1>8, <1>9, Steps

(* A step of the server is about the text, an image, a call or none of     *)
(* them, and leaves the rest alone.                                        *)
ImageStep == \E u \in Urls : SendImage(u)
WordsStep == (\E w \in Words : SayWord(w)) \/ StatePart \/ StateItem
CallStep  == \E i \in Indices : SendPiece(i) \/ StateCall(i) \/ AnnounceCall(i)
Apart ==
  /\ ImageStep \/ (Chunk'.images = <<>> /\ named' = named)
  /\ WordsStep \/ (Chunk'.content = <<>> /\ said' = said /\ unclear' = unclear)
  /\ CallStep \/ (Chunk'.tools = {} /\ asked' = asked)

LEMMA StepsApart ==
  ASSUME TypeOK, ShapeInv, ServerStep
  PROVE  Apart
<1>1. ASSUME NEW w \in Words, SayWord(w) PROVE Apart
  <2>1. Chunk'.images = <<>> /\ Chunk'.tools = {}
    BY <1>1, SayWordSends, Sent
  <2> QED BY <1>1, <2>1 DEF Apart, WordsStep, SayWord
<1>2. ASSUME StatePart PROVE Apart
  <2>1. Chunk'.images = <<>> /\ Chunk'.tools = {}
    BY <1>2, StatePartSends, Sent
  <2> QED BY <1>2, <2>1 DEF Apart, WordsStep, StatePart
<1>3. ASSUME NextPart PROVE Apart
  <2>1. Chunk'.content = <<>> /\ Chunk'.images = <<>> /\ Chunk'.tools = {}
    BY <1>3, NextPartSends, Sent
  <2> QED BY <1>3, <2>1 DEF Apart, NextPart
<1>4. ASSUME StateItem PROVE Apart
  <2>1. Chunk'.images = <<>> /\ Chunk'.tools = {}
    BY <1>4, StateItemSends, Sent
  <2> QED BY <1>4, <2>1 DEF Apart, WordsStep, StateItem
<1>5. ASSUME NEW u \in Urls, SendImage(u) PROVE Apart
  <2>1. Chunk'.content = <<>> /\ Chunk'.tools = {}
    BY <1>5, SendImageSends, Sent
  <2> QED BY <1>5, <2>1 DEF Apart, ImageStep, SendImage
<1>6. ASSUME NEW i \in Indices, SendPiece(i) PROVE Apart
  <2> DEFINE x == <<asked[i].sent + 1>>
  <2>1. PICK t \in CallTypes \ Errors, id \in {i, None} : Sends(t, <<>>, <<>>, i, id, x, 0)
    BY <1>6, SendPieceSends
  <2> HIDE DEF x
  <2>2. Chunk'.content = <<>> /\ Chunk'.images = <<>>
    BY <2>1, Sent
  <2> QED BY <1>6, <2>2 DEF Apart, CallStep, SendPiece
<1>7. ASSUME NEW i \in Indices, StateCall(i) PROVE Apart
  <2>1. Chunk'.content = <<>> /\ Chunk'.images = <<>>
    BY <1>7, StateCallSends, Sent
  <2> QED BY <1>7, <2>1 DEF Apart, CallStep, StateCall, serverVars
<1>8. ASSUME NEW i \in Indices, AnnounceCall(i) PROVE Apart
  <2>1. Chunk'.content = <<>> /\ Chunk'.images = <<>>
    BY <1>8, AnnounceCallSends, Sent
  <2> QED BY <1>8, <2>1 DEF Apart, CallStep, AnnounceCall, serverVars
<1>9. ASSUME NEW n \in 0 .. MaxUsage, CountTokens(n) PROVE Apart
  <2>1. Chunk'.content = <<>> /\ Chunk'.images = <<>> /\ Chunk'.tools = {}
    BY <1>9, CountTokensSends, Sent
  <2> QED BY <1>9, <2>1 DEF Apart, CountTokens
<1>10. ASSUME SendError PROVE Apart
  <2>1. Chunk'.content = <<>> /\ Chunk'.images = <<>> /\ Chunk'.tools = {}
    BY <1>10, SendErrorSends, Sent
  <2> QED BY <1>10, <2>1 DEF Apart, SendError
<1>11. ASSUME Finish PROVE Apart
  <2>1. Chunk'.content = <<>> /\ Chunk'.images = <<>> /\ Chunk'.tools = {}
    BY <1>11, FinishSends, Sent
  <2> QED BY <1>11, <2>1 DEF Apart, Finish
<1> QED
  BY <1>1, <1>2, <1>3, <1>4, <1>5, <1>6, <1>7, <1>8, <1>9, <1>10, <1>11 DEF ServerStep

LEMMA ServedQuietly ==
  ASSUME TypeOK, ShapeInv, ServerStep
  PROVE  /\ event = None /\ done = "no" /\ Pending = Silent
         /\ Chunk.content = <<>> /\ Chunk.images = <<>> /\ Chunk.tools = {}
         /\ UNCHANGED <<mode, partial, clientVars>>
<1>1. event = None /\ done = "no" /\ UNCHANGED <<mode, partial, clientVars>>
  BY Serving DEF Serves
<1> QED BY <1>1, NothingPending DEF Quiet, Pending

LEMMA ImagesStep == TypeOK /\ ShapeInv /\ ImagesInv /\ [Next]_vars => ImagesInv'
<1> SUFFICES ASSUME TypeOK, ShapeInv, ImagesInv, [Next]_vars PROVE ImagesInv'
  OBVIOUS
<1>1. images \in Seq(Urls) /\ named \in Seq(Urls) /\ images \o <<>> = images
  BY ConcatEmptySeq DEF TypeOK
<1>2. CASE ServerStep
  <2>1. /\ done' = "no" /\ images' = images
        /\ named = images
    <3>1. NewImages(images, Chunk.images) = <<>>
      BY <1>2, ServedQuietly, NoImages
    <3> QED BY <1>1, <1>2, <3>1, ServedQuietly DEF ImagesInv, clientVars
  <2>2. ASSUME NEW u \in Urls, SendImage(u) PROVE ImagesInv'
    <3>1. PICK t \in ImageTypes, urls \in {<<u>>, <<u, u>>} :
            Sends(t, <<>>, urls, None, None, <<>>, 0)
      BY <2>2, SendImageSends
    <3>2. Chunk'.images = urls
      BY <3>1, Sent
    <3>3. NewImages(images, Chunk'.images) = IF u \in Range(images) THEN <<>> ELSE <<u>>
      BY <3>1, <3>2, OneImage
    <3>4. named' = IF u \in Range(named) THEN named ELSE Append(named, u)
      BY <2>2 DEF SendImage
    <3>5. named' = images' \o NewImages(images', Chunk'.images)
      BY <1>1, <2>1, <3>3, <3>4
    <3>6. IsInjective(named')
      BY <1>1, <3>4 DEF ImagesInv, IsInjective, Range
    <3> QED BY <2>1, <3>5, <3>6 DEF ImagesInv
  <2>3. CASE Chunk'.images = <<>> /\ named' = named
    BY <1>1, <2>1, <2>3, NoImages DEF ImagesInv
  <2> QED BY <1>2, <2>2, <2>3, StepsApart DEF Apart, ImageStep
<1>3. CASE ProcessEvent
  <2>1. /\ named' = named /\ images' = named /\ done' = "no"
        /\ event' = None
    BY <1>3, Handled DEF serverVars, ImagesInv
  <2>2. Chunk'.images = <<>>
    BY <2>1, NothingLater
  <2>3. NewImages(images', Chunk'.images) = <<>> /\ named \o <<>> = named
    BY <1>1, <2>2, NoImages, ConcatEmptySeq
  <2> QED BY <2>1, <2>3 DEF ImagesInv
<1>4. CASE EndOfStream
  <2>1. event = None /\ done = "no" /\ done' = "yes" /\ images' = images /\ named' = named
    BY <1>4 DEF EndOfStream, serverVars
  <2>2. NewImages(images, Chunk.images) = <<>>
    BY <2>1, NothingPending, NoImages DEF Quiet
  <2> QED BY <1>1, <2>1, <2>2 DEF ImagesInv
<1>5. CASE Cancel
  BY <1>5 DEF Cancel, ImagesInv, serverVars
<1>6. CASE UNCHANGED vars
  BY <1>6 DEF vars, ImagesInv, serverVars, clientVars, Chunk, Pending
<1> QED BY <1>2, <1>3, <1>4, <1>5, <1>6, Steps

LEMMA ShownStep == TypeOK /\ ShapeInv /\ ShownInv /\ [Next]_vars => ShownInv'
<1> SUFFICES ASSUME TypeOK, ShapeInv, ShownInv, [Next]_vars PROVE ShownInv'
  OBVIOUS
<1>1. CASE ServerStep
  BY <1>1, ServedQuietly DEF ShownInv, clientVars
<1>2. CASE ProcessEvent
  <2>1. done = "no" /\ done' = "no" /\ partial' = partial
    BY <1>2, Handled
  <2>2. ASSUME partial
        PROVE  shown'.text = text' /\ shown'.images = images'
    <3>1. shown.text = text /\ shown.images = images
      BY <2>1, <2>2 DEF ShownInv
    <3> QED BY <1>2, <2>2, <3>1, Handled
  <2> QED BY <2>1, <2>2 DEF ShownInv
<1>3. CASE EndOfStream
  <2>1. /\ done = "no" /\ done' = "yes" /\ text' = Trimmed(text) /\ images' = images
        /\ partial' = partial
        /\ shown' = IF partial THEN shown ELSE [text |-> Trimmed(text), images |-> images]
    BY <1>3 DEF EndOfStream
  <2>2. Trimmed(Trimmed(text)) = Trimmed(text)
    BY TrimmedProperties DEF TypeOK
  <2> QED BY <2>1, <2>2 DEF ShownInv
<1>4. CASE Cancel
  BY <1>4 DEF Cancel, ShownInv
<1>5. CASE UNCHANGED vars
  BY <1>5 DEF vars, ShownInv, clientVars
<1> QED BY <1>1, <1>2, <1>3, <1>4, <1>5, Steps

LEMMA TextStep == TypeOK /\ ShapeInv /\ TextInv /\ [Next]_vars => TextInv'
<1> SUFFICES ASSUME TypeOK, ShapeInv, TextInv, [Next]_vars, ~unclear' PROVE TextInv'
  BY DEF TextInv
<1>1. /\ text \in Seq(Words) /\ said \in Seq(Words) /\ text \o <<>> = text
      /\ part.from \in Nat \ {0}
  BY AnswerAssumption, ConcatEmptySeq DEF TypeOK
<1>2. ~unclear
  <2>1. unclear => unclear'
    BY DEF Next, vars, serverVars, SayWord, StatePart, NextPart, StateItem, SendImage, SendPiece,
           StateCall, AnnounceCall, CountTokens, SendError, Finish, ProcessEvent, EndOfStream, Cancel
  <2> QED BY <2>1
<1>3. CASE ServerStep
  <2>1. done' = "no" /\ text' = text /\ said = text
    <3>1. Normalized(text, Chunk.content) = <<>>
      BY <1>1, <1>3, ServedQuietly, NothingNew
    <3> QED BY <1>1, <1>2, <1>3, <3>1, ServedQuietly DEF TextInv, clientVars
  <2>2. ASSUME NEW w \in Words, SayWord(w) PROVE TextInv'
    <3>1. Chunk'.content = <<w>>
      BY <2>2, SayWordSends, Sent
    <3>2. said' = Append(said, w) /\ said # <<w>>
      BY <2>2 DEF SayWord
    <3>3. Normalized(text, <<w>>) = <<w>>
      BY <1>1, <2>1, <3>2, NewWord
    <3>4. Append(text, w) = text \o <<w>>
      BY <1>1
    <3> QED BY <2>1, <3>1, <3>2, <3>3, <3>4 DEF TextInv
  <2>3. ASSUME StatePart PROVE TextInv'
    <3> DEFINE x == SubSeq(said, part.from, Len(said))
    <3>1. Chunk'.content = x
      <4>1. PICK t \in {"text.done", "part.done"} : Sends(t, x, <<>>, None, None, <<>>, 0)
        BY <2>3, StatePartSends
      <4> HIDE DEF x
      <4> QED BY <4>1, Sent
    <3>2. said' = said /\ ~(part.from > 1 /\ part.from <= Len(said))
      BY <2>3 DEF StatePart
    <3>3. Normalized(text, x) = <<>>
      <4>1. CASE part.from = 1
        BY <1>1, <2>1, <4>1, SubSeqFull, Restated
      <4>2. CASE part.from > Len(said)
        <5>1. Len(said) \in Int /\ part.from \in Int /\ Len(said) < part.from
          BY <1>1, <4>2
        <5>2. x = <<>>
          BY <5>1, SubSeqEmpty
        <5> HIDE DEF x
        <5> QED BY <1>1, <5>2, NothingNew
      <4>3. Len(said) \in Nat
        BY <1>1
      <4> QED BY <1>1, <3>2, <4>1, <4>2, <4>3
    <3> HIDE DEF x
    <3> QED BY <1>1, <2>1, <3>1, <3>2, <3>3 DEF TextInv
  <2>4. ASSUME StateItem PROVE TextInv'
    <3>1. Chunk'.content = said
      BY <2>4, StateItemSends, Sent
    <3>2. said' = said
      BY <2>4 DEF StateItem
    <3> QED BY <1>1, <2>1, <3>1, <3>2, Restated DEF TextInv
  <2>5. CASE Chunk'.content = <<>> /\ said' = said /\ unclear' = unclear
    BY <1>1, <2>1, <2>5, NothingNew DEF TextInv
  <2> QED BY <1>3, <2>2, <2>3, <2>4, <2>5, StepsApart DEF Apart, WordsStep
<1>4. CASE ProcessEvent
  <2>1. /\ done = "no" /\ done' = "no" /\ said' = said /\ event' = None
        /\ text' = text \o Normalized(text, Chunk.content)
    BY <1>4, Handled DEF serverVars
  <2>2. text' = said
    BY <1>2, <2>1 DEF TextInv
  <2>3. Chunk'.content = <<>>
    BY <2>1, NothingLater
  <2>4. Normalized(said, <<>>) = <<>> /\ said \o <<>> = said
    BY <1>1, NothingNew, ConcatEmptySeq
  <2> QED BY <2>1, <2>2, <2>3, <2>4 DEF TextInv
<1>5. CASE EndOfStream
  <2>1. event = None /\ done = "no" /\ done' = "yes" /\ text' = Trimmed(text) /\ said' = said
    BY <1>5 DEF EndOfStream, serverVars
  <2>2. Normalized(text, Chunk.content) = <<>>
    BY <1>1, <2>1, NothingPending, NothingNew DEF Quiet
  <2>3. said = text
    BY <1>1, <1>2, <2>1, <2>2 DEF TextInv
  <2> QED BY <2>1, <2>3 DEF TextInv
<1>6. CASE Cancel
  BY <1>6 DEF Cancel, TextInv
<1>7. CASE UNCHANGED vars
  BY <1>2, <1>7 DEF vars, TextInv, serverVars, clientVars, Chunk, Pending
<1> QED BY <1>3, <1>4, <1>5, <1>6, <1>7, Steps

LEMMA CallsStep == TypeOK /\ ShapeInv /\ CallsInv /\ [Next]_vars => CallsInv'
<1> SUFFICES ASSUME TypeOK, ShapeInv, CallsInv, [Next]_vars PROVE CallsInv'
  OBVIOUS
<1> USE AnswerAssumption
<1>1. CASE ServerStep
  <2>1. /\ done # "cancelled" /\ done' # "cancelled" /\ calls' = calls /\ mode' = mode
        /\ \A i : After(i) = calls[i]
    BY <1>1, ServedQuietly DEF clientVars, After
  <2>2. /\ IsFiniteSet({i \in Indices : calls[i] # NoCall})
        /\ \A i \in Indices : CallInv(i)
    BY <2>1 DEF CallsInv
  <2>3. CASE Chunk'.tools = {} /\ asked' = asked
    <3>1. \A i : After(i)' = calls[i]
      BY <2>1, <2>3 DEF After
    <3>2. \A i \in Indices : CallInv(i)'
      BY <2>1, <2>2, <2>3, <3>1 DEF CallInv
    <3> QED BY <2>2, <3>1, <3>2 DEF CallsInv
  <2>4. ASSUME NEW i \in Indices, NEW id \in Indices \cup {None}, NEW x \in Seq(1 .. Pieces),
               Chunk'.tools = {i}, Pending'.id = id, Pending'.args = x,
               \A j \in Indices \ {i} : asked'[j] = asked[j],
               CallInv(i)'
        PROVE  CallsInv'
    <3>1. \A j \in Indices \ {i} : After(j)' = calls[j]
      BY <2>1, <2>4 DEF After
    <3>2. \A j \in Indices \ {i} : CallInv(j)'
      BY <2>1, <2>2, <2>4, <3>1 DEF CallInv
    <3>3. {j \in Indices : After(j)' # NoCall} \subseteq {j \in Indices : calls[j] # NoCall} \cup {i}
      BY <3>1
    <3>4. IsFiniteSet({j \in Indices : After(j)' # NoCall})
      BY <2>2, <3>3, FS_AddElement, FS_Subset
    <3> QED BY <2>4, <3>2, <3>4 DEF CallsInv
  <2>5. ASSUME NEW i \in Indices
        PROVE  /\ calls[i].args \in Seq(1 .. Pieces)
               /\ asked[i] \in [sent : 0 .. Pieces, stated : 0 .. MaxStated + 1]
               /\ asked[i].stated = 0 => /\ asked[i].sent < Pieces
                                         /\ calls[i].args = [p \in 1 .. asked[i].sent |-> p]
               /\ asked[i].stated = 1 => asked[i].sent = Pieces /\ calls[i].args = Whole
               /\ mode = "chat" /\ asked[i].sent > 0 => calls[i].id = i
    BY <2>1, <2>2 DEF TypeOK, CallInv
  <2>6. ASSUME NEW i \in Indices, SendPiece(i) PROVE CallsInv'
    <3> DEFINE n == asked[i].sent
    <3>1. PICK t \in CallTypes \ Errors, id \in {i, None} :
            /\ Sends(t, <<>>, <<>>, i, id, <<n + 1>>, 0)
            /\ mode = "chat" /\ n = 0 => id = i
      BY <2>6, SendPieceSends
    <3> DEFINE x == <<n + 1>>
    <3>2. Sends(t, <<>>, <<>>, i, id, x, 0)
      BY <3>1
    <3> HIDE DEF x
    <3>3. Chunk'.tools = {i} /\ Pending'.id = id /\ Pending'.args = x
      BY <3>2, Sent
    <3> USE DEF x
    <3>4. n \in Nat /\ n < Pieces /\ asked[i].stated = 0 /\ calls[i].args = [p \in 1 .. n |-> p]
      BY <2>5, <2>6 DEF SendPiece
    <3>5. asked' = [asked EXCEPT ![i] = [sent |-> n + 1, stated |-> IF n + 1 = Pieces THEN 1 ELSE 0]]
      BY <2>6 DEF SendPiece
    <3>6. /\ asked'[i].sent = n + 1 /\ asked'[i].stated = IF n + 1 = Pieces THEN 1 ELSE 0
          /\ \A j \in Indices \ {i} : asked'[j] = asked[j]
      BY <3>5 DEF TypeOK
    <3> HIDE DEF n
    <3>7. After(i)'.args = [p \in 1 .. n + 1 |-> p]
      <4>1. After(i)'.args = [p \in 1 .. n |-> p] \o <<n + 1>>
        BY <2>1, <3>3, <3>4 DEF After, Collected
      <4> QED BY <3>4, <4>1
    <3>8. After(i)'.id = IF id = None THEN calls[i].id ELSE id
      BY <2>1, <3>3 DEF After, Collected
    <3>9. CallInv(i)'
      <4>1. asked'[i].stated = 1 => After(i)'.args = Whole /\ asked'[i].sent = Pieces
        BY <3>4, <3>6, <3>7 DEF Whole
      <4>2. asked'[i].stated = 0 => asked'[i].sent < Pieces
        BY <3>4, <3>6
      <4>3. After(i)'.args # <<>>
        <5>1. 1 \in DOMAIN After(i)'.args
          BY <3>4, <3>7
        <5> QED BY <5>1
      <4>4. mode = "chat" => After(i)'.id = i
        <5>1. CASE n = 0
          BY <3>1, <3>8, <5>1 DEF n
        <5>2. CASE n # 0
          <6>1. mode = "chat" => calls[i].id = i
            <7>1. asked[i].sent > 0
              BY <3>4, <5>2 DEF n
            <7> QED BY <2>5, <7>1
          <6> QED BY <3>1, <3>8, <6>1
        <5> QED BY <5>1, <5>2
      <4> QED BY <2>1, <3>4, <3>6, <3>7, <4>1, <4>2, <4>3, <4>4 DEF CallInv
    <3>10. x \in Seq(1 .. Pieces) /\ id \in Indices \cup {None}
      BY <3>1, <3>4
    <3> QED BY <2>4, <3>3, <3>6, <3>9, <3>10
  <2>7. ASSUME NEW i \in Indices, StateCall(i) PROVE CallsInv'
    <3>1. Chunk'.tools = {i} /\ Pending'.id = i /\ Pending'.args = Whole
      BY <2>7, StateCallSends, Sent
    <3>2. /\ mode = "responses" /\ asked[i].sent \in {0, Pieces}
          /\ asked' = [asked EXCEPT ![i] = [sent |-> Pieces, stated |-> asked[i].stated + 1]]
      BY <2>7 DEF StateCall
    <3>3. /\ asked'[i].sent = Pieces /\ asked'[i].stated = asked[i].stated + 1
          /\ \A j \in Indices \ {i} : asked'[j] = asked[j]
      BY <3>2 DEF TypeOK
    <3>4. After(i)'.args = calls[i].args \o Whole
      BY <2>1, <3>1 DEF After, Collected
    <3>5. Whole \in Seq(1 .. Pieces) /\ Whole # <<>> /\ <<>> \o Whole = Whole
      BY ConcatEmptySeq DEF Whole
    <3>6. After(i)'.args # <<>>
      BY <2>5, <3>4, <3>5
    <3>7. ASSUME asked[i].stated = 0 PROVE After(i)'.args = Whole
      <4>1. asked[i].sent = 0 /\ calls[i].args = [p \in 1 .. asked[i].sent |-> p]
        BY <2>5, <3>2, <3>7
      <4>2. calls[i].args = <<>>
        BY <4>1
      <4> QED BY <3>4, <3>5, <4>2
    <3>8. CallInv(i)'
      <4>1. asked[i].stated \in Nat /\ mode' = "responses"
        <5>1. asked[i].stated \in 0 .. MaxStated + 1
          BY <2>5
        <5> QED BY <2>1, <3>2, <5>1
      <4>2. asked'[i].stated # 0 /\ (asked'[i].stated = 1 => asked[i].stated = 0)
        BY <3>3, <4>1
      <4> QED BY <3>3, <3>6, <3>7, <4>1, <4>2 DEF CallInv
    <3> QED BY <2>4, <3>1, <3>3, <3>5, <3>8
  <2>8. ASSUME NEW i \in Indices, AnnounceCall(i) PROVE CallsInv'
    <3>1. Chunk'.tools = {i} /\ Pending'.id = i /\ Pending'.args = <<>>
      <4>1. Sends("call", <<>>, <<>>, i, i, <<>>, 0) /\ i # None
        BY <2>8, AnnounceCallSends
      <4> QED BY <4>1, Sent
    <3>2. mode = "responses" /\ asked[i] = Unstarted /\ asked' = asked
      BY <2>8 DEF AnnounceCall, serverVars
    <3>3. After(i)'.args = calls[i].args
      BY <2>1, <2>5, <3>1, ConcatEmptySeq DEF After, Collected
    <3>4. CallInv(i)'
      BY <2>1, <2>5, <3>2, <3>3 DEF CallInv, Unstarted
    <3> QED BY <2>4, <3>1, <3>2, <3>4, NoneOf
  <2> QED BY <1>1, <2>3, <2>6, <2>7, <2>8, StepsApart DEF Apart, CallStep
<1>2. CASE ProcessEvent
  <2>1. /\ done = "no" /\ event' = None /\ calls' = [i \in Indices |-> After(i)]
        /\ asked' = asked /\ mode' = mode
    BY <1>2, Handled DEF serverVars
  <2>2. Chunk'.tools = {}
    BY <2>1, NothingLater
  <2>3. \A i \in Indices : After(i)' = After(i)
    BY <2>1, <2>2 DEF After
  <2> QED BY <2>1, <2>3 DEF CallsInv, CallInv
<1>3. CASE EndOfStream
  BY <1>3 DEF EndOfStream, CallsInv, CallInv, After, serverVars, Chunk, Pending
<1>4. CASE Cancel
  BY <1>4 DEF Cancel, CallsInv
<1>5. CASE UNCHANGED vars
  BY <1>5 DEF vars, CallsInv, CallInv, After, serverVars, clientVars, Chunk, Pending
<1> QED BY <1>1, <1>2, <1>3, <1>4, <1>5, Steps

LEMMA InvInit == Init => AnswerInv
<1> SUFFICES ASSUME Init PROVE AnswerInv
  OBVIOUS
<1>1. TypeOK
  BY TypeInit
<1>2. /\ event = None /\ Pending = Silent /\ ~Chunk.bad /\ Quiet(Chunk) /\ Pending.usage = 0
  BY NothingPending DEF Init, Pending, Carries
<1>3. ShapeInv /\ CountInv
  BY <1>2, AnswerAssumption DEF Init, ShapeInv, CountInv
<1>4. ImagesInv
  BY <1>2, NoImages DEF Init, ImagesInv, Quiet, IsInjective
<1>5. TextInv
  <2>1. Normalized(text, Chunk.content) = <<>>
    BY <1>1, <1>2, NothingNew DEF Quiet, TypeOK
  <2> QED BY <2>1 DEF Init, TextInv
<1>6. ShownInv
  BY DEF Init, ShownInv
<1>7. CallsInv
  <2>1. \A i \in Indices : After(i) = NoCall /\ asked[i] = Unstarted
    BY <1>2 DEF Init, After, Quiet
  <2>2. {i \in Indices : After(i) # NoCall} = {}
    BY <2>1
  <2>3. ASSUME NEW i \in Indices PROVE CallInv(i)
    <3>1. After(i).args = <<>> /\ asked[i].sent = 0 /\ asked[i].stated = 0 /\ asked[i] = Unstarted
      BY <2>1 DEF Unstarted, NoCall
    <3>2. <<>> = [p \in 1 .. 0 |-> p] /\ 0 < Pieces
      BY AnswerAssumption
    <3> QED BY <3>1, <3>2 DEF CallInv
  <2> QED BY <2>2, <2>3, FS_EmptySet DEF CallsInv
<1> QED BY <1>1, <1>3, <1>4, <1>5, <1>6, <1>7 DEF AnswerInv

LEMMA InvStep == AnswerInv /\ [Next]_vars => AnswerInv'
BY TypeStep, ShapeStep, CountStep, ImagesStep, TextStep, ShownStep, CallsStep DEF AnswerInv

THEOREM AnswerInvariant == Spec => []AnswerInv
<1> QED BY InvInit, InvStep, PTL DEF Spec

-----------------------------------------------------------------------------
(* The values of the variables; an image is kept and shown once.           *)
THEOREM TypeCorrect == Spec => []TypeOK
<1>1. AnswerInv => TypeOK
  BY DEF AnswerInv
<1> QED BY <1>1, AnswerInvariant, PTL

(* The text of the answer is the text the server said, trimmed, however    *)
(* often normalizeAssistantContent saw it stated again.                    *)
THEOREM TextIsKept == Spec => []TextAsSaid
<1>1. AnswerInv => TextAsSaid
  BY DEF AnswerInv, TextInv, TextAsSaid
<1> QED BY <1>1, AnswerInvariant, PTL

(* What the application was shown is what is kept of the answer, with      *)
(* every image named, every error counted and the last token count.        *)
THEOREM WhatIsShownIsKept == Spec => []ShownIsKept
<1>1. AnswerInv => ShownIsKept
  <2> SUFFICES ASSUME AnswerInv, done = "yes"
               PROVE  /\ Trimmed(shown.text) = text
                      /\ shown.images = images /\ images = named
                      /\ errors = reported.errors /\ usage = reported.usage
    BY DEF ShownIsKept
  <2>1. event = None
    BY DEF AnswerInv, ShapeInv
  <2>2. ~Chunk.bad /\ Pending.usage = 0
    BY <2>1, NothingPending DEF Carries
  <2>3. errors = reported.errors /\ usage = reported.usage
    BY <2>2, AnswerAssumption DEF AnswerInv, CountInv, TypeOK
  <2> QED BY <2>3 DEF AnswerInv, ShownInv, ImagesInv
<1> QED BY <1>1, AnswerInvariant, PTL

(* Every call the server made is run, in the order of the indices, with    *)
(* the input and, in chat mode, under the id the server gave it.           *)
THEOREM CallsAreRun == Spec => []CallsAsSent
<1>1. AnswerInv => CallsAsSent
  <2> SUFFICES ASSUME AnswerInv, done = "yes"
               PROVE  /\ {i \in Indices : asked[i] # Unstarted} \subseteq Range(OrderedCalls)
                      /\ \A m, n \in DOMAIN OrderedCalls :
                           m < n => OrderedCalls[m] < OrderedCalls[n]
                      /\ \A i \in Indices : asked[i].stated = 1 =>
                           Input(i) = "whole" /\ (mode = "chat" => calls[i].id = i)
    BY DEF CallsAsSent
  <2>1. Chunk.tools = {}
    BY NothingPending DEF AnswerInv, ShapeInv, Quiet
  <2>2. \A i : After(i) = calls[i]
    BY <2>1 DEF After
  <2>3. IsFiniteSet({i \in Indices : calls[i] # NoCall}) /\ \A i \in Indices : CallInv(i)
    BY <2>2 DEF AnswerInv, CallsInv
  <2> DEFINE made == {i \in Indices : calls[i] # NoCall}
  <2>4. made \in SUBSET Nat /\ IsFiniteSet(made)
    BY <2>3, AnswerAssumption
  <2>5. OrderedCalls = InSequence(made)
    BY DEF OrderedCalls
  <2>6. \A i \in Indices : asked[i] # Unstarted => i \in made
    <3>1. \A i \in Indices : asked[i] # Unstarted => calls[i].args # <<>>
      BY <2>2, <2>3 DEF CallInv
    <3>2. NoCall.args = <<>>
      BY DEF NoCall
    <3> QED BY <3>1, <3>2
  <2> HIDE DEF made
  <2>7. /\ Range(OrderedCalls) = made
        /\ \A m, n \in DOMAIN OrderedCalls : m < n => OrderedCalls[m] < OrderedCalls[n]
    BY <2>4, <2>5, InOrder
  <2>8. ASSUME NEW i \in Indices, asked[i].stated = 1
        PROVE  Input(i) = "whole" /\ (mode = "chat" => calls[i].id = i)
    <3>1. calls[i].args = Whole /\ asked[i].sent = Pieces
      BY <2>2, <2>3, <2>8 DEF CallInv
    <3>2. asked[i].sent > 0
      BY <3>1, AnswerAssumption
    <3> QED BY <2>2, <2>3, <3>1, <3>2 DEF CallInv, Input
  <2> QED BY <2>6, <2>7, <2>8
<1> QED BY <1>1, AnswerInvariant, PTL
=============================================================================
