----------------------------- MODULE Setup_proofs -----------------------------
(***************************************************************************)
(* What a client is set up with, proved for any lists of options, servers  *)
(* and number of clients: first what applying a list comes to, option by   *)
(* option; then the servers and tools it names; then that every action     *)
(* keeps the invariant SetupInv, and with it the types and ToolsOffered;   *)
(* at last the counters of forks (ForkInv) and ForkIsNew.                  *)
(***************************************************************************)
EXTENDS Setup, WellFoundedInduction, TLAPS

(***************************************************************************)
(* Options are applied one after the other.                                *)
(***************************************************************************)

LEMMA Least ==
  ASSUME NEW set \in SUBSET Nat, set # {}
  PROVE  \E x \in set : \A y \in set : x <= y
<1>1. PICK x \in set : \A y \in set : ~ (<<y, x>> \in OpToRel(<, Nat))
  BY NatLessThanWellFounded, WFMin
<1>2. \A y \in set : ~ (y < x)
  BY <1>1 DEF OpToRel
<1>3. \A y \in set : x \in Nat /\ y \in Nat
  OBVIOUS
<1> QED BY <1>2, <1>3

\* The values of a fold over the options whose positions are in a set.
Folding(k, list, n, g) ==
  g = [s \in SUBSET (1 .. n) |-> IF s = {} THEN k ELSE With(g[s \ {Max(s)}], list[Max(s)])]

LEMMA TopOf ==
  ASSUME NEW n \in Nat, NEW s \in SUBSET (1 .. n + 1), n + 1 \in s
  PROVE  Max(s) = n + 1 /\ s \ {n + 1} \in SUBSET (1 .. n)
<1>1. \A y \in s : y \in Nat /\ n + 1 >= y
  OBVIOUS
<1>2. \E x \in s : \A y \in s : x >= y
  BY <1>1
<1>3. Max(s) \in s /\ \A y \in s : Max(s) >= y
  BY <1>2 DEF Max
<1>4. Max(s) \in Nat /\ n + 1 >= Max(s) /\ Max(s) >= n + 1
  BY <1>1, <1>3
<1>5. Max(s) = n + 1
  BY <1>4
<1>6. s \ {n + 1} \in SUBSET (1 .. n)
  OBVIOUS
<1> QED BY <1>5, <1>6

LEMMA TopIn ==
  ASSUME NEW n \in Nat, NEW s \in SUBSET (1 .. n), s # {}
  PROVE  Max(s) \in s
<1> DEFINE up == {j \in 0 .. n : \A y \in s : y <= j}
<1>1. up \in SUBSET Nat /\ n \in up
  OBVIOUS
<1>2. PICK x \in up : \A y \in up : x <= y
  BY <1>1, Least
<1>3. x \in s
  <2>1. SUFFICES ASSUME x \notin s PROVE FALSE
    OBVIOUS
  <2>2. \A y \in s : y <= x - 1 /\ y \in 1 .. n
    BY <1>2, <2>1
  <2>4. PICK z \in s : TRUE
    OBVIOUS
  <2>3. x - 1 \in up
    BY <1>2, <2>2, <2>4
  <2> QED BY <1>2, <2>3
<1>4. \E z \in s : \A y \in s : z >= y
  BY <1>2, <1>3
<1> QED BY <1>4 DEF Max

LEMMA FoldingExists ==
  ASSUME NEW k, NEW list, NEW n \in Nat
  PROVE  \E g : Folding(k, list, n, g)
<1> DEFINE Bad == {m \in Nat : ~ \E g : Folding(k, list, m, g)}
<1>1. SUFFICES ASSUME Bad # {} PROVE FALSE
  OBVIOUS
<1>2. PICK m \in Bad : \A j \in Bad : m <= j
  BY <1>1, Least
<1>3. CASE m = 0
  <2> DEFINE g == [s \in SUBSET (1 .. m) |-> k]
  <2>1. \A s \in SUBSET (1 .. m) : s = {}
    BY <1>3
  <2>2. Folding(k, list, m, g)
    BY <2>1 DEF Folding
  <2> QED BY <1>2, <2>2
<1>4. CASE m # 0
  <2>1. m - 1 \in Nat /\ m - 1 < m /\ (m - 1) + 1 = m
    BY <1>2, <1>4
  <2>2. PICK f : Folding(k, list, m - 1, f)
    BY <1>2, <2>1
  <2> DEFINE g == [s \in SUBSET (1 .. m) |->
                     IF m \in s THEN With(f[s \ {m}], list[m]) ELSE f[s]]
  <2>3. ASSUME NEW s \in SUBSET (1 .. m)
        PROVE  g[s] = IF s = {} THEN k ELSE With(g[s \ {Max(s)}], list[Max(s)])
    <3>1. CASE m \in s
      <4>1. Max(s) = m /\ s \ {m} \in SUBSET (1 .. m - 1) /\ s \ {m} \in SUBSET (1 .. m)
        BY <2>1, <3>1, TopOf
      <4>2. g[s] = With(f[s \ {m}], list[m])
        BY <3>1
      <4>3. g[s \ {m}] = f[s \ {m}]
        BY <4>1
      <4> HIDE DEF g
      <4> QED BY <3>1, <4>1, <4>2, <4>3
    <3>2. CASE m \notin s
      <4>1. s \in SUBSET (1 .. m - 1)
        BY <2>1, <3>2
      <4>2. f[s] = IF s = {} THEN k ELSE With(f[s \ {Max(s)}], list[Max(s)])
        BY <2>2, <4>1 DEF Folding
      <4>3. g[s] = f[s] /\ g[s \ {Max(s)}] = f[s \ {Max(s)}]
        BY <3>2
      <4> HIDE DEF g
      <4> QED BY <4>2, <4>3
    <3> QED BY <3>1, <3>2
  <2>4. g = [s \in SUBSET (1 .. m) |-> g[s]]
    OBVIOUS
  <2> HIDE DEF g
  <2>5. Folding(k, list, m, g)
    BY <2>3, <2>4 DEF Folding
  <2> QED BY <1>2, <2>5
<1> QED BY <1>3, <1>4

Fold(k, list) == FoldLeft(With, k, list)

LEMMA FoldUnfolded ==
  ASSUME NEW k, NEW list, NEW n, DOMAIN list = 1 .. n
  PROVE  Fold(k, list) = (CHOOSE g : Folding(k, list, n, g))[1 .. n]
<1>1. FoldLeft(With, k, list) =
        (CHOOSE g : g = [s \in SUBSET (DOMAIN list) |->
                           IF s = {} THEN k ELSE With(g[s \ {Max(s)}], list[Max(s)])])[DOMAIN list]
  BY DEF FoldLeft, MapThenFoldSet
<1> QED BY <1>1 DEF Folding, Fold

LEMMA FoldNothing ==
  ASSUME NEW k
  PROVE  Fold(k, <<>>) = k
<1>1. PICK g : g = (CHOOSE h : Folding(k, <<>>, 0, h))
  OBVIOUS
<1>2. Folding(k, <<>>, 0, g)
  BY <1>1, FoldingExists
<1>3. DOMAIN <<>> = 1 .. 0 /\ {} \in SUBSET (1 .. 0) /\ 1 .. 0 = {}
  OBVIOUS
<1>4. g[{}] = k
  BY <1>2, <1>3 DEF Folding
<1> QED BY <1>1, <1>3, <1>4, FoldUnfolded

LEMMA FoldMore ==
  ASSUME NEW O, NEW k, NEW list \in Seq(O), NEW o \in O
  PROVE  Fold(k, Append(list, o)) = With(Fold(k, list), o)
<1> DEFINE n  == Len(list)
           l2 == Append(list, o)
<1>1. /\ n \in Nat /\ DOMAIN list = 1 .. n /\ DOMAIN l2 = 1 .. n + 1
      /\ l2[n + 1] = o /\ \A i \in 1 .. n : l2[i] = list[i]
  OBVIOUS
<1> HIDE DEF n, l2
<1>2. PICK g : g = (CHOOSE h : Folding(k, list, n, h))
  OBVIOUS
<1>3. PICK f : f = (CHOOSE h : Folding(k, l2, n + 1, h))
  OBVIOUS
<1>4. Folding(k, list, n, g) /\ Folding(k, l2, n + 1, f)
  <2>1. (\E h : Folding(k, list, n, h)) /\ n + 1 \in Nat
    BY <1>1, FoldingExists
  <2>2. \E h : Folding(k, l2, n + 1, h)
    BY <2>1, FoldingExists
  <2> QED BY <1>2, <1>3, <2>1, <2>2
<1>5. \A m \in 0 .. n : f[1 .. m] = g[1 .. m]
  <2> DEFINE Bad == {m \in 0 .. n : f[1 .. m] # g[1 .. m]}
  <2>1. SUFFICES ASSUME Bad # {} PROVE FALSE
    OBVIOUS
  <2>5. Bad \in SUBSET Nat
    BY <1>1
  <2> HIDE DEF Bad
  <2>2. PICK m \in Bad : \A j \in Bad : m <= j
    BY <2>1, <2>5, Least
  <2> USE DEF Bad
  <2>3. CASE m = 0
    <3>1. f[{}] = k /\ g[{}] = k
      BY <1>1, <1>4 DEF Folding
    <3> QED BY <2>2, <2>3, <3>1
  <2>4. CASE m # 0
    <3>1. m - 1 \in 0 .. n /\ m - 1 \in Nat /\ (m - 1) + 1 = m /\ m \in 1 .. n /\ m - 1 \notin Bad
      BY <1>1, <2>2, <2>4
    <3>2. Max(1 .. m) = m
      <4>1. 1 .. m \in SUBSET (1 .. (m - 1) + 1) /\ (m - 1) + 1 \in 1 .. m
        BY <3>1
      <4> QED BY <3>1, <4>1, TopOf
    <3>3. (1 .. m) \ {m} = 1 .. m - 1 /\ 1 .. m # {}
      <4>1. ASSUME NEW x PROVE x \in (1 .. m) \ {m} <=> x \in 1 .. m - 1
        BY <3>1
      <4>2. m \in 1 .. m
        BY <3>1
      <4> QED BY <4>1, <4>2
    <3>4. 1 .. m \in SUBSET (1 .. n) /\ 1 .. m \in SUBSET (1 .. n + 1)
      BY <1>1, <3>1
    <3>5. f[1 .. m] = With(f[1 .. m - 1], l2[m]) /\ g[1 .. m] = With(g[1 .. m - 1], list[m])
      <4>1. f[1 .. m] = IF 1 .. m = {} THEN k
                        ELSE With(f[(1 .. m) \ {Max(1 .. m)}], l2[Max(1 .. m)])
        BY <1>4, <3>4 DEF Folding
      <4>2. g[1 .. m] = IF 1 .. m = {} THEN k
                        ELSE With(g[(1 .. m) \ {Max(1 .. m)}], list[Max(1 .. m)])
        BY <1>4, <3>4 DEF Folding
      <4> QED BY <3>2, <3>3, <4>1, <4>2
    <3>6. f[1 .. m - 1] = g[1 .. m - 1] /\ l2[m] = list[m]
      BY <1>1, <3>1
    <3> QED BY <2>2, <3>5, <3>6
  <2> QED BY <2>3, <2>4
<1>6. Max(1 .. n + 1) = n + 1 /\ (1 .. n + 1) \ {n + 1} = 1 .. n /\ 1 .. n + 1 # {}
  <2>1. n \in Nat /\ 1 .. n + 1 \in SUBSET (1 .. n + 1) /\ n + 1 \in 1 .. n + 1
    BY <1>1
  <2>2. (1 .. n + 1) \ {n + 1} = 1 .. n
    <3>1. ASSUME NEW x PROVE x \in (1 .. n + 1) \ {n + 1} <=> x \in 1 .. n
      BY <2>1
    <3> QED BY <3>1
  <2> QED BY <2>1, <2>2, TopOf
<1>7. f[1 .. n + 1] = With(f[1 .. n], o)
  <2>1. 1 .. n + 1 \in SUBSET (1 .. n + 1)
    OBVIOUS
  <2>2. f[1 .. n + 1] = IF 1 .. n + 1 = {} THEN k
                        ELSE With(f[(1 .. n + 1) \ {Max(1 .. n + 1)}], l2[Max(1 .. n + 1)])
    BY <1>4, <2>1 DEF Folding
  <2> QED BY <1>1, <1>6, <2>2
<1>8. f[1 .. n] = g[1 .. n]
  BY <1>1, <1>5
<1>9. Fold(k, list) = g[1 .. n] /\ Fold(k, l2) = f[1 .. n + 1]
  BY <1>1, <1>2, <1>3, FoldUnfolded
<1> QED BY <1>7, <1>8, <1>9 DEF l2

-----------------------------------------------------------------------------
(* What the first n options of a list make of the options of a client.     *)

OptionFields == DOMAIN Options
PlainFields    == OptionFields \ {"servers", "allowed", "request"}

Upto(l, field, n) == Sets(l, field) \cap (1 .. n)

LastOf(l, field, n, none) ==
  IF Upto(l, field, n) = {} THEN none ELSE l[Max(Upto(l, field, n))].to

SinceAllowed(l, n) == {i \in Upto(l, "sdk", n) : \A j \in Upto(l, "allowed", n) : j < i}

AllowedUpto(l, n) ==
  LastOf(l, "allowed", n, {}) \cup UNION {SdkNames(l[i].to) : i \in SinceAllowed(l, n)}

ServersUpto(c, l, n) ==
  IF Upto(l, "servers", n) # {} THEN Shared
  ELSE IF Upto(l, "sdk", n) # {} THEN c ELSE Nil

Applied(c, l, n, k) ==
  /\ k = [f \in OptionFields |-> k[f]]
  /\ \A f \in PlainFields : k[f] = LastOf(l, f, n, Options[f])
  /\ k.servers = ServersUpto(c, l, n)
  /\ k.allowed = AllowedUpto(l, n)

LEMMA UptoNone ==
  ASSUME NEW l, NEW field
  PROVE  Upto(l, field, 0) = {}
BY DEF Upto

LEMMA UptoMore ==
  ASSUME NEW l, IsList(l), NEW n \in Nat, n < Len(l), NEW field
  PROVE  /\ l[n + 1].set # field => Upto(l, field, n + 1) = Upto(l, field, n)
         /\ l[n + 1].set = field => /\ Upto(l, field, n + 1) = Upto(l, field, n) \cup {n + 1}
                                    /\ Max(Upto(l, field, n + 1)) = n + 1
                                    /\ Upto(l, field, n + 1) # {}
                                    /\ n + 1 \in Upto(l, field, n + 1)
         /\ \A i \in Upto(l, field, n) : i \in 1 .. n
<1>1. n + 1 \in DOMAIN l /\ DOMAIN l = 1 .. Len(l)
  BY DEF IsList
<1>2. ASSUME l[n + 1].set = field
      PROVE  Upto(l, field, n + 1) = Upto(l, field, n) \cup {n + 1}
  BY <1>1, <1>2 DEF Upto, Sets
<1>3. ASSUME l[n + 1].set # field
      PROVE  Upto(l, field, n + 1) = Upto(l, field, n)
  BY <1>1, <1>3 DEF Upto, Sets
<1>4. ASSUME l[n + 1].set = field
      PROVE  Max(Upto(l, field, n + 1)) = n + 1
  <2>1. Upto(l, field, n + 1) \in SUBSET (1 .. n + 1) /\ n + 1 \in Upto(l, field, n + 1)
    BY <1>2, <1>4 DEF Upto
  <2> QED BY <2>1, TopOf
<1>5. \A i \in Upto(l, field, n) : i \in 1 .. n
  BY DEF Upto
<1>6. ASSUME l[n + 1].set = field
      PROVE  Upto(l, field, n + 1) # {} /\ n + 1 \in Upto(l, field, n + 1)
  <2>1. n + 1 \in Upto(l, field, n + 1)
    BY <1>2, <1>6
  <2> QED BY <2>1
<1> QED BY <1>2, <1>3, <1>4, <1>5, <1>6

LEMMA LastOfMore ==
  ASSUME NEW l, IsList(l), NEW n \in Nat, n < Len(l), NEW field, NEW none
  PROVE  LastOf(l, field, n + 1, none) =
           IF l[n + 1].set = field THEN l[n + 1].to ELSE LastOf(l, field, n, none)
<1>1. CASE l[n + 1].set = field
  <2>1. Upto(l, field, n + 1) # {} /\ Max(Upto(l, field, n + 1)) = n + 1
    BY <1>1, UptoMore
  <2>2. LastOf(l, field, n + 1, none) = l[Max(Upto(l, field, n + 1))].to
    BY <2>1, Zenon DEF LastOf
  <2> QED BY <1>1, <2>1, <2>2
<1>2. CASE l[n + 1].set # field
  <2>1. Upto(l, field, n + 1) = Upto(l, field, n)
    BY <1>2, UptoMore
  <2> QED BY <1>2, <2>1 DEF LastOf
<1> QED BY <1>1, <1>2

LEMMA SomeFields ==
  /\ {"servers", "allowed", "request"} \subseteq OptionFields
  /\ {"tools", "disallowed", "mcpConfig", "onUserInput", "canUseTool", "mode", "model",
      "promptTool", "store", "resume", "fork"} \subseteq PlainFields
  /\ PlainFields \subseteq OptionFields
  /\ "sdk" \notin OptionFields
BY DEF OptionFields, PlainFields, Options

LEMMA AppliedNone ==
  ASSUME NEW c, NEW l
  PROVE  Applied(c, l, 0, Options)
<1>1. Options.servers = Nil /\ Options.allowed = {}
  BY DEF Options
<1>2. Options = [f \in OptionFields |-> Options[f]]
  BY DEF Options, OptionFields
<1>3. AllowedUpto(l, 0) = {}
  BY UptoNone DEF AllowedUpto, LastOf, SinceAllowed
<1>4. \A f \in PlainFields : Options[f] = LastOf(l, f, 0, Options[f])
  BY UptoNone DEF LastOf
<1> QED BY <1>1, <1>2, <1>3, <1>4, UptoNone DEF Applied, ServersUpto

LEMMA InAllowed ==
  ASSUME NEW l, NEW n, NEW x
  PROVE  x \in AllowedUpto(l, n) <=>
           \/ x \in LastOf(l, "allowed", n, {})
           \/ \E i \in SinceAllowed(l, n) : x \in SdkNames(l[i].to)
<1> DEFINE A == LastOf(l, "allowed", n, {})
           D(i) == SdkNames(l[i].to)
           S == SinceAllowed(l, n)
<1>1. AllowedUpto(l, n) = A \cup UNION {D(i) : i \in S}
  BY Zenon DEF AllowedUpto
<1> HIDE DEF A, D, S
<1>2. x \in UNION {D(i) : i \in S} <=> \E i \in S : x \in D(i)
  OBVIOUS
<1>3. x \in AllowedUpto(l, n) <=> x \in A \/ \E i \in S : x \in D(i)
  BY <1>1, <1>2
<1> QED BY <1>3 DEF A, D, S

LEMMA AllowedMore ==
  ASSUME NEW l, IsList(l), NEW n \in Nat, n < Len(l)
  PROVE  AllowedUpto(l, n + 1) =
           CASE l[n + 1].set = "allowed" -> l[n + 1].to
             [] l[n + 1].set = "sdk" -> AllowedUpto(l, n) \cup SdkNames(l[n + 1].to)
             [] OTHER -> AllowedUpto(l, n)
<1> DEFINE o == l[n + 1]
<1>1. CASE o.set = "allowed"
  <2>1. Upto(l, "sdk", n + 1) = Upto(l, "sdk", n)
    BY <1>1, UptoMore
  <2>2. n + 1 \in Upto(l, "allowed", n + 1)
    BY <1>1, UptoMore
  <2>3. \A i \in Upto(l, "sdk", n) : ~ (n + 1 < i)
    BY UptoMore
  <2>4. SinceAllowed(l, n + 1) = {}
    BY <2>1, <2>2, <2>3 DEF SinceAllowed
  <2>5. LastOf(l, "allowed", n + 1, {}) = o.to
    BY <1>1, LastOfMore
  <2>6. \A x : x \in AllowedUpto(l, n + 1) <=> x \in o.to
    BY <2>4, <2>5, InAllowed
  <2> QED BY <1>1, <2>6
<1>2. CASE o.set = "sdk"
  <2>1. Upto(l, "sdk", n + 1) = Upto(l, "sdk", n) \cup {n + 1}
    BY <1>2, UptoMore
  <2>2. Upto(l, "allowed", n + 1) = Upto(l, "allowed", n)
    BY <1>2, UptoMore
  <2>3. \A j \in Upto(l, "allowed", n) : j < n + 1
    BY UptoMore
  <2>4. SinceAllowed(l, n + 1) = SinceAllowed(l, n) \cup {n + 1}
    BY <2>1, <2>2, <2>3 DEF SinceAllowed
  <2>5. LastOf(l, "allowed", n + 1, {}) = LastOf(l, "allowed", n, {})
    BY <1>2, LastOfMore
  <2>6. \A x : x \in AllowedUpto(l, n + 1) <=> x \in AllowedUpto(l, n) \/ x \in SdkNames(o.to)
    <3> TAKE x
    <3>1. (\E i \in SinceAllowed(l, n + 1) : x \in SdkNames(l[i].to)) <=>
            \/ \E i \in SinceAllowed(l, n) : x \in SdkNames(l[i].to)
            \/ x \in SdkNames(o.to)
      BY <2>4
    <3> QED BY <2>5, <3>1, InAllowed
  <2>7. AllowedUpto(l, n + 1) = AllowedUpto(l, n) \cup SdkNames(o.to)
    BY <2>6
  <2>8. o.set # "allowed"
    BY <1>2
  <2> QED BY <1>2, <2>7, <2>8
<1>3. CASE o.set \notin {"allowed", "sdk"}
  <2>1. SinceAllowed(l, n + 1) = SinceAllowed(l, n)
    BY <1>3, UptoMore DEF SinceAllowed
  <2>2. LastOf(l, "allowed", n + 1, {}) = LastOf(l, "allowed", n, {})
    BY <1>3, LastOfMore
  <2> QED BY <1>3, <2>1, <2>2 DEF AllowedUpto
<1> QED BY <1>1, <1>2, <1>3

LEMMA ServersMore ==
  ASSUME NEW c, NEW l, IsList(l), NEW n \in Nat, n < Len(l)
  PROVE  /\ l[n + 1].set \notin {"servers", "sdk"} => ServersUpto(c, l, n + 1) = ServersUpto(c, l, n)
         /\ l[n + 1].set = "servers" => ServersUpto(c, l, n + 1) = Shared
         /\ l[n + 1].set = "sdk" => ServersUpto(c, l, n + 1) =
              IF Upto(l, "servers", n) # {} THEN Shared ELSE c
<1>1. CASE l[n + 1].set \notin {"servers", "sdk"}
  BY <1>1, UptoMore DEF ServersUpto
<1>2. CASE l[n + 1].set = "servers"
  <2>1. Upto(l, "servers", n + 1) # {}
    BY <1>2, UptoMore
  <2>2. ServersUpto(c, l, n + 1) = Shared
    BY <2>1, Zenon DEF ServersUpto
  <2> QED BY <1>2, <2>2
<1>3. CASE l[n + 1].set = "sdk"
  <2>1. Upto(l, "servers", n + 1) = Upto(l, "servers", n) /\ Upto(l, "sdk", n + 1) # {}
    BY <1>3, UptoMore
  <2> QED BY <1>3, <2>1 DEF ServersUpto
<1> QED BY <1>1, <1>2, <1>3

LEMMA AppliedMore ==
  ASSUME NEW c, NEW l, IsList(l), NEW n \in Nat, n < Len(l), OptionType(l[n + 1]),
         l[n + 1].set # "sdk", NEW k, Applied(c, l, n, k)
  PROVE  Applied(c, l, n + 1, With(k, l[n + 1]))
<1> DEFINE o == l[n + 1]
           w == With(k, o)
<1>1. o.set \in OptionFields /\ (o.set = "servers" => o.to = Shared)
  BY DEF OptionType, OptionFields
<1>2. k = [f \in OptionFields |-> k[f]]
  BY DEF Applied
<1>3. ASSUME o.set # "request"
      PROVE  w = [f \in OptionFields |-> IF f = o.set THEN o.to ELSE k[f]]
  <2>1. w = [k EXCEPT ![o.set] = o.to]
    BY <1>3 DEF With
  <2> HIDE DEF w, o
  <2> QED BY <1>1, <1>2, <2>1
<1>4. ASSUME o.set = "request"
      PROVE  w = [f \in OptionFields |-> IF f = "request" THEN w[f] ELSE k[f]]
  <2>1. PICK v : w = [k EXCEPT !["request"] = v]
    BY <1>4 DEF With, WithParameter
  <2> HIDE DEF w, o
  <2> QED BY <1>1, <1>2, <2>1, SomeFields
<1> HIDE DEF w
<1>5. w = [f \in OptionFields |-> w[f]]
  BY <1>3, <1>4
<1>6. \A f \in OptionFields \ {"request"} : w[f] = IF f = o.set THEN o.to ELSE k[f]
  BY <1>3, <1>4
<1>7. \A f \in PlainFields : w[f] = LastOf(l, f, n + 1, Options[f])
  <2> TAKE f \in PlainFields
  <2>1. f \in OptionFields \ {"request"} /\ k[f] = LastOf(l, f, n, Options[f])
    BY DEF PlainFields, Applied
  <2> QED BY <1>6, <2>1, LastOfMore
<1>8. w.servers = ServersUpto(c, l, n + 1)
  <2>1. w.servers = IF "servers" = o.set THEN o.to ELSE k.servers
    BY <1>6, SomeFields
  <2>2. k.servers = ServersUpto(c, l, n)
    BY DEF Applied
  <2> QED BY <1>1, <2>1, <2>2, ServersMore
<1>9. w.allowed = AllowedUpto(l, n + 1)
  <2>1. w.allowed = IF "allowed" = o.set THEN o.to ELSE k.allowed
    BY <1>6, SomeFields
  <2>2. k.allowed = AllowedUpto(l, n)
    BY DEF Applied
  <2> QED BY <2>1, <2>2, AllowedMore
<1> QED BY <1>5, <1>7, <1>8, <1>9 DEF Applied, w

LEMMA AppliedSdk ==
  ASSUME NEW c, NEW l, IsList(l), NEW n \in Nat, n < Len(l),
         l[n + 1].set = "sdk", NEW k, Applied(c, l, n, k), Shared # Nil, c # Nil
  PROVE  Applied(c, l, n + 1,
           [k EXCEPT !.servers = MapOf(c, k), !.allowed = SdkAllowed(k, l[n + 1].to)])
<1> DEFINE o == l[n + 1]
           w == [k EXCEPT !.servers = MapOf(c, k), !.allowed = SdkAllowed(k, o.to)]
<1>1. k = [f \in OptionFields |-> k[f]] /\ {"servers", "allowed"} \subseteq OptionFields
  BY SomeFields DEF Applied
<1>2. /\ w = [f \in OptionFields |-> w[f]] /\ w.servers = MapOf(c, k)
      /\ w.allowed = SdkAllowed(k, o.to)
      /\ \A f \in OptionFields \ {"servers", "allowed"} : w[f] = k[f]
  <2>1. w = [f \in OptionFields |-> IF f = "allowed" THEN SdkAllowed(k, o.to)
                                ELSE IF f = "servers" THEN MapOf(c, k) ELSE k[f]]
    BY <1>1
  <2> HIDE DEF o, w
  <2> QED BY <1>1, <2>1
<1> HIDE DEF w
<1>3. \A f \in PlainFields : w[f] = LastOf(l, f, n + 1, Options[f])
  <2> TAKE f \in PlainFields
  <2>1. f \in OptionFields \ {"servers", "allowed"} /\ k[f] = LastOf(l, f, n, Options[f])
    BY DEF PlainFields, Applied
  <2>2. o.set # f
    BY <2>1, SomeFields
  <2> QED BY <1>2, <2>1, <2>2, LastOfMore
<1>4. w.servers = ServersUpto(c, l, n + 1)
  <2>1. k.servers = ServersUpto(c, l, n)
    BY DEF Applied
  <2>2. MapOf(c, k) = IF Upto(l, "servers", n) # {} THEN Shared ELSE c
    BY <2>1 DEF MapOf, ServersUpto
  <2>3. ServersUpto(c, l, n + 1) = IF Upto(l, "servers", n) # {} THEN Shared ELSE c
    BY ServersMore
  <2> QED BY <1>2, <2>2, <2>3
<1>5. w.allowed = AllowedUpto(l, n + 1)
  <2>1. k.allowed = AllowedUpto(l, n)
    BY DEF Applied
  <2>2. w.allowed = AllowedUpto(l, n) \cup SdkNames(o.to)
    BY <1>2, <2>1 DEF SdkAllowed
  <2>3. o.set # "allowed"
    OBVIOUS
  <2> QED BY <2>2, <2>3, AllowedMore
<1> QED BY <1>2, <1>3, <1>4, <1>5 DEF Applied, w

LEMMA AppliedAll ==
  ASSUME NEW c, NEW l, IsList(l), NEW n \in Nat, NEW k, Applied(c, l, n, k),
         NEW m \in Nat, n <= m, m <= Len(l),
         \A i \in n + 1 .. m : OptionType(l[i]) /\ l[i].set # "sdk"
  PROVE  Applied(c, l, m, Fold(k, SubSeq(l, n + 1, m)))
<1> DEFINE F(j) == Fold(k, SubSeq(l, n + 1, j))
           Bad  == {j \in Nat : n <= j /\ j <= m /\ ~ Applied(c, l, j, F(j))}
<1>1. SUFFICES ASSUME Bad # {} PROVE FALSE
  OBVIOUS
<1>2. PICK j \in Bad : \A i \in Bad : j <= i
  BY <1>1, Least
<1>3. CASE j = n
  <2>1. SubSeq(l, n + 1, n) = <<>>
    OBVIOUS
  <2>2. F(n) = k
    BY <2>1, FoldNothing
  <2> QED BY <1>2, <1>3, <2>2
<1>4. CASE j # n
  <2>1. j - 1 \in Nat /\ n <= j - 1 /\ j - 1 <= m /\ j - 1 \notin Bad /\ (j - 1) + 1 = j
        /\ j - 1 < Len(l) /\ j \in n + 1 .. m
    BY <1>2, <1>4 DEF IsList
  <2>2. Applied(c, l, j - 1, F(j - 1))
    BY <2>1
  <2>3. SubSeq(l, n + 1, j) = Append(SubSeq(l, n + 1, j - 1), l[j])
    BY <2>1 DEF IsList
  <2>4. F(j) = With(F(j - 1), l[j])
    <3> DEFINE O == {l[i] : i \in 1 .. Len(l)}
               q == SubSeq(l, n + 1, j - 1)
    <3>1. q \in Seq(O) /\ l[j] \in O
      BY <2>1 DEF IsList
    <3> HIDE DEF q, O
    <3>2. Fold(k, Append(q, l[j])) = With(Fold(k, q), l[j])
      BY <3>1, FoldMore
    <3> QED BY <2>3, <3>2 DEF q
  <2> HIDE DEF F
  <2>5. Applied(c, l, (j - 1) + 1, With(F(j - 1), l[(j - 1) + 1]))
    BY <2>1, <2>2, AppliedMore
  <2> QED BY <1>2, <2>1, <2>4, <2>5
<1> QED BY <1>3, <1>4

-----------------------------------------------------------------------------
(* What they make of the map of servers.                                   *)

OwnUpto(l, n) ==
  {i \in Upto(l, "sdk", n) :
     Upto(l, "servers", n) # {} => \E j \in Upto(l, "servers", n) : j < i}

BaseUpto(l, n) == IF Upto(l, "servers", n) = {} THEN NoServers ELSE CallerServers

MapUpto(c, l, n) ==
  IF OwnUpto(l, n) = {} THEN BaseUpto(l, n)
  ELSE Put(BaseUpto(l, n), "sdk", SdkServer(c, l[Max(OwnUpto(l, n))].to))

\* The caller's map, when nobody else is given it.
SharedUpto(c, l, n) ==
  IF Upto(l, "servers", n) = {} THEN CallerServers ELSE MapUpto(c, l, n)

LEMMA PutTwice ==
  ASSUME NEW f, NEW k, NEW v, NEW w
  PROVE  Put(Put(f, k, v), k, w) = Put(f, k, w)
<1> DEFINE g == Put(f, k, v)
<1>1. DOMAIN g \cup {k} = DOMAIN f \cup {k}
  BY DEF Put
<1>2. \A x \in DOMAIN f \cup {k} : (IF x = k THEN w ELSE g[x]) = (IF x = k THEN w ELSE f[x])
  <2>1. \A x \in DOMAIN f \ {k} : g[x] = f[x]
    BY DEF Put
  <2> HIDE DEF g
  <2> QED BY <2>1
<1>3. Put(g, k, w) = [x \in DOMAIN g \cup {k} |-> IF x = k THEN w ELSE g[x]]
  BY DEF Put
<1>4. Put(f, k, w) = [x \in DOMAIN f \cup {k} |-> IF x = k THEN w ELSE f[x]]
  BY DEF Put
<1> HIDE DEF g
<1>5. Put(g, k, w) = Put(f, k, w)
  BY <1>1, <1>2, <1>3, <1>4
<1> QED BY <1>5 DEF g

LEMMA MapSdk ==
  ASSUME NEW c, NEW l, IsList(l), NEW n \in Nat, n < Len(l), l[n + 1].set = "sdk"
  PROVE  MapUpto(c, l, n + 1) = Put(MapUpto(c, l, n), "sdk", SdkServer(c, l[n + 1].to))
<1>1. Upto(l, "servers", n + 1) = Upto(l, "servers", n)
  BY UptoMore
<1>2. Upto(l, "sdk", n + 1) = Upto(l, "sdk", n) \cup {n + 1}
  BY UptoMore
<1>3. \A j \in Upto(l, "servers", n) : j < n + 1
  BY UptoMore
<1>4. n + 1 \in OwnUpto(l, n + 1)
  BY <1>1, <1>2, <1>3 DEF OwnUpto
<1>5. OwnUpto(l, n + 1) \in SUBSET (1 .. n + 1)
  BY DEF OwnUpto, Upto
<1>6. Max(OwnUpto(l, n + 1)) = n + 1 /\ OwnUpto(l, n + 1) # {}
  BY <1>4, <1>5, TopOf
<1>7. BaseUpto(l, n + 1) = BaseUpto(l, n)
  BY <1>1 DEF BaseUpto
<1>8. MapUpto(c, l, n + 1) = Put(BaseUpto(l, n), "sdk", SdkServer(c, l[n + 1].to))
  BY <1>6, <1>7, Zenon DEF MapUpto
<1>9. CASE OwnUpto(l, n) = {}
  BY <1>8, <1>9 DEF MapUpto
<1>10. CASE OwnUpto(l, n) # {}
  <2>1. MapUpto(c, l, n) = Put(BaseUpto(l, n), "sdk", SdkServer(c, l[Max(OwnUpto(l, n))].to))
    BY <1>10, Zenon DEF MapUpto
  <2> QED BY <1>8, <2>1, PutTwice
<1> QED BY <1>9, <1>10

LEMMA MapPlain ==
  ASSUME NEW c, NEW l, IsList(l), NEW n \in Nat, NEW m \in Nat, n <= m, m <= Len(l),
         \A i \in n + 1 .. m : l[i].set # "sdk"
  PROVE  /\ SharedUpto(c, l, m) = SharedUpto(c, l, n)
         /\ Upto(l, "servers", m) = {} => MapUpto(c, l, m) = MapUpto(c, l, n)
<1>1. Upto(l, "sdk", m) = Upto(l, "sdk", n)
  BY DEF Upto, Sets, IsList
<1>2. Upto(l, "servers", n) = Upto(l, "servers", m) \cap (1 .. n)
  BY DEF Upto
<1>3. \A i \in Upto(l, "sdk", n) : i \in 1 .. n
  BY DEF Upto
<1>4. \A j \in Upto(l, "servers", m) : j \in 1 .. m
  BY DEF Upto
<1>5. CASE Upto(l, "servers", n) # {}
  <2>1. Upto(l, "servers", m) # {}
    BY <1>2, <1>5
  <2>2. \A i \in Upto(l, "sdk", n) :
          (\E j \in Upto(l, "servers", m) : j < i) <=> (\E j \in Upto(l, "servers", n) : j < i)
    BY <1>2, <1>3, <1>4
  <2>3. OwnUpto(l, m) = OwnUpto(l, n)
    BY <1>1, <1>5, <2>1, <2>2 DEF OwnUpto
  <2>4. MapUpto(c, l, m) = MapUpto(c, l, n)
    BY <1>5, <2>1, <2>3 DEF MapUpto, BaseUpto
  <2> QED BY <1>5, <2>1, <2>4 DEF SharedUpto
<1>6. CASE Upto(l, "servers", n) = {} /\ Upto(l, "servers", m) # {}
  <2>1. \A i \in Upto(l, "sdk", n) : ~ \E j \in Upto(l, "servers", m) : j < i
    BY <1>2, <1>3, <1>4, <1>6
  <2>2. OwnUpto(l, m) = {}
    BY <1>1, <1>6, <2>1 DEF OwnUpto
  <2>3. MapUpto(c, l, m) = CallerServers
    BY <1>6, <2>2 DEF MapUpto, BaseUpto
  <2> QED BY <1>6, <2>3 DEF SharedUpto
<1>7. CASE Upto(l, "servers", n) = {} /\ Upto(l, "servers", m) = {}
  <2>1. OwnUpto(l, m) = OwnUpto(l, n)
    BY <1>1, <1>7 DEF OwnUpto
  <2>2. MapUpto(c, l, m) = MapUpto(c, l, n)
    BY <1>7, <2>1 DEF MapUpto, BaseUpto
  <2> QED BY <1>7, <2>2 DEF SharedUpto
<1> QED BY <1>5, <1>6, <1>7

-----------------------------------------------------------------------------
(* The whole list.                                                         *)

LEMMA AtEnd ==
  ASSUME NEW l, IsList(l)
  PROVE  /\ \A f : Upto(l, f, Len(l)) = Sets(l, f)
         /\ \A f, none : LastOf(l, f, Len(l), none) = LastGiven(l, f, none)
         /\ AllowedUpto(l, Len(l)) = Allowlist(l)
<1>1. \A f : Upto(l, f, Len(l)) = Sets(l, f)
  BY DEF Upto, Sets, IsList
<1>2. \A f, none : LastOf(l, f, Len(l), none) = LastGiven(l, f, none)
  <2> TAKE f, none
  <2>1. Upto(l, f, Len(l)) = Sets(l, f)
    BY <1>1
  <2> QED BY <2>1 DEF LastOf, LastGiven
<1>3. SinceAllowed(l, Len(l)) = {i \in Sets(l, "sdk") : \A j \in Sets(l, "allowed") : j < i}
  <2>1. Upto(l, "sdk", Len(l)) = Sets(l, "sdk") /\ Upto(l, "allowed", Len(l)) = Sets(l, "allowed")
    BY <1>1
  <2> QED BY <2>1 DEF SinceAllowed
<1>4. AllowedUpto(l, Len(l)) = Allowlist(l)
  BY <1>2, <1>3, Zenon DEF AllowedUpto, Allowlist
<1> QED BY <1>1, <1>2, <1>4

LoadedServers(c, l) ==
  IF FromConfig(l) THEN ConfigServers ELSE MapUpto(c, l, Len(l))

FinalServers(c, l) ==
  IF Prompted(l) THEN WithPromptServer(c, LoadedServers(c, l)) ELSE LoadedServers(c, l)

LEMMA LoadedIs ==
  ASSUME NEW c, NEW l, IsList(l)
  PROVE  LoadedServers(c, l) =
           IF OwnSdk(l) = {} THEN GivenServers(l)
           ELSE Put(GivenServers(l), "sdk", SdkServer(c, l[Max(OwnSdk(l))].to))
<1>1. CASE FromConfig(l)
  <2>1. OwnSdk(l) = {}
    BY <1>1 DEF OwnSdk
  <2> QED BY <1>1, <2>1 DEF LoadedServers, GivenServers
<1>2. CASE ~ FromConfig(l)
  <2>1. Upto(l, "sdk", Len(l)) = Sets(l, "sdk") /\ Upto(l, "servers", Len(l)) = Sets(l, "servers")
    BY AtEnd
  <2>2. OwnUpto(l, Len(l)) = OwnSdk(l)
    BY <1>2, <2>1 DEF OwnUpto, OwnSdk
  <2>3. BaseUpto(l, Len(l)) = GivenServers(l)
    BY <1>2, <2>1 DEF BaseUpto, GivenServers
  <2> QED BY <1>2, <2>2, <2>3 DEF LoadedServers, MapUpto
<1> QED BY <1>1, <1>2

Named(servers, n) == \E s \in DOMAIN servers : n \in NamesOf(s, servers[s])

LEMMA NamedPut ==
  ASSUME NEW f, NEW v, NEW n
  PROVE  Named(Put(f, "sdk", v), n) <=>
           \/ n \in NamesOf("sdk", v)
           \/ \E s \in DOMAIN f \ {"sdk"} : n \in NamesOf(s, f[s])
<1> DEFINE g == Put(f, "sdk", v)
<1>1. DOMAIN g = DOMAIN f \cup {"sdk"}
  BY DEF Put
<1>2. g["sdk"] = v
  BY DEF Put
<1>3. \A x \in DOMAIN f \ {"sdk"} : g[x] = f[x]
  BY DEF Put
<1> HIDE DEF g
<1>4. Named(g, n) <=> \/ n \in NamesOf("sdk", v)
                      \/ \E s \in DOMAIN f \ {"sdk"} : n \in NamesOf(s, f[s])
  BY <1>1, <1>2, <1>3 DEF Named
<1> QED BY <1>4 DEF g

LEMMA NamesOfSdk ==
  ASSUME NEW c, NEW tools
  PROVE  NamesOf("sdk", SdkServer(c, tools)) = SdkNames(tools)
BY DEF NamesOf, SdkServer, SdkNames

\* The tools of the servers a client has are those its options name.
LEMMA NamesAreAvailable ==
  ASSUME NEW c, NEW l, IsList(l), NEW n
  PROVE  Named(FinalServers(c, l), n) <=> n \in Available(l)
<1> DEFINE G    == GivenServers(l)
           M    == LoadedServers(c, l)
           own  == OwnSdk(l)
           mine == SdkNames(l[Max(own)].to)
           Others == \E s \in DOMAIN G \ {"sdk"} : n \in NamesOf(s, G[s])
           Theirs == "sdk" \in DOMAIN G /\ n \in NamesOf("sdk", G["sdk"])
<1>1. Named(M, n) <=> IF own = {} THEN Others \/ Theirs ELSE Others \/ n \in mine
  <2>1. CASE own = {}
    <3>1. M = G
      BY <2>1, LoadedIs
    <3> QED BY <2>1, <3>1 DEF Named
  <2>2. CASE own # {}
    <3>1. M = Put(G, "sdk", SdkServer(c, l[Max(own)].to))
      BY <2>2, LoadedIs
    <3> HIDE DEF M, G
    <3>2. Named(M, n) <=> n \in mine \/ Others
      BY <3>1, NamedPut, NamesOfSdk DEF G
    <3> QED BY <2>2, <3>2
  <2> QED BY <2>1, <2>2
<1>2. n \in Available(l) <=>
        \/ n \in OwnTools(l)
        \/ Others
        \/ Theirs /\ own = {} /\ ~ (Prompted(l) /\ G["sdk"].kind # "sdk")
  <2> DEFINE kept == {s \in DOMAIN G : ~ Replaced(l, s)}
  <2>1. n \in Available(l) <=> n \in OwnTools(l) \/ \E s \in kept : n \in NamesOf(s, G[s])
    BY DEF Available
  <2>2. \A s \in DOMAIN G : s \in kept <=>
          (s = "sdk" => own = {} /\ ~ (Prompted(l) /\ G["sdk"].kind # "sdk"))
    BY DEF Replaced
  <2>3. \A s : s \in kept => s \in DOMAIN G
    OBVIOUS
  <2> DEFINE In(s) == n \in NamesOf(s, G[s])
             drop  == own # {} \/ (Prompted(l) /\ G["sdk"].kind # "sdk")
  <2>4. /\ n \in Available(l) <=> n \in OwnTools(l) \/ \E s \in kept : In(s)
        /\ Others <=> \E s \in DOMAIN G \ {"sdk"} : In(s)
        /\ Theirs <=> "sdk" \in DOMAIN G /\ In("sdk")
    BY <2>1
  <2>5. \A s \in DOMAIN G : s \in kept <=> (s = "sdk" => ~ drop)
    BY <2>2
  <2>6. SUFFICES n \in Available(l) <=> n \in OwnTools(l) \/ Others \/ (Theirs /\ ~ drop)
    OBVIOUS
  <2> HIDE DEF kept, G, In, drop, Others, Theirs
  <2> QED BY <2>3, <2>4, <2>5
<1>3. n \in OwnTools(l) <=> (Prompted(l) /\ n = PromptTool) \/ (own # {} /\ n \in mine)
  BY DEF OwnTools
<1>4. CASE ~ Prompted(l)
  <2>1. FinalServers(c, l) = M
    BY <1>4 DEF FinalServers
  <2> QED BY <1>1, <1>2, <1>3, <1>4, <2>1
<1>5. CASE Prompted(l)
  <2> DEFINE joins == "sdk" \in DOMAIN M /\ M["sdk"].kind = "sdk"
             v == IF joins THEN [kind |-> "sdk", tools |-> Put(M["sdk"].tools, "stdio", c)]
                  ELSE SdkServer(c, {"stdio"})
  <2>1. FinalServers(c, l) = Put(M, "sdk", v)
    BY <1>5 DEF FinalServers, WithPromptServer
  <2>2. Named(FinalServers(c, l), n) <=>
          n \in NamesOf("sdk", v) \/ \E s \in DOMAIN M \ {"sdk"} : n \in NamesOf(s, M[s])
    BY <2>1, NamedPut
  <2>3. n \in NamesOf("sdk", v) <=>
          n = PromptTool \/ (joins /\ n \in NamesOf("sdk", M["sdk"]))
    <3>1. CASE joins
      <4>1. v.tools = Put(M["sdk"].tools, "stdio", c)
        BY <3>1
      <4>2. DOMAIN v.tools = DOMAIN M["sdk"].tools \cup {"stdio"}
        BY <4>1 DEF Put
      <4> HIDE DEF v, M
      <4>3. n \in NamesOf("sdk", v) <=> n = PromptTool \/ n \in NamesOf("sdk", M["sdk"])
        BY <4>2 DEF NamesOf, PromptTool
      <4> QED BY <3>1, <4>3
    <3>2. CASE ~ joins
      <4>1. NamesOf("sdk", v) = SdkNames({"stdio"})
        BY <3>2, NamesOfSdk
      <4> HIDE DEF v
      <4> QED BY <3>2, <4>1 DEF SdkNames, PromptTool
    <3> QED BY <3>1, <3>2
  <2>4. CASE own = {}
    <3>1. M = G
      BY <2>4, LoadedIs
    <3> HIDE DEF v, M, G
    <3> QED BY <1>2, <1>3, <1>5, <2>2, <2>3, <2>4, <3>1
  <2>5. CASE own # {}
    <3>1. M = Put(G, "sdk", SdkServer(c, l[Max(own)].to))
      BY <2>5, LoadedIs
    <3>2. DOMAIN M = DOMAIN G \cup {"sdk"} /\ M["sdk"] = SdkServer(c, l[Max(own)].to)
          /\ \A s \in DOMAIN G \ {"sdk"} : M[s] = G[s]
      BY <3>1 DEF Put
    <3>3. M["sdk"].kind = "sdk" /\ NamesOf("sdk", M["sdk"]) = mine
      BY <3>2, NamesOfSdk DEF SdkServer
    <3> HIDE DEF v, M, G, mine
    <3> QED BY <1>2, <1>3, <1>5, <2>2, <2>3, <2>5, <3>2, <3>3
  <2> QED BY <2>4, <2>5
<1> QED BY <1>4, <1>5

\* The client's own tools are answered by its own handlers.
LEMMA OwnHandlers ==
  ASSUME NEW c, NEW l, IsList(l), NEW n \in OwnTools(l)
  PROVE  FinalServers(c, l)["sdk"].tools[n[2]] = c
<1> DEFINE M    == LoadedServers(c, l)
           own  == OwnSdk(l)
           tools == l[Max(own)].to
<1>1. ASSUME own # {}
      PROVE  /\ "sdk" \in DOMAIN M /\ M["sdk"].kind = "sdk" /\ DOMAIN M["sdk"].tools = tools
             /\ \A t \in tools : M["sdk"].tools[t] = c
  <2>1. M = Put(GivenServers(l), "sdk", SdkServer(c, tools))
    BY <1>1, LoadedIs
  <2>2. "sdk" \in DOMAIN M /\ M["sdk"] = SdkServer(c, tools)
    BY <2>1 DEF Put
  <2> HIDE DEF M, tools
  <2> QED BY <2>2 DEF SdkServer
<1>2. \/ Prompted(l) /\ n[2] = "stdio"
      \/ own # {} /\ n[2] \in tools
  BY DEF OwnTools, SdkNames, PromptTool
<1> HIDE DEF M, own, tools
<1>3. CASE ~ Prompted(l)
  <2>1. FinalServers(c, l) = M
    BY <1>3 DEF FinalServers, M
  <2> QED BY <1>1, <1>2, <1>3, <2>1
<1>4. CASE Prompted(l)
  <2> DEFINE joins == "sdk" \in DOMAIN M /\ M["sdk"].kind = "sdk"
             v == IF joins THEN [kind |-> "sdk", tools |-> Put(M["sdk"].tools, "stdio", c)]
                  ELSE SdkServer(c, {"stdio"})
  <2>1. FinalServers(c, l)["sdk"] = v
    BY <1>4 DEF Put, FinalServers, WithPromptServer, M
  <2>2. CASE joins
    <3>1. v.tools = Put(M["sdk"].tools, "stdio", c)
      BY <2>2
    <3>2. v.tools["stdio"] = c /\ \A t \in DOMAIN M["sdk"].tools \ {"stdio"} : v.tools[t] = M["sdk"].tools[t]
      BY <3>1 DEF Put
    <3> HIDE DEF v
    <3> QED BY <1>1, <1>2, <2>1, <3>2
  <2>3. CASE ~ joins
    <3>1. v = SdkServer(c, {"stdio"}) /\ own = {}
      BY <1>1, <2>3
    <3>2. v.tools["stdio"] = c
      BY <3>1 DEF SdkServer
    <3> HIDE DEF v
    <3> QED BY <1>2, <2>1, <3>1, <3>2
  <2> QED BY <2>2, <2>3
<1> QED BY <1>3, <1>4

-----------------------------------------------------------------------------
(* The inductive invariant.                                                *)

Fun(f, S) == f = [x \in S |-> f[x]]

Shapes ==
  /\ Fun(pos, Clients) /\ Fun(cfg, Clients) /\ Fun(listed, Clients) /\ Fun(status, Clients)
  /\ Fun(offered, Clients) /\ Fun(mem, Clients) /\ Fun(active, Clients) /\ Fun(sent, Clients)
  /\ Fun(named, Clients) /\ Fun(heap, Clients \cup {Shared})
  /\ \A c \in Clients : Fun(cfg[c], OptionFields)
  /\ \A c \in Clients : mem[c] = [sessions |-> mem[c].sessions, forks |-> mem[c].forks]
  /\ disk = [state |-> disk.state, mem |-> disk.mem]
  /\ disk.mem = [sessions |-> disk.mem.sessions, forks |-> disk.mem.forks]

AllNames(servers) == UNION {NamesOf(s, servers[s]) : s \in DOMAIN servers}

Configuring(c) ==
  LET l == given[c]
      n == pos[c]
  IN
  /\ Applied(c, l, n, cfg[c])
  /\ cfg[c].servers = c => heap[c] = MapUpto(c, l, n)
  /\ Sets(l, "servers") # {} /\ OnlyUser(c) => heap[Shared] = SharedUpto(c, l, n)
  /\ listed[c] = {} /\ offered[c] = {}

FinalAllowed(l) ==
  IF Prompted(l) /\ Allowlist(l) # {} THEN Allowlist(l) \cup {PromptTool} ELSE Allowlist(l)

FinalPlace(c, l) ==
  IF FromConfig(l) THEN c
  ELSE IF Sets(l, "servers") # {} THEN Shared
  ELSE IF Sets(l, "sdk") # {} \/ Prompted(l) THEN c ELSE Nil

Ready(c, s) == s \in listed[c] /\ status[c][s] = "ready"

Configured(c) ==
  LET l == given[c] IN
  /\ cfg[c].tools = LastGiven(l, "tools", {})
  /\ cfg[c].disallowed = LastGiven(l, "disallowed", {})
  /\ cfg[c].allowed = FinalAllowed(l) /\ cfg[c].servers = FinalPlace(c, l)
  /\ cfg[c].store = LastGiven(l, "store", FALSE) /\ cfg[c].resume = LastGiven(l, "resume", <<>>)
  /\ OnlyUser(c) =>
       /\ Servers(c) = FinalServers(c, l)
       /\ offered[c] = {n \in AllNames(Servers(c)) : Ready(c, n[1]) /\ Permitted(cfg[c], n)}

Running == {"load", "list", "session", "fork", "up"}

Sharing ==
  /\ sharers = {} => heap[Shared] = CallerServers
  /\ \A p \in sharers : p[1] \in Clients /\ p[2] \in 1 .. starts[p[1]]
  /\ \A c \in Clients : pc[c] \notin Idle /\ Sets(given[c], "servers") # {} =>
       <<c, starts[c]>> \in sharers

SetupInv ==
  /\ TypeOK /\ Shapes /\ Sharing
  /\ \A c \in Clients : pc[c] = "options" => Configuring(c)
  /\ \A c \in Clients : pc[c] \in Running => Configured(c)

\* Where the maps are: neither the caller's nor none belongs to a client.
LEMMA Places ==
  /\ Shared # Nil
  /\ \A c \in Clients : c # Shared /\ c # Nil
BY SetupAssumption DEF SetupAssumption

TypesOfStart ==
  /\ pc \in [Clients -> Labels] /\ given \in [Clients -> OptionLists \cup {<<>>}]
  /\ \A c \in Clients : pos[c] \in 0 .. Len(given[c])

TypesOfMaps ==
  \A a \in DOMAIN heap : DOMAIN heap[a] \subseteq ServerNames
                         /\ \A s \in DOMAIN heap[a] : ServerType(heap[a][s])

TypesOfClient(c) ==
  /\ cfg[c].servers \in {Nil, Shared, c} /\ cfg[c].mode \in Modes
  /\ DOMAIN status[c] = listed[c] /\ listed[c] \subseteq ServerNames
  /\ \A n \in offered[c] : n[1] \in listed[c] /\ status[c][n[1]] = "ready"
  /\ MemoryType(mem[c])

TypesOfStore ==
  /\ durable \in [Clients -> BOOLEAN] /\ MemoryType(disk.mem)
  /\ disk.state \in {"none", "cut", "whole"}

TypesOfCounts ==
  /\ starts \in [Clients -> 0 .. MaxStarts] /\ turns \in [Clients -> 0 .. MaxTurns]
  /\ faults \in 0 .. MaxFaults

LEMMA TypeParts ==
  TypeOK <=> /\ TypesOfStart /\ TypesOfMaps /\ (\A c \in Clients : TypesOfClient(c))
             /\ TypesOfStore /\ TypesOfCounts
BY Zenon DEF TypeOK, TypesOfStart, TypesOfMaps, TypesOfClient, TypesOfStore, TypesOfCounts

LEMMA TypePartsNext ==
  TypeOK' <=> /\ TypesOfStart' /\ TypesOfMaps' /\ (\A c \in Clients : TypesOfClient(c)')
              /\ TypesOfStore' /\ TypesOfCounts'
BY Zenon DEF TypeOK, TypesOfStart, TypesOfMaps, TypesOfClient, TypesOfStore, TypesOfCounts

LEMMA Bounds ==
  MaxStarts \in Nat /\ MaxTurns \in Nat /\ MaxFaults \in Nat
BY SetupAssumption DEF SetupAssumption

LEMMA Lists ==
  ASSUME NEW l \in OptionLists \cup {<<>>}
  PROVE  IsList(l) /\ \A i \in DOMAIN l : OptionType(l[i])
<1>1. CASE l \in OptionLists
  BY <1>1, OptionsAssumption DEF OptionsAssumption
<1>2. CASE l = <<>>
  <2>1. Len(<<>>) = 0 /\ 1 .. 0 = {} /\ DOMAIN <<>> = {}
    OBVIOUS
  <2>2. <<>> = [i \in 1 .. 0 |-> <<>>[i]]
    OBVIOUS
  <2> QED BY <1>2, <2>1, <2>2 DEF IsList
<1> QED BY <1>1, <1>2

LEMMA InitInv ==
  ASSUME Init
  PROVE  SetupInv
<1>1. Shapes
  <2>1. Fun(Options, OptionFields)
    BY DEF Fun, Options, OptionFields
  <2>2. Fun(heap, Clients \cup {Shared})
    BY DEF Init, Heap, Fun
  <2>3. Fun(pos, Clients) /\ Fun(cfg, Clients) /\ Fun(listed, Clients) /\ Fun(status, Clients)
        /\ Fun(offered, Clients) /\ Fun(mem, Clients) /\ Fun(active, Clients) /\ Fun(sent, Clients)
        /\ Fun(named, Clients)
    BY DEF Init, Fun
  <2>4. \A c \in Clients : cfg[c] = Options
    BY DEF Init
  <2>5. \A c \in Clients : mem[c] = [sessions |-> mem[c].sessions, forks |-> mem[c].forks]
    BY DEF Init, NoMemory
  <2>6. disk = [state |-> disk.state, mem |-> disk.mem]
        /\ disk.mem = [sessions |-> disk.mem.sessions, forks |-> disk.mem.forks]
    BY DEF Init, NoMemory
  <2> QED BY <2>1, <2>2, <2>3, <2>4, <2>5, <2>6 DEF Shapes
<1>2. TypeOK
  <2>1. MemoryType(NoMemory)
    BY DEF MemoryType, NoMemory
  <2>2. TypesOfStart
    <3>1. \A c \in Clients : pos[c] = 0 /\ given[c] = <<>>
      BY DEF Init
    <3>2. Len(<<>>) = 0
      OBVIOUS
    <3>3. pc \in [Clients -> Labels] /\ given \in [Clients -> OptionLists \cup {<<>>}]
      BY DEF Init, Labels, Idle
    <3> QED BY <3>1, <3>2, <3>3 DEF TypesOfStart
  <2>3. TypesOfMaps
    <3>1. DOMAIN NoServers = {}
      BY DEF NoServers
    <3>2. \A a \in DOMAIN heap : heap[a] = NoServers \/ heap[a] = CallerServers
      BY DEF Init, Heap
    <3>3. \A x \in DOMAIN CallerServers : ServerType(CallerServers[x])
      BY ServersAssumption DEF ServersAssumption
    <3> QED BY <3>1, <3>2, <3>3 DEF TypesOfMaps, ServerNames
  <2>4. \A c \in Clients : TypesOfClient(c)
    BY <2>1 DEF Init, Options, Modes, NoFields, TypesOfClient
  <2>5. TypesOfStore
    BY <2>1 DEF Init, TypesOfStore
  <2>6. TypesOfCounts
    <3>1. 0 \in 0 .. MaxStarts /\ 0 \in 0 .. MaxTurns /\ 0 \in 0 .. MaxFaults
      BY Bounds
    <3> QED BY <3>1 DEF Init, TypesOfCounts
  <2> QED BY <2>2, <2>3, <2>4, <2>5, <2>6, TypeParts
<1>3. Sharing
  BY DEF Init, Sharing, Heap, Idle
<1>4. \A c \in Clients : pc[c] = "new"
  BY DEF Init
<1> QED BY <1>1, <1>2, <1>3, <1>4 DEF SetupInv, Running

\* What a step of one client leaves to the others.
Alone(c) ==
  /\ \A d \in Clients \ {c} :
       /\ pc'[d] = pc[d] /\ given'[d] = given[d] /\ pos'[d] = pos[d] /\ cfg'[d] = cfg[d]
       /\ listed'[d] = listed[d] /\ status'[d] = status[d] /\ offered'[d] = offered[d]
       /\ starts'[d] = starts[d] /\ heap'[d] = heap[d]
  /\ sharers \subseteq sharers'
  /\ sharers' = sharers \/ <<c, starts'[c]>> \in sharers'
  /\ heap'[Shared] = heap[Shared] \/ <<c, starts'[c]>> \in sharers'

LEMMA OthersKeep ==
  ASSUME SetupInv, NEW c \in Clients, Alone(c), NEW d \in Clients \ {c}
  PROVE  /\ pc'[d] = "options" => Configuring(d)'
         /\ pc'[d] \in Running => Configured(d)'
         /\ pc'[d] \notin Idle /\ Sets(given'[d], "servers") # {} => <<d, starts'[d]>> \in sharers'
<1>1. /\ pc'[d] = pc[d] /\ given'[d] = given[d] /\ pos'[d] = pos[d] /\ cfg'[d] = cfg[d]
      /\ listed'[d] = listed[d] /\ status'[d] = status[d] /\ offered'[d] = offered[d]
      /\ starts'[d] = starts[d] /\ heap'[d] = heap[d]
  BY DEF Alone
<1>2. pc[d] \notin Idle /\ Sets(given[d], "servers") # {} => <<d, starts[d]>> \in sharers
  BY DEF SetupInv, Sharing
<1>3. ASSUME pc[d] \notin Idle, OnlyUser(d)', Sets(given[d], "servers") # {}
      PROVE  sharers' = sharers /\ heap'[Shared] = heap[Shared] /\ OnlyUser(d)
  <2>1. sharers' = {<<d, starts[d]>>}
    BY <1>1, <1>3 DEF OnlyUser
  <2>2. <<c, starts'[c]>> \notin sharers'
    BY <2>1
  <2> QED BY <2>1, <2>2 DEF Alone, OnlyUser
<1>4. ASSUME pc'[d] = "options"
      PROVE  Configuring(d)'
  <2>1. Configuring(d) /\ pc[d] \notin Idle
    BY <1>1, <1>4 DEF SetupInv, Idle
  <2>2. Applied(d, given'[d], pos'[d], cfg'[d])
    BY <1>1, <2>1 DEF Configuring
  <2>3. cfg'[d].servers = d => heap'[d] = MapUpto(d, given'[d], pos'[d])
    BY <1>1, <2>1 DEF Configuring
  <2>4. ASSUME Sets(given'[d], "servers") # {}, OnlyUser(d)'
        PROVE  heap'[Shared] = SharedUpto(d, given'[d], pos'[d])
    BY <1>1, <1>3, <2>1, <2>4 DEF Configuring
  <2>5. listed'[d] = {} /\ offered'[d] = {}
    BY <1>1, <2>1 DEF Configuring
  <2> QED BY <2>2, <2>3, <2>4, <2>5 DEF Configuring
<1>5. ASSUME pc'[d] \in Running
      PROVE  Configured(d)'
  <2>1. Configured(d) /\ pc[d] \notin Idle
    BY <1>1, <1>5 DEF SetupInv, Idle, Running
  <2>2. ASSUME OnlyUser(d)'
        PROVE  OnlyUser(d) /\ Servers(d)' = Servers(d)
    <3>1. CASE Sets(given[d], "servers") = {}
      <4>1. cfg[d].servers \in {d, Nil}
        BY <2>1, <3>1 DEF Configured, FinalPlace
      <4> QED BY <1>1, <3>1, <4>1 DEF OnlyUser, Servers
    <3>2. CASE Sets(given[d], "servers") # {}
      <4>1. cfg[d].servers \in {d, Shared, Nil}
        BY <2>1 DEF Configured, FinalPlace
      <4> QED BY <1>1, <1>3, <2>1, <2>2, <3>2, <4>1 DEF Servers
    <3> QED BY <3>1, <3>2
  <2>3. \A x : Ready(d, x)' <=> Ready(d, x)
    BY <1>1 DEF Ready
  <2>4. ASSUME OnlyUser(d)'
        PROVE  /\ Servers(d)' = FinalServers(d, given'[d])
               /\ offered'[d] = {n \in AllNames(Servers(d)') : Ready(d, n[1])' /\ Permitted(cfg'[d], n)}
    BY <1>1, <2>1, <2>2, <2>3, <2>4 DEF Configured
  <2> QED BY <1>1, <2>1, <2>4 DEF Configured
<1> QED BY <1>1, <1>2, <1>4, <1>5 DEF Alone

\* The invariant, in the parts a step is shown to keep.
LEMMA Parts ==
  ASSUME SetupInv
  PROVE  /\ TypesOfStart /\ TypesOfMaps /\ (\A c \in Clients : TypesOfClient(c))
         /\ TypesOfStore /\ TypesOfCounts /\ Shapes /\ Sharing
         /\ \A c \in Clients : pc[c] = "options" => Configuring(c)
         /\ \A c \in Clients : pc[c] \in Running => Configured(c)
BY TypeParts DEF SetupInv

LEMMA StartKeeps ==
  ASSUME SetupInv, NEW c \in Clients, Start(c)
  PROVE  SetupInv'
<1>1. PICK list \in OptionLists :
        /\ given' = [given EXCEPT ![c] = list]
        /\ sharers' = IF Sets(list, "servers") = {} THEN sharers
                      ELSE sharers \cup {<<c, starts'[c]>>}
  BY DEF Start
<1>2. /\ pc[c] \in {"new", "failed"} /\ starts[c] < MaxStarts
      /\ starts' = [starts EXCEPT ![c] = @ + 1]
      /\ pos' = [pos EXCEPT ![c] = 0] /\ cfg' = [cfg EXCEPT ![c] = Options]
      /\ listed' = [listed EXCEPT ![c] = {}] /\ status' = [status EXCEPT ![c] = NoFields]
      /\ offered' = [offered EXCEPT ![c] = {}] /\ pc' = [pc EXCEPT ![c] = "options"]
      /\ UNCHANGED <<heap, sessionVars, turnVars, faults>>
  BY DEF Start, Goto
<1>3. /\ heap' = heap /\ mem' = mem /\ durable' = durable /\ disk' = disk /\ active' = active
      /\ sent' = sent /\ named' = named /\ turns' = turns /\ faults' = faults
  BY <1>2 DEF sessionVars, turnVars
<1>4. /\ TypesOfStart /\ TypesOfMaps /\ (\A d \in Clients : TypesOfClient(d))
      /\ TypesOfStore /\ TypesOfCounts /\ Shapes /\ Sharing
  BY Parts
<1>5. /\ pc' = [d \in Clients |-> IF d = c THEN "options" ELSE pc[d]]
      /\ given' = [d \in Clients |-> IF d = c THEN list ELSE given[d]]
      /\ starts' = [d \in Clients |-> IF d = c THEN starts[c] + 1 ELSE starts[d]]
      /\ pos' = [d \in Clients |-> IF d = c THEN 0 ELSE pos[d]]
      /\ cfg' = [d \in Clients |-> IF d = c THEN Options ELSE cfg[d]]
      /\ listed' = [d \in Clients |-> IF d = c THEN {} ELSE listed[d]]
      /\ status' = [d \in Clients |-> IF d = c THEN NoFields ELSE status[d]]
      /\ offered' = [d \in Clients |-> IF d = c THEN {} ELSE offered[d]]
  BY <1>1, <1>2, <1>4 DEF TypesOfStart, TypesOfCounts, Shapes, Fun
<1>6. Alone(c)
  BY <1>1, <1>3, <1>5 DEF Alone
<1>7. TypesOfStart'
  <2>1. Len(list) \in Nat
    BY Lists DEF IsList
  <2> QED BY <1>4, <1>5, <2>1 DEF TypesOfStart, Labels
<1>8. \A d \in Clients : TypesOfClient(d)'
  <2>1. Options.servers = Nil /\ Options.mode = "" /\ DOMAIN NoFields = {}
    BY DEF Options, NoFields
  <2> QED BY <1>3, <1>4, <1>5, <2>1 DEF TypesOfClient, Modes
<1>9. TypesOfMaps' /\ TypesOfStore'
  BY <1>3, <1>4 DEF TypesOfMaps, TypesOfStore
<1>10. TypesOfCounts'
  BY <1>2, <1>3, <1>4, <1>5, Bounds DEF TypesOfCounts
<1>11. Shapes'
  <2>1. Fun(Options, OptionFields)
    BY DEF Fun, Options, OptionFields
  <2> QED BY <1>3, <1>4, <1>5, <2>1 DEF Shapes, Fun
<1>12. Sharing'
  <2>1. sharers' = {} => heap'[Shared] = CallerServers
    BY <1>1, <1>3, <1>4 DEF Sharing
  <2>2. Sets(given'[c], "servers") # {} => <<c, starts'[c]>> \in sharers'
    BY <1>1, <1>5
  <2>3. \A p \in sharers' : p[1] \in Clients /\ p[2] \in 1 .. starts'[p[1]]
    <3>1. \A d \in Clients : starts[d] \in Nat /\ starts'[d] \in Nat /\ starts[d] <= starts'[d]
      BY <1>4, <1>5, Bounds DEF TypesOfCounts
    <3>2. starts'[c] \in 1 .. starts'[c]
      BY <1>4, <1>5, Bounds DEF TypesOfCounts
    <3>3. \A p \in sharers : p[1] \in Clients /\ p[2] \in 1 .. starts'[p[1]]
      BY <1>4, <3>1 DEF Sharing
    <3> QED BY <1>1, <3>2, <3>3
  <2> QED BY <1>6, <2>1, <2>2, <2>3, OthersKeep DEF Sharing
<1>13. Configuring(c)'
  <2>1. Applied(c, list, 0, Options)
    BY AppliedNone
  <2>2. Options.servers # c
    BY Places DEF Options
  <2>3. ASSUME Sets(list, "servers") # {}, OnlyUser(c)'
        PROVE  heap'[Shared] = SharedUpto(c, list, 0)
    <3>1. sharers' = {<<c, starts[c] + 1>>} /\ sharers' = sharers \cup {<<c, starts[c] + 1>>}
      BY <1>1, <1>5, <2>3 DEF OnlyUser
    <3>2. ASSUME sharers # {} PROVE FALSE
      <4>1. <<c, starts[c] + 1>> \in sharers
        BY <3>1, <3>2
      <4>2. starts[c] + 1 \in 1 .. starts[c] /\ starts[c] \in Nat
        BY <1>4, <4>1 DEF Sharing, TypesOfCounts
      <4> QED BY <4>2
    <3>3. SharedUpto(c, list, 0) = CallerServers
      BY UptoNone DEF SharedUpto
    <3> QED BY <1>3, <1>4, <3>2, <3>3 DEF Sharing
  <2> QED BY <1>5, <2>1, <2>2, <2>3 DEF Configuring
<1>14. /\ \A d \in Clients : pc'[d] = "options" => Configuring(d)'
       /\ \A d \in Clients : pc'[d] \in Running => Configured(d)'
  BY <1>5, <1>6, <1>13, OthersKeep DEF Running
<1>15. TypeOK'
  BY <1>7, <1>8, <1>9, <1>10, TypePartsNext
<1> QED BY <1>11, <1>12, <1>14, <1>15 DEF SetupInv

MapType(servers) ==
  DOMAIN servers \subseteq ServerNames /\ \A s \in DOMAIN servers : ServerType(servers[s])

LEMMA SdkServerType ==
  ASSUME NEW c \in Clients, NEW tools
  PROVE  ServerType(SdkServer(c, tools))
BY DEF ServerType, SdkServer

LEMMA NoServersType ==
  MapType(NoServers)
BY DEF MapType, NoServers

LEMMA PutType ==
  ASSUME NEW servers, MapType(servers), NEW v, ServerType(v)
  PROVE  MapType(Put(servers, "sdk", v))
<1> DEFINE g == Put(servers, "sdk", v)
<1>1. DOMAIN g = DOMAIN servers \cup {"sdk"} /\ g["sdk"] = v
      /\ \A s \in DOMAIN servers \ {"sdk"} : g[s] = servers[s]
  BY DEF Put
<1> HIDE DEF g
<1>2. MapType(g)
  BY <1>1 DEF MapType, ServerNames
<1> QED BY <1>2 DEF g

LEMMA MapUptoNothing ==
  ASSUME NEW c \in Clients, NEW l, NEW n, ServersUpto(c, l, n) = Nil
  PROVE  MapUpto(c, l, n) = NoServers
<1>1. Upto(l, "servers", n) = {} /\ Upto(l, "sdk", n) = {}
  BY Places DEF ServersUpto
<1>2. OwnUpto(l, n) = {}
  BY <1>1 DEF OwnUpto
<1> QED BY <1>1, <1>2 DEF MapUpto, BaseUpto

\* The next option that writes to a map, or the end of the list.
LEMMA NextSdk ==
  ASSUME NEW l, IsList(l), NEW n \in Nat, n < Len(l),
         NEW next, next = Min({j \in Sets(l, "sdk") \cup {Len(l) + 1} : j > n})
  PROVE  /\ next \in Nat /\ n < next /\ next <= Len(l) + 1
         /\ \A i \in n + 1 .. next - 1 : l[i].set # "sdk"
         /\ next <= Len(l) => l[next].set = "sdk"
<1> DEFINE S == {j \in Sets(l, "sdk") \cup {Len(l) + 1} : j > n}
<1>1. DOMAIN l = 1 .. Len(l) /\ Len(l) \in Nat
  BY DEF IsList
<1>2. S \in SUBSET Nat /\ Len(l) + 1 \in S
  BY <1>1 DEF Sets
<1>3. \E x \in S : \A y \in S : x <= y
  BY <1>2, Least
<1>4. next \in S /\ \A y \in S : next <= y
  BY <1>3 DEF Min
<1>5. next \in Nat /\ n < next /\ next <= Len(l) + 1
  BY <1>2, <1>4
<1>6. ASSUME NEW i \in n + 1 .. next - 1, l[i].set = "sdk"
      PROVE  FALSE
  <2>1. i \in S
    BY <1>1, <1>5, <1>6 DEF Sets
  <2> QED BY <1>4, <1>5, <2>1
<1>7. ASSUME next <= Len(l)
      PROVE  l[next].set = "sdk"
  BY <1>1, <1>4, <1>7 DEF Sets
<1> QED BY <1>5, <1>6, <1>7

LEMMA ApplyKeeps ==
  ASSUME SetupInv, NEW c \in Clients, ApplyOptions(c)
  PROVE  SetupInv'
<1> DEFINE l     == given[c]
           n     == pos[c]
           k     == cfg[c]
           next  == Min({j \in Sets(l, "sdk") \cup {Len(l) + 1} : j > n})
           plain == SubSeq(l, n + 1, next - 1)
<1>1. pc[c] = "options" /\ n < Len(l)
  BY DEF ApplyOptions
<1>2. /\ TypesOfStart /\ TypesOfMaps /\ (\A d \in Clients : TypesOfClient(d))
      /\ TypesOfStore /\ TypesOfCounts /\ Shapes /\ Sharing
      /\ \A d \in Clients : pc[d] = "options" => Configuring(d)
      /\ \A d \in Clients : pc[d] \in Running => Configured(d)
  BY Parts
<1>3. /\ pc' = pc /\ given' = given /\ starts' = starts /\ sharers' = sharers
      /\ listed' = listed /\ status' = status /\ offered' = offered /\ mem' = mem
      /\ durable' = durable /\ disk' = disk /\ active' = active /\ sent' = sent
      /\ turns' = turns /\ named' = named /\ faults' = faults
  BY DEF ApplyOptions, sessionVars, turnVars
<1>4. l \in OptionLists \cup {<<>>} /\ n \in Nat
  BY <1>2 DEF TypesOfStart
<1>5. IsList(l) /\ Len(l) \in Nat /\ \A i \in 1 .. Len(l) : OptionType(l[i])
  BY <1>4, Lists DEF IsList
<1>6. /\ next \in Nat /\ n < next /\ next <= Len(l) + 1
      /\ \A i \in n + 1 .. next - 1 : l[i].set # "sdk"
      /\ next <= Len(l) => l[next].set = "sdk"
  <2> HIDE DEF n, l
  <2> QED BY <1>1, <1>4, <1>5, NextSdk
<1>7. Configuring(c) /\ (Sets(l, "servers") # {} => <<c, starts[c]>> \in sharers)
  BY <1>1, <1>2 DEF Sharing, Idle
<1>8. Applied(c, l, n, k) /\ k.servers = ServersUpto(c, l, n) /\ Upto(l, "servers", n) \subseteq Sets(l, "servers")
  BY <1>7 DEF Configuring, Applied, Upto
\* What is left to show of either kind of step.
<1>9. ASSUME NEW w, NEW m \in Nat, m <= Len(l), Applied(c, l, m, w),
             cfg' = [cfg EXCEPT ![c] = w], pos' = [pos EXCEPT ![c] = m],
             Fun(heap', Clients \cup {Shared}), TypesOfMaps',
             \A d \in Clients \ {c} : heap'[d] = heap[d],
             heap'[Shared] = heap[Shared] \/ Sets(l, "servers") # {},
             w.servers = c => heap'[c] = MapUpto(c, l, m),
             Sets(l, "servers") # {} /\ OnlyUser(c) => heap'[Shared] = SharedUpto(c, l, m)
      PROVE  SetupInv'
  <2> HIDE DEF l, n, k, next, plain
  <2>1. /\ cfg' = [d \in Clients |-> IF d = c THEN w ELSE cfg[d]]
        /\ pos' = [d \in Clients |-> IF d = c THEN m ELSE pos[d]]
    BY <1>2, <1>9 DEF Shapes, Fun
  <2>2. Alone(c)
    BY <1>3, <1>7, <1>9, <2>1 DEF Alone
  <2>3. Fun(w, OptionFields) /\ w.servers \in {Nil, Shared, c} /\ w.mode \in Modes
    <3>1. w.servers \in {Nil, Shared, c}
      BY <1>9 DEF Applied, ServersUpto
    <3>2. w["mode"] = LastOf(l, "mode", m, Options["mode"]) /\ Options["mode"] = ""
      BY <1>9, SomeFields DEF Applied, Options
    <3>3. w.mode \in Modes
      <4>1. CASE Upto(l, "mode", m) = {}
        BY <3>2, <4>1 DEF LastOf, Modes
      <4>2. CASE Upto(l, "mode", m) # {}
        <5>1. Max(Upto(l, "mode", m)) \in Upto(l, "mode", m)
          BY <4>2, <1>9, TopIn DEF Upto
        <5>2. Max(Upto(l, "mode", m)) \in 1 .. Len(l) /\ l[Max(Upto(l, "mode", m))].set = "mode"
          BY <1>5, <5>1 DEF Upto, Sets, IsList
        <5> QED BY <1>5, <3>2, <4>2, <5>2 DEF LastOf, OptionType
      <4> QED BY <4>1, <4>2
    <3> QED BY <1>9, <3>1, <3>3 DEF Applied, Fun
  <2>4. TypesOfStart'
    BY <1>2, <1>3, <1>5, <1>9, <2>1 DEF TypesOfStart, l
  <2>5. \A d \in Clients : TypesOfClient(d)'
    BY <1>2, <1>3, <2>1, <2>3 DEF TypesOfClient
  <2>6. TypesOfStore' /\ TypesOfCounts'
    BY <1>2, <1>3 DEF TypesOfStore, TypesOfCounts
  <2>7. Shapes'
    <3>1. \A d \in Clients : Fun(cfg'[d], OptionFields)
      BY <1>2, <2>1, <2>3 DEF Shapes
    <3>2. Fun(pos', Clients) /\ Fun(cfg', Clients)
      BY <2>1 DEF Fun
    <3> QED BY <1>2, <1>3, <1>9, <3>1, <3>2 DEF Shapes
  <2>8. Sharing'
    <3>1. sharers' = {} => heap'[Shared] = CallerServers
      BY <1>2, <1>3, <1>7, <1>9 DEF Sharing
    <3> QED BY <1>2, <1>3, <3>1 DEF Sharing
  <2>9. Configuring(c)'
    <3>1. OnlyUser(c)' <=> OnlyUser(c)
      BY <1>3 DEF OnlyUser
    <3>2. cfg'[c] = w /\ pos'[c] = m /\ given'[c] = l /\ listed'[c] = {} /\ offered'[c] = {}
      BY <1>3, <1>7, <2>1 DEF Configuring, l
    <3> QED BY <1>9, <3>1, <3>2 DEF Configuring
  <2>10. /\ \A d \in Clients : pc'[d] = "options" => Configuring(d)'
         /\ \A d \in Clients : pc'[d] \in Running => Configured(d)'
    BY <1>1, <1>3, <2>2, <2>9, OthersKeep DEF Running
  <2>11. TypeOK'
    BY <1>9, <2>4, <2>5, <2>6, TypePartsNext
  <2> QED BY <2>7, <2>8, <2>10, <2>11 DEF SetupInv
<1>10. CASE plain = <<>> /\ WithSDKTools(c, l[next].to) /\ pos' = [pos EXCEPT ![c] = next]
  <2> DEFINE tools == l[n + 1].to
             m     == MapOf(c, k)
             old   == IF k.servers = Nil THEN NoServers ELSE heap[m]
             w     == [k EXCEPT !.servers = m, !.allowed = SdkAllowed(k, tools)]
  <2>1. next = n + 1
    <3> HIDE DEF l, n, next
    <3>1. Len(plain) = IF n + 1 <= next - 1 THEN next - 1 - n ELSE 0
      BY <1>4, <1>5, <1>6 DEF IsList
    <3>2. Len(plain) = 0
      <4> HIDE DEF plain
      <4> QED BY <1>10
    <3> QED BY <1>4, <1>6, <3>1, <3>2
  <2>2. l[n + 1].set = "sdk"
    <3> HIDE DEF l, n, next
    <3> QED BY <1>1, <1>4, <1>5, <1>6, <2>1
  <2>3. heap' = [heap EXCEPT ![m] = Put(old, "sdk", SdkServer(c, tools))] /\ cfg' = [cfg EXCEPT ![c] = w]
    BY <1>10, <2>1, Zenon DEF WithSDKTools
  <2>4. Applied(c, l, n + 1, w)
    <3> HIDE DEF l, n, k
    <3> QED BY <1>1, <1>4, <1>5, <1>8, <2>2, AppliedSdk, Places
  <2>5. /\ m \in {c, Shared} /\ (k.servers # Nil => m = k.servers) /\ (k.servers = Nil => m = c)
        /\ w.servers = m
    <3>1. k.servers \in {Nil, Shared, c}
      BY <1>8 DEF ServersUpto
    <3>2. Fun(k, OptionFields) /\ {"servers", "allowed"} \subseteq OptionFields
      BY <1>8, SomeFields DEF Applied, Fun
    <3>3. w.servers = m
      <4> HIDE DEF k, m, l, n
      <4> QED BY <3>2 DEF Fun
    <3> QED BY <3>1, <3>3 DEF MapOf
  <2>6. heap' = [a \in Clients \cup {Shared} |-> IF a = m THEN Put(old, "sdk", SdkServer(c, tools)) ELSE heap[a]]
    BY <1>2, <2>3, <2>5 DEF Shapes, Fun
  <2>7. MapUpto(c, l, n + 1) = Put(MapUpto(c, l, n), "sdk", SdkServer(c, tools))
    <3> HIDE DEF l, n
    <3> QED BY <1>1, <1>4, <1>5, <2>2, MapSdk
  <2>8. Upto(l, "servers", n + 1) = Upto(l, "servers", n)
    <3> HIDE DEF l, n
    <3> QED BY <1>1, <1>4, <1>5, <2>2, UptoMore
  <2>9. k.servers = Shared => Upto(l, "servers", n) # {}
    BY <1>8, Places DEF ServersUpto
  <2>10. k.servers \in {Nil, c} => Upto(l, "servers", n) = {}
    BY <1>8, Places DEF ServersUpto
  <2>11. w.servers = c => heap'[c] = MapUpto(c, l, n + 1)
    <3>1. ASSUME m = c
          PROVE  old = MapUpto(c, l, n)
      <4>1. CASE k.servers = Nil
        BY <1>8, <4>1, MapUptoNothing
      <4>2. CASE k.servers # Nil
        BY <1>7, <2>5, <3>1, <4>2 DEF Configuring
      <4> QED BY <4>1, <4>2
    <3> HIDE DEF l, n, k, m, old, w, tools
    <3> QED BY <2>5, <2>6, <2>7, <3>1
  <2>12. ASSUME Sets(l, "servers") # {}, OnlyUser(c)
         PROVE  heap'[Shared] = SharedUpto(c, l, n + 1)
    <3>1. heap[Shared] = SharedUpto(c, l, n)
      BY <1>7, <2>12 DEF Configuring
    <3>2. CASE m = Shared
      <4>1. k.servers = Shared /\ Upto(l, "servers", n) # {}
        BY <2>5, <2>9, <3>2, Places
      <4>2. old = MapUpto(c, l, n)
        BY <3>1, <3>2, <4>1, Places DEF SharedUpto
      <4>3. SharedUpto(c, l, n + 1) = MapUpto(c, l, n + 1)
        BY <2>8, <4>1 DEF SharedUpto
      <4> HIDE DEF l, n, k, m, old, w, tools
      <4> QED BY <2>6, <2>7, <3>2, <4>2, <4>3
    <3>3. CASE m = c
      <4>1. Upto(l, "servers", n) = {}
        BY <2>5, <2>10, <3>3, Places
      <4>2. SharedUpto(c, l, n + 1) = CallerServers /\ SharedUpto(c, l, n) = CallerServers
        BY <2>8, <4>1 DEF SharedUpto
      <4> HIDE DEF l, n, k, m, old, w, tools
      <4> QED BY <2>6, <3>1, <3>3, <4>2, Places
    <3> QED BY <2>5, <3>2, <3>3
  <2>13. TypesOfMaps'
    <3>1. MapType(old)
      BY <1>2, <2>5, NoServersType DEF TypesOfMaps, MapType, Shapes, Fun
    <3>2. MapType(Put(old, "sdk", SdkServer(c, tools)))
      BY <3>1, PutType, SdkServerType
    <3>3. \A a \in Clients \cup {Shared} : MapType(heap[a])
      BY <1>2 DEF TypesOfMaps, MapType, Shapes, Fun
    <3> HIDE DEF l, n, k, m, old, w, tools
    <3>4. \A a \in Clients \cup {Shared} : MapType(heap'[a])
      BY <2>6, <3>2, <3>3
    <3>5. DOMAIN heap' = Clients \cup {Shared}
      BY <2>6
    <3> QED BY <3>4, <3>5 DEF TypesOfMaps, MapType
  <2>14. /\ Fun(heap', Clients \cup {Shared}) /\ \A d \in Clients \ {c} : heap'[d] = heap[d]
         /\ heap'[Shared] = heap[Shared] \/ Sets(l, "servers") # {}
    <3>1. m = Shared => Sets(l, "servers") # {}
      BY <1>8, <2>5, <2>9, Places
    <3> HIDE DEF l, n, k, m, old, w, tools
    <3> QED BY <2>5, <2>6, <3>1, Places DEF Fun
  <2>15. n + 1 \in Nat /\ n + 1 <= Len(l) /\ pos' = [pos EXCEPT ![c] = n + 1]
    <3> HIDE DEF l, next
    <3> QED BY <1>1, <1>4, <1>5, <1>10, <2>1 DEF l
  <2> HIDE DEF l, n, k, m, old, w, tools, next, plain
  <2> QED BY <1>9, <2>3, <2>4, <2>11, <2>12, <2>13, <2>14, <2>15
<1>11. CASE /\ plain # <<>> /\ cfg' = [cfg EXCEPT ![c] = FoldLeft(With, @, plain)]
            /\ pos' = [pos EXCEPT ![c] = next - 1] /\ heap' = heap
  <2> DEFINE w == Fold(k, plain)
             m == next - 1
  <2>1. cfg' = [cfg EXCEPT ![c] = w]
    BY <1>11 DEF Fold
  <2>2. m \in Nat /\ n <= m /\ m <= Len(l) /\ \A i \in n + 1 .. m : OptionType(l[i]) /\ l[i].set # "sdk"
    <3> HIDE DEF l, n, next
    <3> QED BY <1>4, <1>5, <1>6
  <2>3. Applied(c, l, m, w)
    <3> HIDE DEF l, n, k, m
    <3> QED BY <1>4, <1>5, <1>8, <2>2, AppliedAll DEF m
  <2>4. /\ SharedUpto(c, l, m) = SharedUpto(c, l, n)
        /\ Upto(l, "servers", m) = {} => MapUpto(c, l, m) = MapUpto(c, l, n)
    <3> HIDE DEF l, n, k, m
    <3> QED BY <1>4, <1>5, <2>2, MapPlain
  <2>5. ASSUME w.servers = c
        PROVE  heap'[c] = MapUpto(c, l, m)
    <3>1. Upto(l, "servers", m) = {} /\ Upto(l, "sdk", m) # {}
      BY <2>3, <2>5, Places DEF Applied, ServersUpto
    <3>2. Upto(l, "sdk", m) = Upto(l, "sdk", n) /\ Upto(l, "servers", n) \subseteq Upto(l, "servers", m)
      <4> HIDE DEF k, m, w, next, plain
      <4> QED BY <1>4, <1>5, <2>2 DEF Upto, Sets, IsList
    <3>3. k.servers = c
      BY <1>8, <3>1, <3>2 DEF ServersUpto
    <3> QED BY <1>7, <1>11, <2>4, <3>1, <3>3 DEF Configuring
  <2>6. Sets(l, "servers") # {} /\ OnlyUser(c) => heap'[Shared] = SharedUpto(c, l, m)
    BY <1>7, <1>11, <2>4 DEF Configuring
  <2>7. Fun(heap', Clients \cup {Shared}) /\ TypesOfMaps'
    BY <1>2, <1>11 DEF Shapes, TypesOfMaps
  <2>8. pos' = [pos EXCEPT ![c] = m] /\ heap' = heap
    BY <1>11
  <2> HIDE DEF l, n, k, m, w, next, plain
  <2> QED BY <1>9, <2>1, <2>2, <2>3, <2>5, <2>6, <2>7, <2>8
<1> QED BY <1>10, <1>11 DEF ApplyOptions

Defaulted(c, k) == WithDefaults(Loaded(c, k))

Completed(c, k) ==
  LET d == Defaulted(c, k)
  IN  IF d.onUserInput
      THEN [Prompting(d) EXCEPT !.servers = MapOf(c, d), !.allowed = PromptAllowed(d)]
      ELSE Prompting(d)

LEMMA DefaultedFields ==
  ASSUME NEW c, NEW k, Fun(k, OptionFields)
  PROVE  /\ Fun(Defaulted(c, k), OptionFields)
         /\ Defaulted(c, k).servers = IF k.mcpConfig = "good" THEN c ELSE k.servers
         /\ Defaulted(c, k).mode = IF k.mode = "" THEN "chat" ELSE k.mode
         /\ \A f \in OptionFields \ {"servers", "mode", "model"} : Defaulted(c, k)[f] = k[f]
<1> DEFINE b == Loaded(c, k)
<1>1. {"servers", "mode", "model"} \subseteq OptionFields
  BY SomeFields
<1>2. /\ Fun(b, OptionFields) /\ b.servers = IF k.mcpConfig = "good" THEN c ELSE k.servers
      /\ \A f \in OptionFields \ {"servers"} : b[f] = k[f]
  <2>1. CASE k.mcpConfig = "good"
    <3>1. b = [k EXCEPT !.servers = c]
      BY <2>1 DEF Loaded
    <3> HIDE DEF b
    <3> QED BY <1>1, <2>1, <3>1 DEF Fun
  <2>2. CASE k.mcpConfig # "good"
    <3>1. b = k
      BY <2>2 DEF Loaded
    <3> HIDE DEF b
    <3> QED BY <2>2, <3>1
  <2> QED BY <2>1, <2>2
<1> HIDE DEF b
<1> DEFINE d == WithDefaults(b)
<1>3. d = [b EXCEPT !.mode  = IF b.mode = "" THEN "chat" ELSE b.mode,
                    !.model = IF b.model = "" THEN DefaultModel ELSE b.model]
  BY DEF WithDefaults
<1>4. Defaulted(c, k) = d
  BY DEF Defaulted, b
<1> HIDE DEF d
<1>5. /\ Fun(d, OptionFields) /\ d.mode = (IF b.mode = "" THEN "chat" ELSE b.mode)
      /\ \A f \in OptionFields \ {"mode", "model"} : d[f] = b[f]
  BY <1>1, <1>2, <1>3 DEF Fun
<1>6. b["mode"] = k["mode"] /\ d["servers"] = b["servers"]
  BY <1>1, <1>2, <1>5
<1> QED BY <1>2, <1>4, <1>5, <1>6

LEMMA PromptedFields ==
  ASSUME NEW c, NEW k, Fun(k, OptionFields)
  PROVE  LET d == Defaulted(c, k)
             w == Completed(c, k)
         IN  /\ Fun(w, OptionFields)
             /\ w.servers = IF d.onUserInput THEN MapOf(c, d) ELSE d.servers
             /\ w.allowed = IF d.onUserInput THEN PromptAllowed(d) ELSE d.allowed
             /\ w.tools = k.tools /\ w.disallowed = k.disallowed /\ w.mode = d.mode
             /\ d.onUserInput = k.onUserInput /\ d.allowed = k.allowed
             /\ w.store = k.store /\ w.resume = k.resume /\ w.fork = k.fork
<1> DEFINE d == Defaulted(c, k)
           w == Completed(c, k)
           q == Prompting(d)
<1>1. {"servers", "allowed", "promptTool", "tools", "disallowed", "mode", "onUserInput",
       "store", "resume", "fork", "model"} \subseteq OptionFields
  BY SomeFields
<1>2. /\ Fun(d, OptionFields)
      /\ \A f \in OptionFields \ {"servers", "mode", "model"} : d[f] = k[f]
  BY DefaultedFields
<1> HIDE DEF d
<1>3. Fun(q, OptionFields) /\ \A f \in OptionFields \ {"promptTool"} : q[f] = d[f]
  BY <1>1, <1>2 DEF Prompting, Fun
<1>4. w = IF d.onUserInput THEN [q EXCEPT !.servers = MapOf(c, d), !.allowed = PromptAllowed(d)] ELSE q
  BY DEF Completed, d
<1> HIDE DEF q, w
<1>5. /\ Fun(w, OptionFields)
      /\ w.servers = IF d.onUserInput THEN MapOf(c, d) ELSE q.servers
      /\ w.allowed = IF d.onUserInput THEN PromptAllowed(d) ELSE q.allowed
      /\ \A f \in OptionFields \ {"servers", "allowed"} : w[f] = q[f]
  BY <1>1, <1>3, <1>4 DEF Fun
<1>6. q["servers"] = d["servers"] /\ q["allowed"] = d["allowed"]
  BY <1>1, <1>3
<1>7. \A f \in {"tools", "disallowed", "store", "resume", "fork"} : w[f] = k[f]
  BY <1>1, <1>2, <1>3, <1>5
<1>8. w["mode"] = d["mode"] /\ d["onUserInput"] = k["onUserInput"] /\ d["allowed"] = k["allowed"]
  BY <1>1, <1>2, <1>3, <1>5
<1>9. /\ Fun(w, OptionFields)
      /\ w.servers = (IF d.onUserInput THEN MapOf(c, d) ELSE d.servers)
      /\ w.allowed = (IF d.onUserInput THEN PromptAllowed(d) ELSE d.allowed)
      /\ w.tools = k.tools /\ w.disallowed = k.disallowed /\ w.mode = d.mode
      /\ d.onUserInput = k.onUserInput /\ d.allowed = k.allowed
      /\ w.store = k.store /\ w.resume = k.resume /\ w.fork = k.fork
  BY <1>5, <1>6, <1>7, <1>8
<1> QED BY <1>9 DEF d, w

LEMMA ServersTyped ==
  MapType(CallerServers) /\ MapType(ConfigServers)
BY ServersAssumption DEF ServersAssumption, MapType, ServerNames

LEMMA PromptServerType ==
  ASSUME NEW c \in Clients, NEW servers, MapType(servers)
  PROVE  MapType(WithPromptServer(c, servers))
<1>1. CASE "sdk" \in DOMAIN servers /\ servers["sdk"].kind = "sdk"
  <2> DEFINE v == [kind |-> "sdk", tools |-> Put(servers["sdk"].tools, "stdio", c)]
  <2>1. ServerType(v)
    BY <1>1 DEF MapType, ServerType, Put
  <2>2. WithPromptServer(c, servers) = Put(servers, "sdk", v)
    BY <1>1 DEF WithPromptServer
  <2> HIDE DEF v
  <2> QED BY <2>1, <2>2, PutType
<1>2. CASE ~ ("sdk" \in DOMAIN servers /\ servers["sdk"].kind = "sdk")
  <2>1. WithPromptServer(c, servers) = Put(servers, "sdk", SdkServer(c, {"stdio"}))
    BY <1>2 DEF WithPromptServer
  <2> QED BY <2>1, PutType, SdkServerType
<1> QED BY <1>1, <1>2

LEMMA ConfigureKeeps ==
  ASSUME SetupInv, NEW c \in Clients, Configure(c)
  PROVE  SetupInv'
<1> DEFINE l   == given[c]
           k0  == cfg[c]
           k   == Defaulted(c, k0)
           w   == Completed(c, k0)
           h   == LoadedHeap(c, k0)
           m   == MapOf(c, k)
           old == IF k.servers = Nil THEN NoServers ELSE h[m]
<1>1. pc[c] = "options" /\ pos[c] = Len(l)
  BY DEF Configure
<1>2. /\ TypesOfStart /\ TypesOfMaps /\ (\A d \in Clients : TypesOfClient(d))
      /\ TypesOfStore /\ TypesOfCounts /\ Shapes /\ Sharing
      /\ \A d \in Clients : pc[d] = "options" => Configuring(d)
      /\ \A d \in Clients : pc[d] \in Running => Configured(d)
  BY Parts
<1>3. /\ given' = given /\ pos' = pos /\ starts' = starts /\ sharers' = sharers
      /\ listed' = listed /\ status' = status /\ offered' = offered /\ mem' = mem
      /\ durable' = durable /\ disk' = disk /\ active' = active /\ sent' = sent
      /\ turns' = turns /\ faults' = faults
  BY DEF Configure, sessionVars
<1>4. IsList(l) /\ Len(l) \in Nat
  BY <1>2, Lists DEF IsList, TypesOfStart
<1>5. /\ Configuring(c) /\ (Sets(l, "servers") # {} => <<c, starts[c]>> \in sharers)
      /\ listed[c] = {} /\ offered[c] = {}
  BY <1>1, <1>2 DEF Sharing, Idle, Configuring
<1>6. /\ Fun(k0, OptionFields) /\ k0.servers = ServersUpto(c, l, Len(l)) /\ k0.allowed = Allowlist(l)
      /\ k0.tools = LastGiven(l, "tools", {}) /\ k0.disallowed = LastGiven(l, "disallowed", {})
      /\ k0.onUserInput = Prompted(l) /\ (k0.mcpConfig = "good" <=> FromConfig(l))
      /\ k0.store = LastGiven(l, "store", FALSE) /\ k0.resume = LastGiven(l, "resume", <<>>)
  <2>1. Applied(c, l, Len(l), k0)
    BY <1>1, <1>5 DEF Configuring
  <2>2. \A f \in PlainFields : k0[f] = LastGiven(l, f, Options[f])
    <3> HIDE DEF l, k0
    <3> TAKE f \in PlainFields
    <3>1. k0[f] = LastOf(l, f, Len(l), Options[f])
      BY <2>1 DEF Applied
    <3>2. LastOf(l, f, Len(l), Options[f]) = LastGiven(l, f, Options[f])
      BY <1>4, AtEnd
    <3> QED BY <3>1, <3>2
  <2>3. /\ Options["tools"] = {} /\ Options["disallowed"] = {} /\ Options["onUserInput"] = FALSE
        /\ Options["mcpConfig"] = "none" /\ Options["store"] = FALSE /\ Options["resume"] = <<>>
    BY DEF Options
  <2>4. /\ k0["tools"] = LastGiven(l, "tools", {})
        /\ k0["disallowed"] = LastGiven(l, "disallowed", {})
        /\ k0["onUserInput"] = LastGiven(l, "onUserInput", FALSE)
        /\ k0["mcpConfig"] = LastGiven(l, "mcpConfig", "none")
        /\ k0["store"] = LastGiven(l, "store", FALSE)
        /\ k0["resume"] = LastGiven(l, "resume", <<>>)
    <3> HIDE DEF l, k0
    <3> QED BY <2>2, <2>3, SomeFields
  <2>5. Fun(k0, OptionFields) /\ k0.servers = ServersUpto(c, l, Len(l)) /\ k0.allowed = Allowlist(l)
    BY <1>4, <2>1, AtEnd DEF Applied, Fun
  <2> HIDE DEF l, k0
  <2> QED BY <2>4, <2>5 DEF Prompted, FromConfig
<1>7. /\ Fun(w, OptionFields)
      /\ w.servers = IF Prompted(l) THEN m ELSE k.servers
      /\ w.allowed = IF Prompted(l) THEN PromptAllowed(k) ELSE Allowlist(l)
      /\ w.tools = LastGiven(l, "tools", {}) /\ w.disallowed = LastGiven(l, "disallowed", {})
      /\ w.store = LastGiven(l, "store", FALSE) /\ w.resume = LastGiven(l, "resume", <<>>)
      /\ w.mode = k.mode /\ k.allowed = Allowlist(l)
      /\ k.onUserInput = Prompted(l)
      /\ k.servers = IF FromConfig(l) THEN c ELSE k0.servers
      /\ k.mode = IF k0.mode = "" THEN "chat" ELSE k0.mode
  <2> HIDE DEF l, k0
  <2>1. /\ Fun(w, OptionFields)
        /\ w.servers = IF k.onUserInput THEN m ELSE k.servers
        /\ w.allowed = IF k.onUserInput THEN PromptAllowed(k) ELSE k.allowed
        /\ w.tools = k0.tools /\ w.disallowed = k0.disallowed /\ w.mode = k.mode
        /\ w.store = k0.store /\ w.resume = k0.resume
        /\ k.onUserInput = k0.onUserInput /\ k.allowed = k0.allowed
    <3>1. Fun(k0, OptionFields)
      BY <1>6
    <3> QED BY <3>1, PromptedFields
  <2>2. /\ k.servers = IF k0.mcpConfig = "good" THEN c ELSE k0.servers
        /\ k.mode = IF k0.mode = "" THEN "chat" ELSE k0.mode
    BY <1>6, DefaultedFields
  <2> HIDE DEF k, w, m
  <2> QED BY <1>6, <2>1, <2>2
<1>8. /\ k.servers \in {Nil, Shared, c} /\ m \in {Shared, c}
      /\ (k.servers # Nil => m = k.servers) /\ (k.servers = Nil => m = c)
      /\ w.servers \in {Nil, Shared, c} /\ w.mode \in Modes
  <2>1. k0.servers \in {Nil, Shared, c} /\ k0.mode \in Modes
    BY <1>2 DEF TypesOfClient
  <2>2. k.servers \in {Nil, Shared, c}
    BY <1>7, <2>1
  <2>3. /\ m \in {Shared, c} /\ (k.servers # Nil => m = k.servers) /\ (k.servers = Nil => m = c)
    BY <2>2 DEF MapOf
  <2> HIDE DEF l, k0, k, w, m
  <2> QED BY <1>7, <2>1, <2>2, <2>3 DEF Modes
<1>9. /\ h = [a \in Clients \cup {Shared} |-> IF a = c /\ FromConfig(l) THEN ConfigServers ELSE heap[a]]
      /\ \A a \in Clients \cup {Shared} : MapType(h[a])
  <2>1. Fun(heap, Clients \cup {Shared}) /\ \A a \in Clients \cup {Shared} : MapType(heap[a])
    BY <1>2 DEF TypesOfMaps, MapType, Shapes, Fun
  <2>2. h = IF FromConfig(l) THEN [heap EXCEPT ![c] = ConfigServers] ELSE heap
    BY <1>6 DEF LoadedHeap
  <2> HIDE DEF l, h
  <2>3. h = [a \in Clients \cup {Shared} |-> IF a = c /\ FromConfig(l) THEN ConfigServers ELSE heap[a]]
    BY <2>1, <2>2 DEF Fun
  <2> QED BY <2>1, <2>3, ServersTyped
\* The map that is used, when it was not shared.
<1>10. ASSUME OnlyUser(c)
       PROVE  old = LoadedServers(c, l)
  <2>1. CASE FromConfig(l)
    <3>1. k.servers = c /\ m = c /\ c # Nil
      BY <1>7, <1>8, <2>1, Places
    <3> HIDE DEF l, k0, k, h, m
    <3> QED BY <1>9, <2>1, <3>1 DEF LoadedServers
  <2>2. CASE ~ FromConfig(l)
    <3>1. k.servers = ServersUpto(c, l, Len(l)) /\ LoadedServers(c, l) = MapUpto(c, l, Len(l))
      BY <1>6, <1>7, <2>2 DEF LoadedServers
    <3>2. CASE k.servers = Nil
      BY <3>1, <3>2, MapUptoNothing
    <3>3. CASE k.servers = Shared
      <4>1. Upto(l, "servers", Len(l)) # {} /\ Sets(l, "servers") # {}
        BY <1>4, <3>1, <3>3, Places, AtEnd DEF ServersUpto
      <4>2. heap[Shared] = SharedUpto(c, l, Len(l))
        BY <1>1, <1>5, <1>10, <4>1 DEF Configuring
      <4>3. SharedUpto(c, l, Len(l)) = MapUpto(c, l, Len(l))
        BY <4>1 DEF SharedUpto
      <4>4. m = Shared /\ Shared # Nil /\ Shared # c
        BY <1>8, <3>3, Places
      <4> HIDE DEF l, k0, k, h, m
      <4> QED BY <1>9, <3>1, <3>3, <4>2, <4>3, <4>4
    <3>4. CASE k.servers = c
      <4>1. k0.servers = c
        BY <1>7, <2>2, <3>4
      <4>2. heap[c] = MapUpto(c, l, Len(l))
        BY <1>1, <1>5, <4>1 DEF Configuring
      <4>3. m = c /\ c # Nil
        BY <1>8, <3>4, Places
      <4> HIDE DEF l, k0, k, h, m
      <4> QED BY <1>9, <2>2, <3>1, <3>4, <4>2, <4>3
    <3> QED BY <1>8, <3>2, <3>3, <3>4
  <2> QED BY <2>1, <2>2
<1>11. MapType(old)
  <2> HIDE DEF l, k0, k, h, m
  <2> QED BY <1>8, <1>9, NoServersType
<1>12. m = Shared => Sets(l, "servers") # {}
  <2>1. ASSUME m = Shared
        PROVE  Upto(l, "servers", Len(l)) # {}
    <3>1. k.servers = Shared /\ Shared # c /\ Shared # Nil
      BY <1>8, <2>1, Places
    <3>2. k0.servers = Shared
      BY <1>7, <3>1
    <3> QED BY <1>6, <3>1, <3>2 DEF ServersUpto
  <2> QED BY <1>4, <2>1, AtEnd
<1>13. w.servers = FinalPlace(c, l)
  <2>1. Upto(l, "servers", Len(l)) = Sets(l, "servers") /\ Upto(l, "sdk", Len(l)) = Sets(l, "sdk")
    BY <1>4, AtEnd
  <2>2. k0.servers = IF Sets(l, "servers") # {} THEN Shared ELSE IF Sets(l, "sdk") # {} THEN c ELSE Nil
    BY <1>6, <2>1 DEF ServersUpto
  <2> HIDE DEF l, k0, k, w, m
  <2> QED BY <1>7, <1>8, <2>2, Places DEF FinalPlace
<1>14. w.allowed = FinalAllowed(l)
  <2> HIDE DEF l, k0, k, w, m
  <2> QED BY <1>7 DEF FinalAllowed, PromptAllowed
\* What is left to show of either outcome.
<1>15. ASSUME NEW x, NEW where \in {"failed", "load"}, pc' = [pc EXCEPT ![c] = where],
              cfg' = [cfg EXCEPT ![c] = x],
              Fun(x, OptionFields), x.servers \in {Nil, Shared, c}, x.mode \in Modes,
              Fun(heap', Clients \cup {Shared}), TypesOfMaps', Fun(named', Clients),
              \A d \in Clients \ {c} : heap'[d] = heap[d],
              heap'[Shared] = heap[Shared] \/ Sets(l, "servers") # {},
              where = "load" => x = w /\ (OnlyUser(c) => Servers(c)' = FinalServers(c, l))
       PROVE  SetupInv'
  <2> HIDE DEF l, k0, k, w, m, h, old
  <2>1. /\ cfg' = [d \in Clients |-> IF d = c THEN x ELSE cfg[d]]
        /\ pc' = [d \in Clients |-> IF d = c THEN where ELSE pc[d]]
    BY <1>2, <1>15 DEF Shapes, Fun, TypesOfStart
  <2>2. Alone(c)
    BY <1>3, <1>5, <1>15, <2>1 DEF Alone
  <2>3. TypesOfStart'
    BY <1>2, <1>3, <2>1 DEF TypesOfStart, Labels, Idle
  <2>4. \A d \in Clients : TypesOfClient(d)'
    BY <1>2, <1>3, <1>15, <2>1 DEF TypesOfClient
  <2>5. TypesOfStore' /\ TypesOfCounts'
    BY <1>2, <1>3 DEF TypesOfStore, TypesOfCounts
  <2>6. Shapes'
    <3>1. \A d \in Clients : Fun(cfg'[d], OptionFields)
      BY <1>2, <1>15, <2>1 DEF Shapes
    <3>2. Fun(cfg', Clients)
      BY <2>1 DEF Fun
    <3> QED BY <1>2, <1>3, <1>15, <3>1, <3>2 DEF Shapes
  <2>7. Sharing'
    <3>1. sharers' = {} => heap'[Shared] = CallerServers
      BY <1>2, <1>3, <1>5, <1>15 DEF Sharing
    <3>2. pc'[c] \notin Idle /\ Sets(given'[c], "servers") # {} => <<c, starts'[c]>> \in sharers'
      BY <1>3, <1>5 DEF l
    <3> QED BY <1>2, <1>3, <2>2, <3>1, <3>2, OthersKeep DEF Sharing
  <2>8. ASSUME pc'[c] \in Running
        PROVE  Configured(c)'
    <3>1. where = "load"
      BY <1>15, <2>1, <2>8 DEF Running
    <3>2. cfg'[c] = w /\ given'[c] = l /\ listed'[c] = {} /\ offered'[c] = {}
      BY <1>3, <1>5, <1>15, <2>1, <3>1 DEF l
    <3>3. OnlyUser(c)' <=> OnlyUser(c)
      BY <1>3 DEF OnlyUser
    <3>4. \A s : ~ Ready(c, s)'
      BY <3>2 DEF Ready
    <3>5. OnlyUser(c)' => /\ Servers(c)' = FinalServers(c, given'[c])
                          /\ offered'[c] = {n \in AllNames(Servers(c)') : Ready(c, n[1])' /\ Permitted(cfg'[c], n)}
      BY <1>15, <3>1, <3>2, <3>3, <3>4
    <3> QED BY <1>7, <1>13, <1>14, <3>2, <3>5 DEF Configured
  <2>9. /\ \A d \in Clients : pc'[d] = "options" => Configuring(d)'
        /\ \A d \in Clients : pc'[d] \in Running => Configured(d)'
    BY <2>1, <2>2, <2>8, <1>15, OthersKeep
  <2>10. TypeOK'
    BY <1>15, <2>3, <2>4, <2>5, TypePartsNext
  <2> QED BY <2>6, <2>7, <2>9, <2>10 DEF SetupInv
<1>16. \/ pc' = [pc EXCEPT ![c] = "failed"] /\ cfg' = cfg /\ heap' = heap /\ named' = named
       \/ pc' = [pc EXCEPT ![c] = "failed"] /\ cfg' = cfg /\ heap' = h /\ named' = named
       \/ /\ heap' = IF k.onUserInput THEN [h EXCEPT ![m] = WithPromptServer(c, old)] ELSE h
          /\ cfg' = [cfg EXCEPT ![c] = w]
          /\ \E where \in {"failed", "load"} : pc' = [pc EXCEPT ![c] = where]
          /\ named' = [named EXCEPT ![c] = k.model]
  BY Zenon DEF Configure, Goto, Defaulted, Completed
<1>17. /\ cfg = [cfg EXCEPT ![c] = k0] /\ Fun(heap, Clients \cup {Shared}) /\ Fun(named, Clients)
       /\ k0.servers \in {Nil, Shared, c} /\ k0.mode \in Modes
  BY <1>2 DEF Shapes, Fun, TypesOfClient
<1>18. /\ Fun(h, Clients \cup {Shared}) /\ h[Shared] = heap[Shared]
       /\ \A d \in Clients \ {c} : h[d] = heap[d]
  <2> HIDE DEF h
  <2> QED BY <1>9, Places DEF Fun
<1>19. CASE /\ pc' = [pc EXCEPT ![c] = "failed"] /\ cfg' = cfg /\ named' = named
            /\ heap' = heap \/ heap' = h
  <2>1. Fun(heap', Clients \cup {Shared}) /\ Fun(named', Clients)
    BY <1>17, <1>18, <1>19
  <2>2. TypesOfMaps'
    <3> HIDE DEF h
    <3> QED BY <1>2, <1>9, <1>18, <1>19 DEF TypesOfMaps, MapType, Fun
  <2>3. cfg' = [cfg EXCEPT ![c] = k0] /\ heap'[Shared] = heap[Shared]
        /\ \A d \in Clients \ {c} : heap'[d] = heap[d]
    BY <1>17, <1>18, <1>19
  <2> HIDE DEF l, k0, k, w, m, h, old
  <2> QED BY <1>6, <1>15, <1>17, <1>19, <2>1, <2>2, <2>3
<1>20. CASE /\ heap' = IF k.onUserInput THEN [h EXCEPT ![m] = WithPromptServer(c, old)] ELSE h
            /\ cfg' = [cfg EXCEPT ![c] = w]
            /\ \E where \in {"failed", "load"} : pc' = [pc EXCEPT ![c] = where]
            /\ named' = [named EXCEPT ![c] = k.model]
  <2>1. heap' = [a \in Clients \cup {Shared} |->
                   IF Prompted(l) /\ a = m THEN WithPromptServer(c, old) ELSE h[a]]
    <3> HIDE DEF l, k0, k, m, h, old
    <3> QED BY <1>7, <1>8, <1>18, <1>20 DEF Fun
  <2>2. \A a \in Clients \cup {Shared} : MapType(heap'[a])
    <3> HIDE DEF l, k0, k, m, h, old
    <3> QED BY <1>9, <1>11, <2>1, PromptServerType
  <2>3. Fun(heap', Clients \cup {Shared}) /\ TypesOfMaps'
    <3> HIDE DEF l, k0, k, m, h, old
    <3> QED BY <2>1, <2>2 DEF TypesOfMaps, MapType, Fun
  <2>4. /\ \A d \in Clients \ {c} : heap'[d] = heap[d]
        /\ heap'[Shared] = heap[Shared] \/ Sets(l, "servers") # {}
    <3> HIDE DEF l, k0, k, m, h, old
    <3> QED BY <1>8, <1>12, <1>18, <2>1, Places
  <2>5. cfg'[c] = w
    BY <1>2, <1>20 DEF Shapes, Fun
  <2>6. ASSUME OnlyUser(c)
        PROVE  Servers(c)' = FinalServers(c, l)
    <3>1. old = LoadedServers(c, l)
      BY <1>10, <2>6
    <3>2. CASE Prompted(l)
      <4>1. w.servers = m /\ m # Nil
        BY <1>7, <1>8, <3>2, Places
      <4>2. heap'[m] = WithPromptServer(c, old)
        BY <1>8, <2>1, <3>2
      <4> HIDE DEF l, k0, k, m, h, old, w
      <4> QED BY <2>5, <3>1, <3>2, <4>1, <4>2 DEF Servers, FinalServers
    <3>3. CASE ~ Prompted(l)
      <4>1. w.servers = k.servers
        BY <1>7, <3>3
      <4>2. Servers(c)' = old
        <5>1. CASE k.servers = Nil
          BY <2>5, <4>1, <5>1 DEF Servers
        <5>2. CASE k.servers # Nil
          <6>1. m = k.servers /\ heap'[m] = h[m]
            BY <1>8, <2>1, <3>3, <5>2
          <6> QED BY <2>5, <4>1, <5>2, <6>1 DEF Servers
        <5> QED BY <5>1, <5>2
      <4> HIDE DEF l, k0, k, m, h, old, w
      <4> QED BY <3>1, <3>3, <4>2 DEF FinalServers
    <3> QED BY <3>2, <3>3
  <2>7. Fun(named', Clients)
    BY <1>17, <1>20 DEF Fun
  <2> HIDE DEF l, k0, k, w, m, h, old
  <2> QED BY <1>7, <1>8, <1>15, <1>20, <2>3, <2>4, <2>6, <2>7
<1> HIDE DEF l, k0, k, w, m, h, old
<1> QED BY <1>16, <1>19, <1>20

-----------------------------------------------------------------------------
(* Steps that leave the options and the maps alone.                        *)

MemoryShape(m) == m = [sessions |-> m.sessions, forks |-> m.forks]

StoreOK ==
  /\ Fun(mem, Clients) /\ \A d \in Clients : MemoryType(mem[d]) /\ MemoryShape(mem[d])
  /\ disk = [state |-> disk.state, mem |-> disk.mem] /\ disk.state \in {"none", "cut", "whole"}
  /\ MemoryType(disk.mem) /\ MemoryShape(disk.mem)
  /\ durable \in [Clients -> BOOLEAN]
  /\ faults \in 0 .. MaxFaults

LEMMA StoreIsOK ==
  ASSUME SetupInv
  PROVE  StoreOK
BY Parts DEF StoreOK, Shapes, TypesOfStore, TypesOfClient, TypesOfCounts, MemoryShape

LEMMA SaveKeepsStore ==
  ASSUME StoreOK, NEW c \in Clients, NEW m, MemoryType(m), MemoryShape(m), Save(c, m),
         durable' = durable
  PROVE  StoreOK'
<1>1. mem' = [d \in Clients |-> IF d = c THEN m ELSE mem[d]]
  BY DEF Save, StoreOK, Fun
<1>2. /\ disk' = [state |-> disk'.state, mem |-> disk'.mem] /\ disk'.state \in {"none", "cut", "whole"}
      /\ MemoryType(disk'.mem) /\ MemoryShape(disk'.mem)
  BY DEF Save, StoreOK
<1>3. faults' \in 0 .. MaxFaults
  BY Bounds DEF Save, StoreOK, Fault
<1>4. Fun(mem', Clients) /\ \A d \in Clients : MemoryType(mem'[d]) /\ MemoryShape(mem'[d])
  BY <1>1 DEF StoreOK, Fun
<1> QED BY <1>2, <1>3, <1>4 DEF StoreOK

\* A session is added, or what was said to one.
LEMMA SessionPut ==
  ASSUME NEW m, MemoryType(m), MemoryShape(m), NEW n,
         NEW said \in Seq(Clients \X (1 .. MaxTurns))
  PROVE  LET m2 == [m EXCEPT !.sessions = Put(@, n, said)]
         IN  MemoryType(m2) /\ MemoryShape(m2) /\ m2.forks = m.forks
             /\ m2.sessions = Put(m.sessions, n, said)
<1> DEFINE m2 == [m EXCEPT !.sessions = Put(@, n, said)]
<1>1. m2 = [sessions |-> Put(m.sessions, n, said), forks |-> m.forks]
  BY DEF MemoryShape
<1> HIDE DEF m2
<1>2. m2.sessions = Put(m.sessions, n, said) /\ m2.forks = m.forks /\ MemoryShape(m2)
  BY <1>1 DEF MemoryShape
<1>3. MemoryType(m2)
  BY <1>2 DEF MemoryType, Put
<1> QED BY <1>2, <1>3 DEF m2

LEMMA ForkPut ==
  ASSUME NEW m, MemoryType(m), MemoryShape(m), NEW n, NEW i \in Nat \ {0}
  PROVE  LET m2 == [m EXCEPT !.forks = Put(@, n, i)]
         IN  MemoryType(m2) /\ MemoryShape(m2) /\ m2.sessions = m.sessions
             /\ m2.forks = Put(m.forks, n, i)
<1> DEFINE m2 == [m EXCEPT !.forks = Put(@, n, i)]
<1>1. m2 = [sessions |-> m.sessions, forks |-> Put(m.forks, n, i)]
  BY DEF MemoryShape
<1> HIDE DEF m2
<1>2. m2.forks = Put(m.forks, n, i) /\ m2.sessions = m.sessions /\ MemoryShape(m2)
  BY <1>1 DEF MemoryShape
<1>3. MemoryType(m2)
  BY <1>2 DEF MemoryType, Put
<1> QED BY <1>2, <1>3 DEF m2

LEMMA GetOrCreateKeepsStore ==
  ASSUME StoreOK, NEW c \in Clients, NEW n, GetOrCreate(c, n), durable' = durable
  PROVE  StoreOK'
<1>1. CASE n \in Known(c)
  BY <1>1 DEF GetOrCreate, StoreOK
<1>2. CASE n \notin Known(c)
  <2>1. Save(c, [mem[c] EXCEPT !.sessions = Put(@, n, <<>>)])
    BY <1>2 DEF GetOrCreate
  <2>2. MemoryType(mem[c]) /\ MemoryShape(mem[c]) /\ <<>> \in Seq(Clients \X (1 .. MaxTurns))
    BY DEF StoreOK
  <2>3. LET m2 == [mem[c] EXCEPT !.sessions = Put(@, n, <<>>)]
        IN  MemoryType(m2) /\ MemoryShape(m2)
    BY <2>2, SessionPut
  <2> QED BY <2>1, <2>3, SaveKeepsStore
<1> QED BY <1>1, <1>2

LEMMA ForksType ==
  ASSUME StoreOK, NEW c \in Clients, NEW n
  PROVE  Forks(c, n) \in Nat
BY DEF Forks, StoreOK, MemoryType

LEMMA LoadStoreKeepsStore ==
  ASSUME StoreOK, NEW c \in Clients, LoadStore(c), cfg[c].store \in BOOLEAN
  PROVE  StoreOK'
<1>1. durable' \in [Clients -> BOOLEAN] /\ disk' = disk
  BY DEF LoadStore, StoreOK
<1>2. faults' \in 0 .. MaxFaults
  BY Bounds DEF LoadStore, StoreOK, Fault
<1>3. mem' = mem \/ mem' = [mem EXCEPT ![c] = disk.mem]
  BY DEF LoadStore, Restored
<1>4. Fun(mem', Clients) /\ \A d \in Clients : MemoryType(mem'[d]) /\ MemoryShape(mem'[d])
  BY <1>3 DEF StoreOK, Fun
<1> QED BY <1>1, <1>2, <1>4 DEF StoreOK

LEMMA ResolveKeepsStore ==
  ASSUME StoreOK, NEW c \in Clients, ResolveSession(c)
  PROVE  StoreOK'
<1> DEFINE base == cfg[c].resume
<1>1. durable' = durable
  BY DEF ResolveSession
<1>2. CASE UNCHANGED <<mem, disk, faults>>
  BY <1>1, <1>2 DEF StoreOK
<1>3. CASE GetOrCreate(c, base)
  BY <1>1, <1>3, GetOrCreateKeepsStore
<1>4. CASE Save(c, [mem[c] EXCEPT !.forks = Put(@, base, Forks(c, base) + 1)])
  <2>1. MemoryType(mem[c]) /\ MemoryShape(mem[c]) /\ Forks(c, base) + 1 \in Nat \ {0}
    BY ForksType DEF StoreOK
  <2>2. LET m2 == [mem[c] EXCEPT !.forks = Put(@, base, Forks(c, base) + 1)]
        IN  MemoryType(m2) /\ MemoryShape(m2)
    BY <2>1, ForkPut
  <2> QED BY <1>1, <1>4, <2>2, SaveKeepsStore
<1> QED BY <1>2, <1>3, <1>4 DEF ResolveSession

LEMMA CloneKeepsStore ==
  ASSUME StoreOK, NEW c \in Clients, Clone(c)
  PROVE  StoreOK'
<1> DEFINE base == cfg[c].resume
           fork == ForkId(c, base)
<1>1. durable' = durable
  BY DEF Clone
<1>2. CASE base \in Known(c)
  <2>1. Save(c, [mem[c] EXCEPT !.sessions = Put(@, fork, mem[c].sessions[base])])
    BY <1>2 DEF Clone
  <2>2. /\ MemoryType(mem[c]) /\ MemoryShape(mem[c])
        /\ mem[c].sessions[base] \in Seq(Clients \X (1 .. MaxTurns))
    BY <1>2 DEF StoreOK, MemoryType, Known
  <2>3. LET m2 == [mem[c] EXCEPT !.sessions = Put(@, fork, mem[c].sessions[base])]
        IN  MemoryType(m2) /\ MemoryShape(m2)
    <3> HIDE DEF fork, base
    <3> QED BY <2>2, SessionPut
  <2> QED BY <1>1, <2>1, <2>3, SaveKeepsStore
<1>3. CASE base \notin Known(c)
  BY <1>1, <1>3, GetOrCreateKeepsStore DEF Clone
<1> QED BY <1>2, <1>3

LEMMA AskKeepsStore ==
  ASSUME StoreOK, NEW c \in Clients, Ask(c), turns \in [Clients -> 0 .. MaxTurns]
  PROVE  StoreOK' /\ turns' \in [Clients -> 0 .. MaxTurns]
<1> DEFINE n   == active[c]
           old == IF n \in Known(c) THEN mem[c].sessions[n] ELSE <<>>
<1>1. durable' = durable /\ turns' = [turns EXCEPT ![c] = @ + 1] /\ turns[c] < MaxTurns
  BY DEF Ask
<1>2. turns' \in [Clients -> 0 .. MaxTurns] /\ turns'[c] \in 1 .. MaxTurns
  BY <1>1, Bounds
<1>3. old \in Seq(Clients \X (1 .. MaxTurns)) /\ MemoryType(mem[c]) /\ MemoryShape(mem[c])
  BY DEF StoreOK, MemoryType, Known
<1>4. Append(old, <<c, turns'[c]>>) \in Seq(Clients \X (1 .. MaxTurns))
  <2> HIDE DEF old
  <2> QED BY <1>2, <1>3
<1>5. Save(c, [mem[c] EXCEPT !.sessions = Put(@, n, Append(old, <<c, turns'[c]>>))])
  BY Zenon DEF Ask
<1> HIDE DEF old, n
<1>6. LET m2 == [mem[c] EXCEPT !.sessions = Put(@, n, Append(old, <<c, turns'[c]>>))]
      IN  MemoryType(m2) /\ MemoryShape(m2)
  BY <1>3, <1>4, SessionPut
<1>7. StoreOK'
  BY <1>1, <1>5, <1>6, SaveKeepsStore
<1> QED BY <1>2, <1>7

LEMMA QuietKeeps ==
  ASSUME SetupInv, NEW c \in Clients, pc[c] \in Running,
         NEW where \in Running \cup {"failed", "ended"}, pc' = [pc EXCEPT ![c] = where],
         UNCHANGED <<given, pos, cfg, starts, sharers, heap, listed, status, offered, named>>,
         StoreOK', turns' \in [Clients -> 0 .. MaxTurns],
         Fun(active', Clients), Fun(sent', Clients)
  PROVE  SetupInv'
<1>1. /\ TypesOfStart /\ TypesOfMaps /\ (\A d \in Clients : TypesOfClient(d))
      /\ TypesOfStore /\ TypesOfCounts /\ Shapes /\ Sharing
      /\ \A d \in Clients : pc[d] \in Running => Configured(d)
  BY Parts
<1>2. pc' = [d \in Clients |-> IF d = c THEN where ELSE pc[d]]
  BY <1>1 DEF TypesOfStart
<1>3. Alone(c)
  BY <1>2 DEF Alone
<1>4. TypesOfStart' /\ TypesOfMaps' /\ TypesOfStore' /\ TypesOfCounts'
  <2>1. TypesOfStart'
    BY <1>1, <1>2 DEF TypesOfStart, Labels, Running, Idle
  <2>2. TypesOfMaps' /\ TypesOfStore' /\ TypesOfCounts'
    BY <1>1 DEF TypesOfMaps, TypesOfStore, TypesOfCounts, StoreOK
  <2> QED BY <2>1, <2>2
<1>5. \A d \in Clients : TypesOfClient(d)'
  BY <1>1 DEF TypesOfClient, StoreOK
<1>6. Shapes'
  BY <1>1 DEF Shapes, StoreOK, MemoryShape
<1>7. Sharing'
  BY <1>1, <1>2 DEF Sharing, Running, Idle
<1>8. Configured(c)'
  BY <1>1 DEF Configured, OnlyUser, Servers, Ready
<1>9. /\ \A d \in Clients : pc'[d] = "options" => Configuring(d)'
      /\ \A d \in Clients : pc'[d] \in Running => Configured(d)'
  BY <1>2, <1>3, <1>8, OthersKeep DEF Running
<1>10. TypeOK'
  BY <1>4, <1>5, TypePartsNext
<1> QED BY <1>6, <1>7, <1>9, <1>10 DEF SetupInv

\* The last option of a kind is one of the list.
LEMMA GivenOption ==
  ASSUME NEW l \in OptionLists \cup {<<>>}, NEW field, Sets(l, field) # {}
  PROVE  LET o == l[Max(Sets(l, field))] IN o.set = field /\ OptionType(o)
<1>1. IsList(l) /\ \A i \in DOMAIN l : OptionType(l[i])
  BY Lists
<1>2. Len(l) \in Nat /\ Sets(l, field) \in SUBSET (1 .. Len(l))
  BY <1>1 DEF IsList, Sets
<1>3. Max(Sets(l, field)) \in Sets(l, field)
  BY <1>2, TopIn
<1> QED BY <1>1, <1>3 DEF Sets

LEMMA StoreOption ==
  ASSUME SetupInv, NEW c \in Clients, pc[c] \in Running
  PROVE  cfg[c].store \in BOOLEAN
<1> DEFINE l == given[c]
           o == l[Max(Sets(l, "store"))]
<1>1. cfg[c].store = LastGiven(l, "store", FALSE) /\ l \in OptionLists \cup {<<>>}
  BY Parts DEF Configured, TypesOfStart
<1>2. cfg[c].store = IF Sets(l, "store") = {} THEN FALSE ELSE o.to
  BY <1>1 DEF LastGiven
<1>3. Sets(l, "store") # {} => o.set = "store" /\ OptionType(o)
  BY <1>1, GivenOption
<1>4. Sets(l, "store") # {} => o.to \in BOOLEAN
  <2> HIDE DEF o, l
  <2> QED BY <1>3, Zenon DEF OptionType
<1> HIDE DEF o, l
<1> QED BY <1>2, <1>4

LEMMA LoadStoreKeeps ==
  ASSUME SetupInv, NEW c \in Clients, LoadStore(c)
  PROVE  SetupInv'
<1>1. pc[c] \in Running
  BY DEF LoadStore, Running
<1>2. StoreOK'
  BY <1>1, StoreIsOK, StoreOption, LoadStoreKeepsStore
<1>3. \E where \in Running \cup {"failed", "ended"} : pc' = [pc EXCEPT ![c] = where]
  BY DEF LoadStore, Goto, Running
<1>4. UNCHANGED <<startVars, toolVars, active, turnVars>>
  BY DEF LoadStore
<1>5. UNCHANGED <<given, pos, cfg, starts, sharers, heap, listed, status, offered, named>>
      /\ active' = active /\ sent' = sent /\ turns' = turns
  BY <1>4 DEF startVars, toolVars, turnVars
<1>6. turns' \in [Clients -> 0 .. MaxTurns] /\ Fun(active', Clients) /\ Fun(sent', Clients)
  BY <1>5, Parts DEF TypesOfCounts, Shapes
<1> QED BY <1>1, <1>2, <1>3, <1>5, <1>6, QuietKeeps

LEMMA ResolveKeeps ==
  ASSUME SetupInv, NEW c \in Clients, ResolveSession(c)
  PROVE  SetupInv'
<1>1. pc[c] \in Running
  BY DEF ResolveSession, Running
<1>2. StoreOK'
  BY StoreIsOK, ResolveKeepsStore
<1>3. \E where \in Running \cup {"failed", "ended"} : pc' = [pc EXCEPT ![c] = where]
  BY DEF ResolveSession, Goto, Running
<1>4. UNCHANGED <<startVars, toolVars, turnVars>>
  BY DEF ResolveSession
<1>5. UNCHANGED <<given, pos, cfg, starts, sharers, heap, listed, status, offered, named>>
      /\ sent' = sent /\ turns' = turns
  BY <1>4 DEF startVars, toolVars, turnVars
<1>6. turns' \in [Clients -> 0 .. MaxTurns] /\ Fun(active, Clients) /\ Fun(sent', Clients)
  BY <1>5, Parts DEF TypesOfCounts, Shapes
<1>7. active' = active \/ \E n : active' = [active EXCEPT ![c] = n]
  BY DEF ResolveSession
<1>8. Fun(active', Clients)
  BY <1>6, <1>7 DEF Fun
<1> QED BY <1>1, <1>2, <1>3, <1>5, <1>6, <1>8, QuietKeeps

LEMMA CloneKeeps ==
  ASSUME SetupInv, NEW c \in Clients, Clone(c)
  PROVE  SetupInv'
<1>1. pc[c] \in Running
  BY DEF Clone, Running
<1>2. StoreOK'
  BY StoreIsOK, CloneKeepsStore
<1>3. \E where \in Running \cup {"failed", "ended"} : pc' = [pc EXCEPT ![c] = where]
  BY DEF Clone, Goto, Running
<1>4. UNCHANGED <<startVars, toolVars, turnVars>>
  BY DEF Clone
<1>5. UNCHANGED <<given, pos, cfg, starts, sharers, heap, listed, status, offered, named>>
      /\ sent' = sent /\ turns' = turns
  BY <1>4 DEF startVars, toolVars, turnVars
<1>6. turns' \in [Clients -> 0 .. MaxTurns] /\ Fun(active, Clients) /\ Fun(sent', Clients)
  BY <1>5, Parts DEF TypesOfCounts, Shapes
<1>7. \E n : active' = [active EXCEPT ![c] = n]
  BY DEF Clone
<1>8. Fun(active', Clients)
  BY <1>6, <1>7 DEF Fun
<1> QED BY <1>1, <1>2, <1>3, <1>5, <1>6, <1>8, QuietKeeps

LEMMA AskKeeps ==
  ASSUME SetupInv, NEW c \in Clients, Ask(c)
  PROVE  SetupInv'
<1>1. pc[c] = "up" /\ pc' = pc
  BY DEF Ask
<1>2. StoreOK' /\ turns' \in [Clients -> 0 .. MaxTurns]
  BY StoreIsOK, Parts, AskKeepsStore DEF TypesOfCounts
<1>3. pc' = [pc EXCEPT ![c] = "up"]
  BY <1>1, Parts DEF TypesOfStart
<1>4. UNCHANGED <<startVars, toolVars, active, named>>
  BY DEF Ask
<1>5. UNCHANGED <<given, pos, cfg, starts, sharers, heap, listed, status, offered, named>>
      /\ active' = active
  BY <1>4 DEF startVars, toolVars
<1>6. sent' = [sent EXCEPT ![c] = Body(cfg[c], offered[c])]
  BY DEF Ask
<1>7. Fun(active', Clients) /\ Fun(sent, Clients)
  BY <1>5, Parts DEF Shapes
<1>8. Fun(sent', Clients)
  BY <1>6, <1>7 DEF Fun
<1> QED BY <1>1, <1>2, <1>3, <1>5, <1>7, <1>8, QuietKeeps DEF Running

\* The steps that only move a client on.
LEMMA MovingKeeps ==
  ASSUME SetupInv, NEW c \in Clients, EndList(c) \/ Close(c)
  PROVE  SetupInv'
<1>1. pc[c] \in Running
  BY DEF EndList, Close, Running
<1>2. \E where \in Running \cup {"failed", "ended"} : pc' = [pc EXCEPT ![c] = where]
  BY DEF EndList, Close, Goto, Running
<1>3. UNCHANGED <<startVars, toolVars, sessionVars, turnVars, faults>>
  BY DEF EndList, Close
<1>4. UNCHANGED <<given, pos, cfg, starts, sharers, heap, listed, status, offered, named>>
      /\ active' = active /\ sent' = sent /\ turns' = turns
      /\ mem' = mem /\ disk' = disk /\ durable' = durable /\ faults' = faults
  BY <1>3 DEF startVars, toolVars, turnVars, sessionVars
<1>5. turns' \in [Clients -> 0 .. MaxTurns] /\ Fun(active', Clients) /\ Fun(sent', Clients)
  BY <1>4, Parts DEF TypesOfCounts, Shapes
<1>6. StoreOK'
  BY <1>4, StoreIsOK DEF StoreOK
<1> QED BY <1>1, <1>2, <1>4, <1>5, <1>6, QuietKeeps

-----------------------------------------------------------------------------
(* The tools of a server are listed, the model is changed, the process     *)
(* dies.                                                                   *)

LEMMA NamesWithin ==
  ASSUME NEW servers, NEW s \in DOMAIN servers, NEW n
  PROVE  n \in AllNames(servers) /\ n[1] = s <=> n \in NamesOf(s, servers[s])
BY DEF AllNames, NamesOf

LEMMA ServersOf ==
  ASSUME TypesOfMaps, Shapes, NEW c \in Clients, TypesOfClient(c)
  PROVE  DOMAIN Servers(c) \subseteq ServerNames
<1>1. CASE cfg[c].servers = Nil
  BY <1>1 DEF Servers, NoServers
<1>2. CASE cfg[c].servers # Nil
  <2>1. cfg[c].servers \in Clients \cup {Shared} /\ DOMAIN heap = Clients \cup {Shared}
    BY <1>2 DEF TypesOfClient, Shapes, Fun
  <2> QED BY <1>2, <2>1 DEF Servers, TypesOfMaps
<1> QED BY <1>1, <1>2

LEMMA ListServerKeeps ==
  ASSUME SetupInv, NEW c \in Clients, ListServer(c)
  PROVE  SetupInv'
<1>1. PICK s \in DOMAIN Servers(c) \ listed[c] :
        /\ listed' = [listed EXCEPT ![c] = @ \cup {s}]
        /\ \/ /\ offered' = [offered EXCEPT ![c] =
                   @ \cup {n \in NamesOf(s, Servers(c)[s]) : Permitted(cfg[c], n)}]
              /\ status' = [status EXCEPT ![c] = Record(c, s, "ready")]
              /\ UNCHANGED faults
           \/ /\ ListingFails(Servers(c)[s])
              /\ status' = [status EXCEPT ![c] = Record(c, s, "error")]
              /\ UNCHANGED offered
  BY DEF ListServer
<1>2. pc[c] = "list" /\ UNCHANGED <<pc, startVars, heap, sessionVars, turnVars>>
  BY DEF ListServer
<1>3. /\ pc' = pc /\ given' = given /\ pos' = pos /\ cfg' = cfg /\ starts' = starts
      /\ sharers' = sharers /\ heap' = heap /\ mem' = mem /\ durable' = durable
      /\ disk' = disk /\ active' = active /\ sent' = sent /\ named' = named /\ turns' = turns
  BY <1>2 DEF startVars, sessionVars, turnVars
<1>4. /\ TypesOfStart /\ TypesOfMaps /\ (\A d \in Clients : TypesOfClient(d))
      /\ TypesOfStore /\ TypesOfCounts /\ Shapes /\ Sharing
      /\ \A d \in Clients : pc[d] = "options" => Configuring(d)
      /\ \A d \in Clients : pc[d] \in Running => Configured(d)
  BY Parts
<1> DEFINE mine == NamesOf(s, Servers(c)[s])
<1>5. PICK st \in {"ready", "error"} :
        /\ status' = [status EXCEPT ![c] = Put(status[c], s, st)]
        /\ offered' = [offered EXCEPT ![c] =
             @ \cup {n \in mine : st = "ready" /\ Permitted(cfg[c], n)}]
        /\ faults' \in 0 .. MaxFaults
  <2>1. faults \in 0 .. MaxFaults /\ Fun(offered, Clients)
    BY <1>4 DEF TypesOfCounts, Shapes
  <2>2. ASSUME offered' = [offered EXCEPT ![c] = @ \cup {n \in mine : Permitted(cfg[c], n)}],
               status' = [status EXCEPT ![c] = Record(c, s, "ready")], UNCHANGED faults
        PROVE  /\ status' = [status EXCEPT ![c] = Put(status[c], s, "ready")]
               /\ offered' = [offered EXCEPT ![c] =
                    @ \cup {n \in mine : "ready" = "ready" /\ Permitted(cfg[c], n)}]
               /\ faults' \in 0 .. MaxFaults
    BY <2>1, <2>2 DEF Record
  <2>3. ASSUME ListingFails(Servers(c)[s]), offered' = offered,
               status' = [status EXCEPT ![c] = Record(c, s, "error")]
        PROVE  /\ status' = [status EXCEPT ![c] = Put(status[c], s, "error")]
               /\ offered' = [offered EXCEPT ![c] =
                    @ \cup {n \in mine : "error" = "ready" /\ Permitted(cfg[c], n)}]
               /\ faults' \in 0 .. MaxFaults
    <3>1. faults' \in 0 .. MaxFaults
      BY <2>1, <2>3, Bounds DEF ListingFails, Fault
    <3>2. {n \in mine : "error" = "ready" /\ Permitted(cfg[c], n)} = {}
      OBVIOUS
    <3>3. offered = [offered EXCEPT ![c] = @ \cup {}]
      BY <2>1 DEF Fun
    <3>4. status' = [status EXCEPT ![c] = Put(status[c], s, "error")]
      BY <2>3 DEF Record
    <3> HIDE DEF mine
    <3> QED BY <2>3, <3>1, <3>2, <3>3, <3>4
  <2> HIDE DEF mine
  <2> QED BY <1>1, <2>2, <2>3 DEF mine
<1>6. /\ listed' = [d \in Clients |-> IF d = c THEN listed[c] \cup {s} ELSE listed[d]]
      /\ status' = [d \in Clients |-> IF d = c THEN Put(status[c], s, st) ELSE status[d]]
      /\ offered' = [d \in Clients |->
           IF d = c THEN offered[c] \cup {n \in mine : st = "ready" /\ Permitted(cfg[c], n)}
           ELSE offered[d]]
  <2> HIDE DEF mine
  <2> QED BY <1>1, <1>4, <1>5 DEF Shapes, Fun
<1>7. DOMAIN status[c] = listed[c] /\ s \notin listed[c] /\ s \in ServerNames
  BY <1>1, <1>4, ServersOf DEF TypesOfClient
<1>8. /\ DOMAIN status'[c] = listed[c] \cup {s} /\ status'[c][s] = st
      /\ \A x \in listed[c] : status'[c][x] = status[c][x]
  <2>1. status'[c] = Put(status[c], s, st)
    BY <1>6
  <2> QED BY <1>7, <2>1 DEF Put
<1>9. \A n \in mine : n[1] = s
  BY DEF NamesOf
<1>10. \A x : Ready(c, x)' <=> Ready(c, x) \/ (x = s /\ st = "ready")
  <2> HIDE DEF mine
  <2> QED BY <1>6, <1>7, <1>8 DEF Ready
<1>11. Alone(c)
  <2> HIDE DEF mine
  <2> QED BY <1>3, <1>6 DEF Alone
<1>12. \A d \in Clients : TypesOfClient(d)'
  <2> HIDE DEF mine
  <2>1. TypesOfClient(c)'
    <3>1. listed'[c] = listed[c] \cup {s}
          /\ offered'[c] = offered[c] \cup {n \in mine : st = "ready" /\ Permitted(cfg[c], n)}
      BY <1>6
    <3>2. \A n \in offered[c] : n[1] \in listed[c] /\ status[c][n[1]] = "ready"
      BY <1>4 DEF TypesOfClient
    <3>3. \A n \in offered'[c] : n[1] \in listed'[c] /\ status'[c][n[1]] = "ready"
      BY <1>8, <1>9, <3>1, <3>2
    <3> QED BY <1>3, <1>4, <1>7, <1>8, <3>1, <3>3 DEF TypesOfClient
  <2>2. \A d \in Clients \ {c} : TypesOfClient(d)'
    BY <1>3, <1>4, <1>6 DEF TypesOfClient
  <2> QED BY <2>1, <2>2
<1>13. TypesOfStart' /\ TypesOfMaps' /\ TypesOfStore' /\ TypesOfCounts'
  BY <1>3, <1>4, <1>5 DEF TypesOfStart, TypesOfMaps, TypesOfStore, TypesOfCounts
<1>14. Shapes' /\ Sharing'
  <2>1. Fun(listed', Clients) /\ Fun(status', Clients) /\ Fun(offered', Clients)
    <3> HIDE DEF mine
    <3> QED BY <1>6 DEF Fun
  <2> QED BY <1>3, <1>4, <2>1 DEF Shapes, Sharing
<1>15. Configured(c)'
  <2>1. Configured(c)
    BY <1>2, <1>4 DEF Running
  <2>2. Servers(c)' = Servers(c) /\ (OnlyUser(c)' <=> OnlyUser(c))
    BY <1>3 DEF Servers, OnlyUser
  <2>3. ASSUME OnlyUser(c)
        PROVE  offered'[c] = {n \in AllNames(Servers(c)) : Ready(c, n[1])' /\ Permitted(cfg[c], n)}
    <3>1. offered[c] = {n \in AllNames(Servers(c)) : Ready(c, n[1]) /\ Permitted(cfg[c], n)}
      BY <2>1, <2>3 DEF Configured
    <3>2. \A n : n \in mine <=> n \in AllNames(Servers(c)) /\ n[1] = s
      BY <1>1, NamesWithin
    <3>3. offered'[c] = offered[c] \cup {n \in mine : st = "ready" /\ Permitted(cfg[c], n)}
      <4> HIDE DEF mine
      <4> QED BY <1>6
    <3> DEFINE all == AllNames(Servers(c))
    <3> HIDE DEF mine, all
    <3>4. \A n : n \in offered'[c] <=> n \in all /\ Ready(c, n[1])' /\ Permitted(cfg[c], n)
      BY <1>10, <3>1, <3>2, <3>3 DEF all
    <3> QED BY <3>4 DEF all
  <2> QED BY <1>3, <2>1, <2>2, <2>3 DEF Configured
<1>16. /\ \A d \in Clients : pc'[d] = "options" => Configuring(d)'
       /\ \A d \in Clients : pc'[d] \in Running => Configured(d)'
  BY <1>2, <1>3, <1>11, <1>15, OthersKeep
<1>17. TypeOK'
  BY <1>12, <1>13, TypePartsNext
<1> QED BY <1>14, <1>16, <1>17 DEF SetupInv

LEMMA SetModelKeeps ==
  ASSUME SetupInv, NEW c \in Clients, SetModel(c)
  PROVE  SetupInv'
<1>1. PICK m \in Models :
        /\ cfg' = [cfg EXCEPT ![c] = WithDefaults([@ EXCEPT !.model = m])]
        /\ named' = [named EXCEPT ![c] = IF m = "" THEN DefaultModel ELSE m]
  BY DEF SetModel
<1>2. /\ pc[c] = "up"
      /\ UNCHANGED <<pc, given, pos, starts, sharers, toolVars, sessionVars, sent, turns, faults>>
  BY DEF SetModel
<1>3. /\ pc' = pc /\ given' = given /\ pos' = pos /\ starts' = starts /\ sharers' = sharers
      /\ heap' = heap /\ listed' = listed /\ status' = status /\ offered' = offered
      /\ mem' = mem /\ durable' = durable /\ disk' = disk /\ active' = active
      /\ sent' = sent /\ turns' = turns /\ faults' = faults
  BY <1>2 DEF toolVars, sessionVars
<1>4. /\ TypesOfStart /\ TypesOfMaps /\ (\A d \in Clients : TypesOfClient(d))
      /\ TypesOfStore /\ TypesOfCounts /\ Shapes /\ Sharing
      /\ \A d \in Clients : pc[d] = "options" => Configuring(d)
      /\ \A d \in Clients : pc[d] \in Running => Configured(d)
  BY Parts
<1> DEFINE b == [cfg[c] EXCEPT !.model = m]
           w == WithDefaults(b)
<1>5. {"mode", "model", "servers", "tools", "allowed", "disallowed", "store", "resume"} \subseteq OptionFields
  BY SomeFields
<1>6. Fun(cfg[c], OptionFields) /\ Fun(cfg, Clients) /\ Fun(named, Clients)
  BY <1>4 DEF Shapes
<1>7. Fun(b, OptionFields) /\ \A f \in OptionFields \ {"model"} : b[f] = cfg[c][f]
  BY <1>6 DEF Fun
<1>8. w = [b EXCEPT !.mode  = IF b.mode = "" THEN "chat" ELSE b.mode,
                    !.model = IF b.model = "" THEN DefaultModel ELSE b.model]
  BY DEF WithDefaults
<1>9. cfg' = [d \in Clients |-> IF d = c THEN w ELSE cfg[d]]
  BY <1>1, <1>6 DEF Fun
<1> HIDE DEF b
<1>10. /\ Fun(w, OptionFields) /\ w["mode"] = (IF b["mode"] = "" THEN "chat" ELSE b["mode"])
       /\ \A f \in OptionFields \ {"mode", "model"} : w[f] = b[f]
  BY <1>5, <1>7, <1>8 DEF Fun
<1> HIDE DEF w
<1>11. /\ w["servers"] = cfg[c]["servers"] /\ w["tools"] = cfg[c]["tools"]
       /\ w["allowed"] = cfg[c]["allowed"] /\ w["disallowed"] = cfg[c]["disallowed"]
       /\ w["store"] = cfg[c]["store"] /\ w["resume"] = cfg[c]["resume"]
       /\ w["mode"] \in Modes
  <2>1. cfg[c]["mode"] \in Modes
    BY <1>4 DEF TypesOfClient
  <2> QED BY <1>5, <1>7, <1>10, <2>1 DEF Modes
<1>12. Alone(c)
  BY <1>3, <1>9 DEF Alone
<1>13. TypesOfStart' /\ TypesOfMaps' /\ TypesOfStore' /\ TypesOfCounts'
  BY <1>3, <1>4 DEF TypesOfStart, TypesOfMaps, TypesOfStore, TypesOfCounts
<1>14. \A d \in Clients : TypesOfClient(d)'
  BY <1>3, <1>4, <1>9, <1>11 DEF TypesOfClient
<1>15. Shapes' /\ Sharing'
  <2>1. Fun(cfg', Clients) /\ Fun(named', Clients)
    BY <1>1, <1>6, <1>9 DEF Fun
  <2>2. \A d \in Clients : Fun(cfg'[d], OptionFields)
    BY <1>4, <1>9, <1>10 DEF Shapes
  <2> QED BY <1>3, <1>4, <2>1, <2>2 DEF Shapes, Sharing
<1>16. Configured(c)'
  <2>1. Configured(c)
    BY <1>2, <1>4 DEF Running
  <2>2. Servers(c)' = Servers(c) /\ (OnlyUser(c)' <=> OnlyUser(c))
    BY <1>3, <1>9, <1>11 DEF Servers, OnlyUser
  <2>3. \A n : Permitted(cfg'[c], n) <=> Permitted(cfg[c], n)
    BY <1>9, <1>11 DEF Permitted
  <2>4. \A x : Ready(c, x)' <=> Ready(c, x)
    BY <1>3 DEF Ready
  <2>5. OnlyUser(c)' => /\ Servers(c)' = FinalServers(c, given'[c])
                        /\ offered'[c] = {n \in AllNames(Servers(c)') : Ready(c, n[1])' /\ Permitted(cfg'[c], n)}
    BY <1>3, <2>1, <2>2, <2>3, <2>4 DEF Configured
  <2> QED BY <1>3, <1>9, <1>11, <2>1, <2>5 DEF Configured
<1>17. /\ \A d \in Clients : pc'[d] = "options" => Configuring(d)'
       /\ \A d \in Clients : pc'[d] \in Running => Configured(d)'
  BY <1>2, <1>3, <1>12, <1>16, OthersKeep
<1>18. TypeOK'
  BY <1>13, <1>14, TypePartsNext
<1> QED BY <1>15, <1>17, <1>18 DEF SetupInv

LEMMA CrashKeeps ==
  ASSUME SetupInv, Crash
  PROVE  SetupInv'
<1>1. /\ pc' = [c \in Clients |-> IF pc[c] = "new" THEN "new" ELSE "ended"]
      /\ heap' = Heap /\ sharers' = {}
      /\ UNCHANGED <<given, pos, cfg, starts, listed, status, offered, sessionVars, turnVars>>
  BY DEF Crash
<1>2. /\ given' = given /\ pos' = pos /\ cfg' = cfg /\ starts' = starts
      /\ listed' = listed /\ status' = status /\ offered' = offered /\ mem' = mem
      /\ durable' = durable /\ disk' = disk /\ active' = active /\ sent' = sent
      /\ named' = named /\ turns' = turns
  BY <1>1 DEF sessionVars, turnVars
<1>3. /\ TypesOfStart /\ TypesOfMaps /\ (\A d \in Clients : TypesOfClient(d))
      /\ TypesOfStore /\ TypesOfCounts /\ Shapes
  BY Parts
<1>4. faults' \in 0 .. MaxFaults
  BY <1>3, Bounds DEF Crash, Fault, TypesOfCounts
<1>5. TypesOfStart'
  BY <1>1, <1>2, <1>3 DEF TypesOfStart, Labels, Idle
<1>6. TypesOfMaps'
  <2>1. DOMAIN NoServers = {}
    BY DEF NoServers
  <2>2. \A a \in DOMAIN Heap : Heap[a] = NoServers \/ Heap[a] = CallerServers
    BY DEF Heap
  <2>3. MapType(CallerServers)
    BY ServersTyped
  <2> QED BY <1>1, <2>1, <2>2, <2>3 DEF TypesOfMaps, MapType
<1>7. \A c \in Clients : TypesOfClient(c)'
  BY <1>2, <1>3 DEF TypesOfClient
<1>8. TypesOfStore' /\ TypesOfCounts'
  BY <1>2, <1>3, <1>4 DEF TypesOfStore, TypesOfCounts
<1>9. Shapes'
  <2>1. Fun(heap', Clients \cup {Shared})
    BY <1>1 DEF Heap, Fun
  <2> QED BY <1>2, <1>3, <2>1 DEF Shapes
<1>10. \A c \in Clients : pc'[c] \in {"new", "ended"}
  BY <1>1
<1>11. Sharing'
  BY <1>1, <1>10 DEF Sharing, Heap, Idle
<1>12. TypeOK'
  BY <1>5, <1>6, <1>7, <1>8, TypePartsNext
<1> QED BY <1>9, <1>10, <1>11, <1>12 DEF SetupInv, Running

LEMMA UnchangedKeeps ==
  ASSUME SetupInv, UNCHANGED vars
  PROVE  SetupInv'
<1>1. UNCHANGED <<pc, given, pos, cfg, starts, sharers, heap, listed, status, offered, mem,
                  durable, disk, active, shown, revived, sent, turns, named, faults>>
  BY DEF vars, startVars, toolVars, sessionVars, turnVars
<1>2. TypeOK'
  BY <1>1 DEF SetupInv, TypeOK
<1>3. Shapes' /\ Sharing'
  BY <1>1, Parts DEF Shapes, Sharing
<1>4. \A c \in Clients : Configuring(c) => Configuring(c)'
  BY <1>1 DEF Configuring, OnlyUser
<1>5. \A c \in Clients : Configured(c) => Configured(c)'
  BY <1>1 DEF Configured, OnlyUser, Servers, Ready
<1> QED BY <1>1, <1>2, <1>3, <1>4, <1>5, Parts DEF SetupInv

LEMMA NextKeeps ==
  ASSUME SetupInv, [Next]_vars
  PROVE  SetupInv'
<1>1. CASE UNCHANGED vars
  BY <1>1, UnchangedKeeps
<1>2. CASE Crash
  BY <1>2, CrashKeeps
<1>3. ASSUME NEW c \in Clients,
             \/ Start(c) \/ ApplyOptions(c) \/ Configure(c) \/ LoadStore(c) \/ ListServer(c)
             \/ EndList(c) \/ ResolveSession(c) \/ Clone(c) \/ Ask(c) \/ SetModel(c) \/ Close(c)
      PROVE  SetupInv'
  <2>1. CASE Start(c)
    BY <2>1, StartKeeps
  <2>2. CASE ApplyOptions(c)
    BY <2>2, ApplyKeeps
  <2>3. CASE Configure(c)
    BY <2>3, ConfigureKeeps
  <2>4. CASE LoadStore(c)
    BY <2>4, LoadStoreKeeps
  <2>5. CASE ListServer(c)
    BY <2>5, ListServerKeeps
  <2>6. CASE EndList(c) \/ Close(c)
    BY <2>6, MovingKeeps
  <2>7. CASE ResolveSession(c)
    BY <2>7, ResolveKeeps
  <2>8. CASE Clone(c)
    BY <2>8, CloneKeeps
  <2>9. CASE Ask(c)
    BY <2>9, AskKeeps
  <2>10. CASE SetModel(c)
    BY <2>10, SetModelKeeps
  <2> QED BY <1>3, <2>1, <2>2, <2>3, <2>4, <2>5, <2>6, <2>7, <2>8, <2>9, <2>10
<1> QED BY <1>1, <1>2, <1>3 DEF Next

LEMMA SetupInvHolds == Spec => []SetupInv
BY InitInv, NextKeeps, PTL DEF Spec

(* Types: the variables have the values TypeOK names, and only tools of    *)
(* servers that answered are offered, however the Starts of the clients    *)
(* interleave, fail, are repeated or are cut off by a crash.               *)
THEOREM TypeCorrect == Spec => []TypeOK
<1>1. SetupInv => TypeOK
  BY DEF SetupInv
<1> QED BY <1>1, SetupInvHolds, PTL

\* What Permitted asks of the final allowlist is what the options permit.
LEMMA PermitsMatch ==
  ASSUME NEW k, NEW l, NEW n,
         k.tools = LastGiven(l, "tools", {}), k.disallowed = LastGiven(l, "disallowed", {}),
         k.allowed = FinalAllowed(l)
  PROVE  Permitted(k, n) <=>
           /\ n \notin LastGiven(l, "disallowed", {})
           /\ LastGiven(l, "tools", {}) = {} \/ n \in LastGiven(l, "tools", {})
           /\ (n = PromptTool /\ Prompted(l)) \/ Allowlist(l) = {} \/ n \in Allowlist(l)
BY DEF Permitted, FinalAllowed

(* A connected client offers exactly the tools its options name, whatever  *)
(* the lists of options are, the servers and the order they answered in:   *)
(* ToolsOffered.                                                           *)
THEOREM ToolsAreOffered == Spec => []ToolsOffered
<1>1. ASSUME SetupInv PROVE ToolsOffered
  <2> SUFFICES ASSUME NEW c \in Clients, pc[c] = "up", OnlyUser(c)
               PROVE  LET l == given[c]
                          listTools == LastGiven(l, "tools", {})
                          permits(n) ==
                            /\ n \notin LastGiven(l, "disallowed", {})
                            /\ listTools = {} \/ n \in listTools
                            /\ (n = PromptTool /\ Prompted(l)) \/ Allowlist(l) = {} \/ n \in Allowlist(l)
                          ready == {s \in listed[c] : status[c][s] = "ready"}
                      IN  /\ offered[c] = {n \in Available(l) : n[1] \in ready /\ permits(n)}
                          /\ \A n \in offered[c] \cap OwnTools(l) : Servers(c)["sdk"].tools[n[2]] = c
    BY DEF ToolsOffered
  <2> DEFINE l == given[c]
             ready == {s \in listed[c] : status[c][s] = "ready"}
             permits(n) ==
               /\ n \notin LastGiven(l, "disallowed", {})
               /\ LastGiven(l, "tools", {}) = {} \/ n \in LastGiven(l, "tools", {})
               /\ (n = PromptTool /\ Prompted(l)) \/ Allowlist(l) = {} \/ n \in Allowlist(l)
  <2>1. Configured(c) /\ IsList(l)
    BY <1>1, Parts, Lists DEF Running, TypesOfStart
  <2>2. /\ Servers(c) = FinalServers(c, l)
        /\ offered[c] = {n \in AllNames(Servers(c)) : Ready(c, n[1]) /\ Permitted(cfg[c], n)}
    BY <2>1 DEF Configured
  <2>3. \A n : Permitted(cfg[c], n) <=> permits(n)
    BY <2>1, PermitsMatch DEF Configured
  <2>4. \A n : n \in AllNames(Servers(c)) <=> n \in Available(l)
    <3> TAKE n
    <3>1. Named(FinalServers(c, l), n) <=> n \in Available(l)
      BY <2>1, NamesAreAvailable
    <3>2. n \in AllNames(FinalServers(c, l)) <=> Named(FinalServers(c, l), n)
      BY DEF AllNames, Named
    <3> QED BY <2>2, <3>1, <3>2
  <2>5. \A x : Ready(c, x) <=> x \in ready
    BY DEF Ready
  <2>6. offered[c] = {n \in Available(l) : n[1] \in ready /\ permits(n)}
    <3> DEFINE avail == Available(l)
               all == AllNames(Servers(c))
    <3> HIDE DEF l, ready, permits, avail, all
    <3>1. \A n : n \in offered[c] <=> n \in avail /\ n[1] \in ready /\ permits(n)
      BY <2>2, <2>3, <2>4, <2>5 DEF avail, all
    <3> QED BY <2>2, <3>1 DEF avail
  <2>7. \A n \in OwnTools(l) : Servers(c)["sdk"].tools[n[2]] = c
    BY <2>1, <2>2, OwnHandlers
  <2> QED BY <2>6, <2>7
<1> QED BY <1>1, SetupInvHolds, PTL

-----------------------------------------------------------------------------
(* The ids of forks.                                                       *)

\* A list is told from one that is longer, and what was appended from what it was appended to.
LEMMA AppendedTo ==
  ASSUME NEW b, NEW d, IsList(b), IsList(d), NEW k, NEW j
  PROVE  /\ Append(b, k) = Append(d, j) => b = d /\ k = j
         /\ b # <<>> => Len(Append(b, k)) # 1
<1> DEFINE S == {b[i] : i \in 1 .. Len(b)} \cup {d[i] : i \in 1 .. Len(d)} \cup {k, j}
<1>1. b \in Seq(S) /\ k \in S
  BY DEF IsList
<1>2. d \in Seq(S) /\ j \in S
  BY DEF IsList
<1> HIDE DEF S
<1>3. ASSUME Append(b, k) = Append(d, j)
      PROVE  b = d /\ k = j
  <2>1. Len(b) = Len(d)
    BY <1>1, <1>2, <1>3
  <2>2. \A i \in 1 .. Len(b) : Append(b, k)[i] = b[i] /\ Append(d, j)[i] = d[i]
    BY <1>1, <1>2, <2>1
  <2>3. \A i \in 1 .. Len(b) : b[i] = d[i]
    BY <1>3, <2>2
  <2>4. b = d
    BY <2>1, <2>3 DEF IsList
  <2>5. Append(b, k)[Len(b) + 1] = k /\ Append(d, j)[Len(d) + 1] = j
    BY <1>1, <1>2
  <2> QED BY <1>3, <2>1, <2>4, <2>5
<1>4. b # <<>> => Len(Append(b, k)) # 1
  <2>1. Len(Append(b, k)) = Len(b) + 1 /\ Len(b) \in Nat
    BY <1>1
  <2>2. b # <<>> => Len(b) # 0
    BY <1>1
  <2> QED BY <2>1, <2>2
<1> QED BY <1>3, <1>4

\* Every fork that is kept was counted, but those a resume made anew.
Numbered(m, known) ==
  \A b, k : IsList(b) /\ b # <<>> /\ k \in Nat /\ Append(b, k) \in DOMAIN m.sessions \ known =>
              b \in DOMAIN m.forks /\ k <= m.forks[b]

LEMMA NumberedMore ==
  ASSUME NEW m, NEW known, NEW more, known \subseteq more, Numbered(m, known)
  PROVE  Numbered(m, more)
BY DEF Numbered

\* What is added is no fork, one that was made anew, or one that was counted.
LEMMA NumberedPut ==
  ASSUME NEW m, NEW known, Numbered(m, known), NEW n, NEW said,
         \/ n \in DOMAIN m.sessions \cup known
         \/ Len(n) = 1
         \/ \E b, k : /\ IsList(b) /\ k \in Nat /\ n = Append(b, k)
                      /\ b \in DOMAIN m.forks /\ k <= m.forks[b],
         NEW m2, m2.sessions = Put(m.sessions, n, said), m2.forks = m.forks
  PROVE  Numbered(m2, known)
<1> SUFFICES ASSUME NEW b, NEW k, IsList(b), b # <<>>, k \in Nat,
                    Append(b, k) \in DOMAIN m2.sessions \ known
             PROVE  b \in DOMAIN m.forks /\ k <= m.forks[b]
  BY DEF Numbered
<1>1. DOMAIN m2.sessions = DOMAIN m.sessions \cup {n}
  BY DEF Put
<1>2. CASE Append(b, k) \in DOMAIN m.sessions
  BY <1>2 DEF Numbered
<1>3. CASE Append(b, k) = n /\ n \notin DOMAIN m.sessions
  <2>1. Len(n) # 1
    BY <1>3, AppendedTo
  <2>2. PICK d, j : /\ IsList(d) /\ j \in Nat /\ n = Append(d, j)
                    /\ d \in DOMAIN m.forks /\ j <= m.forks[d]
    BY <1>3, <2>1
  <2>3. b = d /\ k = j
    BY <1>3, <2>2, AppendedTo
  <2> QED BY <2>2, <2>3
<1> QED BY <1>1, <1>2, <1>3

LEMMA NumberedFork ==
  ASSUME NEW m, NEW known, Numbered(m, known), NEW n, NEW i \in Nat,
         \A b \in DOMAIN m.forks : m.forks[b] \in Nat,
         n \in DOMAIN m.forks => m.forks[n] <= i,
         NEW m2, m2.sessions = m.sessions, m2.forks = Put(m.forks, n, i)
  PROVE  Numbered(m2, known)
<1> SUFFICES ASSUME NEW b, NEW k, IsList(b), b # <<>>, k \in Nat,
                    Append(b, k) \in DOMAIN m2.sessions \ known
             PROVE  b \in DOMAIN m2.forks /\ k <= m2.forks[b]
  BY DEF Numbered
<1>1. b \in DOMAIN m.forks /\ k <= m.forks[b]
  BY DEF Numbered
<1>2. DOMAIN m2.forks = DOMAIN m.forks \cup {n} /\ m2.forks[n] = i
      /\ \A x \in DOMAIN m.forks \ {n} : m2.forks[x] = m.forks[x]
  BY DEF Put
<1>3. CASE b = n
  BY <1>1, <1>2, <1>3
<1>4. CASE b # n
  BY <1>1, <1>2, <1>4
<1> QED BY <1>3, <1>4

Uses(c) == durable[c] \/ Sets(given[c], "store") # {}

Forking(c) ==
  /\ cfg[c].resume # <<>> /\ cfg[c].resume \in DOMAIN mem[c].forks
  /\ ForkId(c, cfg[c].resume) \notin Known(c) \ revived

Loading == {"list", "session", "fork", "up"}

\* Who uses the store knows the sessions it keeps.
Linked(c) ==
  pc[c] \in Loading /\ cfg[c].store /\ disk.state = "whole" =>
    DOMAIN disk.mem.sessions \subseteq Known(c)

Alternating ==
  \A c \in Clients : \A d \in Clients \ {c} :
    pc[c] \notin Idle /\ pc[d] \notin Idle => ~ (Uses(c) /\ Uses(d))

ForkInv ==
  /\ SetupInv
  /\ \A c \in Clients : Numbered(mem[c], revived)
  /\ Numbered(disk.mem, revived)
  /\ \A c \in Clients : pc[c] = "fork" => Forking(c)
  /\ \A c \in Clients : pc[c] = "up" => active[c] \in Known(c) \cup {Default}
  /\ Serial => Alternating /\ \A c \in Clients : Linked(c)

LEMMA InitForkInv ==
  ASSUME Init
  PROVE  ForkInv
<1>1. DOMAIN NoMemory.sessions = {}
  BY DEF NoMemory
<1>2. Numbered(NoMemory, revived)
  BY <1>1 DEF Numbered
<1>3. (\A c \in Clients : mem[c] = NoMemory /\ pc[c] = "new") /\ disk.mem = NoMemory
  BY DEF Init
<1> QED BY <1>2, <1>3, InitInv DEF ForkInv, Alternating, Linked, Idle, Loading

\* A resumed session is named by a list.
LEMMA ResumeIsList ==
  ASSUME SetupInv, NEW c \in Clients, pc[c] \in Running
  PROVE  IsList(cfg[c].resume)
<1> DEFINE l == given[c]
           o == l[Max(Sets(l, "resume"))]
<1>1. cfg[c].resume = LastGiven(l, "resume", <<>>) /\ l \in OptionLists \cup {<<>>}
  BY Parts DEF Configured, TypesOfStart
<1>2. cfg[c].resume = IF Sets(l, "resume") = {} THEN <<>> ELSE o.to
  BY <1>1 DEF LastGiven
<1>3. Sets(l, "resume") # {} => o.set = "resume" /\ OptionType(o)
  BY <1>1, GivenOption
<1>4. Sets(l, "resume") # {} => IsList(o.to)
  <2> HIDE DEF o, l
  <2> QED BY <1>3, Zenon DEF OptionType
<1>5. IsList(<<>>)
  BY Lists
<1> HIDE DEF o, l
<1> QED BY <1>2, <1>4, <1>5

\* A client with a store was given it.
LEMMA StoreGiven ==
  ASSUME SetupInv, NEW c \in Clients, pc[c] \in Running, cfg[c].store
  PROVE  Uses(c)
<1>1. cfg[c].store = LastGiven(given[c], "store", FALSE)
  BY Parts DEF Configured
<1>2. Sets(given[c], "store") = {} => LastGiven(given[c], "store", FALSE) = FALSE
  BY DEF LastGiven
<1> QED BY <1>1, <1>2 DEF Uses

\* A step of one client that writes its memory, and perhaps the store.
LEMMA WorkKeeps ==
  ASSUME ForkInv, SetupInv', NEW c \in Clients, pc[c] \in Loading,
         NEW where \in Loading, pc' = [pc EXCEPT ![c] = where],
         cfg' = cfg, given' = given, durable' = durable, revived \subseteq revived',
         \A d \in Clients \ {c} : active'[d] = active[d],
         NEW m, mem' = [mem EXCEPT ![c] = m], Numbered(m, revived'),
         Known(c) \subseteq DOMAIN m.sessions,
         \/ disk'.mem = disk.mem /\ disk'.state \in {disk.state, "cut"}
         \/ disk'.mem = m /\ durable[c],
         where = "fork" => Forking(c)',
         where = "up" => active'[c] \in DOMAIN m.sessions \cup {Default}
  PROVE  ForkInv'
<1>1. /\ SetupInv /\ (\A d \in Clients : Numbered(mem[d], revived)) /\ Numbered(disk.mem, revived)
      /\ (\A d \in Clients : pc[d] = "fork" => Forking(d))
      /\ (\A d \in Clients : pc[d] = "up" => active[d] \in Known(d) \cup {Default})
      /\ (Serial => Alternating /\ \A d \in Clients : Linked(d))
  BY DEF ForkInv
<1>2. TypesOfStart /\ Fun(mem, Clients)
  BY <1>1, Parts DEF Shapes
<1>3. /\ pc' = [d \in Clients |-> IF d = c THEN where ELSE pc[d]]
      /\ mem' = [d \in Clients |-> IF d = c THEN m ELSE mem[d]]
  BY <1>2 DEF TypesOfStart, Fun
<1>4. /\ \A d \in Clients : Numbered(mem'[d], revived')
      /\ Numbered(disk'.mem, revived')
  BY <1>1, <1>3, NumberedMore
<1>5. \A d \in Clients : pc'[d] = "fork" => Forking(d)'
  <2>1. \A d \in Clients \ {c} : Forking(d) => Forking(d)'
    BY <1>3 DEF Forking, ForkId, Forks, Known
  <2> QED BY <1>1, <1>3, <2>1
<1>6. \A d \in Clients : pc'[d] = "up" => active'[d] \in Known(d)' \cup {Default}
  BY <1>1, <1>3 DEF Known
<1>7. ASSUME Serial
      PROVE  Alternating'
  BY <1>1, <1>3, <1>7 DEF Alternating, Uses, Loading, Idle
<1>8. ASSUME Serial, NEW d \in Clients
      PROVE  Linked(d)'
  <2>1. SUFFICES ASSUME pc'[d] \in Loading, cfg'[d].store, disk'.state = "whole"
                 PROVE  DOMAIN disk'.mem.sessions \subseteq Known(d)'
    BY DEF Linked
  <2>2. Linked(d) /\ pc[d] \in Loading /\ cfg[d].store /\ pc[d] \in Running
    BY <1>1, <1>3, <1>8, <2>1 DEF Loading, Running
  <2>3. CASE disk'.mem = disk.mem /\ disk'.state \in {disk.state, "cut"}
    <3>1. DOMAIN disk.mem.sessions \subseteq Known(d)
      BY <2>1, <2>2, <2>3 DEF Linked
    <3>2. Known(d) \subseteq Known(d)'
      BY <1>3 DEF Known
    <3> QED BY <2>3, <3>1, <3>2
  <2>4. CASE disk'.mem = m /\ durable[c]
    <3>1. Uses(c) /\ Uses(d)
      BY <1>1, <2>2, <2>4, StoreGiven DEF Uses
    <3>2. d = c
      BY <1>1, <1>8, <2>2, <3>1 DEF Alternating, Idle, Loading
    <3> QED BY <1>3, <2>4, <3>2 DEF Known
  <2> QED BY <2>3, <2>4
<1> QED BY <1>4, <1>5, <1>6, <1>7, <1>8 DEF ForkInv

\* A step of one client that leaves the sessions alone.
LEMMA RestKeeps ==
  ASSUME ForkInv, SetupInv', NEW c \in Clients,
         \A d \in Clients \ {c} : pc'[d] = pc[d] /\ cfg'[d] = cfg[d] /\ given'[d] = given[d],
         UNCHANGED <<mem, disk, durable, active, revived>>,
         pc'[c] # "fork", pc'[c] = "up" => pc[c] = "up",
         pc'[c] \in Loading => pc[c] \in Loading /\ cfg'[c].store = cfg[c].store,
         \/ pc[c] \notin Idle /\ given'[c] = given[c]
         \/ Serial /\ Uses(c)' => \A d \in Clients \ {c} : pc[d] \in Idle \/ ~ Uses(d)
  PROVE  ForkInv'
<1>1. /\ SetupInv /\ (\A d \in Clients : Numbered(mem[d], revived)) /\ Numbered(disk.mem, revived)
      /\ (\A d \in Clients : pc[d] = "fork" => Forking(d))
      /\ (\A d \in Clients : pc[d] = "up" => active[d] \in Known(d) \cup {Default})
      /\ (Serial => Alternating /\ \A d \in Clients : Linked(d))
  BY DEF ForkInv
<1>2. \A d \in Clients : pc'[d] = "fork" => Forking(d)'
  BY <1>1 DEF Forking, ForkId, Forks, Known
<1>3. \A d \in Clients : pc'[d] = "up" => active'[d] \in Known(d)' \cup {Default}
  BY <1>1 DEF Known
<1>4. Serial => \A d \in Clients : Linked(d)'
  <2>1. \A d \in Clients : Linked(d) => Linked(d)'
    BY DEF Linked, Known
  <2> QED BY <1>1, <2>1
<1>5. Serial => Alternating'
  <2>1. \A d \in Clients \ {c} : Uses(d)' <=> Uses(d)
    BY DEF Uses
  <2>2. CASE pc[c] \notin Idle /\ given'[c] = given[c]
    <3>1. Uses(c)' <=> Uses(c)
      BY <2>2 DEF Uses
    <3> QED BY <1>1, <2>1, <2>2, <3>1 DEF Alternating
  <2>3. CASE Serial /\ Uses(c)' => \A d \in Clients \ {c} : pc[d] \in Idle \/ ~ Uses(d)
    BY <1>1, <2>1, <2>3 DEF Alternating
  <2> QED BY <2>2, <2>3
<1>6. (\A d \in Clients : Numbered(mem'[d], revived')) /\ Numbered(disk'.mem, revived')
  BY <1>1
<1> QED BY <1>2, <1>3, <1>4, <1>5, <1>6 DEF ForkInv

LEMMA StartForks ==
  ASSUME ForkInv, SetupInv', NEW c \in Clients, Start(c)
  PROVE  ForkInv'
<1>1. PICK list \in OptionLists : MayGive(c, list) /\ given' = [given EXCEPT ![c] = list]
  BY DEF Start
<1>2. /\ pc' = [pc EXCEPT ![c] = "options"] /\ cfg' = [cfg EXCEPT ![c] = Options]
      /\ UNCHANGED <<mem, disk, durable, active, revived>>
  BY DEF Start, Goto, sessionVars
<1>3. TypesOfStart /\ Fun(cfg, Clients)
  BY Parts DEF ForkInv, Shapes
<1>4. /\ pc'[c] = "options" /\ given'[c] = list
      /\ \A d \in Clients \ {c} : pc'[d] = pc[d] /\ cfg'[d] = cfg[d] /\ given'[d] = given[d]
  BY <1>1, <1>2, <1>3 DEF TypesOfStart, Fun
<1>5. Serial /\ Uses(c)' => \A d \in Clients \ {c} : pc[d] \in Idle \/ ~ Uses(d)
  BY <1>1, <1>2, <1>4 DEF MayGive, Uses
<1> QED BY <1>2, <1>4, <1>5, RestKeeps DEF Loading

LEMMA QuietForks ==
  ASSUME ForkInv, SetupInv', NEW c \in Clients,
         ApplyOptions(c) \/ Configure(c) \/ ListServer(c) \/ EndList(c) \/ SetModel(c) \/ Close(c)
  PROVE  ForkInv'
<1>1. TypesOfStart /\ Fun(cfg, Clients) /\ SetupInv
  BY Parts DEF ForkInv, Shapes
<1>2. UNCHANGED <<given, mem, disk, durable, active, revived>>
  BY DEF ApplyOptions, Configure, ListServer, EndList, SetModel, Close, sessionVars, startVars
<1>3. /\ pc[c] \notin Idle
      /\ \/ pc' = pc \/ \E where \in {"failed", "load", "session", "ended"} : pc' = [pc EXCEPT ![c] = where]
  BY DEF ApplyOptions, Configure, ListServer, EndList, SetModel, Close, Goto, Idle
<1>4. cfg' = cfg \/ \E k : cfg' = [cfg EXCEPT ![c] = k]
  BY DEF ApplyOptions, WithSDKTools, Configure, ListServer, EndList, SetModel, Close, startVars
<1>5. \A d \in Clients \ {c} : pc'[d] = pc[d] /\ cfg'[d] = cfg[d] /\ given'[d] = given[d]
  BY <1>1, <1>2, <1>3, <1>4 DEF TypesOfStart, Fun
<1>6. pc'[c] # "fork" /\ (pc'[c] = "up" => pc[c] = "up")
  <2>1. pc[c] # "fork"
    BY DEF ApplyOptions, Configure, ListServer, EndList, SetModel, Close
  <2> QED BY <1>1, <1>3, <2>1 DEF TypesOfStart
<1>7. ASSUME pc'[c] \in Loading
      PROVE  pc[c] \in Loading /\ cfg'[c].store = cfg[c].store
  <2>1. CASE ApplyOptions(c)
    <3>1. pc'[c] = "options"
      BY <2>1 DEF ApplyOptions
    <3> QED BY <1>7, <3>1 DEF Loading
  <2>2. CASE Configure(c)
    <3>1. pc'[c] \in {"failed", "load"}
      BY <1>1, <2>2 DEF Configure, Goto, TypesOfStart
    <3> QED BY <1>7, <3>1 DEF Loading
  <2>3. CASE ListServer(c) \/ EndList(c) \/ Close(c)
    BY <2>3 DEF ListServer, EndList, Close, startVars, Loading
  <2>4. CASE SetModel(c)
    <3>1. pc[c] = "up" /\ pc' = pc /\ given' = given
      BY <2>4 DEF SetModel
    <3>2. /\ cfg[c].store = LastGiven(given[c], "store", FALSE)
          /\ cfg'[c].store = LastGiven(given'[c], "store", FALSE)
      BY <1>1, <3>1 DEF SetupInv, Configured, Running
    <3> QED BY <3>1, <3>2 DEF Loading
  <2> QED BY <2>1, <2>2, <2>3, <2>4
<1>8. given'[c] = given[c]
  BY <1>2
<1> QED BY <1>2, <1>3, <1>5, <1>6, <1>7, <1>8, RestKeeps

LEMMA CrashForks ==
  ASSUME ForkInv, SetupInv', Crash
  PROVE  ForkInv'
<1>1. UNCHANGED <<mem, disk, durable, active, revived>>
  BY DEF Crash, sessionVars
<1>2. \A c \in Clients : pc'[c] \in {"new", "ended"}
  BY DEF Crash
<1> QED BY <1>1, <1>2 DEF ForkInv, Alternating, Linked, Idle, Loading

LEMMA LoadForks ==
  ASSUME ForkInv, SetupInv', NEW c \in Clients, LoadStore(c)
  PROVE  ForkInv'
<1>1. /\ SetupInv /\ (\A d \in Clients : Numbered(mem[d], revived)) /\ Numbered(disk.mem, revived)
      /\ (\A d \in Clients : pc[d] = "fork" => Forking(d))
      /\ (\A d \in Clients : pc[d] = "up" => active[d] \in Known(d) \cup {Default})
      /\ (Serial => Alternating /\ \A d \in Clients : Linked(d))
  BY DEF ForkInv
<1>2. /\ pc[c] = "load" /\ durable' = [durable EXCEPT ![c] = @ \/ cfg[c].store]
      /\ cfg' = cfg /\ given' = given /\ disk' = disk /\ active' = active /\ revived' = revived
  BY DEF LoadStore, startVars
<1>3. \/ /\ ~ cfg[c].store \/ disk.state # "whole"
         /\ pc' = [pc EXCEPT ![c] = "list"] /\ mem' = mem
      \/ pc' = [pc EXCEPT ![c] = "list"] /\ mem' = [mem EXCEPT ![c] = disk.mem]
      \/ pc' = [pc EXCEPT ![c] = "failed"] /\ mem' = mem
  BY DEF LoadStore, Goto, Restored
<1>4. TypesOfStart /\ Fun(mem, Clients) /\ TypesOfStore
  BY <1>1, Parts DEF Shapes
<1>5. /\ \A d \in Clients \ {c} : pc'[d] = pc[d] /\ mem'[d] = mem[d] /\ durable'[d] = durable[d]
      /\ pc'[c] \in {"list", "failed"} /\ mem'[c] \in {mem[c], disk.mem}
      /\ pc'[c] = "list" /\ cfg[c].store /\ disk.state = "whole" => mem'[c] = disk.mem
  BY <1>2, <1>3, <1>4 DEF TypesOfStart, TypesOfStore, Fun
<1>6. (\A d \in Clients : Numbered(mem'[d], revived')) /\ Numbered(disk'.mem, revived')
  BY <1>1, <1>2, <1>5
<1>7. \A d \in Clients : pc'[d] = "fork" => Forking(d)'
  BY <1>1, <1>2, <1>5 DEF Forking, ForkId, Forks, Known
<1>8. \A d \in Clients : pc'[d] = "up" => active'[d] \in Known(d)' \cup {Default}
  BY <1>1, <1>2, <1>5 DEF Known
<1>9. Serial => Alternating'
  <2>1. Uses(c)' => Uses(c)
    <3>1. cfg[c].store => Uses(c)
      BY <1>1, <1>2, StoreGiven DEF Running
    <3>2. durable'[c] => durable[c] \/ cfg[c].store
      BY <1>2, <1>4 DEF TypesOfStore
    <3> QED BY <1>2, <3>1, <3>2 DEF Uses
  <2>2. \A d \in Clients \ {c} : Uses(d)' <=> Uses(d)
    BY <1>2, <1>5 DEF Uses
  <2>3. pc[c] \notin Idle
    BY <1>2 DEF Idle
  <2> QED BY <1>1, <1>5, <2>1, <2>2, <2>3 DEF Alternating
<1>10. Serial => \A d \in Clients : Linked(d)'
  <2>1. Linked(c)'
    BY <1>2, <1>5 DEF Linked, Known, Loading
  <2>2. \A d \in Clients \ {c} : Linked(d) => Linked(d)'
    BY <1>2, <1>5 DEF Linked, Known
  <2> QED BY <1>1, <2>1, <2>2
<1> QED BY <1>6, <1>7, <1>8, <1>9, <1>10 DEF ForkInv

\* What saving does to the memory and the store.
LEMMA Saved ==
  ASSUME NEW c \in Clients, NEW m, Save(c, m)
  PROVE  /\ mem' = [mem EXCEPT ![c] = m]
         /\ \/ disk'.mem = disk.mem /\ disk'.state \in {disk.state, "cut"}
            \/ disk'.mem = m /\ durable[c]
<1>1. mem' = [mem EXCEPT ![c] = m]
  BY DEF Save
<1>2. \/ durable[c] /\ disk' = [state |-> "whole", mem |-> m]
      \/ disk' = disk
      \/ durable[c] /\ disk' = [disk EXCEPT !.state = "cut"]
  BY DEF Save
<1>3. disk' = [state |-> "whole", mem |-> m] => disk'.mem = m
  OBVIOUS
<1>4. disk' = [disk EXCEPT !.state = "cut"] => disk'.mem = disk.mem /\ disk'.state \in {disk.state, "cut"}
  OBVIOUS
<1>5. disk' = disk => disk'.mem = disk.mem /\ disk'.state \in {disk.state, "cut"}
  OBVIOUS
<1> QED BY <1>1, <1>2, <1>3, <1>4, <1>5

LEMMA ResolveForks ==
  ASSUME ForkInv, SetupInv', NEW c \in Clients, ResolveSession(c)
  PROVE  ForkInv'
<1> DEFINE base == cfg[c].resume
<1>1. /\ pc[c] = "session" /\ cfg' = cfg /\ given' = given /\ durable' = durable
  BY DEF ResolveSession, startVars
<1>2. SetupInv /\ Numbered(mem[c], revived) /\ TypesOfStart /\ Fun(mem, Clients) /\ Fun(active, Clients)
  BY Parts DEF ForkInv, Shapes
<1>3. MemoryType(mem[c]) /\ MemoryShape(mem[c]) /\ StoreOK
  BY <1>2, StoreIsOK DEF StoreOK
<1>4. mem = [mem EXCEPT ![c] = mem[c]]
  BY <1>2 DEF Fun
<1>5. CASE /\ base = <<>> /\ UNCHANGED <<mem, disk, revived>>
           /\ active' = [active EXCEPT ![c] = Default] /\ pc' = [pc EXCEPT ![c] = "up"]
  <2>1. active'[c] = Default /\ \A d \in Clients \ {c} : active'[d] = active[d]
    BY <1>2, <1>5 DEF Fun
  <2>2. mem' = [mem EXCEPT ![c] = mem[c]] /\ Numbered(mem[c], revived') /\ revived \subseteq revived'
        /\ Known(c) \subseteq DOMAIN mem[c].sessions
    BY <1>2, <1>4, <1>5 DEF Known
  <2>3. disk'.mem = disk.mem /\ disk'.state \in {disk.state, "cut"}
    BY <1>5
  <2>4. pc[c] \in Loading /\ "up" \in Loading /\ "up" # "fork"
    BY <1>1 DEF Loading
  <2> QED BY <1>1, <1>5, <2>1, <2>2, <2>3, <2>4, WorkKeeps
<1>6. CASE /\ base # <<>> /\ GetOrCreate(c, base)
           /\ active' = [active EXCEPT ![c] = base] /\ pc' = [pc EXCEPT ![c] = "up"]
           /\ revived' = IF base \in Known(c) \/ Len(base) = 1 THEN revived ELSE revived \cup {base}
  <2>1. active'[c] = base /\ \A d \in Clients \ {c} : active'[d] = active[d]
    BY <1>2, <1>6 DEF Fun
  <2>2. pc[c] \in Loading /\ "up" \in Loading /\ "up" # "fork"
    BY <1>1 DEF Loading
  <2>3. revived \subseteq revived' /\ Numbered(mem[c], revived')
    BY <1>2, <1>6, NumberedMore
  <2>4. CASE base \in Known(c)
    <3>1. mem' = mem /\ disk' = disk
      BY <1>6, <2>4 DEF GetOrCreate
    <3>2. mem' = [mem EXCEPT ![c] = mem[c]] /\ base \in DOMAIN mem[c].sessions
      BY <1>4, <2>4, <3>1 DEF Known
    <3>3. disk'.mem = disk.mem /\ disk'.state \in {disk.state, "cut"}
      BY <3>1
    <3> HIDE DEF base
    <3> QED BY <1>1, <1>6, <2>1, <2>2, <2>3, <3>2, <3>3, WorkKeeps DEF Known
  <2>5. CASE base \notin Known(c)
    <3> DEFINE m2 == [mem[c] EXCEPT !.sessions = Put(@, base, <<>>)]
    <3>1. Save(c, m2)
      BY <1>6, <2>5 DEF GetOrCreate
    <3>2. m2.forks = mem[c].forks /\ m2.sessions = Put(mem[c].sessions, base, <<>>)
      <4>1. <<>> \in Seq(Clients \X (1 .. MaxTurns))
        OBVIOUS
      <4> HIDE DEF base
      <4> QED BY <1>3, <4>1, SessionPut
    <3> HIDE DEF m2
    <3>3. base \in DOMAIN mem[c].sessions \cup revived' \/ Len(base) = 1
      BY <1>6, <2>5
    <3>4. Numbered(m2, revived')
      <4> HIDE DEF base
      <4> QED BY <2>3, <3>2, <3>3, NumberedPut
    <3>5. Known(c) \subseteq DOMAIN m2.sessions /\ base \in DOMAIN m2.sessions
      BY <3>2 DEF Known, Put
    <3>6. /\ mem' = [mem EXCEPT ![c] = m2]
          /\ \/ disk'.mem = disk.mem /\ disk'.state \in {disk.state, "cut"}
             \/ disk'.mem = m2 /\ durable[c]
      BY <3>1, Saved
    <3> HIDE DEF base
    <3> QED BY <1>1, <1>6, <2>1, <2>2, <2>3, <3>4, <3>5, <3>6, WorkKeeps
  <2> QED BY <2>4, <2>5
<1>7. CASE /\ base # <<>>
           /\ Save(c, [mem[c] EXCEPT !.forks = Put(@, base, Forks(c, base) + 1)])
           /\ pc' = [pc EXCEPT ![c] = "fork"] /\ active' = active /\ revived' = revived
  <2> DEFINE i  == Forks(c, base) + 1
             m2 == [mem[c] EXCEPT !.forks = Put(@, base, i)]
  <2>1. i \in Nat \ {0} /\ Forks(c, base) \in Nat /\ \A b \in DOMAIN mem[c].forks : mem[c].forks[b] \in Nat
    BY <1>3, ForksType DEF MemoryType
  <2>2. m2.sessions = mem[c].sessions /\ m2.forks = Put(mem[c].forks, base, i)
    <3> HIDE DEF base, i
    <3> QED BY <1>3, <2>1, ForkPut
  <2>3. base \in DOMAIN mem[c].forks => mem[c].forks[base] <= i
    BY <2>1 DEF Forks
  <2>4. /\ mem' = [mem EXCEPT ![c] = m2]
        /\ \/ disk'.mem = disk.mem /\ disk'.state \in {disk.state, "cut"}
           \/ disk'.mem = m2 /\ durable[c]
    BY <1>7, Saved
  <2> HIDE DEF m2
  <2>5. Numbered(m2, revived)
    <3> HIDE DEF base, i
    <3> QED BY <1>2, <2>1, <2>2, <2>3, NumberedFork
  <2>6. base \in DOMAIN m2.forks /\ m2.forks[base] = i
    <3> HIDE DEF base, i
    <3> QED BY <2>2 DEF Put
  <2>7. IsList(base)
    BY <1>1, <1>2, ResumeIsList DEF Running
  <2>8. Append(base, i) \notin DOMAIN mem[c].sessions \ revived
    <3>1. ASSUME Append(base, i) \in DOMAIN mem[c].sessions \ revived
          PROVE  FALSE
      <4>1. base \in DOMAIN mem[c].forks /\ i <= mem[c].forks[base]
        <5> HIDE DEF base, i
        <5> QED BY <1>2, <1>7, <2>1, <2>7, <3>1 DEF Numbered
      <4>2. Forks(c, base) = mem[c].forks[base]
        BY <4>1 DEF Forks
      <4> QED BY <2>1, <4>1, <4>2
    <3> QED BY <3>1
  <2>9. mem'[c] = m2
    BY <1>2, <2>4 DEF Fun
  <2>10. Forking(c)'
    <3>1. cfg'[c].resume = base /\ Forks(c, base)' = i /\ revived' = revived
      BY <1>1, <1>7, <2>6, <2>9 DEF Forks
    <3>2. ForkId(c, base)' = Append(base, i) /\ Known(c)' = DOMAIN mem[c].sessions
      BY <1>1, <2>2, <2>9, <3>1 DEF ForkId, Known
    <3>3. ForkId(c, base)' = ForkId(c, cfg[c].resume)'
      BY <1>1
    <3> QED BY <1>1, <1>7, <2>6, <2>8, <2>9, <3>1, <3>2, <3>3 DEF Forking
  <2>11. pc[c] \in Loading /\ "fork" \in Loading /\ "fork" # "up" /\ revived \subseteq revived'
         /\ Known(c) \subseteq DOMAIN m2.sessions /\ Numbered(m2, revived')
    BY <1>1, <1>7, <2>2, <2>5 DEF Loading, Known
  <2> HIDE DEF base, i
  <2> QED BY <1>1, <1>7, <2>4, <2>10, <2>11, WorkKeeps
<1> QED BY <1>5, <1>6, <1>7 DEF ResolveSession, Goto

\* A client in the middle of its fork, just before it clones.
LEMMA CloneForks ==
  ASSUME ForkInv, SetupInv', NEW c \in Clients, Clone(c)
  PROVE  ForkInv'
<1> DEFINE base == cfg[c].resume
           fork == ForkId(c, base)
<1>1. /\ pc[c] = "fork" /\ cfg' = cfg /\ given' = given /\ durable' = durable /\ revived' = revived
      /\ pc' = [pc EXCEPT ![c] = "up"] /\ active' = [active EXCEPT ![c] = fork]
  BY DEF Clone, Goto, startVars
<1>2. SetupInv /\ Numbered(mem[c], revived) /\ Fun(mem, Clients) /\ Fun(active, Clients) /\ Forking(c)
  BY <1>1, Parts DEF ForkInv, Shapes
<1>3. MemoryType(mem[c]) /\ MemoryShape(mem[c]) /\ StoreOK
  BY <1>2, StoreIsOK DEF StoreOK
<1>4. active'[c] = fork /\ \A d \in Clients \ {c} : active'[d] = active[d]
  <2> HIDE DEF fork
  <2> QED BY <1>1, <1>2 DEF Fun
<1>5. pc[c] \in Loading /\ "up" \in Loading /\ "up" # "fork" /\ revived \subseteq revived'
  BY <1>1 DEF Loading
<1>6. \E b, k : /\ IsList(b) /\ k \in Nat /\ fork = Append(b, k)
                /\ b \in DOMAIN mem[c].forks /\ k <= mem[c].forks[b]
  <2>1. IsList(base) /\ Forks(c, base) \in Nat /\ fork = Append(base, Forks(c, base))
    BY <1>1, <1>2, <1>3, ResumeIsList, ForksType DEF Running, ForkId
  <2>2. base \in DOMAIN mem[c].forks /\ Forks(c, base) = mem[c].forks[base]
    BY <1>2 DEF Forking, Forks
  <2> HIDE DEF base, fork
  <2> QED BY <2>1, <2>2
<1>7. ASSUME NEW said \in Seq(Clients \X (1 .. MaxTurns)),
             Save(c, [mem[c] EXCEPT !.sessions = Put(@, fork, said)])
      PROVE  ForkInv'
  <2> DEFINE m2 == [mem[c] EXCEPT !.sessions = Put(@, fork, said)]
  <2>1. m2.forks = mem[c].forks /\ m2.sessions = Put(mem[c].sessions, fork, said)
    <3> HIDE DEF fork
    <3> QED BY <1>3, <1>7, SessionPut
  <2>2. /\ mem' = [mem EXCEPT ![c] = m2]
        /\ \/ disk'.mem = disk.mem /\ disk'.state \in {disk.state, "cut"}
           \/ disk'.mem = m2 /\ durable[c]
    BY <1>7, Saved
  <2> HIDE DEF m2, fork
  <2>3. Numbered(m2, revived)
    BY <1>2, <1>6, <2>1, NumberedPut
  <2>4. Known(c) \subseteq DOMAIN m2.sessions /\ fork \in DOMAIN m2.sessions
    BY <2>1 DEF Known, Put
  <2>5. Numbered(m2, revived') /\ active'[c] \in DOMAIN m2.sessions \cup {Default}
    BY <1>1, <1>4, <2>3, <2>4
  <2> QED BY <1>1, <1>4, <1>5, <2>2, <2>4, <2>5, WorkKeeps
<1>8. CASE base \in Known(c)
  <2>1. mem[c].sessions[base] \in Seq(Clients \X (1 .. MaxTurns))
    BY <1>3, <1>8 DEF MemoryType, Known
  <2>2. Save(c, [mem[c] EXCEPT !.sessions = Put(@, fork, mem[c].sessions[base])])
    BY <1>8 DEF Clone
  <2> QED BY <1>7, <2>1, <2>2
<1>9. CASE base \notin Known(c) /\ fork \notin Known(c)
  <2>1. Save(c, [mem[c] EXCEPT !.sessions = Put(@, fork, <<>>)])
    BY <1>9 DEF Clone, GetOrCreate
  <2>2. <<>> \in Seq(Clients \X (1 .. MaxTurns))
    OBVIOUS
  <2> QED BY <1>7, <2>1, <2>2
<1>10. CASE base \notin Known(c) /\ fork \in Known(c)
  <2>1. mem' = mem /\ disk' = disk
    BY <1>10 DEF Clone, GetOrCreate
  <2>2. mem' = [mem EXCEPT ![c] = mem[c]] /\ Numbered(mem[c], revived')
        /\ Known(c) \subseteq DOMAIN mem[c].sessions /\ fork \in DOMAIN mem[c].sessions
    BY <1>1, <1>2, <1>10, <2>1 DEF Fun, Known
  <2>3. disk'.mem = disk.mem /\ disk'.state \in {disk.state, "cut"}
    BY <2>1
  <2> HIDE DEF fork
  <2> QED BY <1>1, <1>4, <1>5, <2>2, <2>3, WorkKeeps
<1> QED BY <1>8, <1>9, <1>10

LEMMA AskForks ==
  ASSUME ForkInv, SetupInv', NEW c \in Clients, Ask(c)
  PROVE  ForkInv'
<1> DEFINE n   == active[c]
           old == IF n \in Known(c) THEN mem[c].sessions[n] ELSE <<>>
           said == Append(old, <<c, turns'[c]>>)
           m2  == [mem[c] EXCEPT !.sessions = Put(@, n, said)]
<1>1. /\ pc[c] = "up" /\ pc' = pc /\ cfg' = cfg /\ given' = given /\ durable' = durable
      /\ revived' = revived /\ active' = active
      /\ turns' = [turns EXCEPT ![c] = @ + 1] /\ turns[c] < MaxTurns
  BY DEF Ask, startVars
<1>2. /\ SetupInv /\ Numbered(mem[c], revived) /\ TypesOfStart /\ TypesOfCounts
      /\ n \in Known(c) \cup {Default}
  BY <1>1, Parts DEF ForkInv
<1>3. MemoryType(mem[c]) /\ MemoryShape(mem[c])
  BY <1>2, StoreIsOK DEF StoreOK
<1>4. said \in Seq(Clients \X (1 .. MaxTurns))
  <2>1. turns'[c] \in 1 .. MaxTurns
    BY <1>1, <1>2, Bounds DEF TypesOfCounts
  <2>2. old \in Seq(Clients \X (1 .. MaxTurns))
    BY <1>3 DEF MemoryType, Known
  <2> HIDE DEF old
  <2> QED BY <2>1, <2>2
<1>5. Save(c, m2)
  BY Zenon DEF Ask
<1> HIDE DEF said, old
<1>6. m2.forks = mem[c].forks /\ m2.sessions = Put(mem[c].sessions, n, said)
  <2> HIDE DEF n
  <2> QED BY <1>3, <1>4, SessionPut
<1>7. /\ mem' = [mem EXCEPT ![c] = m2]
      /\ \/ disk'.mem = disk.mem /\ disk'.state \in {disk.state, "cut"}
         \/ disk'.mem = m2 /\ durable[c]
  BY <1>5, Saved
<1>8. n \in DOMAIN mem[c].sessions \/ Len(n) = 1
  <2>1. Len(Default) = 1
    BY DEF Default
  <2> QED BY <1>2, <2>1 DEF Known
<1> HIDE DEF m2
<1>9. Numbered(m2, revived')
  <2>1. Numbered(m2, revived)
    <3> HIDE DEF n
    <3> QED BY <1>2, <1>6, <1>8, NumberedPut
  <2> QED BY <1>1, <2>1
<1>10. Known(c) \subseteq DOMAIN m2.sessions /\ active'[c] \in DOMAIN m2.sessions
  BY <1>1, <1>6 DEF Known, Put
<1>11. pc' = [pc EXCEPT ![c] = "up"] /\ pc[c] \in Loading /\ "up" \in Loading /\ "up" # "fork"
       /\ revived \subseteq revived'
  BY <1>1, <1>2 DEF TypesOfStart, Loading
<1> QED BY <1>1, <1>7, <1>9, <1>10, <1>11, WorkKeeps

LEMMA NextForks ==
  ASSUME ForkInv, [Next]_vars
  PROVE  ForkInv'
<1>1. SetupInv'
  BY NextKeeps DEF ForkInv
<1>2. CASE UNCHANGED vars
  <2>1. UNCHANGED <<pc, given, cfg, mem, durable, disk, active, revived>>
    BY <1>2 DEF vars, startVars, sessionVars
  <2>2. \A c \in Clients : (Forking(c)' <=> Forking(c)) /\ (Linked(c)' <=> Linked(c))
    BY <2>1 DEF Forking, ForkId, Forks, Known, Linked
  <2>3. Alternating' <=> Alternating
    BY <2>1 DEF Alternating, Uses
  <2> QED BY <1>1, <2>1, <2>2, <2>3 DEF ForkInv, Known
<1>3. CASE Crash
  BY <1>1, <1>3, CrashForks
<1>4. ASSUME NEW c \in Clients,
             \/ Start(c) \/ ApplyOptions(c) \/ Configure(c) \/ LoadStore(c) \/ ListServer(c)
             \/ EndList(c) \/ ResolveSession(c) \/ Clone(c) \/ Ask(c) \/ SetModel(c) \/ Close(c)
      PROVE  ForkInv'
  <2>1. CASE Start(c)
    BY <1>1, <2>1, StartForks
  <2>2. CASE ApplyOptions(c) \/ Configure(c) \/ ListServer(c) \/ EndList(c) \/ SetModel(c) \/ Close(c)
    BY <1>1, <2>2, QuietForks
  <2>3. CASE LoadStore(c)
    BY <1>1, <2>3, LoadForks
  <2>4. CASE ResolveSession(c)
    BY <1>1, <2>4, ResolveForks
  <2>5. CASE Clone(c)
    BY <1>1, <2>5, CloneForks
  <2>6. CASE Ask(c)
    BY <1>1, <2>6, AskForks
  <2> QED BY <1>4, <2>1, <2>2, <2>3, <2>4, <2>5, <2>6
<1> QED BY <1>2, <1>3, <1>4 DEF Next

\* What Clone makes is new, and as its base was.
LEMMA CloneIsNew ==
  ASSUME ForkInv, NEW c \in Clients, Clone(c), active'[c] \notin revived
  PROVE  LET base == cfg[c].resume IN
         /\ active'[c] \notin Known(c)
         /\ Serial /\ cfg[c].store /\ disk.state = "whole" =>
              active'[c] \notin DOMAIN disk.mem.sessions
         /\ mem'[c].sessions[active'[c]] =
              IF base \in Known(c) THEN mem[c].sessions[base] ELSE <<>>
<1> DEFINE base == cfg[c].resume
           fork == ForkId(c, base)
           said == IF base \in Known(c) THEN mem[c].sessions[base] ELSE <<>>
<1>1. pc[c] = "fork" /\ active' = [active EXCEPT ![c] = fork]
  BY DEF Clone
<1>2. SetupInv /\ Forking(c) /\ Fun(mem, Clients) /\ Fun(active, Clients) /\ (Serial => Linked(c))
  BY <1>1, Parts DEF ForkInv, Shapes
<1>3. active'[c] = fork
  <2> HIDE DEF fork
  <2> QED BY <1>1, <1>2 DEF Fun
<1>4. fork \notin Known(c)
  BY <1>2, <1>3 DEF Forking
<1>5. Serial /\ cfg[c].store /\ disk.state = "whole" => fork \notin DOMAIN disk.mem.sessions
  <2> HIDE DEF fork
  <2> QED BY <1>1, <1>2, <1>4 DEF Linked, Loading
<1> DEFINE m2 == [mem[c] EXCEPT !.sessions = Put(@, fork, said)]
<1>6. Save(c, m2)
  <2>1. CASE base \in Known(c)
    BY <2>1 DEF Clone
  <2>2. CASE base \notin Known(c)
    BY <1>4, <2>2 DEF Clone, GetOrCreate
  <2> QED BY <2>1, <2>2
<1>7. MemoryShape(mem[c]) /\ MemoryType(mem[c])
  BY <1>2, StoreIsOK DEF StoreOK
<1>8. said \in Seq(Clients \X (1 .. MaxTurns))
  BY <1>7 DEF MemoryType, Known
<1> HIDE DEF fork, said
<1>9. m2.sessions = Put(mem[c].sessions, fork, said)
  BY <1>7, <1>8, SessionPut
<1> HIDE DEF m2
<1>10. mem'[c] = m2
  BY <1>2, <1>6, Saved DEF Fun
<1>11. mem'[c].sessions[fork] = said
  BY <1>9, <1>10 DEF Put
<1> QED BY <1>3, <1>4, <1>5, <1>11 DEF said

\* Only Clone takes a client that forks to its connection.
LEMMA ForkedByClone ==
  ASSUME ForkInv, [Next]_vars, NEW c \in Clients, Forked(c)
  PROVE  Clone(c)
<1>1. pc[c] = "fork" /\ pc'[c] = "up" /\ TypesOfStart
  BY Parts DEF Forked, ForkInv
<1>2. ~ UNCHANGED vars
  BY <1>1 DEF vars
<1>3. ~ Crash
  BY <1>1 DEF Crash
<1>4. PICK d \in Clients :
        \/ Start(d) \/ ApplyOptions(d) \/ Configure(d) \/ LoadStore(d) \/ ListServer(d)
        \/ EndList(d) \/ ResolveSession(d) \/ Clone(d) \/ Ask(d) \/ SetModel(d) \/ Close(d)
  BY <1>2, <1>3 DEF Next
<1>5. pc' = pc \/ \E where : pc' = [pc EXCEPT ![d] = where]
  BY <1>4 DEF Start, ApplyOptions, Configure, LoadStore, ListServer, EndList, ResolveSession,
              Clone, Ask, SetModel, Close, Goto
<1>6. d = c
  BY <1>1, <1>5 DEF TypesOfStart
<1> QED BY <1>1, <1>4, <1>6 DEF Start, ApplyOptions, Configure, LoadStore, ListServer, EndList,
           ResolveSession, Ask, SetModel, Close

(* A fork is a session that was not there, in memory or in the store, with *)
(* what its base was, unless one of its id was made anew by a resume:      *)
(* ForkIsNew, for any number of clients, failed saves and crashes.         *)
THEOREM ForksAreNew == Spec => ForkIsNew
<1>1. Init => ForkInv
  BY InitForkInv
<1>2. ForkInv /\ [Next]_vars => ForkInv'
  BY NextForks
<1>3. ASSUME ForkInv, [Next]_vars
      PROVE  \A c \in Clients : Forked(c) /\ active'[c] \notin revived =>
       LET base == cfg[c].resume IN
       /\ active'[c] \notin Known(c)
       /\ Serial /\ cfg[c].store /\ disk.state = "whole" =>
            active'[c] \notin DOMAIN disk.mem.sessions
       /\ mem'[c].sessions[active'[c]] =
            IF base \in Known(c) THEN mem[c].sessions[base] ELSE <<>>
  BY <1>3, ForkedByClone, CloneIsNew
<1> QED BY <1>1, <1>2, <1>3, PTL DEF Spec, ForkIsNew
===============================================================================
