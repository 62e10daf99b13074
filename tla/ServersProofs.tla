--------------------------- MODULE ServersProofs ---------------------------
(***************************************************************************)
(* Theorems about Servers for any calls, requests, routes and fragments:   *)
(* first what the loops of extractParams, matchRoute and buildRootValue    *)
(* compute, then the invariants of the life cycle, of the routes and of the*)
(* schema.                                                                 *)
(*                                                                         *)
(* What a loop computes is shown by induction on the number of its steps,  *)
(* stated with sets: a set of numbers that has 0 and with a number the next*)
(* one has them all.                                                       *)
(***************************************************************************)
EXTENDS Servers, SequenceTheorems, WellFoundedInduction, TLAPS

-----------------------------------------------------------------------------
(* Induction and recursion over the numbers up to n.                       *)

(* Some number of a set is the least.                                      *)
LEMMA LeastNumber ==
  ASSUME NEW T \in SUBSET Nat, T # {}
  PROVE  \E m \in T : \A k \in T : m <= k
<1> DEFINE R == {ss \in Nat \X Nat : ss[1] < ss[2]}
<1>1. R = OpToRel(<, Nat)
  BY DEF OpToRel
<1>2. IsWellFoundedOn(R, Nat)
  BY <1>1, NatLessThanWellFounded
<1>3. PICK m \in T : \A k \in T : ~ (<<k, m>> \in R)
  <2> HIDE DEF R
  <2> QED
    BY <1>2, WFMin
<1>4. ASSUME NEW k \in T
      PROVE  m <= k
  <2>1. <<k, m>> \in Nat \X Nat /\ <<k, m>>[1] = k /\ <<k, m>>[2] = m
    OBVIOUS
  <2>2. ~(k < m)
    BY <1>3, <2>1
  <2> QED
    BY <2>2
<1> QED
  BY <1>4

(* A set with 0 and, for each number below n, the next one has all up to n.*)
LEMMA UpTo ==
  ASSUME NEW n \in Nat, NEW S, 0 \in S,
         \A i \in 0..n : i \in S /\ i < n => i + 1 \in S
  PROVE  0..n \subseteq S
<1> DEFINE Rest == {i \in 0..n : i \notin S}
<1>1. SUFFICES ASSUME Rest # {}
               PROVE  FALSE
  OBVIOUS
<1>2. PICK m \in Rest : \A k \in Rest : m <= k
  <2>1. Rest \in SUBSET Nat
    OBVIOUS
  <2> HIDE DEF Rest
  <2> QED
    BY <1>1, <2>1, LeastNumber
<1>3. m \in 1..n /\ m - 1 \in 0..n /\ m - 1 \notin Rest
  BY <1>2
<1>4. m - 1 \in S /\ m - 1 < n /\ (m - 1) + 1 = m
  BY <1>3
<1> QED
  BY <1>2, <1>3, <1>4

(* The values after the steps of a loop over V that starts with v, step i  *)
(* of which is F[i].                                                       *)
IsLoop(g, n, V, v, F) ==
  /\ g \in [0..n -> V]
  /\ g[0] = v /\ \A i \in 1..n : g[i] = F[i][g[i-1]]

(* A loop of n steps has such values.                                      *)
LEMMA LoopHasValues ==
  ASSUME NEW n \in Nat, NEW V, NEW v \in V, NEW F \in [1..n -> [V -> V]]
  PROVE  \E g : IsLoop(g, n, V, v, F)
<1> DEFINE Values(m) ==
      {g \in [0..m -> V] : g[0] = v /\ \A i \in 1..m : g[i] = F[i][g[i-1]]}
           S == {m \in 0..n : Values(m) # {}}
<1>1. 0 \in S
  <2>1. [i \in 0..0 |-> v] \in Values(0)
    OBVIOUS
  <2> QED
    BY <2>1
<1>2. ASSUME NEW m \in 0..n, m \in S, m < n
      PROVE  m + 1 \in S
  <2>1. PICK g : g \in Values(m)
    BY <1>2
  <2> DEFINE h == [i \in 0..(m+1) |-> IF i = m + 1 THEN F[m+1][g[m]] ELSE g[i]]
  <2>2. m + 1 \in 1..n /\ g[m] \in V /\ F[m+1][g[m]] \in V
    BY <1>2, <2>1
  <2>3. h \in [0..(m+1) -> V] /\ h[0] = v
    BY <2>1, <2>2
  <2>4. ASSUME NEW i \in 1..(m+1)
        PROVE  h[i] = F[i][h[i-1]]
    <3>1. CASE i = m + 1
      BY <2>2, <3>1
    <3>2. CASE i # m + 1
      <4>1. i \in 1..m /\ i - 1 \in 0..m /\ i - 1 # m + 1
        BY <3>2
      <4> QED
        BY <2>1, <4>1
    <3> QED
      BY <3>1, <3>2
  <2>5. h \in Values(m+1)
    BY <2>3, <2>4
  <2>6. m + 1 \in 0..n
    BY <2>2
  <2> HIDE DEF h, Values
  <2> QED
    BY <2>5, <2>6
<1>3. n \in S
  <2> HIDE DEF S
  <2>1. 0..n \subseteq S
    BY <1>1, <1>2, UpTo
  <2> QED
    BY <2>1
<1> QED
  BY <1>3 DEF IsLoop

-----------------------------------------------------------------------------
(* extractParams and matchRoute.                                           *)

ParamsOrNone == [ParamSegments -> Segments \cup {NoMatch}] \cup {NoMatch}

(* What one segment of the path does to the parameters so far.             *)
ParamsStep(path, url, i, params) ==
  IF params = NoMatch THEN NoMatch
  ELSE IF path[i] \in ParamSegments THEN [params EXCEPT ![path[i]] = url[i]]
  ELSE IF path[i] = url[i] THEN params ELSE NoMatch

LEMMA PathsAndUrls ==
  ASSUME NEW path \in Paths, NEW url \in Urls
  PROVE  /\ Len(path) \in Nat /\ DOMAIN path = 1..Len(path)
         /\ Len(url) \in Nat /\ DOMAIN url = 1..Len(url)
         /\ \A i \in 1..Len(url) : url[i] \in Segments
<1>1. path \in Seq(ToSet(path)) /\ url \in Seq(ToSet(url))
  BY SegmentsAssumption
<1>2. ASSUME NEW i \in 1..Len(url)
      PROVE  url[i] \in Segments
  <2>1. url[i] \in ToSet(url)
    BY <1>1, ElementOfSeq
  <2> QED
    BY <2>1 DEF Segments
<1> QED
  BY <1>1, <1>2, LenProperties

(* The parameters after each segment are those of the loop.                *)
LEMMA ParamsOfLoop ==
  ASSUME NEW path \in Paths, NEW url \in Urls, Len(path) = Len(url)
  PROVE  LET params == ParamsAfter(path, url)
         IN /\ params[0] = [p \in ParamSegments |-> NoMatch]
            /\ \A i \in 1..Len(path) : params[i] = ParamsStep(path, url, i, params[i-1])
            /\ \A i \in 0..Len(path) : params[i] \in ParamsOrNone
<1> DEFINE n == Len(path)
           none == [p \in ParamSegments |-> NoMatch]
           F == [i \in 1..n |-> [params \in ParamsOrNone |-> ParamsStep(path, url, i, params)]]
<1>1. n \in Nat /\ \A i \in 1..n : url[i] \in Segments
  BY PathsAndUrls
<1>2. none \in ParamsOrNone
  BY DEF ParamsOrNone
<1>3. ASSUME NEW i \in 1..n, NEW params \in ParamsOrNone
      PROVE  ParamsStep(path, url, i, params) \in ParamsOrNone
  BY <1>1 DEF ParamsStep, ParamsOrNone
<1>4. F \in [1..n -> [ParamsOrNone -> ParamsOrNone]]
  BY <1>3
<1>5. PICK g : /\ g \in [0..n -> ParamsOrNone]
               /\ g[0] = none /\ \A i \in 1..n : g[i] = F[i][g[i-1]]
  <2>1. n \in Nat
    BY <1>1
  <2>2. \E g : IsLoop(g, n, ParamsOrNone, none, F)
    <3> HIDE DEF F, n, none
    <3> QED
      BY <1>2, <1>4, <2>1, LoopHasValues
  <2> HIDE DEF F, n, none
  <2> QED
    BY <2>2 DEF IsLoop
<1>6. \A i \in 1..n : g[i] = ParamsStep(path, url, i, g[i-1])
  <2>1. ASSUME NEW i \in 1..n
        PROVE  F[i][g[i-1]] = ParamsStep(path, url, i, g[i-1])
    <3>1. g[i-1] \in ParamsOrNone
      BY <1>1, <1>5
    <3> QED
      BY <3>1
  <2> QED
    BY <1>5, <2>1
<1> DEFINE Loop(h) ==
      h = [i \in 0..n |-> IF i = 0 THEN none ELSE ParamsStep(path, url, i, h[i-1])]
<1>7. Loop(g)
  <2> HIDE DEF none
  <2>1. \A i \in 0..n : i # 0 => i \in 1..n
    BY <1>1
  <2> QED
    BY <1>5, <1>6, <2>1
<1>8. Loop(ParamsAfter(path, url))
  <2>1. ParamsAfter(path, url) = CHOOSE h : Loop(h)
    BY DEF ParamsAfter, ParamsStep
  <2> HIDE DEF Loop
  <2> QED
    BY <1>7, <2>1
<1> DEFINE params == ParamsAfter(path, url)
<1> HIDE DEF params
<1>9. params[0] = none /\ \A i \in 1..n : params[i] = ParamsStep(path, url, i, params[i-1])
  <2>1. params = [i \in 0..n |-> IF i = 0 THEN none ELSE ParamsStep(path, url, i, params[i-1])]
    BY <1>8 DEF params
  <2>2. 0 \in 0..n /\ \A i \in 1..n : i \in 0..n /\ i # 0
    BY <1>1
  <2> HIDE DEF none
  <2> QED
    BY <2>1, <2>2
<1>10. 0..n \subseteq {i \in 0..n : params[i] \in ParamsOrNone}
  <2> DEFINE S == {i \in 0..n : params[i] \in ParamsOrNone}
  <2>1. 0 \in S
    BY <1>1, <1>2, <1>9
  <2>2. ASSUME NEW i \in 0..n, i \in S, i < n
        PROVE  i + 1 \in S
    <3>1. i + 1 \in 1..n /\ (i + 1) - 1 = i
      BY <1>1, <2>2
    <3> QED
      BY <1>3, <1>9, <2>2, <3>1
  <2> HIDE DEF S
  <2>3. 0..n \subseteq S
    BY <1>1, <2>1, <2>2, UpTo
  <2> QED
    BY <2>3 DEF S
<1> QED
  BY <1>9, <1>10 DEF params

(* Segment i of the path is no parameter and not that of the url.          *)
Differs(path, url, i) == path[i] \notin ParamSegments /\ path[i] # url[i]

(* Of the first i segments the last one that is the parameter p.           *)
IsLast(path, p, i, j) ==
  /\ j \in 1..i /\ path[j] = p
  /\ \A l \in 1..i : path[l] = p => l <= j

(* The parameters of the first i segments: none if some segment differs,   *)
(* and otherwise each with the segment of the url at its last place.       *)
ParamsAre(path, url, i, params) ==
  /\ params = NoMatch <=> \E j \in 1..i : Differs(path, url, j)
  /\ params # NoMatch => \A p \in ParamSegments :
       \/ params[p] = NoMatch /\ \A j \in 1..i : path[j] # p
       \/ \E j \in 1..i : IsLast(path, p, i, j) /\ params[p] = url[j]

LEMMA StepOfParams ==
  ASSUME NEW path \in Paths, NEW url \in Urls, NEW i \in Nat, NEW params \in ParamsOrNone,
         url[i+1] \in Segments, ParamsAre(path, url, i, params)
  PROVE  ParamsAre(path, url, i + 1, ParamsStep(path, url, i + 1, params))
<1> DEFINE next == ParamsStep(path, url, i + 1, params)
<1>1. \A j : j \in 1..(i+1) <=> j \in 1..i \/ j = i + 1
  OBVIOUS
<1>2. \A f \in [ParamSegments -> Segments \cup {NoMatch}] : f # NoMatch
  BY SegmentsAssumption
<1>3. CASE params = NoMatch
  <2>1. next = NoMatch
    BY <1>3 DEF ParamsStep
  <2>2. \E j \in 1..(i+1) : Differs(path, url, j)
    BY <1>1, <1>3 DEF ParamsAre
  <2> QED
    BY <2>1, <2>2 DEF ParamsAre
<1>4. CASE params # NoMatch /\ Differs(path, url, i + 1)
  <2>1. next = NoMatch
    BY <1>4 DEF ParamsStep, Differs
  <2>2. \E j \in 1..(i+1) : Differs(path, url, j)
    BY <1>1, <1>4
  <2> QED
    BY <2>1, <2>2 DEF ParamsAre
<1>5. CASE params # NoMatch /\ ~Differs(path, url, i + 1)
  <2>1. params \in [ParamSegments -> Segments \cup {NoMatch}]
    BY <1>5 DEF ParamsOrNone
  <2>2. next = IF path[i+1] \in ParamSegments
               THEN [params EXCEPT ![path[i+1]] = url[i+1]] ELSE params
    BY <1>5 DEF ParamsStep, Differs
  <2>3. next # NoMatch /\ ~\E j \in 1..(i+1) : Differs(path, url, j)
    <3>1. next # NoMatch
      BY <1>5, <2>1, <2>2, SegmentsAssumption
    <3> QED
      BY <1>1, <1>5, <3>1 DEF ParamsAre
  <2>4. ASSUME NEW p \in ParamSegments
        PROVE  \/ next[p] = NoMatch /\ \A j \in 1..(i+1) : path[j] # p
               \/ \E j \in 1..(i+1) : IsLast(path, p, i + 1, j) /\ next[p] = url[j]
    <3>1. CASE path[i+1] = p
      <4>1. next[p] = url[i+1]
        BY <2>1, <2>2, <3>1
      <4>2. IsLast(path, p, i + 1, i + 1)
        BY <3>1 DEF IsLast
      <4> QED
        BY <1>1, <4>1, <4>2
    <3>2. CASE path[i+1] # p
      <4>1. next[p] = params[p]
        BY <2>1, <2>2, <3>2
      <4>2. \A j : IsLast(path, p, i, j) => IsLast(path, p, i + 1, j)
        BY <1>1, <3>2 DEF IsLast
      <4>3. \/ params[p] = NoMatch /\ \A j \in 1..i : path[j] # p
            \/ \E j \in 1..i : IsLast(path, p, i, j) /\ params[p] = url[j]
        BY <1>5 DEF ParamsAre
      <4> QED
        BY <1>1, <3>2, <4>1, <4>2, <4>3
    <3> QED
      BY <3>1, <3>2
  <2>5. ParamsAre(path, url, i + 1, next)
    <3> HIDE DEF next
    <3> QED
      BY <2>3, <2>4 DEF ParamsAre
  <2> QED
    BY <2>5
<1> QED
  BY <1>3, <1>4, <1>5

(* extractParams accepts a url if and only if it matches the path segment  *)
(* by segment, and then gives each parameter its value.                    *)
LEMMA ExtractParamsIsMatch ==
  ASSUME NEW path \in Paths, NEW url \in Urls
  PROVE  /\ ExtractParams(path, url) \in ParamsOrNone
         /\ ExtractParams(path, url) # NoMatch <=>
              /\ Len(path) = Len(url)
              /\ \A i \in DOMAIN path : path[i] \in ParamSegments \/ path[i] = url[i]
         /\ ExtractParams(path, url) # NoMatch =>
              ExtractParams(path, url) = [p \in ParamSegments |-> ParamOf(path, url, p)]
<1>1. CASE Len(path) # Len(url)
  BY <1>1 DEF ExtractParams, ParamsOrNone
<1>2. CASE Len(path) = Len(url)
  <2> DEFINE n == Len(path)
             after == ParamsAfter(path, url)
             S == {i \in 0..n : ParamsAre(path, url, i, after[i])}
             params == after[n]
  <2>1. n \in Nat /\ DOMAIN path = 1..n
    BY PathsAndUrls
  <2>2. /\ after[0] = [p \in ParamSegments |-> NoMatch]
        /\ \A i \in 1..n : after[i] = ParamsStep(path, url, i, after[i-1])
        /\ \A i \in 0..n : after[i] \in ParamsOrNone
    <3> HIDE DEF after
    <3> QED
      BY <1>2, ParamsOfLoop DEF after
  <2> HIDE DEF after
  <2>3. 0 \in S
    <3>1. after[0] \in [ParamSegments -> Segments \cup {NoMatch}] /\ 1..0 = {}
      BY <2>2
    <3>2. after[0] # NoMatch
      BY <3>1, SegmentsAssumption
    <3> QED
      BY <2>1, <2>2, <3>1, <3>2 DEF ParamsAre
  <2>4. ASSUME NEW i \in 0..n, i \in S, i < n
        PROVE  i + 1 \in S
    <3>1. i \in Nat /\ i + 1 \in 1..n /\ i + 1 \in 0..n /\ (i + 1) - 1 = i
      BY <2>1, <2>4
    <3>2. after[i+1] = ParamsStep(path, url, i + 1, after[i])
      BY <2>2, <3>1
    <3>3. url[i+1] \in Segments
      BY <1>2, <3>1, PathsAndUrls
    <3> QED
      BY <2>2, <2>4, <3>1, <3>2, <3>3, StepOfParams
  <2>5. ParamsAre(path, url, n, params) /\ params \in ParamsOrNone
    <3>1. n \in S
      <4> HIDE DEF S
      <4>1. 0..n \subseteq S
        BY <2>1, <2>3, <2>4, UpTo
      <4> QED
        BY <2>1, <4>1
    <3> QED
      BY <2>1, <2>2, <3>1
  <2>6. ExtractParams(path, url) = params
    BY <1>2 DEF ExtractParams, after
  <2>7. ASSUME params # NoMatch
        PROVE  params = [p \in ParamSegments |-> ParamOf(path, url, p)]
    <3>1. params \in [ParamSegments -> Segments \cup {NoMatch}]
      BY <2>5, <2>7 DEF ParamsOrNone
    <3>2. ASSUME NEW p \in ParamSegments
          PROVE  params[p] = ParamOf(path, url, p)
      <4>1. CASE params[p] = NoMatch /\ \A j \in 1..n : path[j] # p
        BY <2>1, <4>1 DEF ParamOf, ToSet
      <4>2. ASSUME NEW j \in 1..n, IsLast(path, p, n, j), params[p] = url[j]
            PROVE  params[p] = ParamOf(path, url, p)
        <5>1. p \in ToSet(path)
          BY <2>1, <4>2 DEF ToSet, IsLast
        <5>2. \A l \in DOMAIN path :
                path[l] = p /\ (\A m \in DOMAIN path : path[m] = p => m <= l) <=> l = j
          BY <2>1, <4>2 DEF IsLast
        <5>3. (CHOOSE l \in DOMAIN path :
                 path[l] = p /\ \A m \in DOMAIN path : path[m] = p => m <= l) = j
          BY <2>1, <4>2, <5>2
        <5> QED
          BY <4>2, <5>1, <5>3 DEF ParamOf
      <4> QED
        BY <2>5, <2>7, <4>1, <4>2 DEF ParamsAre
    <3> HIDE DEF params
    <3> QED
      BY <3>1, <3>2
  <2>8. params # NoMatch <=> \A i \in DOMAIN path : path[i] \in ParamSegments \/ path[i] = url[i]
    BY <2>1, <2>5 DEF ParamsAre, Differs
  <2> HIDE DEF params
  <2> QED
    BY <1>2, <2>5, <2>6, <2>7, <2>8
<1> QED
  BY <1>1, <1>2

(* matchRoute gives the first route of the table that the target matches.  *)
LEMMA MatchRouteIsFirst ==
  ASSUME NEW t \in Targets, routes \in Seq([method : Methods, path : Paths])
  PROVE  \/ MatchRoute(t) = 0 /\ \A i \in 1..Len(routes) : ~Matches(routes[i], t)
         \/ /\ MatchRoute(t) \in 1..Len(routes)
            /\ Matches(routes[MatchRoute(t)], t)
            /\ \A i \in 1..Len(routes) : Matches(routes[i], t) => MatchRoute(t) <= i
<1> DEFINE Accepted(r) == r.method = t.method /\ ExtractParams(r.path, t.url) # NoMatch
           I == {i \in 1..Len(routes) : Accepted(routes[i])}
           Least(i) == i \in I /\ \A j \in I : i <= j
<1>1. \A i \in 1..Len(routes) : Accepted(routes[i]) <=> Matches(routes[i], t)
  <2>1. ASSUME NEW i \in 1..Len(routes)
        PROVE  Accepted(routes[i]) <=> Matches(routes[i], t)
    <3>1. routes[i] \in [method : Methods, path : Paths]
      BY ElementOfSeq
    <3>2. routes[i].path \in Paths /\ t.url \in Urls
      BY <3>1 DEF Targets
    <3> QED
      BY <3>2, ExtractParamsIsMatch DEF Matches
  <2> QED
    BY <2>1
<1>2. MatchRoute(t) = IF I # {} THEN CHOOSE i \in I : \A j \in I : i =< j ELSE 0
  BY DEF MatchRoute, SelectInSeq, Min
<1> HIDE DEF Accepted
<1>3. CASE I = {}
  BY <1>1, <1>2, <1>3
<1>4. CASE I # {}
  <2>1. I \in SUBSET Nat
    OBVIOUS
  <2> HIDE DEF I
  <2>2. PICK i \in I : \A j \in I : i <= j
    BY <1>4, <2>1, LeastNumber
  <2>3. MatchRoute(t) \in I /\ \A j \in I : MatchRoute(t) <= j
    BY <1>2, <1>4, <2>2
  <2> QED
    BY <1>1, <2>3 DEF I
<1> QED
  BY <1>3, <1>4

-----------------------------------------------------------------------------
(* buildRootValue.                                                         *)

Names == {field.name : field \in AllFields}
Roots == UNION {[names -> Resolvers] : names \in SUBSET Names}

(* What field j of fragment f does to the root value so far.               *)
FieldStep(f, j, root) ==
  Assign(root, Fields[f][j].name, [of |-> f, field |-> Fields[f][j]])

LEMMA FieldsOfFragment ==
  ASSUME NEW f \in Fragments
  PROVE  /\ Len(Fields[f]) \in Nat
         /\ \A j \in 1..Len(Fields[f]) :
              /\ Fields[f][j] \in Declared(f) /\ Fields[f][j] \in AllFields
              /\ Fields[f][j].name \in Names
              /\ [of |-> f, field |-> Fields[f][j]] \in Resolvers
         /\ \A field \in Declared(f) : \E j \in 1..Len(Fields[f]) : field = Fields[f][j]
<1>1. Fields[f] \in Seq(Declared(f))
  BY SchemaAssumption
<1>2. Len(Fields[f]) \in Nat /\ DOMAIN Fields[f] = 1..Len(Fields[f])
  BY <1>1, LenProperties
<1>3. \A field \in Declared(f) : field \in AllFields
  BY DEF AllFields
<1>4. \A j \in 1..Len(Fields[f]) : Fields[f][j] \in Declared(f)
  BY <1>1, ElementOfSeq
<1> QED
  BY <1>2, <1>3, <1>4 DEF Names, Resolvers, Declared, ToSet

LEMMA FieldStepOfRoots ==
  ASSUME NEW f \in Fragments, NEW j \in 1..Len(Fields[f]), NEW root \in Roots
  PROVE  /\ FieldStep(f, j, root) \in Roots
         /\ DOMAIN FieldStep(f, j, root) = DOMAIN root \cup {Fields[f][j].name}
         /\ FieldStep(f, j, root)[Fields[f][j].name] = [of |-> f, field |-> Fields[f][j]]
         /\ \A name \in DOMAIN root :
              name # Fields[f][j].name => FieldStep(f, j, root)[name] = root[name]
<1> DEFINE name == Fields[f][j].name
           value == [of |-> f, field |-> Fields[f][j]]
           next == FieldStep(f, j, root)
<1>1. name \in Names /\ value \in Resolvers
  BY FieldsOfFragment
<1>2. PICK names \in SUBSET Names : root \in [names -> Resolvers]
  BY DEF Roots
<1> HIDE DEF value
<1>3. next = [x \in names \cup {name} |-> IF x = name THEN value ELSE root[x]]
  BY <1>2 DEF FieldStep, Assign, value
<1> HIDE DEF next, name
<1>4. next \in [names \cup {name} -> Resolvers]
  BY <1>1, <1>2, <1>3
<1>5. next \in Roots
  BY <1>1, <1>4 DEF Roots
<1>6. DOMAIN next = DOMAIN root \cup {name} /\ next[name] = value
  BY <1>2, <1>3
<1>7. \A x \in DOMAIN root : x # name => next[x] = root[x]
  BY <1>2, <1>3
<1> QED
  BY <1>5, <1>6, <1>7 DEF next, name, value

(* What fragment f makes of a root value: all its names are there, and each*)
(* has a resolver of f or, of another name, the one it had.                *)
AssignsFields(f, j, root, next) ==
  /\ next \in Roots
  /\ DOMAIN next = DOMAIN root \cup {Fields[f][l].name : l \in 1..j}
  /\ \A name \in DOMAIN next :
       \/ /\ name \in DOMAIN root /\ next[name] = root[name]
          /\ \A l \in 1..j : Fields[f][l].name # name
       \/ \E l \in 1..j : /\ Fields[f][l].name = name
                          /\ next[name] = [of |-> f, field |-> Fields[f][l]]

LEMMA AssignFieldsAll ==
  ASSUME NEW f \in Fragments, NEW root \in Roots
  PROVE  AssignsFields(f, Len(Fields[f]), root, AssignFields(root, f))
<1> DEFINE n == Len(Fields[f])
           F == [j \in 1..n |-> [r \in Roots |-> FieldStep(f, j, r)]]
<1>1. n \in Nat
  BY FieldsOfFragment
<1>2. F \in [1..n -> [Roots -> Roots]]
  BY FieldStepOfRoots
<1>3. PICK g : /\ g \in [0..n -> Roots]
               /\ g[0] = root /\ \A j \in 1..n : g[j] = F[j][g[j-1]]
  <2> HIDE DEF F, n
  <2>1. \E g : IsLoop(g, n, Roots, root, F)
    BY <1>1, <1>2, LoopHasValues
  <2> QED
    BY <2>1 DEF IsLoop
<1>4. ASSUME NEW j \in 1..n
      PROVE  g[j] = FieldStep(f, j, g[j-1])
  <2>1. g[j-1] \in Roots
    BY <1>1, <1>3
  <2>2. F[j][g[j-1]] = FieldStep(f, j, g[j-1])
    BY <2>1
  <2> QED
    BY <1>3, <2>2
<1> DEFINE Loop(h) == h = [j \in 0..n |-> IF j = 0 THEN root ELSE FieldStep(f, j, h[j-1])]
<1>5. Loop(g)
  <2>1. \A j \in 0..n : j # 0 => j \in 1..n
    BY <1>1
  <2> QED
    BY <1>3, <1>4, <2>1
<1> DEFINE after == CHOOSE h : Loop(h)
<1>6. AssignFields(root, f) = after[n]
  BY DEF AssignFields, FieldStep
<1>7. Loop(after)
  <2> HIDE DEF Loop
  <2> QED
    BY <1>5
<1> HIDE DEF after
<1>8. after[0] = root /\ \A j \in 1..n : after[j] = FieldStep(f, j, after[j-1])
  <2>1. 0 \in 0..n /\ \A j \in 1..n : j \in 0..n /\ j # 0
    BY <1>1
  <2> QED
    BY <1>7, <2>1
<1> DEFINE S == {j \in 0..n : AssignsFields(f, j, root, after[j])}
<1>9. 0 \in S
  <2>1. 1..0 = {} /\ 0 \in 0..n
    BY <1>1
  <2> QED
    BY <1>8, <2>1 DEF AssignsFields
<1>10. ASSUME NEW j \in 0..n, j \in S, j < n
       PROVE  j + 1 \in S
  <2>1. j + 1 \in 1..n /\ j + 1 \in 0..n /\ (j + 1) - 1 = j
    BY <1>1, <1>10
  <2>2. \A l : l \in 1..(j+1) <=> l \in 1..j \/ l = j + 1
    BY <1>1
  <2> DEFINE name == Fields[f][j+1].name
  <2>3. after[j+1] = FieldStep(f, j + 1, after[j]) /\ after[j] \in Roots
    BY <1>8, <1>10, <2>1 DEF AssignsFields
  <2>4. /\ after[j+1] \in Roots
        /\ DOMAIN after[j+1] = DOMAIN after[j] \cup {name}
        /\ after[j+1][name] = [of |-> f, field |-> Fields[f][j+1]]
        /\ \A x \in DOMAIN after[j] : x # name => after[j+1][x] = after[j][x]
    <3> DEFINE r == after[j]
    <3>1. /\ FieldStep(f, j + 1, r) \in Roots
          /\ DOMAIN FieldStep(f, j + 1, r) = DOMAIN r \cup {name}
          /\ FieldStep(f, j + 1, r)[name] = [of |-> f, field |-> Fields[f][j+1]]
          /\ \A x \in DOMAIN r : x # name => FieldStep(f, j + 1, r)[x] = r[x]
      <4>1. r \in Roots /\ j + 1 \in 1..Len(Fields[f])
        BY <2>1, <2>3
      <4> HIDE DEF r
      <4> QED
        BY <4>1, FieldStepOfRoots
    <3> QED
      BY <2>3, <3>1
  <2>5. DOMAIN after[j+1] = DOMAIN root \cup {Fields[f][l].name : l \in 1..(j+1)}
    <3>1. DOMAIN after[j] = DOMAIN root \cup {Fields[f][l].name : l \in 1..j}
      BY <1>10 DEF AssignsFields
    <3>2. {Fields[f][l].name : l \in 1..(j+1)} = {Fields[f][l].name : l \in 1..j} \cup {name}
      BY <2>2
    <3> QED
      BY <2>4, <3>1, <3>2
  <2>6. ASSUME NEW x \in DOMAIN after[j+1]
        PROVE  \/ /\ x \in DOMAIN root /\ after[j+1][x] = root[x]
                  /\ \A l \in 1..(j+1) : Fields[f][l].name # x
               \/ \E l \in 1..(j+1) : /\ Fields[f][l].name = x
                                      /\ after[j+1][x] = [of |-> f, field |-> Fields[f][l]]
    <3>1. CASE x = name
      BY <2>2, <2>4, <3>1
    <3>2. CASE x # name
      <4>1. x \in DOMAIN after[j] /\ after[j+1][x] = after[j][x]
        BY <2>4, <2>6, <3>2
      <4>2. \/ /\ x \in DOMAIN root /\ after[j][x] = root[x]
               /\ \A l \in 1..j : Fields[f][l].name # x
            \/ \E l \in 1..j : /\ Fields[f][l].name = x
                               /\ after[j][x] = [of |-> f, field |-> Fields[f][l]]
        BY <1>10, <4>1 DEF AssignsFields
      <4> QED
        BY <2>2, <3>2, <4>1, <4>2
    <3> QED
      BY <3>1, <3>2
  <2>7. AssignsFields(f, j + 1, root, after[j+1])
    BY <2>4, <2>5, <2>6 DEF AssignsFields
  <2> QED
    BY <2>1, <2>7
<1>11. n \in S
  <2> HIDE DEF S
  <2>1. 0..n \subseteq S
    BY <1>1, <1>9, <1>10, UpTo
  <2> QED
    BY <1>1, <2>1
<1> QED
  BY <1>6, <1>11

(* Of the first i maps, none after the l-th declares a field of the name.  *)
LastOfName(name, l, i) ==
  \A m \in 1..i : \A other \in Declared(resolverMaps[m]) : other.name = name => m <= l

(* The root value of the first i maps: it has the name of each field they  *)
(* declare, and each name the resolver that the last of them with that name*)
(* registered for it.                                                      *)
RootOfMaps(i, root) ==
  /\ root \in Roots
  /\ \A l \in 1..i : \A field \in Declared(resolverMaps[l]) : field.name \in DOMAIN root
  /\ \A name \in DOMAIN root : \E l \in 1..i : \E field \in Declared(resolverMaps[l]) :
       /\ field.name = name /\ root[name] = [of |-> resolverMaps[l], field |-> field]
       /\ LastOfName(name, l, i)

LEMMA RootOfNextMap ==
  ASSUME resolverMaps \in Seq(Fragments), NEW i \in Nat, i + 1 \in 1..Len(resolverMaps),
         NEW root, RootOfMaps(i, root)
  PROVE  RootOfMaps(i + 1, AssignFields(root, resolverMaps[i+1]))
<1> DEFINE f == resolverMaps[i+1]
           next == AssignFields(root, f)
<1>1. f \in Fragments
  BY ElementOfSeq
<1>2. root \in Roots
  BY DEF RootOfMaps
<1>3. AssignsFields(f, Len(Fields[f]), root, next)
  BY <1>1, <1>2, AssignFieldsAll
<1>4. \A l : l \in 1..(i+1) <=> l \in 1..i \/ l = i + 1
  OBVIOUS
<1> HIDE DEF next
<1>5. ASSUME NEW l \in 1..(i+1), NEW field \in Declared(resolverMaps[l])
      PROVE  field.name \in DOMAIN next
  <2>1. CASE l \in 1..i
    BY <1>3, <2>1 DEF AssignsFields, RootOfMaps
  <2>2. CASE l = i + 1
    <3>1. \E j \in 1..Len(Fields[f]) : field = Fields[f][j]
      BY <1>1, <1>5, <2>2, FieldsOfFragment
    <3> QED
      BY <1>3, <3>1 DEF AssignsFields
  <2> QED
    BY <1>4, <2>1, <2>2
<1>6. ASSUME NEW name \in DOMAIN next
      PROVE  \E l \in 1..(i+1) : \E field \in Declared(resolverMaps[l]) :
               /\ field.name = name /\ next[name] = [of |-> resolverMaps[l], field |-> field]
               /\ LastOfName(name, l, i + 1)
  <2>1. CASE /\ name \in DOMAIN root /\ next[name] = root[name]
             /\ \A j \in 1..Len(Fields[f]) : Fields[f][j].name # name
    <3>1. PICK l \in 1..i : \E field \in Declared(resolverMaps[l]) :
            /\ field.name = name /\ root[name] = [of |-> resolverMaps[l], field |-> field]
            /\ LastOfName(name, l, i)
      BY <2>1 DEF RootOfMaps
    <3>2. \A other \in Declared(f) : other.name # name
      BY <1>1, <2>1, FieldsOfFragment
    <3>3. LastOfName(name, l, i + 1)
      BY <1>4, <3>1, <3>2 DEF LastOfName
    <3> QED
      BY <1>4, <2>1, <3>1, <3>3
  <2>2. ASSUME NEW j \in 1..Len(Fields[f]), Fields[f][j].name = name,
               next[name] = [of |-> f, field |-> Fields[f][j]]
        PROVE  \E l \in 1..(i+1) : \E field \in Declared(resolverMaps[l]) :
                 /\ field.name = name /\ next[name] = [of |-> resolverMaps[l], field |-> field]
                 /\ LastOfName(name, l, i + 1)
    <3>1. Fields[f][j] \in Declared(f)
      BY <1>1, FieldsOfFragment
    <3>2. i + 1 \in 1..(i+1) /\ LastOfName(name, i + 1, i + 1)
      BY DEF LastOfName
    <3> QED
      BY <2>2, <3>1, <3>2
  <2> QED
    BY <1>3, <2>1, <2>2 DEF AssignsFields
<1>7. next \in Roots
  BY <1>3 DEF AssignsFields
<1> QED
  BY <1>5, <1>6, <1>7 DEF RootOfMaps, next

(* buildRootValue has a resolver for each name that some map registers, and*)
(* it is one of that name.                                                 *)
LEMMA BuildRootValueOfMaps ==
  ASSUME resolverMaps \in Seq(Fragments)
  PROVE  RootOfMaps(Len(resolverMaps), BuildRootValue)
<1> DEFINE n == Len(resolverMaps)
           F == [i \in 1..n |-> [r \in Roots |-> AssignFields(r, resolverMaps[i])]]
<1>1. n \in Nat /\ \A i \in 1..n : resolverMaps[i] \in Fragments
  BY LenProperties, ElementOfSeq
<1>2. << >> \in Roots
  <2>1. << >> \in [{} -> Resolvers]
    OBVIOUS
  <2> QED
    BY <2>1 DEF Roots
<1>3. F \in [1..n -> [Roots -> Roots]]
  BY <1>1, AssignFieldsAll DEF AssignsFields
<1>4. PICK g : /\ g \in [0..n -> Roots]
               /\ g[0] = << >> /\ \A i \in 1..n : g[i] = F[i][g[i-1]]
  <2> HIDE DEF F, n
  <2>1. \E g : IsLoop(g, n, Roots, << >>, F)
    BY <1>1, <1>2, <1>3, LoopHasValues
  <2> QED
    BY <2>1 DEF IsLoop
<1>5. ASSUME NEW i \in 1..n
      PROVE  g[i] = AssignFields(g[i-1], resolverMaps[i])
  <2>1. g[i-1] \in Roots
    BY <1>1, <1>4
  <2>2. F[i][g[i-1]] = AssignFields(g[i-1], resolverMaps[i])
    BY <2>1
  <2> QED
    BY <1>4, <2>2
<1> DEFINE Loop(h) ==
      h = [i \in 0..n |-> IF i = 0 THEN << >> ELSE AssignFields(h[i-1], resolverMaps[i])]
<1>6. Loop(g)
  <2>1. \A i \in 0..n : i # 0 => i \in 1..n
    BY <1>1
  <2> QED
    BY <1>4, <1>5, <2>1
<1> DEFINE root == CHOOSE h : Loop(h)
<1>7. BuildRootValue = root[n]
  BY DEF BuildRootValue
<1>8. Loop(root)
  <2> HIDE DEF Loop
  <2> QED
    BY <1>6
<1> HIDE DEF root
<1>9. root[0] = << >> /\ \A i \in 1..n : root[i] = AssignFields(root[i-1], resolverMaps[i])
  <2>1. 0 \in 0..n /\ \A i \in 1..n : i \in 0..n /\ i # 0
    BY <1>1
  <2> QED
    BY <1>8, <2>1
<1> DEFINE S == {i \in 0..n : RootOfMaps(i, root[i])}
<1>10. 0 \in S
  <2>1. 1..0 = {} /\ 0 \in 0..n /\ DOMAIN << >> = {}
    BY <1>1
  <2> QED
    BY <1>2, <1>9, <2>1 DEF RootOfMaps
<1>11. ASSUME NEW i \in 0..n, i \in S, i < n
       PROVE  i + 1 \in S
  <2>1. i \in Nat /\ i + 1 \in 1..n /\ i + 1 \in 0..n /\ (i + 1) - 1 = i
    BY <1>1, <1>11
  <2>2. root[i+1] = AssignFields(root[i], resolverMaps[i+1]) /\ RootOfMaps(i, root[i])
    BY <1>9, <1>11, <2>1
  <2> QED
    BY <2>1, <2>2, RootOfNextMap
<1>12. n \in S
  <2> HIDE DEF S
  <2>1. 0..n \subseteq S
    BY <1>1, <1>10, <1>11, UpTo
  <2> QED
    BY <1>1, <2>1
<1> QED
  BY <1>7, <1>12

-----------------------------------------------------------------------------
(* The life cycle.                                                         *)

AllAnswers == HttpAnswers \cup GraphqlAnswers

(* A server exists once start is called; the field never holds a closed    *)
(* one; and what a stop that resolved has closed is closed.                *)
ServersInOrder ==
  /\ \A k \in Starts : started[k] = "idle" <=> socket[k] = "none"
  /\ server # NoServer => socket[server] \in {"opening", "listening", "closing"}
  /\ \A t \in Stops :
       /\ stopped[t] = "idle" => closes[t] = NoServer
       /\ stopped[t] = "resolved" /\ closes[t] # NoServer => socket[closes[t]] = "closed"

(* A request came to a server that listened; its connection keeps that from*)
(* being closed, and ends with the answer or because the client left.      *)
RequestsInOrder ==
  \A q \in Requests :
    /\ phase[q] = "none" <=> via[q] = NoServer
    /\ q \in connected => via[q] # NoServer /\ socket[via[q]] # "closed"
    /\ via[q] # NoServer => socket[via[q]] \in {"listening", "closing", "closed"}
    /\ via[q] # NoServer /\ q \notin connected => phase[q] = "answered" \/ q \in left
    /\ answer[q] # "none" => phase[q] = "answered"

(* A caller that takes turns has one server that is not closed: the one of *)
(* the field, which also a callback of close cannot take from another.     *)
OneServer ==
  instance.takesTurns =>
    \A k \in Starts : socket[k] \in {"opening", "listening", "closing"} => server = k

LifecycleInv ==
  LifecycleTypeOK(AllAnswers) /\ ServersInOrder /\ RequestsInOrder /\ OneServer

(* The steps of the life cycle, whichever the server.                      *)
Arrives(q, k) ==
  /\ Accept(q, k)
  /\ Read(q) \/ SendJson(q, "404")
  /\ UNCHANGED <<instance, serverVars, left, fatal>>
LifecycleStep ==
  \/ \E k \in Starts : Start(k) \/ Listening(k) \/ ListenFails(k) \/ Closed(k)
  \/ \E t \in Stops : Stop(t)
  \/ \E q \in Requests : \E k \in Starts : Arrives(q, k)
  \/ \E q \in Requests : \E status \in AllAnswers : Answer(q, status)
  \/ \E q \in Requests : BodyEnds(q) \/ BodyMalformed(q) \/ AnswerUnserialisable(q) \/ Disconnect(q)
  \/ UNCHANGED lifecycleVars

LEMMA LifecycleStarts == Init => LifecycleInv
<1> SUFFICES ASSUME Init
             PROVE  LifecycleInv
  OBVIOUS
<1>1. LifecycleTypeOK(AllAnswers)
  BY DEF Init, LifecycleInit, LifecycleTypeOK, Fatalities
<1>2. ServersInOrder /\ RequestsInOrder /\ OneServer
  BY DEF Init, LifecycleInit, ServersInOrder, RequestsInOrder, OneServer
<1> QED
  BY <1>1, <1>2 DEF LifecycleInv

LEMMA StartKeeps ==
  ASSUME LifecycleInv, NEW k \in Starts, Start(k)
  PROVE  LifecycleInv'
<1>1. k # NoServer /\ socket[k] = "none"
  BY ServerAssumption DEF LifecycleInv, ServersInOrder, Start
<1>2. LifecycleTypeOK(AllAnswers)'
  BY DEF LifecycleInv, LifecycleTypeOK, Start, requestVars
<1>3. ServersInOrder'
  <2>1. \A j \in Starts : started'[j] = "idle" <=> socket'[j] = "none"
    BY <1>1 DEF LifecycleInv, LifecycleTypeOK, ServersInOrder, Start
  <2>2. socket'[server'] = "opening"
    BY DEF LifecycleInv, LifecycleTypeOK, Start
  <2>3. ASSUME NEW t \in Stops
        PROVE  /\ stopped'[t] = "idle" => closes'[t] = NoServer
               /\ stopped'[t] = "resolved" /\ closes'[t] # NoServer => socket'[closes'[t]] = "closed"
    <3>1. closes[t] # NoServer => closes[t] \in Starts
      BY DEF LifecycleInv, LifecycleTypeOK
    <3> QED
      BY <1>1, <3>1 DEF LifecycleInv, LifecycleTypeOK, ServersInOrder, Start
  <2> QED
    BY <2>1, <2>2, <2>3 DEF ServersInOrder
<1>4. RequestsInOrder'
  <2>1. ASSUME NEW q \in Requests, via[q] # NoServer
        PROVE  via[q] # k /\ socket'[via[q]] = socket[via[q]]
    <3>1. via[q] \in Starts /\ via[q] # k
      BY <1>1, <2>1 DEF LifecycleInv, LifecycleTypeOK, RequestsInOrder
    <3> QED
      BY <3>1 DEF LifecycleInv, LifecycleTypeOK, Start
  <2> QED
    BY <2>1 DEF LifecycleInv, RequestsInOrder, Start, requestVars
<1>5. OneServer'
  <2> SUFFICES ASSUME instance.takesTurns, NEW j \in Starts, j # k
               PROVE  socket'[j] \notin {"opening", "listening", "closing"}
    BY DEF OneServer, Start
  <2>1. socket'[j] = socket[j]
    BY DEF LifecycleInv, LifecycleTypeOK, Start
  <2>2. CASE started[j] = "idle"
    BY <2>1, <2>2 DEF LifecycleInv, ServersInOrder
  <2>3. CASE started[j] # "idle"
    <3>1. PICK t \in Stops : closes[t] = j /\ stopped[t] = "resolved"
      BY <2>3 DEF Start, MayStart, AllStopped
    <3> QED
      BY <2>1, <3>1, ServerAssumption DEF LifecycleInv, ServersInOrder
  <2> QED
    BY <2>2, <2>3
<1> QED
  BY <1>2, <1>3, <1>4, <1>5 DEF LifecycleInv

LEMMA ListeningKeeps ==
  ASSUME LifecycleInv, NEW k \in Starts, Listening(k) \/ ListenFails(k)
  PROVE  LifecycleInv'
<1>1. CASE Listening(k)
  <2>1. LifecycleTypeOK(AllAnswers)'
    BY <1>1 DEF LifecycleInv, LifecycleTypeOK, Listening, requestVars, Fatalities
  <2>2. \A j \in Starts : j # k => socket'[j] = socket[j]
    BY <1>1 DEF LifecycleInv, LifecycleTypeOK, Listening
  <2>3. socket[k] = "opening" /\ socket'[k] = "listening" /\ k # NoServer
    BY <1>1, ServerAssumption DEF LifecycleInv, LifecycleTypeOK, Listening
  <2>4. ServersInOrder'
    <3>1. \A j \in Starts : started'[j] = "idle" <=> socket'[j] = "none"
      BY <1>1, <2>2, <2>3 DEF LifecycleInv, LifecycleTypeOK, ServersInOrder, Listening
    <3>2. server' # NoServer => socket'[server'] \in {"opening", "listening", "closing"}
      <4>1. server' = server /\ (server # NoServer => server \in Starts)
        BY <1>1 DEF LifecycleInv, LifecycleTypeOK, Listening
      <4> QED
        BY <2>2, <2>3, <4>1 DEF LifecycleInv, ServersInOrder
    <3>3. ASSUME NEW t \in Stops
          PROVE  /\ stopped'[t] = "idle" => closes'[t] = NoServer
                 /\ stopped'[t] = "resolved" /\ closes'[t] # NoServer
                      => socket'[closes'[t]] = "closed"
      <4>1. stopped' = stopped /\ closes' = closes
        BY <1>1 DEF Listening
      <4>2. closes[t] # NoServer => closes[t] \in Starts
        BY DEF LifecycleInv, LifecycleTypeOK
      <4> QED
        BY <2>2, <2>3, <4>1, <4>2 DEF LifecycleInv, ServersInOrder
    <3> QED
      BY <3>1, <3>2, <3>3 DEF ServersInOrder
  <2>5. RequestsInOrder'
    <3>1. UNCHANGED requestVars
      BY <1>1 DEF Listening
    <3>2. ASSUME NEW q \in Requests, via[q] # NoServer
          PROVE  /\ socket'[via[q]] \in {socket[via[q]], "listening"}
                 /\ socket'[via[q]] = "closed" => socket[via[q]] = "closed"
      <4>1. via[q] \in Starts
        BY <3>2 DEF LifecycleInv, LifecycleTypeOK
      <4> QED
        BY <2>2, <2>3, <4>1
    <3> QED
      BY <3>1, <3>2 DEF LifecycleInv, RequestsInOrder, requestVars
  <2>6. OneServer'
    BY <1>1, <2>2, <2>3 DEF LifecycleInv, OneServer, Listening
  <2> QED
    BY <2>1, <2>4, <2>5, <2>6 DEF LifecycleInv
<1>2. CASE ListenFails(k)
  BY <1>2 DEF LifecycleInv, LifecycleTypeOK, ServersInOrder, RequestsInOrder, OneServer,
              ListenFails, serverVars, requestVars, Fatalities
<1> QED
  BY <1>1, <1>2

LEMMA StopKeeps ==
  ASSUME LifecycleInv, NEW t \in Stops, Stop(t)
  PROVE  LifecycleInv'
<1>1. stopped[t] = "idle" /\ closes[t] = NoServer
  BY DEF LifecycleInv, ServersInOrder, Stop
<1>2. CASE server = NoServer
  <2>1. /\ stopped' = [stopped EXCEPT ![t] = "resolved"]
        /\ UNCHANGED <<instance, server, socket, started, closes, requestVars, fatal>>
    BY <1>2 DEF Stop, requestVars
  <2>2. LifecycleTypeOK(AllAnswers)'
    BY <2>1 DEF LifecycleInv, LifecycleTypeOK, requestVars
  <2>3. ServersInOrder'
    BY <1>1, <2>1 DEF LifecycleInv, LifecycleTypeOK, ServersInOrder
  <2>4. RequestsInOrder' /\ OneServer'
    BY <2>1 DEF LifecycleInv, RequestsInOrder, OneServer, requestVars
  <2> QED
    BY <2>2, <2>3, <2>4 DEF LifecycleInv
<1>3. CASE server # NoServer
  <2>1. server \in Starts /\ socket[server] \in {"opening", "listening", "closing"}
    BY <1>3 DEF LifecycleInv, LifecycleTypeOK, ServersInOrder
  <2>2. /\ \E now \in {"pending", "late"} : stopped' = [stopped EXCEPT ![t] = now]
        /\ closes' = [closes EXCEPT ![t] = server]
        /\ socket' = [socket EXCEPT ![server] = "closing"]
        /\ connected' = {q \in connected : via[q] # server \/ ~Idle(q)}
        /\ UNCHANGED <<instance, server, started, phase, via, left, answer, fatal>>
    BY <1>3 DEF Stop
  <2>3. LifecycleTypeOK(AllAnswers)'
    BY <2>1, <2>2 DEF LifecycleInv, LifecycleTypeOK
  <2>4. ServersInOrder'
    <3>1. /\ \A k \in Starts : started'[k] = "idle" <=> socket'[k] = "none"
          /\ socket'[server'] = "closing"
      BY <2>1, <2>2 DEF LifecycleInv, LifecycleTypeOK, ServersInOrder
    <3>2. ASSUME NEW u \in Stops
          PROVE  /\ stopped'[u] = "idle" => closes'[u] = NoServer
                 /\ stopped'[u] = "resolved" /\ closes'[u] # NoServer
                      => socket'[closes'[u]] = "closed"
      <4>1. CASE u = t
        <5>1. stopped'[u] \in {"pending", "late"}
          BY <2>2, <4>1 DEF LifecycleInv, LifecycleTypeOK
        <5> QED
          BY <5>1
      <4>2. CASE u # t
        <5>1. stopped'[u] = stopped[u] /\ closes'[u] = closes[u]
          BY <2>2, <4>2 DEF LifecycleInv, LifecycleTypeOK
        <5>2. closes[u] # NoServer => closes[u] \in Starts
          BY DEF LifecycleInv, LifecycleTypeOK
        <5> QED
          BY <2>1, <2>2, <5>1, <5>2 DEF LifecycleInv, LifecycleTypeOK, ServersInOrder
      <4> QED
        BY <4>1, <4>2
    <3> QED
      BY <3>1, <3>2 DEF ServersInOrder
  <2>5. RequestsInOrder'
    <3>1. ASSUME NEW q \in Requests, via[q] # NoServer
          PROVE  /\ socket'[via[q]] \in {socket[via[q]], "closing"}
                 /\ socket'[via[q]] = "closed" <=> socket[via[q]] = "closed"
      <4>1. via[q] \in Starts
        BY <3>1 DEF LifecycleInv, LifecycleTypeOK
      <4> QED
        BY <2>1, <2>2, <4>1 DEF LifecycleInv, LifecycleTypeOK
    <3>2. connected' \subseteq connected
          /\ \A q \in connected \ connected' : phase[q] = "answered"
      BY <2>2 DEF Idle
    <3> QED
      BY <2>2, <3>1, <3>2 DEF LifecycleInv, RequestsInOrder
  <2>6. OneServer'
    BY <2>1, <2>2 DEF LifecycleInv, LifecycleTypeOK, OneServer
  <2> QED
    BY <2>3, <2>4, <2>5, <2>6 DEF LifecycleInv
<1> QED
  BY <1>2, <1>3

LEMMA ClosedKeeps ==
  ASSUME LifecycleInv, NEW k \in Starts, Closed(k)
  PROVE  LifecycleInv'
<1>1. k # NoServer /\ socket[k] = "closing" /\ \A q \in connected : via[q] # k
  BY ServerAssumption DEF Closed
<1>2. /\ socket'[k] = "closed"
      /\ \A j \in Starts : j # k => socket'[j] = socket[j]
  BY DEF LifecycleInv, LifecycleTypeOK, Closed
<1>3. ASSUME NEW t \in Stops
      PROVE  /\ closes[t] # k => stopped'[t] = stopped[t]
             /\ stopped'[t] \in {"idle", "pending", "late", "resolved", "rejected"}
             /\ stopped'[t] = "idle" => stopped[t] = "idle"
  BY DEF LifecycleInv, LifecycleTypeOK, Closed
<1>4. LifecycleTypeOK(AllAnswers)'
  <2>1. stopped' \in [Stops -> {"idle", "pending", "late", "resolved", "rejected"}]
    BY <1>3 DEF Closed
  <2> QED
    BY <2>1 DEF LifecycleInv, LifecycleTypeOK, Closed, requestVars
<1>5. ServersInOrder'
  <2>1. \A t \in Stops : closes[t] # NoServer => closes[t] \in Starts
    BY DEF LifecycleInv, LifecycleTypeOK
  <2> QED
    BY <1>1, <1>2, <1>3, <2>1 DEF LifecycleInv, ServersInOrder, Closed
<1>6. RequestsInOrder'
  <2>1. \A q \in Requests : via[q] # NoServer => via[q] \in Starts
    BY DEF LifecycleInv, LifecycleTypeOK
  <2> QED
    BY <1>1, <1>2, <2>1 DEF LifecycleInv, RequestsInOrder, Closed, requestVars
<1>7. OneServer'
  BY <1>1, <1>2 DEF LifecycleInv, OneServer, Closed
<1> QED
  BY <1>4, <1>5, <1>6, <1>7 DEF LifecycleInv

(* Requests do not change what their steps do not touch of the servers.    *)
LEMMA RequestStepKeeps ==
  ASSUME LifecycleInv, UNCHANGED <<instance, serverVars>>,
         LifecycleTypeOK(AllAnswers)', RequestsInOrder'
  PROVE  LifecycleInv'
BY DEF LifecycleInv, ServersInOrder, OneServer, serverVars

LEMMA ArrivesKeeps ==
  ASSUME LifecycleInv, NEW q \in Requests, NEW k \in Starts, Arrives(q, k)
  PROVE  LifecycleInv'
<1>1. k # NoServer /\ socket[k] = "listening" /\ phase[q] = "none"
  BY ServerAssumption DEF Arrives, Accept
<1>2. /\ UNCHANGED <<instance, serverVars, left, fatal>>
      /\ via' = [via EXCEPT ![q] = k] /\ connected' = connected \cup {q}
      /\ \/ phase' = [phase EXCEPT ![q] = "reading"] /\ UNCHANGED answer
         \/ phase' = [phase EXCEPT ![q] = "answered"] /\ answer' = [answer EXCEPT ![q] = "404"]
  BY DEF Arrives, Accept, Read, SendJson
<1>3. LifecycleTypeOK(AllAnswers)'
  BY <1>2 DEF LifecycleInv, LifecycleTypeOK, serverVars, AllAnswers, HttpAnswers
<1>4. RequestsInOrder'
  <2>1. answer[q] = "none"
    BY <1>1 DEF LifecycleInv, RequestsInOrder
  <2>2. \A p \in Requests : p # q =>
          phase'[p] = phase[p] /\ via'[p] = via[p] /\ answer'[p] = answer[p]
    BY <1>2 DEF LifecycleInv, LifecycleTypeOK
  <2>3. /\ via'[q] = k /\ phase'[q] # "none"
        /\ answer'[q] # "none" => phase'[q] = "answered"
    BY <1>2, <2>1 DEF LifecycleInv, LifecycleTypeOK
  <2> QED
    BY <1>1, <1>2, <2>2, <2>3 DEF LifecycleInv, RequestsInOrder, serverVars
<1> QED
  BY <1>2, <1>3, <1>4, RequestStepKeeps

LEMMA HandlingKeeps ==
  ASSUME LifecycleInv, NEW q \in Requests,
         BodyEnds(q) \/ \E status \in AllAnswers : Answer(q, status)
  PROVE  LifecycleInv'
<1>1. /\ phase[q] \in {"reading", "handling"}
      /\ UNCHANGED <<instance, serverVars, via, connected, left, fatal>>
      /\ \/ phase' = [phase EXCEPT ![q] = "handling"] /\ UNCHANGED answer
         \/ /\ phase' = [phase EXCEPT ![q] = "answered"]
            /\ \E status \in AllAnswers : answer' = [answer EXCEPT ![q] = status]
  BY DEF BodyEnds, Answer, SendJson
<1>2. LifecycleTypeOK(AllAnswers)'
  BY <1>1 DEF LifecycleInv, LifecycleTypeOK, serverVars
<1>3. RequestsInOrder'
  <2>1. answer[q] = "none" /\ phase[q] # "none"
    BY <1>1 DEF LifecycleInv, RequestsInOrder
  <2>2. \A p \in Requests : p # q => phase'[p] = phase[p] /\ answer'[p] = answer[p]
    BY <1>1 DEF LifecycleInv, LifecycleTypeOK
  <2>3. phase'[q] # "none" /\ (answer'[q] # "none" => phase'[q] = "answered")
    BY <1>1, <2>1 DEF LifecycleInv, LifecycleTypeOK
  <2> QED
    BY <1>1, <2>1, <2>2, <2>3 DEF LifecycleInv, RequestsInOrder, serverVars
<1> QED
  BY <1>1, <1>2, <1>3, RequestStepKeeps

LEMMA DisconnectKeeps ==
  ASSUME LifecycleInv, NEW q \in Requests, Disconnect(q)
  PROVE  LifecycleInv'
<1>1. LifecycleTypeOK(AllAnswers)'
  BY DEF LifecycleInv, LifecycleTypeOK, Disconnect, serverVars
<1>2. RequestsInOrder'
  <2>1. phase[q] # "none" /\ (answer[q] # "none" => phase[q] = "answered")
    BY DEF LifecycleInv, RequestsInOrder, Disconnect
  <2>2. \A p \in Requests : p # q => phase'[p] = phase[p]
    BY DEF LifecycleInv, LifecycleTypeOK, Disconnect
  <2>3. /\ phase'[q] # "none" /\ (phase[q] = "answered" => phase'[q] = "answered")
        /\ phase'[q] = "answered" \/ q \in left'
    BY <2>1 DEF LifecycleInv, LifecycleTypeOK, Disconnect
  <2>4. /\ connected' = connected \ {q} /\ left \subseteq left'
        /\ UNCHANGED <<instance, serverVars, via, answer, fatal>>
    BY DEF Disconnect
  <2> QED
    BY <2>1, <2>2, <2>3, <2>4 DEF LifecycleInv, RequestsInOrder, serverVars
<1> QED
  BY <1>1, <1>2, RequestStepKeeps DEF Disconnect

LEMMA LifecycleStepKeeps ==
  ASSUME LifecycleInv, LifecycleStep
  PROVE  LifecycleInv'
<1>1. ASSUME NEW q \in Requests, BodyMalformed(q) \/ AnswerUnserialisable(q)
      PROVE  LifecycleInv'
  <2>1. UNCHANGED <<instance, serverVars, requestVars>> /\ fatal' \in Fatalities
    BY <1>1 DEF BodyMalformed, AnswerUnserialisable, Fatalities
  <2> QED
    BY <2>1 DEF LifecycleInv, LifecycleTypeOK, ServersInOrder, RequestsInOrder, OneServer,
                serverVars, requestVars
<1>2. CASE UNCHANGED lifecycleVars
  BY <1>2 DEF LifecycleInv, LifecycleTypeOK, ServersInOrder, RequestsInOrder, OneServer,
              lifecycleVars, serverVars, requestVars
<1> QED
  BY <1>1, <1>2, StartKeeps, ListeningKeeps, ClosedKeeps, StopKeeps, ArrivesKeeps, HandlingKeeps,
     DisconnectKeeps DEF LifecycleStep

-----------------------------------------------------------------------------
(* The steps of a process with one of the servers.                         *)

(* With an HttpServer the routes change, or what is known of one request.  *)
RouteAdded ==
  \E method \in Methods : \E path \in Paths :
    /\ Len(routes) < instance.registrations
    /\ routes' = Append(routes, [method |-> method, path |-> path])
    /\ UNCHANGED <<lifecycleVars, target, match, known>>
HttpStep ==
  /\ Http
  /\ \/ RouteAdded
     \/ \E q \in Requests : \E k \in Starts : HttpHandleRequest(q, k)
     \/ /\ LifecycleStep /\ UNCHANGED routeVars
        /\ \A q \in Requests : phase[q] = "none" <=> phase'[q] = "none"
        /\ \A q \in Requests : answer'[q] # answer[q] =>
             answer[q] = "none" /\ answer'[q] \in {"handled", "500"}

LEMMA HttpSteps ==
  ASSUME LifecycleInv, HttpNext
  PROVE  HttpStep
<1>1. ASSUME NEW q \in Requests, HandlerSettles(q)
      PROVE  HttpStep
  <2>1. CASE HandlerUnserialisable(q)
    BY <1>1, <2>1 DEF HandlerUnserialisable, AnswerUnserialisable, HttpStep, LifecycleStep, requestVars
  <2>2. ASSUME NEW status \in {"handled", "500"}, Http, Answer(q, status), UNCHANGED routeVars
        PROVE  HttpStep
    <3>1. LifecycleStep
      BY <2>2 DEF LifecycleStep, AllAnswers, HttpAnswers
    <3>2. \A p \in Requests :
            /\ phase[p] = "none" <=> phase'[p] = "none"
            /\ answer'[p] # answer[p] => answer[p] = "none" /\ answer'[p] \in {"handled", "500"}
      <4>1. answer[q] = "none"
        BY <2>2 DEF Answer, LifecycleInv, RequestsInOrder
      <4> QED
        BY <2>2, <4>1 DEF Answer, SendJson, LifecycleInv, LifecycleTypeOK
    <3> QED
      BY <2>2, <3>1, <3>2 DEF HttpStep
  <2> QED
    BY <1>1, <2>1, <2>2 DEF HandlerSettles, HandlerResolves, HandlerRejects
<1>2. ASSUME Http, UNCHANGED routeVars,
             Lifecycle \/ (\E k \in Starts : Start(k)) \/ \E q \in Requests : BodyEnds(q)
      PROVE  HttpStep
  <2>1. LifecycleStep
    BY <1>2 DEF Lifecycle, LifecycleStep
  <2>2. \A q \in Requests : (phase[q] = "none" <=> phase'[q] = "none") /\ answer'[q] = answer[q]
    <3>1. CASE \E q \in Requests : Disconnect(q) \/ BodyEnds(q)
      <4>1. ASSUME NEW q \in Requests, Disconnect(q) \/ BodyEnds(q)
            PROVE  answer' = answer /\ \A p \in Requests : phase[p] = "none" <=> phase'[p] = "none"
        BY <4>1 DEF Disconnect, BodyEnds, LifecycleInv, LifecycleTypeOK
      <4> QED
        BY <3>1, <4>1
    <3>2. CASE ~\E q \in Requests : Disconnect(q) \/ BodyEnds(q)
      BY <1>2, <3>2 DEF Lifecycle, Start, Listening, ListenFails, Closed, Stop, BodyMalformed,
                        requestVars
    <3> QED
      BY <3>1, <3>2
  <2> QED
    BY <1>2, <2>1, <2>2 DEF HttpStep
<1>3. ASSUME NEW path \in Paths, NEW method \in Methods, AddRoute(method, path)
      PROVE  HttpStep
  <2>1. Http /\ RouteAdded
    BY <1>3 DEF AddRoute, RouteAdded
  <2> QED
    BY <2>1 DEF HttpStep
<1>4. ASSUME NEW q \in Requests, NEW k \in Starts, HttpHandleRequest(q, k)
      PROVE  HttpStep
  <2>1. Http
    BY <1>4 DEF HttpHandleRequest
  <2> QED
    BY <1>4, <2>1 DEF HttpStep
<1> QED
  BY <1>1, <1>2, <1>3, <1>4 DEF HttpNext, Get, Post, Methods

(* With a GraphqlServer the fragments or the schema change, or what is     *)
(* known of one request.                                                   *)
SettlesQuery(q) ==
  \E status \in GraphqlAnswers :
    /\ Answer(q, status)
    /\ status \in {"data", "errors"} => resolver[q] # NoResolver
    /\ status = "refused" => resolver[q] = NoResolver
    /\ UNCHANGED graphqlVars
GraphqlStep ==
  /\ Graphql
  /\ \/ \E f \in Fragments : AddSchema(f)
     \/ \E k \in Starts : StartServer(k)
     \/ \E q \in Requests : Execute(q) \/ SettlesQuery(q)
     \/ /\ LifecycleStep /\ UNCHANGED <<graphqlVars, answer>>
        /\ \A k \in Starts : started'[k] # "idle" => started[k] # "idle"
        /\ \A q \in Requests : phase'[q] \in {"handling", "answered"} => phase'[q] = phase[q]

LEMMA GraphqlSteps ==
  ASSUME LifecycleInv, GraphqlNext
  PROVE  GraphqlStep
<1>1. ASSUME NEW q \in Requests, QuerySettles(q)
      PROVE  GraphqlStep
  <2>1. Graphql /\ SettlesQuery(q)
    BY <1>1 DEF QuerySettles, ResolverSettles, Refuse, Reject, SettlesQuery, GraphqlAnswers
  <2> QED
    BY <2>1 DEF GraphqlStep
<1>2. ASSUME NEW q \in Requests, NEW k \in Starts, GraphqlHandleRequest(q, k)
      PROVE  GraphqlStep
  <2>1. Graphql /\ LifecycleStep /\ UNCHANGED <<graphqlVars, started, answer>>
    BY <1>2 DEF GraphqlHandleRequest, LifecycleStep, Arrives, Read, serverVars
  <2>2. \A p \in Requests : phase'[p] \in {"handling", "answered"} => phase'[p] = phase[p]
    BY <1>2 DEF GraphqlHandleRequest, Read, LifecycleInv, LifecycleTypeOK
  <2> QED
    BY <2>1, <2>2 DEF GraphqlStep
<1>3. ASSUME Graphql, Lifecycle, UNCHANGED graphqlVars
      PROVE  GraphqlStep
  <2>1. LifecycleStep
    BY <1>3 DEF Lifecycle, LifecycleStep
  <2>2. answer' = answer
    BY <1>3 DEF Lifecycle, Listening, ListenFails, Closed, Stop, BodyMalformed, Disconnect, requestVars
  <2>3. \A k \in Starts : started'[k] # "idle" => started[k] # "idle"
    <3>1. ASSUME NEW j \in Starts, Listening(j)
          PROVE  \A k \in Starts : started'[k] # "idle" => started[k] # "idle"
      <4>1. started[j] # "idle"
        BY <3>1 DEF Listening, LifecycleInv, ServersInOrder
      <4> QED
        BY <3>1, <4>1 DEF Listening, LifecycleInv, LifecycleTypeOK
    <3> QED
      BY <1>3, <3>1 DEF Lifecycle, ListenFails, Closed, Stop, BodyMalformed, Disconnect, serverVars
  <2>4. \A q \in Requests : phase'[q] \in {"handling", "answered"} => phase'[q] = phase[q]
    <3>1. ASSUME NEW p \in Requests, Disconnect(p)
          PROVE  \A q \in Requests : phase'[q] \in {"handling", "answered"} => phase'[q] = phase[q]
      BY <3>1 DEF Disconnect, LifecycleInv, LifecycleTypeOK
    <3> QED
      BY <1>3, <3>1 DEF Lifecycle, Listening, ListenFails, Closed, Stop, BodyMalformed, requestVars
  <2> QED
    BY <1>3, <2>1, <2>2, <2>3, <2>4 DEF GraphqlStep
<1>4. ASSUME NEW f \in Fragments, AddSchema(f)
      PROVE  GraphqlStep
  BY <1>4 DEF GraphqlStep, AddSchema
<1>5. ASSUME NEW k \in Starts, StartServer(k)
      PROVE  GraphqlStep
  BY <1>5 DEF GraphqlStep, StartServer
<1>6. ASSUME NEW q \in Requests, Execute(q)
      PROVE  GraphqlStep
  BY <1>6 DEF GraphqlStep, Execute
<1> QED
  BY <1>1, <1>2, <1>3, <1>4, <1>5, <1>6 DEF GraphqlNext

(* A request that has come stays so, and the instance is what it is.       *)
LEMMA LifecycleStepRemembers ==
  ASSUME LifecycleInv, LifecycleStep
  PROVE  /\ instance' = instance /\ instance \in Instances
         /\ \A q \in Requests : phase'[q] = "none" => phase[q] = "none"
<1>1. instance' = instance /\ instance \in Instances
  BY DEF LifecycleStep, Start, Listening, ListenFails, Closed, Stop, Arrives, Answer, BodyEnds,
     BodyMalformed, AnswerUnserialisable, Disconnect, lifecycleVars, LifecycleInv, LifecycleTypeOK
<1>2. ASSUME NEW q \in Requests, phase'[q] = "none"
      PROVE  phase[q] = "none"
  <2>1. ASSUME NEW p \in Requests,
               \E now \in {"reading", "answered", "handling", "abandoned"} :
                 phase' = [phase EXCEPT ![p] = now]
        PROVE  phase[q] = "none"
    BY <1>2, <2>1 DEF LifecycleInv, LifecycleTypeOK
  <2>2. CASE UNCHANGED phase
    BY <1>2, <2>2
  <2> QED
    BY <2>1, <2>2 DEF LifecycleStep, Start, Listening, ListenFails, Closed, Stop, Arrives, Read,
       SendJson, Answer, BodyEnds, BodyMalformed, AnswerUnserialisable, Disconnect, lifecycleVars,
       requestVars
<1> QED
  BY <1>1, <1>2

(* A step is one of the life cycle, and one of the server of the instance. *)
LEMMA ServerSteps ==
  ASSUME LifecycleInv, [Next]_vars
  PROVE  /\ LifecycleStep
         /\ \/ HttpStep /\ UNCHANGED graphqlVars
            \/ GraphqlStep /\ UNCHANGED routeVars
            \/ UNCHANGED vars
<1>1. ASSUME HttpStep
      PROVE  LifecycleStep
  <2>1. ASSUME NEW q \in Requests, NEW k \in Starts, HttpHandleRequest(q, k)
        PROVE  LifecycleStep
    <3>1. Arrives(q, k)
      BY <2>1 DEF HttpHandleRequest, Arrives
    <3> QED
      BY <3>1 DEF LifecycleStep
  <2>2. CASE RouteAdded
    BY <2>2 DEF RouteAdded, LifecycleStep
  <2> QED
    BY <1>1, <2>1, <2>2 DEF HttpStep
<1>2. ASSUME GraphqlStep
      PROVE  LifecycleStep
  BY <1>2 DEF GraphqlStep, AddSchema, StartServer, Execute, SettlesQuery, LifecycleStep, AllAnswers
<1>3. CASE UNCHANGED vars
  BY <1>3 DEF vars, LifecycleStep
<1> QED
  BY <1>1, <1>2, <1>3, HttpSteps, GraphqlSteps DEF Next

-----------------------------------------------------------------------------
(* The routes.                                                             *)

Routes == [method : Methods, path : Paths]

(* The table only grows; a request knows the part of it that was there when*)
(* it arrived, and is handled by the first route of that part.             *)
RoutesInv ==
  /\ instance.registrations \in Nat
  /\ routes \in Seq(Routes) /\ Len(routes) <= instance.registrations
  /\ target \in [Requests -> Targets]
  /\ match \in [Requests -> [route : Nat, params : ParamsOrNone]]
  /\ known \in [Requests -> Nat]
  /\ \A q \in Requests : match[q].route <= Len(routes) /\ known[q] <= Len(routes)
  /\ \A q \in Requests : phase[q] = "none" => match[q] = Unmatched
  /\ RoutedToFirstMatch

LEMMA InstanceOf ==
  ASSUME instance \in Instances
  PROVE  instance.registrations \in Nat /\ (Http <=> ~Graphql)
<1>1. instance \in [kind : {"http", "graphql"}, takesTurns : BOOLEAN, registrations : Nat,
                    starts : SUBSET Starts, stops : SUBSET Stops, requests : SUBSET Requests]
  BY InstancesAssumption
<1> QED
  BY <1>1 DEF Http, Graphql

LEMMA RoutesStart == Init => RoutesInv
<1> SUFFICES ASSUME Init
             PROVE  RoutesInv
  OBVIOUS
<1>1. instance.registrations \in Nat
  BY InstanceOf DEF Init, LifecycleInit
<1>2. routes \in Seq(Routes) /\ Len(routes) = 0
  BY EmptySeq DEF Init, RoutesInit
<1>3. target \in [Requests -> Targets] /\ \A q \in Requests : phase[q] = "none"
  BY DEF Init, RoutesInit, LifecycleInit
<1>4. /\ match = [q \in Requests |-> Unmatched] /\ known = [q \in Requests |-> 0]
      /\ Unmatched \in [route : Nat, params : ParamsOrNone] /\ Unmatched.route = 0
  BY DEF Init, RoutesInit, Unmatched, ParamsOrNone
<1>5. RoutedToFirstMatch
  BY <1>3 DEF RoutedToFirstMatch
<1> QED
  BY <1>1, <1>2, <1>3, <1>4, <1>5 DEF RoutesInv

(* What one request has of RoutedToFirstMatch.                             *)
FirstMatch(q) ==
  LET matching == {i \in 1..known[q] : Matches(routes[i], target[q])}
  IN IF matching = {} THEN answer[q] = "404" /\ match[q] = Unmatched
     ELSE /\ answer[q] # "404"
          /\ match[q].route \in matching /\ \A i \in matching : match[q].route <= i
          /\ match[q].params = [p \in ParamSegments |->
               ParamOf(routes[match[q].route].path, target[q].url, p)]

LEMMA RouteAddedKeeps ==
  ASSUME RoutesInv, RouteAdded
  PROVE  RoutesInv'
<1>1. PICK route \in Routes : routes' = Append(routes, route)
  BY DEF RouteAdded, Routes
<1>2. /\ routes' \in Seq(Routes) /\ Len(routes') = Len(routes) + 1 /\ Len(routes) \in Nat
      /\ \A i \in 1..Len(routes) : routes'[i] = routes[i]
  BY <1>1, AppendProperties, LenProperties DEF RoutesInv
<1>3. /\ Len(routes) < instance.registrations
      /\ UNCHANGED <<lifecycleVars, target, match, known>>
  BY DEF RouteAdded
<1>4. RoutedToFirstMatch'
  <2>1. ASSUME NEW q \in Requests
        PROVE  FirstMatch(q)' <=> FirstMatch(q)
    <3> DEFINE matching == {i \in 1..known[q] : Matches(routes[i], target[q])}
    <3>1. \A i \in 1..known[q] : i \in 1..Len(routes)
      BY <1>2 DEF RoutesInv
    <3>2. {i \in 1..known'[q] : Matches(routes'[i], target'[q])} = matching
      BY <1>2, <1>3, <3>1 DEF Matches
    <3>3. match[q].route \in matching => routes'[match[q].route] = routes[match[q].route]
      BY <1>2, <3>1
    <3> QED
      BY <1>3, <3>2, <3>3 DEF FirstMatch, lifecycleVars, requestVars
  <2> QED
    BY <1>3, <2>1 DEF RoutesInv, RoutedToFirstMatch, FirstMatch, lifecycleVars, requestVars, Http
<1> QED
  BY <1>2, <1>3, <1>4 DEF RoutesInv, lifecycleVars, requestVars

LEMMA HttpHandleRequestKeeps ==
  ASSUME LifecycleInv, RoutesInv, NEW q \in Requests, NEW k \in Starts, HttpHandleRequest(q, k)
  PROVE  RoutesInv'
<1> DEFINE r == MatchRoute(target[q])
           params == ExtractParams(routes[r].path, target[q].url)
           matching == {i \in 1..Len(routes) : Matches(routes[i], target[q])}
<1>1. /\ phase[q] = "none" /\ match[q] = Unmatched /\ answer[q] = "none"
      /\ UNCHANGED <<instance, routes, target>> /\ known' = [known EXCEPT ![q] = Len(routes)]
      /\ \/ /\ r = 0 /\ phase' = [phase EXCEPT ![q] = "answered"]
            /\ answer' = [answer EXCEPT ![q] = "404"] /\ match' = match
         \/ /\ r # 0 /\ phase' = [phase EXCEPT ![q] = "reading"] /\ answer' = answer
            /\ match' = [match EXCEPT ![q] = [route |-> r, params |-> params]]
  BY DEF HttpHandleRequest, Accept, SendJson, Read, LifecycleInv, RequestsInOrder, RoutesInv
<1>2. target[q] \in Targets /\ target[q].url \in Urls /\ Len(routes) \in Nat
  BY LenProperties DEF RoutesInv, Targets
<1> HIDE DEF r
<1>3. \/ r = 0 /\ matching = {}
      \/ r \in matching /\ \A i \in matching : r <= i
  BY <1>2, MatchRouteIsFirst DEF RoutesInv, Routes, r
<1>4. ASSUME r # 0
      PROVE  /\ r \in 1..Len(routes) /\ params \in ParamsOrNone
             /\ params = [p \in ParamSegments |-> ParamOf(routes[r].path, target[q].url, p)]
  <2>1. r \in 1..Len(routes) /\ Matches(routes[r], target[q])
    BY <1>3, <1>4
  <2>2. routes[r] \in Routes
    BY <2>1, ElementOfSeq DEF RoutesInv
  <2>3. routes[r].path \in Paths
    BY <2>2 DEF Routes
  <2>4. ExtractParams(routes[r].path, target[q].url) # NoMatch
    BY <1>2, <2>1, <2>3, ExtractParamsIsMatch DEF Matches
  <2> QED
    BY <1>2, <2>1, <2>3, <2>4, ExtractParamsIsMatch
<1> HIDE DEF params
<1>5. /\ match' \in [Requests -> [route : Nat, params : ParamsOrNone]]
      /\ known' \in [Requests -> Nat]
      /\ \A p \in Requests : match'[p].route <= Len(routes) /\ known'[p] <= Len(routes)
  BY <1>1, <1>2, <1>4 DEF RoutesInv
<1>6. ASSUME NEW p \in Requests, p # q
      PROVE  UNCHANGED <<phase[p], answer[p], match[p], known[p]>>
  BY <1>1, <1>6 DEF RoutesInv, LifecycleInv, LifecycleTypeOK
<1>7. phase'[q] # "none" /\ known'[q] = Len(routes)
  BY <1>1 DEF RoutesInv, LifecycleInv, LifecycleTypeOK
<1>8. FirstMatch(q)'
  <2>1. {i \in 1..known'[q] : Matches(routes'[i], target'[q])} = matching
    BY <1>1, <1>7
  <2>2. CASE r = 0
    <3>1. matching = {}
      BY <1>2, <1>3, <2>2
    <3>2. answer'[q] = "404" /\ match'[q] = Unmatched
      BY <1>1, <2>2 DEF LifecycleInv, LifecycleTypeOK
    <3> QED
      BY <2>1, <3>1, <3>2 DEF FirstMatch
  <2>3. CASE r # 0
    <3>1. r \in matching /\ \A i \in matching : r <= i
      BY <1>3, <2>3
    <3>2. answer'[q] # "404" /\ match'[q].route = r /\ match'[q].params = params
      BY <1>1, <2>3 DEF RoutesInv
    <3> HIDE DEF matching
    <3> QED
      BY <1>1, <1>4, <2>1, <2>3, <3>1, <3>2 DEF FirstMatch
  <2> QED
    BY <2>2, <2>3
<1>9. RoutedToFirstMatch'
  <2>1. ASSUME Http, NEW p \in Requests, p # q, phase[p] # "none"
        PROVE  FirstMatch(p)'
    <3>1. FirstMatch(p)
      BY <2>1 DEF RoutesInv, RoutedToFirstMatch, FirstMatch
    <3> QED
      BY <1>1, <1>6, <2>1, <3>1 DEF FirstMatch
  <2>2. ASSUME Http, NEW p \in Requests, phase'[p] # "none"
        PROVE  FirstMatch(p)'
    BY <1>6, <1>8, <2>1, <2>2
  <2> QED
    BY <1>1, <2>2 DEF RoutedToFirstMatch, FirstMatch, Http
<1> QED
  BY <1>1, <1>5, <1>6, <1>7, <1>9 DEF RoutesInv

LEMMA RoutesStep ==
  ASSUME LifecycleInv, RoutesInv, [Next]_vars
  PROVE  RoutesInv'
<1>1. /\ instance' = instance /\ instance \in Instances
      /\ \A q \in Requests : phase'[q] = "none" => phase[q] = "none"
  BY ServerSteps, LifecycleStepRemembers
<1>2. CASE HttpStep
  <2>1. ASSUME UNCHANGED routeVars,
               \A q \in Requests : phase[q] = "none" <=> phase'[q] = "none",
               \A q \in Requests : answer'[q] # answer[q] =>
                 answer[q] = "none" /\ answer'[q] \in {"handled", "500"}
        PROVE  RoutesInv'
    <3>1. ASSUME NEW q \in Requests, Http, phase'[q] # "none"
          PROVE  FirstMatch(q)'
      <4>1. FirstMatch(q)
        BY <2>1, <3>1 DEF RoutesInv, RoutedToFirstMatch, FirstMatch
      <4>2. answer'[q] = "404" <=> answer[q] = "404"
        BY <2>1
      <4> QED
        BY <2>1, <4>1, <4>2 DEF FirstMatch, routeVars
    <3>2. RoutedToFirstMatch'
      BY <1>1, <3>1 DEF RoutedToFirstMatch, FirstMatch, Http
    <3> QED
      BY <1>1, <2>1, <3>2 DEF RoutesInv, routeVars
  <2> QED
    BY <1>2, <2>1, RouteAddedKeeps, HttpHandleRequestKeeps DEF HttpStep
<1>3. CASE UNCHANGED vars
  BY <1>3 DEF vars, lifecycleVars, requestVars, routeVars, RoutesInv, RoutedToFirstMatch, Http
<1>4. CASE GraphqlStep /\ UNCHANGED routeVars
  BY <1>1, <1>4, InstanceOf DEF GraphqlStep, RoutesInv, RoutedToFirstMatch, routeVars, Http
<1> QED
  BY <1>2, <1>3, <1>4, ServerSteps

-----------------------------------------------------------------------------
(* The schema.                                                             *)

(* The maps have each fragment that was added, and each field of the schema*)
(* belongs to one of them.                                                 *)
MapsInOrder ==
  /\ instance.registrations \in Nat
  /\ schemaFragments \in Seq(Fragments) /\ Len(schemaFragments) <= instance.registrations
  /\ resolverMaps \in Seq(Fragments) /\ Len(resolverMaps) <= Len(schemaFragments) + 1
  /\ \A i \in 1..Len(schemaFragments) :
       \E j \in 1..Len(resolverMaps) : resolverMaps[j] = schemaFragments[i]
  /\ schema # NoSchema =>
       /\ schema \subseteq AllFields
       /\ \A field \in schema : \E j \in 1..Len(resolverMaps) : field \in Declared(resolverMaps[j])
  /\ Graphql /\ (\E k \in Starts : started[k] # "idle") => schema # NoSchema

(* The resolver of a request is the last that the maps of its time         *)
(* registered for the name of the field, and one of them declares the field*)
(* itself.                                                                 *)
ResolverOfMaps(q) ==
  /\ \E j \in 1..maps[q] : asked[q] \in Declared(resolverMaps[j])
  /\ \E j \in 1..maps[q] : \E field \in Declared(resolverMaps[j]) :
       /\ field \in AllFields /\ field.name = asked[q].name
       /\ resolver[q] = [of |-> resolverMaps[j], field |-> field]
       /\ LastOfName(field.name, j, maps[q])
QueriesInOrder ==
  /\ asked \in [Requests -> Queries \cup {NullBody}]
  /\ resolver \in [Requests -> Resolvers \cup {NoResolver}]
  /\ maps \in [Requests -> Nat]
  /\ \A q \in Requests :
       /\ maps[q] <= Len(resolverMaps)
       /\ resolver[q] # NoResolver => ResolverOfMaps(q)
       /\ Graphql /\ phase[q] \in {"handling", "answered"} =>
            (resolver[q] # NoResolver <=> asked[q] \in schema)
       /\ answer[q] \in {"data", "errors"} => Graphql /\ resolver[q] # NoResolver
       /\ answer[q] = "refused" => Graphql /\ resolver[q] = NoResolver

SchemaInv == MapsInOrder /\ QueriesInOrder

LEMMA DeclaredFields ==
  /\ \A f \in Fragments : Declared(f) \subseteq AllFields
  /\ \A s \in Seq(Fragments) : \A i \in 1..Len(s) : Declared(s[i]) \subseteq AllFields
<1>1. \A f \in Fragments : Declared(f) \subseteq AllFields
  BY DEF AllFields
<1> QED
  BY <1>1, ElementOfSeq

LEMMA SchemaStarts == Init => SchemaInv
<1> SUFFICES ASSUME Init
             PROVE  SchemaInv
  OBVIOUS
<1>1. /\ instance.registrations \in Nat
      /\ \A k \in Starts : started[k] = "idle"
      /\ \A q \in Requests : phase[q] = "none" /\ answer[q] = "none"
  BY InstanceOf DEF Init, LifecycleInit
<1>2. schemaFragments \in Seq(Fragments) /\ Len(schemaFragments) = 0
  BY EmptySeq DEF Init, SchemaInit
<1>3. QueriesInOrder
  BY <1>1 DEF Init, SchemaInit, QueriesInOrder
<1>4. CASE SchemaSource = NoSchema
  <2>1. schema = NoSchema /\ resolverMaps \in Seq(Fragments) /\ Len(resolverMaps) = 0
    BY <1>4, EmptySeq DEF Init, SchemaInit
  <2>2. MapsInOrder
    BY <1>1, <1>2, <2>1 DEF MapsInOrder
  <2>3. QueriesInOrder
    BY <1>1, <2>1 DEF Init, SchemaInit, QueriesInOrder
  <2> QED
    BY <2>2, <2>3 DEF SchemaInv
<1>5. CASE SchemaSource # NoSchema
  <2>1. SchemaSource \in Fragments
    BY <1>5, SchemaAssumption
  <2>2. schema = Declared(SchemaSource) /\ resolverMaps = <<SchemaSource>>
    BY <1>5 DEF Init, SchemaInit
  <2>3. resolverMaps \in Seq(Fragments) /\ Len(resolverMaps) = 1 /\ resolverMaps[1] = SchemaSource
    BY <2>1, <2>2
  <2>4. schema \subseteq AllFields
    BY <2>1, <2>2, DeclaredFields
  <2>5. schema # NoSchema
    BY <2>4, SchemaAssumption
  <2>6. MapsInOrder
    BY <1>1, <1>2, <2>2, <2>3, <2>4, <2>5 DEF MapsInOrder
  <2>7. QueriesInOrder
    BY <1>1, <2>3 DEF Init, SchemaInit, QueriesInOrder
  <2> QED
    BY <2>6, <2>7 DEF SchemaInv
<1> QED
  BY <1>4, <1>5

LEMMA AddSchemaKeeps ==
  ASSUME SchemaInv, NEW f \in Fragments, AddSchema(f)
  PROVE  SchemaInv'
<1>1. /\ Len(schemaFragments) < instance.registrations
      /\ schemaFragments' = Append(schemaFragments, f) /\ resolverMaps' = Append(resolverMaps, f)
      /\ UNCHANGED <<instance, started, phase, answer, schema, asked, resolver, maps>>
  BY DEF AddSchema, lifecycleVars, serverVars, requestVars
<1>2. /\ schemaFragments' \in Seq(Fragments) /\ Len(schemaFragments) \in Nat
      /\ Len(schemaFragments') = Len(schemaFragments) + 1
      /\ \A i \in 1..Len(schemaFragments) : schemaFragments'[i] = schemaFragments[i]
      /\ schemaFragments'[Len(schemaFragments) + 1] = f
  BY <1>1, AppendProperties, LenProperties DEF SchemaInv, MapsInOrder
<1>3. /\ resolverMaps' \in Seq(Fragments) /\ Len(resolverMaps) \in Nat
      /\ Len(resolverMaps') = Len(resolverMaps) + 1
      /\ \A i \in 1..Len(resolverMaps) : resolverMaps'[i] = resolverMaps[i]
      /\ resolverMaps'[Len(resolverMaps) + 1] = f
  BY <1>1, AppendProperties, LenProperties DEF SchemaInv, MapsInOrder
<1>4. \A j \in 1..Len(resolverMaps) : j \in 1..Len(resolverMaps')
  BY <1>3
<1>5. MapsInOrder'
  <2>1. ASSUME NEW i \in 1..Len(schemaFragments')
        PROVE  \E j \in 1..Len(resolverMaps') : resolverMaps'[j] = schemaFragments'[i]
    <3>1. CASE i = Len(schemaFragments) + 1
      <4>1. Len(resolverMaps) + 1 \in 1..Len(resolverMaps')
        BY <1>3
      <4> QED
        BY <1>2, <1>3, <3>1, <4>1
    <3>2. CASE i # Len(schemaFragments) + 1
      <4>1. i \in 1..Len(schemaFragments)
        BY <1>2, <3>2
      <4> QED
        BY <1>2, <1>3, <1>4, <4>1 DEF SchemaInv, MapsInOrder
    <3> QED
      BY <3>1, <3>2
  <2>2. /\ Len(schemaFragments') <= instance.registrations
        /\ Len(resolverMaps') <= Len(schemaFragments') + 1
    BY <1>1, <1>2, <1>3 DEF SchemaInv, MapsInOrder
  <2>3. ASSUME schema # NoSchema, NEW field \in schema
        PROVE  \E j \in 1..Len(resolverMaps') : field \in Declared(resolverMaps'[j])
    BY <1>3, <1>4, <2>3 DEF SchemaInv, MapsInOrder, Declared
  <2> QED
    BY <1>1, <1>2, <1>3, <2>1, <2>2, <2>3 DEF SchemaInv, MapsInOrder, Graphql
<1>6. QueriesInOrder'
  <2>1. ASSUME NEW q \in Requests, resolver[q] # NoResolver
        PROVE  ResolverOfMaps(q)'
    <3>1. \A j \in 1..maps[q] : resolverMaps'[j] = resolverMaps[j]
      BY <1>3 DEF SchemaInv, QueriesInOrder
    <3>2. ResolverOfMaps(q)
      BY <2>1 DEF SchemaInv, QueriesInOrder
    <3>3. /\ maps'[q] = maps[q] /\ asked'[q] = asked[q] /\ resolver'[q] = resolver[q]
          /\ \A j \in 1..maps[q] : Declared(resolverMaps'[j]) = Declared(resolverMaps[j])
      BY <1>1, <3>1
    <3>4. \A name, j : LastOfName(name, j, maps[q]) => LastOfName(name, j, maps[q])'
      BY <1>1, <3>3 DEF LastOfName, Declared
    <3>5. PICK j \in 1..maps[q] : \E field \in Declared(resolverMaps[j]) :
            /\ field \in AllFields /\ field.name = asked[q].name
            /\ resolver[q] = [of |-> resolverMaps[j], field |-> field]
            /\ LastOfName(field.name, j, maps[q])
      BY <3>2 DEF ResolverOfMaps
    <3>6. PICK field \in Declared(resolverMaps[j]) :
            /\ field \in AllFields /\ field.name = asked[q].name
            /\ resolver[q] = [of |-> resolverMaps[j], field |-> field]
            /\ LastOfName(field.name, j, maps[q])
      BY <3>5
    <3>7. \E i \in 1..maps[q] : asked[q] \in Declared(resolverMaps'[i])
      BY <3>2, <3>3 DEF ResolverOfMaps
    <3>8. /\ field \in Declared(resolverMaps'[j]) /\ LastOfName(field.name, j, maps[q])'
          /\ resolver[q] = [of |-> resolverMaps'[j], field |-> field]
      BY <3>1, <3>3, <3>4, <3>6
    <3> QED
      BY <3>3, <3>6, <3>7, <3>8 DEF ResolverOfMaps, Declared
  <2>2. \A q \in Requests : maps[q] <= Len(resolverMaps')
    BY <1>3 DEF SchemaInv, QueriesInOrder
  <2> QED
    BY <1>1, <2>1, <2>2 DEF SchemaInv, QueriesInOrder, Graphql
<1> QED
  BY <1>5, <1>6 DEF SchemaInv

LEMMA StartServerKeeps ==
  ASSUME LifecycleInv, SchemaInv, NEW k \in Starts, StartServer(k)
  PROVE  SchemaInv'
<1>1. /\ UNCHANGED <<instance, schemaFragments, resolverMaps, asked, resolver, maps, phase, answer>>
      /\ Graphql
      /\ \/ schema # NoSchema /\ schema' = schema
         \/ schema = NoSchema /\ schema' = BuildSchema(schemaFragments)
  BY DEF StartServer, Start, requestVars
<1>2. CASE schema # NoSchema
  <2>1. MapsInOrder /\ QueriesInOrder /\ schema' = schema
    BY <1>1, <1>2 DEF SchemaInv
  <2>2. MapsInOrder'
    BY <1>1, <1>2, <2>1 DEF MapsInOrder
  <2>3. \A q \in Requests : ResolverOfMaps(q)' <=> ResolverOfMaps(q)
    BY <1>1 DEF ResolverOfMaps, LastOfName
  <2>4. QueriesInOrder'
    BY <1>1, <2>1, <2>3 DEF QueriesInOrder, Graphql
  <2> QED
    BY <2>2, <2>4 DEF SchemaInv
<1>3. CASE schema = NoSchema
  <2>1. ASSUME NEW field \in schema'
        PROVE  /\ field \in AllFields
               /\ \E j \in 1..Len(resolverMaps) : field \in Declared(resolverMaps[j])
    <3>1. schemaFragments \in Seq(Fragments)
      BY DEF SchemaInv, MapsInOrder
    <3>2. PICK i \in 1..Len(schemaFragments) : field \in Declared(schemaFragments[i])
      BY <1>1, <1>3, <2>1, <3>1, LenProperties DEF BuildSchema, ToSet
    <3>3. field \in AllFields
      BY <3>1, <3>2, DeclaredFields
    <3> QED
      BY <3>2, <3>3 DEF SchemaInv, MapsInOrder
  <2>2. schema' # NoSchema
    BY <2>1, SchemaAssumption
  <2>3. MapsInOrder'
    BY <1>1, <2>1, <2>2 DEF SchemaInv, MapsInOrder
  <2>4. \A q \in Requests : phase[q] = "none"
    <3>1. ASSUME NEW q \in Requests, phase[q] # "none"
          PROVE  FALSE
      <4>1. via[q] \in Starts /\ socket[via[q]] # "none"
        BY <3>1 DEF LifecycleInv, LifecycleTypeOK, RequestsInOrder
      <4>2. started[via[q]] # "idle"
        BY <4>1 DEF LifecycleInv, ServersInOrder
      <4> QED
        BY <1>1, <1>3, <4>1, <4>2 DEF SchemaInv, MapsInOrder
    <3> QED
      BY <3>1
  <2>5. QueriesInOrder'
    BY <1>1, <2>4 DEF SchemaInv, QueriesInOrder, ResolverOfMaps, LastOfName, Graphql
  <2> QED
    BY <2>3, <2>5 DEF SchemaInv
<1> QED
  BY <1>2, <1>3

LEMMA ExecuteKeeps ==
  ASSUME LifecycleInv, SchemaInv, NEW q \in Requests, Execute(q)
  PROVE  SchemaInv'
<1> DEFINE root == BuildRootValue
           result == IF asked[q] \in schema /\ asked[q].name \in DOMAIN root
                     THEN root[asked[q].name] ELSE NoResolver
<1>1. /\ Graphql /\ phase[q] = "reading" /\ phase' = [phase EXCEPT ![q] = "handling"]
      /\ resolver' = [resolver EXCEPT ![q] = result]
      /\ maps' = [maps EXCEPT ![q] = Len(resolverMaps)]
      /\ UNCHANGED <<instance, started, answer, schemaFragments, resolverMaps, schema, asked>>
  BY DEF Execute, BodyEnds, serverVars
<1> HIDE DEF root
<1>2. MapsInOrder'
  BY <1>1 DEF SchemaInv, MapsInOrder, Graphql
<1>3. schema # NoSchema
  <2>1. via[q] \in Starts /\ socket[via[q]] # "none"
    BY <1>1 DEF LifecycleInv, LifecycleTypeOK, RequestsInOrder
  <2>2. started[via[q]] # "idle"
    BY <2>1 DEF LifecycleInv, ServersInOrder
  <2> QED
    BY <1>1, <2>1, <2>2 DEF SchemaInv, MapsInOrder
<1>4. resolverMaps \in Seq(Fragments) /\ Len(resolverMaps) \in Nat
  BY LenProperties DEF SchemaInv, MapsInOrder
<1>5. RootOfMaps(Len(resolverMaps), root)
  BY <1>4, BuildRootValueOfMaps DEF root
<1>6. CASE asked[q] \in schema
  <2>1. PICK i \in 1..Len(resolverMaps) : asked[q] \in Declared(resolverMaps[i])
    BY <1>3, <1>6 DEF SchemaInv, MapsInOrder
  <2>2. asked[q].name \in DOMAIN root
    BY <1>5, <2>1 DEF RootOfMaps
  <2> DEFINE Gives(j, field) ==
        /\ field.name = asked[q].name /\ result = [of |-> resolverMaps[j], field |-> field]
        /\ LastOfName(field.name, j, Len(resolverMaps))
  <2>3. PICK j \in 1..Len(resolverMaps) : \E field \in Declared(resolverMaps[j]) : Gives(j, field)
    BY <1>5, <1>6, <2>2 DEF RootOfMaps
  <2>4. PICK field \in Declared(resolverMaps[j]) : Gives(j, field)
    BY <2>3
  <2>5. field \in AllFields /\ resolverMaps[j] \in Fragments
    BY <1>4, <2>4, DeclaredFields, ElementOfSeq
  <2>6. result \in Resolvers /\ result # NoResolver
    <3>1. [of |-> resolverMaps[j], field |-> field] \in Resolvers
      BY <2>5 DEF Resolvers
    <3> QED
      BY <2>4, <3>1, SchemaAssumption
  <2> HIDE DEF result
  <2>7. /\ resolver' \in [Requests -> Resolvers \cup {NoResolver}]
        /\ maps' \in [Requests -> Nat] /\ maps'[q] = Len(resolverMaps) /\ resolver'[q] = result
        /\ \A p \in Requests : p # q => resolver'[p] = resolver[p] /\ maps'[p] = maps[p]
    BY <1>1, <1>4, <2>6 DEF SchemaInv, QueriesInOrder
  <2>8. ResolverOfMaps(q)'
    BY <1>1, <2>1, <2>4, <2>5, <2>7 DEF ResolverOfMaps, Declared, LastOfName
  <2>9. ASSUME NEW p \in Requests, p # q, resolver[p] # NoResolver
        PROVE  ResolverOfMaps(p)'
    <3>1. ResolverOfMaps(p)
      BY <2>9 DEF SchemaInv, QueriesInOrder
    <3> QED
      BY <1>1, <2>7, <2>9, <3>1 DEF ResolverOfMaps, Declared, LastOfName
  <2>10. /\ \A p \in Requests : p # q => phase'[p] = phase[p]
        /\ answer[q] = "none"
    BY <1>1 DEF LifecycleInv, LifecycleTypeOK, RequestsInOrder
  <2>11. QueriesInOrder'
    BY <1>1, <1>4, <1>6, <2>6, <2>7, <2>8, <2>9, <2>10 DEF SchemaInv, QueriesInOrder, Graphql
  <2> QED
    BY <1>2, <2>11 DEF SchemaInv
<1>7. CASE asked[q] \notin schema
  <2>1. /\ resolver' \in [Requests -> Resolvers \cup {NoResolver}]
        /\ maps' \in [Requests -> Nat] /\ maps'[q] = Len(resolverMaps) /\ resolver'[q] = NoResolver
        /\ \A p \in Requests : p # q => resolver'[p] = resolver[p] /\ maps'[p] = maps[p]
    BY <1>1, <1>4, <1>7 DEF SchemaInv, QueriesInOrder
  <2>2. ASSUME NEW p \in Requests, p # q, resolver[p] # NoResolver
        PROVE  ResolverOfMaps(p)'
    <3>1. ResolverOfMaps(p)
      BY <2>2 DEF SchemaInv, QueriesInOrder
    <3> QED
      BY <1>1, <2>1, <2>2, <3>1 DEF ResolverOfMaps, Declared, LastOfName
  <2>3. /\ \A p \in Requests : p # q => phase'[p] = phase[p]
        /\ answer[q] = "none"
    BY <1>1 DEF LifecycleInv, LifecycleTypeOK, RequestsInOrder
  <2>4. QueriesInOrder'
    BY <1>1, <1>4, <1>7, <2>1, <2>2, <2>3 DEF SchemaInv, QueriesInOrder, Graphql
  <2> QED
    BY <1>2, <2>4 DEF SchemaInv
<1> QED
  BY <1>6, <1>7

LEMMA SettlesQueryKeeps ==
  ASSUME LifecycleInv, SchemaInv, Graphql, NEW q \in Requests, SettlesQuery(q)
  PROVE  SchemaInv'
<1>1. PICK status \in GraphqlAnswers :
        /\ Answer(q, status)
        /\ status \in {"data", "errors"} => resolver[q] # NoResolver
        /\ status = "refused" => resolver[q] = NoResolver
        /\ UNCHANGED graphqlVars
  BY DEF SettlesQuery
<1>2. /\ phase[q] = "handling" /\ UNCHANGED <<instance, started, graphqlVars>>
      /\ answer' = [answer EXCEPT ![q] = status] /\ phase' = [phase EXCEPT ![q] = "answered"]
  BY <1>1 DEF Answer, SendJson, serverVars
<1>3. /\ answer'[q] = status /\ phase'[q] = "answered"
      /\ \A p \in Requests : p # q => answer'[p] = answer[p] /\ phase'[p] = phase[p]
  BY <1>2 DEF LifecycleInv, LifecycleTypeOK
<1>4. MapsInOrder'
  BY <1>2 DEF SchemaInv, MapsInOrder, Graphql, graphqlVars
<1>5. QueriesInOrder'
  <2>1. \A p \in Requests : ResolverOfMaps(p)' <=> ResolverOfMaps(p)
    BY <1>2 DEF ResolverOfMaps, Declared, LastOfName, graphqlVars
  <2>2. /\ asked' = asked /\ resolver' = resolver /\ maps' = maps /\ schema' = schema
        /\ resolverMaps' = resolverMaps /\ Graphql'
    BY <1>2 DEF graphqlVars, Graphql
  <2> QED
    BY <1>1, <1>2, <1>3, <2>1, <2>2 DEF SchemaInv, QueriesInOrder
<1> QED
  BY <1>4, <1>5 DEF SchemaInv

LEMMA SchemaStep ==
  ASSUME LifecycleInv, SchemaInv, [Next]_vars
  PROVE  SchemaInv'
<1>1. /\ LifecycleStep /\ instance' = instance /\ (Http <=> ~Graphql)
      /\ \/ HttpStep /\ UNCHANGED graphqlVars
         \/ GraphqlStep /\ UNCHANGED routeVars
         \/ UNCHANGED vars
  BY ServerSteps, LifecycleStepRemembers, InstanceOf
<1>2. ASSUME UNCHANGED graphqlVars
      PROVE  /\ \A q \in Requests : ResolverOfMaps(q)' <=> ResolverOfMaps(q)
             /\ asked' = asked /\ resolver' = resolver /\ maps' = maps /\ schema' = schema
             /\ resolverMaps' = resolverMaps /\ schemaFragments' = schemaFragments
             /\ Graphql' <=> Graphql
  BY <1>1, <1>2 DEF ResolverOfMaps, Declared, LastOfName, graphqlVars, Graphql
<1>3. CASE HttpStep /\ UNCHANGED graphqlVars
  <2>1. ~Graphql
    BY <1>1, <1>3 DEF HttpStep
  <2>2. MapsInOrder'
    BY <1>1, <1>2, <1>3, <2>1 DEF SchemaInv, MapsInOrder
  <2>3. ASSUME NEW q \in Requests
        PROVE  answer'[q] \notin {"data", "errors", "refused"}
    <3>1. answer[q] \notin {"data", "errors", "refused"}
      BY <2>1 DEF SchemaInv, QueriesInOrder
    <3>2. answer'[q] = answer[q] \/ answer'[q] \in {"404", "handled", "500"}
      <4>1. ASSUME NEW p \in Requests, NEW k \in Starts, HttpHandleRequest(p, k)
            PROVE  answer'[q] = answer[q] \/ answer'[q] \in {"404", "handled", "500"}
        BY <4>1 DEF HttpHandleRequest, SendJson, Read, LifecycleInv, LifecycleTypeOK
      <4> QED
        BY <1>3, <4>1 DEF HttpStep, RouteAdded, lifecycleVars, requestVars
    <3> QED
      BY <3>1, <3>2
  <2>4. QueriesInOrder'
    BY <1>2, <1>3, <2>1, <2>3 DEF SchemaInv, QueriesInOrder
  <2> QED
    BY <2>2, <2>4 DEF SchemaInv
<1>4. CASE GraphqlStep
  <2>1. ASSUME UNCHANGED <<graphqlVars, answer>>,
               \A k \in Starts : started'[k] # "idle" => started[k] # "idle",
               \A q \in Requests : phase'[q] \in {"handling", "answered"} => phase'[q] = phase[q]
        PROVE  SchemaInv'
    <3>1. MapsInOrder'
      BY <1>1, <1>2, <2>1 DEF SchemaInv, MapsInOrder
    <3>2. QueriesInOrder'
      BY <1>2, <2>1 DEF SchemaInv, QueriesInOrder
    <3> QED
      BY <3>1, <3>2 DEF SchemaInv
  <2> QED
    BY <1>4, <2>1, AddSchemaKeeps, StartServerKeeps, ExecuteKeeps, SettlesQueryKeeps DEF GraphqlStep
<1>5. CASE UNCHANGED vars
  <2>1. UNCHANGED <<graphqlVars, instance, started, phase, answer>>
    BY <1>5 DEF vars, lifecycleVars, serverVars, requestVars
  <2>2. MapsInOrder'
    BY <1>2, <2>1 DEF SchemaInv, MapsInOrder
  <2>3. QueriesInOrder'
    BY <1>2, <2>1 DEF SchemaInv, QueriesInOrder
  <2> QED
    BY <2>2, <2>3 DEF SchemaInv
<1> QED
  BY <1>1, <1>3, <1>4, <1>5

-----------------------------------------------------------------------------
(* The theorems.                                                           *)

ServersInv == LifecycleInv /\ RoutesInv /\ SchemaInv

(* The invariant holds always.                                             *)
LEMMA ServersInvariant == Spec => []ServersInv
<1>1. Init => ServersInv
  BY LifecycleStarts, RoutesStart, SchemaStarts DEF ServersInv
<1>2. ServersInv /\ [Next]_vars => ServersInv'
  BY ServerSteps, LifecycleStepKeeps, RoutesStep, SchemaStep DEF ServersInv
<1> QED
  BY <1>1, <1>2, PTL DEF Spec

(* A sequence of at most n elements is one of those to consider.           *)
LEMMA BoundedSequences ==
  ASSUME NEW S, NEW n \in Nat, NEW s \in Seq(S), Len(s) <= n
  PROVE  s \in BoundedSeq(S, n)
<1>1. Len(s) \in 0..n /\ s \in [1..Len(s) -> S]
  BY LenProperties
<1> QED
  BY <1>1 DEF BoundedSeq, SeqOf

(* What the servers, the routes and the schema hold is what it should be,  *)
(* of whatever calls, requests and registrations: a fragment adds its      *)
(* resolvers once (HttpServer.ts:23-37, GraphqlServer.ts:23-45).           *)
THEOREM ServersTypeCorrect == Spec => []TypeOK
<1>1. ASSUME ServersInv
      PROVE  TypeOK
  <2>1. instance.registrations \in Nat /\ instance.registrations + 1 \in Nat
    BY <1>1 DEF ServersInv, RoutesInv
  <2>2. Len(routes) \in Nat /\ Len(resolverMaps) \in Nat /\ Len(schemaFragments) \in Nat
    BY <1>1, LenProperties DEF ServersInv, RoutesInv, SchemaInv, MapsInOrder
  <2>3. RoutesTypeOK
    <3>1. routes \in BoundedSeq([method : Methods, path : Paths], instance.registrations)
      BY <1>1, <2>1, BoundedSequences DEF ServersInv, RoutesInv, Routes
    <3> QED
      BY <1>1, <2>1, <2>2, <3>1 DEF ServersInv, RoutesInv, RoutesTypeOK
  <2>4. SchemaTypeOK
    <3>1. schemaFragments \in BoundedSeq(Fragments, instance.registrations)
      BY <1>1, <2>1, BoundedSequences DEF ServersInv, SchemaInv, MapsInOrder
    <3>2. Len(resolverMaps) <= instance.registrations + 1
      BY <1>1, <2>1, <2>2 DEF ServersInv, SchemaInv, MapsInOrder
    <3>3. resolverMaps \in BoundedSeq(Fragments, instance.registrations + 1)
      BY <1>1, <2>1, <3>2, BoundedSequences DEF ServersInv, SchemaInv, MapsInOrder
    <3>4. maps \in [Requests -> 0..(instance.registrations + 1)]
      BY <1>1, <2>1, <2>2, <3>2 DEF ServersInv, SchemaInv, QueriesInOrder
    <3> QED
      BY <1>1, <3>1, <3>3, <3>4 DEF ServersInv, SchemaInv, MapsInOrder, QueriesInOrder, SchemaTypeOK
  <2> QED
    BY <1>1, <2>3, <2>4 DEF ServersInv, LifecycleInv, TypeOK, AllAnswers
<1> QED
  BY <1>1, ServersInvariant, PTL

(* When the callers take turns, so that no start or stop is called before  *)
(* the last one has settled, what listens can be stopped, although the     *)
(* callback of close unsets the field whatever it holds (HttpServer.ts:63, *)
(* GraphqlServer.ts:76).                                                   *)
THEOREM ListenersAreHeld == Spec => []NothingLeaks
<1>1. ASSUME ServersInv
      PROVE  NothingLeaks
  BY <1>1 DEF ServersInv, LifecycleInv, OneServer, NothingLeaks
<1> QED
  BY <1>1, ServersInvariant, PTL

(* A stop that resolved has lost no answer (HttpServer.ts:62-67).          *)
THEOREM StopLosesNoAnswer == Spec => []StoppedMeansAnswered
<1>1. ASSUME ServersInv
      PROVE  StoppedMeansAnswered
  <2>1. ASSUME NEW t \in Stops, NEW q \in Requests,
               stopped[t] = "resolved", closes[t] # NoServer, via[q] = closes[t]
        PROVE  phase[q] = "answered" \/ q \in left
    <3>1. socket[via[q]] = "closed"
      BY <1>1, <2>1 DEF ServersInv, LifecycleInv, ServersInOrder
    <3> QED
      BY <1>1, <2>1, <3>1 DEF ServersInv, LifecycleInv, RequestsInOrder
  <2> QED
    BY <2>1 DEF StoppedMeansAnswered
<1> QED
  BY <1>1, ServersInvariant, PTL

(* A request is handled by the first route, of those registered when it    *)
(* arrived, that matches it, with the parameters of its url, for routes of *)
(* any length (HttpServer.ts:74-79, 90-133).                               *)
THEOREM FirstMatchHandles == Spec => []RoutedToFirstMatch
<1> QED
  BY ServersInvariant, PTL DEF ServersInv, RoutesInv

(* A query is refused if and only if the schema of the first start does not*)
(* have its field (GraphqlServer.ts:47-50).                                *)
THEOREM UnknownAreRefused == Spec => []RefusedIffUnknown
<1>1. ASSUME ServersInv
      PROVE  RefusedIffUnknown
  <2>1. ASSUME NEW q \in Requests, answer[q] \in {"refused", "data", "errors"}
        PROVE  answer[q] = "refused" <=> asked[q] \notin schema
    <3>1. phase[q] = "answered"
      BY <1>1, <2>1 DEF ServersInv, LifecycleInv, RequestsInOrder
    <3> QED
      BY <1>1, <2>1, <3>1 DEF ServersInv, SchemaInv, QueriesInOrder
  <2> QED
    BY <2>1 DEF RefusedIffUnknown
<1> QED
  BY <1>1, ServersInvariant, PTL

(* A field of the schema is resolved by the last map, of those registered  *)
(* when its body ended, that has a field of its name, and that field is in *)
(* the schema because some map declares it, for any maps in any order      *)
(* (GraphqlServer.ts:103-119).                                             *)
THEOREM FieldsAreResolved == Spec => []LastOfNameResolves
<1>1. ASSUME ServersInv
      PROVE  LastOfNameResolves
  <2>1. ASSUME NEW q \in Requests, answer[q] \in {"data", "errors"}
        PROVE  /\ \E own \in SameName(q) : own.field = asked[q]
               /\ \E last \in SameName(q) :
                    /\ resolver[q] = [of |-> resolverMaps[last.map], field |-> last.field]
                    /\ \A other \in SameName(q) : other.map <= last.map
    <3>1. ResolverOfMaps(q) /\ phase[q] = "answered" /\ Graphql /\ resolver[q] # NoResolver
      BY <1>1, <2>1 DEF ServersInv, SchemaInv, QueriesInOrder, LifecycleInv, RequestsInOrder
    <3>2. asked[q] \in schema
      BY <1>1, <3>1 DEF ServersInv, SchemaInv, QueriesInOrder
    <3>3. asked[q] \in AllFields
      <4>1. schema # NoSchema
        <5>1. via[q] \in Starts /\ socket[via[q]] # "none"
          BY <1>1, <3>1 DEF ServersInv, LifecycleInv, LifecycleTypeOK, RequestsInOrder
        <5>2. started[via[q]] # "idle"
          BY <1>1, <5>1 DEF ServersInv, LifecycleInv, ServersInOrder
        <5> QED
          BY <1>1, <3>1, <5>1, <5>2 DEF ServersInv, SchemaInv, MapsInOrder
      <4> QED
        BY <1>1, <3>2, <4>1 DEF ServersInv, SchemaInv, MapsInOrder
    <3>4. PICK i \in 1..maps[q] : asked[q] \in Declared(resolverMaps[i])
      BY <3>1 DEF ResolverOfMaps
    <3>5. PICK j \in 1..maps[q] : \E field \in Declared(resolverMaps[j]) :
            /\ field \in AllFields /\ field.name = asked[q].name
            /\ resolver[q] = [of |-> resolverMaps[j], field |-> field]
            /\ LastOfName(field.name, j, maps[q])
      BY <3>1 DEF ResolverOfMaps
    <3>6. PICK field \in Declared(resolverMaps[j]) :
            /\ field \in AllFields /\ field.name = asked[q].name
            /\ resolver[q] = [of |-> resolverMaps[j], field |-> field]
            /\ LastOfName(field.name, j, maps[q])
      BY <3>5
    <3> DEFINE own == [map |-> i, field |-> asked[q]]
               last == [map |-> j, field |-> field]
    <3>7. own \in SameName(q) /\ last \in SameName(q)
      BY <3>3, <3>4, <3>6 DEF SameName
    <3>8. \A other \in SameName(q) : other.map <= last.map
      BY <3>6 DEF SameName, LastOfName
    <3>9. own.field = asked[q]
          /\ resolver[q] = [of |-> resolverMaps[last.map], field |-> last.field]
      BY <3>6
    <3> HIDE DEF own, last
    <3> QED
      BY <3>7, <3>8, <3>9
  <2> QED
    BY <2>1 DEF LastOfNameResolves
<1> QED
  BY <1>1, ServersInvariant, PTL
=============================================================================
