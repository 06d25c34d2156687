--------------------------- MODULE RegistryProofs ---------------------------
(* Proofs about the configuration and the lists of module.c, in modules    *)
(* Cfg, Registry and Lifecycle, for every file, every set of shared        *)
(* objects and every order in which they are found, loaded and used.       *)
EXTENDS LifecycleProofs, FiniteSetTheorems

(* A nonempty set of natural numbers has a least element.                  *)
LEMMA LeastNat ==
  ASSUME NEW T \in SUBSET Nat, T # {}
  PROVE  \E x \in T : \A y \in T : x <= y
<1> DEFINE R == {ss \in Nat \X Nat : ss[1] < ss[2]}
<1>1. IsWellFoundedOn(R, Nat)
  BY NatLessThanWellFounded DEF OpToRel
<1>2. PICK x \in T : \A y \in T : ~ (<<y, x>> \in R)
  <2> HIDE DEF R
  <2> QED
    BY <1>1, WFMin
<1>3. \A y \in T : x \in Nat /\ y \in Nat /\ (y < x => <<y, x>> \in R)
  OBVIOUS
<1>4. \A y \in T : ~(y < x)
  <2> HIDE DEF R
  <2> QED
    BY <1>2, <1>3
<1> QED
  BY <1>3, <1>4

(* Induction along a list of n elements, for the set of what holds.        *)
LEMMA AlongTheList ==
  ASSUME NEW n \in Nat, NEW S, 0 \in S, \A i \in 1..n : i - 1 \in S => i \in S
  PROVE  \A i \in 0..n : i \in S
<1> DEFINE T == (0..n) \ S
<1> SUFFICES ASSUME T # {} PROVE FALSE
  OBVIOUS
<1>1. PICK i \in T : \A j \in T : i <= j
  <2> T \in SUBSET Nat
    OBVIOUS
  <2> HIDE DEF T
  <2> QED
    BY LeastNat
<1>2. i \in 1..n /\ i - 1 \in 0..n /\ ~(i <= i - 1)
  OBVIOUS
<1> QED
  BY <1>1, <1>2

LEMMA GreatestThere ==
  ASSUME NEW n \in Nat, NEW s \in SUBSET (1..n), s # {}
  PROVE  Max(s) \in s /\ \A y \in s : Max(s) >= y
<1> DEFINE T == {n - x : x \in s}
<1>1. T \in SUBSET Nat /\ T # {}
  OBVIOUS
<1>2. PICK t \in T : \A u \in T : t <= u
  <2> HIDE DEF T
  <2> QED
    BY <1>1, LeastNat
<1>3. PICK x \in s : t = n - x
  OBVIOUS
<1>4. \A y \in s : x >= y
  <2> SUFFICES ASSUME NEW y \in s PROVE x >= y
    OBVIOUS
  <2>1. n - y \in T
    OBVIOUS
  <2>2. t <= n - y
    BY <1>2, <2>1
  <2> QED
    BY <1>3, <2>2
<1> QED
  BY <1>4 DEF Max

(* What a search of a list finds: its first hit, or 0.                     *)
LEMMA FirstHit ==
  ASSUME NEW n \in Nat, NEW hits \in SUBSET (1..n),
         NEW k, k = IF hits # {} THEN Min(hits) ELSE 0
  PROVE  /\ k \in 0..n /\ (k = 0 <=> hits = {})
         /\ k # 0 => k \in hits /\ \A j \in hits : k <= j
<1>1. CASE hits = {}
  BY <1>1
<1>2. CASE hits # {}
  <2>1. \E x \in hits : \A y \in hits : x <= y
    BY <1>2, LeastNat
  <2>2. k \in hits /\ \A y \in hits : k <= y
    BY <1>2, <2>1 DEF Min
  <2> QED
    BY <1>2, <2>2
<1> QED
  BY <1>1, <1>2

(* FoldLeft takes the last element off, again and again.                   *)
LEMMA LastOff ==
  ASSUME NEW n \in Nat
  PROVE  /\ 1..0 = {}
         /\ n # 0 => Max(1..n) = n /\ (1..n) \ {n} = 1..(n - 1)
         /\ \A s \in SUBSET (1..n) : n \in s =>
               Max(s) = n /\ s \ {n} \in SUBSET (1..(n - 1))
<1>1. ASSUME NEW s \in SUBSET (1..n), n \in s
      PROVE  Max(s) = n
  <2>1. \A y \in s : n >= y
    OBVIOUS
  <2>2. PICK m \in s : Max(s) = m /\ \A y \in s : m >= y
    BY <1>1, <2>1 DEF Max
  <2> QED
    BY <1>1, <2>1, <2>2
<1> QED
  BY <1>1

(* The function that a fold is defined by exists.                          *)
Folds(g, T, base, n, step) ==
    /\ g \in [SUBSET (1..n) -> T]
    /\ \A s \in SUBSET (1..n) :
          g[s] = IF s = {} THEN base ELSE step[<<Max(s), g[s \ {Max(s)}]>>]

LEMMA FoldIsThere ==
  ASSUME NEW T, NEW base \in T, NEW n \in Nat, NEW step \in [(1..n) \X T -> T]
  PROVE  \E g : Folds(g, T, base, n, step)
<1> DEFINE Good(g, k) == \A s \in SUBSET (1..k) :
               g[s] = IF s = {} THEN base ELSE step[<<Max(s), g[s \ {Max(s)}]>>]
           Bad == {k \in 0..n : ~\E g \in [SUBSET (1..k) -> T] : Good(g, k)}
<1> SUFFICES ASSUME Bad # {} PROVE FALSE
  <2>1. n \in 0..n
    OBVIOUS
  <2>2. Bad = {} => \E g \in [SUBSET (1..n) -> T] : Good(g, n)
    BY <2>1
  <2>3. \A g \in [SUBSET (1..n) -> T] : Good(g, n) => Folds(g, T, base, n, step)
    BY DEF Folds
  <2> HIDE DEF Bad, Good
  <2> QED
    BY <2>2, <2>3
<1>1. PICK k \in Bad : \A j \in Bad : k <= j
  <2> Bad \in SUBSET Nat
    OBVIOUS
  <2> HIDE DEF Bad
  <2> QED
    BY LeastNat
<1>2. CASE k = 0
  <2> DEFINE g == [s \in SUBSET (1..0) |-> base]
  <2>1. SUBSET (1..0) = {{}}
    OBVIOUS
  <2>2. g \in [SUBSET (1..0) -> T] /\ g[{}] = base
    BY <2>1
  <2>3. Good(g, 0)
    BY <2>1, <2>2
  <2> QED
    BY <1>1, <1>2, <2>2, <2>3
<1>3. CASE k # 0
  <2>1. k - 1 \in 0..n /\ ~(k - 1 \in Bad)
    <3> k \in 0..n /\ k - 1 \in 0..n
      BY <1>3
    <3> HIDE DEF Bad
    <3> QED
      BY <1>1
  <2>2. PICK g \in [SUBSET (1..(k - 1)) -> T] : Good(g, k - 1)
    BY <2>1
  <2> DEFINE m == [s \in SUBSET (1..k) |-> IF k \in s THEN step[<<k, g[s \ {k}]>>] ELSE g[s]]
  <2>3. k \in 1..n /\ k \in Nat
    BY <1>3
  <2>4. ASSUME NEW s \in SUBSET (1..k) PROVE k \notin s => s \in SUBSET (1..(k - 1))
    BY <2>3
  <2>5. ASSUME NEW s \in SUBSET (1..k), k \in s
        PROVE  Max(s) = k /\ s \ {k} \in SUBSET (1..(k - 1))
    BY <2>3, <2>5, LastOff
  <2>6. m \in [SUBSET (1..k) -> T]
    BY <2>3, <2>4, <2>5
  <2>7. ASSUME NEW s \in SUBSET (1..k)
        PROVE  m[s] = IF s = {} THEN base ELSE step[<<Max(s), m[s \ {Max(s)}]>>]
    <3>1. CASE k \in s
      <4>1. s \ {k} \in SUBSET (1..k) /\ k \notin s \ {k}
        OBVIOUS
      <4>2. m[s \ {k}] = g[s \ {k}]
        BY <4>1
      <4> QED
        BY <2>5, <3>1, <4>2
    <3>2. CASE k \notin s /\ s # {}
      <4>1. s \in SUBSET (1..(k - 1)) /\ m[s] = g[s]
        BY <2>4, <3>2
      <4>2. s \ {Max(s)} \in SUBSET (1..k) /\ k \notin s \ {Max(s)}
        BY <3>2
      <4>3. m[s \ {Max(s)}] = g[s \ {Max(s)}]
        BY <4>2
      <4> HIDE DEF m
      <4> QED
        BY <2>2, <3>2, <4>1, <4>3
    <3>3. CASE s = {}
      BY <2>2, <2>4, <3>3
    <3> QED
      BY <3>1, <3>2, <3>3
  <2>8. Good(m, k)
    BY <2>7
  <2> QED
    BY <1>1, <2>6, <2>8
<1> HIDE DEF Good, Bad
<1> QED
  BY <1>2, <1>3

(* Its values on the initial segments, when it is given with an operator   *)
(* that agrees with step on T.                                             *)
Agrees(g, T, base, n, step) ==
    /\ g[{}] = base
    /\ \A i \in 1..n : g[1..(i - 1)] \in T => g[1..i] = step[<<i, g[1..(i - 1)]>>]
Iterates(h, g, T, base, n, step) ==
    /\ h \in [0..n -> T] /\ h[0] = base /\ h[n] = g[1..n]
    /\ \A i \in 1..n : h[i] = step[<<i, h[i - 1]>>]

LEMMA Iterated ==
  ASSUME NEW T, NEW base \in T, NEW n \in Nat, NEW step \in [(1..n) \X T -> T],
         NEW g, Agrees(g, T, base, n, step)
  PROVE  \E h : Iterates(h, g, T, base, n, step)
<1> DEFINE h == [i \in 0..n |-> g[1..i]]
           S == {i \in 0..n : g[1..i] \in T}
<1>1. 1..0 = {}
  OBVIOUS
<1>2. 0 \in S
  BY <1>1 DEF Agrees
<1>3. ASSUME NEW i \in 1..n, i - 1 \in S PROVE i \in S
  <2>1. g[1..(i - 1)] \in T /\ i \in 0..n
    BY <1>3
  <2>2. g[1..i] = step[<<i, g[1..(i - 1)]>>]
    BY <2>1 DEF Agrees
  <2> QED
    BY <2>1, <2>2
<1>4. \A i \in 0..n : i \in S
  <2> HIDE DEF S
  <2> QED
    BY <1>2, <1>3, AlongTheList
<1>5. h \in [0..n -> T] /\ h[0] = base /\ h[n] = g[1..n]
  BY <1>1, <1>4 DEF Agrees
<1>6. ASSUME NEW i \in 1..n PROVE h[i] = step[<<i, h[i - 1]>>]
  <2>1. i - 1 \in 0..n /\ i \in 0..n
    OBVIOUS
  <2>2. g[1..(i - 1)] \in T
    BY <1>4, <2>1
  <2>3. g[1..i] = step[<<i, g[1..(i - 1)]>>]
    BY <2>2 DEF Agrees
  <2> QED
    BY <2>1, <2>3
<1> HIDE DEF h
<1> QED
  BY <1>5, <1>6 DEF Iterates

(* A nonempty initial segment, as FoldLeft takes it apart.                 *)
LEMMA Segment ==
  ASSUME NEW n \in Nat, NEW i \in 1..n
  PROVE  /\ 1..i \in SUBSET (1..n) /\ 1..i # {} /\ Max(1..i) = i
         /\ (1..i) \ {i} = 1..(i - 1)
<1>1. i \in Nat /\ i # 0 /\ i \in 1..i
  OBVIOUS
<1>2. Max(1..i) = i /\ (1..i) \ {i} = 1..(i - 1)
  BY <1>1, LastOff
<1>3. \A j \in 1..i : j \in 1..n
  OBVIOUS
<1> QED
  BY <1>1, <1>2, <1>3
-----------------------------------------------------------------------------
(* Cfg: the lists, and one line of parse_cfg.                              *)

Parsed == [cfg : Seq(Section), mod : Names \cup {Null}]

LEMMA FindMod ==
  ASSUME NEW c \in Seq(Section), NEW m \in Names, NEW p, p = find_mod(c, m)
  PROVE  /\ p \in 0..Len(c)
         /\ p = 0 <=> ~\E i \in 1..Len(c) : SameName(c[i].mod, m)
         /\ p # 0 => SameName(c[p].mod, m)
                     /\ \A i \in 1..Len(c) : SameName(c[i].mod, m) => p <= i
<1> DEFINE hits == {i \in 1..Len(c) : SameName(c[i].mod, m)}
<1>1. p = IF hits # {} THEN Min(hits) ELSE 0
  BY DEF find_mod, FirstWhere, SelectInSeq
<1>2. hits \in SUBSET (1..Len(c)) /\ Len(c) \in Nat
  OBVIOUS
<1>3. /\ p \in 0..Len(c) /\ (p = 0 <=> hits = {})
      /\ p # 0 => p \in hits /\ \A j \in hits : p <= j
  <2> HIDE DEF hits
  <2> QED
    BY <1>1, <1>2, FirstHit
<1> QED
  BY <1>3

(* add_setting appends to the first section of the name, if there is one.  *)
LEMMA AddSetting ==
  ASSUME NEW c \in Seq(Section), NEW m \in Names, NEW k \in Names,
         NEW v \in Texts \cup {Null}, NEW p, p = find_mod(c, m), p # 0,
         NEW z, z = add_setting(c, m, k, v)
  PROVE  /\ z \in Seq(Section) /\ Len(z) = Len(c)
         /\ \A j \in 1..Len(c) : z[j].mod = c[j].mod /\ (j # p => z[j] = c[j])
         /\ z[p].settings = Append(c[p].settings, [key |-> k, value |-> v])
<1>1. p \in 1..Len(c) /\ p \in DOMAIN c
  BY FindMod
<1> DEFINE x == [key |-> k, value |-> v]
           t == Append(c[p].settings, x)
<1>2. x \in Setting
  BY DEF Setting
<1>3. \A j \in 1..Len(c) : c[j] \in Section
  OBVIOUS
<1>4. c[p].settings \in Seq(Setting) /\ c[p].mod \in Names
  BY <1>1, <1>3 DEF Section
<1>5. t \in Seq(Setting)
  <2> HIDE DEF x
  <2> QED
    BY <1>2, <1>4
<1>6. z = [c EXCEPT ![p] = [c[p] EXCEPT !.settings = t]]
  BY <1>1 DEF add_setting
<1> HIDE DEF t
<1>7. [c[p] EXCEPT !.settings = t] \in Section
      /\ [c[p] EXCEPT !.settings = t].settings = t
      /\ [c[p] EXCEPT !.settings = t].mod = c[p].mod
  BY <1>1, <1>3, <1>5 DEF Section
<1> DEFINE r == [c[p] EXCEPT !.settings = t]
<1> HIDE DEF r
<1>8. /\ z = [c EXCEPT ![p] = r] /\ r \in Section /\ r.settings = t /\ r.mod = c[p].mod
  BY <1>6, <1>7 DEF r
<1>9. z \in Seq(Section) /\ Len(z) = Len(c) /\ z[p] = r
      /\ \A j \in 1..Len(c) : j # p => z[j] = c[j]
  BY <1>1, <1>3, <1>8
<1> QED
  BY <1>8, <1>9 DEF t

LEMMA ParseLineType ==
  ASSUME NEW st \in Parsed, NEW line \in Line
  PROVE  ParseLine(st, line) \in Parsed
<1> USE CfgAssumption
<1>1. CASE line.form = "section"
  <2>1. [mod |-> line.name, settings |-> <<>>] \in Section
    BY DEF Line, Section
  <2>2. add_mod(st.cfg, line.name) \in Seq(Section)
    BY <2>1 DEF add_mod, Parsed
  <2> QED
    BY <1>1, <2>2 DEF ParseLine, Parsed, Line
<1>2. CASE line.form \in {"setting", "emptied", "flag"} /\ st.mod # Null
  <2>1. Stored(line) \in Texts \cup {Null}
    BY <1>2 DEF Stored, Line
  <2>2. add_setting(st.cfg, st.mod, line.name, Stored(line)) \in Seq(Section)
    <3>1. CASE find_mod(st.cfg, st.mod) = 0
      BY <3>1 DEF add_setting, Parsed
    <3>2. CASE find_mod(st.cfg, st.mod) # 0
      <4>1. st.cfg \in Seq(Section) /\ st.mod \in Names /\ line.name \in Names
        BY <1>2 DEF Parsed, Line
      <4>2. PICK c \in Seq(Section), m \in Names, k \in Names, v \in Texts \cup {Null} :
                c = st.cfg /\ m = st.mod /\ k = line.name /\ v = Stored(line)
        BY <2>1, <4>1
      <4>3. find_mod(c, m) # 0
        BY <3>2, <4>2
      <4>4. add_setting(c, m, k, v) \in Seq(Section)
        BY ONLY <4>3, AddSetting, Zenon
      <4> QED
        BY <4>2, <4>4
    <3> QED
      BY <3>1, <3>2
  <2> QED
    BY <1>2, <2>2 DEF ParseLine, Parsed
<1>3. CASE line.form # "section"
           /\ ~(line.form \in {"setting", "emptied", "flag"} /\ st.mod # Null)
  BY <1>3 DEF ParseLine
<1> QED
  BY <1>1, <1>2, <1>3

(* parse_cfg goes through the lines one by one.                            *)
LEMMA ParseSteps ==
  ASSUME NEW f \in Seq(Line)
  PROVE  \E h \in [0..Len(f) -> Parsed] :
            /\ h[0] = NoLines /\ parse_cfg(f) = h[Len(f)].cfg
            /\ \A i \in 1..Len(f) : h[i] = ParseLine(h[i - 1], f[i])
<1> DEFINE n == Len(f)
           step == [p \in (1..n) \X Parsed |-> ParseLine(p[2], f[p[1]])]
           Rec(h) == [s \in SUBSET DOMAIN f |-> IF s = {} THEN NoLines
                          ELSE ParseLine(h[s \ {Max(s)}], f[Max(s)])]
           iter == CHOOSE h : h = Rec(h)
<1>1. n \in Nat /\ DOMAIN f = 1..n /\ \A i \in 1..n : f[i] \in Line
  OBVIOUS
<1>2. NoLines \in Parsed
  BY DEF NoLines, Parsed
<1>3. step \in [(1..n) \X Parsed -> Parsed]
  BY <1>1, ParseLineType
<1>4. PICK g : Folds(g, Parsed, NoLines, n, step)
  <2> HIDE DEF step, n
  <2> QED
    BY <1>1, <1>2, <1>3, FoldIsThere
<1>5. \A s \in SUBSET (1..n) : s # {} => Max(s) \in 1..n /\ s \ {Max(s)} \in SUBSET (1..n)
  BY <1>1, GreatestThere
<1>6. g = Rec(g)
  <2>1. ASSUME NEW s \in SUBSET (1..n), s # {}
        PROVE  g[s] = ParseLine(g[s \ {Max(s)}], f[Max(s)])
    <3>1. g[s \ {Max(s)}] \in Parsed /\ Max(s) \in 1..n
      BY <1>4, <1>5, <2>1 DEF Folds
    <3> QED
      BY <1>4, <2>1, <3>1 DEF Folds
  <2> HIDE DEF step, n
  <2> QED
    BY <1>1, <1>4, <2>1 DEF Folds
<1>7. iter = Rec(iter)
  <2> HIDE DEF Rec
  <2> QED
    BY <1>6
<1> HIDE DEF iter
<1>8. iter[{}] = NoLines
  BY <1>1, <1>7
<1>9. ASSUME NEW i \in 1..n
      PROVE  iter[1..i] = ParseLine(iter[1..(i - 1)], f[i])
  <2>1. 1..i \in SUBSET DOMAIN f /\ 1..i # {} /\ Max(1..i) = i
        /\ (1..i) \ {i} = 1..(i - 1)
    BY <1>1, Segment
  <2> QED
    BY <1>7, <2>1
<1>10. PICK h : Iterates(h, iter, Parsed, NoLines, n, step)
  <2>1. Agrees(iter, Parsed, NoLines, n, step)
    BY <1>8, <1>9 DEF Agrees
  <2> HIDE DEF step, n
  <2> QED
    BY <1>1, <1>2, <1>3, <2>1, Iterated
<1>11. ASSUME NEW i \in 1..n PROVE h[i] = ParseLine(h[i - 1], f[i])
  <2>1. h[i - 1] \in Parsed /\ h[i] = step[<<i, h[i - 1]>>]
    <3>1. i - 1 \in 0..n
      BY <1>1
    <3> HIDE DEF step
    <3> QED
      BY ONLY <1>10, <3>1, i \in 1..n DEF Iterates
  <2> QED
    BY <2>1
<1>12. parse_cfg(f) = h[n].cfg
  <2>1. parse_cfg(f) = iter[DOMAIN f].cfg
    BY DEF parse_cfg, FoldLeft, MapThenFoldSet, iter
  <2> QED
    BY <1>1, <1>10, <2>1 DEF Iterates
<1> HIDE DEF step
<1> QED
  BY <1>10, <1>11, <1>12 DEF Iterates
-----------------------------------------------------------------------------
(* The settings of the first section of a name.                            *)
Own(c, m) == IF find_mod(c, m) = 0 THEN <<>> ELSE c[find_mod(c, m)].settings

LEMMA OwnType ==
  ASSUME NEW c \in Seq(Section), NEW m \in Names
  PROVE  Own(c, m) \in Seq(Setting)
<1>1. CASE find_mod(c, m) = 0
  BY <1>1 DEF Own
<1>2. CASE find_mod(c, m) # 0
  <2>1. find_mod(c, m) \in 1..Len(c)
    BY <1>2, FindMod
  <2>2. \A i \in 1..Len(c) : c[i] \in Section
    OBVIOUS
  <2> QED
    BY <1>2, <2>1, <2>2 DEF Own, Section
<1> QED
  BY <1>1, <1>2

LEMMA FindModIs ==
  ASSUME NEW c \in Seq(Section), NEW m \in Names, NEW p \in 1..Len(c),
         SameName(c[p].mod, m), \A i \in 1..(p - 1) : ~SameName(c[i].mod, m)
  PROVE  find_mod(c, m) = p
<1>1. PICK q : q = find_mod(c, m)
  OBVIOUS
<1>2. q \in 1..Len(c) /\ SameName(c[q].mod, m) /\ q <= p
  BY <1>1, FindMod
<1>3. ~(q < p)
  BY <1>2
<1> QED
  BY <1>1, <1>2, <1>3

(* find_setting looks among them.                                          *)
LEMMA FindSetting ==
  ASSUME NEW c \in Seq(Section), NEW m \in Names, NEW k \in Names,
         NEW s, s = Own(c, m)
  PROVE  /\ (\A x \in 1..Len(s) : ~SameName(s[x].key, k)) => find_setting(c, m, k) = Null
         /\ \A x \in 1..Len(s) :
               SameName(s[x].key, k) /\ (\A y \in 1..(x - 1) : ~SameName(s[y].key, k))
                  => find_setting(c, m, k) = s[x].value
<1>1. CASE find_mod(c, m) = 0
  BY <1>1 DEF Own, find_setting
<1>2. CASE find_mod(c, m) # 0
  <2> DEFINE hits == {x \in 1..Len(s) : SameName(s[x].key, k)}
             i == IF hits # {} THEN Min(hits) ELSE 0
  <2>1. s = c[find_mod(c, m)].settings
    BY <1>2 DEF Own
  <2>2. find_setting(c, m, k) = IF i = 0 THEN Null ELSE s[i].value
    BY <1>2, <2>1 DEF find_setting, FirstWhere, SelectInSeq
  <2>3. s \in Seq(Setting) /\ Len(s) \in Nat
    BY OwnType
  <2>4. hits \in SUBSET (1..Len(s))
    OBVIOUS
  <2>5. /\ i \in 0..Len(s) /\ (i = 0 <=> hits = {})
        /\ i # 0 => i \in hits /\ \A j \in hits : i <= j
    <3> HIDE DEF hits
    <3>1. PICK j : j = i
      OBVIOUS
    <3> HIDE DEF i
    <3>2. j = IF hits # {} THEN Min(hits) ELSE 0
      BY <3>1 DEF i
    <3> QED
      BY <2>3, <2>4, <3>1, <3>2, FirstHit
  <2> HIDE DEF i
  <2>6. ASSUME NEW x \in 1..Len(s), SameName(s[x].key, k),
               \A y \in 1..(x - 1) : ~SameName(s[y].key, k)
        PROVE  i = x
    <3>1. x \in hits
      BY <2>6
    <3>2. i \in hits /\ i <= x /\ i \in 1..Len(s)
      BY <2>5, <3>1
    <3>3. ~(i < x)
      BY <2>6, <3>2
    <3> QED
      BY <3>2, <3>3
  <2>7. (\A x \in 1..Len(s) : ~SameName(s[x].key, k)) => i = 0
    BY <2>5
  <2>8. \A x \in 1..Len(s) : x # 0
    OBVIOUS
  <2> HIDE DEF hits
  <2> QED
    BY <2>2, <2>6, <2>7, <2>8
<1> QED
  BY <1>1, <1>2

(* Opening a section changes no settings; a setting goes to the first      *)
(* section of its name.                                                    *)
LEMMA OwnAfterOpening ==
  ASSUME NEW c \in Seq(Section), NEW n \in Names, NEW z, z = add_mod(c, n)
  PROVE  /\ find_mod(z, n) # 0
         /\ \A m \in Names : Own(z, m) = Own(c, m)
<1> DEFINE new == [mod |-> n, settings |-> <<>>]
<1>1. new \in Section
  BY DEF Section
<1>2. z = Append(c, new)
  BY DEF add_mod
<1> HIDE DEF new
<1>3. /\ z \in Seq(Section) /\ Len(z) = Len(c) + 1 /\ z[Len(c) + 1] = new
      /\ \A j \in 1..Len(c) : z[j] = c[j]
  BY <1>1, <1>2
<1>4. new.mod = n /\ new.settings = <<>>
  BY DEF new
<1>5. ASSUME NEW m \in Names PROVE Own(z, m) = Own(c, m)
  <2>1. PICK p, q : p = find_mod(c, m) /\ q = find_mod(z, m)
    OBVIOUS
  <2>2. CASE p # 0
    <3>1. p \in 1..Len(c) /\ SameName(c[p].mod, m)
          /\ \A i \in 1..(p - 1) : ~SameName(c[i].mod, m)
      BY <2>1, <2>2, FindMod
    <3>2. p \in 1..Len(z) /\ z[p] = c[p] /\ \A i \in 1..(p - 1) : z[i] = c[i]
      BY <1>3, <3>1
    <3>3. q = p
      BY <1>3, <2>1, <3>1, <3>2, FindModIs
    <3> QED
      BY <2>1, <2>2, <3>2, <3>3 DEF Own
  <2>3. CASE p = 0
    <3>1. \A i \in 1..Len(c) : ~SameName(c[i].mod, m)
      BY <2>1, <2>3, FindMod
    <3>2. q # 0 => q \in 1..Len(z) /\ SameName(z[q].mod, m)
      BY <1>3, <2>1, FindMod
    <3>3. q # 0 => q = Len(c) + 1
      BY <1>3, <3>1, <3>2
    <3>4. Own(z, m) = <<>>
      BY <1>3, <1>4, <2>1, <3>3 DEF Own
    <3> QED
      BY <2>1, <2>3, <3>4 DEF Own
  <2> QED
    BY <2>2, <2>3
<1>6. find_mod(z, n) # 0
  <2>1. SameName(z[Len(c) + 1].mod, n) /\ Len(c) + 1 \in 1..Len(z)
    BY <1>3, <1>4 DEF SameName
  <2> QED
    BY <1>3, <2>1, FindMod
<1> QED
  BY <1>5, <1>6

LEMMA OwnAfterSetting ==
  ASSUME NEW c \in Seq(Section), NEW n \in Names, NEW k \in Names,
         NEW v \in Texts \cup {Null}, find_mod(c, n) # 0,
         NEW z, z = add_setting(c, n, k, v)
  PROVE  /\ find_mod(z, n) # 0
         /\ \A m \in Names :
               Own(z, m) = IF SameName(n, m)
                           THEN Append(Own(c, m), [key |-> k, value |-> v])
                           ELSE Own(c, m)
<1>1. PICK p : p = find_mod(c, n)
  OBVIOUS
<1>2. p \in 1..Len(c) /\ p # 0 /\ SameName(c[p].mod, n)
      /\ \A i \in 1..Len(c) : SameName(c[i].mod, n) => p <= i
  BY <1>1, FindMod
<1>3. /\ z \in Seq(Section) /\ Len(z) = Len(c)
      /\ \A j \in 1..Len(c) : z[j].mod = c[j].mod /\ (j # p => z[j] = c[j])
      /\ z[p].settings = Append(c[p].settings, [key |-> k, value |-> v])
  BY <1>1, <1>2, AddSetting
<1>4. ASSUME NEW m \in Names PROVE find_mod(z, m) = find_mod(c, m)
  <2>1. PICK q, r : q = find_mod(c, m) /\ r = find_mod(z, m)
    OBVIOUS
  <2>2. CASE q # 0
    <3>1. q \in 1..Len(c) /\ SameName(c[q].mod, m)
          /\ \A i \in 1..(q - 1) : ~SameName(c[i].mod, m)
      BY <2>1, <2>2, FindMod
    <3>2. q \in 1..Len(z) /\ SameName(z[q].mod, m)
          /\ \A i \in 1..(q - 1) : ~SameName(z[i].mod, m)
      BY <1>3, <3>1
    <3> QED
      BY <1>3, <2>1, <3>2, FindModIs
  <2>3. CASE q = 0
    <3>1. \A i \in 1..Len(c) : ~SameName(c[i].mod, m)
      BY <2>1, <2>3, FindMod
    <3>2. \A i \in 1..Len(z) : ~SameName(z[i].mod, m)
      BY <1>3, <3>1
    <3> QED
      BY <1>3, <2>1, <2>3, <3>2, FindMod, SMTT(30)
  <2> QED
    BY <2>2, <2>3
<1>5. ASSUME NEW m \in Names
      PROVE  Own(z, m) = IF SameName(n, m)
                         THEN Append(Own(c, m), [key |-> k, value |-> v])
                         ELSE Own(c, m)
  <2>1. PICK q : q = find_mod(c, m) /\ q = find_mod(z, m)
    BY <1>4
  <2>2. CASE SameName(n, m)
    <3>a. q = find_mod(c, m) /\ SameName(c[p].mod, m)
      BY <1>2, <2>1, <2>2 DEF SameName
    <3>b. q # 0
      BY <1>2, <3>a, FindMod
    <3>1. q \in 1..Len(c) /\ SameName(c[q].mod, m)
          /\ \A i \in 1..Len(c) : SameName(c[i].mod, m) => q <= i
      BY <3>a, <3>b, FindMod
    <3>2. q = p
      BY <1>2, <2>2, <3>1 DEF SameName
    <3> QED
      BY <1>2, <1>3, <2>1, <2>2, <3>2 DEF Own
  <2>3. CASE ~SameName(n, m)
    <3>a. q = find_mod(c, m)
      BY <2>1
    <3>1. q # 0 => q \in 1..Len(c) /\ SameName(c[q].mod, m)
      BY <3>a, FindMod
    <3>2. q # p
      BY <1>2, <2>3, <3>1 DEF SameName
    <3> QED
      BY <1>3, <2>1, <2>3, <3>1, <3>2 DEF Own
  <2> QED
    BY <2>2, <2>3
<1> QED
  BY <1>2, <1>4, <1>5
-----------------------------------------------------------------------------
(* After i lines: the section that is open, and for each key of a section  *)
(* the first setting, which is that of the first line so far that sets it. *)
Before(f, i, m, k) == {j \in Sets(f, m, k) : j <= i}
FirstKey(s, k, x) ==
    SameName(s[x].key, k) /\ \A y \in 1..(x - 1) : ~SameName(s[y].key, k)
SameFirst(s, f, i, m, k) ==
    \/ Before(f, i, m, k) = {} /\ \A x \in 1..Len(s) : ~SameName(s[x].key, k)
    \/ \E x \in 1..Len(s), l \in Before(f, i, m, k) :
          /\ FirstKey(s, k, x) /\ s[x].value = Stored(f[l])
          /\ \A j \in Before(f, i, m, k) : l <= j
Read(st, f, i) ==
    /\ st.mod = OpenSection(f, i + 1)
    /\ st.mod # Null => find_mod(st.cfg, st.mod) # 0
    /\ \A m, k \in Names : SameFirst(Own(st.cfg, m), f, i, m, k)

LEMMA OpenNext ==
  ASSUME NEW f \in Seq(Line), NEW i \in 1..Len(f)
  PROVE  OpenSection(f, i + 1) = IF f[i].form = "section" THEN f[i].name
                                 ELSE OpenSection(f, i)
<1> DEFINE now == {j \in 1..((i + 1) - 1) : f[j].form = "section"}
           old == {j \in 1..(i - 1) : f[j].form = "section"}
<1>1. i \in Nat /\ i >= 1
  OBVIOUS
<1>2. CASE f[i].form = "section"
  <2>1. i \in now /\ \A l \in now : l <= i
    BY <1>1, <1>2
  <2>2. (CHOOSE j \in now : \A l \in now : l <= j) = i
    <3>1. \A j \in now : (\A l \in now : l <= j) => j = i
      BY <2>1
    <3> HIDE DEF now
    <3> QED
      BY <2>1, <3>1
  <2> QED
    BY <1>2, <2>1, <2>2 DEF OpenSection
<1>3. CASE f[i].form # "section"
  <2>1. now = old
    BY <1>1, <1>3
  <2>2. OpenSection(f, i + 1) = IF now = {} THEN Null
           ELSE f[CHOOSE j \in now : \A l \in now : l <= j].name
    BY DEF OpenSection
  <2>3. OpenSection(f, i) = IF old = {} THEN Null
           ELSE f[CHOOSE j \in old : \A l \in old : l <= j].name
    BY DEF OpenSection
  <2> HIDE DEF now, old
  <2> QED
    BY <1>3, <2>1, <2>2, <2>3
<1> QED
  BY <1>2, <1>3

LEMMA OneMoreLine ==
  ASSUME NEW f \in Seq(Line), NEW i \in 1..Len(f), NEW m \in Names, NEW k \in Names,
         NEW s \in Seq(Setting), SameFirst(s, f, i - 1, m, k)
  PROVE  /\ i \notin Sets(f, m, k) => SameFirst(s, f, i, m, k)
         /\ \A x \in Setting :
               (SameName(x.key, k) <=> i \in Sets(f, m, k)) /\ x.value = Stored(f[i])
                  => SameFirst(Append(s, x), f, i, m, k)
<1>1. i \in Nat /\ i >= 1 /\ Len(s) \in Nat /\ Sets(f, m, k) \subseteq 1..Len(f)
  BY DEF Sets
<1>2. Before(f, i, m, k) = Before(f, i - 1, m, k) \cup (IF i \in Sets(f, m, k) THEN {i} ELSE {})
  BY <1>1 DEF Before
<1>3. \A j \in Before(f, i - 1, m, k) : j <= i /\ j \in Nat
  BY <1>1 DEF Before
<1>4. i \notin Sets(f, m, k) => SameFirst(s, f, i, m, k)
  BY <1>2 DEF SameFirst
<1>5. ASSUME NEW x \in Setting, x.value = Stored(f[i]),
             SameName(x.key, k) <=> i \in Sets(f, m, k)
      PROVE  SameFirst(Append(s, x), f, i, m, k)
  <2> DEFINE t == Append(s, x)
  <2>1. /\ Len(t) = Len(s) + 1 /\ t[Len(s) + 1] = x
        /\ \A y \in 1..Len(s) : t[y] = s[y]
    OBVIOUS
  <2> HIDE DEF t
  <2>2. CASE Before(f, i - 1, m, k) = {} /\ \A y \in 1..Len(s) : ~SameName(s[y].key, k)
    <3>1. CASE i \in Sets(f, m, k)
      <4>1. Before(f, i, m, k) = {i}
        BY <1>2, <2>2, <3>1
      <4>2. FirstKey(t, k, Len(s) + 1) /\ t[Len(s) + 1].value = Stored(f[i])
        BY <1>1, <1>5, <2>1, <2>2, <3>1 DEF FirstKey
      <4>3. Len(s) + 1 \in 1..Len(t) /\ i <= i
        BY <1>1, <2>1
      <4>4. SameFirst(t, f, i, m, k)
        BY <4>1, <4>2, <4>3 DEF SameFirst
      <4> QED
        BY <4>4 DEF t
    <3>2. CASE i \notin Sets(f, m, k)
      <4>1. \A y \in 1..Len(t) : ~SameName(t[y].key, k)
        BY <1>1, <1>5, <2>1, <2>2, <3>2
      <4>2. SameFirst(t, f, i, m, k)
        BY <1>2, <2>2, <3>2, <4>1 DEF SameFirst
      <4> QED
        BY <4>2 DEF t
    <3> QED
      BY <3>1, <3>2
  <2>3. ASSUME NEW y \in 1..Len(s), NEW l \in Before(f, i - 1, m, k),
               FirstKey(s, k, y), s[y].value = Stored(f[l]),
               \A j \in Before(f, i - 1, m, k) : l <= j
        PROVE  SameFirst(Append(s, x), f, i, m, k)
    <3>0. y \in 1..Len(t) /\ t[y] = s[y] /\ \A z \in 1..(y - 1) : t[z] = s[z]
      BY <1>1, <2>1
    <3>1. y \in 1..Len(t) /\ FirstKey(t, k, y) /\ t[y].value = Stored(f[l])
      BY <2>3, <3>0 DEF FirstKey
    <3>2. l \in Before(f, i, m, k) /\ \A j \in Before(f, i, m, k) : l <= j
      BY <1>2, <1>3, <2>3
    <3>3. SameFirst(t, f, i, m, k)
      BY <3>1, <3>2 DEF SameFirst
    <3> QED
      BY <3>3 DEF t
  <2> QED
    BY <2>2, <2>3 DEF SameFirst
<1> QED
  BY <1>4, <1>5

LEMMA ReadLine ==
  ASSUME NEW f \in Seq(Line), NEW i \in 1..Len(f), NEW st \in Parsed,
         Read(st, f, i - 1)
  PROVE  Read(ParseLine(st, f[i]), f, i)
<1> USE CfgAssumption
<1> DEFINE line == f[i]
<1>0. PICK z : z = ParseLine(st, line)
  OBVIOUS
<1>1. line \in Line /\ i \in Nat /\ (i - 1) + 1 = i /\ i \in DOMAIN f
  OBVIOUS
<1>2. st.cfg \in Seq(Section) /\ st.mod = OpenSection(f, i)
      /\ \A m, k \in Names : SameFirst(Own(st.cfg, m), f, i - 1, m, k)
  BY <1>1 DEF Read, Parsed
<1>3. \A m \in Names : Own(st.cfg, m) \in Seq(Setting)
  BY <1>2, OwnType
<1>4. OpenSection(f, i + 1) = IF line.form = "section" THEN line.name ELSE st.mod
  BY <1>2, OpenNext
<1>5. ASSUME NEW m \in Names, NEW k \in Names
      PROVE  i \in Sets(f, m, k) <=> /\ line.form \in {"setting", "emptied", "flag"}
                                     /\ st.mod # Null /\ SameName(st.mod, m)
                                     /\ SameName(line.name, k)
  BY <1>1, <1>2 DEF Sets
<1>6. CASE line.form = "section"
  <2>1. z = [cfg |-> add_mod(st.cfg, line.name), mod |-> line.name]
    BY <1>0, <1>6 DEF ParseLine
  <2>2. line.name \in Names
    BY <1>1 DEF Line
  <2>3. find_mod(z.cfg, line.name) # 0 /\ \A m \in Names : Own(z.cfg, m) = Own(st.cfg, m)
    BY <1>2, <2>1, <2>2, OwnAfterOpening
  <2>4. ASSUME NEW m \in Names, NEW k \in Names
        PROVE  SameFirst(Own(z.cfg, m), f, i, m, k)
    <3>1. i \notin Sets(f, m, k)
      BY <1>5, <1>6
    <3>2. SameFirst(Own(st.cfg, m), f, i, m, k)
      BY <1>2, <1>3, <3>1, OneMoreLine
    <3> QED
      BY <2>3, <3>2
  <2> QED
    BY <1>0, <1>4, <1>6, <2>1, <2>3, <2>4 DEF Read
<1>7. CASE line.form \in {"setting", "emptied", "flag"} /\ st.mod # Null
  <2>1. z = [st EXCEPT !.cfg = add_setting(st.cfg, st.mod, line.name, Stored(line))]
    BY <1>0, <1>7 DEF ParseLine
  <2>2. z.mod = st.mod /\ z.cfg = add_setting(st.cfg, st.mod, line.name, Stored(line))
    BY <2>1 DEF Parsed
  <2>3. line.name \in Names /\ st.mod \in Names /\ Stored(line) \in Texts \cup {Null}
    BY <1>1, <1>7 DEF Line, Parsed, Stored
  <2>4. find_mod(st.cfg, st.mod) # 0
    BY <1>7 DEF Read
  <2> DEFINE x == [key |-> line.name, value |-> Stored(line)]
  <2>5. /\ find_mod(z.cfg, st.mod) # 0
        /\ \A m \in Names : Own(z.cfg, m) = IF SameName(st.mod, m)
                                THEN Append(Own(st.cfg, m), x) ELSE Own(st.cfg, m)
    <3>1. PICK c, n, k, v, old : c = z.cfg /\ n = st.mod /\ k = line.name
                                 /\ v = Stored(line) /\ old = st.cfg
      OBVIOUS
    <3>2. /\ n \in Names /\ k \in Names /\ v \in Texts \cup {Null} /\ old \in Seq(Section)
          /\ find_mod(old, n) # 0 /\ c = add_setting(old, n, k, v)
      BY <1>2, <2>2, <2>3, <2>4, <3>1
    <3>3. /\ find_mod(c, n) # 0
          /\ \A m \in Names : Own(c, m) = IF SameName(n, m)
                                THEN Append(Own(old, m), [key |-> k, value |-> v])
                                ELSE Own(old, m)
      <4> HIDE DEF x
      <4> QED
        BY ONLY <3>2, OwnAfterSetting
    <3> QED
      BY <3>1, <3>3
  <2>6. x \in Setting /\ x.key = line.name /\ x.value = Stored(line)
    BY <2>3 DEF Setting
  <2> HIDE DEF x
  <2>7. ASSUME NEW m \in Names, NEW k \in Names
        PROVE  SameFirst(Own(z.cfg, m), f, i, m, k)
    <3>1. CASE SameName(st.mod, m)
      <4>1. SameName(x.key, k) <=> i \in Sets(f, m, k)
        BY <1>5, <1>7, <2>6, <3>1
      <4>2. SameFirst(Append(Own(st.cfg, m), x), f, i, m, k)
        BY <1>2, <1>3, <2>6, <4>1, OneMoreLine
      <4> QED
        BY <2>5, <3>1, <4>2
    <3>2. CASE ~SameName(st.mod, m)
      <4>1. i \notin Sets(f, m, k)
        BY <1>5, <3>2
      <4>2. SameFirst(Own(st.cfg, m), f, i, m, k)
        BY <1>2, <1>3, <4>1, OneMoreLine
      <4> QED
        BY <2>5, <3>2, <4>2
    <3> QED
      BY <3>1, <3>2
  <2> QED
    BY <1>0, <1>4, <1>7, <2>2, <2>5, <2>7 DEF Read
<1>8. CASE line.form # "section"
           /\ ~(line.form \in {"setting", "emptied", "flag"} /\ st.mod # Null)
  <2>1. z = st
    BY <1>0, <1>8 DEF ParseLine
  <2>2. ASSUME NEW m \in Names, NEW k \in Names
        PROVE  SameFirst(Own(st.cfg, m), f, i, m, k)
    <3>1. i \notin Sets(f, m, k)
      BY <1>5, <1>8
    <3> QED
      BY <1>2, <1>3, <3>1, OneMoreLine
  <2> QED
    BY <1>0, <1>4, <1>8, <2>1, <2>2 DEF Read
<1> QED
  BY <1>0, <1>6, <1>7, <1>8

(* cfg.h, for every file: what the lists answer is what its first line for *)
(* the key says.                                                           *)
LEMMA ParsedWell ==
  ASSUME NEW f \in Seq(Line)
  PROVE  /\ parse_cfg(f) \in Seq(Section)
         /\ \A m, k \in Names : find_setting(parse_cfg(f), m, k) = Promised(f, m, k)
<1>1. PICK h \in [0..Len(f) -> Parsed] :
            /\ h[0] = NoLines /\ parse_cfg(f) = h[Len(f)].cfg
            /\ \A i \in 1..Len(f) : h[i] = ParseLine(h[i - 1], f[i])
  BY ParseSteps
<1>2. Len(f) \in Nat /\ DOMAIN f = 1..Len(f)
  OBVIOUS
<1>3. Read(h[0], f, 0)
  <2>1. OpenSection(f, 0 + 1) = Null
    BY DEF OpenSection
  <2>2. \A m \in Names : Own(<<>>, m) = <<>>
    <3> SUFFICES ASSUME NEW m \in Names PROVE Own(<<>>, m) = <<>>
      OBVIOUS
    <3>1. <<>> \in Seq(Section) /\ Len(<<>>) = 0
      OBVIOUS
    <3>2. find_mod(<<>>, m) = 0
      BY <3>1, FindMod
    <3> QED
      BY <3>2 DEF Own
  <2>3. \A m, k \in Names : Before(f, 0, m, k) = {}
    BY <1>2 DEF Before, Sets
  <2>4. \A m, k \in Names : SameFirst(<<>>, f, 0, m, k)
    BY <2>3 DEF SameFirst
  <2> QED
    BY <1>1, <2>1, <2>2, <2>4 DEF Read, NoLines
<1>4. \A i \in 0..Len(f) : Read(h[i], f, i)
  <2> DEFINE S == {i \in 0..Len(f) : Read(h[i], f, i)}
  <2>1. 0 \in S
    BY <1>2, <1>3
  <2>2. ASSUME NEW i \in 1..Len(f), i - 1 \in S PROVE i \in S
    <3>1. h[i - 1] \in Parsed /\ Read(h[i - 1], f, i - 1) /\ i \in 0..Len(f)
      BY <1>1, <2>2
    <3> QED
      BY <1>1, <3>1, ReadLine
  <2>3. \A i \in 0..Len(f) : i \in S
    <3> HIDE DEF S
    <3> QED
      BY <1>2, <2>1, <2>2, AlongTheList
  <2> QED
    BY <2>3
<1>5. Read(h[Len(f)], f, Len(f)) /\ h[Len(f)] \in Parsed
  BY <1>1, <1>2, <1>4
<1>6. parse_cfg(f) \in Seq(Section)
  BY <1>1, <1>5 DEF Parsed
<1>7. ASSUME NEW m \in Names, NEW k \in Names
      PROVE  find_setting(parse_cfg(f), m, k) = Promised(f, m, k)
  <2> DEFINE at == Sets(f, m, k)
  <2>1. at = Before(f, Len(f), m, k) /\ at \subseteq 1..Len(f)
    BY <1>2 DEF Before, Sets
  <2>2. PICK s : s = Own(parse_cfg(f), m)
    OBVIOUS
  <2>3. s \in Seq(Setting) /\ SameFirst(s, f, Len(f), m, k)
    BY <1>1, <1>5, <1>6, <2>2, OwnType DEF Read
  <2>4. CASE at = {} /\ \A x \in 1..Len(s) : ~SameName(s[x].key, k)
    BY <1>6, <2>2, <2>4, FindSetting DEF Promised
  <2>5. ASSUME NEW x \in 1..Len(s), NEW l \in at, FirstKey(s, k, x),
               s[x].value = Stored(f[l]), \A j \in at : l <= j
        PROVE  find_setting(parse_cfg(f), m, k) = Promised(f, m, k)
    <3>0. SameName(s[x].key, k) /\ \A y \in 1..(x - 1) : ~SameName(s[y].key, k)
      BY <2>5 DEF FirstKey
    <3>1. find_setting(parse_cfg(f), m, k) = s[x].value
      BY <1>6, <2>2, <3>0, FindSetting, SMTT(30)
    <3>2. \A i \in at : (\A j \in at : i <= j) => i = l
      BY <2>1, <2>5
    <3>3. (CHOOSE i \in at : \A j \in at : i <= j) = l
      <4> HIDE DEF at
      <4> QED
        BY <2>5, <3>2
    <3> QED
      BY <2>5, <3>1, <3>3 DEF Promised
  <2> HIDE DEF at
  <2> QED
    BY <2>1, <2>3, <2>4, <2>5 DEF SameFirst
<1> QED
  BY <1>6, <1>7

LEMMA AnswersWell ==
  ASSUME NEW f \in Seq(Line)
  PROVE  FirstLineCounts(parse_cfg(f), f)
<1> SUFFICES ASSUME NEW m \in Names, NEW k \in Names, NEW type \in 0..4
             PROVE  protocol_command_cfg(parse_cfg(f), m, k, type)
                       = Answer(Promised(f, m, k), type)
  BY DEF FirstLineCounts
<1>1. find_setting(parse_cfg(f), m, k) = Promised(f, m, k)
  BY ParsedWell
<1>2. type \in {0, 1, 2, 3, 4}
  OBVIOUS
<1> QED
  BY <1>1, <1>2 DEF protocol_command_cfg, Answer, get_char_key, get_int_key,
                       get_double_key, get_bool_key
-----------------------------------------------------------------------------
(* Registry: the two lists of module.c.                                    *)

(* A node of the modules, but for the sign of its count.                   *)
Node == [name : Names, path : Objects, open : BOOLEAN, clients : Int]
Regs == [mods : Seq(Node), vars : Seq(ModuleVar)]

Distinct(s) == \A i, j \in DOMAIN s : s[i].name = s[j].name => i = j

(* v is as object o registers it under the configuration c.                *)
GivenBy(v, c, o) ==
    /\ v.parent = ModuleName[o]
    /\ \E d \in ToSet(Registers[o]) :
          v.name = d.name /\ v.kind = d.kind /\ v.timeout = UserTimeout(c, d)

(* One node for each name, and the path of an object of that name.         *)
Named(mods) ==
    /\ mods \in Seq(Node) /\ Distinct(mods)
    /\ \A j \in DOMAIN mods : mods[j].name = ModuleName[mods[j].path]

Whole(r, c) ==
    /\ r \in Regs /\ Named(r.mods) /\ Distinct(r.vars)
    /\ \A i \in DOMAIN r.vars :
          /\ \E j \in DOMAIN r.mods : r.mods[j].name = r.vars[i].parent
          /\ \E o \in Objects : GivenBy(r.vars[i], c, o)

(* The node of object o, just loaded.                                      *)
Fresh(m, o) == m.name = ModuleName[o] /\ m.path = o /\ m.clients = 0

(* count[n] requests are for variables of the module n.                    *)
Accounted(r, count) ==
    /\ \A j \in DOMAIN r.mods :
          /\ r.mods[j].clients = count[r.mods[j].name]
          /\ r.mods[j].open => count[r.mods[j].name] > 0
    /\ \A i \in DOMAIN r.vars : r.vars[i].loaded => count[r.vars[i].parent] > 0

(* The variables z came out of vs when object o was initialised.           *)
Grown(vs, z, c, o) ==
    /\ z \in Seq(ModuleVar) /\ Distinct(z) /\ Len(vs) <= Len(z)
    /\ \A i \in DOMAIN vs : z[i].name = vs[i].name
    /\ \A i \in DOMAIN z : \/ i \in DOMAIN vs /\ z[i] = vs[i]
                           \/ GivenBy(z[i], c, o) /\ z[i].loaded = FALSE

LEMMA SettingText ==
  ASSUME NEW c \in Seq(Section), NEW m \in Names, NEW k \in Names
  PROVE  find_setting(c, m, k) \in Texts \cup {Null}
<1>1. PICK s : s = Own(c, m)
  OBVIOUS
<1>2. s \in Seq(Setting) /\ \A x \in 1..Len(s) : s[x] \in Setting
  BY <1>1, OwnType
<1> DEFINE hits == {x \in 1..Len(s) : SameName(s[x].key, k)}
<1>3. CASE hits = {}
  BY <1>1, <1>3, FindSetting
<1>4. CASE hits # {}
  <2>1. PICK x \in hits : \A y \in hits : x <= y
    <3> hits \in SUBSET Nat
      OBVIOUS
    <3> HIDE DEF hits
    <3> QED
      BY <1>4, LeastNat
  <2>2. x \in 1..Len(s) /\ SameName(s[x].key, k)
        /\ \A y \in 1..(x - 1) : ~SameName(s[y].key, k)
    BY <1>2, <2>1
  <2>3. find_setting(c, m, k) = s[x].value
    BY <1>1, <2>2, FindSetting
  <2> QED
    BY <1>2, <2>2, <2>3 DEF Setting
<1> QED
  BY <1>3, <1>4

LEMMA TimeoutType ==
  ASSUME NEW c \in Seq(Section), NEW o \in Objects, NEW d \in ToSet(Registers[o])
  PROVE  d \in Declared /\ UserTimeout(c, d) \in Int
<1>1. d \in Declared
  <2>1. Registers[o] \in Seq(Declared)
    BY RegistryAssumption
  <2> QED
    BY <2>1 DEF ToSet
<1>2. PICK m \in Names : UserTimeout(c, d) = get_double_key(c, m, d.name, d.timeout)
  BY RegistryAssumption DEF UserTimeout
<1>3. find_setting(c, m, d.name) \in Texts \cup {Null}
  BY <1>1, SettingText DEF Declared
<1> QED
  BY <1>1, <1>2, <1>3, CfgAssumption DEF get_double_key, Declared

LEMMA FindModule ==
  ASSUME NEW S, NEW s \in Seq(S), NEW n, NEW p, p = module_find_by_name(s, n)
  PROVE  /\ p \in 0..Len(s)
         /\ p = 0 <=> ~\E i \in 1..Len(s) : s[i].name = n
         /\ p # 0 => s[p].name = n
<1> DEFINE hits == {i \in 1..Len(s) : s[i].name = n}
<1>1. p = IF hits # {} THEN Min(hits) ELSE 0
  BY DEF module_find_by_name, FirstWhere, SelectInSeq
<1>2. hits \in SUBSET (1..Len(s)) /\ Len(s) \in Nat
  OBVIOUS
<1>3. p \in 0..Len(s) /\ (p = 0 <=> hits = {}) /\ (p # 0 => p \in hits)
  <2> HIDE DEF hits
  <2> QED
    BY <1>1, <1>2, FirstHit
<1> QED
  BY <1>3

LEMMA FindVar ==
  ASSUME NEW S, NEW s \in Seq(S), NEW n, NEW p, p = module_var_find_by_name(s, n)
  PROVE  /\ p \in 0..Len(s)
         /\ p = 0 <=> ~\E i \in 1..Len(s) : s[i].name = n
         /\ p # 0 => s[p].name = n
<1> DEFINE hits == {i \in 1..Len(s) : s[i].name = n}
<1>1. p = IF hits # {} THEN Min(hits) ELSE 0
  BY DEF module_var_find_by_name, FirstWhere, SelectInSeq
<1>2. hits \in SUBSET (1..Len(s)) /\ Len(s) \in Nat
  OBVIOUS
<1>3. p \in 0..Len(s) /\ (p = 0 <=> hits = {}) /\ (p # 0 => p \in hits)
  <2> HIDE DEF hits
  <2> QED
    BY <1>1, <1>2, FirstHit
<1> QED
  BY <1>3

LEMMA VarAdded ==
  ASSUME NEW c \in Seq(Section), NEW vs \in Seq(ModuleVar), Distinct(vs),
         NEW o \in Objects, NEW d \in ToSet(Registers[o]),
         NEW z, z = module_var_add(c, vs, ModuleName[o], d)
  PROVE  Grown(vs, z, c, o)
<1> DEFINE new == [name |-> d.name, kind |-> d.kind, parent |-> ModuleName[o],
                   timeout |-> UserTimeout(c, d), loaded |-> FALSE]
<1>1. d \in Declared /\ UserTimeout(c, d) \in Int /\ ModuleName[o] \in Names
  BY TimeoutType, RegistryAssumption
<1>2. new \in ModuleVar /\ new.name = d.name /\ GivenBy(new, c, o) /\ new.loaded = FALSE
  <2>1. new \in ModuleVar
    BY <1>1 DEF ModuleVar, Declared
  <2>2. GivenBy(new, c, o)
    BY DEF GivenBy
  <2> QED
    BY <2>1, <2>2
<1> HIDE DEF new
<1>3. PICK p : p = module_var_find_by_name(vs, d.name)
  OBVIOUS
<1>4. z = IF p = 0 THEN Append(vs, new) ELSE [vs EXCEPT ![p] = new]
  BY <1>3 DEF module_var_add, new
<1>5. /\ p \in 0..Len(vs)
      /\ p = 0 <=> ~\E i \in 1..Len(vs) : vs[i].name = d.name
      /\ p # 0 => vs[p].name = d.name
  BY <1>3, FindVar
<1>6. CASE p = 0
  <2>1. /\ z \in Seq(ModuleVar) /\ Len(z) = Len(vs) + 1 /\ z[Len(vs) + 1] = new
        /\ \A i \in DOMAIN vs : z[i] = vs[i]
        /\ DOMAIN z = 1..(Len(vs) + 1) /\ DOMAIN vs = 1..Len(vs) /\ Len(vs) \in Nat
    BY <1>2, <1>4, <1>6
  <2>2. Distinct(z)
    BY <1>2, <1>5, <1>6, <2>1 DEF Distinct
  <2> QED
    BY <1>2, <2>1, <2>2 DEF Grown
<1>7. CASE p # 0
  <2>1. /\ z \in Seq(ModuleVar) /\ Len(z) = Len(vs) /\ z[p] = new
        /\ \A i \in DOMAIN vs : i # p => z[i] = vs[i]
        /\ DOMAIN z = 1..Len(vs) /\ DOMAIN vs = 1..Len(vs) /\ Len(vs) \in Nat
        /\ p \in DOMAIN vs
    BY <1>2, <1>4, <1>5, <1>7
  <2>2. \A i \in DOMAIN vs : z[i].name = vs[i].name
    BY <1>2, <1>5, <1>7, <2>1
  <2>3. Distinct(z)
    BY <2>1, <2>2 DEF Distinct
  <2> QED
    BY <1>2, <2>1, <2>2, <2>3, SMTT(30) DEF Grown
<1> QED
  BY <1>6, <1>7

LEMMA GrownOn ==
  ASSUME NEW c, NEW o, NEW vs \in Seq(ModuleVar), NEW y, NEW z,
         Grown(vs, y, c, o), Grown(y, z, c, o)
  PROVE  Grown(vs, z, c, o)
<1>1. /\ DOMAIN vs = 1..Len(vs) /\ DOMAIN y = 1..Len(y) /\ DOMAIN z = 1..Len(z)
      /\ Len(vs) \in Nat /\ Len(y) \in Nat /\ Len(z) \in Nat
      /\ Len(vs) <= Len(y) /\ Len(y) <= Len(z)
  BY DEF Grown
<1>2. \A i \in DOMAIN vs : i \in DOMAIN y
  BY <1>1
<1> QED
  BY <1>1, <1>2 DEF Grown

(* module_init registers one variable after the other.                     *)
LEMMA InitGrows ==
  ASSUME NEW c \in Seq(Section), NEW vs \in Seq(ModuleVar), Distinct(vs),
         NEW o \in Objects
  PROVE  Grown(vs, module_init(c, vs, o), c, o)
<1> DEFINE ds == Registers[o]
           n == Len(ds)
           All == {z \in Seq(ModuleVar) : Grown(vs, z, c, o)}
           step == [p \in (1..n) \X All |->
                       module_var_add(c, p[2], ModuleName[o], ds[p[1]])]
           Rec(h) == [s \in SUBSET DOMAIN ds |-> IF s = {} THEN vs
                          ELSE module_var_add(c, h[s \ {Max(s)}], ModuleName[o],
                                              ds[Max(s)])]
           iter == CHOOSE h : h = Rec(h)
<1>1. n \in Nat /\ DOMAIN ds = 1..n /\ \A i \in 1..n : ds[i] \in ToSet(Registers[o])
  BY RegistryAssumption DEF ToSet
<1>2. vs \in All
  BY DEF Grown
<1>3. step \in [(1..n) \X All -> All]
  <2> SUFFICES ASSUME NEW i \in 1..n, NEW z \in All
               PROVE  module_var_add(c, z, ModuleName[o], ds[i]) \in All
    OBVIOUS
  <2>1. PICK d \in ToSet(Registers[o]) : d = ds[i]
    BY <1>1
  <2>2. PICK y : y = module_var_add(c, z, ModuleName[o], d)
    OBVIOUS
  <2>3. z \in Seq(ModuleVar) /\ Distinct(z) /\ Grown(vs, z, c, o)
    BY DEF Grown
  <2>4. Grown(z, y, c, o)
    BY <2>2, <2>3, VarAdded
  <2>5. Grown(vs, y, c, o)
    BY <2>3, <2>4, GrownOn
  <2> QED
    BY <2>1, <2>2, <2>5 DEF Grown
<1>4. PICK g : Folds(g, All, vs, n, step)
  <2> HIDE DEF step, n, All
  <2> QED
    BY <1>1, <1>2, <1>3, FoldIsThere
<1>5. \A s \in SUBSET (1..n) : s # {} => Max(s) \in 1..n /\ s \ {Max(s)} \in SUBSET (1..n)
  BY <1>1, GreatestThere
<1>6. g = Rec(g)
  <2>1. ASSUME NEW s \in SUBSET (1..n), s # {}
        PROVE  g[s] = module_var_add(c, g[s \ {Max(s)}], ModuleName[o], ds[Max(s)])
    <3> HIDE DEF All
    <3>1. g[s \ {Max(s)}] \in All /\ Max(s) \in 1..n
      BY <1>4, <1>5, <2>1 DEF Folds
    <3> QED
      BY <1>4, <2>1, <3>1 DEF Folds
  <2> HIDE DEF step, n, All
  <2> QED
    BY <1>1, <1>4, <2>1 DEF Folds
<1>7. iter = Rec(iter)
  <2> HIDE DEF Rec
  <2> QED
    BY <1>6
<1> HIDE DEF iter
<1>8. iter[{}] = vs
  BY <1>1, <1>7
<1>9. ASSUME NEW i \in 1..n
      PROVE  iter[1..i] = module_var_add(c, iter[1..(i - 1)], ModuleName[o], ds[i])
  <2>1. 1..i \in SUBSET DOMAIN ds /\ 1..i # {} /\ Max(1..i) = i
        /\ (1..i) \ {i} = 1..(i - 1)
    BY <1>1, Segment
  <2> HIDE DEF ds
  <2> QED
    BY <1>7, <2>1
<1>10. PICK h : Iterates(h, iter, All, vs, n, step)
  <2>1. Agrees(iter, All, vs, n, step)
    <3> HIDE DEF All
    <3> QED
      BY <1>8, <1>9 DEF Agrees
  <2> HIDE DEF step, n, All
  <2> QED
    BY <1>1, <1>2, <1>3, <2>1, Iterated
<1>11. iter[1..n] \in All
  <2> HIDE DEF step, All
  <2> QED
    BY <1>1, <1>10 DEF Iterates
<1>12. module_init(c, vs, o) = iter[DOMAIN ds]
  BY DEF module_init, FoldLeft, MapThenFoldSet, iter
<1> QED
  BY <1>1, <1>11, <1>12

LEMMA ModuleAdded ==
  ASSUME NEW mods, Named(mods), NEW o \in Objects, NEW z, z = module_add(mods, o)
  PROVE  /\ Named(z) /\ Len(mods) <= Len(z)
         /\ \A j \in DOMAIN mods : z[j].name = mods[j].name
         /\ \A j \in DOMAIN z : \/ j \in DOMAIN mods /\ z[j] = mods[j]
                                \/ Fresh(z[j], o)
         /\ \E j \in DOMAIN z : Fresh(z[j], o)
<1> DEFINE n == ModuleName[o]
           new == [name |-> n, path |-> o, open |-> TRUE, clients |-> 0]
<1>1. mods \in Seq(Node) /\ n \in Names
  BY RegistryAssumption DEF Named
<1>2. new \in Node /\ Fresh(new, o) /\ new.name = n /\ new.path = o
  <2>1. new \in Node
    BY <1>1 DEF Node
  <2>2. Fresh(new, o)
    BY DEF Fresh
  <2> QED
    BY <2>1, <2>2
<1>3. PICK p : p = module_find_by_name(mods, n)
  OBVIOUS
<1>4. z = IF p = 0 THEN Append(mods, new) ELSE [mods EXCEPT ![p] = new]
  BY <1>3 DEF module_add
<1> HIDE DEF new
<1>5. /\ p \in 0..Len(mods)
      /\ p = 0 <=> ~\E i \in 1..Len(mods) : mods[i].name = n
      /\ p # 0 => mods[p].name = n
  BY <1>1, <1>3, FindModule
<1>6. CASE p = 0
  <2>1. /\ z \in Seq(Node) /\ Len(z) = Len(mods) + 1 /\ z[Len(mods) + 1] = new
        /\ \A i \in DOMAIN mods : z[i] = mods[i]
        /\ DOMAIN z = 1..(Len(mods) + 1) /\ DOMAIN mods = 1..Len(mods) /\ Len(mods) \in Nat
    BY <1>1, <1>2, <1>4, <1>6
  <2>2. Distinct(z)
    BY <1>2, <1>5, <1>6, <2>1 DEF Distinct, Named
  <2> QED
    BY <1>2, <2>1, <2>2 DEF Named
<1>7. CASE p # 0
  <2>1. /\ z \in Seq(Node) /\ Len(z) = Len(mods) /\ z[p] = new
        /\ \A i \in DOMAIN mods : i # p => z[i] = mods[i]
        /\ DOMAIN z = 1..Len(mods) /\ DOMAIN mods = 1..Len(mods) /\ Len(mods) \in Nat
        /\ p \in DOMAIN mods
    BY <1>1, <1>2, <1>4, <1>5, <1>7
  <2>2. \A i \in DOMAIN mods : z[i].name = mods[i].name
    BY <1>2, <1>5, <1>7, <2>1
  <2>3. Distinct(z)
    BY <2>1, <2>2 DEF Distinct, Named
  <2> QED
    BY <1>2, <2>1, <2>2, <2>3 DEF Named
<1> QED
  BY <1>6, <1>7

(* Only the flag of the variables of n changes.                            *)
Apart(v, w) == v.name = w.name /\ v.kind = w.kind /\ v.parent = w.parent
               /\ v.timeout = w.timeout

LEMMA Flagging ==
  ASSUME NEW vs \in Seq(ModuleVar), NEW n, NEW b \in BOOLEAN,
         NEW z, z = Flagged(vs, n, b)
  PROVE  /\ z \in Seq(ModuleVar) /\ Len(z) = Len(vs)
         /\ \A i \in DOMAIN vs :
               /\ Apart(z[i], vs[i])
               /\ z[i].loaded = IF vs[i].parent = n THEN b ELSE vs[i].loaded
<1>1. Len(vs) \in Nat /\ DOMAIN vs = 1..Len(vs) /\ \A i \in DOMAIN vs : vs[i] \in ModuleVar
  OBVIOUS
<1>2. \A i \in DOMAIN vs : [vs[i] EXCEPT !.loaded = b] \in ModuleVar
  BY <1>1 DEF ModuleVar
<1>3. /\ z = [i \in 1..Len(vs) |-> z[i]]
      /\ \A i \in 1..Len(vs) : z[i] = IF vs[i].parent = n
                                 THEN [vs[i] EXCEPT !.loaded = b] ELSE vs[i]
  BY <1>1 DEF Flagged
<1>4. z \in Seq(ModuleVar) /\ Len(z) = Len(vs)
  <2>1. \A i \in 1..Len(vs) : z[i] \in ModuleVar
    BY <1>1, <1>2, <1>3
  <2>2. z \in [1..Len(vs) -> ModuleVar]
    BY <1>3, <2>1
  <2> QED
    BY <1>1, <2>2
<1>5. ASSUME NEW i \in DOMAIN vs
      PROVE  /\ Apart(z[i], vs[i])
             /\ z[i].loaded = IF vs[i].parent = n THEN b ELSE vs[i].loaded
  BY <1>1, <1>3 DEF Apart, ModuleVar
<1> QED
  BY <1>4, <1>5

(* Where one node changes that keeps its name and its path.                *)
LEMMA NodeChanged ==
  ASSUME NEW mods, Named(mods), NEW m \in DOMAIN mods,
         NEW z \in Seq(Node), Len(z) = Len(mods),
         z[m].name = mods[m].name, z[m].path = mods[m].path,
         \A j \in DOMAIN mods : j # m => z[j] = mods[j]
  PROVE  Named(z) /\ \A j \in DOMAIN mods : z[j].name = mods[j].name
<1>1. DOMAIN z = DOMAIN mods
  BY DEF Named
<1>2. \A j \in DOMAIN mods : z[j].name = mods[j].name /\ z[j].path = mods[j].path
  OBVIOUS
<1> QED
  BY <1>1, <1>2 DEF Named, Distinct

(* What only marks the nodes leaves the lists whole.                       *)
LEMMA StillWhole ==
  ASSUME NEW r, NEW c, Whole(r, c), NEW mods, NEW vs \in Seq(ModuleVar), NEW z,
         z = [mods |-> mods, vars |-> vs],
         Named(mods), Len(mods) = Len(r.mods), Len(vs) = Len(r.vars),
         \A j \in DOMAIN r.mods : mods[j].name = r.mods[j].name,
         \A i \in DOMAIN r.vars : Apart(vs[i], r.vars[i])
  PROVE  Whole(z, c)
<1>1. z.mods = mods /\ z.vars = vs /\ z \in Regs
  BY DEF Named, Regs
<1>2. DOMAIN mods = DOMAIN r.mods /\ DOMAIN vs = DOMAIN r.vars
  BY DEF Whole, Named, Regs
<1>3. Distinct(vs)
  BY <1>2 DEF Whole, Apart, Distinct
<1>4. ASSUME NEW i \in DOMAIN vs
      PROVE  /\ \E j \in DOMAIN mods : mods[j].name = vs[i].parent
             /\ \E o \in Objects : GivenBy(vs[i], c, o)
  <2>1. i \in DOMAIN r.vars /\ Apart(vs[i], r.vars[i])
    BY <1>2
  <2>2. PICK j \in DOMAIN r.mods : r.mods[j].name = r.vars[i].parent
    BY <2>1 DEF Whole
  <2>3. PICK o \in Objects : GivenBy(r.vars[i], c, o)
    BY <2>1 DEF Whole
  <2>4. GivenBy(vs[i], c, o)
    BY <2>1, <2>3 DEF GivenBy, Apart
  <2> QED
    BY <1>2, <2>1, <2>2, <2>4 DEF Apart
<1> QED
  BY <1>1, <1>3, <1>4 DEF Whole

(* The lists z came out of r when object o was loaded.                     *)
Reloaded(r, z, o) ==
    /\ Len(r.mods) <= Len(z.mods) /\ Len(r.vars) <= Len(z.vars)
    /\ \A j \in DOMAIN r.mods : z.mods[j].name = r.mods[j].name
    /\ \A i \in DOMAIN r.vars : z.vars[i].name = r.vars[i].name
    /\ \A j \in DOMAIN z.mods : \/ j \in DOMAIN r.mods /\ z.mods[j] = r.mods[j]
                                \/ Fresh(z.mods[j], o)
    /\ \E j \in DOMAIN z.mods : Fresh(z.mods[j], o)
    /\ \A i \in DOMAIN z.vars :
          \/ i \in DOMAIN r.vars /\ z.vars[i] = r.vars[i]
          \/ z.vars[i].parent = ModuleName[o] /\ ~z.vars[i].loaded

LEMMA Registering ==
  ASSUME NEW c \in Seq(Section), NEW r, Whole(r, c), NEW o \in Objects,
         NEW z, z = Registered(r, c, o)
  PROVE  Whole(z, c) /\ Reloaded(r, z, o)
<1>1. PICK mods : mods = module_add(r.mods, o)
  OBVIOUS
<1>2. PICK vs : vs = module_init(c, r.vars, o)
  OBVIOUS
<1>3. z = [mods |-> mods, vars |-> vs] /\ z.mods = mods /\ z.vars = vs
  BY <1>1, <1>2 DEF Registered
<1>4. Named(r.mods) /\ r.vars \in Seq(ModuleVar) /\ Distinct(r.vars) /\ r.mods \in Seq(Node)
  BY DEF Whole, Regs
<1>5. /\ Named(mods) /\ Len(r.mods) <= Len(mods)
      /\ \A j \in DOMAIN r.mods : mods[j].name = r.mods[j].name
      /\ \A j \in DOMAIN mods : \/ j \in DOMAIN r.mods /\ mods[j] = r.mods[j]
                                \/ Fresh(mods[j], o)
      /\ \E j \in DOMAIN mods : Fresh(mods[j], o)
  BY <1>1, <1>4, ModuleAdded
<1>6. Grown(r.vars, vs, c, o)
  BY <1>2, <1>4, InitGrows
<1>7. ASSUME NEW i \in DOMAIN vs
      PROVE  /\ \E j \in DOMAIN mods : mods[j].name = vs[i].parent
             /\ \E p \in Objects : GivenBy(vs[i], c, p)
  <2>1. CASE i \in DOMAIN r.vars /\ vs[i] = r.vars[i]
    <3>1. PICK j \in DOMAIN r.mods : r.mods[j].name = r.vars[i].parent
      BY <2>1 DEF Whole
    <3>2. j \in DOMAIN mods
      BY <1>4, <1>5 DEF Named
    <3> QED
      BY <1>5, <2>1, <3>1, <3>2 DEF Whole
  <2>2. CASE GivenBy(vs[i], c, o)
    BY <1>5, <2>2 DEF GivenBy, Fresh
  <2> QED
    BY <1>6, <2>1, <2>2 DEF Grown
<1>8. Whole(z, c)
  BY <1>3, <1>5, <1>6, <1>7 DEF Whole, Regs, Named, Grown
<1>9. /\ Len(r.vars) <= Len(vs) /\ \A i \in DOMAIN r.vars : vs[i].name = r.vars[i].name
      /\ \A i \in DOMAIN vs :
            \/ i \in DOMAIN r.vars /\ vs[i] = r.vars[i]
            \/ vs[i].parent = ModuleName[o] /\ vs[i].loaded = FALSE
  <2>1. ASSUME NEW i \in DOMAIN vs
        PROVE  \/ i \in DOMAIN r.vars /\ vs[i] = r.vars[i]
               \/ GivenBy(vs[i], c, o) /\ vs[i].loaded = FALSE
    BY <1>6 DEF Grown
  <2>2. \A i \in DOMAIN vs : GivenBy(vs[i], c, o) => vs[i].parent = ModuleName[o]
    BY DEF GivenBy
  <2> QED
    BY <1>6, <2>1, <2>2 DEF Grown
<1> QED
  BY <1>3, <1>5, <1>8, <1>9 DEF Reloaded

(* z came out of r when the module n, with the m-th node, was unloaded.    *)
Shut(r, z, n, m) ==
    /\ Len(z.mods) = Len(r.mods) /\ Len(z.vars) = Len(r.vars)
    /\ ~z.mods[m].open /\ z.mods[m].clients = 0
    /\ \A j \in DOMAIN r.mods : z.mods[j].name = r.mods[j].name
                                /\ (j # m => z.mods[j] = r.mods[j])
    /\ \A i \in DOMAIN r.vars :
          /\ Apart(z.vars[i], r.vars[i])
          /\ z.vars[i].loaded => r.vars[i].loaded /\ r.vars[i].parent # n

LEMMA Unloading ==
  ASSUME NEW r, NEW c, Whole(r, c), NEW n, NEW m \in DOMAIN r.mods,
         m = module_find_by_name(r.mods, n), NEW z, z = module_unload(r, n)
  PROVE  Whole(z, c) /\ Shut(r, z, n, m)
<1> DEFINE e == [r.mods[m] EXCEPT !.open = FALSE, !.clients = 0]
<1>1. Named(r.mods) /\ r.vars \in Seq(ModuleVar) /\ r.mods \in Seq(Node) /\ r.mods[m] \in Node
  BY DEF Whole, Regs
<1>2. e \in Node /\ e.name = r.mods[m].name /\ e.path = r.mods[m].path
      /\ e.open = FALSE /\ e.clients = 0
  <2>1. PICK x \in Node : x = r.mods[m]
    BY <1>1
  <2>2. e = [x EXCEPT !.open = FALSE, !.clients = 0]
    BY <2>1
  <2>3. e = [name |-> x.name, path |-> x.path, open |-> FALSE, clients |-> 0]
    <3> HIDE DEF e
    <3> QED
      BY <2>2 DEF Node
  <2> HIDE DEF e
  <2> QED
    BY <2>1, <2>3 DEF Node
<1>3. PICK vs : vs = Flagged(r.vars, n, FALSE)
  OBVIOUS
<1>4. PICK mods : mods = [r.mods EXCEPT ![m] = e]
  OBVIOUS
<1>5. [r.mods EXCEPT ![m].open = FALSE, ![m].clients = 0] = mods
  BY <1>1, <1>4
<1> HIDE DEF e
<1>6. z = [mods |-> mods, vars |-> vs] /\ z.mods = mods /\ z.vars = vs
  BY <1>3, <1>5 DEF module_unload
<1>7. /\ Named(mods) /\ Len(mods) = Len(r.mods) /\ mods[m] = e
      /\ \A j \in DOMAIN r.mods : mods[j].name = r.mods[j].name
                                  /\ (j # m => mods[j] = r.mods[j])
  <2>1. /\ mods \in Seq(Node) /\ Len(mods) = Len(r.mods) /\ mods[m] = e
        /\ \A j \in DOMAIN r.mods : j # m => mods[j] = r.mods[j]
    BY <1>1, <1>2, <1>4
  <2> QED
    BY <1>1, <1>2, <2>1, NodeChanged
<1>8. /\ vs \in Seq(ModuleVar) /\ Len(vs) = Len(r.vars)
      /\ \A i \in DOMAIN r.vars :
            /\ Apart(vs[i], r.vars[i])
            /\ vs[i].loaded = IF r.vars[i].parent = n THEN FALSE ELSE r.vars[i].loaded
  <2>1. PICK b \in BOOLEAN : b = FALSE
    OBVIOUS
  <2>2. vs = Flagged(r.vars, n, b)
    BY <1>3, <2>1
  <2>3. /\ vs \in Seq(ModuleVar) /\ Len(vs) = Len(r.vars)
        /\ \A i \in DOMAIN r.vars :
              /\ Apart(vs[i], r.vars[i])
              /\ vs[i].loaded = IF r.vars[i].parent = n THEN b ELSE r.vars[i].loaded
    BY <1>1, <2>2, Flagging
  <2> QED
    BY <2>1, <2>3
<1>9. Whole(z, c)
  BY <1>6, <1>7, <1>8, StillWhole
<1>10. \A i \in DOMAIN r.vars : vs[i].loaded => r.vars[i].loaded /\ r.vars[i].parent # n
  BY <1>8
<1> QED
  BY <1>2, <1>6, <1>7, <1>8, <1>9, <1>10 DEF Shut

Nobody == [n \in Names |-> 0]

LEMMA FirstLoads ==
  ASSUME NEW c \in Seq(Section), NEW r, Whole(r, c), Accounted(r, Nobody),
         NEW o \in Objects, NEW z, z = FirstLoad(r, c, o)
  PROVE  Whole(z, c) /\ Accounted(z, Nobody)
<1>1. CASE o \in Foreign
  BY <1>1 DEF FirstLoad
<1>2. CASE o \notin Foreign
  <2> DEFINE n == ModuleName[o]
  <2>1. PICK y : y = Registered(r, c, o)
    OBVIOUS
  <2>2. Whole(y, c) /\ Reloaded(r, y, o)
    BY <2>1, Registering
  <2>3. PICK m : m = module_find_by_name(y.mods, n)
    OBVIOUS
  <2>4. y.mods \in Seq(Node) /\ y.vars \in Seq(ModuleVar) /\ Distinct(y.mods)
    BY <2>2 DEF Whole, Regs, Named
  <2>5. m \in DOMAIN y.mods /\ y.mods[m].name = n
    BY <2>2, <2>3, <2>4, FindModule DEF Reloaded, Fresh
  <2>6. z = module_unload(y, n)
    BY <1>2, <2>1 DEF FirstLoad
  <2>7. Whole(z, c) /\ Shut(y, z, n, m)
    BY <2>2, <2>3, <2>5, <2>6, Unloading
  <2>8. DOMAIN z.mods = DOMAIN y.mods /\ DOMAIN z.vars = DOMAIN y.vars
    BY <2>4, <2>7 DEF Shut, Whole, Regs, Named
  <2>9. ASSUME NEW j \in DOMAIN z.mods
        PROVE  /\ z.mods[j].clients = Nobody[z.mods[j].name]
               /\ z.mods[j].open => Nobody[z.mods[j].name] > 0
    <3>1. z.mods[j].name \in Names
      <4>1. z.mods \in Seq(Node)
        BY <2>7 DEF Whole, Regs
      <4>2. z.mods[j] \in Node
        BY <4>1
      <4> QED
        BY <4>2 DEF Node
    <3>2. CASE j = m
      BY <2>5, <2>7, <2>8, <3>1, <3>2 DEF Shut, Nobody
    <3>3. CASE j # m
      <4>1. z.mods[j] = y.mods[j] /\ y.mods[j].name # n
        BY <2>4, <2>5, <2>7, <2>8, <3>3 DEF Distinct, Shut
      <4>2. j \in DOMAIN r.mods /\ z.mods[j] = r.mods[j]
        BY <2>2, <2>8, <4>1 DEF Fresh, Reloaded
      <4> QED
        BY <4>2 DEF Accounted
    <3> QED
      BY <3>2, <3>3
  <2>10. ASSUME NEW i \in DOMAIN z.vars, z.vars[i].loaded
         PROVE  Nobody[z.vars[i].parent] > 0
    <3>1. y.vars[i].parent # n /\ y.vars[i].loaded /\ z.vars[i].parent = y.vars[i].parent
      BY <2>7, <2>8, <2>10 DEF Apart, Shut
    <3>2. i \in DOMAIN r.vars /\ y.vars[i] = r.vars[i]
      BY <2>2, <2>8, <3>1 DEF Reloaded
    <3> QED
      BY <3>1, <3>2 DEF Accounted
  <2> QED
    BY <2>7, <2>9, <2>10 DEF Accounted
<1> QED
  BY <1>1, <1>2

(* module_load_all, whatever order readdir returns the objects in.         *)
LEMMA LoadsAll ==
  ASSUME NEW c \in Seq(Section), NEW order \in Seq(Objects)
  PROVE  Whole(module_load_all(c, order), c)
         /\ Accounted(module_load_all(c, order), Nobody)
<1> DEFINE n == Len(order)
           All == {r \in Regs : Whole(r, c) /\ Accounted(r, Nobody)}
           step == [p \in (1..n) \X All |-> FirstLoad(p[2], c, order[p[1]])]
           Rec(h) == [s \in SUBSET DOMAIN order |-> IF s = {} THEN NoModules
                          ELSE FirstLoad(h[s \ {Max(s)}], c, order[Max(s)])]
           iter == CHOOSE h : h = Rec(h)
<1>1. n \in Nat /\ DOMAIN order = 1..n /\ \A i \in 1..n : order[i] \in Objects
  OBVIOUS
<1>2. NoModules \in All
  <2>1. NoModules.mods = <<>> /\ NoModules.vars = <<>> /\ NoModules \in Regs
    BY DEF NoModules, Regs
  <2>2. DOMAIN NoModules.mods = {} /\ DOMAIN NoModules.vars = {}
    BY <2>1
  <2>3. Whole(NoModules, c)
    BY <2>1, <2>2 DEF Whole, Named, Distinct
  <2>4. Accounted(NoModules, Nobody)
    BY <2>2 DEF Accounted
  <2> QED
    BY <2>1, <2>3, <2>4
<1>3. step \in [(1..n) \X All -> All]
  <2> SUFFICES ASSUME NEW i \in 1..n, NEW r \in All
               PROVE  FirstLoad(r, c, order[i]) \in All
    OBVIOUS
  <2>1. PICK z : z = FirstLoad(r, c, order[i])
    OBVIOUS
  <2>2. Whole(z, c) /\ Accounted(z, Nobody)
    BY <1>1, <2>1, FirstLoads
  <2> QED
    BY <2>1, <2>2 DEF Whole
<1>4. PICK g : Folds(g, All, NoModules, n, step)
  <2> HIDE DEF step, n, All
  <2> QED
    BY <1>1, <1>2, <1>3, FoldIsThere
<1>5. \A s \in SUBSET (1..n) : s # {} => Max(s) \in 1..n /\ s \ {Max(s)} \in SUBSET (1..n)
  BY <1>1, GreatestThere
<1>6. g = Rec(g)
  <2>1. ASSUME NEW s \in SUBSET (1..n), s # {}
        PROVE  g[s] = FirstLoad(g[s \ {Max(s)}], c, order[Max(s)])
    <3> HIDE DEF All
    <3>1. g[s \ {Max(s)}] \in All /\ Max(s) \in 1..n
      BY <1>4, <1>5, <2>1 DEF Folds
    <3> QED
      BY <1>4, <2>1, <3>1 DEF Folds
  <2> HIDE DEF step, n, All
  <2> QED
    BY <1>1, <1>4, <2>1 DEF Folds
<1>7. iter = Rec(iter)
  <2> HIDE DEF Rec
  <2> QED
    BY <1>6
<1> HIDE DEF iter
<1>8. iter[{}] = NoModules
  BY <1>1, <1>7
<1>9. ASSUME NEW i \in 1..n
      PROVE  iter[1..i] = FirstLoad(iter[1..(i - 1)], c, order[i])
  <2>1. 1..i \in SUBSET DOMAIN order /\ 1..i # {} /\ Max(1..i) = i
        /\ (1..i) \ {i} = 1..(i - 1)
    BY <1>1, Segment
  <2> QED
    BY <1>7, <2>1
<1>10. PICK h : Iterates(h, iter, All, NoModules, n, step)
  <2>1. Agrees(iter, All, NoModules, n, step)
    <3> HIDE DEF All
    <3> QED
      BY <1>8, <1>9 DEF Agrees
  <2> HIDE DEF step, n, All
  <2> QED
    BY <1>1, <1>2, <1>3, <2>1, Iterated
<1>11. iter[1..n] \in All
  <2> HIDE DEF step, All
  <2> QED
    BY <1>1, <1>10 DEF Iterates
<1>12. module_load_all(c, order) = iter[DOMAIN order]
  BY DEF module_load_all, FoldLeft, MapThenFoldSet, iter
<1> QED
  BY <1>1, <1>11, <1>12

(* The variables of r are found in z, at the same places.                  *)
Keeps(r, z) ==
    /\ Len(r.vars) <= Len(z.vars)
    /\ \A i \in DOMAIN r.vars : z.vars[i].name = r.vars[i].name

(* z came out of r when the m-th module, named n, got one client more.     *)
Added(r, z, n, m) ==
    /\ m \in DOMAIN r.mods /\ m \in DOMAIN z.mods /\ z.mods[m].name = n
    /\ z.mods[m].clients = r.mods[m].clients + 1
    /\ \A j \in DOMAIN z.mods : j # m => j \in DOMAIN r.mods /\ z.mods[j] = r.mods[j]
    /\ \A i \in DOMAIN z.vars :
          \/ z.vars[i].loaded => z.vars[i].parent = n
          \/ i \in DOMAIN r.vars /\ Apart(z.vars[i], r.vars[i])
             /\ (z.vars[i].loaded => r.vars[i].loaded)

(* And when it lost one.                                                   *)
Lost(r, z, n, m) ==
    /\ m \in DOMAIN r.mods /\ m \in DOMAIN z.mods /\ z.mods[m].name = n
    /\ z.mods[m].clients = r.mods[m].clients - 1
    /\ z.mods[m].open => z.mods[m].clients # 0
    /\ \A j \in DOMAIN z.mods : j # m => j \in DOMAIN r.mods /\ z.mods[j] = r.mods[j]
    /\ \A i \in DOMAIN z.vars :
          /\ i \in DOMAIN r.vars /\ Apart(z.vars[i], r.vars[i])
          /\ z.vars[i].loaded => /\ r.vars[i].loaded
                                 /\ r.vars[i].parent = n => z.mods[m].clients # 0

(* The node of the module of a variable.                                   *)
LEMMA ParentThere ==
  ASSUME NEW r, NEW c, Whole(r, c), NEW i \in DOMAIN r.vars,
         NEW m, m = module_find_by_name(r.mods, r.vars[i].parent)
  PROVE  m \in DOMAIN r.mods /\ r.mods[m].name = r.vars[i].parent
         /\ r.mods[m] \in Node
<1>1. r.mods \in Seq(Node) /\ \E j \in DOMAIN r.mods : r.mods[j].name = r.vars[i].parent
  BY DEF Whole, Regs
<1>2. m \in DOMAIN r.mods /\ r.mods[m].name = r.vars[i].parent
  BY <1>1, FindModule
<1> QED
  BY <1>1, <1>2

(* One element of a sequence replaced.                                     *)
LEMMA Replacing ==
  ASSUME NEW S, NEW q \in Seq(S), NEW i \in DOMAIN q, NEW x \in S,
         NEW z, z = [q EXCEPT ![i] = x]
  PROVE  /\ z \in Seq(S) /\ Len(z) = Len(q) /\ z[i] = x
         /\ \A j \in DOMAIN q : j # i => z[j] = q[j]
OBVIOUS

LEMMA Adding ==
  ASSUME NEW c \in Seq(Section), NEW r, Whole(r, c), NEW i \in DOMAIN r.vars,
         NEW n, n = r.vars[i].parent, NEW m, m = module_find_by_name(r.mods, n),
         NEW z, z = AddClient(r, c, i)
  PROVE  Whole(z, c) /\ Keeps(r, z) /\ Added(r, z, n, m)
<1>1. m \in DOMAIN r.mods /\ r.mods[m].name = n /\ r.mods[m] \in Node
  BY ParentThere
<1> DEFINE first == r.mods[m].clients = 0
<1>2. PICK y : y = IF first THEN Registered(r, c, r.mods[m].path) ELSE r
  OBVIOUS
<1>3. PICK vs : vs = IF first THEN Flagged(y.vars, n, TRUE)
                     ELSE [y.vars EXCEPT ![i].loaded = TRUE]
  OBVIOUS
<1>4. z = [mods |-> [y.mods EXCEPT ![m].clients = @ + 1], vars |-> vs]
  BY <1>2, <1>3 DEF AddClient
<1>5. /\ Whole(y, c) /\ Keeps(r, y) /\ m \in DOMAIN y.mods
      /\ y.mods[m].name = n /\ y.mods[m].clients = r.mods[m].clients
      /\ \A j \in DOMAIN y.mods : j # m => j \in DOMAIN r.mods /\ y.mods[j] = r.mods[j]
      /\ \A k \in DOMAIN y.vars : \/ k \in DOMAIN r.vars /\ y.vars[k] = r.vars[k]
                                  \/ first /\ y.vars[k].parent = n
  <2>1. CASE first
    <3>1. PICK o \in Objects : o = r.mods[m].path
      BY <1>1 DEF Node
    <3>2. ModuleName[o] = n
      BY <1>1, <3>1 DEF Whole, Named
    <3>3. Whole(y, c) /\ Reloaded(r, y, o)
      BY <1>2, <2>1, <3>1, Registering
    <3>4. y.mods \in Seq(Node) /\ Distinct(y.mods) /\ r.mods \in Seq(Node)
      BY <3>3 DEF Whole, Named
    <3>5. m \in DOMAIN y.mods /\ y.mods[m].name = n
      BY <1>1, <3>3, <3>4 DEF Reloaded
    <3>6. ASSUME NEW j \in DOMAIN y.mods, Fresh(y.mods[j], o) PROVE j = m
      BY <3>2, <3>4, <3>5, <3>6 DEF Fresh, Distinct
    <3>7. y.mods[m].clients = 0
      BY <3>3, <3>6 DEF Reloaded, Fresh
    <3>8. \A j \in DOMAIN y.mods : j # m => j \in DOMAIN r.mods /\ y.mods[j] = r.mods[j]
      BY <3>3, <3>6 DEF Reloaded
    <3>9. \A k \in DOMAIN y.vars : \/ k \in DOMAIN r.vars /\ y.vars[k] = r.vars[k]
                                   \/ y.vars[k].parent = n
      BY <3>2, <3>3 DEF Reloaded
    <3>10. Keeps(r, y)
      BY <3>3 DEF Reloaded, Keeps
    <3> QED
      BY <2>1, <3>3, <3>5, <3>7, <3>8, <3>9, <3>10
  <2>2. CASE ~first
    <3>1. Keeps(r, r)
      BY DEF Keeps, Whole, Regs
    <3> QED
      BY <1>1, <1>2, <2>2, <3>1
  <2> QED
    BY <2>1, <2>2
<1>6. y.mods \in Seq(Node) /\ y.vars \in Seq(ModuleVar) /\ Named(y.mods)
      /\ y.mods[m] \in Node /\ r.vars \in Seq(ModuleVar)
  BY <1>5 DEF Whole, Regs
<1> DEFINE e == [y.mods[m] EXCEPT !.clients = @ + 1]
<1>7. e \in Node /\ e.name = n /\ e.path = y.mods[m].path
      /\ e.clients = r.mods[m].clients + 1
  <2>1. PICK x \in Node : x = y.mods[m]
    BY <1>6
  <2>2. e = [x EXCEPT !.clients = x.clients + 1]
    BY <2>1
  <2>3. x.name = n /\ x.clients = r.mods[m].clients
    BY <1>5, <2>1
  <2>4. e = [name |-> x.name, path |-> x.path, open |-> x.open, clients |-> x.clients + 1]
    <3> HIDE DEF e
    <3> QED
      BY <2>2 DEF Node
  <2> HIDE DEF e
  <2>5. e.name = n /\ e.path = x.path /\ e.clients = r.mods[m].clients + 1
    BY <2>3, <2>4
  <2>6. e \in Node
    BY <2>4 DEF Node
  <2> QED
    BY <2>1, <2>5, <2>6
<1>8. PICK mods : mods = [y.mods EXCEPT ![m] = e]
  OBVIOUS
<1>9. z = [mods |-> mods, vars |-> vs] /\ z.mods = mods /\ z.vars = vs
  <2>1. [y.mods EXCEPT ![m].clients = @ + 1] = mods
    BY <1>8
  <2>2. z = [mods |-> mods, vars |-> vs]
    BY <1>4, <2>1
  <2> QED
    BY ONLY <2>2
<1> HIDE DEF e
<1>10. /\ Named(mods) /\ Len(mods) = Len(y.mods) /\ mods[m] = e
       /\ \A j \in DOMAIN y.mods : mods[j].name = y.mods[j].name
                                   /\ (j # m => mods[j] = y.mods[j])
  <2>1. /\ mods \in Seq(Node) /\ Len(mods) = Len(y.mods) /\ mods[m] = e
        /\ \A j \in DOMAIN y.mods : j # m => mods[j] = y.mods[j]
    BY ONLY <1>5, <1>6, <1>7, <1>8, Replacing
  <2>2. /\ Named(y.mods) /\ m \in DOMAIN y.mods
        /\ mods[m].name = y.mods[m].name /\ mods[m].path = y.mods[m].path
    BY <1>5, <1>6, <1>7, <2>1
  <2>3. Named(mods) /\ \A j \in DOMAIN y.mods : mods[j].name = y.mods[j].name
    BY ONLY <2>1, <2>2, NodeChanged
  <2> QED
    BY <2>1, <2>3
<1>11. /\ vs \in Seq(ModuleVar) /\ Len(vs) = Len(y.vars)
       /\ \A k \in DOMAIN y.vars : Apart(vs[k], y.vars[k])
       /\ \A k \in DOMAIN y.vars : vs[k].loaded => y.vars[k].loaded \/ y.vars[k].parent = n
  <2>1. CASE first
    <3>1. PICK b \in BOOLEAN : b = TRUE
      OBVIOUS
    <3>2. vs = Flagged(y.vars, n, b)
      BY <1>3, <2>1, <3>1
    <3>3. /\ vs \in Seq(ModuleVar) /\ Len(vs) = Len(y.vars)
          /\ \A k \in DOMAIN y.vars :
                /\ Apart(vs[k], y.vars[k])
                /\ vs[k].loaded = IF y.vars[k].parent = n THEN b ELSE y.vars[k].loaded
      BY <1>6, <3>2, Flagging
    <3> QED
      BY <3>3
  <2>2. CASE ~first
    <3>1. y = r /\ vs = [y.vars EXCEPT ![i].loaded = TRUE]
      BY <1>2, <1>3, <2>2
    <3>2. \A k \in 1..Len(y.vars) : y.vars[k] \in ModuleVar
      BY <1>6
    <3>3. i \in 1..Len(y.vars) /\ y.vars[i].parent = n /\ Len(y.vars) \in Nat
      BY <1>6, <3>1
    <3> DEFINE v == [y.vars[i] EXCEPT !.loaded = TRUE]
    <3>4. v \in ModuleVar /\ Apart(v, y.vars[i])
      BY <3>2, <3>3 DEF ModuleVar, Apart
    <3>5. vs = [y.vars EXCEPT ![i] = v]
      BY <3>1
    <3> HIDE DEF v
    <3>6. vs \in Seq(ModuleVar) /\ Len(vs) = Len(y.vars) /\ vs[i] = v
          /\ \A k \in DOMAIN y.vars : k # i => vs[k] = y.vars[k]
      BY <1>6, <3>3, <3>4, <3>5
    <3>7. \A k \in DOMAIN y.vars : k # i => Apart(vs[k], y.vars[k])
      BY <3>6 DEF Apart
    <3> QED
      BY <3>3, <3>4, <3>6, <3>7
  <2> QED
    BY <2>1, <2>2
<1>12. Whole(z, c)
  BY <1>5, <1>9, <1>10, <1>11, StillWhole
<1>13. Keeps(r, z)
  <2>1. \A k \in DOMAIN r.vars : k \in DOMAIN y.vars
    BY <1>5, <1>6 DEF Keeps
  <2> QED
    BY <1>5, <1>9, <1>11, <2>1 DEF Keeps, Apart
<1>14. Added(r, z, n, m)
  <2>1. DOMAIN z.mods = DOMAIN y.mods /\ DOMAIN z.vars = DOMAIN y.vars
    BY <1>6, <1>9, <1>10, <1>11 DEF Named
  <2>2. ASSUME NEW k \in DOMAIN z.vars
        PROVE  \/ z.vars[k].loaded => z.vars[k].parent = n
               \/ k \in DOMAIN r.vars /\ Apart(z.vars[k], r.vars[k])
                  /\ (z.vars[k].loaded => r.vars[k].loaded)
    <3>1. CASE y.vars[k].parent = n
      BY <1>9, <1>11, <2>1, <3>1 DEF Apart
    <3>2. CASE k \in DOMAIN r.vars /\ y.vars[k] = r.vars[k] /\ y.vars[k].parent # n
      BY <1>9, <1>11, <2>1, <3>2
    <3> QED
      BY <1>5, <2>1, <3>1, <3>2
  <2>3. z.mods[m].name = n /\ z.mods[m].clients = r.mods[m].clients + 1
    BY <1>7, <1>9, <1>10
  <2>4. \A j \in DOMAIN z.mods : j # m => j \in DOMAIN r.mods /\ z.mods[j] = r.mods[j]
    BY <1>5, <1>9, <1>10, <2>1
  <2> QED
    BY <1>1, <1>5, <2>1, <2>2, <2>3, <2>4 DEF Added
<1> QED
  BY <1>12, <1>13, <1>14

LEMMA Dropping ==
  ASSUME NEW r, NEW c, Whole(r, c), NEW i \in DOMAIN r.vars,
         NEW n, n = r.vars[i].parent, NEW m, m = module_find_by_name(r.mods, n),
         NEW z, z = DropClient(r, i)
  PROVE  Whole(z, c) /\ Keeps(r, z) /\ Lost(r, z, n, m)
<1>1. m \in DOMAIN r.mods /\ r.mods[m].name = n /\ r.mods[m] \in Node
  BY ParentThere
<1>2. r.mods \in Seq(Node) /\ r.vars \in Seq(ModuleVar) /\ Named(r.mods) /\ r \in Regs
  BY DEF Whole, Regs
<1> DEFINE x == r.mods[m]
           e == [x EXCEPT !.clients = x.clients - 1]
<1>3. e \in Node /\ e.name = n /\ e.path = x.path /\ e.clients = x.clients - 1
  <2>1. x \in Node /\ x.name = n
    BY <1>1
  <2>2. e = [name |-> x.name, path |-> x.path, open |-> x.open, clients |-> x.clients - 1]
    <3> HIDE DEF x
    <3> QED
      BY <2>1 DEF Node
  <2> HIDE DEF x, e
  <2>3. e.name = n /\ e.path = x.path /\ e.clients = x.clients - 1
    BY <2>1, <2>2
  <2>4. e \in Node
    BY <2>1, <2>2 DEF Node
  <2> QED
    BY <2>3, <2>4
<1>4. PICK mods : mods = [r.mods EXCEPT ![m] = e]
  OBVIOUS
<1>5. PICK y : y = [mods |-> mods, vars |-> r.vars]
  OBVIOUS
<1>6. [r EXCEPT !.mods[m].clients = @ - 1] = y
  <2>1. r = [mods |-> r.mods, vars |-> r.vars]
    BY <1>2 DEF Regs
  <2>2. PICK a, b : a = r.mods /\ b = r.vars
    OBVIOUS
  <2>3. r = [mods |-> a, vars |-> b] /\ m \in DOMAIN a
    BY <1>1, <2>1, <2>2
  <2>4. [r EXCEPT !.mods[m].clients = @ - 1]
           = [mods |-> [a EXCEPT ![m] = [a[m] EXCEPT !.clients = a[m].clients - 1]],
              vars |-> b]
    BY ONLY <2>3
  <2> QED
    BY <1>4, <1>5, <2>2, <2>4
<1> HIDE DEF e
<1>7. /\ Named(mods) /\ Len(mods) = Len(r.mods) /\ mods[m] = e
      /\ \A j \in DOMAIN r.mods : j # m => mods[j] = r.mods[j]
      /\ \A j \in DOMAIN r.mods : mods[j].name = r.mods[j].name
  <2>1. /\ mods \in Seq(Node) /\ Len(mods) = Len(r.mods) /\ mods[m] = e
        /\ \A j \in DOMAIN r.mods : j # m => mods[j] = r.mods[j]
    BY <1>1, <1>2, <1>3, <1>4
  <2>2. mods[m].name = r.mods[m].name /\ mods[m].path = r.mods[m].path
    BY <1>1, <1>3, <2>1
  <2>3. Named(mods) /\ \A j \in DOMAIN r.mods : mods[j].name = r.mods[j].name
    BY ONLY <1>1, <1>2, <2>1, <2>2, NodeChanged
  <2> QED
    BY <2>1, <2>3
<1>8. y.mods = mods /\ y.vars = r.vars /\ DOMAIN mods = DOMAIN r.mods
  BY <1>2, <1>5, <1>7 DEF Named
<1>9. \A k \in DOMAIN r.vars : Apart(r.vars[k], r.vars[k])
  BY DEF Apart
<1>10. Whole(y, c)
  BY <1>2, <1>5, <1>7, <1>9, StillWhole
<1>11. y.mods[m].name = n /\ y.mods[m].clients = r.mods[m].clients - 1
  BY <1>3, <1>7, <1>8
<1>12. z = IF y.mods[m].clients = 0 THEN module_unload(y, n) ELSE y
  BY <1>6 DEF DropClient
<1> HIDE DEF x
<1>13. CASE y.mods[m].clients = 0
  <2>1. module_find_by_name(y.mods, n) = m
    <3>1. PICK p : p = module_find_by_name(y.mods, n)
      OBVIOUS
    <3>2. y.mods \in Seq(Node) /\ Distinct(y.mods)
      BY <1>7, <1>8 DEF Named
    <3>3. p \in DOMAIN y.mods /\ y.mods[p].name = n
      BY <1>1, <1>8, <1>11, <3>1, <3>2, FindModule
    <3>4. p = m
      BY <1>1, <1>8, <1>11, <3>2, <3>3 DEF Distinct
    <3> QED
      BY <3>1, <3>4
  <2>2. Whole(z, c) /\ Shut(y, z, n, m)
    BY <1>1, <1>8, <1>10, <1>12, <1>13, <2>1, Unloading
  <2>3. DOMAIN z.mods = DOMAIN r.mods /\ DOMAIN z.vars = DOMAIN r.vars
        /\ Len(z.vars) = Len(r.vars) /\ Len(r.vars) \in Nat
    BY <1>2, <1>7, <1>8, <2>2 DEF Shut, Whole, Regs, Named
  <2>4. Keeps(r, z)
    BY <1>8, <2>2, <2>3 DEF Keeps, Shut, Apart
  <2>5. z.mods[m].name = n /\ z.mods[m].clients = r.mods[m].clients - 1 /\ ~z.mods[m].open
    BY <1>1, <1>8, <1>11, <1>13, <2>2 DEF Shut
  <2>6. \A j \in DOMAIN z.mods : j # m => j \in DOMAIN r.mods /\ z.mods[j] = r.mods[j]
    BY <1>7, <1>8, <2>2, <2>3 DEF Shut
  <2>7. \A k \in DOMAIN z.vars :
           /\ k \in DOMAIN r.vars /\ Apart(z.vars[k], r.vars[k])
           /\ z.vars[k].loaded => r.vars[k].loaded /\ r.vars[k].parent # n
    BY <1>8, <2>2, <2>3 DEF Shut
  <2> QED
    BY <1>1, <2>2, <2>3, <2>4, <2>5, <2>6, <2>7 DEF Lost
<1>14. CASE y.mods[m].clients # 0
  <2>1. z = y
    BY <1>12, <1>14
  <2>2. Keeps(r, z)
    BY <1>2, <1>8, <2>1 DEF Keeps
  <2> QED
    BY <1>1, <1>7, <1>8, <1>9, <1>10, <1>11, <1>14, <2>1, <2>2 DEF Lost
<1> QED
  BY <1>13, <1>14

(* The counts that these two steps make.                                   *)
LEMMA OneMore ==
  ASSUME NEW r, NEW z, NEW c, NEW n, NEW m, Added(r, z, n, m), Whole(z, c),
         NEW count \in [Names -> Nat], Accounted(r, count), r.mods[m].name = n
  PROVE  Accounted(z, [count EXCEPT ![n] = count[n] + 1])
<1> DEFINE more == [count EXCEPT ![n] = count[n] + 1]
<1>1. z.mods \in Seq(Node) /\ Distinct(z.mods) /\ z.vars \in Seq(ModuleVar)
  BY DEF Whole, Named, Regs
<1>2. /\ \A j \in DOMAIN z.mods : z.mods[j].name \in Names
      /\ \A i \in DOMAIN z.vars : z.vars[i].parent \in Names
  <2>1. /\ \A j \in DOMAIN z.mods : z.mods[j] \in Node
        /\ \A i \in DOMAIN z.vars : z.vars[i] \in ModuleVar
    BY <1>1
  <2> QED
    BY <2>1 DEF Node, ModuleVar
<1>3. \A a \in Names : more[a] = IF a = n THEN count[a] + 1 ELSE count[a]
  OBVIOUS
<1>4. \A a \in Names : count[a] \in Nat /\ more[a] >= count[a] /\ (a = n => more[a] > 0)
  BY <1>3
<1> HIDE DEF more
<1>5. ASSUME NEW j \in DOMAIN z.mods
      PROVE  /\ z.mods[j].clients = more[z.mods[j].name]
             /\ z.mods[j].open => more[z.mods[j].name] > 0
  <2>1. CASE z.mods[j].name = n
    <3>1. j = m
      BY <1>1, <2>1 DEF Added, Distinct
    <3>2. z.mods[m].clients = count[n] + 1
      BY DEF Added, Accounted
    <3>3. n \in Names
      BY <1>2, <2>1
    <3> QED
      BY <1>3, <1>4, <2>1, <3>1, <3>2, <3>3
  <2>2. CASE z.mods[j].name # n
    BY <1>2, <1>3, <2>2 DEF Added, Accounted
  <2> QED
    BY <2>1, <2>2
<1>6. ASSUME NEW i \in DOMAIN z.vars, z.vars[i].loaded
      PROVE  more[z.vars[i].parent] > 0
  <2>1. CASE z.vars[i].parent = n
    BY <1>2, <1>4, <2>1
  <2>2. CASE z.vars[i].parent # n
    <3>1. i \in DOMAIN r.vars /\ z.vars[i].parent = r.vars[i].parent /\ r.vars[i].loaded
      BY <1>6, <2>2 DEF Added, Apart
    <3> QED
      BY <1>2, <1>3, <2>2, <3>1 DEF Accounted
  <2> QED
    BY <2>1, <2>2
<1> QED
  BY <1>5, <1>6 DEF Accounted, more

LEMMA OneLess ==
  ASSUME NEW r, NEW z, NEW c, NEW n, NEW m, Lost(r, z, n, m), Whole(z, c),
         NEW count \in [Names -> Nat], Accounted(r, count), r.mods[m].name = n,
         n \in Names => count[n] > 0
  PROVE  Accounted(z, [count EXCEPT ![n] = count[n] - 1])
<1> DEFINE less == [count EXCEPT ![n] = count[n] - 1]
<1>1. z.mods \in Seq(Node) /\ Distinct(z.mods) /\ z.vars \in Seq(ModuleVar)
  BY DEF Whole, Named, Regs
<1>2. /\ \A j \in DOMAIN z.mods : z.mods[j].name \in Names
      /\ \A i \in DOMAIN z.vars : z.vars[i].parent \in Names
  <2>1. /\ \A j \in DOMAIN z.mods : z.mods[j] \in Node
        /\ \A i \in DOMAIN z.vars : z.vars[i] \in ModuleVar
    BY <1>1
  <2> QED
    BY <2>1 DEF Node, ModuleVar
<1>3. \A a \in Names : less[a] = IF a = n THEN count[a] - 1 ELSE count[a]
  OBVIOUS
<1>4. n \in Names => less[n] \in Nat /\ z.mods[m].clients = less[n]
  BY <1>3 DEF Lost, Accounted
<1> HIDE DEF less
<1>5. ASSUME NEW j \in DOMAIN z.mods
      PROVE  /\ z.mods[j].clients = less[z.mods[j].name]
             /\ z.mods[j].open => less[z.mods[j].name] > 0
  <2>1. CASE j = m
    <3>1. z.mods[j].name = n /\ n \in Names /\ (z.mods[m].open => z.mods[m].clients # 0)
      BY <1>2, <2>1 DEF Lost
    <3> QED
      BY <1>4, <2>1, <3>1
  <2>2. CASE j # m
    <3>1. j \in DOMAIN r.mods /\ z.mods[j] = r.mods[j]
      BY <2>2 DEF Lost
    <3>2. z.mods[j].name # n
      BY <1>1, <2>2 DEF Lost, Distinct
    <3> QED
      BY <1>2, <1>3, <2>2, <3>1, <3>2 DEF Accounted
  <2> QED
    BY <2>1, <2>2
<1>6. ASSUME NEW i \in DOMAIN z.vars, z.vars[i].loaded
      PROVE  less[z.vars[i].parent] > 0
  <2>1. i \in DOMAIN r.vars /\ r.vars[i].loaded /\ r.vars[i].parent = z.vars[i].parent
        /\ (r.vars[i].parent = n => z.mods[m].clients # 0)
    BY <1>6 DEF Lost, Apart
  <2>2. CASE z.vars[i].parent = n
    BY <1>2, <1>4, <2>1, <2>2
  <2>3. CASE z.vars[i].parent # n
    BY <1>2, <1>3, <2>1, <2>3 DEF Accounted
  <2> QED
    BY <2>2, <2>3
<1> QED
  BY <1>5, <1>6 DEF Accounted, less

(* Lifecycle: request_list_remove for several requests at once.            *)

LEMMA KeepsOn ==
  ASSUME NEW r, NEW y, NEW z, NEW c, Whole(r, c), Whole(y, c), Whole(z, c),
         Keeps(r, y), Keeps(y, z)
  PROVE  Keeps(r, z)
<1>1. r.vars \in Seq(ModuleVar) /\ y.vars \in Seq(ModuleVar) /\ z.vars \in Seq(ModuleVar)
  BY DEF Whole, Regs
<1>2. \A i \in DOMAIN r.vars : i \in DOMAIN y.vars
  BY <1>1 DEF Keeps
<1> QED
  BY <1>1, <1>2 DEF Keeps

LEMMA DroppedWhole ==
  ASSUME NEW r, NEW c, Whole(r, c), NEW q, NEW z, z = Dropped(r, q)
  PROVE  Whole(z, c) /\ Keeps(r, z)
<1>1. r.vars \in Seq(ModuleVar)
  BY DEF Whole, Regs
<1>2. PICK v : v = module_var_find_by_name(r.vars, q.var)
  OBVIOUS
<1>3. z = IF v = 0 THEN r ELSE DropClient(r, v)
  BY <1>2 DEF Dropped
<1>4. CASE v = 0
  BY <1>1, <1>3, <1>4 DEF Keeps
<1>5. CASE v # 0
  <2>1. v \in DOMAIN r.vars
    BY <1>1, <1>2, <1>5, FindVar
  <2>2. PICK n, m : n = r.vars[v].parent /\ m = module_find_by_name(r.mods, n)
    OBVIOUS
  <2> QED
    BY <1>3, <1>5, <2>1, <2>2, Dropping
<1> QED
  BY <1>4, <1>5

(* The lists from one request to the next, without those at s.             *)
Removes(h, r, rs, s, c) ==
    /\ h \in [0..Len(rs) -> {z \in Regs : Whole(z, c)}] /\ h[0] = r
    /\ \A i \in 1..Len(rs) : h[i] = IF i \in s THEN Dropped(h[i - 1], rs[i]) ELSE h[i - 1]

LEMMA RemovedSteps ==
  ASSUME NEW c, Whole(reg, c), reqs \in Seq(Request), NEW s
  PROVE  \E h : Removes(h, reg, reqs, s, c) /\ Removed(s) = h[Len(reqs)]
<1> DEFINE n == Len(reqs)
           at == [i \in DOMAIN reqs |-> i]
           All == {r \in Regs : Whole(r, c)}
           next(r, i) == IF i \in s THEN Dropped(r, reqs[i]) ELSE r
           step == [p \in (1..n) \X All |-> next(p[2], p[1])]
           Rec(h) == [t \in SUBSET DOMAIN at |-> IF t = {} THEN reg
                          ELSE next(h[t \ {Max(t)}], at[Max(t)])]
           iter == CHOOSE h : h = Rec(h)
<1>1. n \in Nat /\ DOMAIN at = 1..n /\ \A i \in 1..n : at[i] = i
  OBVIOUS
<1>2. reg \in All
  BY DEF Whole
<1>3. step \in [(1..n) \X All -> All]
  <2> SUFFICES ASSUME NEW i \in 1..n, NEW r \in All
               PROVE  next(r, i) \in All
    OBVIOUS
  <2>1. PICK z : z = Dropped(r, reqs[i])
    OBVIOUS
  <2>2. Whole(z, c)
    BY <2>1, DroppedWhole
  <2> QED
    BY <2>1, <2>2 DEF Whole
<1> HIDE DEF next
<1>4. PICK g : Folds(g, All, reg, n, step)
  <2> HIDE DEF step, n, All
  <2> QED
    BY <1>1, <1>2, <1>3, FoldIsThere
<1>5. \A t \in SUBSET (1..n) : t # {} => Max(t) \in 1..n /\ t \ {Max(t)} \in SUBSET (1..n)
  BY <1>1, GreatestThere
<1>6. g = Rec(g)
  <2>1. ASSUME NEW t \in SUBSET (1..n), t # {}
        PROVE  g[t] = next(g[t \ {Max(t)}], at[Max(t)])
    <3> HIDE DEF All
    <3>1. g[t \ {Max(t)}] \in All /\ Max(t) \in 1..n
      BY <1>4, <1>5, <2>1 DEF Folds
    <3> QED
      BY <1>1, <1>4, <2>1, <3>1 DEF Folds
  <2> HIDE DEF step, n, All, at
  <2> QED
    BY <1>1, <1>4, <2>1 DEF Folds
<1>7. iter = Rec(iter)
  <2> HIDE DEF Rec
  <2> QED
    BY <1>6
<1> HIDE DEF iter, at
<1>8. iter[{}] = reg
  BY <1>1, <1>7
<1>9. ASSUME NEW i \in 1..n
      PROVE  iter[1..i] = next(iter[1..(i - 1)], i)
  <2>1. 1..i \in SUBSET DOMAIN at /\ 1..i # {} /\ Max(1..i) = i
        /\ (1..i) \ {i} = 1..(i - 1)
    BY <1>1, Segment
  <2> QED
    BY <1>1, <1>7, <2>1
<1>10. PICK h : Iterates(h, iter, All, reg, n, step)
  <2>1. Agrees(iter, All, reg, n, step)
    <3> HIDE DEF All
    <3> QED
      BY <1>8, <1>9 DEF Agrees
  <2> HIDE DEF step, n, All
  <2> QED
    BY <1>1, <1>2, <1>3, <2>1, Iterated
<1>11. ASSUME NEW i \in 1..n PROVE h[i] = next(h[i - 1], i)
  <2>1. h[i - 1] \in All /\ h[i] = step[<<i, h[i - 1]>>]
    <3>1. i - 1 \in 0..n
      BY <1>1
    <3> HIDE DEF step, All
    <3> QED
      BY ONLY <1>10, <3>1, i \in 1..n DEF Iterates
  <2> QED
    BY <2>1
<1>12. Removed(s) = iter[DOMAIN at]
  BY DEF Removed, FoldLeftDomain, FoldLeft, MapThenFoldSet, iter, at, next
<1>13. Removed(s) = h[n] /\ h \in [0..n -> All] /\ h[0] = reg
  <2> HIDE DEF step, n, All
  <2> QED
    BY <1>1, <1>10, <1>12 DEF Iterates
<1> HIDE DEF step
<1> QED
  BY <1>11, <1>13 DEF Removes, next

Keeping(h, rs, s) ==
    /\ h \in [0..Len(rs) -> Seq(Request)] /\ h[0] = <<>>
    /\ \A i \in 1..Len(rs) : h[i] = IF i \in s THEN h[i - 1] ELSE Append(h[i - 1], rs[i])

LEMMA OthersSteps ==
  ASSUME reqs \in Seq(Request), NEW s
  PROVE  \E h : Keeping(h, reqs, s) /\ Others(s) = h[Len(reqs)]
<1> DEFINE n == Len(reqs)
           at == [i \in DOMAIN reqs |-> i]
           All == Seq(Request)
           next(r, i) == IF i \in s THEN r ELSE Append(r, reqs[i])
           step == [p \in (1..n) \X All |-> next(p[2], p[1])]
           Rec(h) == [t \in SUBSET DOMAIN at |-> IF t = {} THEN <<>>
                          ELSE next(h[t \ {Max(t)}], at[Max(t)])]
           iter == CHOOSE h : h = Rec(h)
<1>1. n \in Nat /\ DOMAIN at = 1..n /\ \A i \in 1..n : at[i] = i
  OBVIOUS
<1>2. <<>> \in All
  OBVIOUS
<1>3. step \in [(1..n) \X All -> All]
  <2> SUFFICES ASSUME NEW i \in 1..n, NEW r \in All
               PROVE  next(r, i) \in All
    OBVIOUS
  <2>1. reqs[i] \in Request
    OBVIOUS
  <2> QED
    BY <2>1
<1> HIDE DEF next
<1>4. PICK g : Folds(g, All, <<>>, n, step)
  <2>1. PICK b : b = <<>>
    OBVIOUS
  <2> HIDE DEF step, n, All
  <2> QED
    BY <1>1, <1>2, <1>3, <2>1, FoldIsThere
<1>5. \A t \in SUBSET (1..n) : t # {} => Max(t) \in 1..n /\ t \ {Max(t)} \in SUBSET (1..n)
  BY <1>1, GreatestThere
<1>6. g = Rec(g)
  <2>1. ASSUME NEW t \in SUBSET (1..n), t # {}
        PROVE  g[t] = next(g[t \ {Max(t)}], at[Max(t)])
    <3> HIDE DEF All
    <3>1. g[t \ {Max(t)}] \in All /\ Max(t) \in 1..n
      BY <1>4, <1>5, <2>1 DEF Folds
    <3> QED
      BY <1>1, <1>4, <2>1, <3>1 DEF Folds
  <2> HIDE DEF step, n, All, at
  <2> QED
    BY <1>1, <1>4, <2>1 DEF Folds
<1>7. iter = Rec(iter)
  <2> HIDE DEF Rec
  <2> QED
    BY <1>6
<1> HIDE DEF iter, at
<1>8. iter[{}] = <<>>
  BY <1>1, <1>7
<1>9. ASSUME NEW i \in 1..n
      PROVE  iter[1..i] = next(iter[1..(i - 1)], i)
  <2>1. 1..i \in SUBSET DOMAIN at /\ 1..i # {} /\ Max(1..i) = i
        /\ (1..i) \ {i} = 1..(i - 1)
    BY <1>1, Segment
  <2> QED
    BY <1>1, <1>7, <2>1
<1>10. PICK h : Iterates(h, iter, All, <<>>, n, step)
  <2>1. Agrees(iter, All, <<>>, n, step)
    <3> HIDE DEF All
    <3> QED
      BY <1>8, <1>9 DEF Agrees
  <2>2. PICK b : b = <<>>
    OBVIOUS
  <2> HIDE DEF step, n, All
  <2> QED
    BY <1>1, <1>2, <1>3, <2>1, <2>2, Iterated
<1>11. ASSUME NEW i \in 1..n PROVE h[i] = next(h[i - 1], i)
  <2>1. h[i - 1] \in All /\ h[i] = step[<<i, h[i - 1]>>]
    <3>1. i - 1 \in 0..n
      BY <1>1
    <3> HIDE DEF step, All
    <3> QED
      BY ONLY <1>10, <3>1, i \in 1..n DEF Iterates
  <2> QED
    BY <2>1
<1>12. Others(s) = iter[DOMAIN at]
  BY DEF Others, FoldLeftDomain, FoldLeft, MapThenFoldSet, iter, at, next
<1>13. Others(s) = h[n] /\ h \in [0..n -> All] /\ h[0] = <<>>
  <2> HIDE DEF step, n, All
  <2> QED
    BY <1>1, <1>10, <1>12 DEF Iterates
<1> HIDE DEF step
<1> QED
  BY <1>11, <1>13 DEF Keeping, next

LEMMA RemovedWhole ==
  ASSUME NEW c, Whole(reg, c), reqs \in Seq(Request), NEW s
  PROVE  /\ Whole(Removed(s), c) /\ Keeps(reg, Removed(s))
         /\ reg = NoModules => Removed(s) = NoModules
<1>1. PICK h : Removes(h, reg, reqs, s, c) /\ Removed(s) = h[Len(reqs)]
  BY RemovedSteps
<1> DEFINE n == Len(reqs)
           S == {i \in 0..n : /\ Whole(h[i], c) /\ Keeps(reg, h[i])
                              /\ reg = NoModules => h[i] = NoModules}
<1>2. n \in Nat /\ 0 \in 0..n /\ n \in 0..n
  OBVIOUS
<1>3. \A i \in 0..n : Whole(h[i], c)
  BY <1>1 DEF Removes
<1>4. 0 \in S
  <2>1. Keeps(reg, reg)
    BY DEF Keeps, Whole, Regs
  <2> QED
    BY <1>1, <1>2, <2>1 DEF Removes
<1>5. ASSUME NEW i \in 1..n, i - 1 \in S PROVE i \in S
  <2>1. i \in 0..n /\ i - 1 \in 0..n
    BY <1>2
  <2>2. PICK r, z, q : r = h[i - 1] /\ z = h[i] /\ q = reqs[i]
    OBVIOUS
  <2>3. Whole(r, c) /\ Keeps(reg, r) /\ (reg = NoModules => r = NoModules)
    BY <1>5, <2>2
  <2>4. z = r \/ z = Dropped(r, q)
    BY <1>1, <2>2 DEF Removes
  <2>5. CASE z = r
    BY <1>3, <2>1, <2>2, <2>3, <2>5
  <2>6. CASE z = Dropped(r, q)
    <3>1. Whole(z, c) /\ Keeps(r, z)
      BY <2>3, <2>6, DroppedWhole
    <3>2. Keeps(reg, z)
      BY <2>3, <3>1, KeepsOn
    <3>3. r = NoModules => z = NoModules
      <4>1. PICK e, v : e = <<>> /\ v = module_var_find_by_name(e, q.var)
        OBVIOUS
      <4>2. e \in Seq(ModuleVar) /\ Len(e) = 0
        BY <4>1
      <4>3. v \in 0..Len(e)
        BY <4>1, <4>2, FindVar
      <4>4. v = 0
        BY <4>2, <4>3
      <4> QED
        BY <2>6, <4>1, <4>4 DEF Dropped, NoModules
    <3> QED
      BY <2>1, <2>2, <2>3, <3>1, <3>2, <3>3
  <2> QED
    BY <2>4, <2>5, <2>6
<1>6. \A i \in 0..n : i \in S
  <2> HIDE DEF S, n
  <2> QED
    BY <1>2, <1>4, <1>5, AlongTheList
<1> QED
  BY <1>1, <1>2, <1>6

LEMMA OthersFrom ==
  ASSUME reqs \in Seq(Request), NEW s
  PROVE  /\ Others(s) \in Seq(Request) /\ Len(Others(s)) <= Len(reqs)
         /\ \A j \in DOMAIN Others(s) :
               \E i \in DOMAIN reqs : i \notin s /\ Others(s)[j] = reqs[i]
<1>1. PICK h : Keeping(h, reqs, s) /\ Others(s) = h[Len(reqs)]
  BY OthersSteps
<1> DEFINE n == Len(reqs)
           S == {i \in 0..n : /\ h[i] \in Seq(Request) /\ Len(h[i]) <= i
                              /\ \A j \in DOMAIN h[i] : \E k \in DOMAIN reqs :
                                    k \notin s /\ h[i][j] = reqs[k]}
<1>2. n \in Nat /\ 0 \in 0..n /\ n \in 0..n
  OBVIOUS
<1>3. 0 \in S
  BY <1>1, <1>2 DEF Keeping
<1>4. ASSUME NEW i \in 1..n, i - 1 \in S PROVE i \in S
  <2>1. i \in 0..n /\ i - 1 \in 0..n /\ i \in DOMAIN reqs /\ reqs[i] \in Request
    BY <1>2
  <2>2. PICK r, z, q : r = h[i - 1] /\ z = h[i] /\ q = reqs[i]
    OBVIOUS
  <2>3. r \in Seq(Request) /\ Len(r) <= i - 1
        /\ \A j \in DOMAIN r : \E k \in DOMAIN reqs : k \notin s /\ r[j] = reqs[k]
    BY <1>4, <2>2
  <2>4. z = IF i \in s THEN r ELSE Append(r, q)
    BY <1>1, <2>2 DEF Keeping
  <2>5. CASE i \in s
    <3>1. z = r /\ Len(z) <= i
      BY <2>3, <2>4, <2>5
    <3>2. \A j \in DOMAIN z : \E k \in DOMAIN reqs : k \notin s /\ z[j] = reqs[k]
      BY <2>3, <3>1
    <3> QED
      BY <2>1, <2>2, <2>3, <3>1, <3>2, ZenonT(30)
  <2>6. CASE i \notin s
    <3>1. z \in Seq(Request) /\ Len(z) = Len(r) + 1 /\ z[Len(r) + 1] = q
          /\ DOMAIN z = 1..(Len(r) + 1) /\ DOMAIN r = 1..Len(r) /\ Len(r) \in Nat
          /\ \A j \in DOMAIN r : z[j] = r[j]
      <4>1. r \in Seq(Request) /\ q \in Request /\ z = Append(r, q)
        BY <2>1, <2>2, <2>3, <2>4, <2>6
      <4> QED
        BY ONLY <4>1
    <3>2. \A j \in DOMAIN z : j = Len(r) + 1 \/ j \in DOMAIN r
      BY <3>1
    <3>3. ASSUME NEW j \in DOMAIN z
          PROVE  \E k \in DOMAIN reqs : k \notin s /\ z[j] = reqs[k]
      <4>1. CASE j = Len(r) + 1
        BY <2>1, <2>2, <2>6, <3>1, <4>1
      <4>2. CASE j \in DOMAIN r
        <5>1. PICK k \in DOMAIN reqs : k \notin s /\ r[j] = reqs[k]
          BY <2>3, <4>2
        <5>2. z[j] = r[j]
          BY <3>1, <4>2
        <5> QED
          BY <5>1, <5>2
      <4> QED
        BY <3>2, <4>1, <4>2
    <3>4. Len(z) <= i
      BY <2>3, <3>1
    <3> QED
      BY <2>1, <2>2, <3>1, <3>3, <3>4
  <2> QED
    BY <2>5, <2>6
<1>5. \A i \in 0..n : i \in S
  <2> HIDE DEF S, n
  <2> QED
    BY <1>2, <1>3, <1>4, AlongTheList
<1> QED
  BY <1>1, <1>2, <1>5
-----------------------------------------------------------------------------
(* Lifecycle: what the parts of the process promise each other.            *)

Known(r, q) == \E i \in DOMAIN r.vars : r.vars[i].name = q.var

(* The configuration in memory is the one of the file that was read last,  *)
(* and the lists of module.c were built with it and with no other.         *)
ConfigOK ==
    /\ file \in Seq(Line)
    /\ cfg = Null \/ cfg = parse_cfg(file)
    /\ pc \in Serving \cup {"load", "listen", "start", "drop_conns", "clear_cfg"}
          => cfg = parse_cfg(file)
ListsOK ==
    /\ Whole(reg, parse_cfg(file))
    /\ pc \in {"parse", "load", "cancel", "join", "free_requests", "again", "exited"}
          => reg = NoModules

(* A request has its variable until the lists are cleared, and its client  *)
(* until the connections are.                                              *)
RequestsOK ==
    /\ reqs \in Seq(Request) /\ Len(reqs) <= MaxReqs
    /\ pc \in {"parse", "load", "listen", "start", "again", "exited"} => reqs = <<>>
    /\ pc \in Serving \cup {"drop_conns", "clear_cfg", "clear_module"}
          => \A i \in DOMAIN reqs : Known(reg, reqs[i])
    /\ pc \in Serving => \A i \in DOMAIN reqs : reqs[i].conn \in conns
ClientsOK ==
    /\ conns \subseteq Conns /\ hung \subseteq conns /\ linger \in BOOLEAN

(* A stray cursor is that of a cron pass that the clean-up came upon, a    *)
(* lost one that of a walk; rl_start is held while the thread is waited    *)
(* for and the nodes are freed, and at no other time.                      *)
CursorsOK ==
    /\ stray \in BOOLEAN /\ lost \in BOOLEAN /\ crashed \in BOOLEAN /\ tspec \in Int
    /\ start \in {"unread", "none", "live", "freed"}
    /\ stray => pc \in {"cancel", "join"} /\ thread = "cron"
    /\ lost => thread = "walk"
    /\ start # "unread" => pc \in {"join", "free_requests"}

Held == ConfigOK /\ ListsOK /\ RequestsOK /\ ClientsOK /\ CursorsOK
Sane == Control /\ Held

(* The module that registers a variable, when no two modules register one  *)
(* of the same name, as those under src/modules do not; and how many       *)
(* requests there are for the variables of each.                           *)
OwnNames ==
    \A o, p \in Objects : \A d \in ToSet(Registers[o]), e \in ToSet(Registers[p]) :
        d.name = e.name => ModuleName[o] = ModuleName[p]

Owner(v) == CHOOSE n \in Names :
    \E o \in Objects : ModuleName[o] = n /\ \E d \in ToSet(Registers[o]) : d.name = v

Clients(rs) == [n \in Names |-> Cardinality({i \in DOMAIN rs : Owner(rs[i].var) = n})]

ClientsCounted == Accounted(reg, Clients(reqs))

LEMMA NothingWhole ==
  ASSUME NEW c
  PROVE  Whole(NoModules, c)
<1>1. NoModules.mods = <<>> /\ NoModules.vars = <<>> /\ NoModules \in Regs
  BY DEF NoModules, Regs
<1>2. DOMAIN NoModules.mods = {} /\ DOMAIN NoModules.vars = {}
  BY <1>1
<1> QED
  BY <1>1, <1>2 DEF Whole, Named, Distinct

LEMMA KnownStays ==
  ASSUME NEW r, NEW z, NEW c, Whole(r, c), Whole(z, c), Keeps(r, z), NEW q, Known(r, q)
  PROVE  Known(z, q)
<1>1. r.vars \in Seq(ModuleVar) /\ z.vars \in Seq(ModuleVar)
  BY DEF Whole, Regs
<1>2. \A i \in DOMAIN r.vars : i \in DOMAIN z.vars
  BY <1>1 DEF Keeps
<1> QED
  BY <1>2 DEF Known, Keeps

LEMMA SleepType ==
  ASSUME NEW c \in Seq(Section)
  PROVE  SleepOf(c) \in Int
<1>1. find_setting(c, Daemon, GlobalSleep) \in Texts \cup {Null}
  BY LifecycleAssumption, SettingText
<1> QED
  BY <1>1, CfgAssumption DEF SleepOf, get_double_key, DEFAULT_GLOBAL_SLEEP

LEMMA InitHeld == Init => Held
<1> SUFFICES ASSUME Init PROVE Held
  OBVIOUS
<1>1. reqs = <<>> /\ reqs \in Seq(Request) /\ Len(reqs) = 0 /\ file = <<>> /\ file \in Seq(Line)
  BY DEF Init
<1>2. ListsOK
  BY NothingWhole DEF Init, ListsOK
<1>3. ConfigOK
  BY <1>1 DEF Init, ConfigOK, Serving
<1>4. RequestsOK
  BY <1>1, LifecycleAssumption DEF Init, RequestsOK, Serving
<1>5. ClientsOK
  BY DEF Init, ClientsOK
<1>6. CursorsOK
  <2>1. tspec = 0 /\ tspec \in Int
    BY DEF Init
  <2>2. stray = FALSE /\ lost = FALSE /\ crashed = FALSE /\ start = "unread"
    BY DEF Init
  <2> QED
    BY <2>1, <2>2 DEF CursorsOK
<1> QED
  BY <1>2, <1>3, <1>4, <1>5, <1>6 DEF Held

LEMMA BeginsHeld == Sane /\ Begins /\ UNCHANGED crashed => Held'
<1> SUFFICES ASSUME Sane, Begins, UNCHANGED crashed PROVE Held'
  OBVIOUS
<1> USE DEF Sane, Held, ConfigOK, ListsOK, RequestsOK, ClientsOK, CursorsOK, Serving, Cleaning
<1>1. CASE Parse
  <2>1. PICK f \in Files : file' = f /\ cfg' = parse_cfg(f)
    BY <1>1 DEF Parse
  <2>2. f \in Seq(Line)
    BY LifecycleAssumption
  <2>3. pc = "parse" /\ pc' = "load" /\ reg' = NoModules
        /\ UNCHANGED <<conns, hung, linger, reqs, start, stray, lost, tspec, thread>>
    BY <1>1 DEF Parse, clients, threadVars
  <2>4. Whole(NoModules, parse_cfg(f))
    BY NothingWhole
  <2> QED
    BY <2>1, <2>2, <2>3, <2>4
<1>2. CASE NoConfiguration
  BY <1>2 DEF NoConfiguration, config, clients, threadVars
<1>3. CASE Load
  <2>1. PICK order \in Orders : reg' = module_load_all(cfg, order)
    BY <1>3 DEF Load
  <2>2. pc = "load" /\ pc' = "listen" /\ cfg = parse_cfg(file) /\ reqs = <<>> /\ reqs' = <<>>
        /\ UNCHANGED <<file, cfg, conns, hung, linger, reqs, start, stray, lost, tspec, thread>>
    BY <1>3 DEF Load, config, clients, threadVars
  <2>3. order \in Seq(Objects) /\ cfg \in Seq(Section)
    BY <2>2, LifecycleAssumption, ParsedWell
  <2>4. Whole(reg', parse_cfg(file))
    BY <2>1, <2>2, <2>3, LoadsAll
  <2> QED
    BY <2>2, <2>4
<1>4. CASE Listen
  <2>1. pc = "listen" /\ pc' \in {"start", "clear_cfg"} /\ reqs = <<>> /\ reqs' = <<>>
        /\ UNCHANGED <<file, cfg, reg, conns, hung, linger, reqs, start, stray, lost, tspec, thread>>
    BY <1>4 DEF Listen, config, clients, threadVars
  <2> QED
    BY <2>1
<1>5. CASE StartThread
  <2>1. pc = "start" /\ pc' = "check" /\ reqs = <<>> /\ reqs' = <<>>
        /\ UNCHANGED <<file, cfg, reg, conns, hung, linger, reqs, start, stray, lost, tspec>>
        /\ thread' \in {thread, "begin"}
    BY <1>5 DEF StartThread, config, clients
  <2>2. thread = "none"
    BY <2>1 DEF Control, ThreadWithinRun
  <2> QED
    BY <2>1, <2>2
<1> QED
  BY <1>1, <1>2, <1>3, <1>4, <1>5 DEF Begins

LEMMA HandlersHeld == Sane /\ Handlers /\ UNCHANGED crashed => Held'
<1> SUFFICES ASSUME Sane, UNCHANGED crashed, NEW b \in Conns,
                    \/ Accept(b) \/ Drop(b)
                    \/ \E i \in DOMAIN reg.vars, once \in BOOLEAN :
                          Subscribe(b, i, once)
             PROVE  Held'
  BY DEF Handlers
<1> USE DEF Sane, Held, ConfigOK, ListsOK, RequestsOK, ClientsOK, CursorsOK, Serving, Cleaning
<1>0. pc = "serve" /\ UNCHANGED <<pc, file, cfg, start, stray, tspec, thread>>
  BY DEF Accept, Drop, Subscribe, config, threadVars
<1>1. /\ pc = "serve" /\ UNCHANGED <<pc, file, cfg, start, stray, tspec, thread>>
      /\ lost' \in BOOLEAN /\ (lost' => thread = "walk")
  <2>1. CASE Drop(b)
    BY <1>0, <2>1 DEF Drop
  <2>2. CASE Accept(b) \/ \E i \in DOMAIN reg.vars, once \in BOOLEAN : Subscribe(b, i, once)
    <3>1. lost' = lost
      BY <2>2 DEF Accept, Subscribe, threadVars
    <3> QED
      BY <1>0, <3>1
  <2> QED
    BY <2>1, <2>2
<1>2. PICK c : c = parse_cfg(file)
  OBVIOUS
<1>3. /\ Whole(reg, c) /\ reqs \in Seq(Request) /\ Len(reqs) <= MaxReqs /\ MaxReqs \in Nat
      /\ Len(reqs) \in Nat
      /\ \A i \in DOMAIN reqs : Known(reg, reqs[i]) /\ reqs[i].conn \in conns
  BY <1>1, <1>2, LifecycleAssumption
<1>4. ASSUME Whole(reg', c), reqs' \in Seq(Request), Len(reqs') <= MaxReqs,
             \A i \in DOMAIN reqs' : Known(reg', reqs'[i]) /\ reqs'[i].conn \in conns',
             ClientsOK'
      PROVE  Held'
  BY <1>1, <1>2, <1>4
<1>5. CASE Accept(b)
  <2>1. conns' = conns \cup {b} /\ UNCHANGED <<reg, reqs, hung, linger>>
    BY <1>5 DEF Accept
  <2> QED
    BY <1>3, <1>4, <2>1
<1>6. CASE Drop(b)
  <2>1. PICK s : s = {i \in DOMAIN reqs : reqs[i].conn = b}
    OBVIOUS
  <2>2. conns' = conns \ {b} /\ hung' = hung \ {b} /\ linger' \in BOOLEAN
        /\ reqs' = Others(s) /\ reg' = Removed(s)
    BY <1>6, <2>1 DEF Drop
  <2>3. Whole(reg', c) /\ Keeps(reg, reg')
    BY <1>3, <2>2, RemovedWhole
  <2>4. /\ reqs' \in Seq(Request) /\ Len(reqs') <= Len(reqs)
        /\ \A j \in DOMAIN reqs' : \E i \in DOMAIN reqs : i \notin s /\ reqs'[j] = reqs[i]
    BY <1>3, <2>2, OthersFrom
  <2>5. ASSUME NEW j \in DOMAIN reqs'
        PROVE  Known(reg', reqs'[j]) /\ reqs'[j].conn \in conns'
    <3>1. PICK i \in DOMAIN reqs : i \notin s /\ reqs'[j] = reqs[i]
      BY <2>4
    <3>2. Known(reg', reqs[i])
      BY <1>3, <2>3, KnownStays
    <3> QED
      BY <1>3, <2>1, <2>2, <3>1, <3>2
  <2>6. Len(reqs') <= MaxReqs
    BY <1>3, <2>4
  <2> QED
    BY <1>4, <2>2, <2>3, <2>4, <2>5, <2>6
<1>7. CASE \E i \in DOMAIN reg.vars, once \in BOOLEAN : Subscribe(b, i, once)
  <2>1. PICK i \in DOMAIN reg.vars, once \in BOOLEAN : Subscribe(b, i, once)
    BY <1>7
  <2>2. PICK q : q = [conn |-> b, var |-> reg.vars[i].name, once |-> once]
    OBVIOUS
  <2>3. b \in conns /\ Len(reqs) < MaxReqs /\ reqs' = Append(reqs, q)
        /\ reg' = AddClient(reg, cfg, i) /\ UNCHANGED <<conns, hung, linger>>
    BY <2>1, <2>2 DEF Subscribe, clients
  <2>4. c \in Seq(Section) /\ cfg = c
    BY <1>1, <1>2, ParsedWell
  <2>5. Whole(reg', c) /\ Keeps(reg, reg')
    <3>1. PICK n, m : n = reg.vars[i].parent /\ m = module_find_by_name(reg.mods, n)
      OBVIOUS
    <3> QED
      BY <1>3, <2>3, <2>4, <3>1, Adding
  <2>6. q \in Request /\ Known(reg, q) /\ q.conn \in conns
    <3>1. reg.vars \in Seq(ModuleVar)
      BY <1>3 DEF Whole, Regs
    <3>2. reg.vars[i] \in ModuleVar
      BY <3>1
    <3>3. reg.vars[i].name \in Names
      BY <3>2 DEF ModuleVar
    <3>4. q \in Request
      BY <2>2, <3>3 DEF Request
    <3> QED
      BY <2>2, <2>3, <3>4 DEF Known
  <2>7. reqs' \in Seq(Request) /\ Len(reqs') <= MaxReqs
    BY <1>3, <2>3, <2>6
  <2>8. ASSUME NEW j \in DOMAIN reqs'
        PROVE  Known(reg', reqs'[j]) /\ reqs'[j].conn \in conns'
    <3>1. reqs'[j] = q \/ (j \in DOMAIN reqs /\ reqs'[j] = reqs[j])
      BY <1>3, <2>3, <2>6
    <3>2. Known(reg, reqs'[j]) /\ reqs'[j].conn \in conns
      BY <1>3, <2>6, <3>1
    <3> QED
      BY <1>3, <2>3, <2>5, <3>2, KnownStays
  <2> QED
    BY <1>4, <2>3, <2>5, <2>7, <2>8
<1> QED
  BY <1>5, <1>6, <1>7

LEMMA EndsHeld == Sane /\ Ends /\ UNCHANGED crashed => Held'
<1> SUFFICES ASSUME Sane, Ends, UNCHANGED crashed PROVE Held'
  OBVIOUS
<1> USE DEF Sane, Held, ConfigOK, ListsOK, RequestsOK, ClientsOK, CursorsOK, Serving, Cleaning
<1>1. CASE Check
  <2>1. pc = "check" /\ pc' \in {"drop_conns", "select"}
        /\ UNCHANGED <<file, cfg, reg, conns, hung, linger, reqs, start, stray, lost, tspec, thread>>
    BY <1>1 DEF Check, config, clients, threadVars
  <2> QED
    BY <2>1
<1>2. CASE EndServe
  BY <1>2 DEF EndServe, config, clients, threadVars
<1>3. CASE DropConns
  <2>1. pc = "drop_conns" /\ pc' = "clear_cfg" /\ conns' = {} /\ hung' = {}
        /\ linger' \in BOOLEAN
        /\ UNCHANGED <<file, cfg, reg, reqs, start, stray, lost, tspec, thread>>
    BY <1>3 DEF DropConns, config, threadVars
  <2> QED
    BY <2>1
<1>4. CASE ClearCfg
  BY <1>4 DEF ClearCfg, clients, threadVars
<1>5. CASE ClearModule
  <2>1. pc = "clear_module" /\ pc' = "cancel" /\ reg' = NoModules /\ stray' = (thread = "cron")
        /\ UNCHANGED <<file, cfg, conns, hung, linger, reqs, start, lost, tspec, thread>>
    BY <1>5 DEF ClearModule, config, clients
  <2> QED
    BY <2>1, NothingWhole
<1>6. CASE Cancel
  <2>1. pc = "cancel" /\ start' \in {"none", "live"}
        /\ pc' = (IF launched THEN "join" ELSE "free_requests")
        /\ UNCHANGED <<file, cfg, reg, conns, hung, linger, reqs, stray, lost, tspec, thread>>
    BY <1>6 DEF Cancel, config, clients
  <2>2. ~launched => thread = "none"
    BY <2>1 DEF Control, ThreadWithinRun
  <2> QED
    BY <2>1, <2>2
<1>7. CASE Join
  <2>1. /\ pc = "join" /\ pc' = "free_requests" /\ thread = "ended" /\ tspec' = 0
        /\ UNCHANGED <<file, cfg, reg, conns, hung, linger, reqs, start, stray, lost>>
    BY <1>7 DEF Join, config, clients
  <2> QED
    BY <2>1
<1>8. CASE FreeRequests
  <2>1. reqs' = <<>> /\ reqs' \in Seq(Request) /\ Len(reqs') = 0
    BY <1>8 DEF FreeRequests
  <2>2. pc = "free_requests" /\ pc' = "again" /\ start' = "unread"
        /\ UNCHANGED <<file, cfg, reg, conns, hung, linger, stray, lost, tspec, thread>>
    BY <1>8 DEF FreeRequests, config, clients, threadVars
  <2>3. Len(reqs') <= MaxReqs
    BY <2>1, LifecycleAssumption
  <2>4. RequestsOK'
    BY <2>1, <2>2, <2>3
  <2>5. ConfigOK' /\ ListsOK'
    BY <2>2
  <2>6. ClientsOK'
    BY <2>2
  <2>7. CursorsOK'
    BY <2>2
  <2> QED
    BY <2>4, <2>5, <2>6, <2>7
<1>9. CASE Again
  <2>1. pc = "again" /\ pc' \in {"parse", "exited"}
        /\ UNCHANGED <<file, cfg, reg, conns, hung, linger, reqs, start, stray, lost, tspec, thread>>
    BY <1>9 DEF Again, config, clients, threadVars
  <2> QED
    BY <2>1
<1> QED
  BY <1>1, <1>2, <1>3, <1>4, <1>5, <1>6, <1>7, <1>8, <1>9 DEF Ends

LEMMA ThreadHeld == Sane /\ Thread => Held'
<1> SUFFICES ASSUME Sane, Steps \/ Walks, UNCHANGED crashed PROVE Held'
  BY DEF Thread
<1> USE DEF Sane, Held, ConfigOK, ListsOK, RequestsOK, ClientsOK, CursorsOK, Serving, Cleaning
<1>1. CASE Steps
  <2>1. UNCHANGED <<pc, file, cfg, reg, conns, hung, linger, reqs, start>>
    BY <1>1 DEF Steps, Begin, CronExec, Wake, EndCancelled, config, clients
  <2>2. /\ stray' \in BOOLEAN /\ (stray' => pc \in {"cancel", "join"} /\ thread' = "cron")
        /\ lost' \in BOOLEAN /\ (lost' => thread' = "walk") /\ tspec' \in Int
    <3>1. CASE Begin
      <4>1. cfg \in Seq(Section)
        BY <3>1, ParsedWell DEF Begin
      <4> QED
        BY <3>1, <4>1, SleepType DEF Begin
    <3>2. CASE CronExec
      BY <3>2 DEF CronExec
    <3>3. CASE Wake
      BY <3>3 DEF Wake
    <3>4. CASE EndCancelled
      BY <3>4 DEF EndCancelled
    <3> QED
      BY <1>1, <3>1, <3>2, <3>3, <3>4 DEF Steps
  <2> QED
    BY <2>1, <2>2
<1>2. CASE Walks
  <2>1. PICK s \in SUBSET DOMAIN reqs : Walk(s)
    BY <1>2 DEF Walks
  <2>2. PICK c : c = parse_cfg(file)
    OBVIOUS
  <2>3. thread = "walk" /\ reqs' = Others(s) /\ reg' = Removed(s)
        /\ lost' = FALSE /\ UNCHANGED <<pc, file, cfg, conns, hung, linger, stray, tspec>>
    BY <2>1 DEF Walk, config, clients
  <2>4. Whole(reg, c) /\ reqs \in Seq(Request) /\ Len(reqs) \in Nat /\ MaxReqs \in Nat
    BY <2>2, LifecycleAssumption
  <2>5. Whole(reg', c) /\ Keeps(reg, reg') /\ (reg = NoModules => reg' = NoModules)
    BY <2>3, <2>4, RemovedWhole
  <2>6. /\ reqs' \in Seq(Request) /\ Len(reqs') <= Len(reqs)
        /\ \A j \in DOMAIN reqs' : \E i \in DOMAIN reqs : reqs'[j] = reqs[i]
    BY <2>3, <2>4, OthersFrom
  <2>7. ASSUME NEW j \in DOMAIN reqs'
        PROVE  \E i \in DOMAIN reqs :
                  /\ reqs'[j] = reqs[i]
                  /\ Known(reg, reqs[i]) => Known(reg', reqs'[j])
    <3>1. PICK i \in DOMAIN reqs : reqs'[j] = reqs[i]
      BY <2>6
    <3> QED
      BY <2>4, <2>5, <3>1, KnownStays
  <2>8. reqs = <<>> => reqs' = <<>>
    <3>1. ASSUME reqs = <<>> PROVE Len(reqs') = 0
      BY <2>4, <2>6, <3>1
    <3> QED
      BY <2>6, <3>1
  <2>9. Len(reqs') <= MaxReqs
    BY <2>4, <2>6
  <2>10. /\ start' \in {"unread", "none", "live", "freed"}
         /\ start' # "unread" => pc \in {"join", "free_requests"}
    BY <2>1 DEF Walk
  <2>11. ConfigOK' /\ ListsOK' /\ ClientsOK'
    BY <2>2, <2>3, <2>5
  <2>12. CursorsOK'
    BY <2>3, <2>10
  <2>13. RequestsOK'
    BY <2>3, <2>6, <2>7, <2>8, <2>9
  <2> QED
    BY <2>11, <2>12, <2>13
<1> QED
  BY <1>1, <1>2

LEMMA EnvironmentHeld == Sane /\ Environment => Held'
<1> SUFFICES ASSUME Sane, Environment PROVE Held'
  OBVIOUS
<1> USE DEF Sane, Held, ConfigOK, ListsOK, RequestsOK, ClientsOK, CursorsOK, Serving, Cleaning
<1>0. UNCHANGED crashed
  BY DEF Environment
<1>1. CASE Activity
  BY <1>0, <1>1 DEF Activity, config, clients, threadVars
<1>2. CASE Expire \/ \E b \in Conns : Hangup(b)
  <2>1. UNCHANGED <<pc, file, cfg, reg, conns, reqs, start, stray, lost, tspec, thread>>
        /\ linger' \in BOOLEAN
    BY <1>2 DEF Expire, Hangup, config, threadVars
  <2>2. hung' \subseteq conns'
    BY <1>2, <2>1 DEF Expire, Hangup
  <2> QED
    BY <1>0, <2>1, <2>2
<1>3. ASSUME NEW sig \in {"HUP", "TERM"}, SignalMain(sig) PROVE Held'
  <2>1. pc' = pc \/ (pc = "select" /\ pc' = "drop_conns")
    BY <1>3 DEF SignalMain
  <2>2. UNCHANGED <<file, cfg, reg, conns, hung, linger, reqs, start, stray, lost, tspec, thread>>
    BY <1>3 DEF SignalMain, config, clients, threadVars
  <2>3. CASE pc' = pc
    BY <1>0, <2>2, <2>3
  <2>4. CASE pc = "select" /\ pc' = "drop_conns"
    BY <1>0, <2>2, <2>4
  <2> QED
    BY <2>1, <2>3, <2>4
<1>4. ASSUME NEW sig \in {"HUP", "TERM"}, SignalThread(sig) PROVE Held'
  <2>1. UNCHANGED <<pc, file, cfg, reg, conns, hung, linger, reqs, start, stray, lost, tspec>>
        /\ (thread \in {"cron", "walk"} => thread' = thread)
    BY <1>4 DEF SignalThread, config, clients
  <2> QED
    BY <1>0, <2>1
<1> QED
  BY <1>1, <1>2, <1>3, <1>4 DEF Environment

LEMMA CrashHeld == Sane /\ Crash => Held'
  BY DEF Sane, Held, ConfigOK, ListsOK, RequestsOK, ClientsOK, CursorsOK, Serving,
         Crash, config, clients, threadVars

LEMMA SaneHolds == Spec => []Sane
<1>1. Init => Sane
  BY InitControl, InitHeld DEF Sane
<1>2. Sane /\ [Next]_vars => Sane'
  <2> SUFFICES ASSUME Sane, [Next]_vars PROVE Held'
    BY NextControl DEF Sane
  <2>1. CASE Main
    BY <2>1, BeginsHeld, HandlersHeld, EndsHeld DEF Main
  <2>2. CASE Thread
    BY <2>2, ThreadHeld
  <2>3. CASE Environment
    BY <2>3, EnvironmentHeld
  <2>4. CASE Crash
    BY <2>4, CrashHeld
  <2>5. CASE UNCHANGED vars
    BY <2>5 DEF vars, config, clients, threadVars, Sane, Held, ConfigOK, ListsOK,
                RequestsOK, ClientsOK, CursorsOK
  <2> QED
    BY <2>1, <2>2, <2>3, <2>4, <2>5 DEF Next
<1> QED
  BY <1>1, <1>2, PTL DEF Spec

(* cfg.h, of every file: of the lines that set a key of a section, the     *)
(* first counts, however the two are written and however often the section *)
(* is opened, and the cfg command of protocol.c answers from it.           *)
THEOREM FirstLineAnswers == Spec => []LookupIsFirst
<1>1. Sane => LookupIsFirst
  BY AnswersWell DEF Sane, Held, ConfigOK, LookupIsFirst
<1> QED
  BY <1>1, SaneHolds, PTL

(* Whatever is loaded, unloaded and loaded again in whatever order, a      *)
(* timeout of module.c is what the file of this run says or a default that *)
(* the module registers.                                                   *)
THEOREM TimeoutsAreWritten == Spec => []TimeoutsHold
<1>1. Sane => TimeoutsHold
  <2> SUFFICES ASSUME Sane, NEW i \in DOMAIN reg.vars, NEW v, v = reg.vars[i]
               PROVE  \E o \in Objects : \E d \in ToSet(Registers[o]) :
                         /\ ModuleName[o] = v.parent /\ d.name = v.name /\ d.kind = v.kind
                         /\ v.timeout = PromisedTimeout(file, v, d.timeout)
    BY DEF TimeoutsHold, TimeoutsAsWritten, ToSet
  <2>1. PICK c : c = parse_cfg(file)
    OBVIOUS
  <2>2. Whole(reg, c) /\ file \in Seq(Line)
    BY <2>1 DEF Sane, Held, ListsOK, ConfigOK
  <2>3. PICK o \in Objects : GivenBy(v, c, o)
    BY <2>2 DEF Whole
  <2>4. PICK d \in ToSet(Registers[o]) :
           v.name = d.name /\ v.kind = d.kind /\ v.timeout = UserTimeout(c, d)
    BY <2>3 DEF GivenBy
  <2>5. PICK own \in Names : own = IF d.kind = "cron" THEN CronSection ELSE TimeoutSection
    BY RegistryAssumption
  <2>6. d.name \in Names
    BY <2>1, <2>2, ParsedWell, TimeoutType DEF Declared
  <2>7. find_setting(c, own, d.name) = Promised(file, own, d.name)
    BY <2>1, <2>2, <2>5, <2>6, ParsedWell
  <2>8. v.timeout = PromisedTimeout(file, v, d.timeout)
    BY <2>4, <2>5, <2>7 DEF UserTimeout, get_double_key, PromisedTimeout
  <2> QED
    BY <2>3, <2>4, <2>8 DEF GivenBy
<1> QED
  BY <1>1, SaneHolds, PTL

(* What was freed is out of reach outside the clean-up, but for the node   *)
(* under a walk that a drop came upon: the connections and the variables   *)
(* of all requests are there (request.c, donky_conn.c, module.c), and the  *)
(* next run finds no cursor and no request of the last.                    *)
THEOREM NothingIsLeftBehind == Spec => []NothingLeftBehind
<1>1. Sane => NothingLeftBehind
  <2> SUFFICES ASSUME Sane, pc \notin Cleaning
               PROVE  /\ \A i \in DOMAIN reqs : ~Dangling(reqs[i])
                      /\ ~stray /\ start = "unread"
                      /\ lost => thread = "walk" /\ pc \in Serving
    BY DEF NothingLeftBehind
  <2>1. pc \in Serving \cup {"parse", "load", "listen", "start", "again", "exited"}
        /\ (pc \notin Serving => thread = "none")
    BY DEF Sane, Control, ControlOK, ThreadWithinRun, Places
  <2>2. ~stray /\ start = "unread" /\ (lost => thread = "walk")
    BY <2>1 DEF Sane, Held, CursorsOK, Cleaning
  <2>3. ASSUME NEW i \in DOMAIN reqs PROVE ~Dangling(reqs[i])
    <3>1. pc \in Serving /\ reqs[i].conn \in conns /\ Known(reg, reqs[i])
      BY <2>1 DEF Sane, Held, RequestsOK
    <3>2. reg.vars \in Seq(ModuleVar)
      BY DEF Sane, Held, ListsOK, Whole, Regs
    <3>3. PICK v : v = module_var_find_by_name(reg.vars, reqs[i].var)
      OBVIOUS
    <3>4. v # 0
      BY <3>1, <3>2, <3>3, FindVar DEF Known
    <3> QED
      BY <3>1, <3>3, <3>4 DEF Dangling
  <2> QED
    BY <2>1, <2>2, <2>3
<1> QED
  BY <1>1, SaneHolds, PTL

-----------------------------------------------------------------------------
(* The clients of a module are the requests for its variables.             *)

LEMMA OwnerIs ==
  ASSUME OwnNames, NEW r, NEW c, Whole(r, c), NEW i \in DOMAIN r.vars
  PROVE  r.vars[i].parent = Owner(r.vars[i].name) /\ r.vars[i].parent \in Names
<1>1. PICK v : v = r.vars[i]
  OBVIOUS
<1>2. PICK o \in Objects : GivenBy(v, c, o)
  BY <1>1 DEF Whole
<1>3. PICK d \in ToSet(Registers[o]) : d.name = v.name
  BY <1>2 DEF GivenBy
<1>4. v.parent = ModuleName[o] /\ v.parent \in Names
  BY <1>2, RegistryAssumption DEF GivenBy
<1> DEFINE P(n) == \E p \in Objects : ModuleName[p] = n
                       /\ \E e \in ToSet(Registers[p]) : e.name = v.name
<1>5. P(v.parent)
  BY <1>3, <1>4
<1>6. ASSUME NEW n \in Names, P(n) PROVE n = v.parent
  BY <1>3, <1>4, <1>6 DEF OwnNames
<1>7. (CHOOSE n \in Names : P(n)) = v.parent
  <2> HIDE DEF P
  <2> QED
    BY <1>4, <1>5, <1>6
<1> QED
  BY <1>1, <1>4, <1>7 DEF Owner

(* The requests of rs for variables of the module a, those in l only.      *)
Of(rs, l, a) == {j \in DOMAIN rs : j \in l /\ Owner(rs[j].var) = a}
CountOf(rs, l) == [a \in Names |-> Cardinality(Of(rs, l, a))]

LEMMA OfFinite ==
  ASSUME NEW rs \in Seq(Request), NEW l, NEW a
  PROVE  IsFiniteSet(Of(rs, l, a)) /\ Cardinality(Of(rs, l, a)) \in Nat
<1>1. IsFiniteSet(1..Len(rs)) /\ Len(rs) \in Nat
  BY FS_Interval
<1>2. Of(rs, l, a) \in SUBSET (1..Len(rs))
  BY DEF Of
<1>3. IsFiniteSet(Of(rs, l, a))
  BY <1>1, <1>2, FS_Subset
<1> QED
  BY <1>3, FS_CardinalityType

LEMMA CountType ==
  ASSUME NEW rs \in Seq(Request), NEW l
  PROVE  CountOf(rs, l) \in [Names -> Nat]
BY OfFinite DEF CountOf

LEMMA ClientsAre ==
  ASSUME NEW rs \in Seq(Request)
  PROVE  Clients(rs) = CountOf(rs, DOMAIN rs)
<1>1. \A a \in Names : {i \in DOMAIN rs : Owner(rs[i].var) = a} = Of(rs, DOMAIN rs, a)
  BY DEF Of
<1> QED
  BY <1>1 DEF Clients, CountOf

(* The count with and without the i-th.                                    *)
LEMMA CountLess ==
  ASSUME NEW rs \in Seq(Request), NEW l, NEW i \in DOMAIN rs, i \in l,
         NEW a, a = Owner(rs[i].var), a \in Names
  PROVE  /\ CountOf(rs, l)[a] > 0
         /\ CountOf(rs, l \ {i}) = [CountOf(rs, l) EXCEPT ![a] = CountOf(rs, l)[a] - 1]
<1>1. i \in Of(rs, l, a) /\ Of(rs, l \ {i}, a) = Of(rs, l, a) \ {i}
  BY DEF Of
<1>2. IsFiniteSet(Of(rs, l, a)) /\ Cardinality(Of(rs, l, a)) \in Nat
      /\ Cardinality(Of(rs, l \ {i}, a)) \in Nat
  BY OfFinite
<1>3. Cardinality(Of(rs, l \ {i}, a)) = Cardinality(Of(rs, l, a)) - 1
  <2>1. PICK A : A = Of(rs, l, a)
    OBVIOUS
  <2>2. Cardinality(A \ {i}) = Cardinality(A) - 1
    BY ONLY <1>1, <1>2, <2>1, FS_RemoveElement
  <2> QED
    BY <1>1, <2>1, <2>2
<1>4. \A n \in Names : n # a => Of(rs, l \ {i}, n) = Of(rs, l, n)
  BY DEF Of
<1>5. CountOf(rs, l)[a] = Cardinality(Of(rs, l, a))
  BY DEF CountOf
<1>6. CountOf(rs, l \ {i}) = [CountOf(rs, l) EXCEPT ![a] = CountOf(rs, l)[a] - 1]
  BY <1>3, <1>4, <1>5 DEF CountOf
<1> QED
  BY <1>2, <1>3, <1>5, <1>6

LEMMA RemovedCounted ==
  ASSUME OwnNames, NEW c, Whole(reg, c), reqs \in Seq(Request),
         \A i \in DOMAIN reqs : Known(reg, reqs[i]),
         Accounted(reg, Clients(reqs)), NEW s \in SUBSET DOMAIN reqs
  PROVE  Accounted(Removed(s), CountOf(reqs, DOMAIN reqs \ s))
<1>1. PICK h : Removes(h, reg, reqs, s, c) /\ Removed(s) = h[Len(reqs)]
  BY RemovedSteps
<1> DEFINE n == Len(reqs)
           Left(i) == (DOMAIN reqs \ s) \cup {j \in DOMAIN reqs : j > i}
           S == {i \in 0..n : /\ Whole(h[i], c) /\ Keeps(reg, h[i])
                              /\ Accounted(h[i], CountOf(reqs, Left(i)))}
<1>2. n \in Nat /\ 0 \in 0..n /\ n \in 0..n /\ DOMAIN reqs = 1..n
  OBVIOUS
<1>3. 0 \in S
  <2>1. Keeps(reg, reg)
    BY DEF Keeps, Whole, Regs
  <2>2. Left(0) = DOMAIN reqs
    BY <1>2
  <2>3. Accounted(reg, CountOf(reqs, Left(0)))
    BY <2>2, ClientsAre
  <2> QED
    BY <1>1, <1>2, <2>1, <2>3 DEF Removes
<1>4. ASSUME NEW i \in 1..n, i - 1 \in S PROVE i \in S
  <2>1. i \in 0..n /\ i - 1 \in 0..n /\ i \in DOMAIN reqs
    BY <1>2
  <2>2. PICK r, z, q : r = h[i - 1] /\ z = h[i] /\ q = reqs[i]
    OBVIOUS
  <2>3. Whole(r, c) /\ Keeps(reg, r) /\ Accounted(r, CountOf(reqs, Left(i - 1)))
    BY <1>4, <2>2
  <2>4. z = IF i \in s THEN Dropped(r, q) ELSE r
    BY <1>1, <2>2 DEF Removes
  <2>5. CASE i \in s
    <3>1. Whole(z, c) /\ Keeps(r, z)
      BY <2>3, <2>4, <2>5, DroppedWhole
    <3>2. Keeps(reg, z)
      BY <2>3, <3>1, KeepsOn
    <3>3. Known(r, q)
      BY <2>1, <2>2, <2>3, KnownStays
    <3>4. PICK v : v = module_var_find_by_name(r.vars, q.var)
      OBVIOUS
    <3>5. r.vars \in Seq(ModuleVar)
      BY <2>3 DEF Whole, Regs
    <3>6. v \in DOMAIN r.vars /\ v # 0 /\ r.vars[v].name = q.var
      BY <3>3, <3>4, <3>5, FindVar DEF Known
    <3>7. z = DropClient(r, v)
      BY <2>4, <2>5, <3>4, <3>6 DEF Dropped
    <3>8. PICK a, m : a = r.vars[v].parent /\ m = module_find_by_name(r.mods, a)
      OBVIOUS
    <3>9. a = Owner(q.var) /\ a \in Names
      BY <2>3, <3>6, <3>8, OwnerIs
    <3>10. Lost(r, z, a, m)
      BY <2>3, <3>6, <3>7, <3>8, Dropping
    <3>11. r.mods[m].name = a
      BY <2>3, <3>6, <3>8, ParentThere
    <3>12. PICK l : l = Left(i - 1)
      OBVIOUS
    <3>13. i \in l /\ l \ {i} = Left(i)
      BY <1>2, <2>5, <3>12
    <3>14. /\ CountOf(reqs, l)[a] > 0
           /\ CountOf(reqs, l \ {i}) = [CountOf(reqs, l) EXCEPT ![a] = CountOf(reqs, l)[a] - 1]
      BY <2>1, <2>2, <3>9, <3>13, CountLess
    <3>15. PICK count : count = CountOf(reqs, l)
      OBVIOUS
    <3>16. count \in [Names -> Nat] /\ Accounted(r, count) /\ count[a] > 0
      BY <2>3, <3>12, <3>14, <3>15, CountType
    <3>17. Accounted(z, [count EXCEPT ![a] = count[a] - 1])
      BY <3>1, <3>10, <3>11, <3>16, OneLess
    <3>18. Accounted(z, CountOf(reqs, Left(i)))
      BY <3>13, <3>14, <3>15, <3>17
    <3> QED
      BY <2>1, <2>2, <3>1, <3>2, <3>18
  <2>6. CASE i \notin s
    <3>1. Left(i) = Left(i - 1)
      BY <1>2, <2>1, <2>6
    <3> QED
      BY <2>1, <2>2, <2>3, <2>4, <2>6, <3>1
  <2> QED
    BY <2>5, <2>6
<1>5. \A i \in 0..n : i \in S
  <2> HIDE DEF S, n
  <2> QED
    BY <1>2, <1>3, <1>4, AlongTheList
<1>6. Left(n) = DOMAIN reqs \ s
  BY <1>2
<1>7. Accounted(h[n], CountOf(reqs, Left(n)))
  BY <1>2, <1>5
<1> QED
  BY <1>1, <1>6, <1>7

LEMMA CountMore ==
  ASSUME NEW rs \in Seq(Request), NEW q \in Request, NEW a, a = Owner(q.var), a \in Names
  PROVE  Clients(Append(rs, q)) = [Clients(rs) EXCEPT ![a] = Clients(rs)[a] + 1]
<1> DEFINE more == Append(rs, q)
           n == Len(rs) + 1
           Mine(x, b) == Of(x, DOMAIN x, b)
<1>1. /\ more \in Seq(Request) /\ DOMAIN more = 1..n /\ DOMAIN rs = 1..(n - 1)
      /\ more[n] = q /\ n \in Nat /\ \A j \in DOMAIN rs : more[j] = rs[j]
  OBVIOUS
<1>2. \A b \in Names : b # a => Mine(more, b) = Mine(rs, b)
  BY <1>1 DEF Of
<1>3. Mine(more, a) = Mine(rs, a) \cup {n} /\ n \notin Mine(rs, a)
  BY <1>1 DEF Of
<1>4. IsFiniteSet(Mine(rs, a))
  BY OfFinite
<1>5. Cardinality(Mine(more, a)) = Cardinality(Mine(rs, a)) + 1
  <2>1. PICK A : A = Mine(rs, a)
    OBVIOUS
  <2>2. IsFiniteSet(A) /\ n \notin A /\ Mine(more, a) = A \cup {n}
    BY <1>3, <1>4, <2>1
  <2> HIDE DEF Mine, n
  <2>3. Cardinality(A \cup {n}) = Cardinality(A) + 1
    BY ONLY <2>2, FS_AddElement
  <2> QED
    BY <2>1, <2>2, <2>3
<1>6. /\ Clients(rs) = [b \in Names |-> Cardinality(Mine(rs, b))]
      /\ Clients(more) = [b \in Names |-> Cardinality(Mine(more, b))]
  BY <1>1, ClientsAre DEF CountOf
<1> HIDE DEF Mine, more
<1>7. Clients(more) = [Clients(rs) EXCEPT ![a] = Clients(rs)[a] + 1]
  BY <1>2, <1>5, <1>6
<1> QED
  BY <1>7 DEF more

LEMMA NobodyYet ==
  ASSUME NEW rs \in Seq(Request)
  PROVE  Clients(<<>>) = Nobody /\ CountOf(rs, {}) = Nobody
<1>1. <<>> \in Seq(Request) /\ DOMAIN <<>> = {}
  OBVIOUS
<1>2. PICK e : e = <<>>
  OBVIOUS
<1>3. Clients(e) = CountOf(e, DOMAIN e) /\ DOMAIN e = {}
  BY <1>1, <1>2, ClientsAre
<1>4. \A a \in Names : Of(e, DOMAIN e, a) = {} /\ Of(rs, {}, a) = {}
  BY <1>3 DEF Of
<1>5. Cardinality({}) = 0
  BY FS_EmptySet
<1> QED
  BY <1>2, <1>3, <1>4, <1>5 DEF CountOf, Nobody

LEMMA OthersCounted ==
  ASSUME reqs \in Seq(Request), \A i \in DOMAIN reqs : Owner(reqs[i].var) \in Names,
         NEW s \in SUBSET DOMAIN reqs
  PROVE  Clients(Others(s)) = CountOf(reqs, DOMAIN reqs \ s)
<1>1. PICK h : Keeping(h, reqs, s) /\ Others(s) = h[Len(reqs)]
  BY OthersSteps
<1> DEFINE n == Len(reqs)
           Kept(i) == (1..i) \ s
           S == {i \in 0..n : Clients(h[i]) = CountOf(reqs, Kept(i))}
<1>2. n \in Nat /\ 0 \in 0..n /\ n \in 0..n /\ DOMAIN reqs = 1..n
  OBVIOUS
<1>3. 0 \in S
  <2>1. Kept(0) = {}
    OBVIOUS
  <2>2. Clients(h[0]) = CountOf(reqs, Kept(0))
    BY <1>1, <2>1, NobodyYet DEF Keeping
  <2> QED
    BY <1>2, <2>2
<1>4. ASSUME NEW i \in 1..n, i - 1 \in S PROVE i \in S
  <2>1. i \in 0..n /\ i - 1 \in 0..n /\ i \in DOMAIN reqs /\ reqs[i] \in Request
    BY <1>2
  <2>2. PICK r, z, q : r = h[i - 1] /\ z = h[i] /\ q = reqs[i]
    OBVIOUS
  <2>3. r \in Seq(Request) /\ q \in Request /\ Clients(r) = CountOf(reqs, Kept(i - 1))
    BY <1>1, <1>4, <2>1, <2>2 DEF Keeping
  <2>4. z = IF i \in s THEN r ELSE Append(r, q)
    BY <1>1, <2>2 DEF Keeping
  <2>5. CASE i \in s
    <3>1. Kept(i) = Kept(i - 1)
      BY <1>2, <2>1, <2>5
    <3> QED
      BY <2>1, <2>2, <2>3, <2>4, <2>5, <3>1
  <2>6. CASE i \notin s
    <3>1. PICK l : l = Kept(i)
      OBVIOUS
    <3>2. i \in l /\ l \ {i} = Kept(i - 1)
      BY <1>2, <2>1, <2>6, <3>1
    <3>3. PICK a : a = Owner(q.var) /\ a \in Names
      BY <2>1, <2>2
    <3>4. PICK f, g : f = CountOf(reqs, l) /\ g = CountOf(reqs, l \ {i})
      OBVIOUS
    <3>5. g = [f EXCEPT ![a] = f[a] - 1]
      BY <2>1, <2>2, <3>2, <3>3, <3>4, CountLess
    <3>6. f \in [Names -> Nat]
      BY <3>4, CountType
    <3>7. f = [g EXCEPT ![a] = g[a] + 1]
      <4>1. g \in [Names -> Int] /\ \A b \in Names : g[b] = IF b = a THEN f[b] - 1 ELSE f[b]
        BY <3>3, <3>5, <3>6
      <4>2. PICK e : e = [g EXCEPT ![a] = g[a] + 1]
        OBVIOUS
      <4>3. e = [b \in Names |-> e[b]] /\ f = [b \in Names |-> f[b]]
        BY <3>6, <4>1, <4>2
      <4>4. \A b \in Names : e[b] = f[b]
        BY <3>3, <3>6, <4>1, <4>2
      <4>5. e = f
        BY <4>3, <4>4
      <4> QED
        BY <4>2, <4>5
    <3>8. Clients(Append(r, q)) = [Clients(r) EXCEPT ![a] = Clients(r)[a] + 1]
      BY <2>3, <3>3, CountMore
    <3>9. Clients(r) = g /\ z = Append(r, q)
      BY <2>3, <2>4, <2>6, <3>2, <3>4
    <3>10. Clients(z) = f
      BY <3>7, <3>8, <3>9
    <3> QED
      BY <2>1, <2>2, <3>1, <3>4, <3>10
  <2> QED
    BY <2>5, <2>6
<1>5. \A i \in 0..n : i \in S
  <2> HIDE DEF S, n
  <2> QED
    BY <1>2, <1>3, <1>4, AlongTheList
<1>6. Kept(n) = DOMAIN reqs \ s
  BY <1>2
<1>7. Clients(h[n]) = CountOf(reqs, Kept(n))
  BY <1>2, <1>5
<1> QED
  BY <1>1, <1>6, <1>7

(* Removing requests from the list and clients from their modules go       *)
(* together.                                                               *)
LEMMA GoTogether ==
  ASSUME OwnNames, NEW c, Whole(reg, c), reqs \in Seq(Request),
         \A i \in DOMAIN reqs : Known(reg, reqs[i]),
         ClientsCounted, NEW s \in SUBSET DOMAIN reqs
  PROVE  Accounted(Removed(s), Clients(Others(s)))
<1>1. ASSUME NEW i \in DOMAIN reqs PROVE Owner(reqs[i].var) \in Names
  <2>1. PICK v \in DOMAIN reg.vars : reg.vars[v].name = reqs[i].var
    BY DEF Known
  <2> QED
    BY <2>1, OwnerIs
<1>2. Clients(Others(s)) = CountOf(reqs, DOMAIN reqs \ s)
  BY <1>1, OthersCounted
<1>3. Accounted(Removed(s), CountOf(reqs, DOMAIN reqs \ s))
  BY RemovedCounted DEF ClientsCounted
<1> QED
  BY <1>2, <1>3

LEMMA NoModulesCounted ==
  ASSUME NEW count
  PROVE  Accounted(NoModules, count)
BY DEF Accounted, NoModules

LEMMA CountedStep == OwnNames /\ Sane /\ ClientsCounted /\ [Next]_vars => ClientsCounted'
<1> SUFFICES ASSUME OwnNames, Sane, ClientsCounted, [Next]_vars PROVE ClientsCounted'
  OBVIOUS
<1> USE DEF Sane, Held, ConfigOK, ListsOK, RequestsOK
<1>1. CASE UNCHANGED <<reg, reqs>>
  BY <1>1 DEF ClientsCounted
<1>2. CASE reg' = NoModules
  BY <1>2, NoModulesCounted DEF ClientsCounted
<1>3. PICK c : c = parse_cfg(file)
  OBVIOUS
<1>4. Whole(reg, c) /\ reqs \in Seq(Request) /\ c \in Seq(Section)
  BY <1>3, ParsedWell
<1>5. ASSUME NEW s \in SUBSET DOMAIN reqs, reqs' = Others(s), reg' = Removed(s),
             \A i \in DOMAIN reqs : Known(reg, reqs[i])
      PROVE  ClientsCounted'
  BY <1>4, <1>5, GoTogether DEF ClientsCounted
<1>6. CASE Load
  <2>1. PICK order \in Orders : reg' = module_load_all(cfg, order)
    BY <1>6 DEF Load
  <2>2. pc = "load" /\ UNCHANGED reqs
    BY <1>6 DEF Load
  <2>3. order \in Seq(Objects) /\ cfg = c /\ reqs = <<>>
    BY <1>3, <2>2, LifecycleAssumption
  <2>4. Accounted(reg', Nobody)
    BY <1>4, <2>1, <2>3, LoadsAll
  <2> QED
    BY <1>4, <2>2, <2>3, <2>4, NobodyYet DEF ClientsCounted
<1>7. CASE Handlers
  <2>1. PICK b \in Conns : \/ Accept(b) \/ Drop(b)
                           \/ \E i \in DOMAIN reg.vars, once \in BOOLEAN :
                                 Subscribe(b, i, once)
    BY <1>7 DEF Handlers
  <2>2. pc = "serve" /\ cfg = c
    BY <1>3, <2>1 DEF Accept, Drop, Subscribe, Serving
  <2>3. CASE Accept(b)
    BY <1>1, <2>3 DEF Accept
  <2>4. CASE Drop(b)
    <3>1. PICK s : s = {i \in DOMAIN reqs : reqs[i].conn = b}
      OBVIOUS
    <3>2. s \in SUBSET DOMAIN reqs /\ reqs' = Others(s) /\ reg' = Removed(s)
      BY <2>4, <3>1 DEF Drop
    <3> QED
      BY <1>5, <2>2, <3>2 DEF Serving
  <2>5. CASE \E i \in DOMAIN reg.vars, once \in BOOLEAN : Subscribe(b, i, once)
    <3>1. PICK i \in DOMAIN reg.vars, once \in BOOLEAN : Subscribe(b, i, once)
      BY <2>5
    <3>2. PICK q : q = [conn |-> b, var |-> reg.vars[i].name, once |-> once]
      OBVIOUS
    <3>3. reqs' = Append(reqs, q) /\ reg' = AddClient(reg, c, i)
      BY <2>2, <3>1, <3>2 DEF Subscribe
    <3>4. PICK a, m : a = reg.vars[i].parent /\ m = module_find_by_name(reg.mods, a)
      OBVIOUS
    <3>5. Whole(reg', c) /\ Added(reg, reg', a, m)
      BY <1>4, <3>3, <3>4, Adding
    <3>6. reg.mods[m].name = a
      BY <1>4, <3>4, ParentThere
    <3>7. a = Owner(q.var) /\ a \in Names
      BY <1>4, <3>2, <3>4, OwnerIs
    <3>8. q \in Request
      <4>1. reg.vars \in Seq(ModuleVar)
        BY <1>4 DEF Whole, Regs
      <4>2. reg.vars[i] \in ModuleVar
        BY <4>1
      <4>3. reg.vars[i].name \in Names
        BY <4>2 DEF ModuleVar
      <4> QED
        BY <3>2, <4>3 DEF Request
    <3>9. PICK count : count = Clients(reqs)
      OBVIOUS
    <3>10. count \in [Names -> Nat] /\ Accounted(reg, count)
      BY <1>4, <3>9, ClientsAre, CountType DEF ClientsCounted
    <3>11. Accounted(reg', [count EXCEPT ![a] = count[a] + 1])
      BY <3>5, <3>6, <3>10, OneMore
    <3>12. Clients(Append(reqs, q)) = [count EXCEPT ![a] = count[a] + 1]
      BY <1>4, <3>7, <3>8, <3>9, CountMore
    <3> QED
      BY <3>3, <3>11, <3>12 DEF ClientsCounted
  <2> QED
    BY <2>1, <2>3, <2>4, <2>5
<1>8. CASE Walks
  <2>1. PICK s \in SUBSET DOMAIN reqs : Walk(s)
    BY <1>8 DEF Walks
  <2>2. thread = "walk" /\ reqs' = Others(s) /\ reg' = Removed(s)
    BY <2>1 DEF Walk
  <2>3. CASE \A i \in DOMAIN reqs : Known(reg, reqs[i])
    BY <1>5, <2>2, <2>3
  <2>4. CASE reg = NoModules
    BY <1>2, <1>4, <2>2, <2>4, RemovedWhole
  <2>5. pc \in Serving \cup {"drop_conns", "clear_cfg", "clear_module"}
           \cup {"cancel", "join", "free_requests"}
    BY <2>2 DEF Control, ControlOK, Places, Cleaning, ThreadWithinRun
  <2> QED
    BY <2>3, <2>4, <2>5 DEF Serving
<1>9. CASE Begins
  <2>1. CASE ~Load
    BY <1>1, <1>9, <2>1 DEF Begins, Parse, NoConfiguration, Listen, StartThread
  <2> QED
    BY <1>6, <2>1
<1>10. CASE Ends
  <2>1. CASE FreeRequests
    BY <1>2, <2>1 DEF FreeRequests
  <2>2. CASE ClearModule
    BY <1>2, <2>2 DEF ClearModule
  <2> QED
    BY <1>1, <1>10, <2>1, <2>2 DEF Ends, Check, EndServe, DropConns, ClearCfg, Cancel,
                                   Join, Again
<1>11. CASE Steps
  BY <1>1, <1>11 DEF Steps, Begin, CronExec, Wake, EndCancelled
<1>12. CASE Environment
  BY <1>1, <1>12 DEF Environment, Activity, Expire, Hangup, SignalMain, SignalThread
<1>13. CASE Crash \/ UNCHANGED vars
  BY <1>1, <1>13 DEF Crash, vars
<1> QED
  BY <1>7, <1>8, <1>9, <1>10, <1>11, <1>12, <1>13 DEF Next, Main, Thread

LEMMA CountedHolds == OwnNames /\ Spec => [](Sane /\ ClientsCounted)
<1>1. Init => ClientsCounted
  BY NoModulesCounted DEF Init, ClientsCounted
<1> SUFFICES ASSUME OwnNames PROVE Spec => [](Sane /\ ClientsCounted)
  OBVIOUS
<1>2. Sane /\ ClientsCounted /\ [Next]_vars => ClientsCounted'
  BY CountedStep
<1> QED
  BY <1>1, <1>2, SaneHolds, PTL DEF Spec

(* The lists of module.c are whole while a run serves, and a module that   *)
(* is open has a client: the count that loads it with the first and        *)
(* unloads it with the last is the number of requests for its variables,   *)
(* through every drop, varonce and failed send, when no two modules        *)
(* register a variable of one name.                                        *)
THEOREM ListsStayWhole == OwnNames /\ Spec => []RegistryWhole
<1>1. Sane /\ ClientsCounted => RegistryWhole
  <2> SUFFICES ASSUME Sane, ClientsCounted PROVE OneNodeEach(reg) /\ Unloaded(reg)
    BY DEF RegistryWhole
  <2>1. PICK c : Whole(reg, c)
    BY DEF Sane, Held, ListsOK
  <2>2. reg.mods \in Seq(Node) /\ reg.vars \in Seq(ModuleVar)
    BY <2>1 DEF Whole, Regs
  <2>3. OneNodeEach(reg)
    BY <2>1 DEF Whole, Named, Distinct, OneNodeEach, ToSet
  <2>4. ASSUME NEW j \in DOMAIN reg.mods, reg.mods[j].clients = 0
        PROVE  ~reg.mods[j].open
    BY <2>4 DEF ClientsCounted, Accounted
  <2>5. ASSUME NEW i \in DOMAIN reg.vars, reg.vars[i].loaded
        PROVE  \E m \in ToSet(reg.mods) : m.name = reg.vars[i].parent /\ m.clients > 0
    <3>1. PICK j \in DOMAIN reg.mods : reg.mods[j].name = reg.vars[i].parent
      BY <2>1 DEF Whole
    <3>2. reg.mods[j].clients > 0
      BY <2>5, <3>1 DEF ClientsCounted, Accounted
    <3> QED
      BY <3>1, <3>2 DEF ToSet
  <2>6. Unloaded(reg)
    BY <2>4, <2>5 DEF Unloaded, ToSet
  <2> QED
    BY <2>3, <2>6
<1> QED
  BY <1>1, CountedHolds, PTL

(* Types: no client count ever goes below zero.                            *)
THEOREM LifecycleTypes == OwnNames /\ Spec => []TypeOK
<1>1. Sane /\ ClientsCounted => TypeOK
  <2> SUFFICES ASSUME Sane, ClientsCounted PROVE TypeOK
    OBVIOUS
  <2>1. PICK c : Whole(reg, c)
    BY DEF Sane, Held, ListsOK
  <2>2. reg.mods \in Seq(Node) /\ reg.vars \in Seq(ModuleVar) /\ reqs \in Seq(Request)
    BY <2>1 DEF Whole, Regs, Sane, Held, RequestsOK
  <2>3. Clients(reqs) \in [Names -> Nat]
    BY <2>2, ClientsAre, CountType
  <2>4. ASSUME NEW j \in 1..Len(reg.mods) PROVE reg.mods[j] \in Module
    <3>1. reg.mods[j] \in Node /\ j \in DOMAIN reg.mods
      BY <2>2
    <3>2. reg.mods[j].clients \in Nat
      BY <2>3, <3>1 DEF ClientsCounted, Accounted, Node
    <3> QED
      BY <3>1, <3>2 DEF Node, Module
  <2>5. reg.mods \in Seq(Module)
    <3>1. Len(reg.mods) \in Nat /\ reg.mods = [j \in 1..Len(reg.mods) |-> reg.mods[j]]
      BY <2>2
    <3>2. reg.mods \in [1..Len(reg.mods) -> Module]
      BY <2>4, <3>1
    <3> QED
      BY <3>1, <3>2
  <2>6. cfg = Null \/ cfg \in Seq(Section)
    BY ParsedWell DEF Sane, Held, ConfigOK
  <2> QED
    BY <2>2, <2>5, <2>6 DEF TypeOK, Sane, Held, RequestsOK, ClientsOK, CursorsOK,
                            Control, ControlOK, Places, ThreadPlaces
<1> QED
  BY <1>1, CountedHolds, PTL
=============================================================================
