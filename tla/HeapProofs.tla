----------------------------- MODULE HeapProofs -----------------------------
(* Proofs about the deferred free list and the battery module in module    *)
(* Methods, for any number of spellings, batteries and cells.              *)
EXTENDS MethodsProofs, FiniteSetTheorems

(* A heap h, nodes b of batteries and a list l of cells to free later: the *)
(* cells in use are those that b and l hold, and none is held twice.       *)
InUse(b, l, c) ==
    \/ \E i \in DOMAIN b : b[i].remaining = c \/ b[i].maximum = c
    \/ \E i \in DOMAIN l : l[i] = c
Separate(b, l) ==
    /\ \A i, j \in DOMAIN b :
          /\ b[i].remaining # None /\ b[i].remaining = b[j].remaining => i = j
          /\ b[i].maximum # None /\ b[i].maximum = b[j].maximum => i = j
          /\ b[i].remaining # None => b[i].remaining # b[j].maximum
    /\ \A i, j \in DOMAIN l : l[i] = l[j] => i = j
    /\ \A i \in DOMAIN b, j \in DOMAIN l :
          b[i].remaining # l[j] /\ b[i].maximum # l[j]
Owned(h, b, l) ==
    /\ h \in [Cells -> Text \cup {None}] /\ b \in Seq(Batt) /\ l \in Seq(Cells)
    /\ \A c \in Cells : h[c] # None <=> InUse(b, l, c)
    /\ Separate(b, l)

(* A number has one node, and the texts are what the files have said.      *)
OneNodeEach(b) ==
    \A i, j \in DOMAIN b : Number[b[i].spelling] = Number[b[j].spelling] => i = j
Says(h, b) ==
    \A i \in DOMAIN b :
        /\ b[i].remaining # None => h[b[i].remaining] \in seen[b[i].spelling]
        /\ b[i].maximum # None => h[b[i].maximum] = Full

Nodes(h, b, l) == Owned(h, b, l) /\ OneNodeEach(b) /\ Says(h, b)

Files ==
    /\ charge \in [Spellings -> Charges \cup {None}]
    /\ seen \in [Spellings -> SUBSET (Charges \cup {None})]
    /\ \A a \in Spellings : charge[a] \in seen[a]

Sent ==
    /\ ret \in [cell : Cells \cup {None}, text : Text \cup {NA},
                method : {"none", "per", "rem", "max", "bar", "tag", "time"},
                of : Batt \cup {None}]
    /\ ret = Nothing => later = <<>>
    /\ ret.method \in {"per", "time"} /\ ret.cell # None =>
          heap[ret.cell] = ret.text /\ \E j \in DOMAIN later : later[j] = ret.cell
    /\ used = "battery" /\ ret # Nothing => ret.of \in Batt
    /\ BattFresh

Heaped == Nodes(heap, batt, later) /\ Files /\ Sent /\ used \in {"mpd", "battery"}
-----------------------------------------------------------------------------
(* A nonempty set of natural numbers has a least element.                  *)
LEMMA LeastNat ==
  ASSUME NEW T \in SUBSET Nat, T # {}
  PROVE  \E x \in T : \A y \in T : x <= y
<1> DEFINE R == {ss \in Nat \X Nat : ss[1] < ss[2]}
<1>1. IsWellFoundedOn(R, Nat)
  BY NatLessThanWellFounded DEF OpToRel
<1>2. PICK x \in T : \A y \in T : ~ (<<y, x>> \in R)
  <2> HIDE DEF R
  <2> QED
    BY <1>1, WFMin
<1>3. \A y \in T : x \in Nat /\ y \in Nat /\ (y < x => <<y, x>> \in R)
  OBVIOUS
<1>4. \A y \in T : ~(y < x)
  <2> HIDE DEF R
  <2> QED
    BY <1>2, <1>3
<1> QED
  BY <1>3, <1>4

(* malloc: there is a free cell.                                           *)

LEMMA FreeCellThere ==
  ASSUME NEW h, NEW b, Nodes(h, b, <<>>)
  PROVE  FreeCell(h) \in Cells /\ h[FreeCell(h)] = None
<1> DEFINE Nums == {Number[a] : a \in Spellings}
           Kinds == {"r", "m"}
           of(c) == CHOOSE i \in DOMAIN b : b[i].remaining = c \/ b[i].maximum = c
           kind(c) == IF b[of(c)].remaining = c THEN "r" ELSE "m"
           g == [c \in Cells |-> <<kind(c), Number[b[of(c)].spelling]>>]
<1> SUFFICES ASSUME \A c \in Cells : h[c] # None PROVE FALSE
  BY DEF FreeCell
<1>1. ASSUME NEW c \in Cells
      PROVE  of(c) \in DOMAIN b /\ (b[of(c)].remaining = c \/ b[of(c)].maximum = c)
  <2>1. \E i \in DOMAIN b : b[i].remaining = c \/ b[i].maximum = c
    BY DEF Nodes, Owned, InUse
  <2> QED
    BY <2>1
<1>2. \A i \in DOMAIN b : b[i].spelling \in Spellings
  <2>1. b \in Seq(Batt)
    BY DEF Nodes, Owned
  <2>2. \A i \in DOMAIN b : b[i] \in Batt
    BY <2>1
  <2> QED
    BY <2>2 DEF Batt
<1>3. IsFiniteSet(Nums) /\ IsFiniteSet(Kinds) /\ Cardinality(Kinds) = 2
  <2>1. Number \in Surjection(Spellings, Nums)
    BY MethodsAssumption DEF Surjection
  <2>2. IsFiniteSet(Nums)
    <3> HIDE DEF Nums
    <3> QED
      BY <2>1, FS_Surjection, HeapAssumption
  <2>3. Kinds = {"r"} \cup {"m"}
    OBVIOUS
  <2>4. IsFiniteSet({"r"}) /\ Cardinality({"r"}) = 1
    BY FS_Singleton
  <2>5. IsFiniteSet(Kinds) /\ Cardinality(Kinds) = 2
    BY <2>3, <2>4, FS_AddElement
  <2> QED
    BY <2>2, <2>5
<1>4. IsFiniteSet(Kinds \X Nums) /\ Cardinality(Kinds \X Nums) < Cardinality(Cells)
  <2> HIDE DEF Kinds
  <2>1. 2 * Cardinality(Nums) < Cardinality(Cells)
    BY HeapAssumption
  <2> HIDE DEF Nums
  <2>2. IsFiniteSet(Kinds \X Nums) /\ Cardinality(Kinds \X Nums) = 2 * Cardinality(Nums)
    BY <1>3, FS_Product
  <2> QED
    BY <2>1, <2>2
<1>5. g \in [Cells -> Kinds \X Nums]
  BY <1>1, <1>2
<1>6. PICK x, y \in Cells : x # y /\ g[x] = g[y]
  <2> HIDE DEF g, Kinds, Nums
  <2> QED
    BY <1>4, <1>5, FS_PigeonHole, MethodsAssumption
<1> HIDE DEF of
<1>7. kind(x) = kind(y) /\ Number[b[of(x)].spelling] = Number[b[of(y)].spelling]
  <2> HIDE DEF kind
  <2>1. g[x] = <<kind(x), Number[b[of(x)].spelling]>>
        /\ g[y] = <<kind(y), Number[b[of(y)].spelling]>>
    OBVIOUS
  <2>2. <<kind(x), Number[b[of(x)].spelling]>> = <<kind(y), Number[b[of(y)].spelling]>>
    <3> HIDE DEF g
    <3> QED
      BY <1>6, <2>1
  <2> HIDE DEF g
  <2> QED
    BY ONLY <2>2
<1> HIDE DEF g
<1>8. /\ (b[of(x)].remaining = x) <=> (b[of(y)].remaining = y)
      /\ Number[b[of(x)].spelling] = Number[b[of(y)].spelling]
  BY <1>7
<1>9. of(x) = of(y)
  BY <1>1, <1>8 DEF Nodes, OneNodeEach
<1> QED
  BY <1>1, <1>6, <1>8, <1>9

LEMMA DupFacts ==
  ASSUME NEW h, NEW b, Nodes(h, b, <<>>), NEW text \in Text
  PROVE  /\ FreeCell(h) \in Cells /\ h[FreeCell(h)] = None /\ ~InUse(b, <<>>, FreeCell(h))
         /\ Dup(h, text) \in [Cells -> Text \cup {None}]
         /\ Dup(h, text)[FreeCell(h)] = text
         /\ \A c \in Cells \ {FreeCell(h)} : Dup(h, text)[c] = h[c]
         /\ text # None
<1>1. FreeCell(h) \in Cells /\ h[FreeCell(h)] = None
  BY FreeCellThere
<1> QED
  BY <1>1, HeapAssumption DEF Dup, Nodes, Owned

(* The heap and the pointer g that reading a text in h gives.              *)
Got(h, b, g, text) ==
    /\ g.ptr \in Cells \cup {None} /\ (g.ptr = None <=> text = None)
    /\ g.ptr # None => ~InUse(b, <<>>, g.ptr) /\ g.heap[g.ptr] = text
    /\ g.heap \in [Cells -> Text \cup {None}]
    /\ \A c \in Cells \ {g.ptr} : g.heap[c] = h[c]

LEMMA GetChargeFacts ==
  ASSUME NEW h, NEW b, Nodes(h, b, <<>>), NEW text \in Text \cup {None}
  PROVE  Got(h, b, get_charge(h, text), text)
<1>1. CASE text = None
  BY <1>1 DEF get_charge, Nodes, Owned, Got
<1>2. CASE text # None
  <2>1. get_charge(h, text) = [heap |-> Dup(h, text), ptr |-> FreeCell(h)]
    BY <1>2 DEF get_charge
  <2>2. FreeCell(h) # None
    BY DupFacts, <1>2, MethodsAssumption
  <2> QED
    BY <1>2, <2>1, <2>2, DupFacts DEF Got
<1> QED
  BY <1>1, <1>2
-----------------------------------------------------------------------------
(* A text more, held by a node or by the list.                             *)

LEMMA MaximumTaken ==
  ASSUME NEW h, NEW b, Nodes(h, b, <<>>), NEW a \in Spellings,
         \A i \in DOMAIN b : Number[b[i].spelling] # Number[a],
         NEW g, NEW text \in {None, Full}, Got(h, b, g, text),
         NEW z, z = Append(b, [spelling |-> a, remaining |-> None, maximum |-> g.ptr])
  PROVE  Nodes(g.heap, z, <<>>)
<1> DEFINE n == [spelling |-> a, remaining |-> None, maximum |-> g.ptr]
<1>1. b \in Seq(Batt) /\ n \in Batt
  BY DEF Nodes, Owned, Got, Batt
<1>2. z \in Seq(Batt) /\ DOMAIN z = 1..(Len(b) + 1) /\ z[Len(b) + 1] = n
      /\ DOMAIN b = 1..Len(b) /\ Len(b) \in Nat /\ \A i \in 1..Len(b) : z[i] = b[i]
  BY <1>1
<1>3. \A i \in DOMAIN b : b[i] \in Batt
  BY <1>1
<1>4. \A c \in Cells : InUse(z, <<>>, c) <=> InUse(b, <<>>, c) \/ g.ptr = c
  BY <1>2, MethodsAssumption DEF InUse
<1>5. Owned(g.heap, z, <<>>)
  <2>1. \A c \in Cells : g.heap[c] # None <=> InUse(z, <<>>, c)
    <3> SUFFICES ASSUME NEW c \in Cells PROVE g.heap[c] # None <=> InUse(z, <<>>, c)
      OBVIOUS
    <3>1. CASE c = g.ptr
      BY <1>4, <3>1, MethodsAssumption DEF Got
    <3>2. CASE c # g.ptr
      BY <1>4, <3>2 DEF Nodes, Owned, Got
    <3> QED
      BY <3>1, <3>2
  <2>2. \A i \in DOMAIN b : b[i].maximum # g.ptr \/ g.ptr = None
    BY <1>2, <1>3 DEF Got, InUse
  <2>3. \A i \in DOMAIN b : b[i].remaining # g.ptr \/ g.ptr = None
    BY <1>2, <1>3 DEF Got, InUse
  <2>4. Separate(z, <<>>)
    BY <1>2, <2>2, <2>3 DEF Nodes, Owned, Separate
  <2> QED
    BY <1>2, <2>1, <2>4 DEF Got, Owned
<1>6. OneNodeEach(z)
  BY <1>2 DEF Nodes, OneNodeEach
<1>7. Says(g.heap, z)
  <2>1. \A i \in DOMAIN b : /\ b[i].remaining # None => g.heap[b[i].remaining] = h[b[i].remaining]
                            /\ b[i].maximum # None => g.heap[b[i].maximum] = h[b[i].maximum]
    <3>1. \A i \in DOMAIN b : /\ b[i].remaining # None => b[i].remaining # g.ptr /\ b[i].remaining \in Cells
                              /\ b[i].maximum # None => b[i].maximum # g.ptr /\ b[i].maximum \in Cells
      BY <1>3 DEF Got, InUse, Batt
    <3> QED
      BY <3>1 DEF Got
  <2> QED
    BY <1>2, <2>1 DEF Nodes, Says, Got
<1> QED
  BY <1>2, <1>5, <1>6, <1>7 DEF Nodes

LEMMA RemainingTaken ==
  ASSUME NEW h, NEW b, Nodes(h, b, <<>>), NEW i \in DOMAIN b, b[i].remaining = None,
         NEW g, NEW text \in seen[b[i].spelling], Got(h, b, g, text),
         NEW z, z = [b EXCEPT ![i].remaining = g.ptr]
  PROVE  Nodes(g.heap, z, <<>>)
<1>1. b \in Seq(Batt) /\ \A j \in DOMAIN b : b[j] \in Batt
  BY DEF Nodes, Owned
<1>2. /\ DOMAIN z = DOMAIN b /\ z \in Seq(Batt)
      /\ \A j \in DOMAIN b : /\ z[j].spelling = b[j].spelling /\ z[j].maximum = b[j].maximum
                             /\ z[j].remaining = IF j = i THEN g.ptr ELSE b[j].remaining
  <2>1. [b[i] EXCEPT !.remaining = g.ptr] \in Batt
    BY <1>1 DEF Batt, Got
  <2>2. z = [b EXCEPT ![i] = [b[i] EXCEPT !.remaining = g.ptr]]
    OBVIOUS
  <2>3. z \in Seq(Batt)
    BY <1>1, <2>1, <2>2
  <2> QED
    BY <1>1, <2>2, <2>3 DEF Batt
<1>3. \A c \in Cells : InUse(z, <<>>, c) <=> InUse(b, <<>>, c) \/ g.ptr = c
  BY <1>2, MethodsAssumption DEF InUse
<1>4. \A j \in DOMAIN b : (b[j].maximum # g.ptr \/ g.ptr = None)
                         /\ (b[j].remaining # g.ptr \/ g.ptr = None)
  BY <1>1 DEF Got, InUse
<1>5. Owned(g.heap, z, <<>>)
  <2>1. \A c \in Cells : g.heap[c] # None <=> InUse(z, <<>>, c)
    <3> SUFFICES ASSUME NEW c \in Cells PROVE g.heap[c] # None <=> InUse(z, <<>>, c)
      OBVIOUS
    <3>1. CASE c = g.ptr
      BY <1>3, <3>1, MethodsAssumption DEF Got
    <3>2. CASE c # g.ptr
      BY <1>3, <3>2 DEF Nodes, Owned, Got
    <3> QED
      BY <3>1, <3>2
  <2>2. Separate(z, <<>>)
    BY <1>2, <1>4 DEF Nodes, Owned, Separate
  <2>3. z \in Seq(Batt) /\ g.heap \in [Cells -> Text \cup {None}] /\ <<>> \in Seq(Cells)
    BY <1>2 DEF Got
  <2> QED
    BY <2>1, <2>2, <2>3 DEF Owned
<1>6. OneNodeEach(z)
  BY <1>2 DEF Nodes, OneNodeEach
<1>7. Says(g.heap, z)
  <2>1. \A j \in DOMAIN b : /\ b[j].remaining # None => g.heap[b[j].remaining] = h[b[j].remaining]
                            /\ b[j].maximum # None => g.heap[b[j].maximum] = h[b[j].maximum]
    <3>1. \A j \in DOMAIN b : /\ b[j].remaining # None => b[j].remaining # g.ptr /\ b[j].remaining \in Cells
                              /\ b[j].maximum # None => b[j].maximum # g.ptr /\ b[j].maximum \in Cells
      BY <1>1, <1>4 DEF Batt
    <3> QED
      BY <3>1 DEF Got
  <2> QED
    BY <1>2, <2>1 DEF Nodes, Says, Got
<1> QED
  BY <1>5, <1>6, <1>7 DEF Nodes

LEMMA LaterTaken ==
  ASSUME NEW h, NEW b, Nodes(h, b, <<>>), NEW text \in Text
  PROVE  Nodes(Dup(h, text), b, <<FreeCell(h)>>) /\ Dup(h, text)[FreeCell(h)] = text
<1> DEFINE f == FreeCell(h)
           d == Dup(h, text)
<1>1. /\ f \in Cells /\ ~InUse(b, <<>>, f) /\ d \in [Cells -> Text \cup {None}]
      /\ d[f] = text /\ text # None /\ \A c \in Cells \ {f} : d[c] = h[c]
  BY DupFacts
<1> HIDE DEF f, d
<1>2. b \in Seq(Batt) /\ \A j \in DOMAIN b : b[j] \in Batt
  BY DEF Nodes, Owned
<1>3. \A c \in Cells : InUse(b, <<f>>, c) <=> InUse(b, <<>>, c) \/ f = c
  BY DEF InUse
<1>4. \A j \in DOMAIN b : b[j].maximum # f /\ b[j].remaining # f
  BY <1>1 DEF InUse
<1>5. Owned(d, b, <<f>>)
  <2>1. \A c \in Cells : d[c] # None <=> InUse(b, <<f>>, c)
    BY <1>1, <1>3 DEF Nodes, Owned
  <2>2. Separate(b, <<f>>)
    BY <1>4 DEF Nodes, Owned, Separate
  <2> QED
    BY <1>1, <1>2, <2>1, <2>2 DEF Owned
<1>6. Says(d, b)
  <2>1. \A j \in DOMAIN b : /\ b[j].remaining # None => b[j].remaining # f /\ b[j].remaining \in Cells
                            /\ b[j].maximum # None => b[j].maximum # f /\ b[j].maximum \in Cells
    BY <1>2, <1>4 DEF Batt
  <2> QED
    BY <1>1, <2>1 DEF Nodes, Says
<1>7. OneNodeEach(b)
  BY DEF Nodes
<1> QED
  BY <1>1, <1>5, <1>6, <1>7 DEF Nodes, f, d
-----------------------------------------------------------------------------
(* prepare_batt.                                                           *)

LEMMA PreparedFacts ==
  ASSUME Heaped, ret = Nothing, NEW a \in Spellings, NEW p, p = prepare_batt(a)
  PROVE  /\ Nodes(p.heap, p.batt, <<>>) /\ p.i \in DOMAIN p.batt
         /\ p.batt[p.i].remaining = None => charge[p.batt[p.i].spelling] = None
<1> USE DEF Files
<1>1. Nodes(heap, batt, <<>>)
  BY DEF Heaped, Sent
<1>2. \A s \in Spellings : charge[s] \in Text \cup {None} /\ charge[s] \in seen[s]
  BY DEF Heaped, Text, Numbers
<1> DEFINE i == IF Known(a) = {} THEN Len(batt) + 1 ELSE Min(Known(a))
           with == IF Known(a) = {} THEN add_batt(a) ELSE [heap |-> heap, batt |-> batt]
           now == get_charge(with.heap, charge[with.batt[i].spelling])
<1>3. p = IF with.batt[i].remaining # None
          THEN [heap |-> with.heap, batt |-> with.batt, i |-> i]
          ELSE [heap |-> now.heap, batt |-> [with.batt EXCEPT ![i].remaining = now.ptr],
                i |-> i]
  BY DEF prepare_batt, Prepared
<1>4. Nodes(with.heap, with.batt, <<>>) /\ i \in DOMAIN with.batt
  <2>1. CASE Known(a) # {}
    <3>1. i = Min(Known(a)) /\ with = [heap |-> heap, batt |-> batt]
      BY <2>1
    <3>2. Known(a) \in SUBSET Nat /\ Known(a) \subseteq DOMAIN batt
      <4>1. batt \in Seq(Batt)
        BY <1>1 DEF Nodes, Owned
      <4> QED
        BY <4>1 DEF Known
    <3>3. PICK x \in Known(a) : \A y \in Known(a) : x <= y
      BY <2>1, <3>2, LeastNat
    <3>4. Min(Known(a)) \in Known(a)
      BY <3>3 DEF Min
    <3> HIDE DEF i, with
    <3> QED
      BY <1>1, <3>1, <3>2, <3>4
  <2>2. CASE Known(a) = {}
    <3> DEFINE t == IF charge[a] = None THEN None ELSE Full
               max == get_charge(heap, t)
               z == Append(batt, [spelling |-> a, remaining |-> None, maximum |-> max.ptr])
    <3>1. t \in {None, Full} /\ t \in Text \cup {None}
      BY DEF Text, Numbers
    <3>2. Got(heap, batt, max, t)
      BY <1>1, <3>1, GetChargeFacts
    <3>3. i = Len(batt) + 1 /\ with.heap = max.heap /\ with.batt = z
      BY <2>2 DEF add_batt
    <3>4. \A k \in DOMAIN batt : Number[batt[k].spelling] # Number[a]
      BY <2>2 DEF Known
    <3>5. Len(batt) \in Nat
      BY <1>1 DEF Nodes, Owned
    <3> HIDE DEF i, with, t, max
    <3>6. Nodes(max.heap, z, <<>>) /\ DOMAIN z = 1..(Len(batt) + 1)
      <4> HIDE DEF z
      <4>1. z = Append(batt, [spelling |-> a, remaining |-> None, maximum |-> max.ptr])
        BY DEF z
      <4>2. Nodes(max.heap, z, <<>>)
        BY <1>1, <3>1, <3>2, <3>4, <4>1, MaximumTaken
      <4>3. batt \in Seq(Batt)
        BY <1>1 DEF Nodes, Owned
      <4> QED
        BY <4>1, <4>2, <4>3
    <3> HIDE DEF z
    <3> QED
      BY <3>3, <3>5, <3>6
  <2> QED
    BY <2>1, <2>2
<1> HIDE DEF i, with
<1>5. with.batt[i].spelling \in Spellings
  <2>1. with.batt \in Seq(Batt)
    BY <1>4 DEF Nodes, Owned
  <2>2. with.batt[i] \in Batt
    BY <1>4, <2>1
  <2> QED
    BY <2>2 DEF Batt
<1>6. Got(with.heap, with.batt, now, charge[with.batt[i].spelling])
  BY <1>2, <1>4, <1>5, GetChargeFacts
<1> HIDE DEF now
<1>7. CASE with.batt[i].remaining # None
  <2>1. p.heap = with.heap /\ p.batt = with.batt /\ p.i = i
    BY <1>3, <1>7
  <2> QED
    BY <1>4, <1>7, <2>1
<1>8. CASE with.batt[i].remaining = None
  <2> DEFINE z == [with.batt EXCEPT ![i].remaining = now.ptr]
  <2>1. p.heap = now.heap /\ p.batt = z /\ p.i = i
    BY <1>3, <1>8
  <2>2. Nodes(now.heap, z, <<>>)
    <3> HIDE DEF z
    <3>1. z = [with.batt EXCEPT ![i].remaining = now.ptr]
      BY DEF z
    <3> QED
      BY <1>2, <1>4, <1>5, <1>6, <1>8, <3>1, RemainingTaken
  <2>3. /\ DOMAIN z = DOMAIN with.batt
        /\ z[i].remaining = now.ptr /\ z[i].spelling = with.batt[i].spelling
    <3>1. with.batt \in Seq(Batt) /\ with.batt[i] \in Batt
      BY <1>4 DEF Nodes, Owned
    <3> QED
      BY <1>4, <3>1 DEF Batt
  <2> HIDE DEF z
  <2>4. now.ptr = None => charge[with.batt[i].spelling] = None
    BY <1>6 DEF Got
  <2> QED
    BY <1>4, <2>1, <2>2, <2>3, <2>4
<1> QED
  BY <1>7, <1>8
-----------------------------------------------------------------------------
(* The methods of the battery module.                                      *)

LEMMA NodesPrimed ==
  ASSUME Nodes(heap', batt', later'), UNCHANGED seen
  PROVE  Nodes(heap, batt, later)'
BY DEF Nodes, Owned, InUse, Separate, OneNodeEach, Says

(* What is known of a prepared node.                                       *)
LEMMA NodeFacts ==
  ASSUME NEW h, NEW b, Nodes(h, b, <<>>), NEW i \in DOMAIN b, Files
  PROVE  /\ b[i] \in Batt /\ i \in 0..Len(b)
         /\ b[i].remaining # None => h[b[i].remaining] \in seen[b[i].spelling] \cap Charges
         /\ b[i].maximum # None => h[b[i].maximum] = Full
         /\ Full \in Text /\ None \notin Text /\ 0 \in Text
         /\ \A x \in Charges : x \in Text /\ Percent(x) \in Text
<1>1. b \in Seq(Batt) /\ h \in [Cells -> Text \cup {None}]
  BY DEF Nodes, Owned
<1>2. b[i] \in Batt /\ i \in 0..Len(b)
  BY <1>1
<1>3. b[i].remaining # None => h[b[i].remaining] # None /\ b[i].remaining \in Cells
  BY <1>2 DEF Nodes, Owned, InUse, Batt
<1>4. seen[b[i].spelling] \subseteq Charges \cup {None}
  BY <1>2 DEF Files, Batt
<1>5. Full \in Text /\ None \notin Text /\ 0 \in Text
      /\ \A x \in Charges : x \in Text /\ Percent(x) \in Text
  BY HeapAssumption DEF Text, Numbers
<1> QED
  BY <1>2, <1>3, <1>4, <1>5 DEF Nodes, Says

(* A battery's answer, its text and where the text is.                     *)
LEMMA AnswersFresh ==
  ASSUME Heaped, ret = Nothing, NEW p,
         Nodes(p.heap, p.batt, <<>>), p.i \in DOMAIN p.batt,
         p.batt[p.i].remaining = None => charge[p.batt[p.i].spelling] = None,
         get_battper(p) \/ get_battrem(p) \/ get_battmax(p) \/ get_battbar(p),
         batt' = p.batt, UNCHANGED <<used, charge, seen>>, used = "battery"
  PROVE  Heaped'
<1> USE DEF NA
<1> DEFINE b == p.batt[p.i]
           x == IF b.remaining = None THEN None ELSE p.heap[b.remaining]
<1>0. Files /\ later = <<>>
  BY DEF Heaped, Sent
<1>1. /\ b \in Batt /\ p.i \in 0..Len(p.batt)
      /\ b.remaining # None => p.heap[b.remaining] \in seen[b.spelling] \cap Charges
      /\ b.maximum # None => p.heap[b.maximum] = Full
      /\ Full \in Text /\ None \notin Text /\ 0 \in Text
      /\ \A y \in Charges : y \in Text /\ Percent(y) \in Text
  BY <1>0, NodeFacts
<1>2. x \in seen[b.spelling]
  BY <1>0, <1>1 DEF Files, Batt
<1> SUFFICES /\ Nodes(heap', batt', later')
             /\ ret'.cell \in Cells \cup {None} /\ ret'.text \in Text \cup {None}
             /\ ret'.method = "per" /\ ret'.cell # None =>
                   heap'[ret'.cell] = ret'.text /\ later' = <<ret'.cell>>
             /\ ret' = [cell |-> ret'.cell, text |-> ret'.text, method |-> ret'.method, of |-> b]
             /\ ret'.method \in {"per", "rem", "max", "bar"}
             /\ ret'.text = Shown(x, b)'
  <2> HIDE DEF x
  <2>1. Nodes(heap, batt, later)' /\ Files' /\ used' = "battery"
    BY <1>0, NodesPrimed DEF Files
  <2>2. ret'.of = b
    OBVIOUS
  <2>3. BattFresh'
    BY <1>2, <2>2 DEF BattFresh
  <2>4. ret' # Nothing
    BY DEF Nothing
  <2>5. ret' \in [cell : Cells \cup {None}, text : Text \cup {NA},
                method : {"none", "per", "rem", "max", "bar", "tag", "time"},
                of : Batt \cup {None}]
    BY <1>1
  <2>6. ret'.method \in {"per", "time"} /\ ret'.cell # None =>
           heap'[ret'.cell] = ret'.text /\ \E j \in DOMAIN later' : later'[j] = ret'.cell
    <3>1. ASSUME later' = <<ret'.cell>> PROVE \E j \in DOMAIN later' : later'[j] = ret'.cell
      BY <3>1
    <3> QED
      BY <3>1
  <2> HIDE DEF b
  <2> QED
    BY <1>1, <2>1, <2>2, <2>3, <2>4, <2>5, <2>6 DEF Heaped, Sent
<1>3. CASE get_battper(p) /\ ~Unknown(b)
  <2>1. m_strdup(p.heap, Ratio(p)) /\ Returns(FreeCell(p.heap), Ratio(p), "per", b)
    BY <1>3 DEF get_battper, Node
  <2>2. Ratio(p) = Percent(x) /\ x \in Charges /\ x # None /\ b.maximum # None
    BY <1>1, <1>3, HeapAssumption DEF Ratio, Node, Unknown
  <2>3. Ratio(p) \in Text
    BY <1>1, <2>2
  <2>4. /\ heap' = Dup(p.heap, Ratio(p)) /\ later' = <<FreeCell(p.heap)>>
        /\ ret' = [cell |-> FreeCell(p.heap), text |-> Ratio(p), method |-> "per", of |-> b]
    BY <1>0, <2>1 DEF m_strdup, Returns
  <2>5. Nodes(heap', batt', later') /\ heap'[FreeCell(p.heap)] = Ratio(p)
    BY <2>3, <2>4, LaterTaken
  <2>6. FreeCell(p.heap) \in Cells
    BY FreeCellThere
  <2> HIDE DEF x, b
  <2>7. Shown(x, b)' = Percent(x)
    BY <2>2, <2>4 DEF Shown
  <2> QED
    BY <2>2, <2>3, <2>4, <2>5, <2>6, <2>7
<1>4. CASE get_battper(p) /\ Unknown(b)
  <2>1. heap' = p.heap /\ later' = <<>>
        /\ ret' = [cell |-> None, text |-> None, method |-> "per", of |-> b]
    BY <1>0, <1>4 DEF get_battper, Node, Returns
  <2>2. x = None \/ b.maximum = None
    BY <1>4 DEF Unknown
  <2> HIDE DEF x, b
  <2>3. Shown(x, b)' = None
    BY <2>1, <2>2 DEF Shown
  <2> QED
    BY <2>1, <2>3
<1>5. CASE get_battrem(p)
  <2>1. heap' = p.heap /\ later' = <<>>
        /\ ret' = [cell |-> b.remaining, text |-> x, method |-> "rem", of |-> b]
    BY <1>0, <1>5 DEF get_battrem, get_batt, Node, Returns
  <2>2. b.remaining \in Cells \cup {None} /\ x \in Text \cup {None}
        /\ (b.remaining # None => p.heap[b.remaining] = x)
    BY <1>1 DEF Batt
  <2> HIDE DEF x, b
  <2>3. Shown(x, b)' = x
    BY <2>1 DEF Shown
  <2> QED
    BY <2>1, <2>2, <2>3
<1>6. CASE get_battmax(p)
  <2> DEFINE t == IF b.maximum = None THEN None ELSE Full
  <2>1. heap' = p.heap /\ later' = <<>>
        /\ ret' = [cell |-> b.maximum, text |-> t, method |-> "max", of |-> b]
    BY <1>0, <1>1, <1>6 DEF get_battmax, get_batt, Node, Returns
  <2>2. b.maximum \in Cells \cup {None} /\ t \in Text \cup {None}
        /\ (b.maximum # None => p.heap[b.maximum] = t)
    BY <1>1 DEF Batt
  <2> HIDE DEF x, b
  <2>3. Shown(x, b)' = t
    BY <2>1 DEF Shown
  <2> HIDE DEF t
  <2> QED
    BY <2>1, <2>2, <2>3
<1>7. CASE get_battbar(p)
  <2> DEFINE t == IF Unknown(b) THEN 0 ELSE Ratio(p)
  <2>1. heap' = p.heap /\ later' = <<>>
        /\ ret' = [cell |-> None, text |-> t, method |-> "bar", of |-> b]
    BY <1>0, <1>7 DEF get_battbar, Node, Returns
  <2>2. t = (IF x = None \/ b.maximum = None THEN 0 ELSE Percent(x)) /\ t \in Text
    BY <1>1, HeapAssumption DEF Ratio, Node, Unknown
  <2> HIDE DEF x, b, t
  <2>3. Shown(x, b)' = t
    BY <2>1, <2>2 DEF Shown
  <2> QED
    BY <2>1, <2>2, <2>3
<1> QED
  BY <1>3, <1>4, <1>5, <1>6, <1>7
-----------------------------------------------------------------------------
(* What is freed: the list after a visit, the remaining charges by the     *)
(* cron job, and everything with the module.                               *)

LEMMA ListFreed ==
  ASSUME NEW h, NEW b, NEW l, Nodes(h, b, l), NEW z, z = FreeAll(h, ToSet(l))
  PROVE  Nodes(z, b, <<>>)
<1>1. /\ h \in [Cells -> Text \cup {None}] /\ b \in Seq(Batt) /\ l \in Seq(Cells)
      /\ \A i \in DOMAIN b : b[i] \in Batt
  BY DEF Nodes, Owned
<1>2. z = [c \in Cells |-> IF \E i \in DOMAIN l : l[i] = c THEN None ELSE h[c]]
  BY DEF FreeAll, ToSet
<1>3. z \in [Cells -> Text \cup {None}]
  BY <1>1, <1>2
<1>4. \A c \in Cells : z[c] # None <=> InUse(b, <<>>, c)
  <2> SUFFICES ASSUME NEW c \in Cells PROVE z[c] # None <=> InUse(b, <<>>, c)
    OBVIOUS
  <2>1. h[c] # None <=> InUse(b, l, c)
    BY DEF Nodes, Owned
  <2>2. CASE \E i \in DOMAIN l : l[i] = c
    <3>1. z[c] = None
      BY <1>2, <2>2
    <3>2. ~InUse(b, <<>>, c)
      BY <2>2 DEF InUse, Nodes, Owned, Separate
    <3> QED
      BY <3>1, <3>2
  <2>3. CASE ~\E i \in DOMAIN l : l[i] = c
    BY <1>2, <2>1, <2>3 DEF InUse
  <2> QED
    BY <2>2, <2>3
<1>5. Separate(b, <<>>)
  BY DEF Nodes, Owned, Separate
<1>6. Owned(z, b, <<>>)
  BY <1>1, <1>3, <1>4, <1>5 DEF Owned
<1>7. Says(z, b)
  <2>1. \A i \in DOMAIN b : /\ b[i].remaining # None => z[b[i].remaining] = h[b[i].remaining]
                            /\ b[i].maximum # None => z[b[i].maximum] = h[b[i].maximum]
    <3> SUFFICES ASSUME NEW i \in DOMAIN b, NEW c \in {b[i].remaining, b[i].maximum}, c # None
                 PROVE  z[c] = h[c]
      OBVIOUS
    <3>1. c \in Cells
      BY <1>1 DEF Batt
    <3>2. \A k \in DOMAIN l : l[k] # c
      BY DEF Nodes, Owned, Separate
    <3> QED
      BY <1>2, <3>1, <3>2
  <2> QED
    BY <2>1 DEF Nodes, Says
<1> QED
  BY <1>6, <1>7 DEF Nodes

LEMMA CronFreed ==
  ASSUME Nodes(heap, batt, <<>>), NEW h, NEW z,
         h = FreeAll(heap, Remainings), z = Emptied
  PROVE  Nodes(h, z, <<>>)
<1>1. /\ heap \in [Cells -> Text \cup {None}] /\ batt \in Seq(Batt)
      /\ \A i \in DOMAIN batt : batt[i] \in Batt
  BY DEF Nodes, Owned
<1>2. /\ DOMAIN z = DOMAIN batt /\ z \in Seq(Batt)
      /\ \A i \in DOMAIN z : /\ z[i].spelling = batt[i].spelling
                             /\ z[i].remaining = None /\ z[i].maximum = batt[i].maximum
  <2>1. z = [i \in DOMAIN batt |-> [batt[i] EXCEPT !.remaining = None]]
    BY DEF Emptied
  <2>2. \A i \in DOMAIN batt : z[i] \in Batt
    BY <1>1, <2>1 DEF Batt
  <2>3. z \in Seq(Batt)
    BY <1>1, <2>1, <2>2
  <2> QED
    BY <1>1, <2>1, <2>3 DEF Batt
<1>3. \A c \in Cells : h[c] = IF \E i \in DOMAIN batt : batt[i].remaining = c THEN None ELSE heap[c]
  BY DEF FreeAll, Remainings
<1>4. h \in [Cells -> Text \cup {None}]
  BY <1>1 DEF FreeAll
<1>5. \A c \in Cells : h[c] # None <=> InUse(z, <<>>, c)
  <2> SUFFICES ASSUME NEW c \in Cells PROVE h[c] # None <=> InUse(z, <<>>, c)
    OBVIOUS
  <2>1. heap[c] # None <=> InUse(batt, <<>>, c)
    BY DEF Nodes, Owned
  <2>2. CASE \E i \in DOMAIN batt : batt[i].remaining = c
    <3>1. \A i \in DOMAIN z : z[i].maximum # c /\ z[i].remaining # c
      BY <1>2, <2>2, MethodsAssumption DEF Nodes, Owned, Separate
    <3> QED
      BY <1>3, <2>2, <3>1 DEF InUse
  <2>3. CASE ~\E i \in DOMAIN batt : batt[i].remaining = c
    BY <1>2, <1>3, <2>1, <2>3, MethodsAssumption DEF InUse
  <2> QED
    BY <2>2, <2>3
<1>6. Separate(z, <<>>)
  BY <1>2 DEF Nodes, Owned, Separate
<1>7. Owned(h, z, <<>>)
  BY <1>2, <1>4, <1>5, <1>6 DEF Owned
<1>8. Says(h, z)
  <2>1. \A i \in DOMAIN batt : batt[i].maximum # None => h[batt[i].maximum] = heap[batt[i].maximum]
    <3> SUFFICES ASSUME NEW i \in DOMAIN batt, batt[i].maximum # None
                 PROVE  h[batt[i].maximum] = heap[batt[i].maximum]
      OBVIOUS
    <3>1. batt[i].maximum \in Cells
      BY <1>1 DEF Batt
    <3>2. \A k \in DOMAIN batt : batt[k].remaining # batt[i].maximum
      BY DEF Nodes, Owned, Separate
    <3> QED
      BY <1>3, <3>1, <3>2
  <2> QED
    BY <1>2, <2>1 DEF Nodes, Says
<1>9. OneNodeEach(z)
  BY <1>2 DEF Nodes, OneNodeEach
<1> QED
  BY <1>7, <1>8, <1>9 DEF Nodes

(* The module goes, also while a text of the list is being sent.           *)
LEMMA DestroyFreed ==
  ASSUME NEW l, Nodes(heap, batt, l), NEW h,
         h = FreeAll(heap, Remainings \cup {batt[i].maximum : i \in DOMAIN batt})
  PROVE  Nodes(h, <<>>, l) /\ \A j \in DOMAIN l : h[l[j]] = heap[l[j]]
<1> DEFINE held(c) == \E i \in DOMAIN batt : batt[i].remaining = c \/ batt[i].maximum = c
<1>1. /\ heap \in [Cells -> Text \cup {None}] /\ l \in Seq(Cells)
      /\ \A c \in Cells : heap[c] # None <=> InUse(batt, l, c)
      /\ Separate(batt, l)
  BY DEF Nodes, Owned
<1>2. \A c \in Cells : h[c] = IF held(c) THEN None ELSE heap[c]
  BY DEF FreeAll, Remainings
<1>3. h \in [Cells -> Text \cup {None}]
  BY <1>1 DEF FreeAll
<1>4. \A j \in DOMAIN l : l[j] \in Cells /\ ~held(l[j])
  BY <1>1 DEF Separate
<1>5. \A c \in Cells : h[c] # None <=> InUse(<<>>, l, c)
  <2> SUFFICES ASSUME NEW c \in Cells PROVE h[c] # None <=> InUse(<<>>, l, c)
    OBVIOUS
  <2>1. InUse(<<>>, l, c) <=> \E j \in DOMAIN l : l[j] = c
    BY DEF InUse
  <2>2. InUse(batt, l, c) <=> held(c) \/ \E j \in DOMAIN l : l[j] = c
    BY DEF InUse
  <2> HIDE DEF held
  <2>3. CASE held(c)
    BY <1>2, <1>4, <2>1, <2>3
  <2>4. CASE ~held(c)
    BY <1>1, <1>2, <2>1, <2>2, <2>4
  <2> QED
    BY <2>3, <2>4
<1>6. Owned(h, <<>>, l)
  BY <1>1, <1>3, <1>5 DEF Owned, Separate
<1>7. \A j \in DOMAIN l : h[l[j]] = heap[l[j]]
  <2> HIDE DEF held
  <2> QED
    BY <1>2, <1>4
<1> QED
  BY <1>6, <1>7 DEF Nodes, OneNodeEach, Says
-----------------------------------------------------------------------------
LEMMA InitHeaped == Init => Heaped
<1> SUFFICES ASSUME Init PROVE Heaped
  OBVIOUS
<1>1. Nodes(heap, batt, later)
  BY DEF Init, Nodes, Owned, InUse, Separate, OneNodeEach, Says
<1>2. Files
  <2>1. \A a \in Spellings : charge[a] \in Charges \cup {None} /\ seen[a] = {charge[a]}
    BY DEF Init
  <2>2. seen \in [Spellings -> SUBSET (Charges \cup {None})]
    BY <2>1 DEF Init
  <2> QED
    BY <2>1, <2>2 DEF Init, Files
<1>3. Sent
  BY DEF Init, Sent, Nothing, NA, BattFresh
<1> QED
  BY <1>1, <1>2, <1>3 DEF Init, Heaped

(* A step that leaves the module's memory alone.                           *)
LEMMA SameHeaped ==
  ASSUME Heaped, UNCHANGED methodVars
  PROVE  Heaped'
BY DEF methodVars, Heaped, Nodes, Owned, InUse, Separate, OneNodeEach, Says, Files,
       Sent, BattFresh, Shown

LEMMA NextHeaped == Heaped /\ MpdTypes /\ [Next]_allVars => Heaped'
<1> SUFFICES ASSUME Heaped, MpdTypes, [Next]_allVars PROVE Heaped'
  OBVIOUS
<1>1. CASE UNCHANGED allVars
  BY <1>1, SameHeaped DEF allVars
<1>2. CASE MpdCron \/ MpdDestroy \/ MpdServer
  BY <1>2, SameHeaped DEF MpdCron, MpdDestroy, MpdServer, OfMpd
<1>3. ASSUME NEW a \in Spellings, CallBattery(a)
      PROVE  Heaped'
  <2>1. PICK p : p = prepare_batt(a)
    OBVIOUS
  <2>2. /\ used = "battery" /\ ret = Nothing /\ batt' = p.batt
        /\ get_battper(p) \/ get_battrem(p) \/ get_battmax(p) \/ get_battbar(p)
        /\ UNCHANGED <<used, charge, seen>>
    BY <1>3, <2>1 DEF CallBattery, Visiting
  <2> QED
    BY <2>1, <2>2, PreparedFacts, AnswersFresh
<1>4. CASE CallMpd
  <2>1. /\ used = "mpd" /\ ret = Nothing /\ later = <<>>
        /\ UNCHANGED <<used, batt, charge, seen>>
    BY <1>4 DEF CallMpd, Visiting, Heaped, Sent
  <2>2. mpdinfo["status"] \in Songs \cup {None} /\ mpdinfo["currentsong"] \in Songs \cup {None}
    BY DEF MpdTypes, Commands
  <2> DEFINE cell == ret'.cell
             text == ret'.text
             method == ret'.method
  <2>4. /\ Nodes(heap', batt', later')
        /\ cell \in Cells \cup {None} /\ text \in Text \cup {None}
        /\ cell # None => heap'[cell] = text /\ \E j \in DOMAIN later' : later'[j] = cell
        /\ method \in {"tag", "time"}
        /\ ret' = [cell |-> cell, text |-> text, method |-> method, of |-> None]
    <3> USE DEF Returns, NA
    <3>1. CASE UNCHANGED <<heap, later>> /\ Returns(None, mpdinfo["currentsong"], "tag", None)
      BY <2>1, <2>2, <3>1 DEF Heaped, Text
    <3>2. CASE UNCHANGED <<heap, later>> /\ Returns(None, NA, "time", None)
      BY <2>1, <3>2 DEF Heaped
    <3>3. CASE /\ mpdinfo["status"] # None
               /\ m_strdup(heap, mpdinfo["status"])
               /\ Returns(FreeCell(heap), mpdinfo["status"], "time", None)
      <4>1. mpdinfo["status"] \in Text
        BY <2>2, <3>3 DEF Text
      <4>2. Nodes(heap, batt, <<>>)
        BY <2>1 DEF Heaped
      <4>3. heap' = Dup(heap, mpdinfo["status"]) /\ later' = <<FreeCell(heap)>>
        BY <2>1, <3>3 DEF m_strdup
      <4> QED
        BY <2>1, <3>3, <4>1, <4>2, <4>3, LaterTaken, FreeCellThere
    <3> QED
      BY <1>4, <3>1, <3>2, <3>3 DEF CallMpd
  <2>5. Nodes(heap, batt, later)' /\ Files'
    BY <2>1, <2>4, NodesPrimed DEF Heaped, Files
  <2>6. Sent'
    <3>1. ret' # Nothing
      BY <2>4 DEF Nothing
    <3>2. ret' \in [cell : Cells \cup {None}, text : Text \cup {NA},
                method : {"none", "per", "rem", "max", "bar", "tag", "time"},
                of : Batt \cup {None}]
      BY <2>4 DEF NA
    <3> QED
      BY <2>1, <2>4, <3>1, <3>2 DEF Sent, BattFresh
  <2> QED
    BY <2>1, <2>5, <2>6 DEF Heaped
<1>5. CASE UpdateStat
  <2>1. /\ heap' = FreeAll(heap, ToSet(later)) /\ later' = <<>> /\ ret' = Nothing
        /\ UNCHANGED <<used, batt, charge, seen>>
    BY <1>5 DEF UpdateStat, mem_list_clear
  <2>2. Nodes(heap', batt', later')
    BY <2>1, ListFreed DEF Heaped
  <2>4. Sent'
    BY <2>1 DEF Sent, Nothing, NA, BattFresh
  <2> QED
    BY <2>1, <2>2, <2>4, NodesPrimed DEF Heaped, Files
<1>6. CASE BattCron
  <2>1. /\ heap' = FreeAll(heap, Remainings) /\ batt' = Emptied /\ later' = later
        /\ later = <<>> /\ ret = Nothing
        /\ UNCHANGED <<used, ret, charge>> /\ seen' = [a \in Spellings |-> {charge[a]}]
    BY <1>6 DEF BattCron, batt_cron, Visiting, Heaped, Sent
  <2>2. Nodes(heap', batt', <<>>)
    BY <2>1, CronFreed DEF Heaped
  <2>3. \A i \in DOMAIN batt' : batt'[i].remaining = None
    <3>1. batt \in Seq(Batt) /\ \A i \in DOMAIN batt : batt[i] \in Batt
      BY DEF Heaped, Nodes, Owned
    <3> QED
      BY <2>1, <3>1 DEF Emptied, Batt
  <2>4. Nodes(heap, batt, later)'
    BY <2>1, <2>2, <2>3 DEF Nodes, Owned, InUse, Separate, OneNodeEach, Says
  <2>5. Files'
    BY <2>1 DEF Heaped, Files
  <2>7. Sent'
    BY <2>1 DEF Sent, Nothing, NA, BattFresh
  <2> QED
    BY <2>1, <2>4, <2>5, <2>7 DEF Heaped
<1>7. CASE DestroyBattery
  <2>1. /\ heap' = FreeAll(heap, Remainings \cup {batt[i].maximum : i \in DOMAIN batt})
        /\ batt' = <<>> /\ later' = later
        /\ UNCHANGED <<used, ret, charge, seen>>
    BY <1>7 DEF DestroyBattery
  <2>2. Nodes(heap', <<>>, later) /\ \A j \in DOMAIN later : heap'[later[j]] = heap[later[j]]
    BY <2>1, DestroyFreed DEF Heaped
  <2>3. Sent'
    BY <2>1, <2>2 DEF Heaped, Sent, BattFresh, Shown
  <2> QED
    BY <2>1, <2>2, <2>3, NodesPrimed DEF Heaped, Files
<1>8. ASSUME NEW a \in Spellings, NEW y \in Charges \cup {None}, Drains(a, y)
      PROVE  Heaped'
  <2>1. /\ charge' = [charge EXCEPT ![a] = y]
        /\ seen' = [seen EXCEPT ![a] = @ \cup {y}]
        /\ UNCHANGED <<used, heap, later, batt, ret>>
    BY <1>8 DEF Drains
  <2>2. Files' /\ \A s \in Spellings : seen[s] \subseteq seen'[s]
    BY <2>1 DEF Heaped, Files
  <2>3. batt \in Seq(Batt) /\ \A i \in DOMAIN batt : batt[i].spelling \in Spellings
    <3>1. batt \in Seq(Batt) /\ \A i \in DOMAIN batt : batt[i] \in Batt
      BY DEF Heaped, Nodes, Owned
    <3> QED
      BY <3>1 DEF Batt
  <2>4. Nodes(heap, batt, later)'
    BY <2>1, <2>2, <2>3 DEF Heaped, Nodes, Owned, InUse, Separate, OneNodeEach, Says
  <2>5. BattFresh'
    BY <2>1, <2>2, <2>3 DEF Heaped, Sent, BattFresh, Shown
  <2>6. Sent'
    BY <2>1, <2>5 DEF Heaped, Sent
  <2> QED
    BY <2>1, <2>2, <2>4, <2>6 DEF Heaped
<1> QED
  BY <1>1, <1>2, <1>3, <1>4, <1>5, <1>6, <1>7, <1>8 DEF Next

(* One pass over the nodes finds the invariant in every state.             *)
LEMMA AlwaysHeaped == Spec => [](Heaped /\ Kept)
<1>1. Init => Heaped /\ Kept
  BY InitHeaped, InitTold DEF Told
<1>2. (Heaped /\ Kept) /\ [Next]_allVars => (Heaped /\ Kept)'
  BY NextHeaped, NextKept DEF Kept
<1> QED
  BY <1>1, <1>2, PTL DEF Spec

(* A set of holders of one cell: nobody, or one.                           *)
LEMMA HoldersCounted ==
  ASSUME NEW c \in Cells, Heaped
  PROVE  Cardinality(Holders(c)) = IF heap[c] = None THEN 0 ELSE 1
<1> USE MethodsAssumption
<1> DEFINE R == {j \in DOMAIN batt : batt[j].remaining = c}
           M == {j \in DOMAIN batt : batt[j].maximum = c}
           L == {j \in DOMAIN later : later[j] = c}
<1>1. Holders(c) = {<<"remaining", i>> : i \in R} \cup {<<"maximum", i>> : i \in M}
                   \cup {<<"later", i>> : i \in L}
  BY DEF Holders
<1>2. Separate(batt, later) /\ c # None
      /\ (heap[c] # None <=> R \cup M \cup L # {})
  BY DEF Heaped, Nodes, Owned, InUse
<1>3. \/ R = {} /\ M = {} /\ L = {}
      \/ (\E i \in R : R = {i}) /\ M = {} /\ L = {}
      \/ (\E i \in M : M = {i}) /\ R = {} /\ L = {}
      \/ (\E i \in L : L = {i}) /\ R = {} /\ M = {}
  BY <1>2 DEF Separate
<1> HIDE DEF R, M, L
<1>4. CASE R = {} /\ M = {} /\ L = {}
  <2>1. Holders(c) = {}
    BY <1>1, <1>4
  <2> QED
    BY <1>2, <1>4, <2>1, FS_EmptySet
<1>5. ASSUME NEW x, Holders(c) = {x}, R \cup M \cup L # {}
      PROVE  Cardinality(Holders(c)) = IF heap[c] = None THEN 0 ELSE 1
  BY <1>2, <1>5, FS_Singleton
<1>6. CASE (\E i \in R : R = {i}) /\ M = {} /\ L = {}
  <2>1. PICK i \in R : R = {i}
    BY <1>6
  <2>2. Holders(c) = {<<"remaining", i>>}
    BY <1>1, <1>6, <2>1
  <2> QED
    BY <1>5, <2>1, <2>2
<1>7. CASE (\E i \in M : M = {i}) /\ R = {} /\ L = {}
  <2>1. PICK i \in M : M = {i}
    BY <1>7
  <2>2. Holders(c) = {<<"maximum", i>>}
    BY <1>1, <1>7, <2>1
  <2> QED
    BY <1>5, <2>1, <2>2
<1>8. CASE (\E i \in L : L = {i}) /\ R = {} /\ M = {}
  <2>1. PICK i \in L : L = {i}
    BY <1>8
  <2>2. Holders(c) = {<<"later", i>>}
    BY <1>1, <1>8, <2>1
  <2> QED
    BY <1>5, <2>1, <2>2
<1> QED
  BY <1>3, <1>4, <1>6, <1>7, <1>8

(* Of the free list and the battery module (mem.c:126, battery.c:61, :84), *)
(* however often they are asked, of whatever spelling, and whenever the    *)
(* cron job and the unloading come, also while an answer is being sent: no *)
(* text leaks, none is freed twice, and the copy that a method has made is *)
(* there until the visit ends.                                             *)
THEOREM EveryTextHasOneHolder == Spec => []HeldOnce
<1>1. Heaped => HeldOnce
  <2> SUFFICES ASSUME Heaped, NEW c \in Cells
               PROVE  /\ Cardinality(Holders(c)) = IF heap[c] = None THEN 0 ELSE 1
                      /\ ret.cell = c /\ ret.method \in {"per", "time"} => heap[c] = ret.text
    BY DEF HeldOnce
  <2> QED
    BY HoldersCounted, MethodsAssumption DEF Heaped, Sent
<1> QED
  BY <1>1, AlwaysHeaped, PTL

(* What a method of the battery answers is what the file it stands for has *)
(* said since the cron job last ran (battery.c:193), for any number of     *)
(* batteries and spellings.                                                *)
THEOREM AnswersAreFresh == Spec => []BattFresh
<1>1. Heaped => BattFresh
  BY DEF Heaped, Sent
<1> QED
  BY <1>1, AlwaysHeaped, PTL

(* The parts of the type invariant that the mpd module's proofs leave out: *)
(* how often a send has failed, and that the module's socket is open.      *)
Counted ==
    /\ initialized \in BOOLEAN /\ resolved \in BOOLEAN /\ up \in BOOLEAN
    /\ tries \in 0..3
    /\ mpc = "send" => tries < 3
    /\ mpc \in {"connect", "welcome"} /\ back = "send" => tries < 3
    /\ \A s \in Socks : s = mpd_sock => sock[s].open

LEMMA CronCounted ==
  ASSUME MpdTypes, Counted, Cron
  PROVE  Counted'
<1>1. CASE RunCron
  BY <1>1 DEF RunCron, Counted
<1>2. CASE StartConnection
  <2>1. /\ mpc = "connect" /\ UNCHANGED <<initialized, resolved, back, tries, up>>
        /\ mpc' \in {"welcome", back}
    BY <1>2 DEF StartConnection
  <2>2. \A s \in Socks : s = mpd_sock' => sock'[s].open
    <3>1. CASE mpd_sock' = None
      BY <3>1, MpdAssumption
    <3>2. ASSUME NEW s \in Socks, Connects(s) PROVE sock'[s].open /\ mpd_sock' = s
      <4>1. mpd_sock' = s /\ \E peer, pieces : sock' = [sock EXCEPT ![s] = Opened(peer, pieces)]
        BY <3>2 DEF Connects
      <4>2. \A peer, pieces : Opened(peer, pieces).open
        BY DEF Opened
      <4> QED
        BY <4>1, <4>2 DEF MpdTypes
    <3> QED
      BY <1>2, <3>1, <3>2 DEF StartConnection
  <2> QED
    BY <2>1, <2>2 DEF Counted, MpdTypes
<1>3. CASE Welcome
  <2>1. PICK k \in Counts : Received(k) /\ sock' = Taken(k)
    BY <1>3 DEF Welcome
  <2> QED
    BY <1>3, <2>1, TakenFacts DEF Welcome, Counted
<1>4. CASE FreeEverythang
  BY <1>4 DEF FreeEverythang, Counted, serverVars
<1>5. CASE Send
  <2>1. \A s \in Socks : sock'[s].open = sock[s].open
    BY <1>5 DEF Send, MpdTypes, Socket
  <2> QED
    BY <1>5, <2>1 DEF Send, Counted
<1>6. CASE SendFails
  BY <1>6 DEF SendFails, Counted, serverVars
<1>7. CASE Recv
  <2>1. PICK k \in Counts : Received(k) /\ sock' = Taken(k)
    BY <1>7 DEF Recv
  <2>2. tries' = 0 /\ mpc' \in {"send", "idle"}
        /\ UNCHANGED <<initialized, resolved, mpd_sock, up>>
    BY <1>7 DEF Recv
  <2> QED
    BY <2>1, <2>2, TakenFacts DEF Counted
<1> QED
  BY <1>1, <1>2, <1>3, <1>4, <1>5, <1>6, <1>7 DEF Cron

LEMMA ServerCounted ==
  ASSUME MpdTypes, Counted, Server
  PROVE  Counted'
<1>1. UNCHANGED cronVars
  BY DEF Server, Answers, Closes, Answer, HangsUp, Down, Up, Plays
<1>2. up' = up \/ up' = TRUE \/ up' = FALSE
  <2>1. ASSUME NEW s \in Socks, Answer(s) \/ HangsUp(s) PROVE up' = up
    <3>1. ASSUME Answer(s) PROVE up' = up
      BY <3>1, Zenon DEF Answer
    <3>2. ASSUME HangsUp(s) PROVE up' = up
      BY <3>2, Zenon DEF HangsUp
    <3> QED
      BY <2>1, <3>1, <3>2, Zenon
  <2>2. ASSUME Down \/ Up \/ \E x \in Songs : Plays(x) PROVE up' = up \/ up' = TRUE \/ up' = FALSE
    BY <2>2, Zenon DEF Down, Up, Plays
  <2> QED
    BY <2>1, <2>2, Zenon DEF Server, Answers, Closes
<1>3. \A s \in Socks : sock'[s].open = sock[s].open
  <2>1. ASSUME NEW s \in Socks, Answer(s)
        PROVE  \A t \in Socks : sock'[t].open = sock[t].open
    <3> DEFINE p == [to |-> Head(sock[s].asked), song |-> song]
               rest == Tail(sock[s].asked)
    <3>1. PICK x : x \in {<<p>>, <<p, p>>}
           /\ sock' = [sock EXCEPT ![s].asked = rest, ![s].inbox = @ \o x]
      BY <2>1 DEF Answer
    <3> DEFINE box == sock[s].inbox \o x
    <3>2. sock' = [sock EXCEPT ![s] = [sock[s] EXCEPT !.asked = rest, !.inbox = box]]
      BY <3>1 DEF MpdTypes
    <3> HIDE DEF rest, box
    <3> QED
      BY <3>2 DEF MpdTypes, Socket
  <2>2. CASE Down
    <3>1. \A s \in Socks : sock'[s] = IF sock[s].peer = "up"
                             THEN [sock[s] EXCEPT !.peer = "closed", !.asked = <<>>]
                             ELSE sock[s]
      BY <2>2 DEF Down
    <3> QED
      BY <3>1 DEF MpdTypes, Socket
  <2>3. ASSUME NEW s \in Socks, HangsUp(s)
        PROVE  \A t \in Socks : sock'[t].open = sock[t].open
    BY <2>3 DEF HangsUp, MpdTypes, Socket
  <2>4. ASSUME Up \/ \E x \in Songs : Plays(x)
        PROVE  \A t \in Socks : sock'[t].open = sock[t].open
    BY <2>4, SMT DEF Up, Plays
  <2> QED
    BY <2>1, <2>2, <2>3, <2>4, SMT DEF Server, Answers, Closes
<1> QED
  BY <1>1, <1>2, <1>3 DEF cronVars, Counted

LEMMA NextCounted == MpdTypes /\ Counted /\ [Next]_allVars => Counted'
<1> SUFFICES ASSUME MpdTypes, Counted, [Next]_allVars PROVE Counted'
  OBVIOUS
<1>1. CASE UNCHANGED mpdVars
  BY <1>1 DEF mpdVars, cronVars, serverVars, Counted
<1>2. CASE ModuleDestroy
  <2>1. mpd_sock' = None /\ mpc' \in {mpc, "gone"} /\ UNCHANGED <<back, tries, up>>
        /\ initialized' = FALSE /\ resolved' = FALSE
    BY <1>2 DEF ModuleDestroy, FreshStatics
  <2> QED
    BY <2>1, MpdAssumption DEF Counted
<1>3. CASE Cron \/ Server
  BY <1>3, CronCounted, ServerCounted
<1> QED
  BY <1>1, <1>2, <1>3 DEF Next, MpdCron, MpdDestroy, MpdServer, OfMpd, CallMpd, UpdateStat,
        BattCron, DestroyBattery, CallBattery, Drains, allVars

(* Type correctness of Methods and of the mpd module under it: a pass that *)
(* is sent back to connect (mpd.c:185) does so three times at most.        *)
THEOREM TypeCorrect == Spec => []TypeOK
<1>1. Init => Counted
  <2> SUFFICES ASSUME Init PROVE Counted
    OBVIOUS
  <2>1. MpdInit
    BY DEF Init
  <2> QED
    <3>1. initialized \in BOOLEAN /\ resolved \in BOOLEAN /\ up \in BOOLEAN
      BY <2>1, Zenon DEF MpdInit
    <3>2. tries = 0 /\ mpc = "idle" /\ mpd_sock = None
      BY <2>1 DEF MpdInit
    <3> QED
      BY <3>1, <3>2, MpdAssumption DEF Counted
<1>2. Heaped /\ Kept /\ Counted => TypeOK
  <2> SUFFICES ASSUME Heaped, Kept, Counted PROVE TypeOK
    OBVIOUS
  <2>1. MpdTypeOK
    <3>1. MpdTypes /\ Counted
      BY DEF Kept
    <3> QED
      BY <3>1, Zenon DEF MpdTypes, MpdPlaces, Counted, MpdTypeOK
  <2> QED
    BY <2>1 DEF Heaped, Nodes, Owned, Files, Sent, TypeOK
<1>3. Kept => MpdTypes
  BY DEF Kept
<1> QED
  BY <1>1, <1>2, <1>3, AlwaysHeaped, NextCounted, PTL DEF Spec
=============================================================================
