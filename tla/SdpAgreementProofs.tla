-------------------------- MODULE SdpAgreementProofs --------------------------
(***************************************************************************)
(* Proofs that two parties end up with the same media, and that a party    *)
(* which reports a hold does not receive, for every media they have and    *)
(* ask for, any number of requests that cross in any way, and users who    *)
(* ask for one thing at a time and take what a response offers.            *)
(*                                                                         *)
(* First what a negotiator does with the lines: an offer has a number for  *)
(* every codec (MakeOffer), our answer is an answer to it (GiveAnswer),    *)
(* and who takes an answer agrees with who gave it (AcceptAnswer).  Then   *)
(* the two parties and the messages between them (Duet): they agree, or    *)
(* exactly one answer is on its way, and it is in use where it comes from. *)
(* Every handler keeps the duet, every message goes from one of its groups *)
(* to the next, and with the groups empty nothing is left but to agree.    *)
(***************************************************************************)
EXTENDS SdpSessionProofs, FiniteSetTheorems, WellFoundedInduction

-------------------------------------------------------------------------------
(* Numbers and sublists.                                                   *)

\* Induction: what fails for some number fails for a least one.
LEMMA LeastNumber ==
    ASSUME NEW T \in SUBSET Nat, T # {}
    PROVE  \E n \in T : \A m \in T : n <= m
<1> DEFINE R == OpToRel(<, Nat)
<1>1. IsWellFoundedOn(R, Nat)
    BY NatLessThanWellFounded
<1>2. \A i, j \in Nat : i < j => <<i, j>> \in R
    BY DEF OpToRel
<1> HIDE DEF R
<1>3. PICK x \in T : \A y \in T : ~(<<y, x>> \in R)
    BY <1>1, WFMin
<1>4. ASSUME NEW m \in T
      PROVE  x <= m
    <2>1. x \in Nat /\ m \in Nat
        OBVIOUS
    <2>2. ~(m < x)
        BY <1>2, <1>3, <2>1
    <2> QED BY <2>1, <2>2
<1> QED BY <1>4

\* f is computed step by step from base, and its values stay in D.
Runs(f, N, D, base, step) ==
    /\ f = [n \in 0 .. N |-> IF n = 0 THEN base ELSE step[n][f[n - 1]]]
    /\ \A n \in 0 .. N : f[n] \in D[n]

\* There is such a function when every step stays in D.
LEMMA Recursion ==
    ASSUME NEW N \in Nat, NEW D, NEW base, NEW step, base \in D[0],
           \A n \in 1 .. N : \A x \in D[n - 1] : step[n][x] \in D[n]
    PROVE  \E f : Runs(f, N, D, base, step)
<1> DEFINE T == {k \in 0 .. N : ~\E f : Runs(f, k, D, base, step)}
<1>1. SUFFICES ASSUME T # {} PROVE FALSE
    <2>1. N \in 0 .. N
        OBVIOUS
    <2> QED BY <2>1
<1>2. PICK k \in T : \A m \in T : k <= m
    <2>1. T \in SUBSET Nat
        OBVIOUS
    <2> QED BY <1>1, <2>1, LeastNumber
<1>3. CASE k = 0
    <2>1. Runs([n \in 0 .. 0 |-> base], 0, D, base, step)
        BY DEF Runs
    <2> QED BY <1>2, <1>3, <2>1
<1>4. CASE k # 0
    <2>1. k - 1 \in 0 .. N /\ k - 1 \notin T
        BY <1>2, <1>4
    <2>2. PICK f : Runs(f, k - 1, D, base, step)
        BY <2>1
    <2> DEFINE g == [n \in 0 .. k |-> IF n = k THEN step[k][f[k - 1]] ELSE f[n]]
    <2>3. f[k - 1] \in D[k - 1]
        BY <2>1, <2>2 DEF Runs
    <2>4. step[k][f[k - 1]] \in D[k]
        BY <1>2, <1>4, <2>3
    <2>5. \A n \in 0 .. k : g[n] \in D[n]
        BY <2>2, <2>4 DEF Runs
    <2>6. ASSUME NEW n \in 0 .. k
          PROVE  g[n] = IF n = 0 THEN base ELSE step[n][g[n - 1]]
        <3>1. CASE n = k
            BY <1>4, <3>1
        <3>2. CASE n # k
            <4>1. n \in 0 .. k - 1 /\ g[n] = f[n]
                BY <3>2
            <4>2. f[n] = IF n = 0 THEN base ELSE step[n][f[n - 1]]
                BY <2>2, <4>1 DEF Runs
            <4>3. n # 0 => g[n - 1] = f[n - 1]
                BY <3>2
            <4> QED BY <4>1, <4>2, <4>3
        <3> QED BY <3>1, <3>2
    <2>7. g = [n \in 0 .. k |-> IF n = 0 THEN base ELSE step[n][g[n - 1]]]
        BY <2>6
    <2>8. Runs(g, k, D, base, step)
        BY <2>5, <2>7 DEF Runs
    <2> QED BY <1>2, <2>8
<1> QED BY <1>3, <1>4

\* It is the only one.
LEMMA OneRecursion ==
    ASSUME NEW N \in Nat, NEW f, NEW g, DOMAIN f = 0 .. N, DOMAIN g = 0 .. N,
           f = [n \in 0 .. N |-> f[n]], g = [n \in 0 .. N |-> g[n]], f[0] = g[0],
           \A n \in 1 .. N : f[n - 1] = g[n - 1] => f[n] = g[n]
    PROVE  f = g
<1> DEFINE T == {k \in 0 .. N : f[k] # g[k]}
<1>1. CASE T = {}
    BY <1>1
<1>2. CASE T # {}
    <2>1. T \in SUBSET Nat
        OBVIOUS
    <2>2. PICK k \in T : \A m \in T : k <= m
        BY <1>2, <2>1, LeastNumber
    <2>3. k \in 1 .. N /\ k - 1 \in 0 .. N /\ k - 1 \notin T
        BY <2>2
    <2> QED BY <2>2, <2>3
<1> QED BY <1>1, <1>2

\* x has the first k elements of s that are in S.
Picked(s, S, k, x) ==
    /\ \A i \in 1 .. k : s[i] \in S => \E j \in DOMAIN x : x[j] = s[i]
    /\ \A j \in DOMAIN x : x[j] \in S
    /\ \E at \in [DOMAIN x -> 1 .. k] :
          /\ \A j \in DOMAIN x : x[j] = s[at[j]]
          /\ \A i, j \in DOMAIN x : i < j => at[i] < at[j]

\* The next element is picked or left out.
LEMMA PickedNext ==
    ASSUME NEW X, NEW s \in Seq(X), NEW S, NEW k \in 1 .. Len(s), NEW x \in Seq(X), Picked(s, S, k - 1, x)
    PROVE  Picked(s, S, k, IF s[k] \in S THEN Append(x, s[k]) ELSE x)
<1>1. PICK at \in [DOMAIN x -> 1 .. k - 1] :
          /\ \A j \in DOMAIN x : x[j] = s[at[j]]
          /\ \A i, j \in DOMAIN x : i < j => at[i] < at[j]
    BY DEF Picked
<1>2. /\ \A i \in 1 .. k - 1 : s[i] \in S => \E j \in DOMAIN x : x[j] = s[i]
      /\ \A j \in DOMAIN x : x[j] \in S
    BY DEF Picked
<1>3. CASE s[k] \in S
    <2> DEFINE y == Append(x, s[k])
               to == [j \in DOMAIN y |-> IF j = Len(x) + 1 THEN k ELSE at[j]]
    <2>1. y[Len(x) + 1] = s[k] /\ \A j \in DOMAIN x : y[j] = x[j]
        OBVIOUS
    <2>2. DOMAIN x = 1 .. Len(x) /\ Len(x) \in Nat /\ DOMAIN y = 1 .. Len(x) + 1
        OBVIOUS
    <2> HIDE DEF y
    <2>3. to \in [DOMAIN y -> 1 .. k]
        BY <2>2
    <2>4. ASSUME NEW j \in DOMAIN y
          PROVE  y[j] = s[to[j]] /\ y[j] \in S
        BY <1>1, <1>2, <1>3, <2>1, <2>2
    <2>5. ASSUME NEW i \in DOMAIN y, NEW j \in DOMAIN y, i < j
          PROVE  to[i] < to[j]
        BY <1>1, <2>2, <2>5
    <2>6. ASSUME NEW i \in 1 .. k, s[i] \in S
          PROVE  \E j \in DOMAIN y : y[j] = s[i]
        <3>1. CASE i = k
            BY <2>1, <2>2, <3>1
        <3>2. CASE i # k
            <4>1. i \in 1 .. k - 1
                BY <3>2
            <4>2. PICK j \in DOMAIN x : x[j] = s[i]
                BY <1>2, <2>6, <4>1
            <4> QED BY <2>1, <2>2, <4>2
        <3> QED BY <3>1, <3>2
    <2> HIDE DEF to
    <2>7. Picked(s, S, k, y)
        BY <2>3, <2>4, <2>5, <2>6 DEF Picked
    <2> QED BY <1>3, <2>7 DEF y
<1>4. CASE s[k] \notin S
    <2>1. at \in [DOMAIN x -> 1 .. k]
        OBVIOUS
    <2>2. ASSUME NEW i \in 1 .. k, s[i] \in S
          PROVE  \E j \in DOMAIN x : x[j] = s[i]
        <3>1. i \in 1 .. k - 1
            BY <1>4, <2>2
        <3> QED BY <1>2, <2>2, <3>1
    <2>3. Picked(s, S, k, x)
        BY <1>1, <1>2, <2>1, <2>2 DEF Picked
    <2> QED BY <1>4, <2>3
<1> QED BY <1>3, <1>4

\* The elements of a sequence that are in a set: no others, none lost, in their order.
LEMMA SublistFacts ==
    ASSUME NEW X, NEW s \in Seq(X), NEW S
    PROVE  /\ Sublist(s, S) \in Seq(X)
           /\ Range(Sublist(s, S)) = Range(s) \cap S
           /\ \E at \in [DOMAIN Sublist(s, S) -> DOMAIN s] :
                 /\ \A i \in DOMAIN Sublist(s, S) : Sublist(s, S)[i] = s[at[i]]
                 /\ \A i, j \in DOMAIN Sublist(s, S) : i < j => at[i] < at[j]
<1> DEFINE N == Len(s)
           D == [k \in 0 .. N |-> {x \in Seq(X) : Picked(s, S, k, x)}]
           step == [k \in 1 .. N |-> [x \in Seq(X) |-> IF s[k] \in S THEN Append(x, s[k]) ELSE x]]
<1>1. N \in Nat /\ DOMAIN s = 1 .. N /\ \A k \in 1 .. N : s[k] \in X
    OBVIOUS
<1>2. <<>> \in D[0]
    <2>1. DOMAIN <<>> = {} /\ <<>> \in Seq(X)
        OBVIOUS
    <2>2. ASSUME NEW x, DOMAIN x = {} PROVE Picked(s, S, 0, x)
        <3> DEFINE at == [j \in DOMAIN x |-> 1]
        <3>1. at \in [DOMAIN x -> 1 .. 0]
            BY <2>2
        <3> HIDE DEF at
        <3>2. /\ \A j \in DOMAIN x : x[j] = s[at[j]]
              /\ \A i, j \in DOMAIN x : i < j => at[i] < at[j]
            BY <2>2
        <3>3. /\ \A i \in 1 .. 0 : s[i] \in S => \E j \in DOMAIN x : x[j] = s[i]
              /\ \A j \in DOMAIN x : x[j] \in S
            BY <2>2
        <3> QED BY <3>1, <3>2, <3>3 DEF Picked
    <2>3. Picked(s, S, 0, <<>>)
        BY <2>1, <2>2
    <2> QED BY <1>1, <2>1, <2>3
<1>3. ASSUME NEW k \in 1 .. N, NEW x \in D[k - 1]
      PROVE  step[k][x] \in D[k]
    <2>1. x \in Seq(X) /\ Picked(s, S, k - 1, x) /\ k \in 0 .. N
        BY <1>1
    <2>2. step[k][x] = IF s[k] \in S THEN Append(x, s[k]) ELSE x
        BY <2>1
    <2>3. Picked(s, S, k, step[k][x])
        BY <2>1, <2>2, PickedNext
    <2>4. step[k][x] \in Seq(X)
        BY <1>1, <2>1, <2>2
    <2> HIDE DEF step
    <2> QED BY <2>1, <2>3, <2>4
<1> HIDE DEF D, step, N
<1>4. PICK f : Runs(f, N, D, <<>>, step)
    <2>1. \A n \in 1 .. N : \A x \in D[n - 1] : step[n][x] \in D[n]
        BY <1>3
    <2>2. N \in Nat
        BY <1>1
    <2> QED BY <1>2, <2>1, <2>2, Recursion
<1> DEFINE Eq(g) == g = [k \in 0 .. N |->
                IF k = 0 THEN <<>> ELSE IF s[k] \in S THEN Append(g[k - 1], s[k]) ELSE g[k - 1]]
<1>5. \A k \in 0 .. N : f[k] \in Seq(X)
    BY <1>4 DEF D, Runs
<1>6. Eq(f)
    <2>1. ASSUME NEW k \in 0 .. N
          PROVE  f[k] = IF k = 0 THEN <<>> ELSE IF s[k] \in S THEN Append(f[k - 1], s[k]) ELSE f[k - 1]
        <3>1. CASE k = 0
            BY <1>1, <1>4, <3>1 DEF Runs
        <3>2. CASE k # 0
            <4>1. k \in 1 .. N /\ f[k - 1] \in Seq(X) /\ f[k] = step[k][f[k - 1]]
                BY <1>1, <1>4, <1>5, <3>2 DEF Runs
            <4> QED BY <3>2, <4>1 DEF step
        <3> QED BY <3>1, <3>2
    <2>2. f = [k \in 0 .. N |-> f[k]]
        BY <1>4 DEF Runs
    <2> QED BY <2>1, <2>2
<1>7. PICK g : Eq(g) /\ Sublist(s, S) = g[N]
    BY <1>6 DEF Sublist, N
<1>8. g = f
    <2>1. DOMAIN f = 0 .. N /\ DOMAIN g = 0 .. N /\ f = [k \in 0 .. N |-> f[k]] /\ g = [k \in 0 .. N |-> g[k]]
        BY <1>6, <1>7
    <2>2. f[0] = g[0]
        BY <1>1, <1>6, <1>7
    <2>3. ASSUME NEW k \in 1 .. N, f[k - 1] = g[k - 1] PROVE f[k] = g[k]
        <3>1. k \in 0 .. N /\ k # 0
            BY <1>1
        <3>2. f[k] = IF s[k] \in S THEN Append(f[k - 1], s[k]) ELSE f[k - 1]
            BY <1>6, <3>1
        <3>3. g[k] = IF s[k] \in S THEN Append(g[k - 1], s[k]) ELSE g[k - 1]
            BY <1>7, <3>1
        <3> QED BY <2>3, <3>2, <3>3
    <2> HIDE DEF Eq
    <2> QED BY <1>1, <2>1, <2>2, <2>3, OneRecursion
<1> DEFINE x == Sublist(s, S)
<1>9. x \in Seq(X) /\ Picked(s, S, N, x)
    <2>1. x = f[N] /\ N \in 0 .. N
        BY <1>1, <1>7, <1>8
    <2> HIDE DEF x
    <2>2. x \in D[N]
        BY <1>4, <2>1 DEF Runs
    <2> QED BY <1>1, <2>2 DEF D
<1> HIDE DEF x
<1>10. \E at \in [DOMAIN x -> DOMAIN s] :
           /\ \A j \in DOMAIN x : x[j] = s[at[j]]
           /\ \A i, j \in DOMAIN x : i < j => at[i] < at[j]
    BY <1>1, <1>9 DEF Picked
<1>11. Range(x) = Range(s) \cap S
    <2>1. ASSUME NEW e \in Range(x) PROVE e \in Range(s) \cap S
        <3>1. PICK j \in DOMAIN x : e = x[j]
            BY DEF Range
        <3>2. e \in S /\ \E i \in DOMAIN s : e = s[i]
            BY <1>9, <1>10, <3>1 DEF Picked
        <3> QED BY <3>2 DEF Range
    <2>2. ASSUME NEW e \in Range(s) \cap S PROVE e \in Range(x)
        <3>1. PICK i \in 1 .. N : e = s[i]
            BY <1>1 DEF Range
        <3>2. \E j \in DOMAIN x : x[j] = e
            BY <1>9, <3>1 DEF Picked
        <3> QED BY <3>2 DEF Range
    <2> QED BY <2>1, <2>2
<1> QED BY <1>9, <1>10, <1>11 DEF x

-------------------------------------------------------------------------------
(* The payload types of a line (assign_pt_and_update_map).                 *)

\* The maps of a line, the numbers that are used and the formats so far.
DynFmts  == [pt : DynPts, codec : DynCodecs]
CodecMap == [DynPts -> DynCodecs \cup {NoCodec}]
PtMap    == [DynCodecs -> {0} \cup DynPts]
Accs     == [to_codec : CodecMap, to_pt : PtMap, used : SUBSET DynPts, fmts : Seq(Fmts)]

\* A format with another number, if it has a dynamic one.
Renumbered(f, g) == IF f.pt < START_DYNAMIC_PT THEN g = f ELSE g \in DynFmts /\ g.codec = f.codec

\* The dynamic numbers are finitely many, and none of them is 0 or static.
LEMMA DynPtsFinite ==
    /\ IsFiniteSet(DynPts) /\ DynPts \subseteq Nat /\ 0 \notin DynPts
    /\ \A pt \in DynPts : ~(pt < START_DYNAMIC_PT)
<1>1. DynPts \subseteq 96 .. 127
    BY SdpNegAssumption
<1>2. PICK a \in Int, b \in Int : a = 96 /\ b = 127
    OBVIOUS
<1>3. IsFiniteSet(a .. b)
    BY FS_Interval
<1>4. DynPts \subseteq a .. b
    BY <1>1, <1>2
<1>5. IsFiniteSet(DynPts)
    BY <1>3, <1>4, FS_Subset
<1>6. DynPts \subseteq Nat /\ 0 \notin DynPts /\ \A pt \in DynPts : ~(pt < START_DYNAMIC_PT)
    BY <1>1 DEF START_DYNAMIC_PT
<1> QED BY <1>5, <1>6

\* A format is dynamic by its number.
LEMMA FmtFacts ==
    ASSUME NEW f \in Fmts
    PROVE  f \in DynFmts <=> ~(f.pt < START_DYNAMIC_PT)
<1>1. CASE f \in DynFmts
    <2>1. f.pt \in DynPts
        BY <1>1 DEF DynFmts
    <2> QED BY <1>1, <2>1, DynPtsFinite
<1>2. CASE f \notin DynFmts
    BY <1>2 DEF Fmts, StaticFmts, DynFmts
<1> QED BY <1>1, <1>2

\* One more number in use.
LEMMA CardinalityAdd ==
    ASSUME NEW S, NEW x, IsFiniteSet(S)
    PROVE  /\ Cardinality(S \cup {x}) \in Nat /\ Cardinality(S) \in Nat
           /\ Cardinality(S \cup {x}) <= Cardinality(S) + 1
<1>1. /\ IsFiniteSet(S \cup {x})
      /\ Cardinality(S \cup {x}) = IF x \in S THEN Cardinality(S) ELSE Cardinality(S) + 1
    BY FS_AddElement
<1>2. Cardinality(S) \in Nat /\ Cardinality(S \cup {x}) \in Nat
    BY <1>1, FS_CardinalityType
<1> QED BY <1>1, <1>2

\* "This should never happen": find_new_pt finds a number while not all are used.
LEMMA NewPt ==
    ASSUME NEW to_codec, NEW used \in SUBSET DynPts, NEW codec, used # DynPts
    PROVE  find_new_pt(to_codec, used, codec) \in DynPts \ used
<1> DEFINE free == DynPts \ used
           own == {pt \in free : to_codec[pt] = codec}
           fresh == {pt \in free : to_codec[pt] = NoCodec}
           among == IF own # {} THEN own ELSE IF fresh # {} THEN fresh ELSE free
<1>1. among \subseteq free /\ among # {}
    OBVIOUS
<1>2. find_new_pt(to_codec, used, codec) = First(among)
    BY DEF find_new_pt
<1>3. among \in SUBSET Nat
    BY <1>1, DynPtsFinite
<1> HIDE DEF among
<1>4. \E n \in among : \A m \in among : n <= m
    BY <1>1, <1>3, LeastNumber
<1>5. First(among) \in among
    BY <1>4 DEF First
<1> QED BY <1>1, <1>2, <1>5

\* A format with a dynamic number gets one that is not used yet in its line.
LEMMA AssignPtFacts ==
    ASSUME NEW acc \in Accs, NEW f \in DynFmts, NEW is_offer, acc.used # DynPts
    PROVE  LET o == assign_pt(acc, f, is_offer)
           IN  /\ o \in Accs
               /\ \E pt \in DynPts : /\ o.fmts = Append(acc.fmts, [pt |-> pt, codec |-> f.codec])
                                     /\ o.used = acc.used \cup {pt}
<1> DEFINE need == acc.to_codec[f.pt] \notin {NoCodec, f.codec} \/ f.pt \in acc.used
           last == acc.to_pt[f.codec]
           usable == last # 0 /\ last \notin acc.used
           pt == IF usable /\ (need \/ is_offer) THEN last
                 ELSE IF need THEN find_new_pt(acc.to_codec, acc.used, f.codec)
                 ELSE f.pt
           o == Numbered(acc, f, pt)
<1>1. f.pt \in DynPts /\ f.codec \in DynCodecs /\ f = [pt |-> f.pt, codec |-> f.codec]
    BY DEF DynFmts
<1>2. acc.to_pt \in PtMap /\ acc.used \in SUBSET DynPts /\ acc.fmts \in Seq(Fmts) /\ acc.to_codec \in CodecMap
    BY DEF Accs
<1>3. assign_pt(acc, f, is_offer) = o
    BY DEF assign_pt
<1>4. last \in {0} \cup DynPts
    BY <1>1, <1>2 DEF PtMap
<1>5. find_new_pt(acc.to_codec, acc.used, f.codec) \in DynPts
    BY <1>2, NewPt
<1>6. pt \in DynPts
    BY <1>1, <1>4, <1>5
<1> HIDE DEF pt
<1>7. [f EXCEPT !.pt = pt] = [pt |-> pt, codec |-> f.codec]
    BY <1>1
<1>8. [pt |-> pt, codec |-> f.codec] \in Fmts
    BY <1>1, <1>6 DEF Fmts
<1>9. /\ o = [to_codec |-> o.to_codec, to_pt |-> o.to_pt, used |-> o.used, fmts |-> o.fmts]
      /\ o.to_codec = [acc.to_codec EXCEPT ![pt] = f.codec] /\ o.to_pt = [acc.to_pt EXCEPT ![f.codec] = pt]
      /\ o.used = acc.used \cup {pt} /\ o.fmts = Append(acc.fmts, [pt |-> pt, codec |-> f.codec])
    <2> DEFINE y == Append(acc.fmts, [pt |-> pt, codec |-> f.codec])
    <2>1. o = [acc EXCEPT !.used = @ \cup {pt}, !.fmts = y, !.to_codec[pt] = f.codec, !.to_pt[f.codec] = pt]
        BY <1>7 DEF Numbered
    <2> HIDE DEF y, o
    <2>2. /\ o = [to_codec |-> o.to_codec, to_pt |-> o.to_pt, used |-> o.used, fmts |-> o.fmts]
          /\ o.to_codec = [acc.to_codec EXCEPT ![pt] = f.codec] /\ o.to_pt = [acc.to_pt EXCEPT ![f.codec] = pt]
          /\ o.used = acc.used \cup {pt} /\ o.fmts = y
        BY <2>1 DEF Accs
    <2> QED BY <2>2 DEF y
<1>10. [acc.to_codec EXCEPT ![pt] = f.codec] \in CodecMap
    BY <1>1, <1>2 DEF CodecMap
<1>11. [acc.to_pt EXCEPT ![f.codec] = pt] \in PtMap
    BY <1>1, <1>2, <1>6 DEF PtMap
<1>12. Append(acc.fmts, [pt |-> pt, codec |-> f.codec]) \in Seq(Fmts)
    BY <1>2, <1>8
<1>13. o \in Accs
    BY <1>2, <1>6, <1>9, <1>10, <1>11, <1>12 DEF Accs
<1> QED BY <1>3, <1>6, <1>9, <1>13

\* The first n formats of a line are done.
Done(fmts, n, acc) ==
    /\ Len(acc.fmts) = n
    /\ \A k \in 1 .. n : Renumbered(fmts[k], acc.fmts[k])
    /\ Cardinality(acc.used) <= Cardinality({k \in 1 .. n : ~(fmts[k].pt < START_DYNAMIC_PT)})

\* The next format is done: there is a number for it, as fewer are in use than there are.
LEMMA DoneNext ==
    ASSUME NEW fmts \in Seq(Fmts), NEW n \in 1 .. Len(fmts), NEW acc \in Accs, NEW is_offer,
           Done(fmts, n - 1, acc), Cardinality(Dynamic(fmts)) <= Cardinality(DynPts)
    PROVE  LET o == IF fmts[n].pt < START_DYNAMIC_PT THEN Static(acc, fmts[n])
                    ELSE assign_pt(acc, fmts[n], is_offer)
           IN  o \in Accs /\ Done(fmts, n, o)
<1> DEFINE f == fmts[n]
           Dyn(k) == {j \in 1 .. k : ~(fmts[j].pt < START_DYNAMIC_PT)}
<1>1. f \in Fmts
    OBVIOUS
<1>2. /\ Len(acc.fmts) = n - 1 /\ \A k \in 1 .. n - 1 : Renumbered(fmts[k], acc.fmts[k])
      /\ Cardinality(acc.used) <= Cardinality(Dyn(n - 1))
    BY DEF Done
<1>3. acc.fmts \in Seq(Fmts) /\ acc.used \in SUBSET DynPts
    BY DEF Accs
<1>4. CASE f.pt < START_DYNAMIC_PT
    <2>1. Dyn(n) = Dyn(n - 1)
        BY <1>4
    <2> DEFINE o == Static(acc, f)
    <2>2. /\ o = [to_codec |-> o.to_codec, to_pt |-> o.to_pt, used |-> o.used, fmts |-> o.fmts]
          /\ o.to_codec = acc.to_codec /\ o.to_pt = acc.to_pt
          /\ o.used = acc.used /\ o.fmts = Append(acc.fmts, f)
        <3> DEFINE y == Append(acc.fmts, f)
        <3>1. o = [acc EXCEPT !.fmts = y]
            BY DEF Static
        <3> HIDE DEF y, o
        <3>2. /\ o = [to_codec |-> o.to_codec, to_pt |-> o.to_pt, used |-> o.used, fmts |-> o.fmts]
              /\ o.to_codec = acc.to_codec /\ o.to_pt = acc.to_pt
              /\ o.used = acc.used /\ o.fmts = y
            BY <3>1 DEF Accs
        <3> QED BY <3>2 DEF y, o
    <2>3. Static(acc, f) \in Accs
        <3>1. /\ acc.to_codec \in CodecMap /\ acc.to_pt \in PtMap
              /\ acc.used \in SUBSET DynPts /\ Append(acc.fmts, f) \in Seq(Fmts)
            BY <1>1, <1>3 DEF Accs
        <3> HIDE DEF o
        <3>2. o \in Accs
            BY <2>2, <3>1 DEF Accs
        <3> QED BY <3>2 DEF o
    <2> DEFINE y == Append(acc.fmts, f)
    <2>4. Len(y) = n /\ y[n] = f /\ \A k \in 1 .. n - 1 : y[k] = acc.fmts[k]
        BY <1>1, <1>2, <1>3
    <2>5. ASSUME NEW k \in 1 .. n PROVE Renumbered(fmts[k], y[k])
        BY <1>2, <1>4, <2>4 DEF Renumbered
    <2> HIDE DEF y
    <2>6. Done(fmts, n, Static(acc, f))
        <3>1. Static(acc, f).fmts = y /\ Static(acc, f).used = acc.used
            BY <2>2 DEF y
        <3> QED BY <1>2, <2>1, <2>4, <2>5, <3>1 DEF Done
    <2> QED BY <1>4, <2>3, <2>6
<1>5. CASE ~(f.pt < START_DYNAMIC_PT)
    <2>1. IsFiniteSet(Dyn(n - 1)) /\ IsFiniteSet(Dynamic(fmts)) /\ n \notin Dyn(n - 1)
        <3>1. IsFiniteSet(1 .. n - 1) /\ IsFiniteSet(1 .. Len(fmts))
            BY FS_Interval
        <3>2. Dyn(n - 1) \subseteq 1 .. n - 1 /\ Dynamic(fmts) \subseteq 1 .. Len(fmts)
            BY DEF Dynamic
        <3> QED BY <3>1, <3>2, FS_Subset
    <2>2. Dyn(n) = Dyn(n - 1) \cup {n} /\ Dyn(n) \subseteq Dynamic(fmts)
        BY <1>5 DEF Dynamic
    <2>3. /\ Cardinality(Dyn(n)) = Cardinality(Dyn(n - 1)) + 1
          /\ Cardinality(Dyn(n)) <= Cardinality(Dynamic(fmts))
        BY <2>1, <2>2, FS_AddElement, FS_Subset
    <2>4. Cardinality(Dyn(n - 1)) \in Nat /\ Cardinality(Dynamic(fmts)) \in Nat /\ Cardinality(DynPts) \in Nat
        BY <2>1, DynPtsFinite, FS_CardinalityType
    <2>5. IsFiniteSet(acc.used) /\ Cardinality(acc.used) \in Nat
        BY <1>3, DynPtsFinite, FS_Subset, FS_CardinalityType
    <2>6. acc.used # DynPts
        BY <1>2, <2>3, <2>4, <2>5
    <2>7. f \in DynFmts
        BY <1>1, <1>5, FmtFacts
    <2> DEFINE o == assign_pt(acc, f, is_offer)
    <2>8. o \in Accs
        BY <2>6, <2>7, AssignPtFacts
    <2>9. PICK pt \in DynPts : /\ o.fmts = Append(acc.fmts, [pt |-> pt, codec |-> f.codec])
                               /\ o.used = acc.used \cup {pt}
        BY <2>6, <2>7, AssignPtFacts
    <2> HIDE DEF o
    <2> DEFINE g == [pt |-> pt, codec |-> f.codec]
               y == Append(acc.fmts, g)
    <2>10. Len(y) = n /\ y[n] = g /\ \A k \in 1 .. n - 1 : y[k] = acc.fmts[k]
        BY <1>2, <1>3
    <2>11. g \in DynFmts /\ g.codec = f.codec
        BY <2>7 DEF DynFmts
    <2>12. ASSUME NEW k \in 1 .. n PROVE Renumbered(fmts[k], y[k])
        BY <1>2, <1>5, <2>10, <2>11 DEF Renumbered
    <2>13. Cardinality(o.used) <= Cardinality(acc.used) + 1
        BY <2>5, <2>9, CardinalityAdd
    <2>14. Cardinality(o.used) <= Cardinality(Dyn(n))
        <3>1. Cardinality(o.used) \in Nat
            BY <2>5, <2>9, CardinalityAdd
        <3> QED BY <1>2, <2>3, <2>4, <2>5, <2>13, <3>1
    <2> HIDE DEF y
    <2>15. Done(fmts, n, o)
        BY <2>9, <2>10, <2>12, <2>14 DEF Done, y
    <2> QED BY <1>5, <2>8, <2>15 DEF o
<1> QED BY <1>4, <1>5

\* A line is numbered: every format that has a dynamic number has one still.
LEMMA AssignLineFacts ==
    ASSUME NEW neg, NEW line, NEW is_offer, line.fmts \in Seq(Fmts),
           neg.to_codec[line.type] \in CodecMap, neg.to_pt[line.type] \in PtMap,
           Cardinality(Dynamic(line.fmts)) <= Cardinality(DynPts)
    PROVE  /\ assign_line(neg, line, is_offer) \in Accs
           /\ Done(line.fmts, Len(line.fmts), assign_line(neg, line, is_offer))
<1> DEFINE fmts == line.fmts
           N == Len(fmts)
           none == [to_codec |-> neg.to_codec[line.type], to_pt |-> neg.to_pt[line.type], used |-> {}, fmts |-> <<>>]
           D == [n \in 0 .. N |-> {acc \in Accs : Done(fmts, n, acc)}]
           step == [n \in 1 .. N |-> [acc \in Accs |->
                       IF fmts[n].pt < START_DYNAMIC_PT THEN Static(acc, fmts[n]) ELSE assign_pt(acc, fmts[n], is_offer)]]
<1>1. N \in Nat
    OBVIOUS
<1>2. none \in D[0]
    <2>1. none \in Accs
        BY DEF Accs
    <2>2. none.fmts = <<>> /\ none.used = {}
        OBVIOUS
    <2> HIDE DEF none
    <2>3. {k \in 1 .. 0 : ~(fmts[k].pt < START_DYNAMIC_PT)} = {}
        OBVIOUS
    <2>4. Done(fmts, 0, none)
        BY <2>2, <2>3, FS_EmptySet DEF Done
    <2> QED BY <1>1, <2>1, <2>4
<1>3. \A n \in 1 .. N : \A x \in D[n - 1] : step[n][x] \in D[n]
    <2> SUFFICES ASSUME NEW n \in 1 .. N, NEW x \in D[n - 1] PROVE step[n][x] \in D[n]
        OBVIOUS
    <2>1. x \in Accs /\ Done(fmts, n - 1, x) /\ n \in 0 .. N
        BY <1>1
    <2>2. step[n][x] = IF fmts[n].pt < START_DYNAMIC_PT THEN Static(x, fmts[n]) ELSE assign_pt(x, fmts[n], is_offer)
        BY <2>1
    <2> HIDE DEF step
    <2>3. step[n][x] \in Accs /\ Done(fmts, n, step[n][x])
        BY <2>1, <2>2, DoneNext
    <2> QED BY <2>1, <2>3
<1> HIDE DEF D, step, N, fmts, none
<1>4. PICK f : Runs(f, N, D, none, step)
    BY <1>1, <1>2, <1>3, Recursion
<1> DEFINE Eq(g) == g = [n \in 0 .. N |->
               IF n = 0 THEN none
               ELSE IF fmts[n].pt < START_DYNAMIC_PT THEN Static(g[n - 1], fmts[n])
               ELSE assign_pt(g[n - 1], fmts[n], is_offer)]
<1>5. \A n \in 0 .. N : f[n] \in Accs /\ Done(fmts, n, f[n])
    BY <1>4 DEF Runs, D
<1>6. Eq(f)
    <2>1. ASSUME NEW n \in 0 .. N
          PROVE  f[n] = IF n = 0 THEN none
                        ELSE IF fmts[n].pt < START_DYNAMIC_PT THEN Static(f[n - 1], fmts[n])
                        ELSE assign_pt(f[n - 1], fmts[n], is_offer)
        <3>1. CASE n = 0
            BY <1>1, <1>4, <3>1 DEF Runs
        <3>2. CASE n # 0
            <4>1. n \in 1 .. N /\ n - 1 \in 0 .. N
                BY <1>1, <3>2
            <4>2. f[n] = step[n][f[n - 1]]
                BY <1>4, <3>2 DEF Runs
            <4>3. f[n - 1] \in Accs
                BY <1>5, <4>1
            <4> QED BY <3>2, <4>1, <4>2, <4>3 DEF step
        <3> QED BY <3>1, <3>2
    <2>2. f = [n \in 0 .. N |-> f[n]]
        BY <1>4 DEF Runs
    <2> QED BY <2>1, <2>2
<1>7. PICK g : Eq(g) /\ assign_line(neg, line, is_offer) = g[N]
    BY <1>6 DEF assign_line, N, fmts, none
<1>8. g = f
    <2>1. DOMAIN f = 0 .. N /\ DOMAIN g = 0 .. N /\ f = [n \in 0 .. N |-> f[n]] /\ g = [n \in 0 .. N |-> g[n]]
        BY <1>6, <1>7
    <2>2. f[0] = g[0]
        BY <1>1, <1>6, <1>7
    <2>3. ASSUME NEW n \in 1 .. N, f[n - 1] = g[n - 1] PROVE f[n] = g[n]
        <3>1. n \in 0 .. N /\ n # 0
            BY <1>1
        <3>2. f[n] = IF fmts[n].pt < START_DYNAMIC_PT THEN Static(f[n - 1], fmts[n]) ELSE assign_pt(f[n - 1], fmts[n], is_offer)
            BY <1>6, <3>1
        <3>3. g[n] = IF fmts[n].pt < START_DYNAMIC_PT THEN Static(g[n - 1], fmts[n]) ELSE assign_pt(g[n - 1], fmts[n], is_offer)
            BY <1>7, <3>1
        <3> QED BY <2>3, <3>2, <3>3
    <2> HIDE DEF Eq
    <2> QED BY <1>1, <2>1, <2>2, <2>3, OneRecursion
<1>9. N \in 0 .. N
    BY <1>1
<1> QED BY <1>5, <1>7, <1>8, <1>9 DEF N, fmts

\* A description: at most one line of a type.
Described(d) == d = [ver |-> d.ver, media |-> d.media] /\ d.media \in Seq(Lines) /\ OneOfEach(d.media)

\* A line with other numbers.
Numbering(x, y) ==
    /\ y = [type |-> x.type, active |-> x.active, dir |-> x.dir, fmts |-> y.fmts]
    /\ y.fmts \in Seq(Fmts) /\ Len(y.fmts) = Len(x.fmts)
    /\ \A i \in DOMAIN x.fmts : Renumbered(x.fmts[i], y.fmts[i])

\* A line is the only one of its type.
LEMMA LineOfFacts ==
    ASSUME NEW media, OneOfEach(media), NEW k \in DOMAIN media
    PROVE  media[k].type \in TypesOf(media) /\ LineOf(media, media[k].type) = media[k]
<1> DEFINE c == CHOOSE i \in DOMAIN media : media[i].type = media[k].type
<1>1. c \in DOMAIN media /\ media[c].type = media[k].type
    OBVIOUS
<1>2. LineOf(media, media[k].type) = media[c]
    BY DEF LineOf
<1> HIDE DEF c
<1>3. c = k
    BY <1>1 DEF OneOfEach
<1> QED BY <1>2, <1>3 DEF TypesOf

\* A line that is off is left as it is.
LEMMA NumberingSame ==
    ASSUME NEW x \in Lines
    PROVE  Numbering(x, x)
<1>1. x = [type |-> x.type, active |-> x.active, dir |-> x.dir, fmts |-> x.fmts] /\ x.fmts \in Seq(Fmts)
    BY DEF Lines
<1>2. ASSUME NEW i \in DOMAIN x.fmts PROVE Renumbered(x.fmts[i], x.fmts[i])
    <2>1. x.fmts[i] \in Fmts
        BY <1>1
    <2> QED BY <2>1, FmtFacts DEF Renumbered
<1> QED BY <1>1, <1>2 DEF Numbering

\* A description is numbered: its lines stay what they are but for the numbers.
LEMMA AssignFacts ==
    ASSUME NEW neg, NEW sdp, NEW is_offer, Described(sdp),
           neg.to_codec \in [Types -> CodecMap], neg.to_pt \in [Types -> PtMap],
           \A k \in DOMAIN sdp.media : sdp.media[k].active =>
               Cardinality(Dynamic(sdp.media[k].fmts)) <= Cardinality(DynPts)
    PROVE  LET a == assign_pt_and_update_map(neg, sdp, is_offer)
           IN  /\ a.sdp = [ver |-> sdp.ver, media |-> a.sdp.media] /\ Described(a.sdp)
               /\ Len(a.sdp.media) = Len(sdp.media)
               /\ \A k \in DOMAIN sdp.media : Numbering(sdp.media[k], a.sdp.media[k])
               /\ a.to_codec \in [Types -> CodecMap] /\ a.to_pt \in [Types -> PtMap]
<1> DEFINE media == sdp.media
           on == {u \in TypesOf(media) : LineOf(media, u).active}
           done == [t \in on |-> assign_line(neg, LineOf(media, t), is_offer)]
           lines == [k \in DOMAIN media |->
                        IF media[k].active THEN [media[k] EXCEPT !.fmts = done[media[k].type].fmts] ELSE media[k]]
           a == assign_pt_and_update_map(neg, sdp, is_offer)
<1>1. media \in Seq(Lines) /\ OneOfEach(media) /\ sdp = [ver |-> sdp.ver, media |-> media]
    BY DEF Described
<1>2. a = Assigned(neg, sdp, done)
    BY DEF assign_pt_and_update_map
<1>3. /\ a.sdp = [sdp EXCEPT !.media = lines]
      /\ a.to_codec = Maps(neg.to_codec, NoMap, sdp, [t \in on |-> done[t].to_codec])
      /\ a.to_pt = Maps(neg.to_pt, NoPts, sdp, [t \in on |-> done[t].to_pt])
    BY <1>2 DEF Assigned
<1>4. ASSUME NEW k \in DOMAIN media, media[k].active
      PROVE  /\ media[k].type \in on /\ done[media[k].type] \in Accs
             /\ Done(media[k].fmts, Len(media[k].fmts), done[media[k].type])
    <2> DEFINE line == media[k]
    <2>1. line \in Lines
        BY <1>1
    <2>2. line.type \in Types /\ line.fmts \in Seq(Fmts)
        BY <2>1 DEF Lines
    <2>3. line.type \in TypesOf(media) /\ LineOf(media, line.type) = line
        BY <1>1, LineOfFacts
    <2>4. done[line.type] = assign_line(neg, line, is_offer) /\ line.type \in on
        BY <1>4, <2>3
    <2>5. neg.to_codec[line.type] \in CodecMap /\ neg.to_pt[line.type] \in PtMap
        BY <2>2
    <2>6. Cardinality(Dynamic(line.fmts)) <= Cardinality(DynPts)
        BY <1>4
    <2> HIDE DEF line, done, on
    <2> QED BY <2>2, <2>4, <2>5, <2>6, AssignLineFacts DEF line
<1>5. ASSUME NEW t \in on
      PROVE  done[t] \in Accs
    <2>1. PICK k \in DOMAIN media : media[k].type = t
        BY DEF TypesOf
    <2>2. media[k].active
        BY <1>1, <2>1, LineOfFacts
    <2> QED BY <1>4, <2>1, <2>2
<1> HIDE DEF done, on, media
<1>6. ASSUME NEW k \in DOMAIN media
      PROVE  Numbering(media[k], lines[k]) /\ lines[k] \in Lines
    <2>1. media[k] \in Lines
        BY <1>1
    <2>2. CASE ~media[k].active
        BY <2>1, <2>2, NumberingSame
    <2>3. CASE media[k].active
        <3> DEFINE x == media[k]
                   d == done[x.type]
                   y == lines[k]
        <3>1. d \in Accs /\ Done(x.fmts, Len(x.fmts), d)
            BY <1>4, <2>3
        <3>2. d.fmts \in Seq(Fmts) /\ Len(d.fmts) = Len(x.fmts)
              /\ \A i \in 1 .. Len(x.fmts) : Renumbered(x.fmts[i], d.fmts[i])
            BY <3>1 DEF Accs, Done
        <3>3. y = [x EXCEPT !.fmts = d.fmts]
            BY <2>3
        <3> HIDE DEF d, x, y
        <3>4. x \in Lines
            BY <2>1 DEF x
        <3>5. /\ y = [type |-> x.type, active |-> x.active, dir |-> x.dir, fmts |-> y.fmts]
              /\ y.fmts = d.fmts
              /\ x.type \in Types /\ x.active \in BOOLEAN /\ x.dir \in SUBSET {"send", "recv"}
              /\ DOMAIN x.fmts = 1 .. Len(x.fmts)
            BY <3>3, <3>4 DEF Lines
        <3>6. Numbering(x, y)
            BY <3>2, <3>5 DEF Numbering
        <3>7. y \in Lines
            BY <3>2, <3>5 DEF Lines
        <3> QED BY <3>6, <3>7 DEF x, y
    <2> QED BY <2>2, <2>3
<1>7. DOMAIN media = 1 .. Len(media) /\ Len(media) \in Nat
    BY <1>1
<1>8. lines \in Seq(Lines) /\ Len(lines) = Len(media) /\ DOMAIN lines = DOMAIN media
    <2>1. lines = [k \in 1 .. Len(media) |-> lines[k]] /\ \A k \in 1 .. Len(media) : lines[k] \in Lines
        BY <1>6, <1>7
    <2> HIDE DEF lines
    <2> QED BY <1>7, <2>1
<1>9. OneOfEach(lines)
    <2>1. \A k \in DOMAIN media : lines[k].type = media[k].type
        BY <1>6 DEF Numbering
    <2> HIDE DEF lines
    <2> QED BY <1>1, <1>8, <2>1 DEF OneOfEach
<1> HIDE DEF lines, a
<1>10. a.sdp = [ver |-> sdp.ver, media |-> lines]
    BY <1>1, <1>3
<1>11. Described(a.sdp)
    BY <1>8, <1>9, <1>10 DEF Described
<1>12. a.to_codec \in [Types -> CodecMap]
    <2>1. ASSUME NEW t \in Types PROVE a.to_codec[t] \in CodecMap
        <3>1. NoMap[t] \in CodecMap
            BY DEF NoMap, CodecMap
        <3>2. t \in on => done[t].to_codec \in CodecMap
            BY <1>5 DEF Accs
        <3> QED BY <1>3, <3>1, <3>2 DEF Maps
    <2> QED BY <1>3, <2>1 DEF Maps
<1>13. a.to_pt \in [Types -> PtMap]
    <2>1. ASSUME NEW t \in Types PROVE a.to_pt[t] \in PtMap
        <3>1. NoPts[t] \in PtMap
            BY DEF NoPts, PtMap
        <3>2. t \in on => done[t].to_pt \in PtMap
            BY <1>5 DEF Accs
        <3> QED BY <1>3, <3>1, <3>2 DEF Maps
    <2> QED BY <1>3, <2>1 DEF Maps
<1>14. /\ a.sdp.media = lines
      /\ Len(a.sdp.media) = Len(media) /\ \A k \in DOMAIN media : Numbering(media[k], a.sdp.media[k])
    BY <1>6, <1>8, <1>10
<1> QED BY <1>10, <1>11, <1>12, <1>13, <1>14 DEF a, media

-------------------------------------------------------------------------------
(* The offer (modify_local_offer) and the hold in it.                      *)

\* A negotiator between two negotiations.
NegOK(n) ==
    /\ NegShape(n) /\ ~n.has_remote_answer
    /\ n.to_codec \in [Types -> CodecMap] /\ n.to_pt \in [Types -> PtMap]
    /\ Described(n.active_local)

\* No line receives.
NoRecv(media) == \A k \in DOMAIN media : media[k].active => "recv" \notin media[k].dir

\* The formats of a line can be numbered.
Fits(line) == line.active => Cardinality(Dynamic(line.fmts)) <= Cardinality(DynPts)

\* What can be offered.
Offerable(media) ==
    media \in Seq(Lines) /\ OneOfEach(media) /\ media # <<>> /\ \A k \in DOMAIN media : Fits(media[k])

\* The fields of a line.
LEMMA LineFacts ==
    ASSUME NEW line \in Lines
    PROVE  /\ line = [type |-> line.type, active |-> line.active, dir |-> line.dir, fmts |-> line.fmts]
           /\ line.type \in Types /\ line.active \in BOOLEAN /\ line.dir \in SUBSET {"send", "recv"}
           /\ line.fmts \in Seq(Fmts)
    BY DEF Lines

\* A line is turned off.
LEMMA DeactivateFacts ==
    ASSUME NEW line \in Lines
    PROVE  Deactivate(line) \in Lines /\ Deactivate(line).type = line.type /\ ~Deactivate(line).active
<1>1. {"send", "recv"} \in SUBSET {"send", "recv"} /\ FALSE \in BOOLEAN
    OBVIOUS
<1> QED BY <1>1, LineFacts DEF Deactivate, Lines

\* A line of a type that there is.
LEMMA LineOfType ==
    ASSUME NEW media, NEW t \in TypesOf(media)
    PROVE  \E k \in DOMAIN media : LineOf(media, t) = media[k] /\ media[k].type = t
<1>1. \E k \in DOMAIN media : media[k].type = t
    BY DEF TypesOf
<1> QED BY <1>1 DEF LineOf

\* The lines of a new offer are of what is to be offered, or off.
LEMMA OfferLinesFacts ==
    ASSUME NEW old \in Seq(Lines), OneOfEach(old), NEW media, Offerable(media)
    PROVE  LET lines == OfferLines(old, media)
           IN  /\ Offerable(lines)
               /\ NoRecv(media) => NoRecv(lines)
<1> DEFINE S == {line \in Range(media) : line.type \notin TypesOf(old)}
           a == [k \in DOMAIN old |-> IF old[k].type \in TypesOf(media) THEN LineOf(media, old[k].type) ELSE Deactivate(old[k])]
           b == Sublist(media, S)
           lines == a \o b
<1>1. media \in Seq(Lines) /\ OneOfEach(media) /\ media # <<>> /\ \A k \in DOMAIN media : Fits(media[k])
    BY DEF Offerable
<1>2. OfferLines(old, media) = lines
    BY DEF OfferLines
<1>3. ASSUME NEW k \in DOMAIN old
      PROVE  /\ a[k] \in Lines /\ a[k].type = old[k].type /\ Fits(a[k])
             /\ NoRecv(media) => (a[k].active => "recv" \notin a[k].dir)
    <2>1. old[k] \in Lines
        OBVIOUS
    <2>2. CASE old[k].type \in TypesOf(media)
        <3>1. PICK j \in DOMAIN media : a[k] = media[j] /\ media[j].type = old[k].type
            BY <2>2, LineOfType
        <3>2. media[j] \in Lines
            BY <1>1
        <3> QED BY <1>1, <3>1, <3>2 DEF NoRecv
    <2>3. CASE old[k].type \notin TypesOf(media)
        <3>1. a[k] = Deactivate(old[k])
            BY <2>3
        <3> QED BY <2>1, <3>1, DeactivateFacts DEF Fits
    <2> QED BY <2>2, <2>3
<1>4. b \in Seq(Lines) /\ Range(b) = Range(media) \cap S
    BY <1>1, SublistFacts
<1>5. PICK at \in [DOMAIN b -> DOMAIN media] :
          /\ \A i \in DOMAIN b : b[i] = media[at[i]]
          /\ \A i, j \in DOMAIN b : i < j => at[i] < at[j]
    BY <1>1, SublistFacts
<1>6. DOMAIN old = 1 .. Len(old) /\ Len(old) \in Nat /\ DOMAIN b = 1 .. Len(b) /\ Len(b) \in Nat
    BY <1>4
<1>7. a \in Seq(Lines) /\ Len(a) = Len(old)
    <2>1. a = [k \in 1 .. Len(old) |-> a[k]] /\ \A k \in 1 .. Len(old) : a[k] \in Lines
        BY <1>3, <1>6
    <2> HIDE DEF a
    <2> QED BY <1>6, <2>1
<1> HIDE DEF a, b, S
<1>8. lines \in Seq(Lines) /\ Len(lines) = Len(old) + Len(b) /\ DOMAIN lines = 1 .. Len(old) + Len(b)
    BY <1>4, <1>6, <1>7
<1>9. \A k \in DOMAIN lines : lines[k] = IF k <= Len(old) THEN a[k] ELSE b[k - Len(old)]
    BY <1>4, <1>6, <1>7, <1>8
<1>10. \A k \in DOMAIN lines : ~(k <= Len(old)) => k - Len(old) \in DOMAIN b
    BY <1>6, <1>8
<1>11. \A k \in DOMAIN lines : k <= Len(old) => k \in DOMAIN old
    BY <1>6, <1>8
<1> HIDE DEF lines
<1>12. ASSUME NEW j \in DOMAIN b
       PROVE  b[j].type \notin TypesOf(old) /\ b[j] = media[at[j]] /\ at[j] \in DOMAIN media
    <2>1. b[j] \in Range(b)
        BY DEF Range
    <2>2. b[j] \in S
        BY <1>4, <2>1
    <2> QED BY <1>5, <2>2 DEF S
<1>13. ASSUME NEW k \in DOMAIN lines
       PROVE  Fits(lines[k]) /\ (NoRecv(media) => (lines[k].active => "recv" \notin lines[k].dir))
    <2>1. CASE k <= Len(old)
        BY <1>3, <1>9, <1>11, <2>1
    <2>2. CASE ~(k <= Len(old))
        BY <1>1, <1>9, <1>10, <1>12, <2>2 DEF NoRecv
    <2> QED BY <2>1, <2>2
<1>14. ASSUME NEW i \in DOMAIN lines, NEW j \in DOMAIN lines, lines[i].type = lines[j].type, i < j
       PROVE  FALSE
    <2>0. i \in Int /\ j \in Int
        BY <1>8
    <2>1. CASE j <= Len(old)
        <3>1. i <= Len(old) /\ i \in DOMAIN old /\ j \in DOMAIN old
            BY <1>6, <1>11, <1>14, <2>0, <2>1
        <3>2. old[i].type = old[j].type
            BY <1>3, <1>9, <1>14, <2>1, <3>1
        <3> QED BY <1>14, <2>0, <3>1, <3>2 DEF OneOfEach
    <2>2. CASE ~(j <= Len(old)) /\ i <= Len(old)
        <3>1. i \in DOMAIN old /\ j - Len(old) \in DOMAIN b
            BY <1>10, <1>11, <2>2
        <3>2. lines[i].type \in TypesOf(old)
            BY <1>3, <1>9, <2>2, <3>1 DEF TypesOf
        <3>3. lines[j].type \notin TypesOf(old)
            BY <1>9, <1>12, <2>2, <3>1
        <3> QED BY <1>14, <3>2, <3>3
    <2>3. CASE ~(j <= Len(old)) /\ ~(i <= Len(old))
        <3> DEFINE x == i - Len(old)
                   y == j - Len(old)
        <3>1. x \in DOMAIN b /\ y \in DOMAIN b /\ x < y
            BY <1>6, <1>10, <1>14, <2>0, <2>3
        <3>2. lines[i] = b[x] /\ lines[j] = b[y]
            BY <1>9, <2>3
        <3> HIDE DEF x, y
        <3>3. at[x] \in DOMAIN media /\ at[y] \in DOMAIN media /\ at[x] < at[y]
            BY <1>5, <3>1
        <3>4. media[at[x]].type = media[at[y]].type
            BY <1>12, <1>14, <3>1, <3>2
        <3>5. at[x] = at[y]
            BY <1>1, <3>3, <3>4 DEF OneOfEach
        <3>6. DOMAIN media \subseteq Int
            BY <1>1
        <3> QED BY <3>3, <3>5, <3>6
    <2> QED BY <2>1, <2>2, <2>3
<1>15. OneOfEach(lines)
    <2>1. \A i, j \in DOMAIN lines : i = j \/ i < j \/ j < i
        BY <1>6, <1>8
    <2> QED BY <1>14, <2>1 DEF OneOfEach
<1>16. lines # <<>>
    <2>1. SUFFICES ASSUME lines = <<>> PROVE FALSE
        OBVIOUS
    <2>2. DOMAIN lines = {}
        BY <2>1
    <2> DEFINE x == Len(old)
               y == Len(b)
    <2>a. x \in Nat /\ y \in Nat /\ 1 .. x + y = {}
        BY <1>6, <1>8, <2>2
    <2> HIDE DEF x, y
    <2>b. 1 \notin 1 .. x + y
        BY <2>a
    <2>c. x = 0 /\ y = 0
        BY <2>a, <2>b
    <2>3. Len(old) = 0 /\ Len(b) = 0
        BY <2>c DEF x, y
    <2>4. DOMAIN old = {} /\ DOMAIN b = {}
        BY <1>6, <2>3
    <2>5. TypesOf(old) = {} /\ Range(b) = {}
        BY <2>4 DEF TypesOf, Range
    <2>6. 1 \in DOMAIN media
        BY <1>1
    <2>7. media[1] \in Range(media) \cap S
        BY <2>5, <2>6 DEF Range, S
    <2> QED BY <1>4, <2>5, <2>7
<1>17. Offerable(lines)
    BY <1>8, <1>13, <1>15, <1>16 DEF Offerable
<1>18. NoRecv(media) => NoRecv(lines)
    BY <1>13 DEF NoRecv
<1> QED BY <1>2, <1>17, <1>18

\* Only the version changes.
LEMMA BumpedFacts ==
    ASSUME NEW last, NEW sdp, Described(sdp)
    PROVE  Described(Bumped(last, sdp)) /\ Bumped(last, sdp).media = sdp.media
<1>1. sdp = [ver |-> sdp.ver, media |-> sdp.media]
    BY DEF Described
<1>2. CASE session_cmp(last, sdp)
    BY <1>2 DEF Bumped
<1>3. CASE ~session_cmp(last, sdp)
    <2> DEFINE v == sdp.ver + 1
    <2>1. Bumped(last, sdp) = [sdp EXCEPT !.ver = v]
        BY <1>3 DEF Bumped
    <2> HIDE DEF v
    <2>2. Bumped(last, sdp) = [ver |-> v, media |-> sdp.media]
        BY <1>1, <2>1
    <2> QED BY <2>2 DEF Described
<1> QED BY <1>2, <1>3

\* An offer of ours has lines, it leaves what is active alone, and it receives nothing unless
\* what was to be offered does.
LEMMA MakeOffer ==
    ASSUME NEW n, NegOK(n), NEW media, Offerable(media)
    PROVE  LET o == modify_local_offer(n, media)
           IN  /\ NegOK(o) /\ o.state = "LOCAL_OFFER" /\ o.active_local = n.active_local
               /\ Described(o.neg_local) /\ o.neg_local # NoSdp
               /\ NoRecv(media) => NoRecv(o.neg_local.media)
<1> DEFINE lines == OfferLines(n.active_local.media, media)
           sdp == [ver |-> n.active_local.ver, media |-> lines]
           fixed == assign_pt_and_update_map(n, sdp, TRUE)
           offer == Bumped(n.last_sent, fixed.sdp)
           o == OfferOf(n, offer, fixed)
<1>1. modify_local_offer(n, media) = o
    BY DEF modify_local_offer, NumberedOffer
<1>2. n.active_local.media \in Seq(Lines) /\ OneOfEach(n.active_local.media)
    BY DEF NegOK, Described
<1>3. Offerable(lines) /\ (NoRecv(media) => NoRecv(lines))
    BY <1>2, OfferLinesFacts
<1> HIDE DEF lines
<1>4. sdp.media = lines /\ Described(sdp)
    BY <1>3 DEF Described, Offerable
<1> HIDE DEF sdp
<1>5. \A k \in DOMAIN sdp.media : sdp.media[k].active =>
          Cardinality(Dynamic(sdp.media[k].fmts)) <= Cardinality(DynPts)
    BY <1>3, <1>4 DEF Offerable, Fits
<1>6. /\ fixed.sdp = [ver |-> sdp.ver, media |-> fixed.sdp.media] /\ Described(fixed.sdp)
      /\ Len(fixed.sdp.media) = Len(sdp.media)
      /\ \A k \in DOMAIN sdp.media : Numbering(sdp.media[k], fixed.sdp.media[k])
      /\ fixed.to_codec \in [Types -> CodecMap] /\ fixed.to_pt \in [Types -> PtMap]
    BY <1>4, <1>5, AssignFacts DEF NegOK
<1> HIDE DEF fixed
<1>7. Described(offer) /\ offer.media = fixed.sdp.media
    BY <1>6, BumpedFacts
<1> HIDE DEF offer
<1>8. NegShape(n) /\ ~n.has_remote_answer /\ Described(n.active_local)
    BY DEF NegOK
<1>9. /\ NegShape(o) /\ o.state = "LOCAL_OFFER" /\ o.active_local = n.active_local
      /\ o.neg_local = offer /\ o.has_remote_answer = n.has_remote_answer
      /\ o.to_codec = fixed.to_codec /\ o.to_pt = fixed.to_pt
    BY <1>8 DEF NegShape, OfferOf
<1> HIDE DEF o
<1>10. NegOK(o)
    BY <1>6, <1>8, <1>9 DEF NegOK
<1>11. DOMAIN lines = 1 .. Len(lines) /\ DOMAIN offer.media = 1 .. Len(lines) /\ Len(lines) \in Nat
       /\ lines # <<>>
    BY <1>3, <1>4, <1>6, <1>7 DEF Described, Offerable
<1>12. offer # NoSdp
    <2>1. 1 \in DOMAIN lines
        BY <1>3, <1>11 DEF Offerable
    <2>2. offer.media # <<>>
        BY <1>11, <2>1
    <2> QED BY <2>2 DEF NoSdp
<1>13. ASSUME NoRecv(media) PROVE NoRecv(offer.media)
    <2>1. ASSUME NEW k \in DOMAIN offer.media, offer.media[k].active PROVE "recv" \notin offer.media[k].dir
        <3>1. k \in DOMAIN lines /\ Numbering(lines[k], offer.media[k])
            BY <1>4, <1>6, <1>7, <1>11
        <3>2. offer.media[k].active = lines[k].active /\ offer.media[k].dir = lines[k].dir
            BY <3>1 DEF Numbering
        <3> QED BY <1>3, <1>13, <2>1, <3>1, <3>2 DEF NoRecv
    <2> QED BY <2>1 DEF NoRecv
<1> QED BY <1>1, <1>7, <1>9, <1>10, <1>12, <1>13

\* The offer of a hold receives nothing.
LEMMA HoldOfferFacts ==
    ASSUME NEW s, NEW media, Offerable(media)
    PROVE  Offerable(HoldOffer(s, media)) /\ NoRecv(HoldOffer(s, media))
<1> DEFINE h == HoldOffer(s, media)
<1>1. media \in Seq(Lines) /\ OneOfEach(media) /\ media # <<>> /\ \A k \in DOMAIN media : Fits(media[k])
    BY DEF Offerable
<1>2. DOMAIN media = 1 .. Len(media) /\ Len(media) \in Nat /\ 1 \in DOMAIN media
    BY <1>1
<1>3. PICK d : DOMAIN d = DOMAIN media /\ h = [k \in DOMAIN media |-> [media[k] EXCEPT !.dir = d[k]]]
               /\ \A k \in DOMAIN media : d[k] \in {{"send"}, {}}
    <2> DEFINE active == s.neg.active_local.media
               sends(t) == /\ t \in TypesOf(active)
                           /\ LineOf(active, t).active /\ "send" \in LineOf(active, t).dir
               d == [k \in DOMAIN media |-> IF sends(media[k].type) THEN {"send"} ELSE {}]
    <2>1. h = [k \in DOMAIN media |-> [media[k] EXCEPT !.dir = IF sends(media[k].type) THEN {"send"} ELSE {}]]
        BY DEF HoldOffer
    <2> HIDE DEF h, sends
    <2>2. h = [k \in DOMAIN media |-> [media[k] EXCEPT !.dir = d[k]]]
        BY <2>1
    <2>3. \A k \in DOMAIN media : d[k] \in {{"send"}, {}}
        OBVIOUS
    <2>4. DOMAIN d = DOMAIN media
        OBVIOUS
    <2> HIDE DEF d
    <2> QED BY <2>2, <2>3, <2>4
<1> HIDE DEF h
<1>4. ASSUME NEW k \in DOMAIN media
      PROVE  /\ h[k] \in Lines /\ h[k].type = media[k].type /\ Fits(h[k])
             /\ "recv" \notin h[k].dir
    <2> DEFINE x == media[k]
    <2>1. x \in Lines /\ Fits(x)
        BY <1>1
    <2>2. h[k] = [x EXCEPT !.dir = d[k]] /\ d[k] \in {{"send"}, {}}
        BY <1>3
    <2> HIDE DEF x
    <2>3. h[k] = [type |-> x.type, active |-> x.active, dir |-> d[k], fmts |-> x.fmts]
        BY <2>1, <2>2, LineFacts
    <2>4. x.type \in Types /\ x.active \in BOOLEAN /\ x.fmts \in Seq(Fmts) /\ d[k] \in SUBSET {"send", "recv"}
          /\ "recv" \notin d[k]
        BY <2>1, <2>2, LineFacts
    <2>5. h[k] \in Lines
        BY <2>3, <2>4 DEF Lines
    <2>6. Fits(h[k])
        BY <2>1, <2>3 DEF Fits
    <2> QED BY <2>3, <2>4, <2>5, <2>6 DEF x
<1>5. h = [k \in 1 .. Len(media) |-> h[k]] /\ \A k \in 1 .. Len(media) : h[k] \in Lines
    BY <1>2, <1>3, <1>4
<1>6. h \in Seq(Lines) /\ DOMAIN h = DOMAIN media /\ h # <<>>
    BY <1>2, <1>5
<1>7. OneOfEach(h)
    BY <1>1, <1>4, <1>6 DEF OneOfEach
<1>8. Offerable(h)
    BY <1>4, <1>6, <1>7 DEF Offerable
<1>9. NoRecv(h)
    BY <1>4, <1>6 DEF NoRecv
<1> QED BY <1>8, <1>9 DEF h

-------------------------------------------------------------------------------
(* The answer (create_answer), ours and what it uses.                      *)

\* A line of an answer: it is on only if that of the offer is, it sends what the offer receives
\* and receives what the offer sends, in one of the offer's formats.
AnswerLine(o, a) ==
    /\ a.type = o.type
    /\ a.active => /\ o.active /\ a.dir \subseteq Mirror(o.dir)
                   /\ Len(a.fmts) = 1 /\ \E g \in Range(o.fmts) : SameFmt(g, a.fmts[1])

AnswerTo(o, a) ==
    /\ Len(a.media) = Len(o.media) /\ has_active(a)
    /\ \A k \in DOMAIN o.media : AnswerLine(o.media[k], a.media[k])

\* A function on 1 .. n is a sequence.
LEMMA TupleFacts ==
    ASSUME NEW n \in Nat, NEW S, NEW f, f = [k \in 1 .. n |-> f[k]], \A k \in 1 .. n : f[k] \in S
    PROVE  f \in Seq(S) /\ Len(f) = n /\ DOMAIN f = 1 .. n
<1>1. f \in Seq(S)
    OBVIOUS
<1>2. DOMAIN f = 1 .. n
    OBVIOUS
<1> QED BY <1>1, <1>2

\* One format can be numbered.
LEMMA OneFits ==
    ASSUME NEW line, NEW f \in Fmts, line.fmts = <<f>>
    PROVE  Fits(line)
<1>1. Cardinality(DynPts) \in Nat
    BY DynPtsFinite, FS_CardinalityType
<1>2. CASE f.pt < START_DYNAMIC_PT
    <2>1. Dynamic(line.fmts) = {}
        BY <1>2 DEF Dynamic
    <2>2. Cardinality(Dynamic(line.fmts)) = 0
        BY <2>1, FS_EmptySet
    <2> QED BY <1>1, <2>2 DEF Fits
<1>3. CASE ~(f.pt < START_DYNAMIC_PT)
    <2>1. Dynamic(line.fmts) = {1}
        BY <1>3 DEF Dynamic
    <2>2. Cardinality(Dynamic(line.fmts)) = 1
        BY <2>1, FS_Singleton
    <2>3. f.pt \in DynPts
        BY <1>3, FmtFacts DEF DynFmts
    <2>4. Cardinality(DynPts) # 0
        BY <2>3, DynPtsFinite, FS_EmptySet
    <2> QED BY <1>1, <2>2, <2>4 DEF Fits
<1> QED BY <1>2, <1>3

\* The answer to a line of an offer.
LEMMA MatchFacts ==
    ASSUME NEW o \in Lines, NEW pre \in Lines, pre.type = o.type
    PROVE  LET x == match_offer(o, pre)
           IN  x \in Lines /\ Fits(x) /\ AnswerLine(o, x) /\ (x.active => x.dir \subseteq pre.dir)
<1> DEFINE x == match_offer(o, pre)
           common == Common(o, pre)
<1>1. ASSUME NEW y \in Lines, y.type = o.type, ~y.active
      PROVE  Fits(y) /\ AnswerLine(o, y) /\ (y.active => y.dir \subseteq pre.dir)
    BY <1>1 DEF Fits, AnswerLine
<1>2. CASE ~o.active
    <2>1. x = Deactivate(o)
        BY <1>2 DEF match_offer
    <2> HIDE DEF x
    <2> QED BY <1>1, <2>1, DeactivateFacts DEF x
<1>3. CASE o.active /\ ~pre.active
    <2>1. x = pre
        BY <1>3 DEF match_offer
    <2> QED BY <1>1, <1>3, <2>1
<1>4. CASE o.active /\ pre.active
    <2>1. x = Answer_m(o, pre, common)
        BY <1>4 DEF match_offer
    <2>2. CASE common = {}
        <3>1. x = Deactivate(o)
            BY <2>1, <2>2 DEF Answer_m
        <3> HIDE DEF x
        <3> QED BY <1>1, <3>1, DeactivateFacts DEF x
    <2>3. CASE common # {}
        <3>1. o.fmts \in Seq(Fmts) /\ o.active \in BOOLEAN
            BY LineFacts
        <3>2. common \subseteq DOMAIN o.fmts
            BY DEF Common
        <3> HIDE DEF common
        <3>3. common \in SUBSET Nat
            BY <3>1, <3>2
        <3>4. \E n \in common : \A m \in common : n <= m
            BY <2>3, <3>3, LeastNumber
        <3>5. First(common) \in common
            BY <3>4 DEF First
        <3> DEFINE f == o.fmts[First(common)]
                   dir == pre.dir \cap Mirror(o.dir)
        <3>6. f \in Fmts /\ f \in Range(o.fmts)
            BY <3>1, <3>2, <3>5 DEF Range
        <3>7. x = [pre EXCEPT !.dir = dir, !.fmts = <<f>>]
            BY <2>1, <2>3, LineFacts DEF Answer_m, update_media_direction
        <3>8. dir \subseteq pre.dir /\ dir \subseteq Mirror(o.dir)
            OBVIOUS
        <3> HIDE DEF f, dir, x
        <3>9. x = [type |-> pre.type, active |-> pre.active, dir |-> dir, fmts |-> <<f>>]
            <4>1. pre = [type |-> pre.type, active |-> pre.active, dir |-> pre.dir, fmts |-> pre.fmts]
                BY LineFacts
            <4> DEFINE l == <<f>>
            <4>2. x = [pre EXCEPT !.dir = dir, !.fmts = l]
                BY <3>7
            <4> HIDE DEF l
            <4>3. x = [type |-> pre.type, active |-> pre.active, dir |-> dir, fmts |-> l]
                BY <4>1, <4>2
            <4> QED BY <4>3 DEF l
        <3>10. pre.type \in Types /\ pre.active \in BOOLEAN /\ dir \in SUBSET {"send", "recv"} /\ <<f>> \in Seq(Fmts)
            BY <3>6, <3>8, LineFacts
        <3>11. x \in Lines
            BY <3>9, <3>10 DEF Lines
        <3>12. x.type = o.type /\ x.dir = dir /\ x.fmts = <<f>>
            BY <3>9
        <3>13. Fits(x)
            BY <3>6, <3>12, OneFits
        <3>14. Len(x.fmts) = 1 /\ x.fmts[1] = f /\ SameFmt(f, f)
            BY <3>12 DEF SameFmt
        <3>15. AnswerLine(o, x)
            BY <1>4, <3>6, <3>8, <3>12, <3>14 DEF AnswerLine
        <3> QED BY <3>8, <3>11, <3>12, <3>13, <3>15 DEF x
    <2> QED BY <2>2, <2>3
<1>5. o.active \in BOOLEAN /\ pre.active \in BOOLEAN
    BY LineFacts
<1> QED BY <1>2, <1>3, <1>4, <1>5

\* What PJSUA could answer with: a line for each of the offer, which does not receive in a hold.
LEMMA LocalAnswerFacts ==
    ASSUME NEW p \in Parties, NEW s, NEW sdp, Described(sdp)
    PROVE  LET lines == LocalAnswer(p, s, sdp)
           IN  /\ lines \in Seq(Lines) /\ Len(lines) = Len(sdp.media)
               /\ \A k \in DOMAIN sdp.media :
                     /\ lines[k].type = sdp.media[k].type
                     /\ s.local_hold => "recv" \notin lines[k].dir
<1> DEFINE lines == LocalAnswer(p, s, sdp)
<1>1. sdp.media \in Seq(Lines)
    BY DEF Described
<1>2. DOMAIN sdp.media = 1 .. Len(sdp.media) /\ Len(sdp.media) \in Nat
    BY <1>1
<1>3. Media[p] \in Seq(Lines)
    BY SdpMediaAssumption
<1>4. ASSUME NEW k \in DOMAIN sdp.media
      PROVE  /\ lines[k] \in Lines /\ lines[k].type = sdp.media[k].type
             /\ s.local_hold => "recv" \notin lines[k].dir
    <2> DEFINE om == sdp.media[k]
               can == om.active /\ om.type \in TypesOf(Media[p])
               line == IF can THEN LineOf(Media[p], om.type) ELSE Deactivate(om)
    <2>1. om \in Lines
        BY <1>1
    <2>2. line \in Lines /\ line.type = om.type
        <3>1. CASE can
            <4>1. PICK j \in DOMAIN Media[p] : LineOf(Media[p], om.type) = Media[p][j] /\ Media[p][j].type = om.type
                BY <3>1, LineOfType
            <4>2. Media[p][j] \in Lines
                BY <1>3
            <4> QED BY <3>1, <4>1, <4>2
        <3>2. CASE ~can
            <4> HIDE DEF om
            <4> QED BY <2>1, <3>2, DeactivateFacts
        <3> QED BY <3>1, <3>2
    <2>3. lines[k] = IF s.local_hold THEN [line EXCEPT !.dir = {"send"}] ELSE line
        BY DEF LocalAnswer
    <2> HIDE DEF line, om, lines
    <2>4. CASE s.local_hold
        <3>1. lines[k] = [type |-> line.type, active |-> line.active, dir |-> {"send"}, fmts |-> line.fmts]
            BY <2>2, <2>3, <2>4, LineFacts
        <3>2. line.type \in Types /\ line.active \in BOOLEAN /\ {"send"} \in SUBSET {"send", "recv"}
              /\ line.fmts \in Seq(Fmts) /\ "recv" \notin {"send"}
            BY <2>2, LineFacts
        <3>3. lines[k] \in Lines
            BY <3>1, <3>2 DEF Lines
        <3> QED BY <2>2, <3>1, <3>2, <3>3 DEF om
    <2>5. CASE ~s.local_hold
        BY <2>2, <2>3, <2>5 DEF om
    <2> QED BY <2>4, <2>5
<1>5. lines = [k \in 1 .. Len(sdp.media) |-> lines[k]]
    BY <1>2 DEF LocalAnswer
<1> HIDE DEF lines
<1>6. lines \in Seq(Lines) /\ Len(lines) = Len(sdp.media)
    BY <1>2, <1>4, <1>5
<1> QED BY <1>4, <1>6 DEF lines

\* The answer from it, before it is numbered.
LEMMA CreateAnswerFacts ==
    ASSUME NEW pre, NEW sdp, Described(sdp), pre = [ver |-> 0, media |-> pre.media],
           pre.media \in Seq(Lines), Len(pre.media) = Len(sdp.media),
           \A k \in DOMAIN sdp.media : pre.media[k].type = sdp.media[k].type
    PROVE  LET a == create_answer(pre, sdp)
           IN  /\ Described(a) /\ Len(a.media) = Len(sdp.media)
               /\ \A k \in DOMAIN sdp.media :
                     /\ Fits(a.media[k]) /\ AnswerLine(sdp.media[k], a.media[k])
                     /\ a.media[k].active => a.media[k].dir \subseteq pre.media[k].dir
<1> DEFINE a == create_answer(pre, sdp)
           lines == [k \in DOMAIN sdp.media |-> match_offer(sdp.media[k], pre.media[k])]
<1>1. sdp.media \in Seq(Lines) /\ OneOfEach(sdp.media)
    BY DEF Described
<1>2. DOMAIN sdp.media = 1 .. Len(sdp.media) /\ Len(sdp.media) \in Nat /\ DOMAIN pre.media = DOMAIN sdp.media
    BY <1>1
<1>3. OneOfEach(pre.media)
    BY <1>1, <1>2 DEF OneOfEach
<1>4. ASSUME NEW k \in DOMAIN sdp.media
      PROVE  /\ sdp.media[k].type \in TypesOf(pre.media)
             /\ LineOf(pre.media, sdp.media[k].type) = pre.media[k]
    BY <1>2, <1>3, LineOfFacts
<1>5. a = [pre EXCEPT !.media = lines]
    BY <1>4 DEF create_answer
<1>6. ASSUME NEW k \in DOMAIN sdp.media
      PROVE  /\ lines[k] \in Lines /\ Fits(lines[k]) /\ AnswerLine(sdp.media[k], lines[k])
             /\ lines[k].active => lines[k].dir \subseteq pre.media[k].dir
    <2>1. sdp.media[k] \in Lines /\ pre.media[k] \in Lines
        BY <1>1, <1>2
    <2> QED BY <2>1, MatchFacts
<1>7. lines = [k \in 1 .. Len(sdp.media) |-> lines[k]]
    BY <1>2
<1> HIDE DEF lines, a
<1>8. lines \in Seq(Lines) /\ Len(lines) = Len(sdp.media) /\ DOMAIN lines = DOMAIN sdp.media
    <2>1. \A k \in 1 .. Len(sdp.media) : lines[k] \in Lines
        BY <1>2, <1>6
    <2>2. Len(sdp.media) \in Nat
        BY <1>2
    <2>3. lines \in Seq(Lines) /\ Len(lines) = Len(sdp.media) /\ DOMAIN lines = 1 .. Len(sdp.media)
        BY <1>7, <2>1, <2>2, TupleFacts
    <2> QED BY <1>2, <2>3
<1>9. OneOfEach(lines)
    BY <1>1, <1>6, <1>8 DEF OneOfEach, AnswerLine
<1>10. a = [ver |-> 0, media |-> lines]
    BY <1>5
<1>11. Described(a)
    BY <1>8, <1>9, <1>10 DEF Described
<1> QED BY <1>6, <1>8, <1>10, <1>11 DEF a

\* Numbers make no difference to whether a line is an answer.
LEMMA NumberedAnswerLine ==
    ASSUME NEW o \in Lines, NEW x \in Lines, NEW y, AnswerLine(o, x), Numbering(x, y)
    PROVE  AnswerLine(o, y) /\ y.active = x.active /\ y.dir = x.dir
<1>1. y.type = x.type /\ y.active = x.active /\ y.dir = x.dir /\ Len(y.fmts) = Len(x.fmts)
    BY DEF Numbering
<1>2. ASSUME y.active PROVE \E g \in Range(o.fmts) : SameFmt(g, y.fmts[1])
    <2>1. PICK g \in Range(o.fmts) : SameFmt(g, x.fmts[1])
        BY <1>1, <1>2 DEF AnswerLine
    <2>2. Len(x.fmts) = 1 /\ x.fmts \in Seq(Fmts)
        BY <1>1, <1>2, LineFacts DEF AnswerLine
    <2>3. 1 \in DOMAIN x.fmts /\ x.fmts[1] \in Fmts
        BY <2>2
    <2>4. Renumbered(x.fmts[1], y.fmts[1])
        BY <2>3 DEF Numbering
    <2> DEFINE f == x.fmts[1]
               h == y.fmts[1]
    <2>5. g \in Fmts
        <3>1. o.fmts \in Seq(Fmts)
            BY LineFacts
        <3> QED BY <2>1, <3>1 DEF Range
    <2>6. f \in Fmts /\ Renumbered(f, h) /\ SameFmt(g, f)
        BY <2>1, <2>3, <2>4
    <2> HIDE DEF f, h
    <2>7. SameFmt(g, h)
        <3>1. CASE g.pt < START_DYNAMIC_PT
            <4>1. f.pt = g.pt
                BY <2>6, <3>1 DEF SameFmt
            <4>2. h = f
                BY <2>6, <3>1, <4>1 DEF Renumbered
            <4> QED BY <2>6, <4>2
        <3>2. CASE ~(g.pt < START_DYNAMIC_PT)
            <4>1. f.codec = g.codec
                BY <2>6, <3>2 DEF SameFmt
            <4>2. h.codec = f.codec
                BY <2>6 DEF Renumbered
            <4> QED BY <3>2, <4>1, <4>2 DEF SameFmt
        <3> QED BY <3>1, <3>2
    <2> QED BY <2>1, <2>7 DEF h
<1> QED BY <1>1, <1>2 DEF AnswerLine

\* The lines that two parties use are the same, and what one may send the other may receive.
SameCodecs(x, y) == [i \in DOMAIN x |-> x[i].codec] = [i \in DOMAIN y |-> y[i].codec]

AgreeLine(x, y) ==
    /\ x.type = y.type /\ x.active = y.active
    /\ x.active => x.dir = Mirror(y.dir) /\ SameCodecs(x.fmts, y.fmts)

Agree(x, y) == Len(x) = Len(y) /\ \A k \in DOMAIN x : AgreeLine(x[k], y[k])

\* Directions seen from the other side, and back.
LEMMA MirrorFacts ==
    ASSUME NEW d \in SUBSET {"send", "recv"}
    PROVE  Mirror(Mirror(d)) = d /\ Mirror(d) \in SUBSET {"send", "recv"}
    BY DEF Mirror

\* Agreement is mutual.
LEMMA AgreeSym ==
    ASSUME NEW x \in Seq(Lines), NEW y \in Seq(Lines), Agree(x, y)
    PROVE  Agree(y, x)
<1>1. Len(x) = Len(y) /\ DOMAIN x = DOMAIN y
    BY DEF Agree
<1>2. ASSUME NEW k \in DOMAIN y PROVE AgreeLine(y[k], x[k])
    <2>1. x[k] \in Lines /\ y[k] \in Lines /\ AgreeLine(x[k], y[k])
        BY <1>1 DEF Agree
    <2> QED BY <2>1, LineFacts, MirrorFacts DEF AgreeLine, SameCodecs
<1> QED BY <1>1, <1>2 DEF Agree

\* The end of a negotiation.
LEMMA ClearedFacts ==
    ASSUME NEW n, NegShape(n)
    PROVE  /\ NegShape(Cleared(n)) /\ ~Cleared(n).has_remote_answer
           /\ Cleared(n).active_local = n.active_local
           /\ Cleared(n).to_codec = n.to_codec /\ Cleared(n).to_pt = n.to_pt
    BY DEF NegShape, Cleared

\* r is what negotiating its own answer to the offer of n does for s: the answer is in use,
\* or what was in use is.
Given(s, n, r) ==
    /\ NegOK(r.neg) /\ r.neg.state = "DONE"
    /\ IF r.ok THEN /\ AnswerTo(n.neg_remote, r.neg.active_local)
                    /\ s.local_hold => NoRecv(r.neg.active_local.media)
       ELSE r.neg.active_local = n.active_local

\* The answer to an offer is an answer to it, which does not receive in a hold; when there
\* is none what was active stays.
LEMMA GiveAnswer ==
    ASSUME NEW p \in Parties, NEW s, NEW n, NegOK(n), Described(n.neg_remote)
    PROVE  Given(s, n, negotiate(set_local_answer(n, LocalAnswer(p, s, n.neg_remote))))
<1> DEFINE sdp == n.neg_remote
           lines == LocalAnswer(p, s, sdp)
           k == set_local_answer(n, lines)
           initial == create_answer(k.neg_local, k.neg_remote)
           fixed == assign_pt_and_update_map(k, initial, FALSE)
           named == [fixed.sdp EXCEPT !.ver = k.last_sent.ver]
           answer == Bumped(k.last_sent, named)
           new == AnswerOf(k, answer, fixed)
           r == negotiate(k)
<1>1. lines \in Seq(Lines) /\ Len(lines) = Len(sdp.media)
      /\ \A j \in DOMAIN sdp.media : /\ lines[j].type = sdp.media[j].type
                                     /\ s.local_hold => "recv" \notin lines[j].dir
    BY LocalAnswerFacts
<1> HIDE DEF lines
<1>2. /\ NegShape(k) /\ k.neg_local = [ver |-> 0, media |-> lines] /\ k.neg_remote = sdp
      /\ k.active_local = n.active_local /\ ~k.has_remote_answer
      /\ k.to_codec \in [Types -> CodecMap] /\ k.to_pt \in [Types -> PtMap]
    BY DEF NegOK, NegShape, set_local_answer
<1>3. r = Concluded(k, new)
    BY <1>2 DEF negotiate, Answered, NumberedAnswer
<1>3a. Described(sdp)
    OBVIOUS
<1> HIDE DEF k, r, sdp
<1>4. /\ Described(initial) /\ Len(initial.media) = Len(sdp.media)
      /\ \A j \in DOMAIN sdp.media :
            /\ Fits(initial.media[j]) /\ AnswerLine(sdp.media[j], initial.media[j])
            /\ initial.media[j].active => initial.media[j].dir \subseteq lines[j].dir
    <2> DEFINE pre == k.neg_local
    <2>1. pre.media = lines /\ pre = [ver |-> 0, media |-> pre.media]
        BY <1>2
    <2> HIDE DEF pre
    <2>2. pre.media \in Seq(Lines) /\ Len(pre.media) = Len(sdp.media)
          /\ \A j \in DOMAIN sdp.media : pre.media[j].type = sdp.media[j].type
        BY <1>1, <2>1
    <2>3. initial = create_answer(pre, sdp)
        BY <1>2 DEF pre
    <2> HIDE DEF initial
    <2> QED BY <1>3a, <2>1, <2>2, <2>3, CreateAnswerFacts
<1> HIDE DEF initial
<1>5. DOMAIN sdp.media = 1 .. Len(sdp.media) /\ DOMAIN initial.media = DOMAIN sdp.media
    BY <1>3a, <1>4 DEF Described
<1>6. \A j \in DOMAIN initial.media : initial.media[j].active =>
          Cardinality(Dynamic(initial.media[j].fmts)) <= Cardinality(DynPts)
    BY <1>4, <1>5 DEF Fits
<1>7. /\ fixed.sdp = [ver |-> initial.ver, media |-> fixed.sdp.media] /\ Described(fixed.sdp)
      /\ Len(fixed.sdp.media) = Len(initial.media)
      /\ \A j \in DOMAIN initial.media : Numbering(initial.media[j], fixed.sdp.media[j])
      /\ fixed.to_codec \in [Types -> CodecMap] /\ fixed.to_pt \in [Types -> PtMap]
    BY <1>2, <1>4, <1>6, AssignFacts
<1> HIDE DEF fixed
<1>8. Described(named) /\ named.media = fixed.sdp.media
    <2> DEFINE v == k.last_sent.ver
    <2>1. named = [ver |-> v, media |-> fixed.sdp.media]
        BY <1>7
    <2> HIDE DEF v
    <2> QED BY <1>7, <2>1 DEF Described
<1> HIDE DEF named
<1>9. Described(answer) /\ answer.media = fixed.sdp.media
    BY <1>8, BumpedFacts
<1> HIDE DEF answer
<1>10. /\ NegShape(new) /\ new.state = "DONE" /\ new.active_local = answer
       /\ ~new.has_remote_answer /\ new.to_codec = fixed.to_codec /\ new.to_pt = fixed.to_pt
    BY <1>2 DEF NegShape, AnswerOf, Cleared
<1> HIDE DEF new
<1>11. ASSUME NEW j \in DOMAIN sdp.media
       PROVE  /\ AnswerLine(sdp.media[j], answer.media[j])
              /\ s.local_hold => (answer.media[j].active => "recv" \notin answer.media[j].dir)
    <2> DEFINE o == sdp.media[j]
               x == initial.media[j]
               y == answer.media[j]
    <2>1. o \in Lines /\ x \in Lines
        BY <1>3a, <1>4, <1>5 DEF Described
    <2>2. AnswerLine(o, x) /\ Numbering(x, y) /\ (x.active => x.dir \subseteq lines[j].dir)
          /\ (s.local_hold => "recv" \notin lines[j].dir)
        BY <1>1, <1>4, <1>5, <1>7, <1>9
    <2> HIDE DEF o, x, y
    <2>3. AnswerLine(o, y) /\ y.active = x.active /\ y.dir = x.dir
        BY <2>1, <2>2, NumberedAnswerLine
    <2> QED BY <2>2, <2>3 DEF o, y
<1>12. DOMAIN answer.media = DOMAIN sdp.media /\ Len(answer.media) = Len(sdp.media)
    BY <1>3a, <1>4, <1>7, <1>9 DEF Described
<1>13. ASSUME has_active(answer) PROVE Given(s, n, r)
    <2>1. r = [ok |-> TRUE, neg |-> new]
        BY <1>3, <1>10, <1>13 DEF Concluded
    <2>2. NegOK(new)
        BY <1>7, <1>9, <1>10 DEF NegOK
    <2>3. AnswerTo(sdp, answer)
        BY <1>11, <1>12, <1>13 DEF AnswerTo
    <2>4. s.local_hold => NoRecv(answer.media)
        BY <1>11, <1>12 DEF NoRecv
    <2> QED BY <1>10, <2>1, <2>2, <2>3, <2>4 DEF Given, sdp
<1>14. ASSUME ~has_active(answer) PROVE Given(s, n, r)
    <2>1. r = [ok |-> FALSE, neg |-> Cleared(k)]
        BY <1>3, <1>10, <1>14 DEF Concluded
    <2>2. Cleared(k).state = "DONE"
        BY <1>2, CancelFacts DEF cancel_offer
    <2>3. NegOK(Cleared(k)) /\ Cleared(k).active_local = n.active_local
        BY <1>2, ClearedFacts DEF NegOK
    <2> QED BY <2>1, <2>2, <2>3 DEF Given
<1> QED BY <1>13, <1>14 DEF r, k, lines, sdp

-------------------------------------------------------------------------------
(* The answer of the other party (process_answer).                         *)

\* A format of the offer and one of the answer that match have one codec.
LEMMA SameCodec ==
    ASSUME NEW g \in Fmts, NEW f \in Fmts, SameFmt(g, f)
    PROVE  g.codec = f.codec
<1>1. CASE g.pt < START_DYNAMIC_PT
    <2>1. f.pt = g.pt
        BY <1>1 DEF SameFmt
    <2>2. g \in StaticFmts /\ f \in StaticFmts
        BY <1>1, <2>1, FmtFacts DEF Fmts, DynFmts
    <2>3. g = f
        BY <2>1, <2>2, SdpMediaAssumption
    <2> QED BY <2>3
<1>2. CASE ~(g.pt < START_DYNAMIC_PT)
    BY <1>2 DEF SameFmt
<1> QED BY <1>1, <1>2

\* The one format of an answer is kept.
LEMMA KeptFormat ==
    ASSUME NEW s \in Seq(Fmts), Len(s) = 1, NEW S, s[1] \in S
    PROVE  Sublist(s, S) = <<s[1]>>
<1> DEFINE x == Sublist(s, S)
<1>1. DOMAIN s = {1}
    OBVIOUS
<1>2. x \in Seq(Fmts) /\ Range(x) = Range(s) \cap S
    BY SublistFacts
<1>3. PICK at \in [DOMAIN x -> DOMAIN s] :
          /\ \A i \in DOMAIN x : x[i] = s[at[i]]
          /\ \A i, j \in DOMAIN x : i < j => at[i] < at[j]
    BY SublistFacts
<1> HIDE DEF x
<1>4. s[1] \in Range(x)
    BY <1>1, <1>2 DEF Range
<1>5. DOMAIN x # {}
    BY <1>4 DEF Range
<1>6. 2 \notin DOMAIN x
    <2>1. SUFFICES ASSUME 2 \in DOMAIN x PROVE FALSE
        OBVIOUS
    <2>2. 1 \in DOMAIN x
        BY <1>2, <2>1
    <2>3. at[1] < at[2] /\ at[1] = 1 /\ at[2] = 1
        BY <1>1, <1>3, <2>1, <2>2
    <2> QED BY <2>3
<1>7. Len(x) = 1
    BY <1>2, <1>5, <1>6
<1>8. x[1] = s[1]
    BY <1>1, <1>2, <1>3, <1>7
<1>9. x = <<s[1]>>
    BY <1>2, <1>7, <1>8
<1> QED BY <1>9 DEF x

\* A line of our offer when the answer to it is in.
LEMMA AcceptLine ==
    ASSUME NEW o \in Lines, NEW a \in Lines, AnswerLine(o, a)
    PROVE  LET x == process_m_answer(o, a)[1]
           IN  /\ x \in Lines /\ x.type = o.type /\ AgreeLine(x, a)
               /\ x.active => o.active /\ x.dir \subseteq o.dir
<1> DEFINE pair == process_m_answer(o, a)
           x == pair[1]
<1>1. CASE ~a.active
    <2> DEFINE d == Deactivate(o)
    <2>1. pair = <<d, a>>
        BY <1>1 DEF process_m_answer
    <2>2. d \in Lines /\ d.type = o.type /\ ~d.active
        BY DeactivateFacts
    <2> HIDE DEF d, pair
    <2>3. x = d
        BY <2>1
    <2> HIDE DEF x
    <2>4. x.active \in BOOLEAN /\ a.active \in BOOLEAN
        BY <2>2, <2>3, LineFacts
    <2>5. AgreeLine(x, a)
        BY <1>1, <2>2, <2>3, <2>4 DEF AgreeLine, AnswerLine
    <2> QED BY <2>2, <2>3, <2>5 DEF x, pair
<1>2. CASE a.active
    <2>1. /\ o.active /\ a.dir \subseteq Mirror(o.dir) /\ a.type = o.type
          /\ Len(a.fmts) = 1 /\ \E g \in Range(o.fmts) : SameFmt(g, a.fmts[1])
        BY <1>2 DEF AnswerLine
    <2> DEFINE S == {f \in Range(a.fmts) : \E g \in Range(o.fmts) : SameFmt(g, f)}
               f == a.fmts[1]
    <2>2. pair = Common_m(o, a, Sublist(a.fmts, S))
        BY <1>2, <2>1 DEF process_m_answer
    <2>3. a.fmts \in Seq(Fmts) /\ o.fmts \in Seq(Fmts)
        BY LineFacts
    <2>4. 1 \in DOMAIN a.fmts /\ f \in Fmts
        BY <2>1, <2>3
    <2>5. f \in S
        BY <2>1, <2>4 DEF Range
    <2>6. Sublist(a.fmts, S) = <<f>>
        BY <2>1, <2>3, <2>5, KeptFormat
    <2> HIDE DEF S
    <2> DEFINE g == CHOOSE h \in Range(o.fmts) : SameFmt(h, f)
               dir == o.dir \cap Mirror(a.dir)
               fs == [k \in {1} |-> g]
    <2>7. g \in Range(o.fmts) /\ SameFmt(g, f)
        BY <2>1
    <2>8. g \in Fmts
        <3> HIDE DEF g
        <3> QED BY <2>3, <2>7 DEF Range
    <2>9. g.codec = f.codec
        BY <2>4, <2>7, <2>8, SameCodec
    <2>10. pair = <<[o EXCEPT !.dir = dir, !.fmts = fs], [a EXCEPT !.fmts = <<f>>]>>
        <3>1. o.dir \in SUBSET {"send", "recv"} /\ a.dir \in SUBSET {"send", "recv"}
            BY LineFacts
        <3>2. <<f>> # <<>> /\ DOMAIN <<f>> = {1} /\ <<f>>[1] = f
            OBVIOUS
        <3> DEFINE kept == <<f>>
        <3>3. kept # <<>> /\ DOMAIN kept = {1} /\ kept[1] = f
            BY <3>2
        <3> HIDE DEF kept, f
        <3>4. Common_m(o, a, kept) =
                  <<[o EXCEPT !.dir = update_media_direction(a.dir, @),
                              !.fmts = [k \in DOMAIN kept |-> CHOOSE h \in Range(o.fmts) : SameFmt(h, kept[k])]],
                    [a EXCEPT !.fmts = kept]>>
            BY <3>3 DEF Common_m
        <3>5. [k \in DOMAIN kept |-> CHOOSE h \in Range(o.fmts) : SameFmt(h, kept[k])] = fs
            BY <3>3
        <3>6. [o EXCEPT !.dir = update_media_direction(a.dir, @), !.fmts = fs] = [o EXCEPT !.dir = dir, !.fmts = fs]
            BY LineFacts DEF update_media_direction
        <3> QED BY <2>2, <2>6, <3>4, <3>5, <3>6 DEF kept
    <2> HIDE DEF pair, g, f
    <2>11. x = [o EXCEPT !.dir = dir, !.fmts = fs]
        BY <2>10
    <2>12. fs \in Seq(Fmts) /\ DOMAIN fs = {1} /\ fs[1] = g
        <3>1. 1 .. 1 = {1} /\ 1 \in Nat
            OBVIOUS
        <3>2. DOMAIN fs = {1} /\ fs[1] = g
            OBVIOUS
        <3>3. fs = [k \in 1 .. 1 |-> fs[k]]
            BY <3>1
        <3>4. \A k \in 1 .. 1 : fs[k] \in Fmts
            BY <2>8, <3>1, <3>2
        <3> HIDE DEF fs
        <3> QED BY <3>1, <3>2, <3>3, <3>4, TupleFacts
    <2> HIDE DEF fs, x
    <2>13. dir = Mirror(a.dir) /\ dir \subseteq o.dir /\ dir \in SUBSET {"send", "recv"}
        <3>1. o.dir \in SUBSET {"send", "recv"} /\ a.dir \in SUBSET {"send", "recv"}
            BY LineFacts
        <3> QED BY <2>1, <3>1 DEF Mirror
    <2> HIDE DEF dir
    <2>14. x = [type |-> o.type, active |-> o.active, dir |-> dir, fmts |-> fs]
        <3>1. o = [type |-> o.type, active |-> o.active, dir |-> o.dir, fmts |-> o.fmts]
            BY LineFacts
        <3> QED BY <2>11, <3>1
    <2>15. x \in Lines
        BY <2>12, <2>13, <2>14, LineFacts DEF Lines
    <2>16. SameCodecs(fs, a.fmts)
        <3>1. DOMAIN a.fmts = {1} /\ a.fmts[1].codec = g.codec
            BY <2>1, <2>3, <2>9 DEF f
        <3> QED BY <2>12, <3>1 DEF SameCodecs
    <2>17. o.active \in BOOLEAN /\ a.active \in BOOLEAN
        BY LineFacts
    <2>18. x.type = o.type /\ x.active = o.active /\ x.dir = dir /\ x.fmts = fs
        BY <2>14
    <2>19. AgreeLine(x, a)
        BY <1>2, <2>1, <2>13, <2>16, <2>17, <2>18 DEF AgreeLine
    <2> QED BY <2>1, <2>13, <2>15, <2>18, <2>19 DEF x, pair
<1>3. a.active \in BOOLEAN
    BY LineFacts
<1> QED BY <1>1, <1>2, <1>3

\* Once the answer to our offer is in, both parties use the same lines, which do not receive
\* unless our offer did.
LEMMA AcceptAnswer ==
    ASSUME NEW n, NegOK(n), Described(n.neg_local), NEW sdp, Described(sdp), AnswerTo(n.neg_local, sdp)
    PROVE  LET new == negotiate(set_remote_answer(n, sdp)).neg
           IN  /\ NegOK(new) /\ new.state = "DONE" /\ Agree(new.active_local.media, sdp.media)
               /\ NoRecv(n.neg_local.media) => NoRecv(new.active_local.media)
<1> DEFINE k == set_remote_answer(n, sdp)
           offer == n.neg_local
           pairs == process_answer(offer, sdp)
           lines == [j \in DOMAIN pairs |-> pairs[j][1]]
           others == [j \in DOMAIN pairs |-> pairs[j][2]]
           L == [offer EXCEPT !.media = lines]
           R == [sdp EXCEPT !.media = others]
           new == [Cleared(k) EXCEPT !.active_local = L, !.active_remote = R]
<1>1. /\ NegShape(k) /\ k.neg_local = offer /\ k.neg_remote = sdp /\ k.has_remote_answer
      /\ k.active_local = n.active_local
      /\ k.to_codec \in [Types -> CodecMap] /\ k.to_pt \in [Types -> PtMap]
    BY DEF NegOK, NegShape, set_remote_answer
<1>2. /\ Described(offer) /\ AnswerTo(offer, sdp)
    OBVIOUS
<1> HIDE DEF k, offer
<1>3. negotiate(k) = Concluded(k, Agreed(k, pairs))
    BY <1>1 DEF negotiate
<1>4. Agreed(k, pairs) = new
    BY <1>1 DEF Agreed
<1>5. /\ DOMAIN offer.media = 1 .. Len(offer.media) /\ Len(offer.media) \in Nat
      /\ DOMAIN sdp.media = DOMAIN offer.media
      /\ \A j \in DOMAIN offer.media : offer.media[j] \in Lines /\ sdp.media[j] \in Lines
                                       /\ AnswerLine(offer.media[j], sdp.media[j])
    BY <1>2 DEF Described, AnswerTo
<1>6. pairs = [j \in DOMAIN offer.media |-> process_m_answer(offer.media[j], sdp.media[j])]
    BY <1>5 DEF process_answer
<1> HIDE DEF pairs
<1>7. lines = [j \in DOMAIN offer.media |-> process_m_answer(offer.media[j], sdp.media[j])[1]]
    BY <1>6
<1> HIDE DEF lines
<1>8. ASSUME NEW j \in DOMAIN offer.media
      PROVE  /\ lines[j] \in Lines /\ lines[j].type = offer.media[j].type /\ AgreeLine(lines[j], sdp.media[j])
             /\ lines[j].active => offer.media[j].active /\ lines[j].dir \subseteq offer.media[j].dir
    <2>1. lines[j] = process_m_answer(offer.media[j], sdp.media[j])[1]
        BY <1>7
    <2> QED BY <1>5, <2>1, AcceptLine
<1>9. lines \in Seq(Lines) /\ Len(lines) = Len(offer.media) /\ DOMAIN lines = DOMAIN offer.media
    <2> DEFINE N == Len(offer.media)
    <2>1. N \in Nat /\ DOMAIN offer.media = 1 .. N
        BY <1>5
    <2> HIDE DEF N
    <2>2. lines = [j \in 1 .. N |-> lines[j]] /\ \A j \in 1 .. N : lines[j] \in Lines
        BY <1>7, <1>8, <2>1
    <2>3. lines \in Seq(Lines) /\ Len(lines) = N /\ DOMAIN lines = 1 .. N
        BY <2>1, <2>2, TupleFacts
    <2> QED BY <2>1, <2>3 DEF N
<1>10. OneOfEach(lines)
    BY <1>2, <1>8, <1>9 DEF OneOfEach, Described
<1>11. L = [ver |-> offer.ver, media |-> lines]
    BY <1>2 DEF Described
<1> HIDE DEF L, R
<1>12. Described(L) /\ L.media = lines
    BY <1>9, <1>10, <1>11 DEF Described
<1>13. /\ NegShape(new) /\ ~new.has_remote_answer /\ new.active_local = L /\ new.state = "DONE"
       /\ new.to_codec = k.to_codec /\ new.to_pt = k.to_pt
    <2>1. /\ NegShape(Cleared(k)) /\ ~Cleared(k).has_remote_answer /\ Cleared(k).state = "DONE"
          /\ Cleared(k).to_codec = k.to_codec /\ Cleared(k).to_pt = k.to_pt
        BY <1>1, ClearedFacts, CancelFacts DEF cancel_offer
    <2> DEFINE c == Cleared(k)
    <2> HIDE DEF c
    <2>2. NegShape(c) => LET z == [c EXCEPT !.active_local = L, !.active_remote = R]
                         IN  /\ NegShape(z) /\ z.has_remote_answer = c.has_remote_answer /\ z.active_local = L
                             /\ z.state = c.state /\ z.to_codec = c.to_codec /\ z.to_pt = c.to_pt
        BY DEF NegShape
    <2> QED BY <2>1, <2>2 DEF c
<1> HIDE DEF new
<1>14. NegOK(new)
    BY <1>1, <1>12, <1>13 DEF NegOK
<1>15. Agree(L.media, sdp.media)
    <2>1. Len(lines) = Len(sdp.media)
        BY <1>2, <1>9 DEF AnswerTo
    <2> QED BY <1>8, <1>9, <1>12, <2>1 DEF Agree
<1>16. has_active(L)
    <2>1. PICK j \in DOMAIN sdp.media : sdp.media[j].active
        BY <1>2 DEF AnswerTo, has_active
    <2>2. j \in DOMAIN lines /\ lines[j].active
        BY <1>5, <1>8, <1>9, <2>1 DEF AgreeLine
    <2> QED BY <1>12, <2>2 DEF has_active
<1>17. negotiate(k).neg = new
    BY <1>3, <1>4, <1>13, <1>16 DEF Concluded
<1>18. NoRecv(offer.media) => NoRecv(L.media)
    BY <1>8, <1>9, <1>12 DEF NoRecv
<1> QED BY <1>13, <1>14, <1>15, <1>17, <1>18 DEF k, offer

-------------------------------------------------------------------------------
(* Two parties and what is on its way between them.                        *)

Good(s) == Sound(s) /\ Ends(s) /\ Waits(s)

Asking(s)   == s.invite.role = "uac" \/ Pending(s) # {}
Open(s)     == s.neg.state = "LOCAL_OFFER"
Offering(s) == s.invite.role = "uas" /\ s.invite.ok /\ ~s.invite.done

\* Of the messages O that belong to the request of s that is under way, and of the ACKs K that
\* are on their way to s: those that answer its offer.
Replies(s, O, K) ==
    {m \in O \cup K : /\ Open(s)
                      /\ m.kind = "OK" \/ (m.kind = "ACK" /\ Offering(s) /\ m.cseq = s.invite.cseq /\ m.sdp # NoSdp)}

\* A request is under way, or its response, never two of them.
Single(s, O) ==
    /\ \A m \in O : /\ m.kind \in {"INVITE", "UPDATE", "OK", "Fail"}
                    /\ Asking(s) /\ m.cseq = s.cseq
                    /\ m.kind = "INVITE" => s.invite.role = "uac"
    /\ \A m, n \in O : m = n
    /\ s.invite.role = "uac" => s.invite.cseq = s.cseq
    /\ \A u \in Pending(s) : u.cseq = s.cseq

\* The ACKs A that s has sent: one for each of its re-INVITEs that is over.
AckOnce(s, A) ==
    /\ \A m \in A : m.kind = "ACK" /\ m.cseq \in Nat /\ m.cseq <= s.cseq
                    /\ (s.invite.role = "uac" => m.cseq < s.cseq)
    /\ \A m, n \in A : m.cseq = n.cseq => m = n

\* What the messages carry: the offer of s that is open, the offer of r in response to a
\* request without one, and answers that r has put in use.
Carried(s, r, O, K) ==
    /\ Offering(s) => Open(s)
    /\ Open(s) => Described(s.neg.neg_local) /\ s.neg.neg_local # NoSdp
    /\ \A m \in O :
          /\ m.kind \in Requests => IF Open(s) THEN m.sdp = s.neg.neg_local ELSE m.kind = "INVITE" /\ m.sdp = NoSdp
          /\ m.kind = "OK" /\ ~Open(s) => Offering(r) /\ r.invite.cseq = s.cseq /\ m.sdp = r.neg.neg_local
    /\ \A m \in Replies(s, O, K) : AnswerTo(s.neg.neg_local, m.sdp) /\ r.neg.active_local = m.sdp

Side(s, r, O, A, K) == Good(s) /\ NegOK(s.neg) /\ Single(s, O) /\ AckOnce(s, A) /\ Carried(s, r, O, K)

\* Two parties: each side, and unless an answer is on its way, which only one of them waits
\* for, they agree.
Duet(s, r, Os, As, Or, Ar) ==
    /\ Side(s, r, Os, As, Ar) /\ Side(r, s, Or, Ar, As)
    /\ Replies(s, Os, Ar) # {} \/ Replies(r, Or, As) # {} \/ Agree(s.neg.active_local.media, r.neg.active_local.media)
    /\ Replies(s, Os, Ar) = {} \/ Replies(r, Or, As) = {}

\* A duet is one of the two in either order.
LEMMA DuetSym ==
    ASSUME NEW s, NEW r, NEW Os, NEW As, NEW Or, NEW Ar, Duet(s, r, Os, As, Or, Ar)
    PROVE  Duet(r, s, Or, Ar, Os, As)
<1>1. s.neg.active_local.media \in Seq(Lines) /\ r.neg.active_local.media \in Seq(Lines)
    BY DEF Duet, Side, NegOK, Described
<1>2. Agree(s.neg.active_local.media, r.neg.active_local.media) => Agree(r.neg.active_local.media, s.neg.active_local.media)
    BY <1>1, AgreeSym
<1> QED BY <1>2 DEF Duet

\* A party that asks has not got an offer of its own in a 2xx.
LEMMA AskingFacts ==
    ASSUME NEW s, Good(s)
    PROVE  /\ Asking(s) => ~Offering(s)
           /\ Open(s) \/ s.neg.state = "DONE"
           /\ ~Open(s) => Pending(s) = {}
           /\ s.invite.role = "uac" => Pending(s) = {}
    BY DEF Good, Ends, Waits, Asking, Offering, Open

-------------------------------------------------------------------------------
\* Nothing that matters to the other party.
Unnoticed(s, o) ==
    /\ Open(o) <=> Open(s)
    /\ o.neg.active_local = s.neg.active_local /\ (Open(s) => o.neg.neg_local = s.neg.neg_local)
    /\ Offering(o) <=> Offering(s)
    /\ Offering(s) => o.invite.cseq = s.invite.cseq
    /\ o.invite.role = "uac" <=> s.invite.role = "uac"
    /\ s.invite.role = "uac" => o.invite.cseq = s.invite.cseq
    /\ Pending(o) = Pending(s) /\ o.cseq = s.cseq

\* The side of a party that changes in nothing that matters.
LEMMA UnnoticedSide ==
    ASSUME NEW s, NEW o, NEW r, NEW O, NEW A, NEW K, Side(s, r, O, A, K), Good(o), NegOK(o.neg), Unnoticed(s, o)
    PROVE  Side(o, r, O, A, K) /\ Replies(o, O, K) = Replies(s, O, K)
<1>1. Replies(o, O, K) = Replies(s, O, K)
    BY DEF Replies, Unnoticed
<1>2. Asking(o) <=> Asking(s)
    BY DEF Asking, Unnoticed
<1>3. Single(o, O)
    BY <1>2 DEF Single, Unnoticed, Side
<1>4. AckOnce(o, A)
    BY DEF AckOnce, Unnoticed, Side
<1>5. \A m \in Replies(s, O, K) : Open(s)
    BY DEF Replies
<1>6. Carried(o, r, O, K)
    BY <1>1, <1>5 DEF Carried, Unnoticed, Side
<1> QED BY <1>1, <1>3, <1>4, <1>6 DEF Side

\* The other side of it.
LEMMA UnnoticedOther ==
    ASSUME NEW s, NEW o, NEW r, NEW O, NEW A, NEW K, Side(r, s, O, A, K), Carried(s, r, {}, {}), Unnoticed(s, o)
    PROVE  Side(r, o, O, A, K)
<1>1. Carried(r, o, O, K)
    BY DEF Carried, Unnoticed, Side
<1> QED BY <1>1 DEF Side

\* Messages are taken from the network that answer nothing.
LEMMA FewerMessages ==
    ASSUME NEW s, NEW r, NEW O, NEW A, NEW K, NEW B \in SUBSET A, NEW L \in SUBSET K, Side(s, r, O, A, K)
    PROVE  Side(s, r, O, B, L)
<1>1. Replies(s, O, L) \subseteq Replies(s, O, K)
    BY DEF Replies
<1>2. AckOnce(s, B)
    BY DEF AckOnce, Side
<1>3. Carried(s, r, O, L)
    BY <1>1 DEF Carried, Side
<1> QED BY <1>2, <1>3 DEF Side

\* A message that answers nothing is ignored, or none arrives.
LEMMA DuetUnnoticed ==
    ASSUME NEW s, NEW o, NEW r, NEW Os, NEW As, NEW Or, NEW Ar, Duet(s, r, Os, As, Or, Ar),
           Good(o), NegOK(o.neg), Unnoticed(s, o),
           NEW Br \in SUBSET Ar, \A m \in Ar \ Br : m \notin Replies(s, Os, Ar), \A m \in Ar : m \notin Os
    PROVE  Duet(o, r, Os, As, Or, Br)
<1>1. /\ Side(s, r, Os, As, Ar) /\ Side(r, s, Or, Ar, As)
      /\ Replies(s, Os, Ar) # {} \/ Replies(r, Or, As) # {} \/ Agree(s.neg.active_local.media, r.neg.active_local.media)
      /\ Replies(s, Os, Ar) = {} \/ Replies(r, Or, As) = {}
    BY DEF Duet
<1>2. Replies(s, Os, Br) = Replies(s, Os, Ar)
    BY DEF Replies
<1>3. Side(s, r, Os, As, Br) /\ Side(r, s, Or, Br, As)
    BY <1>1, FewerMessages
<1>4. Side(o, r, Os, As, Br) /\ Replies(o, Os, Br) = Replies(s, Os, Br)
    BY <1>3, UnnoticedSide
<1>5. Carried(s, r, {}, {})
    BY <1>1 DEF Carried, Side, Replies
<1>6. Side(r, o, Or, Br, As)
    BY <1>3, <1>5, UnnoticedOther
<1>7. o.neg.active_local = s.neg.active_local
    BY DEF Unnoticed
<1> QED BY <1>1, <1>2, <1>4, <1>6, <1>7 DEF Duet

\* A request is refused: x is the failure.
LEMMA DuetRefused ==
    ASSUME NEW s, NEW o, NEW r, NEW Os, NEW As, NEW Or, NEW Ar, Duet(s, r, Os, As, Or, Ar),
           Good(o), NegOK(o.neg), Unnoticed(s, o),
           NEW m \in Or, m.kind \in Requests, NEW x, x.kind = "Fail", x.cseq = m.cseq
    PROVE  Duet(o, r, Os, As, (Or \ {m}) \cup {x}, Ar)
<1> DEFINE N == (Or \ {m}) \cup {x}
<1>1. /\ Side(s, r, Os, As, Ar) /\ Side(r, s, Or, Ar, As)
      /\ Replies(s, Os, Ar) # {} \/ Replies(r, Or, As) # {} \/ Agree(s.neg.active_local.media, r.neg.active_local.media)
      /\ Replies(s, Os, Ar) = {} \/ Replies(r, Or, As) = {}
    BY DEF Duet
<1>2. Or = {m} /\ N = {x}
    BY <1>1 DEF Side, Single
<1>3. Replies(r, N, As) = Replies(r, Or, As)
    BY <1>2 DEF Replies, Requests
<1>4. Side(o, r, Os, As, Ar) /\ Replies(o, Os, Ar) = Replies(s, Os, Ar)
    BY <1>1, UnnoticedSide
<1>5. Carried(s, r, {}, {})
    BY <1>1 DEF Carried, Side, Replies
<1>6. Side(r, o, Or, Ar, As)
    BY <1>1, <1>5, UnnoticedOther
<1>7. Single(r, N)
    BY <1>2, <1>6 DEF Side, Single
<1>8. Carried(r, o, N, As)
    BY <1>2, <1>3, <1>6 DEF Side, Carried, Requests
<1>9. Side(r, o, N, Ar, As)
    BY <1>6, <1>7, <1>8 DEF Side
<1> HIDE DEF N
<1>10. Duet(o, r, Os, As, N, Ar)
    <2>1. o.neg.active_local = s.neg.active_local
        BY DEF Unnoticed
    <2> QED BY <1>1, <1>3, <1>4, <1>9, <2>1 DEF Duet
<1> QED BY <1>10 DEF N

\* Something is asked for: x is the request.
Asked(s, o, x) ==
    /\ s.neg.state = "DONE" /\ s.invite.role = "none"
    /\ o.neg.active_local = s.neg.active_local /\ o.cseq = s.cseq + 1
    /\ x.cseq = o.cseq
    /\ \/ x.kind = "INVITE" /\ o.invite.role = "uac" /\ o.invite.cseq = o.cseq /\ Pending(o) = {}
       \/ x.kind = "UPDATE" /\ o.invite.role = "none" /\ Pending(o) # {} /\ \A u \in Pending(o) : u.cseq = o.cseq
    /\ IF Open(o) THEN Described(o.neg.neg_local) /\ o.neg.neg_local # NoSdp /\ x.sdp = o.neg.neg_local
       ELSE x.kind = "INVITE" /\ x.sdp = NoSdp

\* A party starts something: its request is on its way.
LEMMA DuetAsked ==
    ASSUME NEW s, NEW o, NEW r, NEW Os, NEW As, NEW Or, NEW Ar, Duet(s, r, Os, As, Or, Ar),
           Good(o), NegOK(o.neg), NEW x, Asked(s, o, x)
    PROVE  Duet(o, r, Os \cup {x}, As, Or, Ar)
<1> DEFINE N == Os \cup {x}
<1>1. /\ Side(s, r, Os, As, Ar) /\ Side(r, s, Or, Ar, As)
      /\ Replies(s, Os, Ar) # {} \/ Replies(r, Or, As) # {} \/ Agree(s.neg.active_local.media, r.neg.active_local.media)
    BY DEF Duet
<1>2. ~Open(s) /\ ~Asking(s) /\ ~Offering(s)
    <2>1. ~Open(s)
        BY DEF Asked, Open
    <2>2. Pending(s) = {}
        BY <1>1, <2>1, AskingFacts DEF Side
    <2> QED BY <2>1, <2>2 DEF Asked, Asking, Offering
<1>3. Os = {} /\ N = {x}
    BY <1>1, <1>2 DEF Side, Single
<1>4. Asking(o) /\ ~Offering(o)
    BY DEF Asked, Asking, Offering
<1>5. Replies(s, Os, Ar) = {} /\ Replies(o, N, Ar) = {}
    <2>1. \A m \in Ar : m.kind = "ACK"
        BY <1>1 DEF Side, AckOnce
    <2>2. \A m \in N : m.kind # "OK" /\ m.kind # "ACK"
        BY <1>3 DEF Asked
    <2> HIDE DEF N
    <2> QED BY <1>2, <1>4, <2>1, <2>2 DEF Replies
<1>6. Single(o, N)
    BY <1>3, <1>4 DEF Single, Asked
<1>7. AckOnce(o, As)
    <2>1. s.cseq \in Nat
        BY <1>1 DEF Side, Good, Sound
    <2> QED BY <1>1, <2>1 DEF AckOnce, Asked, Side
<1>8. Carried(o, r, N, Ar)
    <2>1. \A m \in N : m = x
        BY <1>3
    <2>2. x.kind # "OK"
        BY DEF Asked
    <2> HIDE DEF N
    <2> QED BY <1>4, <1>5, <2>1, <2>2 DEF Carried, Asked
<1>9. Carried(r, o, Or, As)
    <2>1. o.neg.active_local = s.neg.active_local
        BY DEF Asked
    <2> QED BY <1>1, <1>2, <2>1 DEF Carried, Side
<1> HIDE DEF N
<1>10. Duet(o, r, N, As, Or, Ar)
    <2>1. o.neg.active_local = s.neg.active_local
        BY DEF Asked
    <2> QED BY <1>1, <1>5, <1>6, <1>7, <1>8, <1>9, <2>1 DEF Duet, Side
<1> QED BY <1>10 DEF N

-------------------------------------------------------------------------------
(* What the responses and ACKs settle.                                     *)

\* The offer in request m is answered by x, which is what is used now.
Accepted(s, o, m, x) ==
    /\ s.neg.state = "DONE" /\ o.neg.state = "DONE" /\ ~Offering(o)
    /\ o.invite.role = "uac" <=> s.invite.role = "uac"
    /\ s.invite.role = "uac" => o.invite.cseq = s.invite.cseq
    /\ Pending(o) = Pending(s) /\ o.cseq = s.cseq
    /\ m.kind \in Requests /\ m.sdp # NoSdp
    /\ x.kind = "OK" /\ x.cseq = m.cseq /\ x.sdp = o.neg.active_local /\ AnswerTo(m.sdp, x.sdp)

\* An offer is answered: the answer is on its way, and in use where it comes from.
LEMMA DuetAccepted ==
    ASSUME NEW s, NEW o, NEW r, NEW Os, NEW As, NEW Or, NEW Ar, Duet(s, r, Os, As, Or, Ar),
           Good(o), NegOK(o.neg), NEW m \in Or, NEW x, Accepted(s, o, m, x)
    PROVE  Duet(o, r, Os, As, (Or \ {m}) \cup {x}, Ar)
<1> DEFINE N == (Or \ {m}) \cup {x}
<1>1. /\ Side(s, r, Os, As, Ar) /\ Side(r, s, Or, Ar, As)
    BY DEF Duet
<1>2. Or = {m} /\ N = {x}
    BY <1>1 DEF Side, Single
<1>3. Asking(r) /\ ~Offering(r)
    BY <1>1, AskingFacts DEF Side, Single
<1>4. Open(r) /\ m.sdp = r.neg.neg_local
    BY <1>1 DEF Side, Carried, Accepted
<1>5. ~Open(s) /\ ~Open(o)
    BY DEF Accepted, Open
<1>6. \A y \in As : y.kind = "ACK"
    BY <1>1 DEF Side, AckOnce
<1>7. Replies(r, N, As) = {x}
    <2>1. \A y \in Replies(r, N, As) : y = x
        BY <1>2, <1>3, <1>6 DEF Replies
    <2>2. x \in Replies(r, N, As)
        BY <1>2, <1>4 DEF Replies, Accepted
    <2> QED BY <2>1, <2>2
<1>8. Replies(o, Os, Ar) = {}
    BY <1>5 DEF Replies
<1>9. Single(o, Os) /\ AckOnce(o, As)
    BY <1>1 DEF Side, Single, AckOnce, Accepted, Asking
<1>10. Carried(o, r, Os, Ar)
    <2>1. ~Offering(o) /\ o.cseq = s.cseq
        BY DEF Accepted
    <2> QED BY <1>1, <1>5, <1>8, <2>1 DEF Side, Carried
<1>11. Single(r, N)
    <2>1. x.cseq = m.cseq /\ x.kind = "OK"
        BY DEF Accepted
    <2> QED BY <1>1, <1>2, <1>3, <2>1 DEF Side, Single
<1>12. Carried(r, o, N, As)
    <2>1. x.kind = "OK" /\ x.sdp = o.neg.active_local /\ AnswerTo(r.neg.neg_local, x.sdp)
        BY <1>4 DEF Accepted
    <2>2. \A y \in N : y = x
        BY <1>2
    <2> HIDE DEF N
    <2> QED BY <1>1, <1>3, <1>4, <1>7, <2>1, <2>2 DEF Side, Carried, Requests
<1> HIDE DEF N
<1>13. Duet(o, r, Os, As, N, Ar)
    BY <1>1, <1>7, <1>8, <1>9, <1>10, <1>11, <1>12 DEF Duet, Side
<1> QED BY <1>13 DEF N

\* Request m had no offer: x makes one.
OfferedBack(s, o, m, x) ==
    /\ s.neg.state = "DONE" /\ s.invite.role = "none" /\ Open(o) /\ Offering(o)
    /\ o.invite.cseq = m.cseq
    /\ Described(o.neg.neg_local) /\ o.neg.neg_local # NoSdp
    /\ o.neg.active_local = s.neg.active_local
    /\ Pending(o) = Pending(s) /\ o.cseq = s.cseq
    /\ m.kind = "INVITE" /\ m.sdp = NoSdp
    /\ x.kind = "OK" /\ x.cseq = m.cseq /\ x.sdp = o.neg.neg_local

\* A re-INVITE without an offer is answered with one.
LEMMA DuetOfferedBack ==
    ASSUME NEW s, NEW o, NEW r, NEW Os, NEW As, NEW Or, NEW Ar, Duet(s, r, Os, As, Or, Ar),
           Good(o), NegOK(o.neg), NEW m \in Or, NEW x, OfferedBack(s, o, m, x)
    PROVE  Duet(o, r, Os, As, (Or \ {m}) \cup {x}, Ar)
<1> DEFINE N == (Or \ {m}) \cup {x}
<1>1. /\ Side(s, r, Os, As, Ar) /\ Side(r, s, Or, Ar, As)
      /\ Replies(s, Os, Ar) # {} \/ Replies(r, Or, As) # {} \/ Agree(s.neg.active_local.media, r.neg.active_local.media)
    BY DEF Duet
<1>2. Or = {m} /\ N = {x}
    BY <1>1 DEF Side, Single
<1>3. Asking(r) /\ ~Offering(r) /\ r.invite.role = "uac" /\ m.cseq = r.cseq
    BY <1>1, AskingFacts DEF Side, Single, OfferedBack
<1>4. ~Open(r)
    BY <1>1 DEF Side, Carried, OfferedBack, Requests
<1>5. ~Open(s) /\ ~Asking(s) /\ ~Asking(o) /\ Os = {}
    <2>1. ~Open(s)
        BY DEF OfferedBack, Open
    <2>2. Pending(s) = {}
        BY <1>1, <2>1, AskingFacts DEF Side
    <2>3. ~Asking(s) /\ ~Asking(o)
        BY <2>2 DEF OfferedBack, Asking, Offering
    <2> QED BY <1>1, <2>1, <2>3 DEF Side, Single
<1>6. \A y \in Ar : y.kind = "ACK" /\ y.cseq \in Nat /\ y.cseq < r.cseq
    BY <1>1, <1>3 DEF Side, AckOnce
<1>7. r.cseq \in Nat
    BY <1>1 DEF Side, Good, Sound
<1>8. Replies(o, Os, Ar) = {}
    <2>1. \A y \in Ar : y.cseq # o.invite.cseq
        BY <1>3, <1>6, <1>7 DEF OfferedBack
    <2> QED BY <1>5, <1>6, <2>1 DEF Replies
<1>9. Replies(r, N, As) = {} /\ Replies(r, Or, As) = {} /\ Replies(s, Os, Ar) = {}
    BY <1>4, <1>5 DEF Replies
<1>10. Single(o, Os) /\ AckOnce(o, As)
    BY <1>1, <1>5 DEF Side, Single, AckOnce, OfferedBack, Asking
<1>11. Carried(o, r, Os, Ar)
    BY <1>5, <1>8 DEF Carried, OfferedBack
<1>12. Single(r, N)
    <2>1. x.cseq = m.cseq /\ x.kind = "OK"
        BY DEF OfferedBack
    <2> QED BY <1>1, <1>2, <1>3, <2>1 DEF Side, Single
<1>13. Carried(r, o, N, As)
    <2>1. x.kind = "OK" /\ Offering(o) /\ o.invite.cseq = r.cseq /\ x.sdp = o.neg.neg_local
        BY <1>3 DEF OfferedBack
    <2>2. \A y \in N : y = x
        BY <1>2
    <2> HIDE DEF N
    <2> QED BY <1>3, <1>4, <1>9, <2>1, <2>2 DEF Carried, Requests
<1>14. Agree(o.neg.active_local.media, r.neg.active_local.media)
    BY <1>1, <1>9 DEF OfferedBack
<1> HIDE DEF N
<1>15. Duet(o, r, Os, As, N, Ar)
    BY <1>1, <1>8, <1>9, <1>10, <1>11, <1>12, <1>13, <1>14 DEF Duet, Side
<1> QED BY <1>15 DEF N

\* While s asks, or as the ACK of its own offer arrives, r has no offer of s to take.
LEMMA NoOffer ==
    ASSUME NEW s, NEW r, NEW Os, NEW As, NEW Or, NEW Ar, Side(s, r, Os, As, Ar), Side(r, s, Or, Ar, As),
           Asking(s) \/ \E m \in Ar : Offering(s) /\ m.cseq = s.invite.cseq,
           NEW x \in Or, x.kind = "OK"
    PROVE  Open(r)
<1>1. SUFFICES ASSUME ~Open(r) PROVE FALSE
    OBVIOUS
<1>2. Offering(s) /\ s.invite.cseq = r.cseq
    BY <1>1 DEF Side, Carried
<1>3. ~Asking(s)
    BY <1>2, AskingFacts DEF Side
<1>4. PICK m \in Ar : m.cseq = r.cseq
    BY <1>2, <1>3
<1>5. Asking(r) /\ Pending(r) = {}
    BY <1>1, AskingFacts DEF Side, Single
<1>6. m.cseq < r.cseq /\ r.cseq \in Nat
    BY <1>5 DEF Side, AckOnce, Asking, Good, Sound
<1> QED BY <1>4, <1>6

\* What s sends when its re-INVITE is over.
Sends(s, X) ==
    /\ \A x \in X : x.kind = "ACK" /\ x.cseq = s.cseq
    /\ \A x, y \in X : x = y
    /\ X # {} => s.invite.role = "uac"

Plain(s, X) == Sends(s, X) /\ \A x \in X : x.sdp = NoSdp

\* The request of s is over, and it has no offer open.
Over(s, o) == o.neg.state = "DONE" /\ ~Asking(o) /\ ~Offering(o) /\ o.cseq = s.cseq

\* The side of a party whose request, or re-INVITE that it served, is over.
LEMMA OverSide ==
    ASSUME NEW s, NEW o, NEW r, NEW O, NEW A, NEW K, Side(s, r, O, A, K), Good(o), NegOK(o.neg), Over(s, o),
           NEW X, Sends(s, X)
    PROVE  Side(o, r, {}, A \cup X, K) /\ \A N, L : Replies(o, N, L) = {}
<1>1. ~Open(o)
    BY DEF Over, Open
<1>2. s.cseq \in Nat /\ o.cseq = s.cseq
    BY DEF Side, Good, Sound, Over
<1>3. Pending(o) = {} /\ o.invite.role # "uac"
    BY DEF Over, Asking
<1>4. Single(o, {})
    BY <1>3 DEF Single
<1>5. AckOnce(o, A \cup X)
    <2>1. \A m \in A \cup X : m.kind = "ACK" /\ m.cseq \in Nat /\ m.cseq <= o.cseq
        BY <1>2 DEF Side, AckOnce, Sends
    <2>2. ASSUME NEW m \in A \cup X, NEW n \in A \cup X, m.cseq = n.cseq PROVE m = n
        <3>1. CASE m \in A /\ n \in A
            BY <2>2, <3>1 DEF Side, AckOnce
        <3>2. CASE m \in X /\ n \in X
            BY <3>2 DEF Sends
        <3>3. ASSUME NEW a \in A, NEW x \in X PROVE a.cseq # x.cseq
            <4>1. a.cseq < s.cseq /\ a.cseq \in Nat /\ x.cseq = s.cseq
                BY DEF Side, AckOnce, Sends
            <4> QED BY <1>2, <4>1
        <3> QED BY <2>2, <3>1, <3>2, <3>3
    <2> QED BY <1>3, <2>1, <2>2 DEF AckOnce
<1>6. \A N, L : Replies(o, N, L) = {}
    BY <1>1 DEF Replies
<1>7. Carried(o, r, {}, K)
    BY <1>1, <1>6 DEF Carried, Over
<1> QED BY <1>4, <1>5, <1>6, <1>7 DEF Side

\* m answers the offer of s.
LEMMA DuetTaken ==
    ASSUME NEW s, NEW o, NEW r, NEW Os, NEW As, NEW Or, NEW Ar, Duet(s, r, Os, As, Or, Ar),
           Good(o), NegOK(o.neg), Over(s, o), NEW X, Plain(s, X),
           NEW m \in Replies(s, Os, Ar), Agree(o.neg.active_local.media, m.sdp.media)
    PROVE  Duet(o, r, Os \ {m}, As \cup X, Or, Ar \ {m})
<1> DEFINE Y == As \cup X
           L == Ar \ {m}
<1>1. Side(s, r, Os, As, Ar) /\ Side(r, s, Or, Ar, As) /\ Replies(r, Or, As) = {}
    BY DEF Duet
<1>2. \A y \in Ar : y.kind = "ACK"
    BY <1>1 DEF Side, AckOnce
<1>3. Os \ {m} = {}
    <2>1. CASE Asking(s)
        <3>1. ~Offering(s)
            BY <1>1, <2>1, AskingFacts DEF Side
        <3>2. m \in Os
            BY <1>2, <3>1 DEF Replies
        <3> QED BY <1>1, <3>2 DEF Side, Single
    <2>2. CASE ~Asking(s)
        BY <1>1, <2>2 DEF Side, Single
    <2> QED BY <2>1, <2>2
<1>4. Asking(s) \/ \E y \in Ar : Offering(s) /\ y.cseq = s.invite.cseq
    <2>1. CASE m \in Os
        BY <1>1, <2>1 DEF Side, Single
    <2>2. CASE m \in Ar
        BY <1>2, <2>2 DEF Replies
    <2> QED BY <2>1, <2>2 DEF Replies
<1>5. \A x \in Or : x.kind = "OK" => Open(r)
    BY <1>1, <1>4, NoOffer
<1>6. Side(o, r, {}, Y, L) /\ Replies(o, {}, L) = {}
    <2>1. Side(o, r, {}, Y, Ar) /\ Replies(o, {}, L) = {}
        BY <1>1, OverSide DEF Plain
    <2> QED BY <2>1, FewerMessages
<1>7. Replies(r, Or, Y) = {}
    BY <1>1 DEF Replies, Plain, Sends
<1>8. Side(r, s, Or, L, As)
    BY <1>1, FewerMessages
<1>9. Carried(r, o, Or, Y)
    BY <1>1, <1>5, <1>7 DEF Side, Carried
<1>10. Side(r, o, Or, L, Y)
    BY <1>8, <1>9 DEF Side
<1>11. r.neg.active_local = m.sdp
    BY <1>1 DEF Side, Carried
<1> HIDE DEF Y, L
<1>12. Duet(o, r, {}, Y, Or, L)
    BY <1>6, <1>7, <1>10, <1>11 DEF Duet
<1> QED BY <1>3, <1>12 DEF Y, L

\* m says that there is no answer to the offer of s, if it has made one.
LEMMA DuetGivenUp ==
    ASSUME NEW s, NEW o, NEW r, NEW Os, NEW As, NEW Or, NEW Ar, Duet(s, r, Os, As, Or, Ar),
           Good(o), NegOK(o.neg), Over(s, o), NEW X, Plain(s, X),
           NEW m,
           \/ m \in Os /\ m.kind = "Fail"
           \/ m \in Ar /\ Offering(s) /\ m.cseq = s.invite.cseq /\ m.sdp = NoSdp,
           o.neg.active_local = s.neg.active_local
    PROVE  Duet(o, r, Os \ {m}, As \cup X, Or, Ar \ {m})
<1> DEFINE Y == As \cup X
           L == Ar \ {m}
<1>1. /\ Side(s, r, Os, As, Ar) /\ Side(r, s, Or, Ar, As)
      /\ Replies(s, Os, Ar) # {} \/ Replies(r, Or, As) # {} \/ Agree(s.neg.active_local.media, r.neg.active_local.media)
    BY DEF Duet
<1>2. \A y \in Ar : y.kind = "ACK"
    BY <1>1 DEF Side, AckOnce
<1>3. Os \ {m} = {} /\ Replies(s, Os, Ar) = {} /\ (Asking(s) \/ \E y \in Ar : Offering(s) /\ y.cseq = s.invite.cseq)
    <2>1. CASE m \in Os /\ m.kind = "Fail"
        <3>1. Asking(s) /\ Os = {m}
            BY <1>1, <2>1 DEF Side, Single
        <3>2. ~Offering(s)
            BY <1>1, <3>1, AskingFacts DEF Side
        <3> QED BY <1>2, <2>1, <3>1, <3>2 DEF Replies
    <2>2. CASE m \in Ar /\ Offering(s) /\ m.cseq = s.invite.cseq /\ m.sdp = NoSdp
        <3>1. ~Asking(s)
            BY <1>1, <2>2, AskingFacts DEF Side
        <3>2. Os = {}
            BY <1>1, <3>1 DEF Side, Single
        <3>3. \A y \in Ar : y.cseq = s.invite.cseq => y = m
            BY <1>1, <2>2 DEF Side, AckOnce
        <3> QED BY <1>2, <2>2, <3>2, <3>3 DEF Replies
    <2> QED BY <2>1, <2>2
<1>4. \A x \in Or : x.kind = "OK" => Open(r)
    BY <1>1, <1>3, NoOffer
<1>5. Side(o, r, {}, Y, L) /\ Replies(o, {}, L) = {}
    <2>1. Side(o, r, {}, Y, Ar) /\ Replies(o, {}, L) = {}
        BY <1>1, OverSide DEF Plain
    <2> QED BY <2>1, FewerMessages
<1>6. Replies(r, Or, Y) = Replies(r, Or, As)
    BY DEF Replies, Plain, Sends
<1>7. Side(r, s, Or, L, As)
    BY <1>1, FewerMessages
<1>8. Carried(r, o, Or, Y)
    BY <1>1, <1>4, <1>6 DEF Side, Carried
<1>9. Side(r, o, Or, L, Y)
    BY <1>7, <1>8 DEF Side
<1> HIDE DEF Y, L
<1>10. Duet(o, r, {}, Y, Or, L)
    BY <1>1, <1>3, <1>5, <1>6, <1>9 DEF Duet
<1> QED BY <1>3, <1>10 DEF Y, L

\* m makes the offer that s has asked for: x has the answer, which is what is used now, or
\* there is none.
LEMMA DuetTakenOffer ==
    ASSUME NEW s, NEW o, NEW r, NEW Os, NEW As, NEW Or, NEW Ar, Duet(s, r, Os, As, Or, Ar),
           Good(o), NegOK(o.neg), Over(s, o), s.invite.role = "uac", ~Open(s), NEW m \in Os, m.kind = "OK",
           NEW x, x.kind = "ACK", x.cseq = s.cseq,
           \/ x.sdp = o.neg.active_local /\ AnswerTo(m.sdp, x.sdp)
           \/ x.sdp = NoSdp /\ o.neg.active_local = s.neg.active_local
    PROVE  Duet(o, r, Os \ {m}, As \cup {x}, Or, Ar)
<1> DEFINE Y == As \cup {x}
<1>1. /\ Side(s, r, Os, As, Ar) /\ Side(r, s, Or, Ar, As)
      /\ Replies(s, Os, Ar) # {} \/ Replies(r, Or, As) # {} \/ Agree(s.neg.active_local.media, r.neg.active_local.media)
    BY DEF Duet
<1>2. Os \ {m} = {}
    BY <1>1 DEF Side, Single
<1>3. Offering(r) /\ r.invite.cseq = s.cseq /\ m.sdp = r.neg.neg_local
    BY <1>1 DEF Side, Carried
<1>4. Open(r) /\ ~Asking(r) /\ Or = {}
    <2>1. ~Asking(r)
        BY <1>1, <1>3, AskingFacts DEF Side
    <2> QED BY <1>1, <1>3, <2>1 DEF Side, Carried, Single
<1>5. \A y \in As : y.kind = "ACK" /\ y.cseq # r.invite.cseq
    <2>1. \A y \in As : y.kind = "ACK" /\ y.cseq \in Nat /\ y.cseq < s.cseq
        BY <1>1 DEF Side, AckOnce
    <2>2. s.cseq \in Nat
        BY <1>1 DEF Side, Good, Sound
    <2> QED BY <1>3, <2>1, <2>2
<1>6. Replies(s, Os, Ar) = {} /\ Replies(r, Or, As) = {}
    BY <1>4, <1>5 DEF Replies
<1>7. Side(o, r, {}, Y, Ar) /\ Replies(o, {}, Ar) = {}
    <2> DEFINE X == {x}
    <2>1. Sends(s, X)
        BY DEF Sends
    <2> HIDE DEF X
    <2>2. Side(o, r, {}, As \cup X, Ar) /\ Replies(o, {}, Ar) = {}
        BY <1>1, <2>1, OverSide
    <2> QED BY <2>2 DEF X
<1>8. CASE x.sdp = o.neg.active_local /\ AnswerTo(m.sdp, x.sdp)
    <2>1. x.sdp # NoSdp
        BY <1>8, ActiveFacts DEF AnswerTo
    <2>2. Replies(r, Or, Y) = {x}
        <3>1. x \in Replies(r, Or, Y)
            BY <1>3, <1>4, <2>1 DEF Replies
        <3>2. \A y \in Replies(r, Or, Y) : y = x
            BY <1>4, <1>5 DEF Replies
        <3> QED BY <3>1, <3>2
    <2>3. Carried(r, o, Or, Y)
        BY <1>1, <1>3, <1>4, <1>8, <2>2 DEF Side, Carried
    <2>4. Side(r, o, Or, Ar, Y)
        BY <1>1, <2>3 DEF Side
    <2> HIDE DEF Y
    <2>5. Duet(o, r, {}, Y, Or, Ar)
        BY <1>7, <2>2, <2>4 DEF Duet
    <2> QED BY <1>2, <2>5 DEF Y
<1>9. CASE x.sdp = NoSdp /\ o.neg.active_local = s.neg.active_local
    <2>1. Replies(r, Or, Y) = {}
        BY <1>4, <1>5, <1>9 DEF Replies
    <2>2. Carried(r, o, Or, Y)
        BY <1>1, <1>4, <2>1 DEF Side, Carried
    <2>3. Side(r, o, Or, Ar, Y)
        BY <1>1, <2>2 DEF Side
    <2> HIDE DEF Y
    <2>4. Duet(o, r, {}, Y, Or, Ar)
        BY <1>1, <1>6, <1>7, <1>9, <2>1, <2>3 DEF Duet
    <2> QED BY <1>2, <2>4 DEF Y
<1> QED BY <1>8, <1>9

-------------------------------------------------------------------------------
(* The handlers: a request, and the hold.                                  *)

\* A party that has the call on hold offers and uses nothing to receive, unless the re-INVITE
\* that asks for the hold is under way; one that releases a hold still receives nothing.
HoldOK(s) ==
    /\ s.local_hold => /\ Open(s) => NoRecv(s.neg.neg_local.media)
                       /\ \/ NoRecv(s.neg.active_local.media)
                          \/ Open(s) /\ s.invite.role = "uac" /\ s.hold_msg = s.invite.cseq
    /\ s.invite.role = "uac" /\ s.unhold /\ s.hold_msg # s.invite.cseq => NoRecv(s.neg.active_local.media)

\* What is used is as before, or is an answer to the offer sdp.
AnswersOr(s, sdp, ok, n) ==
    /\ NegOK(n) /\ n.state = "DONE"
    /\ IF ok THEN AnswerTo(sdp, n.active_local) /\ (s.local_hold => NoRecv(n.active_local.media))
       ELSE n.active_local = s.neg.active_local

\* The offer of the other party: what is used does not change before it is answered.
LEMMA RxOfferContent ==
    ASSUME NEW p \in Parties, NEW s, NEW sdp, NEW where, PartyShape(s), NegOK(s.neg), Described(sdp),
           NEW o \in RxOffer(p, s, sdp, where)
    PROVE  /\ NegOK(o.neg) /\ o.neg.active_local = s.neg.active_local /\ o.unhold = FALSE
           /\ o.neg.state # "REMOTE_OFFER" => LET r == negotiate(o.neg) IN AnswersOr(s, sdp, r.ok, r.neg)
<1> DEFINE n == set_remote_offer(s.neg, sdp)
           offered == [s EXCEPT !.neg = n, !.unhold = FALSE]
           k == set_local_answer(n, LocalAnswer(p, s, sdp))
           taken == [offered EXCEPT !.neg = k]
           r == negotiate(k)
<1>1. NegOK(n) /\ n.state = "REMOTE_OFFER" /\ n.neg_remote = sdp /\ n.active_local = s.neg.active_local
    <2>1. NegShape(s.neg)
        BY DEF NegOK
    <2>2. NegShape(n) /\ n.state = "REMOTE_OFFER" /\ n.neg_remote = sdp /\ n.active_local = s.neg.active_local
          /\ n.has_remote_answer = s.neg.has_remote_answer /\ n.to_codec = s.neg.to_codec /\ n.to_pt = s.neg.to_pt
        BY <2>1 DEF set_remote_offer, NegShape
    <2> HIDE DEF n
    <2> QED BY <2>2 DEF NegOK
<1> HIDE DEF n
<1>2. NegOK(k) /\ k.state = "WAIT_NEGO" /\ k.active_local = s.neg.active_local
    <2>1. NegShape(n)
        BY <1>1 DEF NegOK
    <2>2. NegShape(k) /\ k.state = "WAIT_NEGO" /\ k.active_local = n.active_local
          /\ k.has_remote_answer = n.has_remote_answer /\ k.to_codec = n.to_codec /\ k.to_pt = n.to_pt
        BY <2>1 DEF set_local_answer, NegShape
    <2> HIDE DEF k
    <2> QED BY <1>1, <2>2 DEF NegOK
<1>3. AnswersOr(s, sdp, r.ok, r.neg)
    <2>1. k = set_local_answer(n, LocalAnswer(p, s, n.neg_remote))
        BY <1>1
    <2> HIDE DEF k
    <2> DEFINE a == negotiate(set_local_answer(n, LocalAnswer(p, s, n.neg_remote)))
    <2>2. a = r
        BY <2>1
    <2>3. Described(n.neg_remote)
        BY <1>1
    <2>4. Given(s, n, a)
        BY <1>1, <2>3, GiveAnswer
    <2> HIDE DEF a, r
    <2> QED BY <1>1, <2>2, <2>4 DEF AnswersOr, Given
<1>4. offered.neg = n /\ offered.unhold = FALSE /\ PartyShape(offered)
    BY DEF PartyShape
<1> HIDE DEF offered, k
<1>5. taken.neg = k /\ taken.unhold = FALSE
    BY <1>4 DEF PartyShape
<1>6. o \in {taken, offered}
    <2>1. taken = [offered EXCEPT !.neg = set_local_answer(@, LocalAnswer(p, s, sdp))]
        BY <1>4 DEF k, PartyShape
    <2>2. offered = [s EXCEPT !.neg = set_remote_offer(@, sdp), !.unhold = FALSE]
        BY DEF offered, n
    <2> HIDE DEF taken
    <2>3. RxOffer(p, s, sdp, where) = IF where \in Declines THEN {taken, offered} ELSE {taken}
        BY <2>1, <2>2 DEF RxOffer
    <2> QED BY <2>3
<1> HIDE DEF taken, r
<1> QED BY <1>1, <1>2, <1>3, <1>4, <1>5, <1>6 DEF r

\* A cancelled offer changes nothing that is used.
LEMMA CancelContent ==
    ASSUME NEW n, NegOK(n)
    PROVE  NegOK(cancel_offer(n)) /\ cancel_offer(n).state = "DONE" /\ cancel_offer(n).active_local = n.active_local
    BY ClearedFacts, CancelFacts DEF NegOK, cancel_offer

\* x is the response of p to m.
ResponseTo(p, m, x) == x.to = Other(p) /\ x.cseq = m.cseq /\ x.kind \in {"OK", "Fail"}

\* The offer in m is answered or refused with x.
Settles(p, s, m, o, x) ==
    /\ o.out = {x} /\ ResponseTo(p, m, x) /\ NegOK(o.neg) /\ o.neg.state = "DONE" /\ o.unhold = FALSE
    /\ IF x.kind = "OK" THEN /\ x.sdp = o.neg.active_local /\ AnswerTo(m.sdp, x.sdp)
                             /\ s.local_hold => NoRecv(o.neg.active_local.media)
       ELSE o.neg.active_local = s.neg.active_local

\* The response to an offer: the answer, or a failure that changes nothing.
LEMMA RespondOfferContent ==
    ASSUME NEW p \in Parties, NEW s, NEW m, PartyShape(s), NegOK(s.neg), s.out = {}, Described(m.sdp),
           NEW g \in RxOffer(p, s, m.sdp, "request")
    PROVE  \E x : Settles(p, s, m, RespondOffer(p, g, m), x)
<1>1. /\ NegOK(g.neg) /\ g.neg.active_local = s.neg.active_local /\ g.unhold = FALSE
      /\ g.neg.state # "REMOTE_OFFER" => LET r == negotiate(g.neg) IN AnswersOr(s, m.sdp, r.ok, r.neg)
    BY RxOfferContent
<1>2. PartyShape(g) /\ g.out = {}
    BY RxOfferFacts DEF NegOK, Calm
<1>3. ASSUME NEW n, NEW kind \in {"OK", "Fail"}, NEW sdp, NegOK(n), n.state = "DONE",
             IF kind = "OK" THEN /\ sdp = n.active_local /\ AnswerTo(m.sdp, sdp)
                                 /\ s.local_hold => NoRecv(n.active_local.media)
             ELSE n.active_local = s.neg.active_local
      PROVE  Settles(p, s, m, Send([g EXCEPT !.neg = n], Msg(p, kind, m.cseq, sdp)), Msg(p, kind, m.cseq, sdp))
    <2> DEFINE t == [g EXCEPT !.neg = n]
               x == Msg(p, kind, m.cseq, sdp)
               o == Send(t, x)
    <2>1. PartyShape(t) /\ t.neg = n /\ t.out = {} /\ t.unhold = FALSE
        BY <1>1, <1>2, NegSet
    <2>2. x.to = Other(p) /\ x.kind = kind /\ x.cseq = m.cseq /\ x.sdp = sdp
        BY MsgFacts
    <2> HIDE DEF t, x
    <2>3. o.neg = n /\ o.out = {x} /\ o.unhold = FALSE
        BY <2>1, SendFacts
    <2> HIDE DEF o
    <2>4. Settles(p, s, m, o, x)
        BY <1>3, <2>2, <2>3 DEF Settles, ResponseTo
    <2> QED BY <2>4 DEF o, t, x
<1>4. CASE g.neg.state = "REMOTE_OFFER"
    <2> DEFINE n == cancel_offer(g.neg)
    <2>1. NegOK(n) /\ n.state = "DONE" /\ n.active_local = s.neg.active_local
        BY <1>1, CancelContent
    <2>2. RespondOffer(p, g, m) = Send([g EXCEPT !.neg = n], Msg(p, "Fail", m.cseq, NoSdp))
        BY <1>4 DEF RespondOffer, Reject
    <2> HIDE DEF n
    <2>3. Settles(p, s, m, Send([g EXCEPT !.neg = n], Msg(p, "Fail", m.cseq, NoSdp)), Msg(p, "Fail", m.cseq, NoSdp))
        BY <1>3, <2>1
    <2> QED BY <2>2, <2>3
<1>5. CASE g.neg.state # "REMOTE_OFFER"
    <2> DEFINE r == negotiate(g.neg)
    <2>1. AnswersOr(s, m.sdp, r.ok, r.neg)
        BY <1>1, <1>5
    <2>2. RespondOffer(p, g, m) =
              IF r.ok THEN Send([g EXCEPT !.neg = r.neg], Msg(p, "OK", m.cseq, r.neg.active_local))
              ELSE Send([g EXCEPT !.neg = r.neg], Msg(p, "Fail", m.cseq, NoSdp))
        BY <1>5 DEF RespondOffer, Respond, Reject
    <2> HIDE DEF r
    <2>3. CASE r.ok
        <3>1. Settles(p, s, m, Send([g EXCEPT !.neg = r.neg], Msg(p, "OK", m.cseq, r.neg.active_local)),
                      Msg(p, "OK", m.cseq, r.neg.active_local))
            BY <1>3, <2>1, <2>3 DEF AnswersOr
        <3> QED BY <2>2, <2>3, <3>1
    <2>4. CASE ~r.ok
        <3>1. Settles(p, s, m, Send([g EXCEPT !.neg = r.neg], Msg(p, "Fail", m.cseq, NoSdp)),
                      Msg(p, "Fail", m.cseq, NoSdp))
            BY <1>3, <2>1, <2>4 DEF AnswersOr
        <3> QED BY <2>2, <2>4, <3>1
    <2> QED BY <2>3, <2>4
<1> QED BY <1>4, <1>5

\* x is the response of s, which becomes o, to request m.
Outcome(p, s, m, o, x) ==
    /\ o.out = {x} /\ ResponseTo(p, m, x) /\ NegOK(o.neg) /\ (HoldOK(s) => HoldOK(o))
    /\ (x.kind = "Fail" /\ Unnoticed(s, o)) \/ Accepted(s, o, m, x) \/ OfferedBack(s, o, m, x)

\* Another request is noted or saved.
Alike(s, t) ==
    /\ t.neg = s.neg /\ t.updates = s.updates /\ t.cseq = s.cseq
    /\ t.local_hold = s.local_hold /\ t.unhold = s.unhold /\ t.hold_msg = s.hold_msg
    /\ t.invite = s.invite \/ (s.invite.role = "none" /\ t.invite.role = "uas" /\ ~t.invite.ok)

\* A request that is only noted or saved changes nothing of the outcome.
LEMMA OutcomeAlike ==
    ASSUME NEW p, NEW s, NEW t, NEW m, NEW o, NEW x, Alike(s, t), Outcome(p, t, m, o, x)
    PROVE  Outcome(p, s, m, o, x)
<1>1. Pending(t) = Pending(s)
    BY DEF Alike, Pending
<1>2. HoldOK(s) => HoldOK(t)
    BY DEF Alike, HoldOK, Open
<1>3. Offering(s) <=> Offering(t)
    BY DEF Alike, Offering
<1>4. Unnoticed(t, o) => Unnoticed(s, o)
    BY <1>1, <1>3 DEF Alike, Unnoticed, Open, Offering
<1>5. Accepted(t, o, m, x) => Accepted(s, o, m, x)
    BY <1>1 DEF Alike, Accepted
<1>6. OfferedBack(t, o, m, x) => OfferedBack(s, o, m, x)
    BY <1>1 DEF Alike, OfferedBack
<1> QED BY <1>2, <1>4, <1>5, <1>6 DEF Outcome

\* A request is refused.
LEMMA RejectOutcome ==
    ASSUME NEW p, NEW s, NEW m, Sound(s), NegOK(s.neg), s.out = {}
    PROVE  \E x : Outcome(p, s, m, Reject(p, s, m), x)
<1> DEFINE x == Msg(p, "Fail", m.cseq, NoSdp)
           o == Reject(p, s, m)
<1>1. x.to = Other(p) /\ x.kind = "Fail" /\ x.cseq = m.cseq
    BY MsgFacts
<1>2. o = Send(s, x)
    BY DEF Reject
<1> HIDE DEF x, o
<1>3. /\ o.out = {x} /\ o.neg = s.neg /\ o.invite = s.invite /\ o.updates = s.updates /\ o.cseq = s.cseq
      /\ o.local_hold = s.local_hold /\ o.hold_msg = s.hold_msg /\ o.unhold = s.unhold
    BY <1>2, SendFacts DEF Sound
<1>4. HoldOK(s) => HoldOK(o)
    BY <1>3 DEF HoldOK, Open
<1>5. Unnoticed(s, o)
    BY <1>3 DEF Unnoticed, Open, Offering, Pending
<1>6. Outcome(p, s, m, o, x)
    BY <1>1, <1>3, <1>4, <1>5 DEF Outcome, ResponseTo
<1> QED BY <1>6 DEF o

\* The offer in a request is settled.
LEMMA SettledOutcome ==
    ASSUME NEW p, NEW s, NEW m, NEW o, NEW x, Settles(p, s, m, o, x), s.neg.state = "DONE", ~Offering(s),
           m.kind \in Requests, m.sdp # NoSdp,
           o.updates = s.updates, o.cseq = s.cseq, o.local_hold = s.local_hold, o.hold_msg = s.hold_msg,
           ~Offering(o), o.invite.role = s.invite.role, s.invite.role = "uac" => o.invite = s.invite
    PROVE  Outcome(p, s, m, o, x)
<1>1. Pending(o) = Pending(s) /\ ~Open(o) /\ ~Open(s) /\ o.unhold = FALSE
    BY DEF Pending, Open, Settles
<1>2. HoldOK(s) => HoldOK(o)
    BY <1>1 DEF HoldOK, Settles
<1>3. CASE x.kind = "OK"
    <2>1. Accepted(s, o, m, x)
        BY <1>1, <1>3 DEF Accepted, Settles, ResponseTo
    <2> QED BY <1>2, <2>1 DEF Outcome, Settles
<1>4. CASE x.kind # "OK"
    <2>1. Unnoticed(s, o) /\ x.kind = "Fail"
        BY <1>1, <1>4 DEF Unnoticed, Settles, ResponseTo
    <2> QED BY <1>2, <2>1 DEF Outcome, Settles
<1> QED BY <1>3, <1>4

\* A re-INVITE without an offer is answered with one.
LEMMA OfferOutcome ==
    ASSUME NEW p, NEW s, NEW t, NEW m, NEW media, Sound(t), t.out = {}, NegOK(t.neg), Offerable(media),
           Alike(s, t), s.invite.role = "none", s.neg.state = "DONE",
           t.invite.role = "uas", t.invite.cseq = m.cseq, ~t.invite.done,
           m.kind = "INVITE", m.sdp = NoSdp
    PROVE  \E x : Outcome(p, s, m, RespondWithOffer(p, t, m, media), x)
<1> DEFINE lines == IF t.local_hold THEN HoldOffer(t, media) ELSE media
           n == modify_local_offer(t.neg, lines)
           i == [t.invite EXCEPT !.ok = TRUE]
           u == [t EXCEPT !.neg = n, !.unhold = FALSE, !.invite = i]
           x == Msg(p, "OK", m.cseq, n.neg_local)
           o == Send(u, x)
<1>1. RespondWithOffer(p, t, m, media) = o
    <2>1. RespondWithOffer(p, t, m, media) = SendOffer(p, t, m, n)
        BY DEF RespondWithOffer
    <2> HIDE DEF n
    <2>2. [t EXCEPT !.neg = n, !.unhold = FALSE, !.invite.ok = TRUE] = u
        BY DEF Sound, PartyShape, Tsx
    <2> QED BY <2>1, <2>2 DEF SendOffer
<1>2. Offerable(lines) /\ (t.local_hold => NoRecv(lines))
    BY HoldOfferFacts
<1> HIDE DEF lines
<1>3. /\ NegOK(n) /\ n.state = "LOCAL_OFFER" /\ n.active_local = t.neg.active_local
      /\ Described(n.neg_local) /\ n.neg_local # NoSdp
      /\ NoRecv(lines) => NoRecv(n.neg_local.media)
    BY <1>2, MakeOffer
<1>4. i.role = "uas" /\ i.ok /\ ~i.done /\ i.cseq = m.cseq
    BY DEF Sound, Tsx
<1>5. x.to = Other(p) /\ x.kind = "OK" /\ x.cseq = m.cseq /\ x.sdp = n.neg_local
    BY MsgFacts
<1> HIDE DEF n, i, x
<1>6. /\ PartyShape(u) /\ u.neg = n /\ u.out = {} /\ u.unhold = FALSE /\ u.invite = i
      /\ u.updates = t.updates /\ u.cseq = t.cseq
      /\ u.local_hold = t.local_hold /\ u.hold_msg = t.hold_msg
    BY DEF Sound, PartyShape
<1> HIDE DEF u
<1>7. /\ o.neg = n /\ o.out = {x} /\ o.unhold = FALSE /\ o.invite = i
      /\ o.updates = t.updates /\ o.cseq = t.cseq
      /\ o.local_hold = t.local_hold /\ o.hold_msg = t.hold_msg
    BY <1>6, SendFacts
<1> HIDE DEF o
<1>8. Pending(o) = Pending(s) /\ o.cseq = s.cseq
    BY <1>7 DEF Pending, Alike
<1>9. OfferedBack(s, o, m, x)
    BY <1>3, <1>4, <1>5, <1>7, <1>8 DEF OfferedBack, Alike, Open, Offering
<1>10. HoldOK(s) => HoldOK(o)
    BY <1>2, <1>3, <1>4, <1>7 DEF HoldOK, Alike, Open
<1>11. Outcome(p, s, m, o, x)
    BY <1>3, <1>5, <1>7, <1>9, <1>10 DEF Outcome, ResponseTo
<1> QED BY <1>1, <1>11

\* What may be in a request.
Askable(m) == m.kind \in Requests /\ m.cseq \in Nat /\ IF m.sdp = NoSdp THEN m.kind = "INVITE" ELSE Described(m.sdp)

OffersOK(p) == \A media \in Offers[p] : Offerable(media)

\* inv_on_state_confirmed: the outcome of a re-INVITE, with an offer and without.
LEMMA RxInviteOutcome ==
    ASSUME NEW p \in Parties, NEW s, NEW m, Sound(s), s.out = {}, NegOK(s.neg), Offering(s) => Open(s),
           Askable(m), m.kind = "INVITE", OffersOK(p), NEW o \in RxInvite(p, s, m)
    PROVE  \E x : Outcome(p, s, m, o, x)
<1> DEFINE saved == [s EXCEPT !.invite = [NoTsx EXCEPT !.role = "uas", !.cseq = m.cseq]]
<1>1. CASE s.invite.role # "none"
    <2>1. o = Reject(p, s, m)
        BY <1>1 DEF RxInvite
    <2> QED BY <2>1, RejectOutcome
<1>2. CASE s.invite.role = "none"
    <2>1. /\ Sound(saved) /\ saved.out = {} /\ saved.neg = s.neg /\ Served(s, saved)
          /\ saved.invite.role = "uas" /\ ~saved.invite.ok /\ ~saved.invite.done
        BY <1>2, SaveFacts DEF Askable
    <2>2. Alike(s, saved) /\ saved.invite.cseq = m.cseq
        <3> DEFINE i == [NoTsx EXCEPT !.role = "uas", !.cseq = m.cseq]
                   t == [s EXCEPT !.invite = i]
        <3>1. i.role = "uas" /\ ~i.ok /\ i.cseq = m.cseq
            BY DEF NoTsx
        <3> HIDE DEF i
        <3>2. /\ t.invite = i /\ t.neg = s.neg /\ t.updates = s.updates /\ t.cseq = s.cseq
              /\ t.local_hold = s.local_hold /\ t.unhold = s.unhold /\ t.hold_msg = s.hold_msg
            BY DEF Sound, PartyShape
        <3> HIDE DEF t
        <3>3. Alike(s, t) /\ t.invite.cseq = m.cseq
            BY <1>2, <3>1, <3>2 DEF Alike
        <3> QED BY <3>3 DEF t, i
    <2>3. NegOK(saved.neg) /\ ~Offering(saved)
        BY <2>1 DEF Offering
    <2>4. CASE s.neg.state # "DONE"
        <3>1. o = Reject(p, saved, m)
            BY <1>2, <2>4 DEF RxInvite
        <3> HIDE DEF saved
        <3>2. \E x : Outcome(p, saved, m, o, x)
            BY <2>1, <2>3, <3>1, RejectOutcome
        <3> QED BY <2>2, <3>2, OutcomeAlike
    <2>5. CASE s.neg.state = "DONE" /\ m.sdp # NoSdp
        <3>1. PICK g \in RxOffer(p, saved, m.sdp, "request") : o = MarkDone(RespondOffer(p, g, m))
            BY <1>2, <2>5 DEF RxInvite
        <3> DEFINE r == RespondOffer(p, g, m)
        <3> HIDE DEF saved
        <3>2. Served(saved, r) /\ r.neg.state = "DONE" /\ r.invite = saved.invite
            BY <2>1, OfferedFacts
        <3>3. PICK x : Settles(p, saved, m, r, x)
            BY <2>1, <2>3, <2>5, RespondOfferContent DEF Askable, Sound
        <3>4. o = MarkDone(r)
            BY <3>1
        <3> HIDE DEF r
        <3>5. /\ o.neg = r.neg /\ o.out = r.out /\ o.unhold = r.unhold
              /\ o.updates = r.updates /\ o.cseq = r.cseq
              /\ o.local_hold = r.local_hold /\ o.hold_msg = r.hold_msg
              /\ o.invite.role = r.invite.role
            BY <3>2, <3>4, MarkDoneFacts DEF Served
        <3>6. ~Offering(o)
            <4>1. r.invite \in Tsx /\ PartyShape(r)
                BY <3>2 DEF Served
            <4>2. CASE \E y \in r.out : y.kind = "OK"
                <5>1. o = [r EXCEPT !.invite.ok = TRUE, !.invite.done = TRUE]
                    BY <3>4, <4>2 DEF MarkDone
                <5>2. o.invite.done
                    BY <4>1, <5>1 DEF PartyShape, Tsx
                <5> QED BY <5>2 DEF Offering
            <4>3. CASE ~\E y \in r.out : y.kind = "OK"
                <5>1. o = r
                    BY <3>4, <4>3 DEF MarkDone
                <5> QED BY <2>1, <3>2, <5>1 DEF Offering
            <4> QED BY <4>2, <4>3
        <3>7. Settles(p, saved, m, o, x)
            BY <3>3, <3>5 DEF Settles
        <3>8. o.invite.role = saved.invite.role
            BY <3>2, <3>5
        <3>9. Outcome(p, saved, m, o, x)
            BY <2>1, <2>3, <2>5, <3>2, <3>5, <3>6, <3>7, <3>8, SettledOutcome DEF Served, Askable
        <3> QED BY <2>2, <3>9, OutcomeAlike
    <2>6. CASE s.neg.state = "DONE" /\ m.sdp = NoSdp
        <3>1. PICK media \in Offers[p] : o = RespondWithOffer(p, saved, m, media)
            BY <1>2, <2>6 DEF RxInvite
        <3> HIDE DEF saved
        <3>2. Offerable(media)
            BY DEF OffersOK
        <3> QED BY <1>2, <2>1, <2>2, <2>3, <2>6, <3>1, <3>2, OfferOutcome
    <2> QED BY <2>4, <2>5, <2>6
<1> QED BY <1>1, <1>2

\* inv_respond_incoming_update: the outcome of an UPDATE.
LEMMA RxUpdateOutcome ==
    ASSUME NEW p \in Parties, NEW s, NEW m, Sound(s), s.out = {}, NegOK(s.neg), Offering(s) => Open(s),
           Askable(m), m.kind = "UPDATE", NEW o \in RxUpdate(p, s, m)
    PROVE  \E x : Outcome(p, s, m, o, x)
<1>1. CASE s.neg.state # "DONE"
    <2>1. o = Reject(p, s, m)
        BY <1>1 DEF RxUpdate
    <2> QED BY <2>1, RejectOutcome
<1>2. CASE s.neg.state = "DONE"
    <2>1. PICK g \in RxOffer(p, s, m.sdp, "request") : o = RespondOffer(p, g, m)
        BY <1>2 DEF RxUpdate
    <2>2. Served(s, o) /\ o.neg.state = "DONE" /\ o.invite = s.invite
        BY <2>1, OfferedFacts
    <2>3. m.sdp # NoSdp /\ Described(m.sdp)
        BY DEF Askable
    <2>4. PICK x : Settles(p, s, m, o, x)
        BY <2>1, <2>3, RespondOfferContent DEF Sound
    <2>5. ~Offering(s) /\ ~Offering(o)
        BY <1>2, <2>2 DEF Offering, Open
    <2> QED BY <1>2, <2>2, <2>3, <2>4, <2>5, SettledOutcome DEF Served, Askable
<1> QED BY <1>1, <1>2

\* The outcome of a request, which the dialog may refuse as old.
LEMMA RxRequestOutcome ==
    ASSUME NEW p \in Parties, NEW s, NEW m, Good(s), s.out = {}, NegOK(s.neg), Offering(s) => Open(s),
           Askable(m), OffersOK(p), NEW o \in RxRequest(p, s, m)
    PROVE  \E x : Outcome(p, s, m, o, x)
<1> DEFINE fresh == [s EXCEPT !.remote_cseq = m.cseq]
<1>1. CASE m.cseq <= s.remote_cseq
    <2>1. o = Reject(p, s, m)
        BY <1>1 DEF RxRequest
    <2> QED BY <2>1, RejectOutcome DEF Good
<1>2. CASE ~(m.cseq <= s.remote_cseq)
    <2>1. /\ Sound(fresh) /\ fresh.out = {} /\ Alike(s, fresh)
        <3>1. /\ PartyShape(fresh) /\ fresh.neg = s.neg /\ fresh.out = s.out /\ fresh.unhold = s.unhold
              /\ fresh.updates = s.updates /\ fresh.cseq = s.cseq /\ fresh.remote_cseq = m.cseq
              /\ fresh.local_hold = s.local_hold /\ fresh.hold_msg = s.hold_msg /\ fresh.invite = s.invite
            BY DEF Good, Sound, PartyShape
        <3> HIDE DEF fresh
        <3> QED BY <3>1 DEF Good, Sound, Alike, Askable
    <2>2. o \in IF m.kind = "INVITE" THEN RxInvite(p, fresh, m) ELSE RxUpdate(p, fresh, m)
        BY <1>2 DEF RxRequest
    <2> HIDE DEF fresh
    <2>3. NegOK(fresh.neg) /\ (Offering(fresh) => Open(fresh))
        BY <2>1 DEF Alike, Offering, Open
    <2>4. \E x : Outcome(p, fresh, m, o, x)
        BY <2>1, <2>2, <2>3, RxInviteOutcome, RxUpdateOutcome DEF Askable, Requests
    <2> QED BY <2>1, <2>4, OutcomeAlike
<1> QED BY <1>1, <1>2

\* A request arrives at s from r.
LEMMA DuetRequest ==
    ASSUME NEW p \in Parties, NEW s, NEW r, NEW Os, NEW As, NEW Or, NEW Ar, Duet(s, r, Os, As, Or, Ar),
           s.out = {}, OffersOK(p), NEW m \in Or, m.kind \in Requests,
           NEW o \in RxRequest(p, s, m), Good(o)
    PROVE  /\ \E x : /\ o.out = {x} /\ ResponseTo(p, m, x)
                     /\ Duet(o, r, Os, As, (Or \ {m}) \cup {x}, Ar)
           /\ HoldOK(s) => HoldOK(o)
<1>1. Good(s) /\ NegOK(s.neg) /\ (Offering(s) => Open(s))
    BY DEF Duet, Side, Carried
<1>2. Askable(m)
    <2>1. m.cseq = r.cseq /\ r.cseq \in Nat
        BY DEF Duet, Side, Single, Good, Sound
    <2> QED BY <2>1 DEF Duet, Side, Carried, Askable
<1>3. PICK x : Outcome(p, s, m, o, x)
    BY <1>1, <1>2, RxRequestOutcome
<1>4. Duet(o, r, Os, As, (Or \ {m}) \cup {x}, Ar)
    <2>1. CASE x.kind = "Fail" /\ Unnoticed(s, o)
        BY <1>3, <2>1, DuetRefused DEF Outcome, ResponseTo
    <2>2. CASE Accepted(s, o, m, x)
        BY <1>3, <2>2, DuetAccepted DEF Outcome
    <2>3. CASE OfferedBack(s, o, m, x)
        BY <1>3, <2>3, DuetOfferedBack DEF Outcome
    <2> QED BY <1>3, <2>1, <2>2, <2>3 DEF Outcome
<1> QED BY <1>3, <1>4 DEF Outcome

-------------------------------------------------------------------------------
(* The handlers: an ACK and a response.                                    *)

\* An answer to the offer that is open.
LEMMA RxAnswerContent ==
    ASSUME NEW s, NEW done, ~done, NEW sdp, Sound(s), NegOK(s.neg), Open(s), Described(s.neg.neg_local),
           Described(sdp), AnswerTo(s.neg.neg_local, sdp)
    PROVE  LET a == RxAnswer(s, done, sdp)
           IN  /\ NegOK(a.neg) /\ a.neg.state = "DONE" /\ Agree(a.neg.active_local.media, sdp.media)
               /\ NoRecv(s.neg.neg_local.media) => NoRecv(a.neg.active_local.media)
<1> DEFINE n == negotiate(set_remote_answer(s.neg, sdp)).neg
           t == [s EXCEPT !.neg = n]
<1>1. sdp # NoSdp
    BY ActiveFacts DEF AnswerTo
<1>2. RxAnswer(s, done, sdp) = t
    BY <1>1 DEF RxAnswer, Open
<1>3. /\ NegOK(n) /\ n.state = "DONE" /\ Agree(n.active_local.media, sdp.media)
      /\ NoRecv(s.neg.neg_local.media) => NoRecv(n.active_local.media)
    BY AcceptAnswer
<1> HIDE DEF n
<1>4. t.neg = n
    BY DEF Sound, PartyShape
<1> HIDE DEF t
<1> QED BY <1>2, <1>3, <1>4

\* An offer is given up: what is in use stays.
LEMMA CancelLocalContent ==
    ASSUME NEW s, PartyShape(s), NegOK(s.neg)
    PROVE  NegOK(CancelLocal(s).neg) /\ CancelLocal(s).neg.active_local = s.neg.active_local
<1>1. CASE s.neg.state # "LOCAL_OFFER"
    <2>1. CancelLocal(s) = s
        BY <1>1 DEF CancelLocal
    <2> QED BY <2>1
<1>2. CASE s.neg.state = "LOCAL_OFFER"
    <2> DEFINE n == cancel_offer(s.neg)
    <2>1. NegOK(n) /\ n.active_local = s.neg.active_local
        BY CancelContent
    <2>2. CancelLocal(s) = [s EXCEPT !.neg = n]
        BY <1>2 DEF CancelLocal
    <2> HIDE DEF n
    <2> QED BY <2>1, <2>2, NegSet
<1> QED BY <1>1, <1>2

\* The hold when nothing is open any more: what is used is the offer of the hold, or as before.
LEMMA HoldSettled ==
    ASSUME NEW s, NEW o, HoldOK(s), o.neg.state = "DONE", o.invite.role # "uac",
           o.local_hold => \/ s.local_hold /\ Open(s) /\ (NoRecv(s.neg.neg_local.media) => NoRecv(o.neg.active_local.media))
                           \/ NoRecv(o.neg.active_local.media)
    PROVE  HoldOK(o)
    BY DEF HoldOK, Open

\* The re-INVITE is forgotten.
LEMMA ForgetAll ==
    ASSUME NEW s, PartyShape(s)
    PROVE  LET o == [s EXCEPT !.invite = NoTsx]
           IN  /\ o.invite = NoTsx /\ o.neg = s.neg /\ o.out = s.out /\ o.unhold = s.unhold
               /\ o.updates = s.updates /\ o.cseq = s.cseq /\ o.local_hold = s.local_hold
               /\ o.hold_msg = s.hold_msg
    BY DEF PartyShape

\* An ACK that finds no offer open.
LEMMA AckUnnoticed ==
    ASSUME NEW s, NEW r, NEW Os, NEW As, NEW Or, NEW Ar, Duet(s, r, Os, As, Or, Ar), s.out = {},
           NEW m \in Ar, ~(Offering(s) /\ s.invite.cseq = m.cseq), NEW o, o = RxAck(s, m), Good(o)
    PROVE  o.out = {} /\ Duet(o, r, Os, As, Or, Ar \ {m}) /\ (HoldOK(s) => HoldOK(o))
<1>1. Good(s) /\ NegOK(s.neg) /\ PartyShape(s)
    BY DEF Duet, Side, Good, Sound
<1>2. \A y \in Ar : y.kind = "ACK"
    BY DEF Duet, Side, AckOnce
<1>3. \A y \in Os : y.kind # "ACK"
    BY DEF Duet, Side, Single
<1> DEFINE f == [s EXCEPT !.invite = NoTsx]
<1>4. o = s \/ (o = f /\ s.invite.role = "uas" /\ ~Offering(s))
    <2>1. CASE s.invite.role # "uas" \/ s.invite.cseq # m.cseq
        BY <2>1 DEF RxAck
    <2>2. CASE s.invite.role = "uas" /\ s.invite.cseq = m.cseq /\ ~s.invite.ok
        BY <2>2 DEF RxAck, Offering
    <2>3. CASE s.invite.role = "uas" /\ s.invite.cseq = m.cseq /\ s.invite.ok
        <3>1. s.invite.done
            BY <2>3 DEF Offering
        <3>2. RxAnswer(s, s.invite.done, m.sdp) = s
            BY <3>1 DEF RxAnswer
        <3>3. s.neg.state # "LOCAL_OFFER"
            BY <1>1, <2>3, <3>1 DEF Good, Ends, Waits
        <3>4. CancelLocal(s) = s
            BY <3>3 DEF CancelLocal
        <3>5. o = f
            BY <2>3, <3>2, <3>4 DEF RxAck
        <3> QED BY <2>3, <3>1, <3>5 DEF Offering
    <2> QED BY <2>1, <2>2, <2>3
<1>5. /\ f.invite = NoTsx /\ f.neg = s.neg /\ f.out = s.out /\ f.unhold = s.unhold
      /\ f.updates = s.updates /\ f.cseq = s.cseq /\ f.local_hold = s.local_hold
      /\ f.hold_msg = s.hold_msg
    BY <1>1, ForgetAll
<1> HIDE DEF f
<1>6. NoTsx.role = "none"
    BY DEF NoTsx
<1>7. /\ o.neg = s.neg /\ o.out = {} /\ o.updates = s.updates /\ o.cseq = s.cseq
      /\ o.unhold = s.unhold /\ o.local_hold = s.local_hold /\ o.hold_msg = s.hold_msg
      /\ o.invite = s.invite \/ (o.invite.role = "none" /\ s.invite.role = "uas" /\ ~Offering(s))
    BY <1>4, <1>5, <1>6
<1>8. Unnoticed(s, o)
    BY <1>7 DEF Unnoticed, Open, Offering, Pending
<1>9. HoldOK(s) => HoldOK(o)
    BY <1>7 DEF HoldOK, Open
<1>10. \A y \in Ar : y \notin Os
    BY <1>2, <1>3
<1>11. m \notin Replies(s, Os, Ar)
    BY <1>2 DEF Replies
<1> DEFINE Br == Ar \ {m}
<1>12. Br \in SUBSET Ar /\ \A y \in Ar \ Br : y \notin Replies(s, Os, Ar)
    BY <1>11
<1> HIDE DEF Br
<1>13. NegOK(o.neg)
    BY <1>1, <1>7
<1>14. Duet(o, r, Os, As, Or, Br)
    BY <1>8, <1>10, <1>12, <1>13, DuetUnnoticed
<1> QED BY <1>7, <1>9, <1>14 DEF Br

\* The message that answers the offer of s.
LEMMA ReplyFacts ==
    ASSUME NEW s, NEW r, NEW Os, NEW As, NEW Or, NEW Ar, Duet(s, r, Os, As, Or, Ar), NEW m \in Replies(s, Os, Ar)
    PROVE  /\ Open(s) /\ Described(s.neg.neg_local) /\ Described(m.sdp) /\ AnswerTo(s.neg.neg_local, m.sdp)
           /\ m.sdp # NoSdp
<1>1. AnswerTo(s.neg.neg_local, m.sdp) /\ m.sdp = r.neg.active_local /\ NegOK(r.neg)
    BY DEF Duet, Side, Carried
<1>2. Open(s) /\ Described(s.neg.neg_local)
    BY DEF Duet, Side, Carried, Replies
<1>3. m.sdp # NoSdp
    BY <1>1, ActiveFacts DEF AnswerTo
<1> QED BY <1>1, <1>2, <1>3 DEF NegOK

\* The ACK of a 2xx with an offer of s.
LEMMA AckOver ==
    ASSUME NEW s, NEW r, NEW Os, NEW As, NEW Or, NEW Ar, Duet(s, r, Os, As, Or, Ar), s.out = {},
           NEW m \in Ar, Offering(s), s.invite.cseq = m.cseq, NEW o, o = RxAck(s, m), Good(o)
    PROVE  o.out = {} /\ Duet(o, r, Os, As, Or, Ar \ {m}) /\ (HoldOK(s) => HoldOK(o))
<1>1. Good(s) /\ NegOK(s.neg) /\ PartyShape(s) /\ Sound(s) /\ Open(s)
    BY DEF Duet, Side, Good, Sound, Carried
<1>2. m.kind = "ACK"
    BY DEF Duet, Side, AckOnce
<1>3. m \notin Os
    BY <1>2 DEF Duet, Side, Single
<1>4. ~Asking(s) /\ s.invite.role = "uas"
    BY <1>1, AskingFacts DEF Offering
<1> DEFINE a == RxAnswer(s, s.invite.done, m.sdp)
           c == CancelLocal(a)
           f == [c EXCEPT !.invite = NoTsx]
<1>5. o = f
    BY DEF RxAck, Offering
<1>6. Calm(s, a) /\ a.out = {} /\ a.unhold = s.unhold
    BY <1>1, RxAnswerFacts
<1>7. /\ Calm(a, c) /\ c.out = {} /\ c.unhold = s.unhold
      /\ IF a.neg.state = "LOCAL_OFFER" THEN c.neg.state = "DONE" ELSE c.neg = a.neg
    <2> HIDE DEF a
    <2> QED BY <1>6, CancelLocalFacts DEF Calm
<1>8. /\ NegOK(c.neg) /\ c.neg.state = "DONE"
      /\ IF m.sdp = NoSdp THEN c.neg.active_local = s.neg.active_local
         ELSE /\ m \in Replies(s, Os, Ar) /\ Agree(c.neg.active_local.media, m.sdp.media)
              /\ NoRecv(s.neg.neg_local.media) => NoRecv(c.neg.active_local.media)
    <2>1. CASE m.sdp = NoSdp
        <3>1. a = s
            BY <2>1 DEF RxAnswer
        <3>2. NegOK(c.neg) /\ c.neg.active_local = s.neg.active_local
            BY <1>1, <3>1, CancelLocalContent
        <3> HIDE DEF a, c
        <3> QED BY <1>1, <1>7, <2>1, <3>1, <3>2 DEF Open
    <2>2. CASE m.sdp # NoSdp
        <3>1. m \in Replies(s, Os, Ar)
            BY <1>1, <1>2, <2>2 DEF Replies
        <3>2. /\ Described(s.neg.neg_local) /\ Described(m.sdp) /\ AnswerTo(s.neg.neg_local, m.sdp)
            BY <3>1, ReplyFacts
        <3>3. ~s.invite.done
            BY DEF Offering
        <3>4. /\ NegOK(a.neg) /\ a.neg.state = "DONE" /\ Agree(a.neg.active_local.media, m.sdp.media)
              /\ NoRecv(s.neg.neg_local.media) => NoRecv(a.neg.active_local.media)
            BY <1>1, <3>2, <3>3, RxAnswerContent
        <3> HIDE DEF a, c
        <3> QED BY <1>7, <2>2, <3>1, <3>4
    <2> QED BY <2>1, <2>2
<1> HIDE DEF a, c
<1>9. /\ f.invite = NoTsx /\ f.neg = c.neg /\ f.out = {} /\ f.unhold = s.unhold
      /\ f.updates = s.updates /\ f.cseq = s.cseq /\ f.local_hold = s.local_hold
    BY <1>6, <1>7, ForgetAll DEF Calm
<1> HIDE DEF f
<1>10. Over(s, o)
    BY <1>4, <1>5, <1>8, <1>9 DEF Over, Asking, Offering, Pending, NoTsx
<1>11. NegOK(o.neg) /\ o.out = {}
    BY <1>5, <1>8, <1>9
<1>12. Plain(s, {})
    BY DEF Plain, Sends
<1>13. Duet(o, r, Os \ {m}, As \cup {}, Or, Ar \ {m})
    <2>1. CASE m.sdp = NoSdp
        <3>1. o.neg.active_local = s.neg.active_local
            BY <1>5, <1>8, <1>9, <2>1
        <3> QED BY <1>10, <1>11, <1>12, <2>1, <3>1, DuetGivenUp
    <2>2. CASE m.sdp # NoSdp
        <3>1. m \in Replies(s, Os, Ar) /\ Agree(o.neg.active_local.media, m.sdp.media)
            BY <1>5, <1>8, <1>9, <2>2
        <3> QED BY <1>10, <1>11, <1>12, <3>1, DuetTaken
    <2> QED BY <2>1, <2>2
<1>14. Os \ {m} = Os /\ As \cup {} = As
    BY <1>3
<1>15. ASSUME HoldOK(s) PROVE HoldOK(o)
    <2>1. o.local_hold = s.local_hold /\ o.invite.role # "uac" /\ o.neg.state = "DONE" /\ o.neg = c.neg
        BY <1>5, <1>8, <1>9 DEF NoTsx
    <2>2. s.local_hold => NoRecv(s.neg.active_local.media) /\ NoRecv(s.neg.neg_local.media)
        BY <1>1, <1>4, <1>15 DEF HoldOK
    <2> QED BY <1>8, <1>15, <2>1, <2>2, HoldSettled
<1> QED BY <1>11, <1>13, <1>14, <1>15

\* An ACK arrives at s.
LEMMA DuetAck ==
    ASSUME NEW s, NEW r, NEW Os, NEW As, NEW Or, NEW Ar, Duet(s, r, Os, As, Or, Ar), s.out = {},
           NEW m \in Ar, NEW o, o = RxAck(s, m), Good(o)
    PROVE  o.out = {} /\ Duet(o, r, Os, As, Or, Ar \ {m}) /\ (HoldOK(s) => HoldOK(o))
    BY AckUnnoticed, AckOver

\* The ACK x.
LEMMA SendAckContent ==
    ASSUME NEW p, NEW s, PartyShape(s), NegShape(s.neg), s.unhold \in BOOLEAN, s.invite \in Tsx, s.out = {}
    PROVE  LET o == SendAck(p, s)
           IN  \E x : /\ o.out = {x} /\ x.to = Other(p) /\ x.kind = "ACK" /\ x.cseq = s.invite.cseq
                      /\ IF s.neg.state = "WAIT_NEGO"
                         THEN LET r == negotiate(s.neg)
                              IN  o.neg = r.neg /\ x.sdp = IF r.ok THEN r.neg.active_local ELSE NoSdp
                         ELSE o.neg = s.neg /\ x.sdp = NoSdp
<1> DEFINE r == IF s.neg.state = "WAIT_NEGO" THEN negotiate(s.neg) ELSE [ok |-> FALSE, neg |-> s.neg]
           d == IF r.ok THEN r.neg.active_local ELSE NoSdp
           x == Msg(p, "ACK", s.invite.cseq, d)
           t == Send(s, x)
           o == [t EXCEPT !.neg = r.neg, !.invite = NoTsx]
<1>1. SendAck(p, s) = o
    BY DEF SendAck, Ack
<1>2. IF s.neg.state = "WAIT_NEGO" THEN r = negotiate(s.neg)
      ELSE r.neg = s.neg /\ d = NoSdp
    OBVIOUS
<1>3. x.to = Other(p) /\ x.kind = "ACK" /\ x.cseq = s.invite.cseq /\ x.sdp = d
    BY MsgFacts
<1> HIDE DEF r, x
<1>4. PartyShape(t) /\ t.out = {x}
    BY SendFacts
<1> HIDE DEF t
<1>5. o.out = {x} /\ o.neg = r.neg
    BY <1>4 DEF PartyShape
<1> HIDE DEF o
<1> QED BY <1>1, <1>2, <1>3, <1>5

\* What s sends at the end of its re-INVITE goes to the other party.
AcksTo(p, X) == \A x \in X : x.to = Other(p) /\ x.kind = "ACK"

\* The 2xx to our re-INVITE.
LEMMA InviteOkOver ==
    ASSUME NEW p \in Parties, NEW s, NEW r, NEW Os, NEW As, NEW Or, NEW Ar, Duet(s, r, Os, As, Or, Ar), s.out = {}, Takes,
           s.invite.role = "uac", NEW m \in Os, m.kind = "OK", NEW o \in RxInviteOk(p, s, m), Good(o), Ended(s, o)
    PROVE  AcksTo(p, o.out) /\ Duet(o, r, Os \ {m}, As \cup o.out, Or, Ar) /\ (HoldOK(s) => HoldOK(o))
<1> DEFINE h == HoldOver(s)
<1>1. Good(s) /\ Sound(s) /\ NegOK(s.neg) /\ s.invite.cseq = s.cseq /\ m.cseq = s.cseq
    BY DEF Duet, Side, Good, Single
<1>2. /\ PartyShape(h) /\ h.hold_msg = 0
      /\ h.neg = s.neg /\ h.out = {} /\ h.unhold = s.unhold /\ h.invite = s.invite
      /\ h.updates = s.updates /\ h.cseq = s.cseq /\ h.remote_cseq = s.remote_cseq
      /\ h.local_hold = s.local_hold
    BY <1>1, HoldOverFacts DEF Sound
<1>3. PICK g \in IF s.neg.state = "DONE" /\ m.sdp # NoSdp THEN RxOffer(p, h, m.sdp, "response")
                 ELSE {RxAnswer(h, FALSE, m.sdp)} :
          o = SendAck(p, CancelLocal(g))
    BY DEF RxInviteOk
<1> HIDE DEF h
<1>4. Sound(h) /\ NegOK(h.neg)
    BY <1>1, <1>2 DEF Sound
<1>5. Pending(s) = {}
    BY <1>1, AskingFacts
<1>6. NoTsx.role = "none" /\ ~NoTsx.ok
    BY DEF NoTsx
<1>7. o.neg.state = "DONE" => Over(s, o)
    BY <1>5, <1>6 DEF Over, Asking, Offering, Pending, Ended
<1>8. \A y \in Ar : y.kind = "ACK"
    BY DEF Duet, Side, AckOnce
<1>9. Ar \ {m} = Ar
    BY <1>8
<1>10. CASE Open(s)
    <2>1. m \in Replies(s, Os, Ar)
        BY <1>10 DEF Replies
    <2>2. Described(s.neg.neg_local) /\ Described(m.sdp) /\ AnswerTo(s.neg.neg_local, m.sdp)
        BY <2>1, ReplyFacts
    <2> DEFINE a == RxAnswer(h, FALSE, m.sdp)
    <2>3. Calm(h, a) /\ a.out = {} /\ a.unhold = h.unhold
        <3>1. Calm(h, a) /\ a.out = h.out /\ a.unhold = h.unhold
            BY <1>4, RxAnswerFacts, ZenonT(60)
        <3> HIDE DEF a
        <3> QED BY <1>2, <3>1
    <2>4. /\ NegOK(a.neg) /\ a.neg.state = "DONE" /\ Agree(a.neg.active_local.media, m.sdp.media)
          /\ NoRecv(s.neg.neg_local.media) => NoRecv(a.neg.active_local.media)
        <3>1. Open(h)
            BY <1>2, <1>10 DEF Open
        <3>2. ~FALSE
            OBVIOUS
        <3>3. /\ NegOK(a.neg) /\ a.neg.state = "DONE" /\ Agree(a.neg.active_local.media, m.sdp.media)
              /\ NoRecv(h.neg.neg_local.media) => NoRecv(a.neg.active_local.media)
            BY <1>2, <1>4, <2>2, <3>1, <3>2, RxAnswerContent
        <3> HIDE DEF a
        <3> QED BY <1>2, <3>3
    <2>5. o = SendAck(p, CancelLocal(a))
        BY <1>3, <1>10 DEF Open
    <2> HIDE DEF a
    <2>6. CancelLocal(a) = a
        BY <2>4 DEF CancelLocal
    <2>7. PartyShape(a) /\ NegShape(a.neg) /\ a.unhold \in BOOLEAN /\ a.invite \in Tsx /\ a.invite = s.invite
        BY <1>1, <1>2, <2>3 DEF Calm, Sound
    <2>8. PICK x : /\ o.out = {x} /\ x.to = Other(p) /\ x.kind = "ACK" /\ x.cseq = a.invite.cseq
                   /\ o.neg = a.neg /\ x.sdp = NoSdp
        BY <2>3, <2>4, <2>5, <2>6, <2>7, SendAckContent
    <2>9. Over(s, o) /\ NegOK(o.neg)
        BY <1>7, <2>4, <2>8
    <2>10. Plain(s, o.out) /\ AcksTo(p, o.out)
        BY <1>1, <2>7, <2>8 DEF Plain, Sends, AcksTo
    <2>11. Duet(o, r, Os \ {m}, As \cup o.out, Or, Ar \ {m})
        BY <2>1, <2>4, <2>8, <2>9, <2>10, DuetTaken
    <2>12. ASSUME HoldOK(s) PROVE HoldOK(o)
        <3>1. o.local_hold = s.local_hold
            BY <1>2, <2>3, <2>5, <2>6, <2>7, SendAckFacts DEF Calm
        <3>2. o.invite.role # "uac" /\ o.neg.state = "DONE"
            BY <1>6, <2>4, <2>8 DEF Ended
        <3>3. NoRecv(s.neg.neg_local.media) => NoRecv(o.neg.active_local.media)
            BY <2>4, <2>8
        <3> QED BY <1>10, <2>12, <3>1, <3>2, <3>3, HoldSettled
    <2> QED BY <1>9, <2>10, <2>11, <2>12
<1>11. CASE ~Open(s)
    <2>1. s.neg.state = "DONE"
        BY <1>1, <1>11, AskingFacts
    <2>2. Offering(r) /\ m.sdp = r.neg.neg_local /\ Open(r)
        BY <1>11 DEF Duet, Side, Carried
    <2>3. Described(m.sdp) /\ m.sdp # NoSdp
        BY <2>2 DEF Duet, Side, Carried
    <2>4. g \in RxOffer(p, h, m.sdp, "response")
        BY <1>3, <2>1, <2>3
    <2>5. Calm(h, g) /\ g.out = {} /\ g.neg.state = "WAIT_NEGO"
        BY <1>2, <1>4, <2>4, RxOfferFacts DEF Sound, Takes
    <2>6. AnswersOr(h, m.sdp, negotiate(g.neg).ok, negotiate(g.neg).neg)
        BY <1>4, <2>3, <2>4, <2>5, RxOfferContent DEF Sound
    <2>7. CancelLocal(g) = g
        BY <2>5 DEF CancelLocal
    <2>8. PartyShape(g) /\ NegShape(g.neg) /\ g.unhold \in BOOLEAN /\ g.invite \in Tsx /\ g.invite = s.invite
        BY <1>1, <1>2, <2>5 DEF Calm, Sound
    <2> DEFINE n == negotiate(g.neg)
    <2>9. PICK x : /\ o.out = {x} /\ x.to = Other(p) /\ x.kind = "ACK" /\ x.cseq = g.invite.cseq
                   /\ o.neg = n.neg /\ x.sdp = IF n.ok THEN n.neg.active_local ELSE NoSdp
        BY <1>3, <2>5, <2>7, <2>8, SendAckContent
    <2> HIDE DEF n
    <2>10. /\ NegOK(n.neg) /\ n.neg.state = "DONE"
           /\ IF n.ok THEN AnswerTo(m.sdp, n.neg.active_local) /\ (h.local_hold => NoRecv(n.neg.active_local.media))
              ELSE n.neg.active_local = s.neg.active_local
        BY <1>2, <2>6 DEF AnswersOr, n
    <2>11. Over(s, o) /\ NegOK(o.neg) /\ x.cseq = s.cseq
        BY <1>1, <1>7, <2>8, <2>9, <2>10
    <2>12. \/ x.sdp = o.neg.active_local /\ AnswerTo(m.sdp, x.sdp)
           \/ x.sdp = NoSdp /\ o.neg.active_local = s.neg.active_local
        BY <2>9, <2>10
    <2>13. Duet(o, r, Os \ {m}, As \cup {x}, Or, Ar)
        BY <1>11, <2>9, <2>11, <2>12, DuetTakenOffer
    <2>14. AcksTo(p, o.out)
        BY <2>9 DEF AcksTo
    <2>15. ASSUME HoldOK(s) PROVE HoldOK(o)
        <3>1. o.local_hold = s.local_hold
            BY <1>2, <1>3, <2>5, <2>7, <2>8, SendAckFacts DEF Calm
        <3>2. o.invite.role # "uac" /\ o.neg.state = "DONE"
            BY <1>6, <2>9, <2>10 DEF Ended
        <3>3. o.local_hold => NoRecv(o.neg.active_local.media)
            <4>1. s.local_hold => NoRecv(s.neg.active_local.media)
                BY <1>11, <2>15 DEF HoldOK
            <4> QED BY <1>2, <2>9, <2>10, <3>1, <4>1
        <3> QED BY <2>15, <3>2, <3>3, HoldSettled
    <2> QED BY <2>9, <2>13, <2>14, <2>15
<1> QED BY <1>10, <1>11

\* Its failure.
LEMMA InviteFailOver ==
    ASSUME NEW p, NEW s, NEW r, NEW Os, NEW As, NEW Or, NEW Ar, Duet(s, r, Os, As, Or, Ar), s.out = {},
           s.invite.role = "uac", NEW m \in Os, m.kind = "Fail", NEW o, o = RxInviteFail(p, s), Good(o), Ended(s, o)
    PROVE  AcksTo(p, o.out) /\ Duet(o, r, Os \ {m}, As \cup o.out, Or, Ar) /\ (HoldOK(s) => HoldOK(o))
<1> DEFINE hold == IF s.hold_msg = s.invite.cseq THEN FALSE ELSE s.unhold \/ s.local_hold
           held == [s EXCEPT !.local_hold = hold]
           h == HoldOver(held)
           c == CancelLocal(h)
           x == Msg(p, "ACK", s.invite.cseq, NoSdp)
           t == Send(c, x)
           f == [t EXCEPT !.invite = NoTsx]
<1>1. Good(s) /\ Sound(s) /\ NegOK(s.neg) /\ s.invite.cseq = s.cseq
    BY DEF Duet, Side, Good, Single
<1>2. o = f
    BY <1>1 DEF RxInviteFail, Sound, PartyShape
<1>3. hold => s.hold_msg # s.invite.cseq /\ (s.unhold \/ s.local_hold)
    OBVIOUS
<1>4. x.to = Other(p) /\ x.kind = "ACK" /\ x.cseq = s.invite.cseq /\ x.sdp = NoSdp
    BY MsgFacts
<1> HIDE DEF hold, x
<1>5. /\ PartyShape(held) /\ held.local_hold = hold /\ held.hold_msg = s.hold_msg
      /\ held.neg = s.neg /\ held.out = {} /\ held.unhold = s.unhold /\ held.invite = s.invite
      /\ held.updates = s.updates /\ held.cseq = s.cseq /\ held.remote_cseq = s.remote_cseq
    BY <1>1 DEF Sound, PartyShape
<1> HIDE DEF held
<1>6. /\ PartyShape(h) /\ h.local_hold = hold
      /\ h.neg = s.neg /\ h.out = {} /\ h.unhold = s.unhold /\ h.invite = s.invite
      /\ h.updates = s.updates /\ h.cseq = s.cseq
    BY <1>1, <1>5, HoldOverFacts DEF Sound
<1> HIDE DEF h
<1>7. /\ Calm(h, c) /\ c.out = {}
      /\ IF h.neg.state = "LOCAL_OFFER" THEN c.neg.state = "DONE" ELSE c.neg = h.neg
    BY <1>1, <1>6, CancelLocalFacts DEF Sound
<1>8. NegOK(c.neg) /\ c.neg.active_local = s.neg.active_local
    BY <1>1, <1>6, CancelLocalContent
<1> HIDE DEF c
<1>9. PartyShape(t) /\ t.out = {x} /\ t.neg = c.neg /\ t.local_hold = c.local_hold
    BY <1>7, SendFacts DEF Calm
<1> HIDE DEF t
<1>10. f.out = {x} /\ f.neg = c.neg /\ f.local_hold = c.local_hold
    BY <1>9, ForgetAll
<1> HIDE DEF f
<1>11. o.neg.state = "DONE"
    BY <1>1, <1>2, <1>6, <1>7, <1>10 DEF Good, Ends
<1>12. NoTsx.role = "none" /\ ~NoTsx.ok
    BY DEF NoTsx
<1>13. Over(s, o)
    <2>1. Pending(s) = {}
        BY <1>1, AskingFacts
    <2> QED BY <1>11, <1>12, <2>1 DEF Over, Asking, Offering, Pending, Ended
<1>14. Plain(s, o.out) /\ AcksTo(p, o.out)
    BY <1>1, <1>2, <1>4, <1>10 DEF Plain, Sends, AcksTo
<1>15. NegOK(o.neg) /\ o.neg.active_local = s.neg.active_local
    BY <1>2, <1>8, <1>10
<1>16. Duet(o, r, Os \ {m}, As \cup o.out, Or, Ar \ {m})
    BY <1>13, <1>14, <1>15, DuetGivenUp
<1>17. Ar \ {m} = Ar
    <2>1. \A y \in Ar : y.kind = "ACK"
        BY DEF Duet, Side, AckOnce
    <2> QED BY <2>1
<1>18. ASSUME HoldOK(s) PROVE HoldOK(o)
    <2>1. o.local_hold = hold
        BY <1>2, <1>6, <1>7, <1>10 DEF Calm
    <2>2. o.local_hold => NoRecv(o.neg.active_local.media)
        BY <1>3, <1>15, <1>18, <2>1 DEF HoldOK
    <2>3. o.invite.role # "uac"
        BY <1>12 DEF Ended
    <2> QED BY <1>11, <1>18, <2>2, <2>3, HoldSettled
<1> QED BY <1>14, <1>16, <1>17, <1>18

\* The response to our UPDATE.
LEMMA UpdateOver ==
    ASSUME NEW s, NEW r, NEW Os, NEW As, NEW Or, NEW Ar, Duet(s, r, Os, As, Or, Ar), s.out = {}, Kept(s), Takes,
           NEW u \in Pending(s), NEW m \in Os, m.kind \in {"OK", "Fail"},
           NEW o, o = RxUpdateResponse(s, u, m), Good(o)
    PROVE  o.out = {} /\ Duet(o, r, Os \ {m}, As, Or, Ar) /\ (HoldOK(s) => HoldOK(o))
<1>1. Good(s) /\ Sound(s) /\ NegOK(s.neg)
    BY DEF Duet, Side, Good
<1>2. /\ Open(s) /\ s.invite.role # "uac" /\ ~u.done /\ ~Offering(s) /\ Pending(s) = {u}
      /\ u \in s.updates /\ ~u.completed
    BY <1>1, AskingFacts DEF Good, Ends, Waits, Open, Asking, Pending
<1>3. m.kind = "OK" => m \in Replies(s, Os, Ar)
    BY <1>2 DEF Replies
<1>4. m.kind = "OK" => Described(s.neg.neg_local) /\ Described(m.sdp) /\ AnswerTo(s.neg.neg_local, m.sdp) /\ m.sdp # NoSdp
    BY <1>3, ReplyFacts
<1> DEFINE sdp == IF m.kind = "OK" THEN m.sdp ELSE NoSdp
           a == RxAnswer(s, u.done, sdp)
<1>5. /\ o.out = {} /\ o.cseq = s.cseq /\ Beside(s, o) /\ Pending(o) = {}
      /\ o.neg = IF m.kind # "OK" THEN cancel_offer(a.neg) ELSE a.neg
    <2>1. m.kind = "OK" => m.sdp # NoSdp
        BY <1>4
    <2>2. /\ o.out = {} /\ o.cseq = s.cseq /\ Beside(s, o) /\ Pending(o) = Pending(s) \ {u}
          /\ o.neg = IF s.neg.state = "LOCAL_OFFER" /\ m.kind # "OK" THEN cancel_offer(a.neg) ELSE a.neg
        BY <1>2, <2>1, RxUpdateResponseFacts
    <2> HIDE DEF a
    <2> QED BY <1>2, <2>2 DEF Open
<1>6. /\ NegOK(o.neg) /\ o.neg.state = "DONE"
      /\ IF m.kind = "OK" THEN /\ Agree(o.neg.active_local.media, m.sdp.media)
                               /\ NoRecv(s.neg.neg_local.media) => NoRecv(o.neg.active_local.media)
         ELSE o.neg.active_local = s.neg.active_local
    <2>1. CASE m.kind = "OK"
        <3>1. sdp = m.sdp
            BY <2>1
        <3>2. /\ NegOK(a.neg) /\ a.neg.state = "DONE" /\ Agree(a.neg.active_local.media, sdp.media)
              /\ NoRecv(s.neg.neg_local.media) => NoRecv(a.neg.active_local.media)
            <4> HIDE DEF sdp
            <4> QED BY <1>1, <1>2, <1>4, <2>1, <3>1, RxAnswerContent
        <3> HIDE DEF a, sdp
        <3> QED BY <1>5, <2>1, <3>1, <3>2
    <2>2. CASE m.kind # "OK"
        <3>1. sdp = NoSdp
            BY <2>2
        <3>2. a = s
            BY <3>1 DEF RxAnswer
        <3>3. o.neg = cancel_offer(s.neg)
            BY <1>5, <2>2, <3>2
        <3> HIDE DEF a, sdp
        <3> QED BY <1>1, <2>2, <3>3, CancelContent
    <2> QED BY <2>1, <2>2
<1> HIDE DEF a, sdp
<1>7. Over(s, o)
    BY <1>2, <1>5, <1>6 DEF Over, Asking, Offering, Beside
<1>8. Plain(s, {})
    BY DEF Plain, Sends
<1>9. Duet(o, r, Os \ {m}, As \cup {}, Or, Ar \ {m})
    <2>1. CASE m.kind = "OK"
        BY <1>3, <1>6, <1>7, <1>8, <2>1, DuetTaken
    <2>2. CASE m.kind = "Fail"
        BY <1>6, <1>7, <1>8, <2>2, DuetGivenUp
    <2> QED BY <2>1, <2>2
<1>10. Ar \ {m} = Ar /\ As \cup {} = As
    <2>1. \A y \in Ar : y.kind = "ACK"
        BY DEF Duet, Side, AckOnce
    <2> QED BY <2>1
<1>11. ASSUME HoldOK(s) PROVE HoldOK(o)
    <2>1. o.local_hold = s.local_hold /\ o.invite.role # "uac"
        BY <1>2, <1>5 DEF Beside
    <2>2. s.local_hold => NoRecv(s.neg.neg_local.media) /\ NoRecv(s.neg.active_local.media)
        BY <1>2, <1>11 DEF HoldOK
    <2>3. o.local_hold => NoRecv(o.neg.active_local.media)
        BY <1>6, <2>1, <2>2
    <2> QED BY <1>6, <1>11, <2>1, <2>3, HoldSettled
<1> QED BY <1>5, <1>9, <1>10, <1>11

\* A response arrives at s.
LEMMA DuetResponse ==
    ASSUME NEW p \in Parties, NEW s, NEW r, NEW Os, NEW As, NEW Or, NEW Ar, Duet(s, r, Os, As, Or, Ar), s.out = {},
           Kept(s), Takes, Patient, NEW m \in Os, m.kind \in {"OK", "Fail"}, NEW o \in RxResponse(p, s, m), Good(o)
    PROVE  AcksTo(p, o.out) /\ Duet(o, r, Os \ {m}, As \cup o.out, Or, Ar) /\ (HoldOK(s) => HoldOK(o))
<1>1. CASE s.invite.role = "uac" /\ s.invite.cseq = m.cseq
    <2>1. CASE m.kind = "OK"
        <3>1. o \in RxInviteOk(p, s, m)
            BY <1>1, <2>1 DEF RxResponse
        <3>2. Ended(s, o)
            BY <1>1, <3>1, RxInviteOkFacts
        <3> QED BY <1>1, <2>1, <3>1, <3>2, InviteOkOver
    <2>2. CASE m.kind = "Fail"
        <3>1. o = RxInviteFail(p, s)
            BY <1>1, <2>2 DEF RxResponse
        <3>2. Ended(s, o)
            BY <1>1, <3>1, RxInviteFailFacts
        <3> QED BY <1>1, <2>2, <3>1, <3>2, InviteFailOver
    <2> QED BY <2>1, <2>2
<1>2. CASE ~(s.invite.role = "uac" /\ s.invite.cseq = m.cseq)
    <2>1. PICK u \in s.updates : ~u.completed /\ o = RxUpdateResponse(s, u, m)
        BY <1>2 DEF RxResponse
    <2>2. u \in Pending(s)
        BY <2>1 DEF Pending
    <2>3. o.out = {} /\ Duet(o, r, Os \ {m}, As, Or, Ar) /\ (HoldOK(s) => HoldOK(o))
        BY <2>1, <2>2, UpdateOver
    <2>4. As \cup o.out = As /\ AcksTo(p, o.out)
        BY <2>3 DEF AcksTo
    <2> QED BY <2>3, <2>4
<1> QED BY <1>1, <1>2

\* A message of no consequence, or none: s becomes o.
LEMMA DuetSame ==
    ASSUME NEW s, NEW o, NEW r, NEW Os, NEW As, NEW Or, NEW Ar, Duet(s, r, Os, As, Or, Ar),
           Good(o), NegOK(o.neg), Unnoticed(s, o)
    PROVE  Duet(o, r, Os, As, Or, Ar)
<1>1. \A m \in Ar : m \notin Os
    BY DEF Duet, Side, AckOnce, Single
<1>2. Ar \in SUBSET Ar /\ \A m \in Ar \ Ar : m \notin Replies(s, Os, Ar)
    OBVIOUS
<1> QED BY <1>1, <1>2, DuetUnnoticed

\* The transaction of an UPDATE is destroyed.
LEMMA DuetWithout ==
    ASSUME NEW s, NEW r, NEW Os, NEW As, NEW Or, NEW Ar, Duet(s, r, Os, As, Or, Ar), s.out = {}, Kept(s), Takes, Patient,
           NEW u \in s.updates, u.completed, NEW o, o = Without(s, u), Good(o)
    PROVE  o.out = {} /\ Duet(o, r, Os, As, Or, Ar) /\ (HoldOK(s) => HoldOK(o))
<1> DEFINE rest == {v \in s.updates : v.cseq # u.cseq}
           f == [s EXCEPT !.updates = rest]
<1>1. Good(s) /\ Sound(s) /\ NegOK(s.neg)
    BY DEF Duet, Side, Good
<1>2. GiveUp(s, u) = s
    BY <1>1 DEF GiveUp, Good, Waits
<1>3. o = f
    BY <1>1, <1>2 DEF Without, Sound, PartyShape
<1>4. Pending(s) = {v \in rest : ~v.completed}
    BY <1>1 DEF Pending, Sound
<1> HIDE DEF rest
<1>5. /\ f.updates = rest /\ f.invite = s.invite /\ f.neg = s.neg /\ f.out = {} /\ f.unhold = s.unhold
      /\ f.cseq = s.cseq /\ f.local_hold = s.local_hold /\ f.hold_msg = s.hold_msg
    BY <1>1 DEF Sound, PartyShape
<1> HIDE DEF f
<1>6. Unnoticed(s, o)
    BY <1>3, <1>4, <1>5 DEF Unnoticed, Open, Offering, Pending
<1>7. HoldOK(s) => HoldOK(o)
    BY <1>3, <1>5 DEF HoldOK, Open
<1>8. NegOK(o.neg)
    BY <1>1, <1>3, <1>5
<1> QED BY <1>3, <1>5, <1>6, <1>7, <1>8, DuetSame

\* Everything is sent.
LEMMA DuetSent ==
    ASSUME NEW s, NEW r, NEW Os, NEW As, NEW Or, NEW Ar, Duet(s, r, Os, As, Or, Ar)
    PROVE  LET o == [s EXCEPT !.out = {}]
           IN  Duet(o, r, Os, As, Or, Ar) /\ (HoldOK(s) => HoldOK(o))
<1> DEFINE o == [s EXCEPT !.out = {}]
<1>1. Good(s) /\ Sound(s) /\ NegOK(s.neg)
    BY DEF Duet, Side, Good
<1>2. /\ PartyShape(o) /\ o.neg = s.neg /\ o.unhold = s.unhold
      /\ o.updates = s.updates /\ o.cseq = s.cseq /\ o.remote_cseq = s.remote_cseq
      /\ o.local_hold = s.local_hold /\ o.hold_msg = s.hold_msg /\ o.invite = s.invite
    BY <1>1 DEF Sound, PartyShape
<1> HIDE DEF o
<1>3. Pending(o) = Pending(s)
    BY <1>2 DEF Pending
<1>4. Good(o)
    <2>1. Sound(o)
        BY <1>1, <1>2 DEF Sound
    <2> QED BY <1>1, <1>2, <1>3, <2>1 DEF Good, Ends, Waits
<1>5. Unnoticed(s, o) /\ (HoldOK(s) => HoldOK(o)) /\ NegOK(o.neg)
    BY <1>1, <1>2, <1>3 DEF Unnoticed, Open, Offering, HoldOK
<1>6. Duet(o, r, Os, As, Or, Ar)
    BY <1>4, <1>5, DuetSame
<1> QED BY <1>5, <1>6 DEF o

-------------------------------------------------------------------------------
(* What the user starts.                                                   *)

\* s, which becomes o, asks for something with x: lines are what it wants.
Asks(p, s, lines, o, x) ==
    /\ o.out = {x} /\ x.to = Other(p) /\ Asked(s, o, x) /\ NegOK(o.neg) /\ Good(o)
    /\ lines # <<>> => Open(o) /\ (NoRecv(lines) => NoRecv(o.neg.neg_local.media))

\* A party that may start something.
Idle(s) ==
    /\ Kept(s) /\ Sound(s) /\ s.out = {} /\ NegOK(s.neg)
    /\ s.neg.state = "DONE" /\ s.invite.role = "none" /\ Pending(s) = {}

\* It has noted whether it releases a hold.
Prepared(s, t) ==
    /\ Sound(t) /\ t.neg = s.neg /\ t.out = s.out /\ t.updates = s.updates
    /\ t.cseq = s.cseq /\ t.remote_cseq = s.remote_cseq /\ t.invite = s.invite

\* A re-INVITE x with or without an offer.
Reasked(p, s, lines, o, x) ==
    /\ o.out = {x} /\ x.to = Other(p) /\ x.kind = "INVITE" /\ x.cseq = s.cseq + 1
    /\ NegOK(o.neg) /\ o.neg.active_local = s.neg.active_local
    /\ IF lines = <<>> THEN ~Open(o) /\ x.sdp = NoSdp
       ELSE /\ Open(o) /\ Described(o.neg.neg_local) /\ o.neg.neg_local # NoSdp
            /\ x.sdp = o.neg.neg_local
            /\ NoRecv(lines) => NoRecv(o.neg.neg_local.media)

\* The party that has sent it, with the marks of a hold.
Marked(p, s, lines, o, hold, msg, unhold) ==
    /\ \E x : Asks(p, s, lines, o, x)
    /\ o.local_hold = hold /\ o.hold_msg = msg /\ o.unhold = unhold
    /\ o.invite.role = "uac" /\ o.invite.cseq = s.cseq + 1

\* pjsip_inv_reinvite of a party that is idle.
LEMMA ReinviteContent ==
    ASSUME NEW p, NEW s, Sound(s), s.out = {}, NegOK(s.neg), s.neg.state = "DONE", s.invite.role = "none",
           NEW lines, lines = <<>> \/ Offerable(lines)
    PROVE  \E x : Reasked(p, s, lines, Reinvite(p, s, lines), x)
<1> DEFINE n == IF s.neg.state = "DONE" /\ lines # <<>> THEN modify_local_offer(s.neg, lines) ELSE s.neg
           i == [NoTsx EXCEPT !.role = "uac", !.cseq = s.cseq + 1]
           t == [s EXCEPT !.neg = n, !.cseq = @ + 1, !.invite = i]
           x == Msg(p, "INVITE", s.cseq + 1, IF n.state = "LOCAL_OFFER" THEN n.neg_local ELSE NoSdp)
           o == Send(t, x)
<1>1. Reinvite(p, s, lines) = o
    BY DEF Reinvite, SendReinvite
<1>2. /\ NegOK(n) /\ n.active_local = s.neg.active_local
      /\ IF lines = <<>> THEN n.state # "LOCAL_OFFER"
         ELSE /\ n.state = "LOCAL_OFFER" /\ Described(n.neg_local) /\ n.neg_local # NoSdp
              /\ NoRecv(lines) => NoRecv(n.neg_local.media)
    <2>1. CASE lines = <<>>
        <3>1. n = s.neg
            BY <2>1
        <3> HIDE DEF n
        <3> QED BY <2>1, <3>1
    <2>2. CASE lines # <<>>
        <3>1. n = modify_local_offer(s.neg, lines) /\ Offerable(lines)
            BY <2>2
        <3> HIDE DEF n
        <3> QED BY <2>2, <3>1, MakeOffer
    <2> QED BY <2>1, <2>2
<1>3. x.to = Other(p) /\ x.kind = "INVITE" /\ x.cseq = s.cseq + 1
      /\ x.sdp = IF n.state = "LOCAL_OFFER" THEN n.neg_local ELSE NoSdp
    BY MsgFacts
<1> HIDE DEF n, x, i
<1>4. PartyShape(t) /\ t.neg = n /\ t.out = {}
    BY DEF Sound, PartyShape
<1> HIDE DEF t
<1>5. o.neg = n /\ o.out = {x}
    BY <1>4, SendFacts
<1> HIDE DEF o
<1>6. Reasked(p, s, lines, o, x)
    BY <1>2, <1>3, <1>5 DEF Reasked, Open
<1> QED BY <1>1, <1>6

\* The same with the marks of a hold; t is s with what it asks for noted.
LEMMA ReinviteAsks ==
    ASSUME NEW p \in Parties, NEW s, Idle(s), Takes, Patient, NEW t, Prepared(s, t),
           NEW lines, lines = <<>> \/ Offerable(lines), NEW w, w = Reinvite(p, t, lines),
           NEW hold \in BOOLEAN, NEW unhold \in BOOLEAN, NEW msg \in {0, s.cseq + 1},
           NEW o, o = [w EXCEPT !.local_hold = hold, !.hold_msg = msg, !.unhold = unhold]
    PROVE  Marked(p, s, lines, o, hold, msg, unhold)
<1>1. PICK x : Reasked(p, s, lines, w, x)
    <2>1. PICK x : Reasked(p, t, lines, w, x)
        BY ReinviteContent DEF Idle, Prepared
    <2>2. Reasked(p, s, lines, w, x)
        BY <2>1 DEF Reasked, Prepared
    <2> QED BY <2>2
<1>2. Reinvited(p, t, w)
    BY ReinviteFacts DEF Idle, Prepared
<1>3. Reinvited(p, s, w)
    BY <1>2 DEF Reinvited, Requested, Prepared
<1>4. /\ o.local_hold = hold /\ o.hold_msg = msg /\ o.unhold = unhold
      /\ o.neg = w.neg /\ o.out = w.out
    BY <1>3 DEF Reinvited, PartyShape
<1>5. Reinvited(p, s, o)
    BY <1>3, MarkFacts
<1>6. Kept(o)
    BY <1>5, ReinvitedKept DEF Idle
<1>7. Good(o)
    BY <1>6 DEF Good, Kept
<1>8. o.invite.role = "uac" /\ o.invite.cseq = s.cseq + 1 /\ o.cseq = s.cseq + 1 /\ Pending(o) = {}
    BY <1>5 DEF Reinvited, Pending, Idle
<1>9. Open(o) <=> Open(w)
    BY <1>4 DEF Open
<1>10. Asked(s, o, x)
    BY <1>1, <1>4, <1>8, <1>9 DEF Asked, Reasked, Idle
<1>11. Asks(p, s, lines, o, x)
    BY <1>1, <1>4, <1>7, <1>9, <1>10 DEF Asks, Reasked
<1> QED BY <1>4, <1>8, <1>11 DEF Marked

\* p asks for something, and that releases or takes only what the hold allows.
Starts(p, o, x) ==
    /\ Becomes(p, o) /\ net' = net \cup {x} /\ x.to = Other(p)
    /\ Asked(party[p], o, x) /\ NegOK(o.neg) /\ Good(o)
    /\ "hold" \in Habits /\ HoldOK(party[p]) => HoldOK(o)

\* A patient user starts only when nothing is under way.
LEMMA MayStart ==
    ASSUME IInv, Takes, Patient, NEW p \in Parties, NegOK(party[p].neg), MayAsk(p)
    PROVE  Idle(party[p])
<1>1. Kept(party[p]) /\ party[p].out = {} /\ party[p].invite.role = "none" /\ Pending(party[p]) = {}
    BY MayAskFacts
<1>2. Ends(party[p]) /\ Sound(party[p])
    BY <1>1 DEF Kept
<1> QED BY <1>1, <1>2 DEF Ends, Idle

\* What is asked for can be offered, and does not receive in a hold.
LEMMA WantedFacts ==
    ASSUME NEW s, NEW unhold, NEW media, Offerable(media)
    PROVE  Offerable(Wanted(s, unhold, media)) /\ (s.local_hold /\ ~unhold => NoRecv(Wanted(s, unhold, media)))
    BY HoldOfferFacts DEF Wanted

\* pjsua_call_set_hold2: the offer does not receive.
LEMMA HoldStarts ==
    ASSUME IInv, Takes, Patient, NEW p \in Parties, NegOK(party[p].neg), OffersOK(p), Hold(p)
    PROVE  \E o, x : Starts(p, o, x)
<1> DEFINE s == party[p]
<1>1. PICK media \in Offers[p] :
          LET o == [Reinvite(p, s, HoldOffer(s, media))
                       EXCEPT !.local_hold = TRUE, !.hold_msg = s.cseq + 1, !.unhold = FALSE]
          IN  Becomes(p, o) /\ net' = net \cup o.out
    BY DEF Hold, Sent
<1> DEFINE lines == HoldOffer(s, media)
           r == Reinvite(p, s, lines)
           o == [r EXCEPT !.local_hold = TRUE, !.hold_msg = s.cseq + 1, !.unhold = FALSE]
<1>2. Idle(s)
    BY MayStart DEF Hold
<1>3. Becomes(p, o) /\ net' = net \cup o.out
    BY <1>1
<1>4. Offerable(lines) /\ NoRecv(lines)
    BY HoldOfferFacts DEF OffersOK
<1> HIDE DEF lines
<1>5. lines # <<>>
    BY <1>4 DEF Offerable
<1> DEFINE yes == TRUE
           no == FALSE
           msg == s.cseq + 1
<1>6. Marked(p, s, lines, o, yes, msg, no)
    <2>1. msg \in {0, s.cseq + 1} /\ r = Reinvite(p, s, lines) /\ yes \in BOOLEAN /\ no \in BOOLEAN
        OBVIOUS
    <2>2. o = [r EXCEPT !.local_hold = yes, !.hold_msg = msg, !.unhold = no]
        OBVIOUS
    <2>3. Prepared(s, s)
        BY <1>2 DEF Prepared, Idle
    <2> HIDE DEF s, o, r, yes, no, msg
    <2> QED BY <1>2, <1>4, <2>1, <2>2, <2>3, ReinviteAsks
<1>7. PICK x : Asks(p, s, lines, o, x)
    BY <1>6 DEF Marked
<1> HIDE DEF o
<1>8. HoldOK(o)
    BY <1>4, <1>5, <1>6, <1>7 DEF HoldOK, Asks, Marked
<1>9. Starts(p, o, x)
    BY <1>3, <1>7, <1>8 DEF Starts, Asks
<1> QED BY <1>9

\* pjsua_call_reinvite2: a user who releases only a hold uses nothing that receives until then.
LEMMA CallReinviteStarts ==
    ASSUME IInv, Takes, Patient, NEW p \in Parties, NegOK(party[p].neg), OffersOK(p),
           NEW unhold \in BOOLEAN, CallReinvite(p, unhold)
    PROVE  \E o, x : Starts(p, o, x)
<1> DEFINE s == party[p]
<1>1. PICK media \in Offers[p] :
          LET o == [Reinvite(p, [s EXCEPT !.unhold = unhold], Wanted(s, unhold, media))
                       EXCEPT !.local_hold = @ /\ ~unhold]
          IN  Becomes(p, o) /\ net' = net \cup o.out
    BY DEF CallReinvite, Sent
<1> DEFINE lines == Wanted(s, unhold, media)
           t == [s EXCEPT !.unhold = unhold]
           r == Reinvite(p, t, lines)
           hold == s.local_hold /\ ~unhold
           o == [r EXCEPT !.local_hold = @ /\ ~unhold]
<1>2. Idle(s)
    BY MayStart DEF CallReinvite
<1>3. Becomes(p, o) /\ net' = net \cup o.out
    BY <1>1
<1>4. Offerable(lines)
    BY WantedFacts DEF OffersOK
<1>5. lines # <<>>
    BY <1>4 DEF Offerable
<1>6. Prepared(s, t)
    BY <1>2, UnholdSet DEF Idle, Prepared
<1>7. t.unhold = unhold /\ t.local_hold = s.local_hold
    BY <1>2 DEF Idle, Sound, PartyShape
<1> HIDE DEF lines, t
<1>8. Reinvited(p, t, r) /\ r.local_hold = t.local_hold /\ r.hold_msg = 0 /\ r.unhold = t.unhold
    BY <1>2, <1>6, ReinviteFacts DEF Idle, Prepared
<1>9. r.unhold \in BOOLEAN
    BY <1>8 DEF Reinvited
<1>10. hold \in BOOLEAN
    BY <1>2 DEF Idle, Sound
<1>11. o = [r EXCEPT !.local_hold = hold, !.hold_msg = 0, !.unhold = r.unhold]
    <2> HIDE DEF r
    <2> QED BY <1>7, <1>8 DEF Reinvited, PartyShape
<1> HIDE DEF hold, o
<1> DEFINE none == 0
           mark == r.unhold
<1>12. Marked(p, s, lines, o, hold, none, mark)
    <2>1. none \in {0, s.cseq + 1} /\ r = Reinvite(p, t, lines) /\ mark \in BOOLEAN
        BY <1>9
    <2>2. o = [r EXCEPT !.local_hold = hold, !.hold_msg = none, !.unhold = mark]
        BY <1>11
    <2> HIDE DEF s, r, none, mark
    <2> QED BY <1>2, <1>4, <1>6, <1>10, <2>1, <2>2, ReinviteAsks
<1>13. PICK x : Asks(p, s, lines, o, x)
    BY <1>12 DEF Marked
<1>14. ASSUME "hold" \in Habits, HoldOK(s) PROVE HoldOK(o)
    <2>1. unhold = s.local_hold
        BY <1>14 DEF CallReinvite
    <2>2. ~o.local_hold
        BY <1>12, <2>1 DEF hold, Marked
    <2>3. s.local_hold => NoRecv(s.neg.active_local.media)
        BY <1>2, <1>14 DEF HoldOK, Idle
    <2>4. o.neg.active_local = s.neg.active_local
        BY <1>13 DEF Asks, Asked
    <2>5. r.unhold = unhold
        BY <1>7, <1>8
    <2> QED BY <1>12, <2>1, <2>2, <2>3, <2>4, <2>5 DEF HoldOK, Marked
<1>15. Starts(p, o, x)
    BY <1>3, <1>13, <1>14 DEF Starts, Asks
<1> QED BY <1>15

\* A re-INVITE without an offer.
LEMMA NoOfferStarts ==
    ASSUME IInv, Takes, Patient, NEW p \in Parties, NegOK(party[p].neg), CallReinviteNoOffer(p)
    PROVE  \E o, x : Starts(p, o, x)
<1> DEFINE s == party[p]
           no == FALSE
           none == 0
           lines == <<>>
           t == [s EXCEPT !.unhold = no]
           o == Reinvite(p, t, lines)
<1>1. Idle(s) /\ ~s.local_hold
    BY MayStart DEF CallReinviteNoOffer
<1>2. Becomes(p, o) /\ net' = net \cup o.out
    BY DEF CallReinviteNoOffer, Sent
<1>3. no \in BOOLEAN
    OBVIOUS
<1> HIDE DEF no, lines
<1>4. Prepared(s, t) /\ t.unhold = no /\ t.local_hold = s.local_hold
    <2>1. Prepared(s, t)
        BY <1>1, <1>3, UnholdSet DEF Idle, Prepared
    <2> QED BY <1>1, <2>1 DEF Idle, Sound, PartyShape
<1> HIDE DEF t
<1>5. Reinvited(p, t, o) /\ o.local_hold = s.local_hold /\ o.hold_msg = none /\ o.unhold = no
    BY <1>1, <1>4, ReinviteFacts DEF Idle, Prepared
<1> DEFINE hold == s.local_hold
<1>6. hold \in BOOLEAN /\ none \in {0, s.cseq + 1}
    BY <1>1 DEF Idle, Sound
<1>7. o = Reinvite(p, t, lines)
    OBVIOUS
<1> HIDE DEF o
<1> DEFINE c == [o EXCEPT !.local_hold = hold, !.hold_msg = none, !.unhold = no]
<1>8. o = c
    BY <1>5 DEF Reinvited, PartyShape
<1>9. Marked(p, s, lines, o, hold, none, no)
    <2>1. lines = <<>> \/ Offerable(lines)
        BY DEF lines
    <2>2. c = [o EXCEPT !.local_hold = hold, !.hold_msg = none, !.unhold = no]
        OBVIOUS
    <2>3. Idle(s) /\ Prepared(s, t)
        BY <1>1, <1>4
    <2> HIDE DEF s, hold, none, c
    <2>4. Marked(p, s, lines, c, hold, none, no)
        BY <1>3, <1>6, <1>7, <2>1, <2>2, <2>3, ReinviteAsks
    <2> QED BY <1>8, <2>4
<1>10. PICK x : Asks(p, s, lines, o, x)
    BY <1>9 DEF Marked
<1>11. HoldOK(o)
    BY <1>1, <1>9 DEF HoldOK, Marked, no
<1>12. Starts(p, o, x)
    BY <1>2, <1>7, <1>10, <1>11 DEF Starts, Asks
<1> QED BY <1>12

\* The party o that has sent an UPDATE for t, and the UPDATE x.
Updates(p, s, t, lines, o) ==
    /\ \E x : Asks(p, s, lines, o, x)
    /\ o.local_hold = t.local_hold /\ o.invite = s.invite

\* pjsip_inv_update of a party that is idle.
LEMMA UpdatingAsks ==
    ASSUME NEW p \in Parties, NEW s, Idle(s), Takes, Patient, NEW t, Prepared(s, t), t.hold_msg = s.hold_msg,
           NEW lines, Offerable(lines), NEW o, o = Updating(p, t, lines)
    PROVE  Updates(p, s, t, lines, o)
<1> DEFINE n == modify_local_offer(s.neg, lines)
           w == [cseq |-> s.cseq + 1, done |-> FALSE, completed |-> FALSE]
           r == [t EXCEPT !.neg = n, !.cseq = s.cseq + 1, !.updates = s.updates \cup {w}]
           x == Msg(p, "UPDATE", s.cseq + 1, n.neg_local)
<1>1. /\ NegOK(n) /\ n.state = "LOCAL_OFFER" /\ n.active_local = s.neg.active_local
      /\ Described(n.neg_local) /\ n.neg_local # NoSdp
      /\ NoRecv(lines) => NoRecv(n.neg_local.media)
    BY MakeOffer DEF Idle
<1>2. /\ PartyShape(t) /\ t.neg = s.neg /\ t.invite = s.invite /\ t.updates = s.updates /\ t.cseq = s.cseq
      /\ t.remote_cseq = s.remote_cseq /\ t.local_hold \in BOOLEAN /\ t.unhold \in BOOLEAN
      /\ t.hold_msg = s.hold_msg /\ t.out = {}
    BY DEF Prepared, Idle, Sound
<1>3. Updated(p, s, o)
    BY <1>2, UpdatingFacts DEF Idle
<1>4. Kept(o)
    BY <1>3, UpdatedKept DEF Idle
<1>5. o = Send(r, x)
    <2>1. o = SendUpdate(p, t, n)
        BY <1>2 DEF Updating
    <2> HIDE DEF n
    <2> QED BY <1>2, <2>1 DEF SendUpdate, PartyShape
<1>6. x.to = Other(p) /\ x.kind = "UPDATE" /\ x.cseq = s.cseq + 1 /\ x.sdp = n.neg_local
    BY MsgFacts
<1> HIDE DEF n, x
<1>7. PartyShape(r) /\ r.neg = n /\ r.out = {} /\ r.local_hold = t.local_hold
    BY <1>2 DEF PartyShape
<1> HIDE DEF r
<1>8. o.neg = n /\ o.out = {x} /\ o.local_hold = t.local_hold
    BY <1>5, <1>7, SendFacts
<1>9. o.invite = s.invite /\ o.cseq = s.cseq + 1 /\ o.updates = s.updates \cup {w}
    BY <1>3 DEF Updated
<1>10. Pending(o) = {w} /\ w.cseq = s.cseq + 1
    BY <1>9 DEF Pending, Idle
<1> HIDE DEF w
<1>11. Open(o)
    BY <1>1, <1>8 DEF Open
<1>12. Asked(s, o, x)
    BY <1>1, <1>6, <1>8, <1>9, <1>10, <1>11 DEF Asked, Idle
<1>13. Good(o)
    BY <1>4 DEF Good, Kept
<1>14. Asks(p, s, lines, o, x)
    BY <1>1, <1>6, <1>8, <1>11, <1>12, <1>13 DEF Asks
<1> QED BY <1>8, <1>9, <1>14 DEF Updates

\* pjsua_call_update2, which keeps a hold.
LEMMA CallUpdateStarts ==
    ASSUME IInv, Takes, Patient, NEW p \in Parties, NegOK(party[p].neg), OffersOK(p),
           NEW unhold \in BOOLEAN, CallUpdate(p, unhold)
    PROVE  \E o, x : Starts(p, o, x)
<1> DEFINE s == party[p]
           hold == s.local_hold /\ ~unhold
           t == [s EXCEPT !.unhold = unhold, !.local_hold = hold]
<1>1. Idle(s)
    BY MayStart DEF CallUpdate
<1>2. [s EXCEPT !.unhold = unhold, !.local_hold = @ /\ ~unhold] = t
    BY <1>1 DEF Idle, Sound, PartyShape
<1>3. PICK media \in Offers[p] :
          LET o == Updating(p, t, Wanted(s, unhold, media))
          IN  Becomes(p, o) /\ net' = net \cup o.out
    BY <1>2 DEF CallUpdate, Sent
<1> DEFINE lines == Wanted(s, unhold, media)
           o == Updating(p, t, lines)
<1>4. Becomes(p, o) /\ net' = net \cup o.out
    BY <1>3
<1>5. Offerable(lines) /\ (hold => NoRecv(lines))
    BY WantedFacts DEF OffersOK
<1>6. lines # <<>>
    BY <1>5 DEF Offerable
<1>7. hold \in BOOLEAN
    BY <1>1 DEF Idle, Sound
<1>8. /\ PartyShape(t) /\ t.neg = s.neg /\ t.out = s.out /\ t.updates = s.updates
      /\ t.cseq = s.cseq /\ t.remote_cseq = s.remote_cseq /\ t.invite = s.invite
      /\ t.local_hold = hold /\ t.unhold = unhold /\ t.hold_msg = s.hold_msg
    <2>1. PartyShape(s)
        BY <1>1 DEF Idle, Sound
    <2> HIDE DEF s, hold
    <2> QED BY <2>1 DEF PartyShape
<1> HIDE DEF lines, t
<1>9. Prepared(s, t)
    <2> HIDE DEF s, hold
    <2> QED BY <1>1, <1>7, <1>8 DEF Prepared, Idle, Sound
<1>10. Updates(p, s, t, lines, o)
    <2>1. o = Updating(p, t, lines)
        OBVIOUS
    <2> HIDE DEF s, o
    <2> QED BY <1>1, <1>5, <1>8, <1>9, <2>1, UpdatingAsks
<1> HIDE DEF o
<1>11. PICK x : Asks(p, s, lines, o, x)
    BY <1>10 DEF Updates
<1>12. ASSUME "hold" \in Habits, HoldOK(s) PROVE HoldOK(o)
    <2>1. o.local_hold = hold /\ o.invite.role = "none"
        BY <1>1, <1>8, <1>10 DEF Updates, Idle
    <2>2. hold => NoRecv(s.neg.active_local.media)
        BY <1>1, <1>12 DEF HoldOK, Idle, Open
    <2>3. o.neg.active_local = s.neg.active_local
        BY <1>11 DEF Asks, Asked
    <2>4. hold => NoRecv(o.neg.neg_local.media)
        BY <1>5, <1>6, <1>11 DEF Asks
    <2> HIDE DEF hold
    <2> QED BY <2>1, <2>2, <2>3, <2>4 DEF HoldOK
<1>13. Starts(p, o, x)
    BY <1>4, <1>11, <1>12 DEF Starts, Asks
<1> QED BY <1>13

\* Whatever the user starts.
LEMMA AskStarts ==
    ASSUME IInv, Takes, Patient, NEW p \in Parties, NegOK(party[p].neg), OffersOK(p), Ask(p)
    PROVE  \E o, x : Starts(p, o, x)
    BY HoldStarts, CallReinviteStarts, NoOfferStarts, CallUpdateStarts DEF Ask

-------------------------------------------------------------------------------
(* Steps.                                                                  *)

\* The messages N that belong to the requests of p: the requests and the responses to them;
\* and the ACKs of p.
OwnOf(p, N)  == {m \in N : (m.kind \in Requests /\ m.to = Other(p)) \/ (m.kind \in {"OK", "Fail"} /\ m.to = p)}
AcksOf(p, N) == {m \in N : m.kind = "ACK" /\ m.to = Other(p)}

Groups(p, N, Os, As, Or, Ar) ==
    OwnOf(p, N) = Os /\ AcksOf(p, N) = As /\ OwnOf(Other(p), N) = Or /\ AcksOf(Other(p), N) = Ar

\* p and the other party, with the messages that are on their way.
Together(p) ==
    Duet(party[p], party[Other(p)], OwnOf(p, net), AcksOf(p, net), OwnOf(Other(p), net), AcksOf(Other(p), net))

Holding(p) == "hold" \in Habits => HoldOK(party[p])

\* What the other invariants add up to for users with habits who take what they are offered.
DuetInv == IInv /\ \A p \in Parties : Together(p) /\ Holding(p)

\* What users ask for can be offered.
LEMMA OffersAreOK ==
    ASSUME NEW p \in Parties
    PROVE  OffersOK(p)
<1>1. ASSUME NEW media \in Offers[p] PROVE Offerable(media)
    BY SdpMediaAssumption DEF Offerable, Fits
<1>2. OffersOK(p)
    BY <1>1, Zenon DEF OffersOK
<1> QED BY <1>2

\* A request is sent.
LEMMA GroupsAsked ==
    ASSUME NEW p \in Parties, NEW N, NEW x, x.to = Other(p), x.kind \in Requests
    PROVE  Groups(p, N \cup {x}, OwnOf(p, N) \cup {x}, AcksOf(p, N), OwnOf(Other(p), N), AcksOf(Other(p), N))
<1> DEFINE q == Other(p)
<1>1. q # p /\ Other(q) = p
    BY OtherFacts
<1> HIDE DEF q
<1>2. x.kind \notin {"OK", "Fail", "ACK"} /\ x.to = q
    BY DEF Requests, q
<1>3. OwnOf(p, N \cup {x}) = OwnOf(p, N) \cup {x}
    BY <1>2 DEF OwnOf, q
<1>4. AcksOf(p, N \cup {x}) = AcksOf(p, N) /\ AcksOf(q, N \cup {x}) = AcksOf(q, N)
    BY <1>2 DEF AcksOf
<1>5. OwnOf(q, N \cup {x}) = OwnOf(q, N)
    BY <1>1, <1>2 DEF OwnOf
<1> QED BY <1>3, <1>4, <1>5 DEF Groups, q

\* A request is taken from the network, and its response sent.
LEMMA GroupsAnswered ==
    ASSUME NEW p \in Parties, NEW N, NEW m, NEW x, m.to = p, m.kind \in Requests,
           x.to = Other(p), x.kind \in {"OK", "Fail"}
    PROVE  Groups(p, (N \ {m}) \cup {x}, OwnOf(p, N), AcksOf(p, N), (OwnOf(Other(p), N) \ {m}) \cup {x}, AcksOf(Other(p), N))
<1> DEFINE q == Other(p)
           M == (N \ {m}) \cup {x}
<1>1. q # p /\ Other(q) = p
    BY OtherFacts
<1> HIDE DEF q
<1>2. x.kind \notin Requests \cup {"ACK"} /\ m.kind \notin {"OK", "Fail", "ACK"} /\ x.to = q /\ q = Other(p)
    BY DEF Requests, q
<1>3. OwnOf(q, M) = (OwnOf(q, N) \ {m}) \cup {x}
    BY <1>1, <1>2 DEF OwnOf
<1>4. AcksOf(p, M) = AcksOf(p, N) /\ AcksOf(q, M) = AcksOf(q, N)
    BY <1>2 DEF AcksOf
<1>5. OwnOf(p, M) = OwnOf(p, N)
    BY <1>1, <1>2 DEF OwnOf
<1> QED BY <1>3, <1>4, <1>5 DEF Groups, q

\* An ACK is taken from the network.
LEMMA GroupsAcked ==
    ASSUME NEW p \in Parties, NEW N, NEW m, m.to = p, m.kind = "ACK"
    PROVE  Groups(p, N \ {m}, OwnOf(p, N), AcksOf(p, N), OwnOf(Other(p), N), AcksOf(Other(p), N) \ {m})
<1> DEFINE q == Other(p)
           M == N \ {m}
<1>1. q # p /\ Other(q) = p
    BY OtherFacts
<1> HIDE DEF q
<1>2. m.kind \notin Requests \cup {"OK", "Fail"} /\ q = Other(p)
    BY DEF Requests, q
<1>3. OwnOf(q, M) = OwnOf(q, N) /\ OwnOf(p, M) = OwnOf(p, N)
    BY <1>2 DEF OwnOf
<1>4. AcksOf(p, M) = AcksOf(p, N)
    BY <1>1, <1>2 DEF AcksOf
<1>5. AcksOf(q, M) = AcksOf(q, N) \ {m}
    BY <1>1 DEF AcksOf
<1> QED BY <1>3, <1>4, <1>5 DEF Groups, q

\* A response is taken from the network, and the ACK to it sent.
LEMMA GroupsOver ==
    ASSUME NEW p \in Parties, NEW N, NEW m, m.to = p, m.kind \in {"OK", "Fail"}, NEW X, AcksTo(p, X)
    PROVE  Groups(p, (N \ {m}) \cup X, OwnOf(p, N) \ {m}, AcksOf(p, N) \cup X, OwnOf(Other(p), N), AcksOf(Other(p), N))
<1> DEFINE q == Other(p)
           M == (N \ {m}) \cup X
<1>1. q # p /\ Other(q) = p
    BY OtherFacts
<1> HIDE DEF q
<1>2. m.kind \notin Requests \cup {"ACK"} /\ q = Other(p)
    BY DEF Requests, q
<1>3. \A x \in X : x.to = q /\ x.kind = "ACK" /\ x.kind \notin Requests \cup {"OK", "Fail"}
    BY <1>2 DEF AcksTo, Requests
<1>4. OwnOf(q, M) = OwnOf(q, N)
    BY <1>1, <1>2, <1>3 DEF OwnOf
<1>5. OwnOf(p, M) = OwnOf(p, N) \ {m}
    BY <1>3 DEF OwnOf
<1>6. AcksOf(q, M) = AcksOf(q, N)
    BY <1>1, <1>2, <1>3 DEF AcksOf
<1>7. AcksOf(p, M) = AcksOf(p, N) \cup X
    BY <1>2, <1>3 DEF AcksOf
<1> QED BY <1>4, <1>5, <1>6, <1>7 DEF Groups, q

\* p becomes o: both are as they should be.
LEMMA DuetStep ==
    ASSUME IInv, NEW p \in Parties, NEW o, Becomes(p, o),
           NEW Os, NEW As, NEW Or, NEW Ar, Groups(p, net', Os, As, Or, Ar),
           Duet(o, party[Other(p)], Os, As, Or, Ar), "hold" \in Habits => HoldOK(o),
           \A c \in Parties : Holding(c)
    PROVE  \A c \in Parties : Together(c)' /\ Holding(c)'
<1> DEFINE q == Other(p)
           s == [o EXCEPT !.out = {}]
<1>1. q \in Parties /\ q # p /\ Other(q) = p /\ Parties = {p, q}
    BY OtherFacts DEF Parties
<1>2. Duet(s, party[q], Os, As, Or, Ar) /\ (HoldOK(o) => HoldOK(s))
    BY DuetSent
<1>3. party'[p] = s /\ party'[q] = party[q]
    BY <1>1 DEF Becomes, IInv
<1> HIDE DEF s, q
<1>4. q = Other(p)
    BY DEF q
<1>5. Together(p)'
    BY <1>2, <1>3, <1>4 DEF Together, Groups
<1>6. Together(q)'
    BY <1>1, <1>2, <1>3, <1>4, DuetSym DEF Together, Groups
<1>7. Holding(p)' /\ Holding(q)'
    BY <1>1, <1>2, <1>3 DEF Holding
<1> QED BY <1>1, <1>5, <1>6, <1>7

\* What the session keeps is what the duet needs.
LEMMA KeptGood ==
    ASSUME NEW s, Kept(s), Takes, Patient
    PROVE  Good(s)
    BY DEF Kept, Good

\* A user starts something.
LEMMA AskDuet ==
    ASSUME DuetInv, Takes, Patient, NEW p \in Parties, Ask(p)
    PROVE  \A c \in Parties : Together(c)' /\ Holding(c)'
<1> DEFINE q == Other(p)
           Os == OwnOf(p, net)
           As == AcksOf(p, net)
           Or == OwnOf(q, net)
           Ar == AcksOf(q, net)
<1>1. IInv /\ Duet(party[p], party[q], Os, As, Or, Ar) /\ \A c \in Parties : Holding(c)
    BY DEF DuetInv, Together
<1>2. NegOK(party[p].neg)
    BY <1>1 DEF Duet, Side
<1>3. OffersOK(p)
    BY OffersAreOK
<1>4. PICK o, x : Starts(p, o, x)
    BY <1>1, <1>2, <1>3, AskStarts
<1>5. x.to = q /\ x.kind \in Requests /\ net' = net \cup {x}
    BY <1>4 DEF Starts, Asked, Requests
<1>6. Groups(p, net', Os \cup {x}, As, Or, Ar)
    BY <1>5, GroupsAsked
<1> HIDE DEF Os, As, Or, Ar
<1>7. Duet(o, party[q], Os \cup {x}, As, Or, Ar)
    BY <1>1, <1>4, DuetAsked DEF Starts
<1>8. "hold" \in Habits => HoldOK(o)
    BY <1>1, <1>4 DEF Starts, Holding
<1> QED BY <1>1, <1>4, <1>6, <1>7, <1>8, DuetStep DEF Starts

\* The transaction of an UPDATE terminates.
LEMMA TerminatesDuet ==
    ASSUME DuetInv, Takes, Patient, NEW p \in Parties, UpdateTerminates(p)
    PROVE  \A c \in Parties : Together(c)' /\ Holding(c)'
<1> DEFINE q == Other(p)
           s == party[p]
           Os == OwnOf(p, net)
           As == AcksOf(p, net)
           Or == OwnOf(q, net)
           Ar == AcksOf(q, net)
<1>1. IInv /\ Duet(s, party[q], Os, As, Or, Ar) /\ \A c \in Parties : Holding(c)
    BY DEF DuetInv, Together
<1>2. Kept(s) /\ s.out = {}
    BY <1>1 DEF IInv
<1>3. PICK u \in s.updates : u.completed /\ Becomes(p, Without(s, u))
    BY DEF UpdateTerminates, Without
<1>4. net' = net
    BY DEF UpdateTerminates
<1> DEFINE o == Without(s, u)
<1>5. Kept(o)
    BY <1>2, <1>3, WithoutFacts
<1>6. Groups(p, net', Os, As, Or, Ar)
    BY <1>4 DEF Groups
<1>7. Becomes(p, o)
    BY <1>3
<1>8. o = Without(s, u)
    OBVIOUS
<1> HIDE DEF Os, As, Or, Ar, o
<1>9. Good(o)
    BY <1>5, KeptGood
<1>10. Duet(o, party[q], Os, As, Or, Ar) /\ (HoldOK(s) => HoldOK(o))
    <2> HIDE DEF s
    <2> QED BY <1>1, <1>2, <1>3, <1>8, <1>9, DuetWithout
<1>11. "hold" \in Habits => HoldOK(o)
    BY <1>1, <1>10 DEF Holding
<1> QED BY <1>1, <1>6, <1>7, <1>10, <1>11, DuetStep

\* A message arrives: a request, an ACK or a response.
LEMMA DeliverDuet ==
    ASSUME DuetInv, Takes, Patient, NEW m, Deliver(m)
    PROVE  \A c \in Parties : Together(c)' /\ Holding(c)'
<1> DEFINE p == m.to
           q == Other(p)
           s == party[p]
           Os == OwnOf(p, net)
           As == AcksOf(p, net)
           Or == OwnOf(q, net)
           Ar == AcksOf(q, net)
<1>1. m \in net /\ p \in Parties /\ Wire(m, party[q], s)
    BY DEF Deliver, DuetInv, IInv
<1>2. m.kind \in Kinds /\ m.cseq \in Nat
    BY <1>1 DEF Wire
<1>3. q \in Parties /\ Other(q) = p
    BY <1>1, OtherFacts
<1>4. IInv /\ Duet(s, party[q], Os, As, Or, Ar) /\ \A c \in Parties : Holding(c)
    BY <1>1 DEF DuetInv, Together
<1>5. Kept(s) /\ s.out = {}
    BY <1>1, <1>4 DEF IInv
<1>6. PICK o \in Receives(m) : Becomes(p, o) /\ net' = (net \ {m}) \cup o.out
    BY DEF Deliver
<1>7. "hold" \in Habits => HoldOK(s)
    BY <1>1, <1>4 DEF Holding
<1>8. CASE m.kind \in Requests
    <2>1. o \in RxRequest(p, s, m)
        BY <1>6, <1>8 DEF Receives, Requests
    <2>2. Good(o)
        BY <1>2, <1>5, <1>8, <2>1, RxRequestFacts, KeptGood
    <2>3. m \in Or
        BY <1>1, <1>3, <1>8 DEF OwnOf
    <2>4. OffersOK(p)
        BY <1>1, OffersAreOK
    <2> HIDE DEF Os, As, Or, Ar, s, q
    <2>5. /\ \E x : /\ o.out = {x} /\ ResponseTo(p, m, x)
                    /\ Duet(o, party[q], Os, As, (Or \ {m}) \cup {x}, Ar)
          /\ HoldOK(s) => HoldOK(o)
        BY <1>1, <1>4, <1>5, <1>8, <2>1, <2>2, <2>3, <2>4, DuetRequest
    <2>6. PICK x : /\ o.out = {x} /\ ResponseTo(p, m, x)
                   /\ Duet(o, party[q], Os, As, (Or \ {m}) \cup {x}, Ar)
        BY <2>5
    <2>7. Groups(p, net', Os, As, (Or \ {m}) \cup {x}, Ar)
        BY <1>1, <1>6, <1>8, <2>6, GroupsAnswered DEF ResponseTo, Os, As, Or, Ar, q
    <2> QED BY <1>1, <1>4, <1>6, <1>7, <2>5, <2>6, <2>7, DuetStep DEF q
<1>9. CASE m.kind = "ACK"
    <2>1. o = RxAck(s, m)
        BY <1>6, <1>9 DEF Receives
    <2>2. Good(o)
        BY <1>5, <2>1, RxAckFacts, KeptGood
    <2>3. m \in Ar
        BY <1>1, <1>3, <1>9 DEF AcksOf
    <2> HIDE DEF Os, As, Or, Ar, s, q
    <2>4. o.out = {} /\ Duet(o, party[q], Os, As, Or, Ar \ {m}) /\ (HoldOK(s) => HoldOK(o))
        BY <1>4, <1>5, <2>1, <2>2, <2>3, DuetAck
    <2>5. net' = net \ {m}
        BY <1>6, <2>4
    <2>6. Groups(p, net', Os, As, Or, Ar \ {m})
        BY <1>1, <1>9, <2>5, GroupsAcked DEF Os, As, Or, Ar, q
    <2> QED BY <1>1, <1>4, <1>6, <1>7, <2>4, <2>6, DuetStep DEF q
<1>10. CASE m.kind \in {"OK", "Fail"}
    <2>1. o \in RxResponse(p, s, m)
        BY <1>6, <1>10 DEF Receives
    <2>2. Kept(o)
        <3>1. CASE s.invite.role = "uac" /\ s.invite.cseq = m.cseq
            <4>1. o \in RxInviteOk(p, s, m) \/ o = RxInviteFail(p, s)
                BY <2>1, <3>1 DEF RxResponse
            <4> QED BY <1>5, <3>1, <4>1, RxInviteOkFacts, RxInviteFailFacts
        <3>2. CASE ~(s.invite.role = "uac" /\ s.invite.cseq = m.cseq)
            <4>1. PICK u \in s.updates : u.cseq = m.cseq /\ ~u.completed /\ o = RxUpdateResponse(s, u, m)
                BY <2>1, <3>2 DEF RxResponse
            <4>2. m.kind = "OK" => m.sdp # NoSdp
                BY <1>1, <4>1 DEF Wire, OfInvite
            <4> QED BY <1>5, <4>1, <4>2, RxUpdateResponseFacts
        <3> QED BY <3>1, <3>2
    <2>3. Good(o)
        BY <2>2, KeptGood
    <2>4. m \in Os
        BY <1>1, <1>10 DEF OwnOf
    <2> HIDE DEF Os, As, Or, Ar, s, q
    <2>5. AcksTo(p, o.out) /\ Duet(o, party[q], Os \ {m}, As \cup o.out, Or, Ar) /\ (HoldOK(s) => HoldOK(o))
        BY <1>1, <1>4, <1>5, <1>10, <2>1, <2>3, <2>4, DuetResponse
    <2>6. Groups(p, net', Os \ {m}, As \cup o.out, Or, Ar)
        BY <1>1, <1>6, <1>10, <2>5, GroupsOver DEF Os, As, Or, Ar, q
    <2> QED BY <1>1, <1>4, <1>6, <1>7, <2>5, <2>6, DuetStep DEF q
<1> QED BY <1>2, <1>8, <1>9, <1>10 DEF Kinds, Requests

-------------------------------------------------------------------------------
(* The call that is set up, and the invariant.                             *)

\* A negotiator that starts: nothing is in use and no number is taken.
LEMMA FirstFacts ==
    /\ Described(NoSdp) /\ NoSdp.media = <<>> /\ ~has_active(NoSdp)
    /\ NoMap \in [Types -> CodecMap] /\ NoPts \in [Types -> PtMap]
<1>1. NoSdp.media = <<>> /\ Described(NoSdp)
    BY DEF NoSdp, Described, OneOfEach
<1>2. ~has_active(NoSdp)
    BY <1>1 DEF has_active
<1>3. NoMap \in [Types -> CodecMap] /\ NoPts \in [Types -> PtMap]
    BY DEF NoMap, CodecMap, NoPts, PtMap
<1> QED BY <1>1, <1>2, <1>3

\* The answer that has no line on is an answer without effect.
LEMMA AnswerNothing ==
    ASSUME NEW n, NegOK(n), Described(n.neg_local)
    PROVE  LET new == negotiate(set_remote_answer(n, NoSdp)).neg
           IN  NegOK(new) /\ new.state = "DONE" /\ new.active_local = n.active_local
<1> DEFINE k == set_remote_answer(n, NoSdp)
           offer == n.neg_local
           pairs == process_answer(offer, NoSdp)
           a == Agreed(k, pairs)
<1>1. /\ NegShape(k) /\ k.neg_local = offer /\ k.neg_remote = NoSdp /\ k.has_remote_answer
      /\ k.active_local = n.active_local
      /\ k.to_codec \in [Types -> CodecMap] /\ k.to_pt \in [Types -> PtMap]
    BY DEF NegOK, NegShape, set_remote_answer
<1>2. Described(offer)
    OBVIOUS
<1> HIDE DEF k, offer
<1>3. DOMAIN pairs = DOMAIN offer.media /\ \A j \in DOMAIN pairs : ~pairs[j][1].active
    <2>1. pairs = [j \in DOMAIN offer.media |-> <<Deactivate(offer.media[j]), Deactivate(offer.media[j])>>]
        BY FirstFacts DEF process_answer
    <2>2. \A j \in DOMAIN offer.media : ~Deactivate(offer.media[j]).active
        BY <1>2, DeactivateFacts DEF Described
    <2> HIDE DEF pairs
    <2> QED BY <2>1, <2>2
<1> HIDE DEF pairs
<1>4. ~has_active(a.active_local)
    <2> DEFINE lines == [j \in DOMAIN pairs |-> pairs[j][1]]
               others == [j \in DOMAIN pairs |-> pairs[j][2]]
               L == [offer EXCEPT !.media = lines]
    <2>1. L.media = lines
        BY <1>2 DEF Described
    <2>2. a = [Cleared(k) EXCEPT !.active_local = L, !.active_remote = [NoSdp EXCEPT !.media = others]]
        BY <1>1 DEF Agreed
    <2> DEFINE R == [NoSdp EXCEPT !.media = others]
               c == Cleared(k)
    <2>3. NegShape(c)
        BY <1>1, ClearedFacts, CancelFacts DEF cancel_offer
    <2>4. \A j \in DOMAIN lines : ~lines[j].active
        BY <1>3
    <2>5. a = [c EXCEPT !.active_local = L, !.active_remote = R]
        BY <2>2
    <2> HIDE DEF L, R, c, a, lines
    <2>6. a.active_local = L
        BY <2>3, <2>5 DEF NegShape
    <2> QED BY <2>1, <2>4, <2>6 DEF has_active
<1> HIDE DEF a
<1>5. negotiate(k).neg = Cleared(k)
    <2>1. negotiate(k) = Concluded(k, a)
        BY <1>1 DEF negotiate, a, pairs
    <2> QED BY <1>4, <2>1 DEF Concluded
<1>6. Cleared(k).state = "DONE"
    BY <1>1, CancelFacts DEF cancel_offer
<1>7. NegOK(Cleared(k)) /\ Cleared(k).active_local = n.active_local
    <2>1. Described(k.active_local)
        BY <1>1 DEF NegOK
    <2> QED BY <1>1, <2>1, ClearedFacts DEF NegOK
<1> QED BY <1>5, <1>6, <1>7 DEF k

\* The call is set up with the media of both, or without any.
LEMMA SetUpAgrees ==
    LET offering == create_w_local_offer(Media["C"])
        answering == set_local_answer(create_w_remote_offer(offering.neg_local),
                         LocalAnswer("S", [local_hold |-> FALSE], offering.neg_local))
        answered == negotiate(answering).neg
        agreed == negotiate(set_remote_answer(offering, answered.active_local)).neg
    IN  NegOK(answered) /\ NegOK(agreed) /\ Agree(agreed.active_local.media, answered.active_local.media)
<1> DEFINE offering == create_w_local_offer(Media["C"])
           sdp == offering.neg_local
           asked == create_w_remote_offer(sdp)
           s == [local_hold |-> FALSE]
           r == negotiate(set_local_answer(asked, LocalAnswer("S", s, sdp)))
           answered == r.neg
           agreed == negotiate(set_remote_answer(offering, answered.active_local)).neg
           S == "S"
<1>1. Media["C"] \in Seq(Lines) /\ OneOfEach(Media["C"])
    BY SdpMediaAssumption DEF Parties
<1>2. NegOK(offering) /\ Described(sdp) /\ offering.active_local = NoSdp
    <2> DEFINE media == Media["C"]
    <2>1. media \in Seq(Lines) /\ OneOfEach(media)
        BY <1>1
    <2> HIDE DEF media
    <2>2. Described([ver |-> 1, media |-> media])
        BY <2>1 DEF Described
    <2> QED BY <2>2, FirstFacts DEF create_w_local_offer, NegOK, NegShape, media
<1> HIDE DEF offering, sdp
<1>3. NegOK(asked) /\ asked.neg_remote = sdp /\ asked.active_local = NoSdp
    BY FirstFacts DEF create_w_remote_offer, NegOK, NegShape
<1> HIDE DEF asked
<1>4. S \in Parties
    BY DEF Parties
<1>5. NegOK(r.neg) /\ (IF r.ok THEN AnswerTo(sdp, r.neg.active_local) ELSE r.neg.active_local = NoSdp)
    <2> DEFINE a == negotiate(set_local_answer(asked, LocalAnswer(S, s, asked.neg_remote)))
    <2>1. Described(asked.neg_remote) /\ a = r
        BY <1>2, <1>3
    <2> HIDE DEF S, s, r
    <2>2. Given(s, asked, a)
        BY <1>3, <1>4, <2>1, GiveAnswer
    <2> HIDE DEF a
    <2> QED BY <1>3, <2>1, <2>2 DEF Given
<1> HIDE DEF r
<1>6. Described(answered.active_local)
    BY <1>5 DEF NegOK
<1>7. CASE r.ok
    <2>1. AnswerTo(sdp, answered.active_local)
        BY <1>5, <1>7
    <2> HIDE DEF answered
    <2>2. NegOK(agreed) /\ Agree(agreed.active_local.media, answered.active_local.media)
        BY <1>2, <1>6, <2>1, AcceptAnswer DEF sdp
    <2> QED BY <1>5, <2>2 DEF answered, r, asked, sdp, offering
<1>8. CASE ~r.ok
    <2>1. answered.active_local = NoSdp
        BY <1>5, <1>8
    <2>2. NegOK(agreed) /\ agreed.active_local = NoSdp
        BY <1>2, <2>1, AnswerNothing DEF sdp
    <2>3. Agree(NoSdp.media, NoSdp.media)
        BY FirstFacts DEF Agree
    <2> HIDE DEF agreed
    <2>4. Agree(agreed.active_local.media, answered.active_local.media)
        BY <2>1, <2>2, <2>3
    <2> QED BY <1>5, <2>2, <2>4 DEF agreed, answered, r, asked, sdp, offering
<1> QED BY <1>7, <1>8

\* Two parties that have nothing under way.
LEMMA RestDuet ==
    ASSUME NEW s, NEW r, Good(s), Good(r), NegOK(s.neg), NegOK(r.neg),
           Agree(s.neg.active_local.media, r.neg.active_local.media),
           s.neg.state = "DONE", s.invite.role = "none", r.neg.state = "DONE", r.invite.role = "none"
    PROVE  Duet(s, r, {}, {}, {}, {})
<1>1. ASSUME NEW t, NEW c, Good(t), NegOK(t.neg), t.neg.state = "DONE", t.invite.role = "none"
      PROVE  Side(t, c, {}, {}, {}) /\ Replies(t, {}, {}) = {}
    <2>1. ~Open(t) /\ ~Offering(t)
        BY <1>1 DEF Open, Offering
    <2>2. Pending(t) = {}
        BY <1>1, <2>1, AskingFacts
    <2>3. Replies(t, {}, {}) = {}
        BY DEF Replies
    <2>4. Single(t, {}) /\ AckOnce(t, {})
        BY <1>1, <2>2 DEF Single, AckOnce
    <2>5. Carried(t, c, {}, {})
        BY <2>1, <2>3 DEF Carried
    <2> QED BY <1>1, <2>3, <2>4, <2>5 DEF Side
<1> QED BY <1>1 DEF Duet

\* The call has been set up.
LEMMA InitDuet ==
    ASSUME Init, Takes, Patient
    PROVE  DuetInv
<1> DEFINE offering == create_w_local_offer(Media["C"])
           answering == set_local_answer(create_w_remote_offer(offering.neg_local),
                            LocalAnswer("S", [local_hold |-> FALSE], offering.neg_local))
           answered == negotiate(answering).neg
           agreed == negotiate(set_remote_answer(offering, answered.active_local)).neg
           c == party["C"]
           s == party["S"]
<1>1. IInv /\ net = {}
    BY InitInv DEF Init
<1>2. NegOK(answered) /\ NegOK(agreed) /\ Agree(agreed.active_local.media, answered.active_local.media)
    BY SetUpAgrees
<1>3. party = [p \in Parties |-> Confirmed(p, IF p = "C" THEN agreed ELSE answered)]
    BY DEF Init
<1> HIDE DEF agreed, answered
<1>4. /\ c.neg = agreed /\ c.invite = NoTsx /\ ~c.local_hold
      /\ s.neg = answered /\ s.invite = NoTsx /\ ~s.local_hold
    BY <1>3 DEF Confirmed, Parties
<1>5. c.neg.state = "DONE" /\ s.neg.state = "DONE" /\ Good(c) /\ Good(s)
    <2>1. Kept(c) /\ Kept(s)
        BY <1>1 DEF IInv, Parties
    <2>2. Good(c) /\ Good(s)
        BY <2>1, KeptGood
    <2>3. Pending(c) = {} /\ Pending(s) = {}
        BY <1>3 DEF Confirmed, Parties, Pending
    <2> QED BY <1>4, <2>2, <2>3 DEF Good, Ends, NoTsx
<1>6. c.invite.role = "none" /\ s.invite.role = "none"
    BY <1>4 DEF NoTsx
<1>7. HoldOK(c) /\ HoldOK(s)
    BY <1>4, <1>6 DEF HoldOK
<1>8. NegOK(c.neg) /\ NegOK(s.neg) /\ Agree(c.neg.active_local.media, s.neg.active_local.media)
    BY <1>2, <1>4
<1> HIDE DEF c, s
<1>9. Duet(c, s, {}, {}, {}, {})
    BY <1>5, <1>6, <1>8, RestDuet
<1>10. Duet(s, c, {}, {}, {}, {})
    BY <1>9, DuetSym
<1>11. \A p \in Parties : OwnOf(p, net) = {} /\ AcksOf(p, net) = {}
    BY <1>1 DEF OwnOf, AcksOf
<1>12. Together("C") /\ Together("S")
    <2>1. Other("C") = "S" /\ Other("S") = "C" /\ "C" \in Parties /\ "S" \in Parties
        BY DEF Other, Parties
    <2> QED BY <1>9, <1>10, <1>11, <2>1 DEF Together, c, s
<1>13. Holding("C") /\ Holding("S")
    BY <1>7 DEF Holding, c, s
<1> QED BY <1>1, <1>12, <1>13 DEF DuetInv, Parties

\* Every step keeps the invariant.
LEMMA StepDuet ==
    ASSUME DuetInv, [Next]_vars, Takes, Patient
    PROVE  DuetInv'
<1>1. IInv'
    BY StepInv DEF DuetInv
<1> DEFINE both == \A c \in Parties : Together(c)' /\ Holding(c)'
<1>2. ASSUME NEW p \in Parties, Ask(p) PROVE both
    BY <1>2, AskDuet
<1>3. ASSUME NEW p \in Parties, UpdateTerminates(p) PROVE both
    BY <1>3, TerminatesDuet
<1>4. ASSUME NEW m \in net, Deliver(m) PROVE both
    BY <1>4, DeliverDuet
<1>5. ASSUME UNCHANGED vars PROVE both
    <2>1. party' = party /\ net' = net
        BY <1>5 DEF vars
    <2>2. ASSUME NEW c \in Parties PROVE Together(c)' /\ Holding(c)'
        <3>1. Together(c) /\ Holding(c)
            BY DEF DuetInv
        <3>2. Together(c)'
            BY <2>1, <3>1 DEF Together
        <3>3. Holding(c)'
            BY <2>1, <3>1 DEF Holding
        <3> QED BY <3>2, <3>3
    <2> QED BY <2>2
<1>6. both
    <2> HIDE DEF both
    <2> QED BY <1>2, <1>3, <1>4, <1>5 DEF Next
<1> QED BY <1>1, <1>6 DEF DuetInv

\* Nothing under way: the parties agree.
LEMMA QuietAgrees ==
    ASSUME DuetInv, Quiet
    PROVE  Agree(Active("C"), Active("S"))
<1>1. OwnOf("C", net) = {} /\ AcksOf("C", net) = {} /\ OwnOf("S", net) = {} /\ AcksOf("S", net) = {}
    BY DEF Quiet, OwnOf, AcksOf
<1>2. Other("C") = "S" /\ "C" \in Parties
    BY DEF Other, Parties
<1>3. Duet(party["C"], party["S"], {}, {}, {}, {})
    BY <1>1, <1>2 DEF DuetInv, Together
<1>4. Replies(party["C"], {}, {}) = {} /\ Replies(party["S"], {}, {}) = {}
    BY DEF Replies
<1> QED BY <1>3, <1>4 DEF Duet, Active

\* Once nothing is under way both parties use the same lines with the same codecs, and one
\* may send what the other receives, whatever media they have and ask for and however the
\* requests cross and are refused: an answer is in use where it is sent before it is on its
\* way (pjmedia_sdp_neg_negotiate in inv_negotiate_sdp), and the one who gets it takes the
\* same lines from it.  It is about users who take what a response offers and who start
\* neither two things at once nor something while a re-INVITE is answered.
THEOREM PartiesAgree ==
    ASSUME "response" \notin Declines, {"own", "other"} \subseteq Habits
    PROVE  Spec => []Agreement
<1>1. Takes /\ Patient
    BY DEF Takes, Patient
<1>2. DuetInv => Agreement
    <2> SUFFICES ASSUME DuetInv, Quiet
                 PROVE  /\ Len(Active("C")) = Len(Active("S"))
                        /\ \A k \in DOMAIN Active("C") : AgreeLine(Active("C")[k], Active("S")[k])
        BY DEF Agreement, AgreeLine, SameCodecs
    <2> QED BY QuietAgrees DEF Agree
<1>3. Init => DuetInv
    BY <1>1, InitDuet
<1>4. DuetInv /\ [Next]_vars => DuetInv'
    BY <1>1, StepDuet
<1> QED BY <1>2, <1>3, <1>4, PTL DEF Spec

\* A party that reports the call on hold (call->local_hold) does not receive media once
\* nothing is under way, for users who moreover release only a hold: the offer of the hold
\* does not receive and neither does what comes of it, and a hold whose re-INVITE fails is
\* forgotten, or kept when it was to be released (pjsua_call_on_tsx_state_changed).
THEOREM HoldsAreTrue ==
    ASSUME "response" \notin Declines, {"own", "other", "hold"} \subseteq Habits
    PROVE  Spec => []HoldTrue
<1>1. Takes /\ Patient
    BY DEF Takes, Patient
<1>2. ASSUME DuetInv, Quiet, NEW p \in Parties, party[p].local_hold
      PROVE  \A k \in DOMAIN Active(p) : Active(p)[k].active => "recv" \notin Active(p)[k].dir
    <2>1. HoldOK(party[p])
        BY <1>2 DEF DuetInv, Holding
    <2>2. party[p].invite.role = "none"
        BY <1>2 DEF Quiet, NoTsx
    <2> QED BY <1>2, <2>1, <2>2 DEF HoldOK, NoRecv, Active
<1>3. DuetInv => HoldTrue
    BY <1>2 DEF HoldTrue
<1>4. Init => DuetInv
    BY <1>1, InitDuet
<1>5. DuetInv /\ [Next]_vars => DuetInv'
    BY <1>1, StepDuet
<1> QED BY <1>3, <1>4, <1>5, PTL DEF Spec
===============================================================================
