------------------------------ MODULE ArgsProofs ------------------------------
(***************************************************************************)
(* Theorems about Args, for command lines of any length, whatever tokens   *)
(* the conversions take.                                                   *)
(***************************************************************************)
EXTENDS Args, FiniteSetTheorems, WellFoundedInduction, TLAPS

----------------------------------------------------------------------------
(* Least and greatest members.                                             *)

\* A set of naturals has a least member.
LEMMA Least ==
  ASSUME NEW S \in SUBSET Nat, S # {}
  PROVE  \E x \in S : \A y \in S : x <= y
<1> DEFINE less == OpToRel(<, Nat)
<1>1. PICK x \in S : \A y \in S : <<y, x>> \notin less
  <2>1. IsWellFoundedOn(less, Nat)
    BY NatLessThanWellFounded
  <2> HIDE DEF less
  <2>2. QED
    BY <2>1, WFMin
<1>2. \A y \in S : ~(y < x)
  BY <1>1 DEF OpToRel
<1>3. QED
  BY <1>2

\* The least and the greatest member, as Min and Max choose them.
LEMMA Extreme ==
  ASSUME NEW S \in SUBSET Int, NEW x \in S
  PROVE  /\ (\A y \in S : x <= y) => Min(S) = x
         /\ (\A y \in S : y <= x) => Max(S) = x
<1>1. ASSUME \A y \in S : x <= y PROVE Min(S) = x
  <2>1. \A z \in S : (\A y \in S : z <= y) => z = x
    BY <1>1
  <2> DEFINE z == CHOOSE z \in S : \A y \in S : z <= y
  <2>2. z \in S /\ \A y \in S : z <= y
    BY <1>1
  <2> HIDE DEF z
  <2>3. z = x
    BY <2>1, <2>2
  <2>4. QED
    BY <2>3 DEF z, Min
<1>2. ASSUME \A y \in S : y <= x PROVE Max(S) = x
  <2>1. \A z \in S : (\A y \in S : z >= y) => z = x
    BY <1>2
  <2>2. \A y \in S : x >= y
    BY <1>2
  <2> DEFINE z == CHOOSE z \in S : \A y \in S : z >= y
  <2>3. z \in S /\ \A y \in S : z >= y
    BY <2>2
  <2> HIDE DEF z
  <2>4. z = x
    BY <2>1, <2>3
  <2>5. QED
    BY <2>4 DEF z, Max
<1>3. QED
  BY <1>1, <1>2

----------------------------------------------------------------------------
(* Types.                                                                  *)

ModeSpecs ==
  [kind : Kinds, rate : Frequencies \cup {"unset", "1Hz"}, size : Sizes \cup {"unset"},
   burst : 0 .. UintMod - 1, trigger : Triggers]

TypeInv ==
  /\ toks \in Seq(STRING)
  /\ i \in 1 .. Len(toks) + 1
  /\ mode \in ModeSpecs \cup {NoMode}
  /\ DOMAIN opts = Flags \cup WithValue
  /\ modes \in Seq(ModeSpecs)
  /\ status \in {"busy", "ok", "help", "version", "error"}

\* What comes before --ros-args is a sequence of tokens.
LEMMA TokensType ==
  ASSUME NEW argv \in Seq(STRING)
  PROVE  TokensOf(argv) \in Seq(STRING)
<1> DEFINE I  == {k \in 1 .. Len(argv) : argv[k] = "--ros-args"}
           at == IF I # {} THEN Min(I) ELSE 0
<1>1. TokensOf(argv) = IF at = 0 THEN argv ELSE SubSeq(argv, 1, at - 1)
  BY DEF TokensOf, SelectInSeq
<1>2. at \in 0 .. Len(argv)
  <2>1. CASE I = {}
    BY <2>1
  <2>2. CASE I # {}
    <3>1. I \in SUBSET Nat
      OBVIOUS
    <3>2. PICK x \in I : \A y \in I : x <= y
      BY <2>2, <3>1, Least
    <3> HIDE DEF I
    <3>3. Min(I) = x
      BY <3>1, <3>2, Extreme
    <3>4. QED
      BY <3>2, <3>3 DEF I
  <2>3. QED
    BY <2>1, <2>2
<1> HIDE DEF at
<1>3. \A k \in 0 .. Len(argv) : SubSeq(argv, 1, k) \in Seq(STRING)
  OBVIOUS
<1>4. CASE at = 0
  BY <1>1, <1>4
<1>5. CASE at # 0
  <2>1. at - 1 \in 0 .. Len(argv)
    BY <1>2, <1>5
  <2>2. QED
    BY <1>1, <1>3, <1>5, <2>1
<1>6. QED
  BY <1>4, <1>5

\* A mode as it is created is one.
LEMMA NewModeType ==
  /\ \A kind \in Kinds : NewMode(kind) \in ModeSpecs
  /\ [NewMode("ping") EXCEPT !.rate = "1Hz"] \in ModeSpecs
  /\ NoMode.kind \notin Kinds
<1>1. 1 \in 0 .. UintMod - 1
  BY ConstantsAssumption
<1>2. QED
  BY <1>1 DEF NewMode, ModeSpecs, NoMode, Kinds, Triggers

\* A sub-argument leaves a mode one.
LEMMA SubargType ==
  ASSUME NEW m \in ModeSpecs
  PROVE  /\ \A v \in Sizes : [m EXCEPT !.size = v] \in ModeSpecs
         /\ \A v \in Frequencies : [m EXCEPT !.rate = v] \in ModeSpecs
         /\ \A v \in Triggers : [m EXCEPT !.trigger = v] \in ModeSpecs
         /\ \A v : IsCount(v) => [m EXCEPT !.burst = Narrow(v)] \in ModeSpecs
<1>1. \A v : IsCount(v) => Narrow(v) \in 0 .. UintMod - 1
  <2>1. \A x \in Int : x % UintMod \in 0 .. UintMod - 1
    BY ConstantsAssumption
  <2>2. \A v : IsCount(v) => Integer[v] \in Int
    BY ConstantsAssumption DEF IsCount
  <2>3. QED
    BY <2>1, <2>2 DEF Narrow
<1>2. QED
  BY <1>1 DEF ModeSpecs

\* The types are right in the initial states and kept by every step.
LEMMA TypeInductive ==
  /\ Init => TypeInv
  /\ TypeInv /\ [Next]_vars => TypeInv'
<1>1. Init => TypeInv
  <2> SUFFICES ASSUME Init PROVE TypeInv
    OBVIOUS
  <2>1. toks \in Seq(STRING)
    BY TokensType, ConstantsAssumption DEF Init
  <2>2. DOMAIN opts = Flags \cup WithValue
    BY DEF Init, NoOptions
  <2>3. QED
    BY <2>1, <2>2 DEF Init, TypeInv
<1>2. TypeInv /\ [Next]_vars => TypeInv'
  <2> SUFFICES ASSUME TypeInv, [Next]_vars PROVE TypeInv'
    OBVIOUS
  <2> USE DEF TypeInv
  <2>1. CASE Ask
    BY <2>1 DEF Ask, AtTop
  <2>2. CASE Flag
    BY <2>2 DEF Flag, AtTop
  <2>3. CASE Option
    BY <2>3 DEF Option, AtTop, HasValue, Fail
  <2>4. CASE Unexpected
    BY <2>4 DEF Unexpected, Fail
  <2>5. CASE Sanity
    BY <2>5, NewModeType DEF Sanity, AtTop
  <2>6. CASE StartMode
    BY <2>6, NewModeType DEF StartMode, AtTop
  <2>7. ASSUME AtSubargs PROVE mode \in ModeSpecs /\ i \in 1 .. Len(toks)
    BY <2>7 DEF AtSubargs
  <2>8. CASE SizeSubarg
    BY <2>7, <2>8, SubargType DEF SizeSubarg, Subarg, HasValue, Fail
  <2>9. CASE BurstSubarg
    BY <2>7, <2>9, SubargType DEF BurstSubarg, Subarg, HasValue, Fail
  <2>10. CASE TriggerSubarg
    BY <2>7, <2>10, SubargType DEF TriggerSubarg, Subarg
  <2>11. CASE RateSubarg
    BY <2>7, <2>11, SubargType DEF RateSubarg, Subarg
  <2>12. CASE UnknownSubarg
    BY <2>12 DEF UnknownSubarg, Fail
  <2>13. CASE EndMode
    BY <2>13 DEF EndMode
  <2>14. CASE Finish
    BY <2>14 DEF Finish
  <2>15. CASE UNCHANGED vars
    BY <2>15 DEF vars
  <2>16. QED
    BY <2>1, <2>2, <2>3, <2>4, <2>5, <2>6, <2>8, <2>9, <2>10, <2>11, <2>12, <2>13,
       <2>14, <2>15 DEF Next
<1>3. QED
  BY <1>1, <1>2

\* Type correctness: what is stored in a mode is what its conversion took, and
\* the parser never looks past the last token.
THEOREM TypeCorrect == Spec => []TypeOK
<1>1. TypeInv => TypeOK
  <2> SUFFICES ASSUME TypeInv PROVE TypeOK
    OBVIOUS
  <2>1. \A k \in 1 .. Len(modes) : modes[k] \in ModeSpecs
    BY DEF TypeInv
  <2>2. ToSet(modes) \subseteq ModeSpecs
    <3>1. DOMAIN modes = 1 .. Len(modes)
      BY DEF TypeInv
    <3>2. QED
      BY <2>1, <3>1 DEF ToSet
  <2>3. \A m \in ModeSpecs :
          /\ m.rate \in Frequencies \cup {"unset", "1Hz"}
          /\ m.size \in Sizes \cup {"unset"}
          /\ m.burst \in 0 .. UintMod - 1
          /\ m.trigger \in Triggers
          /\ m.kind \in Kinds
    BY DEF ModeSpecs
  <2>4. /\ NoMode.rate \in Frequencies \cup {"unset", "1Hz"}
        /\ NoMode.size \in Sizes \cup {"unset"}
        /\ NoMode.burst \in 0 .. UintMod - 1
        /\ NoMode.trigger \in Triggers
    BY ConstantsAssumption DEF NoMode, NewMode, Triggers
  <2>5. QED
    BY <2>2, <2>3, <2>4 DEF TypeInv, TypeOK
<1>2. QED
  BY <1>1, TypeInductive, PTL DEF Spec

----------------------------------------------------------------------------
(* Readings. A token tells how long the piece is that it begins, so that   *)
(* one reading never parts from another.                                   *)

\* The number of tokens of the piece that begins with t.
Length(t) == IF t \in WithValue \cup {"size", "burst"} THEN 2 ELSE 1

\* A piece is as long as its first token tells.
LEMMA PieceLength ==
  ASSUME NEW s, NEW C, NEW a, NEW n, IsPiece(s, C, a, n)
  PROVE  n = Length(s[a])
<1>1. CASE IsOption(s, a, n)
  BY <1>1 DEF IsOption, Length, Flags, WithValue
<1>2. CASE IsMode(s, a, n)
  BY <1>2 DEF IsMode, Length, Kinds, WithValue
<1>3. ASSUME NEW kind, IsSubarg(kind, s, a, n) PROVE n = Length(s[a])
  <2>1. \A t \in Triggers : Length(t) = 1
    BY DEF Triggers, Length, WithValue
  <2>2. \A t \in Frequencies : Length(t) = 1
    BY ConstantsAssumption DEF Length, Dashed
  <2>3. Length("size") = 2 /\ Length("burst") = 2
    BY DEF Length
  <2>4. QED
    BY <1>3, <2>1, <2>2, <2>3 DEF IsSubarg
<1>4. QED
  BY <1>1, <1>2, <1>3 DEF IsPiece

\* The piece that begins at a cut ends before another cut, or at the end.
LEMMA NextCut ==
  ASSUME NEW s, NEW m \in Nat, NEW C \in Readings(s, m), NEW a \in C
  PROVE  \E b \in C \cup {m + 1} : a < b /\ IsPiece(s, C, a, b - a)
<1> DEFINE S == {b \in C \cup {m + 1} : a < b}
<1>1. C \in SUBSET (1 .. m) /\ a \in 1 .. m
  BY DEF Readings
<1>2. a \in Nat /\ m + 1 \in Nat /\ a < m + 1
  BY <1>1
<1>3. S \in SUBSET Nat /\ m + 1 \in S
  <2>1. \A b \in C \cup {m + 1} : b \in Nat
    BY <1>1, <1>2
  <2>2. m + 1 \in C \cup {m + 1}
    OBVIOUS
  <2>3. QED
    BY <1>2, <2>1, <2>2
<1>4. PICK b \in S : \A c \in S : b <= c
  BY <1>3, Least
<1>5. b \in C \cup {m + 1} /\ a < b /\ \A c \in C : c <= a \/ b <= c
  BY <1>1, <1>3, <1>4
<1>6. QED
  BY <1>5 DEF Readings

\* Reading on from a cut by the length of its piece leads to the next cut, and
\* to every cut but the first in this way.
LEMMA CutsFollow ==
  ASSUME NEW s, NEW m \in Nat, NEW C \in Readings(s, m)
  PROVE  /\ C \in SUBSET (1 .. m)
         /\ m > 0 => 1 \in C
         /\ \A a \in C : a + Length(s[a]) \in C \cup {m + 1}
         /\ \A b \in C \cup {m + 1} : b # 1 => \E a \in C : b = a + Length(s[a])
<1>1. /\ C \in SUBSET (1 .. m)
      /\ m > 0 => 1 \in C
      /\ \A a \in C, b \in C \cup {m + 1} :
           a < b /\ (\A c \in C : c <= a \/ b <= c) => b - a = Length(s[a])
  BY PieceLength DEF Readings
<1>2. ASSUME NEW a \in C PROVE a + Length(s[a]) \in C \cup {m + 1}
  <2>1. PICK b \in C \cup {m + 1} : b - a = Length(s[a])
    BY NextCut, PieceLength
  <2>2. a \in Nat /\ b \in Nat /\ Length(s[a]) \in Nat
    BY <1>1 DEF Length
  <2>3. b = a + Length(s[a])
    BY <2>1, <2>2
  <2>4. QED
    BY <2>3
<1>3. ASSUME NEW b \in C \cup {m + 1}, b # 1 PROVE \E a \in C : b = a + Length(s[a])
  <2> DEFINE S == {d \in Nat : d > 0 /\ b - d \in C}
  <2>1. b \in Nat /\ b > 1 /\ m > 0
    BY <1>1, <1>3
  <2>2. S \in SUBSET Nat /\ b - 1 \in S
    <3>1. b - (b - 1) = 1 /\ b - 1 \in Nat /\ b - 1 > 0
      BY <2>1
    <3>2. QED
      BY <1>1, <2>1, <3>1
  <2>3. PICK d \in S : \A e \in S : d <= e
    BY <2>2, Least
  <2> DEFINE a == b - d
  <2>4. a \in C /\ a \in Nat /\ a < b
    BY <1>1, <2>1, <2>3
  <2>5. ASSUME NEW c \in C PROVE c <= a \/ b <= c
    <3>1. c \in Nat
      BY <1>1
    <3>2. CASE c < b
      <4>1. b - c \in S
        BY <2>1, <3>1, <3>2
      <4>2. d <= b - c /\ d \in Nat
        BY <2>3, <4>1
      <4>3. QED
        BY <2>1, <3>1, <4>2
    <3>3. QED
      BY <2>1, <3>1, <3>2
  <2> HIDE DEF a, S
  <2>6. b - a = Length(s[a])
    BY <1>1, <2>4, <2>5
  <2>7. b = a + Length(s[a])
    <3>1. Length(s[a]) \in Nat
      BY DEF Length
    <3>2. QED
      BY <2>1, <2>4, <2>6, <3>1
  <2>8. QED
    BY <2>4, <2>7
<1>4. QED
  BY <1>1, <1>2, <1>3

\* Two readings agree as far as the shorter goes, and the longer has a cut
\* where the shorter ends.
LEMMA ReadingsAgree ==
  ASSUME NEW s, NEW m \in Nat, NEW n \in Nat, m <= n,
         NEW C \in Readings(s, m), NEW D \in Readings(s, n)
  PROVE  C = D \cap (1 .. m) /\ (m < n => m + 1 \in D)
<1> DEFINE L(a) == Length(s[a])
<1>1. /\ C \in SUBSET (1 .. m) /\ D \in SUBSET (1 .. n)
      /\ m > 0 => 1 \in C
      /\ n > 0 => 1 \in D
      /\ \A a \in C : a + L(a) \in C \cup {m + 1}
      /\ \A a \in D : a + L(a) \in D \cup {n + 1}
      /\ \A b \in C \cup {m + 1} : b # 1 => \E a \in C : b = a + L(a)
      /\ \A b \in D \cup {n + 1} : b # 1 => \E a \in D : b = a + L(a)
  <2> HIDE DEF L
  <2>1. /\ C \in SUBSET (1 .. m)
        /\ m > 0 => 1 \in C
        /\ \A a \in C : a + L(a) \in C \cup {m + 1}
        /\ \A b \in C \cup {m + 1} : b # 1 => \E a \in C : b = a + L(a)
    BY CutsFollow DEF L
  <2>2. /\ D \in SUBSET (1 .. n)
        /\ n > 0 => 1 \in D
        /\ \A a \in D : a + L(a) \in D \cup {n + 1}
        /\ \A b \in D \cup {n + 1} : b # 1 => \E a \in D : b = a + L(a)
    BY CutsFollow DEF L
  <2>3. QED
    BY <2>1, <2>2
<1>2. \A a \in Nat : L(a) \in Nat \ {0}
  BY DEF Length
<1> HIDE DEF L
<1> DEFINE S == {p \in 1 .. m : ~(p \in C <=> p \in D)}
<1>3. S = {}
  <2> SUFFICES ASSUME S # {} PROVE FALSE
    OBVIOUS
  <2>1. S \in SUBSET Nat
    OBVIOUS
  <2>2. PICK p \in S : \A q \in S : p <= q
    BY <2>1, Least
  <2>3. p \in 1 .. m /\ p # 1 /\ p # m + 1 /\ p # n + 1 /\ p \in Nat
    BY <1>1
  <2>4. \A q \in 1 .. m : q < p => (q \in C <=> q \in D)
    BY <2>2, <2>3
  <2>5. CASE p \in C
    <3>1. PICK a \in C : p = a + L(a)
      BY <1>1, <2>3, <2>5
    <3>2. a \in 1 .. m /\ a < p
      BY <1>1, <1>2, <3>1
    <3>3. a \in D
      BY <2>4, <3>2
    <3>4. p \in D
      BY <1>1, <2>3, <3>1, <3>3
    <3>5. QED
      BY <2>5, <3>4
  <2>6. CASE p \in D
    <3>1. PICK a \in D : p = a + L(a)
      BY <1>1, <2>3, <2>6
    <3>2. a \in 1 .. m /\ a < p
      <4>1. a \in Nat \ {0} /\ L(a) \in Nat \ {0}
        BY <1>1, <1>2
      <4>2. QED
        BY <2>3, <3>1, <4>1
    <3>3. a \in C
      BY <2>4, <3>2
    <3>4. p \in C
      BY <1>1, <2>3, <3>1, <3>3
    <3>5. QED
      BY <2>6, <3>4
  <2>7. QED
    BY <2>5, <2>6
<1>4. C = D \cap (1 .. m)
  BY <1>1, <1>3
<1>5. ASSUME m < n PROVE m + 1 \in D
  <2>1. CASE m = 0
    BY <1>1, <1>5, <2>1
  <2>2. CASE m # 0
    <3>1. PICK a \in C : m + 1 = a + L(a)
      BY <1>1, <2>2
    <3>2. a \in D /\ m + 1 # n + 1
      BY <1>4, <1>5
    <3>3. QED
      BY <1>1, <3>1, <3>2
  <2>3. QED
    BY <2>1, <2>2
<1>6. QED
  BY <1>4, <1>5

\* The language of the parser is unambiguous: whatever the tokens are, there
\* is one way at most to cut them into pieces.
THEOREM Unambiguous ==
  ASSUME NEW s, NEW m \in Nat, NEW C \in Readings(s, m), NEW D \in Readings(s, m)
  PROVE  C = D
<1>1. m <= m
  OBVIOUS
<1>2. C = D \cap (1 .. m) /\ D = C \cap (1 .. m)
  BY <1>1, ReadingsAgree
<1>3. QED
  BY <1>2

\* What begins a reading's pieces: no request for help or for the version.
LEMMA NothingAsked ==
  ASSUME NEW s, NEW m \in Nat, NEW C \in Readings(s, m), NEW a \in C
  PROVE  s[a] \notin Asking \cup {"help"}
<1>1. PICK b \in C \cup {m + 1} : IsPiece(s, C, a, b - a)
  BY NextCut
<1>2. s[a] \in Flags \cup WithValue \cup Kinds \cup {"sanity", "size", "burst"}
                 \cup Triggers \cup Frequencies
  BY <1>1 DEF IsPiece, IsOption, IsMode, IsSubarg
<1>3. QED
  BY <1>2, ConstantsAssumption
     DEF Flags, WithValue, Kinds, Triggers, Asking, Dashed, ModeKeywords

\* Nothing is asked for in what has been read.
LEMMA AskedAfter ==
  ASSUME NEW s \in Seq(STRING), NEW m \in Nat, NEW C \in Readings(s, m), NEW k \in Asks(s)
  PROVE  m < k
<1> SUFFICES ASSUME k <= m PROVE FALSE
  <2>1. k \in Nat
    BY DEF Asks
  <2>2. QED
    BY <2>1
<1>1. k \in 1 .. Len(s) /\ k - 1 \in Nat /\ s[k] \in Asking \cup {"help"}
  BY DEF Asks
<1>2. PICK D \in Readings(s, k - 1) : TRUE
  BY DEF Asks
<1>3. k - 1 < m /\ k - 1 <= m /\ (k - 1) + 1 = k
  BY <1>1
<1>4. k \in C
  BY <1>1, <1>2, <1>3, ReadingsAgree
<1>5. QED
  BY <1>1, <1>4, NothingAsked

----------------------------------------------------------------------------
(* What the parser has read. Everything here speaks of the tokens s before *)
(* the position p, and of the reading C of them.                           *)

\* The mode at h takes the sub-arguments that come next.
Open(s, C, h) == h \in C /\ s[h] \in Kinds /\ \A c \in C : c > h => s[c] \notin Heads

\* The modes that are read, the one whose sub-arguments are read included.
AllModes(md, ms) == IF md = NoMode THEN ms ELSE Append(ms, md)

\* What the parser holds at p is what C means, and it takes sub-arguments
\* wherever the grammar does.
Means(s, p, C, md, os, ms) ==
  /\ C \in Readings(s, p - 1)
  /\ md = NoMode => p > Len(s) \/ IsSubargsBoundary(s[p]) \/ \A h \in C : ~Open(s, C, h)
  /\ md # NoMode => \E h \in C : Open(s, C, h) /\ s[h] = md.kind
  /\ MeansModes(s, C, AllModes(md, ms))
  /\ MeansOptions(s, C, os)

\* What a command line is found to be.
Found(s, os, ms, st) ==
  IF Asks(s) # {}
  THEN st = IF s[Min(Asks(s))] = "--version" THEN "version" ELSE "help"
  ELSE LET rs == {C \in Readings(s, Len(s)) : ModesAt(s, C) # {}} IN
       /\ st \in {"ok", "error"}
       /\ st = "ok" <=> rs # {}
       /\ st = "ok" => \A C \in rs : MeansModes(s, C, ms) /\ MeansOptions(s, C, os)

\* What the parser holds while it reads, and what it has found when it is done.
ReadSo ==
  /\ status = "busy" => \E C \in Readings(toks, i - 1) : Means(toks, i, C, mode, opts, modes)
  /\ status # "busy" => Found(toks, opts, modes, status)

ReadInv == TypeInv /\ ReadSo

\* A reading goes on with a piece that may come next.
LEMMA ReadOn ==
  ASSUME NEW s, NEW p \in Nat \ {0}, NEW C \in Readings(s, p - 1),
         NEW n \in Nat \ {0}, IsPiece(s, C \cup {p}, p, n)
  PROVE  C \cup {p} \in Readings(s, (p + n) - 1)
<1> DEFINE D == C \cup {p}
<1>1. /\ C \in SUBSET (1 .. p - 1)
      /\ p - 1 > 0 => 1 \in C
      /\ \A a \in C, b \in C \cup {p} :
           a < b /\ (\A c \in C : c <= a \/ b <= c) => IsPiece(s, C, a, b - a)
  <2>1. (p - 1) + 1 = p
    OBVIOUS
  <2>2. QED
    BY <2>1 DEF Readings
<1>2. D \in SUBSET (1 .. (p + n) - 1) /\ 1 \in D
  BY <1>1
<1>3. ASSUME NEW a \in D, NEW b \in D \cup {((p + n) - 1) + 1},
             a < b, \A c \in D : c <= a \/ b <= c
      PROVE  IsPiece(s, D, a, b - a)
  <2>1. a \in 1 .. p /\ b \in 1 .. p + n
    BY <1>1
  <2>2. CASE a = p
    <3>1. b = p + n
      BY <1>1, <1>3, <2>2
    <3>2. b - a = n
      BY <2>2, <3>1
    <3>3. QED
      BY <2>2, <3>2
  <2>3. CASE a # p
    <3>1. a \in C /\ a < p
      BY <1>1, <2>3
    <3>2. b <= p
      BY <1>3, <2>1, <3>1
    <3>3. b \in C \cup {p}
      BY <2>1, <3>2
    <3>4. IsPiece(s, C, a, b - a)
      BY <1>1, <1>3, <3>1, <3>3
    <3>5. ASSUME NEW k \in C, a \in Subargs(s, C, k) PROVE a \in Subargs(s, D, k)
      BY <1>1, <3>1, <3>5 DEF Subargs
    <3> HIDE DEF D
    <3>6. C \subseteq D
      BY DEF D
    <3>7. QED
      BY <3>4, <3>5, <3>6 DEF IsPiece
  <2>4. QED
    BY <2>2, <2>3
<1>4. QED
  BY <1>2, <1>3 DEF Readings

\* D has the cuts of C, which come before p, and p.
Adds(C, p, D) == p \in Nat \ {0} /\ C \in SUBSET (1 .. p - 1) /\ D = C \cup {p}

\* A sub-argument is one of the open mode, and of no other.
LEMMA SubargsAfterSubarg ==
  ASSUME NEW s, NEW p, NEW C, NEW D, Adds(C, p, D), s[p] \notin Heads,
         NEW h, Open(s, C, h)
  PROVE  /\ \A a \in C \ {h} : s[a] \in Heads =>
              Subargs(s, D, a) = Subargs(s, C, a)
         /\ Subargs(s, D, h) = Subargs(s, C, h) \cup {p}
         /\ Open(s, D, h)
<1>1. (\A a \in C : a \in Nat /\ a < p) /\ D = C \cup {p} /\ p \in Nat
  BY DEF Adds
<1>2. h \in C /\ s[h] \in Heads /\ s[h] \in Kinds /\ \A c \in C : c > h => s[c] \notin Heads
  BY DEF Open, Heads
<1>3. ASSUME NEW a \in C, a # h, s[a] \in Heads
      PROVE  Subargs(s, D, a) = Subargs(s, C, a)
  <2>1. a < h /\ h <= p
    BY <1>1, <1>2, <1>3
  <2>2. p \notin Subargs(s, D, a)
    BY <1>1, <1>2, <2>1 DEF Subargs
  <2>3. \A b \in C : b \in Subargs(s, D, a) <=> b \in Subargs(s, C, a)
    BY <1>1 DEF Subargs
  <2>4. QED
    BY <1>1, <2>2, <2>3 DEF Subargs
<1>4. Subargs(s, D, h) = Subargs(s, C, h) \cup {p}
  <2>1. p \in Subargs(s, D, h)
    BY <1>1, <1>2 DEF Subargs
  <2>2. \A b \in C : b \in Subargs(s, D, h) <=> b \in Subargs(s, C, h)
    BY <1>1 DEF Subargs
  <2>3. QED
    BY <1>1, <2>1, <2>2 DEF Subargs
<1>5. Open(s, D, h)
  BY <1>1, <1>2 DEF Open
<1>6. QED
  BY <1>3, <1>4, <1>5

\* What a mode means depends on its sub-arguments only.
LEMMA SameMeaning ==
  ASSUME NEW s, NEW C, NEW D, NEW a, Subargs(s, C, a) = Subargs(s, D, a)
  PROVE  ModeMeant(s, C, a) = ModeMeant(s, D, a)
BY DEF ModeMeant

\* A keyword that begins a mode means the mode as it is created.
LEMMA NewMeaning ==
  ASSUME NEW s, NEW C, NEW a, Subargs(s, C, a) = {}
  PROVE  /\ s[a] \in Kinds => ModeMeant(s, C, a) = NewMode(s[a])
         /\ s[a] = "sanity" => ModeMeant(s, C, a) = [NewMode("ping") EXCEPT !.rate = "1Hz"]
<1>1. ASSUME s[a] \in Kinds PROVE ModeMeant(s, C, a) = NewMode(s[a])
  <2>1. s[a] # "sanity"
    BY <1>1 DEF Kinds
  <2>2. QED
    BY <2>1 DEF ModeMeant, NewMode, LastAt
<1>2. ASSUME s[a] = "sanity"
      PROVE  ModeMeant(s, C, a) = [NewMode("ping") EXCEPT !.rate = "1Hz"]
  BY <1>2 DEF ModeMeant
<1>3. QED
  BY <1>1, <1>2

\* The last piece of all is the last of those it is added to.
LEMMA LastAtLatest ==
  ASSUME NEW s, NEW p \in Nat, NEW B \in SUBSET (1 .. p - 1), NEW n, NEW default
  PROVE  LastAt(s, B \cup {p}, n, default) = s[p + n]
<1>1. B \cup {p} \in SUBSET Int /\ p \in B \cup {p} /\ \A y \in B \cup {p} : y <= p
  OBVIOUS
<1>2. Max(B \cup {p}) = p
  BY <1>1, Extreme
<1>3. QED
  BY <1>2 DEF LastAt

\* A head changes nothing of what the modes before it mean.
LEMMA MeaningAfterHead ==
  ASSUME NEW s, NEW p, NEW C, NEW D, Adds(C, p, D), s[p] \in Heads, NEW a \in C
  PROVE  ModeMeant(s, D, a) = ModeMeant(s, C, a)
<1>1. a \in Nat /\ a < p /\ D = C \cup {p} /\ p \in Nat /\ \A c \in C : c \in Nat /\ c < p
  BY DEF Adds
<1>2. p \notin Subargs(s, D, a)
  BY <1>1 DEF Subargs
<1>3. \A b \in C : b \in Subargs(s, D, a) <=> b \in Subargs(s, C, a)
  BY <1>1 DEF Subargs
<1>4. Subargs(s, D, a) \subseteq D /\ Subargs(s, C, a) \subseteq C
  BY DEF Subargs
<1>5. Subargs(s, D, a) = Subargs(s, C, a)
  BY <1>1, <1>2, <1>3, <1>4
<1>6. QED
  BY <1>5, SameMeaning

\* A mode that has been added means the mode as it is created.
LEMMA MeaningOfHead ==
  ASSUME NEW s, NEW p, NEW C, NEW D, Adds(C, p, D), s[p] \in Heads
  PROVE  /\ s[p] \in Kinds => ModeMeant(s, D, p) = NewMode(s[p])
         /\ s[p] = "sanity" => ModeMeant(s, D, p) = [NewMode("ping") EXCEPT !.rate = "1Hz"]
<1>1. \A b \in D : ~(b > p)
  BY DEF Adds
<1>2. Subargs(s, D, p) = {}
  BY <1>1 DEF Subargs
<1>3. QED
  BY <1>2, NewMeaning

\* What the modes but the open one mean when a sub-argument has been added.
LEMMA MeaningAfterSubarg ==
  ASSUME NEW s, NEW p, NEW C, NEW D, Adds(C, p, D), s[p] \notin Heads, NEW h, Open(s, C, h)
  PROVE  /\ Open(s, D, h)
         /\ \A a \in ModesAt(s, C) \ {h} : ModeMeant(s, D, a) = ModeMeant(s, C, a)
<1>1. /\ Open(s, D, h)
      /\ \A a \in C \ {h} : s[a] \in Heads => Subargs(s, D, a) = Subargs(s, C, a)
  BY SubargsAfterSubarg
<1>2. \A a \in ModesAt(s, C) \ {h} : a \in C \ {h} /\ s[a] \in Heads
  BY DEF ModesAt, Heads
<1>3. \A a \in ModesAt(s, C) \ {h} : Subargs(s, D, a) = Subargs(s, C, a)
  BY <1>1, <1>2
<1>4. QED
  BY <1>1, <1>3, SameMeaning

\* What the sub-argument at p changes of the mode md.
Changes(s, p, md, x) ==
  /\ s[p] \in Frequencies => x = [md EXCEPT !.rate = s[p]]
  /\ s[p] = "size" => x = [md EXCEPT !.size = s[p + 1]]
  /\ s[p] = "burst" => x = [md EXCEPT !.burst = Narrow(s[p + 1])]
  /\ s[p] \in Triggers => x = [md EXCEPT !.trigger = s[p]]

\* What the mode at h means when the sub-argument at p has been added to its own.
LEMMA SubargMeaning ==
  ASSUME NEW s, NEW p, NEW C, NEW D, Adds(C, p, D), s[p] \notin Heads, NEW h, Open(s, C, h)
  PROVE  Changes(s, p, ModeMeant(s, C, h), ModeMeant(s, D, h))
<1> DEFINE B == Subargs(s, C, h)
           G(heads) == {b \in B : s[b] \in heads}
           H(heads) == {b \in B \cup {p} : s[b] \in heads}
           rate(at) == LastAt(s, at, 0, "unset")
           size(at) == LastAt(s, at, 1, "unset")
           burst(at) == IF at = {} THEN 1 ELSE Narrow(LastAt(s, at, 1, "unset"))
           trigger(at) == LastAt(s, at, 0, "listener")
           made(r, z, u, t) == [kind |-> s[h], rate |-> r, size |-> z, burst |-> u, trigger |-> t]
<1>1. /\ ModeMeant(s, C, h) = made(rate(G(Frequencies)), size(G({"size"})),
                                   burst(G({"burst"})), trigger(G(Triggers)))
      /\ ModeMeant(s, D, h) = made(rate(H(Frequencies)), size(H({"size"})),
                                   burst(H({"burst"})), trigger(H(Triggers)))
  <2>1. Subargs(s, D, h) = B \cup {p}
    BY SubargsAfterSubarg
  <2>2. s[h] # "sanity"
    BY DEF Open, Kinds
  <2>3. QED
    BY <2>1, <2>2 DEF ModeMeant
<1>2. p \in Nat /\ B \in SUBSET (1 .. p - 1)
  BY DEF Subargs, Adds
<1> HIDE DEF B
<1>3. ASSUME NEW heads
      PROVE  /\ s[p] \notin heads => H(heads) = G(heads)
             /\ s[p] \in heads => H(heads) = G(heads) \cup {p}
             /\ G(heads) \in SUBSET (1 .. p - 1)
  BY <1>2
<1>4. ASSUME NEW heads, s[p] \in heads
      PROVE  /\ rate(H(heads)) = s[p] /\ trigger(H(heads)) = s[p]
             /\ size(H(heads)) = s[p + 1] /\ burst(H(heads)) = Narrow(s[p + 1])
  <2>1. H(heads) = G(heads) \cup {p} /\ G(heads) \in SUBSET (1 .. p - 1)
    BY <1>3, <1>4
  <2> DEFINE g == G(heads)
  <2>2. g \in SUBSET (1 .. p - 1)
    BY <2>1
  <2> HIDE DEF g
  <2>3. \A n, default : LastAt(s, g \cup {p}, n, default) = s[p + n]
    BY <1>2, <2>2, LastAtLatest
  <2>4. p + 0 = p
    BY <1>2
  <2>5. g \cup {p} # {}
    OBVIOUS
  <2>6. H(heads) = g \cup {p}
    BY <2>1 DEF g
  <2> HIDE DEF H
  <2>7. QED
    BY <2>3, <2>4, <2>5, <2>6
<1> HIDE DEF G, H, rate, size, burst, trigger
<1>5. Frequencies \cap (Triggers \cup {"size", "burst"}) = {}
  BY ConstantsAssumption
<1>6. ASSUME s[p] \in Frequencies
      PROVE  ModeMeant(s, D, h) = [ModeMeant(s, C, h) EXCEPT !.rate = s[p]]
  <2>1. s[p] \notin {"size"} /\ s[p] \notin {"burst"} /\ s[p] \notin Triggers
    BY <1>5, <1>6
  <2>2. /\ H({"size"}) = G({"size"}) /\ H({"burst"}) = G({"burst"}) /\ H(Triggers) = G(Triggers)
        /\ rate(H(Frequencies)) = s[p]
    BY <1>3, <1>4, <1>6, <2>1
  <2>3. QED
    BY <1>1, <2>2
<1>7. ASSUME s[p] = "size"
      PROVE  ModeMeant(s, D, h) = [ModeMeant(s, C, h) EXCEPT !.size = s[p + 1]]
  <2>1. /\ s[p] \notin Frequencies /\ s[p] \notin {"burst"} /\ s[p] \notin Triggers
        /\ s[p] \in {"size"}
    BY <1>5, <1>7 DEF Triggers
  <2>2. /\ H(Frequencies) = G(Frequencies) /\ H({"burst"}) = G({"burst"})
        /\ H(Triggers) = G(Triggers)
        /\ size(H({"size"})) = s[p + 1]
    BY <1>3, <1>4, <2>1
  <2>3. QED
    BY <1>1, <2>2
<1>8. ASSUME s[p] = "burst"
      PROVE  ModeMeant(s, D, h) = [ModeMeant(s, C, h) EXCEPT !.burst = Narrow(s[p + 1])]
  <2>1. /\ s[p] \notin Frequencies /\ s[p] \notin {"size"} /\ s[p] \notin Triggers
        /\ s[p] \in {"burst"}
    BY <1>5, <1>8 DEF Triggers
  <2>2. /\ H(Frequencies) = G(Frequencies) /\ H({"size"}) = G({"size"})
        /\ H(Triggers) = G(Triggers)
        /\ burst(H({"burst"})) = Narrow(s[p + 1])
    BY <1>3, <1>4, <2>1
  <2>3. QED
    BY <1>1, <2>2
<1>9. ASSUME s[p] \in Triggers
      PROVE  ModeMeant(s, D, h) = [ModeMeant(s, C, h) EXCEPT !.trigger = s[p]]
  <2>1. s[p] \notin Frequencies /\ s[p] \notin {"size"} /\ s[p] \notin {"burst"}
    BY <1>5, <1>9 DEF Triggers
  <2>2. /\ H(Frequencies) = G(Frequencies) /\ H({"size"}) = G({"size"})
        /\ H({"burst"}) = G({"burst"})
        /\ trigger(H(Triggers)) = s[p]
    BY <1>3, <1>4, <1>9, <2>1
  <2>3. QED
    BY <1>1, <2>2
<1>10. QED
  BY <1>6, <1>7, <1>8, <1>9 DEF Changes

----------------------------------------------------------------------------
(* The modes of a reading, in their order.                                 *)

\* The places of the modes that C has, counted from 1.
Rank(s, C, a) == Cardinality({b \in ModesAt(s, C) : b <= a})

\* Every mode has a place, and the last one no other mode has.
LEMMA Ranks ==
  ASSUME NEW s, NEW m \in Int, NEW C \in SUBSET (1 .. m)
  PROVE  /\ IsFiniteSet(ModesAt(s, C)) /\ ModesAt(s, C) \subseteq 1 .. m
         /\ Cardinality(ModesAt(s, C)) \in Nat
         /\ \A a \in ModesAt(s, C) : Rank(s, C, a) \in 1 .. Cardinality(ModesAt(s, C))
         /\ \A h \in ModesAt(s, C) : (\A a \in ModesAt(s, C) : a <= h) =>
              /\ Rank(s, C, h) = Cardinality(ModesAt(s, C))
              /\ \A a \in ModesAt(s, C) \ {h} : Rank(s, C, a) < Cardinality(ModesAt(s, C))
<1> DEFINE A == ModesAt(s, C)
           U(a) == {b \in A : b <= a}
<1>1. IsFiniteSet(A) /\ A \subseteq 1 .. m
  <2>1. IsFiniteSet(1 .. m)
    BY FS_Interval
  <2>2. A \in SUBSET (1 .. m)
    BY DEF ModesAt
  <2> HIDE DEF A
  <2>3. QED
    BY <2>1, <2>2, FS_Subset
<1> HIDE DEF A
<1>2. Cardinality(A) \in Nat
  BY <1>1, FS_CardinalityType
<1>3. \A a \in A : U(a) \in SUBSET A /\ a \in U(a)
  BY <1>1
<1>4. ASSUME NEW a \in A
      PROVE  /\ Cardinality(U(a)) \in 1 .. Cardinality(A)
             /\ Cardinality(U(a)) = Cardinality(A) => U(a) = A
  <2> DEFINE u == U(a)
  <2>1. u \in SUBSET A /\ u # {}
    BY <1>3
  <2> HIDE DEF u
  <2>2. /\ IsFiniteSet(u) /\ Cardinality(u) <= Cardinality(A)
        /\ Cardinality(A) = Cardinality(u) => A = u
    BY <1>1, <2>1, FS_Subset
  <2>3. Cardinality(u) \in Nat /\ Cardinality(u) # 0
    BY <2>1, <2>2, FS_CardinalityType, FS_EmptySet
  <2>4. Cardinality(u) \in 1 .. Cardinality(A)
    BY <1>2, <2>2, <2>3
  <2>5. QED
    BY <2>2, <2>4 DEF u
<1>5. ASSUME NEW h \in A, \A a \in A : a <= h
      PROVE  /\ Cardinality(U(h)) = Cardinality(A)
             /\ \A a \in A \ {h} : Cardinality(U(a)) < Cardinality(A)
  <2>1. U(h) = A
    BY <1>5
  <2>2. ASSUME NEW a \in A \ {h} PROVE Cardinality(U(a)) < Cardinality(A)
    <3>1. h \notin U(a)
      BY <1>1, <1>5
    <3>2. U(a) # A
      BY <3>1
    <3>3. Cardinality(U(a)) \in 1 .. Cardinality(A) /\ Cardinality(U(a)) # Cardinality(A)
      BY <1>4, <3>2
    <3> HIDE DEF U
    <3>4. QED
      BY <1>2, <3>3
  <2>3. QED
    BY <2>1, <2>2
<1>6. \A a : Rank(s, C, a) = Cardinality(U(a))
  BY DEF Rank, A
<1> HIDE DEF U
<1>7. QED
  BY <1>1, <1>2, <1>4, <1>5, <1>6 DEF A

\* An option changes nothing of the modes.
LEMMA ModesAfterOption ==
  ASSUME NEW s, NEW p, NEW C, NEW D, Adds(C, p, D), NEW ms,
         s[p] \in Flags \cup WithValue, MeansModes(s, C, ms)
  PROVE  MeansModes(s, D, ms)
<1>1. s[p] \in Heads /\ s[p] \notin Kinds \cup {"sanity"}
  BY DEF Heads, Flags, WithValue, Kinds
<1>2. ModesAt(s, D) = ModesAt(s, C)
  BY <1>1 DEF ModesAt, Adds
<1>3. \A a \in ModesAt(s, C) : ModeMeant(s, D, a) = ModeMeant(s, C, a)
  <2>1. \A a \in C : ModeMeant(s, D, a) = ModeMeant(s, C, a)
    BY <1>1, MeaningAfterHead
  <2>2. QED
    BY <2>1 DEF ModesAt
<1>4. QED
  BY <1>2, <1>3 DEF MeansModes

\* A keyword adds a mode behind the others.
LEMMA ModesAfterMode ==
  ASSUME NEW s, NEW p, NEW C, NEW D, Adds(C, p, D), NEW ms \in Seq(ModeSpecs),
         s[p] \in Kinds \cup {"sanity"}, MeansModes(s, C, ms)
  PROVE  MeansModes(s, D, Append(ms, ModeMeant(s, D, p)))
<1> DEFINE A == ModesAt(s, C)
           B == ModesAt(s, D)
<1>1. s[p] \in Heads
  BY DEF Heads
<1>2. \A a \in A : ModeMeant(s, D, a) = ModeMeant(s, C, a)
  <2>1. \A a \in C : ModeMeant(s, D, a) = ModeMeant(s, C, a)
    BY <1>1, MeaningAfterHead
  <2>2. QED
    BY <2>1 DEF ModesAt
<1>3. IsFiniteSet(A) /\ \A a \in A : Rank(s, C, a) \in 1 .. Cardinality(A)
  <2>1. p - 1 \in Int /\ C \in SUBSET (1 .. p - 1)
    BY DEF Adds
  <2>2. QED
    BY <2>1, Ranks
<1>4. B = A \cup {p} /\ p \notin A /\ p \in B /\ p \in Nat /\ \A a \in A : a < p /\ a \in Nat
  BY DEF ModesAt, Adds
<1>5. /\ Cardinality(A) = Len(ms)
      /\ \A a \in A : ms[Rank(s, C, a)] = ModeMeant(s, C, a)
  BY DEF MeansModes, Rank
<1> HIDE DEF A, B
<1>6. Cardinality(B) = Len(ms) + 1
  BY <1>3, <1>4, <1>5, FS_AddElement
<1>7. ASSUME NEW a \in A PROVE Rank(s, D, a) = Rank(s, C, a)
  <2>1. {b \in B : b <= a} = {b \in A : b <= a}
    BY <1>4
  <2>2. QED
    BY <2>1 DEF Rank, A, B
<1>8. Rank(s, D, p) = Len(ms) + 1
  <2>1. \A b \in B : b <= p
    BY <1>4
  <2>2. {b \in B : b <= p} = B
    BY <2>1
  <2>3. QED
    BY <1>6, <2>2 DEF Rank, B
<1> DEFINE m == ModeMeant(s, D, p)
<1> HIDE DEF m
<1>9. /\ Len(Append(ms, m)) = Len(ms) + 1
      /\ Append(ms, m)[Len(ms) + 1] = m
      /\ \A k \in 1 .. Len(ms) : Append(ms, m)[k] = ms[k]
  OBVIOUS
<1>10. \A a \in B : Append(ms, m)[Rank(s, D, a)] = ModeMeant(s, D, a)
  <2>1. Append(ms, m)[Rank(s, D, p)] = ModeMeant(s, D, p)
    BY <1>8, <1>9 DEF m
  <2>2. \A a \in A : Append(ms, m)[Rank(s, D, a)] = ModeMeant(s, D, a)
    BY <1>2, <1>3, <1>5, <1>7, <1>9
  <2>3. QED
    BY <1>4, <2>1, <2>2
<1>11. MeansModes(s, D, Append(ms, m))
  BY <1>6, <1>9, <1>10 DEF MeansModes, Rank, B
<1>12. QED
  BY <1>11 DEF m

\* A sub-argument changes the open mode, which is the last one.
LEMMA ModesAfterSubarg ==
  ASSUME NEW s, NEW p, NEW C, NEW D, Adds(C, p, D), NEW ms \in Seq(ModeSpecs),
         NEW md, NEW h, Open(s, C, h), s[p] \notin Heads, MeansModes(s, C, Append(ms, md))
  PROVE  /\ md = ModeMeant(s, C, h)
         /\ MeansModes(s, D, Append(ms, ModeMeant(s, D, h)))
<1> DEFINE A == ModesAt(s, C)
           n == ModeMeant(s, D, h)
<1>1. ModesAt(s, D) = A
  BY DEF ModesAt, Heads, Adds
<1>2. h \in A /\ \A a \in A : a <= h /\ s[a] \in Heads
  <2>1. h \in C /\ h \in Nat /\ s[h] \in Kinds /\ \A a \in C : a > h => s[a] \notin Heads
    BY DEF Open, Adds
  <2>2. \A a \in A : a \in C /\ a \in Nat /\ s[a] \in Heads
    BY DEF ModesAt, Heads, Adds
  <2>3. h \in A
    BY <2>1 DEF ModesAt
  <2> HIDE DEF A
  <2>4. QED
    BY <2>1, <2>2, <2>3
<1>3. \A a \in A \ {h} : ModeMeant(s, D, a) = ModeMeant(s, C, a)
  BY MeaningAfterSubarg
<1>4. /\ Cardinality(A) = Len(Append(ms, md))
      /\ \A a \in A : Append(ms, md)[Rank(s, C, a)] = ModeMeant(s, C, a)
  BY DEF MeansModes, Rank
<1> HIDE DEF n
<1>5. \A x : /\ Len(Append(ms, x)) = Len(ms) + 1
             /\ Append(ms, x)[Len(ms) + 1] = x
             /\ \A k \in 1 .. Len(ms) : Append(ms, x)[k] = ms[k]
  OBVIOUS
<1>6. Cardinality(A) = Len(ms) + 1
  BY <1>4, <1>5
<1>7. /\ \A a \in A : Rank(s, C, a) \in 1 .. Len(ms) + 1
      /\ Rank(s, C, h) = Len(ms) + 1
      /\ \A a \in A \ {h} : Rank(s, C, a) < Len(ms) + 1
  <2>1. /\ \A a \in A : Rank(s, C, a) \in 1 .. Cardinality(A)
        /\ Rank(s, C, h) = Cardinality(A)
        /\ \A a \in A \ {h} : Rank(s, C, a) < Cardinality(A)
    <3>1. p - 1 \in Int /\ C \in SUBSET (1 .. p - 1)
      BY DEF Adds
    <3>2. QED
      BY <1>2, <3>1, Ranks
  <2>2. QED
    BY <1>6, <2>1
<1> HIDE DEF A
<1>8. md = ModeMeant(s, C, h)
  BY <1>2, <1>4, <1>5, <1>7
<1>9. \A a \in A : Append(ms, n)[Rank(s, C, a)] = ModeMeant(s, D, a)
  <2>1. Append(ms, n)[Rank(s, C, h)] = ModeMeant(s, D, h)
    BY <1>5, <1>7 DEF n
  <2>2. ASSUME NEW a \in A \ {h} PROVE Append(ms, n)[Rank(s, C, a)] = ModeMeant(s, D, a)
    <3>1. Rank(s, C, a) \in 1 .. Len(ms)
      <4>1. Rank(s, C, a) \in 1 .. Len(ms) + 1 /\ Rank(s, C, a) < Len(ms) + 1 /\ Len(ms) \in Nat
        BY <1>7
      <4>2. QED
        BY <4>1
    <3>2. QED
      BY <1>3, <1>4, <1>5, <3>1
  <2>3. QED
    BY <2>1, <2>2
<1>10. MeansModes(s, D, Append(ms, n))
  BY <1>1, <1>5, <1>6, <1>9 DEF MeansModes, Rank, A
<1>11. QED
  BY <1>8, <1>10 DEF n

----------------------------------------------------------------------------
(* The options of a reading.                                               *)

\* A piece that is no option changes none.
LEMMA OptionsAfterOther ==
  ASSUME NEW s, NEW p, NEW C, NEW D, Adds(C, p, D), NEW os,
         s[p] \notin Flags \cup WithValue, MeansOptions(s, C, os)
  PROVE  MeansOptions(s, D, os)
<1>1. \A o \in Flags \cup WithValue : {a \in D : s[a] = o} = {a \in C : s[a] = o}
  BY DEF Adds
<1>2. QED
  BY <1>1 DEF MeansOptions

\* An option is set, to the value behind it if it takes one.
LEMMA OptionsAfterOption ==
  ASSUME NEW s, NEW p, NEW C, NEW D, Adds(C, p, D), NEW os,
         DOMAIN os = Flags \cup WithValue, MeansOptions(s, C, os)
  PROVE  /\ s[p] \in Flags => MeansOptions(s, D, [os EXCEPT ![s[p]] = TRUE])
         /\ s[p] \in WithValue =>
              MeansOptions(s, D, [os EXCEPT ![s[p]] = Stored(s[p], s[p + 1])])
<1> DEFINE At(o) == {a \in C : s[a] = o}
           New(o) == {a \in D : s[a] = o}
           Held(o, at) == IF o \in Flags THEN at # {}
                          ELSE IF at = {} THEN "unset" ELSE Stored(o, LastAt(s, at, 1, "unset"))
<1>1. \A o \in Flags \cup WithValue : os[o] = Held(o, At(o))
  BY DEF MeansOptions
<1>2. \A o \in (Flags \cup WithValue) \ {s[p]} : New(o) = At(o)
  BY DEF Adds
<1>3. p \in Nat /\ New(s[p]) = At(s[p]) \cup {p} /\ At(s[p]) \in SUBSET (1 .. p - 1)
  BY DEF Adds
<1>4. s[p] \in Flags => Held(s[p], New(s[p])) = TRUE
  BY <1>3
<1>5. s[p] \in WithValue => Held(s[p], New(s[p])) = Stored(s[p], s[p + 1])
  <2> DEFINE at == At(s[p])
  <2>1. p \in Nat /\ New(s[p]) = at \cup {p} /\ at \in SUBSET (1 .. p - 1)
    BY <1>3
  <2> HIDE DEF at, New
  <2>2. LastAt(s, at \cup {p}, 1, "unset") = s[p + 1]
    BY <2>1, LastAtLatest
  <2>3. s[p] \in WithValue => s[p] \notin Flags
    BY DEF Flags, WithValue
  <2>4. QED
    BY <2>1, <2>2, <2>3
<1>6. ASSUME NEW v, Held(s[p], New(s[p])) = v, s[p] \in Flags \cup WithValue
      PROVE  MeansOptions(s, D, [os EXCEPT ![s[p]] = v])
  <2> DEFINE ns == [os EXCEPT ![s[p]] = v]
  <2>1. ns[s[p]] = v /\ \A o \in (Flags \cup WithValue) \ {s[p]} : ns[o] = os[o]
    BY <1>6
  <2> HIDE DEF ns, Held, At, New
  <2>2. \A o \in Flags \cup WithValue : ns[o] = Held(o, New(o))
    BY <1>1, <1>2, <1>6, <2>1
  <2>3. MeansOptions(s, D, ns)
    BY <2>2 DEF MeansOptions, Held, New
  <2>4. QED
    BY <2>3 DEF ns
<1> HIDE DEF Held, New, At
<1>7. QED
  BY <1>4, <1>5, <1>6

----------------------------------------------------------------------------
(* What the parser has read, one lemma for each thing it reads.            *)

\* Nothing is read to begin with.
LEMMA ReadNothing ==
  ASSUME NEW s
  PROVE  Means(s, 1, {}, NoMode, NoOptions, <<>>)
<1>1. {} \in Readings(s, 1 - 1)
  <2>1. 1 - 1 = 0 /\ ~(0 > 0)
    OBVIOUS
  <2>2. QED
    BY <2>1 DEF Readings
<1>2. MeansModes(s, {}, AllModes(NoMode, <<>>))
  <2>1. ModesAt(s, {}) = {}
    BY DEF ModesAt
  <2>2. Cardinality({}) = 0
    BY FS_EmptySet
  <2>3. QED
    BY <2>1, <2>2 DEF MeansModes, AllModes
<1>3. MeansOptions(s, {}, NoOptions)
  <2>1. \A o : {a \in {} : s[a] = o} = {}
    OBVIOUS
  <2>2. \A o \in Flags \cup WithValue : NoOptions[o] = IF o \in Flags THEN FALSE ELSE "unset"
    BY DEF NoOptions
  <2>3. QED
    BY <2>1, <2>2 DEF MeansOptions
<1>4. QED
  BY <1>1, <1>2, <1>3 DEF Means, Open

\* The cuts before p, and those with p.
LEMMA CutsBefore ==
  ASSUME NEW s, NEW p \in Nat \ {0}, NEW C \in Readings(s, p - 1)
  PROVE  Adds(C, p, C \cup {p})
BY DEF Adds, Readings

\* No mode is open behind a head that begins none.
LEMMA NoneOpen ==
  ASSUME NEW s, NEW p, NEW C, NEW D, Adds(C, p, D), s[p] \in Heads \ Kinds
  PROVE  \A h \in D : ~Open(s, D, h)
<1>1. p \in D /\ \A h \in D : h = p \/ p > h
  BY DEF Adds
<1>2. QED
  BY <1>1 DEF Open

\* An option, with its value if it takes one.
LEMMA ReadOption ==
  ASSUME NEW s, NEW p \in Nat \ {0}, NEW C, NEW os, NEW ms, NEW n, IsOption(s, p, n),
         Means(s, p, C, NoMode, os, ms), DOMAIN os = Flags \cup WithValue
  PROVE  \E D \in Readings(s, (p + n) - 1) :
           Means(s, p + n, D, NoMode,
                 [os EXCEPT ![s[p]] = IF s[p] \in Flags THEN TRUE ELSE Stored(s[p], s[p + 1])],
                 ms)
<1> DEFINE D == C \cup {p}
           v == IF s[p] \in Flags THEN TRUE ELSE Stored(s[p], s[p + 1])
<1>1. /\ C \in Readings(s, p - 1)
      /\ MeansModes(s, C, ms) /\ MeansOptions(s, C, os)
  BY DEF Means, AllModes
<1>2. n \in Nat \ {0} /\ s[p] \in Flags \cup WithValue
  BY DEF IsOption
<1>3. Adds(C, p, D)
  BY <1>1, CutsBefore
<1>4. D \in Readings(s, (p + n) - 1)
  <2>1. IsPiece(s, D, p, n)
    BY DEF IsPiece
  <2>2. QED
    BY <1>1, <1>2, <2>1, ReadOn
<1> HIDE DEF D
<1>5. MeansModes(s, D, ms)
  BY <1>1, <1>2, <1>3, ModesAfterOption
<1>6. MeansOptions(s, D, [os EXCEPT ![s[p]] = v])
  <2>1. CASE s[p] \in Flags
    BY <1>1, <1>3, <2>1, OptionsAfterOption
  <2>2. CASE s[p] \notin Flags
    <3>1. s[p] \in WithValue /\ v = Stored(s[p], s[p + 1])
      BY <1>2, <2>2
    <3> HIDE DEF v
    <3>2. QED
      BY <1>1, <1>3, <3>1, OptionsAfterOption
  <2>3. QED
    BY <2>1, <2>2
<1>7. \A h \in D : ~Open(s, D, h)
  <2>1. s[p] \in Heads \ Kinds
    BY <1>2 DEF Heads, Kinds, Flags, WithValue
  <2>2. QED
    BY <1>3, <2>1, NoneOpen
<1>8. Means(s, p + n, D, NoMode, [os EXCEPT ![s[p]] = v], ms)
  BY <1>4, <1>5, <1>6, <1>7 DEF Means, AllModes
<1>9. QED
  BY <1>4, <1>8

\* The keyword sanity, which is a mode without sub-arguments.
LEMMA ReadSanity ==
  ASSUME NEW s, NEW p \in Nat \ {0}, NEW C, NEW os, NEW ms \in Seq(ModeSpecs), s[p] = "sanity",
         Means(s, p, C, NoMode, os, ms)
  PROVE  \E D \in Readings(s, (p + 1) - 1) :
           Means(s, p + 1, D, NoMode, os, Append(ms, [NewMode("ping") EXCEPT !.rate = "1Hz"]))
<1> DEFINE D == C \cup {p}
           m == [NewMode("ping") EXCEPT !.rate = "1Hz"]
<1>1. /\ C \in Readings(s, p - 1)
      /\ MeansModes(s, C, ms) /\ MeansOptions(s, C, os)
  BY DEF Means, AllModes
<1>2. /\ s[p] \in Heads \ Kinds /\ s[p] \in Kinds \cup {"sanity"}
      /\ s[p] \notin Flags \cup WithValue
  BY DEF Heads, Kinds, Flags, WithValue
<1>3. Adds(C, p, D)
  BY <1>1, CutsBefore
<1>4. D \in Readings(s, (p + 1) - 1)
  <2>1. IsPiece(s, D, p, 1)
    BY DEF IsPiece, IsMode
  <2>2. QED
    BY <1>1, <2>1, ReadOn
<1> HIDE DEF D
<1>5. MeansModes(s, D, Append(ms, m))
  <2>1. ModeMeant(s, D, p) = m
    BY <1>2, <1>3, MeaningOfHead
  <2> HIDE DEF m
  <2>2. MeansModes(s, D, Append(ms, ModeMeant(s, D, p)))
    BY <1>1, <1>2, <1>3, ModesAfterMode
  <2>3. QED
    BY <2>1, <2>2
<1>6. MeansOptions(s, D, os)
  BY <1>1, <1>2, <1>3, OptionsAfterOther
<1>7. \A h \in D : ~Open(s, D, h)
  BY <1>2, <1>3, NoneOpen
<1> HIDE DEF m
<1>8. Means(s, p + 1, D, NoMode, os, Append(ms, m))
  BY <1>4, <1>5, <1>6, <1>7 DEF Means, AllModes
<1>9. QED
  BY <1>4, <1>8 DEF m

\* The keyword of a mode whose sub-arguments come next.
LEMMA ReadMode ==
  ASSUME NEW s, NEW p \in Nat \ {0}, NEW C, NEW os, NEW ms \in Seq(ModeSpecs), s[p] \in Kinds,
         Means(s, p, C, NoMode, os, ms)
  PROVE  \E D \in Readings(s, (p + 1) - 1) : Means(s, p + 1, D, NewMode(s[p]), os, ms)
<1> DEFINE D == C \cup {p}
           m == NewMode(s[p])
<1>1. /\ C \in Readings(s, p - 1)
      /\ MeansModes(s, C, ms) /\ MeansOptions(s, C, os)
  BY DEF Means, AllModes
<1>2. /\ s[p] \in Heads /\ s[p] \in Kinds \cup {"sanity"}
      /\ s[p] \notin Flags \cup WithValue
  BY DEF Heads, Kinds, Flags, WithValue
<1>3. Adds(C, p, D)
  BY <1>1, CutsBefore
<1>4. D \in Readings(s, (p + 1) - 1)
  <2>1. IsPiece(s, D, p, 1)
    BY DEF IsPiece, IsMode
  <2>2. QED
    BY <1>1, <2>1, ReadOn
<1> HIDE DEF D
<1>5. MeansModes(s, D, Append(ms, m))
  <2>1. ModeMeant(s, D, p) = m
    BY <1>2, <1>3, MeaningOfHead
  <2> HIDE DEF m
  <2>2. MeansModes(s, D, Append(ms, ModeMeant(s, D, p)))
    BY <1>1, <1>2, <1>3, ModesAfterMode
  <2>3. QED
    BY <2>1, <2>2
<1>6. MeansOptions(s, D, os)
  BY <1>1, <1>2, <1>3, OptionsAfterOther
<1>7. p \in D /\ Open(s, D, p)
  <2>1. p \in D /\ \A c \in D : ~(c > p)
    BY <1>3 DEF Adds
  <2>2. QED
    BY <2>1 DEF Open
<1>8. m # NoMode /\ m.kind = s[p]
  <2>1. m.kind = s[p] /\ NoMode.kind = "none" /\ "none" \notin Kinds
    BY DEF NewMode, NoMode, Kinds
  <2>2. QED
    BY <2>1
<1> HIDE DEF m
<1>9. Means(s, p + 1, D, m, os, ms)
  BY <1>4, <1>5, <1>6, <1>7, <1>8 DEF Means, AllModes
<1>10. QED
  BY <1>4, <1>9 DEF m

\* A sub-argument of the mode md.
LEMMA ReadSubarg ==
  ASSUME NEW s, NEW p \in Nat \ {0}, NEW C, NEW os, NEW ms \in Seq(ModeSpecs),
         NEW md \in ModeSpecs, NEW n, IsSubarg(md.kind, s, p, n), ~IsSubargsBoundary(s[p]),
         Means(s, p, C, md, os, ms)
  PROVE  \E D \in Readings(s, (p + n) - 1) : \E x :
           Means(s, p + n, D, x, os, ms) /\ Changes(s, p, md, x)
<1> DEFINE D == C \cup {p}
<1>1. md # NoMode /\ md.kind \in Kinds
  <2>1. md.kind \in Kinds /\ NoMode.kind = "none" /\ "none" \notin Kinds
    BY DEF NewMode, NoMode, Kinds, ModeSpecs
  <2>2. QED
    BY <2>1
<1>2. /\ C \in Readings(s, p - 1)
      /\ MeansModes(s, C, Append(ms, md)) /\ MeansOptions(s, C, os)
  BY <1>1 DEF Means, AllModes
<1>3. PICK h \in C : Open(s, C, h) /\ s[h] = md.kind
  BY <1>1 DEF Means
<1> DEFINE x == ModeMeant(s, D, h)
<1>4. n \in Nat \ {0}
  BY DEF IsSubarg
<1>5. s[p] \notin Heads /\ s[p] \notin Flags \cup WithValue
  BY DEF IsSubargsBoundary, Heads, ModeKeywords, Dashed
<1>6. Adds(C, p, D)
  BY <1>2, CutsBefore
<1> HIDE DEF D
<1>7. Open(s, D, h)
  BY <1>3, <1>5, <1>6, MeaningAfterSubarg
<1>8. D \in Readings(s, (p + n) - 1)
  <2>1. p \in Subargs(s, D, h)
    <3>1. p \in D /\ p > h
      BY <1>3, <1>6 DEF Adds
    <3>2. \A c \in D : h < c => s[c] \notin Heads
      BY <1>7 DEF Open
    <3>3. QED
      BY <3>1, <3>2 DEF Subargs
  <2>2. h \in D /\ s[h] \in Kinds
    BY <1>7 DEF Open
  <2>3. IsPiece(s, D, p, n)
    BY <1>3, <2>1, <2>2 DEF IsPiece
  <2>4. IsPiece(s, C \cup {p}, p, n)
    BY <2>3 DEF D
  <2>5. QED
    BY <1>2, <1>4, <2>4, ReadOn DEF D
<1>9. md = ModeMeant(s, C, h) /\ MeansModes(s, D, Append(ms, x))
  BY <1>2, <1>3, <1>5, <1>6, ModesAfterSubarg
<1>10. Changes(s, p, md, x)
  BY <1>3, <1>5, <1>6, <1>9, SubargMeaning
<1>11. MeansOptions(s, D, os)
  BY <1>2, <1>5, <1>6, OptionsAfterOther
<1>12. x # NoMode /\ x.kind = s[h]
  <2>1. s[h] \in Kinds
    BY <1>7 DEF Open
  <2>2. x.kind = s[h] /\ NoMode.kind = "none" /\ "none" \notin Kinds
    BY <2>1 DEF NewMode, NoMode, Kinds, ModeMeant
  <2>3. QED
    BY <2>1, <2>2
<1> HIDE DEF x
<1>13. h \in D
  BY <1>7 DEF Open
<1>14. Means(s, p + n, D, x, os, ms)
  BY <1>7, <1>8, <1>9, <1>11, <1>12, <1>13 DEF Means, AllModes
<1>15. QED
  BY <1>8, <1>10, <1>14

\* The end of a mode.
LEMMA ReadEnd ==
  ASSUME NEW s, NEW p, NEW C, NEW os, NEW ms, NEW md,
         md # NoMode, p > Len(s) \/ IsSubargsBoundary(s[p]), Means(s, p, C, md, os, ms)
  PROVE  Means(s, p, C, NoMode, os, Append(ms, md))
BY DEF Means, AllModes

----------------------------------------------------------------------------
(* What the parser refuses, and what it finds.                             *)

\* The piece that begins at p in a longer reading is one the grammar has here.
LEMMA NextPiece ==
  ASSUME NEW s, NEW p \in Nat \ {0}, NEW C \in Readings(s, p - 1),
         NEW q \in Nat, p <= q, NEW D \in Readings(s, q)
  PROVE  \E n \in Nat :
           /\ p + n <= q + 1
           /\ \/ IsOption(s, p, n)
              \/ IsMode(s, p, n)
              \/ s[p] \notin Heads /\ \E h \in C : Open(s, C, h) /\ IsSubarg(s[h], s, p, n)
<1>1. C = D \cap (1 .. p - 1) /\ p \in D
  <2>1. p - 1 \in Nat /\ p - 1 <= q /\ p - 1 < q /\ (p - 1) + 1 = p
    OBVIOUS
  <2>2. QED
    BY <2>1, ReadingsAgree
<1>2. PICK b \in D \cup {q + 1} : p < b /\ IsPiece(s, D, p, b - p)
  BY <1>1, NextCut
<1>3. D \in SUBSET (1 .. q)
  BY DEF Readings
<1>4. b - p \in Nat /\ p + (b - p) <= q + 1
  <2>1. b \in Nat /\ b <= q + 1
    BY <1>3
  <2>2. QED
    BY <1>2, <2>1
<1>5. CASE IsOption(s, p, b - p) \/ IsMode(s, p, b - p)
  BY <1>4, <1>5
<1>6. ASSUME NEW k \in D, s[k] \in Kinds, p \in Subargs(s, D, k), IsSubarg(s[k], s, p, b - p)
      PROVE  s[p] \notin Heads /\ \E h \in C : Open(s, C, h) /\ IsSubarg(s[h], s, p, b - p)
  <2>1. k < p /\ \A c \in D : k < c /\ c <= p => s[c] \notin Heads
    BY <1>6 DEF Subargs
  <2>2. k \in C
    BY <1>1, <1>3, <2>1
  <2>3. Open(s, C, k)
    <3>1. \A c \in C : c \in D /\ c \in Nat /\ c <= p
      BY <1>1, <1>3
    <3>2. QED
      BY <1>6, <2>1, <2>2, <3>1 DEF Open
  <2>4. s[p] \notin Heads
    BY <1>1, <2>1
  <2>5. QED
    BY <1>6, <2>2, <2>3, <2>4
<1>7. QED
  BY <1>2, <1>4, <1>5, <1>6 DEF IsPiece

\* One mode at most is open.
LEMMA OneOpen ==
  ASSUME NEW s, NEW m \in Nat, NEW C \in Readings(s, m),
         NEW h, Open(s, C, h), NEW k, Open(s, C, k)
  PROVE  h = k
<1>1. \A c \in C : c \in Nat
  BY DEF Readings
<1>2. /\ h \in C /\ s[h] \in Heads /\ \A c \in C : c > h => s[c] \notin Heads
      /\ k \in C /\ s[k] \in Heads /\ \A c \in C : c > k => s[c] \notin Heads
  BY DEF Open, Heads
<1>3. QED
  BY <1>1, <1>2

\* The command line has no reading, and asks for nothing, when no piece begins
\* where the parser is.
LEMMA Refused ==
  ASSUME NEW s \in Seq(STRING), NEW p \in 1 .. Len(s), NEW C \in Readings(s, p - 1),
         s[p] \notin Asking \cup {"help"},
         \A n \in Nat : p + n <= Len(s) + 1 =>
           /\ ~IsOption(s, p, n)
           /\ ~IsMode(s, p, n)
           /\ s[p] \notin Heads => \A h \in C : Open(s, C, h) => ~IsSubarg(s[h], s, p, n),
         NEW os, NEW ms
  PROVE  Found(s, os, ms, "error")
<1>1. \A q \in p .. Len(s) : Readings(s, q) = {}
  <2> SUFFICES ASSUME NEW q \in p .. Len(s), NEW D \in Readings(s, q) PROVE FALSE
    OBVIOUS
  <2>1. p \in Nat \ {0} /\ q \in Nat /\ p <= q /\ q <= Len(s)
    OBVIOUS
  <2>2. PICK n \in Nat :
          /\ p + n <= q + 1
          /\ \/ IsOption(s, p, n)
             \/ IsMode(s, p, n)
             \/ s[p] \notin Heads /\ \E h \in C : Open(s, C, h) /\ IsSubarg(s[h], s, p, n)
    BY <2>1, NextPiece
  <2>3. p + n <= Len(s) + 1
    BY <2>1, <2>2
  <2>4. QED
    BY <2>2, <2>3
<1>2. Asks(s) = {}
  <2> SUFFICES ASSUME NEW k \in Asks(s) PROVE FALSE
    OBVIOUS
  <2>1. k \in 1 .. Len(s) /\ s[k] \in Asking \cup {"help"} /\ Readings(s, k - 1) # {}
    BY DEF Asks
  <2>2. p - 1 < k
    <3>1. p - 1 \in Nat
      OBVIOUS
    <3>2. QED
      BY <3>1, AskedAfter
  <2>3. k # p
    BY <2>1
  <2>4. k - 1 \in p .. Len(s)
    BY <2>1, <2>2, <2>3
  <2>5. QED
    BY <1>1, <2>1, <2>4
<1>3. Readings(s, Len(s)) = {}
  <2>1. Len(s) \in p .. Len(s)
    OBVIOUS
  <2>2. QED
    BY <1>1, <2>1
<1>4. QED
  BY <1>2, <1>3 DEF Found

\* Help or the version is asked for where the parser is, and nowhere before.
LEMMA Asked ==
  ASSUME NEW s \in Seq(STRING), NEW p \in 1 .. Len(s), NEW C \in Readings(s, p - 1),
         s[p] \in Asking \cup {"help"}, NEW os, NEW ms
  PROVE  Found(s, os, ms, IF s[p] = "--version" THEN "version" ELSE "help")
<1>1. p \in Asks(s) /\ Asks(s) \in SUBSET Int
  BY DEF Asks
<1>2. \A k \in Asks(s) : p <= k
  <2>1. p - 1 \in Nat
    OBVIOUS
  <2>2. \A k \in Asks(s) : p - 1 < k
    BY <2>1, AskedAfter
  <2>3. QED
    BY <1>1, <2>2
<1>3. Min(Asks(s)) = p
  BY <1>1, <1>2, Extreme
<1>4. QED
  BY <1>1, <1>3 DEF Found

\* The whole command line is read: it is accepted if it has a mode.
LEMMA Ended ==
  ASSUME NEW s \in Seq(STRING), NEW C, NEW os, NEW ms \in Seq(ModeSpecs),
         Means(s, Len(s) + 1, C, NoMode, os, ms)
  PROVE  Found(s, os, ms, IF ms = <<>> THEN "error" ELSE "ok")
<1>1. C \in Readings(s, Len(s)) /\ MeansModes(s, C, ms) /\ MeansOptions(s, C, os)
  <2>1. (Len(s) + 1) - 1 = Len(s)
    OBVIOUS
  <2>2. QED
    BY <2>1 DEF Means, AllModes
<1>2. Asks(s) = {}
  <2> SUFFICES ASSUME NEW k \in Asks(s) PROVE FALSE
    OBVIOUS
  <2>1. k \in 1 .. Len(s)
    BY DEF Asks
  <2>2. Len(s) < k
    BY <1>1, AskedAfter
  <2>3. QED
    BY <2>1, <2>2
<1>3. Readings(s, Len(s)) = {C}
  <2>1. ASSUME NEW D \in Readings(s, Len(s)) PROVE D = C
    <3>1. Len(s) \in Nat /\ Len(s) <= Len(s)
      OBVIOUS
    <3>2. C = D \cap (1 .. Len(s))
      BY <1>1, <3>1, ReadingsAgree
    <3>3. D \subseteq 1 .. Len(s)
      BY DEF Readings
    <3>4. QED
      BY <3>2, <3>3
  <2>2. QED
    BY <1>1, <2>1
<1>4. ms = <<>> <=> ModesAt(s, C) = {}
  <2>1. C \in SUBSET (1 .. Len(s)) /\ Len(s) \in Int
    BY <1>1 DEF Readings
  <2>2. IsFiniteSet(ModesAt(s, C))
    BY <2>1, Ranks
  <2>3. Cardinality(ModesAt(s, C)) = 0 <=> ModesAt(s, C) = {}
    BY <2>2, FS_EmptySet
  <2>4. Len(ms) = 0 <=> ms = <<>>
    OBVIOUS
  <2>5. QED
    BY <1>1, <2>3, <2>4 DEF MeansModes
<1>5. QED
  BY <1>1, <1>2, <1>3, <1>4 DEF Found

----------------------------------------------------------------------------
(* The steps of the parser.                                                *)

\* The parser still reads, or has done, after every step.
LEMMA ReadInductive ==
  /\ Init => ReadInv
  /\ ReadInv /\ [Next]_vars => ReadInv'
<1>1. ASSUME Init PROVE ReadInv
  <2>1. Means(toks, 1, {}, NoMode, NoOptions, <<>>)
    BY ReadNothing
  <2>2. {} \in Readings(toks, 1 - 1)
    BY <2>1 DEF Means
  <2>3. ReadSo
    BY <1>1, <2>1, <2>2 DEF Init, ReadSo
  <2>4. QED
    BY <1>1, <2>3, TypeInductive DEF ReadInv
<1>2. ASSUME ReadInv, Next PROVE ReadSo'
  <2>1. status = "busy"
    BY <1>2 DEF Next, Ask, Flag, Option, Unexpected, Sanity, StartMode, SizeSubarg, BurstSubarg,
       TriggerSubarg, RateSubarg, UnknownSubarg, EndMode, Finish, AtTop, AtSubargs
  <2>2. PICK C \in Readings(toks, i - 1) : Means(toks, i, C, mode, opts, modes)
    BY <1>2, <2>1 DEF ReadInv, ReadSo
  <2>3. /\ toks \in Seq(STRING) /\ modes \in Seq(ModeSpecs)
        /\ i \in Nat \ {0} /\ i <= Len(toks) + 1 /\ Len(toks) \in Nat
        /\ DOMAIN opts = Flags \cup WithValue
        /\ mode \in ModeSpecs \cup {NoMode}
    BY <1>2 DEF ReadInv, TypeInv
  \* A step that reads on, and one that is the last.
  <2>4. ASSUME UNCHANGED toks, status' = "busy",
               \E D \in Readings(toks, i' - 1) : Means(toks, i', D, mode', opts', modes')
        PROVE  ReadSo'
    BY <2>4 DEF ReadSo
  <2>5. ASSUME UNCHANGED toks, status' # "busy", Found(toks, opts', modes', status')
        PROVE  ReadSo'
    BY <2>5 DEF ReadSo
  <2>6. ASSUME Fail, i <= Len(toks), toks[i] \notin Asking \cup {"help"},
               \A n \in Nat : i + n <= Len(toks) + 1 =>
                 /\ ~IsOption(toks, i, n)
                 /\ ~IsMode(toks, i, n)
                 /\ toks[i] \notin Heads =>
                      \A h \in C : Open(toks, C, h) => ~IsSubarg(toks[h], toks, i, n)
        PROVE  ReadSo'
    <3>1. i \in 1 .. Len(toks)
      BY <2>3, <2>6
    <3>2. Found(toks, opts, modes, "error")
      BY <2>2, <2>3, <2>6, <3>1, Refused
    <3>3. QED
      BY <2>5, <2>6, <3>2 DEF Fail
  <2>7. CASE Ask
    <3>1. i \in 1 .. Len(toks) /\ toks[i] \in Asking \cup {"help"}
      BY <2>3, <2>7 DEF Ask, AtTop
    <3>2. Found(toks, opts, modes, IF toks[i] = "--version" THEN "version" ELSE "help")
      BY <2>2, <2>3, <3>1, Asked
    <3>3. QED
      BY <2>5, <2>7, <3>2 DEF Ask
  <2>8. CASE Flag
    <3>1. toks[i] \in Flags /\ IsOption(toks, i, 1) /\ mode = NoMode
      BY <2>8 DEF Flag, AtTop, IsOption
    <3>2. \E D \in Readings(toks, (i + 1) - 1) :
            Means(toks, i + 1, D, NoMode,
                  [opts EXCEPT ![toks[i]] =
                     IF toks[i] \in Flags THEN TRUE ELSE Stored(toks[i], toks[i + 1])],
                  modes)
      BY <2>2, <2>3, <3>1, ReadOption
    <3>3. QED
      BY <2>4, <2>8, <3>1, <3>2 DEF Flag, AtTop
  <2>9. CASE Option
    <3>1. toks[i] \in WithValue /\ toks[i] \notin Flags /\ mode = NoMode /\ i <= Len(toks)
      BY <2>9 DEF Option, AtTop, Flags, WithValue
    <3>2. CASE HasValue /\ Takes(toks[i], toks[i + 1])
      <4>1. IsOption(toks, i, 2)
        BY <3>1, <3>2 DEF IsOption
      <4>2. \E D \in Readings(toks, (i + 2) - 1) :
              Means(toks, i + 2, D, NoMode,
                    [opts EXCEPT ![toks[i]] =
                       IF toks[i] \in Flags THEN TRUE ELSE Stored(toks[i], toks[i + 1])],
                    modes)
        BY <2>2, <2>3, <3>1, <4>1, ReadOption
      <4>3. QED
        BY <2>4, <2>9, <3>1, <3>2, <4>2 DEF Option, AtTop
    <3>3. CASE ~(HasValue /\ Takes(toks[i], toks[i + 1]))
      <4>1. toks[i] \in Heads /\ toks[i] \notin Asking \cup Kinds \cup {"help", "sanity"}
        BY <3>1 DEF Heads, WithValue, Asking, Kinds
      <4>2. ASSUME NEW n \in Nat, i + n <= Len(toks) + 1
            PROVE  ~IsOption(toks, i, n) /\ ~IsMode(toks, i, n)
        <5>1. n = 2 => HasValue
          BY <2>3, <4>2 DEF HasValue
        <5>2. QED
          BY <3>1, <3>3, <4>1, <5>1 DEF IsOption, IsMode
      <4>3. Fail
        BY <2>9, <3>3 DEF Option
      <4>4. QED
        BY <2>6, <3>1, <4>1, <4>2, <4>3
    <3>4. QED
      BY <3>2, <3>3
  <2>10. CASE Unexpected
    <3>1. /\ mode = NoMode /\ i <= Len(toks)
          /\ toks[i] \notin Asking \cup Flags \cup WithValue \cup ModeKeywords
      BY <2>10 DEF Unexpected, AtTop
    <3>2. \A h \in C : IsSubargsBoundary(toks[i]) \/ ~Open(toks, C, h)
      <4>1. ~(i > Len(toks))
        BY <2>3, <3>1
      <4>2. QED
        BY <2>2, <3>1, <4>1 DEF Means
    <3>3. ASSUME NEW kind, NEW n, IsSubarg(kind, toks, i, n) PROVE ~IsSubargsBoundary(toks[i])
      <4>1. toks[i] \in Triggers \cup Frequencies \cup {"size", "burst"}
        BY <3>3 DEF IsSubarg
      <4>2. QED
        BY <4>1, ConstantsAssumption
           DEF IsSubargsBoundary, ModeKeywords, Kinds, Dashed, Flags, WithValue, Asking, Triggers
    <3>4. \A n \in Nat : ~IsOption(toks, i, n) /\ ~IsMode(toks, i, n)
      BY <3>1 DEF IsOption, IsMode, ModeKeywords
    <3>5. toks[i] \notin Asking \cup {"help"} /\ Fail
      BY <2>10, <3>1 DEF Unexpected, ModeKeywords
    <3>6. QED
      BY <2>6, <3>1, <3>2, <3>3, <3>4, <3>5
  <2>11. CASE Sanity
    <3>1. toks[i] = "sanity" /\ mode = NoMode
      BY <2>11 DEF Sanity, AtTop
    <3>2. \E D \in Readings(toks, (i + 1) - 1) :
            Means(toks, i + 1, D, NoMode, opts,
                  Append(modes, [NewMode("ping") EXCEPT !.rate = "1Hz"]))
      BY <2>2, <2>3, <3>1, ReadSanity
    <3>3. QED
      BY <2>4, <2>11, <3>1, <3>2 DEF Sanity, AtTop
  <2>12. CASE StartMode
    <3>1. toks[i] \in Kinds /\ mode = NoMode
      BY <2>12 DEF StartMode, AtTop
    <3>2. \E D \in Readings(toks, (i + 1) - 1) :
            Means(toks, i + 1, D, NewMode(toks[i]), opts, modes)
      BY <2>2, <2>3, <3>1, ReadMode
    <3>3. QED
      BY <2>4, <2>12, <3>1, <3>2 DEF StartMode, AtTop
  \* What the sub-arguments have in common.
  <2>13. ASSUME AtSubargs
         PROVE  /\ mode \in ModeSpecs /\ i <= Len(toks) /\ ~IsSubargsBoundary(toks[i])
                /\ toks[i] \notin Heads \cup Asking \cup {"help"}
                /\ \A h \in C : Open(toks, C, h) => toks[h] = mode.kind
    <3>1. mode \in ModeSpecs /\ i <= Len(toks) /\ ~IsSubargsBoundary(toks[i]) /\ mode # NoMode
      BY <2>3, <2>13 DEF AtSubargs
    <3>2. toks[i] \notin Heads \cup Asking \cup {"help"}
      BY <3>1 DEF IsSubargsBoundary, ModeKeywords, Dashed, Heads
    <3>3. PICK h \in C : Open(toks, C, h) /\ toks[h] = mode.kind
      BY <2>2, <3>1 DEF Means
    <3>4. i - 1 \in Nat
      BY <2>3
    <3>5. \A k : Open(toks, C, k) => k = h
      BY <3>3, <3>4, OneOpen
    <3>6. QED
      BY <3>1, <3>2, <3>3, <3>5
  <2>14. ASSUME AtSubargs, NEW n, IsSubarg(mode.kind, toks, i, n)
         PROVE  \E D \in Readings(toks, (i + n) - 1) : \E x :
                  Means(toks, i + n, D, x, opts, modes) /\ Changes(toks, i, mode, x)
    BY <2>2, <2>3, <2>13, <2>14, ReadSubarg
  <2>15. ASSUME AtSubargs, Fail,
                \A n \in Nat : i + n <= Len(toks) + 1 => ~IsSubarg(mode.kind, toks, i, n)
         PROVE  ReadSo'
    <3>1. \A n : ~IsOption(toks, i, n) /\ ~IsMode(toks, i, n)
      BY <2>13, <2>15 DEF IsOption, IsMode, Heads
    <3>2. QED
      BY <2>6, <2>13, <2>15, <3>1
  <2>16. /\ "size" \notin Triggers \cup Frequencies /\ "burst" \notin Triggers \cup Frequencies
         /\ \A t \in Triggers : t \notin Frequencies
    BY ConstantsAssumption DEF Triggers
  <2>17. CASE SizeSubarg
    <3>1. AtSubargs /\ toks[i] = "size" /\ Sized(mode.kind) /\ status = "busy"
      BY <2>17, <2>1 DEF SizeSubarg
    <3>2. CASE HasValue /\ toks[i + 1] \in Sizes
      <4>1. IsSubarg(mode.kind, toks, i, 2)
        BY <3>1, <3>2 DEF IsSubarg
      <4>2. \E D \in Readings(toks, (i + 2) - 1) :
              Means(toks, i + 2, D, [mode EXCEPT !.size = toks[i + 1]], opts, modes)
        BY <2>14, <3>1, <4>1 DEF Changes
      <4>3. QED
        BY <2>4, <2>17, <3>1, <3>2, <4>2 DEF SizeSubarg, Subarg
    <3>3. CASE ~(HasValue /\ toks[i + 1] \in Sizes)
      <4>1. ASSUME NEW n \in Nat, i + n <= Len(toks) + 1 PROVE ~IsSubarg(mode.kind, toks, i, n)
        <5>1. n = 2 => HasValue
          BY <2>3, <4>1 DEF HasValue
        <5>2. QED
          BY <2>16, <3>1, <3>3, <5>1 DEF IsSubarg
      <4>2. Fail
        BY <2>17, <3>3 DEF SizeSubarg
      <4>3. QED
        BY <2>15, <3>1, <4>1, <4>2
    <3>4. QED
      BY <3>2, <3>3
  <2>18. CASE BurstSubarg
    <3>1. AtSubargs /\ toks[i] = "burst" /\ Bursty(mode.kind) /\ status = "busy"
      BY <2>18, <2>1 DEF BurstSubarg
    <3>2. CASE HasValue /\ IsCount(toks[i + 1])
      <4>1. IsSubarg(mode.kind, toks, i, 2)
        BY <3>1, <3>2 DEF IsSubarg
      <4>2. \E D \in Readings(toks, (i + 2) - 1) :
              Means(toks, i + 2, D, [mode EXCEPT !.burst = Narrow(toks[i + 1])], opts, modes)
        BY <2>14, <3>1, <4>1 DEF Changes
      <4>3. QED
        BY <2>4, <2>18, <3>1, <3>2, <4>2 DEF BurstSubarg, Subarg
    <3>3. CASE ~(HasValue /\ IsCount(toks[i + 1]))
      <4>1. ASSUME NEW n \in Nat, i + n <= Len(toks) + 1 PROVE ~IsSubarg(mode.kind, toks, i, n)
        <5>1. n = 2 => HasValue
          BY <2>3, <4>1 DEF HasValue
        <5>2. QED
          BY <2>16, <3>1, <3>3, <5>1 DEF IsSubarg
      <4>2. Fail
        BY <2>18, <3>3 DEF BurstSubarg
      <4>3. QED
        BY <2>15, <3>1, <4>1, <4>2
    <3>4. QED
      BY <3>2, <3>3
  <2>19. CASE TriggerSubarg
    <3>1. AtSubargs /\ toks[i] \in Triggers /\ IsSubarg(mode.kind, toks, i, 1)
      BY <2>19 DEF TriggerSubarg, IsSubarg
    <3>2. \E D \in Readings(toks, (i + 1) - 1) :
            Means(toks, i + 1, D, [mode EXCEPT !.trigger = toks[i]], opts, modes)
      BY <2>14, <3>1 DEF Changes
    <3>3. QED
      BY <2>1, <2>4, <2>19, <3>2 DEF TriggerSubarg, Subarg
  <2>20. CASE RateSubarg
    <3>1. AtSubargs /\ toks[i] \in Frequencies /\ IsSubarg(mode.kind, toks, i, 1)
      BY <2>20 DEF RateSubarg, IsSubarg
    <3>2. \E D \in Readings(toks, (i + 1) - 1) :
            Means(toks, i + 1, D, [mode EXCEPT !.rate = toks[i]], opts, modes)
      BY <2>14, <3>1 DEF Changes
    <3>3. QED
      BY <2>1, <2>4, <2>20, <3>2 DEF RateSubarg, Subarg
  <2>21. CASE UnknownSubarg
    <3>1. \A n : ~IsSubarg(mode.kind, toks, i, n)
      BY <2>21 DEF UnknownSubarg, IsSubarg
    <3>2. QED
      BY <2>15, <2>21, <3>1 DEF UnknownSubarg
  <2>22. CASE EndMode
    <3>1. mode # NoMode /\ (i > Len(toks) \/ IsSubargsBoundary(toks[i]))
      BY <2>3, <2>22 DEF EndMode
    <3>2. Means(toks, i, C, NoMode, opts, Append(modes, mode))
      BY <2>2, <3>1, ReadEnd
    <3>3. QED
      BY <2>2, <2>4, <2>22, <3>2 DEF EndMode
  <2>23. CASE Finish
    <3>1. i = Len(toks) + 1 /\ mode = NoMode
      BY <2>3, <2>23 DEF Finish
    <3>2. Found(toks, opts, modes, IF modes = <<>> THEN "error" ELSE "ok")
      BY <2>2, <2>3, <3>1, Ended
    <3>3. QED
      BY <2>5, <2>23, <3>2 DEF Finish
  <2>24. QED
    BY <1>2, <2>7, <2>8, <2>9, <2>10, <2>11, <2>12, <2>17, <2>18, <2>19, <2>20, <2>21, <2>22,
       <2>23 DEF Next
<1>3. ASSUME ReadInv, UNCHANGED vars PROVE ReadSo'
  BY <1>3 DEF ReadInv, ReadSo, vars
<1>4. QED
  BY <1>1, <1>2, <1>3, TypeInductive DEF ReadInv

\* Reading once and from left to right, the parser accepts the command lines that
\* have a mode and a reading, and no others, and what it holds then is what the
\* reading means (parse_args).
THEOREM GrammarIsRead == Spec => []ReadsGrammar
<1>1. ReadInv => ReadsGrammar
  BY DEF ReadInv, ReadSo, Found, ReadsGrammar
<1>2. QED
  BY <1>1, ReadInductive, PTL DEF Spec
=============================================================================
