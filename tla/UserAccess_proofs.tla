-------------------------- MODULE UserAccess_proofs --------------------------
(***************************************************************************)
(* Theorems about UserAccess, for every set of names, every configured     *)
(* list and every number of changes.                                       *)
(***************************************************************************)
EXTENDS UserAccess, SequenceTheorems, WellFoundedInduction, TLAPS

-----------------------------------------------------------------------------
(***************************************************************************)
(* Texts                                                                   *)
(***************************************************************************)

(* A set of places has a first and a last one. *)
LEMMA LeastExists ==
  ASSUME NEW T, T \subseteq Nat, T # {}
  PROVE  \E x \in T : \A y \in T : x <= y
<1>1. PICK x \in T : \A y \in T : <<y, x>> \notin OpToRel(<, Nat)
  BY NatLessThanWellFounded, WFMin
<1>2. \A y \in T : ~(y < x)
  BY <1>1 DEF OpToRel
<1>. QED
  BY <1>2

LEMMA MinMax ==
  ASSUME NEW n \in Nat, NEW T, T \subseteq 1 .. n, T # {}
  PROVE  Min(T) \in T /\ Max(T) \in T
<1>1. \E x \in T : \A y \in T : x <= y
  <2>1. T \subseteq Nat
    OBVIOUS
  <2>. QED
    BY <2>1, LeastExists
<1>2. \E x \in T : \A y \in T : x >= y
  <2> DEFINE U == {n - x : x \in T}
  <2>1. U \subseteq Nat /\ U # {}
    <3>1. \A x \in T : n - x \in Nat
      OBVIOUS
    <3>. QED
      BY <3>1
  <2>2. PICK u \in U : \A v \in U : u <= v
    BY <2>1, LeastExists
  <2>3. PICK x \in T : u = n - x
    OBVIOUS
  <2>4. \A y \in T : n - x <= n - y
    BY <2>2, <2>3
  <2>5. \A y \in T : x >= y
    BY <2>4
  <2>. QED
    BY <2>5
<1>. QED
  BY <1>1, <1>2 DEF Min, Max

(* trim() yields a text. *)
LEMMA TrimType ==
  ASSUME NEW text \in Text
  PROVE  trim(text) \in Text
<1> DEFINE Visible == {i \in DOMAIN text : text[i] \notin Blank}
<1>1. Len(text) \in Nat /\ DOMAIN text = 1 .. Len(text)
      /\ \A i \in 1 .. Len(text) : text[i] \in Char
  BY LenProperties, ElementOfSeq DEF Text
<1>2. trim(text) = IF Visible = {} THEN <<>> ELSE SubSeq(text, Min(Visible), Max(Visible))
  BY DEF trim
<1>3. CASE Visible = {}
  BY <1>2, <1>3, EmptySeq DEF Text
<1>4. CASE Visible # {}
  <2>1. Visible \subseteq 1 .. Len(text)
    BY <1>1
  <2> HIDE DEF Visible
  <2>2. Min(Visible) \in 1 .. Len(text) /\ Max(Visible) \in 1 .. Len(text)
    BY <1>1, <1>4, <2>1, MinMax
  <2>3. \A i \in Min(Visible) .. Max(Visible) : i \in 1 .. Len(text)
    BY <1>1, <2>2
  <2>4. \A i \in Min(Visible) .. Max(Visible) : text[i] \in Char
    BY <1>1, <2>3
  <2>5. SubSeq(text, Min(Visible), Max(Visible)) \in Seq(Char)
    BY <2>2, <2>4, SubSeqProperties
  <2>. QED
    BY <1>2, <1>4, <2>5 DEF Text
<1>. QED
  BY <1>3, <1>4

(* IsPrefix and IsSuffix, place by place. *)
LEMMA PrefixPlaces ==
  ASSUME NEW S, NEW s \in Seq(S), NEW t \in Seq(S)
  PROVE  IsPrefix(s, t) <=> Len(s) <= Len(t) /\ \A i \in 1 .. Len(s) : s[i] = t[i]
<1>1. Len(s) \in Nat /\ Len(t) \in Nat /\ s \in [1 .. Len(s) -> S] /\ DOMAIN t = 1 .. Len(t)
  BY LenProperties
<1>2. \A i \in 1 .. Len(s) : s[i] \in S
  BY <1>1
<1>3. CASE Len(s) <= Len(t)
  <2>1. \A i \in 1 .. Len(s) : i \in 1 .. Len(t)
    BY <1>1, <1>3
  <2>2. \A i \in 1 .. Len(s) : t[i] \in S
    BY <1>1, <2>1, ElementOfSeq
  <2>3. /\ SubSeq(s, 1, Len(s)) \in Seq(S) /\ Len(SubSeq(s, 1, Len(s))) = Len(s)
        /\ \A i \in 1 .. Len(s) : SubSeq(s, 1, Len(s))[i] = s[i]
    BY <1>1, <1>2, SubSeqProperties
  <2>4. /\ SubSeq(t, 1, Len(s)) \in Seq(S) /\ Len(SubSeq(t, 1, Len(s))) = Len(s)
        /\ \A i \in 1 .. Len(s) : SubSeq(t, 1, Len(s))[i] = t[i]
    BY <1>1, <2>2, SubSeqProperties
  <2>5. SubSeq(s, 1, Len(s)) = SubSeq(t, 1, Len(s)) <=> \A i \in 1 .. Len(s) : s[i] = t[i]
    BY <2>3, <2>4, SeqEqual
  <2>. QED
    BY <1>3, <2>5 DEF IsPrefix
<1>4. CASE ~(Len(s) <= Len(t))
  BY <1>4 DEF IsPrefix
<1>. QED
  BY <1>3, <1>4

LEMMA ReverseType ==
  ASSUME NEW S, NEW s \in Seq(S)
  PROVE  /\ Reverse(s) \in Seq(S) /\ Len(Reverse(s)) = Len(s)
         /\ \A i \in 1 .. Len(s) : Reverse(s)[i] = s[(Len(s) - i) + 1]
<1>1. Len(s) \in Nat /\ \A i \in 1 .. Len(s) : s[i] \in S
  BY LenProperties, ElementOfSeq
<1>2. \A i \in 1 .. Len(s) : (Len(s) - i) + 1 \in 1 .. Len(s)
  BY <1>1
<1>3. Reverse(s) = [i \in 1 .. Len(s) |-> s[(Len(s) - i) + 1]]
  BY DEF Reverse
<1>4. Reverse(s) \in [1 .. Len(s) -> S]
  BY <1>1, <1>2, <1>3
<1>5. Reverse(s) \in Seq(S)
  BY <1>1, <1>4, SeqDef
<1>6. DOMAIN Reverse(s) = 1 .. Len(s) /\ Len(Reverse(s)) \in Nat
      /\ DOMAIN Reverse(s) = 1 .. Len(Reverse(s))
  BY <1>4, <1>5, LenProperties
<1>7. Len(Reverse(s)) = Len(s)
  BY <1>1, <1>6
<1>. QED
  BY <1>3, <1>5, <1>7

LEMMA SuffixPlaces ==
  ASSUME NEW S, NEW s \in Seq(S), NEW t \in Seq(S), Len(s) <= Len(t)
  PROVE  IsSuffix(s, t) <=> \A i \in 1 .. Len(s) : s[i] = t[Len(t) - Len(s) + i]
<1>1. Len(s) \in Nat /\ Len(t) \in Nat
  BY LenProperties
<1>2. /\ Reverse(s) \in Seq(S) /\ Len(Reverse(s)) = Len(s)
      /\ \A i \in 1 .. Len(s) : Reverse(s)[i] = s[(Len(s) - i) + 1]
  BY ReverseType
<1>3. /\ Reverse(t) \in Seq(S) /\ Len(Reverse(t)) = Len(t)
      /\ \A i \in 1 .. Len(t) : Reverse(t)[i] = t[(Len(t) - i) + 1]
  BY ReverseType
<1>4. IsSuffix(s, t) <=> \A i \in 1 .. Len(s) : Reverse(s)[i] = Reverse(t)[i]
  BY <1>2, <1>3, PrefixPlaces DEF IsSuffix
<1>5. \A i \in 1 .. Len(s) :
        /\ i \in 1 .. Len(t)
        /\ (Len(s) - i) + 1 \in 1 .. Len(s)
        /\ (Len(s) - ((Len(s) - i) + 1)) + 1 = i
        /\ (Len(t) - i) + 1 = Len(t) - Len(s) + ((Len(s) - i) + 1)
  BY <1>1
<1>6. ASSUME IsSuffix(s, t), NEW i \in 1 .. Len(s)
      PROVE  s[i] = t[Len(t) - Len(s) + i]
  <2> DEFINE j == (Len(s) - i) + 1
  <2>1. /\ j \in 1 .. Len(s) /\ j \in 1 .. Len(t)
        /\ (Len(s) - j) + 1 = i /\ (Len(t) - j) + 1 = Len(t) - Len(s) + i
    BY <1>1, <1>5
  <2>2. Reverse(s)[j] = Reverse(t)[j]
    BY <1>4, <1>6, <2>1
  <2> HIDE DEF j
  <2>. QED
    BY <1>2, <1>3, <2>1, <2>2
<1>7. ASSUME \A i \in 1 .. Len(s) : s[i] = t[Len(t) - Len(s) + i]
      PROVE  IsSuffix(s, t)
  <2>1. \A i \in 1 .. Len(s) : Reverse(s)[i] = Reverse(t)[i]
    BY <1>2, <1>3, <1>5, <1>7
  <2>. QED
    BY <1>4, <2>1
<1>. QED
  BY <1>6, <1>7

-----------------------------------------------------------------------------
(* The texts of one and of two characters. *)
LEMMA ShortTexts ==
  ASSUME NEW a \in Char, NEW b \in Char
  PROVE  /\ <<a>> \in Seq(Char) /\ Len(<<a>>) = 1 /\ <<a>>[1] = a
         /\ <<a, b>> \in Seq(Char) /\ Len(<<a, b>>) = 2
         /\ <<a, b>>[1] = a /\ <<a, b>>[2] = b
OBVIOUS

(* The wildcard for the names below the domain that starts at a dot. *)
Wildcard(name, n) == <<"*">> \o SubSeq(name, n + 1, Len(name))

LEMMA WildcardPlaces ==
  ASSUME NEW name \in Seq(Char), NEW n \in 1 .. Len(name) - 2
  PROVE  /\ Wildcard(name, n) \in Seq(Char)
         /\ Len(Wildcard(name, n)) = Len(name) - n + 1
         /\ Wildcard(name, n)[1] = "*"
         /\ \A i \in 2 .. Len(name) - n + 1 : Wildcard(name, n)[i] = name[n + i - 1]
<1> DEFINE part == SubSeq(name, n + 1, Len(name))
           star == <<"*">>
<1>1. /\ Len(name) \in Nat /\ n \in Int /\ n + 1 \in Int /\ n + 1 <= Len(name)
      /\ \A i \in n + 1 .. Len(name) : i \in 1 .. Len(name)
  BY LenProperties
<1>2. \A i \in n + 1 .. Len(name) : name[i] \in Char
  BY <1>1, ElementOfSeq
<1>3. /\ part \in Seq(Char) /\ Len(part) = Len(name) - (n + 1) + 1
      /\ \A i \in 1 .. Len(name) - (n + 1) + 1 : part[i] = name[(n + 1) + i - 1]
  BY <1>1, <1>2, SubSeqProperties
<1>4. star \in Seq(Char) /\ Len(star) = 1 /\ star[1] = "*"
  BY ShortTexts, UserAssumption
<1>5. Wildcard(name, n) = star \o part
  BY DEF Wildcard
<1> HIDE DEF part, star
<1>10. /\ star \o part \in Seq(Char)
       /\ Len(star \o part) = Len(star) + Len(part)
       /\ \A i \in 1 .. Len(star) + Len(part) :
           (star \o part)[i] = IF i <= Len(star) THEN star[i] ELSE part[i - Len(star)]
  BY <1>3, <1>4, ConcatProperties
<1>6. /\ star \o part \in Seq(Char)
      /\ Len(star \o part) = 1 + Len(part)
      /\ \A i \in 1 .. 1 + Len(part) :
           (star \o part)[i] = IF i <= 1 THEN star[i] ELSE part[i - 1]
  BY <1>4, <1>10
<1>7. Len(star \o part) = Len(name) - n + 1 /\ 1 \in 1 .. 1 + Len(part)
  BY <1>1, <1>3, <1>6
<1>8. (star \o part)[1] = "*"
  BY <1>4, <1>6, <1>7
<1>9. ASSUME NEW i \in 2 .. Len(name) - n + 1
      PROVE  (star \o part)[i] = name[n + i - 1]
  <2>1. /\ i \in 1 .. 1 + Len(part) /\ ~(i <= 1) /\ i - 1 \in 1 .. Len(name) - (n + 1) + 1
        /\ (n + 1) + (i - 1) - 1 = n + i - 1
    BY <1>1, <1>3
  <2>2. (star \o part)[i] = part[i - 1]
    BY <1>6, <2>1
  <2>. QED
    BY <1>3, <2>1, <2>2
<1>. QED
  BY <1>5, <1>6, <1>7, <1>8, <1>9

(* A wildcard, as commonNameMatches() takes it, names a client exactly if it
   is a star and what follows one of the dots inside the client's name. *)
LEMMA WildcardNames ==
  ASSUME NEW name \in Seq(Char), NEW entry \in Seq(Char),
         Len(entry) >= 2, entry[1] = "*", entry[2] = "."
  PROVE  /\ Len(entry) >= 3 /\ Len(name) > Len(entry) - 1 /\ IsSuffix(Tail(entry), name)
         <=> \E n \in 1 .. Len(name) - 2 : name[n + 1] = "." /\ entry = Wildcard(name, n)
<1>1. Len(name) \in Nat /\ Len(entry) \in Nat /\ entry # <<>>
  BY LenProperties, EmptySeq
<1>2. /\ Tail(entry) \in Seq(Char) /\ Len(Tail(entry)) = Len(entry) - 1
      /\ \A i \in 1 .. Len(entry) - 1 : Tail(entry)[i] = entry[i + 1]
  BY <1>1, HeadTailProperties
<1>3. Len(name) > Len(entry) - 1 =>
        (IsSuffix(Tail(entry), name)
           <=> \A i \in 1 .. Len(entry) - 1 :
                 entry[i + 1] = name[Len(name) - (Len(entry) - 1) + i])
  <2>1. ASSUME Len(name) > Len(entry) - 1
        PROVE  IsSuffix(Tail(entry), name)
                 <=> \A i \in 1 .. Len(Tail(entry)) :
                       Tail(entry)[i] = name[Len(name) - Len(Tail(entry)) + i]
    <3>1. Len(Tail(entry)) <= Len(name)
      BY <1>1, <1>2, <2>1
    <3>. QED
      BY <1>2, <3>1, SuffixPlaces
  <2>. QED
    BY <1>2, <2>1
<1>4. ASSUME Len(entry) >= 3, Len(name) > Len(entry) - 1, IsSuffix(Tail(entry), name)
      PROVE  \E n \in 1 .. Len(name) - 2 : name[n + 1] = "." /\ entry = Wildcard(name, n)
  <2>1. PICK n \in 1 .. Len(name) - 2 : n = Len(name) - (Len(entry) - 1)
    <3>1. Len(name) - (Len(entry) - 1) \in 1 .. Len(name) - 2
      BY <1>1, <1>4
    <3>. QED
      BY <3>1
  <2>2. name[n + 1] = "."
    <3>1. 1 \in 1 .. Len(entry) - 1 /\ 1 + 1 = 2
      BY <1>1, <1>4
    <3>2. entry[2] = name[n + 1]
      BY <1>3, <1>4, <2>1, <3>1
    <3>. QED
      BY <3>2
  <2>3. /\ Wildcard(name, n) \in Seq(Char)
        /\ Len(Wildcard(name, n)) = Len(entry)
        /\ Wildcard(name, n)[1] = "*"
        /\ \A i \in 2 .. Len(entry) : Wildcard(name, n)[i] = name[n + i - 1]
    <3>1. Len(name) - n + 1 = Len(entry)
      BY <1>1, <2>1
    <3>. QED
      BY <3>1, WildcardPlaces
  <2>4. ASSUME NEW i \in 1 .. Len(entry) PROVE entry[i] = Wildcard(name, n)[i]
    <3>1. CASE i = 1
      BY <2>3, <3>1
    <3>2. CASE i # 1
      <4>1. /\ i \in 2 .. Len(entry) /\ i - 1 \in 1 .. Len(entry) - 1 /\ (i - 1) + 1 = i
            /\ n + i - 1 = Len(name) - (Len(entry) - 1) + (i - 1)
        BY <1>1, <2>1, <3>2
      <4>2. entry[(i - 1) + 1] = name[Len(name) - (Len(entry) - 1) + (i - 1)]
        BY <1>3, <1>4, <4>1
      <4>. QED
        BY <2>3, <4>1, <4>2
    <3>. QED
      BY <3>1, <3>2
  <2>5. entry = Wildcard(name, n)
    BY <2>3, <2>4, SeqEqual
  <2>. QED
    BY <2>2, <2>5
<1>5. ASSUME NEW n \in 1 .. Len(name) - 2, name[n + 1] = ".", entry = Wildcard(name, n)
      PROVE  Len(entry) >= 3 /\ Len(name) > Len(entry) - 1 /\ IsSuffix(Tail(entry), name)
  <2>1. /\ Len(entry) = Len(name) - n + 1
        /\ \A i \in 2 .. Len(name) - n + 1 : entry[i] = name[n + i - 1]
    BY <1>5, WildcardPlaces
  <2>2. Len(entry) >= 3 /\ Len(name) > Len(entry) - 1
    BY <1>1, <2>1
  <2>3. ASSUME NEW i \in 1 .. Len(entry) - 1
        PROVE  entry[i + 1] = name[Len(name) - (Len(entry) - 1) + i]
    <3>1. /\ i + 1 \in 2 .. Len(name) - n + 1
          /\ n + (i + 1) - 1 = Len(name) - (Len(entry) - 1) + i
      BY <1>1, <2>1
    <3>. QED
      BY <2>1, <3>1
  <2>. QED
    BY <1>3, <2>2, <2>3
<1>. QED
  BY <1>4, <1>5

(***************************************************************************)
(* commonNameMatches() does what its comment promises, for every client    *)
(* and every entry that is not blank (user_mgr.cpp).                       *)
(***************************************************************************)
THEOREM MatchesAsPromised ==
  ASSUME NEW name \in Text, NEW entry \in Text, entry # <<>>
  PROVE  commonNameMatches(name, entry) <=> Names(entry, name)
<1> DEFINE starDot == <<"*", ".">>
           star == <<"*">>
<1>1. /\ name \in Seq(Char) /\ entry \in Seq(Char)
      /\ Len(name) \in Nat /\ Len(entry) \in Nat \ {0}
  BY LenProperties, EmptySeq DEF Text
<1>2. /\ starDot \in Seq(Char) /\ Len(starDot) = 2 /\ starDot[1] = "*" /\ starDot[2] = "."
      /\ star \in Seq(Char) /\ Len(star) = 1 /\ star[1] = "*"
  BY ShortTexts, UserAssumption
<1>3. commonNameMatches(name, entry)
        <=> IF IsPrefix(starDot, entry)
              THEN Len(entry) >= 3 /\ Len(name) > Len(entry) - 1 /\ IsSuffix(Tail(entry), name)
              ELSE ~IsPrefix(star, entry) /\ name = entry
  BY DEF commonNameMatches
<1>4. Names(entry, name)
        <=> \/ entry = name /\ entry[1] # "*"
            \/ \E n \in 1 .. Len(name) - 2 : name[n + 1] = "." /\ entry = Wildcard(name, n)
  BY DEF Names, Wildcard
<1> HIDE DEF starDot, star
<1>5. IsPrefix(starDot, entry) <=> Len(entry) >= 2 /\ entry[1] = "*" /\ entry[2] = "."
  <2>1. \A i \in 1 .. 2 : i = 1 \/ i = 2
    OBVIOUS
  <2>2. IsPrefix(starDot, entry) <=> 2 <= Len(entry) /\ \A i \in 1 .. 2 : starDot[i] = entry[i]
    <3>1. IsPrefix(starDot, entry)
            <=> Len(starDot) <= Len(entry) /\ \A i \in 1 .. Len(starDot) : starDot[i] = entry[i]
      <4>1. starDot \in Seq(Char) /\ entry \in Seq(Char)
        BY <1>1, <1>2
      <4>. QED
        BY <4>1, PrefixPlaces
    <3>. QED
      BY <1>2, <3>1
  <2>. QED
    BY <1>1, <1>2, <2>1, <2>2
<1>6. IsPrefix(star, entry) <=> entry[1] = "*"
  <2>1. IsPrefix(star, entry) <=> 1 <= Len(entry) /\ \A i \in 1 .. 1 : star[i] = entry[i]
    <3>1. IsPrefix(star, entry)
            <=> Len(star) <= Len(entry) /\ \A i \in 1 .. Len(star) : star[i] = entry[i]
      <4>1. star \in Seq(Char) /\ entry \in Seq(Char)
        BY <1>1, <1>2
      <4>. QED
        BY <4>1, PrefixPlaces
    <3>. QED
      BY <1>2, <3>1
  <2>. QED
    BY <1>1, <1>2, <2>1
<1>7. CASE IsPrefix(starDot, entry)
  BY <1>1, <1>3, <1>4, <1>5, <1>7, WildcardNames
<1>8. CASE ~IsPrefix(starDot, entry)
  <2>1. ASSUME NEW n \in 1 .. Len(name) - 2, name[n + 1] = ".", entry = Wildcard(name, n)
        PROVE  FALSE
    <3>1. /\ Len(entry) = Len(name) - n + 1 /\ entry[1] = "*"
          /\ \A i \in 2 .. Len(name) - n + 1 : entry[i] = name[n + i - 1]
      BY <1>1, <2>1, WildcardPlaces
    <3>2. Len(entry) >= 2 /\ 2 \in 2 .. Len(name) - n + 1 /\ n + 2 - 1 = n + 1
      BY <1>1, <3>1
    <3>. QED
      BY <1>5, <1>8, <2>1, <3>1, <3>2
  <2>. QED
    BY <1>3, <1>4, <1>6, <1>8, <2>1
<1>. QED
  BY <1>7, <1>8

(* The list is read as it is meant. *)
LEMMA TrustedAsMeant ==
  ASSUME NEW configured \in Policy, NEW name \in CommonName
  PROVE  isCommonNameTrusted(name, configured) <=> Trusts(configured, name)
<1>1. configured \in Seq(Text) /\ name \in Text
  BY UserAssumption
<1>2. \A i \in DOMAIN configured : trim(configured[i]) \in Text
  BY <1>1, LenProperties, ElementOfSeq, TrimType
<1>3. \A i \in DOMAIN configured : trim(configured[i]) # <<>> =>
        (commonNameMatches(name, trim(configured[i])) <=> Names(trim(configured[i]), name))
  BY <1>1, <1>2, MatchesAsPromised
<1>. QED
  BY <1>3 DEF isCommonNameTrusted, Trusts

-----------------------------------------------------------------------------
(***************************************************************************)
(* Type correctness                                                        *)
(***************************************************************************)

(* What Answer() leaves. *)
LEMMA AnswerType ==
  ASSUME UserTypeOK, NEW granted \in BOOLEAN, Answer(granted)
  PROVE  /\ answer' \in {"granted", "refused", "error"} /\ call' = <<>>
         /\ refused' \in Nat
         /\ UNCHANGED <<policy, server, witnessed, undisturbed, changes>>
BY DEF UserTypeOK, Answer, redisVars

LEMMA UserTypeStep ==
  ASSUME UserTypeOK, [Next]_vars
  PROVE  UserTypeOK'
<1>1. \A name \in CommonName, configured \in Policy : Trusts(configured, name) \in BOOLEAN
  BY DEF Trusts
<1>2. ASSUME NEW name \in CommonName, GetUserInfo(name) PROVE UserTypeOK'
  <2>1. witnessed' \in BOOLEAN /\ undisturbed' \in BOOLEAN
    BY <1>2 DEF GetUserInfo
  <2>. QED
    BY <1>2, <2>1 DEF GetUserInfo, UserTypeOK, redisVars
<1>3. CASE GetUserInfoEmpty
  BY <1>3 DEF GetUserInfoEmpty, UserTypeOK, redisVars, historyVars
<1>4. CASE Connect
  <2>1. CASE server = "down"
    BY <1>4, <2>1, AnswerType DEF Connect, UserTypeOK
  <2>2. CASE server # "down"
    BY <1>4, <2>2 DEF Connect, UserTypeOK, redisVars, historyVars
  <2>. QED
    BY <2>1, <2>2
<1>5. CASE SelectFails
  BY <1>5, AnswerType DEF SelectFails, UserTypeOK
<1>6. CASE SelectSucceeds
  BY <1>6 DEF SelectSucceeds, UserTypeOK, redisVars, historyVars
<1>7. CASE ReadBreaks \/ ReadRefused
  <2>1. Answer(FALSE) /\ context = "open" /\ context' \in {"none", "open"} /\ alive' = alive
        /\ (context' = "none" => ~alive)
    BY <1>7 DEF ReadBreaks, ReadRefused
  <2>. QED
    BY <2>1, AnswerType DEF UserTypeOK
<1>8. CASE ReadPolicy
  <2>1. isCommonNameTrusted(call[1], policy) \in BOOLEAN
    BY DEF isCommonNameTrusted
  <2>. QED
    BY <1>8, <2>1, AnswerType DEF ReadPolicy, UserTypeOK
<1>9. CASE SetPolicy
  <2>1. witnessed' \in BOOLEAN /\ undisturbed' \in BOOLEAN
    BY <1>9 DEF SetPolicy
  <2>2. changes' \in 0 .. MaxChanges
    BY <1>9, UserAssumption DEF SetPolicy, Change, UserTypeOK
  <2>. QED
    BY <1>9, <2>1, <2>2 DEF SetPolicy, UserTypeOK
<1>10. ASSUME ServerStops \/ ServerStarts \/ ServerReady \/ ConnectionBreaks
       PROVE  UserTypeOK'
  <2>1. Change /\ Fails
    BY <1>10 DEF ServerStops, ServerStarts, ServerReady, ConnectionBreaks
  <2>2. changes' \in 0 .. MaxChanges
    BY <2>1, UserAssumption DEF Change, UserTypeOK
  <2>3. witnessed' \in BOOLEAN
    BY <1>10 DEF ServerStops, ServerStarts, ServerReady, ConnectionBreaks, UserTypeOK
  <2>4. /\ server' \in {"up", "down", "refusing"} /\ alive' \in BOOLEAN
        /\ alive' => alive /\ server' # "down"
    <3>1. CASE ServerStops
      BY <3>1 DEF ServerStops, UserTypeOK
    <3>2. CASE ServerStarts
      BY <3>2 DEF ServerStarts, UserTypeOK
    <3>3. CASE ServerReady
      BY <3>3 DEF ServerReady, UserTypeOK
    <3>4. CASE ConnectionBreaks
      BY <3>4 DEF ConnectionBreaks, UserTypeOK
    <3>. QED
      BY <1>10, <3>1, <3>2, <3>3, <3>4
  <2>. QED
    BY <2>1, <2>2, <2>3, <2>4 DEF Fails, UserTypeOK
<1>11. CASE UNCHANGED vars
  BY <1>11 DEF vars, redisVars, historyVars, UserTypeOK
<1>. QED
  BY <1>2, <1>3, <1>4, <1>5, <1>6, <1>7, <1>8, <1>9, <1>10, <1>11 DEF Next

(***************************************************************************)
(* UserTypeOK: a half open connection exists only inside a call, and what  *)
(* is connected is connected to a running Redis.                           *)
(***************************************************************************)
THEOREM UserTypesCorrect == Spec => []UserTypeOK
<1>1. Init => UserTypeOK
  <2> SUFFICES ASSUME Init PROVE UserTypeOK
    OBVIOUS
  <2>1. alive \in BOOLEAN /\ (alive => context # "none" /\ server # "down")
    BY DEF Init
  <2>2. /\ policy \in Policy /\ server \in {"up", "down"} /\ context \in {"none", "open"}
        /\ call = <<>> /\ answer = "refused" /\ refused = 0 /\ changes = 0
        /\ witnessed = FALSE /\ undisturbed = FALSE
    BY DEF Init
  <2>3. 0 \in 0 .. MaxChanges
    BY UserAssumption
  <2>. QED
    BY <2>1, <2>2, <2>3 DEF UserTypeOK
<1>2. UserTypeOK /\ [Next]_vars => UserTypeOK'
  BY UserTypeStep
<1>. QED
  BY <1>1, <1>2, PTL DEF Spec

-----------------------------------------------------------------------------
(***************************************************************************)
(* What the history remembers of the call                                  *)
(***************************************************************************)

(* The name that is asked about. *)
Trusted == server = "up" /\ Trusts(policy, call[1])

(***************************************************************************)
(* A list that can be read now was noted if it trusts the name; a call     *)
(* that nothing disturbed finds one, over a connection that it opened      *)
(* itself or that stands since before; and once such a call was refused    *)
(* the broken context is gone, so that only a connected one can be open.   *)
(***************************************************************************)
CallInv ==
  /\ call # <<>> /\ Trusted => witnessed
  /\ undisturbed => server = "up" /\ (call # <<>> => Trusted)
  /\ undisturbed /\ context = "opening" => alive
  /\ refused # 0 /\ context # "none" => alive
  /\ refused <= 1

(* A call that ends leaves nothing that CallInv speaks of, but its count. *)
LEMMA AnswerKeeps ==
  ASSUME UserTypeOK, CallInv, NEW granted \in BOOLEAN, Answer(granted),
         undisturbed /\ ~granted => refused = 0 /\ context' = "none",
         context' \in {context, "none"}, context' # "opening",
         context' # "none" => alive' = alive
  PROVE  CallInv'
<1>1. /\ call' = <<>> /\ UNCHANGED <<policy, server, witnessed, undisturbed>>
      /\ refused' = IF undisturbed /\ ~granted THEN refused + 1 ELSE refused
  BY DEF Answer, redisVars
<1>2. CASE undisturbed /\ ~granted
  BY <1>1, <1>2 DEF CallInv
<1>3. CASE ~(undisturbed /\ ~granted)
  BY <1>1, <1>3 DEF CallInv
<1>. QED
  BY <1>2, <1>3

LEMMA CallStep ==
  ASSUME UserTypeOK, CallInv, [Next]_vars
  PROVE  CallInv'
<1>1. ASSUME NEW name \in CommonName, GetUserInfo(name) PROVE CallInv'
  <2>1. call' = <<name>> /\ call'[1] = name /\ context # "opening"
    BY <1>1 DEF GetUserInfo, UserTypeOK
  <2>. QED
    BY <1>1, <2>1 DEF GetUserInfo, CallInv, Trusted, redisVars
<1>2. CASE GetUserInfoEmpty
  BY <1>2 DEF GetUserInfoEmpty, CallInv, Trusted, redisVars, historyVars
<1>3. CASE Connect
  <2>1. CASE server = "down"
    <3>1. Answer(FALSE) /\ UNCHANGED <<context, alive>> /\ context = "none" /\ ~undisturbed
      BY <1>3, <2>1 DEF Connect, CallInv
    <3>. QED
      BY <3>1, AnswerKeeps
  <2>2. CASE server # "down"
    BY <1>3, <2>2 DEF Connect, CallInv, Trusted, redisVars, historyVars
  <2>. QED
    BY <2>1, <2>2
<1>4. CASE SelectFails
  <2>1. Answer(FALSE) /\ context' = "none" /\ ~undisturbed
    BY <1>4 DEF SelectFails, CallInv
  <2>. QED
    BY <2>1, AnswerKeeps
<1>5. CASE SelectSucceeds
  BY <1>5 DEF SelectSucceeds, CallInv, Trusted, redisVars, historyVars
<1>6. CASE ReadBreaks
  <2>1. Answer(FALSE) /\ context' = "none" /\ refused = 0
    BY <1>6 DEF ReadBreaks, CallInv
  <2>. QED
    BY <2>1, AnswerKeeps
<1>7. CASE ReadRefused
  <2>1. Answer(FALSE) /\ UNCHANGED <<context, alive>> /\ context = "open" /\ ~undisturbed
    BY <1>7 DEF ReadRefused, CallInv
  <2>. QED
    BY <2>1, AnswerKeeps
<1>8. CASE ReadPolicy
  <2>1. call[1] \in CommonName /\ policy \in Policy /\ call # <<>>
    BY <1>8 DEF ReadPolicy, UserTypeOK
  <2> DEFINE granted == isCommonNameTrusted(call[1], policy)
  <2>2. granted \in BOOLEAN /\ (granted <=> Trusts(policy, call[1]))
    BY <2>1, TrustedAsMeant DEF isCommonNameTrusted
  <2>3. undisturbed => granted
    BY <2>1, <2>2 DEF CallInv, Trusted
  <2>4. Answer(granted) /\ UNCHANGED <<context, alive>> /\ context = "open"
    BY <1>8 DEF ReadPolicy
  <2>5. PICK g \in BOOLEAN : g = granted
    BY <2>2
  <2>. QED
    BY <2>3, <2>4, <2>5, AnswerKeeps
<1>9. CASE SetPolicy
  BY <1>9 DEF SetPolicy, CallInv, Trusted
<1>10. CASE ServerStops
  BY <1>10 DEF ServerStops, Fails, CallInv, Trusted
<1>11. CASE ServerStarts
  <2>1. /\ call' = call /\ policy' = policy /\ refused' = 0 /\ ~undisturbed'
        /\ call # <<>> /\ server' = "up" /\ Trusts(policy, call[1]) => witnessed'
    BY <1>11 DEF ServerStarts, Fails
  <2>. QED
    BY <2>1 DEF CallInv, Trusted
<1>12. CASE ServerReady
  <2>1. /\ call' = call /\ policy' = policy /\ refused' = 0 /\ ~undisturbed'
        /\ call # <<>> /\ Trusts(policy, call[1]) => witnessed'
    BY <1>12 DEF ServerReady, Fails
  <2>. QED
    BY <2>1 DEF CallInv, Trusted
<1>13. CASE ConnectionBreaks
  BY <1>13 DEF ConnectionBreaks, Fails, CallInv, Trusted
<1>14. CASE UNCHANGED vars
  BY <1>14 DEF vars, redisVars, historyVars, CallInv, Trusted
<1>. QED
  BY <1>1, <1>2, <1>3, <1>4, <1>5, <1>6, <1>7, <1>8, <1>9, <1>10, <1>11, <1>12, <1>13, <1>14
     DEF Next

(* Both invariants hold from the start. *)
LEMMA CallInvariant == Spec => [](UserTypeOK /\ CallInv)
<1>1. Init => CallInv
  BY DEF Init, CallInv
<1>2. UserTypeOK /\ CallInv /\ [Next]_vars => UserTypeOK' /\ CallInv'
  BY UserTypeStep, CallStep
<1>. QED
  BY <1>1, <1>2, UserTypesCorrect, PTL DEF Spec

(***************************************************************************)
(* OutageCostsOneCall: after an outage at most one trusted client is       *)
(* turned away before the next one is served again.                        *)
(***************************************************************************)
THEOREM OutagesAreBounded == Spec => []OutageCostsOneCall
<1>1. UserTypeOK /\ CallInv => OutageCostsOneCall
  BY DEF CallInv, OutageCostsOneCall
<1>. QED
  BY <1>1, CallInvariant, PTL

(***************************************************************************)
(* GrantsFollowPolicy: nobody is let in on an answer that Redis would at   *)
(* no moment of the call have given.                                       *)
(***************************************************************************)
THEOREM GrantsAreWitnessed == Spec => GrantsFollowPolicy
<1> DEFINE Granted == call # <<>> /\ call' = <<>> /\ answer' = "granted"
<1>1. UserTypeOK /\ CallInv /\ [Next]_vars => [Granted => witnessed]_vars
  <2> SUFFICES ASSUME UserTypeOK, CallInv, Next, Granted PROVE witnessed
    OBVIOUS
  <2>1. ReadPolicy /\ answer' = "granted"
    BY DEF Next, GetUserInfo, GetUserInfoEmpty, Connect, SelectFails, SelectSucceeds,
           ReadBreaks, ReadRefused, SetPolicy, ServerStops, ServerStarts, ServerReady,
           ConnectionBreaks, Fails, Answer
  <2>2. server = "up" /\ isCommonNameTrusted(call[1], policy)
    BY <2>1 DEF ReadPolicy, Answer
  <2>3. call[1] \in CommonName /\ policy \in Policy
    BY DEF UserTypeOK
  <2>. QED
    BY <2>2, <2>3, TrustedAsMeant DEF CallInv, Trusted
<1>. QED
  BY <1>1, CallInvariant, PTL DEF Spec, GrantsFollowPolicy
=============================================================================
