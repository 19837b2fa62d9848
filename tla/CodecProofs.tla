----------------------------- MODULE CodecProofs -----------------------------
(***************************************************************************)
(* Where the fields of a request and of a status report are, and what the   *)
(* other side reads there: the layouts of data.hpp against the offsets of   *)
(* ParsingModule, TelemetryModule and unpack_robot_status.                  *)
(***************************************************************************)
EXTENDS Codec, SequenceTheorems, WellFoundedInduction, TLAPS

-----------------------------------------------------------------------------
(* Sets of numbers *)

LEMMA LeastNumber ==
    ASSUME NEW T, T \subseteq Nat, T # {}
    PROVE  \E x \in T : \A y \in T : x <= y
<1> DEFINE R == OpToRel(<, Nat)
<1>1. IsWellFoundedOn(R, Nat)
  BY NatLessThanWellFounded
<1>2. \A x, y \in Nat : <<y, x>> \in R <=> y < x
  BY DEF OpToRel
<1> HIDE DEF R
<1>3. PICK x \in T : \A y \in T : <<y, x>> \notin R
  BY <1>1, WFMin
<1>4. \A y \in T : x \in Nat /\ y \in Nat /\ ~(y < x)
  BY <1>2, <1>3
<1>5. \A y \in T : x <= y
  BY <1>4
<1> QED BY <1>5

-----------------------------------------------------------------------------
(* struct RapidRequest *)

PartNames == {"command_id", "zone", "speed", "target", "extra_target", "joint_target"}

Names == {""} \cup {RobTarget[i] : i \in 1..17} \cup {JointTarget[i] : i \in 1..12}

AField == [part: PartNames, name: Names, size: {1, 2, 4}]

LEMMA SequenceOf ==
    ASSUME NEW S, NEW n \in Nat, NEW f \in [1..n -> S]
    PROVE  f \in Seq(S) /\ Len(f) = n /\ DOMAIN f = 1..n
<1>1. f \in Seq(S)
  BY SeqDef
<1> QED BY <1>1, LenProperties

LEMMA NamesOfWords ==
    /\ DOMAIN RobTarget = 1..17 /\ DOMAIN JointTarget = 1..12
    /\ \A i \in 1..17 : RobTarget[i] = "x" <=> i = 1
<1>1. DOMAIN RobTarget = 1..17 /\ DOMAIN JointTarget = 1..12
  BY DEF RobTarget, JointTarget
<1>2. \A i \in 1..17 : RobTarget[i] = "x" <=> i = 1
  BY DEF RobTarget
<1> QED BY <1>1, <1>2

LEMMA WordsFacts ==
    ASSUME NEW part \in PartNames, NEW names \in {RobTarget, JointTarget},
           NEW n \in Nat, DOMAIN names = 1..n
    PROVE  /\ Words(part, names) \in Seq(AField) /\ Len(Words(part, names)) = n
           /\ \A i \in 1..n : Words(part, names)[i] = Field(part, names[i], 4)
<1>1. \A i \in 1..n : Field(part, names[i], 4) \in AField
  BY NamesOfWords DEF Field, AField, Names
<1>2. Words(part, names) = [i \in 1..n |-> Field(part, names[i], 4)]
  BY DEF Words
<1>3. Words(part, names) \in [1..n -> AField]
  BY <1>1, <1>2
<1> QED BY <1>2, <1>3, SequenceOf

\* Concatenation under a name of its own, which the provers leave alone.
Join(s, t) == s \o t

LEMMA Joined ==
    ASSUME NEW S, NEW s \in Seq(S), NEW t \in Seq(S)
    PROVE  Join(s, t) \in Seq(S) /\ Len(Join(s, t)) = Len(s) + Len(t)
  BY ConcatProperties DEF Join

LEMMA JoinedFirst ==
    ASSUME NEW S, NEW s \in Seq(S), NEW t \in Seq(S), NEW i \in 1..Len(s)
    PROVE  Join(s, t)[i] = s[i]
<1>1. i \in 1..(Len(s) + Len(t)) /\ i <= Len(s)
  BY LenProperties
<1> QED BY <1>1, ConcatProperties DEF Join

LEMMA JoinedSecond ==
    ASSUME NEW S, NEW s \in Seq(S), NEW t \in Seq(S), NEW i \in 1..Len(t)
    PROVE  Join(s, t)[Len(s) + i] = t[i]
<1>1. /\ Len(s) + i \in 1..(Len(s) + Len(t)) /\ ~(Len(s) + i <= Len(s))
      /\ (Len(s) + i) - Len(s) = i
  BY LenProperties
<1> QED BY <1>1, ConcatProperties DEF Join

\* The members of a request in their order.
LEMMA Layout ==
    /\ RapidRequest \in Seq(AField) /\ Len(RapidRequest) = 49 /\ DOMAIN RapidRequest = 1..49
    /\ RapidRequest[1] = Field("command_id", "", 1)
    /\ RapidRequest[2] = Field("zone", "", 1)
    /\ RapidRequest[3] = Field("speed", "", 2)
    /\ \A i \in 4..20 : RapidRequest[i] = Field("target", RobTarget[i - 3], 4)
    /\ \A i \in 21..37 : RapidRequest[i] = Field("extra_target", RobTarget[i - 20], 4)
    /\ \A i \in 38..49 : RapidRequest[i] = Field("joint_target", JointTarget[i - 37], 4)
<1> DEFINE header == <<Field("command_id", "", 1), Field("zone", "", 1), Field("speed", "", 2)>>
           t == Words("target", RobTarget)
           e == Words("extra_target", RobTarget)
           j == Words("joint_target", JointTarget)
<1>1. /\ t \in Seq(AField) /\ Len(t) = 17
      /\ \A i \in 1..17 : t[i] = Field("target", RobTarget[i], 4)
  BY NamesOfWords, WordsFacts DEF PartNames
<1>2. /\ e \in Seq(AField) /\ Len(e) = 17
      /\ \A i \in 1..17 : e[i] = Field("extra_target", RobTarget[i], 4)
  BY NamesOfWords, WordsFacts DEF PartNames
<1>3. /\ j \in Seq(AField) /\ Len(j) = 12
      /\ \A i \in 1..12 : j[i] = Field("joint_target", JointTarget[i], 4)
  BY NamesOfWords, WordsFacts DEF PartNames
<1>4. /\ header \in Seq(AField) /\ Len(header) = 3 /\ header[1] = Field("command_id", "", 1)
      /\ header[2] = Field("zone", "", 1) /\ header[3] = Field("speed", "", 2)
  BY DEF AField, Field, PartNames, Names
<1> HIDE DEF header, t, e, j
<1> DEFINE words == Join(t, e)
           rest == Join(words, j)
<1>5. RapidRequest = Join(header, rest)
  BY DEF RapidRequest, Targets, header, t, e, j, Join
<1>6. words \in Seq(AField) /\ Len(words) = Len(t) + Len(e)
  <2>1. t \in Seq(AField) /\ e \in Seq(AField)
    BY <1>1, <1>2
  <2> QED BY <2>1, Joined
<1>7. /\ \A i \in 1..Len(t) : words[i] = t[i]
      /\ \A i \in 1..Len(e) : words[Len(t) + i] = e[i]
  <2>1. t \in Seq(AField) /\ e \in Seq(AField)
    BY <1>1, <1>2
  <2> QED BY <2>1, JoinedFirst, JoinedSecond
<1> HIDE DEF words
<1>8. rest \in Seq(AField) /\ Len(rest) = Len(words) + Len(j)
  <2>1. words \in Seq(AField) /\ j \in Seq(AField)
    BY <1>3, <1>6
  <2> QED BY <2>1, Joined
<1>9. /\ \A i \in 1..Len(words) : rest[i] = words[i]
      /\ \A i \in 1..Len(j) : rest[Len(words) + i] = j[i]
  <2>1. words \in Seq(AField) /\ j \in Seq(AField)
    BY <1>3, <1>6
  <2>2. \A i \in 1..Len(words) : rest[i] = words[i]
    BY <2>1, JoinedFirst
  <2>3. \A i \in 1..Len(j) : rest[Len(words) + i] = j[i]
    BY <2>1, JoinedSecond
  <2> QED BY <2>2, <2>3
<1> HIDE DEF rest
<1>10. header \in Seq(AField) /\ rest \in Seq(AField)
  BY <1>4, <1>8
<1>11. RapidRequest \in Seq(AField) /\ Len(RapidRequest) = Len(header) + Len(rest)
  BY <1>5, <1>10, Joined
<1>12. /\ \A i \in 1..Len(header) : RapidRequest[i] = header[i]
       /\ \A i \in 1..Len(rest) : RapidRequest[Len(header) + i] = rest[i]
  BY <1>5, <1>10, JoinedFirst, JoinedSecond
<1>13. Len(words) = 34 /\ Len(rest) = 46 /\ Len(RapidRequest) = 49
  <2>1. Len(t) = 17 /\ Len(e) = 17 /\ Len(j) = 12 /\ Len(header) = 3
    BY <1>1, <1>2, <1>3, <1>4
  <2>2. Len(words) = Len(t) + Len(e)
    BY <1>6
  <2>3. Len(rest) = Len(words) + Len(j)
    BY <1>8
  <2>4. Len(RapidRequest) = Len(header) + Len(rest)
    BY <1>11
  <2> QED BY <2>1, <2>2, <2>3, <2>4
<1>14. DOMAIN RapidRequest = 1..49
  <2>1. DOMAIN RapidRequest = 1..Len(RapidRequest)
    BY <1>11, LenProperties
  <2> QED BY <1>13, <2>1
<1>15. /\ RapidRequest[1] = Field("command_id", "", 1) /\ RapidRequest[2] = Field("zone", "", 1)
       /\ RapidRequest[3] = Field("speed", "", 2)
  <2>1. Len(header) = 3
    BY <1>4
  <2>2. RapidRequest[1] = header[1] /\ RapidRequest[2] = header[2] /\ RapidRequest[3] = header[3]
    BY <1>12, <2>1
  <2> QED BY <1>4, <2>2
<1>16. /\ \A i \in 1..46 : RapidRequest[3 + i] = rest[i]
       /\ \A i \in 1..34 : rest[i] = words[i]
       /\ \A i \in 1..12 : rest[34 + i] = j[i]
       /\ \A i \in 1..17 : words[i] = t[i]
       /\ \A i \in 1..17 : words[17 + i] = e[i]
  <2>1. Len(t) = 17 /\ Len(e) = 17 /\ Len(j) = 12 /\ Len(header) = 3
    BY <1>1, <1>2, <1>3, <1>4
  <2>2. \A i \in 1..46 : RapidRequest[3 + i] = rest[i]
    BY <1>12, <1>13, <2>1
  <2>3. \A i \in 1..34 : rest[i] = words[i]
    BY <1>9, <1>13
  <2>4. \A i \in 1..12 : rest[34 + i] = j[i]
    BY <1>9, <1>13, <2>1
  <2>5. \A i \in 1..17 : words[i] = t[i]
    BY <1>7, <2>1
  <2>6. \A i \in 1..17 : words[17 + i] = e[i]
    BY <1>7, <2>1
  <2> QED BY <2>2, <2>3, <2>4, <2>5, <2>6
<1>17. ASSUME NEW i \in 4..20 PROVE RapidRequest[i] = Field("target", RobTarget[i - 3], 4)
  <2>1. i - 3 \in 1..17 /\ i - 3 \in 1..34 /\ i - 3 \in 1..46 /\ 3 + (i - 3) = i
    OBVIOUS
  <2>2. RapidRequest[i] = t[i - 3]
    BY <1>16, <2>1
  <2> QED BY <1>1, <2>1, <2>2
<1>18. ASSUME NEW i \in 21..37 PROVE RapidRequest[i] = Field("extra_target", RobTarget[i - 20], 4)
  <2>1. i - 20 \in 1..17 /\ i - 3 \in 1..34 /\ i - 3 \in 1..46 /\ 3 + (i - 3) = i
        /\ 17 + (i - 20) = i - 3
    OBVIOUS
  <2>2. RapidRequest[i] = e[i - 20]
    BY <1>16, <2>1
  <2> QED BY <1>2, <2>1, <2>2
<1>19. ASSUME NEW i \in 38..49 PROVE RapidRequest[i] = Field("joint_target", JointTarget[i - 37], 4)
  <2>1. i - 37 \in 1..12 /\ i - 3 \in 1..46 /\ 3 + (i - 3) = i /\ 34 + (i - 37) = i - 3
    OBVIOUS
  <2>2. RapidRequest[i] = j[i - 37]
    BY <1>16, <2>1
  <2> QED BY <1>3, <2>1, <2>2
<1> QED BY <1>11, <1>13, <1>14, <1>15, <1>17, <1>18, <1>19

\* The last byte of each member, in closed form.
EndsAt == [i \in 0..49 |-> IF i <= 2 THEN i ELSE 4 * (i - 2)]

LEMMA SizesOfLayout ==
    \A i \in 1..49 : RapidRequest[i].size = IF i <= 2 THEN 1 ELSE IF i = 3 THEN 2 ELSE 4
<1>1. \A f, part, name, size : f = Field(part, name, size) => f.size = size
  BY DEF Field
<1>2. ASSUME NEW i \in {1, 2, 3} PROVE RapidRequest[i].size = IF i = 3 THEN 2 ELSE 1
  <2>1. CASE i = 1
    <3>1. RapidRequest[i] = Field("command_id", "", 1)
      BY <2>1, Layout
    <3>2. RapidRequest[i].size = 1
      BY <1>1, <3>1
    <3> QED BY <2>1, <3>2
  <2>2. CASE i = 2
    <3>1. RapidRequest[i] = Field("zone", "", 1)
      BY <2>2, Layout
    <3>2. RapidRequest[i].size = 1
      BY <1>1, <3>1
    <3> QED BY <2>2, <3>2
  <2>3. CASE i = 3
    <3>1. RapidRequest[i] = Field("speed", "", 2)
      BY <2>3, Layout
    <3>2. RapidRequest[i].size = 2
      BY <1>1, <3>1
    <3> QED BY <2>3, <3>2
  <2> QED BY <2>1, <2>2, <2>3
<1>3. /\ \A i \in 4..20 : RapidRequest[i].size = 4
      /\ \A i \in 21..37 : RapidRequest[i].size = 4
      /\ \A i \in 38..49 : RapidRequest[i].size = 4
  <2>1. \A i \in 4..20 : RapidRequest[i] = Field("target", RobTarget[i - 3], 4)
    BY Layout
  <2>2. \A i \in 21..37 : RapidRequest[i] = Field("extra_target", RobTarget[i - 20], 4)
    BY Layout
  <2>3. \A i \in 38..49 : RapidRequest[i] = Field("joint_target", JointTarget[i - 37], 4)
    BY Layout
  <2> QED BY <1>1, <2>1, <2>2, <2>3
<1>4. \A i \in 1..49 : i \in {1, 2, 3} \/ i \in 4..20 \/ i \in 21..37 \/ i \in 38..49
  OBVIOUS
<1> QED BY <1>2, <1>3, <1>4

\* The recursive definition of Ends has a solution, this one.
LEMMA EndsEquation ==
    Ends = [i \in 0..Len(RapidRequest) |->
               IF i = 0 THEN 0 ELSE Ends[i - 1] + RapidRequest[i].size]
<1>1. EndsAt = [i \in 0..Len(RapidRequest) |->
                  IF i = 0 THEN 0 ELSE EndsAt[i - 1] + RapidRequest[i].size]
  <2>1. \A i \in 1..49 : EndsAt[i] = EndsAt[i - 1] + RapidRequest[i].size
    BY SizesOfLayout DEF EndsAt
  <2>2. \A i \in 0..49 : EndsAt[i] = IF i = 0 THEN 0 ELSE EndsAt[i - 1] + RapidRequest[i].size
    BY <2>1 DEF EndsAt
  <2>3. 0..Len(RapidRequest) = 0..49
    BY Layout
  <2> QED BY <2>2, <2>3 DEF EndsAt
<1>2. Ends = CHOOSE f : f = [i \in 0..Len(RapidRequest) |->
                               IF i = 0 THEN 0 ELSE f[i - 1] + RapidRequest[i].size]
  BY DEF Ends
<1> QED BY <1>1, <1>2

\* And it has no other: there is no first member at which they would differ.
LEMMA EndsClosed ==
    /\ \A i \in 0..49 : Ends[i] = IF i <= 2 THEN i ELSE 4 * (i - 2)
    /\ RequestSize = 188
<1> DEFINE Differ == {i \in 0..49 : Ends[i] # EndsAt[i]}
<1>0. Differ \subseteq Nat /\ \A i \in Differ : i \in 0..49 /\ Ends[i] # EndsAt[i]
  OBVIOUS
<1>1. 0..Len(RapidRequest) = 0..49 /\ Len(RapidRequest) = 49
  BY Layout
<1>2. \A i \in 0..49 : Ends[i] = IF i = 0 THEN 0 ELSE Ends[i - 1] + RapidRequest[i].size
  BY <1>1, EndsEquation
<1>3. Differ = {}
  <2> SUFFICES ASSUME Differ # {} PROVE FALSE
    OBVIOUS
  <2>1. PICK i \in Differ : \A j \in Differ : i <= j
    <3> HIDE DEF Differ
    <3> QED BY <1>0, LeastNumber
  <2>2. i # 0
    <3>1. Ends[0] = 0 /\ EndsAt[0] = 0
      BY <1>2 DEF EndsAt
    <3> QED BY <2>1, <3>1
  <2>3. i \in 1..49 /\ i - 1 \in 0..49 /\ i - 1 \notin Differ
    <3>1. i \in 1..49 /\ i - 1 \in 0..49 /\ ~(i <= i - 1)
      BY <2>2
    <3> QED BY <2>1, <3>1
  <2>4. Ends[i - 1] = EndsAt[i - 1]
    BY <2>3
  <2>5. Ends[i] = EndsAt[i]
    <3>1. Ends[i] = Ends[i - 1] + RapidRequest[i].size
      BY <1>2, <2>2, <2>3
    <3>2. EndsAt[i] = EndsAt[i - 1] + RapidRequest[i].size
      BY <2>3, SizesOfLayout DEF EndsAt
    <3> QED BY <2>4, <3>1, <3>2
  <2> QED BY <2>1, <2>5
<1>4. \A i \in 0..49 : Ends[i] = IF i <= 2 THEN i ELSE 4 * (i - 2)
  BY <1>3 DEF EndsAt
<1> QED BY <1>1, <1>4 DEF RequestSize

-----------------------------------------------------------------------------
(* What parse_message reads *)

LEMMA FieldPart ==
    ASSUME NEW f, NEW part, NEW name, NEW size, f = Field(part, name, size)
    PROVE  f.part = part
  BY DEF Field

LEMMA FieldSize ==
    ASSUME NEW f, NEW part, NEW name, NEW size, f = Field(part, name, size)
    PROVE  f.size = size
  BY DEF Field

\* A member of another part is another member.
LEMMA OnePart ==
    ASSUME NEW f, NEW part, NEW name, NEW size, f = Field(part, name, size)
    PROVE  \A p : f = Field(p, name, size) <=> p = part
<1>1. ASSUME NEW p, f = Field(p, name, size) PROVE p = part
  <2>1. f.part = p
    BY <1>1, FieldPart
  <2>2. f.part = part
    BY FieldPart
  <2> QED BY <2>1, <2>2
<1> QED BY <1>1

\* The last byte of a member of this size that is at index.
LastByte(index, size) == index + size - 1

\* No two members end at the same byte: there is one member at most at an index.
LEMMA WhatIsThere ==
    ASSUME NEW i \in 1..49, NEW index, NEW part, NEW name, NEW size,
           Ends[i] = LastByte(index, size)
    PROVE  Holds(index, Field(part, name, size)) <=> RapidRequest[i] = Field(part, name, size)
<1> DEFINE f == Field(part, name, size)
<1>1. f.size = size
  BY FieldSize
<1>2. DOMAIN RapidRequest = 1..49
  BY Layout
<1>3. \A j \in 1..49 : Ends[j] = Ends[i] => j = i
  BY EndsClosed
<1> HIDE DEF f
<1>4. Holds(index, f) <=> \E j \in 1..49 : RapidRequest[j] = f /\ Ends[j] = LastByte(index, size)
  BY <1>1, <1>2 DEF Holds, LastByte
<1>5. Holds(index, f) <=> RapidRequest[i] = f
  BY <1>3, <1>4
<1> QED BY <1>5 DEF f

LEMMA PartsOfLayout == \A i \in 1..49 : RapidRequest[i].part \in Parts
  BY Layout DEF Parts

\* The member i has this form and is packed at index.
PackedAt(i, index, part, name, size) ==
    /\ i \in 1..49
    /\ Ends[i] = LastByte(index, size)
    /\ RapidRequest[i] = Field(part, name, size)

\* A member is read from where it is, and no other of its name and size is.
LEMMA MemberIsRead ==
    ASSUME NEW i \in 1..49, NEW index, NEW part, NEW name, NEW size,
           Ends[i] = LastByte(index, size), RapidRequest[i] = Field(part, name, size)
    PROVE  part \in Parts /\ \A p : Holds(index, Field(p, name, size)) <=> p = part
<1>1. PICK f : f = RapidRequest[i]
  OBVIOUS
<1>2. f = Field(part, name, size)
  BY <1>1
<1>3. ASSUME NEW p PROVE Holds(index, Field(p, name, size)) <=> p = part
  <2>1. Holds(index, Field(p, name, size)) <=> RapidRequest[i] = Field(p, name, size)
    BY WhatIsThere
  <2>2. f = Field(p, name, size) <=> p = part
    BY <1>2, OnePart
  <2> QED BY <1>1, <2>1, <2>2
<1>4. part \in Parts
  <2>1. f.part = part
    BY <1>2, FieldPart
  <2>2. f.part \in Parts
    BY <1>1, PartsOfLayout
  <2> QED BY <2>1, <2>2
<1> QED BY <1>3, <1>4

\* So a number is read from where it was put,
LEMMA NumberReadAsPacked ==
    ASSUME NEW i, NEW index, NEW part, NEW name, NEW size,
           PackedAt(i, index, part, name, size)
    PROVE  {p \in Parts : Holds(index, Field(p, name, size))} = {part}
  BY MemberIsRead DEF PackedAt

\* and so is a structure of words.
LEMMA WordsReadAsPacked ==
    ASSUME NEW part, NEW names, NEW n \in Nat \ {0}, DOMAIN names = 1..n, NEW k \in 3..(49 - n)
    PROVE  (\A i \in 1..n : RapidRequest[k + i] = Field(part, names[i], 4))
               => WordsAt(4 * (k - 1) - 3, names) = {part}
<1>0. SUFFICES ASSUME \A i \in 1..n : RapidRequest[k + i] = Field(part, names[i], 4)
               PROVE  WordsAt(4 * (k - 1) - 3, names) = {part}
  OBVIOUS
<1> DEFINE index == 4 * (k - 1) - 3
           At(i) == index + 4 * (i - 1)
<1>1. ASSUME NEW i \in 1..n
      PROVE  part \in Parts /\ \A p \in Parts : Holds(At(i), Field(p, names[i], 4)) <=> p = part
  <2>1. PICK j \in 1..49 : j = k + i
    OBVIOUS
  <2>2. PICK there : there = At(i)
    OBVIOUS
  <2>3. PICK size : size = 4
    OBVIOUS
  <2>4. PICK name : name = names[i]
    OBVIOUS
  <2>5. Ends[j] = LastByte(there, size)
    <3>1. 4 * (j - 2) = there + size - 1 /\ ~(j <= 2) /\ j \in 0..49
      BY <2>1, <2>2, <2>3
    <3>2. Ends[j] = 4 * (j - 2)
      BY <3>1, EndsClosed
    <3> QED BY <3>1, <3>2 DEF LastByte
  <2>6. RapidRequest[j] = Field(part, name, size)
    BY <1>0, <2>1, <2>3, <2>4
  <2> HIDE DEF At
  <2>7. {p \in Parts : Holds(there, Field(p, name, size))} = {part}
    <3>1. PackedAt(j, there, part, name, size)
      BY <2>5, <2>6 DEF PackedAt
    <3> QED BY <3>1, NumberReadAsPacked
  <2>8. {p \in Parts : Holds(At(i), Field(p, names[i], 4))} = {part}
    BY <2>2, <2>3, <2>4, <2>7
  <2> QED BY <2>8
<1>2. 1 \in 1..n
  OBVIOUS
<1>3. WordsAt(index, names) = {p \in Parts : \A i \in 1..n : Holds(At(i), Field(p, names[i], 4))}
  BY DEF WordsAt
<1> HIDE DEF index, At
<1>4. WordsAt(index, names) = {part}
  BY <1>1, <1>2, <1>3
<1> QED BY <1>4 DEF index

\* parse_message unpacks each part of a request from where RapidRequest has it: the
\* offsets of ParsingModule against the packed structure of data.hpp.
THEOREM RequestReadAsPacked ==
    /\ CommandRead = {"command_id"} /\ ZoneRead = {"zone"} /\ SpeedRead = {"speed"}
    /\ TargetRead = {"target"} /\ ExtraTargetRead = {"extra_target"}
    /\ JointTargetRead = {"joint_target"}
<1>1. CommandRead = {"command_id"}
  <2>1. PICK i \in 1..49 : i = 1
    OBVIOUS
  <2>2. PICK index : index = 1
    OBVIOUS
  <2>3. PICK size : size = 1
    OBVIOUS
  <2>4. PICK part, name : part = "command_id" /\ name = ""
    OBVIOUS
  <2>5. Ends[i] = LastByte(index, size)
    <3>1. Ends[i] = IF i <= 2 THEN i ELSE 4 * (i - 2)
      BY EndsClosed
    <3>2. index + size - 1 = IF i <= 2 THEN i ELSE 4 * (i - 2)
      BY <2>1, <2>2, <2>3
    <3> QED BY <3>1, <3>2 DEF LastByte
  <2>6. RapidRequest[i] = Field(part, name, size)
    BY <2>1, <2>3, <2>4, Layout
  <2>7. PackedAt(i, index, part, name, size)
    BY <2>5, <2>6 DEF PackedAt
  <2>8. {p \in Parts : Holds(index, Field(p, name, size))} = {part}
    BY <2>7, NumberReadAsPacked
  <2> QED BY <2>2, <2>3, <2>4, <2>8 DEF CommandRead, NumberAt
<1>2. ZoneRead = {"zone"}
  <2>1. PICK i \in 1..49 : i = 2
    OBVIOUS
  <2>2. PICK index : index = 2
    OBVIOUS
  <2>3. PICK size : size = 1
    OBVIOUS
  <2>4. PICK part, name : part = "zone" /\ name = ""
    OBVIOUS
  <2>5. Ends[i] = LastByte(index, size)
    <3>1. Ends[i] = IF i <= 2 THEN i ELSE 4 * (i - 2)
      BY EndsClosed
    <3>2. index + size - 1 = IF i <= 2 THEN i ELSE 4 * (i - 2)
      BY <2>1, <2>2, <2>3
    <3> QED BY <3>1, <3>2 DEF LastByte
  <2>6. RapidRequest[i] = Field(part, name, size)
    BY <2>1, <2>3, <2>4, Layout
  <2>7. PackedAt(i, index, part, name, size)
    BY <2>5, <2>6 DEF PackedAt
  <2>8. {p \in Parts : Holds(index, Field(p, name, size))} = {part}
    BY <2>7, NumberReadAsPacked
  <2> QED BY <2>2, <2>3, <2>4, <2>8 DEF ZoneRead, NumberAt
<1>3. SpeedRead = {"speed"}
  <2>1. PICK i \in 1..49 : i = 3
    OBVIOUS
  <2>2. PICK index : index = 3
    OBVIOUS
  <2>3. PICK size : size = 2
    OBVIOUS
  <2>4. PICK part, name : part = "speed" /\ name = ""
    OBVIOUS
  <2>5. Ends[i] = LastByte(index, size)
    <3>1. Ends[i] = IF i <= 2 THEN i ELSE 4 * (i - 2)
      BY EndsClosed
    <3>2. index + size - 1 = IF i <= 2 THEN i ELSE 4 * (i - 2)
      BY <2>1, <2>2, <2>3
    <3> QED BY <3>1, <3>2 DEF LastByte
  <2>6. RapidRequest[i] = Field(part, name, size)
    BY <2>1, <2>3, <2>4, Layout
  <2>7. PackedAt(i, index, part, name, size)
    BY <2>5, <2>6 DEF PackedAt
  <2>8. {p \in Parts : Holds(index, Field(p, name, size))} = {part}
    BY <2>7, NumberReadAsPacked
  <2> QED BY <2>2, <2>3, <2>4, <2>8 DEF SpeedRead, NumberAt
<1>4. TargetRead = {"target"}
  <2>1. PICK n \in Nat \ {0} : n = 17
    OBVIOUS
  <2>2. PICK k \in 3..(49 - n) : k = 3
    BY <2>1
  <2>3. DOMAIN RobTarget = 1..n
    BY <2>1, NamesOfWords
  <2>4. ASSUME NEW i \in 1..n PROVE RapidRequest[k + i] = Field("target", RobTarget[i], 4)
    <3>1. k + i \in 4..20 /\ (k + i) - 3 = i
      BY <2>1, <2>2
    <3> QED BY <3>1, Layout
  <2>5. WordsAt(4 * (k - 1) - 3, RobTarget) = {"target"}
    BY <2>3, <2>4, WordsReadAsPacked
  <2>6. 4 * (k - 1) - 3 = 5
    BY <2>2
  <2> QED BY <2>5, <2>6 DEF TargetRead
<1>5. ExtraTargetRead = {"extra_target"}
  <2>1. PICK n \in Nat \ {0} : n = 17
    OBVIOUS
  <2>2. PICK k \in 3..(49 - n) : k = 20
    BY <2>1
  <2>3. DOMAIN RobTarget = 1..n
    BY <2>1, NamesOfWords
  <2>4. ASSUME NEW i \in 1..n PROVE RapidRequest[k + i] = Field("extra_target", RobTarget[i], 4)
    <3>1. k + i \in 21..37 /\ (k + i) - 20 = i
      BY <2>1, <2>2
    <3> QED BY <3>1, Layout
  <2>5. WordsAt(4 * (k - 1) - 3, RobTarget) = {"extra_target"}
    BY <2>3, <2>4, WordsReadAsPacked
  <2>6. 4 * (k - 1) - 3 = 73
    BY <2>2
  <2> QED BY <2>5, <2>6 DEF ExtraTargetRead
<1>6. JointTargetRead = {"joint_target"}
  <2>1. PICK n \in Nat \ {0} : n = 12
    OBVIOUS
  <2>2. PICK k \in 3..(49 - n) : k = 37
    BY <2>1
  <2>3. DOMAIN JointTarget = 1..n
    BY <2>1, NamesOfWords
  <2>4. ASSUME NEW i \in 1..n PROVE RapidRequest[k + i] = Field("joint_target", JointTarget[i], 4)
    <3>1. k + i \in 38..49 /\ (k + i) - 37 = i
      BY <2>1, <2>2
    <3> QED BY <3>1, Layout
  <2>5. WordsAt(4 * (k - 1) - 3, JointTarget) = {"joint_target"}
    BY <2>3, <2>4, WordsReadAsPacked
  <2>6. 4 * (k - 1) - 3 = 141
    BY <2>2
  <2> QED BY <2>5, <2>6 DEF JointTargetRead
<1> QED BY <1>1, <1>2, <1>3, <1>4, <1>5, <1>6
=============================================================================
