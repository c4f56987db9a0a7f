---------------------------- MODULE SequenceFacts ----------------------------
(***************************************************************************)
(* What the operators on sequences do, for sequences of anything: records  *)
(* of several shapes share a queue.  IsUpdate names an update, so that the *)
(* facts about one can be cited.                                           *)
(***************************************************************************)
EXTENDS Integers, Sequences, TLAPS

IsSeq(s) == \E S : s \in Seq(S)

(* The empty sequence is one of no elements.                               *)
LEMMA EmptyIsSeq ==
  ASSUME NEW s, s = <<>>
  PROVE  IsSeq(s) /\ Len(s) = 0
<1>1. <<>> \in Seq({}) /\ Len(<<>>) = 0
  OBVIOUS
<1>2. s \in Seq({}) /\ Len(s) = 0
  BY <1>1, Zenon
<1> QED
  BY <1>2 DEF IsSeq

(* What Append does.                                                       *)
LEMMA AppendToSeq ==
  ASSUME NEW s, IsSeq(s), NEW e
  PROVE  /\ IsSeq(Append(s, e)) /\ Len(s) \in Nat
         /\ Len(Append(s, e)) = Len(s) + 1
         /\ \A i \in 1 .. Len(s) : Append(s, e)[i] = s[i]
         /\ Append(s, e)[Len(s) + 1] = e
<1>1. PICK S : s \in Seq(S)
  BY DEF IsSeq
<1> DEFINE T == S \cup {e}
<1>2. s \in Seq(T) /\ e \in T
  BY <1>1
<1> HIDE DEF T
<1>3. Append(s, e) \in Seq(T)
  BY <1>2
<1> QED
  BY <1>2, <1>3 DEF IsSeq

(* What Tail does.                                                         *)
LEMMA TailOfSeq ==
  ASSUME NEW s, IsSeq(s), s # <<>>
  PROVE  /\ IsSeq(Tail(s)) /\ Len(s) \in Nat \ {0}
         /\ Len(Tail(s)) = Len(s) - 1 /\ Head(s) = s[1]
         /\ \A i \in 1 .. Len(s) - 1 : Tail(s)[i] = s[i + 1]
<1>1. PICK S : s \in Seq(S)
  BY DEF IsSeq
<1>2. Tail(s) \in Seq(S)
  BY <1>1
<1> QED
  BY <1>1, <1>2 DEF IsSeq

(* u is s and then t.                                                      *)
Joins(u, s, t) ==
  /\ IsSeq(u) /\ Len(s) \in Nat /\ Len(t) \in Nat
  /\ Len(u) = Len(s) + Len(t)
  /\ \A i \in 1 .. Len(s) : u[i] = s[i]
  /\ \A i \in 1 .. Len(t) : u[Len(s) + i] = t[i]

(* What joining two sequences does.                                        *)
LEMMA JoinOfSeqs ==
  ASSUME NEW s, NEW t, IsSeq(s), IsSeq(t)
  PROVE  Joins(s \o t, s, t)
<1>1. PICK S, T : s \in Seq(S) /\ t \in Seq(T)
  BY DEF IsSeq
<1> DEFINE U == S \cup T
<1>2. s \in Seq(U) /\ t \in Seq(U)
  BY <1>1
<1> HIDE DEF U
<1>3. s \o t \in Seq(U) /\ Len(s \o t) = Len(s) + Len(t)
  BY <1>2
<1> QED
  BY <1>2, <1>3 DEF IsSeq, Joins

(* Sequences with the same elements are the same.                          *)
LEMMA SameSeq ==
  ASSUME NEW s, NEW t, IsSeq(s), IsSeq(t), Len(s) = Len(t),
         \A i \in 1 .. Len(s) : s[i] = t[i]
  PROVE  s = t
<1>1. PICK S, T : s \in Seq(S) /\ t \in Seq(T)
  BY DEF IsSeq
<1>2. PICK n : n = Len(s)
  OBVIOUS
<1>3. s = [i \in 1 .. n |-> s[i]]
  BY <1>1, <1>2
<1>4. t = [i \in 1 .. n |-> t[i]]
  BY <1>1, <1>2
<1>5. \A i \in 1 .. n : s[i] = t[i]
  BY <1>2
<1> HIDE <1>1, <1>2
<1>6. [i \in 1 .. n |-> s[i]] = [i \in 1 .. n |-> t[i]]
  BY <1>5, Zenon
<1> QED
  BY <1>3, <1>4, <1>6, Zenon

IsUpdate(u, s, w, e) == u = [s EXCEPT ![w] = e]

(* What replacing an element does.                                         *)
LEMMA ExceptOfSeq ==
  ASSUME NEW s, IsSeq(s), NEW w \in 1 .. Len(s), NEW e,
         NEW u, IsUpdate(u, s, w, e)
  PROVE  /\ IsSeq(u) /\ Len(u) = Len(s) /\ Len(s) \in Nat
         /\ u[w] = e /\ \A i \in 1 .. Len(s) : i # w => u[i] = s[i]
<1>1. PICK S : s \in Seq(S)
  BY DEF IsSeq
<1> DEFINE T == S \cup {e}
<1>2. s \in Seq(T) /\ e \in T
  BY <1>1
<1> HIDE DEF T
<1>3. u \in Seq(T) /\ Len(u) = Len(s)
  BY <1>2 DEF IsUpdate
<1> QED
  BY <1>2, <1>3 DEF IsSeq, IsUpdate
=============================================================================
