----------------------------- MODULE FifoMutex -----------------------------
(***************************************************************************)
(* The queue of a mutex as a sequence without repetition: what its proofs  *)
(* need to know of joining it at the end and leaving it at the front.       *)
(***************************************************************************)
EXTENDS Naturals, Sequences, TLAPS

In(s, x) == \E i \in 1 .. Len(s) : s[i] = x
OnceIn(s) == \A i, j \in 1 .. Len(s) : s[i] = s[j] => i = j
First(s, x) == Len(s) > 0 /\ s[1] = x

(* At the end of a queue comes who was not in it, and the first stays. *)
LEMMA AppendQueue ==
  ASSUME NEW S, NEW s \in Seq(S), NEW e \in S, ~In(s, e), OnceIn(s)
  PROVE  /\ Append(s, e) \in Seq(S) /\ OnceIn(Append(s, e))
         /\ \A x : In(Append(s, e), x) <=> In(s, x) \/ x = e
         /\ \A x : First(s, x) => First(Append(s, e), x)
<1> DEFINE t == Append(s, e)
<1>1. /\ t \in Seq(S) /\ Len(s) \in Nat /\ Len(t) = Len(s) + 1
      /\ t[Len(s) + 1] = e /\ \A i \in 1 .. Len(s) : t[i] = s[i]
  OBVIOUS
<1> HIDE DEF t
<1>2. \A x : In(t, x) <=> In(s, x) \/ x = e
  <2> SUFFICES ASSUME NEW x PROVE In(t, x) <=> In(s, x) \/ x = e
    OBVIOUS
  <2>1. ASSUME In(t, x) PROVE In(s, x) \/ x = e
    <3>1. PICK i \in 1 .. Len(t) : t[i] = x
      BY <2>1 DEF In
    <3>2. i \in 1 .. Len(s) \/ i = Len(s) + 1
      BY <1>1
    <3> QED
      BY <1>1, <3>1, <3>2 DEF In
  <2>2. ASSUME In(s, x) PROVE In(t, x)
    <3>1. PICK i \in 1 .. Len(s) : s[i] = x
      BY <2>2 DEF In
    <3>2. i \in 1 .. Len(t) /\ t[i] = x
      BY <1>1, <3>1
    <3> QED
      BY <3>2 DEF In
  <2>3. ASSUME x = e PROVE In(t, x)
    <3>1. Len(s) + 1 \in 1 .. Len(t)
      BY <1>1
    <3> QED
      BY <1>1, <2>3, <3>1 DEF In
  <2> QED
    BY <2>1, <2>2, <2>3
<1>3. OnceIn(t)
  <2> SUFFICES ASSUME NEW i \in 1 .. Len(t), NEW j \in 1 .. Len(t), t[i] = t[j]
               PROVE  i = j
    BY DEF OnceIn
  <2>1. /\ i \in 1 .. Len(s) \/ i = Len(s) + 1
        /\ j \in 1 .. Len(s) \/ j = Len(s) + 1
    BY <1>1
  <2> QED
    BY <1>1, <2>1 DEF OnceIn, In
<1>4. \A x : First(s, x) => First(t, x)
  BY <1>1 DEF First
<1> QED
  BY <1>1, <1>2, <1>3, <1>4 DEF t

(* Without its first, a queue holds the others. *)
LEMMA TailQueue ==
  ASSUME NEW S, NEW s \in Seq(S), Len(s) > 0, OnceIn(s)
  PROVE  /\ Tail(s) \in Seq(S) /\ OnceIn(Tail(s))
         /\ \A x : In(Tail(s), x) <=> In(s, x) /\ x # s[1]
<1> DEFINE t == Tail(s)
<1>1. /\ t \in Seq(S) /\ Len(s) \in Nat /\ Len(t) = Len(s) - 1
      /\ \A i \in 1 .. Len(t) : t[i] = s[i + 1]
  OBVIOUS
<1> HIDE DEF t
<1>2. OnceIn(t)
  <2> SUFFICES ASSUME NEW i \in 1 .. Len(t), NEW j \in 1 .. Len(t), t[i] = t[j]
               PROVE  i = j
    BY DEF OnceIn
  <2>1. i + 1 \in 1 .. Len(s) /\ j + 1 \in 1 .. Len(s) /\ s[i + 1] = s[j + 1]
    BY <1>1
  <2>2. i + 1 = j + 1
    BY <2>1 DEF OnceIn
  <2> QED
    BY <2>2
<1>3. \A x : In(t, x) <=> In(s, x) /\ x # s[1]
  <2> SUFFICES ASSUME NEW x PROVE In(t, x) <=> In(s, x) /\ x # s[1]
    OBVIOUS
  <2>1. ASSUME In(t, x) PROVE In(s, x) /\ x # s[1]
    <3>1. PICK i \in 1 .. Len(t) : t[i] = x
      BY <2>1 DEF In
    <3>2. i + 1 \in 1 .. Len(s) /\ 1 \in 1 .. Len(s) /\ s[i + 1] = x /\ i + 1 # 1
      BY <1>1, <3>1
    <3> QED
      BY <3>2 DEF In, OnceIn
  <2>2. ASSUME In(s, x), x # s[1] PROVE In(t, x)
    <3>1. PICK i \in 1 .. Len(s) : s[i] = x
      BY <2>2 DEF In
    <3>2. i - 1 \in 1 .. Len(t) /\ t[i - 1] = x
      <4>1. i # 1
        BY <2>2, <3>1
      <4>2. i - 1 \in 1 .. Len(t) /\ (i - 1) + 1 = i
        BY <1>1, <4>1
      <4> QED
        BY <1>1, <3>1, <4>2
    <3> QED
      BY <3>2 DEF In
  <2> QED
    BY <2>1, <2>2
<1> QED
  BY <1>1, <1>2, <1>3 DEF t
=============================================================================
