---------------------------- MODULE BrowserProofs ----------------------------
(***************************************************************************)
(* Theorems about Browser, for any set of conversations, texts and keys    *)
(* and any number of calls, frames, navigations and faults.                *)
(*                                                                         *)
(* The argument about the chat counts a text: the tab has streamed it as   *)
(* often as the user has sent it, every history that is or will be fetched *)
(* repeats it at most as often as it was stored before and saved since,    *)
(* and a merge repeats it as often as that of the two that has it more     *)
(* often.                                                                  *)
(***************************************************************************)
EXTENDS Browser, SequenceTheorems, FiniteSetTheorems, FunctionTheorems, TLAPS

-----------------------------------------------------------------------------
(* Merging: the places of a message and their ranks                        *)

\* The places of a sequence, or some of them, are finitely many numbers.
LEMMA PlacesAreFinite ==
  ASSUME NEW n \in Nat, NEW S, S \subseteq 1..n
  PROVE  /\ IsFiniteSet(S) /\ Cardinality(S) \in Nat /\ Cardinality(S) <= n
         /\ S \subseteq Nat
<1>1. IsFiniteSet(1..n) /\ Cardinality(1..n) = n
  BY FS_Interval
<1>2. IsFiniteSet(S) /\ Cardinality(S) <= n
  BY <1>1, FS_Subset
<1>3. Cardinality(S) \in Nat
  BY <1>2, FS_CardinalityType
<1> QED
  BY <1>2, <1>3

\* Ranks number the places of a set in order, from 1 to how many they are.
LEMMA Ranks ==
  ASSUME NEW n \in Nat, NEW S, S \subseteq 1..n
  PROVE  /\ \A i \in S : Rank(S, i) \in 1..Cardinality(S)
         /\ \A i, j \in S : i < j => Rank(S, i) < Rank(S, j)
         /\ \A i, j \in S : Rank(S, i) = Rank(S, j) => i = j
         /\ \A k \in 1..Cardinality(S) : \E i \in S : Rank(S, i) = k
<1> DEFINE UpTo(i) == {j \in S : j <= i}
<1>0. IsFiniteSet(S) /\ Cardinality(S) \in Nat /\ S \subseteq Nat
  BY PlacesAreFinite
<1>1. ASSUME NEW i \in S
      PROVE  /\ IsFiniteSet(UpTo(i)) /\ Rank(S, i) = Cardinality(UpTo(i))
             /\ Rank(S, i) \in Nat /\ Rank(S, i) <= Cardinality(S)
  <2>1. IsFiniteSet(UpTo(i)) /\ Cardinality(UpTo(i)) <= Cardinality(S)
    BY <1>0, FS_Subset
  <2>2. Rank(S, i) = Cardinality(UpTo(i))
    BY DEF Rank
  <2> QED
    BY <2>1, <2>2, FS_CardinalityType
<1>2. ASSUME NEW i \in S PROVE Rank(S, i) # 0
  <2>1. i \in UpTo(i)
    BY <1>0
  <2> QED
    BY <1>1, <2>1, FS_EmptySet
<1>3. ASSUME NEW i \in S, NEW j \in S, i < j PROVE Rank(S, i) < Rank(S, j)
  <2>0. i \in Nat /\ j \in Nat
    BY <1>0
  <2>1. UpTo(i) \subseteq UpTo(j) /\ UpTo(i) # UpTo(j)
    <3>1. \A k \in Nat : k <= i => k <= j
      BY <1>3, <2>0
    <3>2. j \in UpTo(j) /\ j \notin UpTo(i)
      BY <1>3, <2>0
    <3> QED
      BY <1>0, <3>1, <3>2
  <2>2. Rank(S, i) <= Rank(S, j) /\ Rank(S, i) # Rank(S, j)
    <3> HIDE DEF UpTo
    <3> QED
      BY <1>1, <2>1, FS_Subset
  <2>3. Rank(S, i) \in Nat /\ Rank(S, j) \in Nat
    BY <1>1
  <2> QED
    BY <2>2, <2>3
<1>4. \A i, j \in S : Rank(S, i) = Rank(S, j) => i = j
  <2> SUFFICES ASSUME NEW i \in S, NEW j \in S, i # j PROVE Rank(S, i) # Rank(S, j)
    OBVIOUS
  <2>1. i < j \/ j < i
    BY <1>0
  <2>2. Rank(S, i) \in Nat /\ Rank(S, j) \in Nat
    BY <1>1
  <2> QED
    BY <1>3, <2>1, <2>2
<1>5. ASSUME NEW i \in S PROVE Rank(S, i) \in 1..Cardinality(S)
  <2>1. Rank(S, i) \in Nat /\ Rank(S, i) <= Cardinality(S) /\ Rank(S, i) # 0
    BY <1>1, <1>2
  <2> QED
    BY <1>0, <2>1
<1> DEFINE f == [i \in S |-> Rank(S, i)]
<1>6. f \in Injection(S, 1..Cardinality(S))
  BY <1>4, <1>5 DEF Injection, IsInjective
<1>7. IsFiniteSet(1..Cardinality(S)) /\ Cardinality(1..Cardinality(S)) = Cardinality(S)
  BY <1>0, FS_Interval
<1>8. f \in Surjection(S, 1..Cardinality(S))
  BY <1>6, <1>7, FS_Injection
<1>9. \A k \in 1..Cardinality(S) : \E i \in S : Rank(S, i) = k
  BY <1>8 DEF Surjection
<1> QED
  BY <1>3, <1>4, <1>5, <1>9

\* R holds the ranks in S of the places X.
AreRanks(R, X, S) ==
  /\ \A i \in X : Rank(S, i) \in R
  /\ \A q \in R : \E i \in X : q = Rank(S, i)

\* Places are as many as their ranks.
LEMMA AsManyRanks ==
  ASSUME NEW n \in Nat, NEW S, S \subseteq 1..n, NEW X, X \subseteq S,
         NEW R, AreRanks(R, X, S)
  PROVE  Cardinality(R) = Cardinality(X)
<1> DEFINE f == [i \in X |-> Rank(S, i)]
<1>1. f \in Bijection(X, R)
  BY Ranks DEF AreRanks, Bijection, Injection, Surjection, IsInjective
<1>2. IsFiniteSet(X)
  BY PlacesAreFinite, FS_Subset
<1> QED
  BY <1>1, <1>2, FS_Bijection DEF ExistsBijection

\* The messages at the places new of the stream come after the history.
Joins(h, s, new, merged) ==
  /\ Len(merged) = Len(h) + Cardinality(new)
  /\ new \subseteq 1..Len(s) /\ Cardinality(new) \in Nat
  /\ \A i \in 1..Len(h) : merged[i] = h[i]
  /\ \A i \in new : /\ Rank(new, i) \in 1..Cardinality(new)
                    /\ merged[Len(h) + Rank(new, i)] = s[i]
  /\ \A k \in 1..Cardinality(new) :
       \E i \in new : Rank(new, i) = k /\ merged[Len(h) + k] = s[i]

\* What the history lacks of the stream follows it, in the order of the stream.
LEMMA Merged ==
  ASSUME NEW T, NEW h \in Seq(T), NEW s \in Seq(T)
  PROVE  /\ MergeMessageHistory(h, s) \in Seq(T)
         /\ Joins(h, s, Unmatched(h, s), MergeMessageHistory(h, s))
<1> DEFINE new == Unmatched(h, s)
<1> DEFINE merged == MergeMessageHistory(h, s)
<1> DEFINE rest == [k \in 1..Cardinality(new) |-> s[CHOOSE i \in new : Rank(new, i) = k]]
<1>1. Len(s) \in Nat /\ new \subseteq 1..Len(s) /\ Len(h) \in Nat
  BY LenProperties DEF Unmatched
<1>2. Cardinality(new) \in Nat
  BY <1>1, PlacesAreFinite
<1>3. \A i \in new : /\ Rank(new, i) \in 1..Cardinality(new)
                     /\ (CHOOSE j \in new : Rank(new, j) = Rank(new, i)) = i
  BY <1>1, Ranks
<1>4. \A k \in 1..Cardinality(new) : \E i \in new : Rank(new, i) = k
  BY <1>1, Ranks
<1>5. \A i \in new : rest[Rank(new, i)] = s[i]
  BY <1>3
<1>6. \A k \in 1..Cardinality(new) : rest[k] \in T
  BY <1>1, <1>4, <1>5, ElementOfSeq
<1>7. rest \in [1..Cardinality(new) -> T]
  BY <1>6
<1>8. merged = h \o rest
  BY DEF MergeMessageHistory
<1> HIDE DEF rest, new, merged
<1>9. rest \in Seq(T) /\ Len(rest) = Cardinality(new)
  <2>1. rest \in Seq(T)
    BY <1>2, <1>7, SeqDef
  <2>2. DOMAIN rest = 1..Cardinality(new) /\ DOMAIN rest = 1..Len(rest) /\ Len(rest) \in Nat
    BY <1>7, <2>1, LenProperties
  <2> QED
    BY <1>2, <2>1, <2>2
<1>10. /\ merged \in Seq(T) /\ Len(merged) = Len(h) + Cardinality(new)
       /\ \A i \in 1..Len(h) + Cardinality(new) :
            merged[i] = IF i <= Len(h) THEN h[i] ELSE rest[i - Len(h)]
  <2>1. /\ h \o rest \in Seq(T) /\ Len(h \o rest) = Len(h) + Len(rest)
        /\ \A i \in 1..Len(h) + Len(rest) :
             (h \o rest)[i] = IF i <= Len(h) THEN h[i] ELSE rest[i - Len(h)]
    BY <1>9, ConcatProperties
  <2> QED
    BY <1>8, <1>9, <2>1
<1>11. \A i \in 1..Len(h) : merged[i] = h[i]
  BY <1>1, <1>2, <1>10
<1>12. \A k \in 1..Cardinality(new) : merged[Len(h) + k] = rest[k]
  BY <1>1, <1>2, <1>10
<1>13. \A i \in new : merged[Len(h) + Rank(new, i)] = s[i]
  BY <1>3, <1>5, <1>12
<1>14. \A k \in 1..Cardinality(new) :
         \E i \in new : Rank(new, i) = k /\ merged[Len(h) + k] = s[i]
  BY <1>4, <1>13
<1> QED
  BY <1>1, <1>2, <1>3, <1>10, <1>11, <1>13, <1>14 DEF Joins, new, merged

-----------------------------------------------------------------------------
(* Merging: how often a message is in it                                   *)

\* A message is in a sequence a number of times.
LEMMA CountIsNat ==
  ASSUME NEW T, NEW s \in Seq(T), NEW m
  PROVE  /\ Len(s) \in Nat /\ DOMAIN s = 1..Len(s)
         /\ Places(s, m) \subseteq 1..Len(s)
         /\ IsFiniteSet(Places(s, m)) /\ Count(s, m) \in Nat
<1>1. Len(s) \in Nat /\ DOMAIN s = 1..Len(s)
  BY LenProperties
<1>2. Places(s, m) \subseteq 1..Len(s)
  BY <1>1 DEF Places
<1> QED
  BY <1>1, <1>2, PlacesAreFinite DEF Count

\* Whatever the history and the stream: their merge has a message as often as that of
\* the two that has it more often. What both know is shown once, and what was said
\* twice is shown twice (mergeMessageHistory).
THEOREM MergedCount ==
  ASSUME NEW T, NEW h \in Seq(T), NEW s \in Seq(T), NEW m
  PROVE  Count(MergeMessageHistory(h, s), m)
           = IF Count(h, m) > Count(s, m) THEN Count(h, m) ELSE Count(s, m)
<1> DEFINE merged == MergeMessageHistory(h, s)
<1> DEFINE new == Unmatched(h, s)
<1> DEFINE n == Count(h, m)
<1> DEFINE A == Places(h, m)
<1> DEFINE S == Places(s, m)
<1> DEFINE X == {i \in S : Rank(S, i) > n}
<1> DEFINE B == {y \in Places(merged, m) : y > Len(h)}
<1>1. /\ Len(h) \in Nat /\ A \subseteq 1..Len(h) /\ IsFiniteSet(A) /\ n \in Nat
      /\ n = Cardinality(A)
      /\ Len(s) \in Nat /\ S \subseteq 1..Len(s) /\ DOMAIN s = 1..Len(s)
      /\ DOMAIN h = 1..Len(h) /\ Cardinality(S) \in Nat
  BY CountIsNat DEF Count
<1>2. merged \in Seq(T) /\ Joins(h, s, new, merged)
  BY Merged
<1>3. /\ Len(merged) = Len(h) + Cardinality(new)
      /\ new \subseteq 1..Len(s) /\ Cardinality(new) \in Nat
      /\ \A i \in 1..Len(h) : merged[i] = h[i]
      /\ \A i \in new : /\ Rank(new, i) \in 1..Cardinality(new)
                        /\ merged[Len(h) + Rank(new, i)] = s[i]
      /\ \A k \in 1..Cardinality(new) :
           \E i \in new : Rank(new, i) = k /\ merged[Len(h) + k] = s[i]
  BY <1>2 DEF Joins
<1>4. /\ DOMAIN merged = 1..Len(merged)
      /\ Places(merged, m) = {y \in 1..Len(merged) : merged[y] = m}
  BY <1>2, LenProperties DEF Places
<1>5. \A i \in 1..Len(s) : i \in X <=> i \in new /\ s[i] = m
  BY <1>1 DEF Unmatched, Places
<1>6. X \subseteq S /\ X \subseteq new
  BY <1>1, <1>5
<1>7. \A i, j \in new : Rank(new, i) = Rank(new, j) => i = j
  BY <1>1, <1>3, Ranks
<1>8. Cardinality(X) = IF Cardinality(S) > n THEN Cardinality(S) - n ELSE 0
  <2> DEFINE R == n + 1..Cardinality(S)
  <2> HIDE DEF S, n
  <2>1. \A i \in S : Rank(S, i) \in 1..Cardinality(S)
    BY <1>1, Ranks
  <2>2. \A k \in 1..Cardinality(S) : \E i \in S : Rank(S, i) = k
    BY <1>1, Ranks
  <2>3. AreRanks(R, X, S)
    <3>1. ASSUME NEW i \in X PROVE Rank(S, i) \in R
      <4>1. Rank(S, i) \in 1..Cardinality(S) /\ Rank(S, i) > n
        BY <2>1
      <4> QED
        BY <1>1, <4>1
    <3>2. \A q \in R : \E i \in X : q = Rank(S, i)
      <4> SUFFICES ASSUME NEW q \in R PROVE \E i \in X : q = Rank(S, i)
        OBVIOUS
      <4>1. q \in 1..Cardinality(S) /\ q > n
        BY <1>1
      <4>2. PICK i \in S : Rank(S, i) = q
        BY <2>2, <4>1
      <4> QED
        BY <4>1, <4>2
    <3> QED
      BY <3>1, <3>2 DEF AreRanks
  <2>4. X \subseteq S
    OBVIOUS
  <2> HIDE DEF R, X
  <2>5. Cardinality(R) = Cardinality(X)
    BY <1>1, <2>3, <2>4, AsManyRanks
  <2>6. Cardinality(n + 1..Cardinality(S))
          = IF n + 1 > Cardinality(S) THEN 0 ELSE Cardinality(S) - (n + 1) + 1
    <3>1. n + 1 \in Int /\ Cardinality(S) \in Int
      BY <1>1
    <3> QED
      BY ONLY <3>1, FS_Interval
  <2> QED
    BY <1>1, <2>5, <2>6 DEF R
<1> HIDE DEF merged, new, n, A, S, X
<1>9. IsFiniteSet(B) /\ Cardinality(B) = Cardinality(X)
  <2> DEFINE f == [i \in X |-> Len(h) + Rank(new, i)]
  <2>1. ASSUME NEW i \in X PROVE Len(h) + Rank(new, i) \in B
    <3>1. i \in new /\ s[i] = m
      BY <1>1, <1>3, <1>5, <1>6
    <3>2. Rank(new, i) \in 1..Cardinality(new) /\ merged[Len(h) + Rank(new, i)] = m
      BY <1>3, <3>1
    <3>3. Len(h) + Rank(new, i) \in 1..Len(merged) /\ Len(h) + Rank(new, i) > Len(h)
      BY <1>1, <1>3, <3>2
    <3> QED
      BY <1>4, <3>2, <3>3
  <2>2. ASSUME NEW i \in X, NEW j \in X, Len(h) + Rank(new, i) = Len(h) + Rank(new, j)
        PROVE  i = j
    <3>1. i \in new /\ j \in new /\ Rank(new, i) \in Nat /\ Rank(new, j) \in Nat
      BY <1>3, <1>6
    <3>2. Rank(new, i) = Rank(new, j)
      BY <1>1, <2>2, <3>1
    <3> QED
      BY <1>7, <3>1, <3>2
  <2>3. ASSUME NEW y \in B PROVE \E i \in X : Len(h) + Rank(new, i) = y
    <3>1. y \in 1..Len(merged) /\ merged[y] = m /\ y > Len(h)
      BY <1>4
    <3>2. y - Len(h) \in 1..Cardinality(new) /\ Len(h) + (y - Len(h)) = y
      BY <1>1, <1>3, <3>1
    <3>3. PICK i \in new : Rank(new, i) = y - Len(h) /\ merged[Len(h) + (y - Len(h))] = s[i]
      BY <1>3, <3>2
    <3>4. i \in X
      BY <1>3, <1>5, <3>1, <3>2, <3>3
    <3> QED
      BY <3>2, <3>3, <3>4
  <2> HIDE DEF B
  <2>4. f \in Bijection(X, B)
    BY <2>1, <2>2, <2>3 DEF Bijection, Injection, Surjection, IsInjective
  <2>5. IsFiniteSet(X)
    BY <1>1, <1>6, PlacesAreFinite, FS_Subset
  <2> QED
    BY <2>4, <2>5, FS_Bijection DEF ExistsBijection
<1>10. Places(merged, m) = A \union B /\ A \cap B = {}
  <2>1. \A y \in A : y \in 1..Len(merged) /\ merged[y] = m /\ ~(y > Len(h))
    <3>1. \A y \in A : y \in 1..Len(h) /\ h[y] = m
      BY <1>1 DEF A, Places
    <3>2. \A y \in 1..Len(h) : y \in 1..Len(merged) /\ ~(y > Len(h))
      BY <1>1, <1>3
    <3> QED
      BY <1>3, <3>1, <3>2
  <2>2. \A y \in 1..Len(merged) : merged[y] = m /\ ~(y > Len(h)) => y \in A
    <3>1. \A y \in 1..Len(merged) : ~(y > Len(h)) => y \in 1..Len(h)
      BY <1>1, <1>3
    <3> QED
      BY <1>1, <1>3, <3>1 DEF A, Places
  <2> QED
    BY <1>4, <2>1, <2>2
<1>11. Cardinality(Places(merged, m)) = Cardinality(A) + Cardinality(B)
  <2> HIDE DEF B
  <2>1. Cardinality(A \union B) = Cardinality(A) + Cardinality(B) - Cardinality(A \cap B)
    BY <1>1, <1>9, FS_Union
  <2>2. Cardinality(A \cap B) = 0
    BY <1>10, FS_EmptySet
  <2>3. Cardinality(A) \in Nat /\ Cardinality(B) \in Nat
    BY <1>1, <1>9, FS_CardinalityType
  <2> QED
    BY <1>10, <2>1, <2>2, <2>3
<1>12. /\ Count(merged, m) = n + Cardinality(X)
       /\ Count(s, m) = Cardinality(S) /\ Count(h, m) = n
  BY <1>1, <1>9, <1>11 DEF Count, S, n
<1> QED
  BY <1>1, <1>8, <1>12 DEF merged

\* What is appended counts once more.
LEMMA CountMore ==
  ASSUME NEW T, NEW s \in Seq(T), NEW x \in T, NEW m
  PROVE  /\ Append(s, x) \in Seq(T)
         /\ Count(Append(s, x), m) = Count(s, m) + (IF x = m THEN 1 ELSE 0)
<1> DEFINE more == Append(s, x)
<1>1. /\ more \in Seq(T) /\ Len(s) \in Nat /\ Len(more) = Len(s) + 1
      /\ DOMAIN s = 1..Len(s) /\ DOMAIN more = 1..Len(more)
      /\ \A i \in 1..Len(s) : more[i] = s[i]
      /\ more[Len(s) + 1] = x
  BY AppendProperties, LenProperties
<1>2. Places(s, m) \subseteq 1..Len(s) /\ IsFiniteSet(Places(s, m)) /\ Count(s, m) \in Nat
  BY CountIsNat
<1> HIDE DEF more
<1>3. CASE x = m
  <2>1. Places(more, m) = Places(s, m) \union {Len(s) + 1} /\ Len(s) + 1 \notin Places(s, m)
    BY <1>1, <1>2, <1>3 DEF Places
  <2>2. Cardinality(Places(more, m)) = Cardinality(Places(s, m)) + 1
    BY <1>2, <2>1, FS_AddElement
  <2> QED
    BY <1>1, <1>3, <2>2 DEF Count, more
<1>4. CASE x # m
  <2>1. Places(more, m) = Places(s, m)
    BY <1>1, <1>2, <1>4 DEF Places
  <2> QED
    BY <1>1, <1>2, <1>4, <2>1 DEF Count, more
<1> QED
  BY <1>3, <1>4

-----------------------------------------------------------------------------
(* The socket                                                              *)

ChatFrame == {Frame(type, None) : type \in ChatFrames}
FileFrame == {Frame(type, key) : type \in FileFrames, key \in Keys}
Frames    == ChatFrame \union FileFrame

Socket == SocketTypeOK /\ inbox \in Seq(Frames)

\* The calls of the page and the events of the socket keep its types.
LEMMA SocketAside == ASSUME Socket, UNCHANGED socketVars PROVE Socket'
BY DEF Socket, SocketTypeOK, socketVars

LEMMA SocketConnect == ASSUME Socket, NEW c \in Conversations, Connect(c) PROVE Socket'
<1>1. CASE Connected(c)
  BY <1>1, SocketAside DEF Connect
<1>2. CASE ~Connected(c)
  BY <1>2, NoneAssumption, EmptySeq DEF Connect, Socket, SocketTypeOK
<1> QED
  BY <1>1, <1>2

LEMMA SocketDisconnect == ASSUME Socket, Disconnect PROVE Socket'
BY EmptySeq DEF Disconnect, Socket, SocketTypeOK

LEMMA SocketEvents == ASSUME Socket, Opens \/ Drops \/ OnClose \/ TimerFires PROVE Socket'
<1> USE DEF Socket, SocketTypeOK
<1>1. CASE Opens
  BY <1>1 DEF Opens
<1>2. CASE Drops
  BY <1>2, EmptySeq DEF Drops
<1>3. CASE OnClose
  BY <1>3 DEF OnClose
<1>4. CASE TimerFires
  BY <1>4 DEF TimerFires
<1> QED
  BY <1>1, <1>2, <1>3, <1>4

LEMMA SocketPublish ==
  ASSUME Socket, NEW c, NEW frame \in Frames, Publish(c, frame) PROVE Socket'
<1>1. Append(inbox, frame) \in Seq(Frames)
  BY AppendProperties DEF Socket
<1>2. inbox' \in Seq(Frames) /\ UNCHANGED <<wanted, socket, timer>>
  BY <1>1 DEF Publish, Socket
<1> QED
  BY <1>2 DEF Socket, SocketTypeOK

-----------------------------------------------------------------------------
(* Messages sent and file requests                                         *)

Sends == [to : Conversations \union {None}, new : BOOLEAN, text : Texts, stage : SendStages]

\* A message that the backend has accepted has its conversation, so the tab never
\* connects to none.
Sent ==
  /\ sends \in Seq(Sends)
  /\ \A i \in 1..Len(sends) :
       sends[i].stage \in {"saved", "queued", "returned"} => sends[i].to \in Conversations

Requests == [of : Conversations, key : Keys, call : Calls, promise : Promises]

\* Every entry is registered before its call is made.
Requested ==
  /\ requests \in Seq(Requests) /\ jobs \subseteq 1..Len(requests)
  /\ \A r \in 1..Len(requests) : requests[r].promise # "new"

\* Steps that leave the messages, or the requests, alone.
LEMMA SentAside == ASSUME Sent, UNCHANGED sends PROVE Sent'
BY DEF Sent

LEMMA RequestedAside == ASSUME Requested, UNCHANGED <<requests, jobs>> PROVE Requested'
BY DEF Requested

\* One message changes.
LEMMA SentOne ==
  ASSUME Sent, NEW i \in DOMAIN sends, NEW m \in Sends, sends' = [sends EXCEPT ![i] = m],
         m.stage \in {"saved", "queued", "returned"} => m.to \in Conversations
  PROVE  /\ Sent' /\ DOMAIN sends' = DOMAIN sends /\ sends'[i] = m
         /\ \A j \in DOMAIN sends : j # i => sends'[j] = sends[j]
<1>1. sends \in Seq(Sends) /\ DOMAIN sends = 1..Len(sends)
  BY LenProperties DEF Sent
<1>2. /\ sends' \in Seq(Sends) /\ Len(sends') = Len(sends) /\ DOMAIN sends' = DOMAIN sends
      /\ sends'[i] = m
      /\ \A j \in DOMAIN sends : j # i => sends'[j] = sends[j]
  BY <1>1, ExceptSeq, LenProperties
<1> QED
  BY <1>1, <1>2 DEF Sent

\* One request changes.
LEMMA RequestedOne ==
  ASSUME Requested, NEW r \in DOMAIN requests, NEW q \in Requests, q.promise # "new",
         requests' = [requests EXCEPT ![r] = q], jobs' \subseteq jobs \union {r}
  PROVE  Requested'
<1>1. requests \in Seq(Requests) /\ DOMAIN requests = 1..Len(requests)
  BY LenProperties DEF Requested
<1>2. /\ requests' \in Seq(Requests) /\ Len(requests') = Len(requests)
      /\ requests'[r] = q
      /\ \A j \in DOMAIN requests : j # r => requests'[j] = requests[j]
  BY <1>1, ExceptSeq, LenProperties
<1> QED
  BY <1>1, <1>2 DEF Requested

\* A message sent, and a request, is one of its type.
LEMMA SendsAre ==
  ASSUME Sent, NEW i \in DOMAIN sends
  PROVE  /\ sends[i] \in Sends /\ sends[i].text \in Texts
         /\ sends[i].stage \in {"saved", "queued", "returned"} => sends[i].to \in Conversations
<1>1. sends \in Seq(Sends) /\ i \in 1..Len(sends)
  BY LenProperties DEF Sent
<1>2. sends[i] \in Sends
  BY <1>1, ElementOfSeq
<1> QED
  BY <1>1, <1>2 DEF Sent, Sends

LEMMA RequestsAre ==
  ASSUME Requested, NEW r \in DOMAIN requests
  PROVE  /\ requests[r] \in Requests /\ requests[r].promise # "new"
         /\ requests[r].of \in Conversations /\ requests[r].key \in Keys
<1>1. requests \in Seq(Requests) /\ r \in 1..Len(requests)
  BY LenProperties DEF Requested
<1>2. requests[r] \in Requests
  BY <1>1, ElementOfSeq
<1> QED
  BY <1>1, <1>2 DEF Requested, Requests

\* What each step that sends does to the messages sent.
LEMMA SentSend ==
  ASSUME Sent, view \in Conversations \union {None}, NEW t \in Texts, SendMessage(t)
  PROVE  Sent'
<1> DEFINE m == [to |-> view, new |-> view = None, text |-> t, stage |-> "posting"]
<1>1. m \in Sends /\ m.stage = "posting" /\ sends' = Append(sends, m)
  <2>1. (view = None) \in BOOLEAN /\ "posting" \in SendStages
    BY DEF SendStages
  <2> QED
    BY <2>1 DEF SendMessage, Sends
<1> HIDE DEF m
<1>2. /\ sends' \in Seq(Sends) /\ Len(sends') = Len(sends) + 1 /\ Len(sends) \in Nat
      /\ \A i \in 1..Len(sends) : sends'[i] = sends[i]
      /\ sends'[Len(sends) + 1] = m
  BY <1>1, AppendProperties, LenProperties DEF Sent
<1>3. \A i \in 1..Len(sends') : i \in 1..Len(sends) \/ i = Len(sends) + 1
  BY <1>2
<1> QED
  BY <1>1, <1>2, <1>3 DEF Sent

\* A message sent goes on to its next stage, with the conversation it was sent to.
LEMMA SentStage ==
  ASSUME Sent, NEW i \in DOMAIN sends,
         NEW to \in Conversations \union {None}, NEW stage \in SendStages,
         stage \in {"saved", "queued", "returned"} => to \in Conversations,
         sends' = [sends EXCEPT ![i].to = to, ![i].stage = stage]
  PROVE  /\ Sent' /\ DOMAIN sends' = DOMAIN sends
         /\ \A j \in DOMAIN sends : sends'[j].text = sends[j].text
         /\ sends'[i].stage = stage /\ sends'[i].to = to
         /\ \A j \in DOMAIN sends : j # i => sends'[j] = sends[j]
<1> DEFINE m == [sends[i] EXCEPT !.to = to, !.stage = stage]
<1>1. sends[i] \in Sends
  BY SendsAre
<1>2. m \in Sends /\ m.stage = stage /\ m.to = to /\ m.text = sends[i].text
  BY <1>1 DEF Sends
<1>3. sends' = [sends EXCEPT ![i] = m]
  OBVIOUS
<1> HIDE DEF m
<1>4. /\ Sent' /\ DOMAIN sends' = DOMAIN sends /\ sends'[i] = m
      /\ \A j \in DOMAIN sends : j # i => sends'[j] = sends[j]
  BY <1>2, <1>3, SentOne
<1> QED
  BY <1>2, <1>4

-----------------------------------------------------------------------------
(* The chat                                                                *)

Fetches == [at : {"none", "asked", "read"}, rows : Seq(Messages)]

ChatTyped ==
  /\ streamed \in Seq(Messages)
  /\ stored \in [Conversations -> Seq(Messages)]
  /\ rows \in [Conversations -> Seq(Messages)]
  /\ cached \in [Conversations -> Seq(Messages)]
  /\ fetches \in [Conversations -> Fetches]

SentOf(t)     == {i \in DOMAIN sends : sends[i].text = t}
SavedTo(c, t) == {i \in DOMAIN sends : /\ sends[i].text = t /\ sends[i].to = c
                                       /\ sends[i].stage # "posting"}

\* The conversation's history repeats no text more often than it was stored when the
\* page was opened, and saved since.
AtMost(c, s) ==
  \A t \in Texts : Count(s, User(t)) <= Count(stored[c], User(t)) + Cardinality(SavedTo(c, t))

\* The tab has streamed each text as often as the user has sent it.
TextsCounted ==
  /\ \A t \in Texts : Count(streamed, User(t)) = Cardinality(SentOf(t))
  /\ \A c \in Conversations :
       AtMost(c, rows[c]) /\ AtMost(c, cached[c]) /\ AtMost(c, fetches[c].rows)

Chat == ChatTyped /\ TextsCounted

\* The messages with a text are finitely many, and so are those of a conversation.
LEMMA SentAreFinite ==
  ASSUME Sent, NEW t
  PROVE  /\ IsFiniteSet(SentOf(t)) /\ Cardinality(SentOf(t)) \in Nat
         /\ \A c : IsFiniteSet(SavedTo(c, t)) /\ Cardinality(SavedTo(c, t)) \in Nat
<1>1. Len(sends) \in Nat /\ DOMAIN sends = 1..Len(sends)
  BY LenProperties DEF Sent
<1>2. SentOf(t) \subseteq 1..Len(sends) /\ \A c : SavedTo(c, t) \subseteq 1..Len(sends)
  BY <1>1 DEF SentOf, SavedTo
<1> QED
  BY <1>1, <1>2, PlacesAreFinite

\* No text of the user is one of the assistant.
LEMMA UsersAndAssistants ==
  /\ \A t \in Texts : User(t) \in Messages
  /\ \A n \in Nat : Assistant(n) \in Messages
  /\ \A t, n : User(t) # Assistant(n)
  /\ \A t, u : User(t) = User(u) => t = u
BY DEF User, Assistant, Messages

\* Messages go on, none is taken back to before its row, or to another conversation.
Forward ==
  /\ DOMAIN sends' = DOMAIN sends
  /\ \A j \in DOMAIN sends :
       /\ sends'[j].text = sends[j].text
       /\ sends[j].stage # "posting"
            => sends'[j].stage # "posting" /\ sends'[j].to = sends[j].to

LEMMA SavedStay ==
  ASSUME Sent, Sent', Forward
  PROVE  \A t : /\ SentOf(t)' = SentOf(t)
                /\ \A c : /\ Cardinality(SavedTo(c, t)) \in Nat
                          /\ Cardinality(SavedTo(c, t)') \in Nat
                          /\ Cardinality(SavedTo(c, t)) <= Cardinality(SavedTo(c, t)')
<1> SUFFICES ASSUME NEW t, NEW c
             PROVE  /\ SentOf(t)' = SentOf(t)
                    /\ Cardinality(SavedTo(c, t)) \in Nat /\ Cardinality(SavedTo(c, t)') \in Nat
                    /\ Cardinality(SavedTo(c, t)) <= Cardinality(SavedTo(c, t)')
  OBVIOUS
<1>1. SentOf(t)' = SentOf(t) /\ SavedTo(c, t) \subseteq SavedTo(c, t)'
  BY DEF SentOf, SavedTo, Forward
<1>2. Len(sends') \in Nat /\ DOMAIN sends' = 1..Len(sends')
  BY LenProperties DEF Sent
<1>3. SavedTo(c, t)' \subseteq 1..Len(sends')
  BY <1>2 DEF SavedTo
<1>4. IsFiniteSet(SavedTo(c, t)') /\ Cardinality(SavedTo(c, t)') \in Nat
  BY <1>2, <1>3, PlacesAreFinite
<1>5. Cardinality(SavedTo(c, t)) <= Cardinality(SavedTo(c, t)')
  BY <1>1, <1>4, FS_Subset
<1> QED
  BY <1>1, <1>4, <1>5, SentAreFinite

\* What was saved often enough still is.
LEMMA AtMostStays ==
  ASSUME Sent, Sent', Forward, ChatTyped, UNCHANGED stored,
         NEW c \in Conversations, NEW s \in Seq(Messages), AtMost(c, s)
  PROVE  \A t \in Texts : Count(s, User(t)) <=
                            Count(stored'[c], User(t)) + Cardinality(SavedTo(c, t)')
<1> SUFFICES ASSUME NEW t \in Texts
             PROVE  Count(s, User(t)) <= Count(stored[c], User(t)) + Cardinality(SavedTo(c, t)')
  OBVIOUS
<1>1. Count(s, User(t)) \in Nat /\ Count(stored[c], User(t)) \in Nat
  BY CountIsNat DEF ChatTyped
<1>2. /\ Cardinality(SavedTo(c, t)) \in Nat /\ Cardinality(SavedTo(c, t)') \in Nat
      /\ Cardinality(SavedTo(c, t)) <= Cardinality(SavedTo(c, t)')
  BY SavedStay
<1>3. Count(s, User(t)) <= Count(stored[c], User(t)) + Cardinality(SavedTo(c, t))
  BY DEF AtMost
<1> QED
  BY <1>1, <1>2, <1>3

\* An empty history repeats nothing.
LEMMA NothingCounted ==
  ASSUME Sent, ChatTyped, NEW c \in Conversations
  PROVE  <<>> \in Seq(Messages) /\ AtMost(c, <<>>)
<1>1. \A m : Places(<<>>, m) = {}
  BY DEF Places
<1>2. \A m : Count(<<>>, m) = 0
  BY <1>1, FS_EmptySet DEF Count
<1>3. \A t : Count(stored[c], User(t)) \in Nat /\ Cardinality(SavedTo(c, t)) \in Nat
  BY CountIsNat, SentAreFinite DEF ChatTyped
<1> QED
  BY <1>2, <1>3, EmptySeq DEF AtMost

\* Some caches may be emptied.
Emptied ==
  /\ cached' \in [Conversations -> Seq(Messages)]
  /\ \A c \in Conversations : cached'[c] = cached[c] \/ cached'[c] = <<>>

\* The chat is left alone while messages go on, but for a cache that is emptied.
LEMMA ChatStages ==
  ASSUME Sent, Chat, Sent', Forward,
         UNCHANGED <<streamed, stored, rows, fetches>>,
         Emptied
  PROVE  Chat'
<1>1. \A t : SentOf(t)' = SentOf(t)
  BY SavedStay
<1>2. ChatTyped
  BY DEF Chat
<1>3. ASSUME NEW c \in Conversations
      PROVE  /\ rows[c] \in Seq(Messages) /\ cached'[c] \in Seq(Messages)
             /\ fetches[c].rows \in Seq(Messages)
             /\ AtMost(c, rows[c]) /\ AtMost(c, cached'[c]) /\ AtMost(c, fetches[c].rows)
  <2>1. cached'[c] \in Seq(Messages) /\ (cached'[c] = cached[c] \/ cached'[c] = <<>>)
    BY DEF Emptied
  <2>2. /\ rows[c] \in Seq(Messages) /\ cached[c] \in Seq(Messages)
        /\ fetches[c].rows \in Seq(Messages)
        /\ AtMost(c, rows[c]) /\ AtMost(c, cached[c]) /\ AtMost(c, fetches[c].rows)
    BY DEF Chat, ChatTyped, TextsCounted, Fetches
  <2>3. <<>> \in Seq(Messages) /\ AtMost(c, <<>>)
    BY <1>2, NothingCounted
  <2> QED
    BY <2>1, <2>2, <2>3
<1>4. ChatTyped'
  BY <1>2 DEF ChatTyped, Emptied
<1>5. \A t \in Texts : Count(streamed', User(t)) = Cardinality(SentOf(t)')
  BY <1>1 DEF Chat, TextsCounted
<1>6. ASSUME NEW c \in Conversations
      PROVE  AtMost(c, rows[c])' /\ AtMost(c, cached[c])' /\ AtMost(c, fetches[c].rows)'
  <2>1. \A t \in Texts :
          /\ Count(rows[c], User(t)) <=
               Count(stored'[c], User(t)) + Cardinality(SavedTo(c, t)')
          /\ Count(cached'[c], User(t)) <=
               Count(stored'[c], User(t)) + Cardinality(SavedTo(c, t)')
          /\ Count(fetches[c].rows, User(t)) <=
               Count(stored'[c], User(t)) + Cardinality(SavedTo(c, t)')
    BY <1>2, <1>3, AtMostStays
  <2> QED
    BY <2>1 DEF AtMost
<1> QED
  BY <1>4, <1>5, <1>6 DEF Chat, TextsCounted

\* Steps that leave the chat alone.
LEMMA ChatAside ==
  ASSUME Chat, UNCHANGED <<streamed, stored, rows, cached, fetches, sends>> PROVE Chat'
<1>1. ChatTyped'
  BY DEF Chat, ChatTyped
<1>2. TextsCounted'
  BY DEF Chat, TextsCounted, AtMost, SentOf, SavedTo
<1> QED
  BY <1>1, <1>2 DEF Chat

\* A fetch takes the rows of its conversation, the cache what a fetch took.
LEMMA ChatFetch ==
  ASSUME Sent, Chat, NEW c \in Conversations,
         StartFetch(c) \/ ReadHistory(c) \/ FetchReturns(c) \/ FetchFails(c)
  PROVE  Chat'
<1>1. /\ UNCHANGED <<streamed, stored, rows, sends>>
      /\ \/ cached' = cached
         \/ cached' = [cached EXCEPT ![c] = fetches[c].rows]
      /\ \E f \in {NoFetch, Fetching, [at |-> "read", rows |-> rows[c]]} :
           fetches' = [fetches EXCEPT ![c] = f]
  BY DEF StartFetch, ReadHistory, FetchReturns, FetchFails, serverVars
<1>2. PICK f \in {NoFetch, Fetching, [at |-> "read", rows |-> rows[c]]} :
        fetches' = [fetches EXCEPT ![c] = f]
  BY <1>1
<1>3. /\ rows[c] \in Seq(Messages) /\ AtMost(c, rows[c])
      /\ fetches[c].rows \in Seq(Messages) /\ AtMost(c, fetches[c].rows)
  BY DEF Chat, ChatTyped, TextsCounted, Fetches
<1>4. f \in Fetches /\ AtMost(c, f.rows)
  <2>1. <<>> \in Seq(Messages) /\ AtMost(c, <<>>)
    BY NothingCounted DEF Chat
  <2>2. CASE f = NoFetch
    BY <2>1, <2>2 DEF NoFetch, Fetches
  <2>3. CASE f = Fetching
    BY <2>1, <2>3 DEF Fetching, Fetches
  <2>4. CASE f = [at |-> "read", rows |-> rows[c]]
    BY <1>3, <2>4 DEF Fetches
  <2> QED
    BY <2>2, <2>3, <2>4
<1>5. ChatTyped'
  BY <1>1, <1>2, <1>3, <1>4 DEF Chat, ChatTyped
<1>7. ASSUME NEW d \in Conversations
      PROVE  AtMost(d, rows'[d]) /\ AtMost(d, cached'[d]) /\ AtMost(d, fetches'[d].rows)
  <2>1. AtMost(d, rows[d]) /\ AtMost(d, cached[d]) /\ AtMost(d, fetches[d].rows)
    BY DEF Chat, TextsCounted
  <2>2. cached'[d] = cached[d] \/ (d = c /\ cached'[d] = fetches[c].rows)
    BY <1>1 DEF Chat, ChatTyped
  <2>3. fetches'[d] = fetches[d] \/ (d = c /\ fetches'[d] = f)
    BY <1>2 DEF Chat, ChatTyped
  <2> QED
    BY <1>1, <1>3, <1>4, <2>1, <2>2, <2>3
<1>8. ASSUME NEW d \in Conversations
      PROVE  AtMost(d, rows[d])' /\ AtMost(d, cached[d])' /\ AtMost(d, fetches[d].rows)'
  BY <1>1, <1>7 DEF AtMost, SavedTo
<1>9. \A t \in Texts : Count(streamed, User(t))' = Cardinality(SentOf(t))'
  BY <1>1 DEF Chat, TextsCounted, SentOf
<1> QED
  BY <1>5, <1>8, <1>9 DEF Chat, TextsCounted

\* A message sent is streamed, and is not saved yet.
LEMMA ChatSend == ASSUME Sent, Sent', Chat, NEW t \in Texts, SendMessage(t) PROVE Chat'
<1> DEFINE m == [to |-> view, new |-> view = None, text |-> t, stage |-> "posting"]
<1>1. /\ streamed' = Append(streamed, User(t)) /\ sends' = Append(sends, m)
      /\ UNCHANGED <<stored, rows, cached, fetches>>
  BY DEF SendMessage, serverVars
<1>2. /\ Len(sends) \in Nat /\ DOMAIN sends = 1..Len(sends)
      /\ DOMAIN sends' = 1..Len(sends) + 1
      /\ \A i \in 1..Len(sends) : sends'[i] = sends[i]
      /\ sends'[Len(sends) + 1] = m
  BY <1>1, LenProperties DEF Sent
<1>3. m.text = t /\ m.stage = "posting"
  OBVIOUS
<1> HIDE DEF m
<1>4. ChatTyped'
  <2>1. streamed' \in Seq(Messages)
    BY <1>1, UsersAndAssistants, CountMore DEF Chat, ChatTyped
  <2> QED
    BY <1>1, <2>1 DEF Chat, ChatTyped
<1>5. ASSUME NEW c, NEW u PROVE SavedTo(c, u)' = SavedTo(c, u)
  BY <1>2, <1>3 DEF SavedTo
<1>6. ASSUME NEW u \in Texts PROVE Count(streamed, User(u))' = Cardinality(SentOf(u))'
  <2>1. Count(streamed, User(u)) = Cardinality(SentOf(u))
    BY DEF Chat, TextsCounted
  <2>2. Count(streamed', User(u)) =
          Count(streamed, User(u)) + (IF User(t) = User(u) THEN 1 ELSE 0)
    BY <1>1, UsersAndAssistants, CountMore DEF Chat, ChatTyped
  <2>3. /\ IsFiniteSet(SentOf(u)) /\ Cardinality(SentOf(u)) \in Nat
        /\ Len(sends) + 1 \notin SentOf(u)
    <3>1. Len(sends) + 1 \notin DOMAIN sends
      BY <1>2
    <3>2. Len(sends) + 1 \notin SentOf(u)
      BY <3>1 DEF SentOf
    <3>3. IsFiniteSet(SentOf(u)) /\ Cardinality(SentOf(u)) \in Nat
      BY SentAreFinite
    <3> QED
      BY <3>2, <3>3
  <2>4. CASE u = t
    <3>1. SentOf(u)' = SentOf(u) \union {Len(sends) + 1}
      BY <1>2, <1>3, <2>4 DEF SentOf
    <3>2. Cardinality(SentOf(u)') = Cardinality(SentOf(u)) + 1
      BY <2>3, <3>1, FS_AddElement
    <3> QED
      BY <2>1, <2>2, <2>4, <3>2
  <2>5. CASE u # t
    <3>1. SentOf(u)' = SentOf(u)
      BY <1>2, <1>3, <2>5 DEF SentOf
    <3>2. User(t) # User(u)
      BY <2>5, UsersAndAssistants
    <3> QED
      BY <2>1, <2>2, <2>3, <3>1, <3>2
  <2> QED
    BY <2>4, <2>5
<1>7. ASSUME NEW d \in Conversations
      PROVE  AtMost(d, rows[d])' /\ AtMost(d, cached[d])' /\ AtMost(d, fetches[d].rows)'
  BY <1>1, <1>5 DEF Chat, TextsCounted, AtMost
<1> QED
  BY <1>4, <1>6, <1>7 DEF Chat, TextsCounted

\* A row of one more text, and one more message that has its row.
LEMMA ChatSave ==
  ASSUME Sent, Sent', Chat, NEW i \in DOMAIN sends, SaveMessage(i), Forward,
         NEW c \in Conversations, rows' = [rows EXCEPT ![c] = Append(@, User(sends[i].text))],
         sends'[i].stage = "saved", sends'[i].to = c,
         \A j \in DOMAIN sends : j # i => sends'[j] = sends[j]
  PROVE  Chat'
<1>0. PICK t \in Texts : t = sends[i].text
  BY SendsAre
<1>1. rows' = [rows EXCEPT ![c] = Append(rows[c], User(t))]
  BY <1>0
<1>2. UNCHANGED <<streamed, stored, cached, fetches>> /\ sends[i].stage = "posting"
  BY DEF SaveMessage
<1>3. \A u : /\ SentOf(u)' = SentOf(u)
             /\ \A d : /\ Cardinality(SavedTo(d, u)) \in Nat
                       /\ Cardinality(SavedTo(d, u)') \in Nat
                       /\ Cardinality(SavedTo(d, u)) <= Cardinality(SavedTo(d, u)')
  BY SavedStay
<1>4. Cardinality(SavedTo(c, t)') = Cardinality(SavedTo(c, t)) + 1
  <2>1. SavedTo(c, t)' = SavedTo(c, t) \union {i} /\ i \notin SavedTo(c, t)
    BY <1>0, <1>2 DEF SavedTo, Forward
  <2>2. IsFiniteSet(SavedTo(c, t))
    BY SentAreFinite
  <2> QED
    BY <2>1, <2>2, FS_AddElement
<1>5. /\ Append(rows[c], User(t)) \in Seq(Messages) /\ rows[c] \in Seq(Messages)
      /\ \A u \in Texts : Count(Append(rows[c], User(t)), User(u))
                            = Count(rows[c], User(u)) + (IF User(t) = User(u) THEN 1 ELSE 0)
  BY <1>2, UsersAndAssistants, CountMore DEF Chat, ChatTyped
<1>6. ChatTyped'
  BY <1>1, <1>2, <1>5 DEF Chat, ChatTyped
<1>7. ASSUME NEW d \in Conversations, NEW s \in Seq(Messages), AtMost(d, s)
      PROVE  \A u \in Texts : Count(s, User(u)) <=
                                Count(stored[d], User(u)) + Cardinality(SavedTo(d, u)')
  BY <1>2, <1>7, AtMostStays DEF Chat
<1>8. ASSUME NEW u \in Texts
      PROVE  Count(Append(rows[c], User(t)), User(u)) <=
               Count(stored[c], User(u)) + Cardinality(SavedTo(c, u)')
  <2>1. /\ AtMost(c, rows[c]) /\ Count(rows[c], User(u)) \in Nat
        /\ Count(stored[c], User(u)) \in Nat
    BY <1>5, CountIsNat DEF Chat, ChatTyped, TextsCounted
  <2>2. CASE u = t
    <3>1. Count(Append(rows[c], User(t)), User(u)) = Count(rows[c], User(u)) + 1
      BY <1>5, <2>2
    <3>2. Count(rows[c], User(u)) <= Count(stored[c], User(u)) + Cardinality(SavedTo(c, u))
      BY <2>1 DEF AtMost
    <3>3. /\ Cardinality(SavedTo(c, u)') = Cardinality(SavedTo(c, u)) + 1
          /\ Cardinality(SavedTo(c, u)) \in Nat
      BY <1>3, <1>4, <2>2
    <3> QED
      BY ONLY <2>1, <3>1, <3>2, <3>3
  <2>3. CASE u # t
    <3>1. User(t) # User(u)
      BY <2>3, UsersAndAssistants
    <3>2. Count(Append(rows[c], User(t)), User(u)) = Count(rows[c], User(u))
      BY <1>5, <2>1, <3>1
    <3> QED
      BY <1>5, <1>7, <2>1, <3>2
  <2> QED
    BY <2>2, <2>3
<1>9. ASSUME NEW d \in Conversations, NEW u \in Texts
      PROVE  LET most == Count(stored[d], User(u)) + Cardinality(SavedTo(d, u)')
             IN  /\ Count(rows'[d], User(u)) <= most
                 /\ Count(cached[d], User(u)) <= most
                 /\ Count(fetches[d].rows, User(u)) <= most
  <2>1. /\ rows[d] \in Seq(Messages) /\ cached[d] \in Seq(Messages)
        /\ fetches[d].rows \in Seq(Messages)
        /\ AtMost(d, rows[d]) /\ AtMost(d, cached[d]) /\ AtMost(d, fetches[d].rows)
    BY DEF Chat, ChatTyped, TextsCounted, Fetches
  <2>2. rows'[d] = rows[d] \/ (d = c /\ rows'[d] = Append(rows[c], User(t)))
    BY <1>1 DEF Chat, ChatTyped
  <2> QED
    BY <1>7, <1>8, <2>1, <2>2
<1>10. ASSUME NEW d \in Conversations
       PROVE  AtMost(d, rows[d])' /\ AtMost(d, cached[d])' /\ AtMost(d, fetches[d].rows)'
  BY <1>2, <1>9 DEF AtMost
<1>11. \A u \in Texts : Count(streamed, User(u))' = Cardinality(SentOf(u))'
  BY <1>2, <1>3 DEF Chat, TextsCounted
<1> QED
  BY <1>6, <1>10, <1>11 DEF Chat, TextsCounted

\* A frame of the agents' chat changes no text of the user.
LEMMA StreamFrame ==
  ASSUME NEW s \in Seq(Messages), NEW type
  PROVE  /\ AppendStreamFrame(s, type) \in Seq(Messages)
         /\ \A t \in Texts : Count(AppendStreamFrame(s, type), User(t)) = Count(s, User(t))
<1> DEFINE last == Len(s)
<1> DEFINE merges == /\ type = "text" /\ last > 0
                     /\ s[last].role = "assistant" /\ s[last] # Status
<1>1. Len(s) \in Nat /\ DOMAIN s = 1..Len(s)
  BY LenProperties
<1>2. CASE merges
  <2> DEFINE m == Assistant(s[last].content + 1)
  <2>1. last \in 1..Len(s) /\ s[last] \in Messages
    BY <1>1, <1>2, ElementOfSeq
  <2>2. s[last] \in [role : {"assistant"}, content : Nat]
    BY <1>2, <2>1 DEF Messages
  <2>3. m \in Messages /\ \A t \in Texts : m # User(t) /\ s[last] # User(t)
    BY <2>2, UsersAndAssistants DEF User
  <2>4. AppendStreamFrame(s, type) = [s EXCEPT ![last] = m]
    <3>1. AppendStreamFrame(s, type) = [s EXCEPT ![last].content = @ + 1]
      BY <1>2 DEF AppendStreamFrame
    <3>2. [s[last] EXCEPT !.content = @ + 1] = m
      BY <2>2 DEF Assistant
    <3> QED
      BY <3>1, <3>2
  <2> HIDE DEF m
  <2> DEFINE r == [s EXCEPT ![last] = m]
  <2>5. /\ r \in Seq(Messages) /\ Len(r) = Len(s) /\ r[last] = m
        /\ \A j \in 1..Len(s) : j # last => r[j] = s[j]
    <3>1. m \in Messages /\ last \in 1..Len(s)
      BY <2>1, <2>3
    <3>2. \A j \in 1..Len(s) : r[j] = IF j = last THEN m ELSE s[j]
      BY <3>1, ExceptSeq
    <3>3. r \in Seq(Messages) /\ Len(r) = Len(s)
      BY <3>1, ExceptSeq
    <3> QED
      BY <3>1, <3>2, <3>3
  <2>6. DOMAIN r = 1..Len(s)
    BY <2>5, LenProperties
  <2> HIDE DEF r
  <2>7. ASSUME NEW t \in Texts PROVE Places(r, User(t)) = Places(s, User(t))
    BY <1>1, <2>3, <2>5, <2>6 DEF Places
  <2> QED
    BY <2>4, <2>5, <2>7 DEF Count, r
<1>3. CASE ~merges
  <2> DEFINE m == IF type = "text" THEN Assistant(1) ELSE Status
  <2>1. AppendStreamFrame(s, type) = Append(s, m)
    BY <1>3 DEF AppendStreamFrame
  <2>2. m \in Messages /\ \A t \in Texts : m # User(t)
    BY UsersAndAssistants DEF Status
  <2> HIDE DEF m
  <2>3. ASSUME NEW t \in Texts
        PROVE  /\ Append(s, m) \in Seq(Messages)
               /\ Count(Append(s, m), User(t)) = Count(s, User(t)) + 0
    BY <2>2, CountMore
  <2>4. Append(s, m) \in Seq(Messages)
    BY <2>2, CountMore
  <2>5. \A t \in Texts : Count(s, User(t)) \in Nat
    BY CountIsNat
  <2> QED
    BY <2>1, <2>3, <2>4, <2>5
<1> QED
  BY <1>2, <1>3

\* So hearing a frame keeps the chat.
LEMMA ChatHear == ASSUME Chat, Hear PROVE Chat'
<1>1. UNCHANGED <<stored, rows, cached, fetches, sends>>
  BY DEF Hear, serverVars
<1>2. streamed' = streamed \/ \E type : streamed' = AppendStreamFrame(streamed, type)
  BY DEF Hear
<1>3. streamed \in Seq(Messages)
  BY DEF Chat, ChatTyped
<1>4. /\ streamed' \in Seq(Messages)
      /\ \A t \in Texts : Count(streamed', User(t)) = Count(streamed, User(t))
  BY <1>2, <1>3, StreamFrame
<1>5. ChatTyped'
  BY <1>1, <1>4 DEF Chat, ChatTyped
<1>6. TextsCounted'
  BY <1>1, <1>4 DEF Chat, TextsCounted, AtMost, SentOf, SavedTo
<1> QED
  BY <1>5, <1>6 DEF Chat

\* The row of an answer is no text of the user.
LEMMA ChatAnswer ==
  ASSUME Chat, NEW c \in Conversations, said \in [Conversations -> Nat], AgentEnds(c)
  PROVE  Chat'
<1> DEFINE m == Assistant(said[c])
<1>1. /\ UNCHANGED <<streamed, stored, cached, fetches, sends>>
      /\ rows' = [rows EXCEPT ![c] = Append(rows[c], m)]
  BY DEF AgentEnds, chatVars
<1>2. m \in Messages /\ \A t \in Texts : m # User(t)
  BY UsersAndAssistants
<1>3. rows[c] \in Seq(Messages)
  BY DEF Chat, ChatTyped
<1> HIDE DEF m
<1>4. Append(rows[c], m) \in Seq(Messages)
  BY <1>2, <1>3, CountMore
<1>5. \A t \in Texts : Count(Append(rows[c], m), User(t)) = Count(rows[c], User(t))
  <2> SUFFICES ASSUME NEW t \in Texts
               PROVE  Count(Append(rows[c], m), User(t)) = Count(rows[c], User(t))
    OBVIOUS
  <2>1. Count(Append(rows[c], m), User(t)) = Count(rows[c], User(t)) + 0
    BY <1>2, <1>3, CountMore
  <2>2. Count(rows[c], User(t)) \in Nat
    BY <1>3, CountIsNat
  <2> QED
    BY <2>1, <2>2
<1>6. ChatTyped'
  BY <1>1, <1>4 DEF Chat, ChatTyped
<1>7. ASSUME NEW d \in Conversations PROVE AtMost(d, rows'[d])
  <2>1. rows'[d] = rows[d] \/ (d = c /\ rows'[d] = Append(rows[c], m))
    BY <1>1 DEF Chat, ChatTyped
  <2>2. AtMost(d, rows[d])
    BY DEF Chat, TextsCounted
  <2> QED
    BY <1>5, <2>1, <2>2 DEF AtMost
<1>8. \A d \in Conversations : AtMost(d, rows[d])'
  BY <1>1, <1>7 DEF AtMost, SavedTo
<1>9. \A d \in Conversations : AtMost(d, cached[d])' /\ AtMost(d, fetches[d].rows)'
  BY <1>1 DEF Chat, TextsCounted, AtMost, SavedTo
<1>10. \A t \in Texts : Count(streamed, User(t))' = Cardinality(SentOf(t))'
  BY <1>1 DEF Chat, TextsCounted, SentOf
<1> QED
  BY <1>6, <1>8, <1>9, <1>10 DEF Chat, TextsCounted

-----------------------------------------------------------------------------
(* The steps                                                               *)

\* The route, what the agents have to do, and the bounds.
Rest ==
  /\ view \in Conversations \union {None} /\ creating \in BOOLEAN
  /\ queue \in [Conversations -> Nat] /\ said \in [Conversations -> Nat]
  /\ visits \in 0..MaxVisits /\ says \in 0..MaxSays /\ faults \in 0..MaxFaults

\* Steps that leave these alone, and faults.
LEMMA RestAside ==
  ASSUME Rest, UNCHANGED <<view, creating, queue, said, bounds>>
  PROVE  Rest'
BY DEF Rest, bounds

LEMMA RestFaults ==
  ASSUME Rest, Fault, UNCHANGED <<view, queue, said, visits, says>>, creating' \in BOOLEAN
  PROVE  Rest'
<1>1. faults' \in 0..MaxFaults
  BY BrowserAssumption DEF Fault, Rest
<1> QED
  BY <1>1 DEF Rest

\* A tab: its socket, its messages, its file requests, its chat.
Tab == Socket /\ Sent /\ Requested /\ Chat /\ Rest

\* A page just opened.
LEMMA TabInit == Init => Tab
<1> SUFFICES ASSUME Init PROVE Tab
  OBVIOUS
<1>1. Socket
  BY NoneAssumption, EmptySeq DEF Init, SocketInit, Socket, SocketTypeOK
<1>2. Sent
  BY EmptySeq DEF Init, Sent
<1>3. Requested
  BY EmptySeq DEF Init, Requested
<1>4. Rest
  <2>1. 0 \in 0..MaxVisits /\ 0 \in 0..MaxSays /\ 0 \in 0..MaxFaults
    BY BrowserAssumption
  <2> QED
    BY <2>1 DEF Init, Rest
<1>5. stored \in [Conversations -> Seq(Messages)]
  <2>1. \A n \in Nat : [1..n -> Messages] \subseteq Seq(Messages)
    BY SeqDef
  <2>2. \A n : [1..n -> {User(t) : t \in Texts}] \subseteq [1..n -> Messages]
    BY UsersAndAssistants
  <2>3. \A c : Histories(c) \subseteq Seq(Messages)
    BY <2>1, <2>2, BrowserAssumption DEF Histories
  <2> QED
    BY <2>3 DEF Init
<1>6. ChatTyped
  BY <1>5, EmptySeq DEF Init, ChatTyped, NoFetch, Fetches
<1>7. \A t : Count(streamed, User(t)) = 0 /\ Cardinality(SentOf(t)) = 0
  <2> SUFFICES ASSUME NEW t PROVE Count(streamed, User(t)) = 0 /\ Cardinality(SentOf(t)) = 0
    OBVIOUS
  <2>1. Places(streamed, User(t)) = {} /\ SentOf(t) = {}
    BY DEF Init, Places, SentOf
  <2> QED
    BY <2>1, FS_EmptySet DEF Count
<1>8. ASSUME NEW c \in Conversations
      PROVE  AtMost(c, rows[c]) /\ AtMost(c, cached[c]) /\ AtMost(c, fetches[c].rows)
  <2>1. AtMost(c, <<>>)
    BY <1>2, <1>6, NothingCounted
  <2>2. \A t : Count(stored[c], User(t)) \in Nat /\ Cardinality(SavedTo(c, t)) \in Nat
    BY <1>2, <1>6, CountIsNat, SentAreFinite DEF ChatTyped
  <2>3. AtMost(c, rows[c])
    BY <2>2 DEF Init, AtMost
  <2> QED
    BY <2>1, <2>3 DEF Init, NoFetch
<1>9. TextsCounted
  BY <1>7, <1>8 DEF TextsCounted
<1> QED
  BY <1>1, <1>2, <1>3, <1>4, <1>6, <1>9 DEF Tab, Chat

\* A message on its way has its next stage.
LEMMA SentOn ==
  ASSUME Sent, Chat, NEW i \in DOMAIN sends, NEW stage \in {"queued", "returned", "failed"},
         stage # "failed" => sends[i].to \in Conversations,
         sends' = [sends EXCEPT ![i].stage = stage],
         UNCHANGED <<streamed, stored, rows, fetches>>,
         Emptied
  PROVE  Sent' /\ Chat'
<1> DEFINE m == [sends[i] EXCEPT !.stage = stage]
<1>1. sends[i] \in Sends
  BY SendsAre
<1>2. m \in Sends /\ m.stage = stage /\ m.to = sends[i].to /\ m.text = sends[i].text
  BY <1>1 DEF Sends, SendStages
<1>3. sends' = [sends EXCEPT ![i] = m]
  OBVIOUS
<1>4. m.stage \in {"saved", "queued", "returned"} => m.to \in Conversations
  BY <1>2
<1> HIDE DEF m
<1>5. /\ Sent' /\ DOMAIN sends' = DOMAIN sends /\ sends'[i] = m
      /\ \A j \in DOMAIN sends : j # i => sends'[j] = sends[j]
  BY <1>2, <1>3, <1>4, SentOne
<1>6. ASSUME NEW j \in DOMAIN sends
      PROVE  /\ sends'[j].text = sends[j].text
             /\ sends[j].stage # "posting"
                  => sends'[j].stage # "posting" /\ sends'[j].to = sends[j].to
  <2>1. CASE j = i
    BY <1>2, <1>5, <2>1
  <2>2. CASE j # i
    BY <1>5, <2>2
  <2> QED
    BY <2>1, <2>2
<1>7. Chat'
  <2>1. Forward
    BY <1>5, <1>6 DEF Forward
  <2> QED
    BY <1>5, <2>1, ChatStages
<1> QED
  BY <1>5, <1>7

\* A navigation changes the socket and the route only.
LEMMA TabNavigate ==
  ASSUME Tab, NEW c \in Conversations \union {None}, Navigate(c) PROVE Tab'
<1> USE DEF Tab
<1>1. Socket'
  BY NoneAssumption, SocketConnect, SocketDisconnect DEF Navigate, Show
<1>2. Sent' /\ Chat' /\ Requested'
  BY SentAside, ChatAside, RequestedAside DEF Navigate, chatVars, serverVars
<1>3. Rest'
  <2>1. visits' \in 0..MaxVisits
    BY BrowserAssumption DEF Navigate, Rest
  <2> QED
    BY <2>1 DEF Navigate, Show, Rest, chatVars, serverVars
<1> QED
  BY <1>1, <1>2, <1>3

\* The details query.
LEMMA TabFetch ==
  ASSUME Tab, NEW c \in Conversations,
         StartFetch(c) \/ ReadHistory(c) \/ FetchReturns(c) \/ FetchFails(c)
  PROVE  Tab'
<1> USE DEF Tab, serverVars
<1>1. UNCHANGED <<socketVars, sends, requests, jobs, view, creating, queue, said>>
  BY DEF StartFetch, ReadHistory, FetchReturns, FetchFails
<1>2. Socket' /\ Sent' /\ Requested'
  BY <1>1, SocketAside, SentAside, RequestedAside
<1>3. Chat'
  BY ChatFetch
<1>4. Rest'
  <2>1. CASE FetchFails(c)
    BY <1>1, <2>1, RestFaults DEF FetchFails, Rest
  <2>2. CASE StartFetch(c) \/ ReadHistory(c) \/ FetchReturns(c)
    BY <1>1, <2>2, RestAside DEF StartFetch, ReadHistory, FetchReturns
  <2> QED
    BY <2>1, <2>2
<1> QED
  BY <1>2, <1>3, <1>4

\* A message is sent, gets its row, and goes on.
LEMMA TabSend == ASSUME Tab, NEW t \in Texts, SendMessage(t) PROVE Tab'
<1> USE DEF Tab, serverVars
<1>1. Socket' /\ Requested'
  BY SocketAside, RequestedAside DEF SendMessage
<1>2. Sent'
  BY SentSend DEF Rest
<1>3. Chat'
  BY <1>2, ChatSend
<1>4. Rest'
  BY DEF SendMessage, Rest, bounds
<1> QED
  BY <1>1, <1>2, <1>3, <1>4

LEMMA TabSave == ASSUME Tab, NEW i \in DOMAIN sends, SaveMessage(i) PROVE Tab'
<1> USE DEF Tab
<1>1. PICK c \in Conversations :
        /\ sends' = [sends EXCEPT ![i].to = c, ![i].stage = "saved"]
        /\ rows' = [rows EXCEPT ![c] = Append(@, User(sends[i].text))]
  BY DEF SaveMessage
<1>2. "saved" \in SendStages
  BY DEF SendStages
<1>3. /\ Sent' /\ DOMAIN sends' = DOMAIN sends
      /\ \A j \in DOMAIN sends : sends'[j].text = sends[j].text
      /\ sends'[i].stage = "saved" /\ sends'[i].to = c
      /\ \A j \in DOMAIN sends : j # i => sends'[j] = sends[j]
  BY <1>1, <1>2, SentStage
<1>4. Forward
  BY <1>3 DEF Forward, SaveMessage
<1>5. Chat'
  BY <1>1, <1>3, <1>4, ChatSave
<1>6. UNCHANGED <<socketVars, requests, jobs, view, creating, queue, said, bounds>>
  BY DEF SaveMessage
<1> QED
  BY <1>3, <1>5, <1>6, SocketAside, RequestedAside, RestAside

LEMMA TabGoesOn ==
  ASSUME Tab, NEW i \in DOMAIN sends, QueueMessage(i) \/ SendReturns(i) \/ SendFails(i)
  PROVE  Tab'
<1> USE DEF Tab, serverVars
<1>1. Requested'
  BY RequestedAside DEF QueueMessage, SendReturns, SendFails
<1>2. UNCHANGED <<streamed, stored, rows, fetches>> /\ Emptied
  <2>1. cached \in [Conversations -> Seq(Messages)] /\ <<>> \in Seq(Messages)
    BY EmptySeq DEF Chat, ChatTyped
  <2>2. cached' = cached \/ cached' = [cached EXCEPT ![sends[i].to] = <<>>]
    BY DEF QueueMessage, SendReturns, SendFails
  <2>3. Emptied
    BY ONLY <2>1, <2>2 DEF Emptied
  <2> QED
    BY <2>3 DEF QueueMessage, SendReturns, SendFails
<1>3. CASE QueueMessage(i)
  <2>1. sends' = [sends EXCEPT ![i].stage = "queued"] /\ sends[i].to \in Conversations
    BY <1>3, SendsAre DEF QueueMessage
  <2>2. Sent' /\ Chat'
    BY <1>2, <2>1, SentOn
  <2>3. UNCHANGED <<socketVars, view, creating, said, bounds>>
        /\ queue' = [queue EXCEPT ![sends[i].to] = queue[sends[i].to] + 1]
    BY <1>3 DEF QueueMessage
  <2>4. queue' \in [Conversations -> Nat]
    BY <2>1, <2>3 DEF Rest
  <2> QED
    BY <1>1, <2>2, <2>3, <2>4, SocketAside DEF Rest, bounds
<1>4. CASE SendReturns(i)
  <2>1. /\ sends' = [sends EXCEPT ![i].stage = "returned"] /\ sends[i].to \in Conversations
        /\ Connect(sends[i].to)
    BY <1>4, SendsAre DEF SendReturns
  <2>2. Sent' /\ Chat'
    BY <1>2, <2>1, SentOn
  <2>3. Socket'
    BY <2>1, SocketConnect
  <2>4. Rest'
    BY <1>4, <2>1 DEF SendReturns, Rest, bounds
  <2> QED
    BY <1>1, <2>2, <2>3, <2>4
<1>5. CASE SendFails(i)
  <2>1. sends' = [sends EXCEPT ![i].stage = "failed"]
    BY <1>5 DEF SendFails
  <2>2. Sent' /\ Chat'
    BY <1>2, <2>1, SentOn
  <2>3. Socket'
    BY <1>5, SocketAside DEF SendFails
  <2>4. Rest'
    BY <1>5, RestFaults DEF SendFails, Rest
  <2> QED
    BY <1>1, <2>2, <2>3, <2>4
<1> QED
  BY <1>3, <1>4, <1>5

\* A file request is registered.
LEMMA TabRequest ==
  ASSUME Tab, NEW c \in Conversations, NEW k \in Keys, RequestFiles(c, k) PROVE Tab'
<1> USE DEF Tab
<1> DEFINE q == [of |-> c, key |-> k, call |-> "posting", promise |-> "pending"]
<1>1. q \in Requests /\ q.promise # "new" /\ requests' = Append(requests, q)
  BY DEF RequestFiles, Request, Requests, Calls, Promises
<1> HIDE DEF q
<1>2. Requested'
  <2>1. /\ requests' \in Seq(Requests) /\ Len(requests') = Len(requests) + 1
        /\ Len(requests) \in Nat
        /\ \A r \in 1..Len(requests) : requests'[r] = requests[r]
        /\ requests'[Len(requests) + 1] = q
    BY <1>1, AppendProperties, LenProperties DEF Requested
  <2>2. \A r \in 1..Len(requests') : r \in 1..Len(requests) \/ r = Len(requests) + 1
    BY <2>1
  <2>3. \A r \in 1..Len(requests) : r \in 1..Len(requests')
    BY <2>1
  <2>4. jobs' \subseteq 1..Len(requests')
    BY <2>3 DEF RequestFiles, Request, serverVars, Requested
  <2> QED
    BY <1>1, <2>1, <2>2, <2>4 DEF Requested
<1>3. UNCHANGED <<socketVars, view, chatVars, serverVars, bounds>>
  BY DEF RequestFiles, Request
<1> QED
  BY <1>2, <1>3, SocketAside, SentAside, ChatAside, RestAside DEF chatVars, serverVars

\* The call of a request, its timeout, and the job behind it.
LEMMA TabCall ==
  ASSUME Tab, NEW r \in DOMAIN requests,
         PushJob(r) \/ RequestReturns(r) \/ RequestFails(r) \/ TimeOut(r)
  PROVE  Tab'
<1> USE DEF Tab, chatVars, serverVars
<1>1. UNCHANGED <<socketVars, view, chatVars, stored, rows, queue, said>>
  BY DEF PushJob, RequestReturns, RequestFails, TimeOut
<1>2. requests[r] \in Requests /\ requests[r].promise # "new"
  BY RequestsAre
<1>3. Requested'
  <2>1. \E q \in Requests : q.promise # "new" /\ requests' = [requests EXCEPT ![r] = q]
    <3>1. CASE PushJob(r)
      <4>1. [requests[r] EXCEPT !.call = "pushed"] \in Requests
        BY <1>2 DEF Requests, Calls
      <4>2. requests' = [requests EXCEPT ![r] = [requests[r] EXCEPT !.call = "pushed"]]
        BY <3>1 DEF PushJob
      <4> QED
        BY <1>2, <4>1, <4>2 DEF Requests
    <3>2. CASE RequestReturns(r)
      <4>1. [requests[r] EXCEPT !.call = "answered"] \in Requests
        BY <1>2 DEF Requests, Calls
      <4>2. requests' = [requests EXCEPT ![r] = [requests[r] EXCEPT !.call = "answered"]]
        BY <3>2 DEF RequestReturns
      <4> QED
        BY <1>2, <4>1, <4>2 DEF Requests
    <3>3. CASE RequestFails(r)
      <4> DEFINE q1 == [requests[r] EXCEPT !.call = "failed"]
      <4> DEFINE q2 == [requests[r] EXCEPT !.call = "failed",
                          !.promise = IF @ = "pending" THEN "dropped" ELSE @]
      <4>1. q1 \in Requests /\ q1.promise # "new"
        BY <1>2 DEF Requests, Calls
      <4>2. q2 \in Requests /\ q2.promise # "new"
        BY <1>2 DEF Requests, Calls, Promises
      <4>3. \/ requests' = [requests EXCEPT ![r] = q1]
            \/ requests' = [requests EXCEPT ![r] = q2]
        BY <3>3 DEF RequestFails
      <4> QED
        BY <4>1, <4>2, <4>3
    <3>4. CASE TimeOut(r)
      <4> DEFINE q == [requests[r] EXCEPT !.promise = "rejected"]
      <4>1. q \in Requests /\ q.promise # "new"
        BY <1>2 DEF Requests, Promises
      <4>2. requests' = [requests EXCEPT ![r] = q]
        BY <3>4 DEF TimeOut
      <4> QED
        BY <4>1, <4>2
    <3> QED
      BY <3>1, <3>2, <3>3, <3>4
  <2>2. jobs' \subseteq jobs \union {r}
    BY DEF PushJob, RequestReturns, RequestFails, TimeOut
  <2> QED
    BY <2>1, <2>2, RequestedOne
<1>4. Rest'
  <2>1. CASE RequestFails(r)
    BY <1>1, <2>1, RestFaults DEF RequestFails, Rest
  <2>2. CASE PushJob(r) \/ RequestReturns(r) \/ TimeOut(r)
    BY <1>1, <2>2, RestAside DEF PushJob, RequestReturns, TimeOut
  <2> QED
    BY <2>1, <2>2
<1> QED
  BY <1>1, <1>3, <1>4, SocketAside, SentAside, ChatAside

\* A frame of a file settles the requests of its key.
LEMMA Settled ==
  ASSUME Requested, NEW frame
  PROVE  /\ DOMAIN Settle(requests, frame) = DOMAIN requests
         /\ \A r \in DOMAIN requests :
              /\ Settle(requests, frame)[r] \in Requests
              /\ Settle(requests, frame)[r].promise # "new"
              /\ requests[r].promise = "pending" /\ requests[r].key = frame.key
                   => Settle(requests, frame)[r].promise \in {"resolved", "rejected"}
<1>1. DOMAIN Settle(requests, frame) = DOMAIN requests
  BY DEF Settle
<1>2. ASSUME NEW r \in DOMAIN requests
      PROVE  /\ Settle(requests, frame)[r] \in Requests
             /\ Settle(requests, frame)[r].promise # "new"
             /\ requests[r].promise = "pending" /\ requests[r].key = frame.key
                  => Settle(requests, frame)[r].promise \in {"resolved", "rejected"}
  <2>1. requests[r] \in Requests /\ requests[r].promise # "new"
    BY RequestsAre
  <2> DEFINE q == requests[r]
  <2> DEFINE p == [q EXCEPT !.promise =
                     IF frame.type = "file" THEN "resolved" ELSE "rejected"]
  <2>2. p \in Requests /\ p.promise \in {"resolved", "rejected"}
    BY <2>1 DEF Requests, Promises
  <2>3. Settle(requests, frame)[r]
          = IF q.promise = "pending" /\ q.key = frame.key THEN p ELSE q
    BY DEF Settle
  <2> HIDE DEF q, p
  <2>4. q \in Requests /\ q.promise # "new"
    BY <2>1 DEF q
  <2>5. CASE q.promise = "pending" /\ q.key = frame.key
    BY <2>2, <2>3, <2>5
  <2>6. CASE ~(q.promise = "pending" /\ q.key = frame.key)
    BY <2>3, <2>4, <2>6 DEF q
  <2> QED
    BY <2>5, <2>6
<1> QED
  BY <1>1, <1>2

\* A frame is heard.
LEMMA TabHear == ASSUME Tab, Hear PROVE Tab'
<1> USE DEF Tab
<1>1. Chat'
  BY ChatHear
<1>2. UNCHANGED <<wanted, socket, timer, view, creating, sends, serverVars, bounds>>
      /\ inbox # <<>> /\ inbox' = Tail(inbox)
  BY DEF Hear
<1>3. Socket'
  <2>1. inbox' \in Seq(Frames)
    BY <1>2, HeadTailProperties DEF Socket
  <2> QED
    BY <1>2, <2>1 DEF Socket, SocketTypeOK
<1>4. Requested'
  <2>1. CASE requests' = requests
    BY <1>2, <2>1, RequestedAside DEF serverVars
  <2>2. CASE requests' = Settle(requests, Head(inbox))
    <3>1. /\ DOMAIN requests' = DOMAIN requests
          /\ \A r \in DOMAIN requests :
               requests'[r] \in Requests /\ requests'[r].promise # "new"
      BY <2>2, Settled
    <3>2. Len(requests) \in Nat /\ DOMAIN requests = 1..Len(requests)
      BY LenProperties DEF Requested
    <3>3. requests' \in [1..Len(requests) -> Requests]
      <4>1. requests' = [r \in DOMAIN requests' |-> requests'[r]]
        BY <2>2 DEF Settle
      <4> QED
        BY <3>1, <3>2, <4>1
    <3>4. requests' \in Seq(Requests)
      BY <3>2, <3>3, SeqDef
    <3>5. Len(requests') \in Nat /\ DOMAIN requests' = 1..Len(requests')
      BY <3>4, LenProperties
    <3>6. 1..Len(requests') = 1..Len(requests)
      BY <3>1, <3>2, <3>5
    <3> QED
      BY <1>2, <3>1, <3>2, <3>4, <3>6 DEF Requested, serverVars
  <2> QED
    BY <2>1, <2>2 DEF Hear
<1> QED
  BY <1>1, <1>2, <1>3, <1>4, SentAside, RestAside DEF serverVars

\* The socket's events.
LEMMA TabSocket == ASSUME Tab, SocketEvent \/ ConnectionLost PROVE Tab'
<1> USE DEF Tab
<1>1. UNCHANGED <<view, chatVars, requests, serverVars>>
  BY DEF SocketEvent, ConnectionLost
<1>2. Socket'
  BY SocketEvents DEF SocketEvent, ConnectionLost
<1>3. Rest'
  <2>1. CASE SocketEvent
    BY <1>1, <2>1, RestAside DEF SocketEvent, chatVars, serverVars
  <2>2. CASE ConnectionLost
    BY <1>1, <2>2, RestFaults DEF ConnectionLost, chatVars, serverVars, Rest
  <2> QED
    BY <2>1, <2>2
<1> QED
  BY <1>1, <1>2, <1>3, SentAside, ChatAside, RequestedAside DEF chatVars, serverVars

\* The frames that are published.
LEMMA FramesAre ==
  /\ Frame("text", None) \in Frames /\ Frame("status", None) \in Frames
  /\ Frame("done", None) \in Frames
  /\ \A type \in FileFrames, k \in Keys : Frame(type, k) \in Frames
BY DEF Frames, ChatFrame, FileFrame, ChatFrames

\* The agents publish, and store their answers.
LEMMA TabAgents ==
  ASSUME Tab,
         \/ \E c \in Conversations : AgentSays(c) \/ AgentEnds(c)
         \/ \E r \in DOMAIN requests : AgentServes(r)
  PROVE  Tab'
<1> USE DEF Tab
<1>1. ASSUME NEW c \in Conversations, AgentSays(c) PROVE Tab'
  <2>1. UNCHANGED <<view, chatVars, requests, stored, rows, queue, jobs, visits, faults>>
    BY <1>1 DEF AgentSays
  <2>2. Socket'
    BY <1>1, FramesAre, SocketPublish DEF AgentSays
  <2>3. said' \in [Conversations -> Nat]
    BY <1>1 DEF AgentSays, Rest
  <2>4. says' \in 0..MaxSays
    BY <1>1, BrowserAssumption DEF AgentSays, Rest
  <2>5. Rest'
    BY <2>1, <2>3, <2>4 DEF Rest, chatVars
  <2> QED
    BY <2>1, <2>2, <2>5, SentAside, ChatAside, RequestedAside DEF chatVars
<1>2. ASSUME NEW c \in Conversations, AgentEnds(c) PROVE Tab'
  <2>1. UNCHANGED <<view, chatVars, requests, jobs, bounds>>
    BY <1>2 DEF AgentEnds
  <2>2. Socket'
    BY <1>2, FramesAre, SocketPublish DEF AgentEnds
  <2>3. Chat'
    BY <1>2, ChatAnswer DEF Rest
  <2>4. queue' \in [Conversations -> Nat] /\ said' \in [Conversations -> Nat]
    BY <1>2 DEF AgentEnds, Rest
  <2>5. Rest'
    BY <2>1, <2>4 DEF Rest, chatVars, bounds
  <2> QED
    BY <2>1, <2>2, <2>3, <2>5, SentAside, RequestedAside DEF chatVars
<1>3. ASSUME NEW r \in DOMAIN requests, AgentServes(r) PROVE Tab'
  <2>1. UNCHANGED <<view, chatVars, requests, stored, rows, queue, said, bounds>>
        /\ jobs' \subseteq jobs
    BY <1>3 DEF AgentServes
  <2>2. PICK type \in FileFrames : Publish(requests[r].of, Frame(type, requests[r].key))
    BY <1>3 DEF AgentServes
  <2>3. requests[r].key \in Keys
    BY RequestsAre
  <2>4. Socket'
    BY <2>2, <2>3, FramesAre, SocketPublish
  <2>5. Requested'
    BY <2>1 DEF Requested
  <2> QED
    BY <2>1, <2>4, <2>5, SentAside, ChatAside, RestAside DEF chatVars
<1> QED
  BY <1>1, <1>2, <1>3

\* Every step keeps the tab.
LEMMA TabStep == Tab /\ [Next]_vars => Tab'
<1> SUFFICES ASSUME Tab, [Next]_vars PROVE Tab'
  OBVIOUS
<1>1. CASE \E c \in Conversations \union {None} : Navigate(c)
  BY <1>1, TabNavigate
<1>2. ASSUME NEW c \in Conversations,
             StartFetch(c) \/ ReadHistory(c) \/ FetchReturns(c) \/ FetchFails(c)
      PROVE  Tab'
  BY <1>2, TabFetch
<1>3. ASSUME NEW c \in Conversations, NEW k \in Keys, RequestFiles(c, k) PROVE Tab'
  BY <1>3, TabRequest
<1>4. CASE \E t \in Texts : SendMessage(t)
  BY <1>4, TabSend
<1>5. ASSUME NEW i \in DOMAIN sends,
             SaveMessage(i) \/ QueueMessage(i) \/ SendReturns(i) \/ SendFails(i)
      PROVE  Tab'
  BY <1>5, TabSave, TabGoesOn
<1>6. ASSUME NEW r \in DOMAIN requests,
             PushJob(r) \/ RequestReturns(r) \/ RequestFails(r) \/ TimeOut(r)
      PROVE  Tab'
  BY <1>6, TabCall
<1>7. CASE Hear
  BY <1>7, TabHear
<1>8. CASE SocketEvent \/ ConnectionLost
  BY <1>8, TabSocket
<1>9. CASE UNCHANGED vars
  BY <1>9, SocketAside, SentAside, RequestedAside, ChatAside, RestAside
     DEF vars, Tab, chatVars, serverVars
<1> QED
  BY <1>1, <1>2, <1>3, <1>4, <1>5, <1>6, <1>7, <1>8, <1>9, TabAgents DEF Next

\* So the tab stays as it is.
LEMMA TabIsKept == Spec => []Tab
BY TabInit, TabStep, PTL DEF Spec

-----------------------------------------------------------------------------
(* Types, and the chat                                                     *)

\* Every variable of the tab keeps its type.
THEOREM TypeCorrect == Spec => []TypeOK
<1>1. Tab => TypeOK
  <2> SUFFICES ASSUME Tab PROVE TypeOK
    OBVIOUS
  <2>1. SocketTypeOK /\ inbox \in Seq({Frame(type, None) : type \in ChatFrames}
                    \union {Frame(type, key) : type \in FileFrames, key \in Keys})
    BY DEF Tab, Socket, Frames, ChatFrame, FileFrame
  <2>2. sends \in Seq([to : Conversations \union {None}, new : BOOLEAN,
                       text : Texts, stage : SendStages])
    BY DEF Tab, Sent, Sends
  <2>3. /\ requests \in Seq([of : Conversations, key : Keys, call : Calls, promise : Promises])
        /\ jobs \subseteq DOMAIN requests
    BY LenProperties DEF Tab, Requested, Requests
  <2>4. /\ streamed \in Seq(Messages) /\ stored \in [Conversations -> Seq(Messages)]
        /\ cached \in [Conversations -> Seq(Messages)]
        /\ rows \in [Conversations -> Seq(Messages)]
        /\ fetches \in [Conversations -> [at : {"none", "asked", "read"}, rows : Seq(Messages)]]
    BY DEF Tab, Chat, ChatTyped, Fetches
  <2>5. Rest
    BY DEF Tab
  <2> QED
    BY <2>1, <2>2, <2>3, <2>4, <2>5 DEF TypeOK, Rest
<1> QED
  BY <1>1, TabIsKept, PTL

\* However sends, rows, fetches, frames and navigations interleave, and whatever was
\* stored when the page was opened: the chat on view drops nothing of the history it
\* has fetched, shows a text as often as it was sent there, at least, and never more
\* often than it was stored before and sent there, or typed in the tab.
THEOREM PromptsAreShownOnce == Spec => []PromptsShownOnce
<1>1. Tab => PromptsShownOnce
  <2> SUFFICES ASSUME Tab, view # None, NEW t \in Texts,
                      NEW here, here = {i \in {j \in DOMAIN sends : sends[j].text = t} :
                                          sends[i].to = view}
               PROVE  /\ Cardinality(here) <= Count(Displayed, User(t))
                      /\ Count(cached[view], User(t)) <= Count(Displayed, User(t))
                      /\ \/ Count(Displayed, User(t)) <=
                              Count(stored[view], User(t)) + Cardinality(here)
                         \/ Count(Displayed, User(t)) <= Cardinality(SentOf(t))
    BY DEF PromptsShownOnce, SentOf
  <2> DEFINE h == cached[view]
  <2> DEFINE b == stored[view]
  <2>1. /\ h \in Seq(Messages) /\ b \in Seq(Messages) /\ streamed \in Seq(Messages)
        /\ AtMost(view, h)
    BY DEF Tab, Rest, Chat, ChatTyped, TextsCounted
  <2>2. Displayed = MergeMessageHistory(h, streamed)
    BY DEF Displayed
  <2>3. IsFiniteSet(SentOf(t)) /\ Cardinality(SentOf(t)) \in Nat
        /\ Cardinality(SavedTo(view, t)) \in Nat
    BY SentAreFinite DEF Tab
  <2>4. here \subseteq SentOf(t) /\ SavedTo(view, t) \subseteq here
    BY DEF SentOf, SavedTo
  <2>5. /\ Cardinality(here) <= Cardinality(SentOf(t)) /\ Cardinality(here) \in Nat
        /\ Cardinality(SavedTo(view, t)) <= Cardinality(here)
    BY <2>3, <2>4, FS_Subset, FS_CardinalityType
  <2>6. Count(streamed, User(t)) = Cardinality(SentOf(t))
    BY DEF Tab, Chat, TextsCounted
  <2>7. Count(h, User(t)) <= Count(b, User(t)) + Cardinality(SavedTo(view, t))
    BY <2>1 DEF AtMost
  <2> HIDE DEF h, b
  <2>8. /\ Count(h, User(t)) \in Nat /\ Count(b, User(t)) \in Nat
        /\ Count(Displayed, User(t))
             = IF Count(h, User(t)) > Count(streamed, User(t)) THEN Count(h, User(t))
               ELSE Count(streamed, User(t))
    BY <2>1, <2>2, CountIsNat, MergedCount
  <2>9. /\ Cardinality(here) <= Count(Displayed, User(t))
        /\ Count(h, User(t)) <= Count(Displayed, User(t))
        /\ \/ Count(Displayed, User(t)) <= Count(b, User(t)) + Cardinality(here)
           \/ Count(Displayed, User(t)) <= Cardinality(SentOf(t))
    BY ONLY <2>3, <2>5, <2>6, <2>7, <2>8
  <2> QED
    BY <2>9 DEF h, b
<1> QED
  BY <1>1, TabIsKept, PTL

-----------------------------------------------------------------------------
(* File requests                                                           *)

\* What a socket does not hear does not look heard.
LEMMA OnlyHeard ==
  ASSUME Tab, [Next]_vars, ~Hear, socket = "open", socket' = "open", inbox # <<>>
  PROVE  inbox' # Tail(inbox)
<1>1. /\ inbox \in Seq(Frames) /\ Len(Tail(inbox)) = Len(inbox) - 1 /\ Len(inbox) \in Nat
      /\ ~timer
  BY HeadTailProperties, LenProperties DEF Tab, Socket, SocketTypeOK
<1>2. inbox' = inbox \/ \E frame \in Frames : inbox' = Append(inbox, frame)
  <2>1. ASSUME NEW c, NEW frame \in Frames, Publish(c, frame)
        PROVE  inbox' = inbox \/ \E f \in Frames : inbox' = Append(inbox, f)
    BY <2>1 DEF Publish
  <2>2. ASSUME NEW c \in Conversations \union {None}, Navigate(c) PROVE inbox' = inbox
    BY <2>2 DEF Navigate, Show, Connect, Disconnect, socketVars
  <2>3. ASSUME NEW c \in Conversations,
               StartFetch(c) \/ ReadHistory(c) \/ FetchReturns(c) \/ FetchFails(c)
        PROVE  inbox' = inbox
    BY <2>3 DEF StartFetch, ReadHistory, FetchReturns, FetchFails, socketVars
  <2>4. ASSUME NEW c \in Conversations, NEW k, RequestFiles(c, k) PROVE inbox' = inbox
    BY <2>4 DEF RequestFiles, Request, socketVars
  <2>5. ASSUME NEW t, SendMessage(t) PROVE inbox' = inbox
    BY <2>5 DEF SendMessage, socketVars
  <2>6. ASSUME NEW i \in DOMAIN sends,
               SaveMessage(i) \/ QueueMessage(i) \/ SendReturns(i) \/ SendFails(i)
        PROVE  inbox' = inbox
    BY <2>6 DEF SaveMessage, QueueMessage, SendReturns, SendFails, Connect, socketVars
  <2>7. ASSUME NEW r \in DOMAIN requests,
               PushJob(r) \/ RequestReturns(r) \/ RequestFails(r) \/ TimeOut(r)
        PROVE  inbox' = inbox
    BY <2>7 DEF PushJob, RequestReturns, RequestFails, TimeOut, socketVars
  <2>8. CASE SocketEvent \/ ConnectionLost
    BY <1>1, <2>8 DEF SocketEvent, ConnectionLost, Opens, OnClose, TimerFires, Drops
  <2>9. ASSUME NEW c \in Conversations, AgentSays(c) \/ AgentEnds(c)
        PROVE  \E f \in Frames : Publish(c, f)
    BY <2>9, FramesAre DEF AgentSays, AgentEnds
  <2>10. ASSUME NEW r \in DOMAIN requests, AgentServes(r)
         PROVE  \E c : \E f \in Frames : Publish(c, f)
    <3>1. requests[r].key \in Keys
      BY RequestsAre DEF Tab
    <3> QED
      BY <2>10, <3>1, FramesAre DEF AgentServes
  <2>11. CASE UNCHANGED vars
    BY <2>11 DEF vars, socketVars
  <2> QED
    BY <2>1, <2>2, <2>3, <2>4, <2>5, <2>6, <2>7, <2>8, <2>9, <2>10, <2>11 DEF Next
<1>3. \A frame \in Frames : Len(Append(inbox, frame)) = Len(inbox) + 1
  BY <1>1, AppendProperties
<1> QED
  BY <1>1, <1>2, <1>3

\* A frame of a file that reaches the tab finds the entry of its request, and
\* settles it.
THEOREM RequestsAreHeard == Spec => NeverUnheard
<1> DEFINE Heard ==
      \A r \in DOMAIN requests :
       (/\ socket = "open" /\ inbox # <<>> /\ inbox' = Tail(inbox) /\ socket' = "open"
        /\ Head(inbox) \in {Frame("file", requests[r].key), Frame("error", requests[r].key)}
        /\ Unsettled(requests[r]))
         => requests'[r].promise \in {"resolved", "rejected"}
<1>1. Tab /\ [Next]_vars => [Heard]_vars
  <2> SUFFICES ASSUME Tab, [Next]_vars, NEW r \in DOMAIN requests,
                      socket = "open", inbox # <<>>, inbox' = Tail(inbox), socket' = "open",
                      Head(inbox) \in {Frame("file", requests[r].key),
                                       Frame("error", requests[r].key)},
                      Unsettled(requests[r])
               PROVE  requests'[r].promise \in {"resolved", "rejected"}
    OBVIOUS
  <2>1. Hear
    BY OnlyHeard
  <2>2. Head(inbox).type \in FileFrames /\ Head(inbox).key = requests[r].key
    BY DEF Frame, FileFrames
  <2>3. requests' = Settle(requests, Head(inbox))
    BY <2>1, <2>2 DEF Hear
  <2>4. requests[r].promise = "pending"
    BY RequestsAre DEF Tab, Unsettled
  <2> QED
    BY <2>2, <2>3, <2>4, Settled DEF Tab
<1> QED
  BY <1>1, TabIsKept, PTL DEF Spec, NeverUnheard

=============================================================================
