-------------------------- MODULE TxRequestProofs --------------------------
(***************************************************************************)
(* TxRequestTracker keeps its assertions and follows the rules of its      *)
(* header, for any number of peers, transactions and any delays.           *)
(***************************************************************************)
EXTENDS TxRequestTracker, TLAPS

(* An index as the operations leave it. *)
Good(index) ==
    /\ index \subseteq Announcement
    /\ Sane(index)
    /\ \A a \in index : a.state = "COMPLETED" => a.time = 0

(* An announcement is what its fields say. *)
LEMMA SameFields ==
    ASSUME NEW a \in Announcement, NEW b \in Announcement,
           a.txhash = b.txhash, a.peer = b.peer, a.time = b.time, a.state = b.state
    PROVE  a = b
BY DEF Announcement

(* SetState changes the state, and clears the time of a COMPLETED one. *)
LEMMA SetStateFields ==
    ASSUME NEW a \in Announcement, NEW s \in States
    PROVE  /\ SetState(a, s) \in Announcement
           /\ SetState(a, s).txhash = a.txhash
           /\ SetState(a, s).peer = a.peer
           /\ SetState(a, s).state = s
           /\ SetState(a, s).time = IF s = "COMPLETED" THEN 0 ELSE a.time
<1>1. 0 \in Times
  BY TxRequestAssumption DEF Times
<1>2. CASE s = "COMPLETED"
  BY <1>1, <1>2 DEF SetState, Announcement
<1>3. CASE s # "COMPLETED"
  BY <1>3 DEF SetState, Announcement
<1> QED
  BY <1>2, <1>3

(* A request changes the state and the time. *)
LEMMA RequestFields ==
    ASSUME NEW a \in Announcement, NEW t \in Times
    PROVE  LET r == [a EXCEPT !.state = "REQUESTED", !.time = t]
           IN  /\ r \in Announcement /\ r.txhash = a.txhash /\ r.peer = a.peer
               /\ r.state = "REQUESTED" /\ r.time = t
BY DEF Announcement, States

(* The announcement in the naive structure has the same fields but the state. *)
LEMMA PlainFields ==
    ASSUME NEW a \in Announcement
    PROVE  /\ Plain(a).txhash = a.txhash
           /\ Plain(a).peer = a.peer
           /\ Plain(a).time = a.time
           /\ Plain(a).state = IF a.state \in {"DELAYED", "READY", "BEST"} THEN "CANDIDATE" ELSE a.state
           /\ Plain(a) \in [txhash : Hashes, peer : Peers, time : Times, state : {"CANDIDATE", "REQUESTED", "COMPLETED"}]
BY DEF Plain, Announcement, States

(* Two announcements whose fields agree, up to the split of CANDIDATE, are the same in it. *)
LEMMA SamePlain ==
    ASSUME NEW a \in Announcement, NEW b \in Announcement,
           a.txhash = b.txhash, a.peer = b.peer, a.time = b.time,
           a.state = b.state \/ {a.state, b.state} \subseteq {"DELAYED", "READY", "BEST"}
    PROVE  Plain(a) = Plain(b)
BY PlainFields

(* Priorities are naturals, and differ between the peers of a hash. *)
LEMMA Priorities ==
    ASSUME NEW a \in Announcement, NEW b \in Announcement
    PROVE  /\ Priority(a) \in Nat
           /\ a.txhash = b.txhash /\ Priority(a) = Priority(b) => a.peer = b.peer
<1> USE DEF Priority, prio, Announcement
<1>1. low_bits[a.txhash][a.peer] \in Nat /\ low_bits[b.txhash][b.peer] \in Nat /\ TopBit \in Nat
  BY TxRequestAssumption
<1>2. low_bits[a.txhash][a.peer] < TopBit /\ low_bits[b.txhash][b.peer] < TopBit
  BY TxRequestAssumption
<1>3. Priority(a) = low_bits[a.txhash][a.peer] + (IF a.peer \in Preferred THEN TopBit ELSE 0)
  OBVIOUS
<1>4. Priority(b) = low_bits[b.txhash][b.peer] + (IF b.peer \in Preferred THEN TopBit ELSE 0)
  OBVIOUS
<1>5. a.txhash = b.txhash /\ Priority(a) = Priority(b) => low_bits[a.txhash][a.peer] = low_bits[a.txhash][b.peer]
  BY <1>1, <1>2, <1>3, <1>4
<1> QED
  BY <1>1, <1>3, <1>5, TxRequestAssumption

(* A sum of times is a time. *)
LEMMA LaterTime ==
    ASSUME NEW t \in Times, NEW d \in Nat
    PROVE  Later(t, d) \in Times
BY TxRequestAssumption DEF Later, Times

(* Two indexes are the same in the naive structure when each has the other's announcements. *)
LEMMA SameNaive ==
    ASSUME NEW I, NEW J,
           \A a \in I : \E b \in J : Plain(a) = Plain(b),
           \A b \in J : \E a \in I : Plain(a) = Plain(b)
    PROVE  Naive(I) = Naive(J)
BY DEF Naive

(* PromoteCandidateReady keeps the index good, and the naive structure as it is. *)
LEMMA PromoteGood ==
    ASSUME NEW I, Good(I), NEW a \in I, a.state = "DELAYED"
    PROVE  LET J == PromoteCandidateReady(I, a) IN Good(J) /\ Naive(J) = Naive(I)
<1> DEFINE others == {b \in I \ {a} : b.txhash = a.txhash}
           better == {b \in others : b.state = "READY" /\ Priority(b) > Priority(a)}
           selected == {b \in others : IsSelected(b)}
           beaten == {b \in selected : b.state = "BEST" /\ Priority(a) > Priority(b)}
           J == PromoteCandidateReady(I, a)
<1>1. I \subseteq Announcement /\ Sane(I)
  BY DEF Good
<1>2. \A b \in I : /\ SetState(b, "READY") \in Announcement
                   /\ SetState(b, "READY").txhash = b.txhash /\ SetState(b, "READY").peer = b.peer
                   /\ SetState(b, "READY").time = b.time /\ SetState(b, "READY").state = "READY"
  BY <1>1, SetStateFields DEF States
<1>3. /\ SetState(a, "BEST") \in Announcement
      /\ SetState(a, "BEST").txhash = a.txhash /\ SetState(a, "BEST").peer = a.peer
      /\ SetState(a, "BEST").time = a.time /\ SetState(a, "BEST").state = "BEST"
  BY <1>1, SetStateFields DEF States
<1>4. \A b \in I : Priority(b) \in Nat
  BY <1>1, Priorities
<1>5. /\ Priority(SetState(a, "BEST")) = Priority(a)
      /\ \A b \in I : Priority(SetState(b, "READY")) = Priority(b)
  BY <1>2, <1>3 DEF Priority
<1>6. CASE better = {} /\ selected = beaten
  <2> DEFINE K == (I \ ({a} \cup beaten)) \cup {SetState(a, "BEST")} \cup {SetState(b, "READY") : b \in beaten}
  <2>1. J = K
    BY <1>6 DEF PromoteCandidateReady
  <2>2. K \subseteq Announcement
    BY <1>1, <1>2, <1>3
  <2>3. \A x \in K : \E o \in I : /\ x.txhash = o.txhash /\ x.peer = o.peer /\ x.time = o.time
                                  /\ Priority(x) = Priority(o)
                                  /\ \/ x = o /\ o # a /\ o \notin beaten
                                     \/ o = a /\ x = SetState(a, "BEST")
                                     \/ o \in beaten /\ x = SetState(o, "READY")
    BY <1>2, <1>3, <1>5
  <2>4. \A o \in I : \E x \in K : /\ x.txhash = o.txhash /\ x.peer = o.peer /\ x.time = o.time
                                  /\ \/ x = o /\ o # a /\ o \notin beaten
                                     \/ o = a /\ x = SetState(a, "BEST")
                                     \/ o \in beaten /\ x = SetState(o, "READY")
    BY <1>2, <1>3
  <2>5. Naive(K) = Naive(I)
    <3>1. \A x \in K : \E o \in I : Plain(x) = Plain(o)
      BY <1>1, <1>2, <1>3, <2>2, <2>3, SamePlain
    <3>2. \A o \in I : \E x \in K : Plain(x) = Plain(o)
      BY <1>1, <1>2, <1>3, <2>2, <2>4, SamePlain
    <3> QED
      BY <3>1, <3>2, SameNaive
  <2>6. \A x, y \in K : x.txhash = y.txhash /\ x.peer = y.peer => x = y
    BY <1>1, <2>3 DEF Sane
  <2>7. \A x, y \in K : x.txhash = y.txhash /\ IsSelected(x) /\ IsSelected(y) => x = y
    <3>1. \A x \in K : IsSelected(x) =>
             (x \in I /\ x # a /\ x \notin beaten) \/ x = SetState(a, "BEST")
      BY <1>2, <2>3 DEF IsSelected
    <3>2. \A x \in I : x # a /\ x \notin beaten /\ IsSelected(x) => x.txhash # a.txhash
      BY <1>6
    <3> QED
      BY <1>1, <1>3, <3>1, <3>2 DEF Sane
  <2>8. \A x, y \in K : x.txhash = y.txhash /\ x.state = "READY" /\ y.state = "BEST" => Priority(x) <= Priority(y)
    BY <1>1, <1>2, <1>4, <1>5, <1>6, <2>3, SMTT(30) DEF Sane, IsSelected
  <2>9. \A x \in K : \E y \in K : y.txhash = x.txhash /\ y.state # "COMPLETED"
    BY <1>1, <1>2, <1>3, <2>3, <2>4 DEF Sane
  <2>10. \A x \in K : x.state = "READY" => \E y \in K : y.txhash = x.txhash /\ IsSelected(y)
    BY <1>1, <1>2, <1>3, <2>3, <2>4 DEF Sane, IsSelected
  <2>11. \A x \in K : x.state = "COMPLETED" => x.time = 0
    BY <1>2, <1>3, <2>3 DEF Good
  <2>12. Good(K)
    <3> HIDE DEF K
    <3> QED
      BY <2>2, <2>6, <2>7, <2>8, <2>9, <2>10, <2>11 DEF Good, Sane
  <2> QED
    BY <2>1, <2>5, <2>12
<1>7. CASE ~(better = {} /\ selected = beaten)
  <2> DEFINE K == (I \ {a}) \cup {SetState(a, "READY")}
  <2>1. J = K
    BY <1>7 DEF PromoteCandidateReady, Modify
  <2>2. K \subseteq Announcement
    BY <1>1, <1>2
  <2>3. \A x \in K : \E o \in I : /\ x.txhash = o.txhash /\ x.peer = o.peer /\ x.time = o.time
                                  /\ Priority(x) = Priority(o)
                                  /\ \/ x = o /\ o # a
                                     \/ o = a /\ x = SetState(a, "READY")
    BY <1>2, <1>5
  <2>4. \A o \in I : \E x \in K : /\ x.txhash = o.txhash /\ x.peer = o.peer /\ x.time = o.time
                                  /\ \/ x = o /\ o # a
                                     \/ o = a /\ x = SetState(a, "READY")
    BY <1>2
  <2>5. Naive(K) = Naive(I)
    <3>1. \A x \in K : \E o \in I : Plain(x) = Plain(o)
      BY <1>1, <1>2, <2>2, <2>3, SamePlain
    <3>2. \A o \in I : \E x \in K : Plain(x) = Plain(o)
      BY <1>1, <1>2, <2>2, <2>4, SamePlain
    <3> QED
      BY <3>1, <3>2, SameNaive
  <2>6. \A x, y \in K : x.txhash = y.txhash /\ x.peer = y.peer => x = y
    BY <1>1, <2>3 DEF Sane
  <2>7. \A x, y \in K : x.txhash = y.txhash /\ IsSelected(x) /\ IsSelected(y) => x = y
    BY <1>1, <1>2, <2>3 DEF Sane, IsSelected
  <2>8. \E y \in I : y # a /\ y.txhash = a.txhash /\ IsSelected(y) /\ (y.state = "BEST" => Priority(a) <= Priority(y))
    <3>1. CASE better # {}
      <4>1. PICK b \in I : b # a /\ b.txhash = a.txhash /\ b.state = "READY" /\ Priority(b) > Priority(a)
        BY <3>1
      <4>2. PICK y \in I : y.txhash = b.txhash /\ IsSelected(y)
        BY <1>1, <4>1 DEF Sane
      <4>3. y.state = "BEST" => Priority(b) <= Priority(y)
        BY <1>1, <4>1, <4>2 DEF Sane
      <4> QED
        BY <1>4, <4>1, <4>2, <4>3 DEF IsSelected
    <3>2. CASE selected # beaten
      <4>1. PICK y \in selected : y \notin beaten
        BY <3>2
      <4> QED
        BY <1>4, <4>1
    <3> QED
      BY <1>7, <3>1, <3>2
  <2>9. \A x, y \in K : x.txhash = y.txhash /\ x.state = "READY" /\ y.state = "BEST" => Priority(x) <= Priority(y)
    BY <1>1, <1>2, <1>4, <1>5, <2>3, <2>8 DEF Sane, IsSelected
  <2>10. \A x \in K : \E y \in K : y.txhash = x.txhash /\ y.state # "COMPLETED"
    BY <1>1, <1>2, <2>3, <2>4 DEF Sane
  <2>11. \A x \in K : x.state = "READY" => \E y \in K : y.txhash = x.txhash /\ IsSelected(y)
    BY <1>1, <1>2, <2>3, <2>4, <2>8 DEF Sane, IsSelected
  <2>12. \A x \in K : x.state = "COMPLETED" => x.time = 0
    BY <1>2, <2>3 DEF Good
  <2>13. Good(K)
    <3> HIDE DEF K
    <3> QED
      BY <2>2, <2>6, <2>7, <2>9, <2>10, <2>11, <2>12 DEF Good, Sane
  <2> QED
    BY <2>1, <2>5, <2>13
<1> QED
  BY <1>6, <1>7

(* Of the READY announcements of a hash, if there are any, one has the highest priority. *)
LEMMA BestReadyExists ==
    ASSUME NEW I, Good(I), NEW r \in I, r.state = "READY"
    PROVE  BestReady(I, r.txhash) # {}
<1> DEFINE R == {b \in I : b.txhash = r.txhash /\ b.state = "READY"}
           S == {b.peer : b \in {c \in R : c.peer \in Preferred}}
           T == {b.peer : b \in R}
<1>1. R \subseteq Announcement /\ r \in R
  BY DEF Good
<1>2. \A b \in R : b.peer \in Peers /\ b.txhash = r.txhash /\ r.txhash \in Hashes
  BY <1>1 DEF Announcement
<1>3. \A b \in R : /\ low_bits[r.txhash][b.peer] \in Nat /\ low_bits[r.txhash][b.peer] < TopBit
                   /\ Priority(b) = low_bits[r.txhash][b.peer] + (IF b.peer \in Preferred THEN TopBit ELSE 0)
  BY <1>2, TxRequestAssumption DEF Priority, prio
<1>4. SUFFICES \E b \in R : \A c \in R : Priority(c) <= Priority(b)
  BY DEF BestReady
<1>5. TopBit \in Nat
  BY TxRequestAssumption
<1>6. CASE S # {}
  <2>1. S \subseteq Peers /\ r.txhash \in Hashes
    BY <1>1, <1>2
  <2>2. PICK p \in S : \A q \in S : low_bits[r.txhash][q] <= low_bits[r.txhash][p]
    BY <1>6, <2>1, TxRequestAssumption
  <2>3. PICK b \in R : b.peer = p /\ p \in Preferred
    BY <2>2
  <2>4. ASSUME NEW c \in R PROVE Priority(c) <= Priority(b)
    <3>1. CASE c.peer \in Preferred
      BY <1>3, <1>5, <2>2, <2>3, <3>1
    <3>2. CASE c.peer \notin Preferred
      BY <1>3, <1>5, <2>3, <3>2
    <3> QED
      BY <3>1, <3>2
  <2> QED
    BY <2>4
<1>7. CASE S = {}
  <2>1. T \subseteq Peers /\ T # {} /\ r.txhash \in Hashes
    BY <1>1, <1>2
  <2>2. PICK p \in T : \A q \in T : low_bits[r.txhash][q] <= low_bits[r.txhash][p]
    BY <2>1, TxRequestAssumption
  <2>3. PICK b \in R : b.peer = p
    BY <2>2
  <2>4. \A c \in R : c.peer \notin Preferred
    BY <1>7
  <2> QED
    BY <1>3, <2>2, <2>3, <2>4
<1> QED
  BY <1>6, <1>7

(* ChangeAndReselect keeps the index good: the next best announcement is selected. *)
LEMMA ReselectGood ==
    ASSUME NEW I, Good(I), NEW a \in I, NEW s \in {"DELAYED", "COMPLETED"}, a.state # "COMPLETED",
           s = "DELAYED" => a.state \in {"READY", "BEST"},
           s = "COMPLETED" => \E b \in I \ {a} : b.txhash = a.txhash /\ b.state # "COMPLETED"
    PROVE  LET J == ChangeAndReselect(I, a, s)
           IN  /\ Good(J)
               /\ s = "DELAYED" => Naive(J) = Naive(I)
               /\ s = "COMPLETED" => Naive(J) = (Naive(I) \ {Plain(a)}) \cup {Plain(SetState(a, s))}
<1> DEFINE next == IF IsSelected(a) THEN BestReady(I, a.txhash) ELSE {}
           new == SetState(a, s)
           J == (I \ ({a} \cup next)) \cup {new} \cup {SetState(b, "BEST") : b \in next}
<1>1. I \subseteq Announcement /\ Sane(I)
  BY DEF Good
<1>2. \A b \in I : /\ SetState(b, "BEST") \in Announcement
                   /\ SetState(b, "BEST").txhash = b.txhash /\ SetState(b, "BEST").peer = b.peer
                   /\ SetState(b, "BEST").time = b.time /\ SetState(b, "BEST").state = "BEST"
  BY <1>1, SetStateFields DEF States
<1>3. /\ new \in Announcement
      /\ new.txhash = a.txhash /\ new.peer = a.peer
      /\ new.state = s /\ new.time = IF s = "COMPLETED" THEN 0 ELSE a.time
  BY <1>1, SetStateFields DEF States
<1>4. \A b \in I : Priority(b) \in Nat
  BY <1>1, Priorities
<1>5. Priority(new) = Priority(a) /\ \A b \in I : Priority(SetState(b, "BEST")) = Priority(b)
  BY <1>2, <1>3 DEF Priority
<1>6. \A b \in next : /\ IsSelected(a) /\ b \in I /\ b # a /\ b.txhash = a.txhash /\ b.state = "READY"
                      /\ \A c \in I : c.txhash = a.txhash /\ c.state = "READY" => Priority(c) <= Priority(b)
  BY DEF BestReady, IsSelected
<1>7. \A b, c \in next : b = c
  <2> SUFFICES ASSUME NEW b \in next, NEW c \in next PROVE b = c
    OBVIOUS
  <2>1. Priority(b) = Priority(c)
    BY <1>4, <1>6
  <2>2. b.peer = c.peer
    BY <1>1, <1>6, <2>1, Priorities
  <2> QED
    BY <1>1, <1>6, <2>2 DEF Sane
<1>8. IsSelected(a) => \A r \in I : r.txhash = a.txhash /\ r.state = "READY" => next # {}
  BY BestReadyExists
<1>9. ChangeAndReselect(I, a, s) = J
  BY DEF ChangeAndReselect
<1> HIDE DEF next, new
<1>10. J \subseteq Announcement
  BY <1>1, <1>2, <1>3, <1>6
<1>11. \A x \in J : \E o \in I : /\ x.txhash = o.txhash /\ x.peer = o.peer /\ Priority(x) = Priority(o)
                                /\ \/ x = o /\ o # a /\ o \notin next
                                   \/ o = a /\ x = new
                                   \/ o \in next /\ x = SetState(o, "BEST")
  BY <1>2, <1>3, <1>5, <1>6
<1>12. \A o \in I : \E x \in J : /\ x.txhash = o.txhash
                                /\ \/ x = o /\ o # a /\ o \notin next
                                   \/ o = a /\ x = new
                                   \/ o \in next /\ x = SetState(o, "BEST")
  BY <1>2, <1>3, <1>6
<1>13. \A x, y \in J : x.txhash = y.txhash /\ x.peer = y.peer => x = y
  BY <1>1, <1>6, <1>11 DEF Sane
<1>14. \A x \in J : IsSelected(x) => \/ x \in I /\ x # a /\ x \notin next /\ (IsSelected(a) => x.txhash # a.txhash)
                                     \/ \E b \in next : x = SetState(b, "BEST")
  BY <1>1, <1>3, <1>11 DEF Sane, IsSelected
<1>15. \A x, y \in J : x.txhash = y.txhash /\ IsSelected(x) /\ IsSelected(y) => x = y
  BY <1>1, <1>2, <1>6, <1>7, <1>14 DEF Sane
<1>16. \A x, y \in J : x.txhash = y.txhash /\ x.state = "READY" /\ y.state = "BEST" => Priority(x) <= Priority(y)
  <2> SUFFICES ASSUME NEW x \in J, NEW y \in J, x.txhash = y.txhash, x.state = "READY", y.state = "BEST"
               PROVE  Priority(x) <= Priority(y)
    OBVIOUS
  <2>1. x \in I /\ x # a /\ x \notin next
    BY <1>2, <1>3, <1>11
  <2>2. CASE y \in I
    BY <1>1, <2>1, <2>2 DEF Sane
  <2>3. CASE \E b \in next : y = SetState(b, "BEST")
    BY <1>2, <1>5, <1>6, <2>1, <2>3
  <2> QED
    BY <1>14, <2>2, <2>3 DEF IsSelected
<1>17. \A x \in J : \E y \in J : y.txhash = x.txhash /\ y.state # "COMPLETED"
  <2> SUFFICES ASSUME NEW x \in J PROVE \E y \in J : y.txhash = x.txhash /\ y.state # "COMPLETED"
    OBVIOUS
  <2>1. \E b \in I : b.txhash = x.txhash /\ b.state # "COMPLETED" /\ (b = a => s # "COMPLETED")
    BY <1>1, <1>11 DEF Sane
  <2> QED
    BY <1>2, <1>3, <1>12, <2>1
<1>18. \A x \in J : x.state = "READY" => \E y \in J : y.txhash = x.txhash /\ IsSelected(y)
  <2> SUFFICES ASSUME NEW x \in J, x.state = "READY" PROVE \E y \in J : y.txhash = x.txhash /\ IsSelected(y)
    OBVIOUS
  <2>1. x \in I /\ x # a /\ x \notin next
    BY <1>2, <1>3, <1>11
  <2>2. PICK b \in I : b.txhash = x.txhash /\ IsSelected(b)
    BY <1>1, <2>1 DEF Sane
  <2>3. CASE b = a
    BY <1>2, <1>6, <1>8, <2>1, <2>2, <2>3 DEF IsSelected
  <2>4. CASE b # a
    BY <1>6, <2>2, <2>4 DEF IsSelected
  <2> QED
    BY <2>3, <2>4
<1>19. \A x \in J : x.state = "COMPLETED" => x.time = 0
  BY <1>2, <1>3, <1>11 DEF Good
<1>20. Good(J)
  <2> HIDE DEF J
  <2> QED
    BY <1>10, <1>13, <1>15, <1>16, <1>17, <1>18, <1>19 DEF Good, Sane
<1>21. \A b \in next : Plain(SetState(b, "BEST")) = Plain(b)
  BY <1>1, <1>2, <1>6, SamePlain
<1>22. ASSUME s = "DELAYED" PROVE Naive(J) = Naive(I)
  <2>1. Plain(new) = Plain(a)
    BY <1>1, <1>3, <1>22, SamePlain
  <2>2. \A x \in J : \E o \in I : Plain(x) = Plain(o)
    BY <1>11, <1>21, <2>1
  <2>3. \A o \in I : \E x \in J : Plain(x) = Plain(o)
    BY <1>12, <1>21, <2>1
  <2> QED
    BY <2>2, <2>3, SameNaive
<1>23. Naive(J) = (Naive(I) \ {Plain(a)}) \cup {Plain(new)} \/ s = "DELAYED"
  <2>1. \A b \in I : b # a => Plain(b) # Plain(a)
    BY <1>1, PlainFields DEF Sane
  <2>2. \A x \in J : x = new \/ \E o \in I : o # a /\ Plain(x) = Plain(o)
    BY <1>6, <1>11, <1>21
  <2>3. new \in J /\ \A o \in I : o = a \/ \E x \in J : Plain(x) = Plain(o)
    BY <1>12, <1>21
  <2> HIDE DEF J
  <2> QED
    BY <2>1, <2>2, <2>3 DEF Naive
<1> QED
  BY <1>9, <1>20, <1>22, <1>23 DEF new

(* Forgetting a hash keeps the index good. *)
LEMMA ForgetGood ==
    ASSUME NEW I, Good(I), NEW h
    PROVE  LET J == ForgetTxHash(I, h)
           IN  Good(J) /\ Naive(J) = {x \in Naive(I) : x.txhash # h}
<1> DEFINE J == ForgetTxHash(I, h)
<1>1. I \subseteq Announcement /\ Sane(I) /\ \A a \in I : a.state = "COMPLETED" => a.time = 0
  BY DEF Good
<1>2. \A a : a \in J <=> a \in I /\ a.txhash # h
  BY DEF ForgetTxHash
<1>3. Good(J)
  <2> HIDE DEF J
  <2> QED
    BY <1>1, <1>2 DEF Good, Sane
<1>4. \A a \in I : Plain(a).txhash = a.txhash
  BY <1>1, PlainFields
<1>5. Naive(J) = {x \in Naive(I) : x.txhash # h}
  <2> HIDE DEF J
  <2> QED
    BY <1>2, <1>4 DEF Naive
<1> QED
  BY <1>3, <1>5

(* A COMPLETED announcement in the naive structure. *)
LEMMA CompletedPlain ==
    ASSUME NEW a \in Announcement
    PROVE  Plain(SetState(a, "COMPLETED")) = [Plain(a) EXCEPT !.state = "COMPLETED", !.time = 0]
BY DEF Plain, SetState, Announcement, States

(* MakeCompleted keeps the index good, and is the rule for a failed announcement. *)
LEMMA CompleteGood ==
    ASSUME NEW I, Good(I), NEW a \in I
    PROVE  LET J == MakeCompleted(I, a)
           IN  /\ Good(J)
               /\ a.state = "COMPLETED" => J = I
               /\ a.state # "COMPLETED" => Naive(J) = Rules!Completed(Naive(I), Plain(a))
<1> DEFINE J == MakeCompleted(I, a)
           new == SetState(a, "COMPLETED")
           N == (Naive(I) \ {Plain(a)}) \cup {Plain(new)}
<1>1. I \subseteq Announcement /\ a \in Announcement
  BY DEF Good
<1>2. CASE a.state = "COMPLETED"
  BY <1>2 DEF MakeCompleted
<1>3. CASE a.state # "COMPLETED"
  <2>1. new.txhash = a.txhash /\ new \in Announcement /\ new.state = "COMPLETED"
    BY <1>1, SetStateFields DEF States
  <2>2. /\ Plain(a).txhash = a.txhash /\ Plain(new).txhash = a.txhash /\ Plain(new).state = "COMPLETED"
        /\ \A b \in I : Plain(b).txhash = b.txhash /\ (Plain(b).state = "COMPLETED" <=> b.state = "COMPLETED")
    BY <1>1, <2>1, PlainFields
  <2>3. Rules!Completed(Naive(I), Plain(a)) = Rules!Cleanup(N, a.txhash)
    BY <1>1, <2>2, CompletedPlain DEF Rules!Completed
  <2>4. CASE IsOnlyNonCompleted(I, a)
    <3>1. J = ForgetTxHash(I, a.txhash)
      BY <1>3, <2>4 DEF MakeCompleted
    <3>2. \A b \in I \ {a} : b.txhash = a.txhash => b.state = "COMPLETED"
      BY <2>4 DEF IsOnlyNonCompleted
    <3>3. \A x \in N : x.txhash = a.txhash => x.state = "COMPLETED"
      BY <2>2, <3>2 DEF Naive
    <3>4. Rules!Cleanup(N, a.txhash) = {x \in N : x.txhash # a.txhash}
      BY <3>3 DEF Rules!Cleanup
    <3>5. {x \in N : x.txhash # a.txhash} = {x \in Naive(I) : x.txhash # a.txhash}
      BY <2>2
    <3> QED
      BY <1>3, <2>3, <3>1, <3>4, <3>5, ForgetGood
  <2>5. CASE ~IsOnlyNonCompleted(I, a)
    <3>1. J = ChangeAndReselect(I, a, "COMPLETED")
      BY <1>3, <2>5 DEF MakeCompleted
    <3>2. PICK b \in I \ {a} : b.txhash = a.txhash /\ b.state # "COMPLETED"
      BY <2>5 DEF IsOnlyNonCompleted
    <3>3. Good(J) /\ Naive(J) = N
      BY <1>3, <3>1, <3>2, ReselectGood
    <3>4. Plain(b) \in N /\ Plain(b).txhash = a.txhash /\ Plain(b).state # "COMPLETED"
      <4>1. Plain(b) # Plain(a)
        BY <1>1, <3>2, PlainFields DEF Good, Sane
      <4> QED
        BY <2>2, <3>2, <4>1 DEF Naive
    <3>5. Rules!Cleanup(N, a.txhash) = N
      BY <3>4 DEF Rules!Cleanup
    <3> QED
      BY <1>3, <2>3, <3>3, <3>5
  <2> QED
    BY <2>4, <2>5
<1> QED
  BY <1>2, <1>3

(* A COMPLETED announcement can be taken out of the index. *)
LEMMA RemoveGood ==
    ASSUME NEW I, Good(I), NEW a \in I, a.state = "COMPLETED"
    PROVE  Good(I \ {a}) /\ Naive(I \ {a}) = Naive(I) \ {Plain(a)}
<1>1. I \subseteq Announcement /\ Sane(I) /\ \A b \in I : b.state = "COMPLETED" => b.time = 0
  BY DEF Good
<1>2. \A b \in I : b # a => Plain(b) # Plain(a)
  BY <1>1, PlainFields DEF Sane
<1>3. Good(I \ {a})
  BY <1>1 DEF Good, Sane, IsSelected
<1>4. Naive(I \ {a}) = Naive(I) \ {Plain(a)}
  BY <1>2 DEF Naive
<1> QED
  BY <1>3, <1>4

(* A turn of the loop of DisconnectedPeer removes one announcement. *)
LEMMA EraseGood ==
    ASSUME NEW I, Good(I), NEW a \in I
    PROVE  LET J == MakeCompleted(I, a) \ {SetState(a, "COMPLETED")}
           IN  Good(J) /\ Naive(J) = Rules!Cleanup(Naive(I) \ {Plain(a)}, a.txhash)
<1> DEFINE new == SetState(a, "COMPLETED")
           K == MakeCompleted(I, a)
           J == K \ {new}
           N == Naive(I) \ {Plain(a)}
<1>1. I \subseteq Announcement /\ a \in Announcement
  BY DEF Good
<1>2. /\ new \in Announcement /\ new.txhash = a.txhash /\ new.peer = a.peer
      /\ new.state = "COMPLETED" /\ new.time = 0
  BY <1>1, SetStateFields DEF States
<1>3. /\ \A b \in I : /\ Plain(b).txhash = b.txhash /\ Plain(b).peer = b.peer
                       /\ (Plain(b).state = "COMPLETED" <=> b.state = "COMPLETED")
      /\ \A b \in I : b # a => Plain(b) # Plain(a) /\ (b.txhash # a.txhash \/ b.peer # a.peer)
      /\ Plain(new).txhash = a.txhash /\ Plain(new).peer = a.peer
  BY <1>1, <1>2, PlainFields DEF Good, Sane
<1>4. ASSUME NEW b \in I \ {a}, b.txhash = a.txhash, b.state # "COMPLETED"
      PROVE  Rules!Cleanup(N, a.txhash) = N
  <2>1. Plain(b) \in N /\ Plain(b).txhash = a.txhash /\ Plain(b).state # "COMPLETED"
    BY <1>3, <1>4 DEF Naive
  <2> QED
    BY <2>1 DEF Rules!Cleanup
<1>5. CASE a.state = "COMPLETED"
  <2>1. K = I /\ new = a
    <3>1. a.time = 0
      BY <1>5 DEF Good
    <3> QED
      BY <1>1, <1>2, <1>5, <3>1, SameFields DEF MakeCompleted
  <2>2. Good(J) /\ Naive(J) = N
    BY <1>5, <2>1, RemoveGood
  <2>3. PICK b \in I \ {a} : b.txhash = a.txhash /\ b.state # "COMPLETED"
    BY <1>5 DEF Good, Sane
  <2> QED
    BY <1>4, <2>2, <2>3
<1>6. CASE a.state # "COMPLETED" /\ IsOnlyNonCompleted(I, a)
  <2>1. K = ForgetTxHash(I, a.txhash)
    BY <1>6 DEF MakeCompleted
  <2>2. J = K
    BY <1>2, <2>1 DEF ForgetTxHash
  <2>3. \A x \in N : x.txhash = a.txhash => x.state = "COMPLETED"
    BY <1>3, <1>6 DEF Naive, IsOnlyNonCompleted
  <2>4. Rules!Cleanup(N, a.txhash) = {x \in N : x.txhash # a.txhash}
    BY <2>3 DEF Rules!Cleanup
  <2>5. {x \in N : x.txhash # a.txhash} = {x \in Naive(I) : x.txhash # a.txhash}
    BY <1>3
  <2>6. Good(K) /\ Naive(K) = {x \in Naive(I) : x.txhash # a.txhash}
    BY <2>1, ForgetGood
  <2>7. Good(J) /\ Naive(J) = Rules!Cleanup(N, a.txhash)
    <3> HIDE DEF K, J, N
    <3> QED
      BY <2>2, <2>4, <2>5, <2>6
  <2> QED
    BY <2>7
<1>7. CASE a.state # "COMPLETED" /\ ~IsOnlyNonCompleted(I, a)
  <2>1. K = ChangeAndReselect(I, a, "COMPLETED")
    BY <1>7 DEF MakeCompleted
  <2>2. PICK b \in I \ {a} : b.txhash = a.txhash /\ b.state # "COMPLETED"
    BY <1>7 DEF IsOnlyNonCompleted
  <2>3. Good(K) /\ Naive(K) = N \cup {Plain(new)}
    BY <1>7, <2>1, <2>2, ReselectGood
  <2>4. new \in K
    BY <2>1 DEF ChangeAndReselect
  <2>5. Good(J) /\ Naive(J) = Naive(K) \ {Plain(new)}
    <3> HIDE DEF K, new
    <3> QED
      BY <1>2, <2>3, <2>4, RemoveGood
  <2>6. Plain(new) \notin N
    BY <1>3 DEF Naive
  <2>7. Naive(J) = N
    BY <2>3, <2>5, <2>6
  <2> QED
    BY <1>4, <2>2, <2>5, <2>7
<1> QED
  BY <1>5, <1>6, <1>7

(* A new announcement keeps the index good, and is a new candidate or none. *)
LEMMA InvGood ==
    ASSUME NEW I, Good(I), NEW p \in Peers, NEW h \in Hashes, NEW t \in Times
    PROVE  LET J == ReceivedInv(I, p, h, t)
           IN  /\ Good(J)
               /\ \/ J = I
                  \/ /\ \A x \in Naive(I) : x.txhash # h \/ x.peer # p
                     /\ Naive(J) = Naive(I) \cup {[txhash |-> h, peer |-> p, time |-> t, state |-> "CANDIDATE"]}
<1> DEFINE J == ReceivedInv(I, p, h, t)
           new == [txhash |-> h, peer |-> p, time |-> t, state |-> "DELAYED"]
<1>1. I \subseteq Announcement /\ Sane(I) /\ \A a \in I : a.state = "COMPLETED" => a.time = 0
  BY DEF Good
<1>2. CASE \E a \in I : a.peer = p /\ a.txhash = h
  BY <1>2 DEF ReceivedInv
<1>3. CASE ~\E a \in I : a.peer = p /\ a.txhash = h
  <2>1. J = I \cup {new}
    BY <1>3 DEF ReceivedInv
  <2>2. new \in Announcement /\ new.txhash = h /\ new.peer = p /\ new.state = "DELAYED"
    BY DEF Announcement, States
  <2>3. Plain(new) = [txhash |-> h, peer |-> p, time |-> t, state |-> "CANDIDATE"]
    BY DEF Plain
  <2> HIDE DEF new, J
  <2>4. Good(J)
    BY <1>1, <1>3, <2>1, <2>2 DEF Good, Sane, IsSelected
  <2>5. Naive(J) = Naive(I) \cup {Plain(new)}
    BY <2>1 DEF Naive
  <2>6. \A x \in Naive(I) : x.txhash # h \/ x.peer # p
    BY <1>1, <1>3, PlainFields DEF Naive
  <2> QED
    BY <2>3, <2>4, <2>5, <2>6 DEF J
<1> QED
  BY <1>2, <1>3

(* An announcement once it is requested. *)
AsRequested(a, t) == [a EXCEPT !.state = "REQUESTED", !.time = t]

(* A request made from the BEST announcement keeps the index good. *)
LEMMA RequestGood ==
    ASSUME NEW I, Good(I), NEW a \in I, a.state = "BEST", NEW t \in Times
    PROVE  LET J == RequestedTx(I, a, t)
           IN  /\ Good(J)
               /\ Naive(J) = (Naive(I) \ {Plain(a)}) \cup {AsRequested(Plain(a), t)}
<1> DEFINE J == RequestedTx(I, a, t)
           new == [a EXCEPT !.state = "REQUESTED", !.time = t]
<1>1. I \subseteq Announcement /\ Sane(I) /\ \A b \in I : b.state = "COMPLETED" => b.time = 0
  BY DEF Good
<1>2. J = (I \ {a}) \cup {new}
  BY DEF RequestedTx
<1>3. /\ new \in Announcement /\ new.txhash = a.txhash /\ new.peer = a.peer
      /\ new.state = "REQUESTED" /\ new.time = t
  BY <1>1, RequestFields
<1>4. Plain(new) = AsRequested(Plain(a), t)
  BY <1>1 DEF Plain, AsRequested, Announcement, States
<1>5. \A b \in I : b # a => Plain(b) # Plain(a)
  BY <1>1, PlainFields DEF Sane
<1> HIDE DEF new, J
<1>6. Good(J)
  BY <1>1, <1>2, <1>3 DEF Good, Sane, IsSelected
<1>7. Naive(J) = (Naive(I) \ {Plain(a)}) \cup {Plain(new)}
  BY <1>2, <1>5 DEF Naive
<1> QED
  BY <1>4, <1>6, <1>7 DEF J

-----------------------------------------------------------------------------
(* The inductive invariant.  Besides a good index it says what the two      *)
(* loops of SetTimePoint have settled: once the first is done nothing that  *)
(* waits is due; once both are, and until SendMessages has asked for it, a  *)
(* hash that was returned has its BEST announcement at the peer, and all    *)
(* its announcements are on the right side of the clock.                    *)
IInv ==
    /\ TypeOK
    /\ Good(m_index)
    /\ at # "idle" => calls = <<>>
    /\ at = "backward" => \A a \in m_index : IsWaiting(a) => a.time > clock
    /\ at = "request" =>
          \A h \in requestable :
             /\ \E a \in m_index : a.peer = peer /\ a.txhash = h /\ a.state = "BEST"
             /\ \A a \in m_index : a.txhash = h =>
                   (IsWaiting(a) => a.time > clock) /\ (IsSelectable(a) => a.time <= clock)

(* A step of the rules, or one that they do not see. *)
Allowed == [Rules!Next]_<<Naive(m_index), clock>>

(* When the announcements of a hash are on the right side of the clock, the BEST *)
(* one is the one that the rules select.                                         *)
LEMMA BestSelected ==
    ASSUME NEW I, Good(I), clock \in Times, NEW a \in I,
           \A b \in I : b.txhash = a.txhash =>
              (IsWaiting(b) => b.time > clock) /\ (IsSelectable(b) => b.time <= clock)
    PROVE  a.state = "BEST" <=> Rules!Selected(Naive(I), Plain(a))
<1>1. I \subseteq Announcement /\ Sane(I)
  BY DEF Good
<1>2. \A b \in I : /\ Plain(b).txhash = b.txhash /\ Plain(b).peer = b.peer /\ Plain(b).time = b.time
                   /\ Plain(b).state = IF b.state \in {"DELAYED", "READY", "BEST"} THEN "CANDIDATE" ELSE b.state
  BY <1>1, PlainFields
<1>3. \A b \in I : Priority(b) \in Nat /\ Priority(b) = prio[Plain(b).txhash][Plain(b).peer]
  BY <1>1, <1>2, Priorities DEF Priority
<1>4. \A b \in I : b.time \in Int /\ clock \in Int
  BY <1>1, TxRequestAssumption DEF Announcement, Times
<1>5. ASSUME a.state = "BEST" PROVE Rules!Selected(Naive(I), Plain(a))
  <2>1. Plain(a).state = "CANDIDATE" /\ Plain(a).time <= clock
    BY <1>2, <1>5 DEF IsSelectable
  <2>2. ASSUME NEW b \in I, b.txhash = a.txhash
        PROVE  /\ b.state # "REQUESTED"
               /\ b.state \in {"DELAYED", "READY", "BEST"} /\ b.time <= clock => Priority(b) <= Priority(a)
    <3>1. b.state # "REQUESTED"
      BY <1>1, <1>5, <2>2 DEF Sane, IsSelected
    <3>2. CASE b.state = "DELAYED"
      BY <1>4, <2>2, <3>2 DEF IsWaiting
    <3>3. CASE b.state = "READY"
      BY <1>1, <1>5, <2>2, <3>3 DEF Sane
    <3>4. CASE b.state = "BEST"
      <4>1. b = a
        BY <1>1, <1>5, <2>2, <3>4 DEF Sane, IsSelected
      <4> QED
        BY <1>3, <3>1, <4>1
    <3> QED
      BY <3>1, <3>2, <3>3, <3>4
  <2>3. ASSUME NEW x \in Naive(I), x.txhash = Plain(a).txhash
        PROVE  /\ x.state # "REQUESTED"
               /\ x.state = "CANDIDATE" /\ x.time <= clock =>
                     prio[x.txhash][x.peer] <= prio[Plain(a).txhash][Plain(a).peer]
    <3>1. PICK b \in I : x = Plain(b)
      BY DEF Naive
    <3>2. b.txhash = a.txhash
      BY <1>2, <2>3, <3>1
    <3>3. Priority(b) = prio[x.txhash][x.peer] /\ Priority(a) = prio[Plain(a).txhash][Plain(a).peer]
      BY <1>3, <3>1
    <3>4. x.time = b.time /\ (x.state = "REQUESTED" => b.state = "REQUESTED")
          /\ (x.state = "CANDIDATE" => b.state \in {"DELAYED", "READY", "BEST"})
      BY <1>1, <1>2, <3>1 DEF Announcement, States
    <3> QED
      BY <2>2, <3>2, <3>3, <3>4
  <2> QED
    BY <2>1, <2>3 DEF Rules!Selected
<1>6. ASSUME Rules!Selected(Naive(I), Plain(a)) PROVE a.state = "BEST"
  <2>1. Plain(a).state = "CANDIDATE" /\ Plain(a).time <= clock
    BY <1>6 DEF Rules!Selected
  <2>2. \A b \in I : b.txhash = a.txhash =>
           /\ b.state # "REQUESTED"
           /\ b.state = "BEST" /\ b.time <= clock => Priority(b) <= Priority(a)
    BY <1>2, <1>3, <1>6 DEF Rules!Selected, Naive
  <2>3. a.state \in {"READY", "BEST"}
    BY <1>1, <1>2, <1>4, <2>1 DEF IsWaiting, Announcement, States
  <2>4. ASSUME a.state = "READY" PROVE FALSE
    <3>1. PICK b \in I : b.txhash = a.txhash /\ IsSelected(b)
      BY <1>1, <2>4 DEF Sane
    <3>2. b.state = "BEST" /\ b.time <= clock
      BY <2>2, <3>1 DEF IsSelected, IsSelectable
    <3>3. Priority(a) = Priority(b)
      BY <1>1, <1>3, <2>2, <2>4, <3>1, <3>2, SMTT(30) DEF Sane
    <3>4. a.peer = b.peer
      BY <1>1, <3>1, <3>3, Priorities
    <3> QED
      BY <1>1, <2>4, <3>1, <3>2, <3>4 DEF Sane
  <2> QED
    BY <2>3, <2>4
<1> QED
  BY <1>5, <1>6

(* The delay of an announcement is a natural number. *)
LEMMA DelayNat ==
    ASSUME NEW p, NEW w
    PROVE  Delay(p, w) \in Nat
BY TxRequestAssumption DEF Delay

(* A tracker call keeps the index good, and is allowed by the rules. *)
LEMMA CalledGood ==
    ASSUME IInv, NEW c \in Call, NEW others, Handle(c, others)
    PROVE  Good(m_index') /\ Allowed
<1>1. m_index' = Called(c) /\ clock' = clock /\ Good(m_index) /\ clock \in Times
  BY DEF Handle, IInv, TypeOK
<1>2. CASE c.fn = "AddTxAnnouncement"
  <2> DEFINE t == Later(clock, Delay(c.peer, c.is_wtxid))
  <2>1. c.peer \in Peers /\ c.hash \in Hashes
    BY <1>2 DEF Call
  <2>2. t \in Times
    BY <1>1, LaterTime, DelayNat
  <2>3. m_index' = m_index \/ m_index' = ReceivedInv(m_index, c.peer, c.hash, t)
    BY <1>1, <1>2 DEF Called, AddTxAnnouncement
  <2> HIDE DEF t
  <2>4. CASE m_index' = m_index
    BY <1>1, <2>4 DEF Allowed
  <2>5. CASE m_index' = ReceivedInv(m_index, c.peer, c.hash, t)
    <3>1. /\ Good(m_index')
          /\ \/ m_index' = m_index
             \/ /\ \A x \in Naive(m_index) : x.txhash # c.hash \/ x.peer # c.peer
                /\ Naive(m_index') = Naive(m_index) \cup
                      {[txhash |-> c.hash, peer |-> c.peer, time |-> t, state |-> "CANDIDATE"]}
      BY <1>1, <2>1, <2>2, <2>5, InvGood
    <3> QED
      BY <1>1, <2>1, <2>2, <3>1 DEF Allowed, Rules!Next, Rules!ReceivedInv
  <2> QED
    BY <2>3, <2>4, <2>5
<1>3. CASE c.fn = "ReceivedResponse"
  <2>1. m_index' = ReceivedResponse(m_index, c.peer, c.hash)
    BY <1>1, <1>3 DEF Called
  <2>2. m_index' = m_index \/ \E a \in m_index : m_index' = MakeCompleted(m_index, a)
    BY <2>1 DEF ReceivedResponse
  <2>3. CASE m_index' = m_index
    BY <1>1, <2>3 DEF Allowed
  <2>4. ASSUME NEW a \in m_index, m_index' = MakeCompleted(m_index, a)
        PROVE  Good(m_index') /\ Allowed
    <3>1. /\ Good(m_index')
          /\ a.state = "COMPLETED" => m_index' = m_index
          /\ a.state # "COMPLETED" => Naive(m_index') = Rules!Completed(Naive(m_index), Plain(a))
      BY <1>1, <2>4, CompleteGood
    <3>2. a.state # "COMPLETED" => Plain(a).state # "COMPLETED"
      BY <1>1, PlainFields DEF Good
    <3>3. Plain(a) \in Naive(m_index)
      BY DEF Naive
    <3> QED
      BY <1>1, <3>1, <3>2, <3>3 DEF Allowed, Rules!Next, Rules!ReceivedResponse
  <2> QED
    BY <2>2, <2>3, <2>4
<1>4. CASE c.fn = "ForgetTxHash"
  <2>1. m_index' = ForgetTxHash(m_index, c.hash) /\ c.hash \in Hashes
    BY <1>1, <1>4 DEF Called, Call
  <2>2. Good(m_index') /\ Naive(m_index') = {x \in Naive(m_index) : x.txhash # c.hash}
    BY <1>1, <2>1, ForgetGood
  <2> QED
    BY <1>1, <2>1, <2>2 DEF Allowed, Rules!Next, Rules!ForgetTxHash
<1>5. c.fn \in {"AddTxAnnouncement", "ReceivedResponse", "ForgetTxHash"}
  BY DEF Call
<1> QED
  BY <1>2, <1>3, <1>4, <1>5

(* A function on 1..n is a sequence. *)
LEMMA IsASeq ==
    ASSUME NEW S, NEW n \in Nat, NEW f \in [1..n -> S]
    PROVE  f \in Seq(S)
OBVIOUS

(* What a handler leaves to do is a sequence of calls. *)
LEMMA VerdictCallsType ==
    ASSUME NEW p \in Peers, NEW tx \in Txs, NEW verdict \in Verdicts
    PROVE  VerdictCalls(p, tx, verdict) \in Seq(Call)
<1> DEFINE parents == IF verdict = "MISSING_INPUTS" THEN tx.parents ELSE <<>>
           known == Known(tx, verdict)
<1>1. tx.txid \in Hashes /\ tx.wtxid \in Hashes /\ tx.parents \in Seq(Hashes)
  BY TxRequestAssumption
<1>2. parents \in Seq(Hashes) /\ known \in Seq(Hashes)
  BY <1>1 DEF Known
<1> HIDE DEF parents, known
<1>3. \A h \in Hashes : Announce(p, h, FALSE) \in Call /\ Forget(h) \in Call
  BY DEF Announce, Forget, Call
<1>4. /\ \A i \in 1..Len(parents) : Announce(p, parents[i], FALSE) \in Call
      /\ \A i \in 1..Len(known) : Forget(known[i]) \in Call
  <2>1. (\A i \in 1..Len(parents) : parents[i] \in Hashes) /\ (\A i \in 1..Len(known) : known[i] \in Hashes)
    BY <1>2
  <2> QED
    BY <1>3, <2>1
<1>5. Len(parents) \in Nat /\ Len(known) \in Nat
  BY <1>2
<1> DEFINE s == [i \in 1..Len(parents) |-> Announce(p, parents[i], FALSE)]
           t == [i \in 1..Len(known) |-> Forget(known[i])]
<1>6. s \in Seq(Call) /\ t \in Seq(Call)
  BY <1>4, <1>5, IsASeq
<1>7. VerdictCalls(p, tx, verdict) = s \o t
  BY DEF VerdictCalls, parents, known
<1> HIDE DEF s, t
<1> QED
  BY <1>6, <1>7

(* A step of a handler that makes a tracker call keeps the invariant. *)
LEMMA HandleStep ==
    ASSUME IInv, NEW c \in Call, NEW others \in Seq(Call), Handle(c, others),
           at = "idle", have' \subseteq Hashes
    PROVE  IInv' /\ Allowed
<1>1. Good(m_index') /\ Allowed
  BY CalledGood
<1>2. m_index' \subseteq Announcement
  BY <1>1 DEF Good
<1>3. calls' = others /\ UNCHANGED <<at, peer, requestable, online, clock, setbacks>>
  BY DEF Handle
<1> QED
  BY <1>1, <1>2, <1>3 DEF IInv, TypeOK

(* Sequences of no call and of one call. *)
LEMMA ShortSeqs ==
    ASSUME NEW S, NEW c \in S
    PROVE  <<c>> \in Seq(S) /\ <<>> \in Seq(S)
OBVIOUS

(* The steps of the handlers keep the invariant and are allowed. *)
LEMMA HandlerSteps ==
    ASSUME IInv,
           \/ MakeCall
           \/ \E i \in Invs : Inv(i[1], i[2])
           \/ \E p \in Peers, tx \in Txs, verdict \in Verdicts : TxMessage(p, tx, verdict)
           \/ \E p \in Peers, h \in Hashes : NotFound(p, h)
           \/ \E tx \in Txs : BlockConnected(tx)
    PROVE  IInv' /\ Allowed
<1>1. calls \in Seq(Call) /\ have \subseteq Hashes
  BY DEF IInv, TypeOK
<1>2. \A p \in Peers, h \in Hashes, w \in BOOLEAN :
         Announce(p, h, w) \in Call /\ Respond(p, h) \in Call /\ Forget(h) \in Call
  BY DEF Announce, Respond, Forget, Call
<1>3. \A tx \in Txs : tx.txid \in Hashes /\ tx.wtxid \in Hashes
  BY TxRequestAssumption
<1>4. CASE MakeCall
  <2>1. Head(calls) \in Call /\ Tail(calls) \in Seq(Call)
    BY <1>1, <1>4 DEF MakeCall
  <2> QED
    BY <1>1, <1>4, <2>1, HandleStep DEF MakeCall
<1>5. ASSUME NEW i \in Invs, Inv(i[1], i[2]) PROVE IInv' /\ Allowed
  <2>1. i[1] \in Peers /\ i[2] \in Hashes
    BY TxRequestAssumption
  <2>2. Announce(i[1], i[2], i[1] \in WtxidRelay) \in Call
    BY <2>1, SMTT(30) DEF Announce, Call
  <2>3. <<>> \in Seq(Call)
    OBVIOUS
  <2> QED
    BY <1>1, <1>5, <2>2, <2>3, HandleStep DEF Inv, Idle
<1>6. ASSUME NEW p \in Peers, NEW tx \in Txs, NEW verdict \in Verdicts, TxMessage(p, tx, verdict)
      PROVE  IInv' /\ Allowed
  <2> DEFINE witness == IF tx.txid # tx.wtxid THEN <<Respond(p, tx.wtxid)>> ELSE <<>>
             known == Known(tx, verdict)
  <2>1. witness \in Seq(Call) /\ Respond(p, tx.txid) \in Call
    <3>1. Respond(p, tx.wtxid) \in Call /\ Respond(p, tx.txid) \in Call
      BY <1>2, <1>3
    <3>2. <<Respond(p, tx.wtxid)>> \in Seq(Call) /\ <<>> \in Seq(Call)
      BY <3>1, ShortSeqs
    <3> QED
      BY ONLY <3>1, <3>2
  <2>2. witness \o VerdictCalls(p, tx, verdict) \in Seq(Call)
    BY <2>1, VerdictCallsType
  <2>3. have \cup {known[i] : i \in 1..Len(known)} \subseteq Hashes
    BY <1>1, <1>3 DEF Known
  <2>4. at = "idle" /\ have' \subseteq Hashes
    BY <1>1, <1>6, <2>3 DEF TxMessage, Idle
  <2>5. \/ Handle(Respond(p, tx.txid), witness)
        \/ Handle(Respond(p, tx.txid), witness \o VerdictCalls(p, tx, verdict))
    BY <1>6 DEF TxMessage
  <2> HIDE DEF witness
  <2> QED
    BY <2>1, <2>2, <2>4, <2>5, HandleStep
<1>7. ASSUME NEW p \in Peers, NEW h \in Hashes, NotFound(p, h) PROVE IInv' /\ Allowed
  <2>1. Respond(p, h) \in Call /\ <<>> \in Seq(Call)
    BY <1>2, ShortSeqs
  <2> QED
    BY <1>1, <1>7, <2>1, HandleStep DEF NotFound, Idle
<1>8. ASSUME NEW tx \in Txs, BlockConnected(tx) PROVE IInv' /\ Allowed
  <2>1. Forget(tx.txid) \in Call /\ Forget(tx.wtxid) \in Call
    BY <1>3 DEF Forget, Call
  <2>2. <<Forget(tx.wtxid)>> \in Seq(Call)
    BY <2>1
  <2>3. have' \subseteq Hashes
    BY <1>1, <1>3, <1>8 DEF BlockConnected
  <2> QED
    BY <1>8, <2>1, <2>2, <2>3, HandleStep DEF BlockConnected, Idle
<1> QED
  BY <1>4, <1>5, <1>6, <1>7, <1>8

(* The steps that leave the announcements alone. *)
LEMMA QuietSteps ==
    ASSUME IInv,
           \/ \E tx \in Txs : HaveChanges(tx)
           \/ Tick \/ SetBack \/ ForwardDone \/ Select \/ Requested
           \/ \E p \in Peers : FinalizeNode(p) \/ SendMessages(p)
           \/ UNCHANGED vars
    PROVE  IInv' /\ Allowed
<1>1. Good(m_index) /\ m_index \subseteq Announcement
  BY DEF IInv, Good
<1>2. \A tx \in Txs : tx.txid \in Hashes /\ tx.wtxid \in Hashes
  BY TxRequestAssumption
<1>3. ASSUME NEW tx \in Txs, HaveChanges(tx) PROVE IInv' /\ Allowed
  BY <1>2, <1>3 DEF HaveChanges, Idle, handler, IInv, TypeOK, Allowed
<1>4. CASE Tick
  <2>1. clock' \in Times
    <3>1. clock \in Times
      BY DEF IInv, TypeOK
    <3>2. clock < MaxTime /\ clock' = clock + 1
      BY <1>4 DEF Tick
    <3>3. MaxTime \in Nat
      BY TxRequestAssumption
    <3> QED
      BY ONLY <3>1, <3>2, <3>3 DEF Times
  <2>2. Allowed
    BY <1>4, <2>1 DEF Tick, Allowed, Rules!Next, Rules!AdvanceTime
  <2> QED
    BY <1>4, <2>1, <2>2 DEF Tick, Idle, handler, IInv, TypeOK
<1>5. CASE SetBack
  <2>1. clock' \in Times /\ setbacks' \in 0..MaxSetBacks
    <3>1. setbacks \in 0..MaxSetBacks
      BY DEF IInv, TypeOK
    <3>2. clock' \in Times /\ setbacks < MaxSetBacks /\ setbacks' = setbacks + 1
      BY <1>5 DEF SetBack
    <3>3. MaxSetBacks \in Nat
      BY TxRequestAssumption
    <3> QED
      BY ONLY <3>1, <3>2, <3>3
  <2>2. Allowed
    BY <1>5, <2>1 DEF SetBack, Allowed, Rules!Next, Rules!AdvanceTime
  <2> QED
    BY <1>5, <2>1, <2>2 DEF SetBack, Idle, handler, IInv, TypeOK
<1>6. CASE ForwardDone
  BY <1>6 DEF ForwardDone, world, IInv, TypeOK, Allowed
<1>7. CASE Select
  <2>1. requestable' \subseteq Hashes
    BY <1>1, <1>7 DEF Select, Announcement
  <2>2. ASSUME NEW h \in requestable'
        PROVE  \E a \in m_index : a.peer = peer /\ a.txhash = h /\ a.state = "BEST"
    BY <1>7, <2>2 DEF Select
  <2> QED
    BY <1>7, <2>1, <2>2 DEF Select, world, IInv, TypeOK, Allowed
<1>8. CASE Requested
  BY <1>8 DEF Requested, world, IInv, TypeOK, Allowed
<1>9. ASSUME NEW p \in Peers, FinalizeNode(p) \/ SendMessages(p) PROVE IInv' /\ Allowed
  BY <1>9 DEF FinalizeNode, SendMessages, Idle, world, IInv, TypeOK, Allowed
<1>10. CASE UNCHANGED vars
  BY <1>10 DEF vars, IInv, TypeOK, Allowed
<1> QED
  BY <1>3, <1>4, <1>5, <1>6, <1>7, <1>8, <1>9, <1>10

(* A turn of the loop of DisconnectedPeer. *)
LEMMA DisconnectStep ==
    ASSUME IInv, DisconnectedPeer
    PROVE  IInv' /\ Allowed
<1>1. Good(m_index) /\ at = "disconnect" /\ calls = <<>> /\ UNCHANGED <<requestable, calls, have, online, clock, setbacks>>
  BY DEF IInv, DisconnectedPeer, world
<1>2. CASE at' = "idle" /\ peer' = NoPeer /\ UNCHANGED m_index
  BY <1>1, <1>2 DEF IInv, TypeOK, Allowed
<1>3. ASSUME NEW a \in m_index, m_index' = MakeCompleted(m_index, a) \ {SetState(a, "COMPLETED")}, UNCHANGED <<at, peer>>
      PROVE  IInv' /\ Allowed
  <2>1. Good(m_index') /\ Naive(m_index') = Rules!Cleanup(Naive(m_index) \ {Plain(a)}, a.txhash)
    BY <1>1, <1>3, EraseGood
  <2>2. Plain(a) \in Naive(m_index) /\ Plain(a).txhash = a.txhash
    BY <1>1, PlainFields DEF Naive, Good
  <2>3. Allowed
    BY <1>1, <2>1, <2>2 DEF Allowed, Rules!Next, Rules!DisconnectedPeer
  <2>4. m_index' \subseteq Announcement
    BY <2>1 DEF Good
  <2> QED
    BY <1>1, <1>3, <2>1, <2>3, <2>4 DEF IInv, TypeOK
<1> QED
  BY <1>2, <1>3 DEF DisconnectedPeer

(* A turn of the loops of SetTimePoint. *)
LEMMA TimeStep ==
    ASSUME IInv, Forward \/ Backward
    PROVE  IInv' /\ Allowed
<1>1. Good(m_index) /\ m_index \subseteq Announcement
  BY DEF IInv, Good
<1>2. UNCHANGED <<at, peer, requestable, calls, have, online, clock, setbacks>>
  BY DEF Forward, Backward, handler, world
<1>3. CASE Forward
  <2>1. at = "forward"
    BY <1>3 DEF Forward
  <2>2. PICK a \in m_index :
           /\ IsWaiting(a) /\ a.time <= clock
           /\ m_index' = IF a.state = "DELAYED" THEN PromoteCandidateReady(m_index, a) ELSE MakeCompleted(m_index, a)
    BY <1>3 DEF Forward
  <2>3. Good(m_index') /\ Allowed
    <3>1. CASE a.state = "DELAYED"
      <4>1. Good(m_index') /\ Naive(m_index') = Naive(m_index)
        BY <1>1, <2>2, <3>1, PromoteGood
      <4> QED
        BY <1>2, <4>1 DEF Allowed
    <3>2. CASE a.state = "REQUESTED"
      <4>1. Good(m_index') /\ Naive(m_index') = Rules!Completed(Naive(m_index), Plain(a))
        BY <1>1, <2>2, <3>2, CompleteGood
      <4>2. Plain(a) \in Naive(m_index) /\ Plain(a).state = "REQUESTED" /\ Plain(a).time <= clock
        BY <1>1, <2>2, <3>2, PlainFields DEF Naive
      <4> QED
        BY <1>2, <4>1, <4>2 DEF Allowed, Rules!Next, Rules!Expire
    <3> QED
      BY <2>2, <3>1, <3>2 DEF IsWaiting
  <2>4. m_index' \subseteq Announcement
    BY <2>3 DEF Good
  <2> QED
    BY <1>2, <2>1, <2>3, <2>4 DEF IInv, TypeOK
<1>4. CASE Backward
  <2>1. at = "backward"
    BY <1>4 DEF Backward
  <2>2. PICK a \in m_index :
           IsSelectable(a) /\ a.time > clock /\ m_index' = ChangeAndReselect(m_index, a, "DELAYED")
    BY <1>4 DEF Backward
  <2>3. a.state \in {"READY", "BEST"}
    BY <2>2 DEF IsSelectable
  <2>4. Good(m_index') /\ Naive(m_index') = Naive(m_index)
    BY <1>1, <2>2, <2>3, ReselectGood
  <2>5. Allowed
    BY <1>2, <2>4 DEF Allowed
  <2>6. ASSUME NEW x \in m_index', IsWaiting(x) PROVE x.time > clock
    <3> DEFINE next == IF IsSelected(a) THEN BestReady(m_index, a.txhash) ELSE {}
    <3>1. x \in m_index \/ x = SetState(a, "DELAYED") \/ \E b \in next : x = SetState(b, "BEST")
      BY <2>2 DEF ChangeAndReselect
    <3>2. \A b \in next : SetState(b, "BEST").state = "BEST"
      BY <1>1, SetStateFields DEF BestReady, States
    <3>3. SetState(a, "DELAYED").time = a.time
      BY <1>1, SetStateFields DEF States
    <3> HIDE DEF next
    <3> QED
      BY <2>1, <2>2, <2>6, <3>1, <3>2, <3>3 DEF IInv, IsWaiting
  <2>7. m_index' \subseteq Announcement
    BY <2>4 DEF Good
  <2> QED
    BY <1>2, <2>1, <2>4, <2>5, <2>6, <2>7 DEF IInv, TypeOK
<1> QED
  BY <1>3, <1>4

(* A turn of the loop of SendMessages over the hashes that GetRequestable returned. *)
LEMMA RequestStep ==
    ASSUME IInv, NEW h \in Hashes, Request(h)
    PROVE  IInv' /\ Allowed
<1>1. /\ Good(m_index) /\ Sane(m_index) /\ m_index \subseteq Announcement /\ clock \in Times
      /\ at = "request" /\ h \in requestable /\ requestable' = requestable \ {h}
      /\ UNCHANGED <<at, peer, calls, have, online, clock, setbacks>>
  BY DEF IInv, TypeOK, Good, Request, world
<1>2. \A g \in requestable :
         /\ \E a \in m_index : a.peer = peer /\ a.txhash = g /\ a.state = "BEST"
         /\ \A a \in m_index : a.txhash = g =>
               (IsWaiting(a) => a.time > clock) /\ (IsSelectable(a) => a.time <= clock)
  BY <1>1 DEF IInv
<1>3. /\ Good(m_index') /\ Allowed
      /\ \A a : a.txhash # h => (a \in m_index' <=> a \in m_index)
  <2>1. CASE h \in have
    <3>1. m_index' = ForgetTxHash(m_index, h)
      BY <2>1 DEF Request
    <3>2. Good(m_index') /\ Naive(m_index') = {x \in Naive(m_index) : x.txhash # h}
      BY <1>1, <3>1, ForgetGood
    <3>3. Allowed
      BY <1>1, <3>2 DEF Allowed, Rules!Next, Rules!ForgetTxHash
    <3> QED
      BY <3>1, <3>2, <3>3 DEF ForgetTxHash
  <2>2. CASE h \notin have
    <3> DEFINE t == Later(clock, GETDATA_TX_INTERVAL)
    <3>1. PICK a \in m_index : a.peer = peer /\ a.txhash = h /\ m_index' = RequestedTx(m_index, a, t)
      BY <2>2 DEF Request
    <3>2. a.state = "BEST"
      BY <1>1, <1>2, <3>1 DEF Sane
    <3>3. t \in Times
      BY <1>1, LaterTime, TxRequestAssumption
    <3> HIDE DEF t
    <3>4. /\ Good(m_index')
          /\ Naive(m_index') = (Naive(m_index) \ {Plain(a)}) \cup {AsRequested(Plain(a), t)}
      BY <1>1, <3>1, <3>2, <3>3, RequestGood
    <3>5. Rules!Selected(Naive(m_index), Plain(a)) /\ Plain(a) \in Naive(m_index)
      BY <1>1, <1>2, <3>1, <3>2, BestSelected DEF Naive
    <3>6. Allowed
      BY <1>1, <3>3, <3>4, <3>5 DEF Allowed, AsRequested, Rules!Next, Rules!RequestedTx
    <3>7. [a EXCEPT !.state = "REQUESTED", !.time = t].txhash = h
      BY <1>1, <3>1, <3>3, RequestFields
    <3>8. m_index' = (m_index \ {a}) \cup {[a EXCEPT !.state = "REQUESTED", !.time = t]}
      BY <3>1, <3>2 DEF RequestedTx
    <3> QED
      BY <3>1, <3>4, <3>6, <3>7, <3>8
  <2> QED
    BY <2>1, <2>2
<1>4. \A g \in requestable' :
         /\ \E a \in m_index' : a.peer = peer /\ a.txhash = g /\ a.state = "BEST"
         /\ \A a \in m_index' : a.txhash = g =>
               (IsWaiting(a) => a.time > clock) /\ (IsSelectable(a) => a.time <= clock)
  <2> SUFFICES ASSUME NEW g \in requestable'
               PROVE  /\ \E a \in m_index' : a.peer = peer /\ a.txhash = g /\ a.state = "BEST"
                      /\ \A a \in m_index' : a.txhash = g =>
                            (IsWaiting(a) => a.time > clock) /\ (IsSelectable(a) => a.time <= clock)
    OBVIOUS
  <2>1. g \in requestable /\ g # h
    BY <1>1
  <2> QED
    BY <1>2, <1>3, <2>1
<1>5. m_index' \subseteq Announcement /\ requestable' \subseteq Hashes
  BY <1>1, <1>3 DEF Good, IInv, TypeOK
<1> QED
  BY <1>1, <1>3, <1>4, <1>5 DEF IInv, TypeOK

(* The invariant is inductive, and every step is allowed. *)
LEMMA NextStep ==
    ASSUME IInv, [Next]_vars
    PROVE  IInv' /\ Allowed
BY HandlerSteps, QuietSteps, DisconnectStep, TimeStep, RequestStep DEF Next, Steps, Environment

(* The empty tracker satisfies the invariant. *)
LEMMA InitInv == Init => IInv
<1> SUFFICES ASSUME Init PROVE IInv
  OBVIOUS
<1>1. 0 \in Times /\ 0 \in 0..MaxSetBacks /\ <<>> \in Seq(Call)
  BY TxRequestAssumption DEF Times
<1>2. Good({})
  BY DEF Good, Sane
<1> QED
  BY <1>1, <1>2 DEF Init, IInv, TypeOK

(* The invariant holds in every reachable state. *)
LEMMA AlwaysIInv == Spec => []IInv
<1>1. IInv /\ [Next]_vars => IInv'
  BY NextStep
<1> QED
  BY InitInv, <1>1, PTL DEF Spec

-----------------------------------------------------------------------------

(* The assertions of SanityCheck hold after every operation and every turn of a loop. *)
THEOREM TrackerIsSane == Spec => []SanityCheck
<1>1. IInv => SanityCheck
  BY DEF IInv, Good, SanityCheck
<1> QED
  BY <1>1, AlwaysIInv, PTL

(* When SetTimePoint is done, the BEST announcements are the ones that the rules select. *)
THEOREM BestAreSelected == Spec => []BestIsSelected
<1>1. IInv => BestIsSelected
  BY BestSelected DEF IInv, TypeOK, BestIsSelected
<1> QED
  BY <1>1, AlwaysIInv, PTL

(* The tracker implements the rules of its header. *)
THEOREM TrackerFollowsTheRules == Spec => FollowsTheRules
<1>1. Init => Rules!Init
  <2>1. 0 \in Times
    BY TxRequestAssumption DEF Times
  <2>2. m_index = {} => Naive(m_index) = {}
    BY DEF Naive
  <2> QED
    BY ONLY <2>1, <2>2 DEF Init, Rules!Init
<1>2. IInv /\ [Next]_vars => [Rules!Next]_<<Naive(m_index), clock>>
  BY NextStep DEF Allowed
<1> QED
  BY <1>1, <1>2, AlwaysIInv, PTL DEF Spec, FollowsTheRules, Rules!Spec

(* A step of the rules never makes a REQUESTED or COMPLETED announcement a candidate. *)
LEMMA NoRetry ==
    ASSUME IInv, IInv', Allowed, NEW a \in m_index, NEW b \in m_index',
           a.peer = b.peer, a.txhash = b.txhash
    PROVE  /\ a.state = "REQUESTED" => b.state \in {"REQUESTED", "COMPLETED"}
           /\ a.state = "COMPLETED" => b.state = "COMPLETED"
<1> DEFINE N == Naive(m_index)
           M == Naive(m_index')
           x == Plain(a)
           y == Plain(b)
<1>1. Good(m_index) /\ m_index \subseteq Announcement /\ m_index' \subseteq Announcement
  BY DEF IInv, TypeOK
<1>2. /\ x \in N /\ y \in M /\ x.txhash = y.txhash /\ x.peer = y.peer
      /\ x.state = IF a.state \in {"DELAYED", "READY", "BEST"} THEN "CANDIDATE" ELSE a.state
      /\ y.state = IF b.state \in {"DELAYED", "READY", "BEST"} THEN "CANDIDATE" ELSE b.state
  BY <1>1, PlainFields DEF Naive
<1>3. \A z \in N : z.txhash = x.txhash /\ z.peer = x.peer => z = x
  BY <1>1, PlainFields DEF Naive, Good, Sane
<1>4. \A z \in N : z \in [txhash : Hashes, peer : Peers, time : Times, state : {"CANDIDATE", "REQUESTED", "COMPLETED"}]
  <2> TAKE z \in N
  <2>1. PICK c \in m_index : z = Plain(c)
    BY DEF Naive
  <2> QED
    BY <1>1, <2>1, PlainFields
<1> SUFFICES y.state = x.state \/ x.state = "CANDIDATE" \/ y.state = "COMPLETED"
  BY <1>1, <1>2 DEF Announcement, States
<1> HIDE DEF x, y, N, M
<1>5. y \in N => y = x
  BY <1>2, <1>3
<1>6. ASSUME NEW z \in N, M = Rules!Completed(N, z)
      PROVE  y.state = x.state \/ y.state = "COMPLETED"
  BY <1>2, <1>4, <1>5, <1>6 DEF Rules!Completed, Rules!Cleanup
<1>7. CASE UNCHANGED <<Naive(m_index), clock>>
  BY <1>2, <1>5, <1>7 DEF N, M
<1>8. ASSUME NEW p \in Peers, NEW h \in Hashes, NEW t \in Times, Rules!ReceivedInv(p, h, t)
      PROVE  y.state = x.state
  <2>1. /\ \A z \in N : z.txhash # h \/ z.peer # p
        /\ M = N \cup {[txhash |-> h, peer |-> p, time |-> t, state |-> "CANDIDATE"]}
    BY <1>8 DEF Rules!ReceivedInv, N, M
  <2>2. y \in N
    <3>1. CASE y = [txhash |-> h, peer |-> p, time |-> t, state |-> "CANDIDATE"]
      <4>1. x.txhash = h /\ x.peer = p
        BY ONLY <1>2, <3>1
      <4> QED
        BY ONLY <1>2, <2>1, <4>1
    <3> QED
      BY ONLY <1>2, <2>1, <3>1
  <2> QED
    BY ONLY <1>5, <2>2
<1>9. ASSUME NEW z \in N, NEW t \in Times, Rules!RequestedTx(z, t)
      PROVE  y.state = x.state \/ x.state = "CANDIDATE"
  <2>1. z.state = "CANDIDATE" /\ M = (N \ {z}) \cup {[z EXCEPT !.state = "REQUESTED", !.time = t]}
    BY <1>9 DEF Rules!RequestedTx, Rules!Selected, N, M
  <2>2. [z EXCEPT !.state = "REQUESTED", !.time = t].txhash = z.txhash /\ [z EXCEPT !.state = "REQUESTED", !.time = t].peer = z.peer
    BY <1>4
  <2>3. CASE y = [z EXCEPT !.state = "REQUESTED", !.time = t]
    <3>1. z = x
      BY ONLY <1>2, <1>3, <1>9, <2>2, <2>3
    <3> QED
      BY ONLY <2>1, <3>1
  <2>4. CASE y \in N
    BY ONLY <1>5, <2>4
  <2> QED
    BY ONLY <1>2, <2>1, <2>3, <2>4
<1>10. ASSUME NEW z \in N, Rules!Expire(z) \/ Rules!ReceivedResponse(z)
       PROVE  y.state = x.state \/ y.state = "COMPLETED"
  BY <1>6, <1>10 DEF Rules!Expire, Rules!ReceivedResponse, N, M
<1>11. ASSUME NEW z \in N, Rules!DisconnectedPeer(z) PROVE y.state = x.state
  BY <1>2, <1>5, <1>11 DEF Rules!DisconnectedPeer, Rules!Cleanup, N, M
<1>12. ASSUME NEW h \in Hashes, Rules!ForgetTxHash(h) PROVE y.state = x.state
  BY <1>2, <1>5, <1>12 DEF Rules!ForgetTxHash, N, M
<1>13. CASE Rules!AdvanceTime
  BY <1>2, <1>5, <1>13 DEF Rules!AdvanceTime, N, M
<1> QED
  BY <1>7, <1>8, <1>9, <1>10, <1>11, <1>12, <1>13 DEF Allowed, Rules!Next, N

(* An announcement that was requested or failed is never a candidate again. *)
THEOREM NoPeerIsAskedTwice == Spec => NeverRequestedTwice
<1> DEFINE A == \A p \in Peers, h \in Hashes :
                  /\ State(p, h) = {"REQUESTED"} => State(p, h)' \in {{"REQUESTED"}, {"COMPLETED"}, {}}
                  /\ State(p, h) = {"COMPLETED"} => State(p, h)' \in {{"COMPLETED"}, {}}
<1>1. ASSUME IInv, IInv', Allowed PROVE A
  <2> SUFFICES ASSUME NEW p \in Peers, NEW h \in Hashes
               PROVE  /\ State(p, h) = {"REQUESTED"} => State(p, h)' \in {{"REQUESTED"}, {"COMPLETED"}, {}}
                      /\ State(p, h) = {"COMPLETED"} => State(p, h)' \in {{"COMPLETED"}, {}}
    OBVIOUS
  <2> DEFINE S == State(p, h)
             T == State(p, h)'
  <2>1. \A s \in S : \E a \in m_index : a.peer = p /\ a.txhash = h /\ a.state = s
    BY DEF State
  <2>2. \A s \in T : \E b \in m_index' : b.peer = p /\ b.txhash = h /\ b.state = s
    BY DEF State
  <2>3. \A s, t \in T : s = t
    <3>1. Sane(m_index')
      BY <1>1 DEF IInv, Good
    <3> QED
      BY <2>2, <3>1 DEF Sane
  <2>4. \A s \in S, t \in T : /\ s = "REQUESTED" => t \in {"REQUESTED", "COMPLETED"}
                              /\ s = "COMPLETED" => t = "COMPLETED"
    BY <1>1, <2>1, <2>2, NoRetry
  <2> HIDE DEF S, T
  <2>5. S = {"REQUESTED"} => T \in {{"REQUESTED"}, {"COMPLETED"}, {}}
    BY <2>3, <2>4
  <2>6. S = {"COMPLETED"} => T \in {{"COMPLETED"}, {}}
    BY <2>3, <2>4
  <2> QED
    BY <2>5, <2>6 DEF S, T
<1>2. IInv /\ [Next]_vars => [A]_vars
  BY <1>1, NextStep
<1> QED
  BY <1>2, AlwaysIInv, PTL DEF Spec, NeverRequestedTwice
=============================================================================
