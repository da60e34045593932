---------------------------- MODULE AuditLogProofs ----------------------------
(***************************************************************************)
(* Proofs about AuditLog for any contracts, processes and fleets.          *)
(*                                                                         *)
(* The argument is about what a session sees of the log: the committed     *)
(* rows followed by its own.  That sequence is a faithful log of the state *)
(* the session is about to commit, at every step, because only one session *)
(* has entries at a time and what it has moved is locked.  To commit is    *)
(* then to make it the log.  What a log tells of one contract (Right) does *)
(* not depend on the others, which is why one commit does not disturb what *)
(* another session sees.                                                   *)
(***************************************************************************)
EXTENDS AuditLog, SequenceTheorems, TLAPS

(***************************************************************************)
(* Logs, committed or not                                                  *)
(***************************************************************************)

Change == Contracts \X DOMAIN From
Entry == [change : Change, prev : {Genesis} \cup Change]

Chained(q) ==
    \A i \in 1..Len(q) : q[i].prev = IF i = 1 THEN Genesis ELSE Hmac(q[i - 1])
Told(q) == {q[i].change : i \in 1..Len(q)}

\* An entry that is about another contract, or tells of no change
Mute(c, e) == e.change[1] = c => e.change[2] = "ACTIVE"

TellsOnce(q, c) ==
    \A i, j \in 1..Len(q) :
        q[i].change = q[j].change /\ q[i].change[1] = c => i = j \/ q[i].change[2] = "ACTIVE"

Tells(q, c, state) ==
    \/ state \in {"PROPOSED", "ACTIVE"} /\ \A i \in 1..Len(q) : Mute(c, q[i])
    \/ \E i \in 1..Len(q) :
          /\ q[i].change = <<c, state>>
          /\ \A j \in i + 1..Len(q) : Mute(c, q[j])

\* A contract that may still be moved to a state was not there before
Onwards(q, c, state, errors) ==
    \A t \in DOMAIN From : <<c, t>> \in Told(q) \cup errors /\ t # "ACTIVE" =>
        /\ state \notin {"PROPOSED", "ACTIVE"}
        /\ state = "DELIVERED" => t = "DELIVERED"

\* What the log q tells of a contract in this state, when errors are the changes
\* whose entries are missing
Right(q, c, state, errors) ==
    /\ TellsOnce(q, c)
    /\ \A t \in DOMAIN From : t # "ACTIVE" => <<c, t>> \notin Told(q) \cap errors
    /\ state = "PROPOSED" <=> <<c, "ACTIVE">> \notin Told(q) \cup errors
    /\ <<c, state>> \in errors \/ Tells(q, c, state)
    /\ Onwards(q, c, state, errors)

(* A log that gets one more entry *)

\* Appending to the log
LEMMA Longer ==
    ASSUME NEW q \in Seq(Entry), NEW e \in Entry
    PROVE  /\ Append(q, e) \in Seq(Entry)
           /\ Len(q) \in Nat
           /\ Len(Append(q, e)) = Len(q) + 1
           /\ \A i \in 1..Len(q) : Append(q, e)[i] = q[i]
           /\ Append(q, e)[Len(q) + 1] = e
  OBVIOUS

\* A longer log tells one change more.
LEMMA ToldLonger ==
    ASSUME NEW q \in Seq(Entry), NEW e \in Entry
    PROVE  Told(Append(q, e)) = Told(q) \cup {e.change}
<1>. DEFINE r == Append(q, e)
            n == Len(q)
<1>1. n \in Nat /\ Len(r) = n + 1 /\ (\A i \in 1..n : r[i] = q[i]) /\ r[n + 1] = e
  BY Longer
<1>. HIDE DEF r, n
<1>2. 1..(n + 1) = 1..n \cup {n + 1}
  BY <1>1
<1>3. {r[i].change : i \in 1..(n + 1)} = {r[i].change : i \in 1..n} \cup {r[n + 1].change}
  BY <1>2
<1>4. {r[i].change : i \in 1..n} = {q[i].change : i \in 1..n}
  BY <1>1
<1>. QED
  BY <1>1, <1>3, <1>4 DEF Told, r, n

\* Two logs one after the other tell what both tell.
LEMMA ToldTogether ==
    ASSUME NEW q \in Seq(Entry), NEW r \in Seq(Entry)
    PROVE  Told(q \o r) = Told(q) \cup Told(r)
<1>. DEFINE t == q \o r
            n == Len(q)
            k == Len(r)
<1>1. /\ n \in Nat /\ k \in Nat /\ Len(t) = n + k
      /\ \A i \in 1..(n + k) : t[i] = IF i <= n THEN q[i] ELSE r[i - n]
  BY ConcatProperties, LenProperties
<1>. HIDE DEF t, n, k
<1>2. \A i \in 1..n : i \in 1..(n + k) /\ t[i] = q[i]
  BY <1>1
<1>3. \A i \in 1..k : i + n \in 1..(n + k) /\ t[i + n] = r[i]
  BY <1>1
<1>4. \A i \in 1..(n + k) : i \in 1..n \/ (i - n \in 1..k /\ t[i] = r[i - n])
  BY <1>1
<1>5. /\ Told(t) = {t[i].change : i \in 1..(n + k)}
      /\ Told(q) = {q[i].change : i \in 1..n}
      /\ Told(r) = {r[i].change : i \in 1..k}
  BY <1>1 DEF Told, n, k
<1>6. Told(t) \subseteq Told(q) \cup Told(r)
  <2>. SUFFICES ASSUME NEW i \in 1..(n + k) PROVE t[i].change \in Told(q) \cup Told(r)
    BY <1>5
  <2>1. CASE i \in 1..n
    BY <1>2, <1>5, <2>1
  <2>2. CASE i - n \in 1..k /\ t[i] = r[i - n]
    BY <1>5, <2>2
  <2>. QED
    BY <1>4, <2>1, <2>2
<1>7. Told(q) \subseteq Told(t)
  <2>. SUFFICES ASSUME NEW i \in 1..n PROVE q[i].change \in Told(t)
    BY <1>5
  <2>. QED
    BY <1>2, <1>5
<1>8. Told(r) \subseteq Told(t)
  <2>. SUFFICES ASSUME NEW i \in 1..k PROVE r[i].change \in Told(t)
    BY <1>5
  <2>. QED
    BY <1>3, <1>5
<1>. QED
  BY <1>6, <1>7, <1>8 DEF t

\* An entry that refers to the last one continues the chain.
LEMMA ChainedLonger ==
    ASSUME NEW q \in Seq(Entry), NEW e \in Entry, Chained(q),
           e.prev = IF q = <<>> THEN Genesis ELSE Hmac(q[Len(q)])
    PROVE  Chained(Append(q, e))
<1>. DEFINE r == Append(q, e)
            n == Len(q)
<1>1. n \in Nat /\ Len(r) = n + 1 /\ (\A i \in 1..n : r[i] = q[i]) /\ r[n + 1] = e
  BY Longer
<1>2. q = <<>> <=> n = 0
  BY EmptySeq
<1>. SUFFICES ASSUME NEW i \in 1..(n + 1)
              PROVE  r[i].prev = IF i = 1 THEN Genesis ELSE Hmac(r[i - 1])
  BY <1>1 DEF Chained
<1>3. \A k \in 1..n : q[k].prev = IF k = 1 THEN Genesis ELSE Hmac(q[k - 1])
  BY DEF Chained
<1>4. e.prev = IF n = 0 THEN Genesis ELSE Hmac(q[n])
  BY <1>2
<1>. HIDE DEF r, n
<1>5. CASE i \in 1..n
  <2>1. i # 1 => i - 1 \in 1..n
    BY <1>1, <1>5
  <2>. QED
    BY <1>1, <1>3, <1>5, <2>1
<1>6. CASE i = n + 1
  <2>1. n # 0 => n \in 1..n
    BY <1>1
  <2>2. i - 1 = n /\ (i = 1 <=> n = 0)
    BY <1>1, <1>6
  <2>. QED
    BY <1>1, <1>4, <1>6, <2>1, <2>2
<1>. QED
  BY <1>1, <1>5, <1>6

\* Entries about other contracts change nothing in what a log tells of this one.
LEMMA OthersTold ==
    ASSUME NEW q \in Seq(Entry), NEW r \in Seq(Entry), NEW c, NEW state, NEW errors,
           \A x \in Told(r) : x[1] # c,
           Right(q, c, state, errors)
    PROVE  Right(q \o r, c, state, errors)
<1>. DEFINE t == q \o r
            n == Len(q)
            k == Len(r)
<1>1. /\ n \in Nat /\ k \in Nat /\ Len(t) = n + k
      /\ \A i \in 1..(n + k) : t[i] = IF i <= n THEN q[i] ELSE r[i - n]
  BY ConcatProperties, LenProperties
<1>2. \A i \in 1..k : r[i].change[1] # c
  BY DEF Told
<1>3. Told(t) = Told(q) \cup Told(r)
  BY ToldTogether
<1>. HIDE DEF t, n, k
<1>4. \A i \in 1..n : i \in 1..(n + k) /\ t[i] = q[i]
  BY <1>1
<1>5. \A i \in 1..(n + k) : i \in 1..n \/ (i - n \in 1..k /\ t[i] = r[i - n])
  BY <1>1
<1>6. \A i \in 1..(n + k) : i \in 1..n \/ t[i].change[1] # c
  BY <1>2, <1>5
<1>7. \A u : <<c, u>> \in Told(t) <=> <<c, u>> \in Told(q)
  <2>1. \A u : <<c, u>> \notin Told(r)
    <3>. SUFFICES ASSUME NEW u, <<c, u>> \in Told(r) PROVE FALSE
      OBVIOUS
    <3>1. <<c, u>>[1] # c
      OBVIOUS
    <3>. QED
      BY <3>1
  <2>. QED
    BY <1>3, <2>1
<1>8. TellsOnce(t, c)
  <2>. SUFFICES ASSUME NEW i \in 1..(n + k), NEW j \in 1..(n + k),
                       t[i].change = t[j].change, t[i].change[1] = c
                PROVE  i = j \/ t[i].change[2] = "ACTIVE"
    BY <1>1 DEF TellsOnce
  <2>1. i \in 1..n /\ j \in 1..n
    BY <1>6
  <2>2. t[i] = q[i] /\ t[j] = q[j]
    BY <1>4, <2>1
  <2>. QED
    BY <2>1, <2>2 DEF Right, TellsOnce, n
<1>9. Tells(q, c, state) => Tells(t, c, state)
  <2>1. ASSUME state \in {"PROPOSED", "ACTIVE"}, \A i \in 1..n : Mute(c, q[i])
        PROVE  Tells(t, c, state)
    <3>1. \A i \in 1..(n + k) : Mute(c, t[i])
      BY <1>4, <1>6, <2>1 DEF Mute
    <3>. QED
      BY <1>1, <2>1, <3>1 DEF Tells
  <2>2. ASSUME NEW i \in 1..n, q[i].change = <<c, state>>, \A j \in i + 1..n : Mute(c, q[j])
        PROVE  Tells(t, c, state)
    <3>1. i \in 1..Len(t) /\ t[i].change = <<c, state>>
      BY <1>1, <1>4, <2>2
    <3>2. \A j \in i + 1..(n + k) : (j \in i + 1..n /\ j \in 1..n) \/ (j \in 1..(n + k) /\ j \notin 1..n)
      BY <1>1
    <3>3. \A j \in i + 1..(n + k) : Mute(c, t[j])
      <4>. SUFFICES ASSUME NEW j \in i + 1..(n + k) PROVE Mute(c, t[j])
        OBVIOUS
      <4>1. CASE j \in i + 1..n /\ j \in 1..n
        BY <1>4, <2>2, <4>1
      <4>2. CASE j \in 1..(n + k) /\ j \notin 1..n
        BY <1>6, <4>2 DEF Mute
      <4>. QED
        BY <3>2, <4>1, <4>2
    <3>. QED
      BY <1>1, <3>1, <3>3 DEF Tells
  <2>. QED
    BY <2>1, <2>2 DEF Tells, n
<1>. QED
  BY <1>7, <1>8, <1>9 DEF Right, Onwards, t

\* Nor do changes of other contracts without an entry.
LEMMA OthersMissing ==
    ASSUME NEW q, NEW c, NEW state, NEW errors, NEW more,
           \A u : <<c, u>> \in errors <=> <<c, u>> \in more,
           Right(q, c, state, errors)
    PROVE  Right(q, c, state, more)
  BY DEF Right, Onwards

\* Where a contract may be moved to, it has not been.
LEMMA NotYet ==
    ASSUME NEW q, NEW c, NEW state, NEW errors, Right(q, c, state, errors),
           NEW to \in DOMAIN From, state \in From[to], to # "ACTIVE"
    PROVE  /\ <<c, to>> \notin Told(q) \cup errors
           /\ <<c, "ACTIVE">> \in Told(q) \cup errors
<1>1. state = "ACTIVE" \/ (state = "DELIVERED" /\ to # "DELIVERED")
  BY DEF From
<1>2. <<c, to>> \notin Told(q) \cup errors
  BY <1>1 DEF Right, Onwards
<1>. QED
  BY <1>1, <1>2 DEF Right

\* What was told or missed of a contract was before the state it is moved to.
LEMMA MovesOn ==
    ASSUME NEW q, NEW c, NEW state, NEW errors, Right(q, c, state, errors),
           NEW to \in DOMAIN From, state \in From[to],
           NEW r, NEW more,
           \A u : <<c, u>> \in Told(r) \cup more => u = to \/ <<c, u>> \in Told(q) \cup errors
    PROVE  Onwards(r, c, to, more)
<1>. SUFFICES ASSUME NEW t \in DOMAIN From, <<c, t>> \in Told(r) \cup more, t # "ACTIVE"
              PROVE  /\ to \notin {"PROPOSED", "ACTIVE"}
                     /\ to = "DELIVERED" => t = "DELIVERED"
  BY DEF Onwards
<1>1. CASE t = to
  BY <1>1 DEF From
<1>2. CASE t # to
  <2>1. <<c, t>> \in Told(q) \cup errors
    BY <1>2
  <2>2. state \notin {"PROPOSED", "ACTIVE"}
    BY <2>1 DEF Right, Onwards
  <2>. QED
    BY <2>2 DEF From
<1>. QED
  BY <1>1, <1>2

\* A contract that is moved, with its entry
LEMMA MovedAndTold ==
    ASSUME NEW q \in Seq(Entry), NEW e \in Entry, NEW c, NEW state, NEW errors,
           Right(q, c, state, errors),
           NEW to \in DOMAIN From, state \in From[to], e.change = <<c, to>>
    PROVE  Right(Append(q, e), c, to, errors)
<1>. DEFINE r == Append(q, e)
            n == Len(q)
<1>1. n \in Nat /\ Len(r) = n + 1 /\ (\A i \in 1..n : r[i] = q[i]) /\ r[n + 1] = e
  BY Longer
<1>2. Told(r) = Told(q) \cup {<<c, to>>}
  BY ToldLonger
<1>3. \A i \in 1..n : q[i].change \in Told(q)
  BY DEF Told
<1>4. \A i, j \in 1..n : q[i].change = q[j].change /\ q[i].change[1] = c
                              => i = j \/ q[i].change[2] = "ACTIVE"
  BY DEF Right, TellsOnce
<1>. HIDE DEF r, n
<1>5. to # "ACTIVE" => /\ <<c, to>> \notin Told(q) \cup errors
                       /\ <<c, "ACTIVE">> \in Told(q) \cup errors
  BY NotYet
<1>6. TellsOnce(r, c)
  <2>. SUFFICES ASSUME NEW i \in 1..(n + 1), NEW j \in 1..(n + 1),
                       r[i].change = r[j].change, r[i].change[1] = c
                PROVE  i = j \/ r[i].change[2] = "ACTIVE"
    BY <1>1 DEF TellsOnce
  <2>1. i \in 1..n \/ i = n + 1
    BY <1>1
  <2>2. j \in 1..n \/ j = n + 1
    BY <1>1
  <2>3. CASE i \in 1..n /\ j \in 1..n
    BY <1>1, <1>4, <2>3
  <2>4. CASE i \in 1..n /\ j = n + 1
    BY <1>1, <1>3, <1>5, <2>4
  <2>5. CASE i = n + 1 /\ j \in 1..n
    BY <1>1, <1>3, <1>5, <2>5
  <2>. QED
    BY <2>1, <2>2, <2>3, <2>4, <2>5
<1>7. Tells(r, c, to)
  <2>1. n + 1 \in 1..Len(r) /\ (\A j \in (n + 1) + 1..Len(r) : FALSE)
    BY <1>1
  <2>. QED
    BY <1>1, <2>1 DEF Tells
<1>8. \A t \in DOMAIN From : t # "ACTIVE" => <<c, t>> \notin Told(r) \cap errors
  <2>. SUFFICES ASSUME NEW t \in DOMAIN From, t # "ACTIVE", <<c, t>> \in Told(r), <<c, t>> \in errors
                PROVE  FALSE
    OBVIOUS
  <2>1. <<c, t>> \in Told(q) => FALSE
    BY DEF Right
  <2>2. t = to
    BY <1>2, <2>1
  <2>. QED
    BY <1>5, <2>2
<1>9. to = "PROPOSED" <=> <<c, "ACTIVE">> \notin Told(r) \cup errors
  <2>1. to # "PROPOSED"
    BY DEF From
  <2>. QED
    BY <1>2, <1>5, <2>1
<1>10. Onwards(r, c, to, errors)
  <2>1. \A u : <<c, u>> \in Told(r) \cup errors => u = to \/ <<c, u>> \in Told(q) \cup errors
    BY <1>2
  <2>. QED
    BY <2>1, MovesOn
<1>. QED
  BY <1>6, <1>7, <1>8, <1>9, <1>10 DEF Right, r

\* A contract that is moved without an entry
LEMMA MovedAndMissed ==
    ASSUME NEW q, NEW c, NEW state, NEW errors, Right(q, c, state, errors),
           NEW to \in DOMAIN From, state \in From[to]
    PROVE  Right(q, c, to, errors \cup {<<c, to>>})
<1>. DEFINE more == errors \cup {<<c, to>>}
<1>1. to # "ACTIVE" => /\ <<c, to>> \notin Told(q) \cup errors
                       /\ <<c, "ACTIVE">> \in Told(q) \cup errors
  BY NotYet
<1>2. \A t \in DOMAIN From : t # "ACTIVE" => <<c, t>> \notin Told(q) \cap more
  BY <1>1 DEF Right
<1>3. to = "PROPOSED" <=> <<c, "ACTIVE">> \notin Told(q) \cup more
  <2>1. to # "PROPOSED"
    BY DEF From
  <2>. QED
    BY <1>1, <2>1
<1>4. Onwards(q, c, to, more)
  BY MovesOn
<1>. QED
  BY <1>2, <1>3, <1>4 DEF Right

\* A contract that is accepted again stays what it was.
LEMMA AcceptedAgain ==
    ASSUME NEW q \in Seq(Entry), NEW e \in Entry, NEW c, NEW state, NEW errors,
           Right(q, c, state, errors), state # "PROPOSED", e.change = <<c, "ACTIVE">>
    PROVE  Right(Append(q, e), c, state, errors)
<1>. DEFINE r == Append(q, e)
            n == Len(q)
<1>1. n \in Nat /\ Len(r) = n + 1 /\ (\A i \in 1..n : r[i] = q[i]) /\ r[n + 1] = e
  BY Longer
<1>2. Told(r) = Told(q) \cup {<<c, "ACTIVE">>}
  BY ToldLonger
<1>3. \A i, j \in 1..n : q[i].change = q[j].change /\ q[i].change[1] = c
                              => i = j \/ q[i].change[2] = "ACTIVE"
  BY DEF Right, TellsOnce
<1>. HIDE DEF r, n
<1>4. \A i \in 1..(n + 1) : i \in 1..n \/ i = n + 1
  BY <1>1
<1>5. \A t : t # "ACTIVE" => (<<c, t>> \in Told(r) <=> <<c, t>> \in Told(q))
  BY <1>2
<1>6. TellsOnce(r, c)
  <2>. SUFFICES ASSUME NEW i \in 1..(n + 1), NEW j \in 1..(n + 1),
                       r[i].change = r[j].change, r[i].change[1] = c
                PROVE  i = j \/ r[i].change[2] = "ACTIVE"
    BY <1>1 DEF TellsOnce
  <2>1. CASE i \in 1..n /\ j \in 1..n
    BY <1>1, <1>3, <2>1
  <2>2. CASE i = n + 1 \/ j = n + 1
    BY <1>1, <2>2
  <2>. QED
    BY <1>4, <2>1, <2>2
<1>7. Tells(q, c, state) => Tells(r, c, state)
  <2>1. Mute(c, e)
    BY DEF Mute
  <2>2. ASSUME state \in {"PROPOSED", "ACTIVE"}, \A i \in 1..n : Mute(c, q[i])
        PROVE  Tells(r, c, state)
    <3>1. \A i \in 1..(n + 1) : Mute(c, r[i])
      BY <1>1, <1>4, <2>1, <2>2
    <3>. QED
      BY <1>1, <2>2, <3>1 DEF Tells
  <2>3. ASSUME NEW i \in 1..n, q[i].change = <<c, state>>, \A j \in i + 1..n : Mute(c, q[j])
        PROVE  Tells(r, c, state)
    <3>1. i \in 1..Len(r) /\ r[i].change = <<c, state>>
      BY <1>1, <2>3
    <3>2. \A j \in i + 1..(n + 1) : (j \in i + 1..n /\ j \in 1..n) \/ j = n + 1
      BY <1>1
    <3>3. \A j \in i + 1..(n + 1) : Mute(c, r[j])
      BY <1>1, <2>1, <2>3, <3>2
    <3>. QED
      BY <1>1, <3>1, <3>3 DEF Tells
  <2>. QED
    BY <2>2, <2>3 DEF Tells, n
<1>8. \A t \in DOMAIN From : t # "ACTIVE" => <<c, t>> \notin Told(r) \cap errors
  BY <1>5 DEF Right
<1>9. <<c, "ACTIVE">> \in Told(r)
  BY <1>2
<1>10. Onwards(r, c, state, errors)
  BY <1>5 DEF Right, Onwards
<1>. QED
  BY <1>6, <1>7, <1>8, <1>9, <1>10 DEF Right, r

(***************************************************************************)
(* The invariant                                                           *)
(***************************************************************************)

States == {"PROPOSED"} \cup DOMAIN From

Work == [to : {"NONE"} \cup DOMAIN From, todo : SUBSET Contracts, held : SUBSET Contracts,
         owes : SUBSET Contracts, missed : SUBSET Contracts, chain : BOOLEAN,
         entries : Seq(Entry)]

Types ==
    /\ row \in [Contracts -> States]
    /\ log \in Seq(Entry)
    /\ work \in [Sessions -> Work]

\* A transaction holds what it is done with and what it writes an entry for;
\* its entries are about contracts it holds, and it has the chain for them.
InOrder(w, rows) ==
    /\ w.to = "NONE" => w.todo = {} /\ w.held = {}
    /\ w.owes = {} \/ \E c \in w.held : w.owes = {c}
    /\ w.todo \cap w.held = {}
    /\ w.missed \subseteq w.held \ w.owes
    /\ \A x \in Told(w.entries) : x[1] \in w.held
    /\ \A c \in w.held : w.to = "ACTIVE" \/ rows[c] \in From[w.to]
    /\ w.entries = <<>> \/ w.chain

\* The state of a contract if the transaction committed now what it is done with
After(w, rows, c) ==
    IF c \in w.held \ w.owes /\ rows[c] \in From[w.to] THEN w.to ELSE rows[c]

\* The changes without an entry there would then be
MissedBy(w, rows) == {<<c, w.to>> : c \in {d \in w.missed : rows[d] \in From[w.to]}}

\* A log that tells of these states what is right
Faithful(q, rows, errors) ==
    /\ Chained(q)
    /\ \A c \in Contracts : Right(q, c, rows[c], errors)

\* What a session sees is such a log of the state it would commit.
Sees(w, rows, rest, errors) ==
    Faithful(rest \o w.entries, [c \in Contracts |-> After(w, rows, c)],
             errors \cup MissedBy(w, rows))

\* The locks: of rows, and of the chain
Apart(v, w) ==
    /\ v.held \cap w.held = {}
    /\ ~v.chain \/ ~w.chain

LogInv ==
    /\ Types
    /\ \A s \in Sessions : InOrder(work[s], row) /\ Sees(work[s], row, log, unlogged)
    /\ \A s, o \in Sessions : s # o => Apart(work[s], work[o])
    /\ Faithful(log, row, unlogged)

\* A process has one transaction at a time, and an answer is about a change that
\* was made when there is a single process.
AnswersInv ==
    /\ \A s \in Sessions : work[s] # Idle =>
          /\ s[1] \in fleet
          /\ \A o \in Sessions : o[1] = s[1] /\ o # s => work[o] = Idle
    /\ OneProcessKeepsAnswers

\* What the invariant says of the committed log is LogIsFaithful.
LEMMA FaithfulMeans ==
    ASSUME log \in Seq(Entry), Faithful(log, row, unlogged)
    PROVE  LogIsFaithful
<1>1. \A i \in 1..Len(log) : /\ log[i].change \in Told(log)
                             /\ log[i].change \in Change
                             /\ log[i].change = <<log[i].change[1], log[i].change[2]>>
                             /\ log[i].change[1] \in Contracts
                             /\ log[i].change[2] \in DOMAIN From
  <2>. SUFFICES ASSUME NEW i \in 1..Len(log)
                PROVE  log[i].change \in Told(log) /\ log[i].change \in Change
    BY DEF Change
  <2>1. log[i] \in Entry
    BY ElementOfSeq
  <2>. QED
    BY <2>1 DEF Told, Entry
<1>2. Verifies
  BY DEF Faithful, Chained, Verifies
<1>3. ASSUME NEW i \in 1..Len(log), NEW j \in 1..Len(log), log[i].change = log[j].change
      PROVE  i = j \/ Acceptance(i)
  BY <1>1, <1>3 DEF Faithful, Right, TellsOnce, Acceptance
<1>4. ASSUME NEW i \in 1..Len(log), log[i].change \in unlogged
      PROVE  Acceptance(i)
  <2>. DEFINE c == log[i].change[1]
              t == log[i].change[2]
  <2>1. /\ c \in Contracts /\ t \in DOMAIN From /\ log[i].change = <<c, t>>
        /\ log[i].change \in Told(log)
    BY <1>1
  <2>. HIDE DEF c, t
  <2>2. <<c, t>> \in Told(log) \cap unlogged
    BY <1>4, <2>1
  <2>3. t = "ACTIVE"
    BY <2>1, <2>2 DEF Faithful, Right
  <2>. QED
    BY <2>3 DEF Acceptance, t
<1>5. ASSUME NEW c \in Contracts
      PROVE  UpToDate(c)
  BY DEF Faithful, Right, Tells, Mute, Told, UpToDate, Logged, Silent, Acceptance
<1>. QED
  BY <1>2, <1>3, <1>4, <1>5 DEF LogIsFaithful

\* A session without work is in order, sees the committed log and is apart from
\* every other.
LEMMA IdleFacts ==
    ASSUME NEW rows, NEW rest \in Seq(Entry), NEW errors, Faithful(rest, rows, errors)
    PROVE  /\ Idle \in Work
           /\ InOrder(Idle, rows) /\ Sees(Idle, rows, rest, errors)
           /\ \A w \in Work : Apart(Idle, w) /\ Apart(w, Idle)
<1>1. Idle \in Work
  BY EmptySeq DEF Idle, Work
<1>2. Told(Idle.entries) = {}
  BY DEF Idle, Told
<1>3. InOrder(Idle, rows)
  BY <1>2 DEF Idle, InOrder
<1>4. rest \o Idle.entries = rest
  BY ConcatEmptySeq DEF Idle
<1>5. /\ \A c \in Contracts : After(Idle, rows, c) = rows[c]
      /\ errors \cup MissedBy(Idle, rows) = errors
  BY DEF Idle, After, MissedBy
<1>6. Sees(Idle, rows, rest, errors)
  BY <1>4, <1>5 DEF Sees, Faithful
<1>. QED
  BY <1>1, <1>3, <1>6 DEF Idle, Apart

(***************************************************************************)
(* The steps                                                               *)
(***************************************************************************)

\* A step of one session that commits nothing
LEMMA OneSession ==
    ASSUME LogInv, NEW s \in Sessions, NEW w \in Work,
           work' = [work EXCEPT ![s] = w], UNCHANGED <<row, log, unlogged>>,
           InOrder(w, row), Sees(w, row, log, unlogged),
           \A o \in Sessions \ {s} : Apart(w, work[o]) /\ Apart(work[o], w)
    PROVE  LogInv'
<1>1. /\ work' \in [Sessions -> Work] /\ work'[s] = w
      /\ \A o \in Sessions \ {s} : work'[o] = work[o]
  BY DEF LogInv, Types
<1>2. Types'
  BY <1>1 DEF LogInv, Types
<1>3. \A o \in Sessions : InOrder(work'[o], row') /\ Sees(work'[o], row', log', unlogged')
  BY <1>1 DEF LogInv
<1>4. \A r, o \in Sessions : r # o => Apart(work'[r], work'[o])
  BY <1>1 DEF LogInv
<1>5. Faithful(log', row', unlogged')
  BY DEF LogInv
<1>. QED
  BY <1>2, <1>3, <1>4, <1>5 DEF LogInv

\* The same, when what the session sees of the log stays as it is
LEMMA SameEntries ==
    ASSUME LogInv, NEW s \in Sessions, NEW w \in Work,
           work' = [work EXCEPT ![s] = w], UNCHANGED <<row, log, unlogged>>,
           InOrder(w, row), w.entries = work[s].entries, w.missed = work[s].missed,
           w.chain = work[s].chain,
           w.held \ w.owes = work[s].held \ work[s].owes,
           w.held \ w.owes = {} \/ w.to = work[s].to,
           \A o \in Sessions \ {s} : w.held \cap work[o].held = {}
    PROVE  LogInv'
<1>1. Sees(work[s], row, log, unlogged)
  BY DEF LogInv
<1>2. \A c \in Contracts : After(w, row, c) = After(work[s], row, c)
  BY DEF After
<1>3. MissedBy(w, row) = MissedBy(work[s], row)
  <2>1. w.missed = {} \/ w.to = work[s].to
    BY DEF InOrder
  <2>. QED
    BY <2>1 DEF MissedBy
<1>4. Sees(w, row, log, unlogged)
  BY <1>1, <1>2, <1>3 DEF Sees, Faithful
<1>5. \A o \in Sessions \ {s} : Apart(w, work[o]) /\ Apart(work[o], w)
  BY DEF LogInv, Apart
<1>. QED
  BY <1>4, <1>5, OneSession

\* A session that gives up its work leaves everything in order.
LEMMA RollsBack ==
    ASSUME LogInv, NEW s \in Sessions, work' = [work EXCEPT ![s] = Idle],
           UNCHANGED <<row, log, unlogged>>
    PROVE  LogInv'
<1>1. log \in Seq(Entry) /\ Faithful(log, row, unlogged)
  BY DEF LogInv, Types
<1>2. /\ Idle \in Work /\ InOrder(Idle, row) /\ Sees(Idle, row, log, unlogged)
      /\ \A w \in Work : Apart(Idle, w) /\ Apart(w, Idle)
  BY <1>1, IdleFacts
<1>3. \A o \in Sessions : work[o] \in Work
  BY DEF LogInv, Types
<1>. QED
  BY <1>2, <1>3, OneSession

\* A session begins.
LEMMA BeginKeeps ==
    ASSUME LogInv, NEW s \in Sessions, NEW to \in DOMAIN From, NEW todo \in SUBSET Contracts,
           Begin(s, to, todo)
    PROVE  LogInv'
<1>. DEFINE w == [work[s] EXCEPT !.to = to, !.todo = todo]
<1>1. work[s] = Idle
  <2>1. s[1] \in Processes /\ s[2] \in {"request", "loop"} /\ s = <<s[1], s[2]>>
    BY DEF Sessions
  <2>. QED
    BY <2>1 DEF Begin, Free
<1>2. work' = [work EXCEPT ![s] = w] /\ UNCHANGED <<row, log, unlogged>>
  BY DEF Begin, LogInv, Types
<1>3. /\ w.to = to /\ w.todo = todo /\ w.held = {} /\ w.owes = {} /\ w.missed = {}
      /\ w.chain = FALSE /\ w.entries = <<>>
      /\ w \in Work
  <2>1. w = [to |-> to, todo |-> todo, held |-> {}, owes |-> {}, missed |-> {},
             chain |-> FALSE, entries |-> <<>>]
    <3>1. w = [Idle EXCEPT !.to = to, !.todo = todo]
      BY <1>1
    <3>. HIDE DEF w
    <3>. QED
      BY <3>1 DEF Idle
  <2>2. <<>> \in Seq(Entry)
    BY EmptySeq
  <2>. HIDE DEF w
  <2>. QED
    BY <2>1, <2>2 DEF Work
<1>4. /\ work[s].held = {} /\ work[s].owes = {} /\ work[s].entries = <<>>
      /\ work[s].missed = {} /\ work[s].chain = FALSE
  BY <1>1 DEF Idle
<1>. HIDE DEF w
<1>5. Told(w.entries) = {}
  BY <1>3 DEF Told
<1>6. InOrder(w, row)
  BY <1>3, <1>5 DEF InOrder, From
<1>. QED
  BY <1>2, <1>3, <1>4, <1>6, SameEntries

\* A session has a row and owes its entry.
LEMMA TakeKeeps ==
    ASSUME LogInv, NEW s \in Sessions, NEW c \in Contracts, Take(s, c)
    PROVE  LogInv'
<1>. DEFINE v == work[s]
            w == [v EXCEPT !.todo = @ \ {c}, !.held = @ \cup {c}, !.owes = {c}]
<1>1. v \in Work /\ InOrder(v, row)
  BY DEF LogInv, Types
<1>2. work' = [work EXCEPT ![s] = w] /\ UNCHANGED <<row, log, unlogged>>
  BY DEF Take, LogInv, Types
<1>3. /\ w.to = v.to /\ w.todo = v.todo \ {c} /\ w.held = v.held \cup {c}
      /\ w.owes = {c} /\ w.missed = v.missed /\ w.chain = v.chain /\ w.entries = v.entries
      /\ w \in Work
  BY <1>1 DEF Work
<1>4. /\ c \in v.todo /\ v.owes = {} /\ (v.to = "ACTIVE" \/ row[c] \in From[v.to])
      /\ \A o \in Sessions \ {s} : c \notin work[o].held
  BY DEF Take, GoesOn, RowFree, Others
<1>. HIDE DEF w, v
<1>5. w.held \ w.owes = v.held \ v.owes
  BY <1>1, <1>3, <1>4 DEF InOrder
<1>6. InOrder(w, row)
  <2>1. w.to = "NONE" => w.todo = {} /\ w.held = {}
    BY <1>1, <1>3, <1>4 DEF InOrder
  <2>2. w.todo \cap w.held = {}
    BY <1>1, <1>3 DEF InOrder
  <2>3. \A x \in Told(w.entries) : x[1] \in w.held
    BY <1>1, <1>3 DEF InOrder
  <2>4. \A d \in w.held : w.to = "ACTIVE" \/ row[d] \in From[w.to]
    BY <1>1, <1>3, <1>4 DEF InOrder
  <2>5. w.missed \subseteq w.held \ w.owes /\ (w.entries = <<>> \/ w.chain)
    BY <1>1, <1>3, <1>5 DEF InOrder
  <2>. QED
    BY <1>3, <2>1, <2>2, <2>3, <2>4, <2>5 DEF InOrder
<1>7. \A o \in Sessions \ {s} : w.held \cap work[o].held = {}
  BY <1>3, <1>4 DEF LogInv, Apart, v
<1>. QED
  BY <1>2, <1>3, <1>5, <1>6, <1>7, SameEntries DEF v

\* A session finds the row in another state.
LEMMA RefuseKeeps ==
    ASSUME LogInv, NEW s \in Sessions, NEW c \in Contracts, Refuse(s, c)
    PROVE  LogInv'
<1>1. UNCHANGED <<row, log, unlogged>>
  BY DEF Refuse
<1>2. CASE s[2] = "request"
  BY <1>1, <1>2, RollsBack DEF Refuse
<1>3. CASE s[2] # "request"
  <2>. DEFINE v == work[s]
              w == [v EXCEPT !.todo = @ \ {c}]
  <2>1. v \in Work /\ InOrder(v, row)
    BY DEF LogInv, Types
  <2>2. work' = [work EXCEPT ![s] = w]
    BY <1>3 DEF Refuse, LogInv, Types
  <2>3. /\ w.to = v.to /\ w.todo = v.todo \ {c} /\ w.held = v.held /\ w.owes = v.owes
        /\ w.missed = v.missed /\ w.chain = v.chain /\ w.entries = v.entries
        /\ w \in Work
    BY <2>1 DEF Work
  <2>. HIDE DEF w, v
  <2>4. InOrder(w, row)
    BY <2>1, <2>3 DEF InOrder
  <2>5. \A o \in Sessions \ {s} : w.held \cap work[o].held = {}
    BY <2>3 DEF LogInv, Apart, v
  <2>. QED
    BY <1>1, <2>2, <2>3, <2>4, <2>5, SameEntries DEF v
<1>. QED
  BY <1>2, <1>3

\* What a session has, when an entry of it is due
LEMMA Due ==
    ASSUME LogInv, NEW s \in Sessions, NEW c \in work[s].owes
    PROVE  /\ work[s].owes = {c} /\ c \in work[s].held /\ c \in Contracts
           /\ work[s].to \in DOMAIN From /\ c \notin work[s].missed
           /\ \A d : (d \in work[s].held <=> d = c \/ d \in work[s].held \ work[s].owes)
           /\ Right(log \o work[s].entries, c, row[c], unlogged \cup MissedBy(work[s], row))
           /\ work[s].to = "ACTIVE" \/ row[c] \in From[work[s].to]
<1>1. work[s] \in Work /\ InOrder(work[s], row) /\ Sees(work[s], row, log, unlogged)
  BY DEF LogInv, Types
<1>2. work[s].owes = {c} /\ c \in work[s].held /\ c \in Contracts
  BY <1>1 DEF InOrder, Work
<1>3. work[s].to # "NONE"
  BY <1>1, <1>2 DEF InOrder
<1>4. work[s].to \in DOMAIN From
  BY <1>1, <1>3 DEF Work
<1>5. After(work[s], row, c) = row[c]
  BY <1>2 DEF After
<1>6. Right(log \o work[s].entries, c, row[c], unlogged \cup MissedBy(work[s], row))
  BY <1>1, <1>2, <1>5 DEF Sees, Faithful
<1>. QED
  BY <1>1, <1>2, <1>4, <1>6 DEF InOrder

\* The new work of a session whose entry is written or lost is in order.
LEMMA DoneWith ==
    ASSUME LogInv, NEW s \in Sessions, NEW c \in work[s].owes, NEW w \in Work,
           /\ w.to = work[s].to /\ w.todo = work[s].todo /\ w.held = work[s].held
           /\ w.owes = {},
           w.missed \subseteq work[s].missed \cup {c},
           \A x \in Told(w.entries) : x[1] \in work[s].held,
           w.entries = <<>> \/ w.chain,
           w.chain => work[s].chain \/ ChainFree(s)
    PROVE  /\ InOrder(w, row)
           /\ \A o \in Sessions \ {s} : Apart(w, work[o]) /\ Apart(work[o], w)
<1>1. InOrder(work[s], row) /\ c \in work[s].held
  BY Due DEF LogInv
<1>2. InOrder(w, row)
  BY <1>1 DEF InOrder
<1>3. ASSUME NEW o \in Sessions \ {s}
      PROVE  w.held \cap work[o].held = {} /\ (~w.chain \/ ~work[o].chain)
  BY DEF LogInv, Apart, ChainFree, Others
<1>. QED
  BY <1>2, <1>3 DEF Apart

\* A session writes an entry it owes.
LEMMA WriteEntryKeeps ==
    ASSUME LogInv, NEW s \in Sessions, WriteEntry(s)
    PROVE  LogInv'
<1>. DEFINE v == work[s]
            seen == log \o v.entries
            errors == unlogged \cup MissedBy(v, row)
<1>1. PICK c \in v.owes :
          work' = [work EXCEPT
              ![s].entries = Append(@, [change |-> <<c, v.to>>, prev |-> PrevHmac(s)]),
              ![s].owes = {}, ![s].chain = TRUE]
  BY DEF WriteEntry
<1>. DEFINE e == [change |-> <<c, v.to>>, prev |-> PrevHmac(s)]
            w == [v EXCEPT !.entries = Append(v.entries, e), !.owes = {}, !.chain = TRUE]
<1>2. /\ v \in Work /\ InOrder(v, row) /\ Sees(v, row, log, unlogged)
      /\ log \in Seq(Entry)
  BY DEF LogInv, Types
<1>3. UNCHANGED <<row, log, unlogged>> /\ work' = [work EXCEPT ![s] = w]
  BY <1>1 DEF WriteEntry, LogInv, Types
<1>4. /\ v.owes = {c} /\ c \in v.held /\ c \in Contracts /\ v.to \in DOMAIN From
      /\ Right(seen, c, row[c], errors)
      /\ v.to = "ACTIVE" \/ row[c] \in From[v.to]
  BY Due
<1>5. v.entries \in Seq(Entry) /\ seen \in Seq(Entry)
  BY <1>2, ConcatProperties DEF Work
<1>6. e.prev = IF seen = <<>> THEN Genesis ELSE Hmac(seen[Len(seen)])
  BY DEF PrevHmac
<1>7. e \in Entry
  <2>1. e.change \in Change
    BY <1>4 DEF Change
  <2>2. seen # <<>> => seen[Len(seen)] \in Entry
    <3>. HIDE DEF seen
    <3>. QED
      BY <1>5, EmptySeq, ElementOfSeq
  <2>3. e.prev \in {Genesis} \cup Change
    BY <1>6, <2>2 DEF Hmac, Entry
  <2>. HIDE DEF seen
  <2>. QED
    BY <2>1, <2>3 DEF Entry
<1>8. e.change = <<c, v.to>>
  OBVIOUS
<1>9. /\ w.to = v.to /\ w.todo = v.todo /\ w.held = v.held /\ w.owes = {}
      /\ w.missed = v.missed /\ w.chain /\ w.entries = Append(v.entries, e)
  BY <1>2 DEF Work
<1>. HIDE DEF e, v
<1>10. w.entries \in Seq(Entry)
  BY <1>5, <1>7, <1>9, Longer
<1>11. w \in Work
  <2>1. w = [v EXCEPT !.entries = Append(v.entries, e), !.owes = {}, !.chain = TRUE]
        /\ Append(v.entries, e) \in Seq(Entry)
    BY <1>9, <1>10
  <2>. QED
    BY <1>2, <2>1 DEF Work
<1>12. log \o w.entries = Append(seen, e)
  BY <1>2, <1>5, <1>7, <1>9
<1>. HIDE DEF w, seen, errors
<1>13. Told(w.entries) = Told(v.entries) \cup {<<c, v.to>>}
  BY <1>5, <1>7, <1>8, <1>9, ToldLonger
<1>14. \A x \in Told(w.entries) : x[1] \in v.held
  BY <1>2, <1>4, <1>13 DEF InOrder
<1>15. /\ InOrder(w, row)
       /\ \A o \in Sessions \ {s} : Apart(w, work[o]) /\ Apart(work[o], w)
  <2>1. ChainFree(s)
    BY DEF WriteEntry
  <2>2. c \in work[s].owes /\ v = work[s]
    BY <1>4 DEF v
  <2>. QED
    BY <1>9, <1>11, <1>14, <2>1, <2>2, DoneWith
<1>16. MissedBy(w, row) = MissedBy(v, row)
  BY <1>9 DEF MissedBy
<1>17. Chained(Append(seen, e))
  <2>1. Chained(seen)
    BY <1>2 DEF Sees, Faithful, seen
  <2>. QED
    BY <1>5, <1>6, <1>7, <2>1, ChainedLonger DEF seen
<1>18. ASSUME NEW d \in Contracts
       PROVE  Right(Append(seen, e), d, After(w, row, d), errors)
  <2>1. CASE d = c /\ row[c] \in From[v.to]
    <3>1. After(w, row, c) = v.to
      BY <1>4, <1>9, <2>1 DEF After
    <3>. QED
      BY <1>4, <1>5, <1>7, <1>8, <2>1, <3>1, MovedAndTold
  <2>2. CASE d = c /\ row[c] \notin From[v.to]
    <3>1. After(w, row, c) = row[c] /\ v.to = "ACTIVE" /\ row[c] # "PROPOSED"
      BY <1>4, <1>9, <2>2 DEF After, From
    <3>. QED
      BY <1>4, <1>5, <1>7, <1>8, <2>2, <3>1, AcceptedAgain
  <2>3. CASE d # c
    <3>1. After(w, row, d) = After(v, row, d)
      BY <1>4, <1>9, <2>3 DEF After
    <3>2. Right(seen, d, After(w, row, d), errors)
      BY <1>2, <3>1 DEF Sees, Faithful, seen, errors
    <3>3. Append(seen, e) = seen \o <<e>> /\ <<e>> \in Seq(Entry)
      BY <1>5, <1>7, AppendIsConcat
    <3>4. \A x \in Told(<<e>>) : x[1] # d
      <4>1. Told(<<e>>) = {e.change}
        BY DEF Told
      <4>. QED
        BY <1>8, <2>3, <4>1
    <3>. QED
      BY <1>5, <3>2, <3>3, <3>4, OthersTold
  <2>. QED
    BY <2>1, <2>2, <2>3
<1>19. Sees(w, row, log, unlogged)
  BY <1>12, <1>16, <1>17, <1>18 DEF Sees, Faithful, errors
<1>. QED
  BY <1>3, <1>11, <1>15, <1>19, OneSession

\* A session loses an entry it owes.
LEMMA MissEntryKeeps ==
    ASSUME LogInv, NEW s \in Sessions, MissEntry(s)
    PROVE  LogInv'
<1>. DEFINE v == work[s]
            seen == log \o v.entries
            errors == unlogged \cup MissedBy(v, row)
<1>1. PICK locked \in BOOLEAN :
          /\ locked => ChainFree(s)
          /\ work' = [work EXCEPT ![s].missed = @ \cup v.owes, ![s].owes = {},
                                  ![s].chain = @ \/ locked]
  BY DEF MissEntry
<1>2. PICK c \in v.owes : TRUE
  BY DEF MissEntry
<1>. DEFINE w == [v EXCEPT !.missed = v.missed \cup {c}, !.owes = {}, !.chain = v.chain \/ locked]
<1>3. /\ v \in Work /\ InOrder(v, row) /\ Sees(v, row, log, unlogged)
      /\ log \in Seq(Entry)
  BY DEF LogInv, Types
<1>4. /\ v.owes = {c} /\ c \in v.held /\ c \in Contracts /\ v.to \in DOMAIN From
      /\ c \notin v.missed
      /\ Right(seen, c, row[c], errors)
  BY <1>2, Due
<1>5. UNCHANGED <<row, log, unlogged>> /\ work' = [work EXCEPT ![s] = w]
  BY <1>1, <1>4 DEF MissEntry, LogInv, Types
<1>6. /\ w.to = v.to /\ w.todo = v.todo /\ w.held = v.held /\ w.owes = {}
      /\ w.missed = v.missed \cup {c} /\ w.chain = (v.chain \/ locked)
      /\ w.entries = v.entries /\ w \in Work
  BY <1>3, <1>4 DEF Work
<1>. HIDE DEF w, v
<1>7. /\ InOrder(w, row)
      /\ \A o \in Sessions \ {s} : Apart(w, work[o]) /\ Apart(work[o], w)
  <2>1. /\ w.missed \subseteq v.missed \cup {c}
        /\ \A x \in Told(w.entries) : x[1] \in v.held
        /\ w.entries = <<>> \/ w.chain
        /\ w.chain => v.chain \/ ChainFree(s)
    BY <1>1, <1>3, <1>6 DEF InOrder
  <2>. QED
    BY <1>4, <1>6, <2>1, DoneWith DEF v
<1>. HIDE DEF seen, errors
<1>8. ASSUME row[c] \in From[v.to]
      PROVE  \A d \in Contracts : Right(seen, d, After(w, row, d), unlogged \cup MissedBy(w, row))
  <2>1. unlogged \cup MissedBy(w, row) = errors \cup {<<c, v.to>>}
    BY <1>6, <1>8 DEF MissedBy, errors
  <2>2. After(w, row, c) = v.to
    BY <1>4, <1>6, <1>8 DEF After
  <2>3. Right(seen, c, v.to, errors \cup {<<c, v.to>>})
    BY <1>4, <1>8, MovedAndMissed
  <2>4. ASSUME NEW d \in Contracts, d # c
        PROVE  Right(seen, d, After(w, row, d), errors \cup {<<c, v.to>>})
    <3>1. After(w, row, d) = After(v, row, d)
      BY <1>4, <1>6, <2>4 DEF After
    <3>2. Right(seen, d, After(w, row, d), errors)
      BY <1>3, <3>1 DEF Sees, Faithful, seen, errors
    <3>3. \A u : <<d, u>> \in errors <=> <<d, u>> \in errors \cup {<<c, v.to>>}
      BY <2>4
    <3>. QED
      BY <3>2, <3>3, OthersMissing
  <2>. QED
    BY <2>1, <2>2, <2>3, <2>4
<1>9. ASSUME row[c] \notin From[v.to]
      PROVE  \A d \in Contracts : Right(seen, d, After(w, row, d), unlogged \cup MissedBy(w, row))
  <2>1. unlogged \cup MissedBy(w, row) = errors
    BY <1>6, <1>9 DEF MissedBy, errors
  <2>2. \A d \in Contracts : After(w, row, d) = After(v, row, d)
    BY <1>4, <1>6, <1>9 DEF After
  <2>. QED
    BY <1>3, <2>1, <2>2 DEF Sees, Faithful, seen, errors
<1>10. Chained(seen) /\ seen = log \o w.entries
  BY <1>3, <1>6 DEF Sees, Faithful, seen
<1>11. Sees(w, row, log, unlogged)
  BY <1>8, <1>9, <1>10 DEF Sees, Faithful
<1>. QED
  BY <1>5, <1>6, <1>7, <1>11, OneSession

\* To commit is to make what the session sees the log.
LEMMA Committed ==
    ASSUME LogInv, NEW s \in Sessions, Commit(s)
    PROVE  /\ row' = [c \in Contracts |-> After(work[s], row, c)]
           /\ log' = log \o work[s].entries /\ log' \in Seq(Entry)
           /\ unlogged' = unlogged \cup MissedBy(work[s], row)
           /\ row' \in [Contracts -> States]
           /\ Faithful(log', row', unlogged')
           /\ \A c \in work[s].held : c \in Contracts /\ row'[c] =
                 IF row[c] \in From[work[s].to] THEN work[s].to ELSE row[c]
           /\ \A c \in Contracts \ work[s].held : row'[c] = row[c]
<1>. DEFINE v == work[s]
<1>1. /\ v \in Work /\ InOrder(v, row) /\ Sees(v, row, log, unlogged)
      /\ log \in Seq(Entry) /\ row \in [Contracts -> States]
  BY DEF LogInv, Types
<1>2. v.owes = {} /\ v.to \in DOMAIN From /\ v.entries \in Seq(Entry) /\ v.held \in SUBSET Contracts
  BY <1>1 DEF Commit, Work
<1>3. Moved(s) = {c \in v.held : row[c] \in From[v.to]}
  BY DEF Moved
<1>4. row' = [c \in Contracts |-> After(v, row, c)]
  <2>1. row' = [c \in Contracts |-> IF c \in Moved(s) THEN v.to ELSE row[c]]
    BY DEF Commit
  <2>2. \A c \in Contracts : After(v, row, c) = IF c \in Moved(s) THEN v.to ELSE row[c]
    BY <1>2, <1>3 DEF After
  <2>. HIDE DEF v
  <2>. QED
    BY <2>1, <2>2
<1>5. log' = log \o v.entries /\ log' \in Seq(Entry)
  BY <1>1, <1>2, ConcatProperties DEF Commit
<1>6. unlogged' = unlogged \cup MissedBy(v, row)
  <2>1. Moved(s) \cap v.missed = {c \in v.missed : row[c] \in From[v.to]}
    BY <1>1, <1>3 DEF InOrder
  <2>2. unlogged' = unlogged \cup {<<c, v.to>> : c \in Moved(s) \cap v.missed}
    BY DEF Commit
  <2>. HIDE DEF v
  <2>. QED
    BY <2>1, <2>2 DEF MissedBy
<1>. HIDE DEF v
<1>7. \A c \in Contracts : After(v, row, c) \in States
  BY <1>1, <1>2 DEF After, States
<1>8. Faithful(log', row', unlogged')
  BY <1>1, <1>4, <1>5, <1>6 DEF Sees
<1>9. /\ \A c \in v.held : c \in Contracts /\ row'[c] =
            IF row[c] \in From[v.to] THEN v.to ELSE row[c]
      /\ \A c \in Contracts \ v.held : row'[c] = row[c]
  BY <1>2, <1>4 DEF After
<1>. QED
  BY <1>4, <1>5, <1>6, <1>7, <1>8, <1>9 DEF v

\* What the others see is right for the new log, too: they have other rows, and
\* one of the two at most has the chain.
LEMMA OthersSee ==
    ASSUME LogInv, NEW s \in Sessions, Commit(s), NEW o \in Sessions \ {s}
    PROVE  InOrder(work[o], row') /\ Sees(work[o], row', log', unlogged')
<1>. DEFINE v == work[s]
            u == work[o]
            errors == unlogged \cup MissedBy(v, row)
            mine == unlogged \cup MissedBy(u, row)
            all == unlogged' \cup MissedBy(u, row')
<1>1. /\ v \in Work /\ InOrder(v, row)
      /\ u \in Work /\ InOrder(u, row) /\ Sees(u, row, log, unlogged)
      /\ Apart(v, u) /\ log \in Seq(Entry)
      /\ v.entries \in Seq(Entry) /\ u.entries \in Seq(Entry)
  BY DEF LogInv, Types, Work
<1>2. /\ log' = log \o v.entries /\ log' \in Seq(Entry)
      /\ unlogged' = errors
      /\ Faithful(log', row', unlogged')
      /\ \A c \in Contracts \ v.held : row'[c] = row[c]
  BY Committed
<1>3. \A c \in u.held : c \in Contracts /\ c \notin v.held /\ row'[c] = row[c]
  BY <1>1, <1>2 DEF Apart, Work
<1>. HIDE DEF v, u
<1>4. InOrder(u, row')
  BY <1>1, <1>3 DEF InOrder
<1>5. v.missed \subseteq v.held /\ u.missed \subseteq u.held
  BY <1>1 DEF InOrder
<1>6. MissedBy(u, row') = MissedBy(u, row)
  <2>1. {d \in u.missed : row'[d] \in From[u.to]} = {d \in u.missed : row[d] \in From[u.to]}
    BY <1>3, <1>5
  <2>. QED
    BY <2>1 DEF MissedBy
<1>7. all = errors \cup mine
  BY <1>2, <1>6
<1>8. \A c \in u.held : \A t : <<c, t>> \in mine <=> <<c, t>> \in all
  BY <1>3, <1>5, <1>7 DEF MissedBy
<1>9. \A c, t : c \notin u.held => (<<c, t>> \in errors <=> <<c, t>> \in all)
  BY <1>5, <1>7 DEF MissedBy
<1>10. \A c \in Contracts : After(u, row', c) =
          IF c \in u.held THEN After(u, row, c) ELSE row'[c]
  BY <1>3 DEF After
<1>11. v.entries = <<>> \/ u.entries = <<>>
  BY <1>1 DEF InOrder, Apart
<1>12. /\ \A x \in Told(v.entries) : x[1] \in v.held
       /\ \A x \in Told(u.entries) : x[1] \in u.held
  BY <1>1 DEF InOrder
<1>. HIDE DEF errors, mine, all
<1>13. ASSUME NEW c \in Contracts
       PROVE  Right(log' \o u.entries, c, After(u, row', c), all)
  <2>1. CASE c \in u.held
    <3>1. Right(log \o u.entries, c, After(u, row, c), mine)
      BY <1>1 DEF Sees, Faithful, mine
    <3>2. Right(log' \o u.entries, c, After(u, row, c), mine)
      <4>1. CASE v.entries = <<>>
        BY <1>1, <1>2, <3>1, <4>1, ConcatEmptySeq
      <4>2. CASE u.entries = <<>>
        <5>1. log \o u.entries = log /\ log' \o u.entries = log'
          BY <1>1, <1>2, <4>2, ConcatEmptySeq
        <5>2. \A x \in Told(v.entries) : x[1] # c
          BY <1>3, <1>12, <2>1
        <5>3. Right(log \o v.entries, c, After(u, row, c), mine)
          BY <1>1, <3>1, <5>1, <5>2, OthersTold
        <5>. QED
          BY <1>2, <5>1, <5>3
      <4>. QED
        BY <1>11, <4>1, <4>2
    <3>. QED
      BY <1>8, <1>10, <2>1, <3>2, OthersMissing
  <2>2. CASE c \notin u.held
    <3>1. Right(log', c, row'[c], errors)
      BY <1>2 DEF Faithful
    <3>2. \A x \in Told(u.entries) : x[1] # c
      BY <1>12, <2>2
    <3>3. Right(log' \o u.entries, c, row'[c], errors)
      BY <1>1, <1>2, <3>1, <3>2, OthersTold
    <3>. QED
      BY <1>9, <1>10, <2>2, <3>3, OthersMissing
  <2>. QED
    BY <2>1, <2>2
<1>14. Chained(log' \o u.entries)
  <2>1. CASE v.entries = <<>>
    BY <1>1, <1>2, <2>1, ConcatEmptySeq DEF Sees, Faithful
  <2>2. CASE u.entries = <<>>
    BY <1>2, <2>2, ConcatEmptySeq DEF Faithful
  <2>. QED
    BY <1>11, <2>1, <2>2
<1>15. Sees(u, row', log', unlogged')
  BY <1>13, <1>14 DEF Sees, Faithful, all
<1>. QED
  BY <1>4, <1>15 DEF u

\* A session commits.
LEMMA CommitKeeps ==
    ASSUME LogInv, NEW s \in Sessions, Commit(s)
    PROVE  LogInv'
<1>1. /\ log' \in Seq(Entry) /\ row' \in [Contracts -> States]
      /\ Faithful(log', row', unlogged')
  BY Committed
<1>2. /\ work'[s] = Idle /\ (\A o \in Sessions \ {s} : work'[o] = work[o])
      /\ DOMAIN work' = Sessions /\ work' = [o \in Sessions |-> work'[o]]
  BY DEF Commit, LogInv, Types
<1>3. /\ Idle \in Work
      /\ InOrder(Idle, row') /\ Sees(Idle, row', log', unlogged')
      /\ \A w \in Work : Apart(Idle, w) /\ Apart(w, Idle)
  BY <1>1, IdleFacts
<1>4. \A o \in Sessions : work[o] \in Work
  BY DEF LogInv, Types
<1>5. Types'
  BY <1>1, <1>2, <1>3, <1>4 DEF Types
<1>6. \A o \in Sessions : InOrder(work'[o], row') /\ Sees(work'[o], row', log', unlogged')
  BY <1>2, <1>3, OthersSee
<1>7. \A r, o \in Sessions : r # o => Apart(work'[r], work'[o])
  BY <1>2, <1>3, <1>4 DEF LogInv
<1>. QED
  BY <1>1, <1>5, <1>6, <1>7 DEF LogInv

\* Every step keeps the invariant of the log.
LEMMA LogStep == LogInv /\ [Next]_vars => LogInv'
<1>. SUFFICES ASSUME LogInv, [Next]_vars PROVE LogInv'
  OBVIOUS
<1>1. ASSUME NEW s \in Sessions, NEW c \in Contracts, NEW to \in DOMAIN From, Request(s, c, to)
      PROVE  LogInv'
  <2>1. {c} \in SUBSET Contracts /\ Begin(s, to, {c})
    BY <1>1 DEF Request
  <2>. QED
    BY <2>1, BeginKeeps
<1>2. ASSUME NEW s \in Sessions, NEW overdue \in SUBSET Contracts, Enforce(s, overdue)
      PROVE  LogInv'
  <2>1. "BREACHED" \in DOMAIN From /\ Begin(s, "BREACHED", overdue)
    BY <1>2 DEF Enforce, From
  <2>. QED
    BY <2>1, BeginKeeps
<1>3. ASSUME NEW s \in Sessions, Cancel(s) \/ Abort(s)
      PROVE  LogInv'
  <2>1. work' = [work EXCEPT ![s] = Idle] /\ UNCHANGED <<row, log, unlogged>>
    BY <1>3 DEF Cancel, Abort, Aborted, AfterCancel
  <2>. QED
    BY <2>1, RollsBack
<1>4. ASSUME NEW s \in Sessions, Step(s)
      PROVE  LogInv'
  BY <1>3, <1>4, TakeKeeps, RefuseKeeps, WriteEntryKeeps, MissEntryKeeps, CommitKeeps DEF Step
<1>5. CASE UNCHANGED vars
  <2>1. UNCHANGED <<row, log, unlogged, work>>
    BY <1>5 DEF vars
  <2>2. Types' /\ Faithful(log', row', unlogged')
    BY <2>1 DEF LogInv, Types
  <2>. QED
    BY <2>1, <2>2 DEF LogInv
<1>. QED
  BY <1>1, <1>2, <1>3, <1>4, <1>5 DEF Next

\* It holds at first.
LEMMA LogStart == Init => LogInv
<1>. SUFFICES ASSUME Init PROVE LogInv
  OBVIOUS
<1>1. row \in [Contracts -> States] /\ log \in Seq(Entry) /\ Len(log) = 0 /\ unlogged = {}
  BY EmptySeq DEF Init, States
<1>2. Told(log) = {}
  BY <1>1 DEF Told
<1>3. ASSUME NEW c \in Contracts
      PROVE  Right(log, c, row[c], unlogged)
  <2>1. row[c] = "PROPOSED"
    BY DEF Init
  <2>2. Tells(log, c, row[c])
    BY <1>1, <2>1 DEF Tells
  <2>3. TellsOnce(log, c)
    BY <1>1 DEF TellsOnce
  <2>. QED
    BY <1>1, <1>2, <2>1, <2>2, <2>3 DEF Right, Onwards
<1>4. Faithful(log, row, unlogged)
  BY <1>1, <1>3 DEF Faithful, Chained
<1>5. /\ Idle \in Work /\ InOrder(Idle, row) /\ Sees(Idle, row, log, unlogged)
      /\ \A w \in Work : Apart(Idle, w) /\ Apart(w, Idle)
  BY <1>1, <1>4, IdleFacts
<1>6. \A s \in Sessions : work[s] = Idle
  BY DEF Init
<1>7. Types
  BY <1>1, <1>5 DEF Init, Types
<1>. QED
  BY <1>4, <1>5, <1>6, <1>7 DEF LogInv

\* So it always holds.
LEMMA LogHolds == Spec => []LogInv
  BY LogStart, LogStep, PTL DEF Spec

\* The committed log verifies and, acceptances aside, tells of every change once
\* and of each contract last what its row says, but for the entries that Python
\* errors kept out, however transactions overlap, fail and are cancelled.
THEOREM LogSafe == Spec => []LogIsFaithful
<1>1. LogInv => LogIsFaithful
  BY FaithfulMeans DEF LogInv, Types
<1>. QED
  BY <1>1, LogHolds, PTL

(***************************************************************************)
(* The answers                                                             *)
(***************************************************************************)

\* A process has a session for its requests and one for its loop.
LEMMA OtherSessions ==
    ASSUME NEW s \in Sessions
    PROVE  /\ s[1] \in Processes /\ s = <<s[1], s[2]>> /\ s[2] \in {"request", "loop"}
           /\ \A o \in Sessions : o[1] = s[1] => o \in {<<s[1], "request">>, <<s[1], "loop">>}
  BY DEF Sessions

\* Only a session of the fleet with no other in its process has work after a
\* step, if what it had work before is so.
LEMMA OneTransaction ==
    ASSUME LogInv, AnswersInv, NEW s \in Sessions, NEW w,
           work' = [work EXCEPT ![s] = w], UNCHANGED fleet,
           work[s] # Idle \/ Free(s) \/ w = Idle
    PROVE  \A r \in Sessions : work'[r] # Idle =>
              /\ r[1] \in fleet'
              /\ \A o \in Sessions : o[1] = r[1] /\ o # r => work'[o] = Idle
<1>. SUFFICES ASSUME NEW r \in Sessions, work'[r] # Idle
              PROVE  /\ r[1] \in fleet
                     /\ \A o \in Sessions : o[1] = r[1] /\ o # r => work'[o] = Idle
  OBVIOUS
<1>1. work'[s] = w /\ \A o \in Sessions \ {s} : work'[o] = work[o]
  BY DEF LogInv, Types
<1>2. CASE Free(s)
  <2>1. s[1] \in fleet /\ \A o \in Sessions : o[1] = s[1] => work[o] = Idle
    BY <1>2, OtherSessions DEF Free
  <2>2. CASE r = s
    BY <1>1, <2>1, <2>2
  <2>3. CASE r # s
    <3>1. work[r] # Idle /\ r[1] # s[1]
      BY <1>1, <2>1, <2>3
    <3>. QED
      BY <1>1, <3>1 DEF AnswersInv
  <2>. QED
    BY <2>2, <2>3
<1>3. CASE work[s] # Idle
  BY <1>1, <1>3 DEF AnswersInv
<1>4. CASE w = Idle
  BY <1>1, <1>4 DEF AnswersInv
<1>. QED
  BY <1>2, <1>3, <1>4

\* With one process, no session waits for another one.
LEMMA AloneNobodyWaits ==
    ASSUME LogInv, AnswersInv, NEW s \in Sessions, Cancel(s)
    PROVE  ~(\A p, q \in fleet : p = q)
<1>1. PICK o \in Sessions : o # s /\ (work[o].chain \/ work[o].held # {})
  BY DEF Cancel, Waits, ChainFree, RowFree, Others
<1>2. work[o] # Idle
  BY <1>1 DEF Idle
<1>3. work[s] # Idle
  BY DEF Cancel, Waits, Idle
<1>4. o[1] \in fleet /\ s[1] \in fleet /\ o[1] # s[1]
  BY <1>1, <1>2, <1>3 DEF AnswersInv
<1>. QED
  BY <1>4

\* A caller whose transaction committed is told of a change that was made, by it
\* or, of a contract that is accepted again, before.
LEMMA ToldWhatIsMade ==
    ASSUME LogInv, NEW s \in Sessions, Commit(s)
    PROVE  Done(s) \subseteq Told(log') \cup unlogged'
<1>. DEFINE to == work[s].to
<1>1. /\ Faithful(log', row', unlogged')
      /\ \A c \in work[s].held : c \in Contracts /\ row'[c] =
            IF row[c] \in From[to] THEN to ELSE row[c]
      /\ \A c \in work[s].held : to = "ACTIVE" \/ row[c] \in From[to]
      /\ to \in DOMAIN From
  <2>1. work[s] \in Work /\ InOrder(work[s], row)
    BY DEF LogInv, Types
  <2>. QED
    BY <2>1, Committed DEF Commit, InOrder, Work
<1>. SUFFICES ASSUME NEW c \in work[s].held PROVE <<c, to>> \in Told(log') \cup unlogged'
  BY DEF Done
<1>2. Right(log', c, row'[c], unlogged')
  BY <1>1 DEF Faithful
<1>. HIDE DEF to
<1>3. CASE to = "ACTIVE"
  <2>1. row'[c] # "PROPOSED"
    BY <1>1, <1>3 DEF From
  <2>. QED
    BY <1>2, <1>3, <2>1 DEF Right
<1>4. CASE to # "ACTIVE"
  <2>1. row'[c] = to /\ to \notin {"PROPOSED", "ACTIVE"}
    BY <1>1, <1>4 DEF From
  <2>. QED
    BY <1>2, <2>1 DEF Right, Tells, Told
<1>. QED
  BY <1>3, <1>4

\* Every step keeps the answers of a single process in the log.
LEMMA AnswersStep == LogInv /\ AnswersInv /\ [Next]_vars => AnswersInv'
<1>. SUFFICES ASSUME LogInv, AnswersInv, [Next]_vars PROVE AnswersInv'
  OBVIOUS
<1>0. \A s \in Sessions : work = [work EXCEPT ![s] = work[s]]
  BY DEF LogInv, Types
<1>1. ASSUME NEW s \in Sessions, NEW w, work' = [work EXCEPT ![s] = w],
             work[s] # Idle \/ Free(s) \/ w = Idle,
             UNCHANGED <<fleet, log, unlogged, answered>>
      PROVE  AnswersInv'
  <2>1. OneProcessKeepsAnswers'
    BY <1>1 DEF AnswersInv, OneProcessKeepsAnswers, Logged
  <2>. QED
    BY <1>1, <2>1, OneTransaction DEF AnswersInv
<1>2. ASSUME NEW s \in Sessions, NEW to, NEW todo, Begin(s, to, todo)
      PROVE  AnswersInv'
  <2>1. work' = [work EXCEPT ![s] = [work[s] EXCEPT !.to = to, !.todo = todo]]
    BY <1>2 DEF Begin, LogInv, Types
  <2>. QED
    BY <1>1, <1>2, <2>1 DEF Begin
<1>3. ASSUME NEW s \in Sessions, NEW c \in Contracts, Take(s, c)
      PROVE  AnswersInv'
  <2>1. work' = [work EXCEPT ![s] =
            [work[s] EXCEPT !.todo = @ \ {c}, !.held = @ \cup {c}, !.owes = {c}]]
    BY <1>3 DEF Take, LogInv, Types
  <2>2. work[s] # Idle
    BY <1>3 DEF Take, Idle
  <2>. QED
    BY <1>1, <1>3, <2>1, <2>2 DEF Take
<1>4. ASSUME NEW s \in Sessions, NEW c \in Contracts, Refuse(s, c)
      PROVE  AnswersInv'
  <2>1. work' = [work EXCEPT ![s] = IF s[2] = "request" THEN Idle
                                    ELSE [work[s] EXCEPT !.todo = @ \ {c}]]
    BY <1>4 DEF Refuse, LogInv, Types
  <2>2. work[s] # Idle
    BY <1>4 DEF Refuse, Idle
  <2>. QED
    BY <1>1, <1>4, <2>1, <2>2 DEF Refuse
<1>5. ASSUME NEW s \in Sessions, WriteEntry(s)
      PROVE  AnswersInv'
  <2>1. PICK c \in work[s].owes :
            work' = [work EXCEPT
               ![s].entries = Append(@, [change |-> <<c, work[s].to>>, prev |-> PrevHmac(s)]),
               ![s].owes = {}, ![s].chain = TRUE]
    BY <1>5 DEF WriteEntry
  <2>2. work' = [work EXCEPT ![s] = [work[s] EXCEPT
               !.entries = Append(@, [change |-> <<c, work[s].to>>, prev |-> PrevHmac(s)]),
               !.owes = {}, !.chain = TRUE]]
    BY <2>1 DEF LogInv, Types
  <2>3. work[s] # Idle
    BY <2>1 DEF Idle
  <2>. QED
    BY <1>1, <1>5, <2>2, <2>3 DEF WriteEntry
<1>6. ASSUME NEW s \in Sessions, MissEntry(s)
      PROVE  AnswersInv'
  <2>1. PICK locked \in BOOLEAN :
            work' = [work EXCEPT ![s].missed = @ \cup work[s].owes, ![s].owes = {},
                                 ![s].chain = @ \/ locked]
    BY <1>6 DEF MissEntry
  <2>2. work' = [work EXCEPT ![s] = [work[s] EXCEPT
               !.missed = @ \cup work[s].owes, !.owes = {}, !.chain = @ \/ locked]]
    BY <2>1 DEF LogInv, Types
  <2>3. work[s] # Idle
    BY <1>6 DEF MissEntry, Idle
  <2>. QED
    BY <1>1, <1>6, <2>2, <2>3 DEF MissEntry
<1>7. ASSUME NEW s \in Sessions, Commit(s)
      PROVE  AnswersInv'
  <2>1. Done(s) \subseteq Told(log') \cup unlogged'
    BY <1>7, ToldWhatIsMade
  <2>2. Told(log) \subseteq Told(log') /\ unlogged \subseteq unlogged'
    <3>1. log' = log \o work[s].entries /\ log \in Seq(Entry) /\ work[s].entries \in Seq(Entry)
      BY <1>7 DEF Commit, LogInv, Types, Work
    <3>. QED
      BY <1>7, <3>1, ToldTogether DEF Commit
  <2>3. OneProcessKeepsAnswers'
    BY <1>7, <2>1, <2>2 DEF Commit, AnswersInv, OneProcessKeepsAnswers, Logged, Told
  <2>4. work' = [work EXCEPT ![s] = Idle] /\ UNCHANGED fleet
    BY <1>7 DEF Commit
  <2>. QED
    BY <2>3, <2>4, OneTransaction DEF AnswersInv
<1>8. ASSUME NEW s \in Sessions, Cancel(s)
      PROVE  AnswersInv'
  <2>1. work' = [work EXCEPT ![s] = Idle] /\ UNCHANGED fleet
    BY <1>8 DEF Cancel, AfterCancel
  <2>2. OneProcessKeepsAnswers'
    BY <1>8, <2>1, AloneNobodyWaits DEF OneProcessKeepsAnswers
  <2>. QED
    BY <2>1, <2>2, OneTransaction DEF AnswersInv
<1>9. ASSUME NEW s \in Sessions, Abort(s)
      PROVE  AnswersInv'
  BY <1>1, <1>9 DEF Abort
<1>10. CASE UNCHANGED vars
  BY <1>10 DEF vars, AnswersInv, OneProcessKeepsAnswers, Logged
<1>. QED
  BY <1>2, <1>3, <1>4, <1>5, <1>6, <1>7, <1>8, <1>9, <1>10 DEF Next, Step, Request, Enforce

\* With a single process, whoever is told of a change is told of one that was
\* made: the answers to aborted transactions need a second process.
THEOREM AnswersSafe == Spec => []OneProcessKeepsAnswers
<1>1. Init => AnswersInv
  BY DEF Init, AnswersInv, OneProcessKeepsAnswers
<1>2. AnswersInv => OneProcessKeepsAnswers
  BY DEF AnswersInv
<1>. QED
  BY <1>1, <1>2, LogStart, LogStep, AnswersStep, PTL DEF Spec
=============================================================================
